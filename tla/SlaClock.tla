------------------------------ MODULE SlaClock ------------------------------
(***************************************************************************)
(* The SLA clock of one record under one policy (src/app/sla.py), and the  *)
(* maintenance windows that hold it (src/app/maintenance.py).              *)
(*                                                                         *)
(* After every write of the record the writing handler reads the record    *)
(* and the clock, moves the clock, writes the clock's state back to the    *)
(* record in a transaction of its own, and commits the clock.  The         *)
(* scheduler's sweep, on any process, lists the running clocks, marks the  *)
(* overdue ones breached and notifies, then fires the next level of the    *)
(* escalation chain.  Both keep what they read until they commit, and a    *)
(* commit writes the columns the handler changed.                          *)
(*                                                                         *)
(* A status is what the policy makes of it (_applies and _classify): run,  *)
(* pause, stop or none.  One unit of time is what the columns tell apart.  *)
(***************************************************************************)
EXTENDS Integers, Sequences

CONSTANTS
  Workers,             \* processes: each serves writes and runs sweeps
  Classes,             \* the status classes the policy's lists provide for
  Unset,               \* the class of a missing status: run (no start states) or none
  StartOnCreate,
  Target,              \* target_minutes
  Levels,              \* after_minutes of each level of the escalation chain
  Windows,             \* the sets of instants maintenance may be planned for
  MaxTime,             \* bounds the time
  Prompt,              \* handlers and sweeps take no time
  StaleWritesRefused,  \* the server refuses to update a row that changed since
                       \* the snapshot (MariaDB from 11.6.2) or not (MySQL)
  MayFail,             \* sweeps may die between a notice and their commit
  Null

ASSUME SlaAssumption ==
  /\ Classes \subseteq {"run", "pause", "stop", "none"}
  /\ Unset \in {"run", "none"}
  /\ Target \in Nat \ {0}
  /\ Levels \in Seq(Nat)
  /\ MaxTime \in Nat
  /\ \A s \in Windows : s \subseteq Nat
  /\ {StartOnCreate, Prompt, StaleWritesRefused, MayFail} \subseteq BOOLEAN
  /\ Null \notin Int

VARIABLES
  time,
  window,  \* the instants of planned maintenance
  status,  \* the record's status, "absent" before it is created, "deleted" after
  shown,   \* the record's SLA state field (the policy's write-back)
  clock,   \* the SlaClock row
  spent,   \* history: time the record has spent in a running status
  sent,    \* history: breach notices delivered
  fired,   \* history: deliveries of each escalation level
  pc,
  job      \* a handler's locals: event, now, the clock it read and its own version

vars == <<time, window, status, shown, clock, spent, sent, fired, pc, job>>
record == <<status, shown>>
notices == <<sent, fired>>

Terminal == {"met", "breached", "stopped"}
ClockStates == {"none", "running", "paused"} \cup Terminal
Instants == Int \cup {Null}
Clocks == [state : ClockStates, due : Instants, rem : Instants, at : Instants,
           notified : BOOLEAN, level : 0 .. Len(Levels)]
NoClock == [state |-> "none", due |-> Null, rem |-> Null, at |-> Null,
            notified |-> FALSE, level |-> 0]

\* Deliveries are counted as none, one or many: this bounds their number.
Many == 2
OneMore(n) == IF n < Many THEN n + 1 ELSE n

Events == {"create", "update", "delete", "sweep"}
Job == [event : Events, now : Nat, snap : Clocks, new : Clocks]
NewJob == [event |-> "sweep", now |-> 0, snap |-> NoClock, new |-> NoClock]

\* The clock, the record and every handler's versions of the clock are well
\* formed; the record only ever shows the policy's own states.
TypeOK ==
  /\ time \in 0 .. MaxTime
  /\ window \in Windows
  /\ status \in Classes \cup {"absent", "deleted"}
  /\ shown \in {"none", "active", "paused", "met", "breached"}
  /\ clock \in Clocks
  /\ spent \in 0 .. MaxTime
  /\ sent \in 0 .. Many
  /\ fired \in [1 .. Len(Levels) -> 0 .. Many]
  /\ pc \in [Workers -> {"idle", "written", "reacted", "shown", "sweeping", "listed",
                         "marking", "chaining", "chained"}]
  /\ job \in [Workers -> Job]

Init ==
  /\ time = 0
  /\ window \in Windows
  /\ status = "absent"
  /\ shown = "none"
  /\ clock = NoClock
  /\ spent = 0
  /\ sent = 0
  /\ fired = [l \in 1 .. Len(Levels) |-> 0]
  /\ pc = [w \in Workers |-> "idle"]
  /\ job = [w \in Workers |-> NewJob]

Goto(w, l) == pc' = [pc EXCEPT ![w] = l]

Finished(w) == Goto(w, "idle") /\ job' = [job EXCEPT ![w] = NewJob]

\* Time spent counts while the record is in a running status and its clock,
\* once started, is not over.
Tick ==
  /\ time < MaxTime
  /\ Prompt => \A w \in Workers : pc[w] = "idle"
  /\ time' = time + 1
  /\ spent' = IF status = "run" /\ clock.state \in {"running", "paused"}
              THEN spent + 1 ELSE spent
  /\ UNCHANGED <<window, record, clock, notices, pc, job>>

-----------------------------------------------------------------------------
(* The clock's transitions: pure functions of the clock and an instant. *)

Started(now) == [NoClock EXCEPT !.state = "running", !.due = now + Target]

Paused(c, now) ==
  [c EXCEPT !.state = "paused",
            !.rem = IF c.due = Null THEN @ ELSE IF c.due > now THEN c.due - now ELSE 0,
            !.due = Null]

\* Mutant: the clock starts over.
ResumedAfresh(c, now) ==
  [c EXCEPT !.state = "running", !.due = now + Target, !.rem = Null]

Resumed(c, now) ==
  [c EXCEPT !.state = "running",
            !.due = now + (IF c.rem = Null THEN 0 ELSE c.rem),
            !.rem = Null]

Late(c, now) == c.state = "breached" \/ (c.due # Null /\ now > c.due)

Stopped(c, now) ==
  [c EXCEPT !.state = IF Late(c, now) THEN "breached" ELSE "met",
            !.at = IF ~Late(c, now) \/ @ # Null THEN @
                   ELSE IF c.due # Null THEN c.due ELSE now,
            !.rem = Null]

\* A clock starts with the first event that finds the record in a status that
\* counts; with its creation only if the policy says so.
Starts(event, c, class) ==
  /\ c.state = "none"
  /\ class \in {"run", "pause"}
  /\ event = "update" \/ (event = "create" /\ StartOnCreate)

\* Mutant: a paused clock is not resumed.
MovedNotResumed(event, c, class, now) ==
  CASE Starts(event, c, class) ->
         IF class = "pause" THEN Paused(Started(now), now) ELSE Started(now)
    [] c.state = "running" /\ class = "pause" -> Paused(c, now)
    [] c.state \in {"running", "paused"} /\ class = "stop" -> Stopped(c, now)
    [] OTHER -> c

\* _apply: what an event makes of the clock, given the record's status class.
Moved(event, c, class, now) ==
  LET active == c.state \in {"running", "paused"}
  IN CASE Starts(event, c, class) ->
            IF class = "pause" THEN Paused(Started(now), now) ELSE Started(now)
       [] active /\ (event = "delete" \/ class = "none") -> [c EXCEPT !.state = "stopped"]
       [] active /\ event # "delete" /\ class = "stop" -> Stopped(c, now)
       [] c.state = "running" /\ event # "delete" /\ class = "pause" -> Paused(c, now)
       [] c.state = "paused" /\ event # "delete" /\ class = "run" -> Resumed(c, now)
       [] OTHER -> c

\* _state_token, on_track and due_soon taken together.
Token(c, now) ==
  CASE c.state \in {"paused", "met", "breached"} -> c.state
    [] c.state = "running" -> IF c.due # Null /\ now >= c.due THEN "breached" ELSE "active"
    [] OTHER -> "none"

\* _writeback: its own transaction on the record, nothing for a stopped clock.
WriteBack(c, now) ==
  shown' = IF status = "deleted" \/ Token(c, now) = "none" THEN shown ELSE Token(c, now)

\* The session's flush: the columns the handler changed, into the row as it is.
Flushed(cur, snap, new) ==
  [col \in DOMAIN cur |-> IF new[col] # snap[col] THEN new[col] ELSE cur[col]]

\* A refused flush, or an insert the unique constraint refuses, changes nothing.
Refused(j) ==
  \/ StaleWritesRefused /\ clock # j.snap
  \/ j.snap.state = "none" /\ clock.state # "none"

\* Mutant: the server overwrites a row the handler has not seen.
CommitBlindly(w) ==
  clock' = IF job[w].new = job[w].snap THEN clock
           ELSE Flushed(clock, job[w].snap, job[w].new)

Commit(w) ==
  clock' = IF job[w].new = job[w].snap \/ Refused(job[w]) THEN clock
           ELSE Flushed(clock, job[w].snap, job[w].new)

-----------------------------------------------------------------------------
(* A write of the record and what follows it. *)

\* record_service.create, update and remove change the record first.
Write(w, event, class) ==
  /\ pc[w] = "idle"
  /\ \/ event = "create" /\ status = "absent" /\ status' = class
     \/ event = "update" /\ status \in Classes /\ status' = class
     \/ event = "delete" /\ status \in Classes /\ status' = "deleted"
  /\ job' = [job EXCEPT ![w].event = event]
  /\ Goto(w, "written")
  /\ UNCHANGED <<time, window, shown, clock, spent, notices>>

\* run_for_event reads the record and the clock and decides (_apply).
React(w) ==
  /\ pc[w] = "written"
  /\ LET class == IF status = "deleted" THEN Unset ELSE status
     IN job' = [job EXCEPT ![w].now = time, ![w].snap = clock,
                           ![w].new = Moved(job[w].event, clock, class, time)]
  /\ Goto(w, "reacted")
  /\ UNCHANGED <<time, window, record, clock, spent, notices>>

\* The write-back; a deletion returns before it, and so does "no clock".
Show(w) ==
  /\ pc[w] = "reacted"
  /\ IF job[w].event = "delete" THEN UNCHANGED shown
     ELSE WriteBack(job[w].new, job[w].now)
  /\ Goto(w, "shown")
  /\ UNCHANGED <<time, window, status, clock, spent, notices, job>>

\* run_for_event's commit.
Settle(w) ==
  /\ pc[w] = "shown"
  /\ Commit(w)
  /\ Finished(w)
  /\ UNCHANGED <<time, window, record, spent, notices>>

-----------------------------------------------------------------------------
(* The breach sweep. *)

\* run_due takes its `now` once, long before it comes to the sweep.
SweepBegin(w) ==
  /\ pc[w] = "idle"
  /\ status # "absent"
  /\ job' = [job EXCEPT ![w].event = "sweep", ![w].now = time]
  /\ Goto(w, "sweeping")
  /\ UNCHANGED <<time, window, record, clock, spent, notices>>

\* On to the escalation chain, with the sweep's `now` and nothing else.
ToChain(w) ==
  /\ job' = [job EXCEPT ![w] = [NewJob EXCEPT !.now = job[w].now]]
  /\ Goto(w, "chaining")

\* The running clocks are listed once; this one is among them or it is not.
SweepList(w) ==
  /\ pc[w] = "sweeping"
  /\ \/ /\ clock.state = "running"
        /\ job' = [job EXCEPT ![w].snap = clock, ![w].new = clock]
        /\ Goto(w, "listed")
     \/ /\ clock.state # "running"
        /\ ToChain(w)
  /\ UNCHANGED <<time, window, record, clock, spent, notices>>

\* The commit for an earlier clock of the list expires this one: it is loaded
\* again when its turn comes.
SweepReload(w) ==
  /\ pc[w] = "listed"
  /\ job' = [job EXCEPT ![w].snap = clock, ![w].new = clock]
  /\ UNCHANGED <<time, window, record, clock, spent, notices, pc>>

NoticeDue(c) == ~c.notified

\* Mutant: a clock is overdue one unit before its deadline.
OverdueEarly(c, now) == c.due # Null /\ now + 1 >= c.due

Overdue(c, now) == c.due # Null /\ now >= c.due

\* _escalate and _fire_escalation: the in-app notice and the mail of the breach
\* and of a level.
Escalate == sent' = OneMore(sent)
FireEscalation(level) == fired' = [fired EXCEPT ![level] = OneMore(@)]

\* One clock of the sweep: held, found overdue, or only shown.
SweepMark(w) ==
  /\ pc[w] = "listed"
  /\ LET c == job[w].snap
         now == job[w].now
         marked == [c EXCEPT !.state = "breached", !.at = c.due, !.notified = TRUE]
     IN \/ /\ now \in window
           /\ ToChain(w)
           /\ UNCHANGED <<shown, sent>>
        \/ /\ now \notin window
           /\ Overdue(c, now)
           /\ IF NoticeDue(c) THEN Escalate ELSE UNCHANGED sent
           /\ WriteBack(marked, now)
           /\ job' = [job EXCEPT ![w].new = marked]
           /\ Goto(w, "marking")
        \/ /\ now \notin window
           /\ ~Overdue(c, now)
           /\ WriteBack(c, now)
           /\ Goto(w, "marking")
           /\ UNCHANGED <<sent, job>>
  /\ UNCHANGED <<time, window, status, clock, spent, fired>>

SweepCommit(w) ==
  /\ pc[w] = "marking"
  /\ Commit(w)
  /\ ToChain(w)
  /\ UNCHANGED <<time, window, record, spent, notices>>

\* Mutant: the age of the breach is not looked at.
LevelAnyTime(c, now) == c.state = "breached" /\ c.at # Null /\ c.level < Len(Levels)

\* The next level of a breached clock whose time has come.
LevelDue(c, now) ==
  /\ c.state = "breached"
  /\ c.at # Null
  /\ c.level < Len(Levels)
  /\ now >= c.at + Levels[c.level + 1]

\* The escalation chain: one level per pass.
ChainFire(w) ==
  /\ pc[w] = "chaining"
  /\ job[w].now \notin window
  /\ LevelDue(clock, job[w].now)
  /\ FireEscalation(clock.level + 1)
  /\ job' = [job EXCEPT ![w].snap = clock, ![w].new = [clock EXCEPT !.level = @ + 1]]
  /\ Goto(w, "chained")
  /\ UNCHANGED <<time, window, record, clock, spent, sent>>

ChainSkip(w) ==
  /\ pc[w] = "chaining"
  /\ job[w].now \in window \/ ~LevelDue(clock, job[w].now)
  /\ Finished(w)
  /\ UNCHANGED <<time, window, record, clock, spent, notices>>

ChainCommit(w) ==
  /\ pc[w] = "chained"
  /\ Commit(w)
  /\ Finished(w)
  /\ UNCHANGED <<time, window, record, spent, notices>>

\* The process dies, or the transaction is rolled back, before the commit.
Fail(w) ==
  /\ MayFail
  /\ pc[w] # "idle"
  /\ Finished(w)
  /\ UNCHANGED <<time, window, record, clock, spent, notices>>

Handler(w) == React(w) \/ Show(w) \/ Settle(w)

Sweep(w) ==
  SweepList(w) \/ SweepReload(w) \/ SweepMark(w) \/ SweepCommit(w)
    \/ ChainFire(w) \/ ChainSkip(w) \/ ChainCommit(w)

Next ==
  \/ Tick
  \/ \E w \in Workers :
       \/ \E event \in {"create", "update", "delete"}, class \in Classes :
            Write(w, event, class)
       \/ SweepBegin(w)
       \/ Handler(w) \/ Sweep(w) \/ Fail(w)

Spec == Init /\ [][Next]_vars

-----------------------------------------------------------------------------
(* Safety. *)

Quiet == \A w \in Workers : pc[w] = "idle"

\* Whenever no handler is at work, a clock that is not over does what the
\* record's status says it should be doing.
ClockFollowsStatus ==
  Quiet => /\ clock.state = "running" => status = "run"
           /\ clock.state = "paused" => status = "pause"

\* ... and the record shows what its clock says (on_track and due_soon are the
\* same here, and the sweep may be behind with "breached").
ShownIsClock ==
  Quiet /\ status # "deleted" =>
    /\ clock.state \in {"paused", "met", "breached"} => shown = clock.state
    /\ clock.state = "running" => shown \in {"active", "breached"}

\* What the clock, the record and its status agree on between two handlers.
ClockMatchesRecord == TypeOK /\ ClockFollowsStatus /\ ShownIsClock

\* Pauses and resumes keep the target: the time a running clock has left, or a
\* paused clock keeps, and the time already spent make up the target; a clock
\* that was paused when overdue has nothing left.
TargetKept ==
  Quiet =>
    /\ clock.state = "running" =>
         \/ spent + (clock.due - time) = Target
         \/ spent + (clock.due - time) > Target /\ clock.due <= time
    /\ clock.state = "paused" =>
         \/ spent + clock.rem = Target
         \/ spent + clock.rem > Target /\ clock.rem = 0

\* A record is called breached only if it spent its target in running states.
BreachedMeansLate == clock.state = "breached" => spent >= Target

\* Clocks measure wall-clock time, paused spans excluded, against the target: a
\* record is called met only if it was not longer than its target in running
\* states.
MetMeansInTime == clock.state = "met" => spent <= Target

\* "Mark overdue running clocks breached + escalate (once)".
NotifiedOnce == sent <= 1

\* The levels of the chain are delivered in order, each once, as the breach ages.
ChainInOrder ==
  \A l \in 1 .. Len(Levels) :
    /\ fired[l] <= 1
    /\ fired[l] = 1 => /\ \A k \in 1 .. l - 1 : fired[k] = 1
                       /\ clock.at # Null /\ time >= clock.at + Levels[l]

\* A breach is escalated once, and level by level.
EscalatedInOrder == NotifiedOnce /\ ChainInOrder

\* Whatever handlers and sweeps overlap, read stale or die: a breach is recorded
\* only after its deadline, its mark only after a notice went out, and a level
\* counts as reached only if it and all below it were delivered, the breach
\* standing and old enough.  Deliveries may be repeated, never skipped.
BreachInOrder ==
  /\ clock.state = "breached" => clock.at = clock.due /\ time >= clock.at
  /\ clock.notified => sent >= 1
  /\ \A l \in 1 .. Len(Levels) :
       /\ l <= clock.level => fired[l] >= 1
       /\ fired[l] >= 1 =>
            /\ \A k \in 1 .. l - 1 : fired[k] >= 1
            /\ clock.state = "breached" /\ time >= clock.at + Levels[l]

\* "terminal - leave as-is": the outcome of a clock that is over is final.
OutcomeFinal ==
  [][clock.state \in Terminal => clock'.state = clock.state]_vars

\* The columns of the row belong together whatever two handlers flush: a
\* running clock has a deadline, a paused one what was left of it, a breached
\* one the instant of the breach, and a notice or a level only comes with one.
ColumnsAgree ==
  /\ clock.state = "running" => clock.due # Null /\ clock.rem = Null
  /\ clock.state = "paused" => clock.due = Null /\ clock.rem # Null
  /\ clock.state = "breached" <=> clock.at # Null
  /\ clock.notified \/ clock.level > 0 => clock.state = "breached"

\* On a server that refuses stale writes, two handlers never leave a torn row,
\* and a clock that is over is not reopened by one that read it before.
ClockNeverTorn ==
  [][ColumnsAgree' /\ (clock.state \in Terminal => clock'.state \in Terminal)]_vars

=============================================================================
