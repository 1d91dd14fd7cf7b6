--------------------------- MODULE SlaClockProofs ---------------------------
(***************************************************************************)
(* Theorems about SlaClock, for any target, escalation chain, maintenance  *)
(* plan, status lists and length of time.                                  *)
(***************************************************************************)
EXTENDS SlaClock, TLAPS

-----------------------------------------------------------------------------
(* The clock's transitions. *)

\* What ColumnsAgree says of one version of the clock.
Agree(c) ==
  /\ c.state = "running" => c.due # Null /\ c.rem = Null
  /\ c.state = "paused" => c.due = Null /\ c.rem # Null
  /\ c.state = "breached" <=> c.at # Null
  /\ c.notified \/ c.level > 0 => c.state = "breached"

\* A clock that is over stays over.
StaysOver(c, d) == c.state \in Terminal => d.state \in Terminal

\* The clock before it starts is well formed.
LEMMA NoClockOK == NoClock \in Clocks /\ Agree(NoClock)
BY SlaAssumption DEF NoClock, Clocks, ClockStates, Instants, Agree

\* A column of a clock may take any value of its type.
LEMMA WithColumn ==
  ASSUME NEW c \in Clocks
  PROVE  /\ \A x \in ClockStates : [c EXCEPT !.state = x] \in Clocks
         /\ \A x \in Instants : [c EXCEPT !.due = x] \in Clocks
         /\ \A x \in Instants : [c EXCEPT !.rem = x] \in Clocks
         /\ \A x \in Instants : [c EXCEPT !.at = x] \in Clocks
         /\ \A x \in BOOLEAN : [c EXCEPT !.notified = x] \in Clocks
         /\ \A x \in 0 .. Len(Levels) : [c EXCEPT !.level = x] \in Clocks
<1>1. \A x \in ClockStates : [c EXCEPT !.state = x] \in Clocks
  BY DEF Clocks
<1>2. \A x \in Instants : [c EXCEPT !.due = x] \in Clocks
  BY DEF Clocks
<1>3. \A x \in Instants : [c EXCEPT !.rem = x] \in Clocks
  BY DEF Clocks
<1>4. \A x \in Instants : [c EXCEPT !.at = x] \in Clocks
  BY DEF Clocks
<1>5. \A x \in BOOLEAN : [c EXCEPT !.notified = x] \in Clocks
  BY DEF Clocks
<1>6. \A x \in 0 .. Len(Levels) : [c EXCEPT !.level = x] \in Clocks
  BY DEF Clocks
<1>7. QED
  BY <1>1, <1>2, <1>3, <1>4, <1>5, <1>6

\* A clock that starts.
LEMMA StartedOK ==
  ASSUME NEW now \in Nat
  PROVE  /\ Started(now) \in Clocks /\ Agree(Started(now))
         /\ Started(now).state = "running" /\ Started(now).due = now + Target
<1>1. NoClock \in Clocks /\ now + Target \in Instants /\ "running" \in ClockStates
  BY NoClockOK, SlaAssumption DEF Instants, ClockStates
<1>2. Started(now) \in Clocks
  BY <1>1, WithColumn DEF Started
<1>3. /\ NoClock.rem = Null /\ NoClock.at = Null
      /\ NoClock.notified = FALSE /\ NoClock.level = 0
  BY DEF NoClock
<1>4. /\ Started(now).state = "running" /\ Started(now).due = now + Target
      /\ Started(now).rem = Null /\ Started(now).at = Null
      /\ Started(now).notified = FALSE /\ Started(now).level = 0
  BY <1>1, <1>3 DEF Started, Clocks
<1>5. now + Target # Null
  BY SlaAssumption
<1>6. QED
  BY <1>2, <1>4, <1>5 DEF Agree

\* A pause keeps what is left of the target.
LEMMA PausedOK ==
  ASSUME NEW c \in Clocks, NEW now \in Nat
  PROVE  LET d == Paused(c, now) IN
         /\ d \in Clocks /\ d.state = "paused" /\ d.due = Null /\ d.at = c.at
         /\ d.notified = c.notified /\ d.level = c.level
         /\ c.due # Null => d.rem = IF c.due > now THEN c.due - now ELSE 0
         /\ Agree(c) /\ c.state = "running" => Agree(d)
<1> DEFINE left == IF c.due = Null THEN c.rem ELSE IF c.due > now THEN c.due - now ELSE 0
<1>1. c.due \in Instants /\ c.rem \in Instants
  BY DEF Clocks
<1>2. left \in Instants /\ Null \in Instants /\ "paused" \in ClockStates
  BY <1>1, SlaAssumption DEF Instants, ClockStates
<1>3. c.due # Null => left # Null
  BY <1>1, SlaAssumption DEF Instants
<1>4. Paused(c, now) = [c EXCEPT !.state = "paused", !.rem = left, !.due = Null]
  BY DEF Paused, Clocks
<1> HIDE DEF left
<1>5. Paused(c, now) \in Clocks
  <2>1. [c EXCEPT !.state = "paused"] \in Clocks
    BY <1>2, WithColumn
  <2>2. [c EXCEPT !.state = "paused", !.rem = left] \in Clocks
    BY <1>2, <2>1, WithColumn
  <2>3. QED
    BY <1>2, <1>4, <2>2, WithColumn
<1>6. /\ Paused(c, now).state = "paused" /\ Paused(c, now).due = Null
      /\ Paused(c, now).rem = left /\ Paused(c, now).at = c.at
      /\ Paused(c, now).notified = c.notified /\ Paused(c, now).level = c.level
  BY <1>4 DEF Clocks
<1>7. Agree(c) /\ c.state = "running" => Agree(Paused(c, now))
  BY <1>3, <1>6 DEF Agree
<1>8. QED
  BY <1>5, <1>6, <1>7 DEF left

\* A resumption spends what was left.
LEMMA ResumedOK ==
  ASSUME NEW c \in Clocks, NEW now \in Nat
  PROVE  LET d == Resumed(c, now) IN
         /\ d \in Clocks /\ d.state = "running" /\ d.rem = Null /\ d.at = c.at
         /\ d.notified = c.notified /\ d.level = c.level
         /\ d.due = now + (IF c.rem = Null THEN 0 ELSE c.rem)
         /\ Agree(c) /\ c.state = "paused" => Agree(d)
<1> DEFINE due == now + (IF c.rem = Null THEN 0 ELSE c.rem)
<1>1. c.rem \in Instants
  BY DEF Clocks
<1>2. due \in Int
  BY <1>1 DEF Instants
<1>3. due \in Instants /\ due # Null /\ Null \in Instants /\ "running" \in ClockStates
  BY <1>2, SlaAssumption DEF Instants, ClockStates
<1>4. Resumed(c, now) = [c EXCEPT !.state = "running", !.due = due, !.rem = Null]
  BY DEF Resumed
<1> HIDE DEF due
<1>5. Resumed(c, now) \in Clocks
  <2>1. [c EXCEPT !.state = "running"] \in Clocks
    BY <1>3, WithColumn
  <2>2. [c EXCEPT !.state = "running", !.due = due] \in Clocks
    BY <1>3, <2>1, WithColumn
  <2>3. QED
    BY <1>3, <1>4, <2>2, WithColumn
<1>6. /\ Resumed(c, now).state = "running" /\ Resumed(c, now).due = due
      /\ Resumed(c, now).rem = Null /\ Resumed(c, now).at = c.at
      /\ Resumed(c, now).notified = c.notified /\ Resumed(c, now).level = c.level
  BY <1>4 DEF Clocks
<1>7. QED
  BY <1>3, <1>5, <1>6 DEF Agree, due

\* A clock that ends on time is met, one that does not is breached when it was
\* due.
LEMMA StoppedOK ==
  ASSUME NEW c \in Clocks, NEW now \in Nat
  PROVE  LET d == Stopped(c, now) IN
         /\ d \in Clocks /\ d.rem = Null /\ d.due = c.due
         /\ d.notified = c.notified /\ d.level = c.level
         /\ d.state = IF Late(c, now) THEN "breached" ELSE "met"
         /\ Agree(c) /\ c.state \in {"running", "paused"} => Agree(d)
<1> DEFINE state == IF Late(c, now) THEN "breached" ELSE "met"
           at == IF ~Late(c, now) \/ c.at # Null THEN c.at
                 ELSE IF c.due # Null THEN c.due ELSE now
<1>1. c.due \in Instants /\ c.at \in Instants
  BY DEF Clocks
<1>2. /\ at \in Instants /\ Null \in Instants /\ state \in ClockStates
      /\ Late(c, now) => at # Null
      /\ ~Late(c, now) => at = c.at
  <2>1. Null \in Instants /\ now \in Instants /\ now # Null /\ Null \in Instants
    BY SlaAssumption DEF Instants
  <2>2. {"met", "breached"} \subseteq ClockStates
    BY DEF ClockStates, Terminal
  <2>3. QED
    BY <1>1, <2>1, <2>2
<1>3. Stopped(c, now) = [c EXCEPT !.state = state, !.at = at, !.rem = Null]
  BY DEF Stopped, Clocks
<1>4. state = IF Late(c, now) THEN "breached" ELSE "met"
  OBVIOUS
<1> HIDE DEF state, at
<1>5. Stopped(c, now) \in Clocks
  <2>1. [c EXCEPT !.state = state] \in Clocks
    BY <1>2, WithColumn
  <2>2. [c EXCEPT !.state = state, !.at = at] \in Clocks
    BY <1>2, <2>1, WithColumn
  <2>3. QED
    BY <1>2, <1>3, <2>2, WithColumn
<1>6. /\ Stopped(c, now).state = state /\ Stopped(c, now).due = c.due
      /\ Stopped(c, now).rem = Null /\ Stopped(c, now).at = at
      /\ Stopped(c, now).notified = c.notified /\ Stopped(c, now).level = c.level
  BY <1>3 DEF Clocks
<1>7. ASSUME Agree(c), c.state \in {"running", "paused"}
      PROVE  Agree(Stopped(c, now))
  <2>1. c.at = Null /\ c.notified # TRUE /\ ~(c.level > 0)
    BY <1>7 DEF Agree
  <2>2. QED
    BY <1>2, <1>4, <1>6, <2>1 DEF Agree
<1>8. QED
  BY <1>4, <1>5, <1>6, <1>7

\* A clock that is taken off.
LEMMA TakenOffOK ==
  ASSUME NEW c \in Clocks
  PROVE  LET d == [c EXCEPT !.state = "stopped"] IN
         /\ d \in Clocks /\ d.state = "stopped"
         /\ d.notified = c.notified /\ d.level = c.level
         /\ Agree(c) /\ c.state \in {"running", "paused"} => Agree(d)
<1> DEFINE d == [c EXCEPT !.state = "stopped"]
<1>1. d \in Clocks
  <2>1. "stopped" \in ClockStates
    BY DEF ClockStates, Terminal
  <2>2. QED
    BY <2>1, WithColumn
<1>2. /\ d.state = "stopped" /\ d.due = c.due /\ d.rem = c.rem /\ d.at = c.at
      /\ d.notified = c.notified /\ d.level = c.level
  BY DEF Clocks
<1> HIDE DEF d
<1>3. QED
  BY <1>1, <1>2 DEF Agree, d

\* Every event makes a well-formed clock of a well-formed one, whatever the
\* instant, and none reopens a clock that is over.
LEMMA MovedOK ==
  ASSUME NEW c \in Clocks, NEW event, NEW class, NEW now \in Nat
  PROVE  /\ Moved(event, c, class, now) \in Clocks
         /\ StaysOver(c, Moved(event, c, class, now))
         /\ Agree(c) => Agree(Moved(event, c, class, now))
<1> USE DEF Terminal
<1>1. /\ Started(now) \in Clocks /\ Agree(Started(now)) /\ Started(now).state = "running"
      /\ Paused(Started(now), now) \in Clocks
      /\ Agree(Paused(Started(now), now))
  BY StartedOK, PausedOK
<1>2. /\ Paused(c, now) \in Clocks
      /\ Agree(c) /\ c.state = "running" => Agree(Paused(c, now))
  BY PausedOK
<1>3. /\ Resumed(c, now) \in Clocks
      /\ Agree(c) /\ c.state = "paused" => Agree(Resumed(c, now))
  BY ResumedOK
<1>4. /\ Stopped(c, now) \in Clocks /\ Stopped(c, now).state \in Terminal
      /\ Agree(c) /\ c.state \in {"running", "paused"} => Agree(Stopped(c, now))
  BY StoppedOK
<1>5. /\ [c EXCEPT !.state = "stopped"] \in Clocks
      /\ [c EXCEPT !.state = "stopped"].state \in Terminal
      /\ Agree(c) /\ c.state \in {"running", "paused"} => Agree([c EXCEPT !.state = "stopped"])
  BY TakenOffOK
<1>6. Starts(event, c, class) => c.state = "none"
  BY DEF Starts
<1>7. QED
  BY <1>1, <1>2, <1>3, <1>4, <1>5, <1>6 DEF Moved, StaysOver

\* A flush on the row the handler read leaves the handler's version; any flush
\* leaves a row.
LEMMA FlushedOK ==
  ASSUME NEW cur \in Clocks, NEW snap \in Clocks, NEW new \in Clocks
  PROVE  /\ Flushed(cur, snap, new) \in Clocks
         /\ cur = snap => Flushed(cur, snap, new) = new
<1>1. Flushed(cur, snap, new) \in Clocks
  BY DEF Flushed, Clocks
<1>2. ASSUME cur = snap PROVE Flushed(cur, snap, new) = new
  BY <1>2 DEF Flushed, Clocks
<1>3. QED
  BY <1>1, <1>2

-----------------------------------------------------------------------------
(* Types. *)

\* Time spent never exceeds the time there was.
TypeInv == TypeOK /\ spent <= time

\* A handler's locals with the clock it read and its own version of it.
LEMMA JobWith ==
  ASSUME NEW j \in Job
  PROVE  /\ \A event \in Events, now \in Nat : [j EXCEPT !.event = event, !.now = now] \in Job
         /\ \A snap, new \in Clocks : [j EXCEPT !.snap = snap, !.new = new] \in Job
         /\ \A now \in Nat, snap, new \in Clocks :
              [j EXCEPT !.now = now, !.snap = snap, !.new = new] \in Job
         /\ \A new \in Clocks : [j EXCEPT !.new = new] \in Job
         /\ \A now \in Nat : [j EXCEPT !.now = now] \in Job
<1>1. \A event \in Events, now \in Nat : [j EXCEPT !.event = event, !.now = now] \in Job
  BY DEF Job
<1>2. \A snap, new \in Clocks : [j EXCEPT !.snap = snap, !.new = new] \in Job
  BY DEF Job
<1>3. \A now \in Nat, snap, new \in Clocks :
        [j EXCEPT !.now = now, !.snap = snap, !.new = new] \in Job
  BY DEF Job
<1>4. \A new \in Clocks : [j EXCEPT !.new = new] \in Job
  BY DEF Job
<1>5. \A now \in Nat : [j EXCEPT !.now = now] \in Job
  BY DEF Job
<1>6. QED
  BY <1>1, <1>2, <1>3, <1>4, <1>5

\* A new handler has no locals yet.
LEMMA NewJobOK == NewJob \in Job /\ NewJob.snap = NoClock /\ NewJob.new = NoClock
BY NoClockOK DEF NewJob, Job, Events

\* Steps that end in Commit leave a row of the right type.
LEMMA CommitType ==
  ASSUME TypeOK, NEW w \in Workers, Commit(w)
  PROVE  clock' \in Clocks
<1>1. job[w].snap \in Clocks /\ job[w].new \in Clocks /\ clock \in Clocks
  BY DEF TypeOK, Job
<1>2. QED
  BY <1>1, FlushedOK DEF Commit

\* The write-back shows a state of the policy.
LEMMA WriteBackType ==
  ASSUME TypeOK, NEW c \in Clocks, NEW now, WriteBack(c, now)
  PROVE  shown' \in {"none", "active", "paused", "met", "breached"}
BY DEF TypeOK, WriteBack, Token, Clocks, ClockStates, Terminal

\* The mark of an overdue clock.
Marked(c) == [c EXCEPT !.state = "breached", !.at = c.due, !.notified = TRUE]

LEMMA MarkedOK ==
  ASSUME NEW c \in Clocks
  PROVE  /\ Marked(c) \in Clocks
         /\ Marked(c).state = "breached" /\ Marked(c).at = c.due /\ Marked(c).due = c.due
         /\ Marked(c).rem = c.rem /\ Marked(c).notified = TRUE /\ Marked(c).level = c.level
         /\ c.due # Null => Agree(Marked(c))
<1>1. c.due \in Instants /\ "breached" \in ClockStates
  BY DEF Clocks, ClockStates, Terminal
<1>2. Marked(c) \in Clocks
  <2>1. [c EXCEPT !.state = "breached"] \in Clocks
    BY <1>1, WithColumn
  <2>2. [c EXCEPT !.state = "breached", !.at = c.due] \in Clocks
    BY <1>1, <2>1, WithColumn
  <2>3. QED
    BY <2>2, WithColumn DEF Marked
<1>3. /\ Marked(c).state = "breached" /\ Marked(c).at = c.due /\ Marked(c).due = c.due
      /\ Marked(c).rem = c.rem /\ Marked(c).notified = TRUE /\ Marked(c).level = c.level
  BY DEF Marked, Clocks
<1>4. QED
  BY <1>2, <1>3 DEF Agree

\* The next level of a clock that has one.
LEMMA RaisedOK ==
  ASSUME NEW c \in Clocks, c.level < Len(Levels)
  PROVE  LET d == [c EXCEPT !.level = @ + 1] IN
         /\ d \in Clocks /\ d.level = c.level + 1 /\ d.state = c.state /\ d.at = c.at
         /\ d.due = c.due /\ d.rem = c.rem /\ d.notified = c.notified
         /\ Agree(c) /\ c.state = "breached" => Agree(d)
<1> DEFINE d == [c EXCEPT !.level = @ + 1]
<1>1. c.level \in 0 .. Len(Levels) /\ Len(Levels) \in Nat
  BY SlaAssumption DEF Clocks
<1>2. c.level + 1 \in 0 .. Len(Levels)
  BY <1>1
<1>3. d = [c EXCEPT !.level = c.level + 1]
  BY DEF Clocks
<1>4. d \in Clocks
  BY <1>2, <1>3, WithColumn
<1>5. /\ d.level = c.level + 1 /\ d.state = c.state /\ d.at = c.at
      /\ d.due = c.due /\ d.rem = c.rem /\ d.notified = c.notified
  BY <1>3 DEF Clocks
<1> HIDE DEF d
<1>6. QED
  BY <1>4, <1>5 DEF Agree, d

\* The variables have their types, the clock included: whatever two handlers
\* flush into the row, each column is one a handler wrote.
LEMMA TypeNext == TypeInv /\ [Next]_vars => TypeInv'
<1> SUFFICES ASSUME TypeInv, [Next]_vars PROVE TypeInv'
  OBVIOUS
<1> USE DEF TypeInv, TypeOK
<1> DEFINE Places == {"idle", "written", "reacted", "shown", "sweeping", "listed",
                      "marking", "chaining", "chained"}
<1>1. time \in Nat /\ MaxTime \in Nat /\ spent \in Nat /\ NewJob \in Job
  BY SlaAssumption, NewJobOK
<1>2. CASE Tick
  BY <1>1, <1>2 DEF Tick, record, notices
<1>3. ASSUME NEW w \in Workers
      PROVE  /\ job[w] \in Job /\ job[w].snap \in Clocks /\ job[w].new \in Clocks
             /\ job[w].now \in Nat
  BY DEF Job
<1>4. ASSUME NEW w \in Workers, NEW event \in {"create", "update", "delete"},
             NEW class \in Classes, Write(w, event, class)
      PROVE TypeInv'
  <2>1. [job EXCEPT ![w].event = event] \in [Workers -> Job]
    <3>1. [job[w] EXCEPT !.event = event] \in Job
      BY <1>3 DEF Job, Events
    <3>2. QED
      BY <3>1
  <2>2. QED
    BY <1>4, <2>1 DEF Write, Goto, notices
<1>5. ASSUME NEW w \in Workers, SweepBegin(w) PROVE TypeInv'
  <2>1. [job[w] EXCEPT !.event = "sweep", !.now = time] \in Job
    BY <1>1, <1>3, JobWith DEF Events
  <2>2. QED
    BY <1>5, <2>1 DEF SweepBegin, Goto, record, notices
<1>6. ASSUME NEW w \in Workers, React(w) PROVE TypeInv'
  <2> DEFINE new == Moved(job[w].event, clock,
                          IF status = "deleted" THEN Unset ELSE status, time)
  <2>1. new \in Clocks
    BY <1>1, MovedOK
  <2> HIDE DEF new
  <2>2. [job[w] EXCEPT !.now = time, !.snap = clock, !.new = new] \in Job
    BY <1>1, <1>3, <2>1, JobWith
  <2>3. job' = [job EXCEPT ![w] = [job[w] EXCEPT !.now = time, !.snap = clock, !.new = new]]
    BY <1>6 DEF React, new
  <2>4. job' \in [Workers -> Job]
    BY <2>2, <2>3
  <2>5. pc' \in [Workers -> Places]
    BY <1>6 DEF React, Goto
  <2>6. UNCHANGED <<time, window, record, clock, spent, notices>>
    BY <1>6 DEF React
  <2>7. QED
    BY <2>4, <2>5, <2>6 DEF record, notices
<1>7. ASSUME NEW w \in Workers, Show(w) PROVE TypeInv'
  <2>1. shown' \in {"none", "active", "paused", "met", "breached"}
    BY <1>3, <1>7, WriteBackType DEF Show
  <2>2. QED
    BY <1>7, <2>1 DEF Show, Goto, notices
<1>8. ASSUME NEW w \in Workers, Settle(w) PROVE TypeInv'
  <2>1. clock' \in Clocks
    BY <1>8, CommitType DEF Settle
  <2>2. QED
    BY <1>1, <1>8, <2>1 DEF Settle, Finished, Goto, record, notices
<1>9. ASSUME NEW w \in Workers, ToChain(w)
      PROVE  /\ pc' \in [Workers -> Places]
             /\ job' \in [Workers -> Job]
  <2>1. [NewJob EXCEPT !.now = job[w].now] \in Job
    BY <1>1, <1>3, JobWith
  <2>2. QED
    BY <1>9, <2>1 DEF ToChain, Goto
<1>10. ASSUME NEW w \in Workers, SweepList(w) PROVE TypeInv'
  <2>1. [job[w] EXCEPT !.snap = clock, !.new = clock] \in Job
    BY <1>3, JobWith
  <2>2. QED
    BY <1>9, <1>10, <2>1 DEF SweepList, Goto, record, notices
<1>11. ASSUME NEW w \in Workers, SweepReload(w) PROVE TypeInv'
  <2>1. [job[w] EXCEPT !.snap = clock, !.new = clock] \in Job
    BY <1>3, JobWith
  <2>2. QED
    BY <1>11, <2>1 DEF SweepReload, record, notices
<1>12. ASSUME NEW w \in Workers, SweepMark(w) PROVE TypeInv'
  <2>1. [job[w] EXCEPT !.new = Marked(job[w].snap)] \in Job
    BY <1>3, MarkedOK, JobWith
  <2>2. Marked(job[w].snap) \in Clocks
    BY <1>3, MarkedOK
  <2>3. sent' \in 0 .. Many
    BY <1>12 DEF SweepMark, Escalate, OneMore, Many
  <2>4. shown' \in {"none", "active", "paused", "met", "breached"}
    BY <1>3, <1>12, <2>2, WriteBackType DEF SweepMark, Marked
  <2>5. pc' \in [Workers -> Places] /\ job' \in [Workers -> Job]
    BY <1>9, <1>12, <2>1 DEF SweepMark, Goto, Marked
  <2>6. QED
    BY <1>12, <2>3, <2>4, <2>5 DEF SweepMark
<1>13. ASSUME NEW w \in Workers, SweepCommit(w) PROVE TypeInv'
  <2>1. clock' \in Clocks
    BY <1>13, CommitType DEF SweepCommit
  <2>2. QED
    BY <1>9, <1>13, <2>1 DEF SweepCommit, record, notices
<1>14. ASSUME NEW w \in Workers, ChainFire(w) PROVE TypeInv'
  <2>1. clock.level < Len(Levels) /\ clock.level \in 0 .. Len(Levels) /\ Len(Levels) \in Nat
    BY <1>14, SlaAssumption DEF ChainFire, LevelDue, Clocks
  <2> DEFINE raised == [clock EXCEPT !.level = @ + 1]
  <2>2. raised \in Clocks
    BY <2>1, RaisedOK
  <2> HIDE DEF raised
  <2>3. [job[w] EXCEPT !.snap = clock, !.new = raised] \in Job
    BY <1>3, <2>2, JobWith
  <2>4. job' = [job EXCEPT ![w] = [job[w] EXCEPT !.snap = clock, !.new = raised]]
    BY <1>14 DEF ChainFire, raised
  <2>5. fired' \in [1 .. Len(Levels) -> 0 .. Many]
    BY <1>14, <2>1 DEF ChainFire, FireEscalation, OneMore, Many
  <2>6. QED
    BY <1>14, <2>3, <2>4, <2>5 DEF ChainFire, Goto, record
<1>15. ASSUME NEW w \in Workers, ChainSkip(w) \/ Fail(w) PROVE TypeInv'
  BY <1>1, <1>15 DEF ChainSkip, Fail, Finished, Goto, record, notices
<1>16. ASSUME NEW w \in Workers, ChainCommit(w) PROVE TypeInv'
  <2>1. clock' \in Clocks
    BY <1>16, CommitType DEF ChainCommit
  <2>2. QED
    BY <1>1, <1>16, <2>1 DEF ChainCommit, Finished, Goto, record, notices
<1>17. CASE UNCHANGED vars
  BY <1>17 DEF vars, record, notices
<1>18. QED
  BY <1>2, <1>4, <1>5, <1>6, <1>7, <1>8, <1>10, <1>11, <1>12, <1>13, <1>14, <1>15, <1>16,
     <1>17 DEF Next, Handler, Sweep

\* The columns of the clock, the record's fields and the handlers' locals hold
\* what they may hold, and no more time is spent than has passed.
THEOREM TypeCorrect == Spec => []TypeInv
<1>1. Init => TypeInv
  BY SlaAssumption, NoClockOK, NewJobOK DEF Init, TypeInv, TypeOK, Many
<1>2. QED
  BY <1>1, TypeNext, PTL DEF Spec

-----------------------------------------------------------------------------
(* The row between two handlers. *)

\* The columns agree in the row and in every version a handler holds, and no
\* handler makes a clock that was over when it read it into one that is not.
TornInv ==
  /\ ColumnsAgree
  /\ \A w \in Workers :
       /\ Agree(job[w].snap) /\ Agree(job[w].new)
       /\ StaysOver(job[w].snap, job[w].new)

\* A commit on a server that refuses stale writes leaves the row as it is or
\* replaces the version the handler read by the handler's.
LEMMA CommitExact ==
  ASSUME StaleWritesRefused, TypeOK, NEW w \in Workers, Commit(w)
  PROVE  \/ clock' = clock
         \/ clock = job[w].snap /\ clock' = job[w].new
<1>1. job[w].snap \in Clocks /\ job[w].new \in Clocks /\ clock \in Clocks
  BY DEF TypeOK, Job
<1>2. QED
  BY <1>1, FlushedOK DEF Commit, Refused

\* What a step may do to the row.
RowStep == Agree(clock') /\ StaysOver(clock, clock')

LEMMA CommitKeeps ==
  ASSUME StaleWritesRefused, TypeOK, TornInv, NEW w \in Workers, Commit(w)
  PROVE  RowStep
<1>1. Agree(clock) /\ Agree(job[w].new) /\ StaysOver(job[w].snap, job[w].new)
  BY DEF TornInv, ColumnsAgree, Agree
<1>2. QED
  BY <1>1, CommitExact DEF RowStep, StaysOver

\* The handlers' versions stay sound when one handler's change soundly.
LEMMA OthersKeep ==
  ASSUME TypeOK, TornInv, RowStep, NEW w \in Workers, NEW j \in Job,
         job' = [job EXCEPT ![w] = j],
         Agree(j.snap), Agree(j.new), StaysOver(j.snap, j.new)
  PROVE  TornInv'
<1>1. ColumnsAgree'
  BY DEF RowStep, ColumnsAgree, Agree
<1>2. ASSUME NEW v \in Workers
      PROVE  /\ Agree(job'[v].snap) /\ Agree(job'[v].new)
             /\ StaysOver(job'[v].snap, job'[v].new)
  <2>1. job'[v] = IF v = w THEN j ELSE job[v]
    BY DEF TypeOK
  <2>2. QED
    BY <2>1 DEF TornInv
<1>3. QED
  BY <1>1, <1>2 DEF TornInv, Agree, StaysOver

\* Every step keeps the row whole, and a clock that is over stays over.
LEMMA TornNext ==
  ASSUME StaleWritesRefused, TypeInv, TornInv, [Next]_vars
  PROVE  TornInv' /\ RowStep
<1> USE DEF TypeInv
<1>1. ASSUME clock' = clock PROVE RowStep
  BY <1>1 DEF RowStep, TornInv, ColumnsAgree, Agree, StaysOver
<1>2. ASSUME clock' = clock, job' = job PROVE TornInv'
  BY <1>2 DEF TornInv, ColumnsAgree, Agree, StaysOver
<1>3. ASSUME NEW w \in Workers
      PROVE  /\ job[w] \in Job /\ job[w].snap \in Clocks /\ job[w].new \in Clocks
             /\ job[w].now \in Nat
             /\ Agree(job[w].snap) /\ Agree(job[w].new)
             /\ StaysOver(job[w].snap, job[w].new)
             /\ clock \in Clocks /\ Agree(clock) /\ StaysOver(clock, clock)
  BY DEF TypeOK, Job, TornInv, ColumnsAgree, Agree, StaysOver
<1>4. /\ NewJob \in Job /\ NewJob.snap = NoClock /\ NewJob.new = NoClock /\ Agree(NoClock)
      /\ StaysOver(NoClock, NoClock)
  BY NewJobOK, NoClockOK DEF StaysOver
<1>5. CASE Tick \/ UNCHANGED vars
  BY <1>1, <1>2, <1>5 DEF Tick, vars
<1>6. ASSUME NEW w \in Workers, Finished(w), RowStep PROVE TornInv'
  BY <1>4, <1>6, OthersKeep DEF Finished
<1>7. ASSUME NEW w \in Workers, ToChain(w), RowStep PROVE TornInv'
  <2> DEFINE j == [NewJob EXCEPT !.now = job[w].now]
  <2>1. j \in Job /\ j.snap = NoClock /\ j.new = NoClock
    BY <1>3, <1>4 DEF Job
  <2>2. job' = [job EXCEPT ![w] = j]
    BY <1>7 DEF ToChain
  <2> HIDE DEF j
  <2>3. QED
    BY <1>4, <1>7, <2>1, <2>2, OthersKeep
<1>8. ASSUME NEW w \in Workers, NEW event \in {"create", "update", "delete"},
             NEW class \in Classes, Write(w, event, class)
      PROVE TornInv' /\ RowStep
  <2> DEFINE j == [job[w] EXCEPT !.event = event]
  <2>1. j \in Job /\ j.snap = job[w].snap /\ j.new = job[w].new
    BY <1>3 DEF Job, Events
  <2>2. job' = [job EXCEPT ![w] = j] /\ clock' = clock
    BY <1>8, <1>3 DEF Write
  <2> HIDE DEF j
  <2>3. QED
    BY <1>1, <1>3, <2>1, <2>2, OthersKeep
<1>9. ASSUME NEW w \in Workers, SweepBegin(w) PROVE TornInv' /\ RowStep
  <2> DEFINE j == [job[w] EXCEPT !.event = "sweep", !.now = time]
  <2>1. j \in Job /\ j.snap = job[w].snap /\ j.new = job[w].new
    <3>1. time \in Nat /\ "sweep" \in Events
      BY SlaAssumption DEF TypeOK, Events
    <3>2. j \in Job
      BY <1>3, <3>1, JobWith
    <3>3. QED
      BY <1>3, <3>2 DEF Job
  <2>2. job' = [job EXCEPT ![w] = j] /\ clock' = clock
    BY <1>9, <1>3 DEF SweepBegin
  <2> HIDE DEF j
  <2>3. QED
    BY <1>1, <1>3, <2>1, <2>2, OthersKeep
<1>10. ASSUME NEW w \in Workers, React(w) PROVE TornInv' /\ RowStep
  <2> DEFINE new == Moved(job[w].event, clock,
                          IF status = "deleted" THEN Unset ELSE status, time)
  <2>1. time \in Nat
    BY SlaAssumption DEF TypeOK
  <2>2. new \in Clocks /\ Agree(new) /\ StaysOver(clock, new)
    BY <1>3, <1>10, <2>1, MovedOK
  <2> HIDE DEF new
  <2> DEFINE j == [job[w] EXCEPT !.now = time, !.snap = clock, !.new = new]
  <2>3. j \in Job /\ j.snap = clock /\ j.new = new
    BY <1>3, <2>1, <2>2 DEF Job
  <2>4. job' = [job EXCEPT ![w] = j] /\ clock' = clock
    BY <1>10, <1>3 DEF React, new
  <2> HIDE DEF j
  <2>5. QED
    BY <1>1, <1>3, <2>2, <2>3, <2>4, OthersKeep
<1>11. ASSUME NEW w \in Workers, Show(w) PROVE TornInv' /\ RowStep
  BY <1>1, <1>2, <1>11 DEF Show
<1>12. ASSUME NEW w \in Workers, Settle(w) \/ ChainCommit(w) PROVE TornInv' /\ RowStep
  BY <1>6, <1>12, CommitKeeps DEF Settle, ChainCommit
<1>13. ASSUME NEW w \in Workers, SweepList(w) \/ SweepReload(w) PROVE TornInv' /\ RowStep
  <2>1. clock' = clock
    BY <1>13 DEF SweepList, SweepReload
  <2>2. CASE ToChain(w)
    BY <1>1, <1>7, <2>1, <2>2
  <2>3. CASE ~ToChain(w)
    <3> DEFINE j == [job[w] EXCEPT !.snap = clock, !.new = clock]
    <3>1. j \in Job /\ j.snap = clock /\ j.new = clock
      BY <1>3 DEF Job
    <3>2. job' = [job EXCEPT ![w] = j]
      BY <1>13, <2>3 DEF SweepList, SweepReload
    <3> HIDE DEF j
    <3>3. QED
      BY <1>1, <1>3, <2>1, <3>1, <3>2, OthersKeep
  <2>4. QED
    BY <2>2, <2>3
<1>14. ASSUME NEW w \in Workers, SweepMark(w) PROVE TornInv' /\ RowStep
  <2>1. clock' = clock
    BY <1>14 DEF SweepMark
  <2>2. CASE ToChain(w)
    BY <1>1, <1>7, <2>1, <2>2
  <2>3. CASE job' = job
    BY <1>1, <1>2, <2>1, <2>3
  <2>4. CASE ~ToChain(w) /\ job' # job
    <3> DEFINE j == [job[w] EXCEPT !.new = Marked(job[w].snap)]
    <3>1. /\ job' = [job EXCEPT ![w] = j]
          /\ job[w].snap.due # Null
      BY <1>14, <2>4 DEF SweepMark, Overdue, Marked
    <3>2. /\ Marked(job[w].snap) \in Clocks /\ Agree(Marked(job[w].snap))
          /\ Marked(job[w].snap).state = "breached"
      BY <1>3, <3>1, MarkedOK
    <3>3. j \in Job /\ j.snap = job[w].snap /\ j.new = Marked(job[w].snap)
      BY <1>3, <3>2 DEF Job
    <3>4. StaysOver(j.snap, j.new)
      BY <3>2, <3>3 DEF StaysOver, Terminal
    <3> HIDE DEF j
    <3>5. QED
      BY <1>1, <1>3, <2>1, <3>1, <3>2, <3>3, <3>4, OthersKeep
  <2>5. QED
    BY <2>2, <2>3, <2>4
<1>15. ASSUME NEW w \in Workers, SweepCommit(w) PROVE TornInv' /\ RowStep
  BY <1>7, <1>15, CommitKeeps DEF SweepCommit
<1>16. ASSUME NEW w \in Workers, ChainFire(w) PROVE TornInv' /\ RowStep
  <2> DEFINE raised == [clock EXCEPT !.level = @ + 1]
  <2>1. clock.level < Len(Levels) /\ clock.state = "breached"
    BY <1>16 DEF ChainFire, LevelDue
  <2>2. raised \in Clocks /\ Agree(raised) /\ raised.state = clock.state
    BY <1>3, <2>1, <1>16, RaisedOK
  <2> HIDE DEF raised
  <2> DEFINE j == [job[w] EXCEPT !.snap = clock, !.new = raised]
  <2>3. j \in Job /\ j.snap = clock /\ j.new = raised
    BY <1>3, <2>2 DEF Job
  <2>4. job' = [job EXCEPT ![w] = j] /\ clock' = clock
    BY <1>16 DEF ChainFire, raised
  <2>5. StaysOver(j.snap, j.new)
    BY <2>2, <2>3 DEF StaysOver
  <2> HIDE DEF j
  <2>6. QED
    BY <1>1, <1>3, <2>2, <2>3, <2>4, <2>5, OthersKeep
<1>17. ASSUME NEW w \in Workers, ChainSkip(w) \/ Fail(w) PROVE TornInv' /\ RowStep
  BY <1>1, <1>6, <1>17 DEF ChainSkip, Fail
<1>18. QED
  BY <1>5, <1>8, <1>9, <1>10, <1>11, <1>12, <1>13, <1>14, <1>15, <1>16, <1>17
  DEF Next, Handler, Sweep

\* On a server that refuses stale writes the columns of the row agree, in the
\* row and in what every handler is about to write.
THEOREM TornInvariant ==
  ASSUME StaleWritesRefused
  PROVE  Spec => []TornInv
<1>1. Init => TornInv
  BY NoClockOK, NewJobOK DEF Init, TornInv, ColumnsAgree, Agree, StaysOver
<1>2. TypeInv /\ TornInv /\ [Next]_vars => TornInv'
  BY TornNext
<1>3. QED
  BY <1>1, <1>2, TypeCorrect, PTL DEF Spec

\* Two handlers that flush one row never tear it, and none reopens a clock that
\* another has closed, where the server refuses stale writes.
THEOREM ClockNeverTornHolds ==
  ASSUME StaleWritesRefused
  PROVE  Spec => ClockNeverTorn
<1>1. TypeInv /\ TornInv /\ [Next]_vars =>
        [ColumnsAgree' /\ (clock.state \in Terminal => clock'.state \in Terminal)]_vars
  BY TornNext DEF TornInv, RowStep, StaysOver
<1>2. QED
  BY <1>1, TornInvariant, TypeCorrect, PTL DEF Spec, ClockNeverTorn

-----------------------------------------------------------------------------
(* Breaches, notices and levels. *)

\* What stands behind a version c of the clock at time t, after n notices and
\* the deliveries f: its breach is past, its notice was sent, its levels fired.
Sound(c, t, n, f) ==
  /\ c.state = "breached" => c.due # Null /\ c.at = c.due /\ t >= c.at
  /\ c.notified = TRUE => n >= 1
  /\ \A l \in 1 .. Len(Levels) : l <= c.level => f[l] >= 1

\* A breach, once recorded, stays recorded at its instant.
StaysBreached(c, d) == c.state = "breached" => d.state = "breached" /\ d.at = c.at

\* A level that fired follows the ones below it, on a breach that is old enough.
FiredInOrder(c, t, f) ==
  \A l \in 1 .. Len(Levels) : f[l] >= 1 =>
    /\ \A k \in 1 .. l - 1 : f[k] >= 1
    /\ c.state = "breached" /\ t >= c.at + Levels[l]

\* All of this holds of the row and of what every handler read and will write.
HandlerSound(j, t, n, f) ==
  /\ j.now <= t
  /\ Sound(j.snap, t, n, f) /\ Sound(j.new, t, n, f)
  /\ StaysBreached(j.snap, j.new)

OrderInv ==
  /\ Sound(clock, time, sent, fired)
  /\ FiredInOrder(clock, time, fired)
  /\ \A w \in Workers : HandlerSound(job[w], time, sent, fired)

\* What was delivered stays delivered, and time goes on.
More(t, n, f, u, m, g) ==
  /\ t <= u
  /\ n >= 1 => m >= 1
  /\ \A l \in 1 .. Len(Levels) : f[l] >= 1 => g[l] >= 1

LEMMA SoundLater ==
  ASSUME NEW c \in Clocks, NEW t \in Nat, NEW u \in Nat, NEW n, NEW m, NEW f, NEW g,
         More(t, n, f, u, m, g), Sound(c, t, n, f)
  PROVE  Sound(c, u, m, g)
<1>1. c.level \in 0 .. Len(Levels) /\ c.notified \in BOOLEAN /\ c.due \in Int \cup {Null}
  BY DEF Clocks, Instants
<1>2. c.state = "breached" => c.due # Null /\ c.at = c.due /\ u >= c.at
  BY <1>1 DEF More, Sound
<1>3. QED
  BY <1>1, <1>2 DEF More, Sound

\* A clock before it starts claims nothing, nor does a new handler.
LEMMA NoClockSound ==
  ASSUME NEW t, NEW n, NEW f
  PROVE  Sound(NoClock, t, n, f) /\ StaysBreached(NoClock, NoClock)
BY DEF NoClock, Sound, StaysBreached

\* No event forgets a breach, a notice or a level, or makes one up.
LEMMA MovedSound ==
  ASSUME NEW c \in Clocks, NEW event, NEW class, NEW t \in Nat, NEW n, NEW f, Agree(c),
         Sound(c, t, n, f)
  PROVE  /\ Sound(Moved(event, c, class, t), t, n, f)
         /\ StaysBreached(c, Moved(event, c, class, t))
<1> DEFINE d == Moved(event, c, class, t)
<1>1. c.level \in Nat /\ c.notified \in BOOLEAN /\ c.due \in Int \cup {Null}
  BY SlaAssumption DEF Clocks, Instants
<1>2. /\ Started(t) \in Clocks /\ Started(t).state = "running"
      /\ Started(t).notified = FALSE /\ Started(t).level = 0
  <2>1. Started(t) \in Clocks /\ Agree(Started(t)) /\ Started(t).state = "running"
    BY StartedOK
  <2>2. Started(t).level \in Nat /\ Started(t).notified \in BOOLEAN
    BY <2>1, SlaAssumption DEF Clocks
  <2>3. QED
    BY <2>1, <2>2 DEF Agree
<1>3. Starts(event, c, class) => c.notified = FALSE /\ c.level = 0
  BY <1>1 DEF Starts, Agree
<1>4. d.notified = c.notified /\ d.level = c.level
  <2>1. /\ Paused(Started(t), t).notified = FALSE /\ Paused(Started(t), t).level = 0
        /\ Paused(c, t).notified = c.notified /\ Paused(c, t).level = c.level
        /\ Resumed(c, t).notified = c.notified /\ Resumed(c, t).level = c.level
        /\ Stopped(c, t).notified = c.notified /\ Stopped(c, t).level = c.level
        /\ [c EXCEPT !.state = "stopped"].notified = c.notified
        /\ [c EXCEPT !.state = "stopped"].level = c.level
    BY <1>2, PausedOK, ResumedOK, StoppedOK, TakenOffOK
  <2>2. QED
    BY <1>2, <1>3, <2>1 DEF Moved
<1>5. CASE c.state = "breached"
  <2>1. d = c
    BY <1>5 DEF Moved, Starts
  <2>2. QED
    BY <2>1 DEF StaysBreached
<1>6. CASE c.state # "breached"
  <2>1. d.state = "breached" => c.state \in {"running", "paused"} /\ d = Stopped(c, t)
    <3>1. /\ Paused(Started(t), t).state = "paused" /\ Started(t).state = "running"
          /\ Paused(c, t).state = "paused" /\ Resumed(c, t).state = "running"
          /\ [c EXCEPT !.state = "stopped"].state = "stopped"
      BY <1>2, PausedOK, ResumedOK, TakenOffOK
    <3>2. QED
      BY <1>6, <3>1 DEF Moved
  <2>2. c.state \in {"running", "paused"} => c.at = Null
    BY DEF Agree
  <2>3. ASSUME d.state = "breached" PROVE d.due # Null /\ d.at = d.due /\ t >= d.at
    <3>1. d = Stopped(c, t) /\ c.at = Null
      BY <2>1, <2>2, <2>3
    <3>2. Late(c, t) /\ c.due # Null /\ t > c.due
      BY <1>6, <2>3, <3>1, StoppedOK DEF Late
    <3>3. d.due = c.due
      BY <3>1, StoppedOK
    <3>4. d.at = c.due
      BY <3>1, <3>2 DEF Stopped, Clocks
    <3>5. QED
      BY <1>1, <3>2, <3>3, <3>4
  <2> HIDE DEF d
  <2>4. Sound(d, t, n, f)
    BY <1>4, <2>3 DEF Sound
  <2>5. QED
    BY <1>6, <2>4 DEF d, StaysBreached
<1>7. QED
  BY <1>5, <1>6

\* A step after which every handler is sound, the row being what it was or what
\* a handler that had read it makes of it.
LEMMA OrderKeeps ==
  ASSUME TypeInv, TypeInv', OrderInv, More(time, sent, fired, time', sent', fired'),
         FiredInOrder(clock, time', fired'),
         NEW w \in Workers, NEW j \in Job,
         \/ job' = job
         \/ job' = [job EXCEPT ![w] = j] /\ HandlerSound(j, time', sent', fired'),
         clock' = clock \/ (clock = job[w].snap /\ clock' = job[w].new)
  PROVE  OrderInv'
<1> USE DEF TypeInv, TypeOK
<1>1. /\ time \in Nat /\ time' \in Nat /\ clock \in Clocks
      /\ \A v \in Workers : /\ job[v] \in Job /\ job[v].now \in Nat
                            /\ job[v].snap \in Clocks /\ job[v].new \in Clocks
  BY SlaAssumption DEF Job
<1>2. ASSUME NEW v \in Workers PROVE HandlerSound(job[v], time', sent', fired')
  <2>1. HandlerSound(job[v], time, sent, fired)
    BY DEF OrderInv
  <2>2. job[v].now <= time'
    BY <1>1, <2>1 DEF HandlerSound, More
  <2>3. QED
    BY <1>1, <2>1, <2>2, SoundLater DEF HandlerSound
<1>3. ASSUME NEW v \in Workers PROVE HandlerSound(job'[v], time', sent', fired')
  <2>1. job'[v] = job[v] \/ (job'[v] = j /\ HandlerSound(j, time', sent', fired'))
    OBVIOUS
  <2>2. QED
    BY <1>2, <2>1
<1>4. Sound(clock', time', sent', fired') /\ StaysBreached(clock, clock')
  <2>1. Sound(clock, time', sent', fired')
    BY <1>1, SoundLater DEF OrderInv
  <2>2. HandlerSound(job[w], time', sent', fired')
    BY <1>2
  <2>3. QED
    BY <2>1, <2>2 DEF HandlerSound, StaysBreached
<1>5. FiredInOrder(clock', time', fired')
  BY <1>4 DEF FiredInOrder, StaysBreached
<1>6. QED
  BY <1>3, <1>4, <1>5 DEF OrderInv

\* Steps that deliver nothing.
LEMMA QuietKeeps ==
  ASSUME TypeInv, TypeInv', OrderInv, UNCHANGED <<sent, fired>>, time <= time',
         NEW w \in Workers, NEW j \in Job,
         \/ job' = job
         \/ job' = [job EXCEPT ![w] = j] /\ HandlerSound(j, time', sent, fired),
         clock' = clock \/ (clock = job[w].snap /\ clock' = job[w].new)
  PROVE  OrderInv'
<1>1. More(time, sent, fired, time', sent', fired')
  BY DEF More
<1>2. FiredInOrder(clock, time', fired')
  <2>1. FiredInOrder(clock, time, fired) /\ time \in Nat /\ time' \in Nat
    BY SlaAssumption DEF OrderInv, TypeInv, TypeOK
  <2>2. Sound(clock, time, sent, fired) /\ clock.due \in Int \cup {Null}
    BY DEF OrderInv, TypeInv, TypeOK, Clocks, Instants
  <2>3. \A l \in 1 .. Len(Levels) : Levels[l] \in Int
    BY SlaAssumption
  <2>4. QED
    BY <2>1, <2>2, <2>3 DEF FiredInOrder, Sound
<1>3. QED
  BY <1>1, <1>2, OrderKeeps

LEMMA OrderNext ==
  ASSUME StaleWritesRefused, TypeInv, TornInv, OrderInv, [Next]_vars
  PROVE  OrderInv'
<1>1. TypeInv'
  BY TypeNext
<1>2. /\ time \in Nat /\ time' \in Nat /\ clock \in Clocks /\ Agree(clock)
      /\ Sound(clock, time, sent, fired)
      /\ StaysBreached(clock, clock)
  BY <1>1, SlaAssumption DEF TypeInv, TypeOK, OrderInv, TornInv, ColumnsAgree, Agree, StaysBreached
<1>3. ASSUME NEW w \in Workers
      PROVE  /\ job[w] \in Job /\ job[w].snap \in Clocks /\ job[w].new \in Clocks
             /\ job[w].now \in Nat /\ Agree(job[w].snap)
             /\ HandlerSound(job[w], time, sent, fired)
  BY DEF TypeInv, TypeOK, Job, OrderInv, TornInv
<1>4. ASSUME UNCHANGED <<clock, job, sent, fired>>, time <= time', NEW w \in Workers
      PROVE OrderInv'
  BY <1>1, <1>3, <1>4, QuietKeeps
<1>5. /\ NewJob \in Job /\ NewJob.snap = NoClock /\ NewJob.new = NoClock /\ NewJob.now = 0
      /\ HandlerSound(NewJob, time, sent, fired)
  <2>1. NewJob.now = 0 /\ 0 <= time
    BY <1>2 DEF NewJob
  <2>2. QED
    BY <2>1, NewJobOK, NoClockSound DEF HandlerSound
<1>6. ASSUME NEW w \in Workers, Finished(w), UNCHANGED <<time, sent, fired>>,
             clock' = clock \/ (clock = job[w].snap /\ clock' = job[w].new)
      PROVE OrderInv'
  <2>1. job' = [job EXCEPT ![w] = NewJob] /\ time <= time'
    BY <1>2, <1>6 DEF Finished
  <2>2. HandlerSound(NewJob, time', sent, fired)
    BY <1>5, <1>6
  <2>3. QED
    BY <1>1, <1>5, <1>6, <2>1, <2>2, QuietKeeps
<1>7. ASSUME NEW w \in Workers, ToChain(w), UNCHANGED <<time, sent, fired>>,
             clock' = clock \/ (clock = job[w].snap /\ clock' = job[w].new)
      PROVE OrderInv'
  <2> DEFINE j == [NewJob EXCEPT !.now = job[w].now]
  <2>1. j \in Job /\ j.snap = NoClock /\ j.new = NoClock /\ j.now = job[w].now
    BY <1>3, <1>5 DEF Job
  <2>2. job' = [job EXCEPT ![w] = j] /\ time <= time'
    BY <1>2, <1>7 DEF ToChain
  <2> HIDE DEF j
  <2>3. HandlerSound(j, time', sent, fired)
    BY <1>3, <1>7, <2>1, NoClockSound DEF HandlerSound
  <2>4. QED
    BY <1>1, <1>7, <2>1, <2>2, <2>3, QuietKeeps
<1>8. CASE Tick \/ UNCHANGED vars
  <2>1. UNCHANGED <<clock, job, sent, fired>> /\ time <= time'
    BY <1>2, <1>8 DEF Tick, vars, notices
  <2>2. CASE Workers # {}
    BY <1>4, <2>1, <2>2
  <2>3. CASE Workers = {}
    <3>1. More(time, sent, fired, time', sent', fired')
      BY <2>1 DEF More
    <3>2. Sound(clock', time', sent', fired')
      BY <1>2, <2>1, <3>1, SoundLater
    <3>3. FiredInOrder(clock', time', fired')
      BY <1>2, <2>1, <3>2, SlaAssumption
      DEF OrderInv, FiredInOrder, Sound, Clocks, Instants
    <3>4. QED
      BY <2>3, <3>2, <3>3 DEF OrderInv
  <2>4. QED
    BY <2>2, <2>3
<1>9. ASSUME NEW w \in Workers, NEW event \in {"create", "update", "delete"},
             NEW class \in Classes, Write(w, event, class)
      PROVE OrderInv'
  <2> DEFINE j == [job[w] EXCEPT !.event = event]
  <2>1. j \in Job /\ j.snap = job[w].snap /\ j.new = job[w].new /\ j.now = job[w].now
    BY <1>3 DEF Job, Events
  <2>2. job' = [job EXCEPT ![w] = j] /\ UNCHANGED <<clock, time, sent, fired>> /\ time <= time'
    BY <1>9, <1>2, <1>3 DEF Write, notices
  <2> HIDE DEF j
  <2>3. HandlerSound(j, time', sent, fired)
    BY <1>3, <2>1, <2>2 DEF HandlerSound
  <2>4. QED
    BY <1>1, <2>1, <2>2, <2>3, QuietKeeps
<1>10. ASSUME NEW w \in Workers, SweepBegin(w) PROVE OrderInv'
  <2> DEFINE j == [job[w] EXCEPT !.event = "sweep", !.now = time]
  <2>1. j \in Job /\ j.snap = job[w].snap /\ j.new = job[w].new /\ j.now = time
    <3>1. "sweep" \in Events
      BY DEF Events
    <3>2. QED
      BY <1>2, <1>3, <3>1 DEF Job
  <2>2. job' = [job EXCEPT ![w] = j] /\ UNCHANGED <<clock, time, sent, fired>> /\ time <= time'
    <3>1. /\ job' = [job EXCEPT ![w].event = "sweep", ![w].now = time]
          /\ UNCHANGED <<clock, time, sent, fired>>
      BY <1>10 DEF SweepBegin, notices
    <3>2. job' = [job EXCEPT ![w] = j]
      BY <3>1
    <3> HIDE DEF j
    <3>3. time <= time'
      BY <1>2, <3>1
    <3>4. QED
      BY <3>1, <3>2, <3>3
  <2> HIDE DEF j
  <2>3. HandlerSound(j, time', sent, fired)
    BY <1>2, <1>3, <2>1, <2>2 DEF HandlerSound
  <2>4. QED
    BY <1>1, <2>1, <2>2, <2>3, QuietKeeps
<1>11. ASSUME NEW w \in Workers, React(w) PROVE OrderInv'
  <2> DEFINE new == Moved(job[w].event, clock,
                          IF status = "deleted" THEN Unset ELSE status, time)
  <2>1. new \in Clocks /\ Sound(new, time, sent, fired) /\ StaysBreached(clock, new)
    BY <1>2, MovedOK, MovedSound
  <2> HIDE DEF new
  <2> DEFINE j == [job[w] EXCEPT !.now = time, !.snap = clock, !.new = new]
  <2>2. j \in Job /\ j.snap = clock /\ j.new = new /\ j.now = time
    BY <1>2, <1>3, <2>1 DEF Job
  <2>3. job' = [job EXCEPT ![w] = j] /\ UNCHANGED <<clock, time, sent, fired>> /\ time <= time'
    <3>1. job' = [job EXCEPT ![w] = j]
      BY <1>11, <1>3 DEF React, new
    <3>2. UNCHANGED <<clock, time, sent, fired>>
      BY <1>11 DEF React, notices
    <3> HIDE DEF j
    <3>3. QED
      BY <1>2, <3>1, <3>2
  <2> HIDE DEF j
  <2>4. HandlerSound(j, time', sent, fired)
    BY <1>2, <2>1, <2>2, <2>3 DEF HandlerSound
  <2>5. QED
    BY <1>1, <2>2, <2>3, <2>4, QuietKeeps
<1>12. ASSUME NEW w \in Workers, Show(w) PROVE OrderInv'
  BY <1>2, <1>4, <1>12 DEF Show, notices
<1>13. ASSUME NEW w \in Workers, Commit(w)
       PROVE clock' = clock \/ (clock = job[w].snap /\ clock' = job[w].new)
  BY <1>13, CommitExact DEF TypeInv
<1>14. ASSUME NEW w \in Workers, Settle(w) \/ ChainCommit(w) PROVE OrderInv'
  BY <1>6, <1>13, <1>14 DEF Settle, ChainCommit, notices
<1>15. ASSUME NEW w \in Workers, SweepList(w) \/ SweepReload(w) PROVE OrderInv'
  <2>1. UNCHANGED <<clock, time, sent, fired>> /\ time <= time'
    BY <1>2, <1>15 DEF SweepList, SweepReload, notices
  <2>2. CASE ToChain(w)
    BY <1>7, <2>1, <2>2
  <2>3. CASE ~ToChain(w)
    <3> DEFINE j == [job[w] EXCEPT !.snap = clock, !.new = clock]
    <3>1. j \in Job /\ j.snap = clock /\ j.new = clock /\ j.now = job[w].now
      BY <1>2, <1>3 DEF Job
    <3>2. job' = [job EXCEPT ![w] = j]
      BY <1>15, <2>3 DEF SweepList, SweepReload
    <3> HIDE DEF j
    <3>3. HandlerSound(j, time', sent, fired)
      BY <1>2, <1>3, <2>1, <3>1 DEF HandlerSound
    <3>4. QED
      BY <1>1, <2>1, <3>1, <3>2, <3>3, QuietKeeps
  <2>4. QED
    BY <2>2, <2>3
<1>16. ASSUME NEW w \in Workers, SweepMark(w) PROVE OrderInv'
  <2>1. UNCHANGED <<clock, time, fired>> /\ time <= time'
    BY <1>2, <1>16 DEF SweepMark
  <2>2. CASE ToChain(w) /\ UNCHANGED sent
    BY <1>7, <2>1, <2>2
  <2>3. CASE job' = job /\ UNCHANGED sent
    BY <1>4, <2>1, <2>3
  <2>4. CASE /\ Overdue(job[w].snap, job[w].now)
             /\ sent' = IF NoticeDue(job[w].snap) THEN OneMore(sent) ELSE sent
             /\ job' = [job EXCEPT ![w].new = Marked(job[w].snap)]
    <3> DEFINE j == [job[w] EXCEPT !.new = Marked(job[w].snap)]
    <3>1. /\ Marked(job[w].snap) \in Clocks /\ Marked(job[w].snap).state = "breached"
          /\ Marked(job[w].snap).at = job[w].snap.due
          /\ Marked(job[w].snap).due = job[w].snap.due
          /\ Marked(job[w].snap).notified = TRUE
          /\ Marked(job[w].snap).level = job[w].snap.level
      BY <1>3, MarkedOK
    <3>2. j \in Job /\ j.snap = job[w].snap /\ j.new = Marked(job[w].snap) /\ j.now = job[w].now
      BY <1>3, <3>1 DEF Job
    <3>3. job' = [job EXCEPT ![w] = j]
      BY <2>4
    <3> HIDE DEF j
    <3>4. sent \in 0 .. Many /\ sent' >= 1 /\ (sent >= 1 => sent' >= 1)
      <4>1. sent \in 0 .. Many
        BY DEF TypeInv, TypeOK
      <4>2. job[w].snap.notified = TRUE => sent >= 1
        BY <1>3 DEF HandlerSound, Sound
      <4>3. job[w].snap.notified \in BOOLEAN
        BY <1>3 DEF Clocks
      <4>4. QED
        BY <2>4, <4>1, <4>2, <4>3 DEF NoticeDue, OneMore, Many
    <3>5. /\ job[w].snap.due # Null /\ job[w].snap.due \in Int
          /\ time >= job[w].snap.due
      BY <1>2, <1>3, <2>4 DEF Overdue, HandlerSound, Clocks, Instants
    <3>6. More(time, sent, fired, time', sent', fired')
      BY <2>1, <3>4 DEF More
    <3>7. HandlerSound(j, time', sent', fired')
      <4>1. Sound(job[w].snap, time', sent', fired')
        BY <1>2, <1>3, <3>6, SoundLater DEF HandlerSound
      <4>2. Sound(j.new, time', sent', fired')
        BY <2>1, <3>1, <3>2, <3>4, <3>5, <4>1 DEF Sound
      <4>3. StaysBreached(j.snap, j.new)
        BY <3>1, <3>2, <4>1 DEF Sound, StaysBreached
      <4>4. QED
        BY <1>2, <1>3, <2>1, <3>2, <4>1, <4>2, <4>3 DEF HandlerSound
    <3>8. FiredInOrder(clock, time', fired')
      BY <2>1 DEF OrderInv
    <3>9. QED
      BY <1>1, <2>1, <3>2, <3>3, <3>6, <3>7, <3>8, OrderKeeps
  <2>5. QED
    BY <1>16, <2>2, <2>3, <2>4 DEF SweepMark, Escalate, Marked
<1>17. ASSUME NEW w \in Workers, SweepCommit(w) PROVE OrderInv'
  BY <1>7, <1>13, <1>17 DEF SweepCommit, notices
<1>18. ASSUME NEW w \in Workers, ChainFire(w) PROVE OrderInv'
  <2> DEFINE raised == [clock EXCEPT !.level = @ + 1]
             next == clock.level + 1
  <2>1. /\ LevelDue(clock, job[w].now) /\ UNCHANGED <<clock, time, sent>>
        /\ fired' = [fired EXCEPT ![next] = OneMore(@)]
    BY <1>18 DEF ChainFire, FireEscalation
  <2>2. /\ clock.level \in Nat /\ Len(Levels) \in Nat /\ clock.level < Len(Levels)
        /\ clock.state = "breached" /\ next \in 1 .. Len(Levels)
    BY <1>2, <2>1, SlaAssumption DEF LevelDue, Clocks
  <2>3. /\ raised \in Clocks /\ raised.level = next /\ raised.state = clock.state
        /\ raised.at = clock.at /\ raised.due = clock.due /\ raised.notified = clock.notified
    BY <1>2, <2>2, RaisedOK
  <2> HIDE DEF raised
  <2> DEFINE j == [job[w] EXCEPT !.snap = clock, !.new = raised]
  <2>4. j \in Job /\ j.snap = clock /\ j.new = raised /\ j.now = job[w].now
    BY <1>2, <1>3, <2>3 DEF Job
  <2>5. job' = [job EXCEPT ![w] = j]
    BY <1>18 DEF ChainFire, raised
  <2> HIDE DEF j
  <2>6. /\ fired' [next] >= 1
        /\ \A l \in 1 .. Len(Levels) : fired[l] >= 1 => fired'[l] >= 1
        /\ \A l \in 1 .. Len(Levels) : l # next => fired'[l] = fired[l]
    <3>1. fired \in [1 .. Len(Levels) -> 0 .. Many]
      BY DEF TypeInv, TypeOK
    <3> HIDE DEF next
    <3>2. fired'[next] = OneMore(fired[next])
      BY <2>1, <2>2, <3>1
    <3>3. \A l \in 1 .. Len(Levels) : l # next => fired'[l] = fired[l]
      BY <2>1, <2>2, <3>1
    <3>4. OneMore(fired[next]) >= 1
      BY <2>2, <3>1 DEF OneMore, Many
    <3>5. QED
      BY <3>2, <3>3, <3>4
  <2>7. More(time, sent, fired, time', sent', fired')
    BY <1>2, <2>1, <2>6 DEF More
  <2>8. Sound(clock, time', sent', fired')
    BY <1>2, <2>7, SoundLater
  <2>9. Sound(raised, time', sent', fired')
    <3>1. \A l \in 1 .. Len(Levels) : l <= raised.level => l = next \/ l <= clock.level
      BY <2>2, <2>3
    <3>2. QED
      BY <2>3, <2>6, <2>8, <3>1 DEF Sound
  <2>10. HandlerSound(j, time', sent', fired')
    BY <1>3, <2>1, <2>3, <2>4, <2>8, <2>9 DEF HandlerSound, StaysBreached
  <2>11. time >= clock.at + Levels[next]
    <3>1. clock.at = clock.due /\ clock.due # Null /\ clock.due \in Int
      BY <1>2, <2>2 DEF Sound, Clocks, Instants
    <3>2. Levels[next] \in Nat
      BY <2>2, SlaAssumption
    <3>3. job[w].now <= time /\ job[w].now \in Nat
      BY <1>3 DEF HandlerSound
    <3>4. QED
      BY <1>2, <2>1, <3>1, <3>2, <3>3 DEF LevelDue
  <2>12. FiredInOrder(clock, time', fired')
    <3>1. ASSUME NEW l \in 1 .. Len(Levels), fired'[l] >= 1
          PROVE  /\ \A k \in 1 .. l - 1 : fired'[k] >= 1
                 /\ clock.state = "breached" /\ time' >= clock.at + Levels[l]
      <4>1. CASE l = next
        <5>1. \A k \in 1 .. l - 1 : k \in 1 .. Len(Levels) /\ k <= clock.level
          BY <2>2, <4>1
        <5>2. QED
          BY <2>1, <2>2, <2>8, <2>11, <4>1, <5>1 DEF Sound
      <4>2. CASE l # next
        <5>1. fired[l] >= 1
          BY <2>6, <3>1, <4>2
        <5>2. /\ \A k \in 1 .. l - 1 : fired[k] >= 1
              /\ time >= clock.at + Levels[l]
          BY <5>1 DEF OrderInv, FiredInOrder
        <5>3. \A k \in 1 .. l - 1 : k \in 1 .. Len(Levels)
          BY <2>2
        <5>4. QED
          BY <2>1, <2>2, <2>6, <5>2, <5>3
      <4>3. QED
        BY <4>1, <4>2
    <3>2. QED
      BY <3>1 DEF FiredInOrder
  <2>13. QED
    BY <1>1, <2>1, <2>4, <2>5, <2>7, <2>10, <2>12, OrderKeeps
<1>19. ASSUME NEW w \in Workers, ChainSkip(w) \/ Fail(w) PROVE OrderInv'
  BY <1>6, <1>19 DEF ChainSkip, Fail, notices
<1>20. QED
  BY <1>8, <1>9, <1>10, <1>11, <1>12, <1>14, <1>15, <1>16, <1>17, <1>18, <1>19
  DEF Next, Handler, Sweep

\* What stands in the row, and in what a handler is about to write, happened.
THEOREM OrderInvariant ==
  ASSUME StaleWritesRefused
  PROVE  Spec => []OrderInv
<1>1. Init => OrderInv
  <2> SUFFICES ASSUME Init PROVE OrderInv
    OBVIOUS
  <2>1. FiredInOrder(clock, time, fired)
    BY DEF Init, FiredInOrder
  <2>2. NewJob.now <= time
    BY DEF Init, NewJob
  <2>3. QED
    BY <2>1, <2>2, NoClockSound, NewJobOK DEF Init, OrderInv, HandlerSound
<1>2. TypeInv /\ TornInv /\ OrderInv /\ [Next]_vars => OrderInv'
  BY OrderNext
<1>3. QED
  BY <1>1, <1>2, TypeCorrect, TornInvariant, PTL DEF Spec

\* However many handlers and sweeps overlap or die, on a server that refuses
\* stale writes: no breach is recorded early, none is marked without a notice,
\* and the chain's levels are delivered in order, none skipped and none early.
THEOREM BreachInOrderHolds ==
  ASSUME StaleWritesRefused
  PROVE  Spec => []BreachInOrder
<1>1. TypeInv /\ OrderInv => BreachInOrder
  BY DEF OrderInv, Sound, FiredInOrder, BreachInOrder
<1>2. QED
  BY <1>1, OrderInvariant, TypeCorrect, PTL

=============================================================================
