------------------------------- MODULE Feeds -------------------------------
(***************************************************************************)
(* Scheduled feeds: the atomic claim of a due job (src/app/jobs.py), and   *)
(* the pass that pushes the rows above a feed's watermark to a remote peer *)
(* (src/app/feeds.py, src/app/connectors.py).                              *)
(*                                                                         *)
(* Several processes run the scheduler (cron, a ticker per web worker) and *)
(* the designer's "Run now" pushes without a claim.  A pass takes its      *)
(* `now` once, claims the feed, reads the watermark, reads the rows above  *)
(* it, pushes them one by one over HTTP, and finally writes the watermark  *)
(* and its own `now` to the feed.                                          *)
(*                                                                         *)
(* Time is kept as ages: last_run_at and every pass's `now` are known by   *)
(* the ticks that have gone by since.  The code only ever compares two     *)
(* stamps, so a stamp is not distinguished beyond the age at which it is   *)
(* due for every pass, and a stamp that was never written is that old.     *)
(***************************************************************************)
EXTENDS FiniteSetsExt

CONSTANTS
  Workers,       \* processes and threads that run passes
  LastRow,       \* rows of the source table: ids 1 .. LastRow
  Period,        \* schedule_minutes, in ticks
  MaxAge,        \* the longest a pass takes, from its `now` to its end
  Limit,         \* list_rows_after's limit
  Upsert,        \* the feed's mode: upsert, or create
  ManualRuns,    \* the designer uses "Run now"
  PeerMayFail,   \* requests may be refused, or time out before or after they
                 \* took effect
  MayCrash,      \* passes may die between two steps
  CommitsInOrder \* rows become visible in the order of their ids

ASSUME FeedsAssumption ==
  /\ LastRow \in Nat /\ Period \in Nat \ {0} /\ MaxAge \in Nat /\ Limit \in Nat \ {0}
  /\ {Upsert, ManualRuns, PeerMayFail, MayCrash, CommitsInOrder} \subseteq BOOLEAN

VARIABLES
  rows,       \* the source table's rows: unborn, open (uncommitted), committed
  watermark,  \* Feed.watermark, 0 for NULL
  lastRun,    \* age of Feed.last_run_at
  claimed,    \* history: age of the stamp of the latest successful claim
  peer,       \* how many copies of each row the peer holds
  tried,      \* history: rows whose push was attempted and logged
  pc,         \* where each worker's pass is
  job         \* the pass's locals

vars == <<rows, watermark, lastRun, claimed, peer, tried, pc, job>>

Rows == 1 .. LastRow
MaxCopies == 2            \* bounds the copies that are told apart
Old == Period + MaxAge    \* a stamp this old is due whatever a pass's `now` is

Job == [age : 0 .. MaxAge, wm : 0 .. LastRow, batch : SUBSET Rows,
        left : SUBSET Rows, found : BOOLEAN]
NewJob == [age |-> 0, wm |-> 0, batch |-> {}, left |-> {}, found |-> FALSE]

\* The feed, the rows and the peer's copies are well formed, every pass has its
\* locals, and no watermark lies beyond the table.
TypeOK ==
  /\ rows \in [Rows -> {"unborn", "open", "committed"}]
  /\ watermark \in 0 .. LastRow
  /\ lastRun \in 0 .. Old
  /\ claimed \in 0 .. Old
  /\ peer \in [Rows -> 0 .. MaxCopies]
  /\ tried \subseteq Rows
  /\ pc \in [Workers -> {"idle", "claiming", "loading", "listing", "pushing", "writing"}]
  /\ job \in [Workers -> Job]

Init ==
  /\ rows = [r \in Rows |-> "unborn"]
  /\ watermark = 0
  /\ lastRun = Old
  /\ claimed = Old
  /\ peer = [r \in Rows |-> 0]
  /\ tried = {}
  /\ pc = [w \in Workers |-> "idle"]
  /\ job = [w \in Workers |-> NewJob]

Goto(w, l) == pc' = [pc EXCEPT ![w] = l]

Finished(w) == Goto(w, "idle") /\ job' = [job EXCEPT ![w] = NewJob]

-----------------------------------------------------------------------------
(* Time and the source table. *)

Older(age, max) == IF age < max THEN age + 1 ELSE max

\* Time passes; a pass is given at most MaxAge ticks.
Tick ==
  /\ \A w \in Workers : pc[w] # "idle" => job[w].age < MaxAge
  /\ lastRun' = Older(lastRun, Old)
  /\ claimed' = Older(claimed, Old)
  /\ job' = [w \in Workers |->
               IF pc[w] = "idle" THEN job[w] ELSE [job[w] EXCEPT !.age = @ + 1]]
  /\ UNCHANGED <<rows, watermark, peer, tried, pc>>

\* An insert takes the next id and commits later.
Insert(r) ==
  /\ rows[r] = "unborn"
  /\ \A q \in Rows : q < r => rows[q] # "unborn"
  /\ rows' = [rows EXCEPT ![r] = "open"]
  /\ UNCHANGED <<watermark, lastRun, claimed, peer, tried, pc, job>>

Commit(r) ==
  /\ rows[r] = "open"
  /\ CommitsInOrder => \A q \in Rows : q < r => rows[q] = "committed"
  /\ rows' = [rows EXCEPT ![r] = "committed"]
  /\ UNCHANGED <<watermark, lastRun, claimed, peer, tried, pc, job>>

-----------------------------------------------------------------------------
(* A pass. *)

\* run_scheduled takes its `now`.
Begin(w) ==
  /\ pc[w] = "idle"
  /\ Goto(w, "claiming")
  /\ UNCHANGED <<rows, watermark, lastRun, claimed, peer, tried, job>>

\* feed_run: run_scheduled(only_feed_id) does not claim.
RunNow(w) ==
  /\ ManualRuns
  /\ pc[w] = "idle"
  /\ Goto(w, "loading")
  /\ UNCHANGED <<rows, watermark, lastRun, claimed, peer, tried, job>>

\* claim_due's WHERE: last_run_at is at or before now - schedule_minutes.
Due(age) == lastRun >= Period + age

\* Mutant: the feed is found due, but stamped only when the pass ends.
ClaimReadsOnly(w) ==
  /\ pc[w] = "claiming"
  /\ \/ Due(job[w].age) /\ claimed' = job[w].age /\ Goto(w, "loading") /\ UNCHANGED job
     \/ ~Due(job[w].age) /\ Finished(w) /\ UNCHANGED claimed
  /\ UNCHANGED <<rows, watermark, lastRun, peer, tried>>

\* claim_due: one conditional UPDATE; the worker whose UPDATE moved the row runs.
Claim(w) ==
  /\ pc[w] = "claiming"
  /\ \/ /\ Due(job[w].age)
        /\ lastRun' = job[w].age
        /\ claimed' = job[w].age
        /\ Goto(w, "loading")
        /\ UNCHANGED job
     \/ /\ ~Due(job[w].age)
        /\ Finished(w)
        /\ UNCHANGED <<lastRun, claimed>>
  /\ UNCHANGED <<rows, watermark, peer, tried>>

\* The feed, expired by the claim's commit, is loaded again.
Load(w) ==
  /\ pc[w] = "loading"
  /\ job' = [job EXCEPT ![w].wm = watermark]
  /\ Goto(w, "listing")
  /\ UNCHANGED <<rows, watermark, lastRun, claimed, peer, tried>>

\* list_rows_after: the first Limit committed rows above the watermark.
RowsAfter(wm) ==
  LET above == {r \in Rows : r > wm /\ rows[r] = "committed"}
  IN {r \in above : Cardinality({q \in above : q <= r}) <= Limit}

List(w) ==
  /\ pc[w] = "listing"
  /\ LET batch == RowsAfter(job[w].wm)
     IN job' = [job EXCEPT ![w].batch = batch, ![w].left = batch]
  /\ Goto(w, "pushing")
  /\ UNCHANGED <<rows, watermark, lastRun, claimed, peer, tried>>

\* The push of r is over and logged, whatever its status.
Logged(r) == tried' = tried \cup {r}

\* connectors.push in upsert mode asks the peer for the row first.  An answer
\* other than 200 counts as "not there"; no answer ends the push as failed.
LookUp(w) ==
  /\ Upsert
  /\ pc[w] = "pushing"
  /\ job[w].left # {}
  /\ LET r == Min(job[w].left)
     IN \/ /\ \/ job' = [job EXCEPT ![w].found = peer[r] > 0]
              \/ PeerMayFail /\ job' = [job EXCEPT ![w].found = FALSE]
           /\ Goto(w, "writing")
           /\ UNCHANGED tried
        \/ /\ PeerMayFail
           /\ Logged(r)
           /\ job' = [job EXCEPT ![w].left = @ \ {r}]
           /\ UNCHANGED pc
  /\ UNCHANGED <<rows, watermark, lastRun, claimed, peer>>

\* Mutant: the lookup's answer is not used.
ReceivedTwice(r, found) ==
  peer' = [peer EXCEPT ![r] = IF @ < MaxCopies THEN @ + 1 ELSE @]

\* What the peer does with the request: PATCH what was found, else POST a copy.
Received(r, found) ==
  peer' = [peer EXCEPT ![r] = IF found \/ @ = MaxCopies THEN @ ELSE @ + 1]

\* The PATCH or POST; a failure, before or after the peer took it, is logged.
Send(w) ==
  /\ pc[w] = IF Upsert THEN "writing" ELSE "pushing"
  /\ job[w].left # {}
  /\ LET r == Min(job[w].left)
     IN /\ \/ Received(r, job[w].found)
           \/ PeerMayFail /\ UNCHANGED peer
        /\ Logged(r)
        /\ job' = [job EXCEPT ![w].left = @ \ {r}, ![w].found = FALSE]
  /\ Goto(w, "pushing")
  /\ UNCHANGED <<rows, watermark, lastRun, claimed>>

\* Mutant: the newest row of the table, not of the batch.
NewestRow(batch) == Max({r \in Rows : rows[r] = "committed"})

\* The watermark a pass leaves behind.
NewWatermark(batch) == Max(batch)

\* Mutant: the watermark is not written back.
FinishStampOnly(w) ==
  /\ pc[w] = "pushing"
  /\ job[w].left = {}
  /\ lastRun' = job[w].age
  /\ Finished(w)
  /\ UNCHANGED <<rows, watermark, claimed, peer, tried>>

\* Mutant: a pass that found no rows clears the watermark.
FinishClears(w) ==
  /\ pc[w] = "pushing"
  /\ job[w].left = {}
  /\ watermark' = IF job[w].batch = {} THEN 0 ELSE NewWatermark(job[w].batch)
  /\ lastRun' = job[w].age
  /\ Finished(w)
  /\ UNCHANGED <<rows, claimed, peer, tried>>

\* The pass ends: its own watermark and its own `now` are written to the feed.
Finish(w) ==
  /\ pc[w] = "pushing"
  /\ job[w].left = {}
  /\ watermark' = IF job[w].batch = {} THEN watermark ELSE NewWatermark(job[w].batch)
  /\ lastRun' = job[w].age
  /\ Finished(w)
  /\ UNCHANGED <<rows, claimed, peer, tried>>

\* The process dies, or an exception outside a push aborts run_scheduled.
Crash(w) ==
  /\ MayCrash
  /\ pc[w] # "idle"
  /\ Finished(w)
  /\ UNCHANGED <<rows, watermark, lastRun, claimed, peer, tried>>

Pass(w) == Claim(w) \/ Load(w) \/ List(w) \/ LookUp(w) \/ Send(w) \/ Finish(w)

Next ==
  \/ Tick
  \/ \E r \in Rows : Insert(r) \/ Commit(r)
  \/ \E w \in Workers : Begin(w) \/ RunNow(w) \/ Pass(w) \/ Crash(w)

Spec == Init /\ [][Next]_vars

\* Time goes on, every process starts a pass again and again, and a pass that
\* has begun is driven to its end.
FairSpec ==
  /\ Spec
  /\ WF_vars(Tick)
  /\ \A w \in Workers : WF_vars(Begin(w)) /\ WF_vars(Pass(w))

-----------------------------------------------------------------------------
(* Safety. *)

Running(w) == pc[w] \in {"loading", "listing", "pushing", "writing"}

\* "Exactly one worker runs each due job": two passes never run the feed at the
\* same time.
OneRunner == \A v, w \in Workers : Running(v) /\ Running(w) => v = w

\* The stamp in the feed is never older than that of the latest claim: a pass
\* that ends does not put the feed back to before a claim that came after its.
StampKept == lastRun <= claimed

\* Two successful claims carry stamps that are at least a period apart.
ClaimsSpaced ==
  [][\A w \in Workers :
       pc[w] = "claiming" /\ pc'[w] = "loading" => claimed >= Period + job[w].age]_vars

\* The claim is there "so concurrent workers don't push the same rows twice",
\* and an upsert finds the row that is there: the peer gets each row once.
NoDuplicate == \A r \in Rows : peer[r] <= 1

\* A row the watermark has passed was pushed, or its failed push was logged: no
\* committed row is passed over in silence.
NoneForgotten ==
  \A r \in Rows : rows[r] = "committed" /\ r <= watermark => r \in tried

\* What it rests on: rows below a visible row are visible, so that nothing can
\* appear below the watermark, the watermark a pass has read, or its batch.
Passed(p) == \A r \in Rows : rows[r] = "committed" /\ r <= p => r \in tried

Visible(p) == p = 0 \/ (p \in Rows /\ rows[p] = "committed")

PassInv(w) ==
  /\ pc[w] \in {"listing", "pushing", "writing"} =>
       Visible(job[w].wm) /\ Passed(job[w].wm)
  /\ pc[w] \in {"pushing", "writing"} =>
       /\ job[w].left \subseteq job[w].batch
       /\ job[w].batch \ job[w].left \subseteq tried
       /\ \A q \in job[w].batch :
            /\ rows[q] = "committed"
            /\ \A r \in 1 .. q : r \in job[w].batch \cup tried

ForgottenInv ==
  /\ \A q, r \in Rows : q < r /\ rows[r] = "committed" => rows[q] = "committed"
  /\ Visible(watermark) /\ Passed(watermark)
  /\ \A w \in Workers : PassInv(w)

\* Why it works while passes end before they are due again: the one pass that
\* runs holds the latest claim, and nobody moves the watermark under it.
ExclusiveInv ==
  /\ lastRun = claimed
  /\ OneRunner
  /\ \A w \in Workers :
       /\ Running(w) => job[w].age = claimed
       /\ pc[w] \in {"listing", "pushing", "writing"} => job[w].wm = watermark
       /\ pc[w] \in {"pushing", "writing"} =>
            \A q \in job[w].batch : q > watermark

\* And why an upsert does not duplicate a row on a peer that answers: what the
\* one pass was told of its next row is still so when it writes.
UpsertInv ==
  /\ NoDuplicate
  /\ \A w \in Workers : pc[w] = "writing" =>
       /\ job[w].left # {}
       /\ job[w].found = (peer[Min(job[w].left)] > 0)

\* The watermark never goes back: no pass overwrites what a later one reached.
WatermarkKept == [][watermark' >= watermark]_vars

(* Liveness. *)

\* Every committed row is pushed (or its failed push logged) in the end.
EveryRowTried == \A r \in Rows : rows[r] = "committed" ~> r \in tried

=============================================================================
