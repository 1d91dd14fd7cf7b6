---------------------------- MODULE FeedsProofs ----------------------------
(***************************************************************************)
(* Theorems about Feeds: what the claim and the watermark guarantee for    *)
(* every number of processes and rows, every period and every limit.       *)
(***************************************************************************)
EXTENDS Feeds, TLAPS, FiniteSetTheorems, WellFoundedInduction

-----------------------------------------------------------------------------
(* The least and the greatest id of a set of rows. *)

\* A set of rows has a least id: the order of Nat is well founded.
LEMMA MinRow ==
  ASSUME NEW S \in SUBSET Nat, S # {}
  PROVE  Min(S) \in S /\ \A q \in S : Min(S) <= q
<1>1. PICK x \in S : \A y \in S : ~ (<<y, x>> \in OpToRel(<, Nat))
  BY NatLessThanWellFounded, WFMin
<1>2. \A y \in S : x <= y
  <2> SUFFICES ASSUME NEW y \in S PROVE x <= y
    OBVIOUS
  <2>1. x \in Nat /\ y \in Nat
    OBVIOUS
  <2>2. <<y, x>> \in OpToRel(<, Nat) <=> y < x
    BY <2>1 DEF OpToRel
  <2>3. ~ (y < x)
    BY <1>1, <2>2
  <2> QED BY <2>1, <2>3
<1> QED BY <1>2 DEF Min

\* A set of rows of the table has a greatest id.
LEMMA MaxRow ==
  ASSUME NEW S \in SUBSET Rows, S # {}
  PROVE  Max(S) \in S /\ \A q \in S : q <= Max(S)
<1> USE FeedsAssumption
<1> DEFINE T == {n \in Nat : LastRow - n \in S}
<1>1. PICK r \in S : TRUE
  OBVIOUS
<1>2. T \in SUBSET Nat /\ LastRow - r \in T
  BY DEF Rows
<1>3. Min(T) \in T /\ \A n \in T : Min(T) <= n
  <2> HIDE DEF T
  <2> QED BY <1>2, MinRow
<1> DEFINE m == LastRow - Min(T)
<1>4. m \in S /\ \A q \in S : q <= m
  <2>1. m \in S
    BY <1>3
  <2> SUFFICES ASSUME NEW q \in S PROVE q <= m
    BY <2>1
  <2>2. q \in 1 .. LastRow /\ LastRow - q \in T
    BY DEF Rows
  <2>3. Min(T) \in Nat /\ Min(T) <= LastRow - q
    BY <1>3, <2>2
  <2> HIDE DEF T
  <2> QED BY <2>2, <2>3
<1>5. \A q \in S : q \in Int
  BY DEF Rows
<1> HIDE DEF m
<1> QED BY <1>4, <1>5 DEF Max

-----------------------------------------------------------------------------
(* Types. *)

LEMMA InitTypeOK == Init => TypeOK
  BY FeedsAssumption DEF Init, TypeOK, Job, NewJob, Old, Rows, MaxCopies

LEMMA FinishedType ==
  ASSUME TypeOK, NEW w \in Workers, Finished(w)
  PROVE  /\ pc' \in [Workers -> {"idle", "claiming", "loading", "listing", "pushing", "writing"}]
         /\ job' \in [Workers -> Job]
<1>1. NewJob \in Job
  BY FeedsAssumption DEF NewJob, Job
<1> QED BY <1>1 DEF TypeOK, Finished, Goto

\* The batch is a set of rows.
LEMMA BatchRows ==
  ASSUME NEW wm
  PROVE  RowsAfter(wm) \in SUBSET Rows
  BY DEF RowsAfter

\* A pass works on the least of the rows it has left.
LEMMA NextRow ==
  ASSUME TypeOK, NEW w \in Workers, job[w].left # {}
  PROVE  Min(job[w].left) \in job[w].left /\ Min(job[w].left) \in Rows
<1>1. job[w].left \in SUBSET Rows
  BY DEF TypeOK, Job
<1>2. job[w].left \in SUBSET Nat
  BY <1>1 DEF Rows
<1> QED BY <1>1, <1>2, MinRow

LEMMA NextTypeOK == TypeOK /\ [Next]_vars => TypeOK'
<1> SUFFICES ASSUME TypeOK, [Next]_vars PROVE TypeOK'
  OBVIOUS
<1> USE FeedsAssumption
<1>1. CASE Tick
  <2>1. job' \in [Workers -> Job]
    BY <1>1, SMTT(30) DEF Tick, TypeOK, Job
  <2>2. lastRun' \in 0 .. Old /\ claimed' \in 0 .. Old
    BY <1>1 DEF Tick, TypeOK, Older, Old
  <2> QED BY <1>1, <2>1, <2>2 DEF Tick, TypeOK, Old
<1>2. ASSUME NEW r \in Rows, Insert(r) \/ Commit(r) PROVE TypeOK'
  BY <1>2 DEF Insert, Commit, TypeOK, Old
<1>3. ASSUME NEW w \in Workers, Begin(w) \/ RunNow(w) PROVE TypeOK'
  BY <1>3 DEF Begin, RunNow, Goto, TypeOK, Old
<1>4. ASSUME NEW w \in Workers, Claim(w) PROVE TypeOK'
  <2>1. CASE Due(job[w].age)
    <3>1. job[w].age \in 0 .. Old
      BY DEF TypeOK, Job, Old
    <3> QED BY <1>4, <2>1, <3>1 DEF Claim, Goto, TypeOK, Old
  <2>2. CASE ~Due(job[w].age)
    BY <1>4, <2>2, FinishedType DEF Claim, TypeOK, Old
  <2> QED BY <2>1, <2>2
<1>5. ASSUME NEW w \in Workers, Load(w) PROVE TypeOK'
  <2>1. job' \in [Workers -> Job]
    BY <1>5 DEF Load, TypeOK, Job
  <2> QED BY <1>5, <2>1 DEF Load, Goto, TypeOK, Old
<1>6. ASSUME NEW w \in Workers, List(w) PROVE TypeOK'
  <2>1. job' \in [Workers -> Job]
    BY <1>6, BatchRows, ZenonT(30) DEF List, TypeOK, Job
  <2> QED BY <1>6, <2>1 DEF List, Goto, TypeOK, Old
<1>7. ASSUME NEW w \in Workers, LookUp(w) PROVE TypeOK'
  <2>1. Min(job[w].left) \in Rows
    BY <1>7, NextRow DEF LookUp
  <2>2. job' \in [Workers -> Job]
    <3>1. job[w] \in Job
      BY DEF TypeOK
    <3>2. ASSUME NEW b \in BOOLEAN PROVE [job[w] EXCEPT !.found = b] \in Job
      BY <3>1 DEF Job
    <3>3. ASSUME NEW r PROVE [job[w] EXCEPT !.left = @ \ {r}] \in Job
      BY <3>1 DEF Job
    <3>4. \A r : (peer[r] > 0) \in BOOLEAN
      OBVIOUS
    <3>5. \E j \in Job : job' = [job EXCEPT ![w] = j]
      <4>1. \/ \E b \in BOOLEAN : job' = [job EXCEPT ![w].found = b]
            \/ \E r : job' = [job EXCEPT ![w].left = @ \ {r}]
        BY <1>7, <3>4 DEF LookUp
      <4> QED BY <4>1, <3>2, <3>3
    <3> QED BY <3>5 DEF TypeOK
  <2>3. tried' \subseteq Rows
    BY <1>7, <2>1 DEF LookUp, Logged, TypeOK
  <2> QED BY <1>7, <2>2, <2>3 DEF LookUp, Goto, TypeOK, Old
<1>8. ASSUME NEW w \in Workers, Send(w) PROVE TypeOK'
  <2>1. Min(job[w].left) \in Rows
    BY <1>8, NextRow DEF Send
  <2>2. job' \in [Workers -> Job]
    BY <1>8, ZenonT(30) DEF Send, TypeOK, Job
  <2>3. tried' \subseteq Rows
    BY <1>8, <2>1 DEF Send, Logged, TypeOK
  <2>4. peer' \in [Rows -> 0 .. MaxCopies]
    BY <1>8 DEF Send, Received, TypeOK, MaxCopies
  <2> QED BY <1>8, <2>2, <2>3, <2>4 DEF Send, Goto, TypeOK, Old
<1>9. ASSUME NEW w \in Workers, Finish(w) PROVE TypeOK'
  <2>1. watermark' \in 0 .. LastRow
    <3>1. CASE job[w].batch = {}
      BY <1>9, <3>1 DEF Finish, TypeOK
    <3>2. CASE job[w].batch # {}
      <4>1. Max(job[w].batch) \in Rows
        BY <3>2, MaxRow DEF TypeOK, Job
      <4> QED BY <1>9, <3>2, <4>1 DEF Finish, NewWatermark, Rows
    <3> QED BY <3>1, <3>2
  <2>2. lastRun' \in 0 .. Old
    BY <1>9 DEF Finish, TypeOK, Job, Old
  <2> QED BY <1>9, <2>1, <2>2, FinishedType DEF Finish, TypeOK, Old
<1>10. ASSUME NEW w \in Workers, Crash(w) PROVE TypeOK'
  BY <1>10, FinishedType DEF Crash, TypeOK, Old
<1>11. CASE UNCHANGED vars
  BY <1>11 DEF vars, TypeOK, Old
<1> QED
  BY <1>1, <1>2, <1>3, <1>4, <1>5, <1>6, <1>7, <1>8, <1>9, <1>10, <1>11 DEF Next, Pass

\* The feed, the rows, the peer's copies and the passes stay well formed; in
\* particular no pass writes a watermark beyond the table.
THEOREM TypeCorrect == Spec => []TypeOK
<1> QED BY InitTypeOK, NextTypeOK, PTL DEF Spec

-----------------------------------------------------------------------------
(* No row is passed over in silence, if rows commit in the order of their  *)
(* ids.                                                                    *)

\* What a step may do to the rows and the log: a row that becomes visible does
\* so right above the visible ones.
RowsStep ==
  /\ tried \subseteq tried'
  /\ \A q \in Rows : rows[q] = "committed" => rows'[q] = "committed"
  /\ \A q \in Rows : rows'[q] = "committed" /\ rows[q] # "committed" =>
       \A p \in Rows : rows[p] = "committed" <=> p < q

\* A batch is a prefix of the visible rows above the watermark it was taken at.
LEMMA BatchIsPrefix ==
  ASSUME NEW wm \in 0 .. LastRow, NEW q \in RowsAfter(wm), NEW r \in Rows,
         wm < r, r <= q, rows[r] = "committed"
  PROVE  r \in RowsAfter(wm)
<1> DEFINE above == {s \in Rows : s > wm /\ rows[s] = "committed"}
<1> DEFINE upTo(s) == {t \in above : t <= s}
<1>1. above \in SUBSET Rows /\ IsFiniteSet(Rows)
  <2>1. 1 \in Int /\ LastRow \in Int
    BY FeedsAssumption
  <2>2. IsFiniteSet(1 .. LastRow)
    BY <2>1, FS_Interval
  <2> QED BY <2>2 DEF Rows
<1>2. upTo(q) \in SUBSET above /\ upTo(r) \in SUBSET above
  OBVIOUS
<1>3. upTo(r) \in SUBSET upTo(q)
  <2> SUFFICES ASSUME NEW t \in above, t <= r PROVE t <= q
    OBVIOUS
  <2>1. t \in Int /\ r \in Int /\ q \in Int
    BY <1>1 DEF Rows, RowsAfter
  <2> QED BY <2>1
<1>4. Cardinality(upTo(q)) <= Limit
  BY DEF RowsAfter
<1>5. IsFiniteSet(upTo(q)) /\ IsFiniteSet(upTo(r))
  <2> HIDE DEF above, upTo
  <2>1. IsFiniteSet(above)
    BY <1>1, FS_Subset
  <2> QED BY <1>2, <2>1, FS_Subset
<1>6. Cardinality(upTo(r)) <= Cardinality(upTo(q))
  <2> HIDE DEF above, upTo
  <2> QED BY <1>3, <1>5, FS_Subset
<1>7. Cardinality(upTo(r)) \in Nat /\ Cardinality(upTo(q)) \in Nat
  <2> HIDE DEF above, upTo
  <2> QED BY <1>5, FS_CardinalityType
<1>8. Cardinality(upTo(r)) <= Limit
  <2> HIDE DEF above, upTo
  <2> QED BY <1>4, <1>6, <1>7, FeedsAssumption
<1>9. r \in above
  OBVIOUS
<1> QED BY <1>8, <1>9 DEF RowsAfter

\* Below a visible row nothing appears any more, so what was passed stays passed.
LEMMA PassedStays ==
  ASSUME TypeOK, RowsStep, NEW p \in 0 .. LastRow, Visible(p), Passed(p)
  PROVE  Visible(p)' /\ Passed(p)'
<1>1. Visible(p)'
  BY DEF Visible, RowsStep
<1>2. Passed(p)'
  <2> SUFFICES ASSUME NEW r \in Rows, rows'[r] = "committed", r <= p PROVE r \in tried'
    BY DEF Passed
  <2>1. rows[r] = "committed"
    BY DEF Visible, RowsStep, Rows
  <2> QED BY <2>1 DEF Passed, RowsStep
<1> QED BY <1>1, <1>2

\* A pass that a step leaves alone keeps its invariant.
LEMMA PassStays ==
  ASSUME TypeOK, RowsStep, NEW w \in Workers, PassInv(w), pc'[w] = pc[w],
         job'[w].wm = job[w].wm, job'[w].batch = job[w].batch, job'[w].left = job[w].left
  PROVE  PassInv(w)'
<1>1. ASSUME pc[w] \in {"listing", "pushing", "writing"}
      PROVE  (Visible(job[w].wm) /\ Passed(job[w].wm))'
  <2>1. PICK p \in 0 .. LastRow : p = job[w].wm
    BY DEF TypeOK, Job
  <2>2. Visible(p)' /\ Passed(p)'
    BY <1>1, <2>1, PassedStays DEF PassInv
  <2> QED BY <2>1, <2>2 DEF Visible, Passed
<1>2. job[w].batch \subseteq Rows
  BY DEF TypeOK, Job
<1> QED BY <1>1, <1>2 DEF PassInv, RowsStep

LEMMA InitForgotten == Init => ForgottenInv
  BY DEF Init, ForgottenInv, Visible, Passed, PassInv, Rows

LEMMA ForgottenStays ==
  ASSUME TypeOK, ForgottenInv, RowsStep, watermark' = watermark,
         \A w \in Workers : PassInv(w)'
  PROVE  ForgottenInv'
<1>1. \A q, r \in Rows : q < r /\ rows'[r] = "committed" => rows'[q] = "committed"
  BY DEF RowsStep, ForgottenInv
<1>2. PICK p \in 0 .. LastRow : p = watermark
  BY DEF TypeOK
<1>3. (Visible(watermark) /\ Passed(watermark))'
  <2>1. Visible(p)' /\ Passed(p)'
    BY <1>2, PassedStays DEF ForgottenInv
  <2> QED BY <1>2, <2>1 DEF Visible, Passed
<1> QED BY <1>1, <1>3 DEF ForgottenInv

\* One case per step; a pass may only be hurt by its own.
LEMMA NextForgotten ==
  ASSUME CommitsInOrder, TypeOK, ForgottenInv, [Next]_vars
  PROVE  ForgottenInv'
<1> DEFINE Spared(w) == /\ pc'[w] = pc[w]
                        /\ job'[w].wm = job[w].wm
                        /\ job'[w].batch = job[w].batch
                        /\ job'[w].left = job[w].left
<1> DEFINE OthersSpared(w) == \A v \in Workers : v # w => Spared(v)
<1>1. ASSUME NEW w \in Workers, RowsStep, OthersSpared(w), PassInv(w)',
             watermark' = watermark
      PROVE  ForgottenInv'
  <2>1. ASSUME NEW v \in Workers PROVE PassInv(v)'
    <3>1. CASE v = w
      BY <1>1, <3>1
    <3>2. CASE v # w
      BY <1>1, <3>2, PassStays DEF ForgottenInv
    <3> QED BY <3>1, <3>2
  <2> QED BY <1>1, <2>1, ForgottenStays
<1>2. ASSUME RowsStep, \A v \in Workers : Spared(v), watermark' = watermark
      PROVE  ForgottenInv'
  <2>1. ASSUME NEW v \in Workers PROVE PassInv(v)'
    BY <1>2, PassStays DEF ForgottenInv
  <2> QED BY <1>2, <2>1, ForgottenStays
<1>3. ASSUME UNCHANGED <<rows, tried>> PROVE RowsStep
  BY <1>3 DEF RowsStep
<1>4. CASE Tick
  <2>1. \A v \in Workers : Spared(v)
    BY <1>4 DEF Tick, TypeOK, Job
  <2> QED BY <1>2, <1>3, <1>4, <2>1 DEF Tick
<1>5. ASSUME NEW r \in Rows, Insert(r) PROVE ForgottenInv'
  <2>1. RowsStep
    BY <1>5 DEF Insert, RowsStep, TypeOK
  <2> QED BY <1>2, <1>5, <2>1 DEF Insert
<1>6. ASSUME NEW r \in Rows, Commit(r) PROVE ForgottenInv'
  <2>1. \A p \in Rows : rows[p] = "committed" <=> p < r
    <3>1. \A p \in Rows : p < r => rows[p] = "committed"
      BY <1>6, CommitsInOrder DEF Commit
    <3>2. ASSUME NEW p \in Rows, rows[p] = "committed" PROVE p < r
      <4>1. p # r /\ ~ (r < p)
        BY <1>6, <3>2 DEF Commit, ForgottenInv
      <4> QED BY <4>1 DEF Rows
    <3> QED BY <3>1, <3>2
  <2>2. RowsStep
    BY <1>6, <2>1 DEF Commit, RowsStep, TypeOK
  <2> QED BY <1>2, <1>6, <2>2 DEF Commit
<1>7. ASSUME NEW w \in Workers, Begin(w) \/ RunNow(w) PROVE ForgottenInv'
  <2>1. pc'[w] \in {"claiming", "loading"} /\ OthersSpared(w)
    BY <1>7 DEF Begin, RunNow, Goto, TypeOK
  <2>2. PassInv(w)'
    BY <2>1 DEF PassInv
  <2> QED BY <1>1, <1>3, <1>7, <2>1, <2>2 DEF Begin, RunNow
<1>8. ASSUME NEW w \in Workers, Claim(w) PROVE ForgottenInv'
  <2>1. pc'[w] \in {"idle", "loading"} /\ OthersSpared(w)
    BY <1>8 DEF Claim, Finished, Goto, TypeOK
  <2>2. PassInv(w)'
    BY <2>1 DEF PassInv
  <2> QED BY <1>1, <1>3, <1>8, <2>1, <2>2 DEF Claim
<1>9. ASSUME NEW w \in Workers, Load(w) PROVE ForgottenInv'
  <2>1. pc'[w] = "listing" /\ job'[w].wm = watermark /\ OthersSpared(w)
    BY <1>9 DEF Load, Goto, TypeOK, Job
  <2>2. PassInv(w)'
    BY <1>9, <2>1 DEF Load, PassInv, ForgottenInv, Visible, Passed
  <2> QED BY <1>1, <1>3, <1>9, <2>1, <2>2 DEF Load
<1>10. ASSUME NEW w \in Workers, List(w) PROVE ForgottenInv'
  <2> DEFINE wm == job[w].wm
  <2> DEFINE batch == RowsAfter(wm)
  <2>1. /\ pc'[w] = "pushing" /\ job'[w].wm = wm
        /\ job'[w].batch = batch /\ job'[w].left = batch
        /\ OthersSpared(w)
    BY <1>10 DEF List, Goto, TypeOK, Job
  <2>2. wm \in 0 .. LastRow /\ Visible(wm) /\ Passed(wm)
    BY <1>10 DEF List, TypeOK, Job, ForgottenInv, PassInv
  <2>3. ASSUME NEW q \in batch PROVE q \in Rows /\ rows[q] = "committed"
    BY DEF RowsAfter
  <2>4. ASSUME NEW q \in batch, NEW r \in 1 .. q PROVE r \in batch \cup tried
    <3> HIDE DEF batch, wm
    <3>1. r \in Rows /\ r <= q
      <4>1. q \in 1 .. LastRow
        BY <2>3 DEF Rows
      <4> QED BY <4>1, FeedsAssumption DEF Rows
    <3>2. rows[r] = "committed"
      BY <2>3, <3>1 DEF ForgottenInv, Rows
    <3>3. CASE r <= wm
      BY <2>2, <3>1, <3>2, <3>3 DEF Passed
    <3>4. CASE wm < r
      BY <2>2, <3>1, <3>2, <3>4, BatchIsPrefix DEF batch
    <3> QED BY <2>2, <3>1, <3>3, <3>4 DEF Rows
  <2>5. (Visible(job[w].wm) /\ Passed(job[w].wm))'
    BY <1>10, <2>1, <2>2 DEF List, Visible, Passed
  <2>6. rows' = rows /\ tried' = tried
    BY <1>10 DEF List
  <2>7. PassInv(w)'
    <3> HIDE DEF batch
    <3> QED BY <2>1, <2>3, <2>4, <2>5, <2>6 DEF PassInv
  <2> QED BY <1>1, <1>3, <1>10, <2>1, <2>6, <2>7 DEF List
<1>11. ASSUME NEW w \in Workers, LookUp(w) \/ Send(w) PROVE ForgottenInv'
  <2>1. PICK r \in job[w].left :
          \/ tried' = tried /\ job'[w].left = job[w].left
          \/ tried' = tried \cup {r} /\ job'[w].left = job[w].left \ {r}
    BY <1>11, NextRow DEF LookUp, Send, Logged, TypeOK, Job
  <2>2. /\ pc[w] \in {"pushing", "writing"} /\ pc'[w] \in {"pushing", "writing"}
        /\ job'[w].wm = job[w].wm /\ job'[w].batch = job[w].batch
    BY <1>11 DEF LookUp, Send, Goto, TypeOK, Job
  <2>3. OthersSpared(w)
    BY <1>11 DEF LookUp, Send, Goto, TypeOK, Job
  <2>4. rows' = rows /\ watermark' = watermark
    BY <1>11 DEF LookUp, Send
  <2>5. RowsStep
    BY <2>1, <2>4 DEF RowsStep
  <2>6. PassInv(w)
    BY DEF ForgottenInv
  <2>7. PassInv(w)'
    <3>1. (Visible(job[w].wm) /\ Passed(job[w].wm))'
      BY <2>1, <2>2, <2>4, <2>6 DEF PassInv, Visible, Passed
    <3>2. /\ job'[w].left \subseteq job'[w].batch
          /\ job'[w].batch \ job'[w].left \subseteq tried'
      BY <2>1, <2>2, <2>6 DEF PassInv
    <3>3. \A q \in job'[w].batch :
            rows'[q] = "committed" /\ \A s \in 1 .. q : s \in job'[w].batch \cup tried'
      BY <2>1, <2>2, <2>4, <2>6 DEF PassInv
    <3> QED BY <3>1, <3>2, <3>3 DEF PassInv
  <2> QED BY <1>1, <2>3, <2>4, <2>5, <2>7
<1>12. ASSUME NEW w \in Workers, Finish(w) PROVE ForgottenInv'
  <2>1. /\ UNCHANGED <<rows, tried>> /\ pc'[w] = "idle" /\ OthersSpared(w)
    BY <1>12 DEF Finish, Finished, Goto, TypeOK
  <2>2. PassInv(w)'
    BY <2>1 DEF PassInv
  <2>3. CASE job[w].batch = {}
    BY <1>1, <1>3, <1>12, <2>1, <2>2, <2>3 DEF Finish
  <2>4. CASE job[w].batch # {}
    <3> DEFINE m == Max(job[w].batch)
    <3>1. m \in job[w].batch /\ m \in Rows
      BY <2>4, MaxRow DEF TypeOK, Job
    <3>2. watermark' = m
      BY <1>12, <2>4 DEF Finish, NewWatermark
    <3> HIDE DEF m
    <3>3. job[w].batch \subseteq tried /\ rows[m] = "committed"
      BY <1>12, <3>1 DEF Finish, ForgottenInv, PassInv
    <3>4. \A r \in 1 .. m : r \in tried
      BY <1>12, <3>1, <3>3 DEF Finish, ForgottenInv, PassInv
    <3>5. (Visible(watermark) /\ Passed(watermark))'
      BY <2>1, <3>1, <3>2, <3>3, <3>4 DEF Visible, Passed, Rows
    <3>6. ASSUME NEW v \in Workers PROVE PassInv(v)'
      BY <1>3, <2>1, <2>2, PassStays DEF ForgottenInv
    <3>7. \A q, r \in Rows : q < r /\ rows'[r] = "committed" => rows'[q] = "committed"
      BY <2>1 DEF ForgottenInv
    <3> QED BY <3>5, <3>6, <3>7 DEF ForgottenInv
  <2> QED BY <2>3, <2>4
<1>13. ASSUME NEW w \in Workers, Crash(w) PROVE ForgottenInv'
  <2>1. pc'[w] = "idle" /\ OthersSpared(w)
    BY <1>13 DEF Crash, Finished, Goto, TypeOK
  <2>2. PassInv(w)'
    BY <2>1 DEF PassInv
  <2> QED BY <1>1, <1>3, <1>13, <2>1, <2>2 DEF Crash
<1>14. CASE UNCHANGED vars
  BY <1>2, <1>3, <1>14 DEF vars
<1> QED
  BY <1>4, <1>5, <1>6, <1>7, <1>8, <1>9, <1>10, <1>11, <1>12, <1>13, <1>14 DEF Next, Pass

\* If rows become visible in the order of their ids, the strengthened invariant
\* holds: what lies below the watermark, or below the row a pass will write as
\* the watermark, is visible, and was tried or is in that pass's batch.
THEOREM ForgottenInvHolds ==
  ASSUME CommitsInOrder
  PROVE  Spec => []ForgottenInv
<1>1. TypeOK /\ ForgottenInv /\ [Next]_vars => ForgottenInv'
  BY NextForgotten
<1> QED BY <1>1, InitForgotten, TypeCorrect, PTL DEF Spec

\* If rows become visible in the order of their ids, no committed row is ever
\* below the watermark without its push having been attempted and logged,
\* however many passes overlap, crash or fail.
THEOREM NoneForgottenHolds ==
  ASSUME CommitsInOrder
  PROVE  Spec => []NoneForgotten
<1>1. ForgottenInv => NoneForgotten
  BY DEF ForgottenInv, Passed, NoneForgotten
<1> QED BY <1>1, ForgottenInvHolds, PTL

-----------------------------------------------------------------------------
(* The claim, while every pass ends before the feed is due again and       *)
(* nobody pushes by hand.                                                  *)

LEMMA InitExclusive == Init => ExclusiveInv
  BY DEF Init, ExclusiveInv, OneRunner, Running

\* One case per step: a claim finds no pass running, and a pass that ends leaves
\* the stamp of its own claim, which is the latest.
LEMMA NextExclusive ==
  ASSUME MaxAge < Period, ~ManualRuns, TypeOK, ExclusiveInv, [Next]_vars
  PROVE  ExclusiveInv'
<1> USE FeedsAssumption
<1> DEFINE Others(w) == \A v \in Workers : v # w => pc'[v] = pc[v] /\ job'[v] = job[v]
<1>1. CASE Tick
  <2>1. ASSUME NEW w \in Workers
        PROVE  /\ pc'[w] = pc[w] /\ job'[w].wm = job[w].wm /\ job'[w].batch = job[w].batch
               /\ pc[w] # "idle" => job[w].age < MaxAge /\ job'[w].age = job[w].age + 1
    BY <1>1 DEF Tick, TypeOK, Job
  <2>2. lastRun' = claimed'
    BY <1>1 DEF Tick, ExclusiveInv
  <2>3. ASSUME NEW w \in Workers, Running(w) PROVE job'[w].age = claimed'
    <3>1. job[w].age = claimed /\ claimed < MaxAge /\ pc[w] # "idle" /\ claimed \in Nat
      BY <2>1, <2>3 DEF ExclusiveInv, Running, TypeOK
    <3>2. claimed' = claimed + 1
      BY <1>1, <3>1 DEF Tick, Older, Old
    <3> QED BY <2>1, <3>1, <3>2
  <2>4. watermark' = watermark
    BY <1>1 DEF Tick
  <2> QED BY <2>1, <2>2, <2>3, <2>4 DEF ExclusiveInv, OneRunner, Running
<1>2. ASSUME NEW r \in Rows, Insert(r) \/ Commit(r) PROVE ExclusiveInv'
  BY <1>2 DEF Insert, Commit, ExclusiveInv, OneRunner, Running
<1>3. ASSUME NEW w \in Workers, Begin(w) PROVE ExclusiveInv'
  <2>1. pc'[w] = "claiming" /\ Others(w)
    BY <1>3 DEF Begin, Goto, TypeOK
  <2> QED BY <1>3, <2>1 DEF Begin, ExclusiveInv, OneRunner, Running
<1>4. ASSUME NEW w \in Workers, Claim(w) PROVE ExclusiveInv'
  <2>1. Others(w) /\ watermark' = watermark
    BY <1>4 DEF Claim, Goto, Finished, TypeOK
  <2>2. CASE Due(job[w].age)
    <3>1. ASSUME NEW v \in Workers PROVE ~Running(v)
      <4>1. job[v].age \in 0 .. MaxAge /\ job[w].age \in 0 .. MaxAge
        BY DEF TypeOK, Job
      <4>2. lastRun >= Period + job[w].age /\ lastRun = claimed
        BY <2>2 DEF Due, ExclusiveInv
      <4>3. claimed # job[v].age
        BY <4>1, <4>2 DEF TypeOK
      <4> QED BY <4>3 DEF ExclusiveInv
    <3>2. /\ lastRun' = job[w].age /\ claimed' = job[w].age
          /\ job'[w].age = job[w].age /\ pc'[w] = "loading"
      BY <1>4, <2>2 DEF Claim, Goto, TypeOK
    <3>3. \A v \in Workers : v # w => pc'[v] \in {"idle", "claiming"}
      BY <2>1, <3>1 DEF Running, TypeOK
    <3> QED BY <3>2, <3>3 DEF ExclusiveInv, OneRunner, Running
  <2>3. CASE ~Due(job[w].age)
    <3>1. pc'[w] = "idle" /\ lastRun' = lastRun /\ claimed' = claimed
      BY <1>4, <2>3 DEF Claim, Finished, Goto, TypeOK
    <3> QED BY <2>1, <3>1 DEF ExclusiveInv, OneRunner, Running
  <2> QED BY <2>2, <2>3
<1>5. ASSUME NEW w \in Workers, Load(w) PROVE ExclusiveInv'
  <2>1. /\ pc[w] = "loading" /\ pc'[w] = "listing" /\ Others(w)
        /\ job'[w].wm = watermark /\ job'[w].age = job[w].age
    BY <1>5 DEF Load, Goto, TypeOK, Job
  <2> QED BY <1>5, <2>1 DEF Load, ExclusiveInv, OneRunner, Running
<1>6. ASSUME NEW w \in Workers, List(w) PROVE ExclusiveInv'
  <2>1. /\ pc[w] = "listing" /\ pc'[w] = "pushing" /\ Others(w)
        /\ job'[w].wm = job[w].wm /\ job'[w].age = job[w].age
        /\ job'[w].batch = RowsAfter(job[w].wm)
    BY <1>6 DEF List, Goto, TypeOK, Job
  <2>2. \A q \in job'[w].batch : q > watermark
    BY <2>1 DEF RowsAfter, ExclusiveInv
  <2> QED BY <1>6, <2>1, <2>2 DEF List, ExclusiveInv, OneRunner, Running
<1>7. ASSUME NEW w \in Workers, LookUp(w) \/ Send(w) PROVE ExclusiveInv'
  <2>1. /\ pc[w] \in {"pushing", "writing"} /\ pc'[w] \in {"pushing", "writing"} /\ Others(w)
        /\ job'[w].wm = job[w].wm /\ job'[w].age = job[w].age
        /\ job'[w].batch = job[w].batch
    BY <1>7 DEF LookUp, Send, Goto, TypeOK, Job
  <2>2. UNCHANGED <<watermark, lastRun, claimed>>
    BY <1>7 DEF LookUp, Send
  <2> QED BY <2>1, <2>2 DEF ExclusiveInv, OneRunner, Running
<1>8. ASSUME NEW w \in Workers, Finish(w) PROVE ExclusiveInv'
  <2>1. /\ pc[w] = "pushing" /\ pc'[w] = "idle" /\ Others(w)
        /\ lastRun' = job[w].age /\ claimed' = claimed
    BY <1>8 DEF Finish, Finished, Goto, TypeOK
  <2>2. job[w].age = claimed
    BY <2>1 DEF ExclusiveInv, Running
  <2>3. \A v \in Workers : ~ Running(v)'
    BY <2>1 DEF ExclusiveInv, OneRunner, Running
  <2> QED BY <2>1, <2>2, <2>3 DEF ExclusiveInv, OneRunner, Running
<1>9. ASSUME NEW w \in Workers, Crash(w) PROVE ExclusiveInv'
  <2>1. pc'[w] = "idle" /\ Others(w)
    BY <1>9 DEF Crash, Finished, Goto, TypeOK
  <2> QED BY <1>9, <2>1 DEF Crash, ExclusiveInv, OneRunner, Running
<1>10. CASE UNCHANGED vars
  BY <1>10 DEF vars, ExclusiveInv, OneRunner, Running
<1> QED
  BY <1>1, <1>2, <1>3, <1>4, <1>5, <1>6, <1>7, <1>8, <1>9, <1>10 DEF Next, Pass, RunNow

\* While passes are shorter than the period and started by schedulers only, at
\* most one runs, it holds the latest claim, and its watermark is the feed's.
THEOREM ExclusiveInvHolds ==
  ASSUME MaxAge < Period, ~ManualRuns
  PROVE  Spec => []ExclusiveInv
<1>1. TypeOK /\ ExclusiveInv /\ [Next]_vars => ExclusiveInv'
  BY NextExclusive
<1> QED BY <1>1, InitExclusive, TypeCorrect, PTL DEF Spec

\* claim_due's promise, "exactly one worker runs each due job": no two passes of
\* a feed run at the same time, for any number of schedulers, crashes included.
THEOREM OneRunnerHolds ==
  ASSUME MaxAge < Period, ~ManualRuns
  PROVE  Spec => []OneRunner
<1>1. ExclusiveInv => OneRunner
  BY DEF ExclusiveInv
<1> QED BY <1>1, ExclusiveInvHolds, PTL

\* No pass puts the feed's stamp back to before the latest claim.
THEOREM StampKeptHolds ==
  ASSUME MaxAge < Period, ~ManualRuns
  PROVE  Spec => []StampKept
<1>1. TypeOK /\ ExclusiveInv => StampKept
  BY FeedsAssumption DEF ExclusiveInv, StampKept, TypeOK, Old
<1> QED BY <1>1, ExclusiveInvHolds, TypeCorrect, PTL

\* Two claims of a feed are a period apart.
THEOREM ClaimsSpacedHolds ==
  ASSUME MaxAge < Period, ~ManualRuns
  PROVE  Spec => ClaimsSpaced
<1> DEFINE Spaced == \A w \in Workers :
             pc[w] = "claiming" /\ pc'[w] = "loading" => claimed >= Period + job[w].age
<1>1. ASSUME TypeOK, ExclusiveInv, [Next]_vars PROVE [Spaced]_vars
  <2> SUFFICES ASSUME Next, NEW w \in Workers, pc[w] = "claiming", pc'[w] = "loading"
               PROVE  claimed >= Period + job[w].age
    BY <1>1
  <2>1. Claim(w)
    <3>1. pc' # pc
      BY <1>1
    <3>2. PICK v \in Workers : Begin(v) \/ RunNow(v) \/ Pass(v) \/ Crash(v)
      BY <3>1 DEF Next, Tick, Insert, Commit
    <3>3. \A u \in Workers : u # v => pc'[u] = pc[u]
      BY <1>1, <3>2 DEF Begin, RunNow, Pass, Claim, Load, List, LookUp, Send, Finish,
                        Crash, Finished, Goto, TypeOK
    <3>4. v = w
      BY <3>3
    <3> QED BY <1>1, <3>2, <3>4 DEF Begin, RunNow, Pass, Load, List, LookUp, Send,
                                    Finish, Crash, Finished, Goto, TypeOK
  <2>2. Due(job[w].age)
    BY <1>1, <2>1 DEF Claim, Finished, Goto, TypeOK
  <2> QED BY <1>1, <2>2 DEF Due, ExclusiveInv
<1> QED BY <1>1, ExclusiveInvHolds, TypeCorrect, PTL DEF Spec, ClaimsSpaced

\* The watermark never goes back: the pass that writes it has read the latest.
THEOREM WatermarkKeptHolds ==
  ASSUME MaxAge < Period, ~ManualRuns
  PROVE  Spec => WatermarkKept
<1>1. ASSUME TypeOK, ExclusiveInv, [Next]_vars PROVE [watermark' >= watermark]_vars
  <2> SUFFICES ASSUME Next PROVE watermark' >= watermark
    BY <1>1
  <2>1. watermark \in Nat
    BY <1>1, FeedsAssumption DEF TypeOK
  <2>2. ASSUME NEW w \in Workers, Finish(w) PROVE watermark' >= watermark
    <3>1. CASE job[w].batch = {}
      BY <2>1, <2>2, <3>1 DEF Finish
    <3>2. CASE job[w].batch # {}
      <4>1. Max(job[w].batch) \in job[w].batch /\ Max(job[w].batch) \in Rows
        BY <1>1, <3>2, MaxRow DEF TypeOK, Job
      <4>2. watermark' = Max(job[w].batch)
        BY <2>2, <3>2 DEF Finish, NewWatermark
      <4>3. Max(job[w].batch) > watermark
        BY <1>1, <2>2, <4>1 DEF Finish, ExclusiveInv
      <4> QED BY <2>1, <4>1, <4>2, <4>3, FeedsAssumption DEF Rows
    <3> QED BY <3>1, <3>2
  <2>3. (\E w \in Workers : Finish(w)) \/ watermark' = watermark
    BY DEF Next, Pass, Tick, Insert, Commit, Begin, RunNow, Claim, Load, List, LookUp,
           Send, Crash
  <2> QED BY <2>1, <2>2, <2>3
<1> QED BY <1>1, ExclusiveInvHolds, TypeCorrect, PTL DEF Spec, WatermarkKept

-----------------------------------------------------------------------------
(* No duplicates: with the claim, an upsert to a peer that answers.        *)

LEMMA InitUpsert == Init => UpsertInv
  BY DEF Init, UpsertInv, NoDuplicate

\* Only the one pass that runs changes the peer, so the answer to its lookup is
\* still right when it writes.
LEMMA NextUpsert ==
  ASSUME Upsert, ~PeerMayFail, TypeOK, ExclusiveInv, UpsertInv, [Next]_vars
  PROVE  UpsertInv'
<1> USE FeedsAssumption
<1> DEFINE Told(w) == job[w].left # {} /\ job[w].found = (peer[Min(job[w].left)] > 0)
<1>1. ASSUME peer' = peer,
             \A w \in Workers : pc'[w] = "writing" =>
               pc[w] = "writing" /\ job'[w].left = job[w].left /\ job'[w].found = job[w].found
      PROVE  UpsertInv'
  BY <1>1 DEF UpsertInv, NoDuplicate
<1>2. CASE Tick
  BY <1>1, <1>2 DEF Tick, TypeOK, Job
<1>3. ASSUME NEW r \in Rows, Insert(r) \/ Commit(r) PROVE UpsertInv'
  BY <1>1, <1>3 DEF Insert, Commit
<1>4. ASSUME NEW w \in Workers, Begin(w) \/ RunNow(w) \/ Claim(w) PROVE UpsertInv'
  BY <1>1, <1>4 DEF Begin, RunNow, Claim, Finished, Goto, TypeOK
<1>5. ASSUME NEW w \in Workers, Load(w) \/ List(w) PROVE UpsertInv'
  BY <1>1, <1>5 DEF Load, List, Goto, TypeOK
<1>6. ASSUME NEW w \in Workers, LookUp(w) PROVE UpsertInv'
  <2> DEFINE r == Min(job[w].left)
  <2>1. /\ job' = [job EXCEPT ![w].found = peer[r] > 0]
        /\ pc' = [pc EXCEPT ![w] = "writing"]
        /\ job[w].left # {} /\ peer' = peer
    BY <1>6 DEF LookUp, Goto
  <2>2. job'[w].left = job[w].left /\ job'[w].found = (peer[r] > 0)
    BY <2>1 DEF TypeOK, Job
  <2>3. \A v \in Workers : v # w => pc'[v] = pc[v] /\ job'[v] = job[v]
    BY <2>1 DEF TypeOK
  <2>4. Told(w)'
    BY <2>1, <2>2
  <2>5. \A v \in Workers : v # w => (pc[v] = "writing" => Told(v))'
    BY <2>1, <2>3 DEF UpsertInv
  <2> QED BY <2>1, <2>4, <2>5 DEF UpsertInv, NoDuplicate
<1>7. ASSUME NEW w \in Workers, Send(w) PROVE UpsertInv'
  <2> DEFINE r == Min(job[w].left)
  <2>1. /\ pc[w] = "writing" /\ pc'[w] = "pushing"
        /\ job[w].found = (peer[r] > 0) /\ r \in Rows
        /\ Received(r, job[w].found)
    BY <1>7, NextRow DEF Send, Goto, TypeOK, UpsertInv
  <2>2. \A q \in Rows : peer'[q] <= 1
    <3> HIDE DEF r
    <3>1. peer[r] \in Nat /\ \A q \in Rows : peer[q] <= 1
      BY <2>1 DEF UpsertInv, NoDuplicate, TypeOK, MaxCopies
    <3>2. CASE peer[r] > 0
      BY <2>1, <3>1, <3>2 DEF Received, TypeOK
    <3>3. CASE peer[r] = 0
      BY <2>1, <3>1, <3>3 DEF Received, TypeOK
    <3> QED BY <3>1, <3>2, <3>3
  <2>3. \A v \in Workers : pc'[v] # "writing"
    BY <1>7, <2>1 DEF Send, Goto, TypeOK, ExclusiveInv, OneRunner, Running
  <2> QED BY <2>2, <2>3 DEF UpsertInv, NoDuplicate
<1>8. ASSUME NEW w \in Workers, Finish(w) \/ Crash(w) PROVE UpsertInv'
  BY <1>1, <1>8 DEF Finish, Crash, Finished, Goto, TypeOK
<1>9. CASE UNCHANGED vars
  BY <1>1, <1>9 DEF vars
<1> QED BY <1>2, <1>3, <1>4, <1>5, <1>6, <1>7, <1>8, <1>9 DEF Next, Pass

\* With passes shorter than the period, no manual runs, and a peer that answers,
\* an upsert feed never creates a second copy of a row, though passes may die
\* after a push and before the watermark that would remember it.
THEOREM NoDuplicateHolds ==
  ASSUME MaxAge < Period, ~ManualRuns, Upsert, ~PeerMayFail
  PROVE  Spec => []NoDuplicate
<1>1. TypeOK /\ ExclusiveInv /\ UpsertInv /\ [Next]_vars => UpsertInv'
  BY NextUpsert
<1>2. UpsertInv => NoDuplicate
  BY DEF UpsertInv
<1> QED BY <1>1, <1>2, InitUpsert, ExclusiveInvHolds, TypeCorrect, PTL DEF Spec

=============================================================================
