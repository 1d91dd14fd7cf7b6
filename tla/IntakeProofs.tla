---------------------------- MODULE IntakeProofs ----------------------------
(* Proofs about Intake, for any number of processes, keys, messages, changes  *)
(* and rows, any rate limit and any window.                                   *)
EXTENDS Intake, TLAPS, FiniteSetTheorems, WellFoundedInduction

-----------------------------------------------------------------------------
(* The greatest of some numbers. *)

LEMMA MaxOfTwo ==
  ASSUME NEW a \in Nat, NEW b \in Nat
  PROVE  Max({a, b}) \in {a, b} /\ a <= Max({a, b}) /\ b <= Max({a, b})
<1>1. \E x \in {a, b} : \A y \in {a, b} : x >= y
  OBVIOUS
<1>2. QED
  BY <1>1 DEF Max

Cursors == 0 .. MaxCursor

\* Numbers with a bound have a least bound, which is one of them.
LEMMA HasGreatest ==
  ASSUME NEW S \in SUBSET Cursors, S # {}
  PROVE  \E x \in S : \A y \in S : y <= x
<1> USE IntakeAssumption
<1> DEFINE Bounds == {n \in Nat : \A s \in S : s <= n}
<1>1. MaxCursor \in Bounds /\ Bounds \subseteq Nat
  BY DEF Cursors
<1>2. PICK x \in Bounds : \A y \in Bounds : ~ (<<y, x>> \in OpToRel(<, Nat))
  <2> HIDE DEF Bounds
  <2> QED  BY <1>1, NatLessThanWellFounded, WFMin
<1>3. x \in Nat /\ \A s \in S : s \in Nat /\ s <= x
  <2>1. x \in Nat /\ \A s \in S : s <= x
    BY <1>2
  <2>2. \A s \in S : s \in Nat
    BY DEF Cursors
  <2>3. QED
    BY <2>1, <2>2
<1>4. x \in S
  <2>1. SUFFICES ASSUME x \notin S PROVE FALSE
    OBVIOUS
  <2>2. \A s \in S : s \in Nat /\ s <= x - 1
    BY <1>3, <2>1
  <2>3. x - 1 \in Bounds
    BY <1>3, <2>2
  <2>4. <<x - 1, x>> \in OpToRel(<, Nat)
    BY <1>3, <2>3 DEF OpToRel
  <2>5. QED
    BY <1>2, <2>3, <2>4
<1>5. QED
  BY <1>3, <1>4

\* The newest cursor of the peer's table is one of its cursors.
LEMMA LastCursorIs ==
  ASSUME remote \in [Keys -> Cursors]
  PROVE  /\ LastCursor \in Cursors
         /\ \A k \in Keys : remote[k] <= LastCursor
<1> DEFINE S == {remote[k] : k \in Keys}
<1>1. S \subseteq Cursors /\ S # {} /\ \A k \in Keys : remote[k] \in S
  BY IntakeAssumption
<1>2. LastCursor = Max(S)
  BY DEF LastCursor
<1> HIDE DEF S
<1>3. PICK x \in S : \A y \in S : y <= x
  BY <1>1, HasGreatest
<1>4. \A y \in S : x >= y
  BY <1>1, <1>3, IntakeAssumption DEF Cursors
<1>5. Max(S) \in S /\ \A s \in S : Max(S) >= s
  BY <1>4 DEF Max
<1>6. QED
  BY <1>1, <1>2, <1>5, IntakeAssumption DEF Cursors

-----------------------------------------------------------------------------
(* The variables have their types. *)

Columns == {"key", "cursor", "hit", "number", "page", "seen", "new", "wrote",
            "left", "unseen", "age"}

\* What comes in by a door.
Incoming(e) == IF e.door = "mail" THEN Mails ELSE Keys
Records == [key : Keys \cup Mails, cursor : Nat, number : Nat \ {0}]
Messages == [subject : {"ticket", "none"}, known : BOOLEAN, auto : BOOLEAN, seen : BOOLEAN]
Hits == [no : Nat, age : Nat]

\* A step is reached by the doors that take it.
AtDoor(e, l) ==
    /\ l \in {"fetch", "load"} => e.door = "pull"
    /\ l = "hit" => e.door = "hook"
    /\ l \in {"download", "comment"} => e.door = "mail"
    /\ l = "next" => e.door \in {"pull", "mail"}
    /\ l \in {"find", "update"} => e.upsert

\* A job holds what the steps from l on need; the table has n rows.
JobOK(e, j, l, n) ==
    /\ j = [c \in Columns |-> j[c]]
    /\ j.cursor \in Nat /\ j.number \in Nat /\ j.page \in Nat \ {0} /\ j.age \in Nat
    /\ j.seen \in Cursors /\ j.new \in Cursors
    /\ e.door = "pull" => j.cursor \in Cursors
    /\ j.left \in Seq(Incoming(e) \X Cursors)
    /\ j.unseen \subseteq Mails
    /\ l \in {"find", "update", "number", "numbered", "insert", "hit", "comment"} =>
          j.key \in Incoming(e)
    /\ l = "update" => j.hit \in 1..n
    /\ l \in {"numbered", "insert"} => j.number # 0

TypeInv ==
    /\ env \in Environments
    /\ remote \in [Keys -> Cursors]
    /\ wm \in Cursors
    /\ rows \in Seq(Records)
    /\ next \in Nat \ {0} /\ burnt \in Nat /\ work \in Nat
    /\ holder \in Workers \cup {None}
    /\ hits \subseteq Hits /\ IsFiniteSet(hits)
    /\ mail \in [Mails -> Messages]
    /\ handled \in [Mails -> Nat]
    /\ pc = [w \in Workers |-> pc[w]]
    /\ job = [w \in Workers |-> job[w]]
    /\ \A w \in Workers :
          /\ AtDoor(env, pc[w]) /\ JobOK(env, job[w], pc[w], Len(rows))
          /\ pc[w] = "numbered" <=> holder = w

LEMMA WellTyped == TypeInv => TypeOK
BY DEF TypeInv, TypeOK, Records, Cursors

\* A door has a kind, and the trouble there may be is one of the kinds.
LEMMA EnvironmentIs ==
  ASSUME env \in Environments
  PROVE  /\ env.door \in Doors /\ env.upsert \in BOOLEAN /\ env.trouble \subseteq Troubles
         /\ env.door # "pull" =>
              env.trouble \subseteq {"overlap", "failing", "crashes", "flaky"}
         /\ env.upsert => env.door \in {"pull", "hook"}
<1>1. /\ env \in [door : Doors, upsert : BOOLEAN, trouble : SUBSET Troubles]
      /\ env.door # "pull" =>
           env.trouble \subseteq {"overlap", "failing", "crashes", "flaky"}
      /\ env.door \in {"mail", "recurring"} => ~env.upsert
  BY DEF Environments
<1>2. QED
  BY <1>1 DEF Doors

LEMMA NewJobOK ==
  ASSUME NEW e, NEW n, NEW l,
         l \notin {"find", "update", "number", "numbered", "insert", "hit", "comment"}
  PROVE  JobOK(e, NewJob, l, n)
<1>1. NewJob = [c \in Columns |-> NewJob[c]]
  BY DEF NewJob, Columns
<1>2. QED
  BY <1>1, IntakeAssumption DEF JobOK, NewJob, Cursors

LEMMA Downloaded ==
  ASSUME NEW e, NEW j, NEW j2, NEW n, NEW m, NEW left \in Seq(Incoming(e) \X Cursors),
         JobOK(e, j, "download", n), j2 = [j EXCEPT !.unseen = @ \ {m}, !.left = left]
  PROVE  JobOK(e, j2, "download", n)
<1>1. /\ j2 = [c \in Columns |-> j2[c]] /\ j2.unseen = j.unseen \ {m} /\ j2.left = left
      /\ j2.cursor = j.cursor /\ j2.number = j.number /\ j2.page = j.page
      /\ j2.age = j.age /\ j2.seen = j.seen /\ j2.new = j.new
  BY DEF JobOK, Columns
<1>2. QED
  BY <1>1 DEF JobOK

LEMMA MoreRows ==
  ASSUME NEW e, NEW j, NEW l, NEW m \in Nat, NEW n \in Nat, m <= n, JobOK(e, j, l, m)
  PROVE  JobOK(e, j, l, n)
<1>1. l = "update" => j.hit \in 1..n
  BY DEF JobOK
<1>2. QED
  BY <1>1 DEF JobOK

\* A step of one worker leaves the others where they were.
LEMMA Moves ==
  ASSUME TypeInv, NEW w \in Workers, Step(w) \/ Crash(w)
  PROVE  /\ pc' = [v \in Workers |-> IF v = w THEN pc'[w] ELSE pc[v]]
         /\ job' = [v \in Workers |-> IF v = w THEN job'[w] ELSE job[v]]
         /\ env' = env
<1> USE DEF outside, Goto, Done
<1>1. pc = [v \in Workers |-> pc[v]] /\ job = [v \in Workers |-> job[v]]
  BY DEF TypeInv
<1>2. CASE Poll(w) \/ LoadSource(w) \/ NextRecord(w) \/ FinishPull(w)
  BY <1>1, <1>2 DEF Poll, LoadSource, NextRecord, FinishPull
<1>3. CASE FetchPage(w) \/ FetchAll(w)
  BY <1>1, <1>3 DEF FetchPage, FetchAll
<1>4. CASE Deliver(w) \/ Hit(w) \/ RunRecurring(w) \/ Crash(w)
  BY <1>1, <1>4 DEF Deliver, Hit, RunRecurring, Crash
<1>5. CASE SearchMail(w) \/ Download(w) \/ NextMail(w) \/ AddComment(w) \/ MailboxDone(w)
  BY <1>1, <1>5 DEF SearchMail, Download, NextMail, AddComment, MailboxDone
<1>6. CASE FindRow(w) \/ TakeNumber(w) \/ CommitNumber(w)
  BY <1>1, <1>6 DEF FindRow, TakeNumber, CommitNumber, Failed
<1>7. CASE InsertRow(w) \/ UpdateRow(w)
  <2>1. TakenIn(w) \/ Failed(w)
    BY <1>7 DEF InsertRow, UpdateRow
  <2>2. env' = env
    BY <1>7 DEF InsertRow, UpdateRow
  <2>3. QED
    BY <1>1, <2>1, <2>2 DEF TakenIn, Failed
<1>8. QED
  BY <1>2, <1>3, <1>4, <1>5, <1>6, <1>7 DEF Step

\* So what is true of every job is to be shown of the one that moved.
LEMMA OneMoves ==
  ASSUME TypeInv, NEW w \in Workers, Step(w) \/ Crash(w),
         AtDoor(env, pc'[w]), JobOK(env, job'[w], pc'[w], Len(rows')),
         pc'[w] = "numbered" <=> holder' = w,
         \A v \in Workers \ {w} : holder' = v <=> holder = v,
         Len(rows') \in Nat, Len(rows) <= Len(rows')
  PROVE  /\ pc' = [v \in Workers |-> pc'[v]] /\ job' = [v \in Workers |-> job'[v]]
         /\ \A v \in Workers :
               /\ AtDoor(env', pc'[v]) /\ JobOK(env', job'[v], pc'[v], Len(rows'))
               /\ pc'[v] = "numbered" <=> holder' = v
<1>1. /\ pc' = [v \in Workers |-> IF v = w THEN pc'[w] ELSE pc[v]]
      /\ job' = [v \in Workers |-> IF v = w THEN job'[w] ELSE job[v]]
      /\ env' = env
  BY Moves
<1>2. ASSUME NEW v \in Workers, v # w
      PROVE  /\ AtDoor(env, pc[v]) /\ JobOK(env, job[v], pc[v], Len(rows'))
             /\ pc[v] = "numbered" <=> holder' = v
  <2>1. Len(rows) \in Nat /\ JobOK(env, job[v], pc[v], Len(rows))
    BY DEF TypeInv
  <2>2. JobOK(env, job[v], pc[v], Len(rows'))
    BY <2>1, MoreRows
  <2>3. QED
    BY <1>2, <2>2 DEF TypeInv
<1>3. QED
  BY <1>1, <1>2

\* Rows are added and updated, never removed.
LEMMA RowsGrow ==
  ASSUME TypeInv, NEW w \in Workers, Step(w) \/ Crash(w)
  PROVE  /\ Len(rows') \in Nat /\ Len(rows) <= Len(rows')
         /\ ~ (InsertRow(w) \/ UpdateRow(w)) => rows' = rows
<1> USE DEF outside, table
<1>1. rows \in Seq(Records) /\ Len(rows) \in Nat
  BY DEF TypeInv
<1>2. CASE InsertRow(w)
  <2>1. rows' = rows \/ \E r : rows' = Append(rows, r)
    BY <1>2 DEF InsertRow
  <2>2. QED
    BY <1>1, <1>2, <2>1
<1>3. CASE UpdateRow(w)
  <2>1. rows' = rows \/ \E r : rows' = [rows EXCEPT ![job[w].hit] = r]
    BY <1>3 DEF UpdateRow
  <2>2. Len(rows') = Len(rows)
    BY <1>1, <2>1
  <2>3. QED
    BY <1>1, <1>3, <2>2
<1>4. CASE ~ (InsertRow(w) \/ UpdateRow(w))
  <2>1. rows' = rows
    BY <1>4 DEF Step, Poll, FetchPage, FetchAll, LoadSource, NextRecord, FinishPull, Deliver,
         Hit, SearchMail, Download, NextMail, AddComment, MailboxDone, RunRecurring,
         FindRow, TakeNumber, CommitNumber, Crash
  <2>2. QED
    BY <1>1, <2>1
<1>5. QED
  BY <1>2, <1>3, <1>4

\* What the moving worker finds and leaves.
LEMMA JobMoves ==
  ASSUME TypeInv, NEW w \in Workers, Step(w) \/ Crash(w)
  PROVE  /\ AtDoor(env, pc'[w]) /\ JobOK(env, job'[w], pc'[w], Len(rows'))
<1> USE DEF outside, table
<1>1. PICK j, j2 : j = job[w] /\ j2 = job'[w]
  OBVIOUS
<1>2. PICK l, l2 : l = pc[w] /\ l2 = pc'[w]
  OBVIOUS
<1>3. PICK n : n = Len(rows)
  OBVIOUS
<1>4. /\ JobOK(env, j, l, n) /\ AtDoor(env, l) /\ n \in Nat
      /\ wm \in Cursors /\ rows \in Seq(Records) /\ work \in Nat /\ next \in Nat \ {0}
      /\ pc = [v \in Workers |-> pc[v]] /\ job = [v \in Workers |-> job[v]]
      /\ remote \in [Keys -> Cursors] /\ mail \in [Mails -> Messages]
      /\ env.door \in Doors /\ (env.upsert => env.door \in {"pull", "hook"})
  BY <1>1, <1>2, <1>3, EnvironmentIs DEF TypeInv
<1>5. \A k \in Keys : remote[k] \in Cursors
  BY <1>4
<1>6. ASSUME Poll(w)
      PROVE  AtDoor(env, l2) /\ JobOK(env, j2, l2, n)
  <2>1. /\ j2 = [j EXCEPT !.seen = wm] /\ l2 = "fetch"
        /\ env.door = "pull"
    BY <1>1, <1>2, <1>4, <1>6 DEF Poll, Goto
  <2>2. QED
    BY <1>4, <2>1 DEF JobOK, AtDoor, Columns
<1>7. ASSUME FetchPage(w)
      PROVE  AtDoor(env, l2) /\ JobOK(env, j2, l2, n)
  <2>1. /\ l2 \in {"fetch", "load"} /\ l = "fetch"
    BY <1>1, <1>2, <1>4, <1>7 DEF FetchPage, Goto
  <2>2. CASE j2 = j
    BY <1>4, <2>1, <2>2 DEF JobOK, AtDoor
  <2>3. CASE j2 # j
    <3>1. PICK k \in Keys :
            job' = [job EXCEPT ![w].left = Collect(@, k), ![w].page = j.page + 1]
      BY <1>1, <1>7, <2>3 DEF FetchPage, Page, Present
    <3>2. PICK left : left = Collect(j.left, k)
      OBVIOUS
    <3>3. j2 = [j EXCEPT !.left = left, !.page = j.page + 1]
      BY <1>1, <1>4, <3>1, <3>2
    <3>4. left \in Seq(Incoming(env) \X Cursors)
      <4>1. <<k, remote[k]>> \in Incoming(env) \X Cursors
        BY <1>4, <1>5, <2>1 DEF AtDoor, Incoming
      <4>2. QED
        BY <1>4, <3>2, <4>1 DEF JobOK, Collect
    <3>5. j.page \in Nat \ {0} /\ j.page + 1 \in Nat \ {0}
      BY <1>4 DEF JobOK
    <3>6. PICK page \in Nat \ {0} : page = j.page + 1
      BY <3>5
    <3>7. j2 = [j EXCEPT !.left = left, !.page = page]
      BY <3>3, <3>6
    <3>8. QED
      BY <1>4, <2>1, <3>4, <3>7 DEF JobOK, AtDoor, Columns
  <2>4. QED
    BY <2>2, <2>3
<1>8. ASSUME FetchAll(w)
      PROVE  AtDoor(env, l2) /\ JobOK(env, j2, l2, n)
  <2>1. PICK new \in Sorted({k \in Present : remote[k] > job[w].seen}) :
          job' = [job EXCEPT ![w].left = [i \in DOMAIN new |-> <<new[i], remote[new[i]]>>]]
    BY <1>8 DEF FetchAll
  <2>2. l2 = "load" /\ l = "fetch"
    BY <1>2, <1>4, <1>8 DEF FetchAll, Goto
  <2>3. PICK left : left = [i \in DOMAIN new |-> <<new[i], remote[new[i]]>>]
    OBVIOUS
  <2>4. j2 = [j EXCEPT !.left = left]
    BY <1>1, <1>2, <1>4, <2>1, <2>3
  <2>5. left \in Seq(Keys \X Cursors)
    <3>1. PICK ks \in SUBSET Keys : new \in [1..Cardinality(ks) -> ks]
      BY <2>1 DEF Sorted, Present
    <3>2. Cardinality(ks) \in Nat
      BY <3>1, IntakeAssumption, FS_Subset, FS_CardinalityType
    <3>3. QED
      BY <1>5, <2>3, <3>1, <3>2
  <2>6. left \in Seq(Incoming(env) \X Cursors)
    BY <1>4, <2>2, <2>5 DEF AtDoor, Incoming
  <2>7. QED
    BY <1>4, <2>2, <2>4, <2>6 DEF JobOK, AtDoor, Columns
<1>9. ASSUME LoadSource(w)
      PROVE  AtDoor(env, l2) /\ JobOK(env, j2, l2, n)
  <2>1. PICK stored \in {wm, j.seen} : job' = [job EXCEPT ![w].new = stored]
    BY <1>1, <1>9 DEF LoadSource
  <2>2. /\ j2 = [j EXCEPT !.new = stored] /\ l2 = "next"
        /\ l = "load" /\ stored \in Cursors
    BY <1>1, <1>2, <1>4, <1>9, <2>1 DEF LoadSource, Goto, JobOK
  <2>3. QED
    BY <1>4, <2>2 DEF JobOK, AtDoor, Columns
<1>10. ASSUME NextRecord(w)
       PROVE  AtDoor(env, l2) /\ JobOK(env, j2, l2, n)
  <2>1. PICK r : r = Head(j.left)
    OBVIOUS
  <2>2. PICK rest : rest = Tail(j.left)
    OBVIOUS
  <2>3. /\ j2 = [j EXCEPT !.left = rest, !.key = r[1], !.cursor = r[2],
                               !.hit = 0, !.wrote = TRUE]
        /\ l2 = IF env.upsert THEN "find" ELSE "number"
        /\ env.door = "pull" /\ j.left # <<>>
    BY <1>1, <1>2, <1>4, <1>10, <2>1, <2>2 DEF NextRecord, Goto
  <2>4. r \in Incoming(env) \X Cursors /\ rest \in Seq(Incoming(env) \X Cursors)
    BY <1>4, <2>1, <2>2, <2>3 DEF JobOK
  <2>5. r[1] \in Incoming(env) /\ r[2] \in Cursors /\ r[2] \in Nat
    BY <2>4, IntakeAssumption DEF Cursors
  <2>6. QED
    BY <1>4, <2>3, <2>4, <2>5 DEF JobOK, AtDoor, Columns
<1>11. ASSUME j2 = NewJob, l2 = "idle"
       PROVE  AtDoor(env, l2) /\ JobOK(env, j2, l2, n)
  BY <1>11, NewJobOK DEF AtDoor
<1>12. ASSUME FinishPull(w) \/ MailboxDone(w) \/ Crash(w)
       PROVE  AtDoor(env, l2) /\ JobOK(env, j2, l2, n)
  BY <1>1, <1>2, <1>4, <1>11, <1>12 DEF FinishPull, MailboxDone, Crash, Done, Goto
<1>13. ASSUME Deliver(w)
       PROVE  AtDoor(env, l2) /\ JobOK(env, j2, l2, n)
  <2>1. CASE UNCHANGED <<pc, job>>
    BY <1>1, <1>2, <1>4, <2>1
  <2>2. CASE ~ UNCHANGED <<pc, job>>
    <3>1. PICK k \in Keys, c \in Nat : job' = [job EXCEPT ![w].key = k, ![w].cursor = c]
      <4>1. work + 1 \in Nat
        BY <1>4
      <4>2. \E k \in Keys : job' = [job EXCEPT ![w].key = k, ![w].cursor = work + 1]
        BY <1>13, <2>2 DEF Deliver
      <4>3. QED
        BY <4>1, <4>2, Zenon
    <3>2. /\ j2 = [j EXCEPT !.key = k, !.cursor = c]
          /\ l2 = "hit" /\ env.door = "hook"
      BY <1>1, <1>2, <1>4, <1>13, <2>2, <3>1 DEF Deliver, Goto
    <3>3. QED
      BY <1>4, <3>2 DEF JobOK, AtDoor, Columns, Incoming
  <2>3. QED
    BY <2>1, <2>2
<1>14. ASSUME Hit(w)
       PROVE  AtDoor(env, l2) /\ JobOK(env, j2, l2, n)
  <2>1. l = "hit"
    BY <1>2, <1>14 DEF Hit
  <2>2. CASE Done(w)
    BY <1>1, <1>2, <1>4, <1>11, <2>2 DEF Done, Goto
  <2>3. CASE ~Done(w)
    <3>1. j2 = j /\ l2 = IF env.upsert THEN "find" ELSE "number"
      BY <1>1, <1>2, <1>4, <1>14, <2>3 DEF Hit, Goto
    <3>2. QED
      BY <1>4, <2>1, <3>1 DEF JobOK, AtDoor
  <2>4. QED
    BY <2>2, <2>3
<1>15. ASSUME SearchMail(w)
       PROVE  AtDoor(env, l2) /\ JobOK(env, j2, l2, n)
  <2>1. /\ j2 = [j EXCEPT !.unseen = {m \in Mails : ~mail[m].seen}]
        /\ l2 = "download" /\ env.door = "mail"
    BY <1>1, <1>2, <1>4, <1>15 DEF SearchMail, Goto
  <2>2. QED
    BY <1>4, <2>1 DEF JobOK, AtDoor, Columns
<1>16. ASSUME Download(w)
       PROVE  AtDoor(env, l2) /\ JobOK(env, j2, l2, n)
  <2>1. l = "download"
    BY <1>2, <1>16 DEF Download
  <2>2. CASE job' = job /\ Goto(w, "next")
    <3>1. j2 = j /\ l2 = "next" /\ env.door = "mail"
      BY <1>1, <1>2, <1>4, <2>1, <2>2 DEF Goto, AtDoor
    <3>2. QED
      BY <1>4, <2>1, <3>1 DEF JobOK, AtDoor
  <2>3. ASSUME NEW m \in j.unseen, NEW left, left = j.left \/ left = Append(j.left, <<m, 0>>),
               j2 = [j EXCEPT !.unseen = @ \ {m}, !.left = left], l2 = l
        PROVE  AtDoor(env, l2) /\ JobOK(env, j2, l2, n)
    <3>1. env.door = "mail" /\ m \in Mails
      BY <1>4, <2>1 DEF AtDoor, JobOK
    <3>2. <<m, 0>> \in Incoming(env) \X Cursors
      BY <3>1, IntakeAssumption DEF Incoming, Cursors
    <3>3. j.left \in Seq(Incoming(env) \X Cursors)
      BY <1>4 DEF JobOK
    <3>4. left \in Seq(Incoming(env) \X Cursors)
      <4>1. left = j.left \/ left = Append(j.left, <<m, 0>>)
        BY <2>3
      <4>2. Append(j.left, <<m, 0>>) \in Seq(Incoming(env) \X Cursors)
        BY <3>2, <3>3
      <4>3. QED
        BY <3>3, <4>1, <4>2, Zenon
    <3>5. QED
      <4>1. JobOK(env, j, "download", n)
        BY <1>4, <2>1
      <4>2. JobOK(env, j2, "download", n)
        BY <2>3, <3>4, <4>1, Downloaded
      <4>3. QED
        BY <1>4, <2>1, <2>3, <4>2
  <2>4. CASE \E m \in j.unseen :
               /\ job' = [job EXCEPT ![w].unseen = @ \ {m}, ![w].left = Append(@, <<m, 0>>)]
               /\ UNCHANGED pc
    <3>1. PICK m \in j.unseen :
               /\ job' = [job EXCEPT ![w].unseen = @ \ {m}, ![w].left = Append(@, <<m, 0>>)]
               /\ UNCHANGED pc
      BY <2>4
    <3>2. PICK left : left = Append(j.left, <<m, 0>>)
      OBVIOUS
    <3>3. j2 = [j EXCEPT !.unseen = @ \ {m}, !.left = left]
      BY <1>1, <1>4, <3>1, <3>2
    <3>4. QED
      BY <1>2, <2>3, <3>1, <3>2, <3>3
  <2>5. CASE \E m \in j.unseen : job' = [job EXCEPT ![w].unseen = @ \ {m}] /\ UNCHANGED pc
    <3>1. PICK m \in j.unseen : job' = [job EXCEPT ![w].unseen = @ \ {m}] /\ UNCHANGED pc
      BY <2>5
    <3>2. j2 = [j EXCEPT !.unseen = @ \ {m}]
      BY <1>1, <1>4, <3>1
    <3>3. j2 = [j EXCEPT !.unseen = @ \ {m}, !.left = j.left]
      BY <1>4, <3>2 DEF JobOK, Columns
    <3>4. QED
      BY <1>2, <2>3, <3>1, <3>3
  <2>6. CASE Done(w)
    <3>1. j2 = NewJob /\ l2 = "idle"
      BY <1>1, <1>2, <1>4, <2>6 DEF Done, Goto
    <3>2. QED
      BY <1>4, <3>1, NewJobOK DEF AtDoor
  <2>7. QED
    BY <1>1, <1>2, <1>16, <2>2, <2>4, <2>5, <2>6 DEF Download
<1>17. ASSUME NextMail(w)
       PROVE  AtDoor(env, l2) /\ JobOK(env, j2, l2, n)
  <2>1. PICK m : m = Head(j.left)[1]
    OBVIOUS
  <2>2. PICK rest : rest = Tail(j.left)
    OBVIOUS
  <2>3. /\ j2 = [j EXCEPT !.left = rest, !.key = m]
        /\ l2 \in {"next", "comment", "number"}
        /\ env.door = "mail" /\ l = "next" /\ j.left # <<>>
    BY <1>1, <1>2, <1>4, <1>17, <2>1, <2>2 DEF NextMail, Goto, Fate
  <2>4. m \in Incoming(env) /\ rest \in Seq(Incoming(env) \X Cursors)
    BY <1>4, <2>1, <2>2, <2>3 DEF JobOK
  <2>5. QED
    BY <1>4, <2>3, <2>4 DEF JobOK, AtDoor, Columns
<1>18. ASSUME AddComment(w)
       PROVE  AtDoor(env, l2) /\ JobOK(env, j2, l2, n)
  <2>1. j2 = j /\ l2 = "next" /\ l = "comment"
    BY <1>1, <1>2, <1>4, <1>18 DEF AddComment, Goto
  <2>2. QED
    BY <1>4, <2>1 DEF JobOK, AtDoor
<1>19. ASSUME RunRecurring(w)
       PROVE  AtDoor(env, l2) /\ JobOK(env, j2, l2, n)
  <2>1. PICK k \in Keys : job' = [job EXCEPT ![w].key = k]
    BY <1>19 DEF RunRecurring
  <2>2. /\ j2 = [j EXCEPT !.key = k] /\ l2 = "number"
        /\ env.door = "recurring"
    BY <1>1, <1>2, <1>4, <1>19, <2>1 DEF RunRecurring, Goto
  <2>3. QED
    BY <1>4, <2>2 DEF JobOK, AtDoor, Columns, Incoming
<1>20. ASSUME Failed(w)
       PROVE  AtDoor(env, l2) /\ JobOK(env, j2, l2, n)
  <2>1. CASE env.door \in {"pull", "mail"}
    <3>1. j2 = j /\ l2 = "next"
      BY <1>1, <1>2, <1>4, <1>20, <2>1 DEF Failed, Goto
    <3>2. QED
      BY <1>4, <1>20, <2>1, <3>1 DEF JobOK, AtDoor
  <2>2. CASE env.door \notin {"pull", "mail"}
    <3>1. j2 = NewJob /\ l2 = "idle"
      BY <1>1, <1>2, <1>4, <1>20, <2>2 DEF Failed, Done, Goto
    <3>2. QED
      BY <3>1, NewJobOK DEF AtDoor
  <2>3. QED
    BY <2>1, <2>2
<1>21. ASSUME FindRow(w)
       PROVE  AtDoor(env, l2) /\ JobOK(env, j2, l2, n)
  <2>1. l = "find"
    BY <1>2, <1>21 DEF FindRow
  <2>2. CASE Failed(w)
    BY <1>20, <2>2
  <2>3. CASE ~Failed(w) /\ job' = job
    <3>1. j2 = j /\ l2 \in {"number", "update"}
      BY <1>1, <1>2, <1>4, <1>21, <2>3 DEF FindRow, Goto
    <3>2. CASE l2 = "number"
      BY <1>4, <2>1, <3>1, <3>2 DEF JobOK, AtDoor
    <3>3. CASE l2 = "update"
      <4>1. PICK i \in Lookup(j.key) : job' = [job EXCEPT ![w].hit = i]
        <5>1. /\ Cardinality(Lookup(j.key)) = 1
              /\ job' = [job EXCEPT ![w].hit = CHOOSE i \in Lookup(j.key) : TRUE]
          BY <1>1, <1>2, <1>4, <1>21, <2>3, <3>3 DEF FindRow, Goto
        <5>2. Lookup(j.key) # {}
          BY <5>1, FS_EmptySet
        <5>3. QED
          BY <5>1, <5>2
      <4>2. j2.hit = i /\ i \in 1..n
        BY <1>1, <1>3, <1>4, <4>1 DEF JobOK, Columns, Lookup, Matching
      <4>3. QED
        BY <1>4, <2>1, <3>1, <3>3, <4>2 DEF JobOK, AtDoor
    <3>4. QED
      BY <3>1, <3>2, <3>3
  <2>4. CASE ~Failed(w) /\ job' # job
    <3>1. /\ Cardinality(Lookup(j.key)) = 1 /\ l2 = "update"
          /\ job' = [job EXCEPT ![w].hit = CHOOSE i \in Lookup(j.key) : TRUE]
      BY <1>1, <1>2, <1>4, <1>21, <2>4 DEF FindRow, Goto
    <3>2. Lookup(j.key) # {}
      BY <3>1, FS_EmptySet
    <3>3. PICK i \in Lookup(j.key) : job' = [job EXCEPT ![w].hit = i]
      BY <3>1, <3>2
    <3>4. j2 = [j EXCEPT !.hit = i] /\ i \in 1..n
      BY <1>1, <1>3, <1>4, <3>3 DEF Lookup, Matching
    <3>5. QED
      BY <1>4, <2>1, <3>1, <3>4 DEF JobOK, AtDoor, Columns
  <2>5. QED
    BY <2>2, <2>3, <2>4
<1>22. ASSUME TakeNumber(w)
       PROVE  AtDoor(env, l2) /\ JobOK(env, j2, l2, n)
  <2>1. /\ j2 = [j EXCEPT !.number = next] /\ l2 = "numbered"
        /\ l = "number"
    BY <1>1, <1>2, <1>4, <1>22 DEF TakeNumber, Goto
  <2>2. QED
    BY <1>4, <2>1 DEF JobOK, AtDoor, Columns
<1>23. ASSUME CommitNumber(w)
       PROVE  AtDoor(env, l2) /\ JobOK(env, j2, l2, n)
  <2>1. j2 = j /\ l2 = "insert" /\ l = "numbered"
    BY <1>1, <1>2, <1>4, <1>23 DEF CommitNumber, Goto
  <2>2. QED
    BY <1>4, <2>1 DEF JobOK, AtDoor
<1>24. ASSUME TakenIn(w), Len(rows') \in Nat, n <= Len(rows')
       PROVE  AtDoor(env, l2) /\ JobOK(env, j2, l2, Len(rows'))
  <2>1. JobOK(env, j, l, Len(rows'))
    BY <1>4, <1>24, MoreRows
  <2>2. CASE env.door = "pull"
    <3>1. PICK c : c = Max({j.new, j.cursor})
      OBVIOUS
    <3>2. j2 = [j EXCEPT !.new = c] /\ l2 = "next"
      BY <1>1, <1>2, <1>4, <1>24, <2>2, <3>1 DEF TakenIn, Goto
    <3>3. j.new \in Cursors /\ j.cursor \in Cursors
      BY <2>1, <2>2 DEF JobOK
    <3>4. c \in Cursors
      BY <3>1, <3>3, MaxOfTwo, IntakeAssumption DEF Cursors
    <3>5. QED
      BY <2>1, <2>2, <3>2, <3>4 DEF JobOK, AtDoor, Columns
  <2>3. CASE env.door = "mail"
    <3>1. j2 = j /\ l2 = "next"
      BY <1>1, <1>2, <1>4, <1>24, <2>3 DEF TakenIn, Goto
    <3>2. QED
      BY <2>1, <2>3, <3>1 DEF JobOK, AtDoor
  <2>4. CASE env.door \notin {"pull", "mail"}
    <3>1. j2 = NewJob /\ l2 = "idle"
      BY <1>1, <1>2, <1>4, <1>24, <2>4 DEF TakenIn, Done, Goto
    <3>2. QED
      BY <3>1, NewJobOK DEF AtDoor
  <2>5. QED
    BY <2>2, <2>3, <2>4
<1>25. CASE InsertRow(w) \/ UpdateRow(w)
  <2>1. TakenIn(w) \/ Failed(w)
    BY <1>25 DEF InsertRow, UpdateRow
  <2>2. Len(rows') \in Nat /\ n <= Len(rows')
    BY <1>3, RowsGrow
  <2>3. CASE TakenIn(w)
    BY <1>1, <1>2, <1>24, <2>2, <2>3
  <2>4. CASE Failed(w)
    <3>1. AtDoor(env, l2) /\ JobOK(env, j2, l2, n)
      BY <1>20, <2>4
    <3>2. QED
      BY <1>1, <1>2, <1>4, <2>2, <3>1, MoreRows
  <2>5. QED
    BY <2>1, <2>3, <2>4
<1>26. CASE ~ (InsertRow(w) \/ UpdateRow(w))
  <2>1. AtDoor(env, l2) /\ JobOK(env, j2, l2, n)
    BY <1>6, <1>7, <1>8, <1>9, <1>10, <1>12, <1>13, <1>14, <1>15, <1>16, <1>17, <1>18,
       <1>19, <1>21, <1>22, <1>23, <1>26 DEF Step
  <2>2. rows' = rows
    BY <1>26, RowsGrow
  <2>3. QED
    BY <1>1, <1>2, <1>3, <2>1, <2>2
<1>27. QED
  BY <1>25, <1>26

\* The counter's row is held by the worker that is about to commit its number.
LEMMA HolderMoves ==
  ASSUME TypeInv, NEW w \in Workers, Step(w) \/ Crash(w)
  PROVE  /\ holder' \in Workers \cup {None}
         /\ pc'[w] = "numbered" <=> holder' = w
         /\ \A v \in Workers \ {w} : holder' = v <=> holder = v
<1> USE DEF Goto, Done, table
<1>1. /\ pc = [v \in Workers |-> pc[v]] /\ (pc[w] = "numbered" <=> holder = w)
      /\ holder \in Workers \cup {None} /\ None \notin Workers
  BY IntakeAssumption DEF TypeInv
<1>2. CASE TakeNumber(w)
  BY <1>1, <1>2 DEF TakeNumber
<1>3. CASE CommitNumber(w)
  BY <1>1, <1>3 DEF CommitNumber
<1>4. CASE Crash(w)
  BY <1>1, <1>4 DEF Crash
<1>5. ASSUME holder' = holder, pc[w] # "numbered", pc'[w] # "numbered"
      PROVE  /\ holder' \in Workers \cup {None}
             /\ pc'[w] = "numbered" <=> holder' = w
             /\ \A v \in Workers \ {w} : holder' = v <=> holder = v
  BY <1>1, <1>5
<1>6. CASE InsertRow(w) \/ UpdateRow(w) \/ FindRow(w)
  <2>1. pc[w] \in {"insert", "update", "find"} /\ holder' = holder
    BY <1>6 DEF InsertRow, UpdateRow, FindRow
  <2>2. pc' = [pc EXCEPT ![w] = "next"] \/ pc' = [pc EXCEPT ![w] = "idle"]
        \/ pc' = [pc EXCEPT ![w] = "update"] \/ pc' = [pc EXCEPT ![w] = "number"]
    BY <1>6 DEF InsertRow, UpdateRow, FindRow, TakenIn, Failed
  <2>3. QED
    BY <1>1, <1>5, <2>1, <2>2
<1>7. CASE \/ Poll(w) \/ FetchPage(w) \/ FetchAll(w) \/ LoadSource(w) \/ NextRecord(w)
           \/ FinishPull(w) \/ Deliver(w) \/ Hit(w) \/ SearchMail(w) \/ Download(w)
           \/ NextMail(w) \/ AddComment(w) \/ MailboxDone(w) \/ RunRecurring(w)
  <2>1. holder' = holder /\ pc[w] # "numbered"
    BY <1>7 DEF Poll, FetchPage, FetchAll, LoadSource, NextRecord, FinishPull, Deliver, Hit,
         SearchMail, Download, NextMail, AddComment, MailboxDone, RunRecurring, Free, Idle
  <2>2. pc'[w] # "numbered"
    BY <1>1, <1>7, <2>1 DEF Poll, FetchPage, FetchAll, LoadSource, NextRecord, FinishPull,
         Deliver, Hit, SearchMail, Download, NextMail, AddComment, MailboxDone, RunRecurring,
         Fate
  <2>3. QED
    BY <1>5, <2>1, <2>2
<1>8. QED
  BY <1>2, <1>3, <1>4, <1>6, <1>7 DEF Step

\* The hits a tick later: no more of them.
LEMMA OlderHits ==
  ASSUME hits \subseteq Hits, IsFiniteSet(hits),
         hits' = {[h EXCEPT !.age = @ + 1] : h \in {h \in hits : h.age + 1 < Window}}
  PROVE  hits' \subseteq Hits /\ IsFiniteSet(hits') /\ Cardinality(hits') <= Cardinality(hits)
<1> DEFINE young == {h \in hits : h.age + 1 < Window}
           f == [h \in young |-> [h EXCEPT !.age = @ + 1]]
<1>1. IsFiniteSet(young) /\ Cardinality(young) <= Cardinality(hits)
  BY FS_Subset
<1>2. hits' = {f[h] : h \in young}
  OBVIOUS
<1>3. ASSUME NEW h \in young PROVE f[h] \in Hits
  <2>1. h \in Hits /\ h.age + 1 \in Nat
    BY DEF Hits
  <2>2. QED
    BY <2>1 DEF Hits
<1> HIDE DEF young
<1>4. f \in Surjection(young, hits')
  BY <1>2 DEF Surjection
<1>5. IsFiniteSet(hits') /\ Cardinality(hits') <= Cardinality(young)
  BY <1>1, <1>4, FS_Surjection
<1>6. /\ Cardinality(hits') \in Nat /\ Cardinality(young) \in Nat
      /\ Cardinality(hits) \in Nat
  BY <1>1, <1>5, FS_CardinalityType
<1>7. QED
  BY <1>1, <1>2, <1>3, <1>5, <1>6

\* What a step of a worker does to everything else.
LEMMA RestMoves ==
  ASSUME TypeInv, NEW w \in Workers, Step(w) \/ Crash(w)
  PROVE  /\ remote' = remote /\ late' = late /\ wm' \in Cursors /\ rows' \in Seq(Records)
         /\ next' \in Nat \ {0} /\ burnt' \in Nat /\ work' \in Nat
         /\ hits' \subseteq Hits /\ IsFiniteSet(hits')
         /\ mail' \in [Mails -> Messages] /\ handled' \in [Mails -> Nat]
<1> USE DEF outside, table
<1>1. /\ wm \in Cursors /\ rows \in Seq(Records)
      /\ next \in Nat \ {0} /\ burnt \in Nat /\ work \in Nat
      /\ hits \subseteq Hits /\ IsFiniteSet(hits)
      /\ mail \in [Mails -> Messages] /\ handled \in [Mails -> Nat]
      /\ JobOK(env, job[w], pc[w], Len(rows)) /\ AtDoor(env, pc[w]) /\ env \in Environments
  BY DEF TypeInv
<1>2. CASE \/ FetchPage(w) \/ FetchAll(w) \/ LoadSource(w) \/ NextRecord(w)
           \/ NextMail(w) \/ MailboxDone(w) \/ FindRow(w) \/ TakeNumber(w)
  BY <1>1, <1>2 DEF FetchPage, FetchAll, LoadSource, NextRecord, NextMail, MailboxDone,
     FindRow, TakeNumber
<1>3. CASE Poll(w) \/ Deliver(w) \/ SearchMail(w) \/ RunRecurring(w)
  <2>1. work' = work + 1
    BY <1>3 DEF Poll, Deliver, SearchMail, RunRecurring
  <2>2. work' \in Nat
    BY <1>1, <2>1
  <2>3. QED
    BY <1>1, <1>3, <2>2 DEF Poll, Deliver, SearchMail, RunRecurring
<1>4. CASE FinishPull(w)
  <2>1. wm' \in Cursors
    BY <1>1, <1>4 DEF FinishPull, JobOK
  <2>2. QED
    BY <1>1, <1>4, <2>1 DEF FinishPull
<1>5. CASE Hit(w)
  <2>1. PICK h \in Hits : h = [no |-> job[w].cursor, age |-> job[w].age]
    BY <1>1 DEF JobOK, Hits
  <2>2. hits' = hits \/ hits' = hits \cup {h}
    BY <1>5, <2>1 DEF Hit
  <2>3. IsFiniteSet(hits \cup {h})
    BY <1>1, FS_AddElement
  <2>4. hits \cup {h} \subseteq Hits
    BY <1>1
  <2>5. QED
    BY <1>1, <1>5, <2>2, <2>3, <2>4 DEF Hit
<1>6. CASE Download(w)
  <2>1. \/ mail' = mail
        \/ \E m \in job[w].unseen : mail' = [mail EXCEPT ![m].seen = TRUE]
    BY <1>6 DEF Download
  <2>2. ASSUME NEW m \in job[w].unseen, mail' = [mail EXCEPT ![m].seen = TRUE]
        PROVE  mail' \in [Mails -> Messages]
    <3>1. m \in Mails /\ mail[m] \in Messages
      BY <1>1 DEF JobOK
    <3>2. [mail[m] EXCEPT !.seen = TRUE] \in Messages
      BY <3>1 DEF Messages
    <3>3. mail' = [mail EXCEPT ![m] = [mail[m] EXCEPT !.seen = TRUE]]
      BY <2>2
    <3>4. QED
      BY <1>1, <3>2, <3>3
  <2>3. mail' \in [Mails -> Messages]
    BY <1>1, <2>1, <2>2
  <2>4. QED
    BY <1>1, <1>6, <2>3 DEF Download
<1>7. ASSUME job[w].key \in Mails, handled' = [handled EXCEPT ![job[w].key] = @ + 1]
      PROVE  handled' \in [Mails -> Nat]
  BY <1>1, <1>7
<1>8. CASE AddComment(w)
  <2>1. job[w].key \in Mails
    BY <1>1, <1>8 DEF AddComment, JobOK, AtDoor, Incoming
  <2>2. handled' \in [Mails -> Nat]
    BY <1>7, <1>8, <2>1 DEF AddComment
  <2>3. QED
    BY <1>1, <1>8, <2>2 DEF AddComment
<1>9. CASE CommitNumber(w)
  <2>1. job[w].number + 1 \in Nat \ {0}
    BY <1>1 DEF JobOK
  <2>2. QED
    BY <1>1, <1>9, <2>1 DEF CommitNumber
<1>10. ASSUME TakenIn(w), pc[w] \in {"insert", "update"} PROVE handled' \in [Mails -> Nat]
  <2>1. CASE env.door = "mail"
    <3>1. job[w].key \in Mails
      BY <1>1, <1>10, <2>1 DEF JobOK, Incoming
    <3>2. QED
      BY <1>7, <1>10, <2>1, <3>1 DEF TakenIn
  <2>2. CASE env.door # "mail"
    <3>1. handled' = handled
      BY <1>1, <1>10, <2>2, EnvironmentIs DEF TakenIn, Doors
    <3>2. QED
      BY <1>1, <3>1
  <2>3. QED
    BY <2>1, <2>2
<1>11. job[w].key \in Incoming(env) => job[w].key \in Keys \cup Mails
  BY DEF Incoming
<1>12. CASE InsertRow(w)
  <2>1. pc[w] = "insert" /\ UNCHANGED <<outside, wm, next, holder, hits, work>>
    BY <1>12 DEF InsertRow
  <2>2. CASE TakenIn(w) /\ UNCHANGED <<burnt, failed>>
    <3>1. PICK r \in Records : r = [key |-> job[w].key, cursor |-> job[w].cursor,
                                    number |-> job[w].number]
      BY <1>1, <1>11, <2>1 DEF JobOK, Records
    <3>2. rows' = rows \/ rows' = Append(rows, r)
      BY <1>12, <3>1 DEF InsertRow
    <3>3. rows' \in Seq(Records)
      BY <1>1, <3>2
    <3>4. handled' \in [Mails -> Nat]
      BY <1>10, <2>1, <2>2
    <3>5. QED
      BY <1>1, <2>1, <2>2, <3>3, <3>4
  <2>3. CASE burnt' = burnt + 1 /\ UNCHANGED <<rows, handled>>
    <3>1. burnt' \in Nat
      BY <1>1, <2>3
    <3>2. QED
      BY <1>1, <2>1, <2>3, <3>1
  <2>4. QED
    BY <1>12, <2>2, <2>3 DEF InsertRow
<1>13. CASE UpdateRow(w)
  <2>1. pc[w] = "update" /\ UNCHANGED <<outside, wm, next, holder, burnt, hits, work>>
    BY <1>13 DEF UpdateRow
  <2>2. CASE TakenIn(w)
    <3>1. job[w].hit \in 1..Len(rows) /\ job[w].cursor \in Nat
      BY <1>1, <2>1 DEF JobOK
    <3>2. PICK r : r = [rows[job[w].hit] EXCEPT !.cursor = job[w].cursor]
      OBVIOUS
    <3>3. r \in Records
      <4>1. rows[job[w].hit] \in Records
        BY <1>1, <3>1
      <4>2. QED
        BY <3>1, <3>2, <4>1 DEF Records
    <3>4. PICK i \in 1..Len(rows) : i = job[w].hit
      BY <3>1
    <3>5. rows' \in Seq(Records)
      <4>1. rows' = rows \/ rows' = [rows EXCEPT ![i] = r]
        BY <1>13, <3>2, <3>4 DEF UpdateRow
      <4>2. [rows EXCEPT ![i] = r] \in Seq(Records)
        BY <1>1, <3>3
      <4>3. QED
        BY <1>1, <4>1, <4>2
    <3>6. handled' \in [Mails -> Nat]
      BY <1>10, <2>1, <2>2
    <3>7. QED
      BY <1>1, <2>1, <3>5, <3>6
  <2>3. CASE UNCHANGED <<rows, handled>>
    BY <1>1, <2>1, <2>3
  <2>4. QED
    BY <1>13, <2>2, <2>3 DEF UpdateRow
<1>14. CASE Crash(w)
  <2>1. burnt' \in Nat
    BY <1>1, <1>14 DEF Crash
  <2>2. QED
    BY <1>1, <1>14, <2>1 DEF Crash
<1>15. QED
  BY <1>2, <1>3, <1>4, <1>5, <1>6, <1>8, <1>9, <1>12, <1>13, <1>14 DEF Step

LEMMA TypeNext == TypeInv /\ [Next]_vars => TypeInv'
<1> SUFFICES ASSUME TypeInv, [Next]_vars PROVE TypeInv'
  OBVIOUS
<1> USE DEF table
<1>1. ASSUME NEW w \in Workers, Step(w) \/ Crash(w) PROVE TypeInv'
  <2>1. AtDoor(env, pc'[w]) /\ JobOK(env, job'[w], pc'[w], Len(rows'))
    BY <1>1, JobMoves
  <2>2. Len(rows') \in Nat /\ Len(rows) <= Len(rows')
    BY <1>1, RowsGrow
  <2>3. /\ holder' \in Workers \cup {None}
        /\ pc'[w] = "numbered" <=> holder' = w
        /\ \A v \in Workers \ {w} : holder' = v <=> holder = v
    BY <1>1, HolderMoves
  <2>4. /\ pc' = [v \in Workers |-> pc'[v]] /\ job' = [v \in Workers |-> job'[v]]
        /\ \A v \in Workers :
              /\ AtDoor(env', pc'[v]) /\ JobOK(env', job'[v], pc'[v], Len(rows'))
              /\ pc'[v] = "numbered" <=> holder' = v
    BY <1>1, <2>1, <2>2, <2>3, OneMoves
  <2>5. env' = env
    BY <1>1, Moves
  <2>6. QED
    BY <1>1, <2>3, <2>4, <2>5, RestMoves DEF TypeInv
<1>2. CASE RemoteWrite
  <2>1. 1..MaxCursor \subseteq Cursors
    BY IntakeAssumption DEF Cursors
  <2>2. remote' \in [Keys -> Cursors]
    BY <1>2, <2>1 DEF RemoteWrite, TypeInv
  <2>3. QED
    BY <1>2, <2>2 DEF RemoteWrite, TypeInv
<1>3. CASE RemoteDelete
  <2>1. 0 \in Cursors
    BY IntakeAssumption DEF Cursors
  <2>2. remote' \in [Keys -> Cursors]
    BY <1>3, <2>1 DEF RemoteDelete, TypeInv
  <2>3. QED
    BY <1>3, <2>2 DEF RemoteDelete, TypeInv
<1>4. CASE Tick
  <2>1. hits' \subseteq Hits /\ IsFiniteSet(hits')
    BY <1>4, OlderHits DEF Tick, TypeInv
  <2>2. /\ UNCHANGED <<env, remote, mail, wm, table, handled, pc, work>>
        /\ job' = [w \in Workers |-> IF Idle(w) THEN job[w]
                                     ELSE [job[w] EXCEPT !.age = Min({@ + 1, Window})]]
    BY <1>4 DEF Tick, outside
  <2>3. ASSUME NEW w \in Workers PROVE JobOK(env, job'[w], pc[w], Len(rows))
    <3>1. JobOK(env, job[w], pc[w], Len(rows))
      BY DEF TypeInv
    <3>2. PICK a : a = Min({job[w].age + 1, Window})
      OBVIOUS
    <3>3. a \in Nat
      <4>1. job[w].age + 1 \in Nat /\ Window \in Nat
        BY <3>1, IntakeAssumption DEF JobOK
      <4>2. \E x \in {job[w].age + 1, Window} : \A y \in {job[w].age + 1, Window} : x <= y
        BY <4>1
      <4>3. QED
        BY <3>2, <4>1, <4>2 DEF Min
    <3>4. job'[w] = job[w] \/ job'[w] = [job[w] EXCEPT !.age = a]
      BY <2>2, <3>2
    <3>5. QED
      BY <3>1, <3>3, <3>4 DEF JobOK, Columns
  <2>4. job' = [w \in Workers |-> job'[w]]
    BY <2>2
  <2>5. QED
    BY <2>1, <2>2, <2>3, <2>4 DEF TypeInv
<1>5. CASE UNCHANGED vars
  BY <1>5 DEF vars, TypeInv
<1>6. QED
  BY <1>1, <1>2, <1>3, <1>4, <1>5 DEF Next

LEMMA TypeInit == Init => TypeInv
<1> SUFFICES ASSUME Init PROVE TypeInv
  OBVIOUS
<1>1. 0 \in Cursors
  BY IntakeAssumption DEF Cursors
<1>2. mail \in [Mails -> Messages]
  <2> DEFINE M == IF env.door = "mail"
                  THEN [subject : {"ticket", "none"}, known : BOOLEAN,
                        auto : BOOLEAN, seen : {FALSE}]
                  ELSE {[subject |-> "none", known |-> FALSE, auto |-> TRUE, seen |-> TRUE]}
  <2>1. mail \in [Mails -> M]
    BY DEF Init
  <2>2. M \subseteq Messages
    <3>1. {FALSE} \subseteq BOOLEAN
      OBVIOUS
    <3>2. [subject : {"ticket", "none"}, known : BOOLEAN, auto : BOOLEAN, seen : {FALSE}]
            \subseteq Messages
      BY <3>1, Zenon DEF Messages
    <3>3. [subject |-> "none", known |-> FALSE, auto |-> TRUE, seen |-> TRUE] \in Messages
      BY Zenon DEF Messages
    <3>4. QED
      BY <3>2, <3>3
  <2>3. QED
    BY <2>1, <2>2
<1>3. IsFiniteSet({})
  BY FS_EmptySet
<1>4. \A w \in Workers : AtDoor(env, pc[w]) /\ JobOK(env, job[w], pc[w], Len(rows))
  BY NewJobOK DEF Init, AtDoor
<1>5. QED
  BY <1>1, <1>2, <1>3, <1>4, IntakeAssumption DEF Init, TypeInv

\* Rows, counters and jobs hold what their columns allow.
THEOREM TypeCorrect == Spec => []TypeInv
BY TypeInit, TypeNext, PTL DEF Spec

-----------------------------------------------------------------------------
(* Numbers. *)

\* The workers at step l; at "insert" they hold a number they have not used yet.
At(l) == {w \in Workers : pc[w] = l}
Inserters == At("insert")

\* A number taken is the counter's until it is committed, and below the counter
\* then; no two rows or creates have the same, and every one is accounted for.
NumbersInv ==
    /\ \A w \in Workers :
          /\ pc[w] = "numbered" => job[w].number = next
          /\ pc[w] = "insert" => job[w].number < next
    /\ \A v, w \in Inserters : v # w => job[v].number # job[w].number
    /\ \A i \in 1..Len(rows) :
          /\ rows[i].number < next
          /\ \A w \in Inserters : rows[i].number # job[w].number
    /\ NumbersUnique
    /\ next - 1 = Len(rows) + burnt + Cardinality(Inserters)

\* Whoever reaches or leaves a step is one more or one less there.
LEMMA AtMoves ==
  ASSUME TypeInv, NEW w \in Workers, Step(w) \/ Crash(w), NEW l
  PROVE  /\ IsFiniteSet(At(l)) /\ Cardinality(At(l)) \in Nat
         /\ w \in At(l) <=> pc[w] = l
         /\ (pc[w] = l <=> pc'[w] = l) => At(l)' = At(l)
         /\ pc[w] # l /\ pc'[w] = l =>
              At(l)' = At(l) \cup {w} /\ Cardinality(At(l)') = Cardinality(At(l)) + 1
         /\ pc[w] = l /\ pc'[w] # l =>
              At(l)' = At(l) \ {w} /\ Cardinality(At(l)') = Cardinality(At(l)) - 1
<1>1. IsFiniteSet(At(l))
  BY FS_Subset, IntakeAssumption DEF At
<1>2. Cardinality(At(l)) \in Nat
  BY <1>1, FS_CardinalityType
<1>3. \A v \in Workers : pc'[v] = IF v = w THEN pc'[w] ELSE pc[v]
  BY Moves
<1>4. CASE pc[w] # l /\ pc'[w] = l
  <2>1. At(l)' = At(l) \cup {w} /\ w \notin At(l)
    BY <1>3, <1>4 DEF At
  <2>2. QED
    BY <1>1, <1>2, <1>4, <2>1, FS_AddElement DEF At
<1>5. CASE pc[w] = l /\ pc'[w] # l
  <2>1. At(l)' = At(l) \ {w} /\ w \in At(l)
    BY <1>3, <1>5 DEF At
  <2>2. QED
    BY <1>1, <1>2, <1>5, <2>1, FS_RemoveElement DEF At
<1>6. CASE (pc[w] = l) <=> (pc'[w] = l)
  BY <1>1, <1>2, <1>3, <1>6 DEF At
<1>7. QED
  BY <1>4, <1>5, <1>6

LEMMA InsertersMove ==
  ASSUME TypeInv, NEW w \in Workers, Step(w) \/ Crash(w)
  PROVE  /\ Cardinality(Inserters) \in Nat
         /\ w \in Inserters <=> pc[w] = "insert"
         /\ pc[w] # "insert" /\ pc'[w] # "insert" => Inserters' = Inserters
         /\ pc[w] # "insert" /\ pc'[w] = "insert" =>
              /\ Inserters' = Inserters \cup {w}
              /\ Cardinality(Inserters') = Cardinality(Inserters) + 1
         /\ pc[w] = "insert" /\ pc'[w] # "insert" =>
              /\ Inserters' = Inserters \ {w}
              /\ Cardinality(Inserters') = Cardinality(Inserters) - 1
BY AtMoves DEF Inserters

\* The steps that neither take nor use a number.
LEMMA NumbersLeft ==
  ASSUME TypeInv, NEW w \in Workers, Step(w) \/ Crash(w),
         ~ (TakeNumber(w) \/ CommitNumber(w) \/ InsertRow(w)),
         Crash(w) => pc[w] # "insert"
  PROVE  /\ pc[w] # "insert" /\ pc'[w] \notin {"numbered", "insert"}
         /\ UNCHANGED <<next, burnt>>
         /\ Len(rows') = Len(rows) /\ \A i \in 1..Len(rows) : rows'[i].number = rows[i].number
<1> USE DEF Goto, Done, table
<1>1. pc = [v \in Workers |-> pc[v]] /\ rows \in Seq(Records)
  BY DEF TypeInv
<1>2. CASE UpdateRow(w)
  <2>1. pc[w] = "update" /\ UNCHANGED <<next, burnt>> /\ (TakenIn(w) \/ Failed(w))
    BY <1>2 DEF UpdateRow
  <2>2. pc'[w] \in {"next", "idle"}
    BY <1>1, <2>1 DEF TakenIn, Failed
  <2>3. PICK r : r = [rows[job[w].hit] EXCEPT !.cursor = job[w].cursor]
    OBVIOUS
  <2>4. job[w].hit \in 1..Len(rows) => r.number = rows[job[w].hit].number
    BY <1>1, <2>3 DEF Records
  <2>5. rows' = rows \/ rows' = [rows EXCEPT ![job[w].hit] = r]
    BY <1>2, <2>3 DEF UpdateRow
  <2>6. Len(rows') = Len(rows) /\ \A i \in 1..Len(rows) : rows'[i].number = rows[i].number
    BY <1>1, <2>4, <2>5
  <2>7. QED
    BY <2>1, <2>2, <2>6
<1>3. CASE ~UpdateRow(w)
  <2>1. pc[w] # "insert" /\ UNCHANGED <<next, burnt>>
    BY <1>3 DEF Step, Poll, FetchPage, FetchAll, LoadSource, NextRecord, FinishPull, Deliver,
       Hit, SearchMail, Download, NextMail, AddComment, MailboxDone, RunRecurring,
       FindRow, Crash, Free, Idle
  <2>2. CASE FindRow(w) \/ Crash(w)
    <3>1. \/ pc' = [pc EXCEPT ![w] = "next"] \/ pc' = [pc EXCEPT ![w] = "idle"]
          \/ pc' = [pc EXCEPT ![w] = "update"] \/ pc' = [pc EXCEPT ![w] = "number"]
      BY <2>2 DEF FindRow, Failed, Crash
    <3>2. pc'[w] \notin {"numbered", "insert"}
      BY <1>1, <3>1
    <3>3. QED
      BY <1>3, <2>1, <2>2, <3>2, RowsGrow DEF FindRow, Crash
  <2>3. CASE \/ Poll(w) \/ FetchPage(w) \/ FetchAll(w) \/ LoadSource(w) \/ NextRecord(w)
             \/ FinishPull(w) \/ Deliver(w) \/ Hit(w) \/ SearchMail(w) \/ Download(w)
             \/ NextMail(w) \/ AddComment(w) \/ MailboxDone(w) \/ RunRecurring(w)
    <3>1. pc'[w] \notin {"numbered", "insert"}
      BY <1>1, <2>3 DEF Poll, FetchPage, FetchAll, LoadSource, NextRecord, FinishPull,
         Deliver, Hit, SearchMail, Download, NextMail, AddComment, MailboxDone, RunRecurring,
         Fate, Free, Idle
    <3>2. UNCHANGED rows
      BY <2>3 DEF Poll, FetchPage, FetchAll, LoadSource, NextRecord, FinishPull,
         Deliver, Hit, SearchMail, Download, NextMail, AddComment, MailboxDone, RunRecurring
    <3>3. QED
      BY <2>1, <3>1, <3>2
  <2>4. QED
    BY <1>3, <2>2, <2>3 DEF Step
<1>4. QED
  BY <1>2, <1>3

LEMMA NumbersNext ==
  ASSUME TypeInv, NumbersInv, [Next]_vars
  PROVE  NumbersInv'
<1> USE DEF table, outside
<1>1. /\ rows \in Seq(Records) /\ Len(rows) \in Nat /\ next \in Nat \ {0} /\ burnt \in Nat
      /\ pc = [v \in Workers |-> pc[v]] /\ job = [v \in Workers |-> job[v]]
      /\ \A v \in Workers : job[v].number \in Nat /\ (pc[v] = "numbered" <=> holder = v)
      /\ \A i \in 1..Len(rows) : rows[i].number \in Nat
  <2>1. \A i \in 1..Len(rows) : rows[i] \in Records
    BY DEF TypeInv
  <2>2. QED
    BY <2>1 DEF TypeInv, JobOK, Records
<1>2. ASSUME NEW w \in Workers, Step(w) \/ Crash(w)
      PROVE  /\ \A v \in Workers \ {w} : pc'[v] = pc[v] /\ job'[v] = job[v]
             /\ Inserters' \ {w} = Inserters \ {w}
             /\ w \in Inserters' <=> pc'[w] = "insert"
  BY <1>2, Moves DEF Inserters, At
<1>3. ASSUME NEW w \in Workers, TakeNumber(w) PROVE NumbersInv'
  <2>1. /\ pc[w] = "number" /\ pc'[w] = "numbered" /\ holder = None
        /\ job'[w].number = next /\ UNCHANGED <<rows, next, burnt>>
    BY <1>1, <1>3 DEF TakeNumber, Goto, TypeInv, JobOK, Columns
  <2>2. Inserters' = Inserters
    BY <1>3, <2>1, InsertersMove DEF Step
  <2>3. \A v \in Workers : pc[v] # "numbered"
    BY <1>1, <2>1, IntakeAssumption
  <2>4. \A v \in Inserters : job'[v] = job[v]
    BY <1>2, <1>3, <2>1 DEF Inserters, At, Step
  <2>5. \A v \in Workers : /\ pc'[v] = "numbered" => job'[v].number = next
                           /\ pc'[v] = "insert" => job'[v].number < next
    BY <1>2, <1>3, <2>1, <2>3 DEF NumbersInv, Step
  <2>6. QED
    BY <2>1, <2>2, <2>4, <2>5 DEF NumbersInv, NumbersUnique
<1>4. ASSUME NEW w \in Workers, CommitNumber(w) PROVE NumbersInv'
  <2>1. /\ pc[w] = "numbered" /\ pc'[w] = "insert" /\ holder = w
        /\ job' = job /\ next' = next + 1 /\ job[w].number = next
        /\ UNCHANGED <<rows, burnt>>
    BY <1>1, <1>4 DEF CommitNumber, Goto, NumbersInv
  <2>2. /\ Inserters' = Inserters \cup {w} /\ w \notin Inserters
        /\ Cardinality(Inserters') = Cardinality(Inserters) + 1
        /\ Cardinality(Inserters) \in Nat
    BY <1>4, <2>1, InsertersMove DEF Step
  <2>3. \A v \in Workers : v # w => pc'[v] # "numbered" /\ pc'[v] = pc[v]
    BY <1>1, <1>2, <1>4, <2>1 DEF Step
  <2>4. \A v \in Inserters : job[v].number \in Nat /\ job[v].number < next
    BY <1>1 DEF NumbersInv, Inserters, At
  <2> PICK n \in Nat : n = next
    BY <1>1
  <2> PICK m \in Nat : m = Len(rows) + burnt
    BY <1>1
  <2>5. next' = n + 1 /\ job[w].number = n /\ Len(rows) + burnt = m
    BY <2>1
  <2>6. \A v \in Workers : /\ pc'[v] = "numbered" => job'[v].number = next'
                           /\ pc'[v] = "insert" => job'[v].number < next'
    BY <1>1, <2>1, <2>3, <2>4 DEF Inserters, At
  <2>7. \A u, v \in Inserters' : u # v => job'[u].number # job'[v].number
    <3>1. \A v \in Inserters : job[v].number # job[w].number
      BY <2>4, <2>5
    <3>2. \A u, v \in Inserters : u # v => job[u].number # job[v].number
      BY DEF NumbersInv
    <3>3. QED
      BY <2>1, <2>2, <3>1, <3>2
  <2>8. \A i \in 1..Len(rows) : /\ rows[i].number < next'
                                /\ \A v \in Inserters' : rows[i].number # job[v].number
    <3>1. ASSUME NEW i \in 1..Len(rows)
          PROVE  /\ rows[i].number \in Nat /\ rows[i].number < next
                 /\ \A v \in Inserters : rows[i].number # job[v].number
      BY <1>1 DEF NumbersInv
    <3>2. QED
      BY <2>2, <2>5, <3>1
  <2>9. next' - 1 = Len(rows) + burnt + Cardinality(Inserters')
    <3>1. n - 1 = m + Cardinality(Inserters)
      BY <2>5 DEF NumbersInv
    <3>2. QED
      BY <2>2, <2>5, <3>1
  <2>10. QED
    BY <2>1, <2>6, <2>7, <2>8, <2>9 DEF NumbersInv, NumbersUnique
<1>5. ASSUME NEW w \in Workers, InsertRow(w) \/ (Crash(w) /\ pc[w] = "insert")
      PROVE  NumbersInv'
  <2>1. pc[w] = "insert" /\ next' = next /\ w \in Inserters
    BY <1>5 DEF InsertRow, Crash, Inserters, At
  <2>2. pc'[w] \notin {"numbered", "insert"}
    <3>1. TakenIn(w) \/ Failed(w) \/ Done(w)
      BY <1>5 DEF InsertRow, Crash
    <3>2. QED
      BY <1>1, <3>1 DEF TakenIn, Failed, Done, Goto
  <2>3. /\ Inserters' = Inserters \ {w}
        /\ Cardinality(Inserters') = Cardinality(Inserters) - 1
        /\ Cardinality(Inserters) \in Nat
    BY <1>5, <2>1, <2>2, InsertersMove DEF Step
  <2>4. \A v \in Inserters' : job'[v] = job[v] /\ v \in Inserters /\ v # w
    BY <1>2, <1>5, <2>3 DEF Inserters, At, Step
  <2>5. \A v \in Workers : /\ pc'[v] = "numbered" => job'[v].number = next'
                           /\ pc'[v] = "insert" => job'[v].number < next'
    BY <1>2, <1>5, <2>1, <2>2 DEF NumbersInv, Step
  <2>6. \A u, v \in Inserters' : u # v => job'[u].number # job'[v].number
    BY <2>4 DEF NumbersInv
  <2>7. CASE rows' = rows /\ burnt' = burnt + 1
    <3>1. next' - 1 = Len(rows') + burnt' + Cardinality(Inserters')
      BY <1>1, <2>1, <2>3, <2>7 DEF NumbersInv
    <3>2. QED
      BY <2>1, <2>4, <2>5, <2>6, <2>7, <3>1 DEF NumbersInv, NumbersUnique
  <2>8. CASE burnt' = burnt /\ \E r : r.number = job[w].number /\ rows' = Append(rows, r)
    <3>1. PICK r : r.number = job[w].number /\ rows' = Append(rows, r)
      BY <2>8
    <3>2. /\ Len(rows') = Len(rows) + 1 /\ rows'[Len(rows) + 1] = r
          /\ \A i \in 1..Len(rows) : rows'[i] = rows[i]
      BY <1>1, <3>1
    <3>3. \A i \in 1..Len(rows') : i = Len(rows) + 1 \/ i \in 1..Len(rows)
      BY <1>1, <3>2
    <3>4. \A i \in 1..Len(rows) : rows[i].number # r.number
      BY <2>1, <3>1 DEF NumbersInv
    <3>5. NumbersUnique'
      BY <3>2, <3>3, <3>4 DEF NumbersUnique, NumbersInv
    <3>6. \A i \in 1..Len(rows') : /\ rows'[i].number < next'
                                   /\ \A v \in Inserters' : rows'[i].number # job'[v].number
      BY <2>1, <2>4, <3>1, <3>2, <3>3 DEF NumbersInv
    <3>7. next' - 1 = Len(rows') + burnt' + Cardinality(Inserters')
      BY <1>1, <2>1, <2>3, <2>8, <3>2 DEF NumbersInv
    <3>8. QED
      BY <2>5, <2>6, <3>5, <3>6, <3>7 DEF NumbersInv
  <2>9. QED
    <3>1. CASE Crash(w)
      BY <1>5, <2>1, <2>7, <3>1 DEF Crash
    <3>2. CASE InsertRow(w)
      <4>1. \/ /\ rows' = Append(rows, [key |-> job[w].key, cursor |-> job[w].cursor,
                                        number |-> job[w].number])
               /\ burnt' = burnt
            \/ rows' = rows /\ burnt' = burnt + 1
        BY <3>2 DEF InsertRow
      <4>2. [key |-> job[w].key, cursor |-> job[w].cursor,
             number |-> job[w].number].number = job[w].number
        OBVIOUS
      <4>3. QED
        BY <2>7, <2>8, <4>1, <4>2
    <3>3. QED
      BY <1>5, <3>1, <3>2
<1>6. ASSUME NEW w \in Workers, Step(w) \/ Crash(w),
             ~ (TakeNumber(w) \/ CommitNumber(w) \/ InsertRow(w)),
             Crash(w) => pc[w] # "insert"
      PROVE  NumbersInv'
  <2>1. /\ pc[w] # "insert" /\ pc'[w] \notin {"numbered", "insert"}
        /\ UNCHANGED <<next, burnt>>
        /\ Len(rows') = Len(rows) /\ \A i \in 1..Len(rows) : rows'[i].number = rows[i].number
    BY <1>6, NumbersLeft
  <2>2. Inserters' = Inserters
    BY <1>6, <2>1, InsertersMove
  <2>3. \A v \in Inserters : job'[v] = job[v]
    BY <1>2, <1>6, <2>1 DEF Inserters, At
  <2>4. \A v \in Workers : /\ pc'[v] = "numbered" => job'[v].number = next'
                           /\ pc'[v] = "insert" => job'[v].number < next'
    BY <1>2, <1>6, <2>1 DEF NumbersInv
  <2>5. QED
    BY <2>1, <2>2, <2>3, <2>4 DEF NumbersInv, NumbersUnique
<1>7. CASE RemoteWrite \/ RemoteDelete \/ UNCHANGED vars
  BY <1>7 DEF RemoteWrite, RemoteDelete, vars, NumbersInv, NumbersUnique, Inserters, At
<1>8. CASE Tick
  <2>1. UNCHANGED <<pc, rows, next, burnt>>
    BY <1>8 DEF Tick
  <2>2. \A v \in Workers : job'[v].number = job[v].number
    <3>1. ASSUME NEW v \in Workers PROVE job'[v].number = job[v].number
      <4>1. job'[v] = job[v] \/ \E a : job'[v] = [job[v] EXCEPT !.age = a]
        BY <1>8 DEF Tick
      <4>2. QED
        BY <4>1 DEF TypeInv, JobOK, Columns
    <3>2. QED
      BY <3>1
  <2>3. Inserters' = Inserters /\ Inserters \subseteq Workers
    BY <2>1 DEF Inserters, At
  <2>4. QED
    BY <2>1, <2>2, <2>3 DEF NumbersInv, NumbersUnique
<1>9. QED
  BY <1>3, <1>4, <1>5, <1>6, <1>7, <1>8 DEF Next

\* Numbers are unique and accounted for, however many create at once.
THEOREM NumbersSoundHolds == Spec => []NumbersSound
<1>1. Init => NumbersInv
  <2> SUFFICES ASSUME Init PROVE NumbersInv
    OBVIOUS
  <2>1. Inserters = {} /\ rows = <<>> /\ next = 1 /\ burnt = 0
    BY DEF Init, Inserters, At
  <2>2. Cardinality({}) = 0
    BY FS_EmptySet
  <2>3. \A w \in Workers : pc[w] = "idle"
    BY DEF Init
  <2>4. QED
    BY <2>1, <2>2, <2>3 DEF NumbersInv, NumbersUnique
<1>2. TypeInv /\ NumbersInv /\ [Next]_vars => NumbersInv'
  BY NumbersNext
<1>3. TypeInv /\ NumbersInv => NumbersSound
  BY WellTyped DEF NumbersSound, NumbersInv, NumbersAccounted, Inserters, At
<1>4. QED
  BY <1>1, <1>2, <1>3, TypeCorrect, PTL DEF Spec

-----------------------------------------------------------------------------
(* One worker at a time. *)

\* A door is served by one worker at a time but for an overlap.
Alone ==
    ~May("overlap") =>
        \A v, w \in Workers : pc[v] # "idle" /\ pc[w] # "idle" => v = w

\* A job starts where the door is free.
LEMMA Starts ==
  ASSUME NEW w \in Workers, Step(w) \/ Crash(w), pc[w] = "idle"
  PROVE  /\ Free(w)
         /\ Poll(w) \/ Deliver(w) \/ SearchMail(w) \/ RunRecurring(w)
<1>1. Poll(w) \/ Deliver(w) \/ SearchMail(w) \/ RunRecurring(w)
  BY DEF Step, FetchPage, FetchAll, LoadSource, NextRecord, FinishPull, Hit, Download,
     NextMail, AddComment, MailboxDone, FindRow, TakeNumber, CommitNumber, InsertRow,
     UpdateRow, Crash, Idle
<1>2. QED
  BY <1>1 DEF Poll, Deliver, SearchMail, RunRecurring

LEMMA AloneNext ==
  ASSUME TypeInv, Alone, [Next]_vars
  PROVE  Alone'
<1>1. ASSUME NEW w \in Workers, Step(w) \/ Crash(w) PROVE Alone'
  <2>1. env' = env /\ \A v \in Workers : v # w => pc'[v] = pc[v]
    BY <1>1, Moves
  <2>2. CASE pc[w] = "idle"
    <3>1. May("overlap") \/ \A v \in Workers : pc[v] = "idle"
      BY <1>1, <2>2, Starts DEF Free, Idle
    <3>2. QED
      BY <2>1, <3>1 DEF Alone, May
  <2>3. CASE pc[w] # "idle"
    BY <2>1, <2>3 DEF Alone, May
  <2>4. QED
    BY <2>2, <2>3
<1>2. CASE RemoteWrite \/ RemoteDelete \/ Tick \/ UNCHANGED vars
  BY <1>2 DEF RemoteWrite, RemoteDelete, Tick, vars, outside, Alone, May
<1>3. QED
  BY <1>1, <1>2 DEF Next

THEOREM AloneInvariant == Spec => []Alone
<1>1. Init => Alone
  BY DEF Init, Alone
<1>2. TypeInv /\ Alone /\ [Next]_vars => Alone'
  BY AloneNext
<1>3. QED
  BY <1>1, <1>2, TypeCorrect, PTL DEF Spec

-----------------------------------------------------------------------------
(* The rate limit. *)

\* What the limiter let in: the calls it has counted and those it will.
Bound == Limit + IF May("overlap") THEN Cardinality(Workers) - 1 ELSE 0
RateInv == Limit > 0 => Counted + Cardinality(At("hit")) <= Bound

\* The other steps count nothing and let nothing in.
LEMMA HitsLeft ==
  ASSUME TypeInv, NEW w \in Workers, Step(w) \/ Crash(w), ~ (Deliver(w) \/ Hit(w))
  PROVE  hits' = hits /\ pc'[w] # "hit"
<1> USE DEF Goto, Done, table
<1>1. pc = [v \in Workers |-> pc[v]]
  BY DEF TypeInv
<1>2. CASE InsertRow(w) \/ UpdateRow(w)
  <2>1. hits' = hits /\ (TakenIn(w) \/ Failed(w))
    BY <1>2 DEF InsertRow, UpdateRow
  <2>2. QED
    BY <1>1, <2>1 DEF TakenIn, Failed
<1>3. CASE FindRow(w) \/ TakeNumber(w) \/ CommitNumber(w) \/ Crash(w)
  BY <1>1, <1>3 DEF FindRow, TakeNumber, CommitNumber, Crash, Failed
<1>4. CASE \/ Poll(w) \/ FetchPage(w) \/ FetchAll(w) \/ LoadSource(w) \/ NextRecord(w)
           \/ FinishPull(w) \/ SearchMail(w) \/ Download(w) \/ NextMail(w)
           \/ AddComment(w) \/ MailboxDone(w) \/ RunRecurring(w)
  BY <1>1, <1>4 DEF Poll, FetchPage, FetchAll, LoadSource, NextRecord, FinishPull,
     SearchMail, Download, NextMail, AddComment, MailboxDone, RunRecurring, Fate
<1>5. QED
  BY <1>2, <1>3, <1>4 DEF Step

LEMMA RateNext ==
  ASSUME TypeInv, Alone, RateInv, [Next]_vars
  PROVE  RateInv'
<1> SUFFICES ASSUME Limit > 0 PROVE RateInv'
  BY DEF RateInv
<1>1. /\ Limit \in Nat /\ Cardinality(Workers) \in Nat /\ Counted \in Nat /\ Counted' \in Nat
  BY IntakeAssumption, TypeNext, FS_CardinalityType DEF TypeInv, Counted
<1>2. Bound \in Int
  BY <1>1 DEF Bound
<1>3. ASSUME NEW w \in Workers, Step(w) \/ Crash(w)
      PROVE  /\ Bound' = Bound /\ IsFiniteSet(At("hit"))
             /\ Cardinality(At("hit")) \in Nat /\ Cardinality(At("hit")') \in Nat
             /\ pc[w] = "hit" /\ pc'[w] # "hit" =>
                  Cardinality(At("hit")') = Cardinality(At("hit")) - 1
             /\ pc[w] # "hit" /\ pc'[w] = "hit" =>
                  /\ Cardinality(At("hit")') = Cardinality(At("hit")) + 1
                  /\ At("hit")' = At("hit") \cup {w}
             /\ (pc[w] = "hit" <=> pc'[w] = "hit") => At("hit")' = At("hit")
  <2>1. env' = env
    BY <1>3, Moves
  <2>2. IsFiniteSet(At("hit")')
    BY FS_Subset, IntakeAssumption DEF At
  <2>3. Cardinality(At("hit")') \in Nat
    BY <2>2, FS_CardinalityType
  <2>4. QED
    BY <1>3, <2>1, <2>3, AtMoves DEF Bound, May
<1>4. ASSUME NEW w \in Workers, Deliver(w) PROVE RateInv'
  <2>1. Step(w) /\ hits' = hits /\ pc[w] = "idle" /\ Free(w)
    BY <1>4 DEF Deliver, Step, Free, Idle
  <2>2. CASE pc'[w] # "hit"
    <3>1. At("hit")' = At("hit") /\ Bound' = Bound
      BY <1>3, <2>1, <2>2
    <3>2. QED
      BY <2>1, <3>1 DEF RateInv, Counted
  <2>3. CASE pc'[w] = "hit"
    <3>1. Counted < Limit
      BY <1>4, <2>1, <2>3 DEF Deliver, UnderLimit
    <3>2. Counted' = Counted /\ Bound' = Bound
      BY <1>3, <2>1 DEF Counted
    <3>3. Cardinality(At("hit")') <= Cardinality(Workers)
      BY FS_Subset, IntakeAssumption DEF At
    <3>4. CASE May("overlap")
      BY <1>1, <1>3, <2>1, <3>1, <3>2, <3>3, <3>4 DEF RateInv, Bound
    <3>5. CASE ~May("overlap")
      <4>1. At("hit") = {}
        BY <2>1, <3>5 DEF Free, Idle, At
      <4>2. Cardinality(At("hit")') = 1
        BY <1>3, <2>1, <2>3, <4>1, FS_EmptySet
      <4>3. QED
        BY <1>1, <3>1, <3>2, <3>5, <4>2 DEF RateInv, Bound
    <3>6. QED
      BY <3>4, <3>5
  <2>4. QED
    BY <2>2, <2>3
<1>5. ASSUME NEW w \in Workers, Hit(w) PROVE RateInv'
  <2>1. Step(w) /\ pc[w] = "hit"
    BY <1>5 DEF Hit, Step
  <2>2. pc'[w] # "hit"
    BY <1>5 DEF Hit, Done, Goto, TypeInv
  <2>3. Counted' <= Counted + 1
    <3> PICK h : h = [no |-> job[w].cursor, age |-> job[w].age]
      OBVIOUS
    <3>1. hits' = hits \/ hits' = hits \cup {h}
      BY <1>5 DEF Hit
    <3>2. IsFiniteSet(hits)
      BY DEF TypeInv
    <3>3. \/ Cardinality(hits \cup {h}) = Cardinality(hits)
          \/ Cardinality(hits \cup {h}) = Cardinality(hits) + 1
      BY <3>2, FS_AddElement
    <3>4. Counted' = Counted \/ Counted' = Counted + 1
      BY <3>1, <3>3 DEF Counted
    <3>5. QED
      BY <1>1, <3>4
  <2>4. QED
    BY <1>1, <1>2, <1>3, <2>1, <2>2, <2>3 DEF RateInv
<1>6. ASSUME NEW w \in Workers, Step(w) \/ Crash(w), ~ (Deliver(w) \/ Hit(w)) PROVE RateInv'
  <2>1. hits' = hits /\ pc'[w] # "hit"
    BY <1>6, HitsLeft
  <2>2. Cardinality(At("hit")') <= Cardinality(At("hit"))
    BY <1>3, <1>6, <2>1
  <2>3. QED
    BY <1>1, <1>2, <1>3, <1>6, <2>1, <2>2 DEF RateInv, Counted
<1>7. CASE Tick
  <2>1. Counted' <= Counted
    BY <1>7, OlderHits DEF Tick, TypeInv, Counted
  <2>2. At("hit")' = At("hit") /\ Bound' = Bound
    BY <1>7 DEF Tick, outside, At, Bound, May
  <2>3. Cardinality(At("hit")) \in Nat
    BY FS_Subset, FS_CardinalityType, IntakeAssumption DEF At
  <2>4. QED
    BY <1>1, <1>2, <2>1, <2>2, <2>3 DEF RateInv
<1>8. CASE RemoteWrite \/ RemoteDelete \/ UNCHANGED vars
  BY <1>8 DEF RemoteWrite, RemoteDelete, vars, outside, RateInv, Counted, At, Bound, May
<1>9. QED
  BY <1>4, <1>5, <1>6, <1>7, <1>8 DEF Next

\* The limiter lets at most one call too many in per further worker.
THEOREM RateBoundedHolds == Spec => []RateBounded
<1>1. Init => RateInv
  <2> SUFFICES ASSUME Init PROVE RateInv
    OBVIOUS
  <2>1. hits = {} /\ At("hit") = {}
    BY DEF Init, At
  <2>2. Counted = 0 /\ Cardinality(At("hit")) = 0
    BY <2>1, FS_EmptySet DEF Counted
  <2>3. Cardinality(Workers) \in Nat /\ Cardinality(Workers) # 0
    BY IntakeAssumption, FS_CardinalityType, FS_EmptySet
  <2>4. Bound \in Nat
    BY <2>3, IntakeAssumption DEF Bound
  <2>5. QED
    BY <2>2, <2>4 DEF RateInv
<1>2. TypeInv /\ Alone /\ RateInv /\ [Next]_vars => RateInv'
  BY RateNext
<1>3. TypeInv /\ RateInv => RateBounded
  <2> SUFFICES ASSUME TypeInv, RateInv PROVE RateBounded
    OBVIOUS
  <2>1. Cardinality(At("hit")) \in Nat /\ Counted \in Nat /\ Cardinality(Workers) \in Nat
    BY FS_Subset, FS_CardinalityType, IntakeAssumption DEF At, TypeInv, Counted
  <2>2. QED
    BY <2>1, IntakeAssumption DEF RateInv, RateBounded, Bound
<1>4. QED
  BY <1>1, <1>2, <1>3, TypeCorrect, AloneInvariant, PTL DEF Spec

-----------------------------------------------------------------------------
(* One copy of each key. *)

\* While one worker is at work the others rest.
LEMMA OthersRest ==
  ASSUME TypeInv, Alone, ~May("overlap"), NEW w \in Workers, Step(w) \/ Crash(w)
  PROVE  \A v \in Workers \ {w} : pc[v] = "idle" /\ pc'[v] = "idle" /\ job'[v] = job[v]
<1>1. \A v \in Workers \ {w} : pc'[v] = pc[v] /\ job'[v] = job[v]
  BY Moves
<1>2. CASE pc[w] = "idle"
  BY <1>1, <1>2, Starts DEF Free, Idle
<1>3. CASE pc[w] # "idle"
  BY <1>1, <1>3 DEF Alone
<1>4. QED
  BY <1>2, <1>3

\* A record or message that is through leaves its worker to the next, or free.
LEMMA Through ==
  ASSUME TypeInv, NEW w \in Workers, TakenIn(w) \/ Failed(w)
  PROVE  pc'[w] \in {"next", "idle"}
BY DEF TypeInv, TakenIn, Failed, Done, Goto

LEMMA InsertedRow ==
  ASSUME TypeInv, NEW w \in Workers, InsertRow(w)
  PROVE  /\ pc[w] = "insert" /\ pc'[w] \in {"next", "idle"}
         /\ \/ rows' = rows /\ Failed(w)
            \/ /\ TakenIn(w) /\ failed' = failed
               /\ Len(rows') = Len(rows) + 1
               /\ \A i \in 1..Len(rows) : rows'[i] = rows[i]
               /\ rows'[Len(rows) + 1].key = job[w].key
               /\ rows'[Len(rows) + 1].cursor = job[w].cursor
<1>1. pc[w] = "insert" /\ pc'[w] \in {"next", "idle"}
  BY Through DEF InsertRow
<1>2. CASE TakenIn(w) /\ UNCHANGED <<burnt, failed>>
  <2>1. PICK r : r = [key |-> job[w].key, cursor |-> job[w].cursor, number |-> job[w].number]
    OBVIOUS
  <2>2. rows' = Append(rows, r) \/ (rows' = rows /\ Failed(w))
    BY <2>1 DEF InsertRow
  <2>3. r.key = job[w].key /\ r.cursor = job[w].cursor
    BY <2>1
  <2>4. QED
    BY <1>1, <1>2, <2>2, <2>3 DEF TypeInv
<1>3. CASE ~ (TakenIn(w) /\ UNCHANGED <<burnt, failed>>)
  BY <1>1, <1>3 DEF InsertRow
<1>4. QED
  BY <1>2, <1>3

LEMMA UpdatedRow ==
  ASSUME TypeInv, NEW w \in Workers, UpdateRow(w)
  PROVE  /\ pc[w] = "update" /\ pc'[w] \in {"next", "idle"} /\ job[w].hit \in 1..Len(rows)
         /\ Len(rows') = Len(rows)
         /\ \A i \in 1..Len(rows) : rows'[i].key = rows[i].key
         /\ \/ rows' = rows /\ Failed(w)
            \/ /\ TakenIn(w) /\ failed' = failed
               /\ \A i \in 1..Len(rows) :
                     rows'[i].cursor = IF i = job[w].hit THEN job[w].cursor
                                       ELSE rows[i].cursor
<1>1. pc[w] = "update" /\ pc'[w] \in {"next", "idle"}
  BY Through DEF UpdateRow
<1>2. rows \in Seq(Records) /\ job[w].hit \in 1..Len(rows)
  BY <1>1 DEF TypeInv, JobOK
<1>3. PICK h \in 1..Len(rows) : h = job[w].hit
  BY <1>2
<1>4. PICK c : c = job[w].cursor
  OBVIOUS
<1>5. PICK r : r = [rows[h] EXCEPT !.cursor = c]
  OBVIOUS
<1>6. rows[h] \in Records
  BY <1>2
<1>7. r.key = rows[h].key /\ r.cursor = c
  BY <1>5, <1>6 DEF Records
<1>8. CASE TakenIn(w) /\ UNCHANGED failed /\ rows' = [rows EXCEPT ![h] = r]
  <2>1. \A i \in 1..Len(rows) : rows'[i] = IF i = h THEN r ELSE rows[i]
    BY <1>2, <1>8
  <2>2. Len(rows') = Len(rows)
    BY <1>2, <1>8
  <2>3. QED
    BY <1>1, <1>2, <1>3, <1>4, <1>7, <1>8, <2>1, <2>2
<1>9. CASE Failed(w) /\ rows' = rows
  BY <1>1, <1>2, <1>9
<1>10. QED
  BY <1>3, <1>4, <1>5, <1>8, <1>9 DEF UpdateRow

\* The key a worker has looked up in vain is not in the table when it inserts.
KeysInv ==
    env.upsert /\ ~May("overlap") =>
        /\ \A i, j \in 1..Len(rows) : rows[i].key = rows[j].key => i = j
        /\ \A w \in Workers : pc[w] \in {"number", "numbered", "insert"} =>
              \A i \in 1..Len(rows) : rows[i].key # job[w].key

LEMMA KeysNext ==
  ASSUME TypeInv, Alone, KeysInv, [Next]_vars
  PROVE  KeysInv'
<1> USE DEF Goto, Done, table, outside
<1>1. ASSUME NEW w \in Workers, Step(w) \/ Crash(w) PROVE KeysInv'
  <2>1. env' = env
    BY <1>1, Moves
  <2>2. SUFFICES ASSUME env.upsert, ~May("overlap")
                 PROVE  KeysInv'
    BY <2>1 DEF KeysInv, May
  <2>3. \A v \in Workers \ {w} : pc'[v] = "idle"
    BY <1>1, <2>2, OthersRest
  <2>4. /\ \A i, j \in 1..Len(rows) : rows[i].key = rows[j].key => i = j
        /\ pc[w] \in {"number", "numbered", "insert"} =>
              \A i \in 1..Len(rows) : rows[i].key # job[w].key
        /\ pc = [v \in Workers |-> pc[v]] /\ job = [v \in Workers |-> job[v]]
        /\ JobOK(env, job[w], pc[w], Len(rows)) /\ env.door \in {"pull", "hook"}
        /\ Len(rows) \in Nat /\ AtDoor(env, pc[w])
    BY <2>2, EnvironmentIs DEF KeysInv, TypeInv
  <2>5. ASSUME rows' = rows,
               pc'[w] \in {"number", "numbered", "insert"} =>
                  \A i \in 1..Len(rows) : rows[i].key # job'[w].key
        PROVE  KeysInv'
    BY <2>3, <2>4, <2>5 DEF KeysInv
  <2>6. CASE FindRow(w)
    <3>1. rows' = rows /\ pc'[w] \in {"next", "idle", "update", "number"}
      BY <2>4, <2>6 DEF FindRow, Failed
    <3>2. pc'[w] = "number" => job'[w] = job[w] /\ Lookup(job[w].key) = {}
      BY <2>4, <2>6 DEF FindRow, Failed
    <3>3. QED
      BY <2>5, <3>1, <3>2 DEF Lookup, Matching
  <2>7. CASE TakeNumber(w)
    <3>1. job'[w].key = job[w].key
      BY <2>4, <2>7 DEF TakeNumber, JobOK, Columns
    <3>2. QED
      BY <2>4, <2>5, <2>7, <3>1 DEF TakeNumber
  <2>8. CASE CommitNumber(w)
    BY <2>4, <2>5, <2>8 DEF CommitNumber
  <2>9. CASE InsertRow(w)
    <3>1. pc[w] = "insert" /\ pc'[w] \in {"next", "idle"}
      BY <2>9, InsertedRow
    <3>2. CASE rows' = rows
      BY <2>5, <3>1, <3>2
    <3>3. CASE /\ Len(rows') = Len(rows) + 1
               /\ \A i \in 1..Len(rows) : rows'[i] = rows[i]
               /\ rows'[Len(rows) + 1].key = job[w].key
      <4>1. \A i \in 1..Len(rows') : i = Len(rows) + 1 \/ i \in 1..Len(rows)
        BY <2>4, <3>3
      <4>2. \A i \in 1..Len(rows) : rows'[i].key # rows'[Len(rows) + 1].key
        BY <2>4, <3>1, <3>3
      <4>3. \A i, j \in 1..Len(rows') : rows'[i].key = rows'[j].key => i = j
        BY <2>4, <3>3, <4>1, <4>2
      <4>4. QED
        BY <2>3, <3>1, <4>3 DEF KeysInv
    <3>4. QED
      BY <2>9, <3>2, <3>3, InsertedRow
  <2>10. CASE UpdateRow(w)
    <3>1. /\ pc'[w] \in {"next", "idle"} /\ Len(rows') = Len(rows)
          /\ \A i \in 1..Len(rows) : rows'[i].key = rows[i].key
      BY <2>10, UpdatedRow
    <3>2. QED
      BY <2>3, <2>4, <3>1 DEF KeysInv
  <2>11. CASE /\ ~ (FindRow(w) \/ TakeNumber(w) \/ CommitNumber(w))
              /\ ~ (InsertRow(w) \/ UpdateRow(w))
    <3>1. rows' = rows
      BY <1>1, <2>11, RowsGrow
    <3>2. pc'[w] \notin {"number", "numbered", "insert"}
            \/ (pc'[w] = pc[w] /\ job'[w] = job[w])
      BY <1>1, <2>2, <2>4, <2>11 DEF Step, Poll, FetchPage, FetchAll, LoadSource, NextRecord,
         FinishPull, Deliver, Hit, SearchMail, Download, NextMail, AddComment, MailboxDone,
         RunRecurring, Fate, Crash
    <3>3. QED
      BY <2>4, <2>5, <3>1, <3>2
  <2>12. QED
    BY <2>6, <2>7, <2>8, <2>9, <2>10, <2>11
<1>2. CASE RemoteWrite \/ RemoteDelete \/ UNCHANGED vars
  BY <1>2 DEF RemoteWrite, RemoteDelete, vars, KeysInv, May
<1>3. CASE Tick
  <2>1. UNCHANGED <<env, pc, rows>>
    BY <1>3 DEF Tick
  <2>2. ASSUME NEW v \in Workers PROVE job'[v].key = job[v].key
    <3>1. job'[v] = job[v] \/ \E a : job'[v] = [job[v] EXCEPT !.age = a]
      BY <1>3 DEF Tick
    <3>2. QED
      BY <3>1 DEF TypeInv, JobOK, Columns
  <2>3. QED
    BY <2>1, <2>2 DEF KeysInv, May
<1>4. QED
  BY <1>1, <1>2, <1>3 DEF Next

\* While one worker at a time looks up what it writes, no key is taken in twice.
THEOREM OneCopyHolds == Spec => []OneCopy
<1>1. Init => KeysInv
  BY DEF Init, KeysInv
<1>2. TypeInv /\ Alone /\ KeysInv /\ [Next]_vars => KeysInv'
  BY KeysNext
<1>3. TypeInv /\ KeysInv => OneCopy
  <2> SUFFICES ASSUME TypeInv, KeysInv, env.upsert, ~May("overlap"), NEW k \in Keys
               PROVE  Cardinality(Matching(k)) <= 1
    BY DEF OneCopy
  <2>1. \A i, j \in Matching(k) : i = j
    BY DEF KeysInv, Matching
  <2>2. Matching(k) = {} \/ \E i : Matching(k) = {i}
    BY <2>1
  <2>3. QED
    BY <2>2, FS_EmptySet, FS_Singleton
<1>4. QED
  BY <1>1, <1>2, <1>3, TypeCorrect, AloneInvariant, PTL DEF Spec
-----------------------------------------------------------------------------
(* A job is new until it starts. *)

Fresh == \A w \in Workers : pc[w] = "idle" => job[w] = NewJob

LEMMA FreshNext ==
  ASSUME TypeInv, Fresh, [Next]_vars
  PROVE  Fresh'
<1> USE DEF Goto, Done
<1>1. pc = [v \in Workers |-> pc[v]] /\ job = [v \in Workers |-> job[v]]
  BY DEF TypeInv
<1>2. ASSUME NEW w \in Workers, Step(w) \/ Crash(w) PROVE Fresh'
  <2>1. \A v \in Workers \ {w} : pc'[v] = pc[v] /\ job'[v] = job[v]
    BY <1>2, Moves
  <2>2. pc'[w] = "idle" => job'[w] = NewJob
    <3>1. CASE InsertRow(w) \/ UpdateRow(w) \/ FindRow(w)
      <4>1. TakenIn(w) \/ Failed(w) \/ pc'[w] # "idle"
        BY <1>1, <3>1 DEF InsertRow, UpdateRow, FindRow
      <4>2. QED
        BY <1>1, <4>1 DEF TakenIn, Failed
    <3>2. CASE ~ (InsertRow(w) \/ UpdateRow(w) \/ FindRow(w))
      BY <1>1, <1>2, <3>2 DEF Fresh, Step, Poll, FetchPage, FetchAll, LoadSource, NextRecord,
         FinishPull, Deliver, Hit, SearchMail, Download, NextMail, AddComment, MailboxDone,
         RunRecurring, TakeNumber, CommitNumber, Fate, Crash
    <3>3. QED
      BY <3>1, <3>2
  <2>3. QED
    BY <2>1, <2>2 DEF Fresh
<1>3. CASE RemoteWrite \/ RemoteDelete \/ Tick \/ UNCHANGED vars
  BY <1>3 DEF RemoteWrite, RemoteDelete, Tick, vars, Fresh, Idle
<1>4. QED
  BY <1>2, <1>3 DEF Next

THEOREM FreshInvariant == Spec => []Fresh
<1>1. Init => Fresh
  BY DEF Init, Fresh
<1>2. TypeInv /\ Fresh /\ [Next]_vars => Fresh'
  BY FreshNext
<1>3. QED
  BY <1>1, <1>2, TypeCorrect, PTL DEF Spec

-----------------------------------------------------------------------------
(* The mailbox. *)

\* The steps at which a message is taken in.
Taking == {"comment", "number", "numbered", "insert"}

\* The worker at step l with job j still has the message to deal with.
Held(j, l, m) ==
    \/ \E i \in 1..Len(j.left) : j.left[i][1] = m
    \/ l \in Taking /\ j.key = m

Carrying(j) == {m \in Mails : j.key = m \/ m \in {j.left[i][1] : i \in 1..Len(j.left)}}

\* Only a mailbox handles messages, and they have no cursors.
BoxInv ==
    /\ env.door # "mail" => \A m \in Mails : mail[m].auto /\ handled[m] = 0
    /\ env.door = "mail" => \A w \in Workers :
          job[w].cursor = 0 /\ \A i \in 1..Len(job[w].left) : job[w].left[i][2] = 0

\* What a step at the mailbox does to the messages and to its worker's job.
MailMoves(j, l, j2, l2) ==
    \/ /\ l = "idle" /\ l2 = "download" /\ j2.left = j.left /\ j2.cursor = j.cursor
       /\ j2.unseen = {m \in Mails : ~mail[m].seen}
       /\ UNCHANGED <<mail, handled, failed, lost>>
    \/ /\ l = "download" /\ l2 = "next" /\ j2 = j
       /\ UNCHANGED <<mail, handled, failed, lost>>
    \/ /\ l = "download" /\ l2 = "download" /\ UNCHANGED <<handled, failed>>
       /\ \E m \in j.unseen :
             /\ m \in Mails /\ mail' = [mail EXCEPT ![m].seen = TRUE]
             /\ j2.unseen = j.unseen \ {m} /\ j2.cursor = j.cursor
             /\ \/ j2.left = Append(j.left, <<m, 0>>) /\ UNCHANGED lost
                \/ j2.left = j.left /\ lost' = lost \cup {m}
    \/ /\ l = "next" /\ j.left # <<>> /\ UNCHANGED <<mail, handled, failed, lost>>
       /\ j2.left = Tail(j.left) /\ j2.key = Head(j.left)[1] /\ j2.unseen = j.unseen
       /\ j2.cursor = j.cursor
       /\ IF Fate(j2.key) = "drop" THEN l2 = l ELSE l2 \in Taking
    \/ /\ l \in {"comment", "insert"} /\ l2 = "next" /\ j2 = j /\ j.key \in Mails
       /\ handled' = [handled EXCEPT ![j.key] = @ + 1] /\ UNCHANGED <<mail, failed, lost>>
    \/ /\ l = "insert" /\ l2 = "next" /\ j2 = j /\ failed' = failed \cup {<<j.key, j.cursor>>}
       /\ UNCHANGED <<mail, handled, lost>>
    \/ /\ l \in Taking /\ l2 \in Taking /\ UNCHANGED <<mail, handled, failed, lost>>
       /\ j2.left = j.left /\ j2.key = j.key /\ j2.unseen = j.unseen /\ j2.cursor = j.cursor
    \/ /\ l2 = "idle" /\ j2 = NewJob /\ UNCHANGED <<mail, handled, failed>>
       /\ \/ l = "next" /\ j.left = <<>> /\ UNCHANGED lost
          \/ lost' = lost \cup Carrying(j)

LEMMA MailStep ==
  ASSUME TypeInv, env.door = "mail", NEW w \in Workers, Step(w) \/ Crash(w)
  PROVE  MailMoves(job[w], pc[w], job'[w], pc'[w])
<1> USE DEF Goto, Done, outside
<1>1. PICK j, j2 : j = job[w] /\ j2 = job'[w]
  OBVIOUS
<1>2. PICK l, l2 : l = pc[w] /\ l2 = pc'[w]
  OBVIOUS
<1>3. /\ pc = [v \in Workers |-> pc[v]] /\ job = [v \in Workers |-> job[v]]
      /\ j = [c \in Columns |-> j[c]] /\ j.unseen \subseteq Mails /\ ~env.upsert
      /\ l \in Taking => j.key \in Mails
      /\ l \notin {"fetch", "load", "hit", "find", "update"}
  <2>1. JobOK(env, j, l, Len(rows)) /\ AtDoor(env, l) /\ ~env.upsert
    BY <1>1, <1>2, EnvironmentIs DEF TypeInv
  <2>2. QED
    BY <2>1 DEF TypeInv, JobOK, AtDoor, Taking, Incoming
<1>4. \/ SearchMail(w) \/ Download(w) \/ NextMail(w) \/ AddComment(w) \/ MailboxDone(w)
      \/ TakeNumber(w) \/ CommitNumber(w) \/ InsertRow(w) \/ Crash(w)
  BY <1>2, <1>3 DEF Step, Poll, FetchPage, FetchAll, LoadSource, NextRecord, FinishPull,
     Deliver, Hit, RunRecurring, FindRow, UpdateRow
<1>5. CASE SearchMail(w)
  <2>1. j2 = [j EXCEPT !.unseen = {m \in Mails : ~mail[m].seen}]
    BY <1>1, <1>3, <1>5 DEF SearchMail
  <2>2. l = "idle" /\ l2 = "download" /\ UNCHANGED <<mail, handled, failed, lost>>
    BY <1>2, <1>3, <1>5 DEF SearchMail, Free, Idle
  <2>3. QED
    BY <1>1, <1>2, <1>3, <2>1, <2>2 DEF MailMoves, Columns
<1>6. CASE Download(w)
  <2>1. l = "download" /\ UNCHANGED <<handled, failed>>
    BY <1>2, <1>6 DEF Download
  <2>2. CASE l2 = "next" /\ UNCHANGED <<mail, job, lost>>
    BY <1>1, <1>2, <2>1, <2>2 DEF MailMoves
  <2>3. ASSUME NEW m \in j.unseen, NEW left, mail' = [mail EXCEPT ![m].seen = TRUE],
               j2 = [j EXCEPT !.unseen = @ \ {m}, !.left = left], UNCHANGED pc,
               \/ left = Append(j.left, <<m, 0>>) /\ UNCHANGED lost
               \/ left = j.left /\ lost' = lost \cup {m}
        PROVE  MailMoves(j, l, j2, l2)
    <3>1. j2.left = left /\ j2.unseen = j.unseen \ {m} /\ j2.cursor = j.cursor
      BY <1>3, <2>3 DEF Columns
    <3>2. l2 = "download" /\ m \in Mails
      BY <1>2, <1>3, <2>1, <2>3
    <3>3. QED
      BY <2>1, <2>3, <3>1, <3>2 DEF MailMoves
  <2>4. CASE \E m \in j.unseen :
               /\ mail' = [mail EXCEPT ![m].seen = TRUE]
               /\ job' = [job EXCEPT ![w].unseen = @ \ {m}, ![w].left = Append(@, <<m, 0>>)]
               /\ UNCHANGED <<lost, pc>>
    <3>1. PICK m \in j.unseen :
               /\ mail' = [mail EXCEPT ![m].seen = TRUE]
               /\ job' = [job EXCEPT ![w].unseen = @ \ {m}, ![w].left = Append(@, <<m, 0>>)]
               /\ UNCHANGED <<lost, pc>>
      BY <2>4
    <3>2. PICK left : left = Append(j.left, <<m, 0>>)
      OBVIOUS
    <3>3. j2 = [j EXCEPT !.unseen = @ \ {m}, !.left = left]
      BY <1>1, <1>3, <3>1, <3>2
    <3>4. QED
      BY <1>1, <1>2, <2>3, <3>1, <3>2, <3>3
  <2>5. CASE \E m \in j.unseen :
               /\ mail' = [mail EXCEPT ![m].seen = TRUE]
               /\ job' = [job EXCEPT ![w].unseen = @ \ {m}]
               /\ lost' = lost \cup {m} /\ UNCHANGED pc
    <3>1. PICK m \in j.unseen :
               /\ mail' = [mail EXCEPT ![m].seen = TRUE]
               /\ job' = [job EXCEPT ![w].unseen = @ \ {m}]
               /\ lost' = lost \cup {m} /\ UNCHANGED pc
      BY <2>5
    <3>2. j2 = [j EXCEPT !.unseen = @ \ {m}]
      BY <1>1, <1>3, <3>1
    <3>3. j2 = [j EXCEPT !.unseen = @ \ {m}, !.left = j.left]
      BY <1>3, <3>2 DEF Columns
    <3>4. QED
      BY <1>1, <1>2, <2>3, <3>1, <3>3
  <2>6. CASE /\ lost' = lost \cup Carried(w) /\ job' = [job EXCEPT ![w] = NewJob]
             /\ pc' = [pc EXCEPT ![w] = "idle"] /\ UNCHANGED mail
    <3>1. Carried(w) = Carrying(j)
      BY <1>1 DEF Carried, Carrying, Collected
    <3>2. QED
      BY <1>1, <1>2, <1>3, <2>1, <2>6, <3>1 DEF MailMoves
  <2>7. QED
    BY <1>1, <1>2, <1>3, <1>6, <2>2, <2>4, <2>5, <2>6 DEF Download
<1>7. CASE NextMail(w)
  <2>1. PICK m : m = Head(j.left)[1]
    OBVIOUS
  <2>2. PICK rest : rest = Tail(j.left)
    OBVIOUS
  <2>3. j2 = [j EXCEPT !.left = rest, !.key = m]
    BY <1>1, <1>3, <1>7, <2>1, <2>2 DEF NextMail
  <2>4. j2.left = rest /\ j2.key = m /\ j2.unseen = j.unseen /\ j2.cursor = j.cursor
    BY <1>3, <2>3 DEF Columns
  <2>5. /\ l = "next" /\ j.left # <<>> /\ UNCHANGED <<mail, handled, failed, lost>>
        /\ IF Fate(m) = "drop" THEN pc' = pc ELSE pc' = [pc EXCEPT ![w] = Fate(m)]
    BY <1>1, <1>2, <1>7, <2>1 DEF NextMail
  <2>6. Fate(m) \in {"drop", "comment", "number"}
    BY DEF Fate
  <2>7. IF Fate(m) = "drop" THEN l2 = l ELSE l2 \in Taking
    BY <1>2, <1>3, <2>5, <2>6 DEF Taking
  <2>8. QED
    BY <1>1, <1>2, <2>1, <2>2, <2>4, <2>5, <2>7 DEF MailMoves
<1>8. CASE AddComment(w)
  BY <1>1, <1>2, <1>3, <1>8 DEF AddComment, MailMoves, Taking
<1>9. CASE MailboxDone(w) \/ Crash(w)
  <2>1. Carried(w) = Carrying(j)
    BY <1>1 DEF Carried, Carrying, Collected
  <2>2. QED
    BY <1>1, <1>2, <1>3, <1>9, <2>1 DEF MailboxDone, Crash, MailMoves
<1>10. CASE TakeNumber(w)
  <2>1. j2 = [j EXCEPT !.number = next]
    BY <1>1, <1>3, <1>10 DEF TakeNumber
  <2>2. j2.left = j.left /\ j2.key = j.key /\ j2.unseen = j.unseen /\ j2.cursor = j.cursor
    BY <1>3, <2>1 DEF Columns
  <2>3. /\ l \in Taking /\ l2 \in Taking /\ UNCHANGED <<mail, handled, failed, lost>>
    BY <1>2, <1>3, <1>10 DEF TakeNumber, Taking
  <2>4. QED
    BY <1>1, <1>2, <2>2, <2>3 DEF MailMoves
<1>11. CASE CommitNumber(w)
  BY <1>1, <1>2, <1>3, <1>11 DEF CommitNumber, MailMoves, Taking
<1>12. CASE InsertRow(w)
  <2>1. l = "insert" /\ UNCHANGED <<mail, lost>>
    BY <1>2, <1>12 DEF InsertRow
  <2>2. CASE TakenIn(w) /\ UNCHANGED failed
    BY <1>1, <1>2, <1>3, <2>1, <2>2 DEF TakenIn, MailMoves, Taking
  <2>3. CASE Failed(w) /\ UNCHANGED handled
    BY <1>1, <1>2, <1>3, <2>1, <2>3 DEF Failed, MailMoves
  <2>4. QED
    BY <1>12, <2>2, <2>3 DEF InsertRow
<1>13. QED
  BY <1>4, <1>5, <1>6, <1>7, <1>8, <1>9, <1>10, <1>11, <1>12

\* Beside the mailbox, no message is touched.
LEMMA NoMail ==
  ASSUME TypeInv, env.door # "mail", NEW w \in Workers, Step(w) \/ Crash(w)
  PROVE  UNCHANGED <<mail, handled>>
<1> USE DEF outside
<1>1. AtDoor(env, pc[w]) /\ env.door \in Doors
  BY EnvironmentIs DEF TypeInv
<1>2. CASE InsertRow(w) \/ UpdateRow(w)
  BY <1>1, <1>2 DEF InsertRow, UpdateRow, TakenIn, Doors
<1>3. CASE ~ (InsertRow(w) \/ UpdateRow(w))
  BY <1>1, <1>3 DEF AtDoor, Step, Poll, FetchPage, FetchAll, LoadSource, NextRecord, FinishPull,
     Deliver, Hit, SearchMail, Download, NextMail, AddComment, MailboxDone, RunRecurring,
     FindRow, TakeNumber, CommitNumber, Crash
<1>4. QED
  BY <1>2, <1>3

LEMMA BoxNext ==
  ASSUME TypeInv, BoxInv, [Next]_vars
  PROVE  BoxInv'
<1>1. ASSUME NEW w \in Workers, Step(w) \/ Crash(w) PROVE BoxInv'
  <2>1. env' = env /\ \A v \in Workers \ {w} : job'[v] = job[v]
    BY <1>1, Moves
  <2>2. CASE env.door # "mail"
    BY <1>1, <2>1, <2>2, NoMail DEF BoxInv
  <2>3. CASE env.door = "mail"
    <3>1. PICK j, j2 : j = job[w] /\ j2 = job'[w]
      OBVIOUS
    <3>2. MailMoves(j, pc[w], j2, pc'[w])
      BY <1>1, <2>3, <3>1, MailStep
    <3>3. /\ j.left \in Seq(Mails \X Cursors) /\ j.cursor = 0
          /\ \A i \in 1..Len(j.left) : j.left[i][2] = 0
      BY <2>3, <3>1 DEF BoxInv, TypeInv, JobOK, Incoming
    <3>4. j2.cursor = 0 /\ \A i \in 1..Len(j2.left) : j2.left[i][2] = 0
      <4>1. CASE \E m \in j.unseen : j2.left = Append(j.left, <<m, 0>>) /\ j2.cursor = j.cursor
        <5>1. PICK m : j2.left = Append(j.left, <<m, 0>>) /\ j2.cursor = j.cursor
          BY <4>1
        <5>2. ASSUME NEW i \in 1..Len(j2.left) PROVE j2.left[i][2] = 0
          <6>1. CASE i \in 1..Len(j.left)
            BY <3>3, <5>1, <6>1
          <6>2. CASE i = Len(j.left) + 1
            <7>1. j2.left[i] = <<m, 0>>
              BY <3>3, <5>1, <6>2
            <7>2. QED
              BY <7>1
          <6>3. QED
            BY <3>3, <5>1, <6>1, <6>2
        <5>3. QED
          BY <3>3, <5>1, <5>2
      <4>2. CASE j.left # <<>> /\ j2.left = Tail(j.left) /\ j2.cursor = j.cursor
        BY <3>3, <4>2
      <4>3. CASE j2.left = j.left /\ j2.cursor = j.cursor
        BY <3>3, <4>3
      <4>4. CASE j2 = NewJob
        BY <4>4 DEF NewJob
      <4>5. QED
        BY <3>2, <4>1, <4>2, <4>3, <4>4 DEF MailMoves
    <3>5. QED
      BY <2>1, <2>3, <3>1, <3>4 DEF BoxInv
  <2>4. QED
    BY <2>2, <2>3
<1>2. CASE RemoteWrite \/ RemoteDelete \/ UNCHANGED vars
  BY <1>2 DEF RemoteWrite, RemoteDelete, vars, BoxInv
<1>3. CASE Tick
  BY <1>3 DEF Tick, outside, BoxInv
<1>4. QED
  BY <1>1, <1>2, <1>3 DEF Next

\* No message of a job alone is handled, none is in it twice, and it has flagged
\* none of those it has still to fetch.
Once(j, l) ==
    /\ \A i, k \in 1..Len(j.left) : j.left[i][1] = j.left[k][1] => i = k
    /\ \A m \in j.unseen : ~mail[m].seen
    /\ \A m \in Mails : Held(j, l, m) => mail[m].seen /\ handled[m] = 0
    /\ l \in Taking => \A i \in 1..Len(j.left) : j.left[i][1] # j.key

OnceInv ==
    env.door = "mail" /\ ~May("overlap") =>
        /\ \A m \in Mails : handled[m] <= 1 /\ (~mail[m].seen => handled[m] = 0)
        /\ \A w \in Workers : pc[w] # "idle" => Once(job[w], pc[w])

LEMMA OnceNext ==
  ASSUME TypeInv, Fresh, Alone, OnceInv, [Next]_vars
  PROVE  OnceInv'
<1>1. ASSUME NEW w \in Workers, Step(w) \/ Crash(w) PROVE OnceInv'
  <2>1. env' = env
    BY <1>1, Moves
  <2>2. SUFFICES ASSUME env.door = "mail", ~May("overlap") PROVE OnceInv'
    BY <2>1 DEF OnceInv, May
  <2>3. \A v \in Workers \ {w} : pc'[v] = "idle"
    BY <1>1, <2>2, OthersRest
  <2>4. PICK j, j2 : j = job[w] /\ j2 = job'[w]
    OBVIOUS
  <2>5. PICK l, l2 : l = pc[w] /\ l2 = pc'[w]
    OBVIOUS
  <2>6. MailMoves(j, l, j2, l2)
    BY <1>1, <2>2, <2>4, <2>5, MailStep
  <2>7. /\ j.left \in Seq(Mails \X Cursors) /\ j.unseen \subseteq Mails
        /\ mail \in [Mails -> Messages] /\ handled \in [Mails -> Nat]
    BY <2>2, <2>4 DEF TypeInv, JobOK, Incoming
  <2>8. /\ \A m \in Mails : handled[m] <= 1 /\ (~mail[m].seen => handled[m] = 0)
        /\ l # "idle" => Once(j, l)
    BY <2>2, <2>4, <2>5 DEF OnceInv
  <2>9. SUFFICES /\ \A m \in Mails : handled'[m] <= 1 /\ (~mail'[m].seen => handled'[m] = 0)
                 /\ l2 # "idle" => Once(j2, l2)'
    <3>1. Once(j2, l2)' => Once(job[w], pc[w])'
      BY <2>4, <2>5 DEF Once, Held
    <3>2. QED
      BY <2>3, <2>5, <3>1 DEF OnceInv
  <2>10. CASE /\ l = "idle" /\ l2 = "download" /\ j2.left = j.left
              /\ j2.unseen = {m \in Mails : ~mail[m].seen}
              /\ UNCHANGED <<mail, handled>>
    <3>1. j = NewJob
      BY <2>4, <2>5, <2>10 DEF Fresh
    <3>2. j.left = <<>>
      BY <3>1 DEF NewJob
    <3>3. QED
      BY <2>8, <2>10, <3>2 DEF Once, Held, Taking
  <2>11. CASE l = "download" /\ l2 = "next" /\ j2 = j /\ UNCHANGED <<mail, handled>>
    BY <2>8, <2>11 DEF Once, Held, Taking
  <2>12. CASE /\ l = "download" /\ l2 = "download" /\ UNCHANGED handled
              /\ \E m \in j.unseen :
                    /\ m \in Mails /\ mail' = [mail EXCEPT ![m].seen = TRUE]
                    /\ j2.left = Append(j.left, <<m, 0>>) /\ j2.unseen = j.unseen \ {m}
    <3>1. PICK m \in j.unseen :
             /\ m \in Mails /\ mail' = [mail EXCEPT ![m].seen = TRUE]
             /\ j2.left = Append(j.left, <<m, 0>>) /\ j2.unseen = j.unseen \ {m}
      BY <2>12
    <3>2. ~mail[m].seen /\ handled[m] = 0
      BY <2>8, <2>12, <3>1 DEF Once
    <3>3. mail'[m].seen /\ \A x \in Mails : x # m => mail'[x] = mail[x]
      <4>1. mail'[m] = [mail[m] EXCEPT !.seen = TRUE] /\ mail[m] \in Messages
        BY <2>7, <3>1
      <4>2. mail'[m].seen
        BY <4>1, Zenon DEF Messages
      <4>3. QED
        BY <2>7, <3>1, <4>2
    <3>4. \A i \in 1..Len(j.left) : j.left[i][1] # m /\ j2.left[i] = j.left[i]
      BY <2>7, <2>8, <2>12, <3>1, <3>2 DEF Once, Held
    <3>5. Len(j2.left) = Len(j.left) + 1 /\ Len(j.left) \in Nat /\ j2.left[Len(j.left) + 1][1] = m
      BY <2>7, <3>1
    <3>6. \A i \in 1..Len(j2.left) : i \in 1..Len(j.left) \/ i = Len(j.left) + 1
      BY <3>5
    <3>7. \A i, k \in 1..Len(j2.left) : j2.left[i][1] = j2.left[k][1] => i = k
      BY <2>8, <2>12, <3>4, <3>5, <3>6 DEF Once
    <3>8. \A x \in Mails : Held(j2, l2, x) => x = m \/ Held(j, l, x)
      BY <2>12, <3>4, <3>5, <3>6 DEF Held, Taking
    <3>9. QED
      BY <2>7, <2>8, <2>12, <3>1, <3>2, <3>3, <3>7, <3>8 DEF Once, Taking
  <2>19. CASE /\ l = "download" /\ l2 = "download" /\ UNCHANGED handled
              /\ \E m \in j.unseen :
                    /\ m \in Mails /\ mail' = [mail EXCEPT ![m].seen = TRUE]
                    /\ j2.left = j.left /\ j2.unseen = j.unseen \ {m}
    <3>1. PICK m \in j.unseen :
             /\ m \in Mails /\ mail' = [mail EXCEPT ![m].seen = TRUE]
             /\ j2.left = j.left /\ j2.unseen = j.unseen \ {m}
      BY <2>19
    <3>2. /\ mail'[m].seen \/ mail'[m] = mail[m]
          /\ \A x \in Mails : x # m => mail'[x] = mail[x]
      BY <2>7, <3>1
    <3>3. mail'[m].seen
      <4>1. mail'[m] = [mail[m] EXCEPT !.seen = TRUE] /\ mail[m] \in Messages
        BY <2>7, <3>1
      <4>2. QED
        BY <4>1, Zenon DEF Messages
    <3>4. \A x \in Mails : Held(j2, l2, x) => Held(j, l, x)
      BY <2>19, <3>1 DEF Held, Taking
    <3>5. QED
      BY <2>7, <2>8, <2>19, <3>1, <3>2, <3>3, <3>4 DEF Once, Taking
  <2>13. CASE /\ l = "next" /\ j.left # <<>> /\ UNCHANGED <<mail, handled>>
              /\ j2.left = Tail(j.left) /\ j2.key = Head(j.left)[1] /\ j2.unseen = j.unseen
    <3>1. /\ Len(j.left) \in Nat /\ Len(j.left) > 0 /\ Len(j2.left) = Len(j.left) - 1
          /\ \A i \in 1..Len(j2.left) : j2.left[i] = j.left[i + 1] /\ i + 1 \in 1..Len(j.left)
          /\ j2.key = j.left[1][1]
      BY <2>7, <2>13
    <3>2. \A x : Held(j2, l2, x) => Held(j, l, x)
      BY <3>1 DEF Held
    <3>3. \A i, k \in 1..Len(j2.left) : j2.left[i][1] = j2.left[k][1] => i = k
      <4>1. ASSUME NEW i \in 1..Len(j2.left), NEW k \in 1..Len(j2.left),
                   j2.left[i][1] = j2.left[k][1]
            PROVE  i = k
        <5>1. i + 1 = k + 1
          BY <2>8, <2>13, <3>1, <4>1 DEF Once
        <5>2. QED
          BY <5>1
      <4>2. QED
        BY <4>1
    <3>4. \A i \in 1..Len(j2.left) : j2.left[i][1] # j2.key
      <4>1. ASSUME NEW i \in 1..Len(j2.left), j2.left[i][1] = j2.key PROVE FALSE
        <5>1. i + 1 = 1
          BY <2>8, <2>13, <3>1, <4>1 DEF Once
        <5>2. QED
          BY <5>1
      <4>2. QED
        BY <4>1
    <3>5. QED
      BY <2>8, <2>13, <3>2, <3>3, <3>4 DEF Once
  <2>14. CASE /\ l \in {"comment", "insert"} /\ l2 = "next" /\ j2 = j /\ j.key \in Mails
              /\ handled' = [handled EXCEPT ![j.key] = @ + 1] /\ UNCHANGED mail
    <3>1. Held(j, l, j.key) /\ Once(j, l)
      BY <2>8, <2>14 DEF Held, Taking
    <3>2. mail[j.key].seen /\ handled[j.key] = 0
      BY <2>14, <3>1 DEF Once
    <3>3. handled'[j.key] = 1 /\ \A x \in Mails : x # j.key => handled'[x] = handled[x]
      BY <2>7, <2>14, <3>2
    <3>4. \A x : Held(j2, l2, x) => Held(j, l, x) /\ x # j.key
      BY <2>14, <3>1 DEF Held, Once, Taking
    <3>5. QED
      BY <2>8, <2>14, <3>1, <3>2, <3>3, <3>4 DEF Once, Taking
  <2>15. CASE /\ l = "insert" /\ l2 = "next" /\ j2 = j /\ UNCHANGED <<mail, handled>>
    BY <2>8, <2>15 DEF Once, Held, Taking
  <2>16. CASE /\ l \in Taking /\ l2 \in Taking /\ UNCHANGED <<mail, handled>>
              /\ j2.left = j.left /\ j2.key = j.key /\ j2.unseen = j.unseen
    BY <2>8, <2>16 DEF Once, Held, Taking
  <2>17. CASE l2 = "idle" /\ UNCHANGED <<mail, handled>>
    BY <2>8, <2>17
  <2>18. QED
    BY <2>6, <2>10, <2>11, <2>12, <2>13, <2>14, <2>15, <2>16, <2>17, <2>19
       DEF MailMoves
<1>2. CASE RemoteWrite \/ RemoteDelete \/ UNCHANGED vars
  BY <1>2 DEF RemoteWrite, RemoteDelete, vars, OnceInv, Once, Held, May
<1>3. CASE Tick
  BY <1>3 DEF Tick, outside, OnceInv
<1>4. QED
  BY <1>1, <1>2, <1>3 DEF Next

\* A flagged message is dealt with, lost, or in somebody's job.
KeptInv ==
    env.door = "mail" =>
        \A m \in Mails : mail[m].seen =>
            Dealt(m) \/ m \in lost \/ \E w \in Workers : Held(job[w], pc[w], m)

LEMMA KeptNext ==
  ASSUME TypeInv, BoxInv, KeptInv, [Next]_vars
  PROVE  KeptInv'
<1>1. ASSUME NEW w \in Workers, Step(w) \/ Crash(w) PROVE KeptInv'
  <2>1. env' = env /\ \A v \in Workers \ {w} : pc'[v] = pc[v] /\ job'[v] = job[v]
    BY <1>1, Moves
  <2>2. SUFFICES ASSUME env.door = "mail", NEW m \in Mails, mail'[m].seen
                 PROVE  \/ handled'[m] > 0 \/ <<m, 0>> \in failed' \/ Fate(m)' = "drop"
                        \/ m \in lost' \/ \E v \in Workers : Held(job'[v], pc'[v], m)
    BY <2>1 DEF KeptInv, Dealt, Held
  <2>3. PICK j, j2 : j = job[w] /\ j2 = job'[w]
    OBVIOUS
  <2>4. PICK l, l2 : l = pc[w] /\ l2 = pc'[w]
    OBVIOUS
  <2>5. MailMoves(j, l, j2, l2)
    BY <1>1, <2>2, <2>3, <2>4, MailStep
  <2>6. /\ j.left \in Seq(Mails \X Cursors) /\ j.cursor = 0
        /\ mail \in [Mails -> Messages] /\ handled \in [Mails -> Nat]
    BY <2>2, <2>3 DEF TypeInv, JobOK, Incoming, BoxInv
  <2>7. Fate(m)' = Fate(m)
    <3>1. CASE mail' = mail
      BY <3>1 DEF Fate
    <3>2. CASE \E x \in Mails : mail' = [mail EXCEPT ![x].seen = TRUE]
      <4>1. PICK x \in Mails : mail' = [mail EXCEPT ![x].seen = TRUE]
        BY <3>2
      <4>2. mail[m] \in Messages
        BY <2>6
      <4>3. mail'[m] = mail[m] \/ mail'[m] = [mail[m] EXCEPT !.seen = TRUE]
        BY <2>6, <4>1
      <4>4. /\ mail'[m].auto = mail[m].auto /\ mail'[m].subject = mail[m].subject
            /\ mail'[m].known = mail[m].known
        BY <4>2, <4>3, Zenon DEF Messages
      <4>5. QED
        BY <4>4 DEF Fate
    <3>3. QED
      BY <2>5, <3>1, <3>2 DEF MailMoves
  <2>8. failed \subseteq failed' /\ lost \subseteq lost' /\ (handled[m] > 0 => handled'[m] > 0)
    <3>1. CASE handled' = handled /\ failed \subseteq failed' /\ lost \subseteq lost'
      BY <3>1
    <3>2. CASE handled' = [handled EXCEPT ![j.key] = @ + 1] /\ UNCHANGED <<failed, lost>>
      BY <2>6, <3>2
    <3>3. QED
      BY <2>5, <3>1, <3>2 DEF MailMoves
  <2>9. CASE Held(j2, l2, m)
    BY <2>3, <2>4, <2>9
  <2>10. ASSUME Held(j, l, m), ~Held(j2, l2, m)
         PROVE  handled'[m] > 0 \/ <<m, 0>> \in failed' \/ Fate(m) = "drop" \/ m \in lost'
    <3>1. CASE j2.left = j.left /\ l \notin Taking
      BY <2>10, <3>1 DEF Held
    <3>2. CASE \E x : j2.left = Append(j.left, x) /\ l \notin Taking
      <4>1. PICK x : j2.left = Append(j.left, x)
        BY <3>2
      <4>2. \A i \in 1..Len(j.left) : i \in 1..Len(j2.left) /\ j2.left[i] = j.left[i]
        BY <2>6, <4>1
      <4>3. QED
        BY <2>10, <3>2, <4>2 DEF Held
    <3>3. CASE /\ l = "next" /\ j.left # <<>>
               /\ j2.left = Tail(j.left) /\ j2.key = Head(j.left)[1]
               /\ IF Fate(j2.key) = "drop" THEN l2 = l ELSE l2 \in Taking
      <4>1. PICK i \in 1..Len(j.left) : j.left[i][1] = m
        BY <2>10, <3>3 DEF Held, Taking
      <4>2. CASE i = 1
        <5>1. j2.key = m
          BY <2>6, <3>3, <4>1, <4>2
        <5>2. QED
          BY <2>10, <3>3, <5>1 DEF Held
      <4>3. CASE i # 1
        <5>1. i - 1 \in 1..Len(j2.left) /\ j2.left[i - 1] = j.left[i]
          BY <2>6, <3>3, <4>1, <4>3
        <5>2. QED
          BY <2>10, <4>1, <5>1 DEF Held
      <4>4. QED
        BY <4>2, <4>3
    <3>4. CASE /\ l2 = "next" /\ j2 = j /\ j.key \in Mails
               /\ handled' = [handled EXCEPT ![j.key] = @ + 1]
      <4>1. j.key = m
        BY <2>10, <3>4 DEF Held
      <4>2. handled'[m] = handled[m] + 1 /\ handled[m] \in Nat
        BY <2>6, <3>4, <4>1
      <4>3. QED
        BY <4>2
    <3>5. CASE /\ l2 = "next" /\ j2 = j /\ failed' = failed \cup {<<j.key, j.cursor>>}
      BY <2>6, <2>10, <3>5 DEF Held
    <3>6. CASE /\ l \in Taking /\ l2 \in Taking
               /\ j2.left = j.left /\ j2.key = j.key
      BY <2>10, <3>6 DEF Held
    <3>7. CASE l = "next" /\ j.left = <<>>
      BY <2>10, <3>7 DEF Held, Taking
    <3>8. CASE lost' = lost \cup Carrying(j)
      BY <2>10, <3>8 DEF Held, Carrying
    <3>9. QED
      BY <2>2, <2>5, <3>1, <3>2, <3>3, <3>4, <3>5, <3>6, <3>7, <3>8 DEF MailMoves, Taking
  <2>11. CASE mail[m].seen
    <3>1. CASE \E v \in Workers \ {w} : Held(job[v], pc[v], m)
      BY <2>1, <3>1
    <3>2. CASE Held(j, l, m)
      BY <2>7, <2>9, <2>10, <3>2
    <3>3. QED
      BY <2>2, <2>3, <2>4, <2>7, <2>8, <2>11, <3>1, <3>2 DEF KeptInv, Dealt
  <2>12. CASE ~mail[m].seen
    <3>1. PICK x \in j.unseen : /\ mail' = [mail EXCEPT ![x].seen = TRUE]
                                /\ j2.left = Append(j.left, <<x, 0>>) \/ x \in lost'
                                /\ x \in Mails
      BY <2>2, <2>5, <2>12 DEF MailMoves
    <3>2. x = m
      BY <2>2, <2>6, <2>12, <3>1
    <3> SUFFICES ASSUME j2.left = Append(j.left, <<x, 0>>) PROVE Held(j2, l2, m)
      BY <2>9, <3>1, <3>2
    <3>3. Len(j.left) + 1 \in 1..Len(j2.left) /\ j2.left[Len(j.left) + 1][1] = m
      BY <2>6, <3>1, <3>2
    <3>4. QED
      BY <3>3 DEF Held
  <2>13. QED
    BY <2>11, <2>12
<1>2. CASE RemoteWrite \/ RemoteDelete \/ UNCHANGED vars
  BY <1>2 DEF RemoteWrite, RemoteDelete, vars, KeptInv, Held, Dealt, Fate
<1>3. CASE Tick
  BY <1>3 DEF Tick, outside, KeptInv, Dealt, Fate
<1>4. QED
  BY <1>1, <1>2, <1>3 DEF Next

\* Every message that was flagged is handled or accounted for, and, while one
\* worker at a time reads the box, none is handled twice.
THEOREM MailHandledHolds == Spec => []MailHandled
<1>1. Init => BoxInv /\ OnceInv /\ KeptInv
  <2> SUFFICES ASSUME Init PROVE BoxInv /\ OnceInv /\ KeptInv
    OBVIOUS
  <2>1. \A w \in Workers : job[w].cursor = 0 /\ job[w].left = <<>>
    BY DEF Init, NewJob
  <2>2. env.door # "mail" => \A m \in Mails : mail[m].auto
    <3>1. ASSUME env.door # "mail", NEW m \in Mails
          PROVE  mail[m] = [subject |-> "none", known |-> FALSE, auto |-> TRUE, seen |-> TRUE]
      BY <3>1 DEF Init
    <3>2. ASSUME env.door # "mail", NEW m \in Mails PROVE mail[m].auto
      <4>1. [subject |-> "none", known |-> FALSE, auto |-> TRUE, seen |-> TRUE].auto
        BY Zenon
      <4>2. QED
        BY <3>1, <3>2, <4>1, Zenon
    <3>3. QED
      BY <3>2
  <2>3. env.door = "mail" => \A m \in Mails : ~mail[m].seen
    BY DEF Init
  <2>4. \A m \in Mails : handled[m] = 0
    BY DEF Init
  <2>5. \A w \in Workers : pc[w] = "idle"
    BY DEF Init
  <2>6. QED
    BY <2>1, <2>2, <2>3, <2>4, <2>5 DEF BoxInv, OnceInv, KeptInv
<1>2. TypeInv /\ BoxInv /\ [Next]_vars => BoxInv'
  BY BoxNext
<1>3. TypeInv /\ Fresh /\ Alone /\ OnceInv /\ [Next]_vars => OnceInv'
  BY OnceNext
<1>4. TypeInv /\ BoxInv /\ KeptInv /\ [Next]_vars => KeptInv'
  BY KeptNext
<1>5. BoxInv /\ OnceInv /\ KeptInv => MailHandled
  <2> SUFFICES ASSUME BoxInv, OnceInv, KeptInv PROVE MailHandled
    OBVIOUS
  <2>1. HandledOnce
    BY DEF HandledOnce, BoxInv, OnceInv
  <2>2. MailKept
    <3>1. CASE env.door = "mail"
      BY <3>1 DEF MailKept, KeptInv, Held, Waiting, Carried, Collected
    <3>2. CASE env.door # "mail"
      BY <3>2 DEF MailKept, BoxInv, Dealt, Fate
    <3>3. QED
      BY <3>1, <3>2
  <2>3. QED
    BY <2>1, <2>2 DEF MailHandled
<1>6. QED
  BY <1>1, <1>2, <1>3, <1>4, <1>5, TypeCorrect, FreshInvariant, AloneInvariant, PTL DEF Spec

-----------------------------------------------------------------------------
(* The peer's table and its pages. *)

\* One row of the peer's table is its newest, among those of any kind.
LEMMA SomeNewest ==
  ASSUME remote \in [Keys -> Cursors], NEW K \in SUBSET Keys, K # {}
  PROVE  \E k \in K : \A l \in K : remote[l] <= remote[k]
<1> DEFINE S == {remote[k] : k \in K}
<1>1. S \subseteq Cursors /\ S # {}
  OBVIOUS
<1>2. \E x \in S : \A y \in S : y <= x
  <2> HIDE DEF S
  <2> QED
    BY <1>1, HasGreatest
<1>3. QED
  BY <1>2

\* Only pulls have a peer.
PeerInv == env.door # "pull" => \A k \in Keys : remote[k] = 0

LEMMA PeerNext ==
  ASSUME TypeInv, PeerInv, [Next]_vars
  PROVE  PeerInv'
<1>1. ASSUME NEW w \in Workers, Step(w) \/ Crash(w) PROVE PeerInv'
  BY <1>1, Moves, RestMoves DEF PeerInv
<1>2. CASE RemoteWrite
  BY <1>2 DEF RemoteWrite, PeerInv
<1>3. CASE RemoteDelete
  BY <1>3 DEF RemoteDelete, PeerInv, TypeInv, Present
<1>4. CASE Tick \/ UNCHANGED vars
  BY <1>4 DEF Tick, outside, vars, PeerInv
<1>5. QED
  BY <1>1, <1>2, <1>3, <1>4 DEF Next

\* The rows of the peer's table changed after c.
Over(c) == {k \in Present : remote[k] > c}

LEMMA SomePresent ==
  ASSUME TypeInv, NEW S \in SUBSET Present
  PROVE  /\ IsFiniteSet(S) /\ Cardinality(S) \in Nat
         /\ \A T \in SUBSET S : Cardinality(T) \in Nat /\ Cardinality(T) <= Cardinality(S)
<1>1. IsFiniteSet(S)
  BY IntakeAssumption, FS_Subset DEF Present
<1>2. ASSUME NEW T \in SUBSET S
      PROVE  Cardinality(T) \in Nat /\ Cardinality(T) <= Cardinality(S)
  BY <1>1, FS_Subset, FS_CardinalityType
<1>3. QED
  BY <1>1, <1>2, FS_CardinalityType

LEMMA PresentAt ==
  ASSUME TypeInv
  PROVE  /\ \A k \in Keys : remote[k] \in Nat
         /\ Present \in SUBSET Keys
         /\ \A k \in Present : k \in NoOlder(k) /\ remote[k] > 0
         /\ \A k : NoOlder(k) \in SUBSET Present /\ Newer(k) \in SUBSET Present
         /\ \A n : Page(n) \in SUBSET Present
BY IntakeAssumption DEF TypeInv, Cursors, Present, NoOlder, Newer, Page

\* Where those newer than k fill no more than the pages before, k is no older
\* than any row of page n.
LEMMA NotBelow ==
  ASSUME TypeInv, NEW n \in Nat, NEW x \in Page(n), NEW S \in SUBSET Present,
         Cardinality(S) < n
  PROVE  ~ (NoOlder(x) \subseteq S)
<1>1. SUFFICES ASSUME NoOlder(x) \subseteq S PROVE FALSE
  OBVIOUS
<1>2. n <= Cardinality(NoOlder(x))
  BY DEF Page
<1>3. Cardinality(NoOlder(x)) <= Cardinality(S) /\ Cardinality(S) \in Nat
      /\ Cardinality(NoOlder(x)) \in Nat
  BY <1>1, SomePresent
<1>4. QED
  BY <1>2, <1>3

\* All rows that may be the n-th newest were changed at one time.
LEMMA OneCursor ==
  ASSUME TypeInv, NEW n \in Nat, NEW x \in Page(n), NEW k \in Page(n)
  PROVE  remote[x] <= remote[k]
<1>1. /\ x \in Present /\ k \in Present /\ remote[x] \in Nat /\ remote[k] \in Nat
      /\ Newer(k) \in SUBSET Present /\ \A l \in Present : remote[l] \in Nat
  BY PresentAt
<1>2. SUFFICES ASSUME remote[k] < remote[x] PROVE FALSE
  BY <1>1
<1>3. NoOlder(x) \subseteq Newer(k)
  BY <1>1, <1>2 DEF NoOlder, Newer
<1>4. Cardinality(Newer(k)) < n
  BY DEF Page
<1>5. QED
  BY <1>1, <1>3, <1>4, NotBelow

\* The n-th newest row is no newer than what the pages before it brought.
LEMMA PageBelow ==
  ASSUME TypeInv, NEW n \in Nat, NEW c \in Nat, Cardinality(Over(c)) < n, NEW k \in Page(n)
  PROVE  /\ remote[k] <= c
         /\ Over(remote[k]) = Newer(k) /\ Cardinality(Over(remote[k])) < n
<1>1. /\ k \in Present /\ remote[k] \in Nat /\ \A l \in Present : remote[l] \in Nat
      /\ Over(c) \in SUBSET Present
  BY PresentAt DEF Over
<1>2. remote[k] <= c
  <2>1. SUFFICES ASSUME remote[k] > c PROVE FALSE
    BY <1>1
  <2>2. NoOlder(k) \subseteq Over(c)
    BY <1>1, <2>1 DEF NoOlder, Over
  <2>3. QED
    BY <1>1, <2>2, NotBelow
<1>3. Over(remote[k]) = Newer(k)
  BY DEF Over, Newer
<1>4. QED
  BY <1>2, <1>3 DEF Page

-----------------------------------------------------------------------------
(* The steps of a pull. *)

Writing == {"find", "update", "number", "numbered", "insert"}

\* The job goes on with the record it is at.
Same(j, j2) ==
    /\ j2.left = j.left /\ j2.key = j.key /\ j2.cursor = j.cursor
    /\ j2.seen = j.seen /\ j2.new = j.new

\* The record of job j is written.
Written(j, l) ==
    \/ /\ l = "insert" /\ Len(rows') = Len(rows) + 1
       /\ \A i \in 1..Len(rows) : rows'[i] = rows[i]
       /\ rows'[Len(rows) + 1].key = j.key /\ rows'[Len(rows) + 1].cursor = j.cursor
    \/ /\ l = "update" /\ Len(rows') = Len(rows) /\ j.hit \in 1..Len(rows)
       /\ \A i \in 1..Len(rows) :
             /\ rows'[i].key = rows[i].key
             /\ rows'[i].cursor = IF i = j.hit THEN j.cursor ELSE rows[i].cursor

\* The rows a job has collected.
Got(j) == {j.left[i][1] : i \in 1..Len(j.left)}

\* What a step of a pull that writes nothing does to its worker's job.
PullReads(j, l, j2, l2) ==
    \/ /\ l = "idle" /\ l2 = "fetch" /\ j2.seen = wm /\ j2.left = j.left /\ j2.page = j.page
    \/ /\ l = "fetch" /\ l2 = "load" /\ j2 = j
       /\ May("flaky") \/ PageEnds(j.page, j.seen)
    \/ /\ l = "fetch" /\ ~PageEnds(j.page, j.seen)
       /\ \E k \in Page(j.page) : /\ May("drift") \/ k \notin Got(j)
                                  /\ j2.left = Collect(j.left, k)
       /\ j2.page = j.page + 1 /\ j2.seen = j.seen
       /\ l2 = IF j.page >= Cardinality(Present) THEN "load" ELSE "fetch"
    \/ /\ l = "fetch" /\ l2 = "load" /\ j2.seen = j.seen
       /\ \E new \in Sorted({k \in Present : remote[k] > j.seen}) :
             j2.left = [i \in DOMAIN new |-> <<new[i], remote[new[i]]>>]
    \/ /\ l = "load" /\ l2 = "next" /\ j2.left = j.left /\ j2.seen = j.seen
       /\ j2.new \in {wm, j.seen}
    \/ /\ l = "next" /\ l2 \in {"find", "number"} /\ j.left # <<>>
       /\ j2.left = Tail(j.left) /\ <<j2.key, j2.cursor>> = Head(j.left)
       /\ j2.seen = j.seen /\ j2.new = j.new
    \/ /\ l = "find" /\ l2 = "update" /\ Same(j, j2) /\ j2.hit \in Matching(j.key)
    \/ /\ l \in Writing /\ l2 \in Writing \ {"update"} /\ Same(j, j2)

\* What a step of a pull does.
PullMoves(j, l, j2, l2) ==
    \/ PullReads(j, l, j2, l2) /\ UNCHANGED <<wm, rows, failed>>
    \/ /\ l = "next" /\ l2 = "idle" /\ j.left = <<>> /\ j2 = NewJob /\ wm' \in {wm, j.new}
       /\ UNCHANGED <<rows, failed>>
    \/ /\ l \in Writing /\ l2 = "next" /\ j2 = j
       /\ failed' = failed \cup {<<j.key, j.cursor>>} /\ UNCHANGED <<wm, rows>>
    \/ /\ l \in Writing /\ l2 = "next" /\ j2.left = j.left /\ j2.seen = j.seen
       /\ j2.new = Max({j.new, j.cursor}) /\ Written(j, l) /\ UNCHANGED <<wm, failed>>
    \/ /\ l2 = "idle" /\ j2 = NewJob /\ UNCHANGED <<wm, rows, failed>>

LEMMA PullStep ==
  ASSUME TypeInv, env.door = "pull", NEW w \in Workers, Step(w) \/ Crash(w)
  PROVE  PullMoves(job[w], pc[w], job'[w], pc'[w])
<1> USE DEF Goto, Done, outside, table
<1>1. PICK j, j2 : j = job[w] /\ j2 = job'[w]
  OBVIOUS
<1>2. PICK l, l2 : l = pc[w] /\ l2 = pc'[w]
  OBVIOUS
<1>3. /\ pc = [v \in Workers |-> pc[v]] /\ job = [v \in Workers |-> job[v]]
      /\ j = [c \in Columns |-> j[c]] /\ j.left \in Seq(Keys \X Cursors)
      /\ l \notin {"hit", "download", "comment"}
  <2>1. JobOK(env, j, l, Len(rows)) /\ AtDoor(env, l)
    BY <1>1, <1>2 DEF TypeInv
  <2>2. QED
    BY <2>1 DEF TypeInv, JobOK, AtDoor, Incoming
<1>4. \/ Poll(w) \/ FetchPage(w) \/ FetchAll(w) \/ LoadSource(w) \/ NextRecord(w)
      \/ FinishPull(w) \/ FindRow(w) \/ TakeNumber(w) \/ CommitNumber(w)
      \/ InsertRow(w) \/ UpdateRow(w) \/ Crash(w)
  BY <1>2, <1>3 DEF Step, Deliver, Hit, SearchMail, Download, NextMail, AddComment,
     MailboxDone, RunRecurring
<1>5. CASE Poll(w)
  <2>1. j2 = [j EXCEPT !.seen = wm]
    BY <1>1, <1>3, <1>5 DEF Poll
  <2>2. l = "idle" /\ l2 = "fetch" /\ UNCHANGED <<wm, rows, failed>>
    BY <1>2, <1>3, <1>5 DEF Poll, Free, Idle
  <2>3. j2.seen = wm /\ j2.left = j.left /\ j2.page = j.page
    BY <1>3, <2>1 DEF Columns
  <2>4. QED
    BY <1>1, <1>2, <2>2, <2>3 DEF PullMoves, PullReads
<1>6. CASE FetchPage(w)
  <2>1. l = "fetch" /\ UNCHANGED <<wm, rows, failed>>
    BY <1>2, <1>6 DEF FetchPage
  <2>2. CASE /\ May("flaky") \/ PageEnds(j.page, j.seen)
             /\ pc' = [pc EXCEPT ![w] = "load"] /\ UNCHANGED job
    BY <1>1, <1>2, <1>3, <2>1, <2>2 DEF PullMoves, PullReads
  <2>3. CASE /\ ~PageEnds(j.page, j.seen)
             /\ \E k \in Page(j.page) :
                   /\ May("drift") \/ k \notin Got(j)
                   /\ job' = [job EXCEPT ![w].left = Collect(@, k), ![w].page = j.page + 1]
             /\ IF j.page >= Cardinality(Present) THEN pc' = [pc EXCEPT ![w] = "load"]
                                                  ELSE UNCHANGED pc
    <3>1. PICK k \in Page(j.page) :
             /\ May("drift") \/ k \notin Got(j)
             /\ job' = [job EXCEPT ![w].left = Collect(@, k), ![w].page = j.page + 1]
      BY <2>3
    <3>2. PICK left : left = Collect(j.left, k)
      OBVIOUS
    <3>3. PICK p : p = j.page + 1
      OBVIOUS
    <3>4. j2 = [j EXCEPT !.left = left, !.page = p]
      BY <1>1, <1>3, <3>1, <3>2, <3>3
    <3>5. j2.left = left /\ j2.page = p /\ j2.seen = j.seen
      BY <1>3, <3>4 DEF Columns
    <3>6. l2 = IF j.page >= Cardinality(Present) THEN "load" ELSE "fetch"
      BY <1>2, <1>3, <2>1, <2>3
    <3>7. QED
      BY <1>1, <1>2, <2>1, <2>3, <3>1, <3>2, <3>3, <3>5, <3>6 DEF PullMoves, PullReads
  <2>4. Collected(w) = Got(j)
    BY <1>1 DEF Collected, Got
  <2>5. QED
    BY <1>1, <1>6, <2>2, <2>3, <2>4 DEF FetchPage
<1>7. CASE FetchAll(w)
  <2>1. PICK new \in Sorted({k \in Present : remote[k] > j.seen}) :
          job' = [job EXCEPT ![w].left = [i \in DOMAIN new |-> <<new[i], remote[new[i]]>>]]
    BY <1>1, <1>7 DEF FetchAll
  <2>2. PICK left : left = [i \in DOMAIN new |-> <<new[i], remote[new[i]]>>]
    OBVIOUS
  <2>3. j2 = [j EXCEPT !.left = left]
    BY <1>1, <1>3, <2>1, <2>2
  <2>4. j2.left = left /\ j2.seen = j.seen
    BY <1>3, <2>3 DEF Columns
  <2>5. l = "fetch" /\ l2 = "load" /\ UNCHANGED <<wm, rows, failed>>
    BY <1>2, <1>3, <1>7 DEF FetchAll
  <2>6. QED
    BY <1>1, <1>2, <2>2, <2>4, <2>5 DEF PullMoves, PullReads
<1>8. CASE LoadSource(w)
  <2>1. PICK stored \in {wm, j.seen} : job' = [job EXCEPT ![w].new = stored]
    BY <1>1, <1>8 DEF LoadSource
  <2>2. j2 = [j EXCEPT !.new = stored]
    BY <1>1, <1>3, <2>1
  <2>3. j2.left = j.left /\ j2.seen = j.seen /\ j2.new \in {wm, j.seen}
    BY <1>3, <2>2 DEF Columns
  <2>4. l = "load" /\ l2 = "next" /\ UNCHANGED <<wm, rows, failed>>
    BY <1>2, <1>3, <1>8 DEF LoadSource
  <2>5. QED
    BY <1>1, <1>2, <2>3, <2>4 DEF PullMoves, PullReads
<1>9. CASE NextRecord(w)
  <2>1. PICK r : r = Head(j.left)
    OBVIOUS
  <2>2. PICK rest : rest = Tail(j.left)
    OBVIOUS
  <2>3. j.left # <<>> /\ j2 = [j EXCEPT !.left = rest, !.key = r[1], !.cursor = r[2],
                                        !.hit = 0, !.wrote = TRUE]
    BY <1>1, <1>3, <1>9, <2>1, <2>2 DEF NextRecord
  <2>4. r \in Keys \X Cursors
    BY <1>3, <2>1, <2>3
  <2>5. /\ j2.left = rest /\ j2.key = r[1] /\ j2.cursor = r[2]
        /\ j2.seen = j.seen /\ j2.new = j.new
    BY <1>3, <2>3 DEF Columns
  <2>6. <<j2.key, j2.cursor>> = r
    BY <2>4, <2>5
  <2>7. l = "next" /\ l2 \in {"find", "number"} /\ UNCHANGED <<wm, rows, failed>>
    BY <1>2, <1>3, <1>9 DEF NextRecord
  <2>8. QED
    BY <1>1, <1>2, <2>1, <2>2, <2>3, <2>5, <2>6, <2>7 DEF PullMoves, PullReads
<1>10. CASE FinishPull(w)
  BY <1>1, <1>2, <1>3, <1>10 DEF FinishPull, PullMoves, PullReads
<1>11. CASE Crash(w)
  BY <1>1, <1>2, <1>3, <1>11 DEF Crash, PullMoves
<1>12. ASSUME Failed(w), l \in Writing, UNCHANGED <<wm, rows>>
       PROVE  PullMoves(j, l, j2, l2)
  BY <1>1, <1>2, <1>3, <1>12 DEF Failed, PullMoves
<1>13. CASE FindRow(w)
  <2>1. l = "find" /\ UNCHANGED <<wm, rows>>
    BY <1>2, <1>13 DEF FindRow
  <2>2. CASE Failed(w)
    BY <1>1, <1>2, <1>12, <2>1, <2>2 DEF Writing
  <2>3. CASE /\ Cardinality(Lookup(j.key)) = 1
             /\ job' = [job EXCEPT ![w].hit = CHOOSE i \in Lookup(j.key) : TRUE]
             /\ pc' = [pc EXCEPT ![w] = "update"] /\ UNCHANGED failed
    <3>1. Lookup(j.key) # {}
      BY <2>3, FS_EmptySet
    <3>2. PICK h \in Lookup(j.key) : h = CHOOSE i \in Lookup(j.key) : TRUE
      BY <3>1
    <3>3. j2 = [j EXCEPT !.hit = h]
      BY <1>1, <1>3, <2>3, <3>2
    <3>4. Same(j, j2) /\ j2.hit = h
      BY <1>3, <3>3 DEF Same, Columns
    <3>5. l2 = "update"
      BY <1>2, <1>3, <2>3
    <3>6. QED
      BY <1>1, <1>2, <2>1, <2>3, <3>2, <3>4, <3>5 DEF PullMoves, PullReads, Lookup
  <2>4. CASE pc' = [pc EXCEPT ![w] = "number"] /\ UNCHANGED <<job, failed>>
    BY <1>1, <1>2, <1>3, <2>1, <2>4 DEF PullMoves, PullReads, Same, Writing
  <2>5. QED
    BY <1>1, <1>13, <2>2, <2>3, <2>4 DEF FindRow
<1>14. CASE TakeNumber(w)
  <2>1. j2 = [j EXCEPT !.number = next]
    BY <1>1, <1>3, <1>14 DEF TakeNumber
  <2>2. Same(j, j2)
    BY <1>3, <2>1 DEF Same, Columns
  <2>3. l = "number" /\ l2 = "numbered" /\ UNCHANGED <<wm, rows, failed>>
    BY <1>2, <1>3, <1>14 DEF TakeNumber
  <2>4. QED
    BY <1>1, <1>2, <2>2, <2>3 DEF PullMoves, PullReads, Writing
<1>15. CASE CommitNumber(w)
  BY <1>1, <1>2, <1>3, <1>15 DEF CommitNumber, PullMoves, PullReads, Same, Writing
<1>16. ASSUME TakenIn(w), l \in Writing, UNCHANGED <<wm, failed>>, Written(j, l)
       PROVE  PullMoves(j, l, j2, l2)
  <2>1. PICK new : new = Max({j.new, j.cursor})
    OBVIOUS
  <2>2. j2 = [j EXCEPT !.new = new] /\ l2 = "next"
    BY <1>1, <1>2, <1>3, <1>16, <2>1 DEF TakenIn
  <2>3. j2.left = j.left /\ j2.seen = j.seen /\ j2.new = new
    BY <1>3, <2>2 DEF Columns
  <2>4. QED
    BY <1>16, <2>1, <2>2, <2>3 DEF PullMoves, PullReads
<1>17. CASE InsertRow(w)
  <2>1. wm' = wm /\ l = "insert"
    BY <1>2, <1>17 DEF InsertRow
  <2>2. (Failed(w) /\ rows' = rows) \/ (TakenIn(w) /\ failed' = failed /\ Written(j, l))
    BY <1>1, <1>17, <2>1, InsertedRow DEF Written
  <2>3. QED
    BY <1>1, <1>2, <1>12, <1>16, <2>1, <2>2 DEF Writing
<1>18. CASE UpdateRow(w)
  <2>1. wm' = wm /\ l = "update"
    BY <1>2, <1>18 DEF UpdateRow
  <2>2. (Failed(w) /\ rows' = rows) \/ (TakenIn(w) /\ failed' = failed /\ Written(j, l))
    BY <1>1, <1>18, <2>1, UpdatedRow DEF Written
  <2>3. QED
    BY <1>1, <1>2, <1>12, <1>16, <2>1, <2>2 DEF Writing
<1>19. QED
  BY <1>4, <1>5, <1>6, <1>7, <1>8, <1>9, <1>10, <1>11, <1>13, <1>14, <1>15, <1>17, <1>18

-----------------------------------------------------------------------------
(* Oldest first. *)

LEMMA AscendingCollect ==
  ASSUME TypeInv, NEW left \in Seq(Keys \X Cursors), Ascending(left), NEW k \in Keys,
         left # <<>> => remote[k] <= left[1][2]
  PROVE  Ascending(Collect(left, k))
<1>1. \A i \in 1..Len(left) : left[i][2] \in Nat
  <2>1. \A i \in 1..Len(left) : left[i] \in Keys \X Cursors
    OBVIOUS
  <2>2. QED
    BY <2>1, IntakeAssumption DEF Cursors
<1>2. remote[k] \in Nat
  BY IntakeAssumption DEF TypeInv, Cursors
<1>3. PICK r : r = <<k, remote[k]>>
  OBVIOUS
<1>4. PICK s : s = Collect(left, k)
  OBVIOUS
<1>5. /\ Len(s) = Len(left) + 1 /\ s[1] = r
      /\ \A i \in 1..Len(s) : i # 1 => i - 1 \in 1..Len(left) /\ s[i] = left[i - 1]
  BY <1>3, <1>4 DEF Collect
<1>6. s[1][2] = remote[k]
  BY <1>3, <1>5
<1>7. \A i \in 1..Len(left) : remote[k] <= left[i][2]
  <2>1. ASSUME NEW i \in 1..Len(left) PROVE remote[k] <= left[i][2]
    <3>1. remote[k] <= left[1][2] /\ 1 \in 1..Len(left)
      BY <2>1
    <3>2. i = 1 \/ left[1][2] <= left[i][2]
      BY <3>1 DEF Ascending
    <3>3. QED
      BY <1>1, <1>2, <3>1, <3>2
  <2>2. QED
    BY <2>1
<1>8. ASSUME NEW i \in 1..Len(s), NEW m \in 1..Len(s), i < m
      PROVE  s[i][2] <= s[m][2]
  <2>1. m # 1 /\ m - 1 \in 1..Len(left) /\ s[m] = left[m - 1]
    BY <1>5, <1>8
  <2>2. CASE i = 1
    BY <1>6, <1>7, <2>1, <2>2
  <2>3. CASE i # 1
    <3>1. i - 1 \in 1..Len(left) /\ s[i] = left[i - 1] /\ i - 1 < m - 1
      BY <1>5, <1>8, <2>3
    <3>2. QED
      BY <2>1, <3>1 DEF Ascending
  <2>4. QED
    BY <2>2, <2>3
<1>9. QED
  BY <1>4, <1>8 DEF Ascending

LEMMA AscendingTail ==
  ASSUME NEW S, NEW left \in Seq(S), Ascending(left), left # <<>>
  PROVE  /\ Ascending(Tail(left))
         /\ \A i \in 1..Len(Tail(left)) : /\ Head(left)[2] <= Tail(left)[i][2]
                                          /\ Tail(left)[i] = left[i + 1]
                                          /\ i + 1 \in 1..Len(left)
<1>1. PICK s : s = Tail(left)
  OBVIOUS
<1>2. /\ Len(left) > 0 /\ Head(left) = left[1]
      /\ \A i \in 1..Len(s) : s[i] = left[i + 1] /\ i + 1 \in 1..Len(left) /\ 1 < i + 1
  BY <1>1
<1>3. \A i \in 1..Len(s) : Head(left)[2] <= s[i][2]
  BY <1>2 DEF Ascending
<1>4. ASSUME NEW i \in 1..Len(s), NEW m \in 1..Len(s), i < m
      PROVE  s[i][2] <= s[m][2]
  <2>1. i + 1 < m + 1
    BY <1>4
  <2>2. QED
    BY <1>2, <2>1 DEF Ascending
<1>5. QED
  BY <1>1, <1>2, <1>3, <1>4 DEF Ascending

LEMMA AscendingSorted ==
  ASSUME TypeInv, NEW ks \in SUBSET Keys, NEW new \in Sorted(ks), NEW left,
         left = [i \in DOMAIN new |-> <<new[i], remote[new[i]]>>]
  PROVE  /\ Len(left) = Cardinality(ks) /\ Len(left) \in Nat
         /\ left \in Seq(Keys \X Cursors)
         /\ \A i \in 1..Len(left) : new[i] \in ks /\ left[i] = <<new[i], remote[new[i]]>>
         /\ Ascending(left)
<1>1. Cardinality(ks) \in Nat
  BY IntakeAssumption, FS_Subset, FS_CardinalityType
<1>2. DOMAIN new = 1..Cardinality(ks) /\ \A i \in 1..Cardinality(ks) : new[i] \in ks
  BY DEF Sorted
<1>3. \A k \in Keys : remote[k] \in Cursors
  BY DEF TypeInv
<1>4. left \in Seq(Keys \X Cursors) /\ Len(left) = Cardinality(ks)
  BY <1>1, <1>2, <1>3
<1>5. \A i \in 1..Len(left) : new[i] \in ks /\ left[i] = <<new[i], remote[new[i]]>>
  BY <1>2, <1>4
<1>6. \A i \in 1..Len(left) : left[i][2] = remote[new[i]]
  BY <1>5
<1>7. \A i, m \in 1..Len(left) : i < m => remote[new[i]] <= remote[new[m]]
  BY <1>2, <1>4 DEF Sorted
<1>8. Ascending(left)
  BY <1>6, <1>7 DEF Ascending
<1>9. QED
  BY <1>1, <1>4, <1>5, <1>8

\* A pass has its records oldest first; while it fetches, the rows changed after
\* the oldest it has are on the pages before.
Before(j) == j.left # <<>> => Cardinality(Over(j.left[1][2])) < j.page

InOrder(j, l) ==
    /\ Ascending(j.left)
    /\ l = "fetch" => Before(j)

OrderInv ==
    env.door = "pull" /\ ~May("drift") => \A w \in Workers : InOrder(job[w], pc[w])

LEMMA NothingCollected == Ascending(<<>>)
BY DEF Ascending

LEMMA OrderNext ==
  ASSUME TypeInv, Fresh, PeerInv, OrderInv, [Next]_vars
  PROVE  OrderInv'
<1>1. ASSUME NEW w \in Workers, Step(w) \/ Crash(w) PROVE OrderInv'
  <2>1. /\ env' = env /\ remote' = remote
        /\ \A v \in Workers \ {w} : pc'[v] = pc[v] /\ job'[v] = job[v]
    BY <1>1, Moves, RestMoves
  <2>2. SUFFICES ASSUME env.door = "pull", ~May("drift") PROVE OrderInv'
    BY <2>1 DEF OrderInv, May
  <2>3. PICK j, j2 : j = job[w] /\ j2 = job'[w]
    OBVIOUS
  <2>4. PICK l, l2 : l = pc[w] /\ l2 = pc'[w]
    OBVIOUS
  <2>5. PullMoves(j, l, j2, l2)
    BY <1>1, <2>2, <2>3, <2>4, PullStep
  <2>6. j.left \in Seq(Keys \X Cursors) /\ j.page \in Nat \ {0}
    BY <2>2, <2>3 DEF TypeInv, JobOK, Incoming
  <2>7. InOrder(j, l)
    BY <2>2, <2>3, <2>4 DEF OrderInv
  <2>8. SUFFICES InOrder(j2, l2)
    BY <2>1, <2>2, <2>3, <2>4 DEF OrderInv, InOrder, Before, Over, Present
  <2>9. CASE j2.left = j.left /\ l2 # "fetch"
    BY <2>7, <2>9 DEF InOrder
  <2>10. CASE l = "idle" /\ l2 = "fetch" /\ j2.left = j.left /\ j2.page = j.page
    <3>1. j = NewJob
      BY <2>3, <2>4, <2>10 DEF Fresh
    <3>2. j.left = <<>>
      BY <3>1 DEF NewJob
    <3>3. QED
      BY <2>10, <3>2, NothingCollected DEF InOrder, Before
  <2>11. CASE /\ l = "fetch" /\ \E k \in Page(j.page) : j2.left = Collect(j.left, k)
              /\ j2.page = j.page + 1
    <3>1. PICK k \in Page(j.page) : j2.left = Collect(j.left, k)
      BY <2>11
    <3>2. Before(j) /\ Ascending(j.left)
      BY <2>7, <2>11 DEF InOrder
    <3>3. k \in Keys /\ remote[k] \in Nat
      BY PresentAt DEF Page, Present
    <3>4. j.left # <<>> => remote[k] <= j.left[1][2]
      <4>1. SUFFICES ASSUME j.left # <<>> PROVE remote[k] <= j.left[1][2]
        OBVIOUS
      <4>2. j.left[1] \in Keys \X Cursors
        BY <2>6, <4>1
      <4>3. j.left[1][2] \in Nat
        BY <4>2, IntakeAssumption DEF Cursors
      <4>4. QED
        BY <2>6, <3>2, <4>1, <4>3, PageBelow DEF Before
    <3>5. Ascending(j2.left)
      BY <2>6, <3>1, <3>2, <3>3, <3>4, AscendingCollect
    <3>6. Before(j2)
      <4>1. j2.left[1][2] = remote[k]
        BY <2>6, <3>1 DEF Collect
      <4>2. Over(remote[k]) = Newer(k)
        BY DEF Over, Newer
      <4>3. Cardinality(Newer(k)) < j.page /\ Newer(k) \in SUBSET Present
        BY PresentAt DEF Page
      <4>4. Cardinality(Newer(k)) \in Nat
        BY <4>3, SomePresent
      <4>5. QED
        BY <2>6, <2>11, <4>1, <4>2, <4>3, <4>4 DEF Before
    <3>7. QED
      BY <3>5, <3>6 DEF InOrder
  <2>12. CASE /\ l2 = "load"
              /\ \E new \in Sorted({k \in Present : remote[k] > j.seen}) :
                   j2.left = [i \in DOMAIN new |-> <<new[i], remote[new[i]]>>]
    <3>1. {k \in Present : remote[k] > j.seen} \in SUBSET Keys
      BY DEF Present
    <3>2. QED
      BY <2>12, <3>1, AscendingSorted DEF InOrder
  <2>13. CASE j.left # <<>> /\ j2.left = Tail(j.left) /\ l2 # "fetch"
    BY <2>6, <2>7, <2>13, AscendingTail DEF InOrder
  <2>14. CASE j2 = NewJob /\ l2 = "idle"
    <3>1. j2.left = <<>>
      BY <2>14 DEF NewJob
    <3>2. QED
      BY <2>14, <3>1, NothingCollected DEF InOrder
  <2>15. QED
    BY <2>5, <2>9, <2>10, <2>11, <2>12, <2>13, <2>14 DEF PullMoves, PullReads, Same, Writing
<1>2. CASE RemoteWrite
  <2>1. /\ UNCHANGED <<env, pc, job>> /\ (May("drift") \/ \A w \in Workers : pc[w] # "fetch")
    BY <1>2 DEF RemoteWrite
  <2>2. QED
    BY <2>1 DEF OrderInv, InOrder, May
<1>3. CASE RemoteDelete
  <2>1. UNCHANGED <<env, pc, job>> /\ \E k \in Present : remote' = [remote EXCEPT ![k] = 0]
    BY <1>3 DEF RemoteDelete
  <2>2. \A k \in Keys : remote[k] \in Cursors
    BY DEF TypeInv
  <2>3. \A k \in Keys : remote'[k] = remote[k] \/ remote'[k] = 0
    BY <2>1 DEF TypeInv, Present
  <2>4. ASSUME NEW c
        PROVE  /\ Over(c)' \subseteq Over(c)
               /\ Cardinality(Over(c)') <= Cardinality(Over(c))
               /\ Cardinality(Over(c)) \in Nat /\ Cardinality(Over(c)') \in Nat
    <3>1. Over(c)' \subseteq Over(c)
      BY <2>2, <2>3, IntakeAssumption DEF Over, Present, Cursors
    <3>2. Over(c) \in SUBSET Present
      BY DEF Over
    <3>3. QED
      BY <3>1, <3>2, SomePresent
  <2>5. ASSUME env.door = "pull", ~May("drift"), NEW w \in Workers PROVE InOrder(job[w], pc[w])'
    <3>1. InOrder(job[w], pc[w]) /\ job[w].page \in Nat \ {0}
      BY <2>5 DEF OrderInv, TypeInv, JobOK
    <3>2. PICK left : left = job[w].left
      OBVIOUS
    <3>3. pc[w] = "fetch" /\ left # <<>> => Cardinality(Over(left[1][2])') < job[w].page
      BY <2>4, <3>1, <3>2 DEF InOrder, Before
    <3>4. QED
      BY <2>1, <3>1, <3>2, <3>3 DEF InOrder, Before, Over
  <2>6. QED
    BY <2>1, <2>5 DEF OrderInv, May
<1>4. CASE Tick
  BY <1>4 DEF Tick, outside, OrderInv
<1>5. CASE UNCHANGED vars
  BY <1>5 DEF vars, OrderInv, InOrder, Before, Over, Present, May
<1>6. QED
  BY <1>1, <1>2, <1>3, <1>4, <1>5 DEF Next

-----------------------------------------------------------------------------
(* A pull without trouble but for records that fail and processes that die. *)

Calm == env.door = "pull" /\ env.trouble \subseteq {"failing", "crashes"}

\* The peer's row as it is was taken in or logged as failed, or came late.
Excused(k) == Settled(k) \/ <<k, remote[k]>> \in late

\* What a pass has still to write: what it has left, and the record it is at.
Batch(j) == {j.left[i] : i \in 1..Len(j.left)}
Ahead(j, l) == Batch(j) \cup (IF l \in Writing THEN {<<j.key, j.cursor>>} ELSE {})

\* Of the changes up to c, only those of the batch are not settled.
Complete(c, batch) ==
    \A k \in Present : remote[k] <= c => Excused(k) \/ <<k, remote[k]>> \in batch

\* A record to be written is newer than the watermark and than the row it will
\* replace, and no newer than the peer's.
Pending(e) ==
    /\ e[2] > wm /\ e[2] <= remote[e[1]]
    /\ \A i \in 1..Len(rows) : rows[i].key = e[1] => rows[i].cursor <= e[2]

\* What is on the pages fetched so far: one row each, as it is in the peer's
\* table, and none that is older than a row on a page to come.
Fetched(j) ==
    /\ Cardinality(Got(j)) = j.page - 1 /\ Got(j) \subseteq Present
    /\ \A k \in Got(j) : <<k, remote[k]>> \in Batch(j)
    /\ \A k \in Got(j), l \in Present \ Got(j) : remote[l] <= remote[k]

\* Once a pass has fetched, every change up to any of its records is settled or
\* in its batch, and so is every change up to what the pass has come to.
Pass(j, l) ==
    /\ j.seen = wm
    /\ \A e \in Ahead(j, l) : Pending(e)
    /\ l = "fetch" => Fetched(j)
    /\ l # "fetch" => \A e \in Ahead(j, l) : Complete(e[2], Ahead(j, l))
    /\ l \notin {"fetch", "load"} =>
          /\ Complete(j.new, Ahead(j, l))
          /\ \A e \in Ahead(j, l) : e[2] >= j.new
    /\ l \in Writing => \A i \in 1..Len(j.left) : j.cursor <= j.left[i][2]
    /\ l = "update" => rows[j.hit].key = j.key

RowsBehind ==
    \A i \in 1..Len(rows) : rows[i].key \in Keys /\ rows[i].cursor <= remote[rows[i].key]

PullInv ==
    Calm =>
        /\ RowsBehind /\ Complete(wm, {})
        /\ \A w \in Workers : pc[w] # "idle" => Pass(job[w], pc[w])

\* Where a fetch ends, what it did not bring was seen before.
LEMMA PageComplete ==
  ASSUME TypeInv, NEW n \in Nat \ {0}, NEW G \in SUBSET Present, Cardinality(G) = n - 1,
         \A x \in G, l \in Present \ G : remote[l] <= remote[x],
         NEW seen \in Nat, PageEnds(n, seen), NEW k \in Present \ G
  PROVE  remote[k] <= seen
<1>1. \A l \in Present : remote[l] \in Nat /\ l \in Keys
  BY PresentAt
<1>2. PICK x \in Present \ G : \A l \in Present \ G : remote[l] <= remote[x]
  <2>1. Present \ G \in SUBSET Keys /\ k \in Present \ G
    BY <1>1
  <2>2. QED
    BY <2>1, SomeNewest DEF TypeInv
<1>3. Newer(x) \in SUBSET G
  BY <1>1, <1>2 DEF Newer
<1>4. G \cup {x} \in SUBSET NoOlder(x) /\ NoOlder(x) \in SUBSET Present
  BY <1>1, <1>2, PresentAt DEF NoOlder
<1>5. Cardinality(Newer(x)) < n
  BY <1>3, SomePresent
<1>6. n <= Cardinality(NoOlder(x))
  <2>1. IsFiniteSet(G) /\ x \notin G
    BY <1>2, SomePresent
  <2>2. Cardinality(G \cup {x}) = n
    BY <2>1, FS_AddElement
  <2>3. QED
    BY <1>4, <2>2, SomePresent
<1>7. x \in Page(n)
  BY <1>2, <1>5, <1>6 DEF Page
<1>8. remote[x] <= seen /\ remote[k] <= remote[x]
  BY <1>2, <1>7 DEF PageEnds
<1>9. QED
  BY <1>1, <1>2, <1>8

\* All rows of a page that does not end the fetch are newer than what was seen.
LEMMA PageNew ==
  ASSUME TypeInv, NEW n \in Nat, NEW seen \in Nat, ~PageEnds(n, seen), NEW k \in Page(n)
  PROVE  remote[k] > seen
<1>1. PICK x \in Page(n) : ~ (remote[x] <= seen)
  BY DEF PageEnds
<1>2. remote[x] \in Nat /\ remote[k] \in Nat
  BY PresentAt
<1>3. remote[x] <= remote[k]
  BY OneCursor
<1>4. QED
  BY <1>1, <1>2, <1>3

\* A further row of page n leaves none behind that is newer.
LEMMA PageNext ==
  ASSUME TypeInv, NEW n \in Nat \ {0}, NEW G \in SUBSET Present, Cardinality(G) = n - 1,
         \A x \in G, l \in Present \ G : remote[l] <= remote[x],
         NEW k \in Page(n), k \notin G
  PROVE  /\ Cardinality(G \cup {k}) = n /\ G \cup {k} \subseteq Present
         /\ \A x \in G \cup {k}, l \in Present \ (G \cup {k}) : remote[l] <= remote[x]
<1>1. k \in Present /\ \A l \in Present : remote[l] \in Nat
  BY PresentAt
<1>2. IsFiniteSet(G) /\ \A l : l \notin G => Cardinality(G \cup {l}) = n
  <2>1. IsFiniteSet(G)
    BY SomePresent
  <2>2. ASSUME NEW l, l \notin G PROVE Cardinality(G \cup {l}) = n
    <3>1. Cardinality(G \cup {l}) = Cardinality(G) + 1
      BY <2>1, <2>2, FS_AddElement
    <3>2. QED
      BY <3>1
  <2>3. QED
    BY <2>1, <2>2
<1>3. ASSUME NEW l \in Present \ (G \cup {k}) PROVE remote[l] <= remote[k]
  <2>1. SUFFICES ASSUME remote[l] > remote[k] PROVE FALSE
    BY <1>1
  <2>2. G \cup {l} \in SUBSET Newer(k) /\ Newer(k) \in SUBSET Present
    <3>1. \A x \in G : remote[x] > remote[k]
      BY <1>1, <2>1
    <3>2. QED
      BY <2>1, <3>1, PresentAt DEF Newer
  <2>3. Cardinality(G \cup {l}) <= Cardinality(Newer(k)) /\ Cardinality(Newer(k)) \in Nat
    BY <2>2, SomePresent
  <2>4. Cardinality(G \cup {l}) = n /\ Cardinality(Newer(k)) < n
    BY <1>2 DEF Page
  <2>5. QED
    BY <2>3, <2>4
<1>4. QED
  BY <1>1, <1>2, <1>3

\* Sorting leaves nothing out.
LEMMA SortedAll ==
  ASSUME NEW ks \in SUBSET Keys, NEW new \in Sorted(ks), NEW k \in ks
  PROVE  \E i \in 1..Cardinality(ks) : new[i] = k
<1>1. IsFiniteSet(ks) /\ Cardinality(ks) \in Nat
  BY IntakeAssumption, FS_Subset, FS_CardinalityType
<1>2. PICK n \in Nat : n = Cardinality(ks)
  BY <1>1
<1>3. new \in [1..n -> ks] /\ \A i, m \in 1..n : i < m => new[i] # new[m]
  BY <1>2 DEF Sorted
<1>4. new \in Injection(1..n, ks)
  <2>1. ASSUME NEW i \in 1..n, NEW m \in 1..n, new[i] = new[m] PROVE i = m
    <3>1. ~ (i < m) /\ ~ (m < i)
      BY <1>3, <2>1
    <3>2. QED
      BY <3>1
  <2>2. QED
    BY <1>3, <2>1 DEF Injection, IsInjective
<1>5. Cardinality(1..n) = n
  BY FS_Interval
<1>6. new \in Surjection(1..n, ks)
  BY <1>1, <1>2, <1>4, <1>5, FS_Injection
<1>7. QED
  BY <1>2, <1>6 DEF Surjection

LEMMA ListedAll ==
  ASSUME NEW ks \in SUBSET Keys
  PROVE  \A s \in Sorted(ks) : \A k \in ks : \E i \in 1..Cardinality(ks) : s[i] = k
<1>1. ASSUME NEW s \in Sorted(ks), NEW k \in ks
      PROVE  \E i \in 1..Cardinality(ks) : s[i] = k
  BY SortedAll
<1>2. QED
  BY <1>1

LEMMA BatchCollect ==
  ASSUME NEW j, NEW j2, NEW S, j.left \in Seq(S), NEW k, j2.left = Collect(j.left, k)
  PROVE  Batch(j2) = Batch(j) \cup {<<k, remote[k]>>}
<1>1. PICK left, left2, r : left = j.left /\ left2 = j2.left /\ r = <<k, remote[k]>>
  OBVIOUS
<1>2. /\ left \in Seq(S) /\ left2 = <<r>> \o left
  BY <1>1 DEF Collect
<1>3. /\ Len(left2) = Len(left) + 1 /\ Len(left) \in Nat /\ left2[1] = r
      /\ \A i \in 1..Len(left2) : i # 1 => i - 1 \in 1..Len(left) /\ left2[i] = left[i - 1]
      /\ \A i \in 1..Len(left) : i + 1 \in 1..Len(left2) /\ left2[i + 1] = left[i]
  BY <1>2
<1>4. \A e : e \in {left2[i] : i \in 1..Len(left2)} <=> e = r \/ e \in {left[i] : i \in 1..Len(left)}
  <2>1. ASSUME NEW e, e \in {left2[i] : i \in 1..Len(left2)}
        PROVE  e = r \/ e \in {left[i] : i \in 1..Len(left)}
    BY <1>3, <2>1
  <2>2. ASSUME NEW e, e \in {left[i] : i \in 1..Len(left)}
        PROVE  e \in {left2[i] : i \in 1..Len(left2)}
    BY <1>3, <2>2
  <2>3. 1 \in 1..Len(left2)
    BY <1>3
  <2>4. QED
    BY <1>3, <2>1, <2>2, <2>3
<1>5. QED
  BY <1>1, <1>4 DEF Batch

\* The rows a job has collected are those of its batch.
LEMMA GotBatch ==
  ASSUME NEW j
  PROVE  Got(j) = {e[1] : e \in Batch(j)}
BY DEF Got, Batch

LEMMA BatchTail ==
  ASSUME NEW j, NEW j2, NEW S, j.left \in Seq(S), j.left # <<>>, j2.left = Tail(j.left)
  PROVE  Batch(j) = Batch(j2) \cup {Head(j.left)}
<1>1. PICK left, left2, r : left = j.left /\ left2 = j2.left /\ r = Head(left)
  OBVIOUS
<1>2. /\ Len(left2) = Len(left) - 1 /\ Len(left) \in Nat \ {0} /\ left[1] = r
      /\ \A i \in 1..Len(left) : i # 1 => i - 1 \in 1..Len(left2) /\ left[i] = left2[i - 1]
      /\ \A i \in 1..Len(left2) : i + 1 \in 1..Len(left) /\ left[i + 1] = left2[i]
  BY <1>1
<1>3. \A e : e \in {left[i] : i \in 1..Len(left)} <=> e = r \/ e \in {left2[i] : i \in 1..Len(left2)}
  <2>1. ASSUME NEW e, e \in {left[i] : i \in 1..Len(left)}
        PROVE  e = r \/ e \in {left2[i] : i \in 1..Len(left2)}
    BY <1>2, <2>1
  <2>2. ASSUME NEW e, e \in {left2[i] : i \in 1..Len(left2)}
        PROVE  e \in {left[i] : i \in 1..Len(left)}
    BY <1>2, <2>2
  <2>3. ASSUME NEW e, e = r PROVE e \in {left[i] : i \in 1..Len(left)}
    <3>1. 1 \in 1..Len(left) /\ left[1] = r
      BY <1>2
    <3>2. QED
      BY <2>3, <3>1
  <2>4. QED
    BY <2>1, <2>2, <2>3
<1>4. QED
  BY <1>1, <1>3, ZenonT(30) DEF Batch

LEMMA EmptyBatch ==
  ASSUME NEW j, j.left = <<>>
  PROVE  Batch(j) = {}
BY DEF Batch

\* A pass that starts, fetches, loads its source or looks at its next record has
\* what it needs.
LEMMA PassGoesOn ==
  ASSUME TypeInv, PeerInv, Calm, RowsBehind, Complete(wm, {}),
         NEW j, NEW l, NEW j2, NEW l2,
         JobOK(env, j, l, Len(rows)), Ascending(j.left),
         l = "idle" => j = NewJob, l # "idle" => Pass(j, l),
         PullReads(j, l, j2, l2)
  PROVE  Pass(j2, l2)
<1>1. /\ j.left \in Seq(Keys \X Cursors) /\ j.page \in Nat \ {0}
      /\ j.seen \in Nat /\ wm \in Nat /\ Cursors \subseteq Nat
      /\ ~May("flaky") /\ ~May("drift")
  <2>1. j.left \in Seq(Incoming(env) \X Cursors) /\ j.page \in Nat \ {0} /\ j.seen \in Cursors
    BY DEF JobOK
  <2>2. Incoming(env) = Keys /\ ~May("flaky") /\ ~May("drift")
    BY DEF Calm, Incoming, May
  <2>3. wm \in Cursors /\ Cursors \subseteq Nat
    BY IntakeAssumption DEF TypeInv, Cursors
  <2>4. QED
    BY <2>1, <2>2, <2>3
<1>2. \A k \in Keys : remote[k] \in Nat
  BY IntakeAssumption DEF TypeInv, Cursors
<1>3. ASSUME l = "idle", l2 = "fetch", j2.seen = wm, j2.left = j.left, j2.page = j.page
      PROVE  Pass(j2, l2)
  <2>1. j2.left = <<>> /\ j2.page = 1
    BY <1>3 DEF NewJob
  <2>2. Fetched(j2)
    <3>1. Got(j2) = {}
      BY <2>1 DEF Got
    <3>2. QED
      BY <2>1, <3>1, FS_EmptySet DEF Fetched
  <2>3. Ahead(j2, l2) = {}
    BY <1>3, <2>1, EmptyBatch DEF Ahead, Writing
  <2>4. QED
    BY <1>3, <2>2, <2>3 DEF Pass, Writing
<1>4. ASSUME l = "fetch", l2 = "load", j2 = j, PageEnds(j.page, j.seen)
      PROVE  Pass(j2, l2)
  <2>1. Pass(j, l) /\ j.seen = wm /\ Fetched(j)
    BY <1>4 DEF Pass
  <2>2. Ahead(j2, l2) = Batch(j) /\ Ahead(j, l) = Batch(j)
    BY <1>4 DEF Ahead, Writing
  <2>3. ASSUME NEW k \in Present PROVE Excused(k) \/ <<k, remote[k]>> \in Batch(j)
    <3>1. CASE k \in Got(j)
      BY <2>1, <3>1 DEF Fetched
    <3>2. CASE k \notin Got(j)
      <4>1. remote[k] <= wm
        BY <1>1, <1>4, <2>1, <3>2, PageComplete DEF Fetched
      <4>2. QED
        BY <4>1 DEF Complete
    <3>3. QED
      BY <3>1, <3>2
  <2>4. QED
    BY <1>4, <2>1, <2>2, <2>3 DEF Pass, Complete, Writing
<1>5. ASSUME l = "fetch", ~PageEnds(j.page, j.seen), NEW k \in Page(j.page), k \notin Got(j),
             j2.left = Collect(j.left, k), j2.page = j.page + 1, j2.seen = j.seen,
             l2 = IF j.page >= Cardinality(Present) THEN "load" ELSE "fetch"
      PROVE  Pass(j2, l2)
  <2>1. Pass(j, l) /\ j.seen = wm /\ Fetched(j)
    BY <1>5 DEF Pass
  <2>2. Batch(j2) = Batch(j) \cup {<<k, remote[k]>>}
    BY <1>1, <1>5, BatchCollect
  <2>3. Got(j2) = Got(j) \cup {k}
    <3>1. Got(j) = {e[1] : e \in Batch(j)} /\ Got(j2) = {e[1] : e \in Batch(j2)}
      BY GotBatch
    <3>2. PICK r : r = <<k, remote[k]>>
      OBVIOUS
    <3>3. r[1] = k /\ Batch(j2) = Batch(j) \cup {r}
      BY <2>2, <3>2
    <3>4. QED
      BY <3>1, <3>3
  <2>4. /\ Cardinality(Got(j2)) = j.page /\ Got(j2) \subseteq Present
        /\ \A x \in Got(j2), y \in Present \ Got(j2) : remote[y] <= remote[x]
    <3>1. /\ Got(j) \in SUBSET Present /\ Cardinality(Got(j)) = j.page - 1
          /\ \A x \in Got(j), y \in Present \ Got(j) : remote[y] <= remote[x]
      BY <2>1 DEF Fetched
    <3>2. j.page \in Nat \ {0} /\ k \in Page(j.page) /\ k \notin Got(j)
      BY <1>1, <1>5
    <3>3. QED
      BY <2>3, <3>1, <3>2, PageNext
  <2>5. \A x \in Got(j2) : <<x, remote[x]>> \in Batch(j2)
    BY <2>1, <2>2, <2>3 DEF Fetched
  <2>6. Ahead(j2, l2) = Batch(j2) /\ Ahead(j, l) = Batch(j) /\ l2 \notin Writing
    BY <1>5 DEF Ahead, Writing
  <2>7. \A e \in Ahead(j2, l2) : Pending(e)
    <3>1. \A e \in Batch(j) : Pending(e)
      BY <2>1, <2>6 DEF Pass
    <3>2. Pending(<<k, remote[k]>>)
      <4>1. remote[k] > wm
        BY <1>1, <1>5, <2>1, PageNew
      <4>2. k \in Keys
        BY DEF Page, Present
      <4>3. QED
        BY <1>2, <4>1, <4>2 DEF Pending, RowsBehind
    <3>3. QED
      BY <2>2, <2>6, <3>1, <3>2
  <2>8. l2 # "fetch" => Present = Got(j2)
    <3>1. SUFFICES ASSUME l2 # "fetch" PROVE Present = Got(j2)
      OBVIOUS
    <3>2. /\ IsFiniteSet(Present) /\ Cardinality(Present) \in Nat
          /\ Cardinality(Got(j2)) <= Cardinality(Present)
      BY <2>4, SomePresent
    <3>3. j.page >= Cardinality(Present)
      BY <1>5, <3>1
    <3>4. Cardinality(Got(j2)) = Cardinality(Present)
      BY <1>1, <2>4, <3>2, <3>3
    <3>5. QED
      BY <2>4, <3>2, <3>4, FS_Subset
  <2>9. l2 # "fetch" => \A x \in Present : <<x, remote[x]>> \in Ahead(j2, l2)
    BY <2>5, <2>6, <2>8
  <2>10. l2 = "fetch" => Fetched(j2)
    BY <1>1, <1>5, <2>4, <2>5 DEF Fetched
  <2>11. QED
    BY <1>5, <2>1, <2>6, <2>7, <2>9, <2>10 DEF Pass, Complete, Writing
<1>6. ASSUME l = "fetch", l2 = "load", j2.seen = j.seen,
             NEW new \in Sorted({k \in Present : remote[k] > j.seen}),
             j2.left = [i \in DOMAIN new |-> <<new[i], remote[new[i]]>>]
      PROVE  Pass(j2, l2)
  <2>1. Pass(j, l) /\ j.seen = wm
    BY <1>6 DEF Pass
  <2> DEFINE ks == {k \in Present : remote[k] > wm}
  <2> ks \in SUBSET Keys
    BY DEF Present
  <2>2. Ahead(j2, l2) = Batch(j2) /\ l2 \notin Writing
    BY <1>6 DEF Ahead, Writing
  <2>3. /\ Len(j2.left) = Cardinality(ks)
        /\ \A i \in 1..Len(j2.left) : new[i] \in ks /\ j2.left[i] = <<new[i], remote[new[i]]>>
    BY <1>6, <2>1, AscendingSorted
  <2>4. \A e \in Batch(j2) : \E k \in ks : e = <<k, remote[k]>>
    BY <2>3 DEF Batch
  <2>5. \A k \in ks : Pending(<<k, remote[k]>>)
    BY <1>2 DEF Pending, RowsBehind
  <2>6. \A k \in ks : <<k, remote[k]>> \in Batch(j2)
    <3>1. new \in Sorted(ks)
      BY <1>6, <2>1
    <3>2. ASSUME NEW k \in ks PROVE \E i \in 1..Cardinality(ks) : new[i] = k
      <4>1. ks \in SUBSET Keys
        OBVIOUS
      <4> HIDE DEF ks
      <4>2. QED
        BY <3>1, <4>1, ListedAll
    <3>3. ASSUME NEW k \in ks PROVE <<k, remote[k]>> \in Batch(j2)
      <4>1. PICK i \in 1..Cardinality(ks) : new[i] = k
        BY <3>2
      <4>2. i \in 1..Len(j2.left) /\ j2.left[i] = <<k, remote[k]>>
        BY <2>3, <4>1
      <4>3. QED
        BY <4>2 DEF Batch
    <3>4. QED
      BY <3>3
  <2>7. \A k \in Present : Excused(k) \/ <<k, remote[k]>> \in Batch(j2)
    <3>1. ASSUME NEW k \in Present PROVE Excused(k) \/ <<k, remote[k]>> \in Batch(j2)
      <4>1. remote[k] \in Nat
        BY <1>2 DEF Present
      <4>2. remote[k] <= wm \/ remote[k] > wm
        BY <1>1, <4>1
      <4>3. QED
        BY <2>6, <4>2 DEF Complete
    <3>2. QED
      BY <3>1
  <2>8. QED
    BY <1>6, <2>1, <2>2, <2>4, <2>5, <2>7 DEF Pass, Complete, Writing
<1>7. ASSUME l = "load", l2 = "next", j2.left = j.left, j2.seen = j.seen,
             j2.new \in {wm, j.seen}
      PROVE  Pass(j2, l2)
  <2>1. Pass(j, l) /\ j.seen = wm /\ j2.new = wm
    BY <1>7 DEF Pass
  <2>2. Ahead(j2, l2) = Ahead(j, l) /\ l2 \notin Writing
    BY <1>7 DEF Ahead, Batch, Writing
  <2>3. /\ \A e \in Ahead(j, l) : Pending(e)
        /\ \A e \in Ahead(j, l) : Complete(e[2], Ahead(j, l))
    BY <1>7, <2>1 DEF Pass
  <2>4. \A e \in Ahead(j2, l2) : e[2] >= j2.new
    <3>1. ASSUME NEW e \in Ahead(j2, l2) PROVE e[2] >= j2.new
      <4>1. e \in Batch(j)
        BY <1>7, <2>2, <3>1 DEF Ahead, Writing
      <4>2. e \in Keys \X Cursors
        BY <1>1, <4>1 DEF Batch
      <4>3. e[2] \in Nat
        BY <1>1, <4>2
      <4>4. QED
        BY <1>1, <2>1, <2>2, <2>3, <4>3 DEF Pending
    <3>2. QED
      BY <3>1
  <2>5. Complete(j2.new, Ahead(j2, l2))
    BY <2>1 DEF Complete
  <2>6. QED
    BY <1>7, <2>1, <2>2, <2>3, <2>4, <2>5 DEF Pass, Writing
<1>8. ASSUME l = "next", l2 \in {"find", "number"}, j.left # <<>>,
             j2.left = Tail(j.left), <<j2.key, j2.cursor>> = Head(j.left),
             j2.seen = j.seen, j2.new = j.new
      PROVE  Pass(j2, l2)
  <2>1. Pass(j, l)
    BY <1>8
  <2>2. Batch(j) = Batch(j2) \cup {<<j2.key, j2.cursor>>}
    BY <1>1, <1>8, BatchTail
  <2>3. Ahead(j2, l2) = Ahead(j, l)
    BY <1>8, <2>2 DEF Ahead, Writing
  <2>4. \A i \in 1..Len(j2.left) : j2.cursor <= j2.left[i][2]
    <3>1. \A i \in 1..Len(Tail(j.left)) : Head(j.left)[2] <= Tail(j.left)[i][2]
      BY <1>1, <1>8, AscendingTail
    <3>2. Head(j.left)[2] = j2.cursor
      <4>1. <<j2.key, j2.cursor>>[2] = j2.cursor
        OBVIOUS
      <4>2. QED
        BY <1>8, <4>1
    <3>3. QED
      BY <1>8, <3>1, <3>2
  <2>5. QED
    BY <1>8, <2>1, <2>3, <2>4 DEF Pass
<1>9. ASSUME l \in Writing, l2 \in Writing, Same(j, j2), l2 = "update" => rows[j2.hit].key = j.key
      PROVE  Pass(j2, l2)
  <2>1. Pass(j, l) /\ l \notin {"fetch", "load", "idle"}
    BY <1>9 DEF Writing
  <2>2. Ahead(j2, l2) = Ahead(j, l)
    BY <1>9 DEF Ahead, Batch, Same
  <2>3. QED
    BY <1>9, <2>1, <2>2 DEF Pass, Same, Writing
<1>10. CASE l = "find" /\ l2 = "update" /\ Same(j, j2) /\ j2.hit \in Matching(j.key)
  BY <1>9, <1>10 DEF Matching, Writing
<1>11. CASE l \in Writing /\ l2 \in Writing \ {"update"} /\ Same(j, j2)
  BY <1>9, <1>11
<1>12. QED
  BY <1>1, <1>3, <1>4, <1>5, <1>6, <1>7, <1>8, <1>10, <1>11 DEF PullReads

\* The record a pass is at, once written or logged as failed, is settled, and no
\* other is unsettled by it.
LEMMA WrittenSettles ==
  ASSUME TypeInv, UNCHANGED <<remote, late>>, RowsBehind, NEW j, NEW l, l \in Writing, Pass(j, l),
         JobOK(env, j, l, Len(rows)), j.key \in Keys,
         Written(j, l), failed' = failed
  PROVE  /\ RowsBehind'
         /\ \A k \in Present :
               Excused(k) \/ <<k, remote[k]>> = <<j.key, j.cursor>> => Excused(k)'
         /\ wm' = wm => \A e \in Batch(j) : Pending(e)'
<1>1. Pending(<<j.key, j.cursor>>)
  BY DEF Pass, Ahead
<1>2. /\ j.cursor <= remote[j.key] /\ j.cursor \in Nat
      /\ \A i \in 1..Len(rows) : rows[i].key = j.key => rows[i].cursor <= j.cursor
  <2>1. <<j.key, j.cursor>>[1] = j.key /\ <<j.key, j.cursor>>[2] = j.cursor
    OBVIOUS
  <2>2. QED
    BY <1>1, <2>1 DEF Pending, JobOK
<1>3. l = "update" => rows[j.hit].key = j.key
  BY DEF Pass
<1>4. /\ Len(rows) \in Nat /\ \A i \in 1..Len(rows) : rows[i].cursor \in Nat
      /\ \A k \in Keys : remote[k] \in Nat
  <2>1. rows \in Seq(Records) /\ remote \in [Keys -> Cursors]
    BY DEF TypeInv
  <2>2. Len(rows) \in Nat /\ \A i \in 1..Len(rows) : rows[i] \in Records
    BY <2>1
  <2>3. \A i \in 1..Len(rows) : rows[i].cursor \in Nat
    BY <2>2, IntakeAssumption DEF Records, Cursors
  <2>4. \A k \in Keys : remote[k] \in Nat
    BY <2>1, IntakeAssumption DEF Cursors
  <2>5. QED
    BY <2>2, <2>3, <2>4
\* Where each row comes from, and where the record has gone.
<1>5. /\ Len(rows') \in Nat
      /\ \A i \in 1..Len(rows') :
            \/ rows'[i].key = j.key /\ rows'[i].cursor = j.cursor
            \/ i \in 1..Len(rows) /\ rows'[i].key = rows[i].key /\ rows'[i].cursor = rows[i].cursor
      /\ \E i \in 1..Len(rows') : rows'[i].key = j.key /\ rows'[i].cursor = j.cursor
      /\ \A i \in 1..Len(rows) :
            i \in 1..Len(rows') /\ rows'[i].key = rows[i].key
            /\ (rows'[i].cursor = rows[i].cursor
                  \/ (rows[i].key = j.key /\ rows'[i].cursor = j.cursor))
  <2>1. CASE l = "insert"
    <3>1. /\ Len(rows') = Len(rows) + 1
          /\ \A i \in 1..Len(rows) : rows'[i] = rows[i]
          /\ rows'[Len(rows) + 1].key = j.key /\ rows'[Len(rows) + 1].cursor = j.cursor
      BY <2>1 DEF Written
    <3>2. \A i \in 1..Len(rows') : i = Len(rows) + 1 \/ i \in 1..Len(rows)
      BY <1>4, <3>1
    <3>3. Len(rows) + 1 \in 1..Len(rows') /\ 1..Len(rows) \subseteq 1..Len(rows')
      BY <1>4, <3>1
    <3>4. QED
      BY <1>4, <3>1, <3>2, <3>3
  <2>2. CASE l = "update"
    <3>1. /\ Len(rows') = Len(rows) /\ j.hit \in 1..Len(rows)
          /\ \A i \in 1..Len(rows) :
                /\ rows'[i].key = rows[i].key
                /\ rows'[i].cursor = IF i = j.hit THEN j.cursor ELSE rows[i].cursor
      BY <2>2 DEF Written
    <3>2. QED
      BY <1>3, <1>4, <2>2, <3>1
  <2>3. QED
    BY <2>1, <2>2 DEF Written
<1>6. RowsBehind'
  BY <1>2, <1>5 DEF RowsBehind
<1>7. ASSUME NEW k \in Present, Excused(k) \/ <<k, remote[k]>> = <<j.key, j.cursor>>
      PROVE  Excused(k)'
  <2>1. CASE <<k, remote[k]>> = <<j.key, j.cursor>>
    <3>1. k = j.key /\ remote[k] = j.cursor
      BY <2>1
    <3>2. QED
      BY <1>5, <3>1 DEF Excused, Settled, UpToDate, Matching
  <2>2. CASE <<k, remote[k]>> \in failed \/ <<k, remote[k]>> \in late
    BY <2>2 DEF Excused, Settled
  <2>3. CASE UpToDate(k)
    <3>1. PICK i \in 1..Len(rows) : rows[i].key = k /\ rows[i].cursor = remote[k]
      BY <2>3 DEF UpToDate, Matching
    <3>2. rows'[i].cursor = remote[k]
      <4>1. CASE rows[i].key = j.key /\ rows'[i].cursor = j.cursor
        <5>1. k = j.key /\ remote[k] <= j.cursor /\ j.cursor <= remote[k] /\ remote[k] \in Nat
          BY <1>2, <1>4, <3>1, <4>1
        <5>2. QED
          BY <1>2, <4>1, <5>1
      <4>2. QED
        BY <1>5, <3>1, <4>1
    <3>3. i \in 1..Len(rows') /\ rows'[i].key = k
      BY <1>5, <3>1
    <3>4. QED
      BY <3>2, <3>3 DEF Excused, Settled, UpToDate, Matching
  <2>4. QED
    BY <1>7, <2>1, <2>2, <2>3 DEF Excused, Settled
<1>8. ASSUME wm' = wm, NEW e \in Batch(j) PROVE Pending(e)'
  <2>1. Pending(e)
    BY DEF Pass, Ahead
  <2>2. j.cursor <= e[2]
    BY DEF Pass, Batch
  <2>3. QED
    BY <1>5, <1>8, <2>1, <2>2 DEF Pending
<1>9. QED
  BY <1>6, <1>7, <1>8

\* Where nothing is written, what a pass has stays as it is.
LEMMA PassKept ==
  ASSUME UNCHANGED <<remote, late, wm, rows, failed>>, NEW j, NEW l
  PROVE  /\ Pass(j, l) => Pass(j, l)'
         /\ RowsBehind => RowsBehind'
         /\ Complete(wm, {}) => Complete(wm, {})'
<1>1. ASSUME NEW c, NEW b, Complete(c, b) PROVE Complete(c, b)'
  BY <1>1 DEF Complete, Excused, Settled, UpToDate, Matching, Present
<1>2. ASSUME NEW e PROVE Pending(e) => Pending(e)'
  BY DEF Pending
<1>3. PICK ahead : ahead = Ahead(j, l)
  OBVIOUS
<1>4. Fetched(j) => Fetched(j)'
  BY DEF Fetched, Got, Batch, Present
<1>5. Pass(j, l) => Pass(j, l)'
  <2> SUFFICES ASSUME Pass(j, l) PROVE Pass(j, l)'
    OBVIOUS
  <2>1. /\ \A e \in ahead : Pending(e)'
        /\ l # "fetch" => \A e \in ahead : Complete(e[2], ahead)'
        /\ l \notin {"fetch", "load"} => Complete(j.new, ahead)' /\ \A e \in ahead : e[2] >= j.new
    BY <1>1, <1>2, <1>3 DEF Pass
  <2>2. /\ j.seen = wm'
        /\ l = "fetch" => Fetched(j)'
        /\ l \in Writing => \A i \in 1..Len(j.left) : j.cursor <= j.left[i][2]
        /\ l = "update" => rows'[j.hit].key = j.key
    BY <1>4 DEF Pass
  <2>3. QED
    BY <1>3, <2>1, <2>2 DEF Pass, Ahead, Batch
<1>6. RowsBehind => RowsBehind'
  BY DEF RowsBehind
<1>7. Complete(wm, {}) => Complete(wm, {})'
  BY DEF Complete, Excused, Settled, UpToDate, Matching, Present
<1>8. QED
  BY <1>5, <1>6, <1>7

\* A change of the peer's is newer than all before but those of its instant; if
\* a pass has come to that, the change is late.
LEMMA PeerMovesOn ==
  ASSUME TypeInv, RowsBehind, NEW k0 \in Keys, NEW c0 \in {LastCursor, LastCursor + 1}, c0 > 0,
         remote' = [remote EXCEPT ![k0] = c0],
         late' = IF CameTo(c0) THEN late \cup {<<k0, c0>>} ELSE late,
         UNCHANGED <<wm, rows, failed>>
  PROVE  /\ RowsBehind'
         /\ \A c, b : (c0 <= c => CameTo(c0)) /\ Complete(c, b) => Complete(c, b)'
         /\ \A e \in Keys \X Nat : Pending(e) => Pending(e)'
<1>1. /\ LastCursor \in Nat /\ c0 \in Nat
      /\ \A k \in Keys : remote[k] \in Nat /\ remote[k] <= LastCursor
  <2>1. remote \in [Keys -> Cursors] /\ Cursors \subseteq Nat
    BY IntakeAssumption DEF TypeInv, Cursors
  <2>2. LastCursor \in Nat /\ \A k \in Keys : remote[k] \in Nat /\ remote[k] <= LastCursor
    BY <2>1, LastCursorIs
  <2>3. QED
    BY <2>2
<1>2. \A k \in Keys : remote'[k] = IF k = k0 THEN c0 ELSE remote[k]
  BY DEF TypeInv
<1>3. \A k \in Keys : remote[k] <= remote'[k] /\ remote'[k] \in Nat
  BY <1>1, <1>2
<1>4. \A i \in 1..Len(rows) : rows[i].cursor \in Nat
  <2>1. \A i \in 1..Len(rows) : rows[i] \in Records
    BY DEF TypeInv
  <2>2. QED
    BY <2>1 DEF Records
<1>5. RowsBehind'
  <2>1. ASSUME NEW i \in 1..Len(rows)
        PROVE  rows[i].key \in Keys /\ rows[i].cursor <= remote'[rows[i].key]
    <3>1. rows[i].key \in Keys /\ rows[i].cursor <= remote[rows[i].key]
      BY DEF RowsBehind
    <3>2. QED
      BY <1>1, <1>3, <1>4, <3>1
  <2>2. QED
    BY <2>1 DEF RowsBehind
<1>6. ASSUME NEW c, NEW b, c0 <= c => CameTo(c0), Complete(c, b) PROVE Complete(c, b)'
  <2>1. ASSUME NEW k \in Keys, remote'[k] > 0, remote'[k] <= c
        PROVE  Excused(k)' \/ <<k, remote'[k]>> \in b
    <3>1. CASE k = k0
      <4>1. remote'[k] = c0 /\ CameTo(c0)
        BY <1>2, <1>6, <2>1, <3>1
      <4>2. QED
        BY <3>1, <4>1 DEF Excused
    <3>2. CASE k # k0
      <4>1. remote'[k] = remote[k]
        BY <1>2, <3>2
      <4>2. k \in Present /\ remote[k] <= c
        BY <2>1, <4>1 DEF Present
      <4>3. Excused(k) => Excused(k)'
        BY <4>1 DEF Excused, Settled, UpToDate, Matching
      <4>4. QED
        BY <1>6, <4>1, <4>2, <4>3 DEF Complete
    <3>3. QED
      BY <3>1, <3>2
  <2>2. QED
    BY <2>1 DEF Complete, Present
<1>7. ASSUME NEW e \in Keys \X Nat, Pending(e) PROVE Pending(e)'
  <2>1. e[1] \in Keys /\ e[2] \in Nat /\ e[2] <= remote[e[1]]
    BY <1>7 DEF Pending
  <2>2. e[2] <= remote'[e[1]]
    BY <1>1, <1>3, <2>1
  <2>3. QED
    BY <1>7, <2>1, <2>2 DEF Pending
<1>8. QED
  BY <1>5, <1>6, <1>7

LEMMA PassOf ==
  ASSUME NEW w \in Workers, NEW j, NEW l, j = job'[w], l = pc'[w], Pass(j, l)'
  PROVE  Pass(job[w], pc[w])'
<1>1. Ahead(job[w], pc[w])' = Ahead(j, l) /\ Batch(job[w])' = Batch(j) /\ Got(job[w])' = Got(j)
  BY DEF Ahead, Batch, Got
<1>2. Fetched(j)' => Fetched(job[w])'
  BY <1>1 DEF Fetched, Got, Batch
<1>3. Complete(j.new, Ahead(j, l))' => Complete(job[w].new, Ahead(job[w], pc[w]))'
  BY <1>1 DEF Complete, Ahead, Batch
<1>4. ASSUME NEW e, Complete(e[2], Ahead(j, l))' PROVE Complete(e[2], Ahead(job[w], pc[w]))'
  BY <1>1, <1>4 DEF Complete, Ahead, Batch
<1>5. QED
  BY <1>1, <1>2, <1>3, <1>4 DEF Pass

LEMMA PullNext ==
  ASSUME TypeInv, Fresh, Alone, PeerInv, OrderInv, PullInv, [Next]_vars
  PROVE  PullInv'
<1>1. ASSUME Calm
      PROVE  /\ env.door = "pull" /\ ~May("overlap") /\ ~May("drift") /\ ~May("deletes")
             /\ Incoming(env) = Keys
             /\ RowsBehind /\ Complete(wm, {})
             /\ \A w \in Workers : pc[w] # "idle" => Pass(job[w], pc[w])
             /\ \A w \in Workers : Ascending(job[w].left)
  BY <1>1 DEF Calm, May, Incoming, PullInv, OrderInv, InOrder
<1>2. ASSUME Calm, NEW w \in Workers
      PROVE  /\ JobOK(env, job[w], pc[w], Len(rows))
             /\ job[w].left \in Seq(Keys \X Cursors)
             /\ \A i \in 1..Len(job[w].left) : job[w].left[i] \in Keys \X Nat
             /\ job[w].cursor \in Nat /\ job[w].new \in Nat
             /\ pc[w] \in Writing => job[w].key \in Keys
             /\ \A e \in Ahead(job[w], pc[w]) : e \in Keys \X Nat
  <2>1. JobOK(env, job[w], pc[w], Len(rows)) /\ Incoming(env) = Keys /\ Cursors \subseteq Nat
    BY <1>1, <1>2, IntakeAssumption DEF TypeInv, Cursors
  <2>2. /\ job[w].left \in Seq(Keys \X Cursors) /\ job[w].cursor \in Nat /\ job[w].new \in Nat
        /\ pc[w] \in Writing => job[w].key \in Keys
    BY <2>1 DEF JobOK, Writing
  <2>3. \A i \in 1..Len(job[w].left) : job[w].left[i] \in Keys \X Nat
    <3>1. \A i \in 1..Len(job[w].left) : job[w].left[i] \in Keys \X Cursors
      BY <2>2
    <3>2. QED
      BY <2>1, <3>1
  <2>4. QED
    BY <2>1, <2>2, <2>3 DEF Ahead, Batch
<1>3. ASSUME NEW w \in Workers, Step(w) \/ Crash(w) PROVE PullInv'
  <2>1. env' = env /\ remote' = remote /\ late' = late
    BY <1>3, Moves, RestMoves
  <2>2. SUFFICES ASSUME Calm PROVE PullInv'
    BY <2>1 DEF PullInv, Calm
  <2>3. \A v \in Workers \ {w} : pc'[v] = "idle"
    BY <1>1, <1>3, <2>2, OthersRest
  <2>4. PICK j, j2 : j = job[w] /\ j2 = job'[w]
    OBVIOUS
  <2>5. PICK l, l2 : l = pc[w] /\ l2 = pc'[w]
    OBVIOUS
  <2>6. PullMoves(j, l, j2, l2)
    BY <1>1, <1>3, <2>2, <2>4, <2>5, PullStep
  <2>7. /\ RowsBehind /\ Complete(wm, {})
        /\ l = "idle" => j = NewJob
        /\ l # "idle" => Pass(j, l)
        /\ Ascending(j.left)
    BY <1>1, <2>2, <2>4, <2>5 DEF Fresh
  <2>8. SUFFICES /\ RowsBehind' /\ Complete(wm, {})'
                 /\ l2 # "idle" => Pass(j2, l2)'
    <3>1. Pass(j2, l2)' => Pass(job[w], pc[w])'
      BY <2>4, <2>5, PassOf
    <3>2. QED
      BY <2>3, <2>5, <3>1 DEF PullInv
  <2>9. CASE PullReads(j, l, j2, l2) /\ UNCHANGED <<wm, rows, failed>>
    <3>1. Pass(j2, l2)
      BY <1>2, <2>2, <2>4, <2>5, <2>7, <2>9, PassGoesOn
    <3>2. QED
      BY <2>1, <2>7, <2>9, <3>1, PassKept
  <2>10. CASE l2 = "idle" /\ UNCHANGED <<wm, rows, failed>>
    BY <2>1, <2>7, <2>10, PassKept
  <2>11. CASE /\ l = "next" /\ l2 = "idle" /\ j.left = <<>> /\ wm' \in {wm, j.new}
              /\ UNCHANGED <<rows, failed>>
    <3>1. Complete(j.new, Ahead(j, l))
      BY <2>7, <2>11 DEF Pass
    <3>2. Ahead(j, l) = {}
      <4>1. Batch(j) = {}
        BY <2>11, EmptyBatch
      <4>2. QED
        BY <2>11, <4>1 DEF Ahead, Writing
    <3>3. QED
      BY <2>1, <2>7, <2>11, <3>1, <3>2 DEF Complete, Excused, Settled, UpToDate, Matching, Present,
         RowsBehind
  <2>12. CASE /\ l \in Writing /\ l2 = "next" /\ j2 = j
              /\ failed' = failed \cup {<<j.key, j.cursor>>} /\ UNCHANGED <<wm, rows>>
    <3>1. Pass(j, l) /\ l \notin {"idle", "fetch", "load"}
      BY <2>7, <2>12 DEF Writing
    <3>2. PICK current : current = <<j.key, j.cursor>>
      OBVIOUS
    <3>3. Ahead(j, l) = Batch(j) \cup {current} /\ Ahead(j2, l2) = Batch(j)
      BY <2>12, <3>2 DEF Ahead, Writing
    <3>4. \A k \in Present : Excused(k) \/ <<k, remote[k]>> = current => Excused(k)'
      BY <2>1, <2>12, <3>2 DEF Excused, Settled, UpToDate, Matching
    <3>5. Present' = Present
      BY <2>1 DEF Present
    <3>6. \A c : Complete(c, Ahead(j, l)) => Complete(c, Batch(j))'
      BY <2>1, <3>3, <3>4, <3>5 DEF Complete, Batch
    <3>7. Complete(wm, {})'
      <4>1. \A k \in Present : remote[k] <= wm => Excused(k)'
        BY <2>7, <3>4 DEF Complete
      <4>2. QED
        BY <2>1, <2>12, <3>5, <4>1 DEF Complete
    <3>8. Complete(j.new, Batch(j))' /\ \A e \in Batch(j) : Complete(e[2], Batch(j))'
      BY <3>1, <3>3, <3>6 DEF Pass
    <3>9. \A e \in Batch(j) : Pending(e)' /\ e[2] >= j.new
      BY <2>1, <2>12, <3>1, <3>3 DEF Pass, Pending
    <3>10. RowsBehind' /\ j.seen = wm'
      BY <2>1, <2>7, <2>12, <3>1 DEF Pass, RowsBehind
    <3>11. Pass(j2, l2)'
      BY <2>12, <3>3, <3>7, <3>8, <3>9, <3>10 DEF Pass, Writing, Ahead, Batch
    <3>12. QED
      BY <3>7, <3>10, <3>11
  <2>13. CASE /\ l \in Writing /\ l2 = "next" /\ j2.left = j.left /\ j2.seen = j.seen
              /\ j2.new = Max({j.new, j.cursor}) /\ Written(j, l) /\ UNCHANGED <<wm, failed>>
    <3>1. Pass(j, l) /\ l \notin {"idle", "fetch", "load"}
      BY <2>7, <2>13 DEF Writing
    <3>2. PICK current : current = <<j.key, j.cursor>>
      OBVIOUS
    <3>3. /\ Ahead(j, l) = Batch(j) \cup {current} /\ Ahead(j2, l2) = Batch(j)
          /\ Batch(j2) = Batch(j)
      BY <2>13, <3>2 DEF Ahead, Batch, Writing
    <3>4. /\ RowsBehind'
          /\ \A k \in Present : Excused(k) \/ <<k, remote[k]>> = current => Excused(k)'
          /\ \A e \in Batch(j) : Pending(e)'
      BY <1>2, <2>1, <2>2, <2>4, <2>5, <2>7, <2>13, <3>1, <3>2, WrittenSettles
    <3>5. Present' = Present
      BY <2>1 DEF Present
    <3>6. current[1] = j.key /\ current[2] = j.cursor /\ current \in Ahead(j, l)
      BY <3>2, <3>3
    <3>7. j2.new = j.cursor
      <4>1. j.cursor >= j.new
        BY <3>1, <3>6 DEF Pass
      <4>2. j.cursor \in Nat /\ j.new \in Nat
        BY <1>2, <2>2, <2>4
      <4>3. QED
        BY <2>13, <4>1, <4>2, MaxOfTwo
    <3>8. \A e \in Batch(j) : e[2] >= j.cursor
      <4>1. \A i \in 1..Len(j.left) : j.cursor <= j.left[i][2] /\ j.left[i] \in Keys \X Nat
        BY <1>2, <2>2, <2>4, <2>13, <3>1 DEF Pass
      <4>2. j.cursor \in Nat
        BY <1>2, <2>2, <2>4
      <4>3. QED
        BY <4>1, <4>2 DEF Batch
    <3>9. Complete(wm, {})'
      <4>1. \A k \in Present : remote[k] <= wm => Excused(k)'
        BY <2>7, <3>4 DEF Complete
      <4>2. QED
        BY <2>1, <2>13, <3>5, <4>1 DEF Complete
    <3>10. Complete(j2.new, Batch(j))' /\ \A e \in Batch(j) : Complete(e[2], Batch(j))'
      <4>1. \A c : Complete(c, Ahead(j, l)) => Complete(c, Batch(j))'
        BY <2>1, <3>3, <3>4, <3>5 DEF Complete, Batch
      <4>2. Complete(j.cursor, Ahead(j, l))
        BY <3>1, <3>6 DEF Pass
      <4>3. Complete(j.cursor, Batch(j))'
        BY <4>1, <4>2
      <4>4. Complete(j2.new, Batch(j))'
        BY <3>7, <4>3 DEF Complete
      <4>5. QED
        BY <3>1, <3>3, <4>1, <4>4 DEF Pass
    <3>11. j2.seen = wm'
      BY <2>13, <3>1 DEF Pass
    <3>12. Pass(j2, l2)'
      BY <2>13, <3>3, <3>4, <3>7, <3>8, <3>9, <3>10, <3>11 DEF Pass, Writing, Ahead, Batch
    <3>13. QED
      BY <3>4, <3>9, <3>11, <3>12
  <2>14. QED
    BY <2>6, <2>9, <2>10, <2>11, <2>12, <2>13 DEF PullMoves
<1>4. CASE RemoteWrite
  <2>1. /\ UNCHANGED <<env, pc, job, wm, rows, failed>>
        /\ May("drift") \/ \A w \in Workers : pc[w] # "fetch"
    BY <1>4 DEF RemoteWrite, table
  <2>2. SUFFICES ASSUME Calm PROVE PullInv'
    BY <2>1 DEF PullInv, Calm
  <2>3. PICK k0 \in Keys, c0 \in {LastCursor, LastCursor + 1} \cap 1..MaxCursor :
          /\ remote' = [remote EXCEPT ![k0] = c0]
          /\ late' = IF CameTo(c0) THEN late \cup {<<k0, c0>>} ELSE late
    BY <1>4 DEF RemoteWrite
  <2>4. /\ RowsBehind'
        /\ \A c, b : (c0 <= c => CameTo(c0)) /\ Complete(c, b) => Complete(c, b)'
        /\ \A e \in Keys \X Nat : Pending(e) => Pending(e)'
    <3>1. c0 \in {LastCursor, LastCursor + 1} /\ c0 > 0 /\ RowsBehind
          /\ UNCHANGED <<wm, rows, failed>>
      BY <1>1, <2>1, <2>2
    <3>2. QED
      BY <2>3, <3>1, PeerMovesOn
  <2>5. Complete(wm, {})'
    <3>1. PICK c : c = wm
      OBVIOUS
    <3>2. Complete(c, {})'
      BY <1>1, <2>2, <2>4, <3>1 DEF CameTo
    <3>3. QED
      BY <2>1, <3>1, <3>2 DEF Complete
  <2>6. ASSUME NEW w \in Workers, pc[w] # "idle" PROVE Pass(job[w], pc[w])'
    <3>1. PICK j, l : j = job[w] /\ l = pc[w]
      OBVIOUS
    <3>2. Pass(j, l) /\ l # "fetch"
      BY <1>1, <2>1, <2>2, <2>6, <3>1
    <3>3. PICK ahead : ahead = Ahead(j, l)
      OBVIOUS
    <3>4. ASSUME NEW e \in ahead
          PROVE  /\ Pending(e)'
                 /\ Complete(e[2], ahead)'
      <4>1. e \in Keys \X Nat
        BY <1>2, <2>2, <3>1, <3>3
      <4>2. Pending(e) /\ Complete(e[2], ahead)
        BY <3>2, <3>3 DEF Pass
      <4>3. c0 <= e[2] => CameTo(c0)
        <5>1. CASE e \in Batch(j)
          BY <3>1, <5>1 DEF Batch, CameTo
        <5>2. CASE e = <<j.key, j.cursor>>
          <6>1. e[2] = job[w].cursor
            BY <3>1, <5>2
          <6>2. QED
            BY <6>1 DEF CameTo
        <5>3. QED
          BY <3>3, <5>1, <5>2 DEF Ahead
      <4>4. QED
        BY <2>4, <4>1, <4>2, <4>3
    <3>5. l # "load" => Complete(j.new, ahead)' /\ \A e \in ahead : e[2] >= j.new
      <4>1. c0 <= j.new => CameTo(c0)
        BY <3>1 DEF CameTo
      <4>2. QED
        BY <2>4, <3>2, <3>3, <4>1 DEF Pass
    <3>6. /\ j.seen = wm'
          /\ l \in Writing => \A i \in 1..Len(j.left) : j.cursor <= j.left[i][2]
          /\ l = "update" => rows'[j.hit].key = j.key
      BY <2>1, <3>2 DEF Pass
    <3>7. Pass(j, l)'
      BY <3>2, <3>3, <3>4, <3>5, <3>6 DEF Pass, Ahead, Batch
    <3>8. j = job'[w] /\ l = pc'[w]
      BY <2>1, <3>1
    <3>9. QED
      BY <3>7, <3>8, PassOf
  <2>7. QED
    BY <2>1, <2>4, <2>5, <2>6 DEF PullInv
<1>5. CASE RemoteDelete
  BY <1>1, <1>5 DEF RemoteDelete, PullInv, Calm
<1>6. CASE Tick
  BY <1>6 DEF Tick, outside, PullInv, Calm
<1>7. CASE UNCHANGED vars
  <2>1. UNCHANGED <<env, remote, late, wm, rows, failed, pc, job>>
    BY <1>7 DEF vars
  <2>2. SUFFICES ASSUME Calm PROVE PullInv'
    BY <2>1 DEF PullInv, Calm
  <2>3. ASSUME NEW w \in Workers, pc[w] # "idle" PROVE Pass(job[w], pc[w])'
    <3>1. PICK j, l : j = job[w] /\ l = pc[w]
      OBVIOUS
    <3>2. Pass(j, l)'
      BY <1>1, <2>1, <2>2, <2>3, <3>1, PassKept
    <3>3. j = job'[w] /\ l = pc'[w]
      BY <2>1, <3>1
    <3>4. QED
      BY <3>2, <3>3, PassOf
  <2>4. RowsBehind' /\ Complete(wm, {})'
    BY <1>1, <2>1, <2>2, PassKept
  <2>5. QED
    BY <2>1, <2>3, <2>4 DEF PullInv
<1>8. QED
  BY <1>3, <1>4, <1>5, <1>6, <1>7 DEF Next

\* What a pull takes in is complete, and it goes oldest first.
THEOREM PullCompleteHolds == Spec => []PullComplete
<1>1. Init => PeerInv /\ OrderInv /\ PullInv
  <2> SUFFICES ASSUME Init PROVE PeerInv /\ OrderInv /\ PullInv
    OBVIOUS
  <2>1. /\ \A k \in Keys : remote[k] = 0
        /\ Present = {} /\ wm = 0 /\ rows = <<>>
        /\ \A w \in Workers : pc[w] = "idle" /\ job[w].left = <<>>
    BY DEF Init, Present, NewJob
  <2>2. QED
    BY <2>1, NothingCollected DEF PeerInv, OrderInv, InOrder, Before, PullInv, RowsBehind,
       Complete
<1>2. TypeInv /\ PeerInv /\ [Next]_vars => PeerInv'
  BY PeerNext
<1>3. TypeInv /\ Fresh /\ PeerInv /\ OrderInv /\ [Next]_vars => OrderInv'
  BY OrderNext
<1>4. TypeInv /\ Fresh /\ Alone /\ PeerInv /\ OrderInv /\ PullInv /\ [Next]_vars => PullInv'
  BY PullNext
<1>5. PeerInv /\ OrderInv /\ PullInv => PullComplete
  <2> SUFFICES ASSUME PeerInv, OrderInv, PullInv PROVE PullComplete
    OBVIOUS
  <2>1. NothingMissed
    <3>1. CASE env.door = "pull"
      BY <3>1 DEF NothingMissed, PullInv, Calm, Complete, Excused, Settled
    <3>2. CASE env.door # "pull"
      BY <3>2 DEF NothingMissed, PeerInv, Present
    <3>3. QED
      BY <3>1, <3>2
  <2>2. OldestFirst
    BY DEF OldestFirst, OrderInv, InOrder
  <2>3. QED
    BY <2>1, <2>2 DEF PullComplete
<1>6. QED
  BY <1>1, <1>2, <1>3, <1>4, <1>5, TypeCorrect, FreshInvariant, AloneInvariant, PTL DEF Spec
=============================================================================
