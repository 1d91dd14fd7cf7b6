-------------------------- MODULE ApprovalsProofs --------------------------
(***************************************************************************)
(* Proofs about Approvals, for any workflow, step configuration, number of *)
(* workers and kind of database server: signatures; what decisions rest on *)
(* and the promise of SignOff that the handlers implement on a server that *)
(* refuses stale writes; and what holds where one handler runs at a time.  *)
(***************************************************************************)
EXTENDS Approvals, TLAPS

\* The variables have their types: rows, handlers and snapshots are well formed.
THEOREM TypeCorrect == Spec => []TypeOK
<1> USE StepsAssumption, OtherAssumption
<1>1. Init => TypeOK
  <2>1. NoMove \in Moves
    BY DEF NoMove, Moves, Values
  <2>2. QED
    BY <2>1 DEF Init, TypeOK, Values
<1>2. TypeOK /\ [Next]_vars => TypeOK'
  <2> SUFFICES ASSUME TypeOK, [Next]_vars PROVE TypeOK'
    OBVIOUS
  <2> USE DEF TypeOK
  <2>1. ASSUME NEW w \in Workers, NEW u \in Users, NEW q \in Requests, ActBegin(w, u, q)
        PROVE TypeOK'
    <3>1. Signed(q) \subseteq Steps
      BY DEF Signed, Action
    <3>2. [user |-> u, req |-> q, pos |-> pos[q], signed |-> Signed(q), steps |-> live] \in ActJob
      BY <3>1 DEF ActJob
    <3>3. QED
      BY <2>1, <3>2 DEF ActBegin
  <2>2. ASSUME NEW w \in Workers, NEW u \in Users, NEW r \in Records, NEW to \in Values,
               EditBegin(w, u, r, to)
        PROVE TypeOK'
    <3>1. [user |-> u, rec |-> r, to |-> to, old |-> Blank,
           steps |-> live, pending |-> PendingMoves] \in EditJob
      BY DEF EditJob, PendingMoves, Values
    <3>2. QED
      BY <2>2, <3>1 DEF EditBegin
  <2>3. ASSUME NEW w \in Workers, NEW s \in Steps, AddStep(w, s) \/ DeleteStep(w, s)
        PROVE TypeOK'
    BY <2>3 DEF AddStep, DeleteStep
  <2>4. ASSUME NEW w \in Workers, Finish(w)
        PROVE pc' \in [Workers -> {"idle", "acting", "applying", "reading", "writing", "requesting"}]
              /\ job' \in [Workers -> ActJob \cup EditJob \cup {NoJob}]
              /\ \A v \in Workers :
                   /\ pc'[v] \in {"acting", "applying"} => job'[v] \in ActJob
                   /\ pc'[v] \in {"reading", "writing", "requesting"} => job'[v] \in EditJob
    BY <2>4 DEF Finish
  <2>5. ASSUME NEW j \in ActJob, NEW s \in Steps, NEW d \in {"approve", "reject"}, Record(j, s, d)
        PROVE actions' \in [Requests -> SUBSET Action]
    <3>1. j.req \in Requests /\ [step |-> s, user |-> j.user, decision |-> d] \in Action
      BY DEF ActJob, Action
    <3>2. actions' = [actions EXCEPT ![j.req] =
             @ \cup {[step |-> s, user |-> j.user, decision |-> d]}]
      BY <2>5 DEF Record
    <3>3. QED
      BY <3>1, <3>2
  <2>6. ASSUME NEW w \in Workers, Reject(w) PROVE TypeOK'
    <3>1. job[w] \in ActJob /\ job[w].req \in Requests /\ job[w].steps \subseteq Steps
      BY <2>6 DEF Reject, ActJob
    <3>2. actions' \in [Requests -> SUBSET Action]
      BY <2>5, <2>6, <3>1 DEF Reject
    <3>3. state' \in [Requests -> {"none", "pending", "approved", "rejected"}]
      BY <2>6, <3>1 DEF Reject
    <3>4. QED
      BY <2>4, <2>6, <3>2, <3>3 DEF Reject
  <2>7. ASSUME NEW w \in Workers, ApproveSibling(w) PROVE TypeOK'
    <3>1. job[w] \in ActJob /\ job[w].req \in Requests /\ job[w].steps \subseteq Steps
      BY <2>7 DEF ApproveSibling, ActJob
    <3>2. actions' \in [Requests -> SUBSET Action]
      BY <2>5, <2>7, <3>1 DEF ApproveSibling
    <3>3. QED
      BY <2>4, <2>7, <3>2 DEF ApproveSibling
  <2>8. ASSUME NEW w \in Workers, ApproveAdvance(w) PROVE TypeOK'
    <3>1. job[w] \in ActJob /\ job[w].req \in Requests /\ job[w].steps \subseteq Steps
      BY <2>8 DEF ApproveAdvance, ActJob
    <3>2. actions' \in [Requests -> SUBSET Action]
      BY <2>5, <2>8, <3>1 DEF ApproveAdvance
    <3>3. pos' \in [Requests -> Nat]
      <4>1. PICK p \in LaterPositions(job[w].steps, move[job[w].req], job[w].pos) :
              pos' = [pos EXCEPT ![job[w].req] = p]
        BY <2>8 DEF ApproveAdvance
      <4>2. p \in Nat
        <5>1. PICK s \in job[w].steps : p = Position[s]
          BY DEF LaterPositions, StepsFor
        <5>2. QED
          BY <3>1, <5>1
      <4>3. QED
        BY <3>1, <4>1, <4>2
    <3>4. QED
      BY <2>4, <2>8, <3>2, <3>3 DEF ApproveAdvance
  <2>9. ASSUME NEW w \in Workers, ApproveFinal(w) PROVE TypeOK'
    <3>1. job[w] \in ActJob /\ job[w].req \in Requests /\ job[w].steps \subseteq Steps
      BY <2>9 DEF ApproveFinal, ActJob
    <3>2. actions' \in [Requests -> SUBSET Action]
      BY <2>5, <2>9, <3>1 DEF ApproveFinal
    <3>3. state' \in [Requests -> {"none", "pending", "approved", "rejected"}]
      BY <2>9, <3>1 DEF ApproveFinal
    <3>4. QED
      BY <2>9, <3>1, <3>2, <3>3 DEF ApproveFinal
  <2>10. ASSUME NEW w \in Workers, Apply(w) PROVE TypeOK'
    <3>1. job[w].req \in Requests
      BY <2>10 DEF Apply, ActJob
    <3>2. status' \in [Records -> Values]
      BY <2>10, <3>1 DEF Apply, Moves
    <3>3. QED
      BY <2>4, <2>10, <3>1, <3>2 DEF Apply
  <2>11. ASSUME NEW w \in Workers, EditRead(w) PROVE TypeOK'
    <3>1. [job EXCEPT ![w].old = status[job[w].rec]][w] \in EditJob
      BY <2>11, ZenonT(30) DEF EditRead, Divert, Direct, Decline, EditJob
    <3>2. QED
      BY <2>4, <2>11, <3>1, SMTT(30) DEF EditRead, Divert, Direct, Decline
  <2>12. ASSUME NEW w \in Workers, EditWrite(w) PROVE TypeOK'
    BY <2>4, <2>12 DEF EditWrite, EditJob
  <2>13. ASSUME NEW w \in Workers, EditResnapshot(w) PROVE TypeOK'
    <3>1. PendingMoves \subseteq Moves
      BY DEF PendingMoves
    <3>2. [job EXCEPT ![w].steps = live, ![w].pending = PendingMoves][w] \in EditJob
      BY <2>13, <3>1, ZenonT(30) DEF EditResnapshot, EditJob
    <3>3. QED
      BY <2>13, <3>2 DEF EditResnapshot
  <2>14. ASSUME NEW w \in Workers, RequestTransition(w) PROVE TypeOK'
    <3> DEFINE m == [rec |-> job[w].rec, frm |-> job[w].old, to |-> job[w].to]
               steps == StepsFor(job[w].steps, m)
    <3>1. m \in Moves /\ steps \subseteq Steps
      BY <2>14 DEF RequestTransition, EditJob, Moves, StepsFor
    <3>2. /\ state' \in [Requests -> {"none", "pending", "approved", "rejected"}]
          /\ move' \in [Requests -> Moves]
          /\ pos' \in [Requests -> Nat]
          /\ actions' \in [Requests -> SUBSET Action]
          /\ asked' \in [Requests -> SUBSET Steps]
      <4>1. CASE UNCHANGED table
        BY <4>1 DEF table
      <4>2. CASE ~UNCHANGED table
        <5>1. PICK q \in Requests :
                /\ state' = [state EXCEPT ![q] = "pending"]
                /\ move' = [move EXCEPT ![q] = m]
                /\ \E p \in {1} \cup {Position[s] : s \in steps} :
                     FirstPosition(steps, p) /\ pos' = [pos EXCEPT ![q] = p]
                /\ asked' = [asked EXCEPT ![q] = steps]
                /\ actions' = actions
          BY <2>14, <4>2 DEF RequestTransition
        <5>2. PICK p \in {1} \cup {Position[s] : s \in steps} : pos' = [pos EXCEPT ![q] = p]
          BY <5>1
        <5>3. p \in Nat
          <6>1. \A s \in steps : Position[s] \in Nat
            <7> HIDE DEF steps
            <7> QED  BY <3>1
          <6>2. p = 1 \/ \E s \in steps : p = Position[s]
            BY <5>2
          <6>3. QED
            <7> HIDE DEF steps
            <7> QED  BY <6>1, <6>2
        <5>4. QED
          BY <3>1, <5>1, <5>2, <5>3
      <4>3. QED
        BY <4>1, <4>2
    <3>3. QED
      BY <2>4, <2>14, <3>2 DEF RequestTransition
  <2>15. ASSUME NEW w \in Workers, Refused(w) \/ Fail(w) PROVE TypeOK'
    BY <2>4, <2>15 DEF Refused, Fail
  <2>16. CASE UNCHANGED vars
    BY <2>16 DEF vars
  <2>17. QED
    BY <2>1, <2>2, <2>3, <2>6, <2>7, <2>8, <2>9, <2>10, <2>11, <2>12, <2>13, <2>14,
       <2>15, <2>16 DEF Next, Step
<1>3. QED
  BY <1>1, <1>2, PTL DEF Spec

-----------------------------------------------------------------------------

\* What recording a vote does to the signatures: the voter's own open step is
\* signed by an approval, and nothing that was signed is lost.
LEMMA RecordSigns ==
  ASSUME TypeOK, NEW j \in ActJob, NEW s \in Steps, NEW d \in {"approve", "reject"},
         Record(j, s, d)
  PROVE  /\ s \in j.steps /\ Position[s] = j.pos
         /\ \A q \in Requests : Signed(q) \subseteq Signed(q)'
         /\ d = "approve" => s \in Signed(j.req)'
         /\ \A q \in Requests \ {j.req} : actions'[q] = actions[q]
         /\ \A a \in actions'[j.req] :
              a \in actions[j.req] \/ (a.step = s /\ a.decision = d)
<1> DEFINE new == [step |-> s, user |-> j.user, decision |-> d]
<1>1. j.req \in Requests /\ actions \in [Requests -> SUBSET Action]
  BY DEF ActJob, TypeOK
<1>2. actions' = [actions EXCEPT ![j.req] = @ \cup {new}]
  BY DEF Record
<1>3. new.step = s /\ new.decision = d
  OBVIOUS
<1>4. s \in j.steps /\ Position[s] = j.pos
  BY DEF Record, Mine, OpenSteps, StepsFor
<1>5. /\ \A q \in Requests : actions[q] \subseteq actions'[q]
      /\ new \in actions'[j.req]
      /\ \A q \in Requests \ {j.req} : actions'[q] = actions[q]
      /\ \A a \in actions'[j.req] : a \in actions[j.req] \/ a = new
  <2> HIDE DEF new
  <2> QED  BY <1>1, <1>2
<1>6. \A q \in Requests : Signed(q) \subseteq Signed(q)'
  BY <1>5 DEF Signed
<1>7. d = "approve" => s \in Signed(j.req)'
  <2> HIDE DEF new
  <2> QED  BY <1>3, <1>5 DEF Signed
<1>8. \A a \in actions'[j.req] : a \in actions[j.req] \/ (a.step = s /\ a.decision = d)
  <2> HIDE DEF new
  <2> QED  BY <1>3, <1>5
<1>9. QED
  BY <1>4, <1>5, <1>6, <1>7, <1>8

\* A vote keeps the order of signatures and what the snapshots know, whatever
\* it does to the request's state and position.
LEMMA VoteKeepsOrder ==
  ASSUME TypeOK, SignOffInv, NEW w \in Workers, pc[w] = "acting",
         NEW s \in Steps, NEW d \in {"approve", "reject"}, Record(job[w], s, d),
         UNCHANGED <<live, gone, move, asked>>,
         \A q \in Requests : state[q] # "none" => state'[q] # "none",
         pc'[w] \in {"idle", "applying"},
         \A v \in Workers \ {w} : pc'[v] = pc[v] /\ job'[v] = job[v]
  PROVE  /\ SignedInOrder'
         /\ SnapshotsInv'
<1> DEFINE j == job[w]
<1>1. j \in ActJob /\ j.req \in Requests
  BY DEF TypeOK, ActJob
<1>2. /\ s \in j.steps /\ Position[s] = j.pos
      /\ \A q \in Requests : Signed(q) \subseteq Signed(q)'
      /\ \A q \in Requests \ {j.req} : actions'[q] = actions[q]
      /\ \A a \in actions'[j.req] :
           a \in actions[j.req] \/ (a.step = s /\ a.decision = d)
  BY <1>1, RecordSigns
<1>3. SignedBelow(j.req, j.pos)
  BY DEF SignOffInv, SnapshotsInv
<1>4. SignedInOrder'
  <2> SUFFICES ASSUME NEW q \in Requests, NEW a \in actions'[q], a.decision = "approve"
               PROVE  {t \in asked[q] \cap live : Position[t] < Position[a.step]}
                        \subseteq Signed(q)'
    BY DEF SignedInOrder
  <2>1. CASE a \in actions[q]
    BY <2>1, <1>2 DEF SignOffInv, SignedInOrder
  <2>2. CASE a \notin actions[q]
    <3>1. q = j.req /\ a.step = s
      BY <2>2, <1>2
    <3>2. QED
      BY <3>1, <1>2, <1>3 DEF SignedBelow
  <2>3. QED
    BY <2>1, <2>2
<1>5. SnapshotsInv'
  <2> SUFFICES ASSUME NEW v \in Workers, v # w, pc'[v] = pc[v], job'[v] = job[v]
               PROVE  /\ pc[v] = "acting" =>
                           /\ state'[job[v].req] # "none"
                           /\ asked[job[v].req] \cap live \subseteq job[v].steps
                           /\ job[v].signed \subseteq Signed(job[v].req)'
                           /\ SignedBelow(job[v].req, job[v].pos)'
                      /\ pc[v] \in {"reading", "writing", "requesting"} =>
                           job[v].steps \subseteq live \cup gone
    BY DEF SnapshotsInv, SignedBelow
  <2>1. pc[v] = "acting" => job[v].req \in Requests
    BY DEF TypeOK, ActJob
  <2>2. QED
    BY <2>1, <1>2 DEF SignOffInv, SnapshotsInv, SignedBelow
<1>6. QED
  BY <1>4, <1>5

\* A step of act() keeps what it does not write: requests other than the one
\* voted on keep their state and position.
LEMMA VoteKeepsRequests ==
  ASSUME TypeOK, SignOffInv, NEW j \in ActJob, NEW s \in Steps,
         NEW d \in {"approve", "reject"}, Record(j, s, d),
         UNCHANGED <<live, gone, move, asked>>, state[j.req] # "none",
         \A q \in Requests : state'[q] = "none" => state[q] = "none",
         \A q \in Requests \ {j.req} : state'[q] = state[q] /\ pos'[q] = pos[q],
         SignedBelow(j.req, pos[j.req])'
  PROVE  RequestsInv'
<1>1. /\ \A q \in Requests : Signed(q) \subseteq Signed(q)'
      /\ \A q \in Requests \ {j.req} : actions'[q] = actions[q]
  BY RecordSigns
<1>2. ASSUME NEW q \in Requests
      PROVE  /\ asked[q] \subseteq StepsFor(live \cup gone, move[q])
             /\ state'[q] = "none" => actions'[q] = {}
             /\ state'[q] # "none" => SignedBelow(q, pos[q])'
  <2>1. CASE q = j.req
    BY <2>1 DEF SignOffInv, RequestsInv
  <2>2. CASE q # j.req
    BY <1>1, <2>2 DEF SignOffInv, RequestsInv, SignedBelow
  <2>3. QED
    BY <2>1, <2>2
<1>3. QED
  BY <1>2 DEF RequestsInv, SignedBelow, StepsFor

\* When a step signs the last open step of its position, every step the request
\* still needs up to that position is signed.
LEMMA PositionComplete ==
  ASSUME TypeOK, SignOffInv, NEW w \in Workers, pc[w] = "acting",
         NEW j \in ActJob, j = job[w],
         NEW s \in Steps, NEW d \in {"approve", "reject"}, d = "approve",
         Record(j, s, d), OpenAfter(j, s) = {},
         NEW t \in asked[j.req] \cap live
  PROVE  /\ t \in StepsFor(j.steps, move[j.req])
         /\ Position[t] <= j.pos => t \in Signed(j.req)'
<1> USE StepsAssumption
<1>1. j.req \in Requests /\ j.pos \in Nat /\ t \in Steps /\ Position[t] \in Nat
  BY DEF TypeOK, ActJob
<1>2. /\ \A q \in Requests : Signed(q) \subseteq Signed(q)'
      /\ s \in Signed(j.req)'
  BY <1>1, RecordSigns
<1>3. /\ asked[j.req] \cap live \subseteq j.steps
      /\ j.signed \subseteq Signed(j.req)
      /\ SignedBelow(j.req, j.pos)
  BY DEF SignOffInv, SnapshotsInv
<1>4. t \in StepsFor(j.steps, move[j.req])
  BY <1>1, <1>3 DEF SignOffInv, RequestsInv, StepsFor
<1>5. CASE Position[t] < j.pos
  BY <1>1, <1>2, <1>3, <1>4, <1>5 DEF SignedBelow
<1>6. CASE Position[t] = j.pos
  <2>1. t \in j.signed \cup {s}
    BY <1>4, <1>6 DEF OpenAfter, OpenSteps
  <2>2. QED
    BY <1>1, <1>2, <1>3, <1>4, <2>1
<1>7. CASE Position[t] > j.pos
  BY <1>1, <1>4, <1>7
<1>8. QED
  BY <1>1, <1>5, <1>6, <1>7

\* No request exists and no handler runs in an initial state.
LEMMA SignOffInit == Init => SignOffInv
BY DEF Init, SignOffInv, SignedOff, SignedInOrder, RequestsInv, SnapshotsInv

\* Steps that only move a handler forward: the tables do not change, and a
\* handler that is left in a write path has a snapshot of configured steps.
LEMMA HandlerStep ==
  ASSUME TypeOK, SignOffInv, NEW w \in Workers,
         UNCHANGED <<live, gone, state, move, pos, actions, asked>>,
         \A v \in Workers \ {w} : pc'[v] = pc[v] /\ job'[v] = job[v],
         pc'[w] # "acting",
         pc'[w] \in {"reading", "writing", "requesting"} => job'[w].steps \subseteq live \cup gone
  PROVE  SignOffInv'
<1>1. \A q \in Requests : Signed(q)' = Signed(q)
  BY DEF Signed
<1>2. SignedOff' /\ SignedInOrder' /\ RequestsInv'
  BY <1>1, ZenonT(30) DEF SignOffInv, SignedOff, SignedInOrder, RequestsInv, SignedBelow
<1>3. SnapshotsInv'
  <2> SUFFICES ASSUME NEW v \in Workers
               PROVE  /\ pc'[v] = "acting" =>
                           /\ state[job'[v].req] # "none"
                           /\ asked[job'[v].req] \cap live \subseteq job'[v].steps
                           /\ job'[v].signed \subseteq Signed(job[v].req)'
                           /\ SignedBelow(job[v].req, job[v].pos)'
                      /\ pc'[v] \in {"reading", "writing", "requesting"} =>
                           job'[v].steps \subseteq live \cup gone
    BY DEF SnapshotsInv
  <2>1. CASE v = w
    BY <2>1
  <2>2. CASE v # w
    BY <2>2 DEF SignOffInv, SnapshotsInv, SignedBelow, Signed
  <2>3. QED
    BY <2>1, <2>2
<1>4. QED
  BY <1>2, <1>3 DEF SignOffInv

\* The inductive step: one handler step or edit of the configuration.
LEMMA SignOffNext == TypeOK /\ SignOffInv /\ [Next]_vars => SignOffInv'
<1> SUFFICES ASSUME TypeOK, SignOffInv, [Next]_vars PROVE SignOffInv'
  OBVIOUS
<1> USE StepsAssumption
<1>1. ASSUME NEW w \in Workers, NEW u \in Users, NEW q \in Requests, ActBegin(w, u, q)
      PROVE SignOffInv'
  <2>1. /\ state[q] = "pending"
        /\ pc' = [pc EXCEPT ![w] = "acting"]
        /\ job' = [job EXCEPT ![w] = [user |-> u, req |-> q, pos |-> pos[q],
                                      signed |-> Signed(q), steps |-> live]]
        /\ UNCHANGED <<status, live, gone, state, move, pos, actions, asked, applied>>
    BY <1>1 DEF ActBegin, Decidable
  <2>2. \A p \in Requests : Signed(p)' = Signed(p)
    BY <2>1 DEF Signed
  <2>3. SignedOff' /\ SignedInOrder' /\ RequestsInv'
    <3>1. SignedOff' /\ SignedInOrder'
      BY <2>1, <2>2 DEF SignOffInv, SignedOff, SignedInOrder
    <3>2. RequestsInv'
      <4>1. ASSUME NEW p \in Requests
            PROVE  /\ asked[p] \subseteq StepsFor(live \cup gone, move[p])
                   /\ state[p] = "none" => actions[p] = {}
                   /\ state[p] # "none" =>
                        {t \in asked[p] \cap live : Position[t] < pos[p]} \subseteq Signed(p)
        BY DEF SignOffInv, RequestsInv, SignedBelow
      <4>2. QED
        BY <2>1, <2>2, <4>1 DEF RequestsInv, StepsFor, SignedBelow
    <3>3. QED
      BY <3>1, <3>2
  <2>4. SignedBelow(q, pos[q])
    BY <2>1 DEF SignOffInv, RequestsInv
  <2>5. ASSUME NEW v \in Workers
        PROVE  /\ pc'[v] = "acting" =>
                    /\ state'[job'[v].req] # "none"
                    /\ (asked[job[v].req] \cap live)' \subseteq job'[v].steps
                    /\ job'[v].signed \subseteq Signed(job[v].req)'
                    /\ SignedBelow(job[v].req, job[v].pos)'
               /\ pc'[v] \in {"reading", "writing", "requesting"} =>
                    job'[v].steps \subseteq (live \cup gone)'
    <3>1. CASE v = w
      <4>1. /\ pc'[v] = "acting" /\ job'[v].req = q /\ job'[v].pos = pos[q]
            /\ job'[v].signed = Signed(q) /\ job'[v].steps = live
        BY <2>1, <3>1 DEF TypeOK
      <4>2. QED
        BY <2>1, <2>2, <2>4, <4>1 DEF SignedBelow, Signed
    <3>2. CASE v # w
      <4>1. pc'[v] = pc[v] /\ job'[v] = job[v]
        BY <2>1, <3>2 DEF TypeOK
      <4>2. QED
        BY <2>1, <4>1 DEF SignOffInv, SnapshotsInv, SignedBelow, Signed
    <3>3. QED
      BY <3>1, <3>2
  <2>6. SnapshotsInv'
    BY <2>5 DEF SnapshotsInv
  <2>7. QED
    BY <2>3, <2>6 DEF SignOffInv
<1>2. ASSUME NEW w \in Workers, Finish(w),
             UNCHANGED <<live, gone, state, move, pos, actions, asked>>
      PROVE SignOffInv'
  <2>1. pc'[w] = "idle" /\ \A v \in Workers \ {w} : pc'[v] = pc[v] /\ job'[v] = job[v]
    BY <1>2 DEF Finish, TypeOK
  <2>2. QED
    BY <1>2, <2>1, HandlerStep
<1>3. ASSUME NEW w \in Workers, Apply(w) \/ EditWrite(w) \/ Refused(w) \/ Fail(w)
      PROVE SignOffInv'
  BY <1>2, <1>3 DEF Apply, EditWrite, Refused, Fail
<1>4. ASSUME NEW w \in Workers, NEW u \in Users, NEW r \in Records, NEW to \in Values,
             EditBegin(w, u, r, to)
      PROVE SignOffInv'
  <2>1. /\ pc'[w] = "reading" /\ job'[w].steps = live
        /\ \A v \in Workers \ {w} : pc'[v] = pc[v] /\ job'[v] = job[v]
        /\ UNCHANGED <<live, gone, state, move, pos, actions, asked>>
    BY <1>4 DEF EditBegin, TypeOK
  <2>2. QED
    BY <2>1, HandlerStep
<1>5. ASSUME NEW w \in Workers, EditRead(w) PROVE SignOffInv'
  <2>1. CASE Finish(w)
    BY <1>2, <1>5, <2>1 DEF EditRead
  <2>2. CASE ~Finish(w)
    <3>1. /\ pc'[w] \in {"requesting", "writing"}
          /\ job[w].steps \subseteq live \cup gone
          /\ job[w] \in EditJob
          /\ job' = [job EXCEPT ![w].old = status[job[w].rec]]
      BY <1>5, <2>2 DEF EditRead, Divert, Direct, Decline, TypeOK, SignOffInv, SnapshotsInv
    <3>2. job'[w].steps = job[w].steps
      BY <3>1 DEF TypeOK, EditJob
    <3>3. /\ \A v \in Workers \ {w} : pc'[v] = pc[v] /\ job'[v] = job[v]
          /\ UNCHANGED <<live, gone, state, move, pos, actions, asked>>
      BY <1>5, <2>2, <3>1 DEF EditRead, Divert, Direct, Decline, TypeOK
    <3>4. QED
      BY <3>1, <3>2, <3>3, HandlerStep
  <2>3. QED
    BY <2>1, <2>2
<1>6. ASSUME NEW w \in Workers, EditResnapshot(w) PROVE SignOffInv'
  <2>1. /\ pc' = pc /\ pc[w] = "requesting" /\ job[w] \in EditJob
        /\ job' = [job EXCEPT ![w].steps = live, ![w].pending = PendingMoves]
        /\ UNCHANGED <<live, gone, state, move, pos, actions, asked>>
    BY <1>6 DEF EditResnapshot, TypeOK
  <2>2. job'[w].steps = live
    BY <2>1 DEF TypeOK, EditJob
  <2>3. \A v \in Workers \ {w} : pc'[v] = pc[v] /\ job'[v] = job[v]
    BY <2>1 DEF TypeOK
  <2>4. QED
    BY <2>1, <2>2, <2>3, HandlerStep
<1>7. ASSUME NEW w \in Workers, NEW s \in Steps, AddStep(w, s) \/ DeleteStep(w, s)
      PROVE SignOffInv'
  <2>1. /\ UNCHANGED <<state, move, pos, actions, asked, pc, job>>
        /\ live \cup gone \subseteq live' \cup gone'
        /\ \A t \in live \cup gone : t \in live' => t \in live
    BY <1>7 DEF AddStep, DeleteStep
  <2>2. \A q \in Requests : asked[q] \subseteq live \cup gone
    BY DEF SignOffInv, RequestsInv, StepsFor
  <2>3. \A q \in Requests : asked[q] \cap live' \subseteq asked[q] \cap live
    BY <2>1, <2>2
  <2>4. \A q \in Requests : Signed(q)' = Signed(q)
    BY <2>1 DEF Signed
  <2>5. SignedOff' /\ SignedInOrder'
    BY <2>1, <2>3, <2>4 DEF SignOffInv, SignedOff, SignedInOrder
  <2>6. RequestsInv'
    BY <2>1, <2>3, <2>4 DEF SignOffInv, RequestsInv, SignedBelow, StepsFor
  <2>7. \A v \in Workers : pc[v] = "acting" => job[v].req \in Requests
    BY DEF TypeOK, ActJob
  <2>8. SnapshotsInv'
    <3> SUFFICES ASSUME NEW v \in Workers
                 PROVE  /\ pc[v] = "acting" =>
                             /\ state[job[v].req] # "none"
                             /\ asked[job[v].req] \cap live' \subseteq job[v].steps
                             /\ job[v].signed \subseteq Signed(job[v].req)
                             /\ {t \in asked[job[v].req] \cap live' : Position[t] < job[v].pos}
                                  \subseteq Signed(job[v].req)
                        /\ pc[v] \in {"reading", "writing", "requesting"} =>
                             job[v].steps \subseteq live' \cup gone'
      BY <2>1 DEF SnapshotsInv, SignedBelow, Signed
    <3>1. QED
      BY <2>1, <2>3, <2>7 DEF SignOffInv, SnapshotsInv, SignedBelow
  <2>9. QED
    BY <2>5, <2>6, <2>8 DEF SignOffInv
<1>8. ASSUME NEW w \in Workers, RequestTransition(w) PROVE SignOffInv'
  <2>1. CASE UNCHANGED table
    BY <1>2, <1>8, <2>1 DEF RequestTransition, table
  <2>2. CASE ~UNCHANGED table
    <3> DEFINE m == [rec |-> job[w].rec, frm |-> job[w].old, to |-> job[w].to]
               steps == StepsFor(job[w].steps, m)
    <3>1. PICK q \in Requests, p \in {1} \cup {Position[s] : s \in steps} :
            /\ state[q] = "none"
            /\ state' = [state EXCEPT ![q] = "pending"]
            /\ move' = [move EXCEPT ![q] = m]
            /\ FirstPosition(steps, p) /\ pos' = [pos EXCEPT ![q] = p]
            /\ asked' = [asked EXCEPT ![q] = steps]
            /\ actions' = actions
      BY <1>8, <2>2 DEF RequestTransition
    <3>2. /\ pc[w] = "requesting" /\ pc'[w] = "idle" /\ live' = live /\ gone' = gone
          /\ \A v \in Workers \ {w} : pc'[v] = pc[v] /\ job'[v] = job[v]
      BY <1>8 DEF RequestTransition, Finish, TypeOK
    <3>3. /\ actions[q] = {} /\ Signed(q) = {}
          /\ \A r \in Requests : Signed(r)' = Signed(r)
          /\ steps \subseteq live \cup gone
      BY <3>1, <3>2 DEF SignOffInv, RequestsInv, SnapshotsInv, Signed, StepsFor
    <3>4. /\ state'[q] = "pending" /\ move'[q] = m /\ pos'[q] = p /\ asked'[q] = steps
          /\ \A r \in Requests \ {q} : /\ state'[r] = state[r] /\ move'[r] = move[r]
                                       /\ pos'[r] = pos[r] /\ asked'[r] = asked[r]
      BY <3>1 DEF TypeOK
    <3>5. {s \in steps : Position[s] < p} = {}
      <4>1. steps \subseteq Steps
        BY <3>2 DEF TypeOK, EditJob, StepsFor
      <4>2. \A s \in steps : Position[s] \in Nat
        <5> HIDE DEF steps
        <5> QED  BY <4>1
      <4>3. \A s \in steps : p \in Nat /\ p <= Position[s]
        <5> HIDE DEF steps
        <5> QED  BY <3>1, <4>2 DEF FirstPosition
      <4>4. QED
        <5> HIDE DEF steps
        <5> QED  BY <4>2, <4>3
    <3> HIDE DEF m, steps
    <3>6. SignedOff' /\ SignedInOrder'
      <4>1. ASSUME NEW r \in Requests
            PROVE  /\ state'[r] = "approved" => asked'[r] \cap live \subseteq Signed(r)
                   /\ \A a \in actions[r] : a.decision = "approve" =>
                        {s \in asked'[r] \cap live : Position[s] < Position[a.step]}
                           \subseteq Signed(r)
        <5>1. CASE r = q
          BY <5>1, <3>3, <3>4
        <5>2. CASE r # q
          BY <5>2, <3>4 DEF SignOffInv, SignedOff, SignedInOrder
        <5>3. QED
          BY <5>1, <5>2
      <4>2. QED
        BY <4>1, <3>1, <3>2, <3>3 DEF SignedOff, SignedInOrder
    <3>7. RequestsInv'
      <4>1. ASSUME NEW r \in Requests
            PROVE  /\ asked'[r] \subseteq StepsFor(live \cup gone, move'[r])
                   /\ state'[r] = "none" => actions[r] = {}
                   /\ state'[r] # "none" =>
                        {s \in asked'[r] \cap live : Position[s] < pos'[r]} \subseteq Signed(r)
        <5>1. CASE r = q
          <6>1. steps \subseteq StepsFor(live \cup gone, m)
            BY <3>3 DEF steps, StepsFor
          <6>2. QED
            BY <5>1, <6>1, <3>3, <3>4, <3>5
        <5>2. CASE r # q
          BY <5>2, <3>4 DEF SignOffInv, RequestsInv, SignedBelow
        <5>3. QED
          BY <5>1, <5>2
      <4>2. QED
        BY <4>1, <3>1, <3>2, <3>3 DEF RequestsInv, SignedBelow, StepsFor
    <3>8. SnapshotsInv'
      <4> SUFFICES ASSUME NEW v \in Workers, v # w, pc'[v] = pc[v], job'[v] = job[v]
                   PROVE  /\ pc[v] = "acting" =>
                               /\ state'[job[v].req] # "none"
                               /\ asked'[job[v].req] \cap live \subseteq job[v].steps
                               /\ job[v].signed \subseteq Signed(job[v].req)
                               /\ {s \in asked'[job[v].req] \cap live :
                                     Position[s] < job[v].pos} \subseteq Signed(job[v].req)
                          /\ pc[v] \in {"reading", "writing", "requesting"} =>
                               job[v].steps \subseteq live \cup gone
        BY <3>1, <3>2 DEF SnapshotsInv, SignedBelow, Signed
      <4>1. pc[v] = "acting" => job[v].req \in Requests /\ job[v].req # q
        BY <3>1 DEF TypeOK, ActJob, SignOffInv, SnapshotsInv
      <4>2. QED
        BY <4>1, <3>4 DEF SignOffInv, SnapshotsInv, SignedBelow
    <3>9. QED
      BY <3>6, <3>7, <3>8 DEF SignOffInv
  <2>3. QED
    BY <2>1, <2>2
<1>9. ASSUME NEW w \in Workers,
             Reject(w) \/ ApproveSibling(w) \/ ApproveAdvance(w) \/ ApproveFinal(w)
      PROVE SignOffInv'
  <2>1. PICK j \in ActJob : j = job[w]
    BY <1>9 DEF Reject, ApproveSibling, ApproveAdvance, ApproveFinal, TypeOK
  <2>2. /\ pc[w] = "acting" /\ pc'[w] \in {"idle", "applying"}
        /\ \A v \in Workers \ {w} : pc'[v] = pc[v] /\ job'[v] = job[v]
        /\ UNCHANGED <<live, gone, move, asked>>
    BY <1>9 DEF Reject, ApproveSibling, ApproveAdvance, ApproveFinal, Finish, TypeOK
  <2>3. j.req \in Requests /\ j.pos \in Nat /\ j.steps \subseteq Steps
    BY DEF ActJob
  <2>4. /\ state[j.req] # "none"
        /\ SignedBelow(j.req, j.pos) /\ SignedBelow(j.req, pos[j.req])
    BY <2>1, <2>2, <2>3 DEF SignOffInv, SnapshotsInv, RequestsInv
  <2>5. CASE Reject(w)
    <3>1. PICK s \in Steps, d \in {"approve", "reject"} : Record(j, s, d)
      BY <2>1, <2>3, <2>5 DEF Reject
    <3>2. /\ state' = [state EXCEPT ![j.req] = "rejected"]
          /\ pos' = pos
      BY <2>1, <2>5 DEF Reject
    <3>3. \A q \in Requests : Signed(q) \subseteq Signed(q)'
      BY <3>1, RecordSigns
    <3>4. SignedOff'
      BY <2>2, <2>3, <3>2, <3>3 DEF SignOffInv, SignedOff, TypeOK
    <3>5. SignedBelow(j.req, pos[j.req])'
      BY <2>2, <2>3, <2>4, <3>2, <3>3 DEF SignedBelow
    <3>6. RequestsInv'
      BY <2>2, <2>3, <2>4, <3>1, <3>2, <3>5, VoteKeepsRequests DEF TypeOK
    <3>7. SignedInOrder' /\ SnapshotsInv'
      BY <2>1, <2>2, <2>3, <3>1, <3>2, VoteKeepsOrder DEF TypeOK
    <3>8. QED
      BY <3>4, <3>6, <3>7 DEF SignOffInv
  <2>6. CASE ApproveSibling(w)
    <3>1. PICK s \in Steps, d \in {"approve", "reject"} : Record(j, s, d)
      BY <2>1, <2>3, <2>6 DEF ApproveSibling
    <3>2. state' = state /\ pos' = pos
      BY <2>6 DEF ApproveSibling
    <3>3. \A q \in Requests : Signed(q) \subseteq Signed(q)'
      BY <3>1, RecordSigns
    <3>4. SignedOff'
      BY <2>2, <2>3, <3>2, <3>3 DEF SignOffInv, SignedOff, TypeOK
    <3>5. SignedBelow(j.req, pos[j.req])'
      BY <2>2, <2>3, <2>4, <3>2, <3>3 DEF SignedBelow
    <3>6. RequestsInv'
      BY <2>2, <2>3, <2>4, <3>1, <3>2, <3>5, VoteKeepsRequests DEF TypeOK
    <3>7. SignedInOrder' /\ SnapshotsInv'
      BY <2>1, <2>2, <2>3, <3>1, <3>2, VoteKeepsOrder DEF TypeOK
    <3>8. QED
      BY <3>4, <3>6, <3>7 DEF SignOffInv
  <2>7. CASE ApproveAdvance(w)
    <3>1. PICK s \in Steps, d \in {"approve", "reject"} :
            d = "approve" /\ Record(j, s, d) /\ OpenAfter(j, s) = {}
      BY <2>1, <2>3, <2>7 DEF ApproveAdvance
    <3>2. PICK p \in LaterPositions(j.steps, move[j.req], j.pos) :
            /\ \A o \in LaterPositions(j.steps, move[j.req], j.pos) : p <= o
            /\ pos' = [pos EXCEPT ![j.req] = p]
            /\ state' = state
      BY <2>1, <2>7 DEF ApproveAdvance
    <3>3. \A q \in Requests : Signed(q) \subseteq Signed(q)'
      BY <3>1, RecordSigns
    <3>4. SignedOff'
      BY <2>2, <2>3, <3>2, <3>3 DEF SignOffInv, SignedOff, TypeOK
    <3>5. p \in Nat
      <4>1. PICK t \in j.steps : p = Position[t]
        BY <3>2 DEF LaterPositions, StepsFor
      <4>2. QED
        BY <2>3, <4>1
    <3>6. ASSUME NEW t \in asked[j.req] \cap live, Position[t] < p
          PROVE  t \in Signed(j.req)'
      <4>1. /\ t \in StepsFor(j.steps, move[j.req])
            /\ Position[t] <= j.pos => t \in Signed(j.req)'
        BY <2>1, <2>2, <3>1, PositionComplete
      <4>2. Position[t] \in Nat
        BY <2>3, <4>1 DEF StepsFor
      <4>3. Position[t] > j.pos => Position[t] \in LaterPositions(j.steps, move[j.req], j.pos)
        BY <4>1 DEF LaterPositions
      <4>4. QED
        BY <2>3, <3>2, <3>5, <3>6, <4>1, <4>2, <4>3
    <3>7. SignedBelow(j.req, pos[j.req])'
      BY <2>2, <2>3, <3>2, <3>6 DEF SignedBelow, TypeOK
    <3>8. RequestsInv'
      BY <2>2, <2>3, <2>4, <3>1, <3>2, <3>7, VoteKeepsRequests DEF TypeOK
    <3>9. SignedInOrder' /\ SnapshotsInv'
      BY <2>1, <2>2, <2>3, <3>1, <3>2, VoteKeepsOrder DEF TypeOK
    <3>10. QED
      BY <3>4, <3>8, <3>9 DEF SignOffInv
  <2>8. CASE ApproveFinal(w)
    <3>1. PICK s \in Steps, d \in {"approve", "reject"} :
            d = "approve" /\ Record(j, s, d) /\ OpenAfter(j, s) = {}
      BY <2>1, <2>3, <2>8 DEF ApproveFinal
    <3>2. /\ LaterPositions(j.steps, move[j.req], j.pos) = {}
          /\ state' = [state EXCEPT ![j.req] = "approved"]
          /\ pos' = pos
      BY <2>1, <2>8 DEF ApproveFinal
    <3>3. \A q \in Requests : Signed(q) \subseteq Signed(q)'
      BY <3>1, RecordSigns
    <3>4. ASSUME NEW t \in asked[j.req] \cap live
          PROVE  t \in Signed(j.req)'
      <4>1. /\ t \in StepsFor(j.steps, move[j.req])
            /\ Position[t] <= j.pos => t \in Signed(j.req)'
        BY <2>1, <2>2, <3>1, PositionComplete
      <4>2. Position[t] \in Nat
        BY <2>3, <4>1 DEF StepsFor
      <4>3. ~(Position[t] > j.pos)
        BY <3>2, <4>1 DEF LaterPositions
      <4>4. QED
        BY <2>3, <4>1, <4>2, <4>3
    <3>5. SignedOff'
      BY <2>2, <2>3, <3>2, <3>3, <3>4 DEF SignOffInv, SignedOff, TypeOK
    <3>6. SignedBelow(j.req, pos[j.req])'
      BY <2>2, <2>3, <2>4, <3>2, <3>3 DEF SignedBelow
    <3>7. RequestsInv'
      BY <2>2, <2>3, <2>4, <3>1, <3>2, <3>6, VoteKeepsRequests DEF TypeOK
    <3>8. SignedInOrder' /\ SnapshotsInv'
      BY <2>1, <2>2, <2>3, <3>1, <3>2, VoteKeepsOrder DEF TypeOK
    <3>9. QED
      BY <3>5, <3>7, <3>8 DEF SignOffInv
  <2>9. QED
    BY <1>9, <2>5, <2>6, <2>7, <2>8
<1>10. CASE UNCHANGED vars
  <2>1. \A q \in Requests : Signed(q)' = Signed(q)
    BY <1>10 DEF Signed, vars
  <2>2. QED
    BY <1>10, <2>1 DEF vars, SignOffInv, SignedOff, SignedInOrder, RequestsInv,
                       SnapshotsInv, SignedBelow, Signed
<1>11. QED
  BY <1>1, <1>3, <1>4, <1>5, <1>6, <1>7, <1>8, <1>9, <1>10 DEF Next, Step

\* The strengthening that makes the two invariants below inductive.
THEOREM SignOffInvariant == Spec => []SignOffInv
BY SignOffInit, SignOffNext, TypeCorrect, PTL DEF Spec

\* No interleaving of approvers, editors and designers, on either kind of
\* server, approves a request before its steps are signed.
THEOREM SignedOffHolds == Spec => []SignedOff
<1>1. SignOffInv => SignedOff
  BY DEF SignOffInv
<1>2. QED
  BY <1>1, SignOffInvariant, PTL

\* Signatures are given position by position in every interleaving.
THEOREM SignedInOrderHolds == Spec => []SignedInOrder
<1>1. SignOffInv => SignedInOrder
  BY DEF SignOffInv
<1>2. QED
  BY <1>1, SignOffInvariant, PTL

\* On a server that refuses stale writes, no handler overturns a decision.
THEOREM DecisionFinalHolds ==
  ASSUME StaleWritesRefused
  PROVE  Spec => DecisionFinal
<1> DEFINE Final == \A q \in Requests :
                      state[q] \in {"approved", "rejected"} => state'[q] = state[q]
<1>1. ASSUME TypeOK, [Next]_vars PROVE [Final]_vars
  <2>1. ASSUME NEW w \in Workers, RequestTransition(w) PROVE Final
    BY <1>1, <2>1 DEF RequestTransition, table, TypeOK
  <2>2. ASSUME NEW w \in Workers, Reject(w) PROVE Final
    <3>1. state[job[w].req] = "pending" /\ state' = [state EXCEPT ![job[w].req] = "rejected"]
      BY <2>2 DEF Reject, RowWritable
    <3>2. QED
      BY <1>1, <3>1 DEF TypeOK
  <2>3. ASSUME NEW w \in Workers, ApproveFinal(w) PROVE Final
    <3>1. state[job[w].req] = "pending" /\ state' = [state EXCEPT ![job[w].req] = "approved"]
      BY <2>3 DEF ApproveFinal, RowWritable
    <3>2. QED
      BY <1>1, <3>1 DEF TypeOK
  <2>4. ASSUME UNCHANGED state PROVE Final
    BY <2>4
  <2>5. QED
    BY <1>1, <2>1, <2>2, <2>3, <2>4
    DEF Next, Step, ActBegin, EditBegin, AddStep, DeleteStep, ApproveSibling, ApproveAdvance,
        Apply, EditRead, Divert, Direct, Decline, EditWrite, EditResnapshot, Fail, Refused
<1>2. QED
  BY <1>1, TypeCorrect, PTL DEF Spec, DecisionFinal

-----------------------------------------------------------------------------
(* Decisions. *)

\* One worker process: handlers do not overlap.
OneHandler == \A v, w \in Workers : v = w

\* A rejection leaves a rejected request; what is applied, or about to be, was
\* approved, and it is applied once and by one handler; a handler that runs
\* alone acts on a pending request.
DecisionsInv ==
  /\ \A q \in Requests : \A a \in actions[q] :
       a.decision = "reject" => state[q] = "rejected"
  /\ \A q \in applied : state[q] = "approved"
  /\ \A w \in Workers : pc[w] = "applying" =>
       state[job[w].req] = "approved" /\ job[w].req \notin applied
  /\ \A v, w \in Workers :
       v # w /\ pc[v] = "applying" /\ pc[w] = "applying" => job[v].req # job[w].req
  /\ OneHandler =>
       \A w \in Workers : pc[w] = "acting" => state[job[w].req] = "pending"

\* A handler's locals name a request.
LEMMA JobNamesRequest ==
  ASSUME TypeOK, NEW w \in Workers, pc[w] \in {"acting", "applying"}
  PROVE  job[w] \in ActJob /\ job[w].req \in Requests
BY DEF TypeOK, ActJob

\* A decision is made on a pending request, because the server or the absence
\* of another handler sees to it.
LEMMA DecidesPending ==
  ASSUME StaleWritesRefused \/ OneHandler, DecisionsInv, NEW w \in Workers,
         pc[w] = "acting", RowWritable(job[w])
  PROVE  state[job[w].req] = "pending"
BY DEF DecisionsInv, RowWritable

\* Steps that leave the requests and start no application keep DecisionsInv.
LEMMA DecisionsFrame ==
  ASSUME DecisionsInv, UNCHANGED <<state, actions, applied>>,
         \A w \in Workers : pc'[w] = "applying" => pc[w] = "applying" /\ job'[w] = job[w],
         OneHandler => \A w \in Workers : pc'[w] = "acting" => state[job'[w].req] = "pending"
  PROVE  DecisionsInv'
BY DEF DecisionsInv, OneHandler

LEMMA DecisionsNext ==
  ASSUME StaleWritesRefused \/ OneHandler, TypeOK, SignOffInv, DecisionsInv, [Next]_vars
  PROVE  DecisionsInv'
<1>1. ASSUME NEW w \in Workers, NEW u \in Users, NEW q \in Requests, ActBegin(w, u, q)
      PROVE DecisionsInv'
  <2>1. /\ UNCHANGED <<state, actions, applied>>
        /\ state[q] = "pending"
        /\ pc'[w] = "acting" /\ job'[w].req = q
        /\ \A v \in Workers \ {w} : pc'[v] = pc[v] /\ job'[v] = job[v]
    BY <1>1 DEF ActBegin, Decidable, TypeOK
  <2>2. QED
    BY <2>1, DecisionsFrame DEF OneHandler
<1>2. ASSUME NEW w \in Workers, UNCHANGED <<state, actions, applied>>,
             pc'[w] \notin {"acting", "applying"},
             \A v \in Workers \ {w} : pc'[v] = pc[v] /\ job'[v] = job[v]
      PROVE DecisionsInv'
  <2>1. OneHandler => \A v \in Workers : v = w
    BY DEF OneHandler
  <2>2. QED
    BY <1>2, <2>1, DecisionsFrame
<1>3. ASSUME NEW w \in Workers, Finish(w)
      PROVE  /\ pc'[w] = "idle"
             /\ \A v \in Workers \ {w} : pc'[v] = pc[v] /\ job'[v] = job[v]
  BY <1>3 DEF Finish, TypeOK
<1>4. ASSUME NEW w \in Workers, NEW u \in Users, NEW r \in Records, NEW to \in Values,
             EditBegin(w, u, r, to)
      PROVE DecisionsInv'
  BY <1>2, <1>4 DEF EditBegin, TypeOK
<1>5. ASSUME NEW w \in Workers, NEW s \in Steps, AddStep(w, s) \/ DeleteStep(w, s)
      PROVE DecisionsInv'
  <2>1. UNCHANGED <<state, actions, applied, pc, job>>
    BY <1>5 DEF AddStep, DeleteStep
  <2>2. QED
    BY <2>1, DecisionsFrame DEF DecisionsInv
<1>6. ASSUME NEW w \in Workers, Fail(w) \/ Refused(w) \/ EditWrite(w)
      PROVE DecisionsInv'
  BY <1>2, <1>3, <1>6 DEF Fail, Refused, EditWrite
<1>7. ASSUME NEW w \in Workers, EditRead(w) PROVE DecisionsInv'
  BY <1>2, <1>3, <1>7 DEF EditRead, Divert, Direct, Decline, TypeOK
<1>8. ASSUME NEW w \in Workers, EditResnapshot(w) PROVE DecisionsInv'
  BY <1>2, <1>8 DEF EditResnapshot, TypeOK
<1>9. ASSUME NEW w \in Workers, RequestTransition(w) PROVE DecisionsInv'
  <2>1. /\ pc'[w] = "idle" /\ applied' = applied
        /\ \A v \in Workers \ {w} : pc'[v] = pc[v] /\ job'[v] = job[v]
    BY <1>3, <1>9 DEF RequestTransition
  <2>2. CASE UNCHANGED table
    BY <1>2, <2>1, <2>2 DEF table
  <2>3. CASE ~UNCHANGED table
    <3>1. PICK q \in Requests :
            /\ state[q] = "none" /\ state' = [state EXCEPT ![q] = "pending"]
            /\ actions' = actions
      BY <1>9, <2>3 DEF RequestTransition
    <3>2. actions[q] = {} /\ \A p \in Requests \ {q} : state'[p] = state[p]
      BY <3>1 DEF SignOffInv, RequestsInv, TypeOK
    <3>3. \A v \in Workers : pc[v] \in {"acting", "applying"} => job[v].req \in Requests
      BY JobNamesRequest
    <3>4. q \notin applied /\ applied \subseteq Requests
      BY <3>1 DEF DecisionsInv, TypeOK
    <3>5. OneHandler => \A v \in Workers : v = w
      BY DEF OneHandler
    <3>6. QED
      BY <2>1, <3>1, <3>2, <3>3, <3>4, <3>5 DEF DecisionsInv
  <2>4. QED
    BY <2>2, <2>3
<1>10. ASSUME NEW w \in Workers, Apply(w) PROVE DecisionsInv'
  <2>1. /\ pc[w] = "applying" /\ pc'[w] = "idle" /\ UNCHANGED <<state, actions>>
        /\ applied' = applied \cup {job[w].req}
        /\ \A v \in Workers \ {w} : pc'[v] = pc[v] /\ job'[v] = job[v]
    BY <1>3, <1>10 DEF Apply
  <2>2. OneHandler => \A v \in Workers : v = w
    BY DEF OneHandler
  <2>3. QED
    BY <2>1, <2>2 DEF DecisionsInv
<1>11. ASSUME NEW w \in Workers,
              Reject(w) \/ ApproveSibling(w) \/ ApproveAdvance(w) \/ ApproveFinal(w)
       PROVE DecisionsInv'
  <2>1. pc[w] = "acting" /\ applied' = applied
    BY <1>11 DEF Reject, ApproveSibling, ApproveAdvance, ApproveFinal
  <2>2. /\ job[w] \in ActJob /\ job[w].req \in Requests
        /\ job[w].steps \subseteq Steps
    BY <2>1, JobNamesRequest DEF ActJob
  <2>3. \A v \in Workers \ {w} : pc'[v] = pc[v] /\ job'[v] = job[v]
    BY <1>3, <1>11 DEF Reject, ApproveSibling, ApproveAdvance, ApproveFinal, TypeOK
  <2>4. \A v \in Workers : pc[v] = "applying" => job[v].req \in Requests
    BY JobNamesRequest
  <2>5. OneHandler => \A v \in Workers : v = w
    BY DEF OneHandler
  <2>6. CASE Reject(w)
    <3>1. /\ pc'[w] = "idle" /\ state[job[w].req] = "pending"
          /\ state' = [state EXCEPT ![job[w].req] = "rejected"]
      BY <1>3, <2>1, <2>6, DecidesPending DEF Reject
    <3>2. PICK s \in Steps : Record(job[w], s, "reject")
      BY <2>2, <2>6 DEF Reject
    <3>3. \A q \in Requests \ {job[w].req} : actions'[q] = actions[q] /\ state'[q] = state[q]
      BY <2>2, <3>1, <3>2, RecordSigns DEF TypeOK
    <3>4. state'[job[w].req] = "rejected"
      BY <2>2, <3>1 DEF TypeOK
    <3>5. applied \subseteq Requests /\ job[w].req \notin applied
      BY <3>1 DEF DecisionsInv, TypeOK
    <3>6. QED
      BY <2>1, <2>3, <2>4, <2>5, <3>1, <3>3, <3>4, <3>5 DEF DecisionsInv
  <2>7. CASE ApproveSibling(w) \/ ApproveAdvance(w)
    <3>1. pc'[w] = "idle" /\ state' = state
      BY <1>3, <2>7 DEF ApproveSibling, ApproveAdvance
    <3>2. PICK s \in Steps, d \in {"approve", "reject"} :
            d = "approve" /\ Record(job[w], s, d)
      BY <2>2, <2>7 DEF ApproveSibling, ApproveAdvance
    <3>3. /\ \A q \in Requests \ {job[w].req} : actions'[q] = actions[q]
          /\ \A a \in actions'[job[w].req] :
               a \in actions[job[w].req] \/ a.decision = "approve"
      BY <2>2, <3>2, RecordSigns
    <3>4. QED
      BY <2>1, <2>3, <2>4, <2>5, <3>1, <3>3 DEF DecisionsInv
  <2>8. CASE ApproveFinal(w)
    <3>1. /\ pc'[w] = "applying" /\ job' = job /\ state[job[w].req] = "pending"
          /\ state' = [state EXCEPT ![job[w].req] = "approved"]
      BY <2>1, <2>8, DecidesPending DEF ApproveFinal, TypeOK
    <3>2. PICK s \in Steps, d \in {"approve", "reject"} :
            d = "approve" /\ Record(job[w], s, d)
      BY <2>2, <2>8 DEF ApproveFinal
    <3>3. /\ \A q \in Requests \ {job[w].req} : actions'[q] = actions[q] /\ state'[q] = state[q]
          /\ \A a \in actions'[job[w].req] :
               a \in actions[job[w].req] \/ a.decision = "approve"
      BY <2>2, <3>1, <3>2, RecordSigns DEF TypeOK
    <3>4. /\ state'[job[w].req] = "approved"
          /\ \A a \in actions'[job[w].req] : a.decision # "reject"
      BY <2>2, <3>1, <3>3 DEF TypeOK, DecisionsInv
    <3>5. applied \subseteq Requests /\ job[w].req \notin applied
      BY <3>1 DEF DecisionsInv, TypeOK
    <3>6. \A v \in Workers \ {w} : pc[v] = "applying" => job[v].req # job[w].req
      BY <3>1 DEF DecisionsInv
    <3>7. QED
      BY <2>1, <2>3, <2>4, <2>5, <3>1, <3>3, <3>4, <3>5, <3>6 DEF DecisionsInv
  <2>9. QED
    BY <1>11, <2>6, <2>7, <2>8
<1>12. CASE UNCHANGED vars
  BY <1>12, DecisionsFrame DEF vars, DecisionsInv
<1>13. QED
  BY <1>1, <1>4, <1>5, <1>6, <1>7, <1>8, <1>9, <1>10, <1>11, <1>12 DEF Next, Step

\* Decisions are sound where the server refuses stale writes, and wherever
\* handlers do not overlap.
THEOREM DecisionsInvariant ==
  ASSUME StaleWritesRefused \/ OneHandler
  PROVE  Spec => []DecisionsInv
<1>1. Init => DecisionsInv
  BY DEF Init, DecisionsInv
<1>2. TypeOK /\ SignOffInv /\ DecisionsInv /\ [Next]_vars => DecisionsInv'
  BY DecisionsNext
<1>3. QED
  BY <1>1, <1>2, TypeCorrect, SignOffInvariant, PTL DEF Spec

\* One rejection cancels the move: no request with a rejection is ever applied.
THEOREM RejectionCancelsHolds ==
  ASSUME StaleWritesRefused \/ OneHandler
  PROVE  Spec => []RejectionCancels
<1>1. TypeOK /\ DecisionsInv => RejectionCancels
  BY DEF DecisionsInv, RejectionCancels, TypeOK
<1>2. QED
  BY <1>1, DecisionsInvariant, TypeCorrect, PTL

-----------------------------------------------------------------------------
(* The handlers implement SignOff. *)

\* A vote adds exactly its step to what its request has signed, when it is an
\* approval, and nothing when it is a rejection.
LEMMA VoteSignsOne ==
  ASSUME TypeOK, NEW j \in ActJob, NEW s \in Steps, NEW d \in {"approve", "reject"},
         Record(j, s, d)
  PROVE  /\ \A q \in Requests \ {j.req} : Signed(q)' = Signed(q)
         /\ d = "approve" => Signed(j.req)' = Signed(j.req) \cup {s}
         /\ d = "reject" => Signed(j.req)' = Signed(j.req)
<1>1. /\ \A q \in Requests : Signed(q) \subseteq Signed(q)'
      /\ d = "approve" => s \in Signed(j.req)'
      /\ \A q \in Requests \ {j.req} : actions'[q] = actions[q]
      /\ \A a \in actions'[j.req] :
           a \in actions[j.req] \/ (a.step = s /\ a.decision = d)
      /\ j.req \in Requests
  BY RecordSigns DEF ActJob
<1>2. \A q \in Requests \ {j.req} : Signed(q)' = Signed(q)
  BY <1>1 DEF Signed
<1>3. \A t \in Signed(j.req)' : t \in Signed(j.req) \/ (t = s /\ d = "approve")
  BY <1>1 DEF Signed
<1>4. QED
  BY <1>1, <1>2, <1>3

\* What the promise sees of a state.
Required == [q \in Requests |-> asked[q] \cap live]
Signatures == [q \in Requests |-> Signed(q)]

\* A step that changes none of it is a stutter of the promise.
LEMMA PromiseStutters ==
  ASSUME UNCHANGED <<state, applied, actions>>,
         \A q \in Requests : asked'[q] \cap live' = asked[q] \cap live
  PROVE  UNCHANGED Promise!vars
<1>1. Required' = Required
  BY DEF Required
<1>2. Signatures' = Signatures
  BY DEF Signatures, Signed
<1>3. QED
  BY <1>1, <1>2 DEF Promise!vars, Required, Signatures

\* A vote signs one step in the promise, or rejects the request there.
LEMMA PromiseOfVote ==
  ASSUME StaleWritesRefused, TypeOK, SignOffInv, NEW w \in Workers,
         Reject(w) \/ ApproveSibling(w) \/ ApproveAdvance(w) \/ ApproveFinal(w)
  PROVE  Promise!Next
<1>1. /\ pc[w] = "acting" /\ UNCHANGED <<live, asked, applied>>
  BY DEF Reject, ApproveSibling, ApproveAdvance, ApproveFinal
<1> PICK j \in ActJob : j = job[w]
  BY <1>1, JobNamesRequest
<1>2. /\ j \in ActJob /\ j.req \in Requests /\ j.steps \subseteq Steps
      /\ state[j.req] # "none" /\ SignedBelow(j.req, j.pos)
  BY <1>1, JobNamesRequest DEF ActJob, SignOffInv, SnapshotsInv
<1>3. Required' = Required
  BY <1>1 DEF Required
<1>4. PICK s \in Steps, d \in {"approve", "reject"} :
        /\ Record(j, s, d)
        /\ d = "reject" => Reject(w)
        /\ d = "approve" => \/ ApproveSibling(w) \/ ApproveAdvance(w)
                            \/ ApproveFinal(w) /\ OpenAfter(j, s) = {}
  BY <1>2 DEF Reject, ApproveSibling, ApproveAdvance, ApproveFinal
<1>5. /\ Position[s] = j.pos
      /\ \A q \in Requests \ {j.req} : Signed(q)' = Signed(q)
      /\ d = "approve" => Signed(j.req)' = Signed(j.req) \cup {s}
      /\ d = "reject" => Signed(j.req)' = Signed(j.req)
  BY <1>2, <1>4, RecordSigns, VoteSignsOne
<1>6. {t \in Required[j.req] : Position[t] < Position[s]} \subseteq Signatures[j.req]
  BY <1>2, <1>5 DEF SignedBelow, Required, Signatures
<1>7. CASE d = "reject"
  <2>1. state[j.req] = "pending" /\ state' = [state EXCEPT ![j.req] = "rejected"]
    BY <1>4, <1>7 DEF Reject, RowWritable
  <2>2. Signatures' = Signatures
    BY <1>2, <1>5, <1>7 DEF Signatures
  <2>3. Promise!Reject(j.req)
    BY <1>1, <1>3, <2>1, <2>2 DEF Promise!Reject, Required, Signatures
  <2>4. QED
    BY <1>2, <2>3 DEF Promise!Next
<1>8. CASE d = "approve"
  <2>1. Signatures' = [Signatures EXCEPT ![j.req] = @ \cup {s}]
    BY <1>2, <1>5, <1>8 DEF Signatures
  <2>2. Promise!MaySign(j.req, s)
    BY <1>2, <1>6 DEF Promise!MaySign, Required, Signatures
  <2>3. CASE ApproveSibling(w) \/ ApproveAdvance(w)
    <3>1. state' = state
      BY <2>3 DEF ApproveSibling, ApproveAdvance
    <3>2. Promise!Sign(j.req, s)
      BY <1>1, <1>3, <2>1, <2>2, <3>1 DEF Promise!Sign, Required, Signatures
    <3>3. QED
      BY <1>2, <3>2 DEF Promise!Next
  <2>4. CASE ApproveFinal(w) /\ OpenAfter(j, s) = {}
    <3>1. /\ state[j.req] = "pending" /\ state' = [state EXCEPT ![j.req] = "approved"]
          /\ LaterPositions(j.steps, move[j.req], j.pos) = {}
      BY <2>4 DEF ApproveFinal, RowWritable
    <3>2. ASSUME NEW t \in asked[j.req] \cap live PROVE t \in Signed(j.req) \cup {s}
      <4>1. /\ t \in StepsFor(j.steps, move[j.req])
            /\ Position[t] <= j.pos => t \in Signed(j.req)'
        BY <1>1, <1>2, <1>4, <1>8, <2>4, PositionComplete
      <4>2. Position[t] \in Nat /\ j.pos \in Nat
        BY <1>2, <4>1, StepsAssumption DEF StepsFor, ActJob
      <4>3. ~(Position[t] > j.pos)
        BY <3>1, <4>1 DEF LaterPositions
      <4>4. QED
        BY <1>5, <1>8, <4>1, <4>2, <4>3
    <3>3. Required[j.req] \subseteq Signatures[j.req] \cup {s}
      BY <1>2, <3>2 DEF Required, Signatures
    <3>4. Promise!Approve(j.req, s)
      BY <1>1, <1>3, <2>1, <2>2, <3>1, <3>3 DEF Promise!Approve, Required, Signatures
    <3>5. QED
      BY <1>2, <3>4 DEF Promise!Next
  <2>5. QED
    BY <1>4, <1>8, <2>3, <2>4
<1>9. QED
  BY <1>7, <1>8

LEMMA PromiseOfStep ==
  ASSUME StaleWritesRefused, TypeOK, SignOffInv, DecisionsInv, [Next]_vars
  PROVE  [Promise!Next]_Promise!vars
<1>1. ASSUME UNCHANGED <<state, applied, actions, asked, live>> PROVE UNCHANGED Promise!vars
  BY <1>1, PromiseStutters
<1>2. \A q \in Requests : asked[q] \subseteq live \cup gone
  BY DEF SignOffInv, RequestsInv, StepsFor
<1>3. ASSUME NEW w \in Workers, NEW s \in Steps, AddStep(w, s)
      PROVE UNCHANGED Promise!vars
  BY <1>2, <1>3, PromiseStutters DEF AddStep
<1>4. ASSUME NEW w \in Workers, NEW s \in Steps, DeleteStep(w, s) PROVE Promise!Next
  <2>1. /\ UNCHANGED <<state, applied, actions, asked>> /\ live' = live \ {s}
    BY <1>4 DEF DeleteStep
  <2>2. Required' = [q \in Requests |-> Required[q] \ {s}]
    BY <2>1 DEF Required
  <2>3. Signatures' = Signatures
    BY <2>1 DEF Signatures, Signed
  <2>4. Promise!Waive(s)
    BY <2>1, <2>2, <2>3 DEF Promise!Waive, Required, Signatures
  <2>5. QED
    BY <2>4 DEF Promise!Next
<1>5. ASSUME NEW w \in Workers, RequestTransition(w) PROVE [Promise!Next]_Promise!vars
  <2>1. UNCHANGED <<live, applied>>
    BY <1>5 DEF RequestTransition
  <2>2. CASE UNCHANGED table
    BY <1>1, <2>1, <2>2 DEF table
  <2>3. CASE ~UNCHANGED table
    <3>1. PICK q \in Requests, S \in SUBSET Steps :
            /\ state[q] = "none" /\ state' = [state EXCEPT ![q] = "pending"]
            /\ asked' = [asked EXCEPT ![q] = S]
            /\ actions' = actions
      <4>1. \A m : StepsFor(job[w].steps, m) \subseteq Steps
        BY <1>5 DEF RequestTransition, TypeOK, EditJob, StepsFor
      <4>2. QED
        BY <1>5, <2>3, <4>1 DEF RequestTransition
    <3>2. Required' = [Required EXCEPT ![q] = S \cap live]
      BY <2>1, <3>1 DEF Required, TypeOK
    <3>3. Signatures' = Signatures
      BY <3>1 DEF Signatures, Signed
    <3>4. Promise!Open(q)
      BY <2>1, <3>1, <3>2, <3>3 DEF Promise!Open, Required, Signatures
    <3>5. QED
      BY <3>4 DEF Promise!Next
  <2>4. QED
    BY <2>2, <2>3
<1>6. ASSUME NEW w \in Workers, Apply(w) PROVE Promise!Next
  <2>1. /\ pc[w] = "applying" /\ UNCHANGED <<state, actions, asked, live>>
        /\ applied' = applied \cup {job[w].req}
    BY <1>6 DEF Apply
  <2>2. job[w].req \in Requests /\ state[job[w].req] = "approved" /\ job[w].req \notin applied
    BY <2>1, JobNamesRequest DEF DecisionsInv
  <2>3. Required' = Required /\ Signatures' = Signatures
    BY <2>1 DEF Required, Signatures, Signed
  <2>4. Promise!CarryOut(job[w].req)
    BY <2>1, <2>2, <2>3 DEF Promise!CarryOut, Required, Signatures
  <2>5. QED
    BY <2>2, <2>4 DEF Promise!Next
<1>7. ASSUME NEW w \in Workers,
             \/ Fail(w) \/ Refused(w) \/ EditRead(w) \/ EditWrite(w) \/ EditResnapshot(w)
             \/ \E u \in Users, q \in Requests : ActBegin(w, u, q)
             \/ \E u \in Users, r \in Records, to \in Values : EditBegin(w, u, r, to)
      PROVE UNCHANGED Promise!vars
  BY <1>1, <1>7 DEF Fail, Refused, EditRead, EditWrite, EditResnapshot, ActBegin, EditBegin
<1>8. CASE UNCHANGED vars
  BY <1>1, <1>8 DEF vars
<1>9. QED
  BY <1>3, <1>4, <1>5, <1>6, <1>7, <1>8, PromiseOfVote DEF Next, Step

\* On a server that refuses stale writes, every behaviour of the handlers, over
\* any number of workers, is a behaviour of SignOff.
THEOREM HandlersImplementSignOff ==
  ASSUME StaleWritesRefused
  PROVE  Spec => ImplementsSignOff
<1>1. Init => Promise!Init
  BY DEF Init, Promise!Init, Signed
<1>2. TypeOK /\ SignOffInv /\ DecisionsInv /\ [Next]_vars => [Promise!Next]_Promise!vars
  BY PromiseOfStep
<1>3. QED
  BY <1>1, <1>2, TypeCorrect, SignOffInvariant, DecisionsInvariant, PTL
  DEF Spec, ImplementsSignOff, Promise!Spec

-----------------------------------------------------------------------------
(* Gated moves. *)

\* A handler that is about to write decided that its change needs no approval,
\* on the status and the steps it had read, and that it is allowed.
WritersInv ==
  \A w \in Workers : LET j == job[w] IN
    pc[w] = "writing" =>
      ~Diverted(j.steps, j.old, j.to) /\ CheckPasses(j.user, j.old, j.to)

LEMMA WritersNext ==
  ASSUME TypeOK, WritersInv, [Next]_vars
  PROVE  WritersInv'
<1>1. ASSUME \A w \in Workers : pc'[w] = "writing" => pc[w] = "writing" /\ job'[w] = job[w]
      PROVE WritersInv'
  BY <1>1 DEF WritersInv
<1>2. ASSUME NEW w \in Workers, pc'[w] # "writing",
             \A v \in Workers \ {w} : pc'[v] = pc[v] /\ job'[v] = job[v]
      PROVE WritersInv'
  BY <1>1, <1>2
<1>3. ASSUME NEW w \in Workers, Finish(w) PROVE WritersInv'
  BY <1>2, <1>3 DEF Finish, TypeOK
<1>4. ASSUME NEW w \in Workers, EditRead(w) PROVE WritersInv'
  <2> DEFINE old == status[job[w].rec]
  <2>1. pc[w] = "reading" /\ job[w] \in EditJob
    BY <1>4 DEF EditRead, TypeOK
  <2>2. CASE Decline(w, old)
    BY <1>3, <2>2 DEF Decline
  <2>3. CASE Divert(w, old)
    BY <1>2, <2>3 DEF Divert, TypeOK
  <2>4. CASE Direct(w, old)
    <3>1. /\ pc' = [pc EXCEPT ![w] = "writing"] /\ job' = [job EXCEPT ![w].old = old]
          /\ ~Diverted(job[w].steps, old, job[w].to)
          /\ CheckPasses(job[w].user, old, job[w].to)
      BY <2>4 DEF Direct
    <3>2. /\ job'[w].old = old /\ job'[w].to = job[w].to
          /\ job'[w].user = job[w].user /\ job'[w].steps = job[w].steps
          /\ \A v \in Workers \ {w} : pc'[v] = pc[v] /\ job'[v] = job[v]
      BY <2>1, <3>1 DEF EditJob, TypeOK
    <3>3. /\ ~Diverted(job'[w].steps, job'[w].old, job'[w].to)
          /\ CheckPasses(job'[w].user, job'[w].old, job'[w].to)
      BY <3>1, <3>2
    <3>4. ASSUME NEW v \in Workers, pc'[v] = "writing"
          PROVE  /\ ~Diverted(job'[v].steps, job'[v].old, job'[v].to)
                 /\ CheckPasses(job'[v].user, job'[v].old, job'[v].to)
      BY <3>2, <3>3, <3>4 DEF WritersInv
    <3>5. QED
      BY <3>4 DEF WritersInv, Diverted, RequiresApproval, CheckPasses
  <2>5. QED
    BY <1>4, <2>2, <2>3, <2>4 DEF EditRead
<1>5. ASSUME NEW w \in Workers,
             \/ EditResnapshot(w) \/ ApproveFinal(w)
             \/ \E u \in Users, q \in Requests : ActBegin(w, u, q)
             \/ \E u \in Users, r \in Records, to \in Values : EditBegin(w, u, r, to)
      PROVE WritersInv'
  BY <1>2, <1>5 DEF EditResnapshot, ApproveFinal, ActBegin, EditBegin, TypeOK
<1>6. ASSUME UNCHANGED <<pc, job>> PROVE WritersInv'
  BY <1>1, <1>6
<1>7. QED
  BY <1>3, <1>4, <1>5, <1>6
  DEF Next, Step, Reject, ApproveSibling, ApproveAdvance, Apply, EditWrite,
      RequestTransition, Refused, Fail, AddStep, DeleteStep, vars

\* What a handler writes unasked is no move that the steps it read gate, unless
\* the record has left the status it read.
LEMMA WrittenUngated ==
  ASSUME TypeOK, WritersInv, NEW w \in Workers, pc[w] = "writing",
         NEW r \in Records, r = job[w].rec, job[w].to # status[r],
         RequiresApproval(live, status[r], job[w].to)
  PROVE  Overtaken(w, r, job[w].to)
<1>1. /\ job[w] \in EditJob
      /\ ~Diverted(job[w].steps, job[w].old, job[w].to)
      /\ CheckPasses(job[w].user, job[w].old, job[w].to)
  BY DEF TypeOK, WritersInv
<1>2. job[w].to # Blank
  <2>1. PICK s \in live : Gate[s] = <<status[r], job[w].to>>
    BY DEF RequiresApproval
  <2>2. Gate[s] \in States \X States
    BY StepsAssumption DEF TypeOK
  <2>3. job[w].to \in States
    BY <2>1, <2>2
  <2>4. QED
    BY <2>3, OtherAssumption
<1>3. CASE job[w].old = status[r]
  <2>1. <<status[r], job[w].to>> \in Transitions
    BY <1>1, <1>2, <1>3 DEF CheckPasses
  <2>2. ~RequiresApproval(job[w].steps, status[r], job[w].to)
    BY <1>1, <1>2, <1>3, <2>1 DEF Diverted
  <2>3. QED
    BY <2>2 DEF Overtaken
<1>4. QED
  BY <1>3 DEF Overtaken

\* However many handlers run and wherever they die, a gated move happens only
\* by an approved request, applied once, or by a write path that was overtaken.
THEOREM GatedMoveIsSignedHolds ==
  ASSUME StaleWritesRefused \/ OneHandler
  PROVE  Spec => GatedMoveIsSigned
<1> DEFINE Gated == \A r \in Records :
      status'[r] # status[r] /\ RequiresApproval(live, status[r], status'[r]) =>
        \/ \E q \in applied' \ applied :
             state[q] = "approved" /\ move[q].rec = r /\ move[q].to = status'[r]
        \/ \E w \in Workers : Overtaken(w, r, status'[r])
<1>1. Init => WritersInv
  BY DEF Init, WritersInv
<1>2. TypeOK /\ WritersInv /\ [Next]_vars => WritersInv'
  BY WritersNext
<1>3. ASSUME TypeOK, DecisionsInv, WritersInv, [Next]_vars PROVE [Gated]_vars
  <2>1. ASSUME NEW w \in Workers, EditWrite(w) PROVE Gated
    <3>1. /\ pc[w] = "writing"
          /\ status' = [status EXCEPT ![job[w].rec] = job[w].to]
      BY <2>1 DEF EditWrite
    <3>2. ASSUME NEW r \in Records, status'[r] # status[r],
                 RequiresApproval(live, status[r], status'[r])
          PROVE Overtaken(w, r, status'[r])
      <4>1. r = job[w].rec /\ status'[r] = job[w].to
        BY <1>3, <3>1, <3>2 DEF TypeOK
      <4>2. QED
        BY <1>3, <3>1, <3>2, <4>1, WrittenUngated
    <3>3. QED
      BY <3>2
  <2>2. ASSUME NEW w \in Workers, Apply(w) PROVE Gated
    <3>1. /\ job[w].req \in Requests /\ state[job[w].req] = "approved"
          /\ job[w].req \notin applied /\ applied' = applied \cup {job[w].req}
          /\ status' = [status EXCEPT ![move[job[w].req].rec] = move[job[w].req].to]
      BY <1>3, <2>2, JobNamesRequest DEF Apply, DecisionsInv
    <3>2. QED
      BY <1>3, <3>1 DEF TypeOK
  <2>3. ASSUME UNCHANGED status PROVE Gated
    BY <2>3
  <2>4. QED
    BY <1>3, <2>1, <2>2, <2>3
    DEF Next, Step, ActBegin, EditBegin, AddStep, DeleteStep, Reject, ApproveSibling,
        ApproveAdvance, ApproveFinal, RequestTransition, EditRead, EditResnapshot, Fail, Refused
<1>4. QED
  BY <1>1, <1>2, <1>3, TypeCorrect, DecisionsInvariant, PTL DEF Spec, GatedMoveIsSigned

=============================================================================
