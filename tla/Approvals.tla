----------------------------- MODULE Approvals -----------------------------
(***************************************************************************)
(* Status workflows with multi-step sign-off (src/app/approvals.py,        *)
(* src/app/workflow.py and the write paths that call them).                *)
(*                                                                         *)
(* A record's status may only follow the workflow's transition graph.  A   *)
(* transition with approval steps is held: the write is diverted into an   *)
(* approval request, approvers sign the steps position by position, and    *)
(* the handler that records the last signature applies the move.           *)
(*                                                                         *)
(* Every web request is a handler run by a worker.  Its session takes one  *)
(* snapshot of the app_* tables at its first query and works on it until   *)
(* it commits (REPEATABLE READ); the record itself is read and written     *)
(* through other connections, each operation its own transaction.  So a    *)
(* handler is a begin step that takes the snapshot, and commit steps that  *)
(* write.  Notifications are left out.                                     *)
(***************************************************************************)
EXTENDS Naturals, FiniteSets

CONSTANTS
  Records,             \* rows of the table that carries the workflow
  States,              \* choices of the status field
  Blank,               \* the status field cleared (None or "")
  Transitions,         \* the workflow's from -> to pairs
  Users,
  Permitted,           \* <<user, transition>>: the per-transition role gate
  Steps,               \* ids an ApprovalStep row may get, in insertion order
  Position,            \* Position[s]: the step group s belongs to
  Gate,                \* Gate[s]: the <<from, to>> pair the step is attached to
  Approvers,           \* Approvers[s]: the users eligible for s
  InitialSteps,        \* steps configured from the start
  Editable,            \* steps the designer adds or deletes at run time
  Requests,            \* ids an ApprovalRequest row may get (bounds their number)
  Workers,             \* web processes or threads, one handler at a time each
  StaleWritesRefused,  \* the server refuses to update a row that changed since
                       \* the snapshot (MariaDB from 11.6.2) or not (MySQL)
  MayFail,             \* handlers may die: crash, deadlock victim, exception
  NoJob

ASSUME StepsAssumption ==
  /\ Steps \subseteq Nat
  /\ InitialSteps \subseteq Steps
  /\ Editable \subseteq Steps
  /\ Position \in [Steps -> Nat]
  /\ Gate \in [Steps -> States \X States]
  /\ Approvers \in [Steps -> SUBSET Users]

ASSUME OtherAssumption ==
  /\ Records # {}
  /\ Blank \notin States
  /\ Transitions \subseteq States \X States
  /\ Requests \subseteq Nat
  /\ StaleWritesRefused \in BOOLEAN
  /\ MayFail \in BOOLEAN

VARIABLES
  status,   \* the records' status column
  live,     \* ApprovalStep rows
  gone,     \* deleted ApprovalStep rows, whose ids never return
  state,    \* ApprovalRequest.state, "none" where there is no row
  move,     \* ApprovalRequest.row_pk, from_state, to_state
  pos,      \* ApprovalRequest.current_position
  actions,  \* ApprovalAction rows of each request
  asked,    \* history: the steps a request was created with
  applied,  \* history: requests whose move was written to the record
  pc,       \* where each worker's handler is
  job       \* the handler's inputs and its session's snapshot

table == <<state, move, pos, actions, asked>>
vars == <<status, live, gone, state, move, pos, actions, asked, applied, pc, job>>

Values == States \cup {Blank}
Moves == [rec : Records, frm : Values, to : Values]
Action == [step : Steps, user : Users, decision : {"approve", "reject"}]

NoMove == [rec |-> CHOOSE r \in Records : TRUE, frm |-> Blank, to |-> Blank]

\* act(): the request row, the approve actions and the steps as snapshotted.
ActJob == [user : Users, req : Requests, pos : Nat,
           signed : SUBSET Steps, steps : SUBSET Steps]
\* A write path: the record, the wanted status, the status read ("old"), the
\* steps and the pending moves as snapshotted.
EditJob == [user : Users, rec : Records, to : Values, old : Values,
            steps : SUBSET Steps, pending : SUBSET Moves]

\* The rows are well formed, and a handler's locals fit the place it is at.
TypeOK ==
  /\ status \in [Records -> Values]
  /\ live \subseteq Steps
  /\ gone \subseteq Steps
  /\ state \in [Requests -> {"none", "pending", "approved", "rejected"}]
  /\ move \in [Requests -> Moves]
  /\ pos \in [Requests -> Nat]
  /\ actions \in [Requests -> SUBSET Action]
  /\ asked \in [Requests -> SUBSET Steps]
  /\ applied \subseteq Requests
  /\ pc \in [Workers -> {"idle", "acting", "applying", "reading", "writing", "requesting"}]
  /\ job \in [Workers -> ActJob \cup EditJob \cup {NoJob}]
  /\ \A w \in Workers :
       /\ pc[w] \in {"acting", "applying"} => job[w] \in ActJob
       /\ pc[w] \in {"reading", "writing", "requesting"} => job[w] \in EditJob

Init ==
  /\ status \in [Records -> States]
  /\ live = InitialSteps
  /\ gone = {}
  /\ state = [q \in Requests |-> "none"]
  /\ move = [q \in Requests |-> NoMove]
  /\ pos = [q \in Requests |-> 0]
  /\ actions = [q \in Requests |-> {}]
  /\ asked = [q \in Requests |-> {}]
  /\ applied = {}
  /\ pc = [w \in Workers |-> "idle"]
  /\ job = [w \in Workers |-> NoJob]

-----------------------------------------------------------------------------
(* Step configuration and the workflow graph. *)

\* steps_for: the configured steps of a request's transition.
StepsFor(steps, m) == {s \in steps : Gate[s] = <<m.frm, m.to>>}

\* Signed steps of a request: those with an approve action.
Signed(q) == {a.step : a \in {b \in actions[q] : b.decision = "approve"}}

\* _open_steps, given the steps, approve actions and position of a snapshot.
OpenSteps(steps, m, p, signed) ==
  {s \in StepsFor(steps, m) : Position[s] = p /\ s \notin signed}

\* Mutant: the position of the steps is not looked at.
MineAnyPosition(u, steps, m, p, signed) ==
  {s \in StepsFor(steps, m) : s \notin signed /\ u \in Approvers[s]}

\* Those of the open steps the user is eligible for ("mine" in act).
Mine(u, steps, m, p, signed) ==
  {s \in OpenSteps(steps, m, p, signed) : u \in Approvers[s]}

\* The step groups after p ("nxt" in act is the lowest of them).
LaterPositions(steps, m, p) ==
  {Position[s] : s \in {t \in StepsFor(steps, m) : Position[t] > p}}

\* requires_approval: the pair has at least one configured step.
RequiresApproval(steps, old, to) == \E s \in steps : Gate[s] = <<old, to>>

\* Mutant: a write path that does not divert.
DivertedNever(steps, old, to) == FALSE

\* plan_diversions: the change is a graph edge that has approval steps.
Diverted(steps, old, to) ==
  /\ to \notin {old, Blank}
  /\ <<old, to>> \in Transitions
  /\ RequiresApproval(steps, old, to)

\* workflow.check on a change that was not diverted.
CheckPasses(u, old, to) ==
  \/ to \in {old, Blank}
  \/ /\ <<old, to>> \in Transitions
     /\ <<u, <<old, to>>>> \in Permitted

-----------------------------------------------------------------------------
(* Acting on a request. *)

\* The request is answered: the session is removed, the worker is free.
Finish(w) ==
  /\ pc' = [pc EXCEPT ![w] = "idle"]
  /\ job' = [job EXCEPT ![w] = NoJob]

\* act's first guard.
Decidable(q) == state[q] = "pending"

\* approval_act loads the request and act() checks it on that snapshot; a
\* decided request or an ineligible user gets a ValueError and changes nothing.
ActBegin(w, u, q) ==
  /\ pc[w] = "idle"
  /\ Decidable(q)
  /\ Mine(u, live, move[q], pos[q], Signed(q)) # {}
  /\ pc' = [pc EXCEPT ![w] = "acting"]
  /\ job' = [job EXCEPT ![w] = [user |-> u, req |-> q, pos |-> pos[q],
                                signed |-> Signed(q), steps |-> live]]
  /\ UNCHANGED <<status, live, gone, state, move, pos, actions, asked, applied>>

\* Mutant: the server overwrites a row the handler has not seen.
RowWritableAlways(j) == TRUE

\* Whether the server lets the handler update the request row it snapshotted.
RowWritable(j) ==
  StaleWritesRefused => state[j.req] = "pending" /\ pos[j.req] = j.pos

\* The ApprovalAction insert: the first of the user's open steps, by id.
Record(j, s, decision) ==
  LET mine == Mine(j.user, j.steps, move[j.req], j.pos, j.signed)
  IN /\ s \in mine
     /\ \A t \in mine : s <= t
     /\ actions' = [actions EXCEPT ![j.req] =
          @ \cup {[step |-> s, user |-> j.user, decision |-> decision]}]

\* Mutant: one approval completes the position.
OpenAfterFirst(j, s) == {}

\* What is still open at the snapshot's position once step s is signed: the
\* second _open_steps query sees the snapshot and the handler's own insert.
OpenAfter(j, s) ==
  OpenSteps(j.steps, move[j.req], j.pos, j.signed \cup {s})

\* Mutant: the rejection is recorded but the request stays pending.
RejectRecordsOnly(w) ==
  /\ pc[w] = "acting"
  /\ \E s \in job[w].steps : Record(job[w], s, "reject")
  /\ Finish(w)
  /\ UNCHANGED <<status, live, gone, state, move, pos, asked, applied>>

\* One rejection decides the request.
Reject(w) ==
  /\ pc[w] = "acting"
  /\ LET j == job[w]
     IN /\ RowWritable(j)
        /\ \E s \in j.steps : Record(j, s, "reject")
        /\ state' = [state EXCEPT ![j.req] = "rejected"]
  /\ Finish(w)
  /\ UNCHANGED <<status, live, gone, move, pos, asked, applied>>

\* Parallel siblings are still open: only the action row is committed.
ApproveSibling(w) ==
  /\ pc[w] = "acting"
  /\ LET j == job[w]
     IN \E s \in j.steps : Record(j, s, "approve") /\ OpenAfter(j, s) # {}
  /\ Finish(w)
  /\ UNCHANGED <<status, live, gone, state, move, pos, asked, applied>>

\* The position is complete and a later one exists: advance to it.
ApproveAdvance(w) ==
  /\ pc[w] = "acting"
  /\ LET j == job[w]
         later == LaterPositions(j.steps, move[j.req], j.pos)
     IN /\ RowWritable(j)
        /\ \E s \in j.steps : Record(j, s, "approve") /\ OpenAfter(j, s) = {}
        /\ \E p \in later : /\ \A o \in later : p <= o
                            /\ pos' = [pos EXCEPT ![j.req] = p]
  /\ Finish(w)
  /\ UNCHANGED <<status, live, gone, state, move, asked, applied>>

\* The last position is complete: the decision is committed, then applied.
ApproveFinal(w) ==
  /\ pc[w] = "acting"
  /\ LET j == job[w]
     IN /\ RowWritable(j)
        /\ \E s \in j.steps : Record(j, s, "approve") /\ OpenAfter(j, s) = {}
        /\ LaterPositions(j.steps, move[j.req], j.pos) = {}
        /\ state' = [state EXCEPT ![j.req] = "approved"]
  /\ pc' = [pc EXCEPT ![w] = "applying"]
  /\ UNCHANGED <<status, live, gone, move, pos, asked, applied, job>>

\* _apply: record_service.update writes to_state whatever the record holds now.
Apply(w) ==
  /\ pc[w] = "applying"
  /\ LET q == job[w].req
     IN /\ status' = [status EXCEPT ![move[q].rec] = move[q].to]
        /\ applied' = applied \cup {q}
  /\ Finish(w)
  /\ UNCHANGED <<live, gone, state, move, pos, actions, asked>>

-----------------------------------------------------------------------------
(* The write paths: form, inline cell, bulk edit, API and portal close. *)

PendingMoves == {move[q] : q \in {p \in Requests : state[p] = "pending"}}

\* The session's first query takes the snapshot, before the record is read.
EditBegin(w, u, r, to) ==
  /\ pc[w] = "idle"
  /\ pc' = [pc EXCEPT ![w] = "reading"]
  /\ job' = [job EXCEPT ![w] = [user |-> u, rec |-> r, to |-> to, old |-> Blank,
                                steps |-> live, pending |-> PendingMoves]]
  /\ UNCHANGED <<status, live, gone, state, move, pos, actions, asked, applied>>

\* Bounds the number of requests: every handler about to insert one has an id.
RoomForRequest ==
  Cardinality({q \in Requests : state[q] = "none"})
    > Cardinality({w \in Workers : pc[w] = "requesting"})

\* The change needs approval: a request is to be made of it.
Divert(w, old) ==
  /\ Diverted(job[w].steps, old, job[w].to)
  /\ RoomForRequest
  /\ pc' = [pc EXCEPT ![w] = "requesting"]
  /\ job' = [job EXCEPT ![w].old = old]

\* The change is allowed as it is.
Direct(w, old) ==
  /\ ~Diverted(job[w].steps, old, job[w].to)
  /\ CheckPasses(job[w].user, old, job[w].to)
  /\ pc' = [pc EXCEPT ![w] = "writing"]
  /\ job' = [job EXCEPT ![w].old = old]

\* A WorkflowError, or a change that a bulk edit or a portal close would have
\* to divert: the row is skipped.
Decline(w, old) ==
  /\ \/ Diverted(job[w].steps, old, job[w].to)
     \/ ~CheckPasses(job[w].user, old, job[w].to)
  /\ Finish(w)

\* get_record, plan_diversions and workflow.check.
EditRead(w) ==
  /\ pc[w] = "reading"
  /\ LET old == status[job[w].rec]
     IN Divert(w, old) \/ Direct(w, old) \/ Decline(w, old)
  /\ UNCHANGED <<status, live, gone, state, move, pos, actions, asked, applied>>

\* record_service.update of the status column.
EditWrite(w) ==
  /\ pc[w] = "writing"
  /\ status' = [status EXCEPT ![job[w].rec] = job[w].to]
  /\ Finish(w)
  /\ UNCHANGED <<live, gone, state, move, pos, actions, asked, applied>>

\* A save that also changes other fields writes and commits those first, so
\* that the session's next query takes a new snapshot.
EditResnapshot(w) ==
  /\ pc[w] = "requesting"
  /\ job' = [job EXCEPT ![w].steps = live, ![w].pending = PendingMoves]
  /\ UNCHANGED <<status, live, gone, state, move, pos, actions, asked, applied, pc>>

\* The request's first position: the lowest configured one, 1 if there is none.
FirstPosition(steps, p) ==
  \/ steps = {} /\ p = 1
  \/ \E s \in steps : p = Position[s] /\ \A t \in steps : p <= Position[t]

\* The lookup of a pending request for the same record and transition.
Existing(j, m) == m \in j.pending

\* request_transition: reuse the pending request of the snapshot or insert one.
RequestTransition(w) ==
  /\ pc[w] = "requesting"
  /\ LET j == job[w]
         m == [rec |-> j.rec, frm |-> j.old, to |-> j.to]
         steps == StepsFor(j.steps, m)
     IN \/ /\ Existing(j, m)
           /\ UNCHANGED table
        \/ /\ ~Existing(j, m)
           /\ \E q \in Requests :
                /\ state[q] = "none"
                /\ \A p \in Requests : p < q => state[p] # "none"
                /\ state' = [state EXCEPT ![q] = "pending"]
                /\ move' = [move EXCEPT ![q] = m]
                /\ \E p \in {1} \cup {Position[s] : s \in steps} :
                     FirstPosition(steps, p) /\ pos' = [pos EXCEPT ![q] = p]
                /\ asked' = [asked EXCEPT ![q] = steps]
           /\ UNCHANGED actions
  /\ Finish(w)
  /\ UNCHANGED <<status, live, gone, applied>>

-----------------------------------------------------------------------------
(* The designer's step configuration. *)

AddStep(w, s) ==
  /\ pc[w] = "idle"
  /\ s \in Editable \ (live \cup gone)
  /\ live' = live \cup {s}
  /\ UNCHANGED <<status, gone, state, move, pos, actions, asked, applied, pc, job>>

DeleteStep(w, s) ==
  /\ pc[w] = "idle"
  /\ s \in Editable \cap live
  /\ live' = live \ {s}
  /\ gone' = gone \cup {s}
  /\ UNCHANGED <<status, state, move, pos, actions, asked, applied, pc, job>>

-----------------------------------------------------------------------------

\* The process dies or the transaction is rolled back between two commits.
Fail(w) ==
  /\ MayFail
  /\ pc[w] # "idle"
  /\ Finish(w)
  /\ UNCHANGED <<status, live, gone, state, move, pos, actions, asked, applied>>

\* A refused stale write rolls the handler's transaction back.
Refused(w) ==
  /\ pc[w] = "acting"
  /\ ~RowWritable(job[w])
  /\ Finish(w)
  /\ UNCHANGED <<status, live, gone, state, move, pos, actions, asked, applied>>

\* One step of the handler a worker is running.
Step(w) ==
  \/ Reject(w) \/ ApproveSibling(w) \/ ApproveAdvance(w) \/ ApproveFinal(w)
  \/ Apply(w) \/ EditRead(w) \/ EditWrite(w) \/ RequestTransition(w) \/ Refused(w)

Next ==
  \E w \in Workers :
    \/ \E u \in Users, q \in Requests : ActBegin(w, u, q)
    \/ \E u \in Users, r \in Records, to \in Values : EditBegin(w, u, r, to)
    \/ \E s \in Steps : AddStep(w, s) \/ DeleteStep(w, s)
    \/ Step(w)
    \/ EditResnapshot(w)
    \/ Fail(w)

Spec == Init /\ [][Next]_vars

\* A handler that has begun is driven to its end by its worker.
FairSpec == Spec /\ \A w \in Workers : WF_vars(Step(w))

-----------------------------------------------------------------------------
(* Safety. *)

\* An approved request carries an approve action for every step it was created
\* with that is still configured: no interleaving of approvers, however stale
\* their snapshots, and no edit of the steps lets act() finish a request early.
SignedOff ==
  \A q \in Requests :
    state[q] = "approved" => asked[q] \cap live \subseteq Signed(q)

\* Step groups are sequential: whoever signs a step finds every step of a lower
\* position (created with the request and still configured) already signed.
SignedInOrder ==
  \A q \in Requests : \A a \in actions[q] :
    a.decision = "approve" =>
      {s \in asked[q] \cap live : Position[s] < Position[a.step]} \subseteq Signed(q)

\* What the two rest on: a request's position, and the position a handler has
\* in its snapshot, have every lower step signed; a snapshot knows every step a
\* request still needs and no signature that was not given.
SignedBelow(q, p) == {s \in asked[q] \cap live : Position[s] < p} \subseteq Signed(q)

RequestsInv ==
  \A q \in Requests :
    /\ asked[q] \subseteq StepsFor(live \cup gone, move[q])
    /\ state[q] = "none" => actions[q] = {}
    /\ state[q] # "none" => SignedBelow(q, pos[q])

SnapshotsInv ==
  \A w \in Workers : LET j == job[w] IN
    /\ pc[w] = "acting" =>
         /\ state[j.req] # "none"
         /\ asked[j.req] \cap live \subseteq j.steps
         /\ j.signed \subseteq Signed(j.req)
         /\ SignedBelow(j.req, j.pos)
    /\ pc[w] \in {"reading", "writing", "requesting"} => j.steps \subseteq live \cup gone

SignOffInv == SignedOff /\ SignedInOrder /\ RequestsInv /\ SnapshotsInv

\* A decision is final: once act() has approved or rejected a request, no other
\* handler overwrites the outcome ("This approval has already been decided").
DecisionFinal ==
  [][\A q \in Requests : state[q] \in {"approved", "rejected"} => state'[q] = state[q]]_vars

\* A rejected request never moves its record: "any rejection cancels the move".
RejectionCancels ==
  \A q \in applied : {a \in actions[q] : a.decision = "reject"} = {}

\* A handler that decided on another status than the record has by now, or on
\* a snapshot without the steps that gate the move by now: it writes what its
\* own reading allowed.
Overtaken(w, r, to) ==
  /\ pc[w] = "writing" /\ job[w].rec = r /\ job[w].to = to
  /\ \/ job[w].old # status[r]
     \/ ~RequiresApproval(job[w].steps, status[r], to)

\* A record makes a move that needs approval only by an approved request for
\* that record and that state being applied, and each request is applied once,
\* however many handlers run and wherever they die; the one exception is a
\* write path that was overtaken between its reading and its write.
GatedMoveIsSigned ==
  [][\A r \in Records :
       status'[r] # status[r] /\ RequiresApproval(live, status[r], status'[r]) =>
         \/ \E q \in applied' \ applied :
              state[q] = "approved" /\ move[q].rec = r /\ move[q].to = status'[r]
         \/ \E w \in Workers : Overtaken(w, r, status'[r])]_vars

(* Refinement. *)

Promise == INSTANCE SignOff WITH
  outcome <- state,
  required <- [q \in Requests |-> asked[q] \cap live],
  signed <- [q \in Requests |-> Signed(q)],
  done <- applied

\* Where the server refuses stale writes, the handlers implement SignOff: its
\* final decisions, its order of signatures, and nothing done unapproved.
ImplementsSignOff == Promise!Spec

-----------------------------------------------------------------------------
(* What the documents say and the code does not keep.  Approvals_parallel      *)
(* shows the first; README.md says how to see the others.                      *)

\* approvals.py:9-10, "When the last position approves, the transition is
\* applied for real": when no handler is running, no request is pending of
\* which every configured step is signed.
LastSignatureDecides ==
  (\A w \in Workers : pc[w] = "idle") =>
    \A q \in Requests :
      state[q] = "pending" =>
        LET steps == StepsFor(live, move[q])
        IN steps # {} => ~(steps \subseteq Signed(q))

\* approvals.py:119, "Create (or reuse) a pending request": a move has one
\* pending request at most.
OnePendingRequest ==
  \A p, q \in Requests :
    state[p] = "pending" /\ state[q] = "pending" /\ move[p] = move[q] => p = q

\* workflow.py:6-7, "an illegal state change is a data-integrity error for
\* everyone": every change from one state to another follows the graph.
GraphKept ==
  [][\A r \in Records :
       status[r] # Blank /\ status'[r] \notin {status[r], Blank} =>
         <<status[r], status'[r]>> \in Transitions]_vars

\* approvals.py:9-10 again, over a crash: an approved request is applied.
ApprovedIsApplied ==
  \A q \in Requests : state[q] = "approved" ~> q \in applied

=============================================================================
