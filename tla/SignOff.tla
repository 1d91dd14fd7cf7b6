------------------------------ MODULE SignOff ------------------------------
(***************************************************************************)
(* What multi-step sign-off promises of each request, whoever records the  *)
(* signatures and however many handlers do so at once: steps are signed    *)
(* group by group, a request is approved only once every step it requires  *)
(* is signed, a decision is final, and only an approved request is carried *)
(* out, once.  The promise of src/app/approvals.py, without its tables,    *)
(* snapshots and processes.                                                *)
(***************************************************************************)
EXTENDS Naturals

CONSTANTS Requests, Steps, Position

VARIABLES
  outcome,   \* "none", "pending", "approved" or "rejected"
  required,  \* the steps each request still requires
  signed,    \* the steps signed so far
  done       \* the requests carried out

vars == <<outcome, required, signed, done>>

Init ==
  /\ outcome = [q \in Requests |-> "none"]
  /\ required = [q \in Requests |-> {}]
  /\ signed = [q \in Requests |-> {}]
  /\ done = {}

Open(q) ==
  /\ outcome[q] = "none"
  /\ outcome' = [outcome EXCEPT ![q] = "pending"]
  /\ \E S \in SUBSET Steps : required' = [required EXCEPT ![q] = S]
  /\ UNCHANGED <<signed, done>>

\* A step that is no longer configured is no longer required of any request.
Waive(s) ==
  /\ required' = [q \in Requests |-> required[q] \ {s}]
  /\ UNCHANGED <<outcome, signed, done>>

\* A signature comes after those of the lower positions; one may still be
\* recorded on a request that another approver has decided in the meantime.
MaySign(q, s) ==
  /\ outcome[q] # "none"
  /\ {t \in required[q] : Position[t] < Position[s]} \subseteq signed[q]

Sign(q, s) ==
  /\ MaySign(q, s)
  /\ signed' = [signed EXCEPT ![q] = @ \cup {s}]
  /\ UNCHANGED <<outcome, required, done>>

Approve(q, s) ==
  /\ outcome[q] = "pending"
  /\ MaySign(q, s)
  /\ required[q] \subseteq signed[q] \cup {s}
  /\ signed' = [signed EXCEPT ![q] = @ \cup {s}]
  /\ outcome' = [outcome EXCEPT ![q] = "approved"]
  /\ UNCHANGED <<required, done>>

Reject(q) ==
  /\ outcome[q] = "pending"
  /\ outcome' = [outcome EXCEPT ![q] = "rejected"]
  /\ UNCHANGED <<required, signed, done>>

CarryOut(q) ==
  /\ outcome[q] = "approved"
  /\ q \notin done
  /\ done' = done \cup {q}
  /\ UNCHANGED <<outcome, required, signed>>

Next ==
  \/ \E q \in Requests : Open(q) \/ Reject(q) \/ CarryOut(q)
  \/ \E q \in Requests, s \in Steps : Sign(q, s) \/ Approve(q, s)
  \/ \E s \in Steps : Waive(s)

Spec == Init /\ [][Next]_vars
=============================================================================
