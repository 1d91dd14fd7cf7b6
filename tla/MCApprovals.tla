---------------------------- MODULE MCApprovals ----------------------------
(***************************************************************************)
(* Instances of Approvals for TLC: a change record that goes from "open"   *)
(* to "done" only with sign-off (steps 1 and 2 in parallel, then step 3),  *)
(* and may be cancelled, reopened or resumed directly.                     *)
(***************************************************************************)
EXTENDS Approvals

MCStates == {"open", "done", "cancelled"}
MCTransitions ==
  {<<"open", "done">>, <<"open", "cancelled">>, <<"cancelled", "open">>}

\* ann signs steps 1 and 3, bob step 2; bob may not cancel.
MCUsers == {"ann", "bob"}
MCPermitted == (MCUsers \X MCTransitions) \ {<<"bob", <<"open", "cancelled">>>>}

MCSteps == 1..3
MCPosition == <<1, 1, 2>>
MCGate == [s \in MCSteps |-> <<"open", "done">>]
MCApprovers == <<{"ann"}, {"bob"}, {"ann"}>>
MCParallel == {1, 2}
MCSequential == {1, 3}

\* Bound: steps are edited while there is one request, or there are two of steps
\* that stay.
MCSpec ==
  Init /\ [][Next /\ (state'[2] # "none" => live' = InitialSteps /\ gone' = {})]_vars
=============================================================================
