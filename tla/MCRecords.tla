---------------------------- MODULE MCRecords ----------------------------
(* Two projects, a rule that sets a value on a transition and a later one     *)
(* that creates a task for every task that is done.                           *)
EXTENDS Records, TLC

MCRules == << [event |-> "transition", when |-> None, set |-> "done", spawn |-> "no"],
              [event |-> "create", when |-> "done", set |-> "keep", spawn |-> "done"] >>
MCSymmetry == Permutations(Projects) \cup Permutations(Tasks)
=============================================================================
