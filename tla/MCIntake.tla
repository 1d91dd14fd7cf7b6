------------------------------ MODULE MCIntake ------------------------------
(* Intake for TLC.                                                            *)
EXTENDS Intake, TLC
MCSymmetry == Permutations(Keys) \cup Permutations(Mails) \cup Permutations(Workers)

\* Bound: a pull takes far more states than the other doors; two of them suffice
\* for one that overlaps, repeats or follows the first.
MCSpec == Init /\ [][Next /\ (env.door = "pull" => work' <= 2)]_vars
=============================================================================
