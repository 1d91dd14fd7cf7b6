------------------------------ MODULE MCFeeds ------------------------------
(* Small instances of Feeds: two processes, a handful of rows.             *)
EXTENDS Feeds, TLC

CONSTANTS w1, w2

MCWorkers == {w1, w2}

\* The processes are interchangeable (used by the runs without liveness).
MCSymmetry == Permutations(MCWorkers)

=============================================================================
