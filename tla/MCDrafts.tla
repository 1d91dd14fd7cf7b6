------------------------------ MODULE MCDrafts ------------------------------
(* A template with one item on the first field and one with a condition.      *)
EXTENDS Drafts, TLC

CONSTANTS f1, f2

Item(f, w) == [field |-> f, state |-> "open", when |-> w]
MCBuiltIn == {<<Item(f1, None)>>, <<Item(f2, None), Item(f1, f2)>>}
MCSymmetry == Permutations(Designers) \cup Permutations(Titles)
=============================================================================
