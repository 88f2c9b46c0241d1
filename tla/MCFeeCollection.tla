-------------------------- MODULE MCFeeCollection --------------------------
(* Instances of FeeCollection for TLC. *)
EXTENDS FeeCollection, TLC

CONSTANTS t1, t2, w1, w2

OneIntent  == {t1}
TwoIntents == {t1, t2}
OneWorker  == {w1}
TwoWorkers == {w1, w2}
Symmetry   == Permutations(Transfers) \cup Permutations(Workers)
=============================================================================
