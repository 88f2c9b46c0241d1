------------------------ MODULE MCLenderSubmissions ------------------------
(* Instances of LenderSubmissions for TLC. *)
EXTENDS LenderSubmissions, TLC

CONSTANTS l1, l2, u1, u2, f1, f2

Symmetry == Permutations(Prints)
=============================================================================
