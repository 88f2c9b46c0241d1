---------------------------- MODULE MCFormRefresh ----------------------------
(* Instances of FormRefresh for TLC. *)
EXTENDS FormRefresh, TLC

CONSTANTS f1, f2, d1, d2, p1, p2
=============================================================================
