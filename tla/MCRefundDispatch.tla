-------------------------- MODULE MCRefundDispatch --------------------------
(* Instances of RefundDispatch for TLC: two refunds of one debit. *)
EXTENDS RefundDispatch, TLC

CONSTANTS r1, r2, w1

TwoRefunds == {r1, r2}
Two        == [r \in {r1, r2} |-> 2]
OwnReason  == [r \in {r1, r2} |-> r]
=============================================================================
