------------------------- MODULE RefundsWithinDebit -------------------------
(***************************************************************************)
(* What the desk and the refund job promise together for the refunds of    *)
(* one collected debit: a refund is promised only while it fits into what  *)
(* was collected, with all the others that are promised, handed over or    *)
(* paid; it is handed to Plaid before it is paid, and paid at most once;   *)
(* and one that is over, whose amount may be promised again, stays over.   *)
(***************************************************************************)
EXTENDS Integers, FiniteSetsExt

CONSTANTS Refunds, Amount, Collected

VARIABLE stage  \* stage[r]: how far refund r is

Total(S) == FoldSet(LAMBDA r, sum : Amount[r] + sum, 0, S)

Counted == {r \in Refunds : stage[r] \in {"promised", "handed", "paid"}}

Init == stage = [r \in Refunds |-> "new"]

Promise(r) ==
    /\ stage[r] = "new"
    /\ Total(Counted \cup {r}) <= Collected
    /\ stage' = [stage EXCEPT ![r] = "promised"]

HandOver(r) == stage[r] = "promised" /\ stage' = [stage EXCEPT ![r] = "handed"]

Withdraw(r) == stage[r] = "handed" /\ stage' = [stage EXCEPT ![r] = "promised"]

Pay(r) == stage[r] = "handed" /\ stage' = [stage EXCEPT ![r] = "paid"]

\* Refused before it was paid, or paid and come back.
End(r) == stage[r] \in {"handed", "paid"} /\ stage' = [stage EXCEPT ![r] = "over"]

Next == \E r \in Refunds : Promise(r) \/ HandOver(r) \/ Withdraw(r) \/ Pay(r) \/ End(r)

Spec == Init /\ [][Next]_stage
=============================================================================
