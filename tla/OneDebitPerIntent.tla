------------------------- MODULE OneDebitPerIntent -------------------------
(***************************************************************************)
(* What the dispatcher promises for every released payment intent          *)
(* (payment_processing.py, "Claim and submit already-authorized transfers  *)
(* exactly once"; "a process interruption cannot create a second money     *)
(* movement"): money moves only while the intent is live, at most once,    *)
(* and no later step takes a movement back.                                *)
(***************************************************************************)
EXTENDS Naturals

CONSTANT Intents

VARIABLES live,   \* intents the dispatcher may still submit
          debits  \* debits[i]: money movements made for intent i

Init ==
    /\ live = {}
    /\ debits = [i \in Intents |-> 0]

\* Intents are released, resumed, settled or cancelled.
ChangeLive ==
    /\ live' \in SUBSET Intents
    /\ UNCHANGED debits

Debit(i) ==
    /\ i \in live
    /\ debits[i] = 0
    /\ debits' = [debits EXCEPT ![i] = 1]
    /\ UNCHANGED live

Next == ChangeLive \/ \E i \in Intents : Debit(i)

vars == <<live, debits>>

Spec == Init /\ [][Next]_vars
=============================================================================
