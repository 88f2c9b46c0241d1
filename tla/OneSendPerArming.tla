-------------------------- MODULE OneSendPerArming --------------------------
(***************************************************************************)
(* What the ledger of booking effects promises (booking_operations.py,     *)
(* "can never blindly repeat an SES/SMS send with an ambiguous outcome"):  *)
(* a message goes out only while its effect is armed, and once per arming; *)
(* a person who arms an effect again does so after it ended.               *)
(***************************************************************************)
EXTENDS Naturals

CONSTANT Slots   \* an effect of an operation

VARIABLES armed, \* effects the ledger still has to send
          sends  \* messages accepted since the effect was armed

Init == /\ armed \in SUBSET Slots
        /\ sends = [x \in Slots |-> 0]

Arm(S) == /\ S \subseteq Slots \ armed
          /\ armed' = armed \cup S
          /\ sends' = [x \in Slots |-> IF x \in S THEN 0 ELSE sends[x]]

Send(x) == /\ x \in armed
           /\ sends[x] = 0
           /\ sends' = [sends EXCEPT ![x] = 1]
           /\ UNCHANGED armed

Close(x) == /\ armed' = armed \ {x}
            /\ UNCHANGED sends

Next == \/ \E S \in SUBSET Slots : Arm(S)
        \/ \E x \in Slots : Send(x) \/ Close(x)

Spec == Init /\ [][Next]_<<armed, sends>>
=============================================================================
