------------------------- MODULE OneMailPerPackage -------------------------
(***************************************************************************)
(* What approval, queue and delivery promise a lender together             *)
(* (submission_batches.py): a package waits in the queue only by an        *)
(* approval that is counted, given while it neither waits nor is being     *)
(* delivered and was never mailed; it is picked up from the queue, and not *)
(* once it is closed; and it is mailed by a delivery under way, once in    *)
(* its life.                                                               *)
(***************************************************************************)
EXTENDS Naturals

CONSTANT Packages

VARIABLES queued,    \* packages that wait for the queue
          underway,  \* packages being delivered
          given,     \* given[p]: approvals that put package p into the queue
          mails,     \* mails[p]: emails accepted
          closed     \* packages revoked or expired

Init ==
    /\ queued = {} /\ underway = {} /\ closed = {}
    /\ given = [p \in Packages |-> 0]
    /\ mails = [p \in Packages |-> 0]

Approve(S) ==
    /\ S \cap (queued \cup underway) = {}
    /\ \A p \in S : mails[p] = 0
    /\ queued' = queued \cup S
    /\ given' = [p \in Packages |-> IF p \in S THEN given[p] + 1 ELSE given[p]]
    /\ UNCHANGED <<underway, mails, closed>>

PickUp(p) ==
    /\ p \in queued \ closed
    /\ queued' = queued \ {p}
    /\ underway' = underway \cup {p}
    /\ UNCHANGED <<given, mails, closed>>

Mail(p) ==
    /\ p \in underway
    /\ mails[p] = 0
    /\ mails' = [mails EXCEPT ![p] = 1]
    /\ UNCHANGED <<queued, underway, given, closed>>

\* Packages leave the queue unsent, deliveries end, packages are closed for good.
Subside ==
    /\ queued' \subseteq queued
    /\ underway' \subseteq underway
    /\ closed \subseteq closed'
    /\ UNCHANGED <<given, mails>>

Next ==
    \/ \E S \in SUBSET Packages : Approve(S)
    \/ \E p \in Packages : PickUp(p) \/ Mail(p)
    \/ Subside

Spec == Init /\ [][Next]_<<queued, underway, given, mails, closed>>
=============================================================================
