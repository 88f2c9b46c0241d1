------------------------- MODULE PlaidTransferApi -------------------------
(***************************************************************************)
(* Plaid Transfer as the payment dispatcher sees it through                *)
(* app/services/plaid_transfer.py: an external service that decides        *)
(* authorizations, creates debits and reports every status change of a     *)
(* debit as an event.                                                      *)
(*                                                                         *)
(* What is assumed of the service (it is not in the repository):           *)
(*   - a transfer authorization creates at most one transfer, so           *)
(*     transfer/create is idempotent in the authorization id;              *)
(*   - while it still knows the caller's idempotency key                   *)
(*     (qc-auth-<intent>), transfer/authorization/create returns the       *)
(*     authorization it decided for that key, except that it may decide    *)
(*     again after user_action_required.  Plaid forgets a key after two    *)
(*     days; KeyReplays = FALSE is the case where it is never remembered.  *)
(***************************************************************************)
EXTENDS Integers, Sequences

CONSTANTS Transfers,  \* ids of the local payment_transfers rows
          KeyReplays, \* TRUE: an idempotency key is remembered for ever
          MaxAuths    \* bound: authorizations decided for one intent

ASSUME PlaidAssumption == KeyReplays \in BOOLEAN /\ MaxAuths \in Nat \ {0}

AuthNos == 1 .. MaxAuths

\* "unreviewed" is an approval whose risk check did not complete: Plaid would
\* let it be debited, the dispatcher must not (authorization_passed_risk_check).
Decisions == {"approved", "unreviewed", "user_action_required", "declined"}

\* Provider status of a debit; "posted" also stands for "settled", which no
\* code of the dispatcher tells apart from it.
ProviderStatuses ==
    {"pending", "posted", "funds_available", "returned", "failed", "cancelled"}

\* What a debit may do next at the provider.
ProviderNext ==
    [ pending         |-> {"posted", "failed", "cancelled"},
      posted          |-> {"funds_available", "returned"},
      funds_available |-> {"returned"},
      returned        |-> {},
      failed          |-> {},
      cancelled       |-> {} ]

VARIABLES
    auths,   \* auths[t][n]: decision of the n-th authorization of intent t
    debit,   \* debit[t][n]: status of the debit made from that authorization
    events   \* events[t]: events of t's debits the sync has not consumed yet

plaidVars == <<auths, debit, events>>

PlaidTypeOK ==
    /\ auths \in [Transfers -> [AuthNos -> Decisions \cup {"none"}]]
    /\ debit \in [Transfers -> [AuthNos -> ProviderStatuses \cup {"none"}]]
    /\ events \in [Transfers -> Seq([auth: AuthNos, status: ProviderStatuses])]

PlaidInit ==
    /\ auths  = [t \in Transfers |-> [n \in AuthNos |-> "none"]]
    /\ debit  = [t \in Transfers |-> [n \in AuthNos |-> "none"]]
    /\ events = [t \in Transfers |-> <<>>]

\* The authorizations a call with the key of t must return.
Remembered(t) ==
    {n \in AuthNos : KeyReplays /\ auths[t][n] \notin {"none", "user_action_required"}}

Debited(t) == {n \in AuthNos : debit[t][n] # "none"}

-----------------------------------------------------------------------------
\* transfer/authorization/create with the key of t answers authorization n.
CreateAuthorization(t, n) ==
    \/ /\ auths[t][n] # "none"
       /\ Remembered(t) \subseteq {n}
       /\ UNCHANGED auths
    \/ /\ auths[t][n] = "none"
       /\ Remembered(t) = {}
       /\ \A m \in 1 .. n - 1 : auths[t][m] # "none"
       /\ \E d \in Decisions : auths' = [auths EXCEPT ![t][n] = d]

\* transfer/create for authorization n of t: the existing debit, or a new one
\* and its first event.
CreateTransfer(t, n) ==
    /\ auths[t][n] \in {"approved", "unreviewed"}
    /\ IF debit[t][n] = "none"
       THEN /\ debit' = [debit EXCEPT ![t][n] = "pending"]
            /\ events' = [events EXCEPT ![t] =
                            Append(@, [auth |-> n, status |-> "pending"])]
       ELSE UNCHANGED <<debit, events>>

\* The debit moves at the provider, which appends the event to its log.
PlaidProgress(t) ==
    \E n \in Debited(t) : \E s \in ProviderNext[debit[t][n]] :
        /\ debit' = [debit EXCEPT ![t][n] = s]
        /\ events' = [events EXCEPT ![t] = Append(@, [auth |-> n, status |-> s])]
        /\ UNCHANGED auths
=============================================================================
