--------------------------- MODULE FeeCollection ---------------------------
(***************************************************************************)
(* Collection of one application's success fee by ACH: the versions of the *)
(* fee obligation, the client's one-time mandate, the durable transfer     *)
(* intents, the dispatcher that hands them to Plaid and the consumer of    *)
(* Plaid's event log.                                                      *)
(*                                                                         *)
(*   app/services/payments.py            handlers and record keeping       *)
(*   app/services/payment_processing.py  dispatcher and event sync         *)
(*   app/services/ach_fee_workflow.py    notice and revocation             *)
(*   app/routers/payments.py, public_payments.py   entry points            *)
(*                                                                         *)
(* One database transaction is one action: every handler locks the profile *)
(* row or the transfer row it changes.  A dispatcher step is split at each *)
(* commit and at each call to Plaid, since other transactions, events and  *)
(* a crash of the process fall between them.                               *)
(*                                                                         *)
(* The fee is collected by client ACH alone, so an obligation is collected *)
(* as soon as one debit is; the claim takes one intent at a time.          *)
(***************************************************************************)
EXTENDS PlaidTransferApi, Integers, FiniteSets

CONSTANTS Versions,     \* versions a fee obligation may reach, 1 .. n
          Workers,      \* processes running dispatch_payment_transfers
          NoIntent,     \* what an idle dispatcher holds
          MaxMandates,  \* bound: mandates signed for one obligation
          MaxFaults     \* bound: crashes and lost replies in a behaviour

ASSUME VersionsAssumption == Versions \subseteq Nat \ {0}

ASSUME BoundsAssumption == MaxMandates \in Nat /\ MaxFaults \in Nat

ASSUME NoIntentAssumption == NoIntent \notin Transfers

VARIABLES
    obligation,  \* fee_obligations by version
    mandate,     \* ach_mandates: the newest one of each obligation
    notice,      \* payment_debit_notices: the current one of each obligation
    window,      \* evidence and debit window of the signed notice
    source,      \* TRUE: the profile has a verified payment_funding_source
    transfer,    \* payment_transfers
    worker,      \* local variables of each dispatcher
    faults       \* crashes and lost replies so far

feeVars  == <<obligation, mandate, notice, window, source>>
localVars == <<obligation, mandate, notice, window, source, transfer>>
vars == <<plaidVars, feeVars, transfer, worker, faults>>

-----------------------------------------------------------------------------
ObligationStatuses ==
    {"none", "prepared", "awaiting_authorization", "authorized", "processing",
     "collected", "returned", "superseded"}

TransferStatuses ==
    {"none", "authorizing", "submitting", "action_required"} \cup ProviderStatuses

FinalStatuses == {"funds_available", "cancelled", "returned", "failed"}

ProcessingStatuses == {"authorizing", "submitting", "pending", "posted"}

\* Mutant of CollectedOn: a posted debit already counts as collected.
CollectedOn_Posted == {"posted", "funds_available"}

\* COLLECTED_TRANSFER_STATUS
CollectedOn == {"funds_available"}

\* Why a dispatch did not go through, and what record_transfer_submission_failure
\* makes of it: "repair" (the client must reconnect the bank) and "transient"
\* are retryable, "declined" is not.
Failures == {"repair", "transient", "declined"}

WorkerPCs ==
    {"idle", "context", "lookup", "authorize", "save", "create", "recover",
     "recreate", "record", "failing"}

NoTransfer ==
    [ status |-> "none", obligation |-> 0, mandate |-> 0, auth |-> 0,
      checked |-> FALSE, plaid |-> 0, submitted |-> FALSE, claimed |-> "no",
      failure |-> "none" ]

Idle == [pc |-> "idle", intent |-> NoIntent, auth |-> 0, checked |-> FALSE,
         seen |-> "pending", failure |-> "transient"]

ObligationType == [status: ObligationStatuses, superseded: BOOLEAN, sent: BOOLEAN]

MandateType ==
    [ no: 0 .. MaxMandates,
      status: {"none", "active", "superseded", "revoked", "access_revoked"} ]

TransferType ==
    [ status: TransferStatuses, obligation: Versions \cup {0},
      mandate: 0 .. MaxMandates, auth: AuthNos \cup {0}, checked: BOOLEAN,
      plaid: AuthNos \cup {0}, submitted: BOOLEAN,
      claimed: {"no", "fresh", "stale"}, failure: Failures \cup {"none"} ]

WorkerType ==
    [ pc: WorkerPCs, intent: Transfers \cup {NoIntent}, auth: AuthNos \cup {0},
      checked: BOOLEAN, seen: ProviderStatuses, failure: Failures ]

TypeOK ==
    /\ PlaidTypeOK
    /\ obligation \in [Versions -> ObligationType]
    /\ mandate \in [Versions -> MandateType]
    /\ notice \in [Versions -> {"none", "draft", "bound", "consumed"}]
    /\ window \in [Versions -> {"waiting", "open", "passed"}]
    /\ source \in BOOLEAN
    /\ transfer \in [Transfers -> TransferType]
    /\ worker \in [Workers -> WorkerType]
    /\ faults \in 0 .. MaxFaults

Init ==
    /\ PlaidInit
    /\ obligation = [v \in Versions |->
                        [status |-> "none", superseded |-> FALSE, sent |-> FALSE]]
    /\ mandate = [v \in Versions |-> [no |-> 0, status |-> "none"]]
    /\ notice = [v \in Versions |-> "none"]
    /\ window = [v \in Versions |-> "waiting"]
    /\ source = TRUE
    /\ transfer = [t \in Transfers |-> NoTransfer]
    /\ worker = [w \in Workers |-> Idle]
    /\ faults = 0

-----------------------------------------------------------------------------
(* What the handlers read.                                                 *)

Exists(v) == obligation[v].status # "none"

Current(v) == Exists(v) /\ ~obligation[v].superseded

TransfersOf(v) == {t \in Transfers : transfer[t].obligation = v}

MandateActive(t) ==
    /\ transfer[t].obligation \in Versions
    /\ mandate[transfer[t].obligation].status = "active"
    /\ mandate[transfer[t].obligation].no = transfer[t].mandate

\* Mutant of Replaceable: a fee in processing may be replaced.
Replaceable_Processing(v) == obligation[v].status # "collected"

\* A debit that may still be replaced: nothing of it is being collected.
Replaceable(v) == obligation[v].status \notin {"processing", "collected"}

\* fee_release_readiness apart from the check of other transfers.
ReleaseEvidence(v) ==
    /\ mandate[v].status = "active"
    /\ source
    /\ notice[v] \in {"bound", "consumed"}
    /\ window[v] = "open"

\* The whole of fee_release_readiness for a new transfer.
ReadyForRelease(v) ==
    /\ Current(v)
    /\ ReleaseEvidence(v)
    /\ notice[v] = "bound"
    /\ TransfersOf(v) = {}

\* Mutant of DispatchReady: any active mandate of the fee will do.
DispatchReady_AnyMandate(t) ==
    /\ Current(transfer[t].obligation)
    /\ ReleaseEvidence(transfer[t].obligation)
    /\ TransfersOf(transfer[t].obligation) = {t}

\* transfer_dispatch_readiness: the last check before the provider hand-off.
DispatchReady(t) ==
    /\ MandateActive(t)
    /\ Current(transfer[t].obligation)
    /\ ReleaseEvidence(transfer[t].obligation)
    /\ TransfersOf(transfer[t].obligation) = {t}

\* Mutant of Unclaimed: a claimed row can be cancelled, too.
Unclaimed_Submitting(t) ==
    /\ transfer[t].status \in {"authorizing", "submitting"}
    /\ transfer[t].plaid = 0
    /\ ~transfer[t].submitted

Unclaimed(t) ==
    /\ transfer[t].status = "authorizing"
    /\ transfer[t].plaid = 0
    /\ ~transfer[t].submitted

\* _should_apply_transfer_status
StatusRank ==
    [s \in TransferStatuses |->
        CASE s = "authorizing" -> 0
          [] s = "submitting" -> 1
          [] s = "pending" -> 3
          [] s = "posted" -> 4
          [] s = "funds_available" -> 6
          [] OTHER -> -1]

\* Mutant of ShouldApply: funds_available is final.
ShouldApply_NoReturn(current, new) ==
    \/ current = new
    \/ /\ current \notin FinalStatuses
       /\ \/ new \in {"returned", "cancelled", "failed"}
          \/ StatusRank[new] >= StatusRank[current]

ShouldApply(current, new) ==
    \/ current = new
    \/ current = "funds_available" /\ new = "returned"
    \/ /\ current \notin FinalStatuses
       /\ \/ new \in {"returned", "cancelled", "failed"}
          \/ StatusRank[new] >= StatusRank[current]

-----------------------------------------------------------------------------
(* Shared effects.                                                         *)

\* Mutant of CancelTransfers: Plaid's other spelling of the status.
CancelTransfers_Canceled(S) ==
    [t \in Transfers |->
        IF t \in S /\ Unclaimed(t)
        THEN [transfer[t] EXCEPT !.status = "canceled", !.claimed = "no"]
        ELSE transfer[t]]

\* cancel_unclaimed_transfer_intents on the authorizing rows among S: the rows,
\* and the obligations they take out of processing.
CancelTransfers(S) ==
    [t \in Transfers |->
        IF t \in S /\ Unclaimed(t)
        THEN [transfer[t] EXCEPT !.status = "cancelled", !.claimed = "no"]
        ELSE transfer[t]]

AfterCancel(S, v) ==
    IF /\ \E t \in S : Unclaimed(t) /\ transfer[t].obligation = v
       /\ obligation[v].status = "processing"
    THEN "prepared"
    ELSE obligation[v].status

\* Rows under the active mandate of v.
UnderMandate(v) == {t \in TransfersOf(v) : MandateActive(t)}

\* _refresh_fee_obligation_collection_status with t's status already new.
Refreshed(v, rows) ==
    LET states == {rows[t].status : t \in {x \in Transfers : rows[x].obligation = v}}
    IN  IF states \cap CollectedOn # {} THEN "collected"
        ELSE IF states \cap ProcessingStatuses # {} THEN "processing"
        ELSE IF "returned" \in states THEN "returned"
        ELSE obligation[v].status

-----------------------------------------------------------------------------
(* The fee obligation and its economics (staff).                           *)

\* The active mandate and the unclaimed intents of v end with v.
Supersede(v) ==
    /\ mandate' = IF mandate[v].status = "active"
                  THEN [mandate EXCEPT ![v].status = "superseded"] ELSE mandate
    /\ transfer' = CancelTransfers(UnderMandate(v))

\* save_fee_allocation with a changed allocation.
SaveAllocation(v) ==
    /\ Current(v)
    /\ Replaceable(v)
    /\ Supersede(v)
    /\ obligation' = [obligation EXCEPT
                        ![v] = [@ EXCEPT !.status = "superseded", !.superseded = TRUE]]
    /\ UNCHANGED <<notice, window, source, worker, faults, plaidVars>>

\* create_fee_obligation: version v, in place of the current one if any.
CreateObligation(v) ==
    /\ ~Exists(v)
    /\ \A u \in Versions : u < v => Exists(u)
    /\ \A u \in Versions : Current(u) => Replaceable(u)
    /\ obligation' =
         [u \in Versions |->
             CASE u = v -> [status |-> "prepared", superseded |-> FALSE, sent |-> FALSE]
               [] u # v /\ Current(u) ->
                    [obligation[u] EXCEPT !.status = "superseded", !.superseded = TRUE]
               [] OTHER -> obligation[u]]
    /\ mandate' =
         [u \in Versions |-> IF Current(u) /\ mandate[u].status = "active"
                             THEN [mandate[u] EXCEPT !.status = "superseded"]
                             ELSE mandate[u]]
    /\ transfer' = CancelTransfers(UNION {UnderMandate(u) : u \in {x \in Versions : Current(x)}})
    /\ UNCHANGED <<notice, window, source, worker, faults, plaidVars>>

\* send_fee_authorization and prepare_debit_notice: a new unbound notice.
SendAuthorization(v) ==
    /\ Current(v)
    /\ obligation[v].status \notin {"processing", "collected"}
    /\ notice[v] # "bound"
    /\ notice[v] # "draft" \/ ~obligation[v].sent
    /\ notice' = [notice EXCEPT ![v] = "draft"]
    /\ obligation' =
         IF obligation[v].sent THEN obligation
         ELSE [obligation EXCEPT
                  ![v] = [@ EXCEPT !.status = "awaiting_authorization", !.sent = TRUE]]
    /\ UNCHANGED <<mandate, window, source, transfer, worker, faults, plaidVars>>

-----------------------------------------------------------------------------
(* The client's room: mandate, bank account, revocation.                   *)

\* public_payment_authorize and create_ach_mandate.
SignMandate(v) ==
    /\ Current(v)
    /\ obligation[v].status \in {"awaiting_authorization", "authorized", "returned"}
    /\ source
    /\ notice[v] = "draft"
    /\ mandate[v].no < MaxMandates
    /\ transfer' = CancelTransfers(UnderMandate(v))
    /\ mandate' = [mandate EXCEPT ![v] = [no |-> @.no + 1, status |-> "active"]]
    /\ obligation' = [obligation EXCEPT ![v].status = "authorized"]
    /\ notice' = [notice EXCEPT ![v] = "bound"]
    /\ window' = [window EXCEPT ![v] = "waiting"]
    /\ UNCHANGED <<source, worker, faults, plaidVars>>

\* Proof and notice delivered, funding confirmed, two business days elapsed
\* and the debit window open; later that window closes.
WindowMoves(v) ==
    /\ mandate[v].status = "active"
    /\ \/ /\ window[v] = "waiting"
          /\ window' = [window EXCEPT ![v] = "open"]
       \/ /\ window[v] = "open"
          /\ window' = [window EXCEPT ![v] = "passed"]
    /\ UNCHANGED <<obligation, mandate, notice, source, transfer, worker, faults,
                   plaidVars>>

\* Mutant of HandedOff: a claim that got no answer yet does not count.
HandedOff_Answered(t) == transfer[t].plaid # 0 \/ transfer[t].submitted

\* A row the provider may know of, as revoke_mandate and the account exchange
\* look for it.
HandedOff(t) ==
    \/ transfer[t].plaid # 0
    \/ transfer[t].submitted
    \/ transfer[t].claimed # "no"
    \/ transfer[t].status \in {"submitting", "pending", "posted", "funds_available"}

\* revoke_mandate, by the client or by staff.
RevokeMandate(v) ==
    /\ mandate[v].status = "active"
    /\ \A t \in UnderMandate(v) : ~HandedOff(t)
    /\ transfer' = CancelTransfers(UnderMandate(v))
    /\ obligation' = [obligation EXCEPT ![v].status = AfterCancel(UnderMandate(v), v)]
    /\ mandate' = [mandate EXCEPT ![v].status = "revoked"]
    /\ notice' = IF notice[v] = "bound" THEN [notice EXCEPT ![v] = "none"] ELSE notice
    /\ UNCHANGED <<window, source, worker, faults, plaidVars>>

\* public_payment_exchange: the client connects a bank account, replacing the
\* verified one.
ExchangeSource(v) ==
    /\ Current(v)
    /\ obligation[v].status \in {"awaiting_authorization", "authorized", "returned"}
    /\ ~source \/ mandate[v].status = "active"
    /\ \A t \in UnderMandate(v) : ~HandedOff(t)
    /\ source' = TRUE
    /\ mandate' = IF mandate[v].status = "active"
                  THEN [mandate EXCEPT ![v].status = "superseded"] ELSE mandate
    /\ transfer' = CancelTransfers(UnderMandate(v))
    /\ UNCHANGED <<obligation, notice, window, worker, faults, plaidVars>>

\* handle_item_webhook: the bank withdrew Plaid's access.
ItemRevoked ==
    /\ source
    /\ source' = FALSE
    /\ mandate' = [v \in Versions |-> IF mandate[v].status = "active"
                                      THEN [mandate[v] EXCEPT !.status = "access_revoked"]
                                      ELSE mandate[v]]
    /\ transfer' = CancelTransfers(Transfers)
    /\ obligation' = [v \in Versions |->
                        [obligation[v] EXCEPT !.status = AfterCancel(Transfers, v)]]
    /\ UNCHANGED <<notice, window, worker, faults, plaidVars>>

-----------------------------------------------------------------------------
(* Release and resume.                                                     *)

\* prepare_fee_transfer: a new durable intent.
Release(v, t) ==
    /\ ReadyForRelease(v)
    /\ transfer[t].status = "none"
    /\ transfer' = [transfer EXCEPT ![t] = [NoTransfer EXCEPT
                        !.status = "authorizing", !.obligation = v,
                        !.mandate = mandate[v].no]]
    /\ obligation' = [obligation EXCEPT ![v].status = "processing"]
    /\ notice' = [notice EXCEPT ![v] = "consumed"]
    /\ UNCHANGED <<mandate, window, source, worker, faults, plaidVars>>

\* Mutant of Resume: every resume authorizes the intent again.
Resume_Reauthorizing(t) ==
    /\ transfer[t].status = "action_required"
    /\ transfer[t].plaid = 0
    /\ ~transfer[t].submitted
    /\ DispatchReady(t)
    /\ transfer' = [transfer EXCEPT ![t] = [@ EXCEPT
                        !.status = "authorizing", !.claimed = "no",
                        !.auth = 0, !.failure = "none"]]
    /\ obligation' = [obligation EXCEPT ![transfer[t].obligation].status = "processing"]
    /\ UNCHANGED <<mandate, notice, window, source, worker, faults, plaidVars>>

\* resume_action_required_transfer, by the client after the bank repair or by
\* staff after a transient failure.
Resume(t) ==
    /\ transfer[t].status = "action_required"
    /\ transfer[t].plaid = 0
    /\ ~transfer[t].submitted
    /\ DispatchReady(t)
    /\ transfer' = [transfer EXCEPT ![t] = [@ EXCEPT
                        !.status = "authorizing", !.claimed = "no",
                        !.auth = IF transfer[t].failure = "repair" THEN 0 ELSE transfer[t].auth,
                        !.failure = "none"]]
    /\ obligation' = [obligation EXCEPT ![transfer[t].obligation].status = "processing"]
    /\ UNCHANGED <<mandate, notice, window, source, worker, faults, plaidVars>>

-----------------------------------------------------------------------------
(* The dispatcher.                                                         *)

Goto(w, pc) == worker' = [worker EXCEPT ![w].pc = pc]

Fail(w, failure) ==
    worker' = [worker EXCEPT ![w] = [@ EXCEPT !.pc = "failing", !.failure = failure]]

\* Plaid answered with a transfer in this status.
Answered(w, status) ==
    worker' = [worker EXCEPT ![w] = [@ EXCEPT !.pc = "record", !.seen = status]]

\* The dispatcher goes on with authorization n.
Take(w, n, checked, pc) ==
    worker' = [worker EXCEPT
                  ![w] = [@ EXCEPT !.auth = n, !.checked = checked, !.pc = pc]]

\* A call to Plaid that ends in a network error, a 429 or a 5xx.
ReplyLost == faults < MaxFaults /\ faults' = faults + 1

\* Mutant of Claimable: a claim whose worker is gone is never taken over.
Claimable_NotStale(t) == transfer[t].status = "authorizing"

\* claim_due_transfers: an authorizing row, or one whose worker has been gone
\* for ten minutes.
Claimable(t) ==
    \/ transfer[t].status = "authorizing"
    \/ /\ transfer[t].status = "submitting"
       /\ transfer[t].plaid = 0
       /\ ~transfer[t].submitted
       /\ transfer[t].claimed = "stale"

Claim(w, t) ==
    /\ worker[w].pc = "idle"
    /\ Claimable(t)
    /\ DispatchReady(t)
    /\ transfer' = [transfer EXCEPT
                      ![t] = [@ EXCEPT !.status = "submitting", !.claimed = "fresh"]]
    /\ worker' = [worker EXCEPT ![w] = [Idle EXCEPT !.pc = "context", !.intent = t]]
    /\ UNCHANGED <<feeVars, faults, plaidVars>>

\* The same transaction for a row that is no longer authorized.
ClaimBlocked(w, t) ==
    /\ worker[w].pc = "idle"
    /\ Claimable(t)
    /\ ~DispatchReady(t)
    /\ transfer' = [transfer EXCEPT
                      ![t] = [@ EXCEPT !.status = "cancelled", !.claimed = "no"]]
    /\ LET v == transfer[t].obligation
       IN  obligation' = IF obligation[v].status = "processing"
                         THEN [obligation EXCEPT ![v].status = "prepared"]
                         ELSE obligation
    /\ UNCHANGED <<mandate, notice, window, source, worker, faults, plaidVars>>

\* Ten minutes pass after the claim, whether or not its worker still runs.
ClaimAges(t) ==
    /\ transfer[t].status = "submitting"
    /\ transfer[t].claimed = "fresh"
    /\ transfer' = [transfer EXCEPT ![t].claimed = "stale"]
    /\ UNCHANGED <<feeVars, worker, faults, plaidVars>>

\* _provider_context, in a session of its own after the claim committed.
LoadContext(w) ==
    /\ worker[w].pc = "context"
    /\ LET t == worker[w].intent
       IN  IF transfer[t].status = "submitting" /\ MandateActive(t) /\ source
           THEN Take(w, transfer[t].auth, transfer[t].checked,
                    IF transfer[t].auth = 0 THEN "authorize" ELSE "lookup")
           ELSE Fail(w, "declined")
    /\ UNCHANGED <<localVars, faults, plaidVars>>

\* Mutant of Lookup: a saved authorization is debited without its risk review.
Lookup_NoReview(w) ==
    /\ worker[w].pc = "lookup"
    /\ LET t == worker[w].intent
           n == worker[w].auth
       IN  \/ /\ debit[t][n] # "none"
              /\ Answered(w, debit[t][n])
              /\ UNCHANGED faults
           \/ /\ debit[t][n] = "none" /\ Goto(w, "create") /\ UNCHANGED faults
           \/ ReplyLost /\ Goto(w, "recover")
    /\ UNCHANGED <<localVars, plaidVars>>

\* get_transfer_by_authorization before anything else: an earlier worker may
\* have reached Plaid.  A definite refusal ends the attempt, debit or no debit.
Lookup(w) ==
    /\ worker[w].pc = "lookup"
    /\ LET t == worker[w].intent
           n == worker[w].auth
       IN  \/ /\ debit[t][n] # "none"
              /\ Answered(w, debit[t][n])
              /\ UNCHANGED faults
           \/ /\ debit[t][n] = "none"
              /\ IF worker[w].checked THEN Goto(w, "create") ELSE Fail(w, "declined")
              /\ UNCHANGED faults
           \/ /\ ReplyLost
              /\ IF worker[w].checked THEN Goto(w, "recover") ELSE Fail(w, "transient")
           \/ Fail(w, "declined") /\ UNCHANGED faults
    /\ UNCHANGED <<localVars, plaidVars>>

\* transfer/authorization/create under the intent's key: a decision, a lost
\* reply, or a definite refusal.
Authorize(w) ==
    /\ worker[w].pc = "authorize"
    /\ LET t == worker[w].intent
       IN  \/ \E n \in AuthNos :
                /\ CreateAuthorization(t, n)
                /\ Take(w, n, auths'[t][n] = "approved", "save")
                /\ UNCHANGED faults
           \/ /\ ReplyLost
              /\ UNCHANGED auths \/ \E n \in AuthNos : CreateAuthorization(t, n)
              /\ Fail(w, "transient")
           \/ /\ Fail(w, "declined")
              /\ UNCHANGED <<auths, faults>>
    /\ UNCHANGED <<localVars, debit, events>>

\* record_transfer_authorization; a row with another authorization raises.
SaveAuthorization(w) ==
    /\ worker[w].pc = "save"
    /\ LET t == worker[w].intent
           n == worker[w].auth
       IN  IF transfer[t].auth \in {0, n}
           THEN /\ transfer' = [transfer EXCEPT
                        ![t] = [@ EXCEPT !.auth = n, !.checked = worker[w].checked]]
                /\ IF worker[w].checked THEN Goto(w, "create")
                   ELSE IF auths[t][n] = "user_action_required" THEN Fail(w, "repair")
                   ELSE Fail(w, "declined")
           ELSE /\ Fail(w, "transient")
                /\ UNCHANGED transfer
    /\ UNCHANGED <<feeVars, faults, plaidVars>>

\* transfer/create: a reply, an effect whose reply is lost, no effect, or a
\* definite refusal.
Create(w) ==
    /\ worker[w].pc = "create"
    /\ LET t == worker[w].intent
           n == worker[w].auth
       IN  \/ /\ CreateTransfer(t, n)
              /\ \/ /\ Answered(w, debit'[t][n])
                    /\ UNCHANGED faults
                 \/ /\ ReplyLost
                    /\ Goto(w, "recover")
           \/ /\ ReplyLost
              /\ Goto(w, "recover")
              /\ UNCHANGED <<debit, events>>
           \/ /\ debit[t][n] = "none"
              /\ Fail(w, "declined")
              /\ UNCHANGED <<debit, events, faults>>
    /\ UNCHANGED <<localVars, auths>>

\* _recover_ambiguous_create: look the authorization up once more.
Recover(w) ==
    /\ worker[w].pc = "recover"
    /\ LET t == worker[w].intent
           n == worker[w].auth
       IN  \/ /\ debit[t][n] # "none"
              /\ Answered(w, debit[t][n])
              /\ UNCHANGED faults
           \/ /\ debit[t][n] = "none"
              /\ Goto(w, "recreate")
              /\ UNCHANGED faults
           \/ /\ ReplyLost
              /\ Fail(w, "transient")
    /\ UNCHANGED <<localVars, plaidVars>>

\* The one idempotent retry of transfer/create; any error keeps the first one.
Recreate(w) ==
    /\ worker[w].pc = "recreate"
    /\ LET t == worker[w].intent
           n == worker[w].auth
       IN  \/ /\ CreateTransfer(t, n)
              /\ \/ /\ Answered(w, debit'[t][n])
                    /\ UNCHANGED faults
                 \/ ReplyLost /\ Fail(w, "transient")
           \/ /\ Fail(w, "transient")
              /\ UNCHANGED <<debit, events, faults>>
    /\ UNCHANGED <<localVars, auths>>

\* record_transfer_submission with the status the provider answered.
RecordSubmission(w) ==
    /\ worker[w].pc = "record"
    /\ LET t == worker[w].intent
           n == worker[w].auth
       IN  IF transfer[t].plaid \in {0, n}
           THEN /\ transfer' = [transfer EXCEPT ![t] = [@ EXCEPT
                        !.auth = n, !.plaid = n, !.status = worker[w].seen,
                        !.submitted = TRUE, !.checked = FALSE]]
                /\ worker' = [worker EXCEPT ![w] = Idle]
           ELSE /\ Fail(w, "transient")
                /\ UNCHANGED transfer
    /\ UNCHANGED <<feeVars, faults, plaidVars>>

\* record_transfer_submission_failure
RecordFailure(w) ==
    /\ worker[w].pc = "failing"
    /\ LET t == worker[w].intent
           v == transfer[t].obligation
       IN  IF transfer[t].status \in FinalStatuses
           THEN UNCHANGED <<transfer, obligation>>
           ELSE /\ transfer' = [transfer EXCEPT ![t] = [@ EXCEPT
                        !.status = IF worker[w].failure = "declined"
                                   THEN "failed" ELSE "action_required",
                        !.failure = worker[w].failure,
                        !.claimed = "no"]]
                /\ obligation' = IF obligation[v].status = "processing"
                                 THEN [obligation EXCEPT ![v].status = "authorized"]
                                 ELSE obligation
    /\ worker' = [worker EXCEPT ![w] = Idle]
    /\ UNCHANGED <<mandate, notice, window, source, faults, plaidVars>>

\* The process exits between two commits.
Crash(w) ==
    /\ worker[w].pc # "idle"
    /\ faults < MaxFaults
    /\ faults' = faults + 1
    /\ worker' = [worker EXCEPT ![w] = Idle]
    /\ UNCHANGED <<localVars, plaidVars>>

-----------------------------------------------------------------------------
\* Mutant of LinkedTo: unknown debits are not looked up.
LinkedTo_KnownOnly(t, e) == transfer[t].plaid

\* The debit t is linked to once event e was read: an event of a debit that no
\* row knows carries the intent's id in its metadata.
LinkedTo(t, e) == IF transfer[t].plaid = 0 THEN e.auth ELSE transfer[t].plaid

\* _sync_payment_transfer_events_serial: the next event of t, linked and then
\* applied by apply_plaid_transfer_event.
SyncEvent(t) ==
    /\ events[t] # <<>>
    /\ LET e == Head(events[t])
           v == transfer[t].obligation
           linked == LinkedTo(t, e)
           applies == linked = e.auth /\ ShouldApply(transfer[t].status, e.status)
           rows == [transfer EXCEPT ![t] = [@ EXCEPT
                        !.plaid = linked,
                        !.status = IF applies THEN e.status ELSE transfer[t].status]]
       IN  /\ transfer' = rows
           /\ obligation' =
                IF applies /\ e.status \in CollectedOn \cup {"returned"}
                THEN [obligation EXCEPT ![v].status = Refreshed(v, rows)]
                ELSE obligation
    /\ events' = [events EXCEPT ![t] = Tail(@)]
    /\ UNCHANGED <<mandate, notice, window, source, worker, faults, auths, debit>>

ProviderStep(t) == PlaidProgress(t) /\ UNCHANGED <<localVars, worker, faults>>

-----------------------------------------------------------------------------
Staff ==
    \E v \in Versions :
        \/ SaveAllocation(v)
        \/ CreateObligation(v)
        \/ SendAuthorization(v)
        \/ \E t \in Transfers : Release(v, t)

Client ==
    \/ \E v \in Versions : SignMandate(v) \/ RevokeMandate(v) \/ ExchangeSource(v)
    \/ \E t \in Transfers : Resume(t)

Environment ==
    \/ \E v \in Versions : WindowMoves(v)
    \/ ItemRevoked
    \/ \E t \in Transfers : ClaimAges(t) \/ ProviderStep(t)

DispatchStep(w) ==
    \/ LoadContext(w) \/ Lookup(w) \/ Authorize(w) \/ SaveAuthorization(w)
    \/ Create(w) \/ Recover(w) \/ Recreate(w)
    \/ RecordSubmission(w) \/ RecordFailure(w)

ClaimStep(w) == \E t \in Transfers : Claim(w, t) \/ ClaimBlocked(w, t)

Next ==
    \/ Staff \/ Client \/ Environment
    \/ \E w \in Workers : ClaimStep(w) \/ DispatchStep(w) \/ Crash(w)
    \/ \E t \in Transfers : SyncEvent(t)

Spec == Init /\ [][Next]_vars

\* The scheduler runs the dispatcher every ten seconds and the event sync
\* every minute (scheduler.py), so neither stops for good, and clocks advance.
FairSpec ==
    /\ Spec
    /\ \A w \in Workers : WF_vars(DispatchStep(w)) /\ WF_vars(ClaimStep(w))
    /\ \A t \in Transfers : WF_vars(ClaimAges(t)) /\ WF_vars(SyncEvent(t))

-----------------------------------------------------------------------------
(* Safety.                                                                 *)

\* An intent causes at most one debit at the provider, whatever workers race,
\* crash or lose replies (the promise of dispatch_payment_transfers).
AtMostOneDebit ==
    \A t \in Transfers : \A m, n \in Debited(t) : m = n

\* Only an authorization that passed the risk check is debited, also by the
\* worker that recovers a crashed one: "a retry cannot bypass the durable
\* authorization policy" (docs/PLAID_OPERATIONS.md).
OnlyReviewedDebits ==
    \A t \in Transfers : \A n \in Debited(t) : auths[t][n] = "approved"

\* An intent that is waiting for or held by the dispatcher belongs to the
\* current obligation, which is "processing": save_fee_allocation and
\* create_fee_obligation refuse to replace the fee under it.
InFlightIsProtected ==
    \A t \in Transfers :
        transfer[t].status \in {"authorizing", "submitting"} =>
            /\ Current(transfer[t].obligation)
            /\ obligation[transfer[t].obligation].status = "processing"

\* Every handler that ends a mandate also cancels the intents nobody claimed,
\* so an intent still waiting is always backed by the active mandate.
WaitingIsBacked ==
    \A t \in Transfers : transfer[t].status = "authorizing" => MandateActive(t)

\* A fee shown as collected has a debit whose funds did become available.
CollectedMeansFundsArrived ==
    \A v \in Versions : obligation[v].status = "collected" =>
        \E t \in TransfersOf(v) : \E n \in AuthNos :
            debit[t][n] \in {"funds_available", "returned"}

\* With one dispatcher, a revocation that was accepted is final: no later step
\* creates a debit under the revoked mandate.
NewDebit(t) == \E n \in AuthNos : debit[t][n] = "none" /\ debit'[t][n] # "none"

NoDebitAfterRevocation ==
    [][\A t \in Transfers : NewDebit(t) =>
          LET v == transfer[t].obligation
          IN  mandate[v].no = transfer[t].mandate => mandate[v].status # "revoked"]_vars

\* With one dispatcher, money moves only while its intent is live.
LiveIntents == {t \in Transfers : transfer[t].status \in {"authorizing", "submitting"}}

DebitCounts == [t \in Transfers |-> Cardinality(Debited(t))]

Intents == INSTANCE OneDebitPerIntent WITH
    Intents <- Transfers, live <- LiveIntents, debits <- DebitCounts

ImplementsOneDebit == Intents!Spec

-----------------------------------------------------------------------------
(* Liveness.                                                               *)

\* A claim never hangs, whatever its worker did: it is resolved by the worker,
\* by a later claim of the stale row, or by the provider's events.
ClaimsResolve ==
    \A t \in Transfers :
        transfer[t].status = "submitting" ~> transfer[t].status # "submitting"

\* Every debit at the provider becomes known to its intent, even when the reply
\* of transfer/create and the lookups after it were lost.
DebitsAreLinked ==
    \A t \in Transfers : Debited(t) # {} ~> transfer[t].plaid # 0

\* A returned debit does not leave its fee shown as collected.
ReturnsReopenTheFee ==
    \A v \in Versions, t \in Transfers :
        (t \in TransfersOf(v) /\ \E n \in AuthNos : debit[t][n] = "returned")
            ~> obligation[v].status # "collected"

-----------------------------------------------------------------------------
(* What the code's own texts say of it, and the code does not do.          *)

LiveDebit(t) ==
    \E n \in AuthNos : debit[t][n] \in {"pending", "posted", "funds_available"}

\* cancel_unclaimed_transfer_intents: "a submitting/provider-backed debit
\* cannot be represented as recalled".
CancelledIsNotLive ==
    \A t \in Transfers : transfer[t].status = "cancelled" => ~LiveDebit(t)

\* create_fee_obligation: "A collected or processing obligation cannot be
\* replaced", so one fee is debited once across its versions.
FeeDebitedOnce ==
    \A t, u \in Transfers : LiveDebit(t) /\ LiveDebit(u) => t = u

=============================================================================
