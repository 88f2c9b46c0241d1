--------------------------- MODULE RefundDispatch ---------------------------
(***************************************************************************)
(* Refunds of one collected fee debit: create_refund_intent, the job that  *)
(* hands the intents to Plaid and the events that report what became of    *)
(* them.                                                                   *)
(*                                                                         *)
(*   app/services/payments.py            create_refund_intent, events      *)
(*   app/services/payment_processing.py  dispatch_payment_refunds          *)
(*                                                                         *)
(* One database transaction is one action; the job is split at each commit *)
(* and each call to Plaid.  It claims one row at a time.                   *)
(*                                                                         *)
(* Assumed of Plaid: a refund key (qcr-<id>) makes at most one refund, a   *)
(* replay of the key answers that refund with its current status and does  *)
(* not refuse it, and a 200 has the refund record in it.                   *)
(***************************************************************************)
EXTENDS Integers, Sequences, FiniteSets, FiniteSetsExt

CONSTANTS Refunds,    \* refunds staff may ask for, each with a key of its own
          Amount,     \* amount_cents of each
          Reason,     \* normalized reason of each
          Collected,  \* amount_cents of the debit they refund
          MaxLedger,  \* bound: funds on the Plaid ledger
          Workers,    \* processes running dispatch_payment_refunds
          NoRefund,   \* what an idle dispatcher holds
          MaxFaults   \* bound: crashes and lost replies in a behaviour

ASSUME AmountAssumption ==
    /\ Amount \in [Refunds -> Nat \ {0}]
    /\ Collected \in Nat /\ MaxLedger \in Nat /\ MaxFaults \in Nat
    /\ NoRefund \notin Refunds

\* The rows of a table, at any time.
ASSUME RefundsAssumption == IsFiniteSet(Refunds)

VARIABLES row,       \* payment_refunds
          answer,    \* the row each request was answered with
          transfer,  \* status of the collected debit
          refund,    \* refund[r]: what Plaid did for the key of r
          events,    \* events[r]: refund events not consumed yet
          ledger,    \* funds available on the debit's Plaid ledger
          worker,    \* local variables of each dispatcher
          faults

rowVars   == <<row, answer, transfer>>
plaidVars == <<refund, events, ledger>>
vars      == <<rowVars, plaidVars, worker, faults>>

-----------------------------------------------------------------------------
ProviderStatuses == {"pending", "posted", "settled", "failed", "cancelled", "returned"}

ProviderNext ==
    [ pending   |-> {"posted", "failed", "cancelled"},
      posted    |-> {"settled", "returned"},
      settled   |-> {},
      failed    |-> {},
      cancelled |-> {},
      returned  |-> {} ]

RowStatuses ==
    {"none", "checking_balance", "submitting", "action_required"} \cup ProviderStatuses

Idle == [pc |-> "idle", refund |-> NoRefund, guarded |-> FALSE, seen |-> "pending"]

TypeOK ==
    /\ row \in [Refunds -> [status: RowStatuses, known: BOOLEAN, stale: BOOLEAN]]
    /\ answer \in [Refunds -> Refunds \cup {NoRefund}]
    /\ transfer \in {"funds_available", "returned"}
    /\ refund \in [Refunds -> ProviderStatuses \cup {"none"}]
    /\ events \in [Refunds -> Seq(ProviderStatuses)]
    /\ ledger \in 0 .. MaxLedger
    /\ worker \in [Workers ->
          [ pc: {"idle", "claimed", "verify", "short", "unsure", "verified", "create",
                 "record", "refused", "uncertain"},
            refund: Refunds \cup {NoRefund}, guarded: BOOLEAN, seen: ProviderStatuses ]]
    /\ faults \in 0 .. MaxFaults

Init ==
    /\ row = [r \in Refunds |-> [status |-> "none", known |-> FALSE, stale |-> FALSE]]
    /\ answer = [r \in Refunds |-> NoRefund]
    /\ transfer = "funds_available"
    /\ refund = [r \in Refunds |-> "none"]
    /\ events = [r \in Refunds |-> <<>>]
    /\ ledger = MaxLedger
    /\ worker = [w \in Workers |-> Idle]
    /\ faults = 0

Total(S) == FoldSet(LAMBDA r, sum : Amount[r] + sum, 0, S)

\* The row is written: updated_at is now.
Write(r, status) ==
    row' = [row EXCEPT ![r] = [@ EXCEPT !.status = status, !.stale = FALSE]]

Goto(w, pc) == worker' = [worker EXCEPT ![w].pc = pc]

Drop(w) == worker' = [worker EXCEPT ![w] = Idle]

-----------------------------------------------------------------------------
\* Mutant of Refunded: only refunds Plaid has settled use up the debit.
Refunded_Settled == {r \in Refunds : row[r].status \in {"posted", "settled"}}

\* The refunds that count against the debit.
Refunded == {r \in Refunds : row[r].status \notin {"none", "failed", "cancelled"}}

\* operation_fingerprint: the amount and the reason, not the caller's key.
SameOperation(r, q) == Amount[r] = Amount[q] /\ Reason[r] = Reason[q]

\* create_refund_intent by staff: the row of the same operation, or a new one.
Request(r) ==
    /\ answer[r] = NoRefund
    /\ \/ \E q \in Refunds :
             /\ row[q].status # "none"
             /\ SameOperation(r, q)
             /\ answer' = [answer EXCEPT ![r] = q]
             /\ UNCHANGED row
       \/ /\ \A q \in Refunds : SameOperation(r, q) => row[q].status = "none"
          /\ transfer = "funds_available"
          /\ Amount[r] <= Collected - Total(Refunded)
          /\ answer' = [answer EXCEPT ![r] = r]
          /\ Write(r, "pending")
    /\ UNCHANGED <<transfer, plaidVars, worker, faults>>

\* Mutant of Selectable: a submission that was interrupted is left alone.
Selectable_NotSubmitting(r) ==
    \/ row[r].status = "pending"
    \/ /\ row[r].status = "checking_balance"
       /\ ~row[r].known
       /\ row[r].stale

\* The query of dispatch_payment_refunds.
Selectable(r) ==
    \/ row[r].status = "pending"
    \/ /\ row[r].status \in {"checking_balance", "submitting"}
       /\ ~row[r].known
       /\ row[r].stale

\* The claim, and the refusal of a refund whose debit is no longer collected.
Claim(w, r) ==
    /\ worker[w].pc = "idle"
    /\ Selectable(r)
    /\ IF transfer = "funds_available"
       THEN /\ IF row[r].status = "pending" THEN Write(r, "checking_balance")
                                            ELSE UNCHANGED row
            /\ worker' = [worker EXCEPT ![w] =
                  [Idle EXCEPT !.pc = "claimed", !.refund = r,
                               !.guarded = row[r].status # "submitting"]]
       ELSE /\ Write(r, "action_required")
            /\ UNCHANGED worker
    /\ UNCHANGED <<answer, transfer, plaidVars, faults>>

\* The row is read again in a transaction of its own.
Recheck(w) ==
    /\ worker[w].pc = "claimed"
    /\ LET r == worker[w].refund
           expected == IF worker[w].guarded THEN "checking_balance" ELSE "submitting"
       IN  \/ /\ row[r].status # expected
              /\ Drop(w)
              /\ UNCHANGED row
           \/ /\ row[r].status = expected
              /\ transfer # "funds_available"
              /\ Write(r, "action_required")
              /\ Drop(w)
           \/ /\ row[r].status = expected
              /\ transfer = "funds_available"
              /\ Goto(w, IF worker[w].guarded THEN "verify" ELSE "create")
              /\ UNCHANGED row
    /\ UNCHANGED <<answer, transfer, plaidVars, faults>>

ReplyLost == faults < MaxFaults /\ faults' = faults + 1

\* _verify_refund_ledger_capacity
Verify(w) ==
    /\ worker[w].pc = "verify"
    /\ LET r == worker[w].refund
       IN  \/ ledger >= Amount[r] /\ Goto(w, "verified") /\ UNCHANGED faults
           \/ ledger < Amount[r] /\ Goto(w, "short") /\ UNCHANGED faults
           \/ ReplyLost /\ Goto(w, "unsure")
    /\ UNCHANGED <<rowVars, plaidVars>>

\* Mutant of RecordCheck: a status nothing selects for the later check.
RecordCheck_Deferred(w) ==
    /\ worker[w].pc \in {"short", "unsure"}
    /\ LET r == worker[w].refund
       IN  IF row[r].status = "checking_balance"
           THEN Write(r, IF worker[w].pc = "short" THEN "action_required" ELSE "deferred")
           ELSE UNCHANGED row
    /\ Drop(w)
    /\ UNCHANGED <<answer, transfer, plaidVars, faults>>

\* The check failed: for good, or the same check is due again later.
RecordCheck(w) ==
    /\ worker[w].pc \in {"short", "unsure"}
    /\ LET r == worker[w].refund
       IN  IF row[r].status = "checking_balance"
           THEN Write(r, IF worker[w].pc = "short" THEN "action_required"
                                                   ELSE "checking_balance")
           ELSE UNCHANGED row
    /\ Drop(w)
    /\ UNCHANGED <<answer, transfer, plaidVars, faults>>

\* Mutant of Handoff: the status is not saved before the money moves.
Handoff_Unsaved(w) ==
    /\ worker[w].pc = "verified"
    /\ LET r == worker[w].refund
       IN  IF row[r].status # "checking_balance" \/ transfer # "funds_available"
           THEN Drop(w) /\ UNCHANGED row
           ELSE Goto(w, "create") /\ UNCHANGED row
    /\ UNCHANGED <<answer, transfer, plaidVars, faults>>

\* "submitting" is committed before Plaid is asked to move money.
Handoff(w) ==
    /\ worker[w].pc = "verified"
    /\ LET r == worker[w].refund
       IN  \/ /\ row[r].status # "checking_balance"
              /\ Drop(w)
              /\ UNCHANGED row
           \/ /\ row[r].status = "checking_balance"
              /\ transfer # "funds_available"
              /\ Write(r, "action_required")
              /\ Drop(w)
           \/ /\ row[r].status = "checking_balance"
              /\ transfer = "funds_available"
              /\ Write(r, "submitting")
              /\ Goto(w, "create")
    /\ UNCHANGED <<answer, transfer, plaidVars, faults>>

\* /transfer/refund/create with the key of r: a new refund, or the one it made.
PlaidRefund(r) ==
    IF refund[r] = "none"
    THEN /\ ledger >= Amount[r]
         /\ refund' = [refund EXCEPT ![r] = "pending"]
         /\ events' = [events EXCEPT ![r] = Append(@, "pending")]
         /\ ledger' = ledger - Amount[r]
    ELSE UNCHANGED plaidVars

Create(w) ==
    /\ worker[w].pc = "create"
    /\ LET r == worker[w].refund
       IN  \/ /\ PlaidRefund(r)
              /\ worker' = [worker EXCEPT ![w] =
                              [@ EXCEPT !.pc = "record", !.seen = refund'[r]]]
              /\ UNCHANGED faults
           \/ /\ refund[r] = "none"
              /\ Goto(w, "refused")
              /\ UNCHANGED <<plaidVars, faults>>
           \/ /\ ReplyLost
              /\ PlaidRefund(r) \/ UNCHANGED plaidVars
              /\ Goto(w, "uncertain")
    /\ UNCHANGED rowVars

RecordAnswer(w) ==
    /\ worker[w].pc = "record"
    /\ row' = [row EXCEPT ![worker[w].refund] =
                  [status |-> worker[w].seen, known |-> TRUE, stale |-> FALSE]]
    /\ Drop(w)
    /\ UNCHANGED <<answer, transfer, plaidVars, faults>>

\* Mutant of RecordError: every error is taken for a refusal.
RecordError_Failed(w) ==
    /\ worker[w].pc \in {"refused", "uncertain"}
    /\ Write(worker[w].refund, "failed")
    /\ Drop(w)
    /\ UNCHANGED <<answer, transfer, plaidVars, faults>>

RecordError(w) ==
    /\ worker[w].pc \in {"refused", "uncertain"}
    /\ Write(worker[w].refund, IF worker[w].pc = "uncertain" THEN "submitting" ELSE "failed")
    /\ Drop(w)
    /\ UNCHANGED <<answer, transfer, plaidVars, faults>>

Crash(w) ==
    /\ worker[w].pc # "idle"
    /\ faults < MaxFaults
    /\ faults' = faults + 1
    /\ Drop(w)
    /\ UNCHANGED <<rowVars, plaidVars>>

-----------------------------------------------------------------------------
\* Ten minutes pass without a write to the row.
RowAges(r) ==
    /\ row[r].status \in {"checking_balance", "submitting"}
    /\ ~row[r].stale
    /\ row' = [row EXCEPT ![r].stale = TRUE]
    /\ UNCHANGED <<answer, transfer, plaidVars, worker, faults>>

\* apply_plaid_transfer_event for the next refund event: one whose refund id no
\* row has is kept in the log and never applied.
SyncEvent(r) ==
    /\ events[r] # <<>>
    /\ IF row[r].known THEN Write(r, Head(events[r])) ELSE UNCHANGED row
    /\ events' = [events EXCEPT ![r] = Tail(@)]
    /\ UNCHANGED <<answer, transfer, refund, ledger, worker, faults>>

\* A returned event for the debit itself.
DebitReturned ==
    /\ transfer = "funds_available"
    /\ transfer' = "returned"
    /\ UNCHANGED <<row, answer, plaidVars, worker, faults>>

RefundProgress(r) ==
    /\ refund[r] # "none"
    /\ \E s \in ProviderNext[refund[r]] :
          /\ refund' = [refund EXCEPT ![r] = s]
          /\ events' = [events EXCEPT ![r] = Append(@, s)]
    /\ UNCHANGED <<rowVars, ledger, worker, faults>>

\* Other collections and payouts change the ledger's funds.
LedgerMoves ==
    /\ ledger' \in 0 .. MaxLedger
    /\ UNCHANGED <<rowVars, refund, events, worker, faults>>

-----------------------------------------------------------------------------
WorkerStep(w) ==
    \/ Recheck(w) \/ Verify(w) \/ RecordCheck(w) \/ Handoff(w) \/ Create(w)
    \/ RecordAnswer(w) \/ RecordError(w)

Next ==
    \/ \E r \in Refunds : Request(r) \/ RowAges(r) \/ SyncEvent(r) \/ RefundProgress(r)
    \/ \E w \in Workers : WorkerStep(w) \/ Crash(w) \/ \E r \in Refunds : Claim(w, r)
    \/ DebitReturned
    \/ LedgerMoves

Spec == Init /\ [][Next]_vars

\* The job runs every ten seconds and takes the ten oldest rows: every row has
\* its turn, and a job that does not crash finishes.
FairSpec ==
    /\ Spec
    /\ \A w \in Workers : WF_vars(WorkerStep(w))
    /\ \A r \in Refunds : WF_vars(RowAges(r)) /\ SF_vars(\E w \in Workers : Claim(w, r))

-----------------------------------------------------------------------------
Live(r) == refund[r] \in {"pending", "posted", "settled"}

\* However refunds are requested, retried and recovered, Plaid never pays back
\* more than was collected (the sum create_refund_intent checks counts every
\* refund that may still be paid).
NeverOverRefunded == Total({r \in Refunds : Live(r)}) <= Collected

\* A refund the desk sees as failed, whose amount may be refunded again, is not
\* on its way at Plaid.
FailedIsNotLive == \A r \in Refunds : row[r].status = "failed" => ~Live(r)

\* How far a refund is, by what Plaid did and, before that, by its row.
Stage(r) ==
    IF Live(r) THEN "paid"
    ELSE IF refund[r] # "none" THEN "over"
    ELSE CASE row[r].status = "none"                    -> "new"
           [] row[r].status = "submitting"              -> "handed"
           [] row[r].status \in {"failed", "cancelled"} -> "over"
           [] OTHER                                     -> "promised"

Stages == [r \in Refunds |-> Stage(r)]

Budget == INSTANCE RefundsWithinDebit WITH stage <- Stages

\* However late an answer or an event is applied, every refund goes once through
\* its stages, and is promised only while it fits into what was collected.
ImplementsBudget == Budget!Spec

\* Money moves only for a row that is durably "submitting", so a job that dies
\* right after it is recovered by a replay of the same key and not by a check
\* of a balance that already reflects the refund.
MovesOnlyWhileSubmitting ==
    [][\A r \in Refunds : refund[r] = "none" /\ refund'[r] # "none"
          => row[r].status = "submitting"]_vars

\* Every refund is handed to Plaid, refused or given to a person.
RefundsResolve ==
    \A r \in Refunds :
        row[r].status \in {"pending", "checking_balance", "submitting"}
          ~> row[r].known \/ row[r].status \in {"failed", "action_required"}
=============================================================================
