# Qualified Commercial Backend: a verification project in TLA+

The backend is one FastAPI process with a PostgreSQL database. Requests and the jobs of an
in-process scheduler (`app/services/scheduler.py`) run as coroutines of that process; a request
or a job sees the database through transactions, and talks to providers (Plaid for ACH debits,
SES and SMS for messages, Google for calendars, S3 for documents) between them. Most of its
420 000 lines move data between screens and rows. What is hard is the small part that makes
something happen outside the database exactly once, or after what a person decided: money debited
or paid back, an application mailed to a lender, a client told of an appointment, an email to a
prospect, the PDF of a form. This project models that part.

Contents: [inventory](#1-inventory), [hard behaviours](#2-what-is-hard),
[modules](#3-modules-and-how-they-correspond-to-the-code), [runs](#4-runs),
[fairness](#5-fairness), [proofs](#6-proofs), [findings](#7-findings),
[known limits](#8-known-limits), [not modelled](#9-not-modelled), [plan](#10-plan).

To repeat the checks, in this directory:

    tlc -workers 2 -config FeeOneWorker.cfg MCFeeCollection
    tlapm BookingDeliveryProofs.tla

and so on for the other runs of [section 4](#4-runs) and the eight `...Proofs` modules.
`PROJECT.json` lists runs, mutants (a change of one definition that each checked property must
detect), the source lines behind every definition, findings, hazards and theorems.

## 1. Inventory

### 1.1 Components that are modelled

**ACH fee collection** (`app/services/payments.py`, `payment_processing.py`, `ach_fee_workflow.py`,
`plaid_lifecycle.py`, `app/routers/payments.py`, `public_payments.py`).

- *State.* Versions of an application's fee obligation; the one-time ACH mandate the client signs
  for a version; the advance notice of the debit; the client's verified bank account; the durable
  transfer intents (`payment_transfers`); Plaid's authorizations, debits and event log; the locals
  of a running dispatcher.
- *Operations.* Staff allocate, create or replace an obligation, send the authorization request,
  release the fee. The client signs, connects another account, revokes, resumes after a bank
  repair. The bank withdraws Plaid's access. The dispatcher claims an intent and commits, loads its
  context, looks an earlier debit up, authorizes, saves, creates the debit, recovers an ambiguous
  create, and records what happened. The event sync consumes Plaid's log.
- *Interaction.* Everything goes through the rows; the dispatcher shares no transaction with the
  handlers, and Plaid's events reach the rows with no regard to what the dispatcher is doing.
- *Correct when.* One intent debits at most once; only on an authorization that passed the risk
  review; never under a mandate whose revocation was accepted; a fee in flight is not replaced
  under it; a fee is shown collected only when the money came, and no longer when it went back; no
  claim hangs and no debit stays unknown.

**Refunds of collected fees** (`payments.create_refund_intent`,
`payment_processing.dispatch_payment_refunds`, refund events).

- *State.* Refund rows, the debit they refund, the Plaid ledger they are paid from, refund events,
  the locals of the job. *Operations.* Request; claim; balance check; durable hand-off; create;
  record; replay of a stale claim; events; a return of the debit meanwhile.
- *Correct when.* Plaid never pays back more than was collected; a refund whose amount became free
  again is not on its way; money moves only for a row that says so durably; every refund is handed
  over, refused or given to a person.

**Lender submission batches** (`app/services/submission_batches.py`,
`app/routers/submission_batches.py`).

- *State.* A batch per version of the package and a row per lender (status, fingerprint of the
  source it was prepared from, revoked or expired), requests in progress, the email provider.
- *Operations.* Prepare, approve, deliver from the queue, sweep dead workers, reconcile, revoke,
  read (which marks stale), refresh by a job, open the public link.
- *Correct when.* Every attempt to send spends an approval of its own; a submission is mailed at
  most once; nothing revoked or expired is picked up; the queue moves; a success is not undone.

**Booking delivery** (`app/services/booking_operations.py`, `booking_notify.py`, the appointment
handlers of `app/dealer_os/router.py`, `google/calendar_sync.push_event`).

- *State.* An appointment and its calendar event; a ledger of operations (create, reschedule or
  update, cancel) and of the provider effects of each; the confirmation statuses of the booking;
  the locals of the workers.
- *Operations.* Booking, change, cancellation and manual retry of one effect, each enqueued in the
  transaction of its request; claim, deferral behind older operations, one effect after another
  with a commit before and after each call, the aggregate at the end, take-over of a stale claim.
- *Interaction.* Requests and workers meet in the rows; the order of operations is `created_at`,
  the time at which a transaction began, while they commit in another.
- *Correct when.* A message is sent at most once for each time it was armed; two calls of an
  appointment do not overlap; what was superseded is silent and a cancellation is the last word;
  what was sent stays recorded as sent; every operation ends.

**Prospect outreach** (`app/services/prospect_outreach.py`,
`app/dealer_os/prospect_outreach_router.py`, `app/dealer_os/services/prospects.py`).

- *State.* Drafts with a version, a text, a review window; the prospect (do-not-contact, archived,
  classification); the suppression list; row locks and advisory locks; per session the instances
  its identity map keeps.
- *Operations.* Start editing, edit, cancel, select the secure bundle, approve, undo, reclassify,
  set do-not-contact, archive, restore, suppress, revoke a suppression, unsubscribe; the
  scheduler's scan and dispatch: lock, screen, claim, lock again, recheck, hand off, record, sweep.
- *Correct when.* Nothing goes to a suppressed address or an archived prospect; an approval sends
  the text that was reviewed; a draft is sent at most once and not after it was voided; a due draft
  leaves review whatever deadlocks.

**Form PDF refresh queue** (`app/services/drafted_forms.py`, `app/models/form_pdf_refresh.py`,
`business_statements.py`).

- *State.* The saved text of each form, one row per form in the queue, the documents and the
  figures (`key_facts`) filed with them, the checklist row, the locals of drains and requests.
- *Operations.* Save and push the deadline; submit, which files at once and drops the row; the
  drain: read what is due, draw, drop by id, defer what failed.
- *Correct when.* A saved text that its document does not show is still going to be drawn; only a
  document satisfies the checklist; a row that always fails does not keep the others waiting.

### 1.2 Components that are not modelled

| Component | State and operations | What would make it correct |
| --- | --- | --- |
| Private payment plans (`payments.py`, materialization of installments) | plan, installments, intents on the dispatcher above | an installment is debited once, not while paused or after a revocation |
| Booking reminders (`booking_reminders.py`) | reminders in a loop with one commit | no reminder is sent twice after a crash |
| Application offers (`application_offer_deliveries.py`) | delivered, opened, answered | one answer, to the offer that was shown |
| Production signing (`production_signing.py`) | revisions sent, voided, signed | nobody signs a voided revision |
| Plaid items and cleanup (`plaid_lifecycle.py`, `application_plaid_sync.py`) | items, removals, webhooks | no token outlives its consent |
| Worksheets (`sheets.py`, `worksheet_presence.py`) | cells edited by several people | no edit is lost |
| Credit pulls, collection tasks, capital readiness, programs and rules, contracts, the rest of the CRM, partners, AI agents, Google, buckets, access, pricing, HTTP layer, migrations | mostly data mapping, rendering, provider I/O and arithmetic over Decimal | little that depends on the order of steps |

`PROJECT.json` names the files of each and the reason.

## 2. What is hard

The hazards in `PROJECT.json` are these behaviours, each at the line where it bites:

- **A crash or a lost reply between a provider's effect and the transaction that records it.** The
  code's answer is a durable claim before the call, an idempotency key, a lookup before a repeat,
  or a person.
- **A stale claim taken over while its old worker still runs**, in one process after a restart or in
  two during a deployment.
- **Events before, between and after the replies** they belong to, and returns weeks later.
- **Reads separated from writes**: long queries without a lock (package fingerprints), instances
  that a session loaded before it waited for a lock and that `SELECT ... FOR UPDATE` does not refresh.
- **Two orders of locks**: requests on a draft lock the draft and then the prospect, dispatch the
  other way round; PostgreSQL aborts one of two that meet.
- **State derived from columns that an error path empties.** An ambiguous failure leaves a row that
  looks as if nothing had been sent.
- **One column with two vocabularies** (Plaid's status and the job's own).
- **A row dropped by an identity that outlives its content**: the form queue deletes the row it
  read, pushed or not.
- **Eventually**: claims, queues, operations and debits that nobody resolves.

## 3. Modules and how they correspond to the code

    PlaidTransferApi --> FeeCollection --> MCFeeCollection
                              |   \
          OneDebitPerIntent <-+    +--> FeeCollectionProofs
    RefundDispatch    --> MCRefundDispatch,     RefundDispatchProofs
          +--> RefundsWithinDebit
    LenderSubmissions --> MCLenderSubmissions,  LenderSubmissionsProofs
          +--> OneMailPerPackage
    BookingDelivery   --> MCBookingDelivery,    BookingDeliveryProofs --> BookingCancelProofs
          +--> OneSendPerArming
    ProspectOutreach  --> MCProspectOutreach,   ProspectOutreachProofs --> ProspectReviewProofs
    FormRefresh       --> MCFormRefresh,        FormRefreshProofs

A database transaction is one action where the handler locks the rows it decides on; where it does
not, the text below says how it is split. A job is split at each commit and at each provider call. A
definition `X_Something` preceding `X` is a mutated form of `X`, used only to show that a property
can fail.

### PlaidTransferApi (external)

Plaid's transfer API as the callers in `src/` rely on it: an authorization per attempt with its
decision, at most one debit per authorization, the debit's progress with an event per step.
`KeyReplays` says whether Plaid answers a repeated `authorization/create` under the same key with
the authorization it made first; the code sends such a key, and Plaid's documentation limits
how long it is remembered, so the run assumes that it is forgotten and a theorem says what follows
if it is not.

### FeeCollection

| Variable | Code |
| --- | --- |
| `obligation[v]` | `fee_obligations`: status, superseded, authorization request sent |
| `mandate[v]` | the newest row of `ach_mandates` of version `v`: a number and a status |
| `notice[v]`, `window[v]` | `payment_debit_notices`; the evidence and dates that `fee_release_readiness` requires |
| `source` | a verified `payment_funding_source` exists |
| `transfer[t]` | `payment_transfers`: status, authorization, review kept in metadata, `plaid_transfer_id`, `submitted_at`, claim and its age, failure |
| `worker[w]` | the locals of `dispatch_payment_transfers` between two commits |
| `auths`, `debit`, `events` | Plaid |

Actions are named for the handlers they model (`SaveAllocation`, `CreateObligation`,
`SendAuthorization`, `SignMandate`, `RevokeMandate`, `ExchangeSource`, `ItemRevoked`, `Release`,
`Resume`). The dispatcher is `Claim` / `ClaimBlocked`, `LoadContext`, `Lookup`, `Authorize`,
`SaveAuthorization`, `Create`, `Recover`, `Recreate`, `RecordSubmission`, `RecordFailure`; its process
may end before any of them (`Crash`). `SyncEvent` consumes one event.

Abstractions: the fee is collected by client ACH alone, so that one collected debit collects the
obligation and `partially_collected` does not occur; the claim takes one intent at a time; a page
of events is consumed event by event; `posted` stands for `settled` too; a `user_action_required`
decision always leads to the bank repair; the delivery of proof and notice, the funding
confirmation and the business days are one variable, `window`; sending the authorization request
(`routers/payments.py:519`-`570`) is one action, its email included. A call that Plaid refuses for
good (a 4xx of the lookup, the authorization or the create) fails the row, and one whose reply is
lost leaves it to be tried again (`Fail`).

`OneDebitPerIntent` is what the dispatcher promises: intents become live and stop being so, and a
live intent may debit once. `ImplementsOneDebit` maps an intent to live while its row is
`authorizing` or `submitting`.

### RefundDispatch

`row` is `payment_refunds` (status, whether `plaid_refund_id` is stored, whether it is older than ten
minutes), `answer[r]` the row that request `r` was answered with, `transfer` the debit's status,
`refund`, `events` and `ledger` are Plaid's, `worker` the job's locals. The job is `Claim`, `Recheck`,
`Verify`, `RecordCheck`, `Handoff`, `Create`, `RecordAnswer`, `RecordError`. It works on one row at
a time; other customers' money moves on the ledger freely (`LedgerMoves`).

Assumed of Plaid: one refund per key; a replay of a key is answered with that refund, and not
refused; a 200 has the refund record in it. `FailedIsNotLive` rests on the last two: the code fails
a row on any refusal, and also on a 200 without a record (`PLAID_REFUND_MISSING`,
`plaid_transfer.py:528`), so an API that did either for a refund it made would leave that refund on
its way while its amount is free again.

`RefundsWithinDebit` is what the desk and the job promise together: a refund is promised only while
it fits, with all that are promised, handed over or paid, into what was collected; it is handed to
Plaid before it is paid, it may be withdrawn from there but not once it is paid, and one that is
over, whose amount may be promised again, stays over. `ImplementsBudget` maps a refund to its stage
by what Plaid did and, before Plaid did anything, by its row (`Stage`): a row is handed over while
it says `submitting`. Whatever an event or an answer writes to the row of a refund Plaid has made
is a stutter.

### LenderSubmissions

`batch` and `sub` are `submission_batches` and `lender_submissions`. `approve_batch`, `read_batch`,
`refresh_pending_previews` and the public link read rows, run the queries behind
`source_fingerprint` and write later without looking again: each is two actions, and its variable
(`approval`, `reader`, `refresher`, `visitor`) keeps what was read. `delivery[s]` follows
`deliver_one` through claim, provider call and recording. A fingerprint stands for everything that
is hashed; whether a lender has blockers is left open.

Assumed: who reconciles an unknown outcome tells the truth about the email; sending (SES time-outs
of seconds) ends before the fifteen minutes after which the sweep declares its worker dead.

`OneMailPerPackage` is what the lender is promised: a package waits in the queue only by an approval
that is counted, given while it neither waits nor is under way and was never mailed; it is not
picked up once it is closed; it is mailed by a delivery under way, once in its life. Everything else
can only make it subside: leave the queue, end a delivery, be closed for good. `ImplementsOneMail`
maps a package to waiting while its row is `queued`, and to under way while `delivery[s]` is, for
stale writes may change the row meanwhile.

### BookingDelivery

| Variable | Code |
| --- | --- |
| `appt` | the appointment and its calendar event: what it says, cancelled, Google's id, the video link |
| `notice` | the confirmation statuses of `booking_notifications` that the PIN waits for, and the consent to texts |
| `op[i]` | `booking_delivery_operations`: type, idempotency key, manual, status, attempts, age of the claim |
| `eff[i][k]` | `booking_delivery_effects` |
| `done` | which requests have committed |
| `worker[w]` | the locals of `process_operation`, the effects it loaded (`mem`) and the result it will commit |
| `accepted[i][k]` | messages a provider took since the effect was armed |

`Patch`, `Cancel` and `Retry` (`RetryBlocked`, for a text without consent) are the requests, each
with the whole of `enqueue` or `enqueue_manual_retry` (supersession of what is queued, the
idempotency key, the re-armed rows).
Request `i` writes row `i` and requests commit in any order, which is how `created_at`, the start of
the transaction, differs from the order of commits; `late` marks such a row. A worker goes through
`Defer` or `Claim`, `GiveUp` (an effect found `processing` after a crash), `Start` (the claim of one
effect), `Skip`, `Push` (`PushRaises`, an exception around it), `Wait`, `Email`, `Text`, `Pin` (the
call), `Record`, and `Finish`, which writes the aggregate of the effects *as this worker knows them*.
A change of the client's phone number takes back the consent: from then on texts are skipped, and
no text carries the PIN.

Abstractions: an exception of an email or the PIN is one of the outcomes of `Deliver`; one before a
text is called is left out, since `GiveUp` leaves the same row; one email stands for all emails of
an operation, an update for a reschedule too;
backoff is left out; a worker is assumed to end within the ten minutes after which its claim is
stale, or to be dead.

`OneSendPerArming` is what the ledger promises: messages are armed, and an armed one is sent at
most once. `ImplementsOneSend` maps a message to armed while its effect is pending or processing.

### ProspectOutreach

| Variable | Code |
| --- | --- |
| `draft[d]` | `dealer_prospect_email_drafts`: status, version, text, `auto_send_at`, oversized bundle |
| `prospect`, `suppressed` | the flags of `dealer_prospects` that dispatch reads; `email_suppressions` |
| `holder` | row locks and `pg_advisory_xact_lock` of addresses |
| `session[s]` | a request or a scheduler run: stage, locks still to take, the instances it loaded |
| `mail[d]` | what SES took, from whom, with which text |

A session takes one lock at a time (`Acquire`) in the order of its handler (`Plan`), may be aborted
as the victim of a deadlock (`Abort`), and writes at its commit the columns that differ from what
it loaded (`Flush`). This is where the code is delicate: SQLAlchemy's identity map keeps the
instance that was loaded first, `FOR UPDATE` without `populate_existing` locks the row and does not
refresh it, and `expire_on_commit=False` keeps it across the claim's commit. Dispatch is `Screen`,
`Claim`, the locks again, `Recheck`, `HandOff`, `Record`; `Scan` and `Hint` are the scheduler's
selection and the wake-up after a request; `Sweep` voids the drafts of a reclassified prospect.

Abstractions: a dispatch blocks a draft for reasons other than the size of its bundle (`Block`
clears `oversized`; sizes do not change once a draft is composed, so `attachment_bundle_too_large`
is decided there); the scan takes every due draft, not the 40 oldest; a deadlock is
the only exception that ends a session; `Restore` does not look at `expected_version`, which allows more than
the code.

### FormRefresh

| Variable | Code |
| --- | --- |
| `body[f]` | the committed statement of form `f`; a text is the number of the request that typed it |
| `row[f]`, `ahead` | the row of `form_pdf_refresh_queue`, and the order of the deadlines |
| `figures[f][a]`, `current[f]` | the `key_facts` of the document that actor `a` created; the one `_existing_drafted_form` finds |
| `slot[f]` | the checklist row |
| `job[a]`, `todo[d]` | what a drain or a request is doing; the rows a drain has read |
| `behind[f]` | history: the text whose redraw was given up |

`Save`, `Enqueue` / `EnqueueFails`, `Submit`, `Find`, `CommitSubmit` / `AbortSubmit` are a request;
`Tick`, `Take`, `Read`, `Find`, `Draw` / `Nothing`, `Drop` / `Defer` / `DeferFails` the drain.
`File` is `refresh_form_pdf`: it overwrites the document it found or creates its own, so that two
who found none create two.

Left out: the bytes of the PDF and the put to S3 (which precedes the commit), names, soft deletion,
the clock but for the order of deadlines, the first insertion of a statement, and saving or
submitting a text that is the saved one. The lock of a form that `Save` and `Submit` take is that of
the UPDATE of an existing statement (`business_statements.py:134`), which those two do not issue.

## 4. Runs

| Run | Instance | Shows |
| --- | --- | --- |
| `fee_one_worker` | one intent and version, one process, 2 authorizations, 2 mandates, 2 crashes or lost replies, Plaid may forget the key | the deployed shape: at most one debit, reviewed debits only, protection of a fee in flight, no debit after an accepted revocation, the refinement of `OneDebitPerIntent`, and three liveness properties: claims resolve, debits are linked, returns reopen the fee |
| `refund_job` | two refunds of 2 against a debit of 3, ledger 0..2, 1 fault | no over-refund, no live refund shown as failed, the refinement of `RefundsWithinDebit` (which has the durable hand-off in it), every refund resolves |
| `submission_refresh` | one lender, two versions of the package, two source states (interchangeable, so checked up to symmetry), one underwriter, one approval | types, and every attempt spends an approval of its own, with stale reads, revocation, reconciliation and restarts. Approval, page and refresh are never open all three at once here: two open requests are in `submission_queue`, any number in the theorems `AttemptsApproved` and `OneMailRefines` |
| `submission_queue` | one lender, one underwriter, two approvals of one submission | at most one email, the refinement of `OneMailPerPackage` (in which nothing revoked or expired is picked up), and the queue moves |
| `booking_delivery` | a booking with video link, text and PIN, then one request, two workers, two attempts, one crash | types, the refinement of `OneSendPerArming`, and that every operation ends, but for a PIN whose confirmation nobody settles |
| `booking_requests` | a booking and two more requests that commit in any order, two states of the appointment, two workers (both symmetric), one crash | at most one message per arming, no overlap but the named ones, sent is final, superseded is silent, cancellation is last |
| `outreach` | one draft with a copy, a scheduler and two requests of any kind at once, one crash | nothing to a suppressed address or an archived prospect, approvals send what was reviewed, a manual draft is sent at most once, not after it was voided, and stays in its final state; a due draft leaves review |
| `form_refresh` | two forms, three texts, two requests, one drain that takes one row at a time, one crash or failed deferral | nothing is forgotten but what is named, a satisfied checklist has its document, due rows are reached |
| `fee_stale_claim`, `fee_replaced`, `submission_undone`, `outreach_twice` | smallest instance that shows it | [section 7](#7-findings) |

Bounds, and why they are enough.

- *Faults.* `MaxFaults` and `MaxCrashes` count crashes and lost replies together. Two are what it
  takes to lose a create and the lookup meant to repair it; in the other protocols a crash leaves a
  claim that the next worker takes over, and the second crash of the same claim is the same state again.
- *Fees.* Two authorizations let a repaired intent be authorized again. A second mandate shows a
  client who signs again after a revocation.
- *Refunds.* Two refunds of 2 against 3 cannot both be paid, which is the only thing
  `NeverOverRefunded` needs.
- *Submissions.* Two batches are what a refresh supersedes and prepares; two approvals are what a
  retry needs.
- *Booking.* Three requests are a change, the cancellation that overtakes it, and what either of
  them supersedes; two attempts are the first and the last; two workers are an overlap.
- *Outreach.* Two requests and a dispatch are the cycle of a deadlock with a third that waits; two
  addresses are the order of the advisory locks. Two drafts of one prospect share only its lock.
- *Forms.* Two forms and a limit of one make one row wait for the other; three texts are drawn,
  pushed during the draw, and submitted over it. Two drains are not in the run: with one form and
  two drains the safety properties were checked once, and the theorem covers any number.

The bounds on counters (`MaxMandates`, `MaxAuths`, `MaxFaults`, `MaxCrashes`, `MaxBatches`,
`MaxApprovals`, `MaxRequests`, `MaxEdits`) are guards and cut behaviours short, so deadlock is not
checked: a collected fee, a settled refund, a sent package, an empty queue are also ends the code
means to reach. The locks of `ProspectOutreach` are modelled explicitly, and that a cycle of them
is broken is the liveness property `DueLeavesReview`.

## 5. Fairness

- *Fees.* The scheduler runs the dispatcher every ten seconds and the event sync every minute: weak
  fairness of each dispatcher's next step, of its claim, and of the next event of each intent.
  Clocks advance: weak fairness of `ClaimAges`.
- *Refunds.* Weak fairness of the job's next step and of `RowAges`. The job takes the ten oldest
  rows: each row has its turn, which is strong fairness of its claim, since the claim is disabled
  while the worker is busy with another row.
- *Submissions.* `drain_delivery_queue` runs every thirty seconds and takes the queued and the stuck
  rows: weak fairness of `Queue(s)`. `QueueMoves` needs no more: whatever else writes to a row that
  the queue holds takes it out of the queue.
- *Booking.* Weak fairness of a worker's steps and of the clock, strong fairness of the claim of
  each operation, for the reason given for refunds: `dispatch_due_operations` takes what is due, oldest first.
- *Outreach.* Weak fairness of the steps of a session and of the scan. Strong fairness of acquiring
  a lock: PostgreSQL grants it in the order of the waiters, and its deadlock detector aborts one of a cycle.
- *Forms.* The job runs every thirty seconds and goes on until it is through: weak fairness of
  `Tick` and of `Work`. Nothing is assumed of the drawing: it may fail for ever.
- Nothing is assumed of people, and nothing of providers except that an event Plaid has logged is
  served. A debit may stay pending for ever.

## 6. Proofs

Every module of the project that has a state machine of the code has a module of proofs, for every
value of the constants under the named assumptions of that module (bounds are numbers, the values
that stand for "nothing" are not members of the sets, and what the table says).

| Module | Theorems (besides `InductiveInvariant` and `TypeCorrect`) | Assumed in addition |
| --- | --- | --- |
| `FeeCollectionProofs` | `InFlightProtected`, `WaitingBacked`, `OnlyReviewed`, `CollectedFundsArrived` | |
| | `OneDebit` | `KeyReplays` |
| | `OneDispatcherAgrees`, `OneDebitAlone`, `RevocationIsFinal`, `OneDebitRefines` | one dispatcher |
| `RefundDispatchProofs` | `FailedNotLive`, `MovesWhileSubmitting`, `RefundsFitTheDebit`, `BudgetRefines` | one dispatcher, for all but `TypeCorrect` |
| `LenderSubmissionsProofs` | `AttemptsApproved`, `OneEmail`, `NothingAfterRevocation`, `OneMailRefines` | |
| `BookingDeliveryProofs` | `AtMostOnce`, `CallsStayApart`, `SentStays`, `SupersededStaysSilent`, `LedgerRefines` | |
| `BookingCancelProofs` | `NothingAfterCancellation` alone | |
| `ProspectOutreachProofs` | `NothingSuppressed`, `NothingArchived`, `ManualOnce`, `VoidedUnsent`, `EndsForGood` | |
| `ProspectReviewProofs` | `ApprovedText` alone | |
| `FormRefreshProofs` | `NothingIsForgotten` | |

Each rests on an inductive invariant `IInv`, and each proof has one lemma or step per action. None
of the properties is inductive alone; why, and what is added:

- **Fees**: `TypeOK /\ RowInv /\ ReviewInv /\ OneDecision /\ FundsInv`. `Refreshed` recomputes the
  obligation from *all* its rows, so one needs that a version has one row (`OneRowPerVersion`);
  the event sync moves a row that may still be waiting, so a waiting row was never submitted
  (`WaitingIsFresh`); a dispatcher writes to the row it holds (`WorkersHoldRows`). `ReviewInv`
  carries the outcome of the risk review from Plaid's decision through the row's metadata and a
  dispatcher's locals to the debit. `OneDecision` says that, while Plaid remembers the key, it
  decided once for an intent; with at most one debit per authorization this is `AtMostOneDebit`.
  `FundsInv` says that events, replies about to be recorded and rows never claim more of the money
  than is true. Lemmas `...Effects` and `...Moves` state what an action changes, so that the
  invariants are argued over a few facts.
- **Fees, one dispatcher** (`AloneInv`, on top of `IInv`). The scheduler runs in one process, and two
  dispatchers of a stale claim break these properties ([section 7](#7-findings)); alone, the
  dispatcher keeps them even when Plaid forgets the key. A debit is made from the authorization
  its row names (`DebitIsSaved`), so that whoever takes the row over finds that debit before it
  makes another; Plaid has no event of an intent without a debit (`LogFollowsDebits`), so nobody
  settles a row behind the dispatcher's back before there is a debit; what the dispatcher remembers
  of the row is what the row says (`HeldRows`); an authorization is asked for again only when the
  row's was refused (`RepairsAreRefused`); and a mandate is not revoked while an intent is claimed
  under it (`ClaimsAreBacked`). `RowChanges` lists all that may happen to a row in one step.
  `OneDebitRefines` is the simulation: live are the intents that wait or are claimed, and every
  step makes one debit of one live intent, or none.
- **Refunds**: `Typed /\ Knowledge`. Rows, events and answers tell the truth about the money; a row
  about to be asked for says `submitting`; a failed refund was never made or failed at Plaid. With
  two dispatchers a stale claim is replayed while its first worker still holds a refusal, hence the
  assumption. The run has one dispatcher, as the deployment does.
- **Refunds, the sum** (`Accounts`, on top of `Knowledge`). The sum `create_refund_intent` checks is
  not bounded at all times: the row of a refund that failed takes an older status back when an event
  is applied late, after its amount went to another. What is bounded is `Total(Spent)`, the refunds that count and are paid, on their way or not
  made yet. It grows only by a request that was admitted (`SpentGrows`), since a row whose refund
  was never made leaves `failed` or `cancelled` no more; and it has every live refund
  (`SpentCounts`), since neither a cancelled nor a failed row has one. `Total` is a fold over a set:
  that it is the number of cents of the refunds in it (`TotalIsCount`) needs no induction, for the
  number of cents satisfies the fold's recursion, and a smallest set on which two such functions
  differ does not exist. `RefundsAssumption` says that the refunds are finitely many.
- **Refunds, the simulation** (`BudgetRefines`, on the two invariants above). A step of the model
  moves one refund at most from its stage (`OneAtATime`), and only along a step of
  `RefundsWithinDebit` (`EveryStageMoves`). What the desk counts by the rows is at least what the
  abstract guard counts by the stages (`CountedIsRefunded`, `TotalMonotone`), so that the request it
  admits is one that fits. The hand-off before the payment is `MovesOnlyWhileSubmitting` again.
- **Submissions**: what the queue may pick up was not mailed (`OnlyUntouchedWait`), which a stale
  write could break. It does not, for two reasons the invariant records: what an approver read as
  approvable stays so while the batch is locked, since only approvals queue and the lock of a
  batch is held once (`ApproversSeeTruly`, `LockIsExclusive`); every other write, however old
  what it read, puts a row into a status the queue does not pick up (`SendsFirst`, `UnknownIsOver`,
  `RowsHaveBatches`). `QuietKeeps` disposes of all steps of the second kind at once.
  `OneMailRefines` is the simulation. The quiet steps subside (`QuietSubsides`); what is left is
  that an approval names packages that neither wait nor are under way and were not mailed, which is
  `ApproversSeeTruly`, and that a row once closed stays so (`ClosedStays`): a batch is prepared over
  rows that never existed, and those are open (`BlankRowsAreOpen`).
- **Booking**: who holds which operation; what a claim, a call in progress and a result about to be
  recorded know of their row; that what a provider took since an arming is recorded as sent or is still
  claimed. A worker's `mem` may be older than the row only for rows re-armed by a manual retry, whose
  workers are the exceptions of `NoOverlap`. `LedgerRefines` is the simulation: every action
  arms, disarms or sends one message of `OneSendPerArming`, or stutters.
- **Cancellation** (`CInv`, on top of the invariant of booking): a cancellation that a worker has
  taken up had no older operation left to run, and an ordinary one that ended does not come back to
  life (`BegunClosesOlder`); an operation younger than it reads the appointment when the
  appointment is cancelled already, so that it is skipped (`CallersSaw`, `CancelsAreTrue`); the
  only operation that keeps what it read is the booking's own, the first of all (`BookingIsFirst`).
  Both halves are about rows that commit in their order, as the property says. `Moves` is what every
  step does to the rows and to the workers, and the invariant is argued from it alone.
- **Outreach**: the types, what each session holds and knows (`SessionOK`: the locks taken at its
  stage, the addresses they cover, that what an approval read under its lock is the draft as it is, that
  the session about to hand off looked after it had the locks), and for manual drafts that one sender at
  most is under way (`OneSender`) and what SES took is told by the status (`MailOnce`). The stale
  instance of a scheduler's session does no harm to a manual draft, for the scan never selects it;
  it does to an automatic one ([section 7](#7-findings)). `OthersKeep` disposes of the sessions an
  action does not belong to.
- **Review** (`RInv`, on top of the invariant of outreach, and of every draft, manual or not):
  while a draft can still be edited each write that changes its text takes a new version
  (`Grows`), so the version an approval names is not ahead of the row and, when it is the row's,
  the text shown is the row's (`Bound`); what is read under the lock, claimed and handed over
  keeps that text (`ReadsBound`, `SendsBound`), for the rest of `dispatch_draft` works on the
  session's own instance. A stale scheduler cannot bring an old text back, because whatever it
  writes closes the draft.
- **Forms**: ids of rows are fresh (`Fresh`, since a row dropped by id must be the one that was read
  or a pushed one), a submit is alone on its form and knows a later text than any saved one
  (`Alone`), and a drain whose row was not pushed since it read the form knows the last text,
  unless a request is about to push it (`Reading`).

Only model-checked. Liveness, which is outside this prover: `ClaimsResolve`, `DebitsAreLinked`,
`ReturnsReopenTheFee`, `RefundsResolve`, `QueueMoves`, `OperationsEndOrWait`, `DueLeavesReview`,
`RowsAreReached`. Every safety invariant and action property of the passing runs is stated by a theorem.
`MovesOnlyWhileSubmitting` and `NoMailAfterRevocation` are theorems that no run repeats: the abstract
specifications `RefundsWithinDebit` and `OneMailPerPackage` contain them, and their refinement is run.
The assumption of one dispatcher is needed where it is made: for each of those properties TLC finds a
counterexample with two (for `AtMostOneDebit` with three authorizations: two workers find the first
one refused, one of them asks for the second, and the late failure of the other has the row ask
for a third).

## 7. Findings

Each is a run that ends in the behaviour named; the texts quoted are in `PROJECT.json`.

- `fee_stale_claim`: `claim_due_transfers` cancels a stale `submitting` row when readiness is gone,
  without asking Plaid; its debit goes on, and `cancelled` absorbs every event.
- `fee_replaced`: an ambiguous create returns the obligation to `authorized`; it is replaced, the new
  version is debited, and then the first debit shows up.
- `submission_undone`: a page that read a submission before it was sent marks it `package_stale` after.
- `outreach_twice`: the scheduler reads a due draft without a lock, waits for the locks of an
  approval, claims on what it had read, and both send the email.

## 8. Known limits

What the models do because the code does, and what the properties say of it by an exception, an
assumption or not at all. Each is a place to look at when the code is changed.

Fees and refunds:

- `record_transfer_submission` writes the status of a reply over a later status that the event sync
  already applied, and the event is consumed.
- After a return, a new mandate, date and notice are asked for, and the release is refused because
  the obligation once had a transfer.
- A second refund of the same amount and reason with its own key is answered with the first one's
  row, even if that one failed. A refund event that comes before `plaid_refund_id` is stored is
  never applied.
- With two dispatchers during a deployment and a Plaid that forgets the key, a worker that was taken
  over authorizes once more and `AtMostOneDebit` fails. The deployed process is single
  (`scheduler.py` says so in its header) and Plaid would have to forget within the race.

Submissions:

- A batch keeps its first approver while its rows are approved later, by others.
- `reconcile` loads the row without a lock and writes it when the request ends
  (`app/routers/submission_batches.py:202`); nothing slow lies between, and `Reconcile` is one action.
  A revocation that commits in between would be overwritten; so would a sending, if another
  reconciliation, an approval and the sending all fit in between, and the row could be mailed again.
- A package whose `deliver_one` raises anything but an `HTTPException` before its claim stays queued;
  ten of them starve the rest. The model has the HTTP outcomes only.

Booking:

- `NoOverlap` excepts manual retries and late rows, and both exceptions are needed. A person
  who asks again for a failed delivery while its worker is about to end re-arms the row; a second
  worker claims it, the first then writes it terminal, and a newer change no longer sees an older
  live operation, although `process_operation` says "Provider effects for one appointment must
  never overlap". A row whose transaction began before that of a committed one is older by
  `created_at` and is worked on after it.
- The email of a booking whose outcome is unknown leaves its confirmation pending; the PIN waits for
  it without the limit that other waits have (`booking_operations.py:1118`), and every later
  operation waits behind it, although the code relies on the older one to end: "the scheduler will
  retry the newer row after that operation reaches a terminal state" (line 1201). It is the
  exception `PinWaits` of `OperationsEndOrWait`.
- The worker of a create does not look for a cancellation again before each message. A change back
  and forth finds the completed row of the same key and sends nothing. A superseded manual
  retry is still answered "Delivery retry queued.".

Outreach:

- Undo restores the do-not-contact mark it had remembered over an unsubscription made since.
- The claim of a dispatch that is aborted at its second locks stays in `sending`; no request accepts
  that status. After the claim, do-not-contact and the classification are looked at in the instances
  loaded before it.
- An unsubscription from a copied address locks the address before the prospect; dispatch does the
  opposite. `deliver_email` never raises, so a refused email may have been taken.
- `dispatch_due_drafts` takes the 40 oldest due drafts and rolls back the one that raises: drafts that
  raise every time keep the rest back. `DueLeavesReview` is checked for one draft that can only be
  a deadlock's victim, and says nothing of this.

Forms (the four ways of `behind`):

- The upsert of the queue row fails, or the process ends between the save and it.
- A render, a put or a commit that fails is swallowed by `refresh_saved_form`, and the drain drops the
  row as if it had drawn, though its docstring has a failing row retried.
- An edit saved while the drain draws pushes the row that the end of the draw then deletes by its
  id, although `form_pdf_refresh.py` promises the render after the *last* edit.
- An older draw commits over a submit's document, or two that found no document create two and the
  readers see the one with the older figures.

## 9. Not modelled

In the modelled components: bank-direct receipts and partial collection; the content and delivery
of notices and proofs; webhook signatures; the reminders, texts' wording and wallboard of bookings;
how a draft of outreach is composed, the library of collateral, replies and bounces as messages; the
families of forms that the financial workspace manages; audit events and notifications. In the rest of the
system: rendering, provider I/O without a protocol of the code's own, arithmetic over Decimal,
request plumbing, access predicates, prompts. The scheduler appears as fairness.

The map covers a small share of the repository's lines, and would even with every protocol
modelled: most files are screens, schemas, document templates, prompts and one-off migrations
without an order of steps to get wrong.

## 10. Plan

Done: the six components of [section 1.1](#11-components-that-are-modelled) with their proofs.
What would come next, the most important behaviour first:

1. `PrivatePlan`: plan, installments and their materialization, on the dispatcher's intents; the
   composition of plan and dispatcher is the point of it.
2. Booking reminders: one commit for a loop of up to a hundred sends.
3. `OfferDelivery`, `ProductionSigning`, `PlaidItems`.
