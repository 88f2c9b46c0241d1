-------------------------- MODULE LenderSubmissions --------------------------
(***************************************************************************)
(* Packages one application sends to its lenders: prepared, approved,      *)
(* mailed by a queue, opened by the lender, refreshed when the file moves. *)
(*                                                                         *)
(*   app/services/submission_batches.py  prepare, approve, deliver, drain, *)
(*                                       refresh_pending_previews          *)
(*   app/routers/submission_batches.py   revoke, reconcile, public access  *)
(*                                                                         *)
(* A handler whose reads and writes are separated by the queries of        *)
(* source_state is two actions; its writes overwrite what happened since.  *)
(* A fingerprint stands for everything source_fingerprint hashes; ended    *)
(* says that revoked_at is set or expires_at has passed.                   *)
(*                                                                         *)
(* Assumed: a reconciliation tells the truth about the email, and sending  *)
(* ends long before the fifteen minutes that declare its worker dead.      *)
(***************************************************************************)
EXTENDS Integers, FiniteSets

CONSTANTS Lenders,       \* lenders the application may be sent to
          Underwriters,  \* users who may approve
          NoOne,         \* no user
          Prints,        \* fingerprints of the application's source state
          NoPrint,       \* of a row that does not exist
          MaxBatches,    \* bound: batches prepared
          MaxApprovals,  \* bound: approvals of one submission
          MaxRequests    \* bound: requests open at once, the refresh among them

ASSUME SubmissionAssumption ==
    /\ Lenders # {}
    /\ MaxBatches \in Nat \ {0} /\ MaxApprovals \in Nat /\ MaxRequests \in Nat
    /\ NoOne \notin Underwriters /\ NoPrint \notin Prints

Batches == 1 .. MaxBatches

\* One row of lender_submissions: a batch has one per lender.
Submissions == Batches \X Lenders

VARIABLES batch,       \* submission_batches
          sub,         \* lender_submissions
          approvals,   \* "queued" events of each submission
          attempts,    \* attempt_count
          source,      \* fingerprint of the application now
          active,      \* underwriters with an active account
          approval,    \* requests in approve_batch, one per underwriter
          reader,      \* a request in read_batch
          refresher,   \* the job in refresh_pending_previews
          visitor,     \* a lender's request to the public link
          delivery,    \* deliver_one of each submission
          emails       \* emails the provider accepted

rowVars     == <<batch, sub, approvals>>
requestVars == <<approval, reader, refresher, visitor>>
mailVars    == <<attempts, delivery, emails>>
worldVars   == <<source, active>>
vars        == <<rowVars, requestVars, mailVars, worldVars>>

-----------------------------------------------------------------------------
SENT == {"sent", "delivered", "viewed", "downloaded"}

Statuses == SENT \cup
    {"none", "prepared", "queued", "sending", "failed", "delivery_unknown",
     "package_stale", "superseded", "revoked"}

BatchStatuses ==
    {"none", "prepared", "queued", "sent", "partial_success", "failed", "revoked",
     "superseded"}

Rows == [Lenders -> Statuses]

NoRow     == [status |-> "none", print |-> NoPrint,
              ended |-> FALSE]
NoBatch   == [status |-> "none", approver |-> NoOne]
NoRows    == [l \in Lenders |-> "none"]
NoRequest == [pc |-> "idle", batch |-> 1, seen |-> NoRows]
NoApproval ==
    [pc |-> "idle", batch |-> 1, seen |-> NoRows, approver |-> NoOne, ids |-> {}]
NoVisit   == [pc |-> "idle", sub |-> CHOOSE s \in Submissions : TRUE]

TypeOK ==
    /\ batch \in [Batches -> [status: BatchStatuses, approver: Underwriters \cup {NoOne}]]
    /\ sub \in [Submissions ->
          [status: Statuses, print: Prints \cup {NoPrint}, ended: BOOLEAN]]
    /\ approvals \in [Submissions -> 0 .. MaxApprovals]
    /\ attempts \in [Submissions -> Nat]
    /\ source \in Prints
    /\ active \subseteq Underwriters
    /\ approval \in [Underwriters ->
          [pc: {"idle", "loaded", "locked"}, batch: Batches, seen: Rows,
           approver: Underwriters \cup {NoOne}, ids: SUBSET Lenders]]
    /\ reader \in [pc: {"idle", "read"}, batch: Batches, seen: Rows]
    /\ refresher \in [pc: {"idle", "read"}, batch: Batches, seen: Rows]
    /\ visitor \in [pc: {"idle", "view", "download"}, sub: Submissions]
    /\ delivery \in [Submissions -> {"none", "send", "ok", "refused", "unknown"}]
    /\ emails \in [Submissions -> Nat]

Init ==
    /\ batch = [b \in Batches |-> NoBatch]
    /\ sub = [s \in Submissions |-> NoRow]
    /\ approvals = [s \in Submissions |-> 0]
    /\ attempts = [s \in Submissions |-> 0]
    /\ source \in Prints
    /\ active = Underwriters
    /\ approval = [u \in Underwriters |-> NoApproval]
    /\ reader = NoRequest
    /\ refresher = NoRequest
    /\ visitor = NoVisit
    /\ delivery = [s \in Submissions |-> "none"]
    /\ emails = [s \in Submissions |-> 0]

-----------------------------------------------------------------------------
\* The bound on open requests.
Free ==
    Cardinality({u \in Underwriters : approval[u].pc # "idle"})
      + Cardinality({r \in {<<1, reader.pc>>, <<2, refresher.pc>>, <<3, visitor.pc>>} :
                        r[2] # "idle"}) < MaxRequests

Exists(b) == batch[b].status # "none"

\* The batch created last.
Newest(b) == Exists(b) /\ \A c \in Batches : c > b => ~Exists(c)

StatusesOf(b) == [l \in Lenders |-> sub[<<b, l>>].status]

\* batch.status as read_batch derives it from the rows it holds.
Derived(statuses, old) ==
    LET of == {statuses[l] : l \in Lenders} \ {"none"}
    IN  CASE of # {} /\ of \subseteq SENT -> "sent"
          [] of \cap SENT # {} /\ of \cap {"failed", "delivery_unknown", "package_stale"} # {}
               -> "partial_success"
          [] of \cap {"queued", "sending"} # {} -> "queued"
          [] of \cap {"failed", "delivery_unknown"} # {} -> "failed"
          [] of = {"revoked"} -> "revoked"
          [] OTHER -> old

\* The sub's rows of batch b for lenders in L get a status; all else is kept.
Written(b, L, status) ==
    [s \in Submissions |->
        IF s[1] = b /\ s[2] \in L THEN [sub[s] EXCEPT !.status = status] ELSE sub[s]]

\* prepare_batch, under the lock of the profile: rows at the current fingerprint.
\* rows is what the same transaction has made of the older rows.
PrepareBatch(targets, batches, rows) ==
    \E b \in Batches :
        /\ ~Exists(b)
        /\ \A c \in Batches : c < b => Exists(c)
        /\ batch' = [batches EXCEPT ![b].status = "prepared"]
        /\ sub' = [s \in Submissions |->
              IF s[1] = b /\ s[2] \in targets
              THEN [NoRow EXCEPT !.status = "prepared", !.print = source]
              ELSE rows[s]]

Prepare ==
    /\ \E targets \in SUBSET Lenders \ {{}} : PrepareBatch(targets, batch, sub)
    /\ UNCHANGED <<approvals, requestVars, mailVars, worldVars>>

-----------------------------------------------------------------------------
\* approve_batch: the batch is loaded, then its row is locked and the
\* submissions are read, then everything is written and committed.
Load(u) ==
    /\ u \in active
    /\ approval[u].pc = "idle" /\ Free
    /\ \E b \in Batches, ids \in SUBSET Lenders \ {{}} :
          /\ Exists(b)
          /\ approval' = [approval EXCEPT ![u] =
                [NoApproval EXCEPT !.pc = "loaded", !.batch = b, !.ids = ids,
                                   !.approver = batch[b].approver]]
    /\ UNCHANGED <<rowVars, reader, refresher, visitor, mailVars, worldVars>>

Lock(u) ==
    /\ approval[u].pc = "loaded"
    /\ LET b == approval[u].batch
       IN  /\ \A v \in Underwriters : ~(approval[v].pc = "locked" /\ approval[v].batch = b)
           /\ approval' = [approval EXCEPT ![u] =
                 [approval[u] EXCEPT !.pc = "locked", !.seen = StatusesOf(b),
                    !.ids = {l \in approval[u].ids : ~sub[<<b, l>>].ended}]]
    /\ UNCHANGED <<rowVars, reader, refresher, visitor, mailVars, worldVars>>

Approvable(status) == status \in {"prepared", "failed"}

Approve(u) ==
    /\ approval[u].pc = "locked"
    /\ LET b       == approval[u].batch
           mine    == {l \in approval[u].ids : Approvable(approval[u].seen[l])}
           stale   == {l \in mine : sub[<<b, l>>].print # source}
       IN  \E ready \in SUBSET (mine \ stale) :  \* the others have blockers
              LET seen == [l \in Lenders |->
                             IF l \in stale THEN "package_stale"
                             ELSE IF l \in ready THEN "queued" ELSE approval[u].seen[l]]
                  queued == {b} \X ready
              IN  /\ \A s \in queued : approvals[s] < MaxApprovals
                  /\ sub' = [s \in Submissions |->
                        IF s[1] = b /\ s[2] \in stale \cup ready
                        THEN [sub[s] EXCEPT !.status = seen[s[2]]] ELSE sub[s]]
                  /\ approvals' = [s \in Submissions |->
                        IF s \in queued THEN approvals[s] + 1 ELSE approvals[s]]
                  /\ batch' = [batch EXCEPT ![b] =
                        [status |-> Derived(seen, @.status),
                         approver |-> IF approval[u].approver = NoOne
                                      THEN u ELSE batch[b].approver]]
    /\ approval' = [approval EXCEPT ![u] = NoApproval]
    /\ UNCHANGED <<reader, refresher, visitor, mailVars, worldVars>>

-----------------------------------------------------------------------------
\* read_batch(refresh=True): the rows, then the source, then the writes.
ReadBatch ==
    /\ reader.pc = "idle" /\ Free
    /\ \E b \in Batches :
          /\ Exists(b)
          /\ reader' = [pc |-> "read", batch |-> b, seen |-> StatusesOf(b)]
    /\ UNCHANGED <<rowVars, approval, refresher, visitor, mailVars, worldVars>>

MarkStale ==
    /\ reader.pc = "read"
    /\ LET b     == reader.batch
           stale == {l \in Lenders : /\ reader.seen[l] \in {"prepared", "failed"}
                                     /\ sub[<<b, l>>].print # source}
           seen  == [l \in Lenders |->
                       IF l \in stale THEN "package_stale" ELSE reader.seen[l]]
       IN  /\ sub' = Written(b, stale, "package_stale")
           /\ batch' = [batch EXCEPT ![b].status = Derived(seen, @)]
    /\ reader' = NoRequest
    /\ UNCHANGED <<approvals, approval, refresher, visitor, mailVars, worldVars>>

\* refresh_pending_previews, for the newest batch of the application.
Refreshable(status) == status \in {"prepared", "package_stale", "failed"}

ReadPending ==
    /\ refresher.pc = "idle" /\ Free
    /\ \E b \in Batches :
          /\ Newest(b)
          /\ batch[b].status \in {"prepared", "partial_success", "failed"}
          /\ \E l \in Lenders : Refreshable(sub[<<b, l>>].status)
          /\ refresher' = [pc |-> "read", batch |-> b, seen |-> StatusesOf(b)]
    /\ UNCHANGED <<rowVars, approval, reader, visitor, mailVars, worldVars>>

Refresh ==
    /\ refresher.pc = "read"
    /\ LET b    == refresher.batch
           rows == {l \in Lenders : Refreshable(refresher.seen[l])}
           all  == {l \in Lenders : refresher.seen[l] # "none"}
       IN  \/ UNCHANGED <<batch, sub>>  \* nothing is stale, or prepare_batch refuses
           \/ /\ \E l \in rows : sub[<<b, l>>].print # source
              /\ PrepareBatch(rows,
                    IF rows = all THEN [batch EXCEPT ![b].status = "superseded"] ELSE batch,
                    Written(b, rows, "superseded"))
    /\ refresher' = NoRequest
    /\ UNCHANGED <<approvals, approval, reader, visitor, mailVars, worldVars>>

-----------------------------------------------------------------------------
Settle(s, status) == sub' = [sub EXCEPT ![s].status = status]

\* Mutant of Standing: the status alone is trusted.
Standing_StatusOnly(s) == batch[s[1]].approver \in active

\* The checks of deliver_one that end in 403 or 410 when they fail.
Standing(s) ==
    /\ batch[s[1]].approver \in active
    /\ ~sub[s].ended

\* deliver_one under the row's lock, up to the commit before provider I/O.  The
\* lender's own record and the blockers are not modelled: they may fail any time.
Claim(s) ==
    /\ sub[s].status = "queued"
    /\ delivery[s] = "none"
    /\ \/ /\ Settle(s, "failed")
          /\ UNCHANGED mailVars
       \/ /\ Standing(s)
          /\ Settle(s, "package_stale")
          /\ UNCHANGED mailVars
       \/ /\ Standing(s)
          /\ sub[s].print = source
          /\ Settle(s, "sending")
          /\ attempts' = [attempts EXCEPT ![s] = @ + 1]
          /\ delivery' = [delivery EXCEPT ![s] = "send"]
          /\ UNCHANGED emails
    /\ UNCHANGED <<batch, approvals, requestVars, worldVars>>

\* send_as_user: accepted, certainly refused, or an outcome nobody knows.
Send(s) ==
    /\ delivery[s] = "send"
    /\ \/ /\ emails' = [emails EXCEPT ![s] = @ + 1]
          /\ delivery' = [delivery EXCEPT ![s] = "ok"]
       \/ /\ delivery' = [delivery EXCEPT ![s] = "refused"]
          /\ UNCHANGED emails
       \/ /\ emails' \in {emails, [emails EXCEPT ![s] = @ + 1]}
          /\ delivery' = [delivery EXCEPT ![s] = "unknown"]
    /\ UNCHANGED <<rowVars, attempts, requestVars, worldVars>>

\* Mutant of Outcome: whatever was not accepted has failed.
Outcome_Failed(result) == IF result = "ok" THEN "sent" ELSE "failed"

Outcome(result) ==
    CASE result = "ok"      -> "sent"
      [] result = "refused" -> "failed"
      [] result = "unknown" -> "delivery_unknown"

RecordResult(s) ==
    /\ delivery[s] \in {"ok", "refused", "unknown"}
    /\ Settle(s, Outcome(delivery[s]))
    /\ delivery' = [delivery EXCEPT ![s] = "none"]
    /\ UNCHANGED <<batch, approvals, attempts, emails, requestVars, worldVars>>

\* Mutant of Sweep: the interrupted delivery goes back to the queue.
Sweep_Requeue(s) ==
    /\ sub[s].status = "sending"
    /\ delivery[s] = "none"
    /\ Settle(s, "queued")
    /\ UNCHANGED <<batch, approvals, requestVars, mailVars, worldVars>>

\* Mutant of Sweep: it looks at the deliveries already known to be unknown.
Sweep_Unknown(s) ==
    /\ sub[s].status = "delivery_unknown"
    /\ delivery[s] = "none"
    /\ Settle(s, "delivery_unknown")
    /\ UNCHANGED <<batch, approvals, requestVars, mailVars, worldVars>>

\* drain_delivery_queue: fifteen minutes in "sending", its worker is gone.
Sweep(s) ==
    /\ sub[s].status = "sending"
    /\ delivery[s] = "none"
    /\ Settle(s, "delivery_unknown")
    /\ UNCHANGED <<batch, approvals, requestVars, mailVars, worldVars>>

-----------------------------------------------------------------------------
\* Mutant of Revoke: a status no code knows.
Revoke_Cancelled(s) ==
    /\ sub[s].status # "none"
    /\ sub' = [sub EXCEPT ![s] = [@ EXCEPT !.status = "cancelled", !.ended = TRUE]]
    /\ UNCHANGED <<batch, approvals, requestVars, mailVars, worldVars>>

\* revoke, whatever the status.
Revoke(s) ==
    /\ sub[s].status # "none"
    /\ sub' = [sub EXCEPT ![s] = [@ EXCEPT !.status = "revoked", !.ended = TRUE]]
    /\ UNCHANGED <<batch, approvals, requestVars, mailVars, worldVars>>

\* reconcile, by an underwriter who knows what became of the email.
Reconcile(s) ==
    /\ \/ /\ sub[s].status \in SENT \cup {"delivery_unknown"}
          /\ emails[s] > 0
          /\ IF sub[s].status \in {"viewed", "downloaded"}
             THEN UNCHANGED sub ELSE Settle(s, "delivered")
       \/ /\ sub[s].status = "delivery_unknown"
          /\ emails[s] = 0
          /\ Settle(s, "failed")
    /\ UNCHANGED <<batch, approvals, requestVars, mailVars, worldVars>>

\* public_submission: who holds the mailed link may open a current package.
Openable(s) ==
    /\ emails[s] > 0
    /\ sub[s].status \in SENT
    /\ ~sub[s].ended

Open(s) ==
    /\ visitor.pc = "idle" /\ Free
    /\ Openable(s)
    /\ \/ sub[s].status \notin {"viewed", "downloaded"} /\ visitor' = [pc |-> "view", sub |-> s]
       \/ visitor' = [pc |-> "download", sub |-> s]
    /\ UNCHANGED <<rowVars, approval, reader, refresher, mailVars, worldVars>>

\* The fingerprint is compared and the access recorded.
Access ==
    /\ visitor.pc # "idle"
    /\ LET s == visitor.sub
       IN  \/ /\ sub[s].print = source
              /\ Settle(s, IF visitor.pc = "view" THEN "viewed" ELSE "downloaded")
           \/ /\ sub[s].print # source
              /\ UNCHANGED sub
    /\ visitor' = NoVisit
    /\ UNCHANGED <<batch, approvals, approval, reader, refresher, mailVars, worldVars>>

-----------------------------------------------------------------------------
\* The borrower answers, staff edit, evidence is verified or replaced.
SourceChanges ==
    /\ source' \in Prints \ {source}
    /\ UNCHANGED <<rowVars, requestVars, mailVars, active>>

Expire(s) ==
    /\ sub[s].status # "none"
    /\ ~sub[s].ended
    /\ sub' = [sub EXCEPT ![s].ended = TRUE]
    /\ UNCHANGED <<batch, approvals, requestVars, mailVars, worldVars>>

AccountChanges(u) ==
    /\ active' = IF u \in active THEN active \ {u} ELSE active \cup {u}
    /\ UNCHANGED <<rowVars, requestVars, mailVars, source>>

\* The only process restarts: open transactions are rolled back.
Restart ==
    /\ \/ \E u \in Underwriters : approval[u].pc # "idle"
       \/ reader.pc # "idle" \/ refresher.pc # "idle" \/ visitor.pc # "idle"
       \/ \E s \in Submissions : delivery[s] # "none"
    /\ approval' = [u \in Underwriters |-> NoApproval]
    /\ reader' = NoRequest
    /\ refresher' = NoRequest
    /\ visitor' = NoVisit
    /\ delivery' = [s \in Submissions |-> "none"]
    /\ UNCHANGED <<rowVars, attempts, emails, worldVars>>

-----------------------------------------------------------------------------
Queue(s) == Claim(s) \/ Send(s) \/ RecordResult(s) \/ Sweep(s)

Next ==
    \/ Prepare \/ ReadBatch \/ MarkStale \/ ReadPending \/ Refresh \/ Access
    \/ SourceChanges \/ Restart
    \/ \E u \in Underwriters : Load(u) \/ Lock(u) \/ Approve(u) \/ AccountChanges(u)
    \/ \E s \in Submissions :
          Queue(s) \/ Revoke(s) \/ Reconcile(s) \/ Open(s) \/ Expire(s)

Spec == Init /\ [][Next]_vars

\* The queue is drained every thirty seconds.
FairSpec == Spec /\ \A s \in Submissions : WF_vars(Queue(s))

-----------------------------------------------------------------------------
\* Crashes, retries, stale writes and reconciliations notwithstanding, one
\* submission is mailed at most once ("Successful recipients are never resent").
AtMostOneEmail == \A s \in Submissions : emails[s] <= 1

\* Every attempt to send spends an approval of its own: no restart, sweep or
\* refresh sends again under an approval already used.
AttemptsWereApproved ==
    \A s \in Submissions :
        attempts[s] + (IF sub[s].status = "queued" THEN 1 ELSE 0) <= approvals[s]

\* A revoked or expired submission is never picked up for sending, not even when
\* an approval read it before the revocation and queued it afterwards.
NoMailAfterRevocation ==
    [][\A s \in Submissions :
          /\ sub[s].ended
          /\ delivery[s] = "none"
          => delivery'[s] = "none"]_vars

\* A submission waits while its row is queued, and is under way while a delivery
\* of it is, whatever the row says by then.
Waiting  == {s \in Submissions : sub[s].status = "queued"}
UnderWay == {s \in Submissions : delivery[s] # "none"}
Closed   == {s \in Submissions : sub[s].ended}

OneMail == INSTANCE OneMailPerPackage WITH
    Packages <- Submissions, queued <- Waiting, underway <- UnderWay,
    given <- approvals, mails <- emails, closed <- Closed

\* Approvals, stale writes, sweeps and restarts together do what one queue that
\* mails each approved package once would do.
ImplementsOneMail == OneMail!Spec

\* An approved submission leaves the queue, an interrupted delivery is noticed.
QueueMoves ==
    \A s \in Submissions :
        sub[s].status \in {"queued", "sending"} ~> sub[s].status \notin {"queued", "sending"}

\* docs/ARF_INTAKE_SUBMISSIONS.md: "Provider acceptance records `sent`",
\* "Successful recipients are never resent by batch retry": a recorded success
\* is not turned back into something a refresh prepares again.
SuccessIsNeverUndone ==
    [][\A s \in Submissions :
          sub[s].status \in SENT => sub'[s].status \in SENT \cup {"revoked"}]_vars
=============================================================================
