---------------------- MODULE LenderSubmissionsProofs ----------------------
(***************************************************************************)
(* For any lenders, underwriters, fingerprints and bounds: the types, that *)
(* every attempt to send spends an approval, that a submission is mailed   *)
(* at most once, that nothing revoked or expired is picked up, and that    *)
(* the pipeline implements OneMailPerPackage.                              *)
(***************************************************************************)
EXTENDS LenderSubmissions, TLAPS

-----------------------------------------------------------------------------
(* The inductive invariant.                                                *)

\* No delivery of s is under way and none has succeeded.
Untouched(s) == delivery[s] = "none" /\ emails[s] = 0

\* A row the queue may still pick up, or approve_batch put there, was not mailed.
OnlyUntouchedWait ==
    \A s \in Submissions :
        sub[s].status \in {"none", "prepared", "failed", "queued"} => Untouched(s)

\* A delivery that has not sent, or was refused, is that of an unmailed row.
SendsFirst ==
    \A s \in Submissions : delivery[s] \in {"send", "refused"} => emails[s] = 0

\* An outcome is called unknown when its delivery is over.
UnknownIsOver ==
    \A s \in Submissions : sub[s].status = "delivery_unknown" => delivery[s] = "none"

\* Rows belong to batches, and so do requests.
RowsHaveBatches ==
    \A s \in Submissions : sub[s].status # "none" => Exists(s[1])

RequestsHaveBatches ==
    /\ \A u \in Underwriters : approval[u].pc # "idle" => Exists(approval[u].batch)
    /\ reader.pc # "idle" => Exists(reader.batch)
    /\ refresher.pc # "idle" => Exists(refresher.batch)

\* The lock of a batch is held once.
LockIsExclusive ==
    \A u, v \in Underwriters :
        /\ approval[u].pc = "locked"
        /\ approval[v].pc = "locked"
        /\ approval[u].batch = approval[v].batch
        => u = v

\* What an approver read as approvable was not mailed, and nobody queued it since.
ApproversSeeTruly ==
    \A u \in Underwriters : approval[u].pc = "locked" =>
        \A l \in Lenders : Approvable(approval[u].seen[l]) =>
            /\ Untouched(<<approval[u].batch, l>>)
            /\ sub[<<approval[u].batch, l>>].status # "queued"

\* Only a lender who got the email visits.
VisitorsWereMailed == visitor.pc # "idle" => emails[visitor.sub] > 0

IInv ==
    /\ TypeOK
    /\ AttemptsWereApproved
    /\ AtMostOneEmail
    /\ OnlyUntouchedWait
    /\ SendsFirst
    /\ UnknownIsOver
    /\ RowsHaveBatches
    /\ RequestsHaveBatches
    /\ LockIsExclusive
    /\ ApproversSeeTruly
    /\ VisitorsWereMailed

-----------------------------------------------------------------------------
(* Types.                                                                  *)

RowType == [status: Statuses, print: Prints \cup {NoPrint}, ended: BOOLEAN]

BatchType == [status: BatchStatuses, approver: Underwriters \cup {NoOne}]

ApprovalType ==
    [pc: {"idle", "loaded", "locked"}, batch: Batches, seen: Rows,
     approver: Underwriters \cup {NoOne}, ids: SUBSET Lenders]

RequestType == [pc: {"idle", "read"}, batch: Batches, seen: Rows]

VisitType == [pc: {"idle", "view", "download"}, sub: Submissions]

\* TypeOK with its record sets named.
Typed ==
    /\ batch \in [Batches -> BatchType]
    /\ sub \in [Submissions -> RowType]
    /\ approvals \in [Submissions -> 0 .. MaxApprovals]
    /\ attempts \in [Submissions -> Nat]
    /\ source \in Prints
    /\ active \subseteq Underwriters
    /\ approval \in [Underwriters -> ApprovalType]
    /\ reader \in RequestType
    /\ refresher \in RequestType
    /\ visitor \in VisitType
    /\ delivery \in [Submissions -> {"none", "send", "ok", "refused", "unknown"}]
    /\ emails \in [Submissions -> Nat]

\* The two say the same.
LEMMA SameTypes == (TypeOK <=> Typed) /\ (TypeOK' <=> Typed')
  BY DEF TypeOK, Typed, BatchType, RowType, ApprovalType, RequestType, VisitType

\* The blank values are well-typed.
LEMMA BlankTypes ==
    /\ NoRow \in RowType
    /\ NoBatch \in BatchType
    /\ NoRows \in Rows
    /\ NoRequest \in RequestType
    /\ NoApproval \in ApprovalType
    /\ NoVisit \in VisitType
<1>1. NoRow \in RowType /\ NoBatch \in BatchType /\ NoRows \in Rows
  BY DEF NoRow, RowType, NoBatch, BatchType, NoRows, Rows, Statuses, BatchStatuses
<1>2. 1 \in Batches
  BY SubmissionAssumption DEF Batches
<1>3. NoRequest \in RequestType /\ NoApproval \in ApprovalType
  BY <1>1, <1>2 DEF NoRequest, RequestType, NoApproval, ApprovalType
<1>4. \E s : s \in Submissions
  <2>1. PICK l \in Lenders : TRUE
    BY SubmissionAssumption
  <2>2. <<1, l>> \in Submissions
    BY <1>2, <2>1 DEF Submissions
  <2> QED
    BY <2>2
<1>5. NoVisit \in VisitType
  BY <1>4 DEF NoVisit, VisitType
<1> QED
  BY <1>1, <1>3, <1>5

\* The derived status of a batch is one, and a batch does not stop existing.
LEMMA DerivedType ==
    ASSUME NEW statuses, NEW old \in BatchStatuses
    PROVE  /\ Derived(statuses, old) \in BatchStatuses
           /\ old # "none" => Derived(statuses, old) # "none"
  BY DEF Derived, BatchStatuses

\* A submission is a batch and a lender.
LEMMA Pairs ==
    /\ \A s \in Submissions : s[1] \in Batches /\ s[2] \in Lenders /\ s = <<s[1], s[2]>>
    /\ \A b \in Batches, l \in Lenders : <<b, l>> \in Submissions
  BY DEF Submissions

\* The initial states are typed.
LEMMA InitType == Init => TypeOK
  BY BlankTypes, SubmissionAssumption
     DEF Init, TypeOK, RowType, BatchType, ApprovalType, RequestType, VisitType

\* What a request sees of a batch is a row of statuses.
LEMMA StatusesOfType ==
    ASSUME TypeOK, NEW b \in Batches
    PROVE  StatusesOf(b) \in Rows
  BY Pairs DEF TypeOK, StatusesOf, Rows

\* Writing a status to some rows keeps them rows.
LEMMA WrittenType ==
    ASSUME sub \in [Submissions -> RowType], NEW b, NEW L, NEW status \in Statuses
    PROVE  Written(b, L, status) \in [Submissions -> RowType]
  BY DEF Written, RowType

\* So does settling one row.
LEMMA SettleType ==
    ASSUME sub \in [Submissions -> RowType], NEW s \in Submissions,
           NEW status \in Statuses, Settle(s, status)
    PROVE  sub' \in [Submissions -> RowType]
  BY DEF Settle, RowType
\* A prepared batch and its rows are typed.
LEMMA PrepareType ==
    ASSUME TypeOK, NEW targets, NEW B \in [Batches -> BatchType],
           NEW R \in [Submissions -> RowType], PrepareBatch(targets, B, R)
    PROVE  /\ batch' \in [Batches -> BatchType]
           /\ sub' \in [Submissions -> RowType]
<1>1. PICK b \in Batches :
        /\ batch' = [B EXCEPT ![b].status = "prepared"]
        /\ sub' = [s \in Submissions |->
              IF s[1] = b /\ s[2] \in targets
              THEN [NoRow EXCEPT !.status = "prepared", !.print = source]
              ELSE R[s]]
  BY DEF PrepareBatch
<1>2. [B[b] EXCEPT !.status = "prepared"] \in BatchType
  BY DEF BatchType, BatchStatuses
<1>3. batch' \in [Batches -> BatchType]
  BY <1>1, <1>2
<1>4. [NoRow EXCEPT !.status = "prepared", !.print = source] \in RowType
  BY DEF NoRow, RowType, Statuses, TypeOK
<1> QED
  BY <1>1, <1>3, <1>4

\* What an approval does to the rows: those ready are queued and counted, those
\* whose source moved are marked stale.
Approves(u, ready, stale) ==
    LET b == approval[u].batch
    IN  /\ \A l \in ready \cup stale : Approvable(approval[u].seen[l])
        /\ \A s \in Submissions :
              sub'[s] = IF s[1] = b /\ s[2] \in ready
                        THEN [sub[s] EXCEPT !.status = "queued"]
                        ELSE IF s[1] = b /\ s[2] \in stale
                        THEN [sub[s] EXCEPT !.status = "package_stale"]
                        ELSE sub[s]
        /\ \A s \in Submissions :
              approvals'[s] = IF s[1] = b /\ s[2] \in ready
                              THEN approvals[s] + 1 ELSE approvals[s]

\* The effects of approve_batch in those terms.
LEMMA ApproveEffects ==
    ASSUME TypeOK, NEW u \in Underwriters, Approve(u)
    PROVE  /\ batch' \in [Batches -> BatchType]
           /\ \A c \in Batches : Exists(c) => Exists(c)'
           /\ sub' \in [Submissions -> RowType]
           /\ approvals' \in [Submissions -> 0 .. MaxApprovals]
           /\ \E ready, stale \in SUBSET Lenders : Approves(u, ready, stale)
<1>0. Typed
  BY SameTypes
<1> USE DEF Typed
<1> DEFINE b == approval[u].batch
           mine == {l \in approval[u].ids : Approvable(approval[u].seen[l])}
           stale == {l \in mine : sub[<<b, l>>].print # source}
           seen(ready) == [l \in Lenders |->
                             IF l \in stale THEN "package_stale"
                             ELSE IF l \in ready THEN "queued" ELSE approval[u].seen[l]]
           queued(ready) == {b} \X ready
<1>1. PICK ready \in SUBSET (mine \ stale) :
        /\ \A s \in queued(ready) : approvals[s] < MaxApprovals
        /\ sub' = [s \in Submissions |->
              IF s[1] = b /\ s[2] \in stale \cup ready
              THEN [sub[s] EXCEPT !.status = seen(ready)[s[2]]] ELSE sub[s]]
        /\ approvals' = [s \in Submissions |->
              IF s \in queued(ready) THEN approvals[s] + 1 ELSE approvals[s]]
        /\ batch' = [batch EXCEPT ![b] =
              [status |-> Derived(seen(ready), batch[b].status),
               approver |-> IF approval[u].approver = NoOne
                            THEN u ELSE batch[b].approver]]
  BY Zenon DEF Approve
<1>2. approval[u] \in ApprovalType
  BY <1>0
<1>3. mine \subseteq Lenders /\ stale \subseteq Lenders /\ ready \subseteq Lenders
  BY <1>1, <1>2 DEF ApprovalType
<1>4. \A s \in Submissions : s \in queued(ready) <=> s[1] = b /\ s[2] \in ready
  BY <1>3, Pairs DEF Submissions
<1>5. \A l \in Lenders : /\ l \in ready => seen(ready)[l] = "queued"
                         /\ l \in stale => seen(ready)[l] = "package_stale"
  BY <1>1
<1>6. batch' \in [Batches -> BatchType] /\ \A c \in Batches : Exists(c) => Exists(c)'
  <2> DEFINE d == Derived(seen(ready), batch[b].status)
  <2>1. batch[b].status \in BatchStatuses /\ b \in Batches
    BY <1>0, <1>2 DEF ApprovalType, BatchType
  <2>2. d \in BatchStatuses /\ (batch[b].status # "none" => d # "none")
    BY <2>1, DerivedType
  <2>3. \E a \in Underwriters \cup {NoOne} : batch' = [batch EXCEPT ![b] =
              [status |-> d, approver |-> a]]
    BY <1>1, <1>0, <2>1 DEF BatchType
  <2> HIDE DEF d
  <2> QED
    BY <2>1, <2>2, <2>3, <1>0 DEF BatchType, Exists
<1>7. \A s \in Submissions :
        sub'[s] = IF s[1] = b /\ s[2] \in ready
                  THEN [sub[s] EXCEPT !.status = "queued"]
                  ELSE IF s[1] = b /\ s[2] \in stale
                  THEN [sub[s] EXCEPT !.status = "package_stale"]
                  ELSE sub[s]
  <2> HIDE DEF seen, stale, mine
  <2> QED
    BY <1>1, <1>3, <1>5
<1>8. sub' \in [Submissions -> RowType]
  <2>1. \A s \in Submissions : /\ [sub[s] EXCEPT !.status = "queued"] \in RowType
                               /\ [sub[s] EXCEPT !.status = "package_stale"] \in RowType
    BY <1>0 DEF RowType, Statuses
  <2>2. sub' = [s \in Submissions |-> sub'[s]]
    BY <1>1
  <2> HIDE DEF stale, mine, b
  <2>3. \A s \in Submissions : sub'[s] \in RowType
    BY <1>7, <2>1, <1>0
  <2> QED
    BY <2>2, <2>3
<1>9. approvals' \in [Submissions -> 0 .. MaxApprovals]
  <2>1. \A s \in Submissions : s \in queued(ready) => approvals[s] + 1 \in 0 .. MaxApprovals
    BY <1>1, <1>0, SubmissionAssumption
  <2> HIDE DEF queued
  <2> QED
    BY <2>1, <1>1, <1>0
<1>10. \A s \in Submissions :
        approvals'[s] = IF s[1] = b /\ s[2] \in ready
                        THEN approvals[s] + 1 ELSE approvals[s]
  BY <1>1, <1>4
<1>11. \A l \in ready \cup stale : Approvable(approval[u].seen[l])
  BY <1>1
<1>12. Approves(u, ready, stale)
  BY <1>7, <1>10, <1>11 DEF Approves
<1> QED
  BY <1>6, <1>8, <1>9, <1>12, <1>3

\* Approving keeps the types.
LEMMA ApproveType ==
    ASSUME TypeOK, NEW u \in Underwriters, Approve(u)
    PROVE  Typed'
<1>0. Typed
  BY SameTypes
<1>1. approval' = [approval EXCEPT ![u] = NoApproval]
  BY Zenon DEF Approve
<1>2. UNCHANGED <<reader, refresher, visitor, mailVars, worldVars>>
  BY Zenon DEF Approve
<1> QED
  BY <1>0, <1>1, <1>2, ApproveEffects, BlankTypes DEF Typed, mailVars, worldVars

\* Every step keeps the types.
LEMMA NextType == TypeOK /\ [Next]_vars => TypeOK'
<1> SUFFICES ASSUME TypeOK, [Next]_vars PROVE Typed'
  BY SameTypes
<1>0. Typed
  BY SameTypes
<1> USE DEF Typed, rowVars, requestVars, mailVars, worldVars
<1>1. CASE Prepare
  BY <1>0, <1>1, PrepareType DEF Prepare
<1>2. CASE ReadBatch
  BY <1>0, <1>2, StatusesOfType DEF ReadBatch, RequestType
<1>3. CASE MarkStale
  <2> DEFINE b == reader.batch
             stale == {l \in Lenders : /\ reader.seen[l] \in {"prepared", "failed"}
                                       /\ sub[<<b, l>>].print # source}
             seen == [l \in Lenders |->
                        IF l \in stale THEN "package_stale" ELSE reader.seen[l]]
  <2>1. /\ sub' = Written(b, stale, "package_stale")
        /\ batch' = [batch EXCEPT ![b].status = Derived(seen, batch[b].status)]
    BY <1>3, <1>0 DEF MarkStale, RequestType
  <2>2. sub' \in [Submissions -> RowType]
    BY <2>1, <1>0, WrittenType DEF Statuses
  <2>3. Derived(seen, batch[b].status) \in BatchStatuses
    BY <1>0, DerivedType DEF BatchType, RequestType
  <2> HIDE DEF seen
  <2>4. [batch[b] EXCEPT !.status = Derived(seen, batch[b].status)] \in BatchType
    BY <2>3, <1>0 DEF BatchType, RequestType
  <2>5. batch' \in [Batches -> BatchType]
    BY <2>1, <2>4, <1>0
  <2> QED
    BY <2>2, <2>5, <1>0, <1>3, BlankTypes DEF MarkStale
<1>4. CASE ReadPending
  BY <1>0, <1>4, StatusesOfType DEF ReadPending, RequestType
<1>5. CASE Refresh
  <2> DEFINE b == refresher.batch
             rows == {l \in Lenders : Refreshable(refresher.seen[l])}
             all == {l \in Lenders : refresher.seen[l] # "none"}
             B == IF rows = all THEN [batch EXCEPT ![b].status = "superseded"] ELSE batch
             R == Written(b, rows, "superseded")
  <2>1. B \in [Batches -> BatchType]
    BY <1>0 DEF BatchType, RequestType, BatchStatuses
  <2>2. R \in [Submissions -> RowType]
    BY <1>0, WrittenType DEF Statuses
  <2>3. UNCHANGED <<batch, sub>> \/ PrepareBatch(rows, B, R)
    BY <1>5 DEF Refresh
  <2> HIDE DEF b, rows, all, B, R
  <2>4. batch' \in [Batches -> BatchType] /\ sub' \in [Submissions -> RowType]
    BY <2>1, <2>2, <2>3, <1>0, PrepareType
  <2> QED
    BY <2>4, <1>0, <1>5, BlankTypes DEF Refresh
<1>6. CASE Access
  <2>1. sub' \in [Submissions -> RowType]
    BY <1>0, <1>6, SettleType DEF Access, VisitType, Statuses, SENT
  <2> QED
    BY <2>1, <1>0, <1>6, BlankTypes DEF Access
<1>7. CASE SourceChanges
  BY <1>0, <1>7 DEF SourceChanges
<1>8. CASE Restart
  BY <1>0, <1>8, BlankTypes DEF Restart
<1>9. ASSUME NEW u \in Underwriters, Load(u)
      PROVE Typed'
  <2>1. PICK b \in Batches, ids \in SUBSET Lenders :
          approval' = [approval EXCEPT ![u] =
                [NoApproval EXCEPT !.pc = "loaded", !.batch = b, !.ids = ids,
                                   !.approver = batch[b].approver]]
    BY <1>9 DEF Load
  <2>2. [NoApproval EXCEPT !.pc = "loaded", !.batch = b, !.ids = ids,
                           !.approver = batch[b].approver] \in ApprovalType
    BY <1>0, BlankTypes DEF NoApproval, ApprovalType, BatchType
  <2> QED
    BY <2>1, <2>2, <1>0, <1>9 DEF Load
<1>10. ASSUME NEW u \in Underwriters, Lock(u)
       PROVE Typed'
  <2> DEFINE b == approval[u].batch
             free == {l \in approval[u].ids : ~sub[<<b, l>>].ended}
             new == [approval[u] EXCEPT !.pc = "locked", !.seen = StatusesOf(b),
                                        !.ids = free]
  <2>1. approval' = [approval EXCEPT ![u] = new]
    BY <1>10, Zenon DEF Lock
  <2>2. approval[u] \in ApprovalType
    BY <1>0
  <2>3. free \in SUBSET Lenders
    BY <2>2 DEF ApprovalType
  <2>4. StatusesOf(b) \in Rows
    BY <2>2, StatusesOfType DEF ApprovalType
  <2> HIDE DEF b, free
  <2>5. new \in ApprovalType
    BY <2>2, <2>3, <2>4 DEF ApprovalType
  <2> HIDE DEF new
  <2> QED
    BY <2>1, <2>5, <1>0, <1>10 DEF Lock
<1>11. ASSUME NEW u \in Underwriters, Approve(u)
       PROVE Typed'
  BY <1>11, ApproveType, SameTypes
<1>12. ASSUME NEW u \in Underwriters, AccountChanges(u)
       PROVE Typed'
  BY <1>0, <1>12 DEF AccountChanges
<1>13. ASSUME NEW s \in Submissions, Claim(s)
       PROVE Typed'
  <2>1. sub' \in [Submissions -> RowType]
    BY <1>0, <1>13, SettleType DEF Claim, Statuses
  <2>2. attempts' \in [Submissions -> Nat]
    BY <1>0, <1>13 DEF Claim
  <2>3. delivery' \in [Submissions -> {"none", "send", "ok", "refused", "unknown"}]
    BY <1>0, <1>13 DEF Claim
  <2> QED
    BY <2>1, <2>2, <2>3, <1>0, <1>13 DEF Claim
<1>14. ASSUME NEW s \in Submissions, Send(s)
       PROVE Typed'
  BY <1>0, <1>14 DEF Send
<1>15. ASSUME NEW s \in Submissions, RecordResult(s)
       PROVE Typed'
  <2>1. Outcome(delivery[s]) \in Statuses
    BY <1>15 DEF RecordResult, Outcome, Statuses, SENT
  <2>2. sub' \in [Submissions -> RowType]
    BY <2>1, <1>0, <1>15, SettleType DEF RecordResult
  <2> QED
    BY <2>2, <1>0, <1>15 DEF RecordResult
<1>16. ASSUME NEW s \in Submissions, Sweep(s) \/ Reconcile(s)
       PROVE Typed'
  <2>1. sub' \in [Submissions -> RowType]
    BY <1>0, <1>16, SettleType DEF Sweep, Reconcile, Statuses, SENT
  <2> QED
    BY <2>1, <1>0, <1>16 DEF Sweep, Reconcile
<1>17. ASSUME NEW s \in Submissions, Revoke(s) \/ Expire(s)
       PROVE Typed'
  <2>1. /\ [sub[s] EXCEPT !.status = "revoked", !.ended = TRUE] \in RowType
        /\ [sub[s] EXCEPT !.ended = TRUE] \in RowType
    BY <1>0 DEF RowType, Statuses
  <2>2. \/ sub' = [sub EXCEPT ![s] = [sub[s] EXCEPT !.status = "revoked", !.ended = TRUE]]
        \/ sub' = [sub EXCEPT ![s] = [sub[s] EXCEPT !.ended = TRUE]]
    BY <1>0, <1>17 DEF Revoke, Expire
  <2>3. sub' \in [Submissions -> RowType]
    BY <2>1, <2>2, <1>0
  <2> QED
    BY <2>3, <1>0, <1>17 DEF Revoke, Expire
<1>18. ASSUME NEW s \in Submissions, Open(s)
       PROVE Typed'
  BY <1>0, <1>18 DEF Open, VisitType
<1>19. CASE UNCHANGED vars
  BY <1>0, <1>19 DEF vars
<1> QED
  BY <1>1, <1>2, <1>3, <1>4, <1>5, <1>6, <1>7, <1>8, <1>9, <1>10, <1>11, <1>12,
     <1>13, <1>14, <1>15, <1>16, <1>17, <1>18, <1>19 DEF Next, Queue

-----------------------------------------------------------------------------
(* Steps that queue nothing and mail nothing.                              *)

\* A row keeps its status, or gets one that the queue does not pick up; only an
\* unmailed row is prepared or has failed, only an ended delivery is unknown.
QuietRow(s) ==
    \/ sub'[s].status = sub[s].status
    \/ /\ Exists(s[1])'
       /\ \/ sub'[s].status \in SENT \cup {"package_stale", "superseded", "revoked"}
          \/ sub'[s].status \in {"prepared", "failed"} /\ Untouched(s)'
          \/ sub'[s].status = "delivery_unknown" /\ delivery'[s] = "none"

\* A request stays, ends, or starts on a batch that exists.
QuietRequest(old, new) ==
    \/ new = old
    \/ new.pc = "idle"
    \/ new.pc # "locked" /\ Exists(new.batch)

QuietStep ==
    /\ UNCHANGED <<approvals, attempts, emails>>
    /\ \A c \in Batches : Exists(c) => Exists(c)'
    /\ \A s \in Submissions : QuietRow(s) /\ delivery'[s] \in {delivery[s], "none"}
    /\ \A u \in Underwriters : QuietRequest(approval[u], approval'[u])
    /\ QuietRequest(reader, reader') /\ QuietRequest(refresher, refresher')
    /\ visitor' = visitor \/ visitor'.pc = "idle" \/ emails[visitor'.sub] > 0

\* They keep the invariant.
LEMMA QuietKeeps == IInv /\ Typed' /\ QuietStep => IInv'
<1> SUFFICES ASSUME IInv, Typed', QuietStep PROVE IInv'
  OBVIOUS
<1>0. Typed /\ TypeOK'
  BY SameTypes DEF IInv
<1>1. AttemptsWereApproved'
  <2> SUFFICES ASSUME NEW s \in Submissions
               PROVE  (attempts[s] + (IF sub[s].status = "queued" THEN 1 ELSE 0)
                         <= approvals[s])'
    BY DEF AttemptsWereApproved
  <2>1. QuietRow(s) /\ approvals' = approvals /\ attempts' = attempts
    BY DEF QuietStep
  <2>2. sub'[s].status = "queued" => sub[s].status = "queued"
    BY <2>1 DEF QuietRow, SENT
  <2>3. attempts[s] + (IF sub[s].status = "queued" THEN 1 ELSE 0) <= approvals[s]
    BY DEF IInv, AttemptsWereApproved
  <2>4. attempts[s] \in Nat /\ approvals[s] \in Nat
    BY <1>0, SubmissionAssumption DEF Typed
  <2> QED
    BY <2>1, <2>2, <2>3, <2>4
<1>2. AtMostOneEmail'
  BY DEF IInv, AtMostOneEmail, QuietStep
<1>3. \A s \in Submissions : Untouched(s) => Untouched(s)'
  BY DEF QuietStep, Untouched
<1>4. OnlyUntouchedWait'
  <2> SUFFICES ASSUME NEW s \in Submissions,
                      sub'[s].status \in {"none", "prepared", "failed", "queued"}
               PROVE  Untouched(s)'
    BY DEF OnlyUntouchedWait
  <2>1. QuietRow(s)
    BY DEF QuietStep
  <2>2. CASE sub'[s].status = sub[s].status
    BY <2>2, <1>3 DEF IInv, OnlyUntouchedWait
  <2> QED
    BY <2>1, <2>2 DEF QuietRow, SENT
<1>5. SendsFirst'
  BY DEF IInv, SendsFirst, QuietStep
<1>6. UnknownIsOver'
  <2> SUFFICES ASSUME NEW s \in Submissions, sub'[s].status = "delivery_unknown"
               PROVE  delivery'[s] = "none"
    BY DEF UnknownIsOver
  <2>1. QuietRow(s) /\ delivery'[s] \in {delivery[s], "none"}
    BY DEF QuietStep
  <2>2. CASE sub'[s].status = sub[s].status
    BY <2>1, <2>2 DEF IInv, UnknownIsOver
  <2> QED
    BY <2>1, <2>2 DEF QuietRow, SENT
<1>7. RowsHaveBatches'
  <2> SUFFICES ASSUME NEW s \in Submissions, sub'[s].status # "none"
               PROVE  Exists(s[1])'
    BY DEF RowsHaveBatches
  <2>1. QuietRow(s)
    BY DEF QuietStep
  <2>2. CASE sub'[s].status = sub[s].status
    BY <2>2, Pairs DEF IInv, RowsHaveBatches, QuietStep
  <2> QED
    BY <2>1, <2>2 DEF QuietRow
<1>8. RequestsHaveBatches'
  <2>1. \A c \in Batches : Exists(c) => Exists(c)'
    BY DEF QuietStep
  <2>2. ASSUME NEW u \in Underwriters, approval'[u].pc # "idle"
        PROVE  Exists(approval[u].batch)'
    <3>1. QuietRequest(approval[u], approval'[u])
      BY DEF QuietStep
    <3>2. approval'[u] \in ApprovalType
      BY DEF Typed
    <3>3. approval'[u].batch \in Batches
      BY <3>2 DEF ApprovalType
    <3>4. Exists(approval'[u].batch)
      BY <2>2, <3>1 DEF QuietRequest, IInv, RequestsHaveBatches
    <3> QED
      BY <2>1, <3>3, <3>4 DEF Exists
  <2>3. reader'.pc # "idle" => Exists(reader.batch)'
    <3>1. QuietRequest(reader, reader') /\ reader'.batch \in Batches
      BY DEF QuietStep, Typed, RequestType
    <3> QED
      BY <2>1, <3>1 DEF QuietRequest, IInv, RequestsHaveBatches, Exists
  <2>4. refresher'.pc # "idle" => Exists(refresher.batch)'
    <3>1. QuietRequest(refresher, refresher') /\ refresher'.batch \in Batches
      BY DEF QuietStep, Typed, RequestType
    <3> QED
      BY <2>1, <3>1 DEF QuietRequest, IInv, RequestsHaveBatches, Exists
  <2> QED
    BY <2>2, <2>3, <2>4 DEF RequestsHaveBatches
<1>9. \A u \in Underwriters : approval'[u].pc = "locked" => approval'[u] = approval[u]
  BY DEF QuietStep, QuietRequest
<1>10. LockIsExclusive'
  BY <1>9 DEF IInv, LockIsExclusive
<1>11. ApproversSeeTruly'
  <2> SUFFICES ASSUME NEW u \in Underwriters, approval'[u].pc = "locked",
                      NEW l \in Lenders, Approvable(approval'[u].seen[l])
               PROVE  /\ Untouched(<<approval[u].batch, l>>)'
                      /\ sub'[<<approval'[u].batch, l>>].status # "queued"
    BY DEF ApproversSeeTruly, Approvable, Untouched
  <2> DEFINE s == <<approval[u].batch, l>>
  <2>1. approval'[u] = approval[u] /\ s \in Submissions
    BY <1>9, <1>0, Pairs DEF Typed, ApprovalType
  <2>2. Untouched(s) /\ sub[s].status # "queued"
    BY <2>1 DEF IInv, ApproversSeeTruly
  <2>3. QuietRow(s)
    BY <2>1 DEF QuietStep
  <2>4. Untouched(s)'
    BY <1>3, <2>1, <2>2 DEF Untouched
  <2>5. sub'[s].status # "queued"
    BY <2>2, <2>3 DEF QuietRow, SENT
  <2> QED
    BY <2>1, <2>4, <2>5 DEF Untouched
<1>12. VisitorsWereMailed'
  BY DEF IInv, VisitorsWereMailed, QuietStep
<1> QED
  BY <1>0, <1>1, <1>2, <1>4, <1>5, <1>6, <1>7, <1>8, <1>10, <1>11, <1>12 DEF IInv

\* Preparing a batch is such a step: its rows are new, and a row that does not
\* exist was never mailed.
LEMMA PrepareIsQuiet ==
    ASSUME IInv, NEW targets,
           NEW B \in [Batches -> BatchType], NEW R \in [Submissions -> RowType],
           \A c \in Batches : Exists(c) => B[c].status # "none",
           \A s \in Submissions : \/ R[s].status = sub[s].status
                                  \/ Exists(s[1]) /\ R[s].status = "superseded",
           PrepareBatch(targets, B, R), UNCHANGED <<delivery, emails>>
    PROVE  /\ \A c \in Batches : Exists(c) => Exists(c)'
           /\ \A s \in Submissions : QuietRow(s)
<1>1. PICK b \in Batches :
        /\ ~Exists(b)
        /\ batch' = [B EXCEPT ![b].status = "prepared"]
        /\ sub' = [s \in Submissions |->
              IF s[1] = b /\ s[2] \in targets
              THEN [NoRow EXCEPT !.status = "prepared", !.print = source]
              ELSE R[s]]
  BY DEF PrepareBatch
<1>2. \A c \in Batches : batch'[c].status = IF c = b THEN "prepared" ELSE B[c].status
  BY <1>1 DEF BatchType
<1>3. \A c \in Batches : Exists(c) => Exists(c)'
  BY <1>2 DEF Exists
<1>4. ASSUME NEW s \in Submissions
      PROVE  QuietRow(s)
  <2>1. CASE s[1] = b /\ s[2] \in targets
    <3>1. sub'[s].status = "prepared"
      BY <1>1, <2>1 DEF NoRow
    <3>2. Untouched(s)
      BY <1>1, <2>1 DEF IInv, RowsHaveBatches, OnlyUntouchedWait
    <3>3. Exists(s[1])' /\ Untouched(s)'
      BY <1>2, <2>1, <3>2 DEF Exists, Untouched
    <3> QED
      BY <3>1, <3>3 DEF QuietRow
  <2>2. CASE ~(s[1] = b /\ s[2] \in targets)
    <3>1. sub'[s] = R[s]
      BY <1>1, <2>2
    <3>2. s[1] \in Batches
      BY Pairs
    <3>3. Exists(s[1]) => Exists(s[1])'
      BY <1>3, <3>2 DEF Exists
    <3> QED
      BY <3>1, <3>3 DEF QuietRow
  <2> QED
    BY <2>1, <2>2
<1> QED
  BY <1>3, <1>4

\* Settling an existing row is one, when the status is one of those.
LEMMA SettleIsQuiet ==
    ASSUME IInv, NEW s \in Submissions, NEW status, Settle(s, status),
           batch' = batch, sub[s].status # "none",
           \/ status \in SENT \cup {"package_stale", "superseded", "revoked"}
           \/ status = "failed" /\ Untouched(s)'
           \/ status = "delivery_unknown" /\ delivery'[s] = "none"
    PROVE  /\ \A c \in Batches : Exists(c) => Exists(c)'
           /\ \A r \in Submissions : QuietRow(r)
<1>0. Typed
  BY SameTypes DEF IInv
<1>1. \A c \in Batches : Exists(c) => Exists(c)'
  BY DEF Exists
<1>2. \A r \in Submissions : r # s => sub'[r] = sub[r]
  BY <1>0 DEF Settle, Typed
<1>3. sub'[s].status = status
  BY <1>0 DEF Settle, Typed, RowType
<1>4. Exists(s[1])'
  BY DEF IInv, RowsHaveBatches, Exists
<1> QED
  BY <1>1, <1>2, <1>3, <1>4 DEF QuietRow

\* So is every step but locking, approving, and the two that send.
LEMMA QuietActions ==
    ASSUME IInv, Typed',
           \/ Prepare \/ ReadBatch \/ MarkStale \/ ReadPending \/ Refresh \/ Access
           \/ SourceChanges \/ Restart
           \/ \E u \in Underwriters : Load(u) \/ AccountChanges(u)
           \/ \E s \in Submissions :
                 \/ Claim(s) /\ delivery' = delivery
                 \/ RecordResult(s) \/ Sweep(s) \/ Revoke(s) \/ Reconcile(s)
                 \/ Open(s) \/ Expire(s)
    PROVE  QuietStep
<1>0. Typed
  BY SameTypes DEF IInv
<1> USE DEF rowVars, requestVars, mailVars, worldVars
<1> DEFINE Kept == /\ \A c \in Batches : Exists(c) => Exists(c)'
                   /\ \A s \in Submissions : QuietRow(s)
<1>a. ASSUME UNCHANGED <<batch, sub>> PROVE Kept
  BY <1>a DEF Exists, QuietRow
<1>b. ASSUME Kept, UNCHANGED <<approvals, requestVars, mailVars>> PROVE QuietStep
  BY <1>b DEF QuietStep, QuietRequest
<1> HIDE DEF Kept
<1>1. CASE Prepare
  <2>1. PICK targets \in SUBSET Lenders : PrepareBatch(targets, batch, sub)
    BY <1>1 DEF Prepare
  <2>2. Kept
    BY <1>0, <1>1, <2>1, PrepareIsQuiet DEF Prepare, Typed, Exists, Kept
  <2> QED
    BY <1>1, <1>b, <2>2 DEF Prepare
<1>2. CASE ReadBatch
  <2>1. reader'.pc = "read" /\ Exists(reader'.batch)
    BY <1>2 DEF ReadBatch
  <2> QED
    BY <1>2, <1>a, <2>1 DEF ReadBatch, QuietStep, QuietRequest, Kept
<1>3. CASE MarkStale
  <2>1. reader.pc = "read" /\ reader'.pc = "idle" /\ Exists(reader.batch)
    BY <1>3 DEF MarkStale, NoRequest, IInv, RequestsHaveBatches
  <2>2. \A s \in Submissions : \/ sub'[s] = sub[s]
                               \/ /\ s[1] = reader.batch
                                  /\ sub'[s].status = "package_stale"
    BY <1>0, <1>3 DEF MarkStale, Written, Typed, RowType
  <2>3. \A c \in Batches : Exists(c) => Exists(c)'
    <3> DEFINE seen(stale) == [l \in Lenders |->
                 IF l \in stale THEN "package_stale" ELSE reader.seen[l]]
               d(stale) == Derived(seen(stale), batch[reader.batch].status)
    <3>1. \E stale \in SUBSET Lenders :
              batch' = [batch EXCEPT ![reader.batch].status = d(stale)]
      BY <1>3 DEF MarkStale
    <3>2. batch[reader.batch].status \in BatchStatuses /\ reader.batch \in Batches
      BY <1>0 DEF Typed, BatchType, RequestType
    <3>3. \A stale \in SUBSET Lenders : d(stale) # "none"
      BY <2>1, <3>2, DerivedType DEF Exists
    <3> HIDE DEF d
    <3> QED
      BY <1>0, <3>1, <3>2, <3>3 DEF Exists, Typed, BatchType
  <2>4. Kept
    <3>1. reader.batch \in Batches
      BY <1>0 DEF Typed, RequestType
    <3>2. batch'[reader.batch].status # "none"
      BY <2>1, <2>3, <3>1 DEF Exists
    <3> QED
      BY <2>2, <2>3, <3>2 DEF Kept, QuietRow, Exists
  <2> QED
    BY <1>3, <2>1, <2>4 DEF MarkStale, QuietStep, QuietRequest, Kept
<1>4. CASE ReadPending
  <2>1. refresher'.pc = "read" /\ Exists(refresher'.batch)
    BY <1>4 DEF ReadPending, Newest
  <2> QED
    BY <1>4, <1>a, <2>1 DEF ReadPending, QuietStep, QuietRequest, Kept
<1>5. CASE Refresh
  <2> DEFINE b == refresher.batch
             rows == {l \in Lenders : Refreshable(refresher.seen[l])}
             all == {l \in Lenders : refresher.seen[l] # "none"}
             B == IF rows = all THEN [batch EXCEPT ![b].status = "superseded"] ELSE batch
             R == Written(b, rows, "superseded")
  <2>1. refresher.pc = "read" /\ refresher'.pc = "idle" /\ Exists(b)
    BY <1>5 DEF Refresh, NoRequest, IInv, RequestsHaveBatches
  <2>2. B \in [Batches -> BatchType]
    BY <1>0 DEF Typed, BatchType, RequestType, BatchStatuses
  <2>3. R \in [Submissions -> RowType]
    BY <1>0, WrittenType DEF Typed, Statuses
  <2>4. \A c \in Batches : Exists(c) => B[c].status # "none"
    BY <1>0 DEF Exists, Typed, BatchType
  <2>5. \A s \in Submissions : \/ R[s].status = sub[s].status
                               \/ Exists(s[1]) /\ R[s].status = "superseded"
    BY <1>0, <2>1 DEF Written, Typed, RowType
  <2>6. UNCHANGED <<batch, sub>> \/ PrepareBatch(rows, B, R)
    BY <1>5 DEF Refresh
  <2>7. UNCHANGED <<delivery, emails>>
    BY <1>5 DEF Refresh
  <2> HIDE DEF b, rows, all, B, R
  <2>8. Kept
    BY <2>2, <2>3, <2>4, <2>5, <2>6, <2>7, <1>a, PrepareIsQuiet DEF Kept
  <2> QED
    BY <1>5, <2>1, <2>8 DEF Refresh, QuietStep, QuietRequest, Kept
<1>6. CASE Access
  <2>1. /\ visitor.pc # "idle" /\ visitor'.pc = "idle"
        /\ visitor.sub \in Submissions
        /\ batch' = batch
    BY <1>0, <1>6 DEF Access, NoVisit, Typed, VisitType
  <2>2. sub[visitor.sub].status # "none"
    BY <1>0, <2>1 DEF IInv, VisitorsWereMailed, OnlyUntouchedWait, Untouched, Typed
  <2>3. \/ UNCHANGED sub
        \/ Settle(visitor.sub, IF visitor.pc = "view" THEN "viewed" ELSE "downloaded")
    BY <1>6 DEF Access
  <2>4. Kept
    BY <2>1, <2>2, <2>3, <1>a, SettleIsQuiet DEF Kept, SENT
  <2> QED
    BY <1>6, <2>1, <2>4 DEF Access, QuietStep, QuietRequest, Kept
<1>7. CASE SourceChanges
  BY <1>7, <1>a, <1>b DEF SourceChanges
<1>8. CASE Restart
  <2>1. \A u \in Underwriters : approval'[u].pc = "idle"
    BY <1>8 DEF Restart, NoApproval
  <2>2. reader'.pc = "idle" /\ refresher'.pc = "idle" /\ visitor'.pc = "idle"
    BY <1>8 DEF Restart, NoRequest, NoVisit
  <2> QED
    BY <1>8, <1>a, <2>1, <2>2 DEF Restart, QuietStep, QuietRequest, Kept
<1>9. ASSUME NEW u \in Underwriters, Load(u) PROVE QuietStep
  <2>1. PICK b \in Batches, ids \in SUBSET Lenders :
          /\ Exists(b)
          /\ approval' = [approval EXCEPT ![u] =
                [NoApproval EXCEPT !.pc = "loaded", !.batch = b, !.ids = ids,
                                   !.approver = batch[b].approver]]
    BY <1>9 DEF Load
  <2>2. approval'[u].pc = "loaded" /\ approval'[u].batch = b
    BY <1>0, <2>1 DEF Typed, NoApproval
  <2>3. \A v \in Underwriters : QuietRequest(approval[v], approval'[v])
    BY <1>0, <2>1, <2>2 DEF Typed, QuietRequest
  <2> QED
    BY <1>9, <1>a, <2>3 DEF Load, QuietStep, QuietRequest, Kept
<1>10. ASSUME NEW u \in Underwriters, AccountChanges(u) PROVE QuietStep
  BY <1>10, <1>a, <1>b DEF AccountChanges
<1>11. ASSUME NEW s \in Submissions, Claim(s), delivery' = delivery PROVE QuietStep
  <2>1. /\ sub[s].status = "queued" /\ delivery[s] = "none"
        /\ batch' = batch
        /\ Settle(s, "failed") \/ Settle(s, "package_stale")
        /\ UNCHANGED <<approvals, requestVars, mailVars>>
    BY <1>0, <1>11 DEF Claim, Typed
  <2>2. Untouched(s)'
    BY <2>1 DEF IInv, OnlyUntouchedWait, Untouched
  <2>3. Kept
    BY <2>1, <2>2, SettleIsQuiet DEF Kept
  <2> QED
    BY <2>1, <2>3, <1>b
<1>12. ASSUME NEW s \in Submissions, RecordResult(s) PROVE QuietStep
  <2>1. /\ delivery[s] \in {"ok", "refused", "unknown"}
        /\ delivery' = [delivery EXCEPT ![s] = "none"]
        /\ Settle(s, Outcome(delivery[s]))
        /\ UNCHANGED <<batch, approvals, attempts, emails, requestVars>>
    BY <1>12 DEF RecordResult
  <2>2. delivery'[s] = "none" /\ \A r \in Submissions : delivery'[r] \in {delivery[r], "none"}
    BY <1>0, <2>1 DEF Typed
  <2>3. sub[s].status # "none"
    BY <2>1 DEF IInv, OnlyUntouchedWait, Untouched
  <2>4. Outcome(delivery[s]) \in {"sent", "failed", "delivery_unknown"}
    BY <2>1 DEF Outcome
  <2>5. Outcome(delivery[s]) = "failed" => Untouched(s)'
    BY <2>1, <2>2 DEF Outcome, Untouched, IInv, SendsFirst
  <2>6. Kept
    BY <2>1, <2>2, <2>3, <2>4, <2>5, SettleIsQuiet DEF Kept, SENT
  <2> QED
    BY <2>1, <2>2, <2>6 DEF QuietStep, QuietRequest, Kept
<1>13. ASSUME NEW s \in Submissions, Sweep(s) PROVE QuietStep
  BY <1>13, <1>b, SettleIsQuiet DEF Sweep, Kept
<1>14. ASSUME NEW s \in Submissions, Reconcile(s) PROVE QuietStep
  <2>1. UNCHANGED <<batch, approvals, requestVars, mailVars>>
    BY <1>14 DEF Reconcile
  <2>2. \/ UNCHANGED sub
        \/ /\ sub[s].status \in SENT \cup {"delivery_unknown"}
           /\ Settle(s, "delivered")
        \/ /\ sub[s].status = "delivery_unknown" /\ emails[s] = 0
           /\ Settle(s, "failed")
    BY <1>14 DEF Reconcile
  <2>3. sub[s].status = "delivery_unknown" /\ emails[s] = 0 => Untouched(s)'
    BY <2>1 DEF IInv, UnknownIsOver, Untouched
  <2>4. Kept
    BY <2>1, <2>2, <2>3, <1>a, SettleIsQuiet DEF Kept, SENT
  <2> QED
    BY <2>1, <2>4, <1>b
<1>15. ASSUME NEW s \in Submissions, Revoke(s) \/ Expire(s) PROVE QuietStep
  <2>1. UNCHANGED <<batch, approvals, requestVars, mailVars>> /\ sub[s].status # "none"
    BY <1>15 DEF Revoke, Expire
  <2>2. \A r \in Submissions : \/ sub'[r].status = sub[r].status
                               \/ r = s /\ sub'[r].status = "revoked"
    <3>1. \/ sub' = [sub EXCEPT ![s] = [sub[s] EXCEPT !.status = "revoked", !.ended = TRUE]]
          \/ sub' = [sub EXCEPT ![s] = [sub[s] EXCEPT !.ended = TRUE]]
      BY <1>0, <1>15 DEF Revoke, Expire, Typed
    <3>2. /\ [sub[s] EXCEPT !.status = "revoked", !.ended = TRUE].status = "revoked"
          /\ [sub[s] EXCEPT !.ended = TRUE].status = sub[s].status
      BY <1>0 DEF Typed, RowType
    <3> QED
      BY <1>0, <3>1, <3>2 DEF Typed
  <2>3. Exists(s[1])
    BY <2>1 DEF IInv, RowsHaveBatches
  <2>4. Kept
    BY <2>1, <2>2, <2>3 DEF Kept, QuietRow, Exists
  <2> QED
    BY <2>1, <2>4, <1>b
<1>16. ASSUME NEW s \in Submissions, Open(s) PROVE QuietStep
  <2>1. emails[visitor'.sub] > 0
    BY <1>16 DEF Open, Openable
  <2> QED
    BY <1>16, <1>a, <2>1 DEF Open, QuietStep, QuietRequest, Kept
<1> QED
  BY <1>1, <1>2, <1>3, <1>4, <1>5, <1>6, <1>7, <1>8, <1>9, <1>10, <1>11, <1>12,
     <1>13, <1>14, <1>15, <1>16

-----------------------------------------------------------------------------
(* The steps that lock, queue and send.                                    *)

\* The approver who takes the lock reads rows that were not mailed.
LEMMA LockKeeps ==
    ASSUME IInv, Typed', NEW u \in Underwriters, Lock(u)
    PROVE  IInv'
<1>0. Typed /\ TypeOK'
  BY SameTypes DEF IInv
<1> DEFINE b == approval[u].batch
<1>1. /\ approval[u].pc = "loaded"
      /\ \A v \in Underwriters : ~(approval[v].pc = "locked" /\ approval[v].batch = b)
      /\ UNCHANGED <<batch, sub, approvals, attempts, delivery, emails,
                     reader, refresher, visitor>>
  BY DEF Lock, rowVars, mailVars
<1>2. /\ approval'[u].pc = "locked" /\ approval'[u].batch = b
      /\ approval'[u].seen = StatusesOf(b)
  <2> DEFINE ids == {l \in approval[u].ids : ~sub[<<b, l>>].ended}
             new == [approval[u] EXCEPT !.pc = "locked", !.seen = StatusesOf(b), !.ids = ids]
  <2>1. approval' = [approval EXCEPT ![u] = new]
    BY Zenon DEF Lock
  <2>2. approval[u] \in ApprovalType
    BY <1>0 DEF Typed
  <2> HIDE DEF ids, b
  <2>3. new.pc = "locked" /\ new.batch = approval[u].batch /\ new.seen = StatusesOf(b)
    BY <2>2 DEF ApprovalType
  <2> HIDE DEF new
  <2> QED
    BY <2>1, <2>3, <1>0 DEF Typed, b
<1>3. \A v \in Underwriters : v # u => approval'[v] = approval[v]
  <2>1. \E new : approval' = [approval EXCEPT ![u] = new]
    BY Zenon DEF Lock
  <2> QED
    BY <2>1, <1>0 DEF Typed
<1>4. RequestsHaveBatches'
  BY <1>1, <1>2, <1>3 DEF IInv, RequestsHaveBatches, Exists
<1>5. LockIsExclusive'
  BY <1>1, <1>2, <1>3 DEF IInv, LockIsExclusive
<1>6. ApproversSeeTruly'
  <2> SUFFICES ASSUME NEW v \in Underwriters, approval'[v].pc = "locked",
                      NEW l \in Lenders, Approvable(approval'[v].seen[l])
               PROVE  /\ Untouched(<<approval'[v].batch, l>>)
                      /\ sub[<<approval'[v].batch, l>>].status # "queued"
    BY <1>1 DEF ApproversSeeTruly, Approvable, Untouched
  <2>1. CASE v = u
    <3>1. <<b, l>> \in Submissions
      BY <1>0, Pairs DEF Typed, ApprovalType
    <3>2. sub[<<b, l>>].status \in {"prepared", "failed"}
      BY <1>2, <2>1 DEF StatusesOf, Approvable
    <3> QED
      BY <1>2, <2>1, <3>1, <3>2 DEF IInv, OnlyUntouchedWait
  <2>2. CASE v # u
    BY <1>3, <2>2 DEF IInv, ApproversSeeTruly
  <2> QED
    BY <2>1, <2>2
<1> QED
  BY <1>0, <1>1, <1>4, <1>5, <1>6
     DEF IInv, AttemptsWereApproved, AtMostOneEmail, OnlyUntouchedWait, Untouched,
         SendsFirst, UnknownIsOver, RowsHaveBatches, Exists, VisitorsWereMailed

\* An approval queues rows that were not mailed and not queued, and counts them.
LEMMA ApproveKeeps ==
    ASSUME IInv, Typed', NEW u \in Underwriters, Approve(u)
    PROVE  IInv'
<1>0. Typed /\ TypeOK /\ TypeOK'
  BY SameTypes DEF IInv
<1> DEFINE b == approval[u].batch
<1>1. PICK ready \in SUBSET Lenders, stale \in SUBSET Lenders : Approves(u, ready, stale)
  BY <1>0, ApproveEffects
<1>2. /\ approval[u].pc = "locked"
      /\ approval' = [approval EXCEPT ![u] = NoApproval]
      /\ UNCHANGED <<attempts, delivery, emails, reader, refresher, visitor>>
  BY Zenon DEF Approve, mailVars
<1>3. /\ approval'[u].pc = "idle"
      /\ \A v \in Underwriters : v # u => approval'[v] = approval[v]
  BY <1>0, <1>2 DEF Typed, NoApproval
<1>4. \A c \in Batches : Exists(c) => Exists(c)'
  BY <1>0, ApproveEffects
<1>5. \A s \in Submissions :
        \/ /\ s[1] = b /\ s[2] \in ready
           /\ sub'[s].status = "queued"
           /\ approvals'[s] = approvals[s] + 1
        \/ /\ s[1] = b /\ s[2] \in stale
           /\ sub'[s].status = "package_stale"
           /\ approvals'[s] = approvals[s]
        \/ sub'[s] = sub[s] /\ approvals'[s] = approvals[s]
  BY <1>0, <1>1 DEF Approves, Typed, RowType
<1>6. ASSUME NEW s \in Submissions, s[1] = b, s[2] \in ready
      PROVE  Untouched(s) /\ sub[s].status # "queued"
  <2>1. Approvable(approval[u].seen[s[2]])
    BY <1>1, <1>6 DEF Approves
  <2>2. s[2] \in Lenders /\ s = <<b, s[2]>>
    BY <1>6, Pairs
  <2> HIDE DEF b
  <2>3. /\ Untouched(<<approval[u].batch, s[2]>>)
        /\ sub[<<approval[u].batch, s[2]>>].status # "queued"
    BY <1>2, <2>1, <2>2 DEF IInv, ApproversSeeTruly
  <2> QED
    BY <2>2, <2>3 DEF b
<1>7. AttemptsWereApproved'
  <2> SUFFICES ASSUME NEW s \in Submissions
               PROVE  attempts[s] + (IF sub'[s].status = "queued" THEN 1 ELSE 0)
                        <= approvals'[s]
    BY <1>2 DEF AttemptsWereApproved
  <2>1. attempts[s] \in Nat /\ approvals[s] \in Nat
    BY <1>0, SubmissionAssumption DEF Typed
  <2>2. attempts[s] + (IF sub[s].status = "queued" THEN 1 ELSE 0) <= approvals[s]
    BY DEF IInv, AttemptsWereApproved
  <2> QED
    BY <2>1, <2>2, <1>5, <1>6
<1>8. OnlyUntouchedWait'
  BY <1>2, <1>5, <1>6 DEF IInv, OnlyUntouchedWait, Untouched
<1>9. UnknownIsOver'
  BY <1>2, <1>5 DEF IInv, UnknownIsOver
<1>10. RowsHaveBatches'
  <2>1. Exists(b)
    BY <1>2 DEF IInv, RequestsHaveBatches
  <2>2. \A s \in Submissions : sub'[s].status # "none" => Exists(s[1])
    BY <1>5, <2>1 DEF IInv, RowsHaveBatches
  <2> QED
    BY <1>4, <2>2, Pairs DEF RowsHaveBatches, Exists
<1>11. RequestsHaveBatches'
  <2>1. /\ \A v \in Underwriters : approval[v].batch \in Batches
        /\ reader.batch \in Batches /\ refresher.batch \in Batches
    BY <1>0 DEF Typed, ApprovalType, RequestType
  <2> QED
    BY <1>2, <1>3, <1>4, <2>1 DEF IInv, RequestsHaveBatches, Exists
<1>12. LockIsExclusive'
  BY <1>3 DEF IInv, LockIsExclusive
<1>13. ApproversSeeTruly'
  <2> SUFFICES ASSUME NEW v \in Underwriters, approval'[v].pc = "locked",
                      NEW l \in Lenders, Approvable(approval'[v].seen[l])
               PROVE  /\ Untouched(<<approval'[v].batch, l>>)
                      /\ sub'[<<approval'[v].batch, l>>].status # "queued"
    BY <1>2 DEF ApproversSeeTruly, Approvable, Untouched
  <2>1. v # u /\ approval'[v] = approval[v]
    BY <1>3
  <2>2. approval[v].batch # b
    BY <1>2, <2>1 DEF IInv, LockIsExclusive
  <2>3. <<approval[v].batch, l>> \in Submissions
    BY <1>0, Pairs DEF Typed, ApprovalType
  <2>4. sub'[<<approval[v].batch, l>>] = sub[<<approval[v].batch, l>>]
    BY <1>5, <2>2, <2>3
  <2> QED
    BY <2>1, <2>4 DEF IInv, ApproversSeeTruly
<1> QED
  BY <1>0, <1>2, <1>7, <1>8, <1>9, <1>10, <1>11, <1>12, <1>13
     DEF IInv, AtMostOneEmail, SendsFirst, VisitorsWereMailed

\* The queue takes up a row that was not mailed, for an approval not yet used.
LEMMA ClaimKeeps ==
    ASSUME IInv, Typed', NEW s \in Submissions, Claim(s), delivery' # delivery
    PROVE  IInv'
<1>0. Typed /\ TypeOK'
  BY SameTypes DEF IInv
<1>1. /\ sub[s].status = "queued"
      /\ Settle(s, "sending")
      /\ attempts' = [attempts EXCEPT ![s] = @ + 1]
      /\ delivery' = [delivery EXCEPT ![s] = "send"]
      /\ UNCHANGED <<emails, batch, approvals, approval, reader, refresher, visitor>>
  BY DEF Claim, mailVars, requestVars
<1>2. /\ sub'[s].status = "sending" /\ delivery'[s] = "send"
      /\ attempts'[s] = attempts[s] + 1
  BY <1>0, <1>1 DEF Settle, Typed, RowType
<1>3. \A r \in Submissions : r # s => /\ sub'[r] = sub[r] /\ delivery'[r] = delivery[r]
                                      /\ attempts'[r] = attempts[r]
  BY <1>0, <1>1 DEF Settle, Typed
<1>4. emails[s] = 0
  BY <1>1 DEF IInv, OnlyUntouchedWait, Untouched
<1>5. AttemptsWereApproved'
  <2> SUFFICES ASSUME NEW r \in Submissions
               PROVE  attempts'[r] + (IF sub'[r].status = "queued" THEN 1 ELSE 0)
                        <= approvals[r]
    BY <1>1 DEF AttemptsWereApproved
  <2>1. attempts[r] \in Nat /\ approvals[r] \in Nat
    BY <1>0, SubmissionAssumption DEF Typed
  <2>2. attempts[r] + (IF sub[r].status = "queued" THEN 1 ELSE 0) <= approvals[r]
    BY DEF IInv, AttemptsWereApproved
  <2> QED
    BY <1>1, <1>2, <1>3, <2>1, <2>2
<1>6. OnlyUntouchedWait'
  BY <1>1, <1>2, <1>3 DEF IInv, OnlyUntouchedWait, Untouched
<1>7. SendsFirst'
  BY <1>1, <1>3, <1>4 DEF IInv, SendsFirst
<1>8. UnknownIsOver'
  BY <1>2, <1>3 DEF IInv, UnknownIsOver
<1>9. RowsHaveBatches'
  BY <1>1, <1>3 DEF IInv, RowsHaveBatches, Exists
<1>10. ApproversSeeTruly'
  <2> SUFFICES ASSUME NEW v \in Underwriters, approval[v].pc = "locked",
                      NEW l \in Lenders, Approvable(approval[v].seen[l])
               PROVE  /\ Untouched(<<approval[v].batch, l>>)'
                      /\ sub'[<<approval[v].batch, l>>].status # "queued"
    BY <1>1 DEF ApproversSeeTruly, Approvable, Untouched
  <2> DEFINE r == <<approval[v].batch, l>>
  <2>1. r \in Submissions
    BY <1>0, Pairs DEF Typed, ApprovalType
  <2>2. Untouched(r) /\ sub[r].status # "queued"
    BY DEF IInv, ApproversSeeTruly
  <2>3. r # s
    BY <1>1, <2>2
  <2> QED
    BY <1>1, <1>3, <2>1, <2>2, <2>3 DEF Untouched
<1> QED
  BY <1>0, <1>1, <1>5, <1>6, <1>7, <1>8, <1>9, <1>10
     DEF IInv, AtMostOneEmail, RequestsHaveBatches, Exists, LockIsExclusive,
         VisitorsWereMailed

\* What is sent was not sent before.
LEMMA SendKeeps ==
    ASSUME IInv, Typed', NEW s \in Submissions, Send(s)
    PROVE  IInv'
<1>0. Typed /\ TypeOK'
  BY SameTypes DEF IInv
<1>1. /\ delivery[s] = "send"
      /\ UNCHANGED <<attempts, batch, sub, approvals, approval, reader, refresher, visitor>>
  BY DEF Send, rowVars, requestVars
<1>2. \A r \in Submissions : r # s => emails'[r] = emails[r] /\ delivery'[r] = delivery[r]
  BY <1>0 DEF Send, Typed
<1>3. emails[s] = 0
  BY <1>1 DEF IInv, SendsFirst
<1>4. emails'[s] \in {0, 1} /\ (delivery'[s] \in {"send", "refused"} => emails'[s] = 0)
  BY <1>0, <1>3 DEF Send, Typed
<1>5. sub[s].status \notin {"none", "prepared", "failed", "queued", "delivery_unknown"}
  BY <1>1 DEF IInv, OnlyUntouchedWait, Untouched, UnknownIsOver
<1>6. AtMostOneEmail'
  BY <1>2, <1>4 DEF IInv, AtMostOneEmail
<1>7. OnlyUntouchedWait'
  BY <1>1, <1>2, <1>5 DEF IInv, OnlyUntouchedWait, Untouched
<1>8. SendsFirst'
  BY <1>2, <1>4 DEF IInv, SendsFirst
<1>9. UnknownIsOver'
  BY <1>1, <1>2, <1>5 DEF IInv, UnknownIsOver
<1>10. ApproversSeeTruly'
  <2> SUFFICES ASSUME NEW v \in Underwriters, approval[v].pc = "locked",
                      NEW l \in Lenders, Approvable(approval[v].seen[l])
               PROVE  /\ Untouched(<<approval[v].batch, l>>)'
                      /\ sub[<<approval[v].batch, l>>].status # "queued"
    BY <1>1 DEF ApproversSeeTruly, Approvable, Untouched
  <2> DEFINE r == <<approval[v].batch, l>>
  <2>1. r \in Submissions
    BY <1>0, Pairs DEF Typed, ApprovalType
  <2>2. Untouched(r) /\ sub[r].status # "queued"
    BY DEF IInv, ApproversSeeTruly
  <2>3. r # s
    BY <1>1, <2>2 DEF Untouched
  <2> QED
    BY <1>1, <1>2, <2>1, <2>2, <2>3 DEF Untouched
<1>11. VisitorsWereMailed'
  <2>1. visitor.sub \in Submissions
    BY <1>0 DEF Typed, VisitType
  <2> QED
    BY <1>1, <1>2, <1>3, <2>1 DEF IInv, VisitorsWereMailed
<1> QED
  BY <1>0, <1>1, <1>6, <1>7, <1>8, <1>9, <1>10, <1>11
     DEF IInv, AttemptsWereApproved, RowsHaveBatches, RequestsHaveBatches, Exists,
         LockIsExclusive

-----------------------------------------------------------------------------
(* The theorems.                                                           *)

\* The initial states satisfy the invariant: there is no row and no request.
LEMMA InitInvariant == Init => IInv
<1> SUFFICES ASSUME Init PROVE IInv
  OBVIOUS
<1>1. TypeOK /\ Typed
  BY InitType, SameTypes
<1>2. /\ \A s \in Submissions : /\ sub[s].status = "none" /\ approvals[s] = 0
                                /\ attempts[s] = 0 /\ delivery[s] = "none" /\ emails[s] = 0
      /\ \A u \in Underwriters : approval[u].pc = "idle"
      /\ reader.pc = "idle" /\ refresher.pc = "idle" /\ visitor.pc = "idle"
  BY DEF Init, NoRow, NoApproval, NoRequest, NoVisit
<1> QED
  BY <1>1, <1>2
     DEF IInv, AttemptsWereApproved, AtMostOneEmail, OnlyUntouchedWait, Untouched,
         SendsFirst, UnknownIsOver, RowsHaveBatches, RequestsHaveBatches,
         LockIsExclusive, ApproversSeeTruly, VisitorsWereMailed

\* Every step keeps the invariant.
LEMMA NextKeeps == IInv /\ [Next]_vars => IInv'
<1> SUFFICES ASSUME IInv, [Next]_vars PROVE IInv'
  OBVIOUS
<1>0. Typed'
  BY NextType, SameTypes DEF IInv
<1>1. CASE UNCHANGED vars
  <2>1. UNCHANGED <<batch, sub, approvals, attempts, delivery, emails, approval,
                    reader, refresher, visitor>>
    BY <1>1 DEF vars, rowVars, requestVars, mailVars
  <2>2. QuietStep
    BY <2>1 DEF QuietStep, QuietRow, QuietRequest, Exists
  <2> QED
    BY <1>0, <2>2, QuietKeeps
<1>2. ASSUME NEW u \in Underwriters, Lock(u) PROVE IInv'
  BY <1>0, <1>2, LockKeeps
<1>3. ASSUME NEW u \in Underwriters, Approve(u) PROVE IInv'
  BY <1>0, <1>3, ApproveKeeps
<1>4. ASSUME NEW s \in Submissions, Claim(s), delivery' # delivery PROVE IInv'
  BY <1>0, <1>4, ClaimKeeps
<1>5. ASSUME NEW s \in Submissions, Send(s) PROVE IInv'
  BY <1>0, <1>5, SendKeeps
<1>6. \/ Prepare \/ ReadBatch \/ MarkStale \/ ReadPending \/ Refresh \/ Access
      \/ SourceChanges \/ Restart
      \/ \E u \in Underwriters : Load(u) \/ AccountChanges(u)
      \/ \E s \in Submissions :
            \/ Claim(s) /\ delivery' = delivery
            \/ RecordResult(s) \/ Sweep(s) \/ Revoke(s) \/ Reconcile(s)
            \/ Open(s) \/ Expire(s)
      => IInv'
  BY <1>0, QuietActions, QuietKeeps
<1> QED
  BY <1>1, <1>2, <1>3, <1>4, <1>5, <1>6 DEF Next, Queue

\* The invariant of the pipeline: what waits to be sent was not mailed, through
\* every interleaving of approvals, refreshes, deliveries and restarts.
THEOREM InductiveInvariant == Spec => []IInv
<1>1. Init => IInv
  BY InitInvariant
<1>2. IInv /\ [Next]_vars => IInv'
  BY NextKeeps
<1> QED
  BY <1>1, <1>2, PTL DEF Spec

\* Every column and every request keeps its type: the statuses the handlers write
\* are the ones the column allows.
THEOREM TypeCorrect == Spec => []TypeOK
<1>1. IInv => TypeOK
  BY DEF IInv
<1> QED
  BY <1>1, InductiveInvariant, PTL

\* deliver_one never sends more often than approve_batch queued.
THEOREM AttemptsApproved == Spec => []AttemptsWereApproved
<1>1. IInv => AttemptsWereApproved
  BY DEF IInv
<1> QED
  BY <1>1, InductiveInvariant, PTL

\* A lender is mailed a submission at most once, whatever is approved, refreshed,
\* retried, reconciled or restarted, by however many underwriters.
THEOREM OneEmail == Spec => []AtMostOneEmail
<1>1. IInv => AtMostOneEmail
  BY DEF IInv
<1> QED
  BY <1>1, InductiveInvariant, PTL

\* deliver_one begins no delivery of a revoked or expired submission.
THEOREM NothingAfterRevocation == Spec => NoMailAfterRevocation
<1> DEFINE Stays == \A s \in Submissions :
                        /\ sub[s].ended
                        /\ delivery[s] = "none"
                        => delivery'[s] = "none"
<1>1. TypeOK /\ [Next]_vars => Stays
  <2> SUFFICES ASSUME TypeOK, [Next]_vars,
                      NEW s \in Submissions, sub[s].ended, delivery[s] = "none"
               PROVE  delivery'[s] = "none"
    OBVIOUS
  <2>0. Typed
    BY SameTypes
  <2> USE DEF rowVars, requestVars, mailVars, worldVars
  <2>1. CASE delivery' = delivery
    BY <2>1
  <2>2. CASE Restart
    BY <2>2 DEF Restart
  <2>3. ASSUME NEW r \in Submissions, Claim(r) PROVE delivery'[s] = "none"
    <3>1. delivery' = delivery \/ (~sub[r].ended /\ delivery' = [delivery EXCEPT ![r] = "send"])
      BY <2>3 DEF Claim, Standing
    <3> QED
      BY <3>1, <2>0 DEF Typed
  <2>4. ASSUME NEW r \in Submissions, Send(r) PROVE delivery'[s] = "none"
    BY <2>0, <2>4 DEF Send, Typed
  <2>5. ASSUME NEW r \in Submissions, RecordResult(r) PROVE delivery'[s] = "none"
    BY <2>0, <2>5 DEF RecordResult, Typed
  <2>6. \/ Prepare \/ ReadBatch \/ MarkStale \/ ReadPending \/ Refresh \/ Access
        \/ SourceChanges \/ UNCHANGED vars
        => delivery' = delivery
    BY DEF Prepare, ReadBatch, MarkStale, ReadPending, Refresh, Access,
           SourceChanges, vars
  <2>7. \A u \in Underwriters : Load(u) \/ Lock(u) \/ Approve(u) \/ AccountChanges(u)
                                 => delivery' = delivery
    BY Zenon DEF Load, Lock, Approve, AccountChanges
  <2>8. \A r \in Submissions :
            Sweep(r) \/ Revoke(r) \/ Reconcile(r) \/ Open(r) \/ Expire(r)
              => delivery' = delivery
    BY DEF Sweep, Revoke, Reconcile, Open, Expire
  <2> QED
    BY <2>1, <2>2, <2>3, <2>4, <2>5, <2>6, <2>7, <2>8 DEF Next, Queue
<1>2. Spec => [][Stays]_vars
  BY <1>1, TypeCorrect, PTL DEF Spec
<1> QED
  BY <1>2 DEF NoMailAfterRevocation
-----------------------------------------------------------------------------
(* Every step is one of OneMailPerPackage.                                 *)

\* A row that does not exist is not closed, so that preparing it reopens nothing.
BlankRowsAreOpen == \A s \in Submissions : sub[s].status = "none" => ~sub[s].ended

\* Rows stay, and those that are revoked or expired stay closed.
RowsStayClosed ==
    \A s \in Submissions :
        /\ sub[s].ended => sub'[s].ended
        /\ sub'[s].status = "none" => sub'[s] = sub[s]

\* Settling a row keeps it closed.
LEMMA SettleKeepsClosed ==
    ASSUME Typed, NEW s \in Submissions, NEW status, status # "none", Settle(s, status)
    PROVE  RowsStayClosed
<1>1. sub[s] \in RowType /\ sub' = [sub EXCEPT ![s] = [sub[s] EXCEPT !.status = status]]
  BY DEF Typed, Settle
<1>2. \A r \in Submissions : r # s => sub'[r] = sub[r]
  BY <1>1 DEF Typed
<1>3. sub'[s].ended = sub[s].ended /\ sub'[s].status = status
  BY <1>1 DEF Typed, RowType
<1> QED
  BY <1>2, <1>3 DEF RowsStayClosed

\* So does writing a status to many.
LEMMA WrittenKeepsClosed ==
    ASSUME Typed, NEW b, NEW L, NEW status, status # "none"
    PROVE  \A s \in Submissions :
              /\ Written(b, L, status)[s].ended = sub[s].ended
              /\ Written(b, L, status)[s].status = "none" => Written(b, L, status)[s] = sub[s]
<1> TAKE s \in Submissions
<1>1. sub[s] \in RowType
  BY DEF Typed
<1>2. Written(b, L, status)[s] \in {sub[s], [sub[s] EXCEPT !.status = status]}
  BY DEF Written
<1> QED
  BY <1>1, <1>2 DEF RowType

\* A batch is prepared over rows that did not exist.
LEMMA PrepareKeepsClosed ==
    ASSUME IInv, BlankRowsAreOpen, NEW targets, NEW B, NEW R, PrepareBatch(targets, B, R),
           \A s \in Submissions : /\ R[s].ended = sub[s].ended
                                  /\ R[s].status = "none" => R[s] = sub[s]
    PROVE  RowsStayClosed
<1>1. PICK b \in Batches :
        /\ ~Exists(b)
        /\ sub' = [s \in Submissions |->
              IF s[1] = b /\ s[2] \in targets
              THEN [NoRow EXCEPT !.status = "prepared", !.print = source]
              ELSE R[s]]
  BY DEF PrepareBatch
<1>2. ASSUME NEW s \in Submissions, s[1] = b, s[2] \in targets
      PROVE  ~sub[s].ended /\ sub'[s].status = "prepared"
  BY <1>1, <1>2 DEF IInv, RowsHaveBatches, BlankRowsAreOpen, NoRow
<1>3. ASSUME NEW s \in Submissions, ~(s[1] = b /\ s[2] \in targets)
      PROVE  sub'[s] = R[s]
  BY <1>1, <1>3
<1> QED
  BY <1>2, <1>3 DEF RowsStayClosed

\* No step reopens a row or removes one.
LEMMA ClosedStays ==
    ASSUME IInv, BlankRowsAreOpen, [Next]_vars
    PROVE  RowsStayClosed
<1>0. Typed
  BY SameTypes DEF IInv
<1> USE DEF rowVars, requestVars, mailVars, worldVars
<1>1. ASSUME sub' = sub PROVE RowsStayClosed
  BY <1>1 DEF RowsStayClosed
<1>2. CASE Prepare
  BY <1>2, PrepareKeepsClosed DEF Prepare
<1>3. CASE MarkStale
  <2>1. \E stale : sub' = Written(reader.batch, stale, "package_stale")
    BY <1>3 DEF MarkStale
  <2> QED
    BY <1>0, <2>1, WrittenKeepsClosed DEF RowsStayClosed
<1>4. CASE Refresh
  <2> DEFINE b == refresher.batch
             rows == {l \in Lenders : Refreshable(refresher.seen[l])}
  <2>1. sub' = sub \/ \E B : PrepareBatch(rows, B, Written(b, rows, "superseded"))
    BY <1>4 DEF Refresh
  <2> HIDE DEF b, rows
  <2> QED
    BY <1>0, <1>1, <2>1, WrittenKeepsClosed, PrepareKeepsClosed
<1>5. CASE Access
  <2>1. sub' = sub \/ \E status \in {"viewed", "downloaded"} : Settle(visitor.sub, status)
    BY <1>5 DEF Access
  <2>2. visitor.sub \in Submissions
    BY <1>0 DEF Typed, VisitType
  <2> QED
    BY <1>0, <1>1, <2>1, <2>2, SettleKeepsClosed
<1>6. ASSUME NEW u \in Underwriters, Approve(u) PROVE RowsStayClosed
  <2>1. \E ready, stale \in SUBSET Lenders : Approves(u, ready, stale)
    BY <1>6, ApproveEffects DEF IInv
  <2>2. \A s \in Submissions : \/ sub'[s] = sub[s]
                               \/ sub'[s] = [sub[s] EXCEPT !.status = "queued"]
                               \/ sub'[s] = [sub[s] EXCEPT !.status = "package_stale"]
    BY <2>1 DEF Approves
  <2>3. \A s \in Submissions : sub[s] \in RowType
    BY <1>0 DEF Typed
  <2> QED
    BY <2>2, <2>3 DEF RowsStayClosed, RowType
<1>7. ASSUME NEW s \in Submissions, Claim(s) \/ Sweep(s) \/ Reconcile(s) PROVE RowsStayClosed
  <2>1. sub' = sub \/ \E status \in Statuses \ {"none"} : Settle(s, status)
    BY <1>7 DEF Claim, Sweep, Reconcile, Statuses, SENT
  <2> QED
    BY <1>0, <1>1, <2>1, SettleKeepsClosed
<1>8. ASSUME NEW s \in Submissions, RecordResult(s) PROVE RowsStayClosed
  <2>1. Outcome(delivery[s]) # "none" /\ Settle(s, Outcome(delivery[s]))
    BY <1>8 DEF RecordResult, Outcome
  <2> QED
    BY <1>0, <2>1, SettleKeepsClosed
<1>9. ASSUME NEW s \in Submissions, Revoke(s) \/ Expire(s) PROVE RowsStayClosed
  <2>1. /\ sub[s].status # "none"
        /\ \/ sub' = [sub EXCEPT ![s] = [sub[s] EXCEPT !.status = "revoked", !.ended = TRUE]]
           \/ sub' = [sub EXCEPT ![s] = [sub[s] EXCEPT !.ended = TRUE]]
    BY <1>0, <1>9 DEF Revoke, Expire, Typed
  <2>2. \A r \in Submissions : r # s => sub'[r] = sub[r]
    BY <1>0, <2>1 DEF Typed
  <2>3. /\ [sub[s] EXCEPT !.status = "revoked", !.ended = TRUE].status = "revoked"
        /\ [sub[s] EXCEPT !.status = "revoked", !.ended = TRUE].ended
        /\ [sub[s] EXCEPT !.ended = TRUE].status = sub[s].status
        /\ [sub[s] EXCEPT !.ended = TRUE].ended
    BY <1>0 DEF Typed, RowType
  <2>4. sub'[s].ended /\ sub'[s].status # "none"
    BY <1>0, <2>1, <2>3 DEF Typed
  <2> QED
    BY <2>2, <2>4 DEF RowsStayClosed
<1>10. ReadBatch \/ ReadPending \/ SourceChanges \/ Restart \/ UNCHANGED vars => sub' = sub
  BY DEF ReadBatch, ReadPending, SourceChanges, Restart, vars
<1>11. \A u \in Underwriters : Load(u) \/ Lock(u) \/ AccountChanges(u) => sub' = sub
  BY Zenon DEF Load, Lock, AccountChanges
<1>12. \A s \in Submissions : Send(s) \/ Open(s) => sub' = sub
  BY DEF Send, Open
<1> QED
  BY <1>1, <1>2, <1>3, <1>4, <1>5, <1>6, <1>7, <1>8, <1>9, <1>10,
     <1>11, <1>12 DEF Next, Queue

\* So that rows that do not exist stay open.
LEMMA BlankStaysOpen ==
    ASSUME BlankRowsAreOpen, RowsStayClosed
    PROVE  BlankRowsAreOpen'
  BY DEF BlankRowsAreOpen, RowsStayClosed

\* A step that queues nothing and mails nothing is one that subsides.
LEMMA QuietSubsides ==
    ASSUME QuietStep, RowsStayClosed
    PROVE  OneMail!Subside
<1>1. \A s \in Submissions : /\ QuietRow(s) /\ delivery'[s] \in {delivery[s], "none"}
                             /\ sub[s].ended => sub'[s].ended
  BY DEF QuietStep, RowsStayClosed
<1>2. \A s \in Submissions : sub'[s].status = "queued" => sub[s].status = "queued"
  BY <1>1 DEF QuietRow, SENT
<1>3. UNCHANGED <<approvals, emails>>
  BY DEF QuietStep
<1> QED
  BY <1>1, <1>2, <1>3 DEF OneMail!Subside, Waiting, UnderWay, Closed

\* approve_batch is the approval of the rows it queues.
LEMMA ApproveApproves ==
    ASSUME IInv, NEW u \in Underwriters, Approve(u), RowsStayClosed
    PROVE  \E S \in SUBSET Submissions : OneMail!Approve(S)
<1>0. Typed /\ TypeOK
  BY SameTypes DEF IInv
<1> DEFINE b == approval[u].batch
<1>1. PICK ready \in SUBSET Lenders, stale \in SUBSET Lenders : Approves(u, ready, stale)
  BY <1>0, ApproveEffects
<1>2. approval[u].pc = "locked" /\ UNCHANGED <<delivery, emails>>
  BY Zenon DEF Approve, mailVars
<1> DEFINE S == {s \in Submissions : s[1] = b /\ s[2] \in ready}
<1>3. \A s \in Submissions :
        /\ s \in S => sub'[s].status = "queued"
        /\ s \notin S => sub'[s] = sub[s] \/ sub'[s].status = "package_stale"
        /\ approvals'[s] = IF s \in S THEN approvals[s] + 1 ELSE approvals[s]
        /\ sub'[s].ended = sub[s].ended
  <2>1. \A s \in Submissions : sub[s] \in RowType
    BY <1>0 DEF Typed
  <2> QED
    BY <1>1, <2>1 DEF Approves, RowType
<1>4. ASSUME NEW s \in Submissions, \/ s[1] = b /\ s[2] \in ready
                                    \/ s[1] = b /\ s[2] \in stale
      PROVE  Untouched(s) /\ sub[s].status # "queued"
  <2>1. Approvable(approval[u].seen[s[2]])
    BY <1>1, <1>4 DEF Approves
  <2>2. s[2] \in Lenders /\ s = <<b, s[2]>>
    BY <1>4, Pairs
  <2> HIDE DEF b
  <2>3. /\ Untouched(<<approval[u].batch, s[2]>>)
        /\ sub[<<approval[u].batch, s[2]>>].status # "queued"
    BY <1>2, <2>1, <2>2 DEF IInv, ApproversSeeTruly
  <2> QED
    BY <2>2, <2>3 DEF b
<1>5. \A s \in Submissions \ S : sub'[s].status = "queued" <=> sub[s].status = "queued"
  <2>1. \A s \in Submissions : \/ sub'[s] = sub[s]
                               \/ s[1] = b /\ s[2] \in ready \cup stale
    BY <1>1 DEF Approves
  <2> QED
    BY <1>3, <1>4, <2>1
<1>6. approvals' = [s \in Submissions |-> IF s \in S THEN approvals[s] + 1 ELSE approvals[s]]
  <2>1. approvals' \in [Submissions -> 0 .. MaxApprovals]
    BY <1>0, ApproveEffects
  <2> HIDE DEF S
  <2> QED
    BY <1>3, <2>1
<1>7. S \in SUBSET Submissions
  OBVIOUS
<1>8. \A s \in S : s \in Submissions /\ Untouched(s) /\ sub[s].status # "queued"
  BY <1>4
<1> HIDE DEF S
<1>9. OneMail!Approve(S)
  BY <1>2, <1>3, <1>5, <1>6, <1>7, <1>8 DEF OneMail!Approve, Untouched, Waiting, UnderWay, Closed
<1> QED
  BY <1>7, <1>9

\* The claim of a delivery takes one row from the queue.
LEMMA ClaimPicksUp ==
    ASSUME IInv, NEW s \in Submissions, Claim(s), delivery' # delivery
    PROVE  OneMail!PickUp(s)
<1>0. Typed
  BY SameTypes DEF IInv
<1>1. /\ sub[s].status = "queued" /\ ~sub[s].ended
      /\ sub' = [sub EXCEPT ![s] = [sub[s] EXCEPT !.status = "sending"]]
      /\ delivery' = [delivery EXCEPT ![s] = "send"]
      /\ UNCHANGED <<approvals, emails>>
  BY <1>0 DEF Claim, Settle, Standing, mailVars, Typed
<1>2. \A r \in Submissions : r # s => sub'[r] = sub[r] /\ delivery'[r] = delivery[r]
  BY <1>0, <1>1 DEF Typed
<1>3. sub'[s].status = "sending" /\ sub'[s].ended = sub[s].ended /\ delivery'[s] = "send"
  BY <1>0, <1>1 DEF Typed, RowType
<1> QED
  BY <1>1, <1>2, <1>3 DEF OneMail!PickUp, Waiting, UnderWay, Closed

\* Sending mails a package under way that was not mailed, or nothing.
LEMMA SendMails ==
    ASSUME IInv, NEW s \in Submissions, Send(s), RowsStayClosed
    PROVE  OneMail!Mail(s) \/ OneMail!Subside
<1>0. Typed
  BY SameTypes DEF IInv
<1>1. /\ delivery[s] = "send" /\ UNCHANGED <<sub, approvals>>
      /\ emails' = emails \/ emails' = [emails EXCEPT ![s] = emails[s] + 1]
      /\ \E a \in {"ok", "refused", "unknown"} : delivery' = [delivery EXCEPT ![s] = a]
  BY DEF Send, rowVars
<1>2. emails[s] = 0
  BY <1>1 DEF IInv, SendsFirst
<1>3. \A r \in Submissions : delivery'[r] # "none" <=> delivery[r] # "none"
  BY <1>0, <1>1 DEF Typed
<1> QED
  BY <1>1, <1>2, <1>3 DEF OneMail!Mail, OneMail!Subside, Waiting, UnderWay, Closed

\* The pipeline is one that keeps its promise to a lender: nothing waits without
\* an approval of its own, nothing closed is picked up, nothing is mailed twice;
\* for any lenders, underwriters, versions and restarts.
THEOREM OneMailRefines == Spec => ImplementsOneMail
<1> DEFINE Blank == IInv /\ BlankRowsAreOpen
<1>1. Init => Blank /\ OneMail!Init
  <2> SUFFICES ASSUME Init PROVE Blank /\ OneMail!Init
    OBVIOUS
  <2>1. \A s \in Submissions : /\ sub[s].status = "none" /\ sub[s].ended = FALSE
                               /\ delivery[s] = "none"
    BY DEF Init, NoRow
  <2>2. approvals = [s \in Submissions |-> 0] /\ emails = [s \in Submissions |-> 0]
    BY DEF Init
  <2> QED
    BY <2>1, <2>2, InitInvariant DEF OneMail!Init, BlankRowsAreOpen, Waiting, UnderWay, Closed
<1>2. Blank /\ [Next]_vars => Blank'
  BY NextKeeps, ClosedStays, BlankStaysOpen
<1>3. Blank /\ [Next]_vars => OneMail!Next
  <2> SUFFICES ASSUME IInv, BlankRowsAreOpen, [Next]_vars PROVE OneMail!Next
    OBVIOUS
  <2>1. RowsStayClosed /\ Typed'
    BY ClosedStays, NextType, SameTypes DEF IInv
  <2>2. QuietStep => OneMail!Next
    BY <2>1, QuietSubsides DEF OneMail!Next
  <2>3. CASE UNCHANGED vars
    <3>1. UNCHANGED <<batch, sub, approvals, attempts, delivery, emails, approval,
                      reader, refresher, visitor>>
      BY <2>3 DEF vars, rowVars, requestVars, mailVars
    <3>2. QuietStep
      BY <3>1 DEF QuietStep, QuietRow, QuietRequest, Exists
    <3> QED
      BY <2>2, <3>2
  <2>4. ASSUME NEW u \in Underwriters, Lock(u) PROVE OneMail!Next
    <3>1. UNCHANGED <<sub, approvals, delivery, emails>>
      BY <2>4 DEF Lock, rowVars, mailVars
    <3> QED
      BY <3>1 DEF OneMail!Next, OneMail!Subside, Waiting, UnderWay, Closed
  <2>5. ASSUME NEW u \in Underwriters, Approve(u) PROVE OneMail!Next
    BY <2>1, <2>5, ApproveApproves DEF OneMail!Next
  <2>6. ASSUME NEW s \in Submissions, Claim(s), delivery' # delivery PROVE OneMail!Next
    BY <2>6, ClaimPicksUp DEF OneMail!Next
  <2>7. ASSUME NEW s \in Submissions, Send(s) PROVE OneMail!Next
    BY <2>1, <2>7, SendMails DEF OneMail!Next
  <2>8. \/ Prepare \/ ReadBatch \/ MarkStale \/ ReadPending \/ Refresh \/ Access
        \/ SourceChanges \/ Restart
        \/ \E u \in Underwriters : Load(u) \/ AccountChanges(u)
        \/ \E s \in Submissions :
              \/ Claim(s) /\ delivery' = delivery
              \/ RecordResult(s) \/ Sweep(s) \/ Revoke(s) \/ Reconcile(s)
              \/ Open(s) \/ Expire(s)
        => QuietStep
    BY <2>1, QuietActions
  <2> QED
    BY <2>2, <2>3, <2>4, <2>5, <2>6, <2>7, <2>8 DEF Next, Queue
<1> HIDE DEF Blank
<1>4. UNCHANGED vars => UNCHANGED <<Waiting, UnderWay, approvals, emails, Closed>>
  BY DEF vars, rowVars, mailVars, Waiting, UnderWay, Closed
<1>5. Spec => OneMail!Spec
  BY <1>1, <1>2, <1>3, <1>4, PTL DEF Spec, OneMail!Spec
<1> QED
  BY <1>5 DEF ImplementsOneMail
=============================================================================
