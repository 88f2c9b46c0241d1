-------------------------- MODULE ProspectOutreach --------------------------
(***************************************************************************)
(* The emails drafted to one prospect: reviewed, edited, voided, approved, *)
(* or sent by the scheduler when their review window has elapsed.          *)
(*                                                                         *)
(*   app/services/prospect_outreach.py           drafts, dispatch_draft    *)
(*   app/dealer_os/prospect_outreach_router.py   requests on a draft       *)
(*   app/dealer_os/services/prospects.py         reclassify, undo          *)
(*                                                                         *)
(* A session is one transaction after another on rows it locks one by one: *)
(* its plan is the sequence of locks it still has to take, and what it     *)
(* writes is seen by others at its commit.  Its identity map keeps the     *)
(* instance of a row that it loaded first: SELECT ... FOR UPDATE locks the *)
(* row and does not refresh the instance (no populate_existing), nor does  *)
(* a commit (expire_on_commit=False).  An UPDATE writes the columns that   *)
(* differ from what was loaded.                                            *)
(*                                                                         *)
(* All drafts go to the same addresses: the prospect's own, Primary, and   *)
(* the copies.  Checks on copy, sender, creator and attachments fail at    *)
(* random.  The creation of drafts is left out.                            *)
(***************************************************************************)
EXTENDS Naturals, FiniteSets, Sequences

CONSTANTS Drafts,       \* drafts of the prospect
          Recipients,   \* their addresses, sorted: the order of the advisory locks
          Primary,      \* email_normalized of the prospect
          Workers,      \* runs of job_prospect_email_dispatch, one per process
          Clients,      \* requests in flight
          NoOne,        \* holds a lock that is free
          MaxRequests,  \* bound
          MaxCrashes    \* bound

Addresses == {Recipients[i] : i \in DOMAIN Recipients}
Sessions  == Workers \cup Clients

ASSUME OutreachAssumption ==
    /\ IsFiniteSet(Drafts)
    /\ Recipients \in Seq(Addresses) /\ Primary \in Addresses
    /\ Workers \cap Clients = {} /\ NoOne \notin Sessions \cup Drafts
    /\ MaxRequests \in Nat /\ MaxCrashes \in Nat

VARIABLES draft,       \* dealer_prospect_email_drafts, as committed
          prospect,    \* dealer_prospects
          suppressed,  \* active rows of email_suppressions
          holder,      \* row locks and advisory locks
          session,     \* what each session is doing
          mail,        \* emails of each draft that SES took
          asked, crashes

rows == <<draft, prospect, suppressed>>
vars == <<rows, holder, session, mail, asked, crashes>>

-----------------------------------------------------------------------------
Unsent   == {"pending_review", "editing", "blocked"}
Statuses == Unsent \cup {"sending", "sent", "cancelled", "failed"}

\* manual: composed by hand or with instructions; auto: auto_send_at is null,
\* ahead or past; body: which text; oversized: the failure_code is
\* attachment_bundle_too_large.
Rows == [manual: BOOLEAN, status: Statuses, version: Nat, auto: {"none", "later", "due"},
         body: Nat, oversized: BOOLEAN]

\* kind: the classification the drafts were written for, or another one.
\* latest: the outcome that made the drafts is the last change by version.
Prospects == [dnc: BOOLEAN, archived: BOOLEAN, kind: {"asked", "other"}, latest: BOOLEAN]

ProspectLock == <<"prospect">>
DraftLock(d) == <<"draft", d>>
AddressLock(a) == <<"address", a>>
Locks == {ProspectLock} \cup {DraftLock(d) : d \in Drafts} \cup {AddressLock(a) : a \in Addresses}

AddressLocks == [i \in DOMAIN Recipients |-> AddressLock(Recipients[i])]

\* Requests with an expected_version.
Versioned == {"start_editing", "edit", "cancel", "bundle", "approve"}
Ops == Versioned \cup {"undo", "reclassify", "set_dnc", "archive", "restore", "suppress",
                       "unsubscribe", "dispatch"}

\* Requests that load the prospect as visible: 404 when it is archived.
NeedsVisible == Ops \ {"restore", "suppress", "unsubscribe", "dispatch"}

\* The locks of an operation in the order of the code.  The request handlers
\* lock the draft first (_visible_draft), undo_activity the prospect first.
Plan(kind, d, a) ==
    CASE kind \in Versioned -> <<DraftLock(d), ProspectLock>>
      [] kind \in {"undo", "dispatch"} -> <<ProspectLock, DraftLock(d)>>
      [] kind \in {"reclassify", "set_dnc", "archive", "restore"} -> <<ProspectLock>>
      [] kind = "suppress" ->
            (IF a = Primary THEN <<ProspectLock>> ELSE <<>>) \o <<AddressLock(a)>>
      [] kind = "unsubscribe" ->
            <<DraftLock(d)>> \o (IF a = Primary THEN <<ProspectLock>> ELSE <<>>)
                \o <<AddressLock(a), ProspectLock>>

Stages == {"idle", "locking", "screen", "claim", "recheck", "handoff", "record",
           "sweep", "finish"}

FirstProspect == [dnc |-> FALSE, archived |-> FALSE, kind |-> "asked", latest |-> TRUE]

\* A manual draft waits for a person; of another the review window runs; a
\* bundle over the limit blocks either.
FirstRow(manual, over) ==
    [ manual |-> manual, version |-> 1, body |-> 1, oversized |-> over,
      status |-> IF over THEN "blocked" ELSE IF manual THEN "editing" ELSE "pending_review",
      auto |-> IF over \/ manual THEN "none" ELSE "later" ]

\* row, person: the instances of the draft and of the prospect in the session.
\* expected, reviewed: the version a request names, and the text it showed.
Idle == [ pc |-> "idle", op |-> "dispatch", draft |-> NoOne, address |-> Primary,
          expected |-> 0, reviewed |-> 0, plan |-> <<>>, next |-> "idle", todo |-> {},
          row |-> FirstRow(TRUE, FALSE), person |-> FirstProspect, ok |-> FALSE ]

TypeOK ==
    /\ draft \in [Drafts -> Rows]
    /\ prospect \in Prospects
    /\ suppressed \subseteq Addresses
    /\ holder \in [Locks -> Sessions \cup {NoOne}]
    /\ session \in [Sessions ->
          [ pc: Stages, op: Ops, draft: Drafts \cup {NoOne}, address: Addresses,
            expected: Nat, reviewed: Nat, plan: Seq(Locks), next: Stages,
            todo: SUBSET Drafts, row: Rows, person: Prospects, ok: BOOLEAN ]]
    /\ mail \in [Drafts -> Seq([by: Sessions, body: Nat, reviewed: Nat])]
    /\ asked \in 0 .. MaxRequests
    /\ crashes \in 0 .. MaxCrashes

Init ==
    /\ draft \in [Drafts -> {FirstRow(manual, over) : manual, over \in BOOLEAN}]
    /\ prospect = FirstProspect
    /\ suppressed = {}
    /\ holder = [l \in Locks |-> NoOne]
    /\ session = [s \in Sessions |-> Idle]
    /\ mail = [d \in Drafts |-> <<>>]
    /\ asked = 0
    /\ crashes = 0

-----------------------------------------------------------------------------
(* Locks and transactions *)

Released(s) == [l \in Locks |-> IF holder[l] = s THEN NoOne ELSE holder[l]]

\* The end of a session, by commit or rollback; a worker goes on with its list.
Leave(s) ==
    /\ holder' = Released(s)
    /\ session' = [session EXCEPT ![s] = [Idle EXCEPT !.todo = session[s].todo]]

Wait(s, locks, stage) ==
    session' = [session EXCEPT ![s].pc = "locking", ![s].plan = locks, ![s].next = stage]

\* A first load fills the identity map, a later one leaves it alone.
Loaded(s, l) ==
    [ session[s] EXCEPT
        !.pc = IF Tail(session[s].plan) = <<>> THEN session[s].next ELSE @,
        !.plan = Tail(@),
        !.row = IF session[s].op = "approve" /\ session[s].next = "screen" /\ l = DraftLock(session[s].draft)
                THEN draft[session[s].draft] ELSE @,
        !.person = IF session[s].next = "screen" /\ l = ProspectLock THEN prospect ELSE @ ]

\* The next SELECT ... FOR UPDATE or pg_advisory_xact_lock of the plan.
Acquire(s) ==
    /\ session[s].pc = "locking" /\ session[s].plan # <<>>
    /\ LET l == Head(session[s].plan) IN
         /\ holder[l] \in {NoOne, s}
         /\ IF /\ l = ProspectLock /\ prospect.archived
               /\ session[s].op \in NeedsVisible /\ session[s].next # "recheck"
            THEN Leave(s)
            ELSE /\ holder' = [holder EXCEPT ![l] = s]
                 /\ session' = [session EXCEPT ![s] = Loaded(s, l)]
    /\ UNCHANGED <<rows, mail, asked, crashes>>

\* Whom s waits for.
Blocker(s) ==
    IF session[s].pc = "locking" /\ session[s].plan # <<>> /\ holder[Head(session[s].plan)] # s
    THEN holder[Head(session[s].plan)] ELSE NoOne

\* PostgreSQL aborts one session of a cycle: an error to the client, and to
\* dispatch_due_drafts an exception that it logs.
Deadlocked(s) == \E C \in SUBSET Sessions : s \in C /\ {Blocker(t) : t \in C} = C

Abort(s) ==
    /\ Deadlocked(s)
    /\ Leave(s)
    /\ UNCHANGED <<rows, mail, asked, crashes>>

Crash(s) ==
    /\ session[s].pc # "idle" /\ crashes < MaxCrashes
    /\ crashes' = crashes + 1
    /\ holder' = Released(s)
    /\ session' = [session EXCEPT ![s] = Idle]
    /\ UNCHANGED <<rows, mail, asked>>

-----------------------------------------------------------------------------
(* Requests *)

Asks == ((Versioned \cup {"undo"}) \X Drafts \X {Primary})
            \cup ({"unsubscribe"} \X Drafts \X Addresses)
            \cup ({"reclassify", "set_dnc", "archive", "restore"} \X {NoOne} \X {Primary})
            \cup ({"suppress"} \X {NoOne} \X Addresses)

\* Any free slot of Clients will do.
Free == CHOOSE s \in Clients : session[s].pc = "idle"

\* The page of the client shows the draft as it is now.
Ask(s, kind, d, a) ==
    /\ session[s].pc = "idle" /\ s = Free /\ asked < MaxRequests
    /\ asked' = asked + 1
    /\ session' = [session EXCEPT ![s] =
          [ Idle EXCEPT
              !.pc = "locking", !.op = kind, !.draft = d, !.address = a,
              !.expected = IF kind \in Versioned THEN draft[d].version ELSE 0,
              !.reviewed = IF kind \in Versioned THEN draft[d].body ELSE 0,
              !.plan = Plan(kind, d, a),
              !.next = IF kind = "approve" THEN "screen"
                       ELSE IF kind = "reclassify" THEN "sweep" ELSE "finish" ]]
    /\ UNCHANGED <<rows, holder, mail, crashes>>

\* A request that holds its locks writes, commits and ends.
Finish(s, kind) ==
    /\ session[s].pc = "finish" /\ session[s].op = kind
    /\ Leave(s)
    /\ UNCHANGED <<mail, asked, crashes>>

\* _check_version
Current(s, d) == draft[d].version = session[s].expected

StartEditing(s) ==
    LET d == session[s].draft IN
    /\ Finish(s, "start_editing")
    /\ draft' = IF Current(s, d) /\ draft[d].status = "pending_review"
                THEN [draft EXCEPT ![d].status = "editing", ![d].auto = "none",
                                   ![d].version = @ + 1]
                ELSE draft
    /\ UNCHANGED <<prospect, suppressed>>

\* Mutant of Edited: a draft in edit mode keeps its version.
Edited_InPlace(d) ==
    [ draft[d] EXCEPT !.status = "editing", !.auto = "none", !.body = @ + 1,
                      !.version = IF draft[d].status = "editing" THEN @ ELSE @ + 1 ]

Edited(d) ==
    [draft[d] EXCEPT !.status = "editing", !.auto = "none", !.body = @ + 1, !.version = @ + 1]

EditDraft(s) ==
    LET d == session[s].draft IN
    /\ Finish(s, "edit")
    /\ draft' = IF Current(s, d) /\ draft[d].status \in {"pending_review", "editing"}
                THEN [draft EXCEPT ![d] = Edited(d)] ELSE draft
    /\ UNCHANGED <<prospect, suppressed>>

\* Mutant of Voided: a status of its own for what a person voids.
Voided_Void(d) == [draft[d] EXCEPT !.status = "voided", !.auto = "none", !.version = @ + 1]

Voided(d) == [draft[d] EXCEPT !.status = "cancelled", !.auto = "none", !.version = @ + 1]

\* Mutant of Cancellable: a delivery that has begun is recalled.
Cancellable_Sending(d) == draft[d].status \in Unsent \cup {"sending"}

Cancellable(d) == draft[d].status \in Unsent

CancelDraft(s) ==
    LET d == session[s].draft IN
    /\ Finish(s, "cancel")
    /\ draft' = IF Cancellable(d) /\ Current(s, d)
                THEN [draft EXCEPT ![d] = Voided(d)] ELSE draft
    /\ UNCHANGED <<prospect, suppressed>>

\* An oversized draft becomes a link, to be reviewed again.
SelectSecureBundle(s) ==
    LET d == session[s].draft IN
    /\ Finish(s, "bundle")
    /\ draft' = IF Current(s, d) /\ draft[d].status = "blocked" /\ draft[d].oversized
                THEN [draft EXCEPT ![d] = [FirstRow(draft[d].manual, FALSE) EXCEPT
                         !.version = draft[d].version + 1, !.body = draft[d].body]]
                ELSE draft
    /\ UNCHANGED <<prospect, suppressed>>

\* undo_activity of the outcome that made the draft: only while it is the
\* latest action, and before delivery.
Undo(s) ==
    LET d == session[s].draft IN
    /\ Finish(s, "undo")
    /\ IF prospect.latest /\ draft[d].status \in Unsent \cup {"cancelled"}
       THEN /\ draft' = IF draft[d].status \in Unsent
                        THEN [draft EXCEPT ![d] = Voided(d)] ELSE draft
            /\ prospect' = [prospect EXCEPT !.dnc = FALSE, !.latest = FALSE]
       ELSE UNCHANGED <<draft, prospect>>
    /\ UNCHANGED suppressed

\* assert_reclassification_allowed selects the drafts it can still void ...
Sweep(s) ==
    /\ session[s].pc = "sweep"
    /\ \E order \in [1 .. Cardinality({d \in Drafts : draft[d].status \in Unsent}) -> Drafts] :
         /\ {order[i] : i \in DOMAIN order} = {d \in Drafts : draft[d].status \in Unsent}
         /\ session' = [session EXCEPT
               ![s].pc = IF DOMAIN order = {} THEN "finish" ELSE "locking",
               ![s].plan = [i \in DOMAIN order |-> DraftLock(order[i])],
               ![s].next = "finish"]
    /\ UNCHANGED <<rows, holder, mail, asked, crashes>>

\* ... and, once it has locked them, voids those that still are.
Voids(s, d) == holder[DraftLock(d)] = s /\ draft[d].status \in Unsent

Reclassify(s) ==
    /\ Finish(s, "reclassify")
    /\ draft' = [d \in Drafts |-> IF Voids(s, d) THEN Voided(d) ELSE draft[d]]
    /\ prospect' = [prospect EXCEPT !.kind = IF @ = "asked" THEN "other" ELSE "asked",
                                    !.latest = FALSE]
    /\ UNCHANGED suppressed

\* An outcome such as not_interested.
SetDoNotContact(s) ==
    /\ Finish(s, "set_dnc")
    /\ prospect' = [prospect EXCEPT !.dnc = TRUE, !.latest = FALSE]
    /\ UNCHANGED <<draft, suppressed>>

Archive(s) ==
    /\ Finish(s, "archive")
    /\ prospect' = [prospect EXCEPT !.archived = TRUE, !.latest = FALSE]
    /\ UNCHANGED <<draft, suppressed>>

Restore(s) ==
    /\ Finish(s, "restore")
    /\ prospect' = IF prospect.archived
                   THEN [prospect EXCEPT !.archived = FALSE, !.latest = FALSE] ELSE prospect
    /\ UNCHANGED <<draft, suppressed>>

\* set_suppression: an administrator, a bounce, a complaint, an outcome.
Suppress(s) ==
    /\ Finish(s, "suppress")
    /\ suppressed' = suppressed \cup {session[s].address}
    /\ UNCHANGED <<draft, prospect>>

\* _apply_unsubscribe
Unsubscribe(s) ==
    /\ Finish(s, "unsubscribe")
    /\ suppressed' = suppressed \cup {session[s].address}
    /\ prospect' = IF session[s].address = Primary
                   THEN [prospect EXCEPT !.dnc = TRUE] ELSE prospect
    /\ UNCHANGED draft

\* revoke_suppression locks its row only.
Revoke(a) ==
    /\ a \in suppressed /\ asked < MaxRequests
    /\ asked' = asked + 1
    /\ suppressed' = suppressed \ {a}
    /\ UNCHANGED <<draft, prospect, holder, session, mail, crashes>>

-----------------------------------------------------------------------------
(* dispatch_draft *)

\* dispatch_due_drafts selects the ids, ...
Scan(w) ==
    LET due == {d \in Drafts : draft[d].status = "pending_review" /\ draft[d].auto = "due"} IN
    /\ session[w].pc = "idle" /\ session[w].todo = {} /\ due # {}
    /\ session' = [session EXCEPT ![w].todo = due]
    /\ UNCHANGED <<rows, holder, mail, asked, crashes>>

\* ... and each draft gets a session, that first loads it without a lock.
Hint(w) ==
    /\ session[w].pc = "idle"
    /\ \E d \in session[w].todo :
         session' = [session EXCEPT ![w] =
            [ Idle EXCEPT !.pc = "locking", !.draft = d, !.row = draft[d],
                          !.plan = Plan("dispatch", d, Primary), !.next = "screen",
                          !.todo = session[w].todo \ {d} ]]
    /\ UNCHANGED <<rows, holder, mail, asked, crashes>>

\* The UPDATE of a flush: a column that is as it was loaded is not written.
Column(loaded, mine, committed) == IF mine = loaded THEN committed ELSE mine

Flush(s, mine) ==
    LET d == session[s].draft
        old == session[s].row
    IN  draft' = [draft EXCEPT ![d] =
          [ manual    |-> draft[d].manual,
            status    |-> Column(old.status, mine.status, draft[d].status),
            version   |-> Column(old.version, mine.version, draft[d].version),
            auto      |-> Column(old.auto, mine.auto, draft[d].auto),
            body      |-> Column(old.body, mine.body, draft[d].body),
            oversized |-> Column(old.oversized, mine.oversized, draft[d].oversized) ]]

Closed(row, status) == [row EXCEPT !.status = status, !.auto = "none", !.version = @ + 1]

\* Mutant of Block: the session ends without a commit.
Block_RolledBack(s) == Leave(s) /\ UNCHANGED draft

\* _block_draft: some other failure_code, and a commit.
Block(s) ==
    LET d == session[s].draft IN
    /\ draft' = [draft EXCEPT ![d] =
          [ draft[d] EXCEPT !.status = "blocked", !.version = session[s].row.version + 1,
                !.auto = Column(session[s].row.auto, "none", draft[d].auto), !.oversized = FALSE ]]
    /\ Leave(s)

\* Mutant of Allowed: a delivery that failed may be approved again.
Allowed_Failed(s) ==
    IF session[s].op = "approve"
    THEN session[s].row.status \in {"pending_review", "editing", "failed"}
         /\ session[s].row.version = session[s].expected
    ELSE session[s].row.status = "pending_review" /\ session[s].row.auto = "due"

Allowed(s) ==
    IF session[s].op = "approve"
    THEN session[s].row.status \in {"pending_review", "editing"}
         /\ session[s].row.version = session[s].expected
    ELSE session[s].row.status = "pending_review" /\ session[s].row.auto = "due"

Blocked(person) == person.archived \/ person.kind # "asked"

\* Up to the locks of the addresses; any other check may fail too.
Screen(s) ==
    /\ session[s].pc = "screen"
    /\ \/ /\ ~Allowed(s)
          /\ Leave(s)
          /\ UNCHANGED draft
       \/ /\ Allowed(s)
          /\ Block(s)
       \/ /\ Allowed(s) /\ ~Blocked(session[s].person)
          /\ Wait(s, AddressLocks, "claim")
          /\ UNCHANGED <<draft, holder>>
    /\ UNCHANGED <<prospect, suppressed, mail, asked, crashes>>

\* The claim is committed, and with it all locks are given back.
Claim(s) ==
    /\ session[s].pc = "claim"
    /\ \/ Block(s)
       \/ LET mine == Closed(session[s].row, "sending") IN
          /\ suppressed \cap Addresses = {} /\ ~session[s].person.dnc
          /\ Flush(s, mine)
          /\ holder' = Released(s)
          /\ session' = [session EXCEPT
                ![s].pc = "locking", ![s].next = "recheck", ![s].row = mine,
                ![s].plan = <<ProspectLock, DraftLock(session[s].draft)>> \o AddressLocks]
    /\ UNCHANGED <<prospect, suppressed, mail, asked, crashes>>

\* Mutant of Clear: the suppressions were looked at before the claim.
Clear_Claimed(s) ==
    ~prospect.archived /\ ~session[s].person.dnc /\ ~Blocked(session[s].person)

\* Mutant of Clear: the archive too is looked for in the instance at hand.
Clear_Loaded(s) ==
    suppressed \cap Addresses = {} /\ ~session[s].person.dnc /\ ~Blocked(session[s].person)

\* The second checks: the suppressions by a query, the archive in the query of
\* load_visible_prospect, and the rest on the instances that the session has had
\* since before the claim.
Clear(s) ==
    /\ suppressed \cap Addresses = {}
    /\ ~prospect.archived
    /\ ~session[s].person.dnc /\ ~Blocked(session[s].person)

Recheck(s) ==
    /\ session[s].pc = "recheck"
    /\ \/ Block(s)
       \/ /\ Clear(s)
          /\ session' = [session EXCEPT ![s].pc = "handoff"]
          /\ UNCHANGED <<draft, holder>>
    /\ UNCHANGED <<prospect, suppressed, mail, asked, crashes>>

\* deliver_email never raises: an email SES took may look refused.
HandOff(s) ==
    /\ session[s].pc = "handoff"
    /\ \E taken, ok \in BOOLEAN :
         /\ ok => taken
         /\ mail' = IF taken
                    THEN [mail EXCEPT ![session[s].draft] = Append(@,
                            [by |-> s, body |-> session[s].row.body,
                             reviewed |-> session[s].reviewed])]
                    ELSE mail
         /\ session' = [session EXCEPT ![s].pc = "record", ![s].ok = ok]
    /\ UNCHANGED <<rows, holder, asked, crashes>>

\* The outcome, and the move of a New prospect to Emailed.
Record(s) ==
    /\ session[s].pc = "record"
    /\ Flush(s, Closed(session[s].row, IF session[s].ok THEN "sent" ELSE "failed"))
    /\ \/ UNCHANGED prospect
       \/ /\ session[s].ok /\ ~prospect.archived
          /\ prospect' = [prospect EXCEPT !.latest = FALSE]
    /\ Leave(s)
    /\ UNCHANGED <<suppressed, mail, asked, crashes>>

\* The review window of a draft ends.
ReviewElapses(d) ==
    /\ draft[d].auto = "later"
    /\ draft' = [draft EXCEPT ![d].auto = "due"]
    /\ UNCHANGED <<prospect, suppressed, holder, session, mail, asked, crashes>>

-----------------------------------------------------------------------------
Commit(s) ==
    \/ StartEditing(s) \/ EditDraft(s) \/ CancelDraft(s) \/ SelectSecureBundle(s)
    \/ Undo(s) \/ Reclassify(s) \/ SetDoNotContact(s) \/ Archive(s) \/ Restore(s)
    \/ Suppress(s) \/ Unsubscribe(s)

Dispatch(s) == Screen(s) \/ Claim(s) \/ Recheck(s) \/ HandOff(s) \/ Record(s)

Step(s) == Acquire(s) \/ Abort(s) \/ Sweep(s) \/ Commit(s) \/ Dispatch(s)

Next ==
    \/ \E s \in Sessions : Step(s) \/ Crash(s)
    \/ \E w \in Workers : Scan(w) \/ Hint(w)
    \/ \E s \in Clients, x \in Asks : Ask(s, x[1], x[2], x[3])
    \/ \E a \in Addresses : Revoke(a)
    \/ \E d \in Drafts : ReviewElapses(d)

\* The scheduler calls the job again and again, sessions run, and PostgreSQL
\* looks for deadlocks and grants a lock to those that wait for it in turn;
\* nobody has to ask for anything.
Fairness ==
    /\ \A s \in Sessions : WF_vars(Step(s)) /\ SF_vars(Acquire(s))
    /\ \A w \in Workers : WF_vars(Scan(w) \/ Hint(w))

Spec == Init /\ [][Next]_vars /\ Fairness

-----------------------------------------------------------------------------
(* Properties *)

\* When an email is handed to the provider none of its addresses is on the
\* suppression list, though they could be put there after the claim: the locks of
\* _lock_suppression_addresses and the query after them see to it.
NoneSuppressed ==
    \A s \in Sessions : session[s].pc = "handoff" => suppressed \cap Addresses = {}

\* Nor is the prospect archived by then: the second load_visible_prospect reads
\* the row again, and its lock is kept until the provider has answered.
NoneArchived == \A s \in Sessions : session[s].pc = "handoff" => ~prospect.archived

\* What a person approves is sent as that person saw it: expected_version binds
\* the approval to the text, whatever was edited meanwhile.
SentAsReviewed ==
    \A d \in Drafts : \A i \in DOMAIN mail[d] :
        mail[d][i].by \in Clients => mail[d][i].body = mail[d][i].reviewed

\* "Claim, commit, and deliver one draft at most once."  The docstring of
\* dispatch_draft, of every draft.
DeliveredOnce == \A d \in Drafts : Len(mail[d]) <= 1

\* The same for the drafts that only a person sends, whatever requests, crashes
\* and answers get lost.
ManualDeliveredOnce == \A d \in Drafts : draft[d].manual => Len(mail[d]) <= 1

\* Such a draft keeps the state in which it ended: once voided, sent or failed it
\* is not sent, edited, blocked or revived by a request that was under way.
ManualEndsOnce ==
    [][\A d \in Drafts : draft[d].manual /\ draft[d].status \in {"cancelled", "sent", "failed"}
                            => draft'[d] = draft[d]]_vars

\* "Voided before send - this email will not be delivered": the activity that
\* cancel_draft writes, of a draft only a person sends.
ManualVoidedUnsent ==
    \A d \in Drafts : draft[d].manual /\ draft[d].status = "cancelled" => mail[d] = <<>>

\* A draft whose review window has passed does not stay in review, though the
\* requests lock the draft and then the prospect, dispatch and undo the prospect
\* and then the draft, and PostgreSQL aborts one of two that meet half-way.
DueLeavesReview ==
    \A d \in Drafts : (draft[d].status = "pending_review" /\ draft[d].auto = "due")
                         ~> ~(draft[d].status = "pending_review" /\ draft[d].auto = "due")
=============================================================================
