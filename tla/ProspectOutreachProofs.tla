----------------------- MODULE ProspectOutreachProofs -----------------------
(***************************************************************************)
(* For any drafts, addresses, workers, requests and crashes: the types,    *)
(* that nothing is handed to the provider for a suppressed address or an   *)
(* archived prospect, and what becomes of a draft that only a person       *)
(* sends.                                                                  *)
(***************************************************************************)
EXTENDS ProspectOutreach, FiniteSetTheorems, SequenceTheorems, TLAPS

-----------------------------------------------------------------------------
(* Types.                                                                  *)

SessionType ==
    [ pc: Stages, op: Ops, draft: Drafts \cup {NoOne}, address: Addresses,
      expected: Nat, reviewed: Nat, plan: Seq(Locks), next: Stages,
      todo: SUBSET Drafts, row: Rows, person: Prospects, ok: BOOLEAN ]

MailType == [by: Sessions, body: Nat, reviewed: Nat]

\* A session that needs a draft has one.
Aiming ==
    \A s \in Sessions :
        \/ session[s].op \in Versioned \cup {"undo", "unsubscribe"}
        \/ session[s].op = "dispatch" /\ session[s].pc # "idle"
        => session[s].draft \in Drafts

\* TypeOK with its record sets named, and what the types need of the sessions.
Typed ==
    /\ draft \in [Drafts -> Rows]
    /\ prospect \in Prospects
    /\ suppressed \subseteq Addresses
    /\ holder \in [Locks -> Sessions \cup {NoOne}]
    /\ session \in [Sessions -> SessionType]
    /\ mail \in [Drafts -> Seq(MailType)]
    /\ asked \in 0 .. MaxRequests
    /\ crashes \in 0 .. MaxCrashes
    /\ Aiming

LEMMA TypedIsTypeOK == Typed => TypeOK
  BY DEF Typed, TypeOK, SessionType, MailType

LEMMA FirstTypes ==
    /\ \A manual, over \in BOOLEAN : FirstRow(manual, over) \in Rows
    /\ FirstProspect \in Prospects
  BY DEF FirstRow, Rows, Statuses, Unsent, FirstProspect, Prospects

LEMMA IdleType == Idle \in SessionType
<1>1. "dispatch" \in Ops /\ "idle" \in Stages /\ Primary \in Addresses
  BY OutreachAssumption DEF Ops, Stages
<1>2. <<>> \in Seq(Locks)
  OBVIOUS
<1> QED
  BY <1>1, <1>2, FirstTypes DEF Idle, SessionType

\* An idle session needs no draft.
LEMMA IdleAims == Idle.pc = "idle" /\ Idle.op \notin Versioned \cup {"undo", "unsubscribe"}
  BY DEF Idle, Versioned

LEMMA InitTyped == Init => Typed
<1> SUFFICES ASSUME Init PROVE Typed
  OBVIOUS
<1>1. \A s \in Sessions : session[s] = Idle
  BY DEF Init
<1>2. Aiming
  BY <1>1, IdleAims DEF Aiming
<1>3. draft \in [Drafts -> Rows]
  BY FirstTypes DEF Init
<1>4. session \in [Sessions -> SessionType]
  BY IdleType DEF Init
<1> QED
  BY <1>2, <1>3, <1>4, FirstTypes, OutreachAssumption DEF Init, Typed

\* Every lock the code takes is one of Locks.
LEMMA LockTypes ==
    /\ ProspectLock \in Locks
    /\ \A d \in Drafts : DraftLock(d) \in Locks
    /\ \A a \in Addresses : AddressLock(a) \in Locks
    /\ AddressLocks \in Seq(Locks)
    /\ Len(AddressLocks) = Len(Recipients)
<1>1. /\ ProspectLock \in Locks
      /\ \A d \in Drafts : DraftLock(d) \in Locks
      /\ \A a \in Addresses : AddressLock(a) \in Locks
  BY DEF Locks
<1>2. Recipients \in Seq(Addresses)
  BY OutreachAssumption
<1>3. Len(Recipients) \in Nat /\ DOMAIN Recipients = 1 .. Len(Recipients)
  BY <1>2
<1>4. \A i \in 1 .. Len(Recipients) : Recipients[i] \in Addresses
  BY <1>3 DEF Addresses
<1>5. AddressLocks \in [1 .. Len(Recipients) -> Locks]
  BY <1>1, <1>3, <1>4 DEF AddressLocks
<1> QED
  BY <1>1, <1>3, <1>5

\* The requests as the tuples of Asks.
AskOf(kind, d, a) ==
    /\ kind \in Ops \ {"dispatch"}
    /\ d \in Drafts \cup {NoOne}
    /\ a \in Addresses
    /\ kind \in Versioned \cup {"undo", "unsubscribe"} => d \in Drafts

LEMMA AsksAre == \A x \in Asks : AskOf(x[1], x[2], x[3])
<1> SUFFICES ASSUME NEW x \in Asks PROVE AskOf(x[1], x[2], x[3])
  OBVIOUS
<1>0. Primary \in Addresses
  BY OutreachAssumption
<1>1. CASE x \in (Versioned \cup {"undo"}) \X Drafts \X {Primary}
  BY <1>0, <1>1 DEF AskOf, Ops, Versioned
<1>2. CASE x \in {"unsubscribe"} \X Drafts \X Addresses
  BY <1>2 DEF AskOf, Ops, Versioned
<1>3. CASE x \in {"reclassify", "set_dnc", "archive", "restore"} \X {NoOne} \X {Primary}
  BY <1>0, <1>3 DEF AskOf, Ops, Versioned
<1>4. CASE x \in {"suppress"} \X {NoOne} \X Addresses
  BY <1>4 DEF AskOf, Ops, Versioned
<1> QED
  BY <1>1, <1>2, <1>3, <1>4 DEF Asks

\* The locks of each operation, in their order.
LEMMA PlanIs ==
    ASSUME NEW d, NEW a
    PROVE  /\ \A kind \in Versioned : Plan(kind, d, a) = <<DraftLock(d), ProspectLock>>
           /\ \A kind \in {"undo", "dispatch"} :
                 Plan(kind, d, a) = <<ProspectLock, DraftLock(d)>>
           /\ \A kind \in {"reclassify", "set_dnc", "archive", "restore"} :
                 Plan(kind, d, a) = <<ProspectLock>>
           /\ Plan("suppress", d, a) =
                 (IF a = Primary THEN <<ProspectLock>> ELSE <<>>) \o <<AddressLock(a)>>
           /\ Plan("unsubscribe", d, a) =
                 <<DraftLock(d)>> \o (IF a = Primary THEN <<ProspectLock>> ELSE <<>>)
                     \o <<AddressLock(a), ProspectLock>>
  BY DEF Plan, Versioned

LEMMA PlanType ==
    ASSUME NEW kind \in Ops, NEW d \in Drafts \cup {NoOne}, NEW a \in Addresses,
           kind \in Versioned \cup {"undo", "unsubscribe", "dispatch"} => d \in Drafts
    PROVE  Plan(kind, d, a) \in Seq(Locks)
<1> DEFINE maybe == IF a = Primary THEN <<ProspectLock>> ELSE <<>>
<1>1. <<ProspectLock>> \in Seq(Locks) /\ <<AddressLock(a)>> \in Seq(Locks)
      /\ <<AddressLock(a), ProspectLock>> \in Seq(Locks) /\ maybe \in Seq(Locks)
  BY LockTypes
<1>2. CASE kind \in Versioned \cup {"undo", "dispatch"}
  <2>1. <<DraftLock(d), ProspectLock>> \in Seq(Locks)
        /\ <<ProspectLock, DraftLock(d)>> \in Seq(Locks)
    BY <1>2, LockTypes
  <2> QED
    BY <1>2, <2>1, PlanIs
<1>3. CASE kind \in {"reclassify", "set_dnc", "archive", "restore"}
  BY <1>1, <1>3, PlanIs
<1>4. CASE kind = "suppress"
  <2>1. maybe \o <<AddressLock(a)>> \in Seq(Locks)
    BY <1>1
  <2> QED
    BY <1>4, <2>1, PlanIs
<1>5. CASE kind = "unsubscribe"
  <2>1. <<DraftLock(d)>> \in Seq(Locks)
    BY <1>5, LockTypes
  <2>2. <<DraftLock(d)>> \o maybe \o <<AddressLock(a), ProspectLock>> \in Seq(Locks)
    BY <1>1, <2>1
  <2> QED
    BY <1>5, <2>2, PlanIs
<1> QED
  BY <1>2, <1>3, <1>4, <1>5 DEF Ops

\* The locks of the second checks of dispatch_draft.
RecheckPlan(d) == <<ProspectLock, DraftLock(d)>> \o AddressLocks

LEMMA RecheckPlanType ==
    ASSUME NEW d \in Drafts
    PROVE  RecheckPlan(d) \in Seq(Locks)
<1>1. <<ProspectLock, DraftLock(d)>> \in Seq(Locks)
  BY LockTypes
<1> QED
  BY <1>1, LockTypes DEF RecheckPlan

\* The end of a session.
Ended(s) ==
    /\ holder' = Released(s)
    /\ \E rest \in SUBSET session[s].todo :
          session' = [session EXCEPT ![s] = [Idle EXCEPT !.todo = rest]]

LEMMA LeaveEnds == ASSUME NEW s, Leave(s) PROVE Ended(s)
  BY DEF Leave, Ended

LEMMA EndedType ==
    ASSUME Typed, NEW s \in Sessions, Ended(s)
    PROVE  /\ holder' \in [Locks -> Sessions \cup {NoOne}]
           /\ session' \in [Sessions -> SessionType]
           /\ Aiming'
<1>1. holder' \in [Locks -> Sessions \cup {NoOne}]
  BY DEF Typed, Ended, Released
<1>2. PICK rest \in SUBSET session[s].todo :
          session' = [session EXCEPT ![s] = [Idle EXCEPT !.todo = rest]]
  BY DEF Ended
<1>3. rest \in SUBSET Drafts
  BY <1>2 DEF Typed, SessionType
<1>4. /\ [Idle EXCEPT !.todo = rest] \in SessionType
      /\ [Idle EXCEPT !.todo = rest].op = Idle.op
      /\ [Idle EXCEPT !.todo = rest].pc = "idle"
  BY <1>3, IdleType, IdleAims DEF SessionType
<1>5. session' \in [Sessions -> SessionType]
  BY <1>2, <1>4 DEF Typed
<1>6. /\ session'[s].op \notin Versioned \cup {"undo", "unsubscribe"}
      /\ session'[s].pc = "idle"
      /\ \A t \in Sessions \ {s} : session'[t] = session[t]
  BY <1>2, <1>4, IdleAims DEF Typed
<1>7. Aiming'
  BY <1>6 DEF Typed, Aiming
<1> QED
  BY <1>1, <1>5, <1>7

\* The rows that requests write.
LEMMA RowTypes ==
    ASSUME Typed, NEW d \in Drafts
    PROVE  /\ Edited(d) \in Rows /\ Voided(d) \in Rows
           /\ Edited(d).manual = draft[d].manual /\ Voided(d).manual = draft[d].manual
           /\ Edited(d).auto = "none" /\ Voided(d).auto = "none"
           /\ Edited(d).status = "editing" /\ Voided(d).status = "cancelled"
<1>1. draft[d] \in Rows
  BY DEF Typed
<1>2. "editing" \in Statuses /\ "cancelled" \in Statuses
  BY DEF Statuses, Unsent
<1>3. draft[d].version + 1 \in Nat /\ draft[d].body + 1 \in Nat
  BY <1>1 DEF Rows
<1>4. Edited(d) \in Rows /\ Voided(d) \in Rows
  BY <1>1, <1>2, <1>3 DEF Edited, Voided, Rows
<1> QED
  BY <1>1, <1>4 DEF Edited, Voided, Rows

\* _block_draft and the UPDATE of a flush keep the rows in their type.
LEMMA BlockType ==
    ASSUME Typed, NEW s \in Sessions, Block(s)
    PROVE  /\ draft' \in [Drafts -> Rows]
           /\ \A d \in Drafts : draft'[d].manual = draft[d].manual
           /\ \A d \in Drafts : d # session[s].draft => draft'[d] = draft[d]
           /\ session[s].draft \in Drafts =>
                 /\ draft'[session[s].draft].status = "blocked"
                 /\ draft'[session[s].draft].auto
                        = Column(session[s].row.auto, "none", draft[session[s].draft].auto)
<1> DEFINE e == session[s].draft
<1>1. draft' = [draft EXCEPT ![e] =
          [ draft[e] EXCEPT !.status = "blocked", !.version = session[s].row.version + 1,
                !.auto = Column(session[s].row.auto, "none", draft[e].auto), !.oversized = FALSE ]]
  BY DEF Block
<1>2. session[s].row \in Rows
  BY DEF Typed, SessionType
<1> SUFFICES ASSUME NEW d \in Drafts
             PROVE  /\ draft'[d] \in Rows
                    /\ draft'[d].manual = draft[d].manual
                    /\ d # e => draft'[d] = draft[d]
                    /\ d = e => /\ draft'[d].status = "blocked"
                                /\ draft'[d].auto = Column(session[s].row.auto, "none", draft[d].auto)
  BY <1>1 DEF Typed
<1>3. CASE d # e
  BY <1>1, <1>3 DEF Typed, Rows
<1>4. CASE d = e
  <2>1. draft[d] \in Rows
    BY DEF Typed
  <2> DEFINE auto == Column(session[s].row.auto, "none", draft[d].auto)
             next == session[s].row.version + 1
             new  == [ draft[d] EXCEPT !.status = "blocked", !.version = next,
                                       !.auto = auto, !.oversized = FALSE ]
  <2>2. draft'[d] = new
    BY <1>1, <1>4, <2>1 DEF Typed, Rows
  <2>3. auto \in {"none", "later", "due"}
    BY <1>2, <2>1 DEF Column, Rows
  <2>4. next \in Nat
    BY <1>2 DEF Rows
  <2>5. "blocked" \in Statuses
    BY DEF Statuses, Unsent
  <2> HIDE DEF auto, next
  <2>6. new \in Rows /\ new.manual = draft[d].manual /\ new.status = "blocked"
        /\ new.auto = auto
    BY <2>1, <2>3, <2>4, <2>5 DEF Rows
  <2> HIDE DEF new
  <2> QED
    BY <1>4, <2>2, <2>6 DEF auto
<1> QED
  BY <1>3, <1>4

LEMMA FlushType ==
    ASSUME Typed, NEW s \in Sessions, NEW mine \in Rows, Flush(s, mine)
    PROVE  /\ draft' \in [Drafts -> Rows]
           /\ \A d \in Drafts : draft'[d].manual = draft[d].manual
           /\ \A d \in Drafts : d # session[s].draft => draft'[d] = draft[d]
           /\ session[s].draft \in Drafts /\ session[s].row = draft[session[s].draft]
                /\ mine.manual = session[s].row.manual => draft'[session[s].draft] = mine
<1> DEFINE e == session[s].draft
           old == session[s].row
           new == [ manual    |-> draft[e].manual,
                    status    |-> Column(old.status, mine.status, draft[e].status),
                    version   |-> Column(old.version, mine.version, draft[e].version),
                    auto      |-> Column(old.auto, mine.auto, draft[e].auto),
                    body      |-> Column(old.body, mine.body, draft[e].body),
                    oversized |-> Column(old.oversized, mine.oversized, draft[e].oversized) ]
<1>1. draft' = [draft EXCEPT ![e] = new]
  BY DEF Flush
<1>2. old \in Rows
  BY DEF Typed, SessionType
<1>3. CASE e \notin Drafts
  BY <1>1, <1>3 DEF Typed
<1>4. CASE e \in Drafts
  <2>1. draft[e] \in Rows
    BY <1>4 DEF Typed
  <2>2. /\ Column(old.status, mine.status, draft[e].status) \in Statuses
        /\ Column(old.version, mine.version, draft[e].version) \in Nat
        /\ Column(old.auto, mine.auto, draft[e].auto) \in {"none", "later", "due"}
        /\ Column(old.body, mine.body, draft[e].body) \in Nat
        /\ Column(old.oversized, mine.oversized, draft[e].oversized) \in BOOLEAN
    BY <1>2, <2>1 DEF Column, Rows
  <2>3. new \in Rows /\ new.manual = draft[e].manual
    BY <2>1, <2>2 DEF Rows
  <2>4. ASSUME old = draft[e], mine.manual = old.manual PROVE new = mine
    BY <2>4, <1>2, <2>1 DEF Column, Rows
  <2> HIDE DEF new
  <2> QED
    BY <1>1, <1>4, <2>3, <2>4 DEF Typed
<1> QED
  BY <1>3, <1>4

LEMMA ClosedType ==
    ASSUME NEW row \in Rows, NEW status \in Statuses
    PROVE  /\ Closed(row, status) \in Rows
           /\ Closed(row, status).manual = row.manual
           /\ Closed(row, status).status = status
           /\ Closed(row, status).auto = "none"
<1>1. row.version + 1 \in Nat
  BY DEF Rows
<1> QED
  BY <1>1 DEF Closed, Rows

\* Waiting for more locks.
LEMMA WaitType ==
    ASSUME Typed, NEW s \in Sessions, NEW locks \in Seq(Locks), NEW stage \in Stages,
           session[s].pc # "idle", Wait(s, locks, stage)
    PROVE  session' \in [Sessions -> SessionType] /\ Aiming'
<1>1. session' = [session EXCEPT ![s] = [session[s] EXCEPT
                     !.pc = "locking", !.plan = locks, !.next = stage]]
  BY DEF Wait, Typed, SessionType
<1>2. "locking" \in Stages
  BY DEF Stages
<1>0. session[s] \in SessionType
  BY DEF Typed
<1>6. [session[s] EXCEPT !.pc = "locking", !.plan = locks, !.next = stage] \in SessionType
  BY <1>0, <1>2 DEF SessionType
<1>3. session' \in [Sessions -> SessionType]
  BY <1>1, <1>6 DEF Typed
<1>4. session[s].op = "dispatch" => session[s].draft \in Drafts
  BY DEF Typed, Aiming
<1>5. Aiming'
  BY <1>1, <1>3, <1>4 DEF Typed, Aiming, SessionType
<1> QED
  BY <1>3, <1>5

LEMMA LoadedType ==
    ASSUME Typed, NEW s \in Sessions, session[s].plan # <<>>, NEW l
    PROVE  Loaded(s, l) \in SessionType
<1>1. session[s] \in SessionType /\ session[s].plan \in Seq(Locks)
  BY DEF Typed, SessionType
<1>2. Tail(session[s].plan) \in Seq(Locks)
  BY <1>1
<1>3. (IF Tail(session[s].plan) = <<>> THEN session[s].next ELSE session[s].pc) \in Stages
  BY <1>1 DEF SessionType
<1>4. (IF session[s].op = "approve" /\ session[s].next = "screen" /\ l = DraftLock(session[s].draft)
       THEN draft[session[s].draft] ELSE session[s].row) \in Rows
  BY <1>1 DEF SessionType, Typed, Aiming, Versioned
<1>5. (IF session[s].next = "screen" /\ l = ProspectLock THEN prospect ELSE session[s].person)
          \in Prospects
  BY <1>1 DEF SessionType, Typed
<1> QED
  BY <1>1, <1>2, <1>3, <1>4, <1>5 DEF Loaded, SessionType

-----------------------------------------------------------------------------
(* What each kind of step writes, and its types.                           *)

LEMMA RowFields ==
    ASSUME Typed, NEW d \in Drafts
    PROVE  /\ draft[d] \in Rows /\ draft[d].version + 1 \in Nat
           /\ draft[d].manual \in BOOLEAN /\ draft[d].body \in Nat
<1>1. draft[d] \in Rows
  BY DEF Typed
<1> QED
  BY <1>1 DEF Rows

\* One row of the table is replaced.
LEMMA OneRow ==
    ASSUME Typed, NEW d \in Drafts, NEW new \in Rows, draft' = [draft EXCEPT ![d] = new]
    PROVE  /\ draft' \in [Drafts -> Rows]
           /\ draft'[d] = new
           /\ \A e \in Drafts \ {d} : draft'[e] = draft[e]
  BY DEF Typed

\* What a request that ends may do to a row.
Touches(s, d) ==
    /\ \/ session[s].op \in Versioned \cup {"undo"} /\ d = session[s].draft
       \/ holder[DraftLock(d)] = s
    /\ draft[d].status \in Unsent
    /\ draft'[d].status \in Unsent \cup {"cancelled"}
    /\ draft'[d].manual = draft[d].manual
    /\ draft[d].manual => draft'[d].auto = "none"

DraftsTouched(s) ==
    /\ draft' \in [Drafts -> Rows]
    /\ \A d \in Drafts : draft'[d] = draft[d] \/ Touches(s, d)

Committed(s) ==
    /\ session[s].pc = "finish" /\ session[s].op \in Ops \ {"approve", "dispatch"}
    /\ Leave(s)
    /\ UNCHANGED <<mail, asked, crashes>>
    /\ DraftsTouched(s)
    /\ prospect' \in Prospects
    /\ prospect'.archived => prospect.archived \/ session[s].op = "archive"
    /\ suppressed' \subseteq Addresses
    /\ \A a \in suppressed' :
          \/ a \in suppressed
          \/ session[s].op \in {"suppress", "unsubscribe"} /\ a = session[s].address

LEMMA UntouchedDrafts ==
    ASSUME Typed, NEW s \in Sessions, draft' = draft
    PROVE  DraftsTouched(s)
  BY DEF Typed, DraftsTouched

LEMMA OneTouched ==
    ASSUME Typed, NEW s \in Sessions, NEW new \in Rows,
           session[s].op \in Versioned \cup {"undo"},
           draft' = [draft EXCEPT ![session[s].draft] = new],
           draft[session[s].draft].status \in Unsent,
           new.status \in Unsent \cup {"cancelled"},
           new.manual = draft[session[s].draft].manual,
           new.manual => new.auto = "none"
    PROVE  DraftsTouched(s)
<1> DEFINE d == session[s].draft
<1>1. d \in Drafts
  BY DEF Typed, Aiming
<1>2. /\ draft' \in [Drafts -> Rows] /\ draft'[d] = new
      /\ \A e \in Drafts \ {d} : draft'[e] = draft[e]
  BY <1>1, OneRow
<1>3. Touches(s, d)
  BY <1>2 DEF Touches
<1> QED
  BY <1>2, <1>3 DEF DraftsTouched

\* A request that writes one row, or none.
LEMMA StartEditingCommits ==
    ASSUME Typed, NEW s \in Sessions, StartEditing(s)
    PROVE  DraftsTouched(s)
<1> DEFINE d == session[s].draft
           next == draft[d].version + 1
           new == [draft[d] EXCEPT !.status = "editing", !.auto = "none", !.version = next]
<1>1. session[s].op = "start_editing" /\ "start_editing" \in Versioned
  BY DEF StartEditing, Finish, Versioned
<1>2. d \in Drafts
  BY <1>1 DEF Typed, Aiming
<1>3. draft[d] \in Rows /\ next \in Nat
  BY <1>2, RowFields
<1>4. CASE draft' = draft
  BY <1>4, UntouchedDrafts
<1>5. CASE ~ draft' = draft
  <2>1. draft[d].status = "pending_review"
    BY <1>5 DEF StartEditing
  <2>2. draft' = [draft EXCEPT ![d] = new]
    BY <1>2, <1>3, <1>5 DEF StartEditing, Typed, Rows
  <2>3. "editing" \in Statuses /\ "editing" \in Unsent /\ "pending_review" \in Unsent
    BY DEF Statuses, Unsent
  <2> HIDE DEF next
  <2>4. /\ new \in Rows /\ new.status = "editing" /\ new.auto = "none"
        /\ new.manual = draft[d].manual
    BY <1>3, <2>3 DEF Rows
  <2> HIDE DEF new
  <2> QED
    BY <1>1, <2>1, <2>2, <2>3, <2>4, OneTouched
<1> QED
  BY <1>4, <1>5

LEMMA EditCommits ==
    ASSUME Typed, NEW s \in Sessions, EditDraft(s)
    PROVE  DraftsTouched(s)
<1> DEFINE d == session[s].draft
<1>1. session[s].op = "edit" /\ "edit" \in Versioned
  BY DEF EditDraft, Finish, Versioned
<1>2. d \in Drafts
  BY <1>1 DEF Typed, Aiming
<1>3. CASE draft' = draft
  BY <1>3, UntouchedDrafts
<1>4. CASE ~ draft' = draft
  <2>1. draft[d].status \in {"pending_review", "editing"} /\ draft' = [draft EXCEPT ![d] = Edited(d)]
    BY <1>4 DEF EditDraft
  <2> QED
    BY <1>1, <1>2, <2>1, RowTypes, OneTouched DEF Unsent
<1> QED
  BY <1>3, <1>4

LEMMA CancelCommits ==
    ASSUME Typed, NEW s \in Sessions, CancelDraft(s)
    PROVE  DraftsTouched(s)
<1> DEFINE d == session[s].draft
<1>1. session[s].op = "cancel" /\ "cancel" \in Versioned
  BY DEF CancelDraft, Finish, Versioned
<1>2. d \in Drafts
  BY <1>1 DEF Typed, Aiming
<1>3. CASE draft' = draft
  BY <1>3, UntouchedDrafts
<1>4. CASE ~ draft' = draft
  <2>1. draft[d].status \in Unsent /\ draft' = [draft EXCEPT ![d] = Voided(d)]
    BY <1>4 DEF CancelDraft, Cancellable
  <2> QED
    BY <1>1, <1>2, <2>1, RowTypes, OneTouched
<1> QED
  BY <1>3, <1>4

LEMMA BundleCommits ==
    ASSUME Typed, NEW s \in Sessions, SelectSecureBundle(s)
    PROVE  DraftsTouched(s)
<1> DEFINE d == session[s].draft
           next == draft[d].version + 1
           body == draft[d].body
           first == FirstRow(draft[d].manual, FALSE)
           new == [first EXCEPT !.version = next, !.body = body]
<1>1. session[s].op = "bundle" /\ "bundle" \in Versioned
  BY DEF SelectSecureBundle, Finish, Versioned
<1>2. d \in Drafts
  BY <1>1 DEF Typed, Aiming
<1>3. draft[d] \in Rows /\ next \in Nat /\ body \in Nat /\ draft[d].manual \in BOOLEAN
  BY <1>2, RowFields
<1>4. CASE draft' = draft
  BY <1>4, UntouchedDrafts
<1>5. CASE ~ draft' = draft
  <2>1. draft[d].status = "blocked" /\ draft' = [draft EXCEPT ![d] = new]
    BY <1>5 DEF SelectSecureBundle
  <2>2. /\ first \in Rows /\ first.manual = draft[d].manual
        /\ first.status \in {"editing", "pending_review"}
        /\ first.manual => first.auto = "none"
    BY <1>3, FirstTypes DEF FirstRow
  <2> HIDE DEF next, body, first
  <2>3. /\ new \in Rows /\ new.status = first.status /\ new.auto = first.auto
        /\ new.manual = first.manual
    BY <1>3, <2>2 DEF Rows
  <2> HIDE DEF new
  <2>4. {"editing", "pending_review", "blocked"} \subseteq Unsent
    BY DEF Unsent
  <2> QED
    BY <1>1, <2>1, <2>2, <2>3, <2>4, OneTouched
<1> QED
  BY <1>4, <1>5

LEMMA UndoCommits ==
    ASSUME Typed, NEW s \in Sessions, Undo(s)
    PROVE  DraftsTouched(s)
<1> DEFINE d == session[s].draft
<1>1. session[s].op = "undo"
  BY DEF Undo, Finish
<1>2. d \in Drafts
  BY <1>1 DEF Typed, Aiming
<1>3. CASE draft' = draft
  BY <1>3, UntouchedDrafts
<1>4. CASE ~ draft' = draft
  <2>1. draft[d].status \in Unsent /\ draft' = [draft EXCEPT ![d] = Voided(d)]
    BY <1>4 DEF Undo
  <2> QED
    BY <1>1, <1>2, <2>1, RowTypes, OneTouched
<1> QED
  BY <1>3, <1>4

LEMMA ReclassifyCommits ==
    ASSUME Typed, NEW s \in Sessions, Reclassify(s)
    PROVE  DraftsTouched(s)
<1>1. \A d \in Drafts : draft'[d] = IF Voids(s, d) THEN Voided(d) ELSE draft[d]
  BY DEF Reclassify
<1>2. \A d \in Drafts : draft[d] \in Rows /\ Voided(d) \in Rows
  BY RowTypes DEF Typed
<1>3. draft' \in [Drafts -> Rows]
  BY <1>2 DEF Reclassify
<1>4. ASSUME NEW d \in Drafts, Voids(s, d)
      PROVE  Touches(s, d)
  <2>1. draft'[d] = Voided(d)
    BY <1>1, <1>4
  <2> QED
    BY <1>4, <2>1, RowTypes DEF Touches, Voids
<1> QED
  BY <1>1, <1>3, <1>4 DEF DraftsTouched

LEMMA ProspectTypes ==
    ASSUME Typed
    PROVE  /\ prospect \in Prospects
           /\ [prospect EXCEPT !.latest = FALSE] \in Prospects
           /\ [prospect EXCEPT !.dnc = TRUE] \in Prospects
           /\ [prospect EXCEPT !.dnc = TRUE, !.latest = FALSE] \in Prospects
           /\ [prospect EXCEPT !.dnc = FALSE, !.latest = FALSE] \in Prospects
           /\ [prospect EXCEPT !.archived = TRUE, !.latest = FALSE] \in Prospects
           /\ [prospect EXCEPT !.archived = FALSE, !.latest = FALSE] \in Prospects
           /\ \A kind \in {"asked", "other"} :
                 [prospect EXCEPT !.kind = kind, !.latest = FALSE] \in Prospects
<1>1. prospect \in Prospects
  BY DEF Typed
<1> QED
  BY <1>1 DEF Prospects

LEMMA FinishIs ==
    ASSUME Typed, NEW s \in Sessions, NEW kind \in Ops \ {"approve", "dispatch"},
           Finish(s, kind), DraftsTouched(s), prospect' \in Prospects,
           prospect'.archived => prospect.archived \/ kind = "archive",
           \/ suppressed' = suppressed
           \/ /\ kind \in {"suppress", "unsubscribe"}
              /\ suppressed' = suppressed \cup {session[s].address}
    PROVE  Committed(s)
<1>1. session[s].pc = "finish" /\ session[s].op = kind /\ Leave(s) /\ UNCHANGED <<mail, asked, crashes>>
  BY DEF Finish
<1>2. session[s].address \in Addresses /\ suppressed \subseteq Addresses
  BY DEF Typed, SessionType
<1>3. /\ suppressed' \subseteq Addresses
      /\ \A a \in suppressed' :
            \/ a \in suppressed
            \/ kind \in {"suppress", "unsubscribe"} /\ a = session[s].address
  <2>1. CASE suppressed' = suppressed
    BY <1>2, <2>1
  <2>2. CASE /\ kind \in {"suppress", "unsubscribe"}
             /\ suppressed' = suppressed \cup {session[s].address}
    BY <1>2, <2>2
  <2> QED
    BY <2>1, <2>2
<1> QED
  BY <1>1, <1>3 DEF Committed

LEMMA CommitEffect ==
    ASSUME Typed, NEW s \in Sessions, Commit(s)
    PROVE  Committed(s)
<1>1. {"start_editing", "edit", "cancel", "bundle", "undo", "reclassify", "set_dnc", "archive",
       "restore", "suppress", "unsubscribe"} \subseteq Ops \ {"approve", "dispatch"}
  BY DEF Ops, Versioned
<1>2. prospect \in Prospects
  BY DEF Typed
<1>3. CASE StartEditing(s)
  <2>1. Finish(s, "start_editing") /\ UNCHANGED <<prospect, suppressed>>
    BY <1>3 DEF StartEditing
  <2> QED
    BY <1>1, <1>2, <1>3, <2>1, StartEditingCommits, FinishIs
<1>4. CASE EditDraft(s)
  <2>1. Finish(s, "edit") /\ UNCHANGED <<prospect, suppressed>>
    BY <1>4 DEF EditDraft
  <2> QED
    BY <1>1, <1>2, <1>4, <2>1, EditCommits, FinishIs
<1>5. CASE CancelDraft(s)
  <2>1. Finish(s, "cancel") /\ UNCHANGED <<prospect, suppressed>>
    BY <1>5 DEF CancelDraft
  <2> QED
    BY <1>1, <1>2, <1>5, <2>1, CancelCommits, FinishIs
<1>6. CASE SelectSecureBundle(s)
  <2>1. Finish(s, "bundle") /\ UNCHANGED <<prospect, suppressed>>
    BY <1>6 DEF SelectSecureBundle
  <2> QED
    BY <1>1, <1>2, <1>6, <2>1, BundleCommits, FinishIs
<1>7. CASE Undo(s)
  <2>1. prospect' = [prospect EXCEPT !.dnc = FALSE, !.latest = FALSE] \/ prospect' = prospect
    BY <1>7 DEF Undo
  <2>2. prospect' \in Prospects /\ (prospect'.archived => prospect.archived)
    BY <1>2, <2>1 DEF Prospects
  <2>3. Finish(s, "undo") /\ UNCHANGED suppressed
    BY <1>7 DEF Undo
  <2> QED
    BY <1>1, <1>7, <2>2, <2>3, UndoCommits, FinishIs
<1>8. CASE Reclassify(s)
  <2> DEFINE kind == IF prospect.kind = "asked" THEN "other" ELSE "asked"
  <2>1. prospect' = [prospect EXCEPT !.kind = kind, !.latest = FALSE]
    BY <1>8 DEF Reclassify
  <2>2. kind \in {"asked", "other"}
    OBVIOUS
  <2> HIDE DEF kind
  <2>3. prospect' \in Prospects /\ prospect'.archived = prospect.archived
    BY <1>2, <2>1, <2>2 DEF Prospects
  <2>4. Finish(s, "reclassify") /\ UNCHANGED suppressed
    BY <1>8 DEF Reclassify
  <2> QED
    BY <1>1, <1>8, <2>3, <2>4, ReclassifyCommits, FinishIs
<1>9. CASE SetDoNotContact(s)
  <2>1. Finish(s, "set_dnc") /\ draft' = draft /\ suppressed' = suppressed
        /\ prospect' = [prospect EXCEPT !.dnc = TRUE, !.latest = FALSE]
    BY <1>9 DEF SetDoNotContact
  <2>2. prospect' \in Prospects /\ prospect'.archived = prospect.archived
    BY <1>2, <2>1 DEF Prospects
  <2> QED
    BY <1>1, <2>1, <2>2, UntouchedDrafts, FinishIs
<1>10. CASE Archive(s)
  <2>1. Finish(s, "archive") /\ draft' = draft /\ suppressed' = suppressed
        /\ prospect' \in Prospects
    BY <1>10, ProspectTypes DEF Archive
  <2> QED
    BY <1>1, <2>1, UntouchedDrafts, FinishIs
<1>11. CASE Restore(s)
  <2>1. Finish(s, "restore") /\ draft' = draft /\ suppressed' = suppressed
    BY <1>11 DEF Restore
  <2>2. prospect' = [prospect EXCEPT !.archived = FALSE, !.latest = FALSE] \/ prospect' = prospect
    BY <1>11 DEF Restore
  <2>3. prospect' \in Prospects /\ (prospect'.archived => prospect.archived)
    BY <1>2, <2>2 DEF Prospects
  <2> QED
    BY <1>1, <2>1, <2>3, UntouchedDrafts, FinishIs
<1>12. CASE Suppress(s)
  <2>1. Finish(s, "suppress") /\ draft' = draft /\ prospect' = prospect
        /\ suppressed' = suppressed \cup {session[s].address}
    BY <1>12 DEF Suppress
  <2> QED
    BY <1>1, <1>2, <2>1, UntouchedDrafts, FinishIs
<1>13. CASE Unsubscribe(s)
  <2>1. Finish(s, "unsubscribe") /\ draft' = draft
        /\ suppressed' = suppressed \cup {session[s].address}
    BY <1>13 DEF Unsubscribe
  <2>2. prospect' = [prospect EXCEPT !.dnc = TRUE] \/ prospect' = prospect
    BY <1>13 DEF Unsubscribe
  <2>3. prospect' \in Prospects /\ prospect'.archived = prospect.archived
    BY <1>2, <2>2 DEF Prospects
  <2> QED
    BY <1>1, <2>1, <2>3, UntouchedDrafts, FinishIs
<1> QED
  BY <1>3, <1>4, <1>5, <1>6, <1>7, <1>8, <1>9, <1>10, <1>11, <1>12, <1>13 DEF Commit

-----------------------------------------------------------------------------
(* The types, step by step.                                                *)

\* The tables are as they were, or a session that ends wrote them.
LEMMA EndsTyped ==
    ASSUME Typed, NEW s \in Sessions, Ended(s), draft' \in [Drafts -> Rows],
           prospect' \in Prospects, suppressed' \subseteq Addresses, mail' = mail,
           asked' = asked, crashes' \in 0 .. MaxCrashes
    PROVE  Typed'
<1>1. /\ holder' \in [Locks -> Sessions \cup {NoOne}]
      /\ session' \in [Sessions -> SessionType]
      /\ Aiming'
  BY EndedType
<1> QED
  BY <1>1 DEF Typed

\* One session goes on, as a record of the same type.
LEMMA GoesOnTyped ==
    ASSUME Typed, NEW s \in Sessions, NEW x \in SessionType,
           session' = [session EXCEPT ![s] = x],
           x.op \in Versioned \cup {"undo", "unsubscribe"} => x.draft \in Drafts,
           x.op = "dispatch" /\ x.pc # "idle" => x.draft \in Drafts
    PROVE  session' \in [Sessions -> SessionType] /\ Aiming'
<1>1. session' \in [Sessions -> SessionType]
  BY DEF Typed
<1>2. session'[s] = x /\ \A t \in Sessions \ {s} : session'[t] = session[t]
  BY DEF Typed
<1>3. Aiming'
  BY <1>2 DEF Typed, Aiming
<1> QED
  BY <1>1, <1>3

LEMMA CommitTyped == ASSUME Typed, NEW s \in Sessions, Commit(s) PROVE Typed'
<1>1. Committed(s)
  BY CommitEffect
<1>2. Ended(s)
  BY <1>1, LeaveEnds DEF Committed
<1>3. crashes \in 0 .. MaxCrashes
  BY DEF Typed
<1> QED
  BY <1>1, <1>2, <1>3, EndsTyped DEF Committed, DraftsTouched

LEMMA AcquireTyped == ASSUME Typed, NEW s \in Sessions, Acquire(s) PROVE Typed'
<1> DEFINE l == Head(session[s].plan)
<1>0. UNCHANGED <<rows, mail, asked, crashes>> /\ session[s].plan # <<>> /\ session[s].pc = "locking"
  BY DEF Acquire
<1>1. draft' \in [Drafts -> Rows] /\ prospect' \in Prospects /\ suppressed' \subseteq Addresses
      /\ crashes' \in 0 .. MaxCrashes /\ asked' = asked /\ mail' = mail
  BY <1>0 DEF rows, Typed
<1>2. CASE Leave(s)
  BY <1>1, <1>2, LeaveEnds, EndsTyped
<1>3. CASE /\ holder' = [holder EXCEPT ![l] = s]
           /\ session' = [session EXCEPT ![s] = Loaded(s, l)]
  <2>1. Loaded(s, l) \in SessionType
    BY <1>0, LoadedType
  <2>2. Loaded(s, l).op = session[s].op /\ Loaded(s, l).draft = session[s].draft
    <3>1. session[s] \in SessionType
      BY DEF Typed
    <3> QED
      BY <3>1 DEF Loaded, SessionType
  <2>3. session[s].op \in Versioned \cup {"undo", "unsubscribe", "dispatch"} => session[s].draft \in Drafts
    BY <1>0 DEF Typed, Aiming
  <2>4. session' \in [Sessions -> SessionType] /\ Aiming'
    BY <1>3, <2>1, <2>2, <2>3, GoesOnTyped
  <2>5. holder' \in [Locks -> Sessions \cup {NoOne}]
    BY <1>3 DEF Typed
  <2> QED
    BY <1>1, <2>4, <2>5 DEF Typed
<1> QED
  BY <1>2, <1>3 DEF Acquire

LEMMA AskTyped ==
    ASSUME Typed, NEW s \in Clients, NEW kind, NEW d, NEW a, AskOf(kind, d, a), Ask(s, kind, d, a)
    PROVE  Typed'
<1> DEFINE expected == IF kind \in Versioned THEN draft[d].version ELSE 0
           reviewed == IF kind \in Versioned THEN draft[d].body ELSE 0
           plan == Plan(kind, d, a)
           next == IF kind = "approve" THEN "screen"
                   ELSE IF kind = "reclassify" THEN "sweep" ELSE "finish"
           x == [ Idle EXCEPT !.pc = "locking", !.op = kind, !.draft = d, !.address = a,
                              !.expected = expected, !.reviewed = reviewed,
                              !.plan = plan, !.next = next ]
<1>1. session' = [session EXCEPT ![s] = x]
  BY DEF Ask
<1>2. kind \in Versioned => d \in Drafts
  BY DEF AskOf
<1>3. expected \in Nat /\ reviewed \in Nat
  BY <1>2, RowFields DEF Rows
<1>4. plan \in Seq(Locks)
  BY PlanType DEF AskOf
<1>5. next \in Stages /\ "locking" \in Stages
  BY DEF Stages
<1>6. s \in Sessions
  BY DEF Sessions
<1>7. kind \in Ops /\ d \in Drafts \cup {NoOne} /\ a \in Addresses
  BY DEF AskOf
<1> HIDE DEF expected, reviewed, plan, next
<1>8. /\ x \in SessionType /\ x.op = kind /\ x.draft = d
  BY <1>3, <1>4, <1>5, <1>7, IdleType DEF SessionType
<1> HIDE DEF x
<1>9. session' \in [Sessions -> SessionType] /\ Aiming'
  BY <1>1, <1>6, <1>8, GoesOnTyped DEF AskOf
<1>10. asked' \in 0 .. MaxRequests
  BY OutreachAssumption DEF Ask, Typed
<1> QED
  BY <1>9, <1>10 DEF Ask, Typed, rows

LEMMA SweepTyped == ASSUME Typed, NEW s \in Sessions, Sweep(s) PROVE Typed'
<1> DEFINE due == {d \in Drafts : draft[d].status \in Unsent}
<1>1. PICK order \in [1 .. Cardinality(due) -> Drafts] :
          session' = [session EXCEPT
               ![s].pc = IF DOMAIN order = {} THEN "finish" ELSE "locking",
               ![s].plan = [i \in DOMAIN order |-> DraftLock(order[i])],
               ![s].next = "finish"]
  BY DEF Sweep
<1> DEFINE pc == IF DOMAIN order = {} THEN "finish" ELSE "locking"
           plan == [i \in DOMAIN order |-> DraftLock(order[i])]
           x == [session[s] EXCEPT !.pc = pc, !.plan = plan, !.next = "finish"]
<1>2. Cardinality(due) \in Nat
  BY OutreachAssumption, FS_Subset, FS_CardinalityType
<1>3. plan \in Seq(Locks)
  <2>1. plan \in [1 .. Cardinality(due) -> Locks]
    BY LockTypes
  <2> QED
    BY <1>2, <2>1
<1>4. pc \in Stages /\ "finish" \in Stages
  BY DEF Stages
<1>5. session[s] \in SessionType /\ session[s].pc = "sweep"
  BY DEF Typed, Sweep
<1>6. session' = [session EXCEPT ![s] = x]
  BY <1>1, <1>5 DEF SessionType, Typed
<1> HIDE DEF pc, plan
<1>7. x \in SessionType /\ x.op = session[s].op /\ x.draft = session[s].draft
  BY <1>3, <1>4, <1>5 DEF SessionType
<1>8. session[s].op \in Versioned \cup {"undo", "unsubscribe", "dispatch"} => session[s].draft \in Drafts
  BY <1>5 DEF Typed, Aiming
<1> HIDE DEF x
<1>9. session' \in [Sessions -> SessionType] /\ Aiming'
  BY <1>6, <1>7, <1>8, GoesOnTyped
<1> QED
  BY <1>9 DEF Sweep, Typed, rows

LEMMA ScanTyped == ASSUME Typed, NEW w \in Workers, Scan(w) PROVE Typed'
<1> DEFINE due == {d \in Drafts : draft[d].status = "pending_review" /\ draft[d].auto = "due"}
           x == [session[w] EXCEPT !.todo = due]
<1>1. w \in Sessions /\ session[w] \in SessionType
  BY DEF Typed, Sessions
<1>2. session' = [session EXCEPT ![w] = x]
  BY <1>1 DEF Scan, SessionType, Typed
<1>3. x \in SessionType /\ x.op = session[w].op /\ x.draft = session[w].draft /\ x.pc = session[w].pc
  BY <1>1 DEF SessionType
<1> HIDE DEF x
<1>4. session' \in [Sessions -> SessionType] /\ Aiming'
  BY <1>1, <1>2, <1>3, GoesOnTyped DEF Typed, Aiming
<1> QED
  BY <1>4 DEF Scan, Typed, rows

LEMMA HintTyped == ASSUME Typed, NEW w \in Workers, Hint(w) PROVE Typed'
<1>1. PICK d \in session[w].todo : session' = [session EXCEPT ![w] =
            [ Idle EXCEPT !.pc = "locking", !.draft = d, !.row = draft[d],
                          !.plan = Plan("dispatch", d, Primary), !.next = "screen",
                          !.todo = session[w].todo \ {d} ]]
  BY DEF Hint
<1> DEFINE plan == Plan("dispatch", d, Primary)
           rest == session[w].todo \ {d}
           row == draft[d]
           x == [ Idle EXCEPT !.pc = "locking", !.draft = d, !.row = row, !.plan = plan,
                              !.next = "screen", !.todo = rest ]
<1>2. w \in Sessions /\ session[w] \in SessionType
  BY DEF Typed, Sessions
<1>3. d \in Drafts /\ rest \in SUBSET Drafts
  BY <1>2 DEF SessionType
<1>4. row \in Rows
  BY <1>3 DEF Typed
<1>5. "dispatch" \in Ops /\ Primary \in Addresses /\ "locking" \in Stages /\ "screen" \in Stages
  BY OutreachAssumption DEF Ops, Stages
<1>6. plan \in Seq(Locks)
  BY <1>3, <1>5, PlanType
<1>7. session' = [session EXCEPT ![w] = x]
  BY <1>1
<1> HIDE DEF plan, rest, row
<1>8. x \in SessionType /\ x.draft = d
  BY <1>3, <1>4, <1>5, <1>6, IdleType DEF SessionType
<1> HIDE DEF x
<1>9. session' \in [Sessions -> SessionType] /\ Aiming'
  BY <1>2, <1>3, <1>7, <1>8, GoesOnTyped
<1> QED
  BY <1>9 DEF Hint, Typed, rows

\* Steps of dispatch_draft.
LEMMA DispatchAims ==
    ASSUME Typed, NEW s \in Sessions, session[s].pc # "idle"
    PROVE  session[s].op \in Versioned \cup {"undo", "unsubscribe", "dispatch"} => session[s].draft \in Drafts
  BY DEF Typed, Aiming

LEMMA BlockTyped ==
    ASSUME Typed, NEW s \in Sessions, Block(s),
           UNCHANGED <<prospect, suppressed, mail, asked, crashes>>
    PROVE  Typed'
<1>1. draft' \in [Drafts -> Rows]
  BY BlockType
<1>2. Ended(s)
  BY LeaveEnds DEF Block
<1>3. prospect \in Prospects /\ suppressed \subseteq Addresses /\ crashes \in 0 .. MaxCrashes
  BY DEF Typed
<1> QED
  BY <1>1, <1>2, <1>3, EndsTyped

LEMMA ScreenTyped == ASSUME Typed, NEW s \in Sessions, Screen(s) PROVE Typed'
<1>0. session[s].pc = "screen" /\ UNCHANGED <<prospect, suppressed, mail, asked, crashes>>
  BY DEF Screen
<1>1. CASE Leave(s) /\ UNCHANGED draft
  <2>1. draft' \in [Drafts -> Rows] /\ prospect \in Prospects /\ suppressed \subseteq Addresses
        /\ crashes \in 0 .. MaxCrashes
    BY <1>1 DEF Typed
  <2> QED
    BY <1>0, <1>1, <2>1, LeaveEnds, EndsTyped
<1>2. CASE Block(s)
  BY <1>0, <1>2, BlockTyped
<1>3. CASE Wait(s, AddressLocks, "claim") /\ UNCHANGED <<draft, holder>>
  <2>1. "claim" \in Stages
    BY DEF Stages
  <2>2. session' \in [Sessions -> SessionType] /\ Aiming'
    BY <1>0, <1>3, <2>1, LockTypes, WaitType
  <2> QED
    BY <1>0, <1>3, <2>2 DEF Typed
<1> QED
  BY <1>1, <1>2, <1>3 DEF Screen

\* The claim as the session goes on with it.
Claimed(s) ==
    LET mine == Closed(session[s].row, "sending") IN
    /\ session[s].pc = "claim"
    /\ suppressed \cap Addresses = {} /\ ~session[s].person.dnc
    /\ Flush(s, mine)
    /\ holder' = Released(s)
    /\ session' = [session EXCEPT ![s] =
          [session[s] EXCEPT !.pc = "locking", !.next = "recheck", !.row = mine,
                             !.plan = RecheckPlan(session[s].draft)]]
    /\ UNCHANGED <<prospect, suppressed, mail, asked, crashes>>

LEMMA ClaimIs ==
    ASSUME Typed, NEW s \in Sessions, Claim(s)
    PROVE  \/ Claimed(s)
           \/ Block(s) /\ UNCHANGED <<prospect, suppressed, mail, asked, crashes>>
<1>1. session[s] \in SessionType
  BY DEF Typed
<1>2. CASE Block(s)
  BY <1>2 DEF Claim
<1>3. CASE ~Block(s)
  BY <1>1, <1>3 DEF Claim, Claimed, RecheckPlan, SessionType, Typed
<1> QED
  BY <1>2, <1>3

LEMMA ClaimTyped == ASSUME Typed, NEW s \in Sessions, Claim(s), session[s].draft \in Drafts PROVE Typed'
<1>1. CASE Block(s) /\ UNCHANGED <<prospect, suppressed, mail, asked, crashes>>
  BY <1>1, BlockTyped
<1>2. CASE Claimed(s)
  <2> DEFINE mine == Closed(session[s].row, "sending")
             plan == RecheckPlan(session[s].draft)
             x == [session[s] EXCEPT !.pc = "locking", !.next = "recheck", !.row = mine,
                                     !.plan = plan]
  <2>1. session[s] \in SessionType /\ session[s].row \in Rows /\ session[s].pc = "claim"
    BY <1>2 DEF Typed, SessionType, Claimed
  <2>2. "sending" \in Statuses /\ "locking" \in Stages /\ "recheck" \in Stages
    BY DEF Statuses, Stages
  <2>3. mine \in Rows /\ plan \in Seq(Locks)
    BY <2>1, <2>2, ClosedType, RecheckPlanType
  <2>4. Flush(s, mine) /\ holder' = Released(s) /\ session' = [session EXCEPT ![s] = x]
        /\ UNCHANGED <<prospect, suppressed, mail, asked, crashes>>
    BY <1>2 DEF Claimed
  <2> HIDE DEF mine, plan
  <2>5. draft' \in [Drafts -> Rows]
    BY <2>3, <2>4, FlushType
  <2>6. x \in SessionType /\ x.op = session[s].op /\ x.draft = session[s].draft
    BY <2>1, <2>2, <2>3 DEF SessionType
  <2> HIDE DEF x
  <2>7. session' \in [Sessions -> SessionType] /\ Aiming'
    BY <2>1, <2>4, <2>6, DispatchAims, GoesOnTyped
  <2>8. holder' \in [Locks -> Sessions \cup {NoOne}]
    BY <2>4 DEF Typed, Released
  <2> QED
    BY <2>4, <2>5, <2>7, <2>8 DEF Typed
<1> QED
  BY <1>1, <1>2, ClaimIs

LEMMA RecheckTyped == ASSUME Typed, NEW s \in Sessions, Recheck(s) PROVE Typed'
<1>0. session[s].pc = "recheck" /\ UNCHANGED <<prospect, suppressed, mail, asked, crashes>>
  BY DEF Recheck
<1>1. CASE Block(s)
  BY <1>0, <1>1, BlockTyped
<1>2. CASE session' = [session EXCEPT ![s].pc = "handoff"] /\ UNCHANGED <<draft, holder>>
  <2> DEFINE x == [session[s] EXCEPT !.pc = "handoff"]
  <2>1. session[s] \in SessionType /\ "handoff" \in Stages
    BY DEF Typed, Stages
  <2>2. session' = [session EXCEPT ![s] = x]
    BY <1>2
  <2>3. x \in SessionType /\ x.op = session[s].op /\ x.draft = session[s].draft
    BY <2>1 DEF SessionType
  <2> HIDE DEF x
  <2>4. session' \in [Sessions -> SessionType] /\ Aiming'
    BY <1>0, <2>2, <2>3, DispatchAims, GoesOnTyped
  <2> QED
    BY <1>0, <1>2, <2>4 DEF Typed
<1> QED
  BY <1>1, <1>2 DEF Recheck

LEMMA HandOffTyped ==
    ASSUME Typed, NEW s \in Sessions, HandOff(s), session[s].draft \in Drafts
    PROVE  Typed'
<1> DEFINE d == session[s].draft
           letter == [by |-> s, body |-> session[s].row.body, reviewed |-> session[s].reviewed]
<1>1. PICK taken \in BOOLEAN, ok \in BOOLEAN :
        /\ mail' = IF taken THEN [mail EXCEPT ![d] = Append(@, letter)] ELSE mail
        /\ session' = [session EXCEPT ![s].pc = "record", ![s].ok = ok]
  BY DEF HandOff
<1> DEFINE x == [session[s] EXCEPT !.pc = "record", !.ok = ok]
<1>2. session[s] \in SessionType /\ "record" \in Stages /\ session[s].pc = "handoff"
  BY DEF Typed, Stages, HandOff
<1>3. session[s].row.body \in Nat /\ session[s].reviewed \in Nat
  BY <1>2 DEF SessionType, Rows
<1>4. letter \in MailType
  BY <1>3 DEF MailType
<1>5. mail[d] \in Seq(MailType)
  BY DEF Typed
<1> HIDE DEF letter
<1>6. Append(mail[d], letter) \in Seq(MailType)
  BY <1>4, <1>5
<1>7. mail' \in [Drafts -> Seq(MailType)]
  BY <1>1, <1>6 DEF Typed
<1>8. session' = [session EXCEPT ![s] = x]
  BY <1>1, <1>2 DEF Typed, SessionType
<1>9. x \in SessionType /\ x.op = session[s].op /\ x.draft = session[s].draft
  BY <1>2 DEF SessionType
<1> HIDE DEF x
<1>10. session' \in [Sessions -> SessionType] /\ Aiming'
  BY <1>2, <1>8, <1>9, DispatchAims, GoesOnTyped
<1> QED
  BY <1>7, <1>10 DEF HandOff, Typed, rows

LEMMA RecordTyped == ASSUME Typed, NEW s \in Sessions, Record(s) PROVE Typed'
<1> DEFINE mine == Closed(session[s].row, IF session[s].ok THEN "sent" ELSE "failed")
<1>1. session[s].row \in Rows
  BY DEF Typed, SessionType
<1>2. "sent" \in Statuses /\ "failed" \in Statuses
  BY DEF Statuses
<1>3. mine \in Rows
  BY <1>1, <1>2, ClosedType
<1>4. Flush(s, mine) /\ Leave(s) /\ UNCHANGED <<suppressed, mail, asked, crashes>>
      /\ (prospect' = prospect \/ prospect' = [prospect EXCEPT !.latest = FALSE])
  BY DEF Record
<1> HIDE DEF mine
<1>5. draft' \in [Drafts -> Rows]
  BY <1>3, <1>4, FlushType
<1>6. prospect' \in Prospects
  BY <1>4, ProspectTypes
<1>7. suppressed \subseteq Addresses /\ crashes \in 0 .. MaxCrashes
  BY DEF Typed
<1> QED
  BY <1>4, <1>5, <1>6, <1>7, LeaveEnds, EndsTyped

-----------------------------------------------------------------------------
(* The inductive invariant.                                                *)

InPlan(x, l) == \E i \in DOMAIN x.plan : x.plan[i] = l

\* The stage of a session and its operation go together.
Stage(x) ==
    /\ \/ x.pc \in {"locking", x.next}
       \/ x.pc \in {"handoff", "record"} /\ x.next = "recheck"
    /\ x.next \in {"idle", "screen", "claim", "recheck", "sweep", "finish"}
    /\ x.next = "sweep" => x.op = "reclassify"
    /\ x.next \in {"screen", "claim", "recheck"} => x.op \in {"approve", "dispatch"}
    /\ x.next = "finish" => x.op \notin {"approve", "dispatch"}
    /\ x.next = "idle" => x.pc = "idle"

\* The locks under which a session writes, or hands an email over.
NeedsLock(x, l) ==
    \/ x.next = "recheck" /\ l \in {ProspectLock, DraftLock(x.draft)}
    \/ x.next = "recheck" /\ \E a \in Addresses : l = AddressLock(a)
    \/ /\ x.next \in {"screen", "claim", "finish"} /\ x.op \in Versioned \cup {"undo"}
       /\ l = DraftLock(x.draft)
    \/ x.next = "finish" /\ x.op = "archive" /\ l = ProspectLock
    \/ /\ x.next = "finish" /\ x.op \in {"suppress", "unsubscribe"}
       /\ l = AddressLock(x.address)

\* It has such a lock, or is still going to take it.
Has(s, l) == holder[l] = s \/ (session[s].pc = "locking" /\ InPlan(session[s], l))

Covered(s) == \A l \in Locks : NeedsLock(session[s], l) => Has(s, l)

\* The scheduler leaves the drafts of a person alone.
Ignores(s) ==
    /\ \A d \in session[s].todo : ~draft[d].manual
    /\ session[s].op = "dispatch" /\ session[s].pc # "idle" => ~draft[session[s].draft].manual

\* An approval that has locked the draft has it as it is.
Reading(s) ==
    /\ session[s].op = "approve"
    /\ \/ session[s].next = "claim"
       \/ /\ session[s].next = "screen"
          /\ ~(session[s].pc = "locking" /\ InPlan(session[s], DraftLock(session[s].draft)))

ReadsTrue(s) ==
    Reading(s) =>
        /\ holder[DraftLock(session[s].draft)] = s
        /\ draft[session[s].draft].manual =>
              /\ session[s].row = draft[session[s].draft]
              /\ session[s].next = "claim" =>
                    session[s].row.status \in {"pending_review", "editing"}

\* The session that has claimed a draft of a person.
Sender(s, d) == session[s].next = "recheck" /\ session[s].draft = d /\ draft[d].manual

SendsTrue(s) ==
    \A d \in Drafts : Sender(s, d) =>
        /\ draft[d].status = "sending" /\ session[s].row = draft[d]
        /\ session[s].pc # "record" => mail[d] = <<>>

HandsOff(s) ==
    session[s].pc = "handoff" => suppressed \cap Addresses = {} /\ ~prospect.archived

SessionOK(s) ==
    /\ Stage(session[s])
    /\ Covered(s)
    /\ Ignores(s)
    /\ ReadsTrue(s)
    /\ SendsTrue(s)
    /\ HandsOff(s)

ManualWaits == \A d \in Drafts : draft[d].manual => draft[d].auto = "none"

OneSender == \A s, t \in Sessions : \A d \in Drafts : Sender(s, d) /\ Sender(t, d) => s = t

MailOnce ==
    \A d \in Drafts : draft[d].manual =>
        /\ Len(mail[d]) <= 1
        /\ mail[d] # <<>> => draft[d].status \in {"sending", "sent", "failed"}

IInv == Typed /\ (\A s \in Sessions : SessionOK(s)) /\ ManualWaits /\ OneSender /\ MailOnce

\* What one session does to the rest, and to the drafts of a person.
Moves(s, d) ==
    /\ holder[DraftLock(d)] = s
    /\ draft'[d].auto = "none"
    /\ \/ draft[d].status \in Unsent /\ draft'[d].status \in Unsent \cup {"cancelled", "sending"}
       \/ Sender(s, d) /\ draft'[d].status \in {"sent", "failed"}
       \/ Sender(s, d) /\ mail[d] = <<>> /\ draft'[d].status = "blocked"

KeepsOthers(s) ==
    /\ \A t \in Sessions \ {s} : session'[t] = session[t]
    /\ \A l \in Locks : holder[l] \in Sessions \ {s} => holder'[l] = holder[l]

KeepsDrafts(s) ==
    \A d \in Drafts :
        /\ draft'[d].manual = draft[d].manual
        /\ draft[d].manual => draft'[d] = draft[d] \/ Moves(s, d)
        /\ \/ draft[d].manual => mail'[d] = mail[d]
           \/ Sender(s, d) /\ Len(mail'[d]) <= 1 /\ draft'[d] = draft[d]
        /\ Sender(s, d)' => Sender(s, d) \/ draft[d].status # "sending"

KeepsRest(s) ==
    /\ prospect'.archived => prospect.archived \/ holder[ProspectLock] = s
    /\ \A a \in suppressed' : a \in suppressed \/ holder[AddressLock(a)] = s

Acts(s) == KeepsOthers(s) /\ KeepsDrafts(s) /\ KeepsRest(s)

LEMMA FreeSessions == NoOne \notin Sessions
  BY OutreachAssumption

LEMMA DraftsFacts ==
    ASSUME IInv, NEW s \in Sessions, NEW d \in Drafts, Acts(s)
    PROVE  /\ draft'[d].manual = draft[d].manual
           /\ draft[d].manual /\ draft[d].status \in {"cancelled", "sent", "failed"} => draft'[d] = draft[d]
           /\ draft[d].manual => draft'[d].auto = "none"
           /\ draft[d].manual /\ holder[DraftLock(d)] # s => draft'[d] = draft[d]
           /\ draft[d].manual /\ draft[d].status = "sending" /\ ~Sender(s, d) => draft'[d] = draft[d]
<1>1. SendsTrue(s) /\ (draft[d].manual => draft[d].auto = "none")
  BY DEF IInv, SessionOK, ManualWaits
<1>2. /\ draft'[d].manual = draft[d].manual
      /\ draft[d].manual => draft'[d] = draft[d] \/ Moves(s, d)
  BY DEF Acts, KeepsDrafts
<1>3. CASE ~draft[d].manual
  BY <1>2, <1>3
<1>4. CASE draft'[d] = draft[d]
  BY <1>1, <1>4
<1>5. CASE draft[d].manual /\ Moves(s, d)
  <2>1. Sender(s, d) => draft[d].status = "sending"
    BY <1>1 DEF SendsTrue
  <2>2. draft[d].status \in Unsent \/ Sender(s, d)
    BY <1>5 DEF Moves
  <2> QED
    BY <1>2, <1>5, <2>1, <2>2 DEF Moves, Unsent
<1> QED
  BY <1>2, <1>3, <1>4, <1>5

\* The other sessions do not notice.
LEMMA OthersKeep ==
    ASSUME IInv, NEW s \in Sessions, NEW t \in Sessions \ {s}, Acts(s)
    PROVE  SessionOK(t)'
<1>1. session'[t] = session[t] /\ session[t] \in SessionType /\ SessionOK(t)
  BY DEF Acts, KeepsOthers, IInv, Typed
<1>2. \A l \in Locks : holder[l] = t => holder'[l] = t
  BY DEF Acts, KeepsOthers
<1>3. \A d \in Drafts :
         /\ draft'[d].manual = draft[d].manual
         /\ draft[d].manual /\ holder[DraftLock(d)] # s => draft'[d] = draft[d]
         /\ draft[d].manual /\ draft[d].status = "sending" /\ ~Sender(s, d) => draft'[d] = draft[d]
  BY DraftsFacts
<1>4. Stage(session[t])'
  BY <1>1 DEF SessionOK, Stage
<1>5. Covered(t)'
  <2> SUFFICES ASSUME NEW l \in Locks, NeedsLock(session[t], l)'
               PROVE  Has(t, l)'
    BY DEF Covered
  <2>1. NeedsLock(session[t], l)
    BY <1>1 DEF NeedsLock
  <2>2. Has(t, l)
    BY <1>1, <2>1 DEF SessionOK, Covered
  <2> QED
    BY <1>1, <1>2, <2>2 DEF Has, InPlan
<1>6. Ignores(t)'
  <2>1. \A d \in session[t].todo : d \in Drafts
    BY <1>1 DEF SessionType
  <2>2. session[t].op = "dispatch" /\ session[t].pc # "idle" => session[t].draft \in Drafts
    BY DEF IInv, Typed, Aiming
  <2> QED
    BY <1>1, <1>3, <2>1, <2>2 DEF SessionOK, Ignores
<1>7. ReadsTrue(t)'
  <2> SUFFICES ASSUME Reading(t)'
               PROVE  /\ holder'[DraftLock(session[t].draft)] = t
                      /\ draft'[session[t].draft].manual =>
                            /\ session[t].row = draft'[session[t].draft]
                            /\ session[t].next = "claim" =>
                                  session[t].row.status \in {"pending_review", "editing"}
    BY <1>1 DEF ReadsTrue
  <2>1. Reading(t)
    BY <1>1 DEF Reading, InPlan
  <2>2. session[t].draft \in Drafts
    BY <2>1 DEF IInv, Typed, Aiming, Reading, Versioned
  <2>3. holder[DraftLock(session[t].draft)] = t
    BY <1>1, <2>1 DEF SessionOK, ReadsTrue
  <2>4. draft[session[t].draft].manual =>
          /\ session[t].row = draft[session[t].draft]
          /\ session[t].next = "claim" => session[t].row.status \in {"pending_review", "editing"}
    BY <1>1, <2>1 DEF SessionOK, ReadsTrue
  <2>5. draft[session[t].draft].manual => draft'[session[t].draft] = draft[session[t].draft]
    BY <1>3, <2>2, <2>3
  <2> QED
    BY <1>2, <1>3, <2>2, <2>3, <2>4, <2>5, LockTypes
<1>8. SendsTrue(t)'
  <2> SUFFICES ASSUME NEW d \in Drafts, Sender(t, d)'
               PROVE  /\ draft'[d].status = "sending" /\ session[t].row = draft'[d]
                      /\ session[t].pc # "record" => mail'[d] = <<>>
    BY <1>1 DEF SendsTrue
  <2>1. Sender(t, d) /\ draft[d].manual
    BY <1>1, <1>3 DEF Sender
  <2>2. /\ draft[d].status = "sending" /\ session[t].row = draft[d]
        /\ session[t].pc # "record" => mail[d] = <<>>
    BY <1>1, <2>1 DEF SessionOK, SendsTrue
  <2>3. ~Sender(s, d)
    BY <2>1 DEF IInv, OneSender
  <2>4. draft'[d] = draft[d] /\ mail'[d] = mail[d]
    BY <1>3, <2>1, <2>2, <2>3 DEF Acts, KeepsDrafts
  <2> QED
    BY <2>2, <2>4
<1>9. HandsOff(t)'
  <2> SUFFICES ASSUME session[t].pc = "handoff"
               PROVE  suppressed' \cap Addresses = {} /\ ~prospect'.archived
    BY <1>1 DEF HandsOff
  <2>1. session[t].next = "recheck" /\ suppressed \cap Addresses = {} /\ ~prospect.archived
    BY <1>1 DEF SessionOK, HandsOff, Stage
  <2>2. holder[ProspectLock] = t
    BY <1>1, <2>1, LockTypes DEF SessionOK, Covered, NeedsLock, Has
  <2>3. \A a \in Addresses : holder[AddressLock(a)] = t
    BY <1>1, <2>1, LockTypes DEF SessionOK, Covered, NeedsLock, Has
  <2> QED
    BY <2>1, <2>2, <2>3 DEF Acts, KeepsRest
<1> QED
  BY <1>4, <1>5, <1>6, <1>7, <1>8, <1>9 DEF SessionOK

LEMMA StepKeeps ==
    ASSUME IInv, NEW s \in Sessions, Typed', Acts(s), SessionOK(s)'
    PROVE  IInv'
<1>1. \A t \in Sessions : SessionOK(t)'
  BY OthersKeep
<1>2. ManualWaits'
  BY DraftsFacts DEF ManualWaits
<1>3. ASSUME NEW t \in Sessions \ {s}, NEW d \in Drafts, Sender(t, d)'
      PROVE  Sender(t, d) /\ draft[d].status = "sending"
  <2>1. Sender(t, d)
    BY <1>3 DEF Acts, KeepsOthers, KeepsDrafts, Sender
  <2>2. SendsTrue(t)
    BY DEF IInv, SessionOK
  <2> QED
    BY <2>1, <2>2 DEF SendsTrue
<1>4. ASSUME NEW t \in Sessions \ {s}, NEW d \in Drafts, Sender(t, d)', Sender(s, d)'
      PROVE  FALSE
  <2>1. Sender(t, d) /\ draft[d].status = "sending"
    BY <1>3, <1>4
  <2>2. Sender(s, d)
    BY <1>4, <2>1 DEF Acts, KeepsDrafts
  <2> QED
    BY <2>1, <2>2 DEF IInv, OneSender
<1>5. OneSender'
  <2> SUFFICES ASSUME NEW t \in Sessions, NEW u \in Sessions, NEW d \in Drafts,
                      Sender(t, d)', Sender(u, d)', t # u
               PROVE  FALSE
    BY DEF OneSender
  <2>1. CASE t = s \/ u = s
    BY <1>4, <2>1
  <2>2. CASE t # s /\ u # s
    BY <1>3, <2>2 DEF IInv, OneSender
  <2> QED
    BY <2>1, <2>2
<1>6. MailOnce'
  <2> SUFFICES ASSUME NEW d \in Drafts, draft'[d].manual
               PROVE  /\ Len(mail'[d]) <= 1
                      /\ mail'[d] # <<>> => draft'[d].status \in {"sending", "sent", "failed"}
    BY DEF MailOnce
  <2>1. draft[d].manual
    BY DraftsFacts
  <2>2. SendsTrue(s)
    BY DEF IInv, SessionOK
  <2>3. /\ Len(mail[d]) <= 1
        /\ mail[d] # <<>> => draft[d].status \in {"sending", "sent", "failed"}
    BY <2>1 DEF IInv, MailOnce
  <2>4. CASE Sender(s, d) /\ Len(mail'[d]) <= 1 /\ draft'[d] = draft[d]
    BY <2>2, <2>4 DEF SendsTrue
  <2>5. CASE mail'[d] = mail[d]
    <3>1. CASE draft'[d] = draft[d]
      BY <2>3, <2>5, <3>1
    <3>2. CASE Moves(s, d)
      <4>1. CASE draft[d].status \in Unsent
        BY <2>3, <2>5, <4>1 DEF Unsent
      <4>2. CASE Sender(s, d) /\ draft'[d].status \in {"sent", "failed"}
        BY <2>3, <2>5, <4>2
      <4>3. CASE mail[d] = <<>>
        BY <2>3, <2>5, <4>3
      <4> QED
        BY <3>2, <4>1, <4>2, <4>3 DEF Moves
    <3> QED
      BY <2>1, <3>1, <3>2 DEF Acts, KeepsDrafts
  <2> QED
    BY <2>1, <2>4, <2>5 DEF Acts, KeepsDrafts
<1> QED
  BY <1>1, <1>2, <1>5, <1>6 DEF IInv

-----------------------------------------------------------------------------
(* Every step of a session keeps it.                                       *)

\* A session that ends needs nothing, and gives its own locks back only.
LEMMA EndsOK ==
    ASSUME IInv, NEW s \in Sessions, Ended(s),
           \A d \in Drafts : draft'[d].manual = draft[d].manual
    PROVE  KeepsOthers(s) /\ SessionOK(s)' /\ \A d \in Drafts : ~Sender(s, d)'
<1>1. PICK rest \in SUBSET session[s].todo :
          session' = [session EXCEPT ![s] = [Idle EXCEPT !.todo = rest]]
  BY DEF Ended
<1> DEFINE x == [Idle EXCEPT !.todo = rest]
<1>2. /\ x.pc = "idle" /\ x.next = "idle" /\ x.op = "dispatch" /\ x.todo = rest
  BY DEF Idle
<1>3. session'[s] = x /\ \A t \in Sessions \ {s} : session'[t] = session[t]
  BY <1>1 DEF IInv, Typed
<1> HIDE DEF x
<1>4. \A l \in Locks : holder[l] \in Sessions \ {s} => holder'[l] = holder[l]
  BY DEF Ended, Released
<1>5. KeepsOthers(s)
  BY <1>3, <1>4 DEF KeepsOthers
<1>6. Stage(session[s])' /\ HandsOff(s)' /\ ReadsTrue(s)' /\ (\A d \in Drafts : ~Sender(s, d)')
  BY <1>2, <1>3 DEF Stage, HandsOff, ReadsTrue, Reading, Sender
<1>7. Covered(s)'
  BY <1>2, <1>3 DEF Covered, NeedsLock
<1>8. Ignores(s)'
  <2>1. \A d \in session[s].todo : d \in Drafts /\ ~draft[d].manual
    BY DEF IInv, Typed, SessionType, SessionOK, Ignores
  <2> QED
    BY <1>1, <1>2, <1>3, <2>1 DEF Ignores
<1>9. SendsTrue(s)'
  BY <1>6 DEF SendsTrue
<1> QED
  BY <1>5, <1>6, <1>7, <1>8, <1>9 DEF SessionOK

\* The end of a session that writes nothing.
LEMMA EndsQuietly ==
    ASSUME IInv, NEW s \in Sessions, Ended(s), UNCHANGED <<rows, mail>>
    PROVE  Acts(s) /\ SessionOK(s)'
<1>1. draft' = draft /\ prospect' = prospect /\ suppressed' = suppressed /\ mail' = mail
  BY DEF rows
<1>2. KeepsOthers(s) /\ SessionOK(s)' /\ \A d \in Drafts : ~Sender(s, d)'
  BY <1>1, EndsOK
<1>3. KeepsDrafts(s) /\ KeepsRest(s)
  BY <1>1, <1>2 DEF KeepsDrafts, KeepsRest
<1> QED
  BY <1>2, <1>3 DEF Acts

LEMMA AbortKeeps == ASSUME IInv, NEW s \in Sessions, Abort(s) PROVE Typed' /\ Acts(s) /\ SessionOK(s)'
<1>1. Ended(s) /\ UNCHANGED <<rows, mail, asked, crashes>>
  BY LeaveEnds DEF Abort
<1>2. draft' \in [Drafts -> Rows] /\ prospect' \in Prospects /\ suppressed' \subseteq Addresses
      /\ crashes' \in 0 .. MaxCrashes
  BY <1>1 DEF rows, IInv, Typed
<1> QED
  BY <1>1, <1>2, EndsTyped, EndsQuietly DEF IInv

LEMMA CrashKeeps == ASSUME IInv, NEW s \in Sessions, Crash(s) PROVE Typed' /\ Acts(s) /\ SessionOK(s)'
<1> DEFINE fields == {"pc", "op", "draft", "address", "expected", "reviewed", "plan", "next",
                      "todo", "row", "person", "ok"}
<1>1. [Idle EXCEPT !.todo = {}] = Idle
  <2>1. Idle.todo = {}
    BY DEF Idle
  <2>2. Idle \in [fields -> {Idle[k] : k \in fields}]
    BY DEF Idle
  <2> QED
    BY <2>1, <2>2
<1>2. Ended(s) /\ UNCHANGED <<rows, mail, asked>>
  BY <1>1 DEF Crash, Ended
<1>3. draft' \in [Drafts -> Rows] /\ prospect' \in Prospects /\ suppressed' \subseteq Addresses
      /\ crashes' \in 0 .. MaxCrashes
  BY <1>2, OutreachAssumption DEF rows, IInv, Typed, Crash
<1> QED
  BY <1>2, <1>3, EndsTyped, EndsQuietly DEF IInv

\* A request that ends has locked what it writes.
LEMMA CommitKeeps == ASSUME IInv, NEW s \in Sessions, Commit(s) PROVE Typed' /\ Acts(s) /\ SessionOK(s)'
<1>0. Typed'
  BY CommitTyped DEF IInv
<1>1. Committed(s)
  BY CommitEffect DEF IInv
<1>2. session[s] \in SessionType /\ SessionOK(s)
  BY DEF IInv, Typed
<1>3. session[s].next = "finish" /\ session[s].pc = "finish"
  BY <1>1, <1>2 DEF Committed, SessionOK, Stage
<1>4. \A l \in Locks : NeedsLock(session[s], l) => holder[l] = s
  BY <1>2, <1>3 DEF SessionOK, Covered, Has
<1>5. \A d \in Drafts : draft'[d] = draft[d] \/ Touches(s, d)
  BY <1>1 DEF Committed, DraftsTouched
<1>6. \A d \in Drafts : draft'[d].manual = draft[d].manual
  BY <1>5 DEF Touches
<1>7. KeepsOthers(s) /\ SessionOK(s)' /\ \A d \in Drafts : ~Sender(s, d)'
  BY <1>1, <1>6, LeaveEnds, EndsOK DEF Committed
<1>8. ASSUME NEW d \in Drafts, draft[d].manual, Touches(s, d)
      PROVE  Moves(s, d)
  <2>1. holder[DraftLock(d)] = s
    BY <1>3, <1>4, <1>8, LockTypes DEF Touches, NeedsLock
  <2> QED
    BY <1>8, <2>1 DEF Touches, Moves
<1>9. KeepsDrafts(s)
  BY <1>1, <1>5, <1>6, <1>7, <1>8 DEF KeepsDrafts, Committed
<1>10. prospect'.archived => prospect.archived \/ holder[ProspectLock] = s
  BY <1>1, <1>3, <1>4, LockTypes DEF Committed, NeedsLock
<1>11. ASSUME NEW a \in suppressed', a \notin suppressed
       PROVE  holder[AddressLock(a)] = s
  <2>1. session[s].op \in {"suppress", "unsubscribe"} /\ a = session[s].address /\ a \in Addresses
    BY <1>1, <1>2, <1>11 DEF Committed, SessionType
  <2> QED
    BY <1>3, <1>4, <2>1, LockTypes DEF NeedsLock
<1>12. KeepsRest(s)
  BY <1>10, <1>11 DEF KeepsRest
<1> QED
  BY <1>0, <1>7, <1>9, <1>12 DEF Acts

\* A step that writes nothing but the session and its locks.
LEMMA QuietActs ==
    ASSUME IInv, NEW s \in Sessions, NEW x, session' = [session EXCEPT ![s] = x],
           UNCHANGED <<rows, mail>>, x.next = "recheck" => session[s].next = "recheck" /\ x.draft = session[s].draft,
           \A l \in Locks : holder[l] \in Sessions \ {s} => holder'[l] = holder[l]
    PROVE  Acts(s) /\ session'[s] = x
<1>1. draft' = draft /\ prospect' = prospect /\ suppressed' = suppressed /\ mail' = mail
  BY DEF rows
<1>2. session'[s] = x /\ \A t \in Sessions \ {s} : session'[t] = session[t]
  BY DEF IInv, Typed
<1>3. KeepsOthers(s) /\ KeepsRest(s)
  BY <1>1, <1>2 DEF KeepsOthers, KeepsRest
<1>4. \A d \in Drafts : Sender(s, d)' => Sender(s, d)
  BY <1>1, <1>2 DEF Sender
<1>5. KeepsDrafts(s)
  BY <1>1, <1>4 DEF KeepsDrafts
<1> QED
  BY <1>2, <1>3, <1>5 DEF Acts

LEMMA TailIs ==
    ASSUME NEW plan \in Seq(Locks), plan # <<>>
    PROVE  /\ \A i \in DOMAIN plan : plan[i] = Head(plan) \/ \E j \in DOMAIN Tail(plan) : Tail(plan)[j] = plan[i]
           /\ Tail(plan) = <<>> => \A i \in DOMAIN plan : plan[i] = Head(plan)
           /\ Head(plan) \in Locks
<1>1. Len(plan) \in Nat /\ Len(plan) > 0 /\ DOMAIN plan = 1 .. Len(plan)
  OBVIOUS
<1>2. /\ Len(Tail(plan)) = Len(plan) - 1 /\ DOMAIN Tail(plan) = 1 .. (Len(plan) - 1)
      /\ \A j \in 1 .. (Len(plan) - 1) : Tail(plan)[j] = plan[j + 1]
      /\ Head(plan) = plan[1]
  BY <1>1
<1>3. ASSUME NEW i \in DOMAIN plan, i # 1
      PROVE  \E j \in DOMAIN Tail(plan) : Tail(plan)[j] = plan[i]
  <2>1. i - 1 \in 1 .. (Len(plan) - 1) /\ (i - 1) + 1 = i
    BY <1>1, <1>3
  <2> QED
    BY <1>2, <2>1
<1>4. Tail(plan) = <<>> => \A i \in DOMAIN plan : i = 1
  BY <1>1, <1>2
<1> QED
  BY <1>1, <1>2, <1>3, <1>4

\* A lock that is taken is what its session waited for.
LEMMA TakesLock ==
    ASSUME IInv, NEW s \in Sessions, session[s].pc = "locking", session[s].plan # <<>>,
           NEW l, l = Head(session[s].plan),
           holder' = [holder EXCEPT ![l] = s], session'[s] = Loaded(s, l)
    PROVE  /\ \A k \in Locks : Has(s, k) => Has(s, k)'
           /\ holder'[l] = s /\ l \in Locks
           /\ \A k \in Locks : holder[k] = s => holder'[k] = s
<1> DEFINE plan == session[s].plan
           x == Loaded(s, l)
<1>1. session[s] \in SessionType /\ plan \in Seq(Locks) /\ holder \in [Locks -> Sessions \cup {NoOne}]
  BY DEF IInv, Typed, SessionType
<1>2. /\ \A i \in DOMAIN plan : plan[i] = l \/ \E j \in DOMAIN Tail(plan) : Tail(plan)[j] = plan[i]
      /\ Tail(plan) = <<>> => \A i \in DOMAIN plan : plan[i] = l
      /\ l \in Locks
  BY <1>1, TailIs
<1>3. x.plan = Tail(plan) /\ (x.pc = "locking" \/ Tail(plan) = <<>>)
  BY <1>1 DEF Loaded, SessionType
<1>4. holder'[l] = s /\ \A k \in Locks : holder[k] = s => holder'[k] = s
  BY <1>1, <1>2
<1>5. ASSUME NEW k \in Locks, Has(s, k)
      PROVE  Has(s, k)'
  <2>1. CASE holder[k] = s
    BY <1>4, <2>1 DEF Has
  <2>2. CASE InPlan(session[s], k) /\ k # l
    BY <1>2, <1>3, <2>2 DEF Has, InPlan
  <2>3. CASE k = l
    BY <1>4, <2>3 DEF Has
  <2> QED
    BY <1>5, <2>1, <2>2, <2>3 DEF Has
<1> QED
  BY <1>2, <1>4, <1>5

LEMMA AcquireKeeps ==
    ASSUME IInv, NEW s \in Sessions, Acquire(s)
    PROVE  Typed' /\ Acts(s) /\ SessionOK(s)'
<1> DEFINE l == Head(session[s].plan)
           x == Loaded(s, l)
<1>0. /\ Typed' /\ UNCHANGED <<rows, mail, asked, crashes>>
      /\ session[s].pc = "locking" /\ session[s].plan # <<>> /\ holder[l] \in {NoOne, s}
  BY AcquireTyped DEF IInv, Acquire
<1>1. CASE Leave(s)
  BY <1>0, <1>1, LeaveEnds, EndsQuietly
<1>2. CASE ~Leave(s)
  <2>1. holder' = [holder EXCEPT ![l] = s] /\ session' = [session EXCEPT ![s] = x]
    BY <1>2 DEF Acquire
  <2>2. session[s] \in SessionType /\ session[s].plan \in Seq(Locks) /\ SessionOK(s)
    BY DEF IInv, Typed, SessionType
  <2>3. /\ x.op = session[s].op /\ x.draft = session[s].draft /\ x.next = session[s].next
        /\ x.address = session[s].address /\ x.todo = session[s].todo
        /\ x.plan = Tail(session[s].plan)
        /\ x.pc = IF Tail(session[s].plan) = <<>> THEN session[s].next ELSE "locking"
        /\ x.row = IF session[s].op = "approve" /\ session[s].next = "screen"
                        /\ l = DraftLock(session[s].draft)
                   THEN draft[session[s].draft] ELSE session[s].row
    BY <1>0, <2>2 DEF Loaded, SessionType
  <2> HIDE DEF x
  <2>4. \A k \in Locks : holder[k] \in Sessions \ {s} => holder'[k] = holder[k]
    BY <1>0, <2>1, FreeSessions DEF IInv, Typed
  <2>5. Acts(s) /\ session'[s] = x
    BY <1>0, <2>1, <2>3, <2>4, QuietActs
  <2>6. draft' = draft /\ prospect' = prospect /\ suppressed' = suppressed /\ mail' = mail
    BY <1>0 DEF rows
  <2>7. /\ \A k \in Locks : Has(s, k) => Has(s, k)'
        /\ holder'[l] = s /\ l \in Locks
        /\ \A k \in Locks : holder[k] = s => holder'[k] = s
    BY <1>0, <2>1, <2>5, TakesLock DEF x
  <2>8. Stage(session[s])'
    BY <1>0, <2>2, <2>3, <2>5 DEF SessionOK, Stage
  <2>9. Covered(s)'
    BY <2>2, <2>3, <2>5, <2>7 DEF SessionOK, Covered, NeedsLock
  <2>10. Ignores(s)'
    BY <1>0, <2>2, <2>3, <2>5, <2>6 DEF SessionOK, Ignores
  <2>11. ReadsTrue(s)'
    <3> DEFINE d == session[s].draft
    <3> SUFFICES ASSUME Reading(s)'
                 PROVE  /\ holder'[DraftLock(d)] = s
                        /\ draft[d].manual =>
                              /\ x.row = draft[d]
                              /\ x.next = "claim" => x.row.status \in {"pending_review", "editing"}
      BY <2>3, <2>5, <2>6 DEF ReadsTrue
    <3>1. x.op = "approve" /\ d \in Drafts /\ DraftLock(d) \in Locks
      BY <2>3, <2>5, LockTypes DEF Reading, IInv, Typed, Aiming, Versioned
    <3>2. CASE Reading(s)
      BY <2>2, <2>3, <2>7, <3>1, <3>2 DEF SessionOK, ReadsTrue
    <3>3. CASE ~Reading(s)
      <4>1. session[s].next = "screen" /\ InPlan(session[s], DraftLock(d))
        BY <2>3, <2>5, <3>1, <3>3 DEF Reading
      <4>2. ~(x.pc = "locking" /\ InPlan(x, DraftLock(d)))
        BY <2>3, <2>5, <4>1 DEF Reading
      <4>3. l = DraftLock(d)
        BY <1>0, <2>2, <2>3, <4>1, <4>2, TailIs DEF InPlan
      <4> QED
        BY <2>3, <2>7, <3>1, <4>1, <4>3
    <3> QED
      BY <3>2, <3>3
  <2>12. SendsTrue(s)'
    <3> SUFFICES ASSUME NEW d \in Drafts, Sender(s, d)'
                 PROVE  /\ draft[d].status = "sending" /\ x.row = draft[d]
                        /\ x.pc # "record" => mail[d] = <<>>
      BY <2>5, <2>6 DEF SendsTrue
    <3>1. Sender(s, d) /\ session[s].next = "recheck" /\ session[s].pc # "record"
      BY <1>0, <2>3, <2>5, <2>6 DEF Sender
    <3>2. x.row = session[s].row
      BY <2>3, <3>1
    <3> QED
      BY <2>2, <3>1, <3>2 DEF SessionOK, SendsTrue
  <2>13. HandsOff(s)'
    BY <2>2, <2>3, <2>5 DEF SessionOK, Stage, HandsOff
  <2> QED
    BY <1>0, <2>5, <2>8, <2>9, <2>10, <2>11, <2>12, <2>13 DEF SessionOK
<1> QED
  BY <1>1, <1>2

LEMMA ThirdOf ==
    ASSUME NEW a, NEW b, NEW c, NEW plan, plan = <<a>> \o <<b>> \o <<c, b>>
    PROVE  3 \in DOMAIN plan /\ plan[3] = c
  OBVIOUS

LEMMA PlanHas ==
    ASSUME NEW kind \in Ops, NEW d, NEW a, NEW x, x.plan = Plan(kind, d, a)
    PROVE  /\ kind \in Versioned \cup {"undo", "dispatch"} => InPlan(x, DraftLock(d))
           /\ kind = "archive" => InPlan(x, ProspectLock)
           /\ kind \in {"suppress", "unsubscribe"} => InPlan(x, AddressLock(a))
<1>1. CASE kind \in Versioned
  <2>1. x.plan = <<DraftLock(d), ProspectLock>>
    BY <1>1, PlanIs
  <2>2. 1 \in DOMAIN x.plan /\ x.plan[1] = DraftLock(d)
    BY <2>1
  <2> QED
    BY <1>1, <2>2 DEF InPlan, Versioned
<1>2. CASE kind \in {"undo", "dispatch"}
  <2>1. x.plan = <<ProspectLock, DraftLock(d)>>
    BY <1>2, PlanIs
  <2>2. 2 \in DOMAIN x.plan /\ x.plan[2] = DraftLock(d)
    BY <2>1
  <2> QED
    BY <1>2, <2>2 DEF InPlan
<1>3. CASE kind = "archive"
  <2>1. x.plan = <<ProspectLock>>
    BY <1>3, PlanIs
  <2>2. 1 \in DOMAIN x.plan /\ x.plan[1] = ProspectLock
    BY <2>1
  <2> QED
    BY <1>3, <2>2 DEF InPlan, Versioned
<1>4. CASE kind = "suppress"
  <2>1. x.plan = (IF a = Primary THEN <<ProspectLock>> ELSE <<>>) \o <<AddressLock(a)>>
    BY <1>4, PlanIs
  <2>2. x.plan = IF a = Primary THEN <<ProspectLock, AddressLock(a)>> ELSE <<AddressLock(a)>>
    BY <2>1
  <2>3. \E i \in DOMAIN x.plan : x.plan[i] = AddressLock(a)
    <3>1. CASE a = Primary
      <4>1. 2 \in DOMAIN x.plan /\ x.plan[2] = AddressLock(a)
        BY <2>2, <3>1
      <4> QED
        BY <4>1
    <3>2. CASE a # Primary
      <4>1. 1 \in DOMAIN x.plan /\ x.plan[1] = AddressLock(a)
        BY <2>2, <3>2
      <4> QED
        BY <4>1
    <3> QED
      BY <3>1, <3>2
  <2> QED
    BY <1>4, <2>3 DEF InPlan, Versioned
<1>5. CASE kind = "unsubscribe"
  <2>1. x.plan = <<DraftLock(d)>> \o (IF a = Primary THEN <<ProspectLock>> ELSE <<>>)
                    \o <<AddressLock(a), ProspectLock>>
    BY <1>5, PlanIs
  <2> DEFINE last == <<AddressLock(a), ProspectLock>>
  <2>2. CASE a = Primary
    <3>1. x.plan = <<DraftLock(d)>> \o <<ProspectLock>> \o <<AddressLock(a), ProspectLock>>
      BY <2>1, <2>2
    <3>2. 3 \in DOMAIN x.plan /\ x.plan[3] = AddressLock(a)
      BY <3>1, ThirdOf
    <3> QED
      BY <1>5, <3>2 DEF InPlan, Versioned
  <2>3. CASE a # Primary
    <3>1. <<DraftLock(d)>> \o <<>> = <<DraftLock(d)>>
      OBVIOUS
    <3>2. x.plan = <<DraftLock(d)>> \o last
      BY <2>1, <2>3, <3>1
    <3>3. 2 \in DOMAIN x.plan /\ x.plan[2] = AddressLock(a)
      BY <3>2
    <3> QED
      BY <1>5, <3>3 DEF InPlan, Versioned
  <2> QED
    BY <1>5, <2>2, <2>3 DEF InPlan, Versioned
<1>6. CASE kind \in {"reclassify", "set_dnc", "restore"}
  BY <1>6 DEF Versioned
<1> QED
  BY <1>1, <1>2, <1>3, <1>4, <1>5, <1>6 DEF Ops

LEMMA AskKeeps ==
    ASSUME IInv, NEW s \in Clients, NEW kind, NEW d, NEW a, AskOf(kind, d, a), Ask(s, kind, d, a)
    PROVE  s \in Sessions /\ Typed' /\ Acts(s) /\ SessionOK(s)'
<1> DEFINE expected == IF kind \in Versioned THEN draft[d].version ELSE 0
           reviewed == IF kind \in Versioned THEN draft[d].body ELSE 0
           plan == Plan(kind, d, a)
           next == IF kind = "approve" THEN "screen"
                   ELSE IF kind = "reclassify" THEN "sweep" ELSE "finish"
           x == [ Idle EXCEPT !.pc = "locking", !.op = kind, !.draft = d, !.address = a,
                              !.expected = expected, !.reviewed = reviewed,
                              !.plan = plan, !.next = next ]
<1>1. Typed' /\ s \in Sessions
  BY AskTyped DEF IInv, Sessions
<1>2. session' = [session EXCEPT ![s] = x] /\ UNCHANGED <<rows, holder, mail, crashes>>
  BY DEF Ask
<1> HIDE DEF expected, reviewed, plan
<1>3. /\ x.pc = "locking" /\ x.op = kind /\ x.draft = d /\ x.address = a /\ x.plan = plan
      /\ x.next = next /\ x.todo = {}
  BY DEF Idle
<1>4. x.next = (IF kind = "approve" THEN "screen"
                ELSE IF kind = "reclassify" THEN "sweep" ELSE "finish")
  BY <1>3
<1> HIDE DEF x
<1>5. Acts(s) /\ session'[s] = x
  BY <1>1, <1>2, <1>4, QuietActs
<1>6. /\ kind \in Ops /\ kind # "dispatch"
      /\ kind \in Versioned \cup {"undo"} => InPlan(x, DraftLock(d))
      /\ kind = "archive" => InPlan(x, ProspectLock)
      /\ kind \in {"suppress", "unsubscribe"} => InPlan(x, AddressLock(a))
  BY <1>3, PlanHas DEF AskOf, plan
<1>7. Stage(session[s])'
  BY <1>3, <1>4, <1>5, <1>6 DEF Stage
<1>8. Covered(s)'
  BY <1>3, <1>4, <1>5, <1>6 DEF Covered, NeedsLock, Has
<1>9. Ignores(s)'
  BY <1>3, <1>5, <1>6 DEF Ignores
<1>10. ReadsTrue(s)'
  BY <1>3, <1>4, <1>5, <1>6 DEF ReadsTrue, Reading, Versioned
<1>11. SendsTrue(s)' /\ HandsOff(s)'
  BY <1>3, <1>4, <1>5 DEF SendsTrue, Sender, HandsOff
<1> QED
  BY <1>1, <1>5, <1>7, <1>8, <1>9, <1>10, <1>11 DEF SessionOK

LEMMA SweepKeeps ==
    ASSUME IInv, NEW s \in Sessions, Sweep(s)
    PROVE  Typed' /\ Acts(s) /\ SessionOK(s)'
<1>1. PICK order : session' = [session EXCEPT
               ![s].pc = IF DOMAIN order = {} THEN "finish" ELSE "locking",
               ![s].plan = [i \in DOMAIN order |-> DraftLock(order[i])],
               ![s].next = "finish"]
  BY DEF Sweep
<1> DEFINE pc == IF DOMAIN order = {} THEN "finish" ELSE "locking"
           plan == [i \in DOMAIN order |-> DraftLock(order[i])]
           x == [session[s] EXCEPT !.pc = pc, !.plan = plan, !.next = "finish"]
<1>2. Typed' /\ session[s] \in SessionType /\ SessionOK(s)
  BY SweepTyped DEF IInv, Typed
<1>3. session[s].op = "reclassify"
  BY <1>2 DEF Sweep, SessionOK, Stage
<1>4. session' = [session EXCEPT ![s] = x]
  BY <1>1, <1>2 DEF SessionType, IInv, Typed
<1>5. pc \in {"finish", "locking"}
  OBVIOUS
<1> HIDE DEF pc, plan
<1>6. x.pc = pc /\ x.next = "finish" /\ x.op = session[s].op /\ x.todo = session[s].todo
  BY <1>2 DEF SessionType
<1> HIDE DEF x
<1>7. draft' = draft /\ UNCHANGED <<rows, holder, mail>>
  BY DEF Sweep, rows
<1>8. Acts(s) /\ session'[s] = x
  BY <1>4, <1>6, <1>7, QuietActs
<1>9. Stage(session[s])' /\ HandsOff(s)' /\ SendsTrue(s)' /\ ReadsTrue(s)'
  BY <1>3, <1>5, <1>6, <1>8 DEF Stage, HandsOff, SendsTrue, Sender, ReadsTrue, Reading
<1>10. Covered(s)'
  BY <1>3, <1>6, <1>8 DEF Covered, NeedsLock, Versioned
<1>11. Ignores(s)'
  BY <1>2, <1>3, <1>6, <1>7, <1>8 DEF SessionOK, Ignores
<1> QED
  BY <1>2, <1>8, <1>9, <1>10, <1>11 DEF SessionOK

\* The scheduler selects drafts whose review window has passed: never a person's.
LEMMA ScanKeeps ==
    ASSUME IInv, NEW w \in Workers, Scan(w)
    PROVE  w \in Sessions /\ Typed' /\ Acts(w) /\ SessionOK(w)'
<1> DEFINE due == {d \in Drafts : draft[d].status = "pending_review" /\ draft[d].auto = "due"}
           x == [session[w] EXCEPT !.todo = due]
<1>1. Typed' /\ w \in Sessions
  BY ScanTyped DEF IInv, Sessions
<1>2. session[w] \in SessionType /\ SessionOK(w) /\ session[w].pc = "idle"
  BY <1>1 DEF IInv, Typed, Scan
<1>3. session' = [session EXCEPT ![w] = x]
  BY <1>1, <1>2 DEF Scan, SessionType, IInv, Typed
<1>4. \A d \in due : ~draft[d].manual
  BY DEF IInv, ManualWaits
<1> HIDE DEF due
<1>5. /\ x.pc = "idle" /\ x.next = session[w].next /\ x.op = session[w].op /\ x.todo = due
      /\ x.draft = session[w].draft
  BY <1>2 DEF SessionType
<1>6. session[w].next = "idle"
  BY <1>2 DEF SessionOK, Stage
<1> HIDE DEF x
<1>7. draft' = draft /\ UNCHANGED <<rows, holder, mail>>
  BY DEF Scan, rows
<1>8. Acts(w) /\ session'[w] = x
  BY <1>1, <1>3, <1>5, <1>6, <1>7, QuietActs
<1>9. Stage(session[w])' /\ HandsOff(w)' /\ SendsTrue(w)' /\ ReadsTrue(w)' /\ Covered(w)'
  BY <1>5, <1>6, <1>8
  DEF Stage, HandsOff, SendsTrue, Sender, ReadsTrue, Reading, Covered, NeedsLock
<1>10. Ignores(w)'
  BY <1>4, <1>5, <1>7, <1>8 DEF Ignores
<1> QED
  BY <1>1, <1>8, <1>9, <1>10 DEF SessionOK

LEMMA HintKeeps ==
    ASSUME IInv, NEW w \in Workers, Hint(w)
    PROVE  w \in Sessions /\ Typed' /\ Acts(w) /\ SessionOK(w)'
<1>1. PICK d \in session[w].todo : session' = [session EXCEPT ![w] =
            [ Idle EXCEPT !.pc = "locking", !.draft = d, !.row = draft[d],
                          !.plan = Plan("dispatch", d, Primary), !.next = "screen",
                          !.todo = session[w].todo \ {d} ]]
  BY DEF Hint
<1> DEFINE plan == Plan("dispatch", d, Primary)
           rest == session[w].todo \ {d}
           x == [ Idle EXCEPT !.pc = "locking", !.draft = d, !.row = draft[d], !.plan = plan,
                              !.next = "screen", !.todo = rest ]
<1>2. Typed' /\ w \in Sessions
  BY HintTyped DEF IInv, Sessions
<1>3. session' = [session EXCEPT ![w] = x]
  BY <1>1
<1> HIDE DEF plan
<1>4. /\ x.pc = "locking" /\ x.next = "screen" /\ x.op = "dispatch" /\ x.todo = rest /\ x.draft = d
  BY DEF Idle
<1>5. \A e \in session[w].todo : e \in Drafts /\ ~draft[e].manual
  BY <1>2 DEF IInv, Typed, SessionType, SessionOK, Ignores
<1> HIDE DEF x
<1>6. draft' = draft /\ UNCHANGED <<rows, holder, mail>>
  BY DEF Hint, rows
<1>7. Acts(w) /\ session'[w] = x
  BY <1>2, <1>3, <1>4, <1>6, QuietActs
<1>8. Stage(session[w])' /\ HandsOff(w)' /\ SendsTrue(w)' /\ ReadsTrue(w)' /\ Covered(w)'
  BY <1>4, <1>7
  DEF Stage, HandsOff, SendsTrue, Sender, ReadsTrue, Reading, Covered, NeedsLock, Versioned
<1>9. Ignores(w)'
  BY <1>4, <1>5, <1>6, <1>7 DEF Ignores
<1> QED
  BY <1>2, <1>7, <1>8, <1>9 DEF SessionOK

-----------------------------------------------------------------------------
(* The steps of dispatch_draft.                                            *)

LEMMA RecheckHas ==
    ASSUME NEW d \in Drafts, NEW x, x.plan = RecheckPlan(d)
    PROVE  /\ InPlan(x, ProspectLock) /\ InPlan(x, DraftLock(d))
           /\ \A a \in Addresses : InPlan(x, AddressLock(a))
<1> DEFINE both == <<ProspectLock, DraftLock(d)>>
<1>1. both \in Seq(Locks) /\ Len(both) = 2 /\ both[1] = ProspectLock /\ both[2] = DraftLock(d)
  BY LockTypes
<1>2. AddressLocks \in Seq(Locks) /\ Len(AddressLocks) \in Nat
  BY LockTypes
<1>3. x.plan = both \o AddressLocks
  BY DEF RecheckPlan
<1> HIDE DEF both
<1>4. /\ both \o AddressLocks \in Seq(Locks)
      /\ Len(both \o AddressLocks) = 2 + Len(AddressLocks)
      /\ \A i \in 1 .. 2 + Len(AddressLocks) :
            (both \o AddressLocks)[i] = IF i <= 2 THEN both[i] ELSE AddressLocks[i - 2]
  <2>1. /\ both \o AddressLocks \in Seq(Locks)
        /\ Len(both \o AddressLocks) = Len(both) + Len(AddressLocks)
        /\ \A i \in 1 .. Len(both) + Len(AddressLocks) :
              (both \o AddressLocks)[i] =
                  IF i <= Len(both) THEN both[i] ELSE AddressLocks[i - Len(both)]
    <3>1. both \in Seq(Locks) /\ AddressLocks \in Seq(Locks)
      BY <1>1, <1>2
    <3> QED
      BY <3>1, ConcatProperties, Zenon
  <2> QED
    BY <1>1, <2>1, Zenon
<1>5. DOMAIN x.plan = 1 .. 2 + Len(AddressLocks)
  BY <1>3, <1>4
<1>6. /\ 1 \in DOMAIN x.plan /\ x.plan[1] = ProspectLock
      /\ 2 \in DOMAIN x.plan /\ x.plan[2] = DraftLock(d)
  BY <1>1, <1>2, <1>3, <1>4, <1>5
<1>7. ASSUME NEW a \in Addresses
      PROVE  InPlan(x, AddressLock(a))
  <2>1. PICK i \in DOMAIN Recipients : a = Recipients[i]
    BY DEF Addresses
  <2>2. i \in 1 .. Len(AddressLocks) /\ AddressLocks[i] = AddressLock(a)
    BY <2>1, LockTypes, OutreachAssumption DEF AddressLocks
  <2>3. 2 + i \in 1 .. 2 + Len(AddressLocks) /\ ~(2 + i <= 2) /\ (2 + i) - 2 = i
    BY <1>2, <2>2
  <2>4. 2 + i \in DOMAIN x.plan /\ x.plan[2 + i] = AddressLock(a)
    BY <1>3, <1>4, <1>5, <2>2, <2>3
  <2> QED
    BY <2>4 DEF InPlan
<1> QED
  BY <1>6, <1>7 DEF InPlan

\* What a session at each stage has, of its draft.
LEMMA AtDraft ==
    ASSUME IInv, NEW s \in Sessions,
           session[s].pc \in {"screen", "claim", "recheck", "handoff", "record"}
    PROVE  /\ session[s].draft \in Drafts
           /\ session[s].op \in {"approve", "dispatch"}
           /\ session[s].next = (IF session[s].pc \in {"handoff", "record"} THEN "recheck"
                                 ELSE session[s].pc)
           /\ \A l \in Locks : NeedsLock(session[s], l) => holder[l] = s
           /\ draft[session[s].draft].manual => session[s].row = draft[session[s].draft]
           /\ draft[session[s].draft].manual => holder[DraftLock(session[s].draft)] = s
           /\ draft[session[s].draft].manual /\ session[s].pc = "claim" =>
                  draft[session[s].draft].status \in {"pending_review", "editing"}
           /\ draft[session[s].draft].manual /\ session[s].pc \in {"recheck", "handoff", "record"} =>
                  Sender(s, session[s].draft)
<1> DEFINE d == session[s].draft
<1>1. SessionOK(s)
  BY DEF IInv
<1>2. session[s].next = (IF session[s].pc \in {"handoff", "record"} THEN "recheck" ELSE session[s].pc)
  BY <1>1 DEF SessionOK, Stage
<1>3. session[s].op \in {"approve", "dispatch"}
  BY <1>1, <1>2 DEF SessionOK, Stage
<1>4. d \in Drafts
  BY <1>3 DEF IInv, Typed, Aiming, Versioned
<1>5. \A l \in Locks : NeedsLock(session[s], l) => holder[l] = s
  BY <1>1 DEF SessionOK, Covered, Has
<1>6. ASSUME draft[d].manual, session[s].pc \in {"recheck", "handoff", "record"}
      PROVE  Sender(s, d) /\ session[s].row = draft[d] /\ holder[DraftLock(d)] = s
  <2>1. Sender(s, d)
    BY <1>2, <1>6 DEF Sender
  <2>2. session[s].row = draft[d]
    BY <1>1, <1>4, <2>1 DEF SessionOK, SendsTrue
  <2>3. holder[DraftLock(d)] = s
    BY <1>2, <1>4, <1>5, <1>6, LockTypes DEF NeedsLock
  <2> QED
    BY <2>1, <2>2, <2>3
<1>7. ASSUME draft[d].manual, session[s].pc \in {"screen", "claim"}
      PROVE  /\ session[s].row = draft[d] /\ holder[DraftLock(d)] = s
             /\ session[s].pc = "claim" => draft[d].status \in {"pending_review", "editing"}
  <2>1. session[s].op = "approve"
    BY <1>1, <1>3, <1>7 DEF SessionOK, Ignores
  <2>2. Reading(s)
    BY <1>2, <1>7, <2>1 DEF Reading
  <2> QED
    BY <1>1, <1>2, <1>7, <2>2 DEF SessionOK, ReadsTrue
<1> QED
  BY <1>2, <1>3, <1>4, <1>5, <1>6, <1>7

LEMMA BlockKeeps ==
    ASSUME IInv, NEW s \in Sessions, Block(s),
           session[s].pc \in {"screen", "claim", "recheck"},
           session[s].pc = "screen" => Allowed(s),
           UNCHANGED <<prospect, suppressed, mail, asked, crashes>>
    PROVE  Typed' /\ Acts(s) /\ SessionOK(s)'
<1> DEFINE d == session[s].draft
<1>1. Typed'
  BY BlockTyped DEF IInv
<1>2. /\ \A e \in Drafts : draft'[e].manual = draft[e].manual
      /\ \A e \in Drafts : e # d => draft'[e] = draft[e]
      /\ d \in Drafts => /\ draft'[d].status = "blocked"
                         /\ draft'[d].auto = Column(session[s].row.auto, "none", draft[d].auto)
  BY BlockType DEF IInv
<1>3. KeepsOthers(s) /\ SessionOK(s)' /\ \A e \in Drafts : ~Sender(s, e)'
  BY <1>2, LeaveEnds, EndsOK DEF Block
<1>4. ASSUME draft[d].manual
      PROVE  Moves(s, d)
  <2>1. d \in Drafts /\ session[s].row = draft[d] /\ holder[DraftLock(d)] = s
    BY <1>4, AtDraft
  <2>2. draft[d].auto = "none"
    BY <1>4, <2>1 DEF IInv, ManualWaits
  <2>3. draft'[d].auto = "none" /\ draft'[d].status = "blocked"
    BY <1>2, <2>1, <2>2 DEF Column
  <2>4. CASE session[s].pc = "screen"
    <3>1. session[s].op = "approve"
      <4>1. Ignores(s)
        BY DEF IInv, SessionOK
      <4> QED
        BY <1>4, <2>4, <4>1, AtDraft DEF Ignores
    <3>2. draft[d].status \in {"pending_review", "editing"}
      BY <2>1, <2>4, <3>1 DEF Allowed
    <3> QED
      BY <2>1, <2>3, <3>2 DEF Moves, Unsent
  <2>5. CASE session[s].pc = "claim"
    <3>1. draft[d].status \in {"pending_review", "editing"}
      BY <1>4, <2>5, AtDraft
    <3> QED
      BY <2>1, <2>3, <3>1 DEF Moves, Unsent
  <2>6. CASE session[s].pc = "recheck"
    <3>1. Sender(s, d)
      BY <1>4, <2>6, AtDraft
    <3>2. mail[d] = <<>>
      BY <2>1, <2>6, <3>1 DEF IInv, SessionOK, SendsTrue
    <3> QED
      BY <2>1, <2>3, <3>1, <3>2 DEF Moves
  <2> QED
    BY <2>4, <2>5, <2>6
<1>5. KeepsDrafts(s)
  BY <1>2, <1>3, <1>4 DEF KeepsDrafts
<1>6. KeepsRest(s)
  BY DEF KeepsRest
<1> QED
  BY <1>1, <1>3, <1>5, <1>6 DEF Acts

LEMMA ScreenKeeps ==
    ASSUME IInv, NEW s \in Sessions, Screen(s)
    PROVE  Typed' /\ Acts(s) /\ SessionOK(s)'
<1>0. /\ Typed' /\ session[s].pc = "screen"
      /\ prospect' = prospect /\ suppressed' = suppressed /\ mail' = mail
      /\ asked' = asked /\ crashes' = crashes
  BY ScreenTyped DEF IInv, Screen
<1>1. CASE Leave(s) /\ UNCHANGED draft
  <2>1. UNCHANGED <<rows, mail>>
    BY <1>0, <1>1 DEF rows
  <2> QED
    BY <1>0, <1>1, <2>1, LeaveEnds, EndsQuietly
<1>2. CASE Allowed(s) /\ Block(s)
  BY <1>0, <1>2, BlockKeeps
<1>3. CASE Allowed(s) /\ Wait(s, AddressLocks, "claim") /\ UNCHANGED <<draft, holder>>
  <2> DEFINE x == [session[s] EXCEPT !.pc = "locking", !.plan = AddressLocks, !.next = "claim"]
  <2>1. session[s] \in SessionType /\ SessionOK(s)
    BY DEF IInv, Typed
  <2>2. session' = [session EXCEPT ![s] = x]
    BY <1>3, <2>1 DEF Wait, IInv, Typed, SessionType
  <2>3. /\ x.pc = "locking" /\ x.next = "claim" /\ x.op = session[s].op
        /\ x.draft = session[s].draft /\ x.todo = session[s].todo /\ x.row = session[s].row
        /\ x.address = session[s].address
    BY <2>1 DEF SessionType
  <2> HIDE DEF x
  <2>4. draft' = draft /\ holder' = holder /\ UNCHANGED <<rows, mail>>
    BY <1>0, <1>3 DEF rows
  <2>5. Acts(s) /\ session'[s] = x
    BY <2>2, <2>3, <2>4, QuietActs
  <2>6. Stage(session[s])' /\ HandsOff(s)' /\ SendsTrue(s)'
    BY <1>0, <2>3, <2>5, AtDraft DEF Stage, HandsOff, SendsTrue, Sender
  <2>7. Covered(s)'
    <3> SUFFICES ASSUME NEW l \in Locks, NeedsLock(x, l)
                 PROVE  Has(s, l)'
      BY <2>5 DEF Covered, NeedsLock
    <3>1. NeedsLock(session[s], l)
      BY <1>0, <2>3, AtDraft DEF NeedsLock
    <3> QED
      BY <1>0, <2>4, <3>1, AtDraft DEF Has
  <2>8. Ignores(s)'
    BY <1>0, <2>1, <2>3, <2>4, <2>5 DEF SessionOK, Ignores
  <2>9. ReadsTrue(s)'
    <3> DEFINE d == session[s].draft
    <3> SUFFICES ASSUME x.op = "approve"
                 PROVE  /\ holder[DraftLock(d)] = s
                        /\ draft[d].manual =>
                              /\ x.row = draft[d]
                              /\ x.row.status \in {"pending_review", "editing"}
      BY <2>3, <2>4, <2>5 DEF ReadsTrue, Reading
    <3>1. holder[DraftLock(d)] = s
      <4>1. d \in Drafts /\ session[s].next = "screen" /\ session[s].op = "approve"
        BY <1>0, <2>3, AtDraft
      <4> QED
        BY <1>0, <4>1, AtDraft, LockTypes DEF NeedsLock, Versioned
    <3> QED
      BY <1>0, <1>3, <2>3, <3>1, AtDraft DEF Allowed
  <2> QED
    BY <1>0, <2>5, <2>6, <2>7, <2>8, <2>9 DEF SessionOK
<1> QED
  BY <1>1, <1>2, <1>3 DEF Screen

LEMMA ClaimKeeps ==
    ASSUME IInv, NEW s \in Sessions, Claim(s)
    PROVE  Typed' /\ Acts(s) /\ SessionOK(s)'
<1> DEFINE d == session[s].draft
<1>0. session[s].pc = "claim" /\ d \in Drafts
  BY AtDraft DEF Claim
<1>1. Typed'
  BY <1>0, ClaimTyped DEF IInv
<1>2. CASE Block(s) /\ UNCHANGED <<prospect, suppressed, mail, asked, crashes>>
  BY <1>0, <1>2, BlockKeeps
<1>3. CASE Claimed(s)
  <2> DEFINE mine == Closed(session[s].row, "sending")
             plan == RecheckPlan(d)
             x == [session[s] EXCEPT !.pc = "locking", !.next = "recheck", !.row = mine,
                                     !.plan = plan]
  <2>1. session[s] \in SessionType /\ session[s].row \in Rows /\ SessionOK(s)
    BY DEF IInv, Typed, SessionType
  <2>2. /\ Flush(s, mine) /\ holder' = Released(s) /\ session' = [session EXCEPT ![s] = x]
        /\ prospect' = prospect /\ suppressed' = suppressed /\ mail' = mail
    BY <1>3 DEF Claimed
  <2>3. /\ mine \in Rows /\ mine.manual = session[s].row.manual
        /\ mine.status = "sending" /\ mine.auto = "none"
    BY <2>1, ClosedType DEF Statuses
  <2> HIDE DEF mine, plan
  <2>4. /\ \A e \in Drafts : draft'[e].manual = draft[e].manual
        /\ \A e \in Drafts : e # d => draft'[e] = draft[e]
        /\ session[s].row = draft[d] => draft'[d] = mine
    BY <1>0, <2>2, <2>3, FlushType DEF IInv
  <2>5. /\ x.pc = "locking" /\ x.next = "recheck" /\ x.op = session[s].op
        /\ x.draft = d /\ x.todo = session[s].todo /\ x.row = mine /\ x.plan = plan
    BY <2>1 DEF SessionType
  <2> HIDE DEF x
  <2>6. session'[s] = x /\ \A t \in Sessions \ {s} : session'[t] = session[t]
    BY <2>2 DEF IInv, Typed
  <2>7. ASSUME draft[d].manual
        PROVE  /\ session[s].row = draft[d] /\ holder[DraftLock(d)] = s
               /\ draft[d].status \in {"pending_review", "editing"}
    BY <1>0, <2>7, AtDraft
  <2>8. KeepsOthers(s)
    BY <2>2, <2>6 DEF KeepsOthers, Released
  <2>9. draft[d].manual => Moves(s, d)
    BY <2>3, <2>4, <2>7 DEF Moves, Unsent
  <2>10. \A e \in Drafts : Sender(s, e)' => e = d /\ draft[d].manual
    BY <2>4, <2>5, <2>6 DEF Sender
  <2>11. KeepsDrafts(s)
    BY <2>2, <2>4, <2>7, <2>9, <2>10 DEF KeepsDrafts
  <2>12. KeepsRest(s)
    BY <2>2 DEF KeepsRest
  <2>13. Stage(session[s])' /\ HandsOff(s)' /\ ReadsTrue(s)'
    BY <1>0, <2>5, <2>6, AtDraft DEF Stage, HandsOff, ReadsTrue, Reading
  <2>14. Covered(s)'
    BY <1>0, <2>5, <2>6, RecheckHas DEF Covered, NeedsLock, Has, plan
  <2>15. Ignores(s)'
    BY <1>0, <2>1, <2>4, <2>5, <2>6 DEF SessionOK, Ignores, SessionType
  <2>16. SendsTrue(s)'
    <3> SUFFICES ASSUME draft[d].manual
                 PROVE  draft'[d].status = "sending" /\ x.row = draft'[d] /\ mail[d] = <<>>
      BY <2>2, <2>6, <2>10 DEF SendsTrue
    <3>1. draft'[d] = mine
      BY <2>4, <2>7
    <3>2. mail[d] = <<>>
      BY <1>0, <2>7 DEF IInv, MailOnce
    <3> QED
      BY <2>3, <2>5, <3>1, <3>2
  <2> QED
    BY <1>1, <2>8, <2>11, <2>12, <2>13, <2>14, <2>15, <2>16 DEF Acts, SessionOK
<1> QED
  BY <1>2, <1>3, ClaimIs DEF IInv

LEMMA RecheckKeeps ==
    ASSUME IInv, NEW s \in Sessions, Recheck(s)
    PROVE  Typed' /\ Acts(s) /\ SessionOK(s)'
<1>0. /\ Typed' /\ session[s].pc = "recheck"
      /\ prospect' = prospect /\ suppressed' = suppressed /\ mail' = mail
      /\ asked' = asked /\ crashes' = crashes
  BY RecheckTyped DEF IInv, Recheck
<1>1. CASE Block(s)
  BY <1>0, <1>1, BlockKeeps
<1>2. CASE Clear(s) /\ session' = [session EXCEPT ![s].pc = "handoff"] /\ UNCHANGED <<draft, holder>>
  <2> DEFINE x == [session[s] EXCEPT !.pc = "handoff"]
  <2>1. session[s] \in SessionType /\ SessionOK(s) /\ session[s].next = "recheck"
    BY <1>0, AtDraft DEF IInv, Typed
  <2>2. session' = [session EXCEPT ![s] = x]
    BY <1>2
  <2>3. /\ x.pc = "handoff" /\ x.next = "recheck" /\ x.op = session[s].op
        /\ x.draft = session[s].draft /\ x.todo = session[s].todo /\ x.row = session[s].row
    BY <2>1 DEF SessionType
  <2> HIDE DEF x
  <2>4. draft' = draft /\ holder' = holder /\ UNCHANGED <<rows, mail>>
    BY <1>0, <1>2 DEF rows
  <2>5. Acts(s) /\ session'[s] = x
    BY <2>1, <2>2, <2>3, <2>4, QuietActs
  <2>6. Stage(session[s])' /\ ReadsTrue(s)'
    BY <1>0, <2>3, <2>5, AtDraft DEF Stage, ReadsTrue, Reading
  <2>7. HandsOff(s)'
    BY <1>0, <1>2 DEF HandsOff, Clear
  <2>8. Covered(s)'
    BY <1>0, <2>1, <2>3, <2>4, <2>5, AtDraft DEF Covered, NeedsLock, Has
  <2>9. Ignores(s)'
    BY <1>0, <2>1, <2>3, <2>4, <2>5 DEF SessionOK, Ignores
  <2>10. SendsTrue(s)'
    BY <1>0, <2>1, <2>3, <2>4, <2>5 DEF SessionOK, SendsTrue, Sender
  <2> QED
    BY <1>0, <2>5, <2>6, <2>7, <2>8, <2>9, <2>10 DEF SessionOK
<1> QED
  BY <1>1, <1>2 DEF Recheck

LEMMA HandOffKeeps ==
    ASSUME IInv, NEW s \in Sessions, HandOff(s)
    PROVE  Typed' /\ Acts(s) /\ SessionOK(s)'
<1> DEFINE d == session[s].draft
           letter == [by |-> s, body |-> session[s].row.body, reviewed |-> session[s].reviewed]
<1>1. PICK taken \in BOOLEAN, ok \in BOOLEAN :
        /\ mail' = IF taken THEN [mail EXCEPT ![d] = Append(@, letter)] ELSE mail
        /\ session' = [session EXCEPT ![s].pc = "record", ![s].ok = ok]
  BY DEF HandOff
<1> DEFINE x == [session[s] EXCEPT !.pc = "record", !.ok = ok]
<1>2. session[s] \in SessionType /\ SessionOK(s) /\ session[s].pc = "handoff" /\ d \in Drafts
      /\ session[s].next = "recheck"
  BY AtDraft DEF IInv, Typed, HandOff
<1>3. Typed'
  BY <1>2, HandOffTyped DEF IInv
<1>4. session' = [session EXCEPT ![s] = x]
  BY <1>1, <1>2 DEF IInv, Typed, SessionType
<1>5. /\ x.pc = "record" /\ x.next = "recheck" /\ x.op = session[s].op
      /\ x.draft = d /\ x.todo = session[s].todo /\ x.row = session[s].row
  BY <1>2 DEF SessionType
<1> HIDE DEF x, letter
<1>6. draft' = draft /\ holder' = holder /\ prospect' = prospect /\ suppressed' = suppressed
  BY DEF HandOff, rows
<1>7. session'[s] = x /\ \A t \in Sessions \ {s} : session'[t] = session[t]
  BY <1>4 DEF IInv, Typed
<1>8. \A e \in Drafts : e # d => mail'[e] = mail[e]
  BY <1>1 DEF IInv, Typed
<1>9. draft[d].manual => Sender(s, d) /\ Len(mail'[d]) <= 1
  <2> SUFFICES ASSUME draft[d].manual
               PROVE  Sender(s, d) /\ Len(mail'[d]) <= 1
    OBVIOUS
  <2>1. Sender(s, d)
    BY <1>2, AtDraft
  <2>2. mail[d] = <<>>
    BY <1>2, <2>1 DEF SessionOK, SendsTrue
  <2>3. mail'[d] = mail[d] \/ mail'[d] = Append(mail[d], letter)
    BY <1>1, <1>2 DEF IInv, Typed
  <2>4. Len(<<>>) = 0 /\ Len(Append(<<>>, letter)) = 1
    OBVIOUS
  <2>5. mail'[d] = <<>> \/ mail'[d] = Append(<<>>, letter)
    BY <2>2, <2>3
  <2>6. Len(mail'[d]) <= 1
    <3>1. Len(mail'[d]) \in {0, 1}
      BY <2>4, <2>5
    <3>2. \A n \in {0, 1} : n <= 1
      OBVIOUS
    <3> QED
      BY <3>1, <3>2, Zenon
  <2> QED
    BY <2>1, <2>6, Zenon
<1>10. \A e \in Drafts : Sender(s, e)' => Sender(s, e)
  BY <1>2, <1>5, <1>6, <1>7 DEF Sender
<1>11. KeepsOthers(s) /\ KeepsRest(s)
  BY <1>6, <1>7 DEF KeepsOthers, KeepsRest
<1>12. KeepsDrafts(s)
  BY <1>6, <1>8, <1>9, <1>10 DEF KeepsDrafts
<1>13. Stage(session[s])' /\ ReadsTrue(s)' /\ HandsOff(s)'
  BY <1>2, <1>5, <1>7, AtDraft DEF Stage, ReadsTrue, Reading, HandsOff
<1>14. Covered(s)'
  BY <1>2, <1>5, <1>6, <1>7, AtDraft DEF Covered, NeedsLock, Has
<1>15. Ignores(s)'
  BY <1>2, <1>5, <1>6, <1>7 DEF SessionOK, Ignores
<1>16. SendsTrue(s)'
  BY <1>2, <1>5, <1>6, <1>7, <1>10 DEF SessionOK, SendsTrue
<1> QED
  BY <1>3, <1>11, <1>12, <1>13, <1>14, <1>15, <1>16 DEF Acts, SessionOK

LEMMA RecordKeeps ==
    ASSUME IInv, NEW s \in Sessions, Record(s)
    PROVE  Typed' /\ Acts(s) /\ SessionOK(s)'
<1> DEFINE d == session[s].draft
           status == IF session[s].ok THEN "sent" ELSE "failed"
           mine == Closed(session[s].row, status)
<1>1. /\ session[s].pc = "record" /\ Flush(s, mine) /\ Leave(s)
      /\ suppressed' = suppressed /\ mail' = mail
      /\ prospect' = prospect \/ prospect' = [prospect EXCEPT !.latest = FALSE]
  BY DEF Record
<1>2. Typed'
  BY RecordTyped DEF IInv
<1>3. session[s].row \in Rows /\ d \in Drafts /\ prospect \in Prospects
  BY <1>1, AtDraft DEF IInv, Typed, SessionType
<1>4. status \in {"sent", "failed"} /\ status \in Statuses
  BY DEF Statuses
<1>5. mine \in Rows /\ mine.manual = session[s].row.manual /\ mine.status = status /\ mine.auto = "none"
  BY <1>3, <1>4, ClosedType
<1> HIDE DEF mine, status
<1>6. /\ \A e \in Drafts : draft'[e].manual = draft[e].manual
      /\ \A e \in Drafts : e # d => draft'[e] = draft[e]
      /\ session[s].row = draft[d] => draft'[d] = mine
  BY <1>1, <1>3, <1>5, FlushType DEF IInv
<1>7. KeepsOthers(s) /\ SessionOK(s)' /\ \A e \in Drafts : ~Sender(s, e)'
  BY <1>1, <1>6, LeaveEnds, EndsOK
<1>8. draft[d].manual => Moves(s, d)
  BY <1>1, <1>4, <1>5, <1>6, AtDraft DEF Moves
<1>9. KeepsDrafts(s)
  BY <1>1, <1>6, <1>7, <1>8 DEF KeepsDrafts
<1>10. prospect'.archived = prospect.archived
  BY <1>1, <1>3 DEF Prospects
<1>11. KeepsRest(s)
  BY <1>1, <1>10 DEF KeepsRest
<1> QED
  BY <1>2, <1>7, <1>9, <1>11 DEF Acts

-----------------------------------------------------------------------------
(* The whole, and the theorems.                                            *)

\* A suppression is lifted, or a review window ends.
LEMMA EnvironmentKeeps ==
    ASSUME IInv, Typed', session' = session, holder' = holder, mail' = mail,
           prospect' = prospect, suppressed' \subseteq suppressed,
           \A d \in Drafts : /\ draft'[d].manual = draft[d].manual
                             /\ draft[d].manual => draft'[d] = draft[d]
    PROVE  IInv'
<1>1. ASSUME NEW s \in Sessions
      PROVE  SessionOK(s)'
  <2>1. SessionOK(s) /\ session[s] \in SessionType
    BY DEF IInv, Typed
  <2>2. Stage(session[s])' /\ Covered(s)' /\ HandsOff(s)'
    BY <2>1 DEF SessionOK, Stage, Covered, NeedsLock, Has, InPlan, HandsOff
  <2>3. Ignores(s)'
    <3>1. \A d \in session[s].todo : d \in Drafts
      BY <2>1 DEF SessionType
    <3>2. session[s].op = "dispatch" /\ session[s].pc # "idle" => session[s].draft \in Drafts
      BY DEF IInv, Typed, Aiming
    <3> QED
      BY <2>1, <3>1, <3>2 DEF SessionOK, Ignores
  <2>4. ReadsTrue(s)'
    <3>1. Reading(s)' => Reading(s) /\ session[s].draft \in Drafts
      BY DEF Reading, InPlan, IInv, Typed, Aiming, Versioned
    <3> QED
      BY <2>1, <3>1 DEF SessionOK, ReadsTrue
  <2>5. SendsTrue(s)'
    BY <2>1 DEF SessionOK, SendsTrue, Sender
  <2> QED
    BY <2>2, <2>3, <2>4, <2>5 DEF SessionOK
<1>2. ManualWaits' /\ OneSender' /\ MailOnce'
  BY DEF IInv, ManualWaits, OneSender, MailOnce, Sender
<1> QED
  BY <1>1, <1>2 DEF IInv

LEMMA RevokeKeeps == ASSUME IInv, NEW a \in Addresses, Revoke(a) PROVE IInv'
<1>1. asked' \in 0 .. MaxRequests
  BY OutreachAssumption DEF IInv, Typed, Revoke
<1>2. /\ draft' = draft /\ prospect' = prospect /\ holder' = holder /\ session' = session
      /\ mail' = mail /\ crashes' = crashes /\ suppressed' \subseteq suppressed
  BY DEF Revoke
<1>3. Aiming'
  BY <1>2 DEF IInv, Typed, Aiming
<1>4. Typed'
  BY <1>1, <1>2, <1>3 DEF IInv, Typed
<1> QED
  BY <1>2, <1>4, EnvironmentKeeps

LEMMA ReviewElapsesKeeps ==
    ASSUME IInv, NEW d \in Drafts, ReviewElapses(d)
    PROVE  IInv' /\ \A e \in Drafts : draft[e].manual => draft'[e] = draft[e]
<1> DEFINE new == [draft[d] EXCEPT !.auto = "due"]
<1>1. draft[d] \in Rows
  BY DEF IInv, Typed
<1>2. draft' = [draft EXCEPT ![d] = new] /\ draft[d].auto = "later"
  BY DEF ReviewElapses
<1>3. new \in Rows /\ new.manual = draft[d].manual
  BY <1>1 DEF Rows
<1> HIDE DEF new
<1>4. /\ draft' \in [Drafts -> Rows] /\ draft'[d] = new
      /\ \A e \in Drafts \ {d} : draft'[e] = draft[e]
  BY <1>2, <1>3 DEF IInv, Typed
<1>5. ~draft[d].manual
  BY <1>2 DEF IInv, ManualWaits
<1>6. \A e \in Drafts : /\ draft'[e].manual = draft[e].manual
                        /\ draft[e].manual => draft'[e] = draft[e]
  BY <1>3, <1>4, <1>5
<1>7. UNCHANGED <<prospect, suppressed, holder, session, mail, asked, crashes>>
  BY DEF ReviewElapses
<1>8. Aiming'
  BY <1>7 DEF IInv, Typed, Aiming
<1>9. Typed'
  BY <1>4, <1>7, <1>8 DEF IInv, Typed
<1> QED
  BY <1>6, <1>7, <1>9, EnvironmentKeeps

LEMMA InitKeeps == Init => IInv
<1> SUFFICES ASSUME Init PROVE IInv
  OBVIOUS
<1>1. Typed
  BY InitTyped
<1>2. /\ Idle.pc = "idle" /\ Idle.next = "idle" /\ Idle.op = "dispatch" /\ Idle.todo = {}
  BY DEF Idle
<1>3. ASSUME NEW s \in Sessions
      PROVE  SessionOK(s)
  <2>1. session[s] = Idle
    BY DEF Init
  <2> QED
    BY <1>2, <2>1 DEF SessionOK, Stage, Covered, NeedsLock, Ignores, ReadsTrue, Reading,
                      SendsTrue, Sender, HandsOff
<1>4. ManualWaits
  <2> SUFFICES ASSUME NEW d \in Drafts, draft[d].manual PROVE draft[d].auto = "none"
    BY DEF ManualWaits
  <2>1. PICK manual \in BOOLEAN, over \in BOOLEAN : draft[d] = FirstRow(manual, over)
    BY DEF Init
  <2> QED
    BY <2>1 DEF FirstRow
<1>5. OneSender
  <2>1. \A s \in Sessions : session[s].next = "idle"
    BY <1>2 DEF Init
  <2> QED
    BY <2>1 DEF OneSender, Sender
<1>6. MailOnce
  <2>1. \A d \in Drafts : mail[d] = <<>>
    BY DEF Init
  <2>2. Len(<<>>) <= 1
    OBVIOUS
  <2> QED
    BY <2>1, <2>2 DEF MailOnce
<1> QED
  BY <1>1, <1>3, <1>4, <1>5, <1>6 DEF IInv

\* Every step: of one session, or of nobody.
LEMMA EachStep ==
    ASSUME IInv, Next
    PROVE  \/ \E s \in Sessions : Typed' /\ Acts(s) /\ SessionOK(s)'
           \/ IInv' /\ \A d \in Drafts : draft[d].manual => draft'[d] = draft[d]
<1>1. ASSUME NEW s \in Sessions, Step(s)
      PROVE  Typed' /\ Acts(s) /\ SessionOK(s)'
  <2>1. CASE Acquire(s)
    BY <2>1, AcquireKeeps
  <2>2. CASE Abort(s)
    BY <2>2, AbortKeeps
  <2>3. CASE Sweep(s)
    BY <2>3, SweepKeeps
  <2>4. CASE Commit(s)
    BY <2>4, CommitKeeps
  <2>5. CASE Dispatch(s)
    BY <2>5, ScreenKeeps, ClaimKeeps, RecheckKeeps, HandOffKeeps, RecordKeeps DEF Dispatch
  <2> QED
    BY <1>1, <2>1, <2>2, <2>3, <2>4, <2>5 DEF Step
<1>2. ASSUME NEW s \in Sessions, Crash(s)
      PROVE  Typed' /\ Acts(s) /\ SessionOK(s)'
  BY <1>2, CrashKeeps
<1>3. ASSUME NEW w \in Workers, Scan(w) \/ Hint(w)
      PROVE  w \in Sessions /\ Typed' /\ Acts(w) /\ SessionOK(w)'
  BY <1>3, ScanKeeps, HintKeeps
<1>4. ASSUME NEW s \in Clients, NEW x \in Asks, Ask(s, x[1], x[2], x[3])
      PROVE  s \in Sessions /\ Typed' /\ Acts(s) /\ SessionOK(s)'
  BY <1>4, AsksAre, AskKeeps
<1>5. ASSUME NEW a \in Addresses, Revoke(a)
      PROVE  IInv' /\ \A d \in Drafts : draft[d].manual => draft'[d] = draft[d]
  BY <1>5, RevokeKeeps DEF Revoke
<1>6. ASSUME NEW d \in Drafts, ReviewElapses(d)
      PROVE  IInv' /\ \A e \in Drafts : draft[e].manual => draft'[e] = draft[e]
  BY <1>6, ReviewElapsesKeeps
<1> QED
  BY <1>1, <1>2, <1>3, <1>4, <1>5, <1>6 DEF Next

LEMMA NextKeeps == IInv /\ [Next]_vars => IInv'
<1> SUFFICES ASSUME IInv, [Next]_vars PROVE IInv'
  OBVIOUS
<1>1. CASE Next
  BY <1>1, EachStep, StepKeeps
<1>2. CASE UNCHANGED vars
  <2>1. UNCHANGED <<draft, prospect, suppressed, holder, session, mail, asked, crashes>>
    BY <1>2 DEF vars, rows
  <2>2. Aiming'
    BY <2>1 DEF IInv, Typed, Aiming
  <2>3. Typed'
    BY <2>1, <2>2 DEF IInv, Typed
  <2> QED
    BY <2>1, <2>3, EnvironmentKeeps
<1> QED
  BY <1>1, <1>2

THEOREM InductiveInvariant == Spec => []IInv
  BY InitKeeps, NextKeeps, PTL DEF Spec

\* The variables keep their types: what the rows, the locks, the sessions and the
\* emails can be, with any drafts, addresses, workers and requests.
THEOREM TypeCorrect == Spec => []TypeOK
<1>1. IInv => TypeOK
  BY TypedIsTypeOK DEF IInv
<1> QED
  BY <1>1, InductiveInvariant, PTL

\* No email is handed to the provider while one of its addresses is suppressed:
\* the suppressions are looked at under the locks of all addresses, and these are
\* kept until the provider has answered.
THEOREM NothingSuppressed == Spec => []NoneSuppressed
<1>1. IInv => NoneSuppressed
  BY DEF IInv, SessionOK, HandsOff, NoneSuppressed
<1> QED
  BY <1>1, InductiveInvariant, PTL

\* Nor while the prospect is archived: whoever archives it needs its row lock.
THEOREM NothingArchived == Spec => []NoneArchived
<1>1. IInv => NoneArchived
  BY DEF IInv, SessionOK, HandsOff, NoneArchived
<1> QED
  BY <1>1, InductiveInvariant, PTL

\* A draft that only a person sends is delivered once at most, whatever sessions
\* crash, are aborted, or approve it again.
THEOREM ManualOnce == Spec => []ManualDeliveredOnce
<1>1. IInv => ManualDeliveredOnce
  BY DEF IInv, MailOnce, ManualDeliveredOnce
<1> QED
  BY <1>1, InductiveInvariant, PTL

\* Once voided it is not delivered, and it was not before.
THEOREM VoidedUnsent == Spec => []ManualVoidedUnsent
<1>1. IInv => ManualVoidedUnsent
  BY DEF IInv, MailOnce, ManualVoidedUnsent
<1> QED
  BY <1>1, InductiveInvariant, PTL

\* And the state in which it ended is final: no session that loaded it earlier
\* writes over it.
THEOREM EndsForGood == Spec => ManualEndsOnce
<1>1. ASSUME IInv, [Next]_vars, NEW d \in Drafts, draft[d].manual,
             draft[d].status \in {"cancelled", "sent", "failed"}
      PROVE  draft'[d] = draft[d]
  <2>1. CASE UNCHANGED vars
    BY <2>1 DEF vars, rows
  <2>2. CASE Next
    BY <1>1, <2>2, EachStep, DraftsFacts
  <2> QED
    BY <1>1, <2>1, <2>2
<1>2. IInv /\ [Next]_vars =>
        [\A d \in Drafts : draft[d].manual /\ draft[d].status \in {"cancelled", "sent", "failed"}
                              => draft'[d] = draft[d]]_vars
  BY <1>1
<1> QED
  BY <1>2, InductiveInvariant, PTL DEF Spec, ManualEndsOnce

=============================================================================
