------------------------ MODULE ProspectReviewProofs ------------------------
(***************************************************************************)
(* What a person approves is sent as that person saw it, of any draft and  *)
(* with any requests, workers and crashes.                                 *)
(*                                                                         *)
(* An approval names a version, and while a draft can still be edited its  *)
(* version and its text change together: a version named once never comes  *)
(* back with another text.  From the read under the lock of the draft on,  *)
(* the session has its own copy of the text, which is what it hands over.  *)
(***************************************************************************)
EXTENDS ProspectOutreachProofs

-----------------------------------------------------------------------------
(* The invariant.                                                          *)

Ready == {"pending_review", "editing"}

\* A draft that can still be approved, or made so.
Open(row) == row.status \in Ready \/ (row.status = "blocked" /\ row.oversized)

\* The version that x names is not ahead of the row, and if it is that of the row
\* the text it showed is that of the row.
Shown(x, row) ==
    /\ x.expected <= row.version
    /\ x.expected = row.version => x.reviewed = row.body

\* Of the draft as committed, and of the instance read under its lock.
Bound(s) ==
    session[s].op = "approve" /\ Open(draft[session[s].draft])
        => Shown(session[s], draft[session[s].draft])

ReadsBound(s) ==
    Reading(s) /\ session[s].row.status \in Ready => Shown(session[s], session[s].row)

\* Of the instance that is claimed and sent.
SendsBound(s) ==
    /\ session[s].next = "claim" => session[s].row.status \in Ready
    /\ session[s].next = "recheck" => session[s].row.status = "sending"
    /\ session[s].next \in {"claim", "recheck"} /\ session[s].op = "approve"
            => session[s].row.body = session[s].reviewed

\* Only workers dispatch.
Asked(s) == s \in Clients /\ session[s].op = "dispatch" => session[s].pc = "idle"

Binds(s) == Bound(s) /\ ReadsBound(s) /\ SendsBound(s) /\ Asked(s)

RInv == IInv /\ (\A s \in Sessions : Binds(s)) /\ SentAsReviewed

\* A draft that is open was, and has a later version or the same text.
Grows(old, new) ==
    Open(new) =>
        /\ Open(old)
        /\ old.version < new.version \/ (old.version = new.version /\ old.body = new.body)

DraftsGrow == \A d \in Drafts : Grows(draft[d], draft'[d])

LEMMA GrowsItself == ASSUME NEW row PROVE Grows(row, row)
  BY DEF Grows

LEMMA UntouchedGrow == draft' = draft => DraftsGrow
  BY GrowsItself DEF DraftsGrow

LEMMA ShownLasts ==
    ASSUME NEW x \in SessionType, NEW old \in Rows, NEW new \in Rows,
           Open(old) => Shown(x, old), Grows(old, new), Open(new)
    PROVE  Shown(x, new)
<1>1. x.expected \in Nat /\ old.version \in Nat /\ new.version \in Nat
  BY DEF SessionType, Rows
<1>2. Open(old) /\ (old.version < new.version \/ (old.version = new.version /\ old.body = new.body))
  BY DEF Grows
<1> QED
  BY <1>1, <1>2 DEF Shown

\* What a session was shown stays bound to the version it names.
LEMMA BoundLasts ==
    ASSUME IInv, Typed', DraftsGrow, NEW s \in Sessions, Bound(s),
           session'[s].op = "approve" =>
               /\ session[s].op = "approve" /\ session'[s].draft = session[s].draft
               /\ session'[s].expected = session[s].expected
               /\ session'[s].reviewed = session[s].reviewed
    PROVE  Bound(s)'
<1> DEFINE d == session[s].draft
<1> SUFFICES ASSUME session'[s].op = "approve", Open(draft'[session'[s].draft])
             PROVE  Shown(session'[s], draft'[session'[s].draft])
  BY DEF Bound
<1>1. /\ session[s].op = "approve" /\ session'[s].draft = d
      /\ session'[s].expected = session[s].expected /\ session'[s].reviewed = session[s].reviewed
  OBVIOUS
<1>2. d \in Drafts /\ session[s] \in SessionType
  BY <1>1 DEF IInv, Typed, Aiming, Versioned
<1>3. draft[d] \in Rows /\ draft'[d] \in Rows /\ Grows(draft[d], draft'[d])
  BY <1>2 DEF IInv, Typed, DraftsGrow
<1>4. Open(draft[d]) => Shown(session[s], draft[d])
  BY <1>1 DEF Bound
<1>5. Shown(session[s], draft'[d])
  BY <1>1, <1>2, <1>3, <1>4, ShownLasts
<1> QED
  BY <1>1, <1>5 DEF Shown

\* A session that has ended binds nothing.
LEMMA EndedBinds ==
    ASSUME IInv, NEW s \in Sessions, Ended(s)
    PROVE  Binds(s)'
<1>1. PICK rest \in SUBSET session[s].todo :
          session' = [session EXCEPT ![s] = [Idle EXCEPT !.todo = rest]]
  BY DEF Ended
<1> DEFINE x == [Idle EXCEPT !.todo = rest]
<1>2. x.pc = "idle" /\ x.next = "idle" /\ x.op = "dispatch"
  BY DEF Idle
<1>3. session'[s] = x
  BY <1>1 DEF IInv, Typed
<1> HIDE DEF x
<1> QED
  BY <1>2, <1>3 DEF Binds, Bound, ReadsBound, Reading, SendsBound, Asked

-----------------------------------------------------------------------------
(* What the steps do to the drafts.                                        *)

\* One draft is written.
LEMMA OneGrows ==
    ASSUME IInv, NEW d \in Drafts, NEW new, Grows(draft[d], new),
           draft' = [draft EXCEPT ![d] = new]
    PROVE  DraftsGrow
<1>1. \A e \in Drafts : draft'[e] = IF e = d THEN new ELSE draft[e]
  BY DEF IInv, Typed
<1> QED
  BY <1>1, GrowsItself DEF DraftsGrow

\* Edits and voids take a version of their own.
LEMMA WritesGrow ==
    ASSUME IInv, NEW d \in Drafts
    PROVE  /\ draft[d].status \in Ready => Grows(draft[d], Edited(d))
           /\ Grows(draft[d], Voided(d))
<1>1. draft[d] \in Rows /\ draft[d].version \in Nat
  BY DEF IInv, Typed, Rows
<1>2. Edited(d).version = draft[d].version + 1 /\ Voided(d).status = "cancelled"
  BY <1>1 DEF Edited, Voided, Rows
<1>3. draft[d].version < draft[d].version + 1
  BY <1>1
<1> QED
  BY <1>2, <1>3 DEF Grows, Open, Ready

LEMMA CommitGrows == ASSUME IInv, NEW s \in Sessions, Commit(s) PROVE DraftsGrow
<1> DEFINE d == session[s].draft
<1>0. Typed
  BY DEF IInv
<1>1. CASE StartEditing(s)
  <2>1. d \in Drafts
    BY <1>0, <1>1 DEF StartEditing, Finish, Typed, Aiming, Versioned
  <2>2. CASE draft' = draft
    BY <2>2, UntouchedGrow
  <2>3. CASE draft' # draft
    <3> DEFINE next == draft[d].version + 1
               new == [draft[d] EXCEPT !.status = "editing", !.auto = "none", !.version = next]
    <3>1. draft[d] \in Rows /\ draft[d].version \in Nat
      BY <1>0, <2>1 DEF Typed, Rows
    <3>2. draft[d].status = "pending_review" /\ draft' = [draft EXCEPT ![d] = new]
      BY <1>0, <1>1, <2>1, <2>3, <3>1 DEF StartEditing, Typed, Rows
    <3>3. draft[d].version < next
      BY <3>1
    <3> HIDE DEF next
    <3>4. new.version = next
      BY <3>1 DEF Rows
    <3> HIDE DEF new
    <3>5. Grows(draft[d], new)
      BY <3>2, <3>3, <3>4 DEF Grows, Open, Ready
    <3> QED
      BY <2>1, <3>2, <3>5, OneGrows
  <2> QED
    BY <2>2, <2>3
<1>2. CASE EditDraft(s)
  <2>1. d \in Drafts
    BY <1>0, <1>2 DEF EditDraft, Finish, Typed, Aiming, Versioned
  <2>2. \/ draft' = draft
        \/ draft[d].status \in Ready /\ draft' = [draft EXCEPT ![d] = Edited(d)]
    BY <1>2 DEF EditDraft, Ready
  <2> QED
    BY <2>1, <2>2, UntouchedGrow, WritesGrow, OneGrows
<1>3. CASE CancelDraft(s)
  <2>1. d \in Drafts
    BY <1>0, <1>3 DEF CancelDraft, Finish, Typed, Aiming, Versioned
  <2>2. draft' = draft \/ draft' = [draft EXCEPT ![d] = Voided(d)]
    BY <1>3 DEF CancelDraft
  <2> QED
    BY <2>1, <2>2, UntouchedGrow, WritesGrow, OneGrows
<1>4. CASE SelectSecureBundle(s)
  <2>1. d \in Drafts
    BY <1>0, <1>4 DEF SelectSecureBundle, Finish, Typed, Aiming, Versioned
  <2>2. CASE draft' = draft
    BY <2>2, UntouchedGrow
  <2>3. CASE draft' # draft
    <3> DEFINE next == draft[d].version + 1
               body == draft[d].body
               first == FirstRow(draft[d].manual, FALSE)
               new == [first EXCEPT !.version = next, !.body = body]
    <3>1. draft[d] \in Rows /\ draft[d].version \in Nat /\ draft[d].manual \in BOOLEAN
      BY <1>0, <2>1 DEF Typed, Rows
    <3>2. draft[d].status = "blocked" /\ draft[d].oversized /\ draft' = [draft EXCEPT ![d] = new]
      BY <1>4, <2>3 DEF SelectSecureBundle
    <3>3. draft[d].version < next
      BY <3>1
    <3>4. first \in Rows
      BY <3>1, FirstTypes
    <3> HIDE DEF next, body, first
    <3>5. new.version = next
      BY <3>4 DEF Rows
    <3> HIDE DEF new
    <3>6. Grows(draft[d], new)
      BY <3>2, <3>3, <3>5 DEF Grows, Open
    <3> QED
      BY <2>1, <3>2, <3>6, OneGrows
  <2> QED
    BY <2>2, <2>3
<1>5. CASE Undo(s)
  <2>1. d \in Drafts
    BY <1>0, <1>5 DEF Undo, Finish, Typed, Aiming
  <2>2. draft' = draft \/ draft' = [draft EXCEPT ![d] = Voided(d)]
    BY <1>5 DEF Undo
  <2> QED
    BY <2>1, <2>2, UntouchedGrow, WritesGrow, OneGrows
<1>6. CASE Reclassify(s)
  <2>1. \A e \in Drafts : draft'[e] = Voided(e) \/ draft'[e] = draft[e]
    BY <1>6 DEF Reclassify
  <2> QED
    BY <2>1, GrowsItself, WritesGrow DEF DraftsGrow
<1>7. CASE SetDoNotContact(s) \/ Archive(s) \/ Restore(s) \/ Suppress(s) \/ Unsubscribe(s)
  <2>1. draft' = draft
    BY <1>7 DEF SetDoNotContact, Archive, Restore, Suppress, Unsubscribe
  <2> QED
    BY <2>1, UntouchedGrow
<1> QED
  BY <1>1, <1>2, <1>3, <1>4, <1>5, <1>6, <1>7 DEF Commit

\* A blocked draft is closed, and so is one that is sent or has been.
LEMMA BlockGrows ==
    ASSUME IInv, NEW s \in Sessions, session[s].draft \in Drafts, Block(s)
    PROVE  DraftsGrow
<1> DEFINE d == session[s].draft
           auto == Column(session[s].row.auto, "none", draft[d].auto)
           next == session[s].row.version + 1
           new == [ draft[d] EXCEPT !.status = "blocked", !.version = next, !.auto = auto,
                                    !.oversized = FALSE ]
<1>1. draft[d] \in Rows
  BY DEF IInv, Typed
<1>2. draft' = [draft EXCEPT ![d] = new]
  BY <1>1 DEF Block, IInv, Typed, Rows
<1> HIDE DEF auto, next
<1>3. new.status = "blocked" /\ new.oversized = FALSE
  BY <1>1 DEF Rows
<1> HIDE DEF new
<1>4. Grows(draft[d], new)
  BY <1>3 DEF Grows, Open, Ready
<1> QED
  BY <1>2, <1>4, OneGrows

LEMMA FlushGrows ==
    ASSUME IInv, NEW s \in Sessions, session[s].draft \in Drafts, NEW mine, Flush(s, mine),
           mine.status \in {"sending", "sent", "failed"}, mine.status # session[s].row.status
    PROVE  DraftsGrow
<1> DEFINE d == session[s].draft
           old == session[s].row
           status == Column(old.status, mine.status, draft[d].status)
           new == [ manual    |-> draft[d].manual,
                    status    |-> status,
                    version   |-> Column(old.version, mine.version, draft[d].version),
                    auto      |-> Column(old.auto, mine.auto, draft[d].auto),
                    body      |-> Column(old.body, mine.body, draft[d].body),
                    oversized |-> Column(old.oversized, mine.oversized, draft[d].oversized) ]
<1>1. draft' = [draft EXCEPT ![d] = new]
  BY DEF Flush
<1>2. status = mine.status
  BY DEF Column
<1>3. new.status = status
  OBVIOUS
<1> HIDE DEF new, status
<1>4. Grows(draft[d], new)
  BY <1>2, <1>3 DEF Grows, Open, Ready
<1> QED
  BY <1>1, <1>4, OneGrows

-----------------------------------------------------------------------------
(* What the steps do to their own session.                                 *)

\* A step: what it writes, and that its session is bound by what it read.
Honest(s) == DraftsGrow /\ Binds(s)'

LEMMA QuietEnds ==
    ASSUME IInv, NEW s \in Sessions, Leave(s), DraftsGrow
    PROVE  Honest(s)
  BY LeaveEnds, EndedBinds DEF Honest

\* The rows of an approval are read under the lock of the draft.
LEMMA AcquireHonest ==
    ASSUME IInv, NEW s \in Sessions, Binds(s), Acquire(s)
    PROVE  Honest(s)
<1> DEFINE d == session[s].draft
           l == Head(session[s].plan)
           x == Loaded(s, l)
<1>0. /\ Typed' /\ draft' = draft /\ session[s].pc = "locking" /\ session[s].plan # <<>>
  BY AcquireTyped DEF IInv, Acquire, rows
<1>1. DraftsGrow
  BY <1>0, UntouchedGrow
<1>2. CASE Leave(s)
  BY <1>1, <1>2, QuietEnds
<1>3. CASE ~Leave(s)
  <2>1. session[s] \in SessionType /\ session[s].plan \in Seq(Locks) /\ SessionOK(s)
    BY DEF IInv, Typed, SessionType
  <2>2. session'[s] = x
    BY <1>3 DEF Acquire, IInv, Typed
  <2>3. /\ x.op = session[s].op /\ x.draft = d /\ x.next = session[s].next
        /\ x.expected = session[s].expected /\ x.reviewed = session[s].reviewed
        /\ x.plan = Tail(session[s].plan)
        /\ x.pc = IF Tail(session[s].plan) = <<>> THEN session[s].next ELSE "locking"
        /\ x.row = IF session[s].op = "approve" /\ session[s].next = "screen" /\ l = DraftLock(d)
                   THEN draft[d] ELSE session[s].row
    BY <1>0, <2>1 DEF Loaded, SessionType
  <2> HIDE DEF x
  <2>4. Bound(s)'
    BY <1>0, <1>1, <2>2, <2>3, BoundLasts DEF Binds
  <2>5. ReadsBound(s)'
    <3> SUFFICES ASSUME Reading(s)', x.row.status \in Ready
                 PROVE  Shown(x, x.row)
      BY <2>2 DEF ReadsBound
    <3>1. x.op = "approve" /\ session[s].op = "approve"
      BY <2>2, <2>3 DEF Reading
    <3>2. CASE session[s].next = "screen" /\ l = DraftLock(d)
      <4>1. x.row = draft[d] /\ Open(draft[d])
        BY <2>3, <3>1, <3>2 DEF Open
      <4> QED
        BY <2>3, <3>1, <4>1 DEF Binds, Bound, Shown
    <3>3. CASE ~(session[s].next = "screen" /\ l = DraftLock(d))
      <4>1. x.row = session[s].row
        BY <2>3, <3>3
      <4>2. Reading(s)
        <5>1. CASE session[s].next = "claim"
          BY <3>1, <5>1 DEF Reading
        <5>2. CASE session[s].next # "claim"
          <6>1. session[s].next = "screen" /\ ~(x.pc = "locking" /\ InPlan(x, DraftLock(d)))
            BY <2>2, <2>3, <5>2 DEF Reading
          <6>2. ~InPlan(session[s], DraftLock(d))
            BY <1>0, <2>1, <2>3, <3>3, <6>1, TailIs DEF InPlan
          <6> QED
            BY <3>1, <6>1, <6>2 DEF Reading
        <5> QED
          BY <5>1, <5>2
      <4> QED
        BY <2>3, <4>1, <4>2 DEF Binds, ReadsBound, Shown
    <3> QED
      BY <3>2, <3>3
  <2>6. SendsBound(s)'
    BY <2>2, <2>3 DEF Binds, SendsBound
  <2>7. Asked(s)'
    BY <1>0, <2>2, <2>3 DEF Binds, Asked
  <2> QED
    BY <1>1, <2>4, <2>5, <2>6, <2>7 DEF Honest, Binds
<1> QED
  BY <1>2, <1>3

\* The page shows the draft as it is.
LEMMA AskHonest ==
    ASSUME IInv, NEW s \in Clients, Binds(s), NEW kind, NEW d, NEW a, AskOf(kind, d, a),
           Ask(s, kind, d, a)
    PROVE  Honest(s)
<1> DEFINE expected == IF kind \in Versioned THEN draft[d].version ELSE 0
           reviewed == IF kind \in Versioned THEN draft[d].body ELSE 0
           plan == Plan(kind, d, a)
           next == IF kind = "approve" THEN "screen"
                   ELSE IF kind = "reclassify" THEN "sweep" ELSE "finish"
           x == [ Idle EXCEPT !.pc = "locking", !.op = kind, !.draft = d, !.address = a,
                              !.expected = expected, !.reviewed = reviewed,
                              !.plan = plan, !.next = next ]
<1>1. s \in Sessions /\ draft' = draft
  BY DEF Sessions, Ask, rows
<1>2. session' = [session EXCEPT ![s] = x]
  BY DEF Ask
<1>3. kind = "approve" => /\ d \in Drafts /\ draft[d].version \in Nat
                          /\ expected = draft[d].version /\ reviewed = draft[d].body
  BY DEF AskOf, Versioned, IInv, Typed, Rows
<1>4. next \in {"screen", "sweep", "finish"} /\ (next = "screen" => kind = "approve")
  OBVIOUS
<1>5. kind = "approve" => InPlan(x, DraftLock(d))
  BY PlanHas DEF AskOf, Versioned, Idle
<1> HIDE DEF expected, reviewed, plan, next
<1>6. /\ x.pc = "locking" /\ x.op = kind /\ x.draft = d /\ x.next = next
      /\ x.expected = expected /\ x.reviewed = reviewed
  BY DEF Idle
<1> HIDE DEF x
<1>7. session'[s] = x
  BY <1>1, <1>2 DEF IInv, Typed
<1>8. DraftsGrow
  BY <1>1, UntouchedGrow
<1>9. Bound(s)'
  BY <1>1, <1>3, <1>6, <1>7 DEF Bound, Shown
<1>10. ReadsBound(s)'
  BY <1>4, <1>5, <1>6, <1>7 DEF ReadsBound, Reading
<1>11. SendsBound(s)' /\ Asked(s)'
  BY <1>4, <1>6, <1>7 DEF SendsBound, Asked, AskOf
<1> QED
  BY <1>8, <1>9, <1>10, <1>11 DEF Honest, Binds

LEMMA SweepHonest == ASSUME IInv, NEW s \in Sessions, Binds(s), Sweep(s) PROVE Honest(s)
<1>1. PICK order : session' = [session EXCEPT
               ![s].pc = IF DOMAIN order = {} THEN "finish" ELSE "locking",
               ![s].plan = [i \in DOMAIN order |-> DraftLock(order[i])],
               ![s].next = "finish"]
  BY DEF Sweep
<1>2. session[s] \in SessionType /\ SessionOK(s) /\ draft' = draft
  BY DEF IInv, Typed, Sweep, rows
<1>3. session[s].op = "reclassify"
  BY <1>2 DEF Sweep, SessionOK, Stage
<1>4. session'[s].next = "finish" /\ session'[s].op = session[s].op
  BY <1>1, <1>2 DEF SessionType, IInv, Typed
<1> QED
  BY <1>2, <1>3, <1>4, UntouchedGrow
  DEF Honest, Binds, Bound, ReadsBound, Reading, SendsBound, Asked

LEMMA ScanHonest == ASSUME IInv, NEW w \in Workers, Binds(w), Scan(w) PROVE Honest(w)
<1>1. w \in Sessions /\ w \notin Clients /\ draft' = draft
  BY OutreachAssumption DEF Sessions, Scan, rows
<1>2. session[w] \in SessionType /\ SessionOK(w) /\ session[w].pc = "idle"
  BY <1>1 DEF IInv, Typed, Scan
<1>3. session[w].next = "idle"
  BY <1>2 DEF SessionOK, Stage
<1>4. /\ session'[w].next = session[w].next /\ session'[w].op = session[w].op
      /\ session'[w].draft = session[w].draft /\ session'[w].expected = session[w].expected
      /\ session'[w].reviewed = session[w].reviewed
  BY <1>1, <1>2 DEF SessionType, IInv, Typed, Scan
<1>5. DraftsGrow /\ Typed'
  BY <1>1, UntouchedGrow, ScanTyped DEF IInv
<1>6. Bound(w)'
  BY <1>1, <1>4, <1>5, BoundLasts DEF Binds
<1> QED
  BY <1>1, <1>3, <1>4, <1>5, <1>6 DEF Honest, Binds, ReadsBound, Reading, SendsBound, Asked

LEMMA HintHonest == ASSUME IInv, NEW w \in Workers, Binds(w), Hint(w) PROVE Honest(w)
<1>1. PICK d \in session[w].todo : session' = [session EXCEPT ![w] =
            [ Idle EXCEPT !.pc = "locking", !.draft = d, !.row = draft[d],
                          !.plan = Plan("dispatch", d, Primary), !.next = "screen",
                          !.todo = session[w].todo \ {d} ]]
  BY DEF Hint
<1>2. w \in Sessions /\ w \notin Clients /\ draft' = draft
  BY OutreachAssumption DEF Sessions, Hint, rows
<1> DEFINE plan == Plan("dispatch", d, Primary)
           x == [ Idle EXCEPT !.pc = "locking", !.draft = d, !.row = draft[d], !.plan = plan,
                              !.next = "screen", !.todo = session[w].todo \ {d} ]
<1>3. session'[w] = x
  BY <1>1, <1>2 DEF IInv, Typed
<1> HIDE DEF plan
<1>4. x.next = "screen" /\ x.op = "dispatch"
  BY DEF Idle
<1> HIDE DEF x
<1> QED
  BY <1>2, <1>3, <1>4, UntouchedGrow
  DEF Honest, Binds, Bound, ReadsBound, Reading, SendsBound, Asked

-----------------------------------------------------------------------------
(* The steps of dispatch_draft.                                            *)

LEMMA ScreenHonest == ASSUME IInv, NEW s \in Sessions, Binds(s), Screen(s) PROVE Honest(s)
<1>0. /\ session[s].pc = "screen" /\ session[s].next = "screen" /\ session[s].draft \in Drafts
      /\ session[s].op \in {"approve", "dispatch"}
  BY AtDraft DEF Screen
<1>1. CASE Leave(s) /\ UNCHANGED draft
  BY <1>1, QuietEnds, UntouchedGrow
<1>2. CASE Block(s)
  BY <1>0, <1>2, BlockGrows, QuietEnds DEF Block
<1>3. CASE Allowed(s) /\ Wait(s, AddressLocks, "claim") /\ UNCHANGED <<draft, holder>>
  <2>1. session[s] \in SessionType /\ Typed' /\ DraftsGrow
    BY <1>3, UntouchedGrow, ScreenTyped DEF IInv, Typed
  <2>2. /\ session'[s].pc = "locking" /\ session'[s].next = "claim"
        /\ session'[s].op = session[s].op /\ session'[s].draft = session[s].draft
        /\ session'[s].row = session[s].row /\ session'[s].expected = session[s].expected
        /\ session'[s].reviewed = session[s].reviewed
    BY <1>3, <2>1 DEF Wait, IInv, Typed, SessionType
  <2>3. Bound(s)'
    BY <2>1, <2>2, BoundLasts DEF Binds
  <2>4. session[s].row.status \in Ready
    BY <1>3 DEF Allowed, Ready
  <2>5. ASSUME session[s].op = "approve"
        PROVE  /\ Shown(session[s], session[s].row)
               /\ session[s].row.body = session[s].reviewed
    <3>1. Reading(s)
      BY <1>0, <2>5 DEF Reading
    <3>2. Shown(session[s], session[s].row)
      BY <2>4, <3>1 DEF Binds, ReadsBound
    <3> QED
      BY <1>3, <2>5, <3>2 DEF Allowed, Shown
  <2>6. ReadsBound(s)'
    BY <2>2, <2>5 DEF ReadsBound, Reading, Shown
  <2>7. SendsBound(s)'
    BY <2>2, <2>4, <2>5 DEF SendsBound
  <2>8. Asked(s)'
    BY <1>0, <2>2 DEF Binds, Asked
  <2> QED
    BY <2>1, <2>3, <2>6, <2>7, <2>8 DEF Honest, Binds
<1> QED
  BY <1>1, <1>2, <1>3 DEF Screen

LEMMA ClaimHonest == ASSUME IInv, NEW s \in Sessions, Binds(s), Claim(s) PROVE Honest(s)
<1>0. /\ session[s].pc = "claim" /\ session[s].next = "claim" /\ session[s].draft \in Drafts
      /\ session[s].row \in Rows /\ session[s] \in SessionType
  BY AtDraft DEF Claim, IInv, Typed, SessionType
<1>1. CASE Block(s)
  BY <1>0, <1>1, BlockGrows, QuietEnds DEF Block
<1>2. CASE Claimed(s)
  <2> DEFINE mine == Closed(session[s].row, "sending")
             plan == RecheckPlan(session[s].draft)
             x == [session[s] EXCEPT !.pc = "locking", !.next = "recheck", !.row = mine,
                                     !.plan = plan]
  <2>1. Flush(s, mine) /\ session' = [session EXCEPT ![s] = x]
    BY <1>2 DEF Claimed
  <2>2. mine.status = "sending" /\ mine.body = session[s].row.body
    BY <1>0 DEF Closed, Rows
  <2>3. session[s].row.status \in Ready
    BY <1>0 DEF Binds, SendsBound
  <2> HIDE DEF mine, plan
  <2>4. DraftsGrow
    BY <1>0, <2>1, <2>2, <2>3, FlushGrows DEF Ready
  <2>5. /\ x.pc = "locking" /\ x.next = "recheck" /\ x.op = session[s].op
        /\ x.draft = session[s].draft /\ x.row = mine
        /\ x.expected = session[s].expected /\ x.reviewed = session[s].reviewed
    BY <1>0 DEF SessionType
  <2> HIDE DEF x
  <2>6. session'[s] = x /\ Typed'
    BY <1>0, <2>1, ClaimTyped DEF IInv, Typed
  <2>7. Bound(s)'
    BY <2>4, <2>5, <2>6, BoundLasts DEF Binds
  <2>8. ReadsBound(s)'
    BY <2>5, <2>6 DEF ReadsBound, Reading
  <2>9. SendsBound(s)'
    BY <1>0, <2>2, <2>5, <2>6 DEF Binds, SendsBound
  <2>10. Asked(s)'
    BY <1>0, <2>5, <2>6 DEF Binds, Asked
  <2> QED
    BY <2>4, <2>7, <2>8, <2>9, <2>10 DEF Honest, Binds
<1> QED
  BY <1>1, <1>2, ClaimIs DEF IInv

LEMMA RecheckHonest == ASSUME IInv, NEW s \in Sessions, Binds(s), Recheck(s) PROVE Honest(s)
<1>0. session[s].pc = "recheck" /\ session[s].draft \in Drafts /\ session[s].next = "recheck"
  BY AtDraft DEF Recheck
<1>1. CASE Block(s)
  BY <1>0, <1>1, BlockGrows, QuietEnds DEF Block
<1>2. CASE session' = [session EXCEPT ![s].pc = "handoff"] /\ UNCHANGED <<draft, holder>>
  <2>1. session[s] \in SessionType /\ Typed' /\ DraftsGrow
    BY <1>2, UntouchedGrow, RecheckTyped DEF IInv, Typed
  <2>2. /\ session'[s].pc = "handoff" /\ session'[s].next = session[s].next
        /\ session'[s].op = session[s].op /\ session'[s].draft = session[s].draft
        /\ session'[s].row = session[s].row /\ session'[s].expected = session[s].expected
        /\ session'[s].reviewed = session[s].reviewed
    BY <1>2, <2>1 DEF IInv, Typed, SessionType
  <2>3. Bound(s)'
    BY <2>1, <2>2, BoundLasts DEF Binds
  <2>4. ReadsBound(s)' /\ SendsBound(s)' /\ Asked(s)'
    BY <1>0, <2>2 DEF Binds, ReadsBound, Reading, SendsBound, Asked
  <2> QED
    BY <2>1, <2>3, <2>4 DEF Honest, Binds
<1> QED
  BY <1>1, <1>2 DEF Recheck

\* What is handed over for a client is what the client was shown.
LEMMA HandOffHonest ==
    ASSUME IInv, NEW s \in Sessions, Binds(s), SentAsReviewed, HandOff(s)
    PROVE  Honest(s) /\ SentAsReviewed'
<1> DEFINE d == session[s].draft
           letter == [by |-> s, body |-> session[s].row.body, reviewed |-> session[s].reviewed]
<1>1. PICK taken \in BOOLEAN, ok \in BOOLEAN :
        /\ mail' = IF taken THEN [mail EXCEPT ![d] = Append(@, letter)] ELSE mail
        /\ session' = [session EXCEPT ![s].pc = "record", ![s].ok = ok]
  BY DEF HandOff
<1>2. /\ session[s].pc = "handoff" /\ d \in Drafts /\ session[s].next = "recheck"
      /\ session[s].op \in {"approve", "dispatch"}
  BY AtDraft DEF HandOff
<1>3. session[s] \in SessionType /\ draft' = draft /\ DraftsGrow /\ Typed'
  BY <1>2, UntouchedGrow, HandOffTyped DEF IInv, Typed, HandOff, rows
<1>4. /\ session'[s].pc = "record" /\ session'[s].next = session[s].next
      /\ session'[s].op = session[s].op /\ session'[s].draft = session[s].draft
      /\ session'[s].row = session[s].row /\ session'[s].expected = session[s].expected
      /\ session'[s].reviewed = session[s].reviewed
  BY <1>1, <1>3 DEF IInv, Typed, SessionType
<1>5. Bound(s)'
  BY <1>3, <1>4, BoundLasts DEF Binds
<1>6. ReadsBound(s)' /\ SendsBound(s)' /\ Asked(s)'
  BY <1>2, <1>4 DEF Binds, ReadsBound, Reading, SendsBound, Asked
<1>7. letter.by \in Clients => letter.body = letter.reviewed
  BY <1>2 DEF Binds, SendsBound, Asked
<1> HIDE DEF letter
<1>8. SentAsReviewed'
  <2> SUFFICES ASSUME NEW e \in Drafts, NEW i \in DOMAIN mail'[e], mail'[e][i].by \in Clients
               PROVE  mail'[e][i].body = mail'[e][i].reviewed
    BY DEF SentAsReviewed
  <2>1. CASE mail'[e] = mail[e]
    BY <2>1 DEF SentAsReviewed
  <2>2. CASE mail'[e] # mail[e]
    <3>1. e = d /\ mail'[e] = Append(mail[e], letter) /\ mail[e] \in Seq(MailType)
      BY <1>1, <1>2, <2>2 DEF IInv, Typed
    <3>2. \/ i \in DOMAIN mail[e] /\ mail'[e][i] = mail[e][i]
          \/ mail'[e][i] = letter
      BY <3>1
    <3> QED
      BY <1>7, <3>2 DEF SentAsReviewed
  <2> QED
    BY <2>1, <2>2
<1> QED
  BY <1>3, <1>5, <1>6, <1>8 DEF Honest, Binds

LEMMA RecordHonest == ASSUME IInv, NEW s \in Sessions, Binds(s), Record(s) PROVE Honest(s)
<1> DEFINE status == IF session[s].ok THEN "sent" ELSE "failed"
           mine == Closed(session[s].row, status)
<1>1. Flush(s, mine) /\ Leave(s)
  BY DEF Record
<1>2. session[s].draft \in Drafts /\ session[s].next = "recheck" /\ session[s].row \in Rows
  BY AtDraft DEF Record, IInv, Typed, SessionType
<1>3. status \in {"sent", "failed"} /\ status \in Statuses
  BY DEF Statuses
<1> HIDE DEF status
<1>4. mine.status = status /\ session[s].row.status = "sending"
  BY <1>2, <1>3, ClosedType DEF Binds, SendsBound
<1> HIDE DEF mine
<1>5. DraftsGrow
  BY <1>1, <1>2, <1>3, <1>4, FlushGrows
<1> QED
  BY <1>1, <1>5, QuietEnds

-----------------------------------------------------------------------------
(* The whole, and the theorem.                                             *)

LEMMA MailKept == SentAsReviewed /\ mail' = mail => SentAsReviewed'
  BY DEF SentAsReviewed

\* A step of s binds the other sessions as before.
LEMMA HonestKeeps ==
    ASSUME RInv, IInv', NEW s \in Sessions, Honest(s), KeepsOthers(s), SentAsReviewed'
    PROVE  RInv'
<1>1. ASSUME NEW t \in Sessions \ {s}
      PROVE  Binds(t)'
  <2>1. session'[t] = session[t] /\ Binds(t)
    BY DEF KeepsOthers, RInv
  <2>2. Bound(t)'
    BY <2>1, BoundLasts DEF RInv, Honest, Binds, IInv
  <2>3. ReadsBound(t)' /\ SendsBound(t)' /\ Asked(t)'
    BY <2>1 DEF Binds, ReadsBound, Reading, InPlan, SendsBound, Asked
  <2> QED
    BY <2>2, <2>3 DEF Binds
<1>2. Binds(s)'
  BY DEF Honest
<1> QED
  BY <1>1, <1>2 DEF RInv

\* A step that is nobody's leaves the texts alone.
LEMMA NobodyKeeps ==
    ASSUME RInv, IInv', session' = session, mail' = mail, DraftsGrow
    PROVE  RInv'
<1>1. ASSUME NEW t \in Sessions
      PROVE  Binds(t)'
  <2>1. Binds(t)
    BY DEF RInv
  <2>2. Bound(t)'
    BY <2>1, BoundLasts DEF RInv, Binds, IInv
  <2>3. ReadsBound(t)' /\ SendsBound(t)' /\ Asked(t)'
    BY <2>1 DEF Binds, ReadsBound, Reading, InPlan, SendsBound, Asked
  <2> QED
    BY <2>2, <2>3 DEF Binds
<1>2. SentAsReviewed'
  BY MailKept DEF RInv
<1> QED
  BY <1>1, <1>2 DEF RInv

LEMMA ReviewInit == Init => RInv
<1> SUFFICES ASSUME Init PROVE RInv
  OBVIOUS
<1>1. /\ Idle.pc = "idle" /\ Idle.next = "idle" /\ Idle.op = "dispatch"
  BY DEF Idle
<1>2. \A s \in Sessions : session[s] = Idle
  BY DEF Init
<1>3. \A s \in Sessions : Binds(s)
  BY <1>1, <1>2 DEF Binds, Bound, ReadsBound, Reading, SendsBound, Asked
<1>4. SentAsReviewed
  <2>1. \A d \in Drafts : mail[d] = <<>>
    BY DEF Init
  <2>2. DOMAIN <<>> = {}
    OBVIOUS
  <2> QED
    BY <2>1, <2>2 DEF SentAsReviewed
<1> QED
  BY <1>3, <1>4, InitKeeps DEF RInv

LEMMA ReviewStep ==
    ASSUME RInv, IInv', Next
    PROVE  RInv'
<1>0. IInv /\ SentAsReviewed /\ \A s \in Sessions : Binds(s)
  BY DEF RInv
<1>1. ASSUME NEW s \in Sessions, Acquire(s) \/ Abort(s) \/ Crash(s) \/ Sweep(s) \/ Commit(s)
      PROVE  RInv'
  <2>1. mail' = mail
    <3>1. Commit(s) => mail' = mail
      BY <1>0, CommitEffect DEF IInv, Committed
    <3> QED
      BY <1>1, <3>1 DEF Acquire, Abort, Crash, Sweep
  <2>2. KeepsOthers(s)
    BY <1>0, <1>1, AcquireKeeps, AbortKeeps, CrashKeeps, SweepKeeps, CommitKeeps DEF Acts
  <2>3. Honest(s)
    <3>1. CASE Abort(s)
      BY <1>0, <3>1, UntouchedGrow, QuietEnds DEF Abort, rows
    <3>2. CASE Crash(s)
      <4>1. session'[s] = Idle /\ draft' = draft
        BY <3>2 DEF Crash, rows, RInv, IInv, Typed
      <4>2. Idle.pc = "idle" /\ Idle.next = "idle" /\ Idle.op = "dispatch"
        BY DEF Idle
      <4> QED
        BY <4>1, <4>2, UntouchedGrow
        DEF Honest, Binds, Bound, ReadsBound, Reading, SendsBound, Asked
    <3>3. CASE Commit(s)
      <4>1. Leave(s)
        BY <1>0, <3>3, CommitEffect DEF IInv, Committed
      <4> QED
        BY <1>0, <3>3, <4>1, CommitGrows, QuietEnds
    <3> QED
      BY <1>0, <1>1, <3>1, <3>2, <3>3, AcquireHonest, SweepHonest
  <2> QED
    BY <1>0, <2>1, <2>2, <2>3, MailKept, HonestKeeps
<1>2. ASSUME NEW s \in Sessions, Dispatch(s)
      PROVE  RInv'
  <2>1. KeepsOthers(s)
    BY <1>0, <1>2, ScreenKeeps, ClaimKeeps, RecheckKeeps, HandOffKeeps, RecordKeeps
    DEF Acts, Dispatch
  <2>2. CASE HandOff(s)
    BY <1>0, <2>1, <2>2, HandOffHonest, HonestKeeps
  <2>3. CASE ~HandOff(s)
    <3>1. mail' = mail
      BY <1>2, <2>3 DEF Dispatch, Screen, Claim, Recheck, Record
    <3>2. Honest(s)
      BY <1>0, <1>2, <2>3, ScreenHonest, ClaimHonest, RecheckHonest, RecordHonest DEF Dispatch
    <3> QED
      BY <1>0, <2>1, <3>1, <3>2, MailKept, HonestKeeps
  <2> QED
    BY <2>2, <2>3
<1>3. ASSUME NEW w \in Workers, Scan(w) \/ Hint(w)
      PROVE  RInv'
  <2>1. w \in Sessions /\ mail' = mail
    BY <1>3 DEF Sessions, Scan, Hint
  <2>2. KeepsOthers(w)
    BY <1>0, <1>3, ScanKeeps, HintKeeps DEF Acts
  <2>3. Honest(w)
    BY <1>0, <1>3, <2>1, ScanHonest, HintHonest
  <2> QED
    BY <1>0, <2>1, <2>2, <2>3, MailKept, HonestKeeps
<1>4. ASSUME NEW s \in Clients, NEW x \in Asks, Ask(s, x[1], x[2], x[3])
      PROVE  RInv'
  <2>1. s \in Sessions /\ mail' = mail
    BY <1>4 DEF Sessions, Ask
  <2>2. KeepsOthers(s) /\ Honest(s)
    BY <1>0, <1>4, <2>1, AsksAre, AskKeeps, AskHonest DEF Acts
  <2> QED
    BY <1>0, <2>1, <2>2, MailKept, HonestKeeps
<1>5. ASSUME NEW a \in Addresses, Revoke(a)
      PROVE  RInv'
  BY <1>5, UntouchedGrow, NobodyKeeps DEF Revoke
<1>6. ASSUME NEW d \in Drafts, ReviewElapses(d)
      PROVE  RInv'
  <2> DEFINE new == [draft[d] EXCEPT !.auto = "due"]
  <2>1. draft[d] \in Rows /\ draft' = [draft EXCEPT ![d] = new]
    BY <1>0, <1>6 DEF ReviewElapses, IInv, Typed
  <2>2. /\ new.status = draft[d].status /\ new.version = draft[d].version
        /\ new.body = draft[d].body /\ new.oversized = draft[d].oversized
    BY <2>1 DEF Rows
  <2> HIDE DEF new
  <2>3. DraftsGrow
    BY <1>0, <2>1, <2>2, OneGrows DEF Grows, Open
  <2> QED
    BY <1>6, <2>3, NobodyKeeps DEF ReviewElapses
<1> QED
  BY <1>1, <1>2, <1>3, <1>4, <1>5, <1>6 DEF Next, Step

LEMMA ReviewNext == RInv /\ [Next]_vars => RInv'
<1> SUFFICES ASSUME RInv, [Next]_vars PROVE RInv'
  OBVIOUS
<1>1. IInv'
  BY NextKeeps DEF RInv
<1>2. CASE Next
  BY <1>1, <1>2, ReviewStep
<1>3. CASE UNCHANGED vars
  BY <1>1, <1>3, UntouchedGrow, NobodyKeeps DEF vars, rows
<1> QED
  BY <1>2, <1>3

\* What a person approves is sent as that person saw it, whoever edits, voids or
\* sends the draft meanwhile: the email that SES takes for an approval of
\* dispatch_draft has the text of the version that the approval names.
THEOREM ApprovedText == Spec => []SentAsReviewed
<1>1. Spec => []RInv
  BY ReviewInit, ReviewNext, PTL DEF Spec
<1>2. RInv => SentAsReviewed
  BY DEF RInv
<1> QED
  BY <1>1, <1>2, PTL

=============================================================================
