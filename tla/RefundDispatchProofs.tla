------------------------ MODULE RefundDispatchProofs ------------------------
(***************************************************************************)
(* For any refunds, amounts, ledger and number of faults: the types, for   *)
(* any number of dispatchers; and for the one dispatcher of the scheduler, *)
(* that a refund seen as failed is not on its way, that money moves only   *)
(* while the row says so, that Plaid never pays back more than was         *)
(* collected, and that desk and job implement RefundsWithinDebit.          *)
(***************************************************************************)
EXTENDS RefundDispatch, FiniteSetTheorems, TLAPS

\* The scheduler runs in one process, and a job of it once at a time.
OneDispatcher == \A v, w \in Workers : v = w

-----------------------------------------------------------------------------
(* Types.                                                                  *)

RowType == [status: RowStatuses, known: BOOLEAN, stale: BOOLEAN]

WorkerType ==
    [ pc: {"idle", "claimed", "verify", "short", "unsure", "verified", "create",
           "record", "refused", "uncertain"},
      refund: Refunds \cup {NoRefund}, guarded: BOOLEAN, seen: ProviderStatuses ]

\* A dispatcher at work holds a refund.
Holding == \A w \in Workers : worker[w].pc # "idle" => worker[w].refund \in Refunds

\* TypeOK with its record sets named, and what types alone need of the workers.
Typed ==
    /\ row \in [Refunds -> RowType]
    /\ answer \in [Refunds -> Refunds \cup {NoRefund}]
    /\ transfer \in {"funds_available", "returned"}
    /\ refund \in [Refunds -> ProviderStatuses \cup {"none"}]
    /\ events \in [Refunds -> Seq(ProviderStatuses)]
    /\ ledger \in 0 .. MaxLedger
    /\ worker \in [Workers -> WorkerType]
    /\ faults \in 0 .. MaxFaults
    /\ Holding

LEMMA TypedIsTypeOK == Typed => TypeOK
  BY DEF Typed, TypeOK, RowType, WorkerType

\* An idle dispatcher has a type of its own.
LEMMA IdleType == Idle \in WorkerType /\ Idle.pc = "idle"
  BY DEF Idle, WorkerType, ProviderStatuses

LEMMA InitTyped == Init => Typed
  BY IdleType, AmountAssumption
     DEF Init, Typed, RowType, RowStatuses, Holding, Idle

\* Writing a status of the column keeps the rows in their type.
LEMMA WriteType ==
    ASSUME row \in [Refunds -> RowType], NEW r \in Refunds, NEW status \in RowStatuses,
           Write(r, status)
    PROVE  row' \in [Refunds -> RowType]
  BY DEF Write, RowType

\* The steps of a dispatcher that only move its program counter or end it.
LEMMA GotoType ==
    ASSUME Typed, NEW w \in Workers,
           NEW pc \in {"claimed", "verify", "short", "unsure", "verified", "create",
                       "record", "refused", "uncertain"},
           worker[w].pc # "idle", Goto(w, pc)
    PROVE  worker' \in [Workers -> WorkerType] /\ Holding'
  BY DEF Typed, Goto, WorkerType, Holding

LEMMA DropType ==
    ASSUME Typed, NEW w \in Workers, Drop(w)
    PROVE  worker' \in [Workers -> WorkerType] /\ Holding'
  BY IdleType DEF Typed, Drop, Holding

\* What Plaid does for a key keeps its own state typed.
LEMMA PlaidRefundType ==
    ASSUME Typed, NEW r \in Refunds, PlaidRefund(r)
    PROVE  /\ refund' \in [Refunds -> ProviderStatuses \cup {"none"}]
           /\ events' \in [Refunds -> Seq(ProviderStatuses)]
           /\ ledger' \in 0 .. MaxLedger
           /\ refund'[r] \in ProviderStatuses
<1> USE DEF Typed, plaidVars
<1>1. CASE refund[r] = "none"
  <2>1. /\ ledger >= Amount[r]
        /\ refund' = [refund EXCEPT ![r] = "pending"]
        /\ events' = [events EXCEPT ![r] = Append(@, "pending")]
        /\ ledger' = ledger - Amount[r]
    BY <1>1 DEF PlaidRefund
  <2>2. "pending" \in ProviderStatuses
    BY DEF ProviderStatuses
  <2>3. Append(events[r], "pending") \in Seq(ProviderStatuses)
    BY <2>2
  <2>4. ledger' \in 0 .. MaxLedger
    <3>1. Amount[r] \in Nat /\ MaxLedger \in Nat /\ ledger \in 0 .. MaxLedger
      BY AmountAssumption
    <3> QED
      BY <2>1, <3>1
  <2> QED
    BY <2>1, <2>2, <2>3, <2>4
<1>2. CASE refund[r] # "none"
  BY <1>2 DEF PlaidRefund
<1> QED
  BY <1>1, <1>2

LEMMA NextTyped == Typed /\ [Next]_vars => Typed'
<1> SUFFICES ASSUME Typed, [Next]_vars PROVE Typed'
  OBVIOUS
<1> USE DEF rowVars, plaidVars
<1>1. CASE UNCHANGED vars
  BY <1>1 DEF Typed, Holding, vars
<1>2. ASSUME NEW r \in Refunds, Request(r) PROVE Typed'
  <2>1. "pending" \in RowStatuses
    BY DEF RowStatuses, ProviderStatuses
  <2>2. row' \in [Refunds -> RowType]
    BY <1>2, <2>1, WriteType DEF Request, Typed
  <2>3. answer' \in [Refunds -> Refunds \cup {NoRefund}]
    BY <1>2 DEF Request, Typed
  <2> QED
    BY <1>2, <2>2, <2>3 DEF Request, Typed, Holding
<1>3. ASSUME NEW r \in Refunds, RowAges(r) PROVE Typed'
  BY <1>3 DEF RowAges, Typed, RowType, Holding
<1>4. ASSUME NEW r \in Refunds, SyncEvent(r) PROVE Typed'
  <2>1. events[r] \in Seq(ProviderStatuses) /\ events[r] # <<>>
    BY <1>4 DEF SyncEvent, Typed
  <2>2. Head(events[r]) \in RowStatuses /\ Tail(events[r]) \in Seq(ProviderStatuses)
    BY <2>1 DEF RowStatuses
  <2>3. row' \in [Refunds -> RowType]
    BY <1>4, <2>2, WriteType DEF SyncEvent, Typed
  <2>4. events' \in [Refunds -> Seq(ProviderStatuses)]
    BY <1>4, <2>2 DEF SyncEvent, Typed
  <2> QED
    BY <1>4, <2>3, <2>4 DEF SyncEvent, Typed, Holding
<1>5. ASSUME NEW r \in Refunds, RefundProgress(r) PROVE Typed'
  <2>1. PICK s \in ProviderNext[refund[r]] :
            /\ refund' = [refund EXCEPT ![r] = s]
            /\ events' = [events EXCEPT ![r] = Append(@, s)]
    BY <1>5 DEF RefundProgress
  <2>2. refund[r] \in ProviderStatuses
    BY <1>5 DEF RefundProgress, Typed
  <2>3. s \in ProviderStatuses
    BY <2>2 DEF ProviderNext, ProviderStatuses
  <2>4. Append(events[r], s) \in Seq(ProviderStatuses)
    BY <2>3 DEF Typed
  <2> QED
    BY <1>5, <2>1, <2>3, <2>4 DEF RefundProgress, Typed, Holding
<1>6. ASSUME NEW w \in Workers, NEW r \in Refunds, Claim(w, r) PROVE Typed'
  <2>1. "checking_balance" \in RowStatuses /\ "action_required" \in RowStatuses
    BY DEF RowStatuses
  <2>2. row' \in [Refunds -> RowType]
    BY <1>6, <2>1, WriteType DEF Claim, Typed
  <2>3. [Idle EXCEPT !.pc = "claimed", !.refund = r,
                     !.guarded = row[r].status # "submitting"] \in WorkerType
    BY IdleType DEF WorkerType
  <2>4. worker' \in [Workers -> WorkerType] /\ Holding'
    <3>1. CASE worker' = worker
      BY <3>1 DEF Typed, Holding
    <3>2. CASE worker' = [worker EXCEPT ![w] =
                  [Idle EXCEPT !.pc = "claimed", !.refund = r,
                               !.guarded = row[r].status # "submitting"]]
      <4>1. worker' \in [Workers -> WorkerType]
        BY <2>3, <3>2 DEF Typed
      <4>2. worker'[w].refund = r
        BY <3>2 DEF Typed, Idle
      <4>3. \A v \in Workers \ {w} : worker'[v] = worker[v]
        BY <3>2 DEF Typed
      <4> QED
        BY <4>1, <4>2, <4>3 DEF Typed, Holding
    <3> QED
      BY <1>6, <3>1, <3>2 DEF Claim
  <2> QED
    BY <1>6, <2>2, <2>4 DEF Claim, Typed
<1>7. ASSUME NEW w \in Workers, WorkerStep(w) \/ Crash(w) PROVE Typed'
  <2>0. worker[w].pc # "idle" /\ worker[w].refund \in Refunds
    BY <1>7 DEF WorkerStep, Recheck, Verify, RecordCheck, Handoff, Create, RecordAnswer,
                RecordError, Crash, Typed, Holding
  <2>1. \A s \in {"action_required", "checking_balance", "submitting", "failed"} :
            s \in RowStatuses
    BY DEF RowStatuses, ProviderStatuses
  <2>2. CASE Recheck(w)
    <3>1. row' \in [Refunds -> RowType]
      BY <2>0, <2>1, <2>2, WriteType DEF Recheck, Typed
    <3>2. worker' \in [Workers -> WorkerType] /\ Holding'
      BY <2>0, <2>2, GotoType, DropType DEF Recheck
    <3> QED
      BY <2>2, <3>1, <3>2 DEF Recheck, Typed
  <2>3. CASE Verify(w)
    <3>1. worker' \in [Workers -> WorkerType] /\ Holding'
      BY <2>0, <2>3, GotoType DEF Verify
    <3>2. faults' \in 0 .. MaxFaults
      BY <2>3, AmountAssumption DEF Verify, ReplyLost, Typed
    <3> QED
      BY <2>3, <3>1, <3>2 DEF Verify, Typed
  <2>4. CASE RecordCheck(w)
    <3>1. row' \in [Refunds -> RowType]
      BY <2>0, <2>1, <2>4, WriteType DEF RecordCheck, Typed
    <3>2. worker' \in [Workers -> WorkerType] /\ Holding'
      BY <2>4, DropType DEF RecordCheck
    <3> QED
      BY <2>4, <3>1, <3>2 DEF RecordCheck, Typed
  <2>5. CASE Handoff(w)
    <3>1. row' \in [Refunds -> RowType]
      BY <2>0, <2>1, <2>5, WriteType DEF Handoff, Typed
    <3>2. worker' \in [Workers -> WorkerType] /\ Holding'
      BY <2>0, <2>5, GotoType, DropType DEF Handoff
    <3> QED
      BY <2>5, <3>1, <3>2 DEF Handoff, Typed
  <2>6. CASE Create(w)
    <3> DEFINE r == worker[w].refund
    <3>1. /\ refund' \in [Refunds -> ProviderStatuses \cup {"none"}]
          /\ events' \in [Refunds -> Seq(ProviderStatuses)]
          /\ ledger' \in 0 .. MaxLedger
      BY <2>0, <2>6, PlaidRefundType DEF Create, Typed
    <3>2. worker' \in [Workers -> WorkerType] /\ Holding'
      <4>1. CASE /\ PlaidRefund(r)
                 /\ worker' = [worker EXCEPT ![w] =
                                  [@ EXCEPT !.pc = "record", !.seen = refund'[r]]]
        <5>1. refund'[r] \in ProviderStatuses
          BY <2>0, <4>1, PlaidRefundType
        <5> QED
          BY <2>0, <4>1, <5>1 DEF Typed, WorkerType, Holding
      <4>2. CASE Goto(w, "refused") \/ Goto(w, "uncertain")
        BY <2>0, <4>2, GotoType
      <4> QED
        BY <2>6, <4>1, <4>2 DEF Create
    <3>3. faults' \in 0 .. MaxFaults
      BY <2>6, AmountAssumption DEF Create, ReplyLost, Typed
    <3> QED
      BY <2>6, <3>1, <3>2, <3>3 DEF Create, Typed
  <2>7. CASE RecordAnswer(w)
    <3>1. worker[w].seen \in RowStatuses
      BY DEF Typed, WorkerType, RowStatuses
    <3>2. row' \in [Refunds -> RowType]
      BY <2>0, <2>7, <3>1 DEF RecordAnswer, Typed, RowType
    <3>3. worker' \in [Workers -> WorkerType] /\ Holding'
      BY <2>7, DropType DEF RecordAnswer
    <3> QED
      BY <2>7, <3>2, <3>3 DEF RecordAnswer, Typed
  <2>8. CASE RecordError(w)
    <3>1. row' \in [Refunds -> RowType]
      BY <2>0, <2>1, <2>8, WriteType DEF RecordError, Typed
    <3>2. worker' \in [Workers -> WorkerType] /\ Holding'
      BY <2>8, DropType DEF RecordError
    <3> QED
      BY <2>8, <3>1, <3>2 DEF RecordError, Typed
  <2>9. CASE Crash(w)
    <3>1. worker' \in [Workers -> WorkerType] /\ Holding'
      BY <2>9, DropType DEF Crash
    <3>2. faults' \in 0 .. MaxFaults
      BY <2>9, AmountAssumption DEF Crash, Typed
    <3> QED
      BY <2>9, <3>1, <3>2 DEF Crash, Typed
  <2> QED
    BY <1>7, <2>2, <2>3, <2>4, <2>5, <2>6, <2>7, <2>8, <2>9 DEF WorkerStep
<1>8. CASE DebitReturned
  BY <1>8 DEF DebitReturned, Typed, Holding
<1>9. CASE LedgerMoves
  BY <1>9 DEF LedgerMoves, Typed, Holding
<1> QED
  BY <1>1, <1>2, <1>3, <1>4, <1>5, <1>6, <1>7, <1>8, <1>9 DEF Next

LEMMA AlwaysTyped == Spec => []Typed
<1>1. Init => Typed
  BY InitTyped
<1>2. Typed /\ [Next]_vars => Typed'
  BY NextTyped
<1> QED
  BY <1>1, <1>2, PTL DEF Spec

\* Every column and every local variable of the job keeps its type, for any number
\* of dispatchers: the statuses written are those the query and the desk know.
THEOREM TypeCorrect == Spec => []TypeOK
  BY AlwaysTyped, TypedIsTypeOK, PTL

-----------------------------------------------------------------------------
(* What rows, events and the dispatcher know of the money.                 *)

\* A refund event of failure is about a refund that failed.
FailuresAreTrue ==
    \A r \in Refunds : \A i \in 1 .. Len(events[r]) :
        events[r][i] = "failed" => refund[r] = "failed"

\* A row that has the refund's id is about a refund Plaid made.
KnownIsThere == \A r \in Refunds : row[r].known => refund[r] # "none"

\* A failed refund was never made, or failed at Plaid.
FailedIsOver ==
    \A r \in Refunds : row[r].status = "failed" => refund[r] \in {"none", "failed"}

\* About to ask Plaid for a refund it has not made, the row says submitting.
AsksWhileSubmitting ==
    \A w \in Workers :
        worker[w].pc = "create" /\ refund[worker[w].refund] = "none"
            => row[worker[w].refund].status = "submitting"

\* A refusal is of a refund that was not made; an answer is of one that was.
AnswersAreTrue ==
    \A w \in Workers :
        /\ worker[w].pc = "refused" => refund[worker[w].refund] = "none"
        /\ worker[w].pc = "record" =>
              /\ refund[worker[w].refund] # "none"
              /\ worker[w].seen = "failed" => refund[worker[w].refund] = "failed"

Knowledge ==
    FailuresAreTrue /\ KnownIsThere /\ FailedIsOver /\ AsksWhileSubmitting /\ AnswersAreTrue

LEMMA InitKnowledge == Init => Knowledge
  BY DEF Init, Idle, Knowledge, FailuresAreTrue, KnownIsThere, FailedIsOver,
         AsksWhileSubmitting, AnswersAreTrue

\* A step that leaves Plaid alone keeps the knowledge if the rows it writes are
\* justified and so is what the dispatcher goes on with.
LEMMA LocalStep ==
    ASSUME Typed, Knowledge, UNCHANGED <<refund, events>>, KnownIsThere', FailedIsOver',
           AsksWhileSubmitting', AnswersAreTrue'
    PROVE  Knowledge'
  BY DEF Knowledge, FailuresAreTrue

\* A write that keeps known and does not say failed, to a row not being asked for.
LEMMA WriteKeeps ==
    ASSUME Typed, Knowledge, refund' = refund,
           NEW r \in Refunds, NEW status \in RowStatuses \ {"failed"}, Write(r, status)
    PROVE  KnownIsThere' /\ FailedIsOver'
  BY DEF Typed, RowType, Write, Knowledge, KnownIsThere, FailedIsOver

LEMMA NextKnows ==
    ASSUME OneDispatcher, Typed, Typed', Knowledge, [Next]_vars
    PROVE  Knowledge'
<1> USE DEF rowVars, plaidVars
<1>0. /\ FailuresAreTrue /\ KnownIsThere /\ FailedIsOver /\ AsksWhileSubmitting
      /\ AnswersAreTrue
  BY DEF Knowledge
<1>01. \A s \in {"pending", "action_required", "checking_balance", "submitting"} :
          s \in RowStatuses \ {"failed"}
  BY DEF RowStatuses, ProviderStatuses
<1>02. worker' = worker /\ refund' = refund /\ row' = row /\ events' = events => Knowledge'
  BY <1>0 DEF Knowledge, FailuresAreTrue, KnownIsThere, FailedIsOver, AsksWhileSubmitting,
              AnswersAreTrue
<1>1. CASE UNCHANGED vars
  BY <1>1, <1>02 DEF vars
<1>2. ASSUME NEW r \in Refunds, Request(r) PROVE Knowledge'
  <2>1. CASE row' = row
    BY <1>2, <2>1, <1>02 DEF Request
  <2>2. CASE row[r].status = "none" /\ Write(r, "pending")
    <3>1. refund' = refund /\ events' = events /\ worker' = worker
      BY <1>2 DEF Request
    <3>2. KnownIsThere' /\ FailedIsOver'
      BY <2>2, <3>1, <1>01, WriteKeeps
    <3>3. AsksWhileSubmitting'
      BY <2>2, <3>1, <1>0 DEF Write, AsksWhileSubmitting, Typed, RowType, Holding
    <3>4. AnswersAreTrue'
      BY <3>1, <1>0 DEF AnswersAreTrue
    <3> QED
      BY <3>1, <3>2, <3>3, <3>4, LocalStep
  <2>3. SameOperation(r, r)
    BY DEF SameOperation
  <2> QED
    BY <1>2, <2>1, <2>2, <2>3 DEF Request
<1>3. ASSUME NEW r \in Refunds, RowAges(r) PROVE Knowledge'
  <2>1. refund' = refund /\ events' = events /\ worker' = worker
    BY <1>3 DEF RowAges
  <2>2. \A q \in Refunds : row'[q].status = row[q].status /\ row'[q].known = row[q].known
    BY <1>3 DEF RowAges, Typed, RowType
  <2>3. \A w \in Workers : worker[w].pc = "create" => worker[w].refund \in Refunds
    BY DEF Typed, Holding
  <2> QED
    BY <2>1, <2>2, <2>3, <1>0, LocalStep
       DEF KnownIsThere, FailedIsOver, AsksWhileSubmitting, AnswersAreTrue
<1>4. ASSUME NEW r \in Refunds, SyncEvent(r) PROVE Knowledge'
  <2>1. /\ refund' = refund /\ worker' = worker
        /\ events' = [events EXCEPT ![r] = Tail(@)]
        /\ events[r] \in Seq(ProviderStatuses) /\ events[r] # <<>>
    BY <1>4 DEF SyncEvent, Typed
  <2>2. FailuresAreTrue'
    <3> SUFFICES ASSUME NEW q \in Refunds, NEW i \in 1 .. Len(events'[q]),
                        events'[q][i] = "failed"
                 PROVE  refund[q] = "failed"
      BY <2>1 DEF FailuresAreTrue
    <3>1. CASE q = r
      <4>1. events'[q] = Tail(events[r])
        BY <2>1, <3>1 DEF Typed
      <4>2. i + 1 \in 1 .. Len(events[r]) /\ events[r][i + 1] = "failed"
        <5> DEFINE old == events[r]
        <5>1. old \in Seq(ProviderStatuses) /\ old # <<>> /\ events'[q] = Tail(old)
          BY <2>1, <4>1
        <5> HIDE DEF old
        <5>2. /\ Len(old) \in Nat /\ Len(Tail(old)) = Len(old) - 1
              /\ \A j \in 1 .. Len(Tail(old)) : Tail(old)[j] = old[j + 1]
          BY <5>1
        <5>3. i + 1 \in 1 .. Len(old) /\ old[i + 1] = "failed"
          BY <5>1, <5>2
        <5> QED
          BY <5>3 DEF old
      <4> QED
        BY <3>1, <4>2, <1>0 DEF FailuresAreTrue
    <3>2. CASE q # r
      BY <2>1, <3>2, <1>0 DEF FailuresAreTrue, Typed
    <3> QED
      BY <3>1, <3>2
  <2>3. CASE ~row[r].known
    BY <1>4, <2>1, <2>2, <2>3, <1>0 DEF SyncEvent, Knowledge, KnownIsThere, FailedIsOver,
       AsksWhileSubmitting, AnswersAreTrue
  <2>4. CASE row[r].known
    <3>1. Write(r, Head(events[r]))
      BY <1>4, <2>4 DEF SyncEvent
    <3>2. Head(events[r]) = "failed" => refund[r] = "failed"
      <4>1. 1 \in 1 .. Len(events[r]) /\ Head(events[r]) = events[r][1]
        BY <2>1
      <4> QED
        BY <4>1, <1>0 DEF FailuresAreTrue
    <3>3. refund[r] # "none"
      BY <2>4, <1>0 DEF KnownIsThere
    <3>4. KnownIsThere' /\ FailedIsOver'
      BY <2>1, <3>1, <3>2, <3>3, <1>0 DEF Write, KnownIsThere, FailedIsOver, Typed, RowType
    <3>5. AsksWhileSubmitting'
      BY <2>1, <3>1, <3>3, <1>0 DEF Write, AsksWhileSubmitting, Typed, RowType, Holding
    <3>6. AnswersAreTrue'
      BY <2>1, <1>0 DEF AnswersAreTrue
    <3> QED
      BY <2>2, <3>4, <3>5, <3>6 DEF Knowledge
  <2> QED
    BY <2>3, <2>4
<1>5. ASSUME NEW r \in Refunds, RefundProgress(r) PROVE Knowledge'
  <2>1. PICK s \in ProviderNext[refund[r]] :
            /\ refund' = [refund EXCEPT ![r] = s]
            /\ events' = [events EXCEPT ![r] = Append(@, s)]
    BY <1>5 DEF RefundProgress
  <2>2. refund[r] \in ProviderStatuses /\ row' = row /\ worker' = worker
    BY <1>5 DEF RefundProgress, Typed
  <2>3. s \in ProviderStatuses /\ s # "none" /\ refund[r] # "failed" /\ refund[r] # "none"
    BY <2>1, <2>2 DEF ProviderNext, ProviderStatuses
  <2>4. refund'[r] = s /\ \A q \in Refunds \ {r} : refund'[q] = refund[q]
    BY <2>1 DEF Typed
  <2>5. \A q \in Refunds : /\ refund'[q] = "none" <=> refund[q] = "none"
                           /\ refund[q] = "failed" => refund'[q] = "failed"
    BY <2>3, <2>4
  <2>6. FailuresAreTrue'
    <3> SUFFICES ASSUME NEW q \in Refunds, NEW i \in 1 .. Len(events'[q]),
                        events'[q][i] = "failed"
                 PROVE  refund'[q] = "failed"
      BY DEF FailuresAreTrue
    <3>1. CASE q = r
      <4>1. events'[q] = Append(events[r], s) /\ events[r] \in Seq(ProviderStatuses)
        BY <2>1, <3>1 DEF Typed
      <4>2. CASE i = Len(events[r]) + 1
        BY <2>3, <2>4, <3>1, <4>1, <4>2
      <4>3. CASE i # Len(events[r]) + 1
        <5>1. i \in 1 .. Len(events[r]) /\ events[r][i] = "failed"
          BY <2>3, <4>1, <4>3
        <5> QED
          BY <5>1, <2>3, <1>0 DEF FailuresAreTrue
      <4> QED
        BY <4>2, <4>3
    <3>2. CASE q # r
      BY <2>1, <2>4, <3>2, <1>0 DEF FailuresAreTrue, Typed
    <3> QED
      BY <3>1, <3>2
  <2>7. FailedIsOver'
    BY <2>2, <2>5, <1>0 DEF FailedIsOver, Typed
  <2>8. KnownIsThere'
    BY <2>2, <2>5, <1>0 DEF KnownIsThere
  <2>9. \A w \in Workers : worker[w].pc # "idle" => worker[w].refund \in Refunds
    BY DEF Typed, Holding
  <2>10. AsksWhileSubmitting' /\ AnswersAreTrue'
    BY <2>2, <2>5, <2>9, <1>0 DEF AsksWhileSubmitting, AnswersAreTrue
  <2> QED
    BY <2>6, <2>7, <2>8, <2>10 DEF Knowledge
<1>6. ASSUME NEW w \in Workers, NEW r \in Refunds, Claim(w, r) PROVE Knowledge'
  <2>1. /\ refund' = refund /\ events' = events /\ worker[w].pc = "idle"
        /\ \A v \in Workers : v = w
    BY <1>6 DEF Claim, OneDispatcher
  <2>2. KnownIsThere' /\ FailedIsOver'
    <3>1. CASE row' = row
      BY <2>1, <3>1, <1>0 DEF KnownIsThere, FailedIsOver
    <3>2. CASE Write(r, "checking_balance") \/ Write(r, "action_required")
      BY <2>1, <3>2, <1>01, WriteKeeps
    <3> QED
      BY <1>6, <3>1, <3>2 DEF Claim
  <2>3. worker'[w].pc \in {"idle", "claimed"}
    BY <1>6, <2>1 DEF Claim, Typed, Idle
  <2>4. AsksWhileSubmitting' /\ AnswersAreTrue'
    BY <2>1, <2>3 DEF AsksWhileSubmitting, AnswersAreTrue
  <2> QED
    BY <2>1, <2>2, <2>4, LocalStep
<1>7. ASSUME NEW w \in Workers, WorkerStep(w) \/ Crash(w) PROVE Knowledge'
  <2>0. /\ worker[w].refund \in Refunds
        /\ \A v \in Workers : v = w
    BY <1>7 DEF WorkerStep, Recheck, Verify, RecordCheck, Handoff, Create, RecordAnswer,
                RecordError, Crash, Typed, Holding, OneDispatcher
  <2> DEFINE r == worker[w].refund
  <2>1. Drop(w) => worker'[w].pc = "idle"
    BY DEF Drop, Typed, Idle
  <2>2. \A pc : Goto(w, pc) => worker'[w].pc = pc /\ worker'[w].refund = r
    BY DEF Goto, Typed, WorkerType
  <2>3. worker'[w].pc \notin {"create", "refused", "record"}
            => AsksWhileSubmitting' /\ AnswersAreTrue'
    BY <2>0 DEF AsksWhileSubmitting, AnswersAreTrue
  <2>4. ASSUME UNCHANGED <<row, refund>> PROVE KnownIsThere' /\ FailedIsOver'
    BY <2>4, <1>0 DEF KnownIsThere, FailedIsOver
  <2>5. CASE Recheck(w)
    <3>1. refund' = refund /\ events' = events
      BY <2>5 DEF Recheck
    <3>2. KnownIsThere' /\ FailedIsOver'
      <4>1. CASE row' = row
        BY <3>1, <4>1, <2>4
      <4>2. CASE Write(r, "action_required")
        BY <2>0, <3>1, <4>2, <1>01, WriteKeeps
      <4> QED
        BY <2>5, <4>1, <4>2 DEF Recheck
    <3>3. AsksWhileSubmitting' /\ AnswersAreTrue'
      <4>1. CASE Drop(w)
        BY <4>1, <2>1, <2>3
      <4>2. CASE Goto(w, "verify")
        BY <4>2, <2>2, <2>3
      <4>3. CASE row[r].status = "submitting" /\ row' = row /\ Goto(w, "create")
        BY <4>3, <2>0, <2>2 DEF AsksWhileSubmitting, AnswersAreTrue
      <4> QED
        BY <2>5, <4>1, <4>2, <4>3 DEF Recheck
    <3> QED
      BY <3>1, <3>2, <3>3, LocalStep
  <2>6. CASE Verify(w)
    <3>1. UNCHANGED <<row, refund, events>>
      BY <2>6 DEF Verify
    <3>2. Goto(w, "verified") \/ Goto(w, "short") \/ Goto(w, "unsure")
      BY <2>6 DEF Verify
    <3> QED
      BY <3>1, <3>2, <2>2, <2>3, <2>4, LocalStep
  <2>7. CASE RecordCheck(w)
    <3>1. refund' = refund /\ events' = events /\ Drop(w)
      BY <2>7 DEF RecordCheck
    <3>2. KnownIsThere' /\ FailedIsOver'
      <4>1. CASE row' = row
        BY <3>1, <4>1, <2>4
      <4>2. CASE Write(r, "action_required") \/ Write(r, "checking_balance")
        BY <2>0, <3>1, <4>2, <1>01, WriteKeeps
      <4> QED
        BY <2>7, <4>1, <4>2 DEF RecordCheck
    <3> QED
      BY <3>1, <3>2, <2>1, <2>3, LocalStep
  <2>8. CASE Handoff(w)
    <3>1. refund' = refund /\ events' = events
      BY <2>8 DEF Handoff
    <3>2. KnownIsThere' /\ FailedIsOver'
      <4>1. CASE row' = row
        BY <3>1, <4>1, <2>4
      <4>2. CASE Write(r, "action_required") \/ Write(r, "submitting")
        BY <2>0, <3>1, <4>2, <1>01, WriteKeeps
      <4> QED
        BY <2>8, <4>1, <4>2 DEF Handoff
    <3>3. AsksWhileSubmitting' /\ AnswersAreTrue'
      <4>1. CASE Drop(w)
        BY <4>1, <2>1, <2>3
      <4>2. CASE Write(r, "submitting") /\ Goto(w, "create")
        <5>1. row'[r].status = "submitting"
          BY <2>0, <4>2 DEF Write, Typed, RowType
        <5> QED
          BY <4>2, <5>1, <2>0, <2>2 DEF AsksWhileSubmitting, AnswersAreTrue
      <4> QED
        BY <2>8, <4>1, <4>2 DEF Handoff
    <3> QED
      BY <3>1, <3>2, <3>3, LocalStep
  <2>9. CASE Create(w)
    <3>1. row' = row /\ worker[w].pc = "create"
      BY <2>9 DEF Create
    <3>2. CASE UNCHANGED plaidVars
      <4>1. KnownIsThere' /\ FailedIsOver'
        BY <3>1, <3>2, <2>4
      <4>2. CASE /\ PlaidRefund(r)
                 /\ worker' = [worker EXCEPT ![w] =
                                  [@ EXCEPT !.pc = "record", !.seen = refund'[r]]]
        <5>1. refund[r] # "none"
          BY <2>0, <3>2, <4>2 DEF PlaidRefund, Typed
        <5>2. /\ worker'[w].pc = "record" /\ worker'[w].refund = r
              /\ worker'[w].seen = refund[r]
          BY <3>2, <4>2 DEF Typed, WorkerType
        <5>3. AsksWhileSubmitting' /\ AnswersAreTrue'
          BY <2>0, <3>2, <5>1, <5>2 DEF AsksWhileSubmitting, AnswersAreTrue
        <5> QED
          BY <3>2, <4>1, <5>3, LocalStep
      <4>3. CASE refund[r] = "none" /\ Goto(w, "refused")
        <5>1. AsksWhileSubmitting' /\ AnswersAreTrue'
          BY <2>0, <2>2, <3>2, <4>3 DEF AsksWhileSubmitting, AnswersAreTrue
        <5> QED
          BY <3>2, <4>1, <5>1, LocalStep
      <4>4. CASE Goto(w, "uncertain")
        BY <4>4, <3>2, <4>1, <2>2, <2>3, LocalStep
      <4> QED
        BY <2>9, <4>2, <4>3, <4>4 DEF Create
    <3>3. CASE PlaidRefund(r) /\ refund[r] = "none"
      <4>1. /\ refund' = [refund EXCEPT ![r] = "pending"]
            /\ events' = [events EXCEPT ![r] = Append(@, "pending")]
        BY <3>3 DEF PlaidRefund
      <4>2. refund'[r] = "pending" /\ \A q \in Refunds \ {r} : refund'[q] = refund[q]
        BY <2>0, <4>1 DEF Typed
      <4>3. row[r].status = "submitting"
        BY <3>1, <3>3, <1>0 DEF AsksWhileSubmitting
      <4>4. KnownIsThere' /\ FailedIsOver'
        BY <2>0, <3>1, <4>2, <4>3, <1>0 DEF KnownIsThere, FailedIsOver
      <4>5. FailuresAreTrue'
        <5> SUFFICES ASSUME NEW q \in Refunds, NEW i \in 1 .. Len(events'[q]),
                            events'[q][i] = "failed"
                     PROVE  refund'[q] = "failed"
          BY DEF FailuresAreTrue
        <5>1. CASE q = r
          <6>1. events'[q] = Append(events[r], "pending") /\ events[r] \in Seq(ProviderStatuses)
            BY <2>0, <4>1, <5>1 DEF Typed
          <6>2. i \in 1 .. Len(events[r]) /\ events[r][i] = "failed"
            BY <6>1
          <6> QED
            BY <2>0, <3>3, <6>2, <1>0 DEF FailuresAreTrue
        <5>2. CASE q # r
          BY <2>0, <4>1, <4>2, <5>2, <1>0 DEF FailuresAreTrue, Typed
        <5> QED
          BY <5>1, <5>2
      <4>6. CASE worker' = [worker EXCEPT ![w] =
                              [@ EXCEPT !.pc = "record", !.seen = refund'[r]]]
        <5>1. /\ worker'[w].pc = "record" /\ worker'[w].refund = r
              /\ worker'[w].seen = "pending"
          BY <4>2, <4>6 DEF Typed, WorkerType
        <5>2. AsksWhileSubmitting' /\ AnswersAreTrue'
          BY <2>0, <4>2, <5>1 DEF AsksWhileSubmitting, AnswersAreTrue
        <5> QED
          BY <4>4, <4>5, <5>2 DEF Knowledge
      <4>7. CASE Goto(w, "uncertain")
        BY <4>7, <4>4, <4>5, <2>2, <2>3 DEF Knowledge
      <4>8. ~(UNCHANGED plaidVars)
        BY <3>3, <4>2
      <4> QED
        BY <2>9, <4>6, <4>7, <4>8 DEF Create
    <3> QED
      BY <2>9, <3>2, <3>3 DEF Create, PlaidRefund
  <2>10. CASE RecordAnswer(w)
    <3>1. refund' = refund /\ events' = events /\ Drop(w) /\ worker[w].pc = "record"
      BY <2>10 DEF RecordAnswer
    <3>2. refund[r] # "none" /\ (worker[w].seen = "failed" => refund[r] = "failed")
      BY <3>1, <1>0 DEF AnswersAreTrue
    <3>3. /\ row'[r].status = worker[w].seen
          /\ \A q \in Refunds \ {r} : row'[q] = row[q]
      BY <2>0, <2>10 DEF RecordAnswer, Typed
    <3>4. KnownIsThere' /\ FailedIsOver'
      BY <2>0, <3>1, <3>2, <3>3, <1>0 DEF KnownIsThere, FailedIsOver
    <3> QED
      BY <3>1, <3>4, <2>1, <2>3, LocalStep
  <2>11. CASE RecordError(w)
    <3>1. refund' = refund /\ events' = events /\ Drop(w)
      BY <2>11 DEF RecordError
    <3>2. KnownIsThere' /\ FailedIsOver'
      <4>1. CASE worker[w].pc = "uncertain"
        <5>1. Write(r, "submitting")
          BY <2>11, <4>1 DEF RecordError
        <5> QED
          BY <2>0, <3>1, <5>1, <1>01, WriteKeeps
      <4>2. CASE worker[w].pc = "refused"
        <5>1. Write(r, "failed") /\ refund[r] = "none"
          BY <2>11, <4>2, <1>0 DEF RecordError, AnswersAreTrue
        <5> QED
          BY <2>0, <3>1, <5>1, <1>0 DEF Write, KnownIsThere, FailedIsOver, Typed, RowType
      <4> QED
        BY <2>11, <4>1, <4>2 DEF RecordError
    <3> QED
      BY <3>1, <3>2, <2>1, <2>3, LocalStep
  <2>12. CASE Crash(w)
    BY <2>12, <2>1, <2>3, <2>4, LocalStep DEF Crash
  <2> QED
    BY <1>7, <2>5, <2>6, <2>7, <2>8, <2>9, <2>10, <2>11, <2>12 DEF WorkerStep
<1>8. CASE DebitReturned
  BY <1>8, <1>02 DEF DebitReturned
<1>9. CASE LedgerMoves
  BY <1>9, <1>02 DEF LedgerMoves
<1> QED
  BY <1>1, <1>2, <1>3, <1>4, <1>5, <1>6, <1>7, <1>8, <1>9 DEF Next

\* With the one dispatcher of the scheduler, rows, events and answers tell the
\* truth about the money, through crashes, lost replies and late events.
THEOREM InductiveInvariant == ASSUME OneDispatcher PROVE Spec => [](Typed /\ Knowledge)
<1>1. Init => Typed /\ Knowledge
  BY InitTyped, InitKnowledge
<1>2. Typed /\ Knowledge /\ [Next]_vars => (Typed /\ Knowledge)'
  BY NextTyped, NextKnows
<1> QED
  BY <1>1, <1>2, PTL DEF Spec

\* The amount of a refund shown as failed may be refunded again: it is not on its
\* way, whatever was retried, lost or replayed.
THEOREM FailedNotLive == ASSUME OneDispatcher PROVE Spec => []FailedIsNotLive
<1>1. Typed /\ Knowledge => FailedIsNotLive
  BY DEF Knowledge, FailedIsOver, FailedIsNotLive, Live
<1> QED
  BY <1>1, InductiveInvariant, PTL

\* Plaid makes a refund only for a row that is committed as submitting.
THEOREM MovesWhileSubmitting == ASSUME OneDispatcher PROVE Spec => MovesOnlyWhileSubmitting
<1> DEFINE Submitted == \A r \in Refunds : refund[r] = "none" /\ refund'[r] # "none"
                                              => row[r].status = "submitting"
<1>1. Typed /\ Knowledge /\ [Next]_vars => Submitted
  <2> SUFFICES ASSUME Typed, Knowledge, [Next]_vars,
                      NEW r \in Refunds, refund[r] = "none", refund'[r] # "none"
               PROVE  row[r].status = "submitting"
    OBVIOUS
  <2> USE DEF rowVars, plaidVars
  <2>1. ASSUME NEW q \in Refunds, RefundProgress(q) PROVE FALSE
    BY <2>1 DEF RefundProgress, Typed
  <2>2. ASSUME NEW w \in Workers, Create(w) PROVE row[r].status = "submitting"
    <3>1. worker[w].pc = "create" /\ PlaidRefund(worker[w].refund)
      BY <2>2 DEF Create
    <3>2. r = worker[w].refund
      BY <3>1 DEF PlaidRefund, Typed
    <3> QED
      BY <3>1, <3>2 DEF Knowledge, AsksWhileSubmitting
  <2>3. \A q \in Refunds : Request(q) \/ RowAges(q) \/ SyncEvent(q) => refund' = refund
    BY DEF Request, RowAges, SyncEvent
  <2>4. \A w \in Workers, q \in Refunds : Claim(w, q) => refund' = refund
    BY DEF Claim
  <2>5. \A w \in Workers :
            \/ Recheck(w) \/ Verify(w) \/ RecordCheck(w) \/ Handoff(w) \/ RecordAnswer(w)
            \/ RecordError(w) \/ Crash(w)
            => refund' = refund
    BY DEF Recheck, Verify, RecordCheck, Handoff, RecordAnswer, RecordError, Crash
  <2>6. DebitReturned \/ LedgerMoves \/ UNCHANGED vars => refund' = refund
    BY DEF DebitReturned, LedgerMoves, vars
  <2> QED
    BY <2>1, <2>2, <2>3, <2>4, <2>5, <2>6 DEF Next, WorkerStep
<1>2. Spec => [][Submitted]_vars
  BY <1>1, InductiveInvariant, PTL DEF Spec
<1> QED
  BY <1>2 DEF MovesOnlyWhileSubmitting

-----------------------------------------------------------------------------
(* Sums of amounts.  Total folds over a set, that is, it computes with a   *)
(* recursive function CHOOSE takes.  Counting cents satisfies the same     *)
(* recursion, so there is such a function; and two of them cannot differ,  *)
(* for there would be a smallest set they differ on.                       *)

\* The cents of the refunds of S, each with the refund it belongs to.
CentsOf(r) == {r} \X (1 .. Amount[r])
Cents(S)   == {c \in S \X Nat : c[2] \in 1 .. Amount[c[1]]}
Count(S)   == Cardinality(Cents(S))

\* The refund the sum takes next.
Pick(S) == CHOOSE r \in S : TRUE

LEMMA CentsAdd ==
    ASSUME NEW S \in SUBSET Refunds, NEW r \in Refunds
    PROVE  /\ Cents(S \cup {r}) = Cents(S) \cup CentsOf(r)
           /\ r \notin S => Cents(S) \cap CentsOf(r) = {}
<1>1. Amount[r] \in Nat
  BY AmountAssumption
<1>2. CentsOf(r) = {c \in {r} \X Nat : c[2] \in 1 .. Amount[c[1]]}
  BY <1>1 DEF CentsOf
<1> QED
  BY <1>2 DEF Cents

LEMMA CentsOfRefund ==
    ASSUME NEW r \in Refunds
    PROVE  IsFiniteSet(CentsOf(r)) /\ Cardinality(CentsOf(r)) = Amount[r]
<1>1. Amount[r] \in Nat /\ Amount[r] > 0
  BY AmountAssumption
<1>2. IsFiniteSet(1 .. Amount[r]) /\ Cardinality(1 .. Amount[r]) = Amount[r]
  <2> DEFINE n == Amount[r]
  <2> HIDE DEF n
  <2>1. n \in Int /\ 1 \in Int /\ ~(1 > n) /\ n - 1 + 1 = n
    BY <1>1 DEF n
  <2>2. IsFiniteSet(1 .. n) /\ Cardinality(1 .. n) = IF 1 > n THEN 0 ELSE n - 1 + 1
    BY <2>1, FS_Interval
  <2> QED
    BY <2>1, <2>2 DEF n
<1>3. IsFiniteSet({r}) /\ Cardinality({r}) = 1
  BY FS_Singleton
<1>4. /\ IsFiniteSet({r} \X (1 .. Amount[r]))
      /\ Cardinality({r} \X (1 .. Amount[r]))
            = Cardinality({r}) * Cardinality(1 .. Amount[r])
  BY <1>2, <1>3, FS_Product
<1> QED
  BY <1>1, <1>2, <1>3, <1>4 DEF CentsOf

LEMMA CentsFinite ==
    ASSUME NEW S \in SUBSET Refunds
    PROVE  IsFiniteSet(Cents(S)) /\ Count(S) \in Nat
<1> DEFINE parts == {CentsOf(r) : r \in S}
           part  == [r \in S |-> CentsOf(r)]
<1>1. IsFiniteSet(S)
  BY RefundsAssumption, FS_Subset
<1>2. part \in Surjection(S, parts)
  BY DEF Surjection
<1>3. IsFiniteSet(parts)
  BY <1>1, <1>2, FS_Surjection
<1>4. \A T \in parts : IsFiniteSet(T)
  BY CentsOfRefund
<1>5. IsFiniteSet(UNION parts)
  BY <1>3, <1>4, FS_UNION
<1>6. Cents(S) = UNION parts
  <2>1. \A r \in S : Amount[r] \in Nat
    BY AmountAssumption
  <2> QED
    BY <2>1 DEF Cents, CentsOf
<1> QED
  BY <1>5, <1>6, FS_CardinalityType DEF Count

LEMMA CountAdd ==
    ASSUME NEW S \in SUBSET Refunds, NEW r \in Refunds \ S
    PROVE  Count(S \cup {r}) = Count(S) + Amount[r]
<1>1. Cents(S \cup {r}) = Cents(S) \cup CentsOf(r) /\ Cents(S) \cap CentsOf(r) = {}
  BY CentsAdd
<1>2. IsFiniteSet(Cents(S)) /\ Count(S) \in Nat
  BY CentsFinite
<1>3. IsFiniteSet(CentsOf(r)) /\ Cardinality(CentsOf(r)) = Amount[r]
  BY CentsOfRefund
<1>4. Cardinality(Cents(S) \cup CentsOf(r))
        = Cardinality(Cents(S)) + Cardinality(CentsOf(r))
              - Cardinality(Cents(S) \cap CentsOf(r))
  BY <1>2, <1>3, FS_Union
<1>5. Cardinality({}) = 0
  BY FS_EmptySet
<1>6. Amount[r] \in Nat
  BY AmountAssumption
<1>7. Count(S \cup {r}) = Cardinality(Cents(S)) + Amount[r] - 0
  BY <1>1, <1>3, <1>4, <1>5 DEF Count
<1> QED
  BY <1>2, <1>6, <1>7 DEF Count

\* The recursive function FoldSet computes Total with, on the subsets of D.
Summing(f, D) ==
    f = [s \in SUBSET D |-> IF s = {} THEN 0 ELSE Amount[Pick(s)] + f[s \ {Pick(s)}]]

LEMMA PickIsIn == ASSUME NEW S, S # {} PROVE Pick(S) \in S
  BY DEF Pick

LEMMA CountSums ==
    ASSUME NEW D \in SUBSET Refunds
    PROVE  Summing([s \in SUBSET D |-> Count(s)], D)
<1> DEFINE f == [s \in SUBSET D |-> Count(s)]
<1>1. ASSUME NEW s \in SUBSET D
      PROVE  Count(s) = IF s = {} THEN 0 ELSE Amount[Pick(s)] + f[s \ {Pick(s)}]
  <2>1. CASE s = {}
    <3>1. Cents(s) = {}
      BY <2>1 DEF Cents
    <3> QED
      BY <2>1, <3>1, FS_EmptySet DEF Count
  <2>2. CASE s # {}
    <3>1. Pick(s) \in s
      BY <2>2, PickIsIn
    <3> DEFINE r == Pick(s)
               t == s \ {r}
    <3>2. t \in SUBSET Refunds /\ r \in Refunds \ t /\ s = t \cup {r} /\ t \in SUBSET D
      BY <3>1
    <3>3. Count(t) \in Nat /\ Amount[r] \in Nat
      BY <3>2, CentsFinite, AmountAssumption
    <3>4. Count(t \cup {r}) = Count(t) + Amount[r]
      BY <3>2, CountAdd
    <3>5. f[t] = Count(t)
      BY <3>2
    <3> HIDE DEF r, t, f
    <3>6. Count(s) = Amount[r] + f[t]
      BY <3>2, <3>3, <3>4, <3>5
    <3> QED
      BY <2>2, <3>6 DEF r, t
  <2> QED
    BY <2>1, <2>2
<1> HIDE DEF f
<1>2. f = [s \in SUBSET D |-> IF s = {} THEN 0 ELSE Amount[Pick(s)] + f[s \ {Pick(s)}]]
  BY <1>1, Zenon DEF f
<1> QED
  BY <1>2 DEF f, Summing

\* Any function that satisfies the recursion is the count.
LEMMA SummingIsCount ==
    ASSUME NEW D \in SUBSET Refunds, NEW f, Summing(f, D)
    PROVE  f[D] = Count(D)
<1> DEFINE wrong == {s \in SUBSET D : f[s] # Count(s)}
           R == StrictSubsetOrdering(D)
<1>1. SUFFICES ASSUME wrong # {} PROVE FALSE
  OBVIOUS
<1>2. IsWellFoundedOn(R, SUBSET D)
  BY FS_StrictSubsetOrderingWellFounded, FS_FiniteSubsetsOfFinite, RefundsAssumption,
     FS_Subset
<1>3. wrong \subseteq SUBSET D
  OBVIOUS
<1> HIDE DEF wrong, R
<1>4. PICK s \in wrong : \A t \in wrong : ~(<<t, s>> \in R)
  BY <1>1, <1>2, <1>3, WFMin
<1>5. s \in SUBSET D /\ f[s] # Count(s)
  BY <1>4 DEF wrong
<1>6. ASSUME NEW g, Summing(g, D)
      PROVE  g[s] = IF s = {} THEN 0 ELSE Amount[Pick(s)] + g[s \ {Pick(s)}]
  BY <1>5, <1>6, Zenon DEF Summing
<1> DEFINE count == [x \in SUBSET D |-> Count(x)]
           t == s \ {Pick(s)}
<1>7. Summing(count, D)
  BY CountSums
<1>8. t \in SUBSET D /\ count[s] = Count(s) /\ count[t] = Count(t)
  BY <1>5
<1>9. s # {} => f[t] = Count(t)
  <2> SUFFICES ASSUME s # {} PROVE t \notin wrong
    BY <1>8 DEF wrong
  <2>1. Pick(s) \in s
    BY PickIsIn
  <2>2. <<t, s>> \in R
    BY <1>5, <2>1 DEF R, StrictSubsetOrdering
  <2> QED
    BY <1>4, <2>2
<1> HIDE DEF count
<1>10. count[s] = IF s = {} THEN 0 ELSE Amount[Pick(s)] + count[t]
  BY <1>6, <1>7
<1>11. f[s] = IF s = {} THEN 0 ELSE Amount[Pick(s)] + f[t]
  BY <1>6
<1> HIDE DEF t
<1> QED
  BY <1>5, <1>8, <1>9, <1>10, <1>11

LEMMA TotalIsCount == ASSUME NEW S \in SUBSET Refunds PROVE Total(S) = Count(S)
<1> DEFINE f == CHOOSE g : Summing(g, S)
<1>1. Summing(f, S)
  BY CountSums
<1>2. Total(S) = f[S]
  BY DEF Total, FoldSet, MapThenFoldSet, Summing, Pick
<1> QED
  BY <1>1, <1>2, SummingIsCount

LEMMA TotalAdd ==
    ASSUME NEW S \in SUBSET Refunds, NEW r \in Refunds \ S
    PROVE  Total(S \cup {r}) = Total(S) + Amount[r]
<1>1. S \cup {r} \in SUBSET Refunds
  OBVIOUS
<1> QED
  BY <1>1, TotalIsCount, CountAdd

\* A smaller set of refunds has no larger a sum.
LEMMA TotalMonotone ==
    ASSUME NEW S \in SUBSET Refunds, NEW T \in SUBSET S
    PROVE  Total(T) \in Nat /\ Total(S) \in Nat /\ Total(T) <= Total(S)
<1>1. T \in SUBSET Refunds /\ Cents(T) \in SUBSET Cents(S)
  BY DEF Cents
<1>2. IsFiniteSet(Cents(S)) /\ Count(S) \in Nat /\ Count(T) \in Nat
  BY <1>1, CentsFinite
<1>3. Count(T) <= Count(S)
  BY <1>1, <1>2, FS_Subset DEF Count
<1> QED
  BY <1>1, <1>2, <1>3, TotalIsCount

-----------------------------------------------------------------------------
(* What the rows say of the money, for the sum of the refunds.             *)

\* Only a stored row is worked on, and only for one Plaid makes a refund.
StoredFirst ==
    /\ \A r \in Refunds : refund[r] # "none" => row[r].status # "none"
    /\ \A w \in Workers : worker[w].pc # "idle" => row[worker[w].refund].status # "none"

\* A refund event of cancellation is about a refund that was cancelled.
CancelsAreTrue ==
    \A r \in Refunds : \A i \in 1 .. Len(events[r]) :
        events[r][i] = "cancelled" => refund[r] = "cancelled"

CancelledIsOver ==
    \A r \in Refunds : row[r].status = "cancelled" => refund[r] = "cancelled"

CancelAnswersAreTrue ==
    \A w \in Workers : worker[w].pc = "record" /\ worker[w].seen = "cancelled"
                            => refund[worker[w].refund] = "cancelled"

\* After Plaid refused, or was not heard, the row still says submitting.
UnsureWhileSubmitting ==
    \A w \in Workers :
        worker[w].pc \in {"uncertain", "refused"} /\ refund[worker[w].refund] = "none"
            => row[worker[w].refund].status = "submitting"

\* The refunds whose amount is gone, or may still go: paid or on their way, or
\* not made yet for a row that still asks for it.
Spent == {r \in Refunded : Live(r) \/ refund[r] = "none"}

SpentFits == Total(Spent) <= Collected

Accounts ==
    /\ StoredFirst /\ CancelsAreTrue /\ CancelledIsOver /\ CancelAnswersAreTrue
    /\ UnsureWhileSubmitting /\ SpentFits

-----------------------------------------------------------------------------
(* What a step does to one refund, one row and one dispatcher.             *)

RefundMoves(r) ==
    \/ refund'[r] = refund[r] /\ events'[r] = events[r]
    \/ refund'[r] = refund[r] /\ events[r] # <<>> /\ events'[r] = Tail(events[r])
    \/ /\ refund[r] = "none" /\ refund'[r] = "pending" /\ row' = row
       /\ events'[r] = Append(events[r], "pending")
       /\ \E w \in Workers : worker[w].pc = "create" /\ worker[w].refund = r
    \/ /\ refund[r] # "none" /\ refund'[r] \in ProviderNext[refund[r]] /\ row' = row
       /\ events'[r] = Append(events[r], refund'[r])

Unasked == {"none", "failed", "cancelled"}

RowMoves(r) ==
    \/ row'[r].status = row[r].status
    \/ /\ refund' = refund
       /\ \/ /\ row[r].status = "none" /\ Write(r, "pending")
             /\ Amount[r] <= Collected - Total(Refunded)
          \/ /\ row[r].status \notin Unasked
             /\ row'[r].status \in {"checking_balance", "submitting", "action_required"}
             /\ \A w \in Workers : worker[w].pc \notin {"uncertain", "refused"}
          \/ /\ row'[r].status = "submitting"
             /\ \E w \in Workers : /\ worker[w].pc = "uncertain" /\ worker[w].refund = r
                                   /\ worker'[w].pc = "idle"
          \/ /\ row'[r].status = "failed"
             /\ \E w \in Workers : /\ worker[w].pc = "refused" /\ worker[w].refund = r
                                   /\ worker'[w].pc = "idle"
          \/ \E w \in Workers : /\ worker[w].pc = "record" /\ worker[w].refund = r
                                /\ row'[r].status = worker[w].seen
          \/ row[r].known /\ events[r] # <<>> /\ row'[r].status = Head(events[r])

DispatcherMoves(w) ==
    \/ worker'[w] = worker[w]
    \/ worker'[w].pc = "idle"
    \/ \E r \in Refunds : /\ worker'[w].pc = "claimed" /\ worker'[w].refund = r
                          /\ row[r].status # "none"
    \/ /\ worker[w].pc # "idle" /\ worker'[w].refund = worker[w].refund
       /\ \/ worker'[w].pc \in {"verify", "create", "verified", "short", "unsure"}
          \/ worker'[w].pc = "record" /\ worker'[w].seen = refund'[worker[w].refund]
          \/ /\ worker[w].pc = "create" /\ worker'[w].pc \in {"uncertain", "refused"}
             /\ row' = row

LEMMA EveryRefundMoves ==
    ASSUME Typed, Next, NEW r \in Refunds PROVE RefundMoves(r)
<1> USE DEF rowVars, plaidVars
<1>1. CASE UNCHANGED <<refund, events>>
  BY <1>1 DEF RefundMoves
<1>2. ASSUME NEW q \in Refunds, SyncEvent(q) PROVE RefundMoves(r)
  BY <1>2 DEF SyncEvent, RefundMoves, Typed
<1>3. ASSUME NEW q \in Refunds, RefundProgress(q) PROVE RefundMoves(r)
  <2>1. PICK s \in ProviderNext[refund[q]] :
            /\ refund' = [refund EXCEPT ![q] = s]
            /\ events' = [events EXCEPT ![q] = Append(@, s)]
    BY <1>3 DEF RefundProgress
  <2>2. row' = row /\ refund[q] # "none"
    BY <1>3 DEF RefundProgress
  <2> QED
    BY <2>1, <2>2 DEF RefundMoves, Typed
<1>4. ASSUME NEW w \in Workers, Create(w) PROVE RefundMoves(r)
  <2> DEFINE q == worker[w].refund
  <2>1. row' = row /\ worker[w].pc = "create"
    BY <1>4 DEF Create
  <2>2. CASE PlaidRefund(q) /\ refund[q] = "none"
    <3>1. /\ refund' = [refund EXCEPT ![q] = "pending"]
          /\ events' = [events EXCEPT ![q] = Append(@, "pending")]
      BY <2>2 DEF PlaidRefund
    <3> QED
      BY <2>1, <2>2, <3>1 DEF RefundMoves, Typed
  <2>3. CASE UNCHANGED plaidVars
    BY <1>1, <2>3
  <2> QED
    BY <1>4, <2>2, <2>3 DEF Create, PlaidRefund
<1>5. \A q \in Refunds : Request(q) \/ RowAges(q) => UNCHANGED <<refund, events>>
  BY DEF Request, RowAges
<1>6. \A w \in Workers : (\E q \in Refunds : Claim(w, q)) => UNCHANGED <<refund, events>>
  BY DEF Claim
<1>7. \A w \in Workers :
          \/ Recheck(w) \/ Verify(w) \/ RecordCheck(w) \/ Handoff(w) \/ RecordAnswer(w)
          \/ RecordError(w) \/ Crash(w)
          => UNCHANGED <<refund, events>>
  BY DEF Recheck, Verify, RecordCheck, Handoff, RecordAnswer, RecordError, Crash
<1>8. DebitReturned \/ LedgerMoves => UNCHANGED <<refund, events>>
  BY DEF DebitReturned, LedgerMoves
<1> QED
  BY <1>1, <1>2, <1>3, <1>4, <1>5, <1>6, <1>7, <1>8 DEF Next, WorkerStep

\* A write says what it writes, of its own row only.
LEMMA WriteSays ==
    ASSUME Typed, NEW r \in Refunds, NEW q \in Refunds, NEW s, Write(q, s)
    PROVE  row'[r].status = IF q = r THEN s ELSE row[r].status
  BY DEF Write, Typed, RowType

LEMMA EveryRowMoves ==
    ASSUME OneDispatcher, Typed, Next, NEW r \in Refunds PROVE RowMoves(r)
<1> USE DEF rowVars, plaidVars
<1>1. CASE row' = row
  BY <1>1 DEF RowMoves
<1>2. ASSUME NEW q \in Refunds, Request(q) PROVE RowMoves(r)
  <2>1. CASE /\ \A p \in Refunds : SameOperation(q, p) => row[p].status = "none"
             /\ Amount[q] <= Collected - Total(Refunded)
             /\ Write(q, "pending")
    <3>1. row[q].status = "none"
      BY <2>1 DEF SameOperation
    <3>2. refund' = refund
      BY <1>2 DEF Request
    <3> QED
      BY <1>2, <2>1, <3>1, <3>2, WriteSays DEF RowMoves
  <2> QED
    BY <1>1, <1>2, <2>1 DEF Request
<1>3. ASSUME NEW q \in Refunds, RowAges(q) PROVE RowMoves(r)
  BY <1>3 DEF RowAges, RowMoves, Typed, RowType
<1>4. ASSUME NEW q \in Refunds, SyncEvent(q) PROVE RowMoves(r)
  <2>1. CASE row[q].known /\ Write(q, Head(events[q]))
    BY <1>4, <2>1, WriteSays DEF SyncEvent, RowMoves
  <2> QED
    BY <1>1, <1>4, <2>1 DEF SyncEvent
<1>5. ASSUME NEW w \in Workers, NEW q \in Refunds, Claim(w, q) PROVE RowMoves(r)
  <2>1. row[q].status \notin Unasked /\ refund' = refund
    BY <1>5 DEF Claim, Selectable, Unasked
  <2>2. \A v \in Workers : worker[v].pc \notin {"uncertain", "refused"}
    BY <1>5 DEF Claim, OneDispatcher
  <2>3. row' = row \/ Write(q, "checking_balance") \/ Write(q, "action_required")
    BY <1>5 DEF Claim
  <2> QED
    BY <1>1, <2>1, <2>2, <2>3, WriteSays DEF RowMoves
<1>6. ASSUME NEW w \in Workers, Recheck(w) \/ RecordCheck(w) \/ Handoff(w) PROVE RowMoves(r)
  <2> DEFINE q == worker[w].refund
  <2>1. q \in Refunds /\ refund' = refund
    BY <1>6 DEF Recheck, RecordCheck, Handoff, Typed, Holding
  <2>2. \A v \in Workers : worker[v].pc \notin {"uncertain", "refused"}
    BY <1>6 DEF Recheck, RecordCheck, Handoff, OneDispatcher
  <2>3. \/ row' = row
        \/ /\ row[q].status \in {"checking_balance", "submitting"}
           /\ \/ Write(q, "checking_balance") \/ Write(q, "action_required")
              \/ Write(q, "submitting")
    BY <1>6 DEF Recheck, RecordCheck, Handoff
  <2> HIDE DEF q
  <2> QED
    BY <1>1, <2>1, <2>2, <2>3, WriteSays DEF RowMoves, Unasked
<1>7. ASSUME NEW w \in Workers, RecordAnswer(w) PROVE RowMoves(r)
  BY <1>7 DEF RecordAnswer, RowMoves, Typed
<1>8. ASSUME NEW w \in Workers, RecordError(w) PROVE RowMoves(r)
  <2> DEFINE q == worker[w].refund
  <2>1. q \in Refunds /\ refund' = refund /\ worker'[w].pc = "idle"
    BY <1>8 DEF RecordError, Typed, Holding, Drop, Idle
  <2>2. CASE worker[w].pc = "uncertain"
    <3>1. Write(q, "submitting")
      BY <1>8, <2>2 DEF RecordError
    <3> QED
      BY <2>1, <2>2, <3>1, WriteSays DEF RowMoves
  <2>3. CASE worker[w].pc = "refused"
    <3>1. Write(q, "failed")
      BY <1>8, <2>3 DEF RecordError
    <3> QED
      BY <2>1, <2>3, <3>1, WriteSays DEF RowMoves
  <2> QED
    BY <1>8, <2>2, <2>3 DEF RecordError
<1>9. /\ \A q \in Refunds : RefundProgress(q) => row' = row
      /\ \A w \in Workers : Verify(w) \/ Create(w) \/ Crash(w) => row' = row
      /\ DebitReturned \/ LedgerMoves => row' = row
  BY DEF RefundProgress, Verify, Create, Crash, DebitReturned, LedgerMoves
<1> QED
  BY <1>1, <1>2, <1>3, <1>4, <1>5, <1>6, <1>7, <1>8, <1>9 DEF Next, WorkerStep

LEMMA EveryDispatcherMoves ==
    ASSUME OneDispatcher, Typed, Next, NEW w \in Workers PROVE DispatcherMoves(w)
<1> USE DEF rowVars, plaidVars
<1>1. CASE worker' = worker
  BY <1>1 DEF DispatcherMoves
<1>2. CASE Drop(w)
  BY <1>2 DEF Drop, Idle, Typed, DispatcherMoves
<1>3. ASSUME NEW pc, Goto(w, pc), worker[w].pc # "idle",
             \/ pc \in {"verify", "create", "verified", "short", "unsure"}
             \/ worker[w].pc = "create" /\ pc \in {"uncertain", "refused"} /\ row' = row
      PROVE  DispatcherMoves(w)
  <2>1. worker'[w].pc = pc /\ worker'[w].refund = worker[w].refund
    BY <1>3 DEF Goto, Typed, WorkerType
  <2> QED
    BY <1>3, <2>1 DEF DispatcherMoves
<1>4. ASSUME NEW r \in Refunds, Claim(w, r) PROVE DispatcherMoves(w)
  <2>1. row[r].status # "none"
    BY <1>4 DEF Claim, Selectable
  <2>2. CASE worker' = [worker EXCEPT ![w] =
                  [Idle EXCEPT !.pc = "claimed", !.refund = r,
                               !.guarded = row[r].status # "submitting"]]
    <3>1. worker'[w].pc = "claimed" /\ worker'[w].refund = r
      BY <2>2 DEF Idle, Typed
    <3> QED
      BY <2>1, <3>1 DEF DispatcherMoves
  <2> QED
    BY <1>1, <1>4, <2>2 DEF Claim
<1>5. Recheck(w) => DispatcherMoves(w)
  BY <1>2, <1>3 DEF Recheck
<1>6. Verify(w) => DispatcherMoves(w)
  BY <1>3 DEF Verify
<1>7. Handoff(w) => DispatcherMoves(w)
  BY <1>2, <1>3 DEF Handoff
<1>8. RecordCheck(w) \/ RecordAnswer(w) \/ RecordError(w) \/ Crash(w) => DispatcherMoves(w)
  BY <1>2 DEF RecordCheck, RecordAnswer, RecordError, Crash
<1>9. ASSUME Create(w) PROVE DispatcherMoves(w)
  <2>1. worker[w].pc = "create" /\ row' = row
    BY <1>9 DEF Create
  <2>2. CASE worker' = [worker EXCEPT ![w] =
                    [@ EXCEPT !.pc = "record", !.seen = refund'[worker[w].refund]]]
    <3>1. /\ worker'[w].pc = "record" /\ worker'[w].refund = worker[w].refund
          /\ worker'[w].seen = refund'[worker[w].refund]
      BY <2>2 DEF Typed, WorkerType
    <3> QED
      BY <2>1, <3>1 DEF DispatcherMoves
  <2>3. CASE Goto(w, "refused") \/ Goto(w, "uncertain")
    BY <2>1, <2>3, <1>3
  <2> QED
    BY <1>9, <2>2, <2>3 DEF Create
<1>10. /\ \A r \in Refunds : Request(r) \/ RowAges(r) \/ SyncEvent(r) \/ RefundProgress(r)
                                => worker' = worker
       /\ DebitReturned \/ LedgerMoves => worker' = worker
  BY DEF Request, RowAges, SyncEvent, RefundProgress, DebitReturned, LedgerMoves
<1>11. \A v \in Workers : v = w
  BY DEF OneDispatcher
<1> QED
  BY <1>1, <1>4, <1>5, <1>6, <1>7, <1>8, <1>9, <1>10, <1>11 DEF Next, WorkerStep

-----------------------------------------------------------------------------
(* Plaid never pays back more than was collected.                          *)

LEMMA InitAccounts == Init => Accounts
<1> SUFFICES ASSUME Init PROVE Accounts
  OBVIOUS
<1>1. Spent = {} /\ Total({}) = 0
  <2>1. Cents({}) = {}
    BY DEF Cents
  <2>2. Total({}) = Count({})
    BY TotalIsCount
  <2> QED
    BY <2>1, <2>2, FS_EmptySet DEF Count, Init, Spent, Refunded
<1>2. SpentFits
  BY <1>1, AmountAssumption DEF SpentFits
<1> QED
  BY <1>2 DEF Init, Idle, Accounts, StoredFirst, CancelsAreTrue, CancelledIsOver,
              CancelAnswersAreTrue, UnsureWhileSubmitting

\* What Plaid has paid or is paying stays among the refunds that count.
LEMMA SpentCounts == Typed /\ Knowledge /\ Accounts => {r \in Refunds : Live(r)} \subseteq Spent
  BY DEF Spent, Refunded, Live, Knowledge, FailedIsOver, Accounts, StoredFirst, CancelledIsOver

\* Only a request that create_refund_intent admits adds to what is spent.
LEMMA SpentGrows ==
    ASSUME Typed, Knowledge, Accounts, NEW r \in Refunds, RefundMoves(r), RowMoves(r),
           r \in Spent', r \notin Spent
    PROVE  /\ row[r].status = "none" /\ Write(r, "pending")
           /\ Amount[r] <= Collected - Total(Refunded)
<1>1. /\ row'[r].status \notin Unasked
      /\ refund'[r] \in {"pending", "posted", "settled", "none"}
  BY DEF Spent, Refunded, Live, Unasked
<1>2. \/ row[r].status \in Unasked
      \/ refund[r] \notin {"pending", "posted", "settled", "none"}
  BY DEF Spent, Refunded, Live, Unasked
<1>3. refund[r] \in {"pending", "posted", "settled", "none"}
  <2>1. ASSUME refund[r] \in {"failed", "cancelled", "returned"} PROVE refund'[r] = refund[r]
    <3>1. ProviderNext[refund[r]] = {} /\ refund[r] # "none"
      BY <2>1 DEF ProviderNext
    <3> QED
      BY <3>1 DEF RefundMoves
  <2>2. refund[r] \in ProviderStatuses \cup {"none"}
    BY DEF Typed
  <2> QED
    BY <1>1, <2>1, <2>2 DEF ProviderStatuses
<1>4. row[r].status = "none" \/ (row[r].status = "failed" /\ refund[r] = "none")
  BY <1>2, <1>3 DEF Unasked, Knowledge, FailedIsOver, Accounts, CancelledIsOver
<1>5. row'[r].status # row[r].status
  BY <1>1, <1>4 DEF Unasked
<1>6. refund[r] = "none"
  BY <1>4 DEF Accounts, StoredFirst
<1>7. ~row[r].known
  BY <1>6 DEF Knowledge, KnownIsThere
<1>8. ASSUME NEW w \in Workers, worker[w].pc \in {"uncertain", "record"}, worker[w].refund = r
      PROVE  FALSE
  <2>1. row[r].status = "submitting" \/ refund[r] # "none"
    BY <1>8 DEF Knowledge, AnswersAreTrue, Accounts, UnsureWhileSubmitting
  <2> QED
    BY <1>4, <1>6, <2>1
<1> QED
  BY <1>1, <1>4, <1>5, <1>7, <1>8 DEF RowMoves, Unasked

LEMMA NextAccounts ==
    ASSUME OneDispatcher, Typed, Typed', Knowledge, Accounts, Next
    PROVE  Accounts'
<1>1. \A r \in Refunds : RefundMoves(r) /\ RowMoves(r)
  BY EveryRefundMoves, EveryRowMoves
<1>2. \A w \in Workers : DispatcherMoves(w)
  BY EveryDispatcherMoves
<1>3. \A w \in Workers : /\ worker[w].seen \in ProviderStatuses
                         /\ worker[w].pc # "idle" => worker[w].refund \in Refunds
  BY DEF Typed, WorkerType, Holding
<1>4. ASSUME NEW r \in Refunds, row[r].status # "none" PROVE row'[r].status # "none"
  <2>1. events[r] # <<>> => Head(events[r]) \in ProviderStatuses
    BY DEF Typed
  <2> QED
    BY <1>1, <1>3, <1>4, <2>1 DEF RowMoves, ProviderStatuses
<1>5. ASSUME NEW r \in Refunds, refund[r] = "cancelled" PROVE refund'[r] = "cancelled"
  BY <1>1, <1>5 DEF RefundMoves, ProviderNext
<1>6. ASSUME NEW r \in Refunds, refund'[r] = "none" PROVE refund[r] = "none"
  <2>1. \A s \in ProviderStatuses : "none" \notin ProviderNext[s]
    BY DEF ProviderNext, ProviderStatuses
  <2>2. refund[r] \in ProviderStatuses \cup {"none"}
    BY DEF Typed
  <2> QED
    BY <1>1, <1>6, <2>1, <2>2 DEF RefundMoves
<1>7. StoredFirst'
  <2>1. ASSUME NEW r \in Refunds, refund'[r] # "none" PROVE row'[r].status # "none"
    <3>1. row[r].status # "none"
      BY <1>1, <2>1 DEF RefundMoves, Accounts, StoredFirst
    <3> QED
      BY <1>4, <3>1
  <2>2. ASSUME NEW w \in Workers, worker'[w].pc # "idle"
        PROVE  row'[worker'[w].refund].status # "none"
    <3>1. worker'[w].refund \in Refunds
      BY <2>2 DEF Typed, Holding
    <3>2. row[worker'[w].refund].status # "none"
      BY <1>2, <2>2 DEF DispatcherMoves, Accounts, StoredFirst
    <3> QED
      BY <1>4, <3>1, <3>2
  <2> QED
    BY <2>1, <2>2 DEF StoredFirst
<1>8. CancelsAreTrue'
  <2> SUFFICES ASSUME NEW r \in Refunds, NEW i \in 1 .. Len(events'[r]),
                      events'[r][i] = "cancelled"
               PROVE  refund'[r] = "cancelled"
    BY DEF CancelsAreTrue
  <2> DEFINE old == events[r]
  <2>1. old \in Seq(ProviderStatuses)
    BY DEF Typed
  <2>2. \A j \in 1 .. Len(old) : old[j] = "cancelled" => refund'[r] = "cancelled"
    BY <1>5 DEF Accounts, CancelsAreTrue
  <2>3. CASE events'[r] = old
    BY <2>2, <2>3
  <2>4. CASE old # <<>> /\ events'[r] = Tail(old)
    <3> HIDE DEF old
    <3>1. /\ Len(old) \in Nat /\ Len(Tail(old)) = Len(old) - 1
          /\ \A j \in 1 .. Len(Tail(old)) : Tail(old)[j] = old[j + 1]
      BY <2>1, <2>4
    <3>2. i + 1 \in 1 .. Len(old) /\ old[i + 1] = "cancelled"
      BY <2>4, <3>1
    <3> QED
      BY <2>2, <3>2
  <2>5. ASSUME NEW s, events'[r] = Append(old, s), refund'[r] = s
        PROVE  refund'[r] = "cancelled"
    <3>1. CASE i = Len(old) + 1
      BY <2>1, <2>5, <3>1
    <3>2. CASE i # Len(old) + 1
      <4>1. i \in 1 .. Len(old) /\ old[i] = "cancelled"
        BY <2>1, <2>5, <3>2
      <4> QED
        BY <2>2, <4>1
    <3> QED
      BY <3>1, <3>2
  <2> QED
    BY <1>1, <2>3, <2>4, <2>5 DEF RefundMoves
<1>9. CancelledIsOver'
  <2> SUFFICES ASSUME NEW r \in Refunds, row'[r].status = "cancelled"
               PROVE  refund'[r] = "cancelled"
    BY DEF CancelledIsOver
  <2>1. CASE row[r].status = "cancelled"
    BY <1>5, <2>1 DEF Accounts, CancelledIsOver
  <2>2. ASSUME Write(r, "pending") PROVE FALSE
    BY <2>2, WriteSays
  <2>3. ASSUME NEW w \in Workers, worker[w].pc = "record", worker[w].refund = r,
               worker[w].seen = "cancelled"
        PROVE  refund'[r] = "cancelled"
    BY <1>5, <2>3 DEF Accounts, CancelAnswersAreTrue
  <2>4. ASSUME events[r] # <<>>, Head(events[r]) = "cancelled"
        PROVE  refund'[r] = "cancelled"
    <3>1. 1 \in 1 .. Len(events[r]) /\ Head(events[r]) = events[r][1]
      BY <2>4 DEF Typed
    <3> QED
      BY <1>5, <2>4, <3>1 DEF Accounts, CancelsAreTrue
  <2> QED
    BY <1>1, <2>1, <2>2, <2>3, <2>4 DEF RowMoves
<1>10. CancelAnswersAreTrue'
  BY <1>2, <1>3, <1>5 DEF DispatcherMoves, Accounts, CancelAnswersAreTrue
<1>11. UnsureWhileSubmitting'
  <2> SUFFICES ASSUME NEW w \in Workers, worker'[w].pc \in {"uncertain", "refused"},
                      refund'[worker'[w].refund] = "none"
               PROVE  row'[worker'[w].refund].status = "submitting"
    BY DEF UnsureWhileSubmitting
  <2> DEFINE r == worker[w].refund
  <2>1. worker'[w].refund = r /\ worker[w].pc \in {"create", "uncertain", "refused"}
    BY <1>2 DEF DispatcherMoves
  <2>2. r \in Refunds /\ refund[r] = "none"
    BY <1>3, <1>6, <2>1
  <2>3. row[r].status = "submitting"
    BY <2>1, <2>2 DEF Knowledge, AsksWhileSubmitting, Accounts, UnsureWhileSubmitting
  <2>4. CASE row' = row
    BY <2>1, <2>3, <2>4
  <2>5. CASE worker[w].pc \in {"uncertain", "refused"}
    <3>1. \A v \in Workers : v = w
      BY DEF OneDispatcher
    <3>2. ~row[r].known
      BY <2>2 DEF Knowledge, KnownIsThere
    <3>3. row'[r].status = "submitting"
      BY <1>1, <2>2, <2>3, <2>5, <3>1, <3>2 DEF RowMoves
    <3> QED
      BY <2>1, <3>3
  <2> QED
    BY <1>2, <2>1, <2>4, <2>5 DEF DispatcherMoves
<1>12. SpentFits'
  <2>0. Spent \in SUBSET Refunds /\ Spent' \in SUBSET Refunds
    BY DEF Spent, Refunded
  <2>1. CASE Spent' \subseteq Spent
    <3>1. Total(Spent') \in Nat /\ Total(Spent) \in Nat /\ Total(Spent') <= Total(Spent)
      BY <2>0, <2>1, TotalMonotone
    <3>2. Total(Spent)' = Total(Spent')
      BY DEF Total, FoldSet, MapThenFoldSet
    <3> QED
      BY <3>1, <3>2, AmountAssumption DEF Accounts, SpentFits
  <2>2. ASSUME NEW r \in Spent', r \notin Spent PROVE SpentFits'
    <3>1. /\ row[r].status = "none" /\ Write(r, "pending")
          /\ Amount[r] <= Collected - Total(Refunded)
      BY <1>1, <2>0, <2>2, SpentGrows
    <3>2. ASSUME NEW q \in Spent', q \notin Spent PROVE q = r
      <4>1. row[q].status = "none" /\ row'[q].status # "none"
        BY <1>1, <2>0, <3>2, SpentGrows DEF Spent, Refunded
      <4> QED
        BY <2>0, <3>1, <4>1, WriteSays
    <3>3. Spent \subseteq Refunded /\ Refunded \in SUBSET Refunds /\ r \in Refunds \ Refunded
      BY <2>0, <2>2, <3>1 DEF Spent, Refunded
    <3>4. Spent' \in SUBSET (Refunded \cup {r}) /\ Refunded \cup {r} \in SUBSET Refunds
      BY <3>2, <3>3
    <3>5. Total(Refunded \cup {r}) = Total(Refunded) + Amount[r]
      BY <3>3, TotalAdd
    <3>6. /\ Total(Spent') \in Nat /\ Total(Refunded \cup {r}) \in Nat
          /\ Total(Spent') <= Total(Refunded \cup {r})
      BY <3>4, TotalMonotone
    <3>7. Total(Refunded) \in Nat /\ Amount[r] \in Nat /\ Collected \in Nat
      BY <3>3, TotalMonotone, AmountAssumption
    <3>8. Total(Spent') <= Collected
      BY <3>1, <3>5, <3>6, <3>7
    <3> QED
      BY <3>8 DEF SpentFits, Total, FoldSet, MapThenFoldSet
  <2> QED
    BY <2>1, <2>2
<1> QED
  BY <1>7, <1>8, <1>9, <1>10, <1>11, <1>12 DEF Accounts

LEMMA AlwaysAccounts == ASSUME OneDispatcher PROVE Spec => [](Typed /\ Knowledge /\ Accounts)
<1>1. Init => Typed /\ Knowledge /\ Accounts
  BY InitTyped, InitKnowledge, InitAccounts
<1>2. Typed /\ Knowledge /\ Accounts /\ UNCHANGED vars => Accounts'
  BY DEF vars, rowVars, plaidVars, Accounts, StoredFirst, CancelsAreTrue, CancelledIsOver,
         CancelAnswersAreTrue, UnsureWhileSubmitting, SpentFits, Spent, Refunded, Live
<1>3. Typed /\ Knowledge /\ Accounts /\ [Next]_vars => (Typed /\ Knowledge /\ Accounts)'
  BY <1>2, NextTyped, NextKnows, NextAccounts
<1> QED
  BY <1>1, <1>3, PTL DEF Spec

\* However refunds are requested, retried, lost and recovered, those Plaid has paid
\* or is paying are together no more than the debit they refund.
THEOREM RefundsFitTheDebit == ASSUME OneDispatcher PROVE Spec => []NeverOverRefunded
<1>1. Typed /\ Knowledge /\ Accounts => NeverOverRefunded
  <2> SUFFICES ASSUME Typed, Knowledge, Accounts PROVE NeverOverRefunded
    OBVIOUS
  <2> DEFINE live == {r \in Refunds : Live(r)}
  <2>1. live \in SUBSET Spent /\ Spent \in SUBSET Refunds
    BY SpentCounts DEF Spent, Refunded
  <2> HIDE DEF live
  <2>2. Total(live) \in Nat /\ Total(Spent) \in Nat /\ Total(live) <= Total(Spent)
    BY <2>1, TotalMonotone
  <2>3. Total(live) <= Collected
    BY <2>2, AmountAssumption DEF Accounts, SpentFits
  <2> QED
    BY <2>3 DEF NeverOverRefunded, live
<1> QED
  BY <1>1, AlwaysAccounts, PTL

-----------------------------------------------------------------------------
(* Every step takes at most one refund on in RefundsWithinDebit.           *)

\* A step changes the status of one row or refund at most.
LEMMA OneAtATime ==
    ASSUME Typed, Next
    PROVE  \E q \in Refunds \cup {NoRefund} : \A r \in Refunds \ {q} :
              row'[r].status = row[r].status /\ refund'[r] = refund[r]
<1> USE DEF rowVars, plaidVars
<1> DEFINE Only(q) == \A r \in Refunds \ {q} :
                          row'[r].status = row[r].status /\ refund'[r] = refund[r]
           Some == \E q \in Refunds \cup {NoRefund} : Only(q)
<1>1. ASSUME UNCHANGED <<row, refund>> PROVE Some
  <2>1. Only(NoRefund)
    BY <1>1
  <2> QED
    BY <2>1
<1>2. ASSUME NEW q \in Refunds, NEW s, row' = row \/ Write(q, s), refund' = refund PROVE Some
  <2>1. Only(q)
    BY <1>2, WriteSays
  <2> QED
    BY <2>1
<1>3. ASSUME NEW q \in Refunds, Request(q) \/ SyncEvent(q) PROVE Some
  BY <1>2, <1>3 DEF Request, SyncEvent
<1>4. ASSUME NEW q \in Refunds, RowAges(q) PROVE Some
  <2>1. Only(q)
    BY <1>4 DEF RowAges, Typed
  <2> QED
    BY <2>1
<1>5. ASSUME NEW q \in Refunds, RefundProgress(q) PROVE Some
  <2>1. Only(q)
    BY <1>5 DEF RefundProgress, Typed
  <2> QED
    BY <2>1
<1>6. ASSUME NEW w \in Workers, NEW q \in Refunds, Claim(w, q) PROVE Some
  <2>1. refund' = refund /\ (row' = row \/ Write(q, "checking_balance")
                                         \/ Write(q, "action_required"))
    BY <1>6 DEF Claim
  <2> HIDE DEF Some
  <2> QED
    BY <2>1, <1>2
<1>7. ASSUME NEW w \in Workers, WorkerStep(w) PROVE Some
  <2> DEFINE q == worker[w].refund
  <2>1. q \in Refunds
    BY <1>7 DEF WorkerStep, Recheck, Verify, RecordCheck, Handoff, Create, RecordAnswer,
                RecordError, Typed, Holding
  <2>2. CASE Create(w)
    <3>1. row' = row /\ (UNCHANGED plaidVars \/ refund' = [refund EXCEPT ![q] = "pending"])
      BY <2>2 DEF Create, PlaidRefund
    <3>2. Only(q)
      BY <2>1, <3>1 DEF Typed
    <3> QED
      BY <2>1, <3>2
  <2>3. CASE RecordAnswer(w)
    <3>1. Only(q)
      BY <2>1, <2>3 DEF RecordAnswer, Typed
    <3> QED
      BY <2>1, <3>1
  <2>4. CASE Recheck(w) \/ Verify(w) \/ RecordCheck(w) \/ Handoff(w) \/ RecordError(w)
    <3>1. refund' = refund /\ \E s : row' = row \/ Write(q, s)
      BY <2>4 DEF Recheck, Verify, RecordCheck, Handoff, RecordError
    <3> HIDE DEF q, Some
    <3> QED
      BY <2>1, <3>1, <1>2
  <2> QED
    BY <1>7, <2>2, <2>3, <2>4 DEF WorkerStep
<1>8. \A w \in Workers : Crash(w) => UNCHANGED <<row, refund>>
  BY DEF Crash
<1>9. DebitReturned \/ LedgerMoves => UNCHANGED <<row, refund>>
  BY DEF DebitReturned, LedgerMoves
<1> HIDE DEF Some
<1>10. Some
  BY <1>1, <1>3, <1>4, <1>5, <1>6, <1>7, <1>8, <1>9 DEF Next
<1> QED
  BY <1>10 DEF Some

\* How a refund goes on.
StageMoves(r) ==
    \/ Stage(r)' = Stage(r)
    \/ /\ Stage(r) = "new" /\ Stage(r)' = "promised"
       /\ Amount[r] <= Collected - Total(Refunded)
    \/ Stage(r) = "promised" /\ Stage(r)' = "handed"
    \/ Stage(r) = "handed" /\ Stage(r)' \in {"promised", "paid", "over"}
    \/ Stage(r) = "paid" /\ Stage(r)' = "over"

LEMMA EveryStageMoves ==
    ASSUME OneDispatcher, Typed, Typed', Knowledge, Accounts, Accounts', Next, NEW r \in Refunds
    PROVE  StageMoves(r)
<1>1. RefundMoves(r) /\ RowMoves(r)
  BY EveryRefundMoves, EveryRowMoves
<1>2. /\ refund[r] \in ProviderStatuses \cup {"none"}
      /\ refund'[r] \in ProviderStatuses \cup {"none"}
      /\ row[r].status \in RowStatuses /\ row'[r].status \in RowStatuses
  BY DEF Typed, RowType
<1>3. CASE refund[r] # "none"
  <2>1. refund'[r] = refund[r] \/ refund'[r] \in ProviderNext[refund[r]]
    BY <1>1, <1>3 DEF RefundMoves
  <2>2. /\ refund'[r] # "none"
        /\ refund[r] \notin {"pending", "posted", "settled"}
              => refund'[r] \notin {"pending", "posted", "settled"}
    BY <1>2, <1>3, <2>1 DEF ProviderNext, ProviderStatuses
  <2> QED
    BY <1>3, <2>2 DEF StageMoves, Stage, Live
<1>4. CASE refund[r] = "none" /\ refund'[r] # "none"
  <2>1. refund'[r] = "pending" /\ row' = row
    BY <1>1, <1>4 DEF RefundMoves
  <2>2. PICK w \in Workers : worker[w].pc = "create" /\ worker[w].refund = r
    BY <1>1, <1>4 DEF RefundMoves
  <2>3. row[r].status = "submitting"
    BY <1>4, <2>2 DEF Knowledge, AsksWhileSubmitting
  <2> QED
    BY <1>4, <2>1, <2>3 DEF StageMoves, Stage, Live
<1>5. CASE refund[r] = "none" /\ refund'[r] = "none"
  <2>1. ~row[r].known
    BY <1>5 DEF Knowledge, KnownIsThere
  <2>2. ASSUME NEW w \in Workers, worker[w].pc \in {"uncertain", "refused"},
               worker[w].refund = r
        PROVE  row[r].status = "submitting"
    BY <1>5, <2>2 DEF Accounts, UnsureWhileSubmitting
  <2>3. ASSUME NEW w \in Workers, worker[w].pc = "record", worker[w].refund = r PROVE FALSE
    BY <1>5, <2>3 DEF Knowledge, AnswersAreTrue
  <2>4. \/ row'[r].status = row[r].status
        \/ /\ row[r].status = "none" /\ row'[r].status = "pending"
           /\ Amount[r] <= Collected - Total(Refunded)
        \/ /\ row[r].status \notin Unasked
           /\ row'[r].status \in {"checking_balance", "submitting", "action_required"}
        \/ row[r].status = "submitting" /\ row'[r].status = "failed"
    <3>1. Write(r, "pending") => row'[r].status = "pending"
      BY WriteSays
    <3> QED
      BY <1>1, <2>1, <2>2, <2>3, <3>1 DEF RowMoves
  <2> QED
    BY <1>5, <2>4 DEF StageMoves, Stage, Live, Unasked
<1> QED
  BY <1>3, <1>4, <1>5

\* A refund the budget counts is one create_refund_intent counts.
LEMMA CountedIsRefunded ==
    ASSUME Typed, Accounts, Knowledge PROVE Budget!Counted \subseteq Refunded
<1> SUFFICES ASSUME NEW r \in Refunds, Stage(r) \in {"promised", "handed", "paid"}
             PROVE  r \in Refunded
  BY DEF Budget!Counted, Stages
<1>1. CASE Live(r)
  BY <1>1, SpentCounts DEF Spent
<1>2. CASE ~Live(r)
  BY <1>2 DEF Stage, Refunded
<1> QED
  BY <1>1, <1>2

LEMMA InitBudget == Init => Budget!Init
  BY DEF Init, Budget!Init, Stages, Stage, Live

LEMMA NextBudget ==
    ASSUME OneDispatcher, Typed, Typed', Knowledge, Accounts, Accounts', Next
    PROVE  Budget!Next \/ UNCHANGED Stages
<1>1. PICK q \in Refunds \cup {NoRefund} : \A r \in Refunds \ {q} :
          row'[r].status = row[r].status /\ refund'[r] = refund[r]
  BY OneAtATime
<1>2. \A r \in Refunds \ {q} : Stage(r)' = Stage(r)
  BY <1>1 DEF Stage, Live
<1>3. /\ \A r \in Refunds : Stages[r] = Stage(r)
      /\ Stages' = [r \in Refunds |-> Stage(r)']
  BY DEF Stages
<1>4. CASE q \notin Refunds
  BY <1>2, <1>4 DEF Stages
<1>5. CASE q \in Refunds
  <2>1. Stages' = [Stages EXCEPT ![q] = Stage(q)']
    BY <1>2, <1>3 DEF Stages
  <2>2. StageMoves(q)
    BY <1>5, EveryStageMoves
  <2>3. CASE Stage(q)' = Stage(q)
    BY <1>2, <2>3 DEF Stages
  <2>4. CASE /\ Stage(q) = "new" /\ Stage(q)' = "promised"
             /\ Amount[q] <= Collected - Total(Refunded)
    <3> DEFINE counted == Budget!Counted
    <3>1. counted \subseteq Refunded /\ Refunded \in SUBSET Refunds
      BY CountedIsRefunded DEF Refunded
    <3>2. q \notin Refunded
      BY <1>5, <2>4 DEF Stage, Refunded
    <3> HIDE DEF counted
    <3>3. Total(Refunded \cup {q}) = Total(Refunded) + Amount[q]
      BY <1>5, <3>1, <3>2, TotalAdd
    <3>4. counted \cup {q} \in SUBSET (Refunded \cup {q}) /\ Refunded \cup {q} \in SUBSET Refunds
      BY <1>5, <3>1
    <3>5. /\ Total(counted \cup {q}) \in Nat /\ Total(Refunded \cup {q}) \in Nat
          /\ Total(counted \cup {q}) <= Total(Refunded \cup {q})
      BY <3>4, TotalMonotone
    <3>6. Total(Refunded) \in Nat /\ Amount[q] \in Nat /\ Collected \in Nat
      BY <1>5, <3>1, TotalMonotone, AmountAssumption
    <3>7. Total(counted \cup {q}) <= Collected
      BY <2>4, <3>3, <3>5, <3>6
    <3>8. Budget!Total(counted \cup {q}) = Total(counted \cup {q})
      BY DEF Budget!Total, Budget!FoldSet, Budget!MapThenFoldSet, Total, FoldSet,
             MapThenFoldSet
    <3>9. Budget!Promise(q)
      BY <1>3, <1>5, <2>1, <2>4, <3>7, <3>8 DEF Budget!Promise, counted
    <3> QED
      BY <1>5, <3>9 DEF Budget!Next
  <2>5. CASE Stage(q) = "promised" /\ Stage(q)' = "handed"
    BY <1>3, <1>5, <2>1, <2>5 DEF Budget!HandOver, Budget!Next
  <2>6. CASE Stage(q) = "handed" /\ Stage(q)' \in {"promised", "paid", "over"}
    BY <1>3, <1>5, <2>1, <2>6 DEF Budget!Withdraw, Budget!Pay, Budget!End, Budget!Next
  <2>7. CASE Stage(q) = "paid" /\ Stage(q)' = "over"
    BY <1>3, <1>5, <2>1, <2>7 DEF Budget!End, Budget!Next
  <2> QED
    BY <2>2, <2>3, <2>4, <2>5, <2>6, <2>7 DEF StageMoves
<1> QED
  BY <1>4, <1>5

\* Every behaviour of the desk, the job and Plaid is one of RefundsWithinDebit: a
\* refund goes once through its stages, is promised only while it fits, and none
\* that is over is paid or promised again, however late answers and events are.
THEOREM BudgetRefines == ASSUME OneDispatcher PROVE Spec => ImplementsBudget
<1>1. Init => Budget!Init
  BY InitBudget
<1> DEFINE I == Typed /\ Knowledge /\ Accounts
<1>2. I /\ I' /\ [Next]_vars => [Budget!Next]_Stages
  <2>1. I /\ I' /\ Next => Budget!Next \/ UNCHANGED Stages
    BY NextBudget
  <2>2. UNCHANGED vars => UNCHANGED Stages
    BY DEF vars, rowVars, plaidVars, Stages, Stage, Live
  <2> QED
    BY <2>1, <2>2
<1> HIDE DEF I
<1>3. Spec => []I
  BY AlwaysAccounts DEF I
<1>4. Spec => Budget!Spec
  BY <1>1, <1>2, <1>3, PTL DEF Spec, Budget!Spec
<1> QED
  BY <1>4 DEF ImplementsBudget
=============================================================================
