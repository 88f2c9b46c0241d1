----------------------- MODULE BookingDeliveryProofs -----------------------
(***************************************************************************)
(* For any workers, requests, attempts and crashes: the types, at most one *)
(* message per arming, no two ordinary changes under way at once, nothing  *)
(* sent twice or after being superseded, and that the ledger implements    *)
(* OneSendPerArming.                                                       *)
(***************************************************************************)
EXTENDS BookingDelivery, TLAPS

-----------------------------------------------------------------------------
(* The inductive invariant.                                                *)

Busy(w) == worker[w].pc # "idle"

\* The worker knows of an effect that it, or the next one, has still to settle.
Owns(w) == Busy(w) /\ \E k \in Effects : worker[w].mem[k] \in Live

\* A worker at work holds an operation, an idle one does not.
WorkersHold == \A w \in Workers : Busy(w) <=> worker[w].op \in Ids

\* A request that has not committed has written nothing.
RowsAreCommitted ==
    \A i \in Ids : i \notin done => op[i] = Absent /\ \A k \in Effects : eff[i][k] = "none"

\* The row of a manual retry has one effect, that of its key.
RetriesAreSingle ==
    \A i \in Ids : /\ op[i].manual <=> op[i].key[1] = "retry"
                   /\ op[i].manual => \A k \in Effects :
                                         k # op[i].key[3] => eff[i][k] = "none"

\* What a worker with work left believes of its effects is so, and nobody can
\* claim its operation, although a worker that knows less may have closed it.
OwnersKnow ==
    \A w \in Workers : Owns(w) =>
        /\ worker[w].mem = eff[worker[w].op]
        /\ op[worker[w].op].status \in {"processing", "completed", "action_required"}

\* The operation of a worker is fresh and, but for a retry, in processing.
HeldIsProcessing ==
    \A w \in Workers : Busy(w) =>
        /\ ~op[worker[w].op].aged
        /\ ~op[worker[w].op].manual => op[worker[w].op].status = "processing"

\* Two workers share an operation only when it is a retry, armed again while
\* the first of them was about to finish.
HoldersAreAlone ==
    \A v, w \in Workers :
        v # w /\ Busy(v) /\ Busy(w) /\ worker[v].op = worker[w].op =>
            op[worker[v].op].manual /\ ~(Owns(v) /\ Owns(w))

\* A call is that of an effect in processing.
CallsAreProcessing ==
    \A w \in Workers : Calling(w) =>
        \E k \in Effects : worker[w].at = Priority[k] /\ worker[w].mem[k] = "processing"

\* An operation in processing has no older one beside it that a request wrote
\* in its turn.
OldestFirst ==
    \A i, j \in Ids :
        i < j /\ op[j].status = "processing" /\ op[i].status \in Live =>
            op[i].late \/ op[i].manual

\* Nothing was sent for an effect that waits, is being called, or goes back to wait.
WaitingIsUnsent ==
    \A i \in Ids, k \in Effects : eff[i][k] \in {"none", "pending"} => accepted[i][k] = 0

CalledIsUnsent ==
    \A w \in Workers, k \in Effects :
        worker[w].pc = "call" /\ worker[w].at = Priority[k] => accepted[worker[w].op][k] = 0

DeferredIsUnsent ==
    \A w \in Workers, k \in Effects :
        worker[w].pc = "record" /\ worker[w].at = Priority[k] =>
            /\ worker[w].result.status \in TERMINAL_EFFECT_STATUSES \cup {"pending"}
            /\ worker[w].result.status = "pending" => accepted[worker[w].op][k] = 0

\* The event at Google is no message.
GoogleIsSilent == \A i \in Ids : accepted[i]["google"] = 0

IInv ==
    /\ TypeOK
    /\ AtMostOncePerArming
    /\ WorkersHold
    /\ RowsAreCommitted
    /\ RetriesAreSingle
    /\ OwnersKnow
    /\ HeldIsProcessing
    /\ HoldersAreAlone
    /\ CallsAreProcessing
    /\ OldestFirst
    /\ WaitingIsUnsent
    /\ CalledIsUnsent
    /\ DeferredIsUnsent
    /\ GoogleIsSilent

-----------------------------------------------------------------------------
(* Types.                                                                  *)

OpType ==
    [type: {"none", "create", "update", "cancel"}, key: Keys, manual: BOOLEAN,
     late: BOOLEAN, status: {"none"} \cup Live \cup Terminal,
     attempts: 0 .. MaxAttempts, aged: BOOLEAN]

WorkerType ==
    [pc: {"idle", "scan", "call", "record"}, op: Ids \cup {NoWork},
     seen: Appointments, claimed: Appointments, mem: [Effects -> EffectStatuses],
     at: {0, 10, 30, 50, 60}, result: Results]

\* TypeOK with its record sets named.
Typed ==
    /\ appt \in Appointments
    /\ notice \in Notices
    /\ op \in [Ids -> OpType]
    /\ eff \in [Ids -> [Effects -> EffectStatuses]]
    /\ done \subseteq Ids
    /\ worker \in [Workers -> WorkerType]
    /\ accepted \in [Ids -> [Effects -> Nat]]
    /\ faults \in 0 .. MaxFaults

\* The two say the same.
LEMMA SameTypes == (TypeOK <=> Typed) /\ (TypeOK' <=> Typed')
  BY DEF TypeOK, Typed, OpType, WorkerType

\* The effects, and the order the worker takes them in.
LEMMA EffectFacts ==
    /\ "google" \in Effects /\ "client_email" \in Effects
    /\ "client_sms" \in Effects /\ "pin_delivery" \in Effects
    /\ \A k \in Effects : Priority[k] \in {10, 30, 50, 60}
    /\ \A j, k \in Effects : Priority[j] = Priority[k] => j = k
    /\ Priority["google"] = 10
  BY DEF Effects, Priority

\* A key is made of an appointment, and keeps its kind and its effect.
LEMMA KeyType ==
    ASSUME NEW a \in Appointments, NEW kind \in {"create", "cancel", "lifecycle", "retry"},
           NEW k \in Effects \cup {"none"}
    PROVE  Key(kind, a, k) \in Keys /\ Key(kind, a, k)[1] = kind /\ Key(kind, a, k)[3] = k
<1>1. [a EXCEPT !.id = FALSE] \in Appointments
  BY DEF Appointments
<1> QED
  BY <1>1 DEF Key, Keys

\* The blank values are well-typed.
LEMMA BlankTypes ==
    /\ FirstAppt \in Appointments
    /\ NoResult \in Results
    /\ Idle \in WorkerType
    /\ Idle.pc = "idle" /\ Idle.op = NoWork
    /\ Absent \in OpType
    /\ Absent.status = "none" /\ Absent.manual = FALSE /\ Absent.aged = FALSE
    /\ Absent.key[1] = "create"
<1>1. FirstAppt \in Appointments
  BY BookingAssumption DEF FirstAppt, Appointments
<1>2. NoResult \in Results
  BY DEF NoResult, Results, EffectStatuses, Confirmations
<1>3. Idle \in WorkerType /\ Idle.pc = "idle" /\ Idle.op = NoWork
  BY <1>1, <1>2 DEF Idle, WorkerType, EffectStatuses
<1>4. Absent \in OpType /\ Absent.status = "none" /\ Absent.manual = FALSE
      /\ Absent.aged = FALSE /\ Absent.key[1] = "create"
  BY <1>1, KeyType, BookingAssumption DEF Absent, OpType
<1> QED
  BY <1>1, <1>2, <1>3, <1>4

LEMMA RowType ==
    ASSUME NEW i, NEW type \in {"create", "update", "cancel"}, NEW key \in Keys,
           NEW manual \in BOOLEAN
    PROVE  /\ Row(i, type, key, manual) \in OpType
           /\ Row(i, type, key, manual).status = "pending"
           /\ Row(i, type, key, manual).manual = manual
           /\ Row(i, type, key, manual).aged = FALSE
           /\ Row(i, type, key, manual).key = key
           /\ (\E j \in Ids : j > i /\ op[j].status # "none")
                 => Row(i, type, key, manual).late
  BY BlankTypes DEF Row, Absent, OpType, Live

LEMMA ArmedType ==
    ASSUME NEW keys
    PROVE  /\ Armed(keys) \in [Effects -> EffectStatuses]
           /\ \A k \in Effects : Armed(keys)[k] = IF k \in keys THEN "pending" ELSE "none"
  BY DEF Armed, EffectStatuses, Live

\* Two versions of a row that differ at most in their status and attempts.
SameRow(a, b) == a.key = b.key /\ a.manual = b.manual /\ a.late = b.late

\* Row i is new, in its turn or late.
NewRow(i, key, manual) ==
    /\ op'[i].status = "pending" /\ op'[i].key = key
    /\ op'[i].manual = manual /\ ~op'[i].aged
    /\ (\E j \in Ids : j > i /\ op[j].status # "none") => op'[i].late

\* What enqueue does to the ledger.
Enqueued(i, key) ==
    \/ UNCHANGED <<op, eff>>
    \/ /\ NewRow(i, key, FALSE)
       /\ \A k \in Effects : eff'[i][k] \in {"none", "pending"}
       /\ \A j \in Ids \ {i} :
             /\ eff'[j] = eff[j]
             /\ SameRow(op[j], op'[j]) /\ op'[j].aged = op[j].aged
             /\ \/ op'[j] = op[j]
                \/ op[j].status = "pending" /\ op'[j].status = "superseded"

LEMMA SupersededType ==
    ASSUME Typed, NEW types
    PROVE  /\ Superseded(types) \in [Ids -> OpType]
           /\ \A j \in Ids :
                /\ SameRow(op[j], Superseded(types)[j])
                /\ Superseded(types)[j].aged = op[j].aged
                /\ \/ Superseded(types)[j] = op[j]
                   \/ op[j].status = "pending" /\ Superseded(types)[j].status = "superseded"
  BY DEF Superseded, Typed, OpType, Terminal, SameRow

LEMMA EnqueueEffects ==
    ASSUME Typed, NEW i \in Ids, NEW type \in {"update", "cancel"}, NEW key \in Keys,
           Enqueue(i, type, key)
    PROVE  /\ op' \in [Ids -> OpType]
           /\ eff' \in [Ids -> [Effects -> EffectStatuses]]
           /\ Enqueued(i, key)
<1>1. CASE UNCHANGED <<op, eff>>
  BY <1>1 DEF Typed, Enqueued
<1>2. CASE /\ op' = [Superseded(IF type = "cancel" THEN {"create", "update", "cancel"}
                                                  ELSE {"update"})
                       EXCEPT ![i] = Row(i, type, key, FALSE)]
           /\ eff' = [eff EXCEPT ![i] = Armed(EffectsOf(type))]
  <2> DEFINE S == Superseded(IF type = "cancel" THEN {"create", "update", "cancel"}
                                                ELSE {"update"})
             R == Row(i, type, key, FALSE)
             A == Armed(EffectsOf(type))
  <2>1. /\ R \in OpType /\ R.status = "pending" /\ R.manual = FALSE
        /\ R.aged = FALSE /\ R.key = key
        /\ (\E j \in Ids : j > i /\ op[j].status # "none") => R.late
    <3>1. type \in {"create", "update", "cancel"} /\ FALSE \in BOOLEAN
      OBVIOUS
    <3> QED
      BY <3>1, RowType, Zenon
  <2>2. A \in [Effects -> EffectStatuses] /\ \A k \in Effects : A[k] \in {"none", "pending"}
    BY ArmedType
  <2>3. /\ S \in [Ids -> OpType]
        /\ \A j \in Ids :
             /\ SameRow(op[j], S[j]) /\ S[j].aged = op[j].aged
             /\ \/ S[j] = op[j]
                \/ op[j].status = "pending" /\ S[j].status = "superseded"
    BY SupersededType
  <2>4. op' = [S EXCEPT ![i] = R] /\ eff' = [eff EXCEPT ![i] = A]
    BY <1>2
  <2> HIDE DEF S, R, A
  <2> QED
    BY <2>1, <2>2, <2>3, <2>4 DEF Typed, Enqueued, NewRow
<1> QED
  BY <1>1, <1>2 DEF Enqueue

\* What enqueue_manual_retry does: nothing, or one effect of one retry is armed.
Rearmed(i, j, k) ==
    /\ \/ /\ j = i
          /\ \E key \in Keys : key[1] = "retry" /\ key[3] = k /\ NewRow(i, key, TRUE)
       \/ /\ op[j].key[1] = "retry" /\ op[j].key[3] = k
          /\ eff[j][k] \notin Kept
          /\ SameRow(op[j], op'[j])
          /\ op'[j].status = "pending" /\ ~op'[j].aged
    /\ \A e \in Effects : eff'[j][e] = IF e = k THEN "pending" ELSE "none"
    /\ \A l \in Ids \ {j} : op'[l] = op[l] /\ eff'[l] = eff[l]
    /\ accepted' = [accepted EXCEPT ![j][k] = 0]

LEMMA RetryEffects ==
    ASSUME Typed, NEW i \in Ids, NEW k \in Effects, EnqueueRetry(i, k)
    PROVE  /\ op' \in [Ids -> OpType]
           /\ eff' \in [Ids -> [Effects -> EffectStatuses]]
           /\ accepted' \in [Ids -> [Effects -> Nat]]
           /\ UNCHANGED <<op, eff, accepted>> \/ \E j \in Ids : Rearmed(i, j, k)
<1> DEFINE key  == Key("retry", appt, k)
           same == {j \in Ids : op[j].status # "none" /\ op[j].key = key}
           type == IF appt.cancelled THEN "cancel" ELSE "update"
           R    == Row(i, type, key, TRUE)
<1>0. key \in Keys /\ key[1] = "retry" /\ key[3] = k
  BY KeyType DEF Typed
<1>1. CASE UNCHANGED <<op, eff, accepted>>
  BY <1>1 DEF Typed
<1>2. CASE ~UNCHANGED <<op, eff, accepted>>
  <2>1. PICK j \in IF same = {} THEN {i} ELSE same :
          /\ op' = [op EXCEPT ![j] =
                IF same = {} THEN R
                ELSE [@ EXCEPT !.status = "pending", !.attempts = 0, !.aged = FALSE]]
          /\ eff' = [eff EXCEPT ![j] = Armed({k})]
          /\ accepted' = [accepted EXCEPT ![j][k] = 0]
          /\ ~\E l \in same : eff[l][k] \in Kept
    BY <1>2 DEF EnqueueRetry
  <2>2. R \in OpType /\ (op'[i] = R => NewRow(i, key, TRUE))
    <3>1. type \in {"create", "update", "cancel"}
      OBVIOUS
    <3> HIDE DEF type, key
    <3>2. R \in OpType /\ R.status = "pending" /\ R.aged = FALSE /\ R.key = key
      <4>1. R \in OpType
        BY <1>0, <3>1, RowType
      <4>2. R.status = "pending" /\ R.aged = FALSE
        BY DEF Row, Absent
      <4>3. R.key = key
        BY DEF Row, Absent
      <4> QED
        BY <4>1, <4>2, <4>3
    <3>3. R.manual = TRUE
      BY <1>0, <3>1, RowType
    <3>4. (\E l \in Ids : l > i /\ op[l].status # "none") => R.late
      BY <1>0, <3>1, RowType
    <3> HIDE DEF R
    <3> QED
      BY <3>2, <3>3, <3>4 DEF NewRow
  <2>3. j \in Ids
    BY <2>1
  <2>4. [op[j] EXCEPT !.status = "pending", !.attempts = 0, !.aged = FALSE] \in OpType
    <3>1. op[j] \in OpType /\ 0 \in 0 .. MaxAttempts /\ "pending" \in Live
      BY <2>3, BookingAssumption DEF Typed, Live
    <3> QED
      BY <3>1 DEF OpType
  <2>5. /\ op' \in [Ids -> OpType]
        /\ eff' \in [Ids -> [Effects -> EffectStatuses]]
        /\ accepted' \in [Ids -> [Effects -> Nat]]
    <3>1. CASE same = {}
      BY <2>1, <2>2, <2>3, <3>1, ArmedType DEF Typed
    <3>2. CASE same # {}
      BY <2>1, <2>3, <2>4, <3>2, ArmedType DEF Typed
    <3> QED
      BY <3>1, <3>2
  <2>6. \A e \in Effects : eff'[j][e] = IF e = k THEN "pending" ELSE "none"
    BY <2>1, <2>3, ArmedType DEF Typed
  <2>7. \A l \in Ids \ {j} : op'[l] = op[l] /\ eff'[l] = eff[l]
    BY <2>1, <2>3 DEF Typed
  <2>8. CASE same = {}
    <3>1. j = i /\ op'[i] = R
      BY <2>1, <2>8 DEF Typed
    <3>2. NewRow(i, key, TRUE)
      BY <2>2, <3>1
    <3> HIDE DEF key, same, R
    <3>3. \E x \in Keys : x[1] = "retry" /\ x[3] = k /\ NewRow(i, x, TRUE)
      BY <1>0, <3>2
    <3>4. accepted' = [accepted EXCEPT ![j][k] = 0]
      BY <2>1
    <3>5. \/ /\ j = i
             /\ \E x \in Keys : x[1] = "retry" /\ x[3] = k /\ NewRow(i, x, TRUE)
          \/ /\ op[j].key[1] = "retry" /\ op[j].key[3] = k
             /\ eff[j][k] \notin Kept
             /\ SameRow(op[j], op'[j])
             /\ op'[j].status = "pending" /\ ~op'[j].aged
      BY <3>1, <3>3
    <3>6. Rearmed(i, j, k)
      BY <2>6, <2>7, <3>4, <3>5, Zenon DEF Rearmed
    <3> QED
      BY <2>3, <2>5, <3>6
  <2>9. CASE same # {}
    <3>1. j \in same /\ op'[j] = [op[j] EXCEPT !.status = "pending", !.attempts = 0, !.aged = FALSE]
      BY <2>1, <2>3, <2>9 DEF Typed
    <3>2. SameRow(op[j], op'[j]) /\ op'[j].status = "pending" /\ ~op'[j].aged
      BY <2>3, <3>1 DEF SameRow, Typed, OpType
    <3> QED
      BY <1>0, <2>1, <2>3, <2>5, <2>6, <2>7, <3>1, <3>2 DEF Rearmed
  <2> QED
    BY <2>8, <2>9
<1> QED
  BY <1>1, <1>2

\* What a call leaves behind: a result, and at most one message more.
Answered(w) ==
    \E i \in Ids, k \in Effects, r \in Results :
       /\ Calls(w, i, k)
       /\ r.status \in TERMINAL_EFFECT_STATUSES \cup {"pending"}
       /\ Answer(w, r)
       /\ \/ UNCHANGED accepted
          \/ /\ k # "google" /\ r.status # "pending"
             /\ accepted' = [accepted EXCEPT ![i][k] = @ + 1]
       /\ UNCHANGED <<rowVars, done, faults>>

\* A result is made of a status, the confirmations and what the event gained.
LEMMA ResultType ==
    ASSUME NEW status \in EffectStatuses, NEW email \in Confirmations \cup {"same"},
           NEW sms \in Confirmations \cup {"same"}, NEW id \in BOOLEAN, NEW join \in BOOLEAN
    PROVE  /\ [NoResult EXCEPT !.status = status] \in Results
           /\ [NoResult EXCEPT !.status = status].status = status
           /\ [NoResult EXCEPT !.status = status, !.email = email] \in Results
           /\ [NoResult EXCEPT !.status = status, !.email = email].status = status
           /\ [NoResult EXCEPT !.status = status, !.sms = sms] \in Results
           /\ [NoResult EXCEPT !.status = status, !.sms = sms].status = status
           /\ [NoResult EXCEPT !.status = status, !.email = email, !.sms = sms] \in Results
           /\ [NoResult EXCEPT !.status = status, !.email = email, !.sms = sms].status = status
           /\ [NoResult EXCEPT !.id = id, !.join = join, !.status = status] \in Results
           /\ [NoResult EXCEPT !.id = id, !.join = join, !.status = status].status = status
  BY DEF NoResult, Results, Confirmations

\* The outcomes are statuses an effect ends with.
LEMMA OutcomeFacts ==
    /\ \A s \in Outcomes : s \in TERMINAL_EFFECT_STATUSES /\ s # "pending"
    /\ TERMINAL_EFFECT_STATUSES \cup {"pending"} \subseteq EffectStatuses
    /\ \A s \in Outcomes : s \in EffectStatuses
    /\ "skipped" \in TERMINAL_EFFECT_STATUSES /\ "sent" \in TERMINAL_EFFECT_STATUSES
    /\ "failed" \in TERMINAL_EFFECT_STATUSES
    /\ "action_required" \in TERMINAL_EFFECT_STATUSES
    /\ "sent" \in Confirmations /\ "failed" \in Confirmations
    /\ "pending" \notin TERMINAL_EFFECT_STATUSES
    /\ "processing" \notin TERMINAL_EFFECT_STATUSES
    /\ "none" \notin TERMINAL_EFFECT_STATUSES
  BY DEF Outcomes, TERMINAL_EFFECT_STATUSES, EffectStatuses, Live, Confirmations

\* A delivery sends at most one message.
LEMMA DeliverEffects ==
    ASSUME NEW i, NEW k, NEW status, Deliver(i, k, status)
    PROVE  /\ \/ UNCHANGED accepted
              \/ accepted' = [accepted EXCEPT ![i][k] = @ + 1]
           /\ UNCHANGED <<rowVars, done, faults>>
  BY DEF Deliver

LEMMA AnswersAre ==
    ASSUME Typed, NEW w \in Workers,
           Skip(w) \/ Push(w) \/ PushRaises(w) \/ Wait(w) \/ Email(w) \/ Text(w) \/ Pin(w)
    PROVE  Answered(w)
<1>0. worker[w] \in WorkerType
  BY DEF Typed
<1>1. CASE Skip(w)
  <2>1. PICK i \in Ids, k \in Effects :
          /\ Calls(w, i, k)
          /\ Answer(w, [NoResult EXCEPT !.status = "skipped"])
          /\ UNCHANGED <<rowVars, done, accepted, faults>>
    BY <1>1 DEF Skip
  <2> DEFINE r == [NoResult EXCEPT !.status = "skipped"]
  <2>2. r \in Results /\ r.status = "skipped"
    BY ResultType, OutcomeFacts
  <2> HIDE DEF r
  <2> QED
    BY <2>1, <2>2, OutcomeFacts DEF Answered, r
<1>2. CASE Push(w)
  <2>1. PICK i \in Ids, replied \in BOOLEAN, minted \in BOOLEAN :
          /\ Calls(w, i, "google")
          /\ \E status \in {"sent", "action_required", "pending"} :
                Answer(w, [NoResult EXCEPT !.id = worker[w].seen.id \/ replied,
                                           !.join = worker[w].seen.join \/ minted,
                                           !.status = status])
          /\ UNCHANGED <<rowVars, done, accepted, faults>>
    BY <1>2 DEF Push
  <2>2. PICK status \in {"sent", "action_required", "pending"} :
          Answer(w, [NoResult EXCEPT !.id = worker[w].seen.id \/ replied,
                                     !.join = worker[w].seen.join \/ minted,
                                     !.status = status])
    BY <2>1
  <2> DEFINE id == worker[w].seen.id \/ replied
             join == worker[w].seen.join \/ minted
             r == [NoResult EXCEPT !.id = id, !.join = join, !.status = status]
  <2>3. id \in BOOLEAN /\ join \in BOOLEAN
    OBVIOUS
  <2> HIDE DEF id, join
  <2>4. r \in Results /\ r.status = status
    BY <2>3, ResultType, OutcomeFacts
  <2>5. Answer(w, r)
    BY <2>2 DEF id, join
  <2> HIDE DEF r
  <2> QED
    BY <2>1, <2>2, <2>4, <2>5, OutcomeFacts, EffectFacts DEF Answered
<1>3. CASE Wait(w)
  <2>1. PICK i \in Ids, k \in {"client_email", "client_sms"} :
          /\ Calls(w, i, k)
          /\ \E status \in {"action_required", "pending"},
                email \in {"failed", "same"}, sms \in {"failed", "same"} :
                Answer(w, [NoResult EXCEPT !.status = status, !.email = email, !.sms = sms])
          /\ UNCHANGED <<rowVars, done, accepted, faults>>
    BY <1>3 DEF Wait
  <2>2. PICK status \in {"action_required", "pending"},
             email \in {"failed", "same"}, sms \in {"failed", "same"} :
          Answer(w, [NoResult EXCEPT !.status = status, !.email = email, !.sms = sms])
    BY <2>1
  <2> DEFINE r == [NoResult EXCEPT !.status = status, !.email = email, !.sms = sms]
  <2>3. r \in Results /\ r.status = status
    <3>1. email \in Confirmations \cup {"same"} /\ sms \in Confirmations \cup {"same"}
      BY <2>2 DEF Confirmations
    <3>2. status \in EffectStatuses
      BY <2>2, OutcomeFacts
    <3> QED
      BY <3>1, <3>2 DEF NoResult, Results
  <2>4. Answer(w, r)
    BY <2>2
  <2> HIDE DEF r
  <2> QED
    BY <2>1, <2>2, <2>3, <2>4, OutcomeFacts, EffectFacts DEF Answered
<1>4. CASE Email(w)
  <2>1. PICK i \in Ids, status \in Outcomes :
          /\ Calls(w, i, "client_email")
          /\ Deliver(i, "client_email", status)
          /\ \E email \in {"same"} \cup Outcomes :
                email # "action_required"
                /\ Answer(w, [NoResult EXCEPT !.status = status, !.email = email])
    BY <1>4 DEF Email, Outcomes
  <2>2. PICK email \in {"same"} \cup Outcomes :
          email # "action_required"
          /\ Answer(w, [NoResult EXCEPT !.status = status, !.email = email])
    BY <2>1
  <2> DEFINE r == [NoResult EXCEPT !.status = status, !.email = email]
  <2>3. email \in Confirmations \cup {"same"}
    BY <2>2 DEF Outcomes, Confirmations
  <2>4. r \in Results /\ r.status = status
    BY <2>3, ResultType, OutcomeFacts
  <2>5. Answer(w, r)
    BY <2>2
  <2> HIDE DEF r
  <2> QED
    BY <2>1, <2>4, <2>5, DeliverEffects, OutcomeFacts, EffectFacts DEF Answered
<1>5. CASE Text(w)
  <2>1. PICK i \in Ids :
          /\ Calls(w, i, "client_sms")
          /\ \E status \in Outcomes, sms \in {"same", "sent", "failed"} :
                /\ \/ UNCHANGED <<rowVars, done, accepted, faults>>
                   \/ \E s \in Outcomes : Deliver(i, "client_sms", s)
                /\ \/ Answer(w, [NoResult EXCEPT !.status = status])
                   \/ Answer(w, [NoResult EXCEPT !.status = status, !.sms = sms])
    BY <1>5 DEF Text, Outcomes
  <2>2. PICK status \in Outcomes, sms \in {"same", "sent", "failed"} :
          /\ \/ UNCHANGED <<rowVars, done, accepted, faults>>
             \/ \E s \in Outcomes : Deliver(i, "client_sms", s)
          /\ \/ Answer(w, [NoResult EXCEPT !.status = status])
             \/ Answer(w, [NoResult EXCEPT !.status = status, !.sms = sms])
    BY <2>1
  <2>3. PICK r \in Results : r.status = status /\ Answer(w, r)
    <3>1. sms \in Confirmations \cup {"same"}
      BY DEF Confirmations
    <3> QED
      BY <2>2, <3>1, ResultType, OutcomeFacts
  <2>4. /\ \/ UNCHANGED accepted
           \/ accepted' = [accepted EXCEPT ![i]["client_sms"] = @ + 1]
        /\ UNCHANGED <<rowVars, done, faults>>
    BY <2>2, DeliverEffects
  <2> QED
    BY <2>1, <2>3, <2>4, OutcomeFacts, EffectFacts DEF Answered
<1>6. CASE Pin(w)
  <2>1. PICK i \in Ids :
          /\ Calls(w, i, "pin_delivery")
          /\ \/ /\ UNCHANGED <<rowVars, done, accepted, faults>>
                /\ \E status \in {"sent", "pending", "action_required"} :
                     Answer(w, [NoResult EXCEPT !.status = status])
             \/ \E status \in Outcomes :
                   /\ Deliver(i, "pin_delivery", status)
                   /\ Answer(w, [NoResult EXCEPT !.status = status])
    BY <1>6 DEF Pin
  <2>2. CASE /\ UNCHANGED <<rowVars, done, accepted, faults>>
             /\ \E status \in {"sent", "pending", "action_required"} :
                  Answer(w, [NoResult EXCEPT !.status = status])
    <3>1. PICK status \in {"sent", "pending", "action_required"} :
            Answer(w, [NoResult EXCEPT !.status = status])
      BY <2>2
    <3> DEFINE r == [NoResult EXCEPT !.status = status]
    <3>2. r \in Results /\ r.status = status
      BY ResultType, OutcomeFacts
    <3>3. Answer(w, r)
      BY <3>1
    <3> HIDE DEF r
    <3> QED
      BY <2>1, <2>2, <3>2, <3>3, OutcomeFacts, EffectFacts DEF Answered
  <2>3. CASE \E status \in Outcomes :
               /\ Deliver(i, "pin_delivery", status)
               /\ Answer(w, [NoResult EXCEPT !.status = status])
    <3>1. PICK status \in Outcomes :
            /\ Deliver(i, "pin_delivery", status)
            /\ Answer(w, [NoResult EXCEPT !.status = status])
      BY <2>3
    <3> DEFINE r == [NoResult EXCEPT !.status = status]
    <3>2. r \in Results /\ r.status = status
      BY ResultType, OutcomeFacts
    <3>3. Answer(w, r)
      BY <3>1
    <3> HIDE DEF r
    <3> QED
      BY <2>1, <3>1, <3>2, <3>3, DeliverEffects, OutcomeFacts, EffectFacts DEF Answered
  <2> QED
    BY <2>1, <2>2, <2>3
<1>7. CASE PushRaises(w)
  <2>1. PICK i \in Ids, status \in {"action_required", "pending"} :
          /\ Calls(w, i, "google")
          /\ Answer(w, [NoResult EXCEPT !.status = status])
          /\ UNCHANGED <<rowVars, done, accepted, faults>>
    BY <1>7 DEF PushRaises
  <2> DEFINE r == [NoResult EXCEPT !.status = status]
  <2>2. r \in Results /\ r.status = status
    BY ResultType, OutcomeFacts
  <2>3. Answer(w, r)
    BY <2>1
  <2> HIDE DEF r
  <2> QED
    BY <2>1, <2>2, <2>3, OutcomeFacts, EffectFacts DEF Answered
<1> QED
  BY <1>1, <1>2, <1>3, <1>4, <1>5, <1>6, <1>7

\* The initial states are well-typed.
LEMMA InitType == Init => TypeOK
<1> SUFFICES ASSUME Init PROVE Typed
  BY SameTypes
<1>1. [Absent EXCEPT !.type = "create", !.status = "pending"] \in OpType
  BY BlankTypes DEF OpType, Live
<1>2. op \in [Ids -> OpType]
  BY <1>1, BlankTypes DEF Init
<1>3. eff \in [Ids -> [Effects -> EffectStatuses]]
  BY ArmedType DEF Init
<1>4. /\ appt \in Appointments /\ notice \in Notices
      /\ done \subseteq Ids /\ faults \in 0 .. MaxFaults
  BY BlankTypes, BookingAssumption DEF Init, Notices, Confirmations, Ids
<1>5. worker \in [Workers -> WorkerType]
  BY BlankTypes DEF Init
<1>6. accepted \in [Ids -> [Effects -> Nat]]
  BY DEF Init
<1> QED
  BY <1>2, <1>3, <1>4, <1>5, <1>6 DEF Typed

\* Every step keeps the types.
LEMMA NextType == TypeOK /\ [Next]_vars => TypeOK'
<1> SUFFICES ASSUME TypeOK, [Next]_vars PROVE Typed'
  BY SameTypes
<1>0. Typed
  BY SameTypes
<1> USE DEF Typed
<1>1. ASSUME NEW i \in Ids, NEW s \in States, Patch(i, s)
      PROVE Typed'
  <2>1. appt' \in Appointments
    BY <1>0, <1>1 DEF Patch, Appointments
  <2>2. Key("lifecycle", appt', "none") \in Keys
    BY <2>1, KeyType
  <2>3. Enqueue(i, "update", Key("lifecycle", appt', "none"))
    BY <1>1 DEF Patch
  <2>4. op' \in [Ids -> OpType] /\ eff' \in [Ids -> [Effects -> EffectStatuses]]
    <3> HIDE DEF Typed
    <3> QED
      BY <1>0, <2>2, <2>3, EnqueueEffects
  <2>5. notice' \in Notices
    BY <1>0, <1>1 DEF Patch, Notices, Confirmations
  <2> QED
    BY <1>0, <1>1, <2>1, <2>4, <2>5 DEF Patch, Commit
<1>2. ASSUME NEW i \in Ids, Cancel(i)
      PROVE Typed'
  <2>1. appt' \in Appointments
    BY <1>0, <1>2 DEF Cancel, Appointments
  <2>2. op' \in [Ids -> OpType] /\ eff' \in [Ids -> [Effects -> EffectStatuses]]
    <3>1. CASE UNCHANGED <<op, eff>>
      BY <1>0, <3>1
    <3>2. CASE Enqueue(i, "cancel", Key("cancel", FirstAppt, "none"))
      <4> HIDE DEF Typed
      <4> QED
        BY <1>0, <3>2, BlankTypes, KeyType, EnqueueEffects
    <3> QED
      BY <1>2, <3>1, <3>2 DEF Cancel
  <2> QED
    BY <1>0, <1>2, <2>1, <2>2 DEF Cancel, Commit
<1>3. ASSUME NEW i \in Ids, NEW k \in Effects, Retry(i, k)
      PROVE Typed'
  <2>1. notice' \in Notices
    BY <1>0, <1>3 DEF Retry, Notices, Confirmations
  <2>2. /\ op' \in [Ids -> OpType] /\ eff' \in [Ids -> [Effects -> EffectStatuses]]
        /\ accepted' \in [Ids -> [Effects -> Nat]]
    <3> HIDE DEF Typed
    <3> QED
      BY <1>0, <1>3, RetryEffects DEF Retry
  <2> QED
    BY <1>0, <1>3, <2>1, <2>2 DEF Retry, Commit
<1>4. ASSUME NEW i \in Ids, ClaimAges(i)
      PROVE Typed'
  <2>1. [op[i] EXCEPT !.aged = TRUE] \in OpType
    BY <1>0 DEF OpType
  <2> QED
    BY <1>0, <1>4, <2>1 DEF ClaimAges
<1>5. ASSUME NEW w \in Workers, NEW i \in Ids, Defer(w, i)
      PROVE Typed'
  <2>1. [op[i] EXCEPT !.status = "pending", !.aged = FALSE] \in OpType
    BY <1>0 DEF OpType, Live
  <2>2. op' = [op EXCEPT ![i] = [op[i] EXCEPT !.status = "pending", !.aged = FALSE]]
    BY <1>5 DEF Defer
  <2> QED
    BY <1>0, <1>5, <2>1, <2>2 DEF Defer
<1>6. ASSUME NEW w \in Workers, NEW i \in Ids, Claim(w, i)
      PROVE Typed'
  <2> DEFINE n == IF op[i].status = "pending" /\ op[i].attempts < MaxAttempts
                  THEN op[i].attempts + 1 ELSE op[i].attempts
             read == IF op[i].type = "create" THEN appt ELSE FirstAppt
             new == [Idle EXCEPT !.pc = "scan", !.op = i, !.mem = eff[i],
                                 !.seen = read, !.claimed = read]
  <2>1. op' = [op EXCEPT ![i].status = "processing", ![i].aged = FALSE, ![i].attempts = n]
    BY <1>0, <1>6 DEF Claim
  <2>2. worker' = [worker EXCEPT ![w] = new]
    BY <1>6 DEF Claim
  <2>3. n \in 0 .. MaxAttempts
    BY <1>0, BookingAssumption DEF OpType
  <2>4. op' \in [Ids -> OpType]
    <3>1. [op[i] EXCEPT !.status = "processing", !.aged = FALSE, !.attempts = n] \in OpType
      <4>1. op[i] \in OpType
        BY <1>0
      <4> HIDE DEF n
      <4> QED
        BY <2>3, <4>1 DEF OpType, Live
    <3>2. op' = [op EXCEPT ![i] =
                   [op[i] EXCEPT !.status = "processing", !.aged = FALSE, !.attempts = n]]
      BY <2>1
    <3> HIDE DEF n
    <3> QED
      BY <1>0, <3>1, <3>2
  <2>5. new \in WorkerType
    BY <1>0, BlankTypes DEF WorkerType
  <2> HIDE DEF new
  <2> QED
    BY <1>0, <1>6, <2>2, <2>4, <2>5 DEF Claim
<1>7. ASSUME NEW w \in Workers, NEW k \in Effects, GiveUp(w, k)
      PROVE Typed'
  <2>1. "action_required" \in EffectStatuses
    BY OutcomeFacts
  <2>2. eff' \in [Ids -> [Effects -> EffectStatuses]]
    BY <1>0, <1>7, <2>1 DEF GiveUp, Write
  <2> DEFINE new == [worker[w] EXCEPT !.at = Priority[k], !.mem[k] = "action_required"]
  <2>3. new \in WorkerType
    <3>1. worker[w] \in WorkerType
      BY <1>0
    <3> QED
      BY <2>1, <3>1, EffectFacts DEF WorkerType
  <2>4. worker' = [worker EXCEPT ![w] = new]
    BY <1>7 DEF GiveUp
  <2> HIDE DEF new
  <2> QED
    BY <1>0, <1>7, <2>2, <2>3, <2>4 DEF GiveUp
<1>8. ASSUME NEW w \in Workers, NEW k \in Effects, Start(w, k)
      PROVE Typed'
  <2>1. "processing" \in EffectStatuses
    BY DEF EffectStatuses, Live
  <2>2. eff' \in [Ids -> [Effects -> EffectStatuses]]
    BY <1>0, <1>8, <2>1 DEF Start, Write
  <2> DEFINE seen == IF op[worker[w].op].type = "create" THEN worker[w].seen ELSE appt
             new == [worker[w] EXCEPT !.pc = "call", !.at = Priority[k],
                                      !.mem[k] = "processing", !.seen = seen]
  <2>3. new \in WorkerType
    <3>1. worker[w] \in WorkerType /\ seen \in Appointments
      BY <1>0 DEF WorkerType
    <3> HIDE DEF seen
    <3> QED
      BY <2>1, <3>1, EffectFacts DEF WorkerType
  <2>4. worker' = [worker EXCEPT ![w] = new]
    BY <1>8 DEF Start
  <2> HIDE DEF new
  <2> QED
    BY <1>0, <1>8, <2>2, <2>3, <2>4 DEF Start
<1>9. ASSUME NEW w \in Workers, Answered(w)
      PROVE Typed'
  <2>1. PICK r \in Results : Answer(w, r)
    BY <1>9 DEF Answered
  <2>2. worker' \in [Workers -> WorkerType]
    <3>1. worker[w] \in WorkerType
      BY <1>0
    <3>2. [worker[w] EXCEPT !.pc = "record", !.result = r] \in WorkerType
      BY <3>1 DEF WorkerType
    <3> QED
      BY <1>0, <2>1, <3>2 DEF Answer
  <2>3. accepted' \in [Ids -> [Effects -> Nat]]
    <3>1. PICK i \in Ids, k \in Effects :
            UNCHANGED accepted \/ accepted' = [accepted EXCEPT ![i][k] = @ + 1]
      BY <1>9 DEF Answered
    <3>2. accepted \in [Ids -> [Effects -> Nat]]
      BY <1>0
    <3> HIDE DEF Typed
    <3> QED
      BY <3>1, <3>2
  <2> QED
    BY <1>0, <1>9, <2>2, <2>3 DEF Answered, rowVars
<1>10. ASSUME NEW w \in Workers, Record(w)
       PROVE Typed'
  <2> DEFINE r == worker[w].result
             found == [worker[w].seen EXCEPT !.id = @ \/ r.id, !.join = @ \/ r.join]
             seen == IF op[worker[w].op].type = "create" THEN found ELSE FirstAppt
  <2>1. worker[w] \in WorkerType /\ r \in Results
    BY <1>0 DEF WorkerType
  <2>2. PICK k \in Effects :
          /\ Write(w, k, r.status)
          /\ notice' = [notice EXCEPT
                          !.email = IF r.email = "same" THEN @ ELSE r.email,
                          !.sms   = IF r.sms = "same" THEN @ ELSE r.sms]
          /\ appt' = [appt EXCEPT !.id = @ \/ r.id, !.join = @ \/ r.join]
          /\ worker' = [worker EXCEPT ![w] =
               [worker[w] EXCEPT !.pc = "scan", !.mem[k] = r.status, !.seen = seen,
                                 !.result = NoResult]]
          /\ UNCHANGED <<op, done, accepted, faults>>
    BY <1>10 DEF Record
  <2>3. eff' \in [Ids -> [Effects -> EffectStatuses]]
    BY <1>0, <2>1, <2>2 DEF Write, Results
  <2>4. notice' \in Notices
    BY <1>0, <2>1, <2>2 DEF Notices, Results
  <2>5. appt' \in Appointments
    BY <1>0, <2>1, <2>2 DEF Appointments, Results
  <2>6. seen \in Appointments
    <3>1. worker[w].seen \in Appointments /\ r.id \in BOOLEAN /\ r.join \in BOOLEAN
      BY <2>1 DEF WorkerType, Results
    <3> HIDE DEF r
    <3>2. found \in Appointments
      BY <3>1 DEF Appointments
    <3> HIDE DEF found
    <3> QED
      BY <3>2, BlankTypes
  <2>7. worker' \in [Workers -> WorkerType]
    <3>1. r.status \in EffectStatuses
      BY <2>1 DEF Results
    <3> DEFINE new == [worker[w] EXCEPT !.pc = "scan", !.mem[k] = r.status, !.seen = seen,
                                        !.result = NoResult]
    <3>2. worker' = [worker EXCEPT ![w] = new]
      BY <2>2
    <3> HIDE DEF r, seen
    <3>3. new \in WorkerType
      BY <2>1, <2>6, <3>1, BlankTypes DEF WorkerType
    <3> HIDE DEF new
    <3> QED
      BY <1>0, <3>2, <3>3
  <2> QED
    BY <1>0, <2>2, <2>3, <2>4, <2>5, <2>7
<1>11. ASSUME NEW w \in Workers, Finish(w)
       PROVE Typed'
  <2>1. Aggregate(worker[w].mem) \in Live \cup Terminal
    BY DEF Aggregate, Live, Terminal
  <2>2. op' \in [Ids -> OpType]
    <3> DEFINE ended == Aggregate(worker[w].mem)
    <3>1. op' = [j \in Ids |->
                   IF j = worker[w].op THEN [op[j] EXCEPT !.status = ended, !.aged = FALSE]
                   ELSE IF j \in Told(w) THEN [op[j] EXCEPT !.status = "superseded"]
                   ELSE op[j]]
      BY <1>11, Zenon DEF Finish
    <3> HIDE DEF ended
    <3>2. ASSUME NEW j \in Ids
          PROVE  /\ [op[j] EXCEPT !.status = ended, !.aged = FALSE] \in OpType
                 /\ [op[j] EXCEPT !.status = "superseded"] \in OpType
      BY <1>0, <2>1 DEF OpType, Terminal, ended
    <3> QED
      BY <1>0, <3>1, <3>2
  <2> QED
    BY <1>0, <1>11, <2>2, BlankTypes DEF Finish
<1>12. ASSUME NEW w \in Workers, Crash(w)
       PROVE Typed'
  BY <1>0, <1>12, BlankTypes, BookingAssumption DEF Crash, rowVars
<1>13. CASE UNCHANGED vars
  BY <1>0, <1>13 DEF vars, rowVars
<1>14. ASSUME NEW i \in Ids, RetryBlocked(i)
       PROVE Typed'
  <2>1. notice' \in Notices
    BY <1>0, <1>14 DEF RetryBlocked, Notices, Confirmations
  <2> QED
    BY <1>0, <1>14, <2>1 DEF RetryBlocked, Commit
<1> HIDE DEF Typed
<1> QED
  BY <1>0, <1>1, <1>2, <1>3, <1>4, <1>5, <1>6, <1>7, <1>8, <1>9, <1>10, <1>11, <1>12, <1>13,
     <1>14, AnswersAre DEF Next, Step

-----------------------------------------------------------------------------
(* The inductive invariant, step by step.                                  *)

\* A busy worker's operation was committed, and is at work if it is no retry.
LEMMA BusyFacts ==
    ASSUME IInv, Typed, NEW w \in Workers, Busy(w)
    PROVE  /\ worker[w].op \in Ids
           /\ worker[w].op \in done
           /\ op[worker[w].op].status = "processing" \/ op[worker[w].op].manual
  BY BlankTypes DEF IInv, WorkersHold, HeldIsProcessing, RowsAreCommitted

\* A committed request that wrote a row, or none.
LEMMA EnqueueKeeps ==
    ASSUME IInv, Typed, Typed', NEW i \in Ids, NEW key \in Keys, key[1] # "retry",
           i \notin done, done' = done \cup {i}, Enqueued(i, key), UNCHANGED <<worker, accepted>>
    PROVE  IInv'
<1>0. /\ op[i] = Absent /\ \A k \in Effects : eff[i][k] = "none"
      /\ \A w \in Workers : Busy(w) => worker[w].op # i
  BY BusyFacts DEF IInv, RowsAreCommitted
<1>1. CASE UNCHANGED <<op, eff>>
  <2>1. /\ WorkersHold' /\ RowsAreCommitted' /\ RetriesAreSingle' /\ OwnersKnow'
        /\ HeldIsProcessing' /\ HoldersAreAlone' /\ CallsAreProcessing' /\ OldestFirst'
    BY <1>1 DEF IInv, WorkersHold, RowsAreCommitted, RetriesAreSingle, OwnersKnow, Owns, Busy,
          HeldIsProcessing, HoldersAreAlone, CallsAreProcessing, Calling, OldestFirst
  <2>2. /\ WaitingIsUnsent' /\ CalledIsUnsent' /\ DeferredIsUnsent' /\ GoogleIsSilent'
        /\ AtMostOncePerArming'
    BY <1>1 DEF IInv, WaitingIsUnsent, CalledIsUnsent, DeferredIsUnsent, GoogleIsSilent,
          AtMostOncePerArming
  <2> QED
    BY <2>1, <2>2, SameTypes DEF IInv
<1>2. CASE /\ NewRow(i, key, FALSE)
           /\ \A k \in Effects : eff'[i][k] \in {"none", "pending"}
           /\ \A j \in Ids \ {i} :
                 /\ eff'[j] = eff[j]
                 /\ SameRow(op[j], op'[j]) /\ op'[j].aged = op[j].aged
                 /\ \/ op'[j] = op[j]
                    \/ op[j].status = "pending" /\ op'[j].status = "superseded"
  <2>1. WorkersHold' /\ CallsAreProcessing'
    BY DEF IInv, WorkersHold, Busy, CallsAreProcessing, Calling
  <2>2. RowsAreCommitted'
    <3> SUFFICES ASSUME NEW j \in Ids, j \notin done'
                 PROVE  op'[j] = Absent /\ \A k \in Effects : eff'[j][k] = "none"
      BY DEF RowsAreCommitted
    <3>1. j # i /\ op[j] = Absent /\ \A k \in Effects : eff[j][k] = "none"
      BY DEF IInv, RowsAreCommitted
    <3> QED
      BY <1>2, <3>1, BlankTypes
  <2>3. RetriesAreSingle'
    BY <1>2 DEF IInv, RetriesAreSingle, NewRow, SameRow
  <2>4. OwnersKnow'
    <3> SUFFICES ASSUME NEW w \in Workers, Owns(w)'
                 PROVE  /\ worker[w].mem = eff'[worker[w].op]
                        /\ op'[worker[w].op].status \in {"processing", "completed", "action_required"}
      BY DEF OwnersKnow
    <3>1. Owns(w) /\ Busy(w)
      BY DEF Owns, Busy
    <3>2. worker[w].op \in Ids \ {i}
      BY <1>0, <3>1, BusyFacts
    <3> QED
      BY <1>2, <3>1, <3>2 DEF IInv, OwnersKnow
  <2>5. HeldIsProcessing'
    <3> SUFFICES ASSUME NEW w \in Workers, Busy(w)'
                 PROVE  /\ ~op'[worker[w].op].aged
                        /\ ~op'[worker[w].op].manual => op'[worker[w].op].status = "processing"
      BY DEF HeldIsProcessing
    <3>1. Busy(w) /\ worker[w].op \in Ids \ {i}
      BY <1>0, BusyFacts DEF Busy
    <3> QED
      BY <1>2, <3>1 DEF IInv, HeldIsProcessing, SameRow
  <2>6. HoldersAreAlone'
    <3> SUFFICES ASSUME NEW v \in Workers, NEW w \in Workers, v # w, Busy(v), Busy(w),
                        worker[v].op = worker[w].op
                 PROVE  op'[worker[v].op].manual /\ ~(Owns(v) /\ Owns(w))
      BY DEF HoldersAreAlone, Busy, Owns
    <3>1. worker[v].op \in Ids \ {i}
      BY <1>0, BusyFacts
    <3> QED
      BY <1>2, <3>1 DEF IInv, HoldersAreAlone, SameRow
  <2>7. OldestFirst'
    <3> SUFFICES ASSUME NEW a \in Ids, NEW b \in Ids, a < b, op'[b].status = "processing",
                        op'[a].status \in Live
                 PROVE  op'[a].late \/ op'[a].manual
      BY DEF OldestFirst
    <3>1. b # i /\ op[b].status = "processing"
      BY <1>2 DEF NewRow
    <3>2. CASE a = i
      BY <1>2, <3>1, <3>2 DEF NewRow
    <3>3. CASE a # i
      <4>1. op[a].status \in Live
        BY <1>2, <3>3 DEF Live
      <4> QED
        BY <1>2, <3>1, <3>3, <4>1 DEF IInv, OldestFirst, SameRow
    <3> QED
      BY <3>2, <3>3
  <2>8. WaitingIsUnsent'
    <3> SUFFICES ASSUME NEW j \in Ids, NEW k \in Effects, eff'[j][k] \in {"none", "pending"}
                 PROVE  accepted[j][k] = 0
      BY DEF WaitingIsUnsent
    <3> QED
      BY <1>0, <1>2 DEF IInv, WaitingIsUnsent
  <2>9. /\ CalledIsUnsent' /\ DeferredIsUnsent' /\ GoogleIsSilent' /\ AtMostOncePerArming'
    BY DEF IInv, CalledIsUnsent, DeferredIsUnsent, GoogleIsSilent, AtMostOncePerArming
  <2> QED
    BY <2>1, <2>2, <2>3, <2>4, <2>5, <2>6, <2>7, <2>8, <2>9, SameTypes DEF IInv
<1> QED
  BY <1>1, <1>2 DEF Enqueued

\* A manual retry, which arms one effect or nothing.
LEMMA RearmKeeps ==
    ASSUME IInv, Typed, Typed', NEW i \in Ids, NEW k \in Effects, NEW j \in Ids,
           i \notin done, done' = done \cup {i}, Rearmed(i, j, k), UNCHANGED worker
    PROVE  IInv'
<1>0. /\ op[i] = Absent /\ \A e \in Effects : eff[i][e] = "none"
      /\ \A w \in Workers : Busy(w) => worker[w].op # i
  BY BusyFacts DEF IInv, RowsAreCommitted
<1>1. /\ op'[j].status = "pending" /\ ~op'[j].aged /\ op'[j].manual
      /\ op'[j].key[1] = "retry" /\ op'[j].key[3] = k
  BY DEF Rearmed, NewRow, SameRow, IInv, RetriesAreSingle
<1>2. /\ \A e \in Effects : eff'[j][e] = IF e = k THEN "pending" ELSE "none"
      /\ \A l \in Ids \ {j} : op'[l] = op[l] /\ eff'[l] = eff[l]
      /\ accepted' = [accepted EXCEPT ![j][k] = 0]
  BY DEF Rearmed
<1>3. \A e \in Effects : e # k => eff[j][e] = "none"
  BY <1>0 DEF Rearmed, IInv, RetriesAreSingle
<1>4. j = i \/ (j \in done /\ op[j].manual)
  BY BlankTypes DEF Rearmed, IInv, RetriesAreSingle, RowsAreCommitted
<1>5. \A w \in Workers : Owns(w) => worker[w].op # j
  <2> SUFFICES ASSUME NEW w \in Workers, Owns(w), worker[w].op = j PROVE FALSE
    OBVIOUS
  <2>1. j # i /\ eff[j][k] \notin Kept
    BY <1>0 DEF Owns, Rearmed
  <2>2. worker[w].mem = eff[j]
    BY DEF IInv, OwnersKnow
  <2>3. \E e \in Effects : eff[j][e] \in Live
    BY <2>2 DEF Owns
  <2> QED
    BY <1>3, <2>1, <2>3 DEF Kept, Live
<1>6. WorkersHold' /\ CallsAreProcessing'
  BY DEF IInv, WorkersHold, Busy, CallsAreProcessing, Calling
<1>7. RowsAreCommitted'
  BY <1>2, <1>4 DEF IInv, RowsAreCommitted
<1>8. RetriesAreSingle'
  BY <1>1, <1>2 DEF IInv, RetriesAreSingle
<1>9. OwnersKnow'
  BY <1>2, <1>5, BusyFacts DEF IInv, OwnersKnow, Owns, Busy
<1>10. HeldIsProcessing'
  BY <1>1, <1>2, BusyFacts DEF IInv, HeldIsProcessing, Busy
<1>11. HoldersAreAlone'
  BY <1>1, <1>2, BusyFacts DEF IInv, HoldersAreAlone, Busy, Owns
<1>12. OldestFirst'
  <2> SUFFICES ASSUME NEW a \in Ids, NEW b \in Ids, a < b, op'[b].status = "processing",
                      op'[a].status \in Live
               PROVE  op'[a].late \/ op'[a].manual
    BY DEF OldestFirst
  <2> QED
    BY <1>1, <1>2 DEF IInv, OldestFirst
<1>13. /\ WaitingIsUnsent' /\ GoogleIsSilent' /\ AtMostOncePerArming'
       /\ \A l \in Ids, e \in Effects : accepted[l][e] = 0 => accepted'[l][e] = 0
  <2>1. \A l \in Ids, e \in Effects :
          accepted'[l][e] = IF l = j /\ e = k THEN 0 ELSE accepted[l][e]
    BY <1>2 DEF Typed
  <2>2. GoogleIsSilent' /\ AtMostOncePerArming'
    BY <2>1, EffectFacts DEF IInv, GoogleIsSilent, AtMostOncePerArming
  <2>3. WaitingIsUnsent'
    BY <2>1, <1>2, <1>3 DEF IInv, WaitingIsUnsent
  <2> QED
    BY <2>1, <2>2, <2>3
<1>14. CalledIsUnsent' /\ DeferredIsUnsent'
  <2>1. \A w \in Workers : worker[w].pc \in {"call", "record"} => worker[w].op \in Ids
    BY BusyFacts DEF Busy
  <2> QED
    BY <1>13, <2>1 DEF IInv, CalledIsUnsent, DeferredIsUnsent
<1> QED
  BY <1>6, <1>7, <1>8, <1>9, <1>10, <1>11, <1>12, <1>13, <1>14, SameTypes DEF IInv

\* Ten minutes pass over a claim that nobody holds.
LEMMA ClaimAgesKeeps ==
    ASSUME IInv, Typed, Typed', NEW i \in Ids, ClaimAges(i)
    PROVE  IInv'
<1>1. /\ op[i].status = "processing" /\ \A w \in Workers : worker[w].op # i
      /\ \A j \in Ids : j # i => op'[j] = op[j]
      /\ SameRow(op[i], op'[i]) /\ op'[i].status = op[i].status
      /\ UNCHANGED <<eff, done, worker, accepted>>
  BY DEF ClaimAges, Typed, OpType, SameRow
<1>2. i \in done
  BY <1>1, BlankTypes DEF IInv, RowsAreCommitted
<1>3. \A w \in Workers : Busy(w) => worker[w].op \in Ids /\ op'[worker[w].op] = op[worker[w].op]
  BY <1>1, BusyFacts
<1>4. WorkersHold' /\ CallsAreProcessing'
  BY <1>1 DEF IInv, WorkersHold, Busy, CallsAreProcessing, Calling
<1>5. RowsAreCommitted' /\ RetriesAreSingle'
  BY <1>1, <1>2 DEF IInv, RowsAreCommitted, RetriesAreSingle, SameRow
<1>6. OwnersKnow' /\ HeldIsProcessing' /\ HoldersAreAlone'
  BY <1>1, <1>3 DEF IInv, OwnersKnow, Owns, Busy, HeldIsProcessing, HoldersAreAlone
<1>7. OldestFirst'
  BY <1>1 DEF IInv, OldestFirst, SameRow
<1>8. /\ WaitingIsUnsent' /\ CalledIsUnsent' /\ DeferredIsUnsent' /\ GoogleIsSilent'
      /\ AtMostOncePerArming'
  BY <1>1 DEF IInv, WaitingIsUnsent, CalledIsUnsent, DeferredIsUnsent, GoogleIsSilent,
        AtMostOncePerArming
<1> QED
  BY <1>4, <1>5, <1>6, <1>7, <1>8, SameTypes DEF IInv

\* What can be claimed has no owner, and no holder but that of a retry.
LEMMA ClaimableFacts ==
    ASSUME IInv, Typed, NEW i \in Ids, Claimable(i)
    PROVE  /\ i \in done
           /\ op[i].status \in Live
           /\ \A w \in Workers : Busy(w) /\ worker[w].op = i => op[i].manual /\ ~Owns(w)
<1>1. op[i].status \in Live /\ (op[i].status = "processing" => op[i].aged)
  BY DEF Claimable, Live
<1>2. i \in done
  BY <1>1, BlankTypes DEF IInv, RowsAreCommitted, Live
<1>3. ASSUME NEW w \in Workers, Busy(w), worker[w].op = i
      PROVE  op[i].manual /\ ~Owns(w)
  <2>1. ~op[i].aged
    BY <1>3 DEF IInv, HeldIsProcessing
  <2>2. op[i].status = "pending"
    BY <1>1, <2>1 DEF Live
  <2> QED
    BY <1>3, <2>2 DEF IInv, HeldIsProcessing, OwnersKnow
<1> QED
  BY <1>1, <1>2, <1>3

\* A row goes back to the queue.
LEMMA DeferKeeps ==
    ASSUME IInv, Typed, Typed', NEW w \in Workers, NEW i \in Ids, Defer(w, i)
    PROVE  IInv'
<1>1. /\ \A j \in Ids : j # i => op'[j] = op[j]
      /\ SameRow(op[i], op'[i]) /\ op'[i].status = "pending" /\ ~op'[i].aged
      /\ UNCHANGED <<eff, done, worker, accepted>>
  BY DEF Defer, Typed, OpType, SameRow
<1>2. /\ i \in done /\ op[i].status \in Live
      /\ \A v \in Workers : Busy(v) /\ worker[v].op = i => op[i].manual /\ ~Owns(v)
  BY ClaimableFacts DEF Defer
<1>3. \A v \in Workers : Busy(v) => worker[v].op \in Ids
  BY BusyFacts
<1>4. WorkersHold' /\ CallsAreProcessing'
  BY <1>1 DEF IInv, WorkersHold, Busy, CallsAreProcessing, Calling
<1>5. RowsAreCommitted' /\ RetriesAreSingle'
  BY <1>1, <1>2 DEF IInv, RowsAreCommitted, RetriesAreSingle, SameRow
<1>6. OwnersKnow'
  BY <1>1, <1>2, <1>3 DEF IInv, OwnersKnow, Owns, Busy
<1>7. HeldIsProcessing'
  BY <1>1, <1>2, <1>3 DEF IInv, HeldIsProcessing, Busy, SameRow
<1>8. HoldersAreAlone'
  BY <1>1, <1>2, <1>3 DEF IInv, HoldersAreAlone, Busy, Owns, SameRow
<1>9. OldestFirst'
  <2> SUFFICES ASSUME NEW a \in Ids, NEW b \in Ids, a < b, op'[b].status = "processing",
                      op'[a].status \in Live
               PROVE  op'[a].late \/ op'[a].manual
    BY DEF OldestFirst
  <2> QED
    BY <1>1, <1>2 DEF IInv, OldestFirst, SameRow
<1>10. /\ WaitingIsUnsent' /\ CalledIsUnsent' /\ DeferredIsUnsent' /\ GoogleIsSilent'
       /\ AtMostOncePerArming'
  BY <1>1 DEF IInv, WaitingIsUnsent, CalledIsUnsent, DeferredIsUnsent, GoogleIsSilent,
        AtMostOncePerArming
<1> QED
  BY <1>4, <1>5, <1>6, <1>7, <1>8, <1>9, <1>10, SameTypes DEF IInv

\* A worker claims the oldest row.
LEMMA ClaimKeeps ==
    ASSUME IInv, Typed, Typed', NEW w \in Workers, NEW i \in Ids, Claim(w, i)
    PROVE  IInv'
<1>1. /\ \A j \in Ids : j # i => op'[j] = op[j]
      /\ SameRow(op[i], op'[i]) /\ op'[i].status = "processing" /\ ~op'[i].aged
      /\ UNCHANGED <<eff, done, accepted>>
  <2> DEFINE n == IF op[i].status = "pending" /\ op[i].attempts < MaxAttempts
                  THEN op[i].attempts + 1 ELSE op[i].attempts
  <2>1. op' = [op EXCEPT ![i] =
                 [op[i] EXCEPT !.status = "processing", !.aged = FALSE, !.attempts = n]]
    BY DEF Claim, Typed
  <2> HIDE DEF n
  <2> QED
    BY <2>1 DEF Claim, Typed, OpType, SameRow
<1>2. /\ ~Busy(w) /\ \A v \in Workers : v # w => worker'[v] = worker[v]
      /\ worker'[w].pc = "scan" /\ worker'[w].op = i /\ worker'[w].mem = eff[i]
  BY DEF Claim, Typed, Busy, Idle
<1>3. /\ i \in done /\ op[i].status \in Live /\ Oldest(i)
      /\ \A v \in Workers : Busy(v) /\ worker[v].op = i => op[i].manual /\ ~Owns(v)
  BY ClaimableFacts DEF Claim
<1>4. \A v \in Workers : Busy(v) => worker[v].op \in Ids
  BY BusyFacts
<1>5. WorkersHold'
  BY <1>2 DEF IInv, WorkersHold, Busy
<1>6. CallsAreProcessing'
  BY <1>2 DEF IInv, CallsAreProcessing, Calling
<1>7. RowsAreCommitted' /\ RetriesAreSingle'
  BY <1>1, <1>3 DEF IInv, RowsAreCommitted, RetriesAreSingle, SameRow
<1>8. OwnersKnow'
  BY <1>1, <1>2, <1>3, <1>4 DEF IInv, OwnersKnow, Owns, Busy
<1>9. HeldIsProcessing'
  BY <1>1, <1>2, <1>3, <1>4 DEF IInv, HeldIsProcessing, Busy, SameRow
<1>10. HoldersAreAlone'
  <2> SUFFICES ASSUME NEW u \in Workers, NEW v \in Workers, u # v, Busy(u)', Busy(v)',
                      worker'[u].op = worker'[v].op
               PROVE  op'[worker'[u].op].manual /\ ~(Owns(u)' /\ Owns(v)')
    BY DEF HoldersAreAlone
  <2>1. CASE u = w
    BY <1>1, <1>2, <1>3, <2>1 DEF Owns, Busy, SameRow
  <2>2. CASE v = w
    BY <1>1, <1>2, <1>3, <2>2 DEF Owns, Busy, SameRow
  <2>3. CASE u # w /\ v # w
    BY <1>1, <1>2, <1>4, <2>3 DEF IInv, HoldersAreAlone, Owns, Busy, SameRow
  <2> QED
    BY <2>1, <2>2, <2>3
<1>11. OldestFirst'
  <2> SUFFICES ASSUME NEW a \in Ids, NEW b \in Ids, a < b, op'[b].status = "processing",
                      op'[a].status \in Live
               PROVE  op'[a].late \/ op'[a].manual
    BY DEF OldestFirst
  <2>1. op[a].status \in Live
    BY <1>1, <1>3
  <2>2. b # i
    BY <1>3, <2>1 DEF Oldest
  <2> QED
    BY <1>1, <2>1, <2>2 DEF IInv, OldestFirst, SameRow
<1>12. WaitingIsUnsent' /\ GoogleIsSilent' /\ AtMostOncePerArming'
  BY <1>1 DEF IInv, WaitingIsUnsent, GoogleIsSilent, AtMostOncePerArming
<1>13. CalledIsUnsent' /\ DeferredIsUnsent'
  BY <1>1, <1>2 DEF IInv, CalledIsUnsent, DeferredIsUnsent
<1> QED
  BY <1>5, <1>6, <1>7, <1>8, <1>9, <1>10, <1>11, <1>12, <1>13, SameTypes DEF IInv

\* A worker is lost, with what it knew.
LEMMA CrashKeeps ==
    ASSUME IInv, Typed, Typed', NEW w \in Workers, Crash(w)
    PROVE  IInv'
<1>1. /\ UNCHANGED <<op, eff, done, accepted>>
      /\ worker'[w] = Idle /\ \A v \in Workers : v # w => worker'[v] = worker[v]
  BY DEF Crash, rowVars, Typed
<1>2. ~Busy(w)' /\ ~Owns(w)' /\ ~Calling(w)' /\ worker'[w].op \notin Ids
  BY <1>1, BlankTypes, BookingAssumption DEF Busy, Owns, Calling, Ids
<1>3. WorkersHold' /\ CallsAreProcessing'
  BY <1>1, <1>2 DEF IInv, WorkersHold, Busy, CallsAreProcessing, Calling
<1>4. OwnersKnow' /\ HeldIsProcessing' /\ HoldersAreAlone'
  BY <1>1, <1>2 DEF IInv, OwnersKnow, Owns, Busy, HeldIsProcessing, HoldersAreAlone
<1>5. RowsAreCommitted' /\ RetriesAreSingle' /\ OldestFirst'
  BY <1>1 DEF IInv, RowsAreCommitted, RetriesAreSingle, OldestFirst
<1>6. WaitingIsUnsent' /\ GoogleIsSilent' /\ AtMostOncePerArming'
  BY <1>1 DEF IInv, WaitingIsUnsent, GoogleIsSilent, AtMostOncePerArming
<1>7. CalledIsUnsent' /\ DeferredIsUnsent'
  BY <1>1, BlankTypes DEF IInv, CalledIsUnsent, DeferredIsUnsent
<1> QED
  BY <1>3, <1>4, <1>5, <1>6, <1>7, SameTypes DEF IInv

\* What stays when a worker writes the status of an effect it owns.
LEMMA WriteKeeps ==
    ASSUME IInv, Typed, Typed', NEW w \in Workers, NEW k \in Effects, NEW s,
           Busy(w), worker[w].mem[k] \in Live, s # "none",
           s = "pending" => accepted[worker[w].op][k] = 0,
           Write(w, k, s), UNCHANGED <<op, done, accepted>>,
           \A v \in Workers : v # w => worker'[v] = worker[v],
           worker'[w].op = worker[w].op, worker'[w].pc # "idle",
           worker'[w].mem = [worker[w].mem EXCEPT ![k] = s]
    PROVE  /\ WorkersHold' /\ RowsAreCommitted' /\ RetriesAreSingle' /\ OwnersKnow'
           /\ HeldIsProcessing' /\ HoldersAreAlone' /\ OldestFirst'
           /\ WaitingIsUnsent' /\ GoogleIsSilent' /\ AtMostOncePerArming'
<1> DEFINE i == worker[w].op
<1>1. i \in Ids /\ i \in done /\ Owns(w) /\ eff[i] = worker[w].mem
  BY BusyFacts DEF Owns, IInv, OwnersKnow
<1>2. /\ \A j \in Ids : j # i => eff'[j] = eff[j]
      /\ \A e \in Effects : eff'[i][e] = IF e = k THEN s ELSE eff[i][e]
      /\ worker'[w].mem = eff'[i]
      /\ eff[i][k] # "none"
  BY <1>1 DEF Write, Typed, Live
<1>3. \A v \in Workers : v # w /\ Owns(v) => worker[v].op \in Ids /\ worker[v].op # i
  BY <1>1, BusyFacts DEF IInv, HoldersAreAlone, Owns
<1>4. /\ Busy(w)'
      /\ \A v \in Workers : v # w => (Busy(v)' <=> Busy(v)) /\ (Owns(v)' <=> Owns(v))
  BY DEF Busy, Owns
<1>5. WorkersHold'
  BY <1>4 DEF IInv, WorkersHold
<1>6. RowsAreCommitted' /\ RetriesAreSingle'
  BY <1>1, <1>2 DEF IInv, RowsAreCommitted, RetriesAreSingle
<1>7. OwnersKnow'
  <2> SUFFICES ASSUME NEW v \in Workers, Owns(v)'
               PROVE  /\ worker'[v].mem = eff'[worker'[v].op]
                      /\ op[worker'[v].op].status \in {"processing", "completed", "action_required"}
    BY DEF OwnersKnow
  <2>1. CASE v = w
    BY <1>1, <1>2, <2>1 DEF IInv, OwnersKnow
  <2>2. CASE v # w
    BY <1>2, <1>3, <1>4, <2>2 DEF IInv, OwnersKnow
  <2> QED
    BY <2>1, <2>2
<1>8. HeldIsProcessing'
  BY <1>4 DEF IInv, HeldIsProcessing
<1>9. HoldersAreAlone'
  <2> SUFFICES ASSUME NEW u \in Workers, NEW v \in Workers, u # v, Busy(u)', Busy(v)',
                      worker'[u].op = worker'[v].op
               PROVE  op[worker'[u].op].manual /\ ~(Owns(u)' /\ Owns(v)')
    BY DEF HoldersAreAlone
  <2>1. Busy(u) /\ Busy(v) /\ worker[u].op = worker[v].op
    BY <1>4
  <2>2. op[worker[u].op].manual /\ ~(Owns(u) /\ Owns(v))
    BY <2>1 DEF IInv, HoldersAreAlone
  <2> QED
    BY <1>1, <1>4, <2>2
<1>10. OldestFirst'
  BY DEF IInv, OldestFirst
<1>11. WaitingIsUnsent'
  BY <1>1, <1>2 DEF IInv, WaitingIsUnsent
<1>12. GoogleIsSilent' /\ AtMostOncePerArming'
  BY DEF IInv, GoogleIsSilent, AtMostOncePerArming
<1> QED
  BY <1>5, <1>6, <1>7, <1>8, <1>9, <1>10, <1>11, <1>12

\* A call of a dead worker is given up.
LEMMA GiveUpKeeps ==
    ASSUME IInv, Typed, Typed', NEW w \in Workers, NEW k \in Effects, GiveUp(w, k)
    PROVE  IInv'
<1> DEFINE new == [worker[w] EXCEPT !.at = Priority[k], !.mem[k] = "action_required"]
<1>1. /\ worker[w].pc = "scan" /\ worker[w].mem[k] = "processing"
      /\ Write(w, k, "action_required") /\ UNCHANGED <<op, done, accepted>>
      /\ worker' = [worker EXCEPT ![w] = new]
  BY DEF GiveUp, Looks
<1>2. /\ new.pc = "scan" /\ new.op = worker[w].op
      /\ new.mem = [worker[w].mem EXCEPT ![k] = "action_required"]
  BY <1>1 DEF Typed, WorkerType
<1> HIDE DEF new
<1>3. worker'[w] = new /\ \A v \in Workers : v # w => worker'[v] = worker[v]
  BY <1>1 DEF Typed
<1>4. Busy(w) /\ worker[w].mem[k] \in Live
  BY <1>1 DEF Busy, Live
<1>5. /\ WorkersHold' /\ RowsAreCommitted' /\ RetriesAreSingle' /\ OwnersKnow'
      /\ HeldIsProcessing' /\ HoldersAreAlone' /\ OldestFirst'
      /\ WaitingIsUnsent' /\ GoogleIsSilent' /\ AtMostOncePerArming'
  BY <1>1, <1>2, <1>3, <1>4, WriteKeeps
<1>6. CallsAreProcessing' /\ CalledIsUnsent' /\ DeferredIsUnsent'
  BY <1>1, <1>2, <1>3 DEF IInv, CallsAreProcessing, CalledIsUnsent, DeferredIsUnsent, Calling
<1> QED
  BY <1>5, <1>6, SameTypes DEF IInv

\* An effect is committed as processing.
LEMMA StartKeeps ==
    ASSUME IInv, Typed, Typed', NEW w \in Workers, NEW k \in Effects, Start(w, k)
    PROVE  IInv'
<1> DEFINE seen == IF op[worker[w].op].type = "create" THEN worker[w].seen ELSE appt
           new == [worker[w] EXCEPT !.pc = "call", !.at = Priority[k],
                                    !.mem[k] = "processing", !.seen = seen]
           i == worker[w].op
<1>1. /\ worker[w].pc = "scan" /\ worker[w].mem[k] \in Live
      /\ worker[w].mem[k] = "pending" \/ k = "google"
      /\ Write(w, k, "processing") /\ UNCHANGED <<op, done, accepted>>
      /\ worker' = [worker EXCEPT ![w] = new]
  BY DEF Start, Looks, Left, Repeatable
<1>2. /\ new.pc = "call" /\ new.op = i /\ new.at = Priority[k]
      /\ new.mem = [worker[w].mem EXCEPT ![k] = "processing"]
      /\ new.mem[k] = "processing"
  <2> HIDE DEF seen
  <2> QED
    BY <1>1 DEF Typed, WorkerType
<1> HIDE DEF new
<1>3. worker'[w] = new /\ \A v \in Workers : v # w => worker'[v] = worker[v]
  BY <1>1 DEF Typed
<1>4. Busy(w)
  BY <1>1 DEF Busy
<1>5. /\ WorkersHold' /\ RowsAreCommitted' /\ RetriesAreSingle' /\ OwnersKnow'
      /\ HeldIsProcessing' /\ HoldersAreAlone' /\ OldestFirst'
      /\ WaitingIsUnsent' /\ GoogleIsSilent' /\ AtMostOncePerArming'
  BY <1>1, <1>2, <1>3, <1>4, WriteKeeps
<1>6. CallsAreProcessing'
  BY <1>2, <1>3 DEF IInv, CallsAreProcessing, Calling
<1>7. accepted[i][k] = 0
  <2>1. i \in Ids /\ eff[i] = worker[w].mem
    BY <1>1, <1>4, BusyFacts DEF IInv, OwnersKnow, Owns
  <2> QED
    BY <1>1, <2>1 DEF IInv, WaitingIsUnsent, GoogleIsSilent
<1>8. CalledIsUnsent'
  BY <1>1, <1>2, <1>3, <1>7, EffectFacts DEF IInv, CalledIsUnsent
<1>9. DeferredIsUnsent'
  BY <1>1, <1>2, <1>3 DEF IInv, DeferredIsUnsent
<1> QED
  BY <1>5, <1>6, <1>8, <1>9, SameTypes DEF IInv

\* The result of a call is committed.
LEMMA RecordKeeps ==
    ASSUME IInv, Typed, Typed', NEW w \in Workers, Record(w)
    PROVE  IInv'
<1> DEFINE r == worker[w].result
           i == worker[w].op
           found == [worker[w].seen EXCEPT !.id = @ \/ r.id, !.join = @ \/ r.join]
           seen == IF op[i].type = "create" THEN found ELSE FirstAppt
<1>1. PICK k \in Effects :
        /\ worker[w].pc = "record" /\ Priority[k] = worker[w].at
        /\ Write(w, k, r.status) /\ UNCHANGED <<op, done, accepted>>
        /\ worker' = [worker EXCEPT ![w] =
             [worker[w] EXCEPT !.pc = "scan", !.mem[k] = r.status, !.seen = seen,
                               !.result = NoResult]]
  BY DEF Record
<1> HIDE DEF seen, found
<1> DEFINE new == [worker[w] EXCEPT !.pc = "scan", !.mem[k] = r.status, !.seen = seen,
                                    !.result = NoResult]
<1>2. /\ new.pc = "scan" /\ new.op = i
      /\ new.mem = [worker[w].mem EXCEPT ![k] = r.status]
  BY DEF Typed, WorkerType
<1>3. worker' = [worker EXCEPT ![w] = new]
  BY <1>1
<1> HIDE DEF new
<1>4. worker'[w] = new /\ \A v \in Workers : v # w => worker'[v] = worker[v]
  BY <1>3 DEF Typed
<1>5. /\ r.status \in TERMINAL_EFFECT_STATUSES \cup {"pending"}
      /\ r.status = "pending" => accepted[i][k] = 0
  BY <1>1 DEF IInv, DeferredIsUnsent
<1>6. Busy(w) /\ worker[w].mem[k] \in Live
  BY <1>1, EffectFacts DEF Busy, Live, IInv, CallsAreProcessing, Calling
<1>7. /\ WorkersHold' /\ RowsAreCommitted' /\ RetriesAreSingle' /\ OwnersKnow'
      /\ HeldIsProcessing' /\ HoldersAreAlone' /\ OldestFirst'
      /\ WaitingIsUnsent' /\ GoogleIsSilent' /\ AtMostOncePerArming'
  <2>1. r.status # "none"
    BY <1>5, OutcomeFacts
  <2> HIDE DEF r
  <2> QED
    BY <1>1, <1>2, <1>4, <1>5, <1>6, <2>1, WriteKeeps
<1>8. CallsAreProcessing' /\ CalledIsUnsent' /\ DeferredIsUnsent'
  BY <1>1, <1>2, <1>4 DEF IInv, CallsAreProcessing, CalledIsUnsent, DeferredIsUnsent, Calling
<1> QED
  BY <1>7, <1>8, SameTypes DEF IInv

\* A call comes back.
LEMMA AnswerKeeps ==
    ASSUME IInv, Typed, Typed', NEW w \in Workers, Answered(w)
    PROVE  IInv'
<1>1. PICK i \in Ids, k \in Effects, r \in Results :
        /\ Calls(w, i, k)
        /\ r.status \in TERMINAL_EFFECT_STATUSES \cup {"pending"}
        /\ Answer(w, r)
        /\ \/ UNCHANGED accepted
           \/ /\ k # "google" /\ r.status # "pending"
              /\ accepted' = [accepted EXCEPT ![i][k] = @ + 1]
        /\ UNCHANGED <<rowVars, done, faults>>
  BY DEF Answered
<1>2. /\ worker[w].pc = "call" /\ worker[w].op = i /\ worker[w].at = Priority[k]
      /\ UNCHANGED <<op, eff, done>>
  BY <1>1 DEF Calls, rowVars
<1> DEFINE new == [worker[w] EXCEPT !.pc = "record", !.result = r]
<1>3. /\ new.pc = "record" /\ new.op = i /\ new.at = Priority[k]
      /\ new.mem = worker[w].mem /\ new.result = r
  BY <1>2 DEF Typed, WorkerType
<1>4. worker' = [worker EXCEPT ![w] = new]
  BY <1>1 DEF Answer
<1> HIDE DEF new
<1>5. worker'[w] = new /\ \A v \in Workers : v # w => worker'[v] = worker[v]
  BY <1>4 DEF Typed
<1>6. \A v \in Workers :
        /\ Busy(v)' <=> Busy(v)
        /\ Owns(v)' <=> Owns(v)
        /\ worker'[v].op = worker[v].op /\ worker'[v].mem = worker[v].mem
        /\ worker'[v].at = worker[v].at
        /\ Calling(v)' <=> Calling(v)
  BY <1>2, <1>3, <1>5 DEF Busy, Owns, Calling
<1>7. /\ WorkersHold' /\ RowsAreCommitted' /\ RetriesAreSingle' /\ OwnersKnow'
      /\ HeldIsProcessing' /\ HoldersAreAlone' /\ CallsAreProcessing' /\ OldestFirst'
  BY <1>2, <1>6 DEF IInv, WorkersHold, RowsAreCommitted, RetriesAreSingle, OwnersKnow,
        HeldIsProcessing, HoldersAreAlone, CallsAreProcessing, OldestFirst
<1>8. /\ Owns(w) /\ eff[i][k] = "processing" /\ accepted[i][k] = 0
  BY <1>2, EffectFacts DEF IInv, CallsAreProcessing, CalledIsUnsent, OwnersKnow, Owns, Busy,
        Calling, Live
<1>9. \A j \in Ids, e \in Effects :
        accepted'[j][e] # accepted[j][e] =>
           /\ j = i /\ e = k /\ k # "google" /\ r.status # "pending" /\ accepted'[j][e] = 1
  BY <1>1, <1>8 DEF Typed
<1>10. WaitingIsUnsent' /\ GoogleIsSilent' /\ AtMostOncePerArming'
  <2>1. WaitingIsUnsent'
    BY <1>2, <1>8, <1>9 DEF IInv, WaitingIsUnsent
  <2>2. GoogleIsSilent'
    BY <1>9, EffectFacts DEF IInv, GoogleIsSilent
  <2>3. AtMostOncePerArming'
    <3> SUFFICES ASSUME NEW j \in Ids, NEW e \in Effects PROVE accepted'[j][e] <= 1
      BY DEF AtMostOncePerArming
    <3>1. accepted[j][e] <= 1
      BY DEF IInv, AtMostOncePerArming
    <3> QED
      BY <1>9, <3>1
  <2> QED
    BY <2>1, <2>2, <2>3
<1>11. \A v \in Workers : v # w /\ Calling(v) => worker[v].op \in Ids /\ worker[v].op # i
  <2> SUFFICES ASSUME NEW v \in Workers, v # w, Calling(v)
               PROVE  worker[v].op \in Ids /\ worker[v].op # i
    OBVIOUS
  <2>1. Owns(v)
    BY DEF IInv, CallsAreProcessing, Owns, Busy, Calling, Live
  <2> QED
    BY <1>2, <1>8, <2>1, BusyFacts DEF IInv, HoldersAreAlone, Owns
<1>12. CalledIsUnsent'
  BY <1>3, <1>5, <1>9, <1>11 DEF IInv, CalledIsUnsent, Calling
<1>13. DeferredIsUnsent'
  <2> SUFFICES ASSUME NEW v \in Workers, NEW e \in Effects,
                      worker'[v].pc = "record", worker'[v].at = Priority[e]
               PROVE  /\ worker'[v].result.status \in TERMINAL_EFFECT_STATUSES \cup {"pending"}
                      /\ worker'[v].result.status = "pending"
                            => accepted'[worker'[v].op][e] = 0
    BY DEF DeferredIsUnsent
  <2>1. CASE v = w
    <3>1. e = k
      BY <1>3, <1>5, <2>1, EffectFacts
    <3> QED
      BY <1>1, <1>3, <1>5, <1>8, <1>9, <2>1, <3>1
  <2>2. CASE v # w
    BY <1>5, <1>9, <1>11, <2>2 DEF IInv, DeferredIsUnsent, Calling
  <2> QED
    BY <2>1, <2>2
<1> QED
  BY <1>7, <1>10, <1>12, <1>13, SameTypes DEF IInv

\* The operation of a worker ends, or goes back to the queue.
LEMMA FinishKeeps ==
    ASSUME IInv, Typed, Typed', NEW w \in Workers, Finish(w)
    PROVE  IInv'
<1> DEFINE i == worker[w].op
           ended == Aggregate(worker[w].mem)
<1>1. /\ Busy(w) /\ UNCHANGED <<eff, done, accepted>>
      /\ worker'[w] = Idle /\ \A v \in Workers : v # w => worker'[v] = worker[v]
  BY DEF Finish, Busy, Typed
<1>2. i \in Ids /\ i \in done
  BY <1>1, BusyFacts
<1>3. /\ op'[i].status = ended /\ ~op'[i].aged /\ SameRow(op[i], op'[i])
      /\ \A j \in Ids : j # i =>
            /\ SameRow(op[j], op'[j]) /\ op'[j].aged = op[j].aged
            /\ \/ op'[j] = op[j]
               \/ op[j].status = "pending" /\ op'[j].status = "superseded"
  <2> DEFINE told == Told(w)
  <2>1. op' = [j \in Ids |->
                 IF j = i THEN [op[j] EXCEPT !.status = ended, !.aged = FALSE]
                 ELSE IF j \in told THEN [op[j] EXCEPT !.status = "superseded"] ELSE op[j]]
    BY Zenon DEF Finish
  <2>2. \A j \in told : op[j].status = "pending"
    BY DEF Told
  <2> HIDE DEF ended, told
  <2>3. \A j \in Ids : op[j] \in OpType
    BY DEF Typed
  <2>4. op'[i] = [op[i] EXCEPT !.status = ended, !.aged = FALSE]
    BY <1>2, <2>1
  <2>5. \A j \in Ids : j # i =>
          op'[j] = IF j \in told THEN [op[j] EXCEPT !.status = "superseded"] ELSE op[j]
    BY <2>1
  <2>6. op'[i].status = ended /\ ~op'[i].aged /\ SameRow(op[i], op'[i])
    BY <1>2, <2>3, <2>4 DEF OpType, SameRow
  <2>7. ASSUME NEW j \in Ids, j # i
        PROVE  /\ SameRow(op[j], op'[j]) /\ op'[j].aged = op[j].aged
               /\ \/ op'[j] = op[j]
                  \/ op[j].status = "pending" /\ op'[j].status = "superseded"
    <3>1. CASE j \in told
      BY <2>2, <2>3, <2>5, <2>7, <3>1 DEF OpType, SameRow
    <3>2. CASE j \notin told
      BY <2>5, <2>7, <3>2 DEF SameRow
    <3> QED
      BY <3>1, <3>2
  <2> QED
    BY <2>6, <2>7
<1>4. /\ ended \in {"pending", "completed", "action_required"}
      /\ ~Owns(w) => ended \in {"completed", "action_required"}
  BY <1>1 DEF Aggregate, Owns, Live
<1> HIDE DEF ended
<1>5. ~Busy(w)' /\ ~Owns(w)' /\ ~Calling(w)' /\ worker'[w].op \notin Ids
  BY <1>1, BlankTypes, BookingAssumption DEF Busy, Owns, Calling, Ids
<1>6. \A v \in Workers : Busy(v)' =>
        /\ v # w /\ Busy(v) /\ worker'[v] = worker[v] /\ (Owns(v)' <=> Owns(v))
        /\ worker[v].op \in Ids
  BY <1>1, <1>5, BusyFacts DEF Busy, Owns
<1>7. WorkersHold' /\ CallsAreProcessing'
  BY <1>1, <1>5 DEF IInv, WorkersHold, Busy, CallsAreProcessing, Calling
<1>8. RowsAreCommitted'
  BY <1>1, <1>2, <1>3, BlankTypes DEF IInv, RowsAreCommitted
<1>9. RetriesAreSingle'
  BY <1>1, <1>3 DEF IInv, RetriesAreSingle, SameRow
<1>10. OwnersKnow'
  <2> SUFFICES ASSUME NEW v \in Workers, Owns(v)'
               PROVE  /\ worker'[v].mem = eff[worker'[v].op]
                      /\ op'[worker'[v].op].status \in {"processing", "completed", "action_required"}
    BY <1>1 DEF OwnersKnow
  <2>1. /\ v # w /\ Busy(v) /\ worker'[v] = worker[v] /\ Owns(v)
        /\ worker[v].op \in Ids
    BY <1>6 DEF Owns
  <2>2. /\ worker[v].mem = eff[worker[v].op]
        /\ op[worker[v].op].status \in {"processing", "completed", "action_required"}
    BY <2>1 DEF IInv, OwnersKnow
  <2>3. CASE worker[v].op = i
    <3>1. ~Owns(w)
      BY <1>1, <2>1, <2>3 DEF IInv, HoldersAreAlone
    <3> QED
      BY <1>3, <1>4, <2>1, <2>2, <2>3, <3>1
  <2>4. CASE worker[v].op # i
    BY <1>3, <2>1, <2>2, <2>4
  <2> QED
    BY <2>3, <2>4
<1>11. HeldIsProcessing'
  <2> SUFFICES ASSUME NEW v \in Workers, Busy(v)'
               PROVE  /\ ~op'[worker'[v].op].aged
                      /\ ~op'[worker'[v].op].manual => op'[worker'[v].op].status = "processing"
    BY DEF HeldIsProcessing
  <2>1. /\ v # w /\ Busy(v) /\ worker'[v] = worker[v] /\ worker[v].op \in Ids
    BY <1>6
  <2>2. /\ ~op[worker[v].op].aged
        /\ ~op[worker[v].op].manual => op[worker[v].op].status = "processing"
    BY <2>1 DEF IInv, HeldIsProcessing
  <2>3. CASE worker[v].op = i
    <3>1. op[i].manual
      BY <1>1, <2>1, <2>3 DEF IInv, HoldersAreAlone
    <3> QED
      BY <1>3, <2>1, <2>3, <3>1 DEF SameRow
  <2>4. CASE worker[v].op # i
    BY <1>3, <2>1, <2>2, <2>4 DEF SameRow
  <2> QED
    BY <2>3, <2>4
<1>12. HoldersAreAlone'
  <2> SUFFICES ASSUME NEW u \in Workers, NEW v \in Workers, u # v, Busy(u)', Busy(v)',
                      worker'[u].op = worker'[v].op
               PROVE  op'[worker'[u].op].manual /\ ~(Owns(u)' /\ Owns(v)')
    BY DEF HoldersAreAlone
  <2>1. op[worker[u].op].manual /\ ~(Owns(u) /\ Owns(v)) /\ worker[u].op \in Ids
    BY <1>6 DEF IInv, HoldersAreAlone
  <2>2. op'[worker[u].op].manual
    BY <1>3, <2>1 DEF SameRow
  <2> QED
    BY <1>6, <2>1, <2>2
<1>13. OldestFirst'
  <2> SUFFICES ASSUME NEW a \in Ids, NEW b \in Ids, a < b, op'[b].status = "processing",
                      op'[a].status \in Live
               PROVE  op'[a].late \/ op'[a].manual
    BY DEF OldestFirst
  <2>1. op[b].status = "processing"
    BY <1>3, <1>4
  <2>2. SameRow(op[a], op'[a])
    BY <1>3
  <2>3. op[a].status \in Live \/ op[a].manual
    <3>1. CASE a = i
      BY <1>1, <3>1 DEF IInv, HeldIsProcessing, Live
    <3>2. CASE a # i
      BY <1>3, <3>2 DEF Live
    <3> QED
      BY <3>1, <3>2
  <2> QED
    BY <2>1, <2>2, <2>3 DEF IInv, OldestFirst, SameRow
<1>14. WaitingIsUnsent' /\ GoogleIsSilent' /\ AtMostOncePerArming'
  BY <1>1 DEF IInv, WaitingIsUnsent, GoogleIsSilent, AtMostOncePerArming
<1>15. CalledIsUnsent' /\ DeferredIsUnsent'
  BY <1>1, BlankTypes DEF IInv, CalledIsUnsent, DeferredIsUnsent
<1> QED
  BY <1>7, <1>8, <1>9, <1>10, <1>11, <1>12, <1>13, <1>14, <1>15, SameTypes DEF IInv

\* A request of the appointment's screen.
LEMMA RequestKeeps ==
    ASSUME IInv, Typed, Typed', NEW i \in Ids,
           \/ \E s \in States : Patch(i, s)
           \/ Cancel(i)
           \/ \E k \in Effects : Retry(i, k)
           \/ RetryBlocked(i)
    PROVE  IInv'
<1>1. ASSUME NEW s \in States, Patch(i, s) PROVE IInv'
  <2>1. /\ i \notin done /\ done' = done \cup {i} /\ UNCHANGED <<worker, accepted>>
        /\ Enqueue(i, "update", Key("lifecycle", appt', "none"))
    BY <1>1 DEF Patch, Commit
  <2>2. /\ Key("lifecycle", appt', "none") \in Keys
        /\ Key("lifecycle", appt', "none")[1] # "retry"
    BY KeyType DEF Typed
  <2> QED
    BY <2>1, <2>2, EnqueueEffects, EnqueueKeeps
<1>2. ASSUME Cancel(i) PROVE IInv'
  <2> DEFINE key == Key("cancel", FirstAppt, "none")
  <2>1. /\ i \notin done /\ done' = done \cup {i} /\ UNCHANGED <<worker, accepted>>
        /\ UNCHANGED <<op, eff>> \/ Enqueue(i, "cancel", key)
    BY <1>2 DEF Cancel, Commit
  <2>2. key \in Keys /\ key[1] # "retry"
    BY KeyType, BlankTypes
  <2> HIDE DEF key
  <2>3. Enqueued(i, key)
    BY <2>1, <2>2, EnqueueEffects DEF Enqueued
  <2> QED
    BY <2>1, <2>2, <2>3, EnqueueKeeps
<1>3. ASSUME NEW k \in Effects, Retry(i, k) PROVE IInv'
  <2>1. /\ i \notin done /\ done' = done \cup {i} /\ UNCHANGED worker
        /\ EnqueueRetry(i, k)
    BY <1>3 DEF Retry, Commit
  <2>2. CASE UNCHANGED <<op, eff, accepted>>
    <3>1. PICK key \in Keys : key[1] # "retry"
      BY KeyType, BlankTypes
    <3> QED
      BY <2>1, <2>2, <3>1, EnqueueKeeps DEF Enqueued
  <2>3. CASE \E j \in Ids : Rearmed(i, j, k)
    BY <2>1, <2>3, RearmKeeps
  <2> QED
    BY <2>1, <2>2, <2>3, RetryEffects
<1>4. ASSUME RetryBlocked(i) PROVE IInv'
  <2>1. /\ i \notin done /\ done' = done \cup {i}
        /\ UNCHANGED <<op, eff, worker, accepted>>
    BY <1>4 DEF RetryBlocked, Commit
  <2>2. PICK key \in Keys : key[1] # "retry"
    BY KeyType, BlankTypes
  <2> QED
    BY <2>1, <2>2, EnqueueKeeps DEF Enqueued
<1> QED
  BY <1>1, <1>2, <1>3, <1>4
-----------------------------------------------------------------------------
(* The inductive invariant of the specification.                           *)

LEMMA InitInvariant == Init => IInv
<1> SUFFICES ASSUME Init PROVE IInv
  OBVIOUS
<1>1. TypeOK
  BY InitType
<1>2. \A w \in Workers : worker[w] = Idle /\ ~Busy(w) /\ ~Calling(w) /\ worker[w].op \notin Ids
  BY BlankTypes, BookingAssumption DEF Init, Busy, Calling, Ids
<1>3. /\ WorkersHold /\ OwnersKnow /\ HeldIsProcessing /\ HoldersAreAlone
      /\ CallsAreProcessing
  BY <1>2 DEF WorkersHold, OwnersKnow, Owns, HeldIsProcessing, HoldersAreAlone,
        CallsAreProcessing
<1>4. /\ \A i \in Ids : i # 1 => op[i] = Absent /\ \A k \in Effects : eff[i][k] = "none"
      /\ 1 \in Ids => op[1] = [Absent EXCEPT !.type = "create", !.status = "pending"]
  BY ArmedType DEF Init
<1>5. \A i \in Ids : ~op[i].manual /\ op[i].key[1] # "retry" /\ op[i].status # "processing"
  <2>1. Absent.key[1] # "retry" /\ ~Absent.manual /\ Absent.status # "processing"
    BY BlankTypes
  <2> DEFINE first == [Absent EXCEPT !.type = "create", !.status = "pending"]
  <2>2. first.key = Absent.key /\ first.manual = Absent.manual /\ first.status = "pending"
    BY BlankTypes DEF OpType
  <2> HIDE DEF first
  <2> QED
    BY <1>4, <2>1, <2>2 DEF first
<1>6. RowsAreCommitted
  BY <1>4 DEF Init, RowsAreCommitted
<1>7. RetriesAreSingle /\ OldestFirst
  BY <1>5 DEF RetriesAreSingle, OldestFirst
<1>8. \A i \in Ids, k \in Effects : accepted[i][k] = 0
  BY DEF Init
<1>9. WaitingIsUnsent /\ GoogleIsSilent /\ AtMostOncePerArming
  BY <1>8, EffectFacts DEF WaitingIsUnsent, GoogleIsSilent, AtMostOncePerArming
<1>10. CalledIsUnsent /\ DeferredIsUnsent
  BY <1>2, BlankTypes DEF CalledIsUnsent, DeferredIsUnsent
<1> QED
  BY <1>1, <1>3, <1>6, <1>7, <1>9, <1>10 DEF IInv

LEMMA NextKeeps == IInv /\ [Next]_vars => IInv'
<1> SUFFICES ASSUME IInv, [Next]_vars PROVE IInv'
  OBVIOUS
<1>0. Typed /\ Typed'
  BY NextType, SameTypes DEF IInv
<1>1. ASSUME NEW i \in Ids,
             \/ \E s \in States : Patch(i, s)
             \/ Cancel(i)
             \/ \E k \in Effects : Retry(i, k)
             \/ RetryBlocked(i)
      PROVE  IInv'
  BY <1>0, <1>1, RequestKeeps
<1>2. ASSUME NEW i \in Ids, ClaimAges(i) PROVE IInv'
  BY <1>0, <1>2, ClaimAgesKeeps
<1>3. ASSUME NEW w \in Workers, NEW i \in Ids, Defer(w, i) PROVE IInv'
  BY <1>0, <1>3, DeferKeeps
<1>4. ASSUME NEW w \in Workers, NEW i \in Ids, Claim(w, i) PROVE IInv'
  BY <1>0, <1>4, ClaimKeeps
<1>5. ASSUME NEW w \in Workers, NEW k \in Effects, GiveUp(w, k) PROVE IInv'
  BY <1>0, <1>5, GiveUpKeeps
<1>6. ASSUME NEW w \in Workers, NEW k \in Effects, Start(w, k) PROVE IInv'
  BY <1>0, <1>6, StartKeeps
<1>7. ASSUME NEW w \in Workers,
             Skip(w) \/ Push(w) \/ PushRaises(w) \/ Wait(w) \/ Email(w) \/ Text(w) \/ Pin(w)
      PROVE  IInv'
  BY <1>0, <1>7, AnswersAre, AnswerKeeps
<1>8. ASSUME NEW w \in Workers, Record(w) PROVE IInv'
  BY <1>0, <1>8, RecordKeeps
<1>9. ASSUME NEW w \in Workers, Finish(w) PROVE IInv'
  BY <1>0, <1>9, FinishKeeps
<1>10. ASSUME NEW w \in Workers, Crash(w) PROVE IInv'
  BY <1>0, <1>10, CrashKeeps
<1>11. CASE UNCHANGED vars
  <2>1. UNCHANGED <<op, eff, done, worker, accepted>>
    BY <1>11 DEF vars, rowVars
  <2>2. /\ WorkersHold' /\ RowsAreCommitted' /\ RetriesAreSingle' /\ OwnersKnow'
        /\ HeldIsProcessing' /\ HoldersAreAlone' /\ CallsAreProcessing' /\ OldestFirst'
    BY <2>1 DEF IInv, WorkersHold, RowsAreCommitted, RetriesAreSingle, OwnersKnow, Owns, Busy,
          HeldIsProcessing, HoldersAreAlone, CallsAreProcessing, Calling, OldestFirst
  <2>3. /\ WaitingIsUnsent' /\ CalledIsUnsent' /\ DeferredIsUnsent' /\ GoogleIsSilent'
        /\ AtMostOncePerArming'
    BY <2>1 DEF IInv, WaitingIsUnsent, CalledIsUnsent, DeferredIsUnsent, GoogleIsSilent,
          AtMostOncePerArming
  <2> QED
    BY <1>0, <2>2, <2>3, SameTypes DEF IInv
<1> QED
  BY <1>1, <1>2, <1>3, <1>4, <1>5, <1>6, <1>7, <1>8, <1>9, <1>10, <1>11 DEF Next, Step

\* The conjunction holds in every reachable state.
THEOREM InductiveInvariant == Spec => []IInv
  BY InitInvariant, NextKeeps, PTL DEF Spec

\* The variables keep their types.
THEOREM TypeCorrect == Spec => []TypeOK
<1>1. IInv => TypeOK
  BY DEF IInv
<1> QED
  BY <1>1, InductiveInvariant, PTL

\* An email or a text goes out at most once per arming, whatever crashes,
\* take-overs and manual retries come between.
THEOREM AtMostOnce == Spec => []AtMostOncePerArming
<1>1. IInv => AtMostOncePerArming
  BY DEF IInv
<1> QED
  BY <1>1, InductiveInvariant, PTL

\* Two calls under way are for two operations, one of them a retry or a late row.
THEOREM CallsStayApart == Spec => []NoOverlap
<1>1. IInv => NoOverlap
  <2> SUFFICES ASSUME IInv, NEW v \in Workers, NEW w \in Workers, v # w,
                      Calling(v), Calling(w)
               PROVE  /\ worker[v].op # worker[w].op
                      /\ \E i \in {worker[v].op, worker[w].op} : op[i].late \/ op[i].manual
    BY DEF NoOverlap
  <2>1. Typed
    BY SameTypes DEF IInv
  <2>2. Owns(v) /\ Owns(w) /\ Busy(v) /\ Busy(w)
    BY DEF IInv, CallsAreProcessing, Owns, Busy, Calling, Live
  <2>3. worker[v].op \in Ids /\ worker[w].op \in Ids
    BY <2>1, <2>2, BusyFacts
  <2>4. worker[v].op # worker[w].op
    BY <2>2 DEF IInv, HoldersAreAlone
  <2>5. \A u \in {v, w} : op[worker[u].op].manual \/ op[worker[u].op].status = "processing"
    BY <2>2 DEF IInv, HeldIsProcessing
  <2>6. worker[v].op < worker[w].op \/ worker[w].op < worker[v].op
    BY <2>3, <2>4 DEF Ids
  <2> QED
    BY <2>3, <2>4, <2>5, <2>6 DEF IInv, OldestFirst, Live
<1> QED
  BY <1>1, InductiveInvariant, PTL
-----------------------------------------------------------------------------
(* Steps: what they do to the effects and the messages.                    *)

Unmoved == UNCHANGED <<eff, accepted>>

Opened(i) ==
    /\ \A k \in Effects : eff[i][k] = "none" /\ eff'[i][k] \in {"none", "pending"}
    /\ \A j \in Ids \ {i} : eff'[j] = eff[j]
    /\ UNCHANGED accepted

ArmedAgain(i, k) ==
    /\ eff[i][k] \notin Kept
    /\ \A e \in Effects : e # k => eff[i][e] = "none"
    /\ \A e \in Effects : eff'[i][e] = IF e = k THEN "pending" ELSE "none"
    /\ \A j \in Ids \ {i} : eff'[j] = eff[j]
    /\ accepted' = [accepted EXCEPT ![i][k] = 0]

Written(i, k) ==
    /\ eff[i][k] \in Live
    /\ \E s \in Live \cup TERMINAL_EFFECT_STATUSES : eff' = [eff EXCEPT ![i][k] = s]
    /\ UNCHANGED accepted

Taken(i, k) ==
    /\ k # "google" /\ eff[i][k] \in Live /\ accepted[i][k] = 0
    /\ op[i].status # "superseded"
    /\ accepted' = [accepted EXCEPT ![i][k] = 1]
    /\ UNCHANGED eff

\* An effect that a worker writes is live.
LEMMA WrittenIsLive ==
    ASSUME IInv, Typed, NEW w \in Workers, NEW k \in Effects, Busy(w),
           worker[w].mem[k] \in Live
    PROVE  /\ worker[w].op \in Ids
           /\ eff[worker[w].op][k] \in Live
           /\ op[worker[w].op].status # "superseded"
  BY BusyFacts DEF IInv, OwnersKnow, Owns

\* A step leaves effects and messages alone, opens the effects of a new row,
\* arms one again, writes the status of a live one, or sends its message.
LEMMA StepsAre ==
    ASSUME IInv, Typed, [Next]_vars
    PROVE  \/ Unmoved
           \/ \E i \in Ids : Opened(i)
           \/ \E i \in Ids, k \in Effects : ArmedAgain(i, k) \/ Written(i, k) \/ Taken(i, k)
<1> DEFINE Goal == \/ Unmoved
                   \/ \E i \in Ids : Opened(i)
                   \/ \E i \in Ids, k \in Effects :
                         ArmedAgain(i, k) \/ Written(i, k) \/ Taken(i, k)
<1> SUFFICES Goal
  OBVIOUS
<1>1. ASSUME NEW i \in Ids, i \notin done, NEW key, Enqueued(i, key), UNCHANGED accepted
      PROVE  Goal
  <2>1. UNCHANGED eff \/ Opened(i)
    BY <1>1 DEF Enqueued, Opened, IInv, RowsAreCommitted
  <2> QED
    BY <1>1, <2>1 DEF Unmoved
<1>2. ASSUME NEW i \in Ids, NEW s \in States, Patch(i, s) PROVE Goal
  <2>1. /\ i \notin done /\ UNCHANGED accepted
        /\ Enqueue(i, "update", Key("lifecycle", appt', "none"))
    BY <1>2 DEF Patch, Commit
  <2>2. Key("lifecycle", appt', "none") \in Keys
    <3>1. appt' \in Appointments
      BY <1>2 DEF Patch, Typed, Appointments
    <3> QED
      BY <3>1, KeyType
  <2> HIDE DEF Goal
  <2> QED
    BY <1>1, <2>1, <2>2, EnqueueEffects
<1>3. ASSUME NEW i \in Ids, Cancel(i) PROVE Goal
  <2> DEFINE key == Key("cancel", FirstAppt, "none")
  <2>1. /\ i \notin done /\ UNCHANGED accepted
        /\ UNCHANGED eff \/ Enqueue(i, "cancel", key)
    BY <1>3 DEF Cancel, Commit
  <2>2. key \in Keys
    BY KeyType, BlankTypes
  <2> HIDE DEF key
  <2>3. CASE UNCHANGED eff
    BY <2>1, <2>3 DEF Unmoved
  <2>4. CASE Enqueue(i, "cancel", key)
    <3> HIDE DEF Goal
    <3> QED
      BY <1>1, <2>1, <2>2, <2>4, EnqueueEffects
  <2> QED
    BY <2>1, <2>3, <2>4
<1>4. ASSUME NEW i \in Ids, NEW k \in Effects, Retry(i, k) PROVE Goal
  <2>1. i \notin done /\ EnqueueRetry(i, k)
    BY <1>4 DEF Retry, Commit
  <2>2. CASE UNCHANGED <<op, eff, accepted>>
    BY <2>2 DEF Unmoved
  <2>3. ASSUME NEW j \in Ids, Rearmed(i, j, k) PROVE ArmedAgain(j, k)
    <3>1. eff[j][k] \notin Kept /\ \A e \in Effects : e # k => eff[j][e] = "none"
      <4>1. CASE j = i
        BY <2>1, <4>1 DEF IInv, RowsAreCommitted, Kept, Live
      <4>2. CASE op[j].key[1] = "retry" /\ op[j].key[3] = k /\ eff[j][k] \notin Kept
        BY <2>3, <4>2 DEF IInv, RetriesAreSingle
      <4> QED
        BY <2>3, <4>1, <4>2 DEF Rearmed
    <3> QED
      BY <2>3, <3>1 DEF Rearmed, ArmedAgain
  <2> QED
    BY <2>1, <2>2, <2>3, RetryEffects
<1>5. ASSUME \/ \E i \in Ids : ClaimAges(i)
             \/ \E w \in Workers, i \in Ids : Defer(w, i) \/ Claim(w, i)
             \/ \E w \in Workers : Finish(w) \/ Crash(w)
             \/ \E i \in Ids : RetryBlocked(i)
             \/ UNCHANGED vars
      PROVE  Goal
  BY <1>5 DEF Unmoved, RetryBlocked, ClaimAges, Defer, Claim, Finish, Crash, vars, rowVars
<1>6. ASSUME NEW w \in Workers, NEW k \in Effects, GiveUp(w, k) \/ Start(w, k)
      PROVE  Goal
  <2>1. /\ Busy(w) /\ worker[w].mem[k] \in Live /\ UNCHANGED accepted
        /\ \E s \in Live \cup TERMINAL_EFFECT_STATUSES : Write(w, k, s)
    BY <1>6, OutcomeFacts DEF GiveUp, Start, Looks, Left, Busy, Live
  <2>2. worker[w].op \in Ids /\ eff[worker[w].op][k] \in Live
    BY <2>1, WrittenIsLive
  <2>3. Written(worker[w].op, k)
    BY <2>1, <2>2 DEF Written, Write
  <2> QED
    BY <2>2, <2>3
<1>7. ASSUME NEW w \in Workers, Record(w) PROVE Goal
  <2>1. PICK k \in Effects :
          /\ worker[w].pc = "record" /\ Priority[k] = worker[w].at
          /\ Write(w, k, worker[w].result.status) /\ UNCHANGED accepted
    BY <1>7 DEF Record
  <2>2. worker[w].result.status \in Live \cup TERMINAL_EFFECT_STATUSES
    BY <2>1 DEF IInv, DeferredIsUnsent, Live
  <2>3. Busy(w) /\ worker[w].mem[k] \in Live
    BY <2>1, EffectFacts DEF Busy, Live, IInv, CallsAreProcessing, Calling
  <2>4. worker[w].op \in Ids /\ eff[worker[w].op][k] \in Live
    BY <2>3, WrittenIsLive
  <2>5. Written(worker[w].op, k)
    BY <2>1, <2>2, <2>4 DEF Written, Write
  <2> QED
    BY <2>4, <2>5
<1>8. ASSUME NEW w \in Workers, Answered(w) PROVE Goal
  <2>1. PICK i \in Ids, k \in Effects :
          /\ Calls(w, i, k)
          /\ \/ UNCHANGED accepted
             \/ /\ k # "google"
                /\ accepted' = [accepted EXCEPT ![i][k] = @ + 1]
          /\ UNCHANGED <<rowVars, done, faults>>
    BY <1>8 DEF Answered
  <2>2. worker[w].pc = "call" /\ worker[w].op = i /\ worker[w].at = Priority[k]
    BY <2>1 DEF Calls
  <2>3. Busy(w) /\ worker[w].mem[k] \in Live /\ accepted[i][k] = 0
    BY <2>2, EffectFacts DEF Busy, Live, IInv, CallsAreProcessing, CalledIsUnsent, Calling
  <2>4. eff[i][k] \in Live /\ op[i].status # "superseded"
    BY <2>2, <2>3, WrittenIsLive
  <2>5. UNCHANGED eff
    BY <2>1 DEF rowVars
  <2>6. CASE UNCHANGED accepted
    BY <2>5, <2>6 DEF Unmoved
  <2>7. CASE k # "google" /\ accepted' = [accepted EXCEPT ![i][k] = @ + 1]
    <3>1. accepted' = [accepted EXCEPT ![i][k] = 1]
      BY <2>3, <2>7 DEF Typed
    <3> QED
      BY <2>3, <2>4, <2>5, <2>7, <3>1 DEF Taken
  <2> QED
    BY <2>1, <2>6, <2>7
<1> HIDE DEF Goal
<1> QED
  BY <1>2, <1>3, <1>4, <1>5, <1>6, <1>7, <1>8, AnswersAre DEF Next, Step
\* No step takes a successful effect back.
THEOREM SentStays == Spec => SentIsFinal
<1> DEFINE A == \A i \in Ids, k \in Effects : eff[i][k] = "sent" => eff'[i][k] = "sent"
<1>1. IInv /\ [Next]_vars => A
  <2> SUFFICES ASSUME IInv, [Next]_vars, NEW i \in Ids, NEW k \in Effects, eff[i][k] = "sent"
               PROVE  eff'[i][k] = "sent"
    OBVIOUS
  <2>0. Typed
    BY SameTypes DEF IInv
  <2>1. CASE Unmoved
    BY <2>1 DEF Unmoved
  <2>2. ASSUME NEW j \in Ids, Opened(j) PROVE eff'[i][k] = "sent"
    BY <2>2 DEF Opened
  <2>3. ASSUME NEW j \in Ids, NEW e \in Effects, ArmedAgain(j, e) PROVE eff'[i][k] = "sent"
    BY <2>3 DEF ArmedAgain, Kept
  <2>4. ASSUME NEW j \in Ids, NEW e \in Effects, Written(j, e) PROVE eff'[i][k] = "sent"
    BY <2>0, <2>4 DEF Written, Live, Typed
  <2>5. ASSUME NEW j \in Ids, NEW e \in Effects, Taken(j, e) PROVE eff'[i][k] = "sent"
    BY <2>5 DEF Taken
  <2> QED
    BY <2>0, <2>1, <2>2, <2>3, <2>4, <2>5, StepsAre
<1>2. IInv /\ [Next]_vars => [A]_vars
  BY <1>1
<1>3. Spec => [][A]_vars
  <2> HIDE DEF A
  <2> QED
    BY <1>2, InductiveInvariant, PTL DEF Spec
<1> QED
  BY <1>3 DEF SentIsFinal

\* No step sends a message of a superseded operation.
THEOREM SupersededStaysSilent == Spec => SupersededIsSilent
<1> DEFINE A == \A i \in Ids : op[i].status = "superseded" =>
                   \A k \in Effects : accepted'[i][k] <= accepted[i][k]
<1>1. IInv /\ [Next]_vars => A
  <2> SUFFICES ASSUME IInv, [Next]_vars, NEW i \in Ids, NEW k \in Effects,
                      op[i].status = "superseded"
               PROVE  accepted'[i][k] <= accepted[i][k]
    OBVIOUS
  <2>0. Typed /\ accepted[i][k] \in Nat
    BY SameTypes DEF IInv, Typed
  <2>1. CASE UNCHANGED accepted
    BY <2>0, <2>1
  <2>2. ASSUME NEW j \in Ids, NEW e \in Effects, ArmedAgain(j, e)
        PROVE  accepted'[i][k] <= accepted[i][k]
    <3>1. accepted'[i][k] = IF i = j /\ k = e THEN 0 ELSE accepted[i][k]
      BY <2>0, <2>2 DEF ArmedAgain, Typed
    <3> QED
      BY <2>0, <3>1
  <2>3. ASSUME NEW j \in Ids, NEW e \in Effects, Taken(j, e)
        PROVE  accepted'[i][k] <= accepted[i][k]
    <3>1. i # j
      BY <2>3 DEF Taken
    <3>2. accepted'[i] = accepted[i]
      BY <2>0, <2>3, <3>1 DEF Taken, Typed
    <3> QED
      BY <2>0, <3>2
  <2> QED
    BY <2>0, <2>1, <2>2, <2>3, StepsAre DEF Unmoved, Opened, Written
<1>2. IInv /\ [Next]_vars => [A]_vars
  BY <1>1
<1>3. Spec => [][A]_vars
  <2> HIDE DEF A
  <2> QED
    BY <1>2, InductiveInvariant, PTL DEF Spec
<1> QED
  BY <1>3 DEF SupersededIsSilent

-----------------------------------------------------------------------------
(* The ledger implements OneSendPerArming.                                 *)

ArmedSlots == {x \in Slots : eff[x[1]][x[2]] \in Live}
SentSlots  == [x \in Slots |-> accepted[x[1]][x[2]]]

\* A slot is an operation and an effect that is a message.
LEMMA SlotFacts ==
    /\ \A x \in Slots : x[1] \in Ids /\ x[2] \in Effects /\ x[2] # "google"
                        /\ x = <<x[1], x[2]>>
    /\ \A i \in Ids, k \in Effects : k # "google" => <<i, k>> \in Slots
  BY DEF Slots

\* New effects, or one again: the abstract ledger arms those that are messages.
LEMMA ArmsAre ==
    ASSUME IInv, Typed, Typed', NEW i \in Ids,
           Opened(i) \/ \E k \in Effects : ArmedAgain(i, k)
    PROVE  \E S \in SUBSET Slots : Ledger!Arm(S)
<1> DEFINE S == {x \in Slots : x[1] = i /\ eff'[i][x[2]] = "pending"}
<1>1. \A k \in Effects : eff[i][k] # "none" => eff[i][k] \notin Live
  BY DEF Opened, ArmedAgain, Kept
<1>2. \A k \in Effects : eff[i][k] \notin Live /\ eff'[i][k] \in {"none", "pending"}
  BY <1>1 DEF Opened, ArmedAgain, Live
<1>3. /\ \A j \in Ids : j # i => eff'[j] = eff[j] /\ accepted'[j] = accepted[j]
      /\ \A k \in Effects : /\ eff'[i][k] = "pending" => accepted'[i][k] = 0
                            /\ eff'[i][k] # "pending" => accepted'[i][k] = accepted[i][k]
  <2>1. CASE Opened(i)
    BY <2>1 DEF Opened, IInv, WaitingIsUnsent
  <2>2. ASSUME NEW k \in Effects, ArmedAgain(i, k)
        PROVE  /\ \A j \in Ids : j # i => eff'[j] = eff[j] /\ accepted'[j] = accepted[j]
               /\ \A e \in Effects :
                     /\ eff'[i][e] = "pending" => accepted'[i][e] = 0
                     /\ eff'[i][e] # "pending" => accepted'[i][e] = accepted[i][e]
    BY <2>2 DEF ArmedAgain, Typed
  <2> QED
    BY <2>1, <2>2
<1>4. S \subseteq Slots \ ArmedSlots
  BY <1>2, SlotFacts DEF ArmedSlots
<1>5. ArmedSlots' = ArmedSlots \cup S
  BY <1>2, <1>3, SlotFacts DEF ArmedSlots, Live
<1>6. SentSlots' = [x \in Slots |-> IF x \in S THEN 0 ELSE SentSlots[x]]
  BY <1>3, SlotFacts DEF SentSlots
<1> QED
  BY <1>4, <1>5, <1>6 DEF Ledger!Arm, ArmedSlots, SentSlots

\* A worker's note: the abstract ledger closes an effect, or does not see it.
LEMMA ClosesAre ==
    ASSUME Typed, NEW i \in Ids, NEW k \in Effects, Written(i, k)
    PROVE  UNCHANGED <<ArmedSlots, SentSlots>> \/ \E x \in Slots : Ledger!Close(x)
<1>1. SentSlots' = SentSlots
  BY DEF Written, SentSlots
<1>2. /\ \A j \in Ids : j # i => eff'[j] = eff[j]
      /\ \A e \in Effects : e # k => eff'[i][e] = eff[i][e]
      /\ eff[i][k] \in Live
  BY DEF Written, Typed
<1>3. CASE k = "google" \/ eff'[i][k] \in Live
  <2>1. ArmedSlots' = ArmedSlots
    BY <1>2, <1>3, SlotFacts DEF ArmedSlots
  <2> QED
    BY <1>1, <2>1
<1>4. CASE k # "google" /\ eff'[i][k] \notin Live
  <2>1. <<i, k>> \in Slots /\ ArmedSlots' = ArmedSlots \ {<<i, k>>}
    BY <1>2, <1>4, SlotFacts DEF ArmedSlots
  <2> QED
    BY <1>1, <2>1 DEF Ledger!Close, ArmedSlots, SentSlots
<1> QED
  BY <1>3, <1>4

\* A provider takes a message: the abstract ledger sends it.
LEMMA SendsAre ==
    ASSUME Typed, NEW i \in Ids, NEW k \in Effects, Taken(i, k)
    PROVE  \E x \in Slots : Ledger!Send(x)
<1> DEFINE x == <<i, k>>
<1>1. x \in ArmedSlots /\ x \in Slots /\ SentSlots[x] = 0
  BY SlotFacts DEF Taken, ArmedSlots, SentSlots
<1>2. ArmedSlots' = ArmedSlots
  BY DEF Taken, ArmedSlots
<1>3. SentSlots' = [SentSlots EXCEPT ![x] = 1]
  BY SlotFacts DEF Taken, SentSlots, Typed
<1> QED
  BY <1>1, <1>2, <1>3 DEF Ledger!Send, ArmedSlots, SentSlots

\* Every behaviour of the ledger is one of OneSendPerArming.
THEOREM LedgerRefines == Spec => ImplementsOneSend
<1>1. Init => Ledger!Init
  BY SlotFacts DEF Init, Ledger!Init
<1>2. IInv /\ IInv' /\ [Next]_vars => [Ledger!Next]_<<ArmedSlots, SentSlots>>
  <2> SUFFICES ASSUME IInv, IInv', [Next]_vars
               PROVE  Ledger!Next \/ UNCHANGED <<ArmedSlots, SentSlots>>
    OBVIOUS
  <2>0. Typed /\ Typed'
    BY SameTypes DEF IInv
  <2>1. CASE Unmoved
    BY <2>1 DEF Unmoved, ArmedSlots, SentSlots
  <2>2. CASE \E S \in SUBSET Slots : Ledger!Arm(S)
    BY <2>2 DEF Ledger!Next
  <2>3. CASE \E x \in Slots : Ledger!Send(x) \/ Ledger!Close(x)
    BY <2>3 DEF Ledger!Next
  <2> QED
    BY <2>0, <2>1, <2>2, <2>3, StepsAre, ArmsAre, ClosesAre, SendsAre
<1>3. Spec => Ledger!Spec
  BY <1>1, <1>2, InductiveInvariant, PTL DEF Spec, Ledger!Spec, ArmedSlots, SentSlots
<1> QED
  BY <1>3 DEF ImplementsOneSend
=============================================================================
