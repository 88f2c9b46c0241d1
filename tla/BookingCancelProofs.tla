------------------------ MODULE BookingCancelProofs ------------------------
(***************************************************************************)
(* For any workers, requests, attempts and crashes: once the client was    *)
(* told that the appointment is cancelled, no ordinary operation says      *)
(* anything else.                                                          *)
(*                                                                         *)
(* The order of claims is what it rests on.  A cancellation that a worker  *)
(* has taken up had no older operation left to run beside it, and none can *)
(* come back to life; an operation younger than the cancellation reads the *)
(* appointment after it was cancelled, and is skipped.  A row that commits *)
(* after a younger one breaks both halves: the property excludes it.       *)
(***************************************************************************)
EXTENDS BookingDeliveryProofs

-----------------------------------------------------------------------------
(* The inductive invariant, over IInv.                                     *)

\* Rows were committed in their order.
InTurn == \A j \in Ids : ~op[j].late

\* A worker has taken up the operation, now or before.
Begun(c) ==
    \/ op[c].status \in {"processing", "completed", "action_required"}
    \/ \E w \in Workers : worker[w].op = c

\* What has a type, or is a retry, is a row.
RowsExist ==
    \A i \in Ids : op[i].type # "none" \/ op[i].manual => op[i].status # "none"

\* The booking itself is the first request.
BookingIsFirst == \A i \in Ids : op[i].type = "create" => i = 1

\* A row that cancels belongs to a cancelled appointment.
CancelsAreTrue == \A c \in Ids : op[c].type = "cancel" => appt.cancelled

\* Once a cancellation has begun, nothing ordinary that is older will run.
BegunClosesOlder ==
    InTurn => \A i, c \in Ids :
        i < c /\ op[c].type = "cancel" /\ Begun(c) /\ ~op[i].manual => op[i].status \notin Live

\* What is younger than a cancellation has read that the appointment is cancelled.
CallersSaw ==
    InTurn => \A w \in Workers, c \in Ids :
        /\ worker[w].pc = "call"
        /\ ~op[worker[w].op].manual /\ op[worker[w].op].type # "cancel"
        /\ op[c].type = "cancel" /\ c < worker[w].op
        => worker[w].seen.cancelled

CInv ==
    /\ RowsExist
    /\ BookingIsFirst
    /\ CancelsAreTrue
    /\ BegunClosesOlder
    /\ CallersSaw

-----------------------------------------------------------------------------
(* What a step does to the rows.                                           *)

\* Row j stays what it is; an ordinary one that has ended does not come back.
Follows(j) ==
    /\ op'[j].type = op[j].type /\ op'[j].manual = op[j].manual /\ op'[j].late = op[j].late
    /\ op[j].status # "none" => op'[j].status # "none"
    /\ ~op[j].manual /\ op'[j].status \in Live => op[j].status \in Live

\* Row j is written by a request: in its turn, or late.
Added(j) ==
    /\ op[j] = Absent
    /\ op'[j].status = "pending" /\ op'[j].type \in {"update", "cancel"}
    /\ op'[j].type = "cancel" => appt'.cancelled
    /\ (\E l \in Ids : l > j /\ op[l].status # "none") => op'[j].late

\* The rows of a step, and who begins.
Moves ==
    /\ \A j \in Ids : Follows(j) \/ Added(j)
    /\ \A c \in Ids : Begun(c)' => Begun(c) \/ (op[c].status # "none" /\ Oldest(c))
    /\ appt.cancelled => appt'.cancelled
    /\ \A w \in Workers : worker'[w].pc = "call" =>
          \/ worker'[w] = worker[w]
          \/ /\ worker'[w].op = worker[w].op /\ UNCHANGED <<op, appt>>
             /\ op[worker[w].op].type # "create" => worker'[w].seen = appt

\* A row that a newer change made obsolete is the same row.
LEMMA SupersededFacts ==
    ASSUME Typed, NEW types, NEW j \in Ids
    PROVE  LET row == Superseded(types)[j] IN
           /\ row.type = op[j].type /\ row.manual = op[j].manual /\ row.late = op[j].late
           /\ row.status = op[j].status \/ row.status = "superseded"
  BY DEF Superseded, Typed, OpType

\* A request that writes one ordinary row, or none.
LEMMA EnqueueMoves ==
    ASSUME IInv, Typed, NEW i \in Ids, i \notin done, NEW type \in {"update", "cancel"}, NEW key,
           Enqueue(i, type, key), type = "cancel" => appt'.cancelled,
           appt.cancelled => appt'.cancelled, UNCHANGED worker
    PROVE  Moves
<1>0. op[i] = Absent /\ \A w \in Workers : worker[w].op # i
  BY BusyFacts, BookingAssumption DEF IInv, RowsAreCommitted, WorkersHold, Ids
<1>1. CASE UNCHANGED op
  <2>1. \A j \in Ids : Follows(j) /\ (Begun(j)' => Begun(j))
    BY <1>1 DEF Follows, Begun
  <2> QED
    BY <2>1 DEF Moves
<1>2. CASE ~UNCHANGED op
  <2> DEFINE types == IF type = "cancel" THEN {"create", "update", "cancel"} ELSE {"update"}
             R     == Row(i, type, key, FALSE)
  <2>1. op' = [Superseded(types) EXCEPT ![i] = R]
    BY <1>2 DEF Enqueue
  <2>2. /\ op'[i] = R
        /\ \A j \in Ids : j # i => op'[j] = Superseded(types)[j]
    BY <2>1, SupersededType
  <2>3. Added(i)
    <3> HIDE DEF R
    <3>1. /\ R.type = type /\ R.status = "pending"
          /\ (\E j \in Ids : j > i /\ op[j].status # "none") => R.late
      <4>1. R.type = type /\ R.status = "pending"
        BY DEF R, Row, Absent
      <4>2. R.late = \E j \in Ids : j > i /\ op[j].status # "none"
        BY DEF R, Row, Absent
      <4> QED
        BY <4>1, <4>2, Zenon
    <3>2. (\E j \in Ids : j > i /\ op[j].status # "none") => op'[i].late
      BY <2>2, <3>1, Zenon
    <3>3. op'[i].status = "pending" /\ op'[i].type = type
      BY <2>2, <3>1
    <3> QED
      BY <1>0, <3>2, <3>3, Zenon DEF Added
  <2> HIDE DEF types, R
  <2>4. \A j \in Ids : j # i => Follows(j)
    BY <2>2, SupersededFacts DEF Follows, Live
  <2>5. \A c \in Ids : Begun(c)' => Begun(c)
    <3> SUFFICES ASSUME NEW c \in Ids, Begun(c)' PROVE Begun(c)
      OBVIOUS
    <3>1. c # i
      BY <1>0, <2>3 DEF Begun, Added
    <3>2. op'[c].status = op[c].status \/ op'[c].status = "superseded"
      BY <2>2, <3>1, SupersededFacts
    <3> QED
      BY <3>2 DEF Begun
  <2> QED
    BY <2>3, <2>4, <2>5 DEF Moves
<1> QED
  BY <1>1, <1>2

\* A manual retry writes a row, arms one again, or does nothing.
LEMMA RetryMoves ==
    ASSUME IInv, Typed, NEW i \in Ids, i \notin done, NEW k \in Effects,
           EnqueueRetry(i, k), UNCHANGED <<appt, worker>>
    PROVE  Moves
<1>0. op[i] = Absent /\ \A w \in Workers : worker[w].op # i
  BY BusyFacts, BookingAssumption DEF IInv, RowsAreCommitted, WorkersHold, Ids
<1>1. CASE UNCHANGED op
  <2>1. \A j \in Ids : Follows(j) /\ (Begun(j)' => Begun(j))
    BY <1>1 DEF Follows, Begun
  <2> QED
    BY <2>1 DEF Moves
<1>2. CASE ~UNCHANGED op
  <2> DEFINE key  == Key("retry", appt, k)
             same == {j \in Ids : op[j].status # "none" /\ op[j].key = key}
             type == IF appt.cancelled THEN "cancel" ELSE "update"
             R    == Row(i, type, key, TRUE)
  <2>1. PICK j \in IF same = {} THEN {i} ELSE same :
          op' = [op EXCEPT ![j] =
                   IF same = {} THEN R
                   ELSE [@ EXCEPT !.status = "pending", !.attempts = 0, !.aged = FALSE]]
    BY <1>2 DEF EnqueueRetry
  <2>2. j \in Ids /\ \A l \in Ids : l # j => op'[l] = op[l]
    BY <2>1 DEF Typed
  <2>3. Follows(j) \/ Added(j)
    <3>1. CASE same = {}
      <4>1. j = i /\ op'[i] = R
        BY <2>1, <3>1 DEF Typed
      <4>2. R.type = type /\ R.status = "pending"
        BY DEF Row, Absent
      <4>3. R.late = \E l \in Ids : l > i /\ op[l].status # "none"
        BY DEF Row, Absent
      <4>4. type \in {"update", "cancel"} /\ (type = "cancel" => appt'.cancelled)
        OBVIOUS
      <4> HIDE DEF R, type, same
      <4>5. (\E l \in Ids : l > i /\ op[l].status # "none") => op'[i].late
        BY <4>1, <4>3, Zenon
      <4>6. op'[i].status = "pending" /\ op'[i].type = type
        BY <4>1, <4>2
      <4> QED
        BY <1>0, <4>1, <4>4, <4>5, <4>6, Zenon DEF Added
    <3>2. CASE same # {}
      <4>1. /\ j \in same
            /\ op'[j] = [op[j] EXCEPT !.status = "pending", !.attempts = 0, !.aged = FALSE]
        BY <2>1, <2>2, <3>2 DEF Typed
      <4>2. op[j].key[1] = "retry"
        BY <4>1, KeyType DEF Typed
      <4>3. op[j].manual
        BY <2>2, <4>2 DEF IInv, RetriesAreSingle
      <4>4. op'[j].status = "pending" /\ op'[j].type = op[j].type
            /\ op'[j].manual = op[j].manual /\ op'[j].late = op[j].late
        BY <2>2, <4>1 DEF Typed, OpType
      <4> QED
        BY <4>3, <4>4 DEF Follows
    <3> QED
      BY <3>1, <3>2
  <2> HIDE DEF key, same, type, R
  <2>4. op'[j].status = "pending"
    <3>1. CASE same = {}
      <4>1. op'[j] = R
        BY <2>1, <2>2, <3>1 DEF Typed
      <4> QED
        BY <4>1 DEF R, Row, Absent
    <3>2. CASE same # {}
      BY <2>1, <2>2, <3>2 DEF Typed, OpType
    <3> QED
      BY <3>1, <3>2
  <2>5. \A l \in Ids : Follows(l) \/ Added(l)
    BY <2>2, <2>3 DEF Follows
  <2>6. \A c \in Ids : Begun(c)' => Begun(c)
    BY <2>2, <2>4 DEF Begun
  <2> QED
    BY <2>5, <2>6 DEF Moves
<1> QED
  BY <1>1, <1>2

\* Steps that leave the rows and the appointment's status as they are, and
\* move one worker that keeps its operation or becomes idle.
LEMMA WorkerMoves ==
    ASSUME Typed, NEW w \in Workers, UNCHANGED op,
           appt.cancelled => appt'.cancelled,
           \A v \in Workers : v # w => worker'[v] = worker[v],
           worker'[w].op \in {worker[w].op, NoWork},
           worker'[w].pc = "call" =>
              /\ worker'[w].op = worker[w].op /\ UNCHANGED appt
              /\ op[worker[w].op].type # "create" => worker'[w].seen = appt
    PROVE  Moves
<1>1. \A j \in Ids : Follows(j)
  BY DEF Follows
<1>2. \A c \in Ids : Begun(c)' => Begun(c)
  BY BookingAssumption DEF Begun, Ids
<1> QED
  BY <1>1, <1>2 DEF Moves

\* Steps that write the status of one row that no idle worker holds.
LEMMA RowMoves ==
    ASSUME Typed, NEW i \in Ids, UNCHANGED appt,
           \A j \in Ids : j # i => op'[j] = op[j],
           SameRow(op[i], op'[i]), op'[i].type = op[i].type,
           op[i].status # "none", op'[i].status # "none",
           ~op[i].manual /\ op'[i].status \in Live => op[i].status \in Live,
           Begun(i)' => Begun(i) \/ Oldest(i),
           \A c \in Ids, w \in Workers : c # i /\ worker'[w].op = c => worker[w].op = c,
           \A w \in Workers : worker'[w].pc = "call" => worker'[w] = worker[w]
    PROVE  Moves
<1>1. \A j \in Ids : Follows(j)
  BY DEF Follows, SameRow
<1>2. \A c \in Ids : Begun(c)' => Begun(c) \/ (op[c].status # "none" /\ Oldest(c))
  BY DEF Begun
<1> QED
  BY <1>1, <1>2 DEF Moves

\* The end of an operation, and of the queued changes the confirmation told.
LEMMA FinishMoves ==
    ASSUME IInv, Typed, NEW w \in Workers, Finish(w)
    PROVE  Moves
<1> DEFINE i == worker[w].op
           ended == Aggregate(worker[w].mem)
           told == Told(w)
<1>1. i \in Ids /\ (op[i].status = "processing" \/ op[i].manual)
  BY BusyFacts DEF Finish, Busy
<1>2. op' = [j \in Ids |->
               IF j = i THEN [op[j] EXCEPT !.status = ended, !.aged = FALSE]
               ELSE IF j \in told THEN [op[j] EXCEPT !.status = "superseded"] ELSE op[j]]
  BY Zenon DEF Finish
<1>3. /\ ended # "none" /\ \A j \in told : op[j].status = "pending"
      /\ worker' = [worker EXCEPT ![w] = Idle] /\ UNCHANGED appt
  BY DEF Finish, Aggregate, Told
<1> HIDE DEF ended, told
<1>4. /\ op'[i].type = op[i].type /\ op'[i].manual = op[i].manual
      /\ op'[i].late = op[i].late /\ op'[i].status = ended
  BY <1>1, <1>2 DEF Typed, OpType
<1>5. ASSUME NEW j \in Ids, j # i
      PROVE  /\ op'[j].type = op[j].type /\ op'[j].manual = op[j].manual
             /\ op'[j].late = op[j].late
             /\ \/ op'[j].status = op[j].status
                \/ op'[j].status = "superseded" /\ op[j].status # "none"
  <2>1. CASE j \in told
    BY <1>2, <1>3, <1>5, <2>1 DEF Typed, OpType
  <2>2. CASE j \notin told
    BY <1>2, <1>5, <2>2
  <2> QED
    BY <2>1, <2>2
<1>6. \A j \in Ids : Follows(j)
  BY <1>1, <1>3, <1>4, <1>5 DEF Follows, Live
<1>7. /\ worker'[w] = Idle /\ Idle.op = NoWork /\ Idle.pc = "idle"
      /\ \A v \in Workers : v # w => worker'[v] = worker[v]
  BY <1>3, BlankTypes DEF Typed
<1>8. \A c \in Ids : Begun(c)' => Begun(c)
  <2> SUFFICES ASSUME NEW c \in Ids, Begun(c)' PROVE Begun(c)
    OBVIOUS
  <2>1. CASE c = i
    BY <2>1 DEF Begun
  <2>2. CASE c # i
    BY <1>5, <1>7, <2>2, BookingAssumption DEF Begun, Ids
  <2> QED
    BY <2>1, <2>2
<1> QED
  BY <1>3, <1>6, <1>7, <1>8 DEF Moves

\* Every step moves the rows and the workers so.
LEMMA StepsMove ==
    ASSUME IInv, Typed, [Next]_vars
    PROVE  Moves
<1>0. appt.cancelled \in BOOLEAN
  BY DEF Typed, Appointments
<1>1. ASSUME NEW i \in Ids, NEW s \in States, Patch(i, s) PROVE Moves
  <2>1. /\ i \notin done /\ UNCHANGED worker
        /\ Enqueue(i, "update", Key("lifecycle", appt', "none"))
    BY <1>1 DEF Patch, Commit
  <2>2. appt'.cancelled = appt.cancelled
    BY <1>1 DEF Patch, Typed, Appointments
  <2> QED
    BY <2>1, <2>2, EnqueueMoves
<1>2. ASSUME NEW i \in Ids, Cancel(i) PROVE Moves
  <2>1. i \notin done /\ UNCHANGED worker
    BY <1>2 DEF Cancel, Commit
  <2>2. CASE UNCHANGED <<appt, op, eff>>
    <3>1. \A j \in Ids : Follows(j) /\ (Begun(j)' => Begun(j))
      BY <2>1, <2>2 DEF Follows, Begun
    <3> QED
      BY <2>1, <2>2, <3>1 DEF Moves
  <2>3. CASE /\ appt' = [appt EXCEPT !.cancelled = TRUE, !.live = FALSE]
             /\ Enqueue(i, "cancel", Key("cancel", FirstAppt, "none"))
    <3>1. appt'.cancelled
      BY <2>3 DEF Typed, Appointments
    <3> QED
      BY <2>1, <2>3, <3>1, EnqueueMoves
  <2> QED
    BY <1>2, <2>2, <2>3 DEF Cancel
<1>3. ASSUME NEW i \in Ids, NEW k \in Effects, Retry(i, k) PROVE Moves
  BY <1>3, RetryMoves DEF Retry, Commit
<1>4. ASSUME NEW i \in Ids, ClaimAges(i) PROVE Moves
  <2>1. /\ \A j \in Ids : j # i => op'[j] = op[j]
        /\ SameRow(op[i], op'[i]) /\ op'[i].type = op[i].type
        /\ op[i].status = "processing" /\ op'[i].status = op[i].status
        /\ UNCHANGED <<appt, worker>>
    BY <1>4 DEF ClaimAges, Typed, OpType, SameRow
  <2> QED
    BY <2>1, RowMoves DEF Begun, Live
<1>5. ASSUME NEW w \in Workers, NEW i \in Ids, Defer(w, i) PROVE Moves
  <2>1. /\ \A j \in Ids : j # i => op'[j] = op[j]
        /\ SameRow(op[i], op'[i]) /\ op'[i].type = op[i].type
        /\ op'[i].status = "pending" /\ op[i].status \in Live
        /\ UNCHANGED <<appt, worker>>
    BY <1>5, ClaimableFacts DEF Defer, Typed, OpType, SameRow
  <2> QED
    BY <2>1, RowMoves DEF Begun, Live
<1>6. ASSUME NEW w \in Workers, NEW i \in Ids, Claim(w, i) PROVE Moves
  <2> DEFINE n == IF op[i].status = "pending" /\ op[i].attempts < MaxAttempts
                  THEN op[i].attempts + 1 ELSE op[i].attempts
  <2>1. op' = [op EXCEPT ![i] =
                 [op[i] EXCEPT !.status = "processing", !.aged = FALSE, !.attempts = n]]
    BY <1>6 DEF Claim, Typed
  <2> HIDE DEF n
  <2>2. /\ \A j \in Ids : j # i => op'[j] = op[j]
        /\ SameRow(op[i], op'[i]) /\ op'[i].type = op[i].type
        /\ op'[i].status = "processing"
    BY <2>1 DEF Typed, OpType, SameRow
  <2>3. op[i].status \in Live /\ Oldest(i) /\ UNCHANGED appt
    BY <1>6, ClaimableFacts DEF Claim
  <2>4. /\ worker'[w].pc = "scan" /\ worker'[w].op = i
        /\ \A v \in Workers : v # w => worker'[v] = worker[v]
    BY <1>6 DEF Claim, Typed, Idle
  <2> QED
    BY <2>2, <2>3, <2>4, RowMoves DEF Live
<1>7. ASSUME NEW w \in Workers, NEW k \in Effects, GiveUp(w, k) PROVE Moves
  <2>1. /\ UNCHANGED <<op, appt>> /\ worker[w].pc = "scan"
        /\ worker' = [worker EXCEPT ![w] =
             [worker[w] EXCEPT !.at = Priority[k], !.mem[k] = "action_required"]]
    BY <1>7 DEF GiveUp, Looks
  <2>2. /\ worker'[w].op = worker[w].op /\ worker'[w].pc = "scan"
        /\ \A v \in Workers : v # w => worker'[v] = worker[v]
    BY <2>1 DEF Typed, WorkerType
  <2> QED
    BY <2>1, <2>2, WorkerMoves
<1>8. ASSUME NEW w \in Workers, NEW k \in Effects, Start(w, k) PROVE Moves
  <2> DEFINE seen == IF op[worker[w].op].type = "create" THEN worker[w].seen ELSE appt
  <2>1. /\ UNCHANGED <<op, appt>>
        /\ worker' = [worker EXCEPT ![w] =
             [worker[w] EXCEPT !.pc = "call", !.at = Priority[k], !.mem[k] = "processing",
                               !.seen = seen]]
    BY <1>8 DEF Start
  <2>2. op[worker[w].op].type # "create" => seen = appt
    OBVIOUS
  <2> HIDE DEF seen
  <2>3. /\ worker'[w].op = worker[w].op /\ worker'[w].seen = seen
        /\ \A v \in Workers : v # w => worker'[v] = worker[v]
    BY <2>1 DEF Typed, WorkerType
  <2> QED
    BY <2>1, <2>2, <2>3, WorkerMoves
<1>9. ASSUME NEW w \in Workers,
             Skip(w) \/ Push(w) \/ PushRaises(w) \/ Wait(w) \/ Email(w) \/ Text(w) \/ Pin(w)
      PROVE  Moves
  <2>1. PICK r \in Results : Answer(w, r) /\ UNCHANGED rowVars
    BY <1>9, AnswersAre DEF Answered
  <2>2. /\ worker'[w].op = worker[w].op /\ worker'[w].pc = "record"
        /\ \A v \in Workers : v # w => worker'[v] = worker[v]
    BY <2>1 DEF Answer, Typed, WorkerType
  <2> QED
    BY <2>1, <2>2, WorkerMoves DEF rowVars
<1>10. ASSUME NEW w \in Workers, Record(w) PROVE Moves
  <2> DEFINE r     == worker[w].result
             found == [worker[w].seen EXCEPT !.id = @ \/ r.id, !.join = @ \/ r.join]
             seen  == IF op[worker[w].op].type = "create" THEN found ELSE FirstAppt
  <2>1. PICK k \in Effects :
          worker' = [worker EXCEPT ![w] =
            [worker[w] EXCEPT !.pc = "scan", !.mem[k] = r.status, !.seen = seen,
                              !.result = NoResult]]
    BY <1>10 DEF Record
  <2> HIDE DEF r, seen
  <2>2. /\ worker'[w].op = worker[w].op /\ worker'[w].pc = "scan"
        /\ \A v \in Workers : v # w => worker'[v] = worker[v]
    BY <2>1 DEF Typed, WorkerType
  <2>3. UNCHANGED op /\ appt'.cancelled = appt.cancelled
    BY <1>10 DEF Record, Typed, Appointments
  <2> QED
    BY <2>2, <2>3, WorkerMoves
<1>11. ASSUME NEW w \in Workers, Finish(w) PROVE Moves
  BY <1>11, FinishMoves
<1>12. ASSUME NEW w \in Workers, Crash(w) PROVE Moves
  <2>1. /\ UNCHANGED <<op, appt>> /\ worker'[w].op = NoWork /\ worker'[w].pc = "idle"
        /\ \A v \in Workers : v # w => worker'[v] = worker[v]
    BY <1>12, BlankTypes DEF Crash, rowVars, Typed
  <2> QED
    BY <2>1, WorkerMoves
<1>13. CASE UNCHANGED vars \/ \E i \in Ids : RetryBlocked(i)
  <2>1. UNCHANGED <<op, appt, worker>>
    BY <1>13 DEF vars, rowVars, RetryBlocked, Commit
  <2>2. \A j \in Ids : Follows(j) /\ (Begun(j)' => Begun(j))
    BY <2>1 DEF Follows, Begun
  <2> QED
    BY <2>1, <2>2 DEF Moves
<1> QED
  BY <1>1, <1>2, <1>3, <1>4, <1>5, <1>6, <1>7, <1>8, <1>9, <1>10, <1>11, <1>12, <1>13
     DEF Next, Step

-----------------------------------------------------------------------------
(* The invariant.                                                          *)

LEMMA CancelInit == Init => CInv
<1> SUFFICES ASSUME Init PROVE CInv
  OBVIOUS
<1>1. Absent.type = "none" /\ Absent.status = "none"
  BY DEF Absent
<1> DEFINE first == [Absent EXCEPT !.type = "create", !.status = "pending"]
<1>2. first.type = "create" /\ first.status = "pending"
  BY DEF Absent
<1> HIDE DEF first
<1>3. \A i \in Ids : op[i] = IF i = 1 THEN first ELSE Absent
  BY DEF Init, first
<1>4. RowsExist /\ BookingIsFirst
  BY <1>1, <1>2, <1>3, BlankTypes DEF RowsExist, BookingIsFirst
<1>5. \A c \in Ids : op[c].type # "cancel"
  BY <1>1, <1>2, <1>3
<1> QED
  BY <1>4, <1>5 DEF CInv, CancelsAreTrue, BegunClosesOlder, CallersSaw

LEMMA CancelNext == IInv /\ CInv /\ [Next]_vars => CInv'
<1> SUFFICES ASSUME IInv, CInv, [Next]_vars PROVE CInv'
  OBVIOUS
<1>0. Typed /\ Absent.type = "none" /\ Absent.status = "none" /\ Absent.late = FALSE
  BY SameTypes DEF IInv, Absent
<1>1. Moves
  BY <1>0, StepsMove
<1>2. \A j \in Ids : Follows(j) \/ Added(j)
  BY <1>1 DEF Moves
<1>3. InTurn' => InTurn
  BY <1>0, <1>2 DEF InTurn, Follows, Added
<1>4. RowsExist' /\ BookingIsFirst'
  BY <1>2 DEF CInv, RowsExist, BookingIsFirst, Follows, Added
<1>5. CancelsAreTrue'
  BY <1>1, <1>2 DEF CInv, CancelsAreTrue, Moves, Follows, Added
<1>6. ASSUME InTurn', NEW i \in Ids, NEW c \in Ids, i < c,
             op'[c].type = "cancel", op[c].status # "none"
      PROVE  Follows(i) /\ Follows(c)
  <2>1. Follows(c)
    BY <1>0, <1>2, <1>6 DEF Added
  <2>2. ~Added(i)
    <3>1. i \in Nat /\ c \in Nat /\ c > i
      BY <1>6 DEF Ids
    <3> QED
      BY <1>6, <3>1 DEF Added, InTurn
  <2> QED
    BY <1>2, <2>1, <2>2
<1>7. BegunClosesOlder'
  <2> SUFFICES ASSUME InTurn', NEW i \in Ids, NEW c \in Ids, i < c,
                      op'[c].type = "cancel", Begun(c)', ~op'[i].manual
               PROVE  op'[i].status \notin Live
    BY DEF BegunClosesOlder
  <2>1. op[c].status # "none"
    <3>1. Begun(c) => op[c].status # "none"
      <4> SUFFICES ASSUME NEW w \in Workers, worker[w].op = c PROVE op[c].status # "none"
        BY DEF Begun
      <4>1. Busy(w)
        BY DEF IInv, WorkersHold
      <4> QED
        BY <1>0, <4>1, BusyFacts DEF CInv, RowsExist
    <3> QED
      BY <1>1, <3>1 DEF Moves
  <2>2. Follows(i) /\ Follows(c)
    BY <1>6, <2>1
  <2>3. op[c].type = "cancel" /\ ~op[i].manual
    BY <2>2 DEF Follows
  <2>4. op[i].status \notin Live
    <3>1. CASE Begun(c)
      BY <1>3, <2>3, <3>1 DEF CInv, BegunClosesOlder
    <3>2. CASE Oldest(c)
      BY <3>2 DEF Oldest
    <3> QED
      BY <1>1, <3>1, <3>2 DEF Moves
  <2> QED
    BY <2>2, <2>3, <2>4 DEF Follows
<1>8. CallersSaw'
  <2> SUFFICES ASSUME InTurn', NEW w \in Workers, NEW c \in Ids,
                      worker'[w].pc = "call",
                      ~op'[worker'[w].op].manual, op'[worker'[w].op].type # "cancel",
                      op'[c].type = "cancel", c < worker'[w].op
               PROVE  worker'[w].seen.cancelled
    BY DEF CallersSaw
  <2>1. CASE worker'[w] = worker[w]
    <3> DEFINE i == worker[w].op
    <3>1. i \in Ids /\ op[i].status # "none"
      <4>1. Busy(w)
        BY <2>1 DEF Busy
      <4> QED
        BY <1>0, <4>1, BusyFacts DEF CInv, RowsExist
    <3>2. Follows(i) /\ Follows(c)
      <4>1. Follows(i)
        BY <1>0, <1>2, <3>1 DEF Added
      <4>2. ~Added(c)
        <5>1. i \in Nat /\ c \in Nat /\ i > c
          BY <2>1, <3>1 DEF Ids
        <5> QED
          BY <3>1, <5>1 DEF Added, InTurn
      <4> QED
        BY <1>2, <4>1, <4>2
    <3> QED
      BY <1>3, <2>1, <3>2 DEF CInv, CallersSaw, Follows
  <2>2. CASE /\ worker'[w].op = worker[w].op /\ UNCHANGED <<op, appt>>
             /\ op[worker[w].op].type # "create" => worker'[w].seen = appt
    <3>1. appt.cancelled
      BY <2>2 DEF CInv, CancelsAreTrue
    <3>2. op[worker[w].op].type # "create"
      <4>1. worker[w].op \in Ids
        <5>1. Busy(w)'
          BY DEF Busy
        <5> QED
          BY <2>2, <5>1, NextKeeps DEF IInv, WorkersHold
      <4> QED
        BY <2>2, <4>1 DEF CInv, BookingIsFirst, Ids
    <3> QED
      BY <2>2, <3>1, <3>2
  <2> QED
    BY <1>1, <2>1, <2>2 DEF Moves
<1> QED
  BY <1>4, <1>5, <1>7, <1>8 DEF CInv

-----------------------------------------------------------------------------
(* The property.                                                           *)

\* A message that a provider takes was wanted by the worker that sends it.
LEMMA SentIsWanted ==
    ASSUME Typed, NEW w \in Workers,
           Skip(w) \/ Push(w) \/ PushRaises(w) \/ Wait(w) \/ Email(w) \/ Text(w) \/ Pin(w)
    PROVE  \/ UNCHANGED accepted
           \/ \E i \in Ids, k \in Effects :
                /\ Calls(w, i, k) /\ Wanted(w, i)
                /\ accepted' = [accepted EXCEPT ![i][k] = @ + 1]
<1>1. CASE Skip(w) \/ Push(w) \/ PushRaises(w) \/ Wait(w)
  BY <1>1 DEF Skip, Push, PushRaises, Wait
<1>2. CASE Email(w)
  <2>1. PICK i \in Ids, status \in Outcomes :
          /\ Calls(w, i, "client_email") /\ Wanted(w, i)
          /\ Deliver(i, "client_email", status)
    BY <1>2 DEF Email
  <2> QED
    BY <2>1, DeliverEffects, EffectFacts
<1>3. CASE Text(w)
  <2>1. PICK i \in Ids :
          /\ Calls(w, i, "client_sms") /\ Wanted(w, i)
          /\ UNCHANGED accepted \/ \E status \in Outcomes : Deliver(i, "client_sms", status)
    BY <1>3 DEF Text
  <2> QED
    BY <2>1, DeliverEffects, EffectFacts
<1>4. CASE Pin(w)
  <2>1. PICK i \in Ids :
          /\ Calls(w, i, "pin_delivery") /\ Wanted(w, i)
          /\ UNCHANGED accepted \/ \E status \in Outcomes : Deliver(i, "pin_delivery", status)
    BY <1>4 DEF Pin
  <2> QED
    BY <2>1, DeliverEffects, EffectFacts
<1> QED
  BY <1>1, <1>2, <1>3, <1>4

\* No step sends a message of an ordinary operation once a cancellation has
\* been told, unless a row was late.
THEOREM NothingAfterCancellation == Spec => CancellationIsLast
<1> DEFINE A == \A i, c \in Ids :
                   /\ op[c].type = "cancel" /\ op[c].status = "completed"
                   /\ op[i].type # "cancel" /\ ~op[i].manual
                   /\ \A j \in Ids : ~op[j].late
                   => \A k \in Effects : accepted'[i][k] <= accepted[i][k]
<1>1. IInv /\ CInv /\ [Next]_vars => A
  <2> SUFFICES ASSUME IInv, CInv, [Next]_vars, NEW i \in Ids, NEW c \in Ids,
                      op[c].type = "cancel", op[c].status = "completed",
                      op[i].type # "cancel", ~op[i].manual, InTurn, NEW k \in Effects
               PROVE  accepted'[i][k] <= accepted[i][k]
    BY DEF InTurn
  <2>0. Typed /\ accepted[i][k] \in Nat
    BY SameTypes DEF IInv, Typed
  <2>1. CASE UNCHANGED accepted
    BY <2>0, <2>1
  <2>2. ASSUME NEW l \in Ids, NEW e \in Effects, Retry(l, e)
        PROVE  accepted'[i][k] <= accepted[i][k]
    <3>1. CASE UNCHANGED accepted
      BY <2>1, <3>1
    <3>2. ASSUME NEW j \in Ids, accepted' = [accepted EXCEPT ![j][e] = 0]
          PROVE  accepted'[i][k] <= accepted[i][k]
      <4>1. accepted'[i][k] = IF i = j /\ k = e THEN 0 ELSE accepted[i][k]
        BY <2>0, <3>2 DEF Typed
      <4> QED
        BY <2>0, <4>1
    <3>3. UNCHANGED accepted \/ \E j \in Ids : accepted' = [accepted EXCEPT ![j][e] = 0]
      <4>1. EnqueueRetry(l, e)
        BY <2>2 DEF Retry
      <4>2. UNCHANGED <<op, eff, accepted>> \/ \E j \in Ids : Rearmed(l, j, e)
        BY <2>0, <4>1, RetryEffects
      <4> QED
        BY <4>2 DEF Rearmed
    <3> QED
      BY <3>1, <3>2, <3>3
  <2>3. ASSUME NEW w \in Workers,
               Skip(w) \/ Push(w) \/ PushRaises(w) \/ Wait(w) \/ Email(w) \/ Text(w) \/ Pin(w)
        PROVE  accepted'[i][k] <= accepted[i][k]
    <3>1. CASE UNCHANGED accepted
      BY <2>1, <3>1
    <3>2. ASSUME NEW j \in Ids, NEW e \in Effects, Calls(w, j, e), Wanted(w, j),
                 accepted' = [accepted EXCEPT ![j][e] = @ + 1]
          PROVE  accepted'[i][k] <= accepted[i][k]
      <4>1. CASE i # j
        BY <2>0, <3>2, <4>1 DEF Typed
      <4>2. CASE i = j
        <5>1. worker[w].pc = "call" /\ worker[w].op = i
          BY <3>2, <4>2 DEF Calls
        <5>2. op[i].status = "processing"
          BY <2>0, <5>1, BusyFacts DEF Busy
        <5>3. Begun(c) /\ i # c
          BY DEF Begun
        <5>4. ~(i < c)
          BY <5>2, <5>3 DEF CInv, BegunClosesOlder, Live
        <5>5. c < i
          BY <5>3, <5>4 DEF Ids
        <5>6. worker[w].seen.cancelled
          BY <5>1, <5>5 DEF CInv, CallersSaw
        <5> QED
          BY <3>2, <4>2, <5>6 DEF Wanted
      <4> QED
        BY <4>1, <4>2
    <3> QED
      BY <2>0, <2>3, <3>1, <3>2, SentIsWanted
  <2>4. CASE UNCHANGED vars
    BY <2>1, <2>4 DEF vars
  <2>5. ASSUME NEW l \in Ids,
               (\E s \in States : Patch(l, s)) \/ Cancel(l) \/ RetryBlocked(l) \/ ClaimAges(l)
        PROVE  UNCHANGED accepted
    BY <2>5 DEF Patch, Cancel, RetryBlocked, ClaimAges
  <2>6. ASSUME NEW w \in Workers,
               \/ \E l \in Ids : Defer(w, l) \/ Claim(w, l)
               \/ \E e \in Effects : GiveUp(w, e) \/ Start(w, e)
               \/ Record(w) \/ Finish(w) \/ Crash(w)
        PROVE  UNCHANGED accepted
    BY <2>6 DEF Defer, Claim, GiveUp, Start, Record, Finish, Crash
  <2> QED
    BY <2>1, <2>2, <2>3, <2>4, <2>5, <2>6 DEF Next, Step
<1>2. IInv /\ CInv /\ [Next]_vars => [A]_vars
  BY <1>1
<1>3. Spec => [][A]_vars
  <2> HIDE DEF A
  <2> QED
    BY <1>2, CancelInit, CancelNext, InductiveInvariant, PTL DEF Spec
<1> QED
  BY <1>3 DEF CancellationIsLast
=============================================================================
