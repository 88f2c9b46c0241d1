-------------------------- MODULE BookingDelivery --------------------------
(***************************************************************************)
(* The provider effects of one appointment: its calendar event, the emails *)
(* and texts to the client, the PIN of its room.                           *)
(*                                                                         *)
(*   app/services/booking_operations.py   the ledger and its worker        *)
(*   app/dealer_os/router.py              PATCH, cancel, delivery retry    *)
(*   app/services/google/calendar_sync.py push_event                       *)
(*                                                                         *)
(* A request is one transaction under the lock of the appointment, and     *)
(* writes at most one operation.  created_at is the time its transaction   *)
(* began, before it had the lock: request i writes row i, rows are ordered *)
(* by number, and requests commit in any order.  The worker is split at    *)
(* each commit and each call to a provider.                                *)
(*                                                                         *)
(* client_email stands for all emails of an operation; update for          *)
(* reschedule too; "disabled" for a confirmation by text that is blocked   *)
(* for want of consent too.  Backoff between attempts is left out.         *)
(* Assumed: a worker ends within the ten minutes after which its claim is  *)
(* stale, or is dead.                                                      *)
(***************************************************************************)
EXTENDS Naturals, FiniteSets

CONSTANTS Workers,      \* the scheduler's job and the wake-ups after requests
          NoWork,       \* what an idle worker holds
          States,       \* what the appointment may say: time, title, invitee
          Booked,       \* what it says when it is booked
          NeedsMeet,    \* a video meeting on Google Meet
          Consent,      \* the client gave a phone number and consent to texts
          HasPin,       \* the booking opened a room with a PIN
          MaxAttempts,  \* _MAX_OPERATION_ATTEMPTS
          MaxRequests,  \* bound: requests, the booking included
          MaxFaults     \* bound: crashes

ASSUME BookingAssumption ==
    /\ Booked \in States
    /\ NeedsMeet \in BOOLEAN /\ Consent \in BOOLEAN /\ HasPin \in BOOLEAN
    /\ MaxAttempts \in Nat \ {0}
    /\ MaxRequests \in Nat \ {0} /\ MaxFaults \in Nat
    /\ NoWork \notin 1 .. MaxRequests

VARIABLES appt,      \* the appointment and its calendar event
          notice,    \* booking_notifications: confirmation statuses, consent to texts
          op,        \* booking_delivery_operations
          eff,       \* booking_delivery_effects of each operation
          done,      \* requests that have committed
          worker,    \* local variables of process_operation
          accepted,  \* messages taken by a provider since the effect was armed
          faults

rowVars == <<appt, notice, op, eff>>
vars    == <<rowVars, done, worker, accepted, faults>>

-----------------------------------------------------------------------------
Ids     == 1 .. MaxRequests
Effects == {"google", "client_email", "client_sms", "pin_delivery"}

\* _EFFECT_PRIORITY
Priority == [google |-> 10, client_email |-> 30, client_sms |-> 50, pin_delivery |-> 60]

TERMINAL_EFFECT_STATUSES == {"sent", "failed", "unavailable", "skipped", "action_required"}
ACTION_REQUIRED_EFFECT_STATUSES == {"failed", "unavailable", "action_required", "processing"}

Live           == {"pending", "processing"}
EffectStatuses == {"none"} \cup Live \cup TERMINAL_EFFECT_STATUSES
Terminal       == {"completed", "action_required", "superseded"}
Confirmations  == {"pending", "sent", "failed", "disabled"}
Notices        == [email: Confirmations, sms: Confirmations, consent: BOOLEAN]
Appointments   == [state: States, cancelled: BOOLEAN, live: BOOLEAN, id: BOOLEAN, join: BOOLEAN]
Keys           == {"create", "cancel", "lifecycle", "retry"} \X Appointments
                      \X (Effects \cup {"none"})

\* What a run of _run_effect leaves to be committed; "same" is not written.
Results == [status: EffectStatuses, email: Confirmations \cup {"same"},
            sms: Confirmations \cup {"same"}, id: BOOLEAN, join: BOOLEAN]

NoResult == [status |-> "none", email |-> "same", sms |-> "same", id |-> FALSE, join |-> FALSE]

FirstAppt == [state |-> Booked, cancelled |-> FALSE, live |-> TRUE, id |-> FALSE, join |-> FALSE]

Idle == [pc |-> "idle", op |-> NoWork, seen |-> FirstAppt, claimed |-> FirstAppt,
         mem |-> [k \in Effects |-> "none"], at |-> 0, result |-> NoResult]

TypeOK ==
    /\ appt \in Appointments
    /\ notice \in Notices
    /\ op \in [Ids -> [ type: {"none", "create", "update", "cancel"},
                        key: Keys, manual: BOOLEAN, late: BOOLEAN,
                        status: {"none"} \cup Live \cup Terminal,
                        attempts: 0 .. MaxAttempts, aged: BOOLEAN ]]
    /\ eff \in [Ids -> [Effects -> EffectStatuses]]
    /\ done \subseteq Ids
    /\ worker \in [Workers ->
          [ pc: {"idle", "scan", "call", "record"}, op: Ids \cup {NoWork},
            seen: Appointments, claimed: Appointments, mem: [Effects -> EffectStatuses],
            at: {0, 10, 30, 50, 60}, result: Results ]]
    /\ accepted \in [Ids -> [Effects -> Nat]]
    /\ faults \in 0 .. MaxFaults

-----------------------------------------------------------------------------
(* The ledger *)

\* lifecycle_idempotency_key, a digest of the appointment and its event: the id
\* at Google is not part of it, the link in the event's description is.
Key(kind, a, k) == <<kind, [a EXCEPT !.id = FALSE], k>>

Absent == [type |-> "none", key |-> Key("create", FirstAppt, "none"), manual |-> FALSE,
           late |-> FALSE, status |-> "none", attempts |-> 0, aged |-> FALSE]

\* late: the row is older than one that was committed before it.
Row(i, type, key, manual) ==
    [ Absent EXCEPT !.type = type, !.key = key, !.manual = manual, !.status = "pending",
                    !.late = \E j \in Ids : j > i /\ op[j].status # "none" ]

Armed(keys) == [k \in Effects |-> IF k \in keys THEN "pending" ELSE "none"]

\* The effects enqueue writes for each type.
EffectsOf(type) ==
    {"google", "client_email"}
        \cup (IF type # "update" /\ notice.consent THEN {"client_sms"} ELSE {})
        \cup (IF type = "create" /\ HasPin THEN {"pin_delivery"} ELSE {})

\* The booking has committed: appointment, event, notice and first operation.
Init ==
    /\ appt = FirstAppt
    /\ notice = [email |-> "pending", sms |-> IF Consent THEN "pending" ELSE "disabled",
                 consent |-> Consent]
    /\ op = [i \in Ids |->
               IF i = 1 THEN [Absent EXCEPT !.type = "create", !.status = "pending"] ELSE Absent]
    /\ eff = [i \in Ids |-> Armed(IF i = 1 THEN EffectsOf("create") ELSE {})]
    /\ done = {1}
    /\ worker = [w \in Workers |-> Idle]
    /\ accepted = [i \in Ids |-> [k \in Effects |-> 0]]
    /\ faults = 0

\* Mutant of Superseded: a change in progress becomes obsolete too.
Superseded_Running(types) ==
    [j \in Ids |-> IF op[j].status \in Live /\ op[j].type \in types
                   THEN [op[j] EXCEPT !.status = "superseded"] ELSE op[j]]

\* The rows after a newer change made queued ones of these types obsolete.
Superseded(types) ==
    [j \in Ids |-> IF op[j].status = "pending" /\ op[j].type \in types
                   THEN [op[j] EXCEPT !.status = "superseded"] ELSE op[j]]

\* enqueue: the row of the same key, or a new one that supersedes older ones.
Enqueue(i, type, key) ==
    IF \E j \in Ids : op[j].status # "none" /\ op[j].key = key
    THEN UNCHANGED <<op, eff>>
    ELSE /\ op' = [Superseded(IF type = "cancel" THEN {"create", "update", "cancel"}
                                                 ELSE {"update"})
                       EXCEPT ![i] = Row(i, type, key, FALSE)]
         /\ eff' = [eff EXCEPT ![i] = Armed(EffectsOf(type))]

-----------------------------------------------------------------------------
(* Requests *)

Commit(i) ==
    /\ i \notin done
    /\ done' = done \cup {i}
    /\ UNCHANGED <<worker, faults>>

\* patch_rep_appointment; a cancelled appointment's event comes back to life.
\* A change of the phone number takes back the consent to texts.
Patch(i, s) ==
    /\ Commit(i)
    /\ appt' = [appt EXCEPT !.state = s, !.live = TRUE]
    /\ \/ UNCHANGED notice
       \/ /\ s # appt.state
          /\ notice' = [notice EXCEPT !.sms = "disabled", !.consent = FALSE]
    /\ Enqueue(i, "update", Key("lifecycle", appt', "none"))
    /\ UNCHANGED accepted

\* _cancel_rep_appointment; a cancelled appointment is answered as it is.
Cancel(i) ==
    /\ Commit(i)
    /\ IF appt.cancelled
       THEN UNCHANGED <<appt, op, eff>>
       ELSE /\ appt' = [appt EXCEPT !.cancelled = TRUE, !.live = FALSE]
            /\ Enqueue(i, "cancel", Key("cancel", FirstAppt, "none"))
    /\ UNCHANGED <<notice, accepted>>

\* The effect is on its way; Google's by a retry with the same payload only.
Queued(k) ==
    \E j \in Ids : /\ op[j].status \in Live
                   /\ eff[j][k] \in Live
                   /\ k = "google" => op[j].manual

\* Mutant of Kept: a send is repeated when it is asked for again.
Kept_Live == Live

\* The statuses enqueue_manual_retry does not arm again.
Kept == Live \cup {"sent"}

\* enqueue_manual_retry
EnqueueRetry(i, k) ==
    LET key  == Key("retry", appt, k)
        same == {j \in Ids : op[j].status # "none" /\ op[j].key = key}
    IN
    IF Queued(k) \/ \E j \in same : eff[j][k] \in Kept
    THEN UNCHANGED <<op, eff, accepted>>
    ELSE \E j \in IF same = {} THEN {i} ELSE same :
           /\ op' = [op EXCEPT ![j] =
                IF same = {}
                THEN Row(i, IF appt.cancelled THEN "cancel" ELSE "update", key, TRUE)
                ELSE [@ EXCEPT !.status = "pending", !.attempts = 0, !.aged = FALSE]]
           /\ eff' = [eff EXCEPT ![j] = Armed({k})]
           /\ accepted' = [accepted EXCEPT ![j][k] = 0]

\* retry_rep_appointment_delivery; what was sent is answered so.
Retry(i, k) ==
    /\ Commit(i)
    /\ \/ /\ k = "google"
          /\ UNCHANGED notice
       \/ /\ k = "client_email"
          /\ notice.email # "sent"
          /\ notice' = [notice EXCEPT !.email = "pending"]
       \/ /\ k = "client_sms"
          /\ notice.consent
          /\ notice.sms # "sent"
          /\ notice' = [notice EXCEPT !.sms = "pending"]
    /\ EnqueueRetry(i, k)
    /\ UNCHANGED appt

\* The same request for a text to a phone number without consent.
RetryBlocked(i) ==
    /\ Commit(i)
    /\ ~notice.consent
    /\ notice' = [notice EXCEPT !.sms = "disabled"]
    /\ UNCHANGED <<appt, op, eff, accepted>>

-----------------------------------------------------------------------------
(* The worker: claim *)

\* Mutant of Claimable: only a queued row is taken.
Claimable_Pending(i) == op[i].status = "pending"

\* The row process_operation may lock: pending, or a claim ten minutes old.
Claimable(i) ==
    \/ op[i].status = "pending"
    \/ op[i].status = "processing" /\ op[i].aged

\* Mutant of Oldest: the order of operations is not looked at.
Oldest_Any(i) == i \in Ids

Oldest(i) == \A j \in Ids : j < i => op[j].status \notin Live

\* An older operation of the appointment comes first: back to the queue.
Defer(w, i) ==
    /\ worker[w].pc = "idle"
    /\ Claimable(i)
    /\ ~Oldest(i)
    /\ op' = [op EXCEPT ![i].status = "pending", ![i].aged = FALSE]
    /\ UNCHANGED <<appt, notice, eff, done, worker, accepted, faults>>

\* The claim commits; then the effects are read, and never read again.  The
\* worker of a booking keeps the appointment it read for claimed_state_key.
Claim(w, i) ==
    /\ worker[w].pc = "idle"
    /\ Claimable(i)
    /\ Oldest(i)
    /\ op' = [op EXCEPT ![i].status = "processing", ![i].aged = FALSE,
                        ![i].attempts = IF op[i].status = "pending" /\ @ < MaxAttempts
                                        THEN @ + 1 ELSE @]
    /\ LET read == IF op[i].type = "create" THEN appt ELSE FirstAppt IN
       worker' = [worker EXCEPT ![w] =
         [Idle EXCEPT !.pc = "scan", !.op = i, !.mem = eff[i],
                      !.seen = read, !.claimed = read]]
    /\ UNCHANGED <<appt, notice, eff, done, accepted, faults>>

-----------------------------------------------------------------------------
(* The worker: the loop over the effects *)

\* The effects the loop has still to look at, and the next of them.
Left(w) ==
    {k \in Effects : worker[w].mem[k] \in Live /\ Priority[k] > worker[w].at}

Looks(w, k) ==
    /\ worker[w].pc = "scan"
    /\ k \in Left(w)
    /\ \A j \in Left(w) : Priority[k] <= Priority[j]

\* The worker commits the status of its effect k.
Write(w, k, status) == eff' = [eff EXCEPT ![worker[w].op][k] = status]

\* Mutant of Repeatable: every call a dead worker left is made again.
Repeatable_All(k) == k \in Effects

\* stale_effect_recovery: the event at Google has an id of ours.
Repeatable(k) == k = "google"

\* A dead worker left a call whose outcome is unknown: a person decides.
GiveUp(w, k) ==
    /\ Looks(w, k)
    /\ worker[w].mem[k] = "processing"
    /\ ~Repeatable(k)
    /\ Write(w, k, "action_required")
    /\ worker' = [worker EXCEPT ![w] =
         [worker[w] EXCEPT !.at = Priority[k], !.mem[k] = "action_required"]]
    /\ UNCHANGED <<appt, notice, op, done, accepted, faults>>

\* The effect is committed as processing, then the context is read: afresh,
\* except by the worker of a booking.
Start(w, k) ==
    /\ Looks(w, k)
    /\ worker[w].mem[k] = "pending" \/ Repeatable(k)
    /\ Write(w, k, "processing")
    /\ LET seen == IF op[worker[w].op].type = "create" THEN worker[w].seen ELSE appt IN
       worker' = [worker EXCEPT ![w] =
         [worker[w] EXCEPT !.pc = "call", !.at = Priority[k], !.mem[k] = "processing",
                           !.seen = seen]]
    /\ UNCHANGED <<appt, notice, op, done, accepted, faults>>

\* The call of effect k of operation i is due.
Calls(w, i, k) ==
    /\ worker[w].pc = "call"
    /\ i = worker[w].op
    /\ Priority[k] = worker[w].at

\* Mutant of Wanted: the appointment's status is not looked at.
Wanted_Always(w, i) == i \in Ids

\* Only a cancellation goes out for a cancelled appointment.
Wanted(w, i) == op[i].type = "cancel" \/ ~worker[w].seen.cancelled

\* A text that confirms the booking; other texts say that it is cancelled.
Confirms(i) == op[i].type = "create" \/ op[i].manual

\* The message needs the link of a video meeting that has none yet.
LinkMissing(w, i, k) ==
    /\ NeedsMeet
    /\ ~worker[w].seen.join
    /\ IF k = "client_sms" THEN notice.consent /\ Confirms(i) ELSE op[i].type # "cancel"

Exhausted(i) == op[i].attempts >= MaxAttempts

Answer(w, result) ==
    worker' = [worker EXCEPT ![w] = [@ EXCEPT !.pc = "record", !.result = result]]

\* A text is skipped without consent, any effect that is no longer wanted.
Skip(w) ==
    \E i \in Ids, k \in Effects :
       /\ Calls(w, i, k)
       /\ ~Wanted(w, i) \/ (k = "client_sms" /\ ~notice.consent)
       /\ Answer(w, [NoResult EXCEPT !.status = "skipped"])
       /\ UNCHANGED <<rowVars, done, accepted, faults>>

\* push_to_google swallows every error; an event that has its id, and its link
\* if it needs one, counts as sent, whether Google took the push or not.
Push(w) ==
    \E i \in Ids, replied \in BOOLEAN, minted \in BOOLEAN :
       LET id == worker[w].seen.id \/ replied
           ok == id /\ (minted \/ ~LinkMissing(w, i, "google"))
       IN
       /\ Calls(w, i, "google")
       /\ Wanted(w, i)
       /\ minted => replied /\ LinkMissing(w, i, "google")
       /\ Answer(w, [NoResult EXCEPT
            !.id = id, !.join = worker[w].seen.join \/ minted,
            !.status = IF ok THEN "sent"
                       ELSE IF Exhausted(i) THEN "action_required" ELSE "pending"])
       /\ UNCHANGED <<rowVars, done, accepted, faults>>

\* An exception around the push: it is made again in the next attempt, or a
\* person decides, whether the event has an id or not.
PushRaises(w) ==
    \E i \in Ids :
       /\ Calls(w, i, "google")
       /\ Wanted(w, i)
       /\ Answer(w, [NoResult EXCEPT !.status =
            IF Exhausted(i) THEN "action_required" ELSE "pending"])
       /\ UNCHANGED <<rowVars, done, accepted, faults>>

\* A message waits for the link, or is given up with its confirmation.
Wait(w) ==
    \E i \in Ids, k \in {"client_email", "client_sms"} :
       LET end == IF Exhausted(i) THEN "failed" ELSE "same" IN
       /\ Calls(w, i, k)
       /\ Wanted(w, i)
       /\ LinkMissing(w, i, k)
       /\ Answer(w, [NoResult EXCEPT
            !.status = IF Exhausted(i) THEN "action_required" ELSE "pending",
            !.email  = IF k = "client_email" THEN end ELSE "same",
            !.sms    = IF k = "client_sms" THEN end ELSE "same"])
       /\ UNCHANGED <<rowVars, done, accepted, faults>>

\* The provider takes the message or not, and says so, denies it, or fails.
Deliver(i, k, status) ==
    \E took \in BOOLEAN :
       /\ status = "sent" => took
       /\ status = "failed" => ~took
       /\ accepted' = IF took THEN [accepted EXCEPT ![i][k] = @ + 1] ELSE accepted
       /\ UNCHANGED <<rowVars, done, faults>>

Outcomes == {"sent", "failed", "action_required"}

Email(w) ==
    \E i \in Ids, status \in Outcomes :
       /\ Calls(w, i, "client_email")
       /\ Wanted(w, i)
       /\ ~LinkMissing(w, i, "client_email")
       /\ Deliver(i, "client_email", status)
       /\ Answer(w, [NoResult EXCEPT !.status = status, !.email =
            IF op[i].type = "cancel" \/ status = "action_required" THEN "same" ELSE status])

\* send_confirmation_sms sends while the notice says pending, and turns every
\* error into a failure; a cancellation's errors are not caught there.
Text(w) ==
    \E i \in Ids :
       /\ Calls(w, i, "client_sms")
       /\ Wanted(w, i)
       /\ notice.consent
       /\ ~LinkMissing(w, i, "client_sms")
       /\ \/ /\ Confirms(i)
             /\ notice.sms # "pending"
             /\ Answer(w, [NoResult EXCEPT
                  !.status = IF notice.sms = "sent" THEN "sent" ELSE "failed"])
             /\ UNCHANGED <<rowVars, done, accepted, faults>>
          \/ /\ Confirms(i)
             /\ notice.sms = "pending"
             /\ \E status \in Outcomes :
                  LET known == IF status = "sent" THEN "sent" ELSE "failed" IN
                  /\ Deliver(i, "client_sms", status)
                  /\ Answer(w, [NoResult EXCEPT !.status = known, !.sms = known])
          \/ /\ ~Confirms(i)
             /\ \E status \in Outcomes :
                  /\ Deliver(i, "client_sms", status)
                  /\ Answer(w, [NoResult EXCEPT !.status = status])

\* The PIN follows the confirmations; a confirmation by text carries it.  The
\* text and the email of deliver_pin are one message.
Pin(w) ==
    \E i \in Ids :
       LET states == {notice.email, notice.sms}
           ready  == "pending" \notin states /\ states \cap {"sent", "disabled"} # {}
          inText == notice.consent /\ notice.sms = "sent"
       IN
       /\ Calls(w, i, "pin_delivery")
       /\ Wanted(w, i)
       /\ IF ready /\ ~inText
          THEN \E status \in Outcomes :
                  /\ Deliver(i, "pin_delivery", status)
                  /\ Answer(w, [NoResult EXCEPT !.status = status])
          ELSE /\ Answer(w, [NoResult EXCEPT !.status =
                    IF ready THEN "sent"
                    ELSE IF "pending" \in states THEN "pending" ELSE "action_required"])
               /\ UNCHANGED <<rowVars, done, accepted, faults>>

\* The result is committed: the effect, the notice, the event's id and link.
Record(w) ==
    \E k \in Effects :
       LET result == worker[w].result
           found  == [worker[w].seen EXCEPT !.id = @ \/ result.id, !.join = @ \/ result.join]
           seen   == IF op[worker[w].op].type = "create" THEN found ELSE FirstAppt
       IN
       /\ worker[w].pc = "record"
       /\ Priority[k] = worker[w].at
       /\ Write(w, k, result.status)
       /\ notice' = [notice EXCEPT
                       !.email = IF result.email = "same" THEN @ ELSE result.email,
                       !.sms   = IF result.sms = "same" THEN @ ELSE result.sms]
       /\ appt' = [appt EXCEPT !.id = @ \/ result.id, !.join = @ \/ result.join]
       /\ worker' = [worker EXCEPT ![w] =
            [worker[w] EXCEPT !.pc = "scan", !.mem[k] = result.status, !.seen = seen,
                              !.result = NoResult]]
       /\ UNCHANGED <<op, done, accepted, faults>>

-----------------------------------------------------------------------------
(* The worker: the end of the operation *)

\* Mutant of Aggregate: the operation takes the name of its effects' status.
Aggregate_Failed(mem) ==
    IF \E k \in Effects : mem[k] = "pending" THEN "pending"
    ELSE IF \E k \in Effects : mem[k] \in ACTION_REQUIRED_EFFECT_STATUSES
    THEN "failed" ELSE "completed"

\* aggregate_operation_status
Aggregate(mem) ==
    IF \E k \in Effects : mem[k] = "pending" THEN "pending"
    ELSE IF \E k \in Effects : mem[k] \in ACTION_REQUIRED_EFFECT_STATUSES
    THEN "action_required" ELSE "completed"

\* The queued changes that the booking's confirmation has already told.
Told(w) ==
    LET key == Key("lifecycle", worker[w].claimed, "none") IN
    {j \in Ids : /\ op[worker[w].op].type = "create"
                 /\ Aggregate(worker[w].mem) = "completed"
                 /\ Key("lifecycle", worker[w].seen, "none") = key
                 /\ op[j].status = "pending"
                 /\ op[j].key = key}

\* The operation's status is written from the effects as this worker knows
\* them, whatever the row says by now.
Finish(w) ==
    /\ worker[w].pc = "scan"
    /\ Left(w) = {}
    /\ op' = [j \in Ids |->
                IF j = worker[w].op
                THEN [op[j] EXCEPT !.status = Aggregate(worker[w].mem), !.aged = FALSE]
                ELSE IF j \in Told(w) THEN [op[j] EXCEPT !.status = "superseded"] ELSE op[j]]
    /\ worker' = [worker EXCEPT ![w] = Idle]
    /\ UNCHANGED <<appt, notice, eff, done, accepted, faults>>

Step(w) ==
    \/ \E k \in Effects : GiveUp(w, k) \/ Start(w, k)
    \/ Skip(w) \/ Push(w) \/ PushRaises(w) \/ Wait(w) \/ Email(w) \/ Text(w) \/ Pin(w)
    \/ Record(w)
    \/ Finish(w)

-----------------------------------------------------------------------------
(* The process and its clock *)

Crash(w) ==
    /\ worker[w].pc # "idle"
    /\ faults < MaxFaults
    /\ faults' = faults + 1
    /\ worker' = [worker EXCEPT ![w] = Idle]
    /\ UNCHANGED <<rowVars, done, accepted>>

\* Ten minutes pass over the claim of a dead worker.
ClaimAges(i) ==
    /\ op[i].status = "processing"
    /\ ~op[i].aged
    /\ \A w \in Workers : worker[w].op # i
    /\ op' = [op EXCEPT ![i].aged = TRUE]
    /\ UNCHANGED <<appt, notice, eff, done, worker, accepted, faults>>

Next ==
    \/ \E i \in Ids : \/ \E s \in States : Patch(i, s)
                      \/ Cancel(i)
                      \/ \E k \in Effects : Retry(i, k)
                      \/ RetryBlocked(i)
                      \/ ClaimAges(i)
    \/ \E w \in Workers : \/ \E i \in Ids : Defer(w, i) \/ Claim(w, i)
                          \/ Step(w)
                          \/ Crash(w)

Spec == Init /\ [][Next]_vars

\* A worker that runs goes on, clocks advance, and the scheduler takes what is
\* due every tick.
FairSpec ==
    /\ Spec
    /\ \A w \in Workers : WF_vars(Step(w))
    /\ \A i \in Ids : WF_vars(ClaimAges(i)) /\ SF_vars(\E w \in Workers : Claim(w, i))

-----------------------------------------------------------------------------
(* Safety *)

\* An email or a text is sent at most once for each time its effect was armed,
\* by the operation or by a person, through crashes and take-overs
\* (booking_operations.py: a crash "can never blindly repeat an SES/SMS send
\* with an ambiguous outcome").
AtMostOncePerArming ==
    \A i \in Ids, k \in Effects : accepted[i][k] <= 1

Calling(w) == worker[w].pc \in {"call", "record"}

\* Two workers never call for the same operation, nor for two changes of the
\* appointment at once, but for manual retries and rows that are older than one
\* committed before them (process_operation: "Provider effects for one
\* appointment must never overlap").
NoOverlap ==
    \A v, w \in Workers :
       v # w /\ Calling(v) /\ Calling(w) =>
          /\ worker[v].op # worker[w].op
          /\ \E i \in {worker[v].op, worker[w].op} : op[i].late \/ op[i].manual

\* A successful effect stays so and is never armed again, by a manual retry, a
\* recovery or a worker that knows less (enqueue_manual_retry: "successful
\* sends are never repeated").
SentIsFinal ==
    [][\A i \in Ids, k \in Effects : eff[i][k] = "sent" => eff'[i][k] = "sent"]_vars

\* A superseded operation is over: it sends nothing, whoever was about to work on it.
SupersededIsSilent ==
    [][\A i \in Ids : op[i].status = "superseded" =>
          \A k \in Effects : accepted'[i][k] <= accepted[i][k]]_vars

\* Once the client was told that the appointment is cancelled, no operation says
\* anything else, the booking's own included, but for manual retries and late rows.
CancellationIsLast ==
    [][\A i, c \in Ids :
          /\ op[c].type = "cancel" /\ op[c].status = "completed"
          /\ op[i].type # "cancel" /\ ~op[i].manual
          /\ \A j \in Ids : ~op[j].late
          => \A k \in Effects : accepted'[i][k] <= accepted[i][k]]_vars

\* The messages of the ledger implement OneSendPerArming; Google's event is not
\* a message.
Slots == Ids \X (Effects \ {"google"})

Ledger == INSTANCE OneSendPerArming WITH
            armed <- {x \in Slots : eff[x[1]][x[2]] \in Live},
            sends <- [x \in Slots |-> accepted[x[1]][x[2]]]

ImplementsOneSend == Ledger!Spec

-----------------------------------------------------------------------------
(* Liveness *)

\* The PIN of the booking waits for a confirmation that nothing will settle.
PinWaits ==
    /\ "pending" \in {notice.email, notice.sms}
    /\ \E i \in Ids : /\ eff[i]["pin_delivery"] \in Live
                      /\ eff[i]["client_email"] \notin Live
                      /\ eff[i]["client_sms"] \notin Live

\* Every operation ends, and the ones queued behind it have their turn, unless
\* the PIN waits (process_operation: "the scheduler will retry the newer row
\* after that operation reaches a terminal state").
OperationsEndOrWait ==
    \A i \in Ids : op[i].status \in Live ~> op[i].status \in Terminal \/ PinWaits

=============================================================================
