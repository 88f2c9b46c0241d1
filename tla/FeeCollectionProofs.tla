------------------------ MODULE FeeCollectionProofs ------------------------
(***************************************************************************)
(* Safety of FeeCollection for every number of intents, versions, workers, *)
(* authorizations and faults; and, for a dispatcher that runs alone, the   *)
(* finality of a revocation and the refinement of OneDebitPerIntent.       *)
(***************************************************************************)
EXTENDS FeeCollection, SequenceTheorems, FiniteSetTheorems, TLAPS

\* States of a dispatcher in which it holds an authorization.
Holding == {"lookup", "save", "create", "recover", "recreate", "record"}

\* A dispatcher that is not idle works for an existing row.
WorkersHoldRows ==
    \A w \in Workers :
        /\ worker[w].pc # "idle" => /\ worker[w].intent \in Transfers
                                    /\ transfer[worker[w].intent].status # "none"
        /\ worker[w].pc \in Holding => worker[w].auth \in AuthNos

\* A row that does not exist is blank, and nothing happened at Plaid for it.
RowsExistFirst ==
    \A t \in Transfers :
        IF transfer[t].status = "none"
        THEN /\ transfer[t] = NoTransfer
             /\ events[t] = <<>>
             /\ \A n \in AuthNos : debit[t][n] = "none"
        ELSE transfer[t].obligation \in Versions

\* One row per version of the obligation.
OneRowPerVersion ==
    \A t, u \in Transfers :
        /\ transfer[t].obligation = transfer[u].obligation
        /\ transfer[t].obligation \in Versions
        => t = u

\* A waiting row was never submitted and has no debit linked to it.
WaitingIsFresh ==
    \A t \in Transfers : transfer[t].status = "authorizing" =>
        transfer[t].plaid = 0 /\ ~transfer[t].submitted

RowInv ==
    /\ WorkersHoldRows
    /\ RowsExistFirst
    /\ OneRowPerVersion
    /\ WaitingIsFresh
    /\ InFlightIsProtected
    /\ WaitingIsBacked

\* The saved outcome of the risk check is that of the saved authorization.
RowsRememberReviews ==
    \A t \in Transfers :
        transfer[t].checked /\ transfer[t].auth # 0 => auths[t][transfer[t].auth] = "approved"

\* A dispatcher that will debit, or skip the review, holds a reviewed authorization.
WorkersRememberReviews ==
    \A w \in Workers :
        \/ worker[w].pc \in {"create", "recover", "recreate"}
        \/ worker[w].pc \in {"lookup", "save"} /\ worker[w].checked
        => auths[worker[w].intent][worker[w].auth] = "approved"

\* While Plaid remembers the key there is one final decision for an intent.
OneDecision == \A t \in Transfers : \A m, n \in Remembered(t) : m = n

ReviewInv ==
    /\ RowsRememberReviews
    /\ WorkersRememberReviews
    /\ OnlyReviewedDebits

\* The funds of a debit of t became available, even if it was returned since.
FundsArrived(t) == \E n \in AuthNos : debit[t][n] \in {"funds_available", "returned"}

\* Whoever says so, says it of a debit whose funds arrived: an unread event, a
\* dispatcher's reply, a row, an obligation.
EventsTellTrue ==
    \A t \in Transfers : \A i \in 1 .. Len(events[t]) :
        events[t][i].status = "funds_available" => FundsArrived(t)

RepliesTellTrue ==
    \A w \in Workers :
        worker[w].pc = "record" /\ worker[w].seen = "funds_available"
          => FundsArrived(worker[w].intent)

RowsTellTrue ==
    \A t \in Transfers : transfer[t].status = "funds_available" => FundsArrived(t)

FundsInv ==
    /\ EventsTellTrue
    /\ RepliesTellTrue
    /\ RowsTellTrue
    /\ CollectedMeansFundsArrived

IInv == TypeOK /\ RowInv /\ ReviewInv /\ OneDecision /\ FundsInv

\* Cancelling the intents of an obligation keeps the rows typed.
LEMMA CancelTransfersType ==
    ASSUME transfer \in [Transfers -> TransferType], NEW S
    PROVE  CancelTransfers(S) \in [Transfers -> TransferType]
<1> SUFFICES ASSUME NEW t \in Transfers PROVE CancelTransfers(S)[t] \in TransferType
  BY DEF CancelTransfers
<1> QED
  BY DEF CancelTransfers, TransferType, TransferStatuses, ProviderStatuses

\* Assigning one field of a row or of a dispatcher keeps its type.
LEMMA TransferFields ==
    ASSUME NEW r \in TransferType
    PROVE  /\ \A s \in TransferStatuses : [r EXCEPT !.status = s] \in TransferType
           /\ \A n \in AuthNos \cup {0} : /\ [r EXCEPT !.auth = n] \in TransferType
                                          /\ [r EXCEPT !.plaid = n] \in TransferType
           /\ \A b \in BOOLEAN : /\ [r EXCEPT !.checked = b] \in TransferType
                                 /\ [r EXCEPT !.submitted = b] \in TransferType
           /\ \A c \in {"no", "fresh", "stale"} : [r EXCEPT !.claimed = c] \in TransferType
           /\ \A f \in Failures \cup {"none"} : [r EXCEPT !.failure = f] \in TransferType
  BY DEF TransferType

\* Assigning one field of a dispatcher keeps its type.
LEMMA WorkerFields ==
    ASSUME NEW r \in WorkerType
    PROVE  /\ \A p \in WorkerPCs : [r EXCEPT !.pc = p] \in WorkerType
           /\ \A n \in AuthNos \cup {0} : [r EXCEPT !.auth = n] \in WorkerType
           /\ \A b \in BOOLEAN : [r EXCEPT !.checked = b] \in WorkerType
           /\ \A s \in ProviderStatuses : [r EXCEPT !.seen = s] \in WorkerType
           /\ \A f \in Failures : [r EXCEPT !.failure = f] \in WorkerType
  BY DEF WorkerType

\* Every way a dispatcher moves on is well-typed.
LEMMA DispatcherMoves ==
    ASSUME worker \in [Workers -> WorkerType], NEW w \in Workers
    PROVE  /\ \A p \in WorkerPCs : Goto(w, p) => worker' \in [Workers -> WorkerType]
           /\ \A n \in AuthNos \cup {0}, b \in BOOLEAN, p \in WorkerPCs :
                 Take(w, n, b, p) => worker' \in [Workers -> WorkerType]
           /\ \A f \in Failures : Fail(w, f) => worker' \in [Workers -> WorkerType]
           /\ \A s \in ProviderStatuses :
                 Answered(w, s) => worker' \in [Workers -> WorkerType]
<1>1. {"record", "failing"} \subseteq WorkerPCs
  BY DEF WorkerPCs
<1>2. ASSUME NEW p \in WorkerPCs, Goto(w, p) PROVE worker' \in [Workers -> WorkerType]
  BY <1>2, WorkerFields DEF Goto
<1>3. ASSUME NEW f \in Failures, Fail(w, f) PROVE worker' \in [Workers -> WorkerType]
  BY <1>1, <1>3, WorkerFields DEF Fail
<1>4. ASSUME NEW s \in ProviderStatuses, Answered(w, s)
      PROVE  worker' \in [Workers -> WorkerType]
  BY <1>1, <1>4, WorkerFields DEF Answered
<1>5. ASSUME NEW n \in AuthNos \cup {0}, NEW b \in BOOLEAN, NEW p \in WorkerPCs,
             Take(w, n, b, p)
      PROVE  worker' \in [Workers -> WorkerType]
  BY <1>5, WorkerFields DEF Take
<1> QED
  BY <1>2, <1>3, <1>4, <1>5

\* What these moves change of a dispatcher.
SameWork(u) == /\ worker'[u].intent = worker[u].intent
               /\ worker'[u].auth = worker[u].auth
               /\ worker'[u].checked = worker[u].checked

\* Goto touches only the program counter of its dispatcher.
LEMMA GotoEffects ==
    ASSUME worker \in [Workers -> WorkerType], NEW w \in Workers, NEW u \in Workers,
           NEW p, Goto(w, p)
    PROVE  /\ SameWork(u)
           /\ worker'[u].pc = IF u = w THEN p ELSE worker[u].pc
           /\ worker'[u].seen = worker[u].seen
<1>1. worker'[u] = IF u = w THEN [worker[w] EXCEPT !.pc = p] ELSE worker[u]
  BY DEF Goto
<1>2. CASE u # w
  BY <1>1, <1>2 DEF SameWork
<1>3. CASE u = w
  <2>1. worker[w] \in WorkerType
    OBVIOUS
  <2> QED
    BY <1>1, <1>3, <2>1 DEF SameWork, WorkerType
<1> QED
  BY <1>2, <1>3

\* Fail sends a dispatcher to the transaction that records a failure, and touches nothing else.
LEMMA FailEffects ==
    ASSUME worker \in [Workers -> WorkerType], NEW w \in Workers, NEW u \in Workers,
           NEW f, Fail(w, f)
    PROVE  /\ SameWork(u)
           /\ worker'[u].pc = IF u = w THEN "failing" ELSE worker[u].pc
           /\ worker'[u].seen = worker[u].seen
           /\ worker'[u].failure = IF u = w THEN f ELSE worker[u].failure
<1>1. worker'[u] = IF u = w THEN [worker[w] EXCEPT !.pc = "failing", !.failure = f]
                            ELSE worker[u]
  BY DEF Fail
<1>2. CASE u # w
  BY <1>1, <1>2 DEF SameWork
<1>3. CASE u = w
  <2>1. worker[w] \in WorkerType
    OBVIOUS
  <2> QED
    BY <1>1, <1>3, <2>1 DEF SameWork, WorkerType
<1> QED
  BY <1>2, <1>3

\* Answered sends a dispatcher to the transaction that records Plaid's reply.
LEMMA AnsweredEffects ==
    ASSUME worker \in [Workers -> WorkerType], NEW w \in Workers, NEW u \in Workers,
           NEW s, Answered(w, s)
    PROVE  /\ SameWork(u)
           /\ worker'[u].pc = IF u = w THEN "record" ELSE worker[u].pc
           /\ worker'[u].seen = IF u = w THEN s ELSE worker[u].seen
<1>1. worker'[u] = IF u = w THEN [worker[w] EXCEPT !.pc = "record", !.seen = s]
                            ELSE worker[u]
  BY DEF Answered
<1>2. CASE u # w
  BY <1>1, <1>2 DEF SameWork
<1>3. CASE u = w
  <2>1. worker[w] \in WorkerType
    OBVIOUS
  <2> QED
    BY <1>1, <1>3, <2>1 DEF SameWork, WorkerType
<1> QED
  BY <1>2, <1>3

\* Take hands a dispatcher the authorization and the review its intent already has.
LEMMA TakeEffects ==
    ASSUME worker \in [Workers -> WorkerType], NEW w \in Workers, NEW u \in Workers,
           NEW a, NEW c, NEW p, Take(w, a, c, p)
    PROVE  /\ worker'[u].intent = worker[u].intent
           /\ worker'[u].seen = worker[u].seen
           /\ worker'[u].auth = IF u = w THEN a ELSE worker[u].auth
           /\ worker'[u].checked = IF u = w THEN c ELSE worker[u].checked
           /\ worker'[u].pc = IF u = w THEN p ELSE worker[u].pc
<1>1. CASE u # w
  BY <1>1 DEF Take
<1>2. CASE u = w
  <2>1. worker[w] \in WorkerType
    OBVIOUS
  <2>2. worker'[w] = [worker[w] EXCEPT !.auth = a, !.checked = c, !.pc = p]
    BY DEF Take
  <2> QED
    BY <1>2, <2>1, <2>2 DEF WorkerType
<1> QED
  BY <1>1, <1>2

\* The idle dispatcher is a dispatcher.
LEMMA IdleType == Idle \in WorkerType
  BY DEF Idle, WorkerType, WorkerPCs, ProviderStatuses, Failures

\* The status sets the guards use are sets of statuses.
LEMMA StatusSets ==
    /\ ProviderStatuses \subseteq TransferStatuses
    /\ {"authorizing", "submitting", "action_required", "cancelled", "failed"}
         \subseteq TransferStatuses
    /\ {"repair", "transient", "declined"} \subseteq Failures
    /\ {"context", "lookup", "authorize", "save", "create", "recover", "recreate",
        "record", "failing"} \subseteq WorkerPCs
  BY DEF TransferStatuses, ProviderStatuses, Failures, WorkerPCs

\* The initial states are typed.
LEMMA InitType == Init => TypeOK
  BY PlaidAssumption, BoundsAssumption
     DEF Init, TypeOK, PlaidInit, PlaidTypeOK, NoTransfer, Idle,
         ObligationType, MandateType, TransferType, WorkerType,
         ObligationStatuses, TransferStatuses, ProviderStatuses, Failures, WorkerPCs,
         AuthNos

\* No action of the staff breaks a type.
LEMMA StaffType == TypeOK /\ Staff => TypeOK'
<1> SUFFICES ASSUME TypeOK, Staff PROVE TypeOK'
  OBVIOUS
<1> USE DEF TypeOK, PlaidTypeOK, plaidVars
<1>1. ASSUME NEW v \in Versions, SaveAllocation(v) PROVE TypeOK'
  <2>1. mandate' \in [Versions -> MandateType]
    BY <1>1 DEF SaveAllocation, Supersede, MandateType
  <2>2. obligation' \in [Versions -> ObligationType]
    BY <1>1 DEF SaveAllocation, ObligationType, ObligationStatuses
  <2>3. transfer' \in [Transfers -> TransferType]
    BY <1>1, CancelTransfersType DEF SaveAllocation, Supersede
  <2> QED
    BY <1>1, <2>1, <2>2, <2>3 DEF SaveAllocation
<1>2. ASSUME NEW v \in Versions, CreateObligation(v) PROVE TypeOK'
  <2>1. mandate' \in [Versions -> MandateType]
    BY <1>2 DEF CreateObligation, MandateType
  <2>2. obligation' \in [Versions -> ObligationType]
    BY <1>2 DEF CreateObligation, ObligationType, ObligationStatuses
  <2>3. transfer' \in [Transfers -> TransferType]
    BY <1>2, CancelTransfersType DEF CreateObligation
  <2> QED
    BY <1>2, <2>1, <2>2, <2>3 DEF CreateObligation
<1>3. ASSUME NEW v \in Versions, SendAuthorization(v) PROVE TypeOK'
  BY <1>3 DEF SendAuthorization, ObligationType, ObligationStatuses
<1>4. ASSUME NEW v \in Versions, NEW t \in Transfers, Release(v, t) PROVE TypeOK'
  <2>1. mandate[v].no \in 0 .. MaxMandates
    BY DEF MandateType
  <2>2. transfer' \in [Transfers -> TransferType]
    BY <1>4, <2>1 DEF Release, TransferType, TransferStatuses, NoTransfer
  <2>3. obligation' \in [Versions -> ObligationType]
    BY <1>4 DEF Release, ObligationType, ObligationStatuses
  <2> QED
    BY <1>4, <2>2, <2>3 DEF Release
<1> QED
  BY <1>1, <1>2, <1>3, <1>4 DEF Staff

\* No action of the client breaks a type.
LEMMA ClientType == TypeOK /\ Client => TypeOK'
<1> SUFFICES ASSUME TypeOK, Client PROVE TypeOK'
  OBVIOUS
<1> USE DEF TypeOK, PlaidTypeOK, plaidVars
<1>1. ASSUME NEW v \in Versions, SignMandate(v) PROVE TypeOK'
  <2>1. mandate[v].no + 1 \in 0 .. MaxMandates
    BY <1>1, BoundsAssumption DEF SignMandate, MandateType
  <2>2. mandate' \in [Versions -> MandateType]
    BY <1>1, <2>1 DEF SignMandate, MandateType
  <2>3. obligation' \in [Versions -> ObligationType]
    BY <1>1 DEF SignMandate, ObligationType, ObligationStatuses
  <2>4. transfer' \in [Transfers -> TransferType]
    BY <1>1, CancelTransfersType DEF SignMandate
  <2> QED
    BY <1>1, <2>2, <2>3, <2>4 DEF SignMandate
<1>2. ASSUME NEW v \in Versions, RevokeMandate(v) PROVE TypeOK'
  <2>1. mandate' \in [Versions -> MandateType]
    BY <1>2 DEF RevokeMandate, MandateType
  <2>2. obligation' \in [Versions -> ObligationType]
    BY <1>2 DEF RevokeMandate, AfterCancel, ObligationType, ObligationStatuses
  <2>3. transfer' \in [Transfers -> TransferType]
    BY <1>2, CancelTransfersType DEF RevokeMandate
  <2> QED
    BY <1>2, <2>1, <2>2, <2>3 DEF RevokeMandate
<1>3. ASSUME NEW v \in Versions, ExchangeSource(v) PROVE TypeOK'
  <2>1. mandate' \in [Versions -> MandateType]
    BY <1>3 DEF ExchangeSource, MandateType
  <2>2. transfer' \in [Transfers -> TransferType]
    BY <1>3, CancelTransfersType DEF ExchangeSource
  <2> QED
    BY <1>3, <2>1, <2>2 DEF ExchangeSource
<1>4. ASSUME NEW t \in Transfers, Resume(t) PROVE TypeOK'
  <2>1. transfer' \in [Transfers -> TransferType]
    <3>1. transfer \in [Transfers -> TransferType]
      OBVIOUS
    <3> QED
      <4> DEFINE n == IF transfer[t].failure = "repair" THEN 0 ELSE transfer[t].auth
      <4>1. n \in AuthNos \cup {0}
        BY <3>1 DEF TransferType
      <4>2. [transfer[t] EXCEPT !.status = "authorizing", !.claimed = "no", !.auth = n,
                                !.failure = "none"] \in TransferType
        <5> HIDE DEF n
        <5> QED
          BY <3>1, <4>1, TransferFields, StatusSets
      <4> QED
        BY <1>4, <3>1, <4>2 DEF Resume
  <2>2. obligation' \in [Versions -> ObligationType]
    BY <1>4 DEF Resume, ObligationType, ObligationStatuses
  <2> QED
    BY <1>4, <2>1, <2>2 DEF Resume
<1> QED
  BY <1>1, <1>2, <1>3, <1>4 DEF Client

\* A debit moves to a provider status, and so do its events.
LEMMA ProviderType ==
    ASSUME TypeOK, NEW t \in Transfers, PlaidProgress(t)
    PROVE  PlaidTypeOK'
<1> PICK n \in Debited(t) : \E s \in ProviderNext[debit[t][n]] :
        /\ debit' = [debit EXCEPT ![t][n] = s]
        /\ events' = [events EXCEPT ![t] = Append(@, [auth |-> n, status |-> s])]
        /\ UNCHANGED auths
  BY DEF PlaidProgress
<1>1. n \in AuthNos /\ debit[t][n] \in ProviderStatuses
  BY DEF Debited, TypeOK, PlaidTypeOK
<1>2. ProviderNext[debit[t][n]] \subseteq ProviderStatuses
  BY <1>1 DEF ProviderNext, ProviderStatuses
<1>3. PICK s \in ProviderStatuses :
        /\ debit' = [debit EXCEPT ![t][n] = s]
        /\ events' = [events EXCEPT ![t] = Append(@, [auth |-> n, status |-> s])]
        /\ UNCHANGED auths
  BY <1>2
<1>4. debit' \in [Transfers -> [AuthNos -> ProviderStatuses \cup {"none"}]]
  BY <1>1, <1>3 DEF TypeOK, PlaidTypeOK
<1>5. events' \in [Transfers -> Seq([auth: AuthNos, status: ProviderStatuses])]
  <2>1. events[t] \in Seq([auth: AuthNos, status: ProviderStatuses])
    BY DEF TypeOK, PlaidTypeOK
  <2>2. [auth |-> n, status |-> s] \in [auth: AuthNos, status: ProviderStatuses]
    BY <1>1
  <2>3. Append(events[t], [auth |-> n, status |-> s])
          \in Seq([auth: AuthNos, status: ProviderStatuses])
    BY <2>1, <2>2
  <2> QED
    BY <1>3, <2>3 DEF TypeOK, PlaidTypeOK
<1> QED
  BY <1>3, <1>4, <1>5 DEF TypeOK, PlaidTypeOK

\* Nothing Plaid or the clock does breaks a type.
LEMMA EnvironmentType == TypeOK /\ Environment => TypeOK'
<1> SUFFICES ASSUME TypeOK, Environment PROVE TypeOK'
  OBVIOUS
<1>1. ASSUME NEW v \in Versions, WindowMoves(v) PROVE TypeOK'
  BY <1>1 DEF WindowMoves, TypeOK, PlaidTypeOK, plaidVars
<1>2. ASSUME ItemRevoked PROVE TypeOK'
  <2>1. mandate' \in [Versions -> MandateType]
    BY <1>2 DEF ItemRevoked, TypeOK, MandateType
  <2>2. obligation' \in [Versions -> ObligationType]
    <3> SUFFICES ASSUME NEW v \in Versions PROVE obligation'[v] \in ObligationType
      BY <1>2 DEF ItemRevoked
    <3>1. AfterCancel(Transfers, v) \in ObligationStatuses
      BY DEF AfterCancel, TypeOK, ObligationType, ObligationStatuses
    <3> QED
      BY <1>2, <3>1 DEF ItemRevoked, TypeOK, ObligationType
  <2>3. transfer' \in [Transfers -> TransferType]
    BY <1>2, CancelTransfersType DEF ItemRevoked, TypeOK
  <2> QED
    BY <1>2, <2>1, <2>2, <2>3 DEF ItemRevoked, TypeOK, PlaidTypeOK, plaidVars
<1>3. ASSUME NEW t \in Transfers, ClaimAges(t) PROVE TypeOK'
  <2>1. transfer' \in [Transfers -> TransferType]
    BY <1>3 DEF ClaimAges, TypeOK, TransferType
  <2> QED
    BY <1>3, <2>1 DEF ClaimAges, TypeOK, PlaidTypeOK, plaidVars, feeVars
<1>4. ASSUME NEW t \in Transfers, ProviderStep(t) PROVE TypeOK'
  BY <1>4, ProviderType DEF ProviderStep, TypeOK, localVars
<1> QED
  BY <1>1, <1>2, <1>3, <1>4 DEF Environment

\* claim_due_transfers keeps the types.
LEMMA ClaimType == ASSUME TypeOK, NEW w \in Workers, ClaimStep(w) PROVE TypeOK'
<1>1. ASSUME NEW t \in Transfers, Claim(w, t) PROVE TypeOK'
  <2>1. transfer' \in [Transfers -> TransferType]
    <3>1. transfer \in [Transfers -> TransferType]
      BY DEF TypeOK
    <3> QED
      BY <1>1, <3>1, TransferFields, StatusSets DEF Claim
  <2>2. [Idle EXCEPT !.pc = "context", !.intent = t] \in WorkerType
    BY DEF Idle, WorkerType, WorkerPCs, ProviderStatuses, Failures
  <2> QED
    BY <1>1, <2>1, <2>2 DEF Claim, TypeOK, PlaidTypeOK, plaidVars, feeVars
<1>2. ASSUME NEW t \in Transfers, ClaimBlocked(w, t) PROVE TypeOK'
  <2>1. transfer' \in [Transfers -> TransferType]
    <3>1. transfer \in [Transfers -> TransferType]
      BY DEF TypeOK
    <3> QED
      BY <1>2, <3>1, TransferFields, StatusSets DEF ClaimBlocked
  <2>2. obligation' \in [Versions -> ObligationType]
    BY <1>2 DEF ClaimBlocked, TypeOK, ObligationType, ObligationStatuses
  <2> QED
    BY <1>2, <2>1, <2>2 DEF ClaimBlocked, TypeOK, PlaidTypeOK, plaidVars
<1> QED
  BY <1>1, <1>2 DEF ClaimStep

\* Plaid's authorization/create keeps its own state typed.
LEMMA CreateAuthorizationType ==
    ASSUME TypeOK, NEW t \in Transfers, NEW n \in AuthNos, CreateAuthorization(t, n)
    PROVE  auths' \in [Transfers -> [AuthNos -> Decisions \cup {"none"}]]
<1>1. auths \in [Transfers -> [AuthNos -> Decisions \cup {"none"}]]
  BY DEF TypeOK, PlaidTypeOK
<1>2. CASE UNCHANGED auths
  BY <1>1, <1>2
<1>3. CASE \E d \in Decisions : auths' = [auths EXCEPT ![t][n] = d]
  BY <1>1, <1>3
<1> QED
  BY <1>2, <1>3 DEF CreateAuthorization

\* Plaid's transfer/create keeps its own state typed.
LEMMA CreateTransferType ==
    ASSUME TypeOK, NEW t \in Transfers, NEW n \in AuthNos, CreateTransfer(t, n)
    PROVE  /\ debit' \in [Transfers -> [AuthNos -> ProviderStatuses \cup {"none"}]]
           /\ events' \in [Transfers -> Seq([auth: AuthNos, status: ProviderStatuses])]
           /\ debit'[t][n] \in ProviderStatuses
<1> DEFINE e == [auth |-> n, status |-> "pending"]
<1>1. /\ debit \in [Transfers -> [AuthNos -> ProviderStatuses \cup {"none"}]]
      /\ events \in [Transfers -> Seq([auth: AuthNos, status: ProviderStatuses])]
  BY DEF TypeOK, PlaidTypeOK
<1>2. "pending" \in ProviderStatuses
  BY DEF ProviderStatuses
<1>3. CASE debit[t][n] # "none"
  BY <1>1, <1>3 DEF CreateTransfer
<1>4. CASE debit[t][n] = "none"
  <2>1. debit' = [debit EXCEPT ![t][n] = "pending"]
        /\ events' = [events EXCEPT ![t] = Append(@, e)]
    BY <1>4 DEF CreateTransfer
  <2>2. e \in [auth: AuthNos, status: ProviderStatuses]
    BY <1>2
  <2>3. Append(events[t], e) \in Seq([auth: AuthNos, status: ProviderStatuses])
    BY <1>1, <2>2, AppendProperties
  <2> QED
    BY <1>1, <1>2, <2>1, <2>3
<1> QED
  BY <1>3, <1>4

\* What a dispatcher knows once it holds a row, and once it holds an authorization.
LEMMA DispatcherHolds ==
    ASSUME WorkersHoldRows, NEW w \in Workers, worker[w].pc # "idle"
    PROVE  /\ worker[w].intent \in Transfers
           /\ worker[w].pc \in Holding => worker[w].auth \in AuthNos
  BY DEF WorkersHoldRows

\* Every step of a dispatcher that holds a row keeps the types.
LEMMA DispatchType ==
    ASSUME TypeOK, WorkersHoldRows, NEW w \in Workers, DispatchStep(w)
    PROVE  TypeOK'
<1> DEFINE t == worker[w].intent
           n == worker[w].auth
<1>w. worker \in [Workers -> WorkerType] /\ transfer \in [Transfers -> TransferType]
  BY DEF TypeOK
<1>f. ReplyLost => faults' \in 0 .. MaxFaults
  BY BoundsAssumption DEF ReplyLost, TypeOK
<1>1. CASE LoadContext(w)
  <2>1. t \in Transfers
    BY <1>1, DispatcherHolds DEF LoadContext
  <2>2. transfer[t].auth \in AuthNos \cup {0} /\ transfer[t].checked \in BOOLEAN
    BY <1>w, <2>1 DEF TransferType
  <2>3. worker' \in [Workers -> WorkerType]
    BY <1>1, <1>w, <2>2, DispatcherMoves, StatusSets DEF LoadContext
  <2> QED
    BY <1>1, <2>3 DEF LoadContext, TypeOK, PlaidTypeOK, localVars, plaidVars
<1>2. CASE Lookup(w)
  <2>1. t \in Transfers /\ n \in AuthNos
    BY <1>2, DispatcherHolds DEF Lookup, Holding
  <2>2. debit[t][n] \in ProviderStatuses \cup {"none"}
    BY <2>1 DEF TypeOK, PlaidTypeOK
  <2>3. worker' \in [Workers -> WorkerType]
    BY <1>2, <1>w, <2>2, DispatcherMoves, StatusSets DEF Lookup
  <2>4. faults' \in 0 .. MaxFaults
    BY <1>2, <1>f DEF Lookup, TypeOK
  <2> QED
    BY <1>2, <2>3, <2>4 DEF Lookup, TypeOK, PlaidTypeOK, localVars, plaidVars
<1>3. CASE Authorize(w)
  <2>1. t \in Transfers
    BY <1>3, DispatcherHolds DEF Authorize
  <2>2. auths' \in [Transfers -> [AuthNos -> Decisions \cup {"none"}]]
    BY <1>3, <2>1, CreateAuthorizationType DEF Authorize, TypeOK, PlaidTypeOK
  <2>3. worker' \in [Workers -> WorkerType]
    BY <1>3, <1>w, DispatcherMoves, StatusSets DEF Authorize
  <2>4. faults' \in 0 .. MaxFaults
    BY <1>3, <1>f DEF Authorize, TypeOK
  <2> QED
    BY <1>3, <2>2, <2>3, <2>4 DEF Authorize, TypeOK, PlaidTypeOK, localVars
<1>4. CASE SaveAuthorization(w)
  <2>1. t \in Transfers /\ n \in AuthNos /\ worker[w].checked \in BOOLEAN
    BY <1>4, <1>w, DispatcherHolds DEF SaveAuthorization, Holding, WorkerType
  <2>2. worker' \in [Workers -> WorkerType]
    BY <1>4, <1>w, DispatcherMoves, StatusSets DEF SaveAuthorization
  <2>3. transfer' \in [Transfers -> TransferType]
    <3>1. [transfer[t] EXCEPT !.auth = n, !.checked = worker[w].checked] \in TransferType
      BY <1>w, <2>1, TransferFields
    <3> QED
      BY <1>4, <1>w, <3>1 DEF SaveAuthorization
  <2> QED
    BY <1>4, <2>2, <2>3 DEF SaveAuthorization, TypeOK, PlaidTypeOK, feeVars, plaidVars
<1>5. CASE Create(w) \/ Recreate(w)
  <2>1. t \in Transfers /\ n \in AuthNos
    BY <1>5, DispatcherHolds DEF Create, Recreate, Holding
  <2>2. PlaidTypeOK'
    BY <1>5, <2>1, CreateTransferType DEF Create, Recreate, TypeOK, PlaidTypeOK
  <2>3. CreateTransfer(t, n) => debit'[t][n] \in ProviderStatuses
    BY <2>1, CreateTransferType
  <2>4. worker' \in [Workers -> WorkerType]
    BY <1>5, <1>w, <2>3, DispatcherMoves, StatusSets DEF Create, Recreate
  <2>5. faults' \in 0 .. MaxFaults
    BY <1>5, <1>f DEF Create, Recreate, TypeOK
  <2> QED
    BY <1>5, <2>2, <2>4, <2>5 DEF Create, Recreate, TypeOK, localVars
<1>6. CASE Recover(w)
  <2>1. t \in Transfers /\ n \in AuthNos
    BY <1>6, DispatcherHolds DEF Recover, Holding
  <2>2. debit[t][n] \in ProviderStatuses \cup {"none"}
    BY <2>1 DEF TypeOK, PlaidTypeOK
  <2>3. worker' \in [Workers -> WorkerType]
    BY <1>6, <1>w, <2>2, DispatcherMoves, StatusSets DEF Recover
  <2>4. faults' \in 0 .. MaxFaults
    BY <1>6, <1>f DEF Recover, TypeOK
  <2> QED
    BY <1>6, <2>3, <2>4 DEF Recover, TypeOK, PlaidTypeOK, localVars, plaidVars
<1>7. CASE RecordSubmission(w)
  <2>1. t \in Transfers /\ n \in AuthNos /\ worker[w].seen \in TransferStatuses
    BY <1>7, <1>w, DispatcherHolds, StatusSets DEF RecordSubmission, Holding, WorkerType
  <2>2. worker' \in [Workers -> WorkerType]
    BY <1>7, <1>w, IdleType, DispatcherMoves, StatusSets DEF RecordSubmission
  <2>3. transfer' \in [Transfers -> TransferType]
    <3>1. [transfer[t] EXCEPT !.auth = n, !.plaid = n, !.status = worker[w].seen,
                              !.submitted = TRUE, !.checked = FALSE] \in TransferType
      BY <1>w, <2>1, TransferFields
    <3> QED
      BY <1>7, <1>w, <3>1 DEF RecordSubmission, Fail
  <2> QED
    BY <1>7, <2>2, <2>3 DEF RecordSubmission, TypeOK, PlaidTypeOK, feeVars, plaidVars
<1>8. CASE RecordFailure(w)
  <2>1. worker[w].failure \in Failures
    BY <1>w DEF WorkerType
  <2>2. worker' \in [Workers -> WorkerType]
    BY <1>8, <1>w, IdleType DEF RecordFailure
  <2>3. transfer' \in [Transfers -> TransferType]
    <3> DEFINE s == IF worker[w].failure = "declined" THEN "failed" ELSE "action_required"
    <3>1. s \in TransferStatuses
      BY StatusSets
    <3>2. t \in Transfers
      BY <1>8, DispatcherHolds DEF RecordFailure
    <3>3. [transfer[t] EXCEPT !.status = s, !.failure = worker[w].failure,
                              !.claimed = "no"] \in TransferType
      <4> HIDE DEF s
      <4> QED
        BY <1>w, <2>1, <3>1, <3>2, TransferFields
    <3> QED
      BY <1>8, <1>w, <3>3 DEF RecordFailure
  <2>4. obligation' \in [Versions -> ObligationType]
    BY <1>8 DEF RecordFailure, TypeOK, ObligationType, ObligationStatuses
  <2> QED
    BY <1>8, <2>2, <2>3, <2>4 DEF RecordFailure, TypeOK, PlaidTypeOK, plaidVars
<1> QED
  BY <1>1, <1>2, <1>3, <1>4, <1>5, <1>6, <1>7, <1>8 DEF DispatchStep

\* The end of a process keeps the types.
LEMMA CrashType == ASSUME TypeOK, NEW w \in Workers, Crash(w) PROVE TypeOK'
<1>1. Idle \in WorkerType
  BY IdleType
<1>2. faults' \in 0 .. MaxFaults
  BY BoundsAssumption DEF Crash, TypeOK
<1> QED
  BY <1>1, <1>2 DEF Crash, TypeOK, PlaidTypeOK, localVars, plaidVars

\* The next event of an intent names one of its authorizations and a provider status.
LEMMA NextEvent ==
    ASSUME TypeOK, NEW t \in Transfers, events[t] # <<>>
    PROVE  /\ Head(events[t]).auth \in AuthNos
           /\ Head(events[t]).status \in ProviderStatuses
           /\ Tail(events[t]) \in Seq([auth: AuthNos, status: ProviderStatuses])
<1> DEFINE E == [auth: AuthNos, status: ProviderStatuses]
<1>1. events[t] \in Seq(E)
  BY DEF TypeOK, PlaidTypeOK
<1>2. Head(events[t]) \in E /\ Tail(events[t]) \in Seq(E)
  <2> HIDE DEF E
  <2> QED
    BY <1>1, HeadTailProperties
<1> QED
  BY <1>2

\* Applying the next event of a transfer keeps the types.
LEMMA SyncType == ASSUME TypeOK, NEW t \in Transfers, SyncEvent(t) PROVE TypeOK'
<1> DEFINE e == Head(events[t])
           v == transfer[t].obligation
           linked == LinkedTo(t, e)
           applies == linked = e.auth /\ ShouldApply(transfer[t].status, e.status)
           rows == [transfer EXCEPT ![t] = [@ EXCEPT
                        !.plaid = linked,
                        !.status = IF applies THEN e.status ELSE transfer[t].status]]
<1>1. events[t] # <<>>
  BY DEF SyncEvent
<1>2. e.auth \in AuthNos /\ e.status \in ProviderStatuses
      /\ Tail(events[t]) \in Seq([auth: AuthNos, status: ProviderStatuses])
  BY <1>1, NextEvent
<1>3. linked \in AuthNos \cup {0}
  BY <1>2 DEF LinkedTo, TypeOK, TransferType
<1>4. rows \in [Transfers -> TransferType]
  <2>1. transfer \in [Transfers -> TransferType]
    BY DEF TypeOK
  <2>2. e.status \in TransferStatuses
    BY <1>2 DEF TransferStatuses
  <2> HIDE DEF linked, applies, e
  <2> QED
    <3> DEFINE s == IF applies THEN e.status ELSE transfer[t].status
    <3>1. s \in TransferStatuses
      BY <2>1, <2>2 DEF TransferType
    <3>2. [transfer[t] EXCEPT !.plaid = linked, !.status = s] \in TransferType
      <4> HIDE DEF s
      <4> QED
        BY <1>3, <2>1, <3>1, TransferFields
    <3> QED
      BY <2>1, <3>2
<1>5. transfer' = rows
  BY DEF SyncEvent
<1>6. obligation' \in [Versions -> ObligationType]
  <2>1. CASE obligation' = obligation
    BY <2>1 DEF TypeOK
  <2>2. CASE obligation' = [obligation EXCEPT ![v].status = Refreshed(v, rows)]
    <3> HIDE DEF rows
    <3>1. ASSUME v \in Versions PROVE Refreshed(v, rows) \in ObligationStatuses
      BY <3>1 DEF Refreshed, ObligationStatuses, TypeOK, ObligationType
    <3> QED
      BY <2>2, <3>1 DEF TypeOK, ObligationType
  <2> QED
    BY <2>1, <2>2 DEF SyncEvent
<1>7. PlaidTypeOK'
  BY <1>2 DEF SyncEvent, TypeOK, PlaidTypeOK
<1> QED
  BY <1>4, <1>5, <1>6, <1>7 DEF SyncEvent, TypeOK

\* Every step keeps the types.
LEMMA NextType == TypeOK /\ WorkersHoldRows /\ [Next]_vars => TypeOK'
<1> SUFFICES ASSUME TypeOK, WorkersHoldRows, [Next]_vars PROVE TypeOK'
  OBVIOUS
<1>1. CASE UNCHANGED vars
  BY <1>1 DEF vars, feeVars, plaidVars, TypeOK, PlaidTypeOK
<1> QED
  BY <1>1, StaffType, ClientType, EnvironmentType, ClaimType, DispatchType, CrashType,
     SyncType DEF Next
-----------------------------------------------------------------------------
(* What a step can do to a row.                                            *)

\* Fields of a row that no cancellation touches.
LEMMA CancelRow ==
    ASSUME transfer \in [Transfers -> TransferType], NEW S, NEW t \in Transfers
    PROVE  LET c == CancelTransfers(S)[t]
           IN  /\ c.obligation = transfer[t].obligation
               /\ c.mandate = transfer[t].mandate
               /\ c.auth = transfer[t].auth
               /\ c.checked = transfer[t].checked
               /\ c.plaid = transfer[t].plaid
               /\ c.submitted = transfer[t].submitted
               /\ c.failure = transfer[t].failure
               /\ IF t \in S /\ Unclaimed(t)
                  THEN transfer[t].status = "authorizing" /\ c.status = "cancelled"
                  ELSE c = transfer[t]
  BY DEF CancelTransfers, TransferType, Unclaimed

\* A handler changes one row, and of that row only these fields.
SameFee(t) == /\ transfer'[t].obligation = transfer[t].obligation
              /\ transfer'[t].mandate = transfer[t].mandate

\* What a release writes: one new row of the current version, waiting.
LEMMA ReleaseEffects ==
    ASSUME transfer \in [Transfers -> TransferType], NEW v \in Versions,
           NEW x \in Transfers, Release(v, x), NEW t \in Transfers
    PROVE  IF t = x
           THEN /\ transfer[t].status = "none"
                /\ transfer'[t].status = "authorizing" /\ transfer'[t].obligation = v
                /\ transfer'[t].mandate = mandate[v].no
                /\ transfer'[t].auth = 0 /\ ~transfer'[t].checked
                /\ transfer'[t].plaid = 0 /\ ~transfer'[t].submitted
           ELSE transfer'[t] = transfer[t]
  BY DEF Release, NoTransfer

\* What staff change when they resume a failed intent.
LEMMA ResumeEffects ==
    ASSUME transfer \in [Transfers -> TransferType], NEW x \in Transfers, Resume(x),
           NEW t \in Transfers
    PROVE  IF t = x
           THEN /\ SameFee(t)
                /\ transfer[t].status = "action_required"
                /\ transfer'[t].status = "authorizing"
                /\ transfer'[t].auth \in {0, transfer[t].auth}
                /\ transfer[t].failure # "repair" => transfer'[t].auth = transfer[t].auth
                /\ transfer'[t].checked = transfer[t].checked
                /\ transfer'[t].plaid = 0 /\ ~transfer'[t].submitted
           ELSE transfer'[t] = transfer[t]
<1>1. CASE t # x
  BY <1>1 DEF Resume
<1>2. CASE t = x
  <2> DEFINE n == IF transfer[x].failure = "repair" THEN 0 ELSE transfer[x].auth
  <2>1. /\ transfer[x] \in TransferType
        /\ n \in {0, transfer[x].auth}
        /\ transfer[x].failure # "repair" => n = transfer[x].auth
    OBVIOUS
  <2>2. transfer'[x] = [transfer[x] EXCEPT !.status = "authorizing", !.claimed = "no",
                                           !.auth = n, !.failure = "none"]
    BY DEF Resume
  <2>3. transfer[x].plaid = 0 /\ ~transfer[x].submitted
        /\ transfer[x].status = "action_required"
    BY DEF Resume
  <2> HIDE DEF n
  <2> QED
    BY <1>2, <2>1, <2>2, <2>3 DEF TransferType, SameFee
<1> QED
  BY <1>1, <1>2

\* A claim, its refusal and its ageing.
LEMMA ClaimEffects ==
    ASSUME transfer \in [Transfers -> TransferType], NEW x \in Transfers,
           NEW s, NEW c, NEW t \in Transfers,
           transfer' = [transfer EXCEPT ![x] = [@ EXCEPT !.status = s, !.claimed = c]]
    PROVE  IF t = x
           THEN /\ SameFee(t)
                /\ transfer'[t].status = s
                /\ transfer'[t].auth = transfer[t].auth
                /\ transfer'[t].checked = transfer[t].checked
                /\ transfer'[t].plaid = transfer[t].plaid
                /\ transfer'[t].submitted = transfer[t].submitted
                /\ transfer'[t].failure = transfer[t].failure
           ELSE transfer'[t] = transfer[t]
<1>1. CASE t # x
  BY <1>1
<1>2. CASE t = x
  <2>1. transfer[x] \in TransferType
    OBVIOUS
  <2>2. transfer'[x] = [transfer[x] EXCEPT !.status = s, !.claimed = c]
    OBVIOUS
  <2> QED
    BY <1>2, <2>1, <2>2 DEF TransferType, SameFee
<1> QED
  BY <1>1, <1>2

\* What saving an authorization writes to its row.
LEMMA SaveEffects ==
    ASSUME transfer \in [Transfers -> TransferType], NEW w,
           worker[w].intent \in Transfers, SaveAuthorization(w), NEW t \in Transfers
    PROVE  \/ transfer'[t] = transfer[t]
           \/ /\ t = worker[w].intent
              /\ SameFee(t)
              /\ transfer'[t].status = transfer[t].status
              /\ transfer'[t].auth = worker[w].auth
              /\ transfer'[t].checked = worker[w].checked
              /\ transfer'[t].plaid = transfer[t].plaid
              /\ transfer'[t].submitted = transfer[t].submitted
              /\ transfer'[t].failure = transfer[t].failure
<1> DEFINE x == worker[w].intent
<1>1. CASE t # x \/ transfer' = transfer
  BY <1>1 DEF SaveAuthorization
<1>2. CASE t = x /\ transfer' # transfer
  <2>1. transfer[x] \in TransferType
    OBVIOUS
  <2>2. transfer'[x] = [transfer[x] EXCEPT !.auth = worker[w].auth,
                                           !.checked = worker[w].checked]
    BY <1>2 DEF SaveAuthorization
  <2> QED
    BY <1>2, <2>1, <2>2 DEF TransferType, SameFee
<1> QED
  BY <1>1, <1>2

\* What record_transfer_submission writes to the row and to its obligation.
LEMMA SubmissionEffects ==
    ASSUME transfer \in [Transfers -> TransferType], NEW w,
           worker[w].intent \in Transfers, RecordSubmission(w), NEW t \in Transfers
    PROVE  \/ transfer'[t] = transfer[t]
           \/ /\ t = worker[w].intent
              /\ SameFee(t)
              /\ transfer'[t].status = worker[w].seen
              /\ transfer'[t].auth = worker[w].auth
              /\ ~transfer'[t].checked
<1> DEFINE x == worker[w].intent
<1>1. CASE t # x \/ transfer' = transfer
  BY <1>1 DEF RecordSubmission
<1>2. CASE t = x /\ transfer' # transfer
  <2> DEFINE n == worker[w].auth
             s == worker[w].seen
  <2>1. transfer[x] \in TransferType
    OBVIOUS
  <2>2. transfer'[x] = [transfer[x] EXCEPT !.auth = n, !.plaid = n, !.status = s,
                                           !.submitted = TRUE, !.checked = FALSE]
    BY <1>2 DEF RecordSubmission
  <2>3. /\ transfer'[x].obligation = transfer[x].obligation
        /\ transfer'[x].mandate = transfer[x].mandate
        /\ transfer'[x].status = s
        /\ transfer'[x].auth = n
        /\ ~transfer'[x].checked
    <3> HIDE DEF n, s
    <3> QED
      BY <2>1, <2>2 DEF TransferType
  <2> QED
    BY <1>2, <2>3 DEF SameFee
<1> QED
  BY <1>1, <1>2

\* What record_transfer_submission_failure writes to the row and to its obligation.
LEMMA FailureEffects ==
    ASSUME transfer \in [Transfers -> TransferType], NEW w,
           worker[w].intent \in Transfers, RecordFailure(w), NEW t \in Transfers
    PROVE  \/ transfer'[t] = transfer[t]
           \/ /\ t = worker[w].intent
              /\ SameFee(t)
              /\ transfer'[t].status \in {"failed", "action_required"}
              /\ transfer'[t].auth = transfer[t].auth
              /\ transfer'[t].checked = transfer[t].checked
              /\ transfer'[t].failure = worker[w].failure
<1> DEFINE x == worker[w].intent
<1>1. CASE t # x \/ transfer' = transfer
  BY <1>1 DEF RecordFailure
<1>2. CASE t = x /\ transfer' # transfer
  <2> DEFINE s == IF worker[w].failure = "declined" THEN "failed" ELSE "action_required"
             f == worker[w].failure
  <2>1. transfer[x] \in TransferType /\ s \in {"failed", "action_required"}
    OBVIOUS
  <2>2. transfer'[x] = [transfer[x] EXCEPT !.status = s, !.failure = f, !.claimed = "no"]
    BY <1>2 DEF RecordFailure
  <2>3. /\ transfer'[x].obligation = transfer[x].obligation
        /\ transfer'[x].mandate = transfer[x].mandate
        /\ transfer'[x].status = s
        /\ transfer'[x].auth = transfer[x].auth
        /\ transfer'[x].checked = transfer[x].checked
        /\ transfer'[x].failure = f
    <3> HIDE DEF s, f
    <3> QED
      BY <2>1, <2>2 DEF TransferType
  <2> QED
    BY <1>2, <2>1, <2>3 DEF SameFee
<1> QED
  BY <1>1, <1>2

\* What the event sync writes to the row and to its obligation.
LEMMA SyncEffects ==
    ASSUME transfer \in [Transfers -> TransferType], NEW x \in Transfers, SyncEvent(x),
           NEW t \in Transfers
    PROVE  LET e == Head(events[t])
               applies == /\ LinkedTo(t, e) = e.auth
                          /\ ShouldApply(transfer[t].status, e.status)
           IN  IF t = x
               THEN /\ SameFee(t)
                    /\ transfer'[t].plaid = LinkedTo(t, e)
                    /\ transfer'[t].status = IF applies THEN e.status
                                                        ELSE transfer[t].status
                    /\ transfer'[t].auth = transfer[t].auth
                    /\ transfer'[t].checked = transfer[t].checked
                    /\ transfer'[t].submitted = transfer[t].submitted
                    /\ transfer'[t].failure = transfer[t].failure
               ELSE transfer'[t] = transfer[t]
<1>1. CASE t # x
  BY <1>1 DEF SyncEvent
<1>2. CASE t = x
  <2> DEFINE e == Head(events[x])
             n == LinkedTo(x, e)
             s == IF n = e.auth /\ ShouldApply(transfer[x].status, e.status)
                  THEN e.status ELSE transfer[x].status
  <2>1. transfer[x] \in TransferType
    OBVIOUS
  <2>2. transfer'[x] = [transfer[x] EXCEPT !.plaid = n, !.status = s]
    BY DEF SyncEvent
  <2>3. /\ transfer'[x].obligation = transfer[x].obligation
        /\ transfer'[x].mandate = transfer[x].mandate
        /\ transfer'[x].plaid = n
        /\ transfer'[x].status = s
        /\ transfer'[x].auth = transfer[x].auth
        /\ transfer'[x].checked = transfer[x].checked
        /\ transfer'[x].submitted = transfer[x].submitted
        /\ transfer'[x].failure = transfer[x].failure
    <3> HIDE DEF n, s
    <3> QED
      BY <2>1, <2>2 DEF TransferType
  <2> QED
    BY <1>2, <2>3 DEF SameFee
<1> QED
  BY <1>1, <1>2

\* Rows are created by a release and never deleted, and keep their fee.
LEMMA RowMoves ==
    ASSUME TypeOK, WorkersHoldRows, RowsExistFirst, Next, NEW t \in Transfers
    PROVE  \/ transfer'[t] = transfer[t]
           \/ \E v \in Versions : Release(v, t)
           \/ /\ transfer[t].status # "none"
              /\ transfer'[t].status # "none"
              /\ SameFee(t)
<1> DEFINE Moved == \/ transfer'[t] = transfer[t]
                    \/ \E v \in Versions : Release(v, t)
                    \/ /\ transfer[t].status # "none"
                       /\ transfer'[t].status # "none"
                       /\ SameFee(t)
<1>w. transfer \in [Transfers -> TransferType] /\ worker \in [Workers -> WorkerType]
  BY DEF TypeOK
<1>c. ASSUME NEW S, transfer' = CancelTransfers(S) PROVE Moved
  BY <1>c, <1>w, CancelRow DEF SameFee
<1>1. CASE Staff
  BY <1>1, <1>c, <1>w DEF Staff, SaveAllocation, Supersede, CreateObligation,
     SendAuthorization, Release
<1>2. CASE Client
  BY <1>2, <1>c, <1>w, ResumeEffects DEF Client, SignMandate, RevokeMandate, ExchangeSource
<1>3. CASE Environment
  <2>1. ASSUME NEW u \in Transfers, ClaimAges(u) PROVE Moved
    BY <2>1, <1>w DEF ClaimAges, TransferType, SameFee
  <2> QED
    BY <1>3, <1>c, <2>1 DEF Environment, WindowMoves, ItemRevoked, ProviderStep, localVars
<1>4. ASSUME NEW w \in Workers, ClaimStep(w) PROVE Moved
  <2>1. PICK u \in Transfers : Claim(w, u) \/ ClaimBlocked(w, u)
    BY <1>4 DEF ClaimStep
  <2>2. transfer[u].status # "none"
    BY <2>1 DEF Claim, ClaimBlocked, Claimable
  <2>3. PICK s \in {"submitting", "cancelled"}, c \in {"fresh", "no"} :
          transfer' = [transfer EXCEPT ![u] = [@ EXCEPT !.status = s, !.claimed = c]]
    BY <2>1 DEF Claim, ClaimBlocked
  <2> QED
    BY <2>2, <2>3, <1>w, ClaimEffects
<1>5. ASSUME NEW w \in Workers, DispatchStep(w) \/ Crash(w) PROVE Moved
  <2>1. CASE UNCHANGED transfer
    BY <2>1
  <2>2. CASE SaveAuthorization(w) \/ RecordSubmission(w) \/ RecordFailure(w)
    <3>1. /\ worker[w].intent \in Transfers
          /\ transfer[worker[w].intent].status # "none"
      BY <2>2 DEF SaveAuthorization, RecordSubmission, RecordFailure, WorkersHoldRows
    <3>2. worker[w].seen # "none"
      BY <1>w DEF WorkerType, ProviderStatuses
    <3> QED
      BY <2>2, <3>1, <3>2, <1>w, SaveEffects, SubmissionEffects, FailureEffects
  <2> QED
    BY <1>5, <2>1, <2>2 DEF DispatchStep, LoadContext, Lookup, Authorize, Create,
       Recover, Recreate, Crash, localVars
<1>6. ASSUME NEW u \in Transfers, SyncEvent(u) PROVE Moved
  <2>1. events[u] # <<>> /\ transfer[u].status # "none"
    BY <1>6 DEF SyncEvent, RowsExistFirst
  <2>2. Head(events[u]).status # "none"
    BY <2>1, NextEvent DEF ProviderStatuses
  <2> QED
    BY <1>6, <2>1, <2>2, <1>w, SyncEffects
<1> QED
  BY <1>1, <1>2, <1>3, <1>4, <1>5, <1>6 DEF Next

\* Nothing happens at Plaid for a row that does not exist.
LEMMA PlaidMoves ==
    ASSUME TypeOK, WorkersHoldRows, RowsExistFirst, Next,
           NEW t \in Transfers, transfer[t].status = "none"
    PROVE  events'[t] = events[t] /\ debit'[t] = debit[t]
<1>w. /\ debit \in [Transfers -> [AuthNos -> ProviderStatuses \cup {"none"}]]
      /\ events \in [Transfers -> Seq([auth: AuthNos, status: ProviderStatuses])]
  BY DEF TypeOK, PlaidTypeOK
<1>1. CASE Staff \/ Client
  BY <1>1 DEF Staff, Client, SaveAllocation, CreateObligation, SendAuthorization, Release,
     SignMandate, RevokeMandate, ExchangeSource, Resume, plaidVars
<1>2. CASE Environment
  <2>1. ASSUME NEW u \in Transfers, ProviderStep(u)
        PROVE  events'[t] = events[t] /\ debit'[t] = debit[t]
    <3>1. u # t
      BY <2>1 DEF ProviderStep, PlaidProgress, Debited, RowsExistFirst
    <3> QED
      BY <2>1, <3>1, <1>w DEF ProviderStep, PlaidProgress
  <2> QED
    BY <1>2, <2>1 DEF Environment, WindowMoves, ItemRevoked, ClaimAges, plaidVars
<1>3. ASSUME NEW w \in Workers, ClaimStep(w) \/ DispatchStep(w) \/ Crash(w)
      PROVE  events'[t] = events[t] /\ debit'[t] = debit[t]
  <2>1. CASE Create(w) \/ Recreate(w)
    <3>1. worker[w].intent # t
      BY <2>1 DEF Create, Recreate, WorkersHoldRows
    <3> QED
      BY <2>1, <3>1, <1>w DEF Create, Recreate, CreateTransfer
  <2> QED
    BY <1>3, <2>1 DEF ClaimStep, Claim, ClaimBlocked, DispatchStep, LoadContext, Lookup,
       Authorize, SaveAuthorization, Recover, RecordSubmission, RecordFailure, Crash,
       plaidVars
<1>4. ASSUME NEW u \in Transfers, SyncEvent(u)
      PROVE  events'[t] = events[t] /\ debit'[t] = debit[t]
  <2>1. u # t
    BY <1>4 DEF SyncEvent, RowsExistFirst
  <2> QED
    BY <1>4, <2>1, <1>w DEF SyncEvent
<1> QED
  BY <1>1, <1>2, <1>3, <1>4 DEF Next

\* A step keeps every row that Plaid or a dispatcher refers to existing.
LEMMA RowsExistFirstStep ==
    TypeOK /\ WorkersHoldRows /\ RowsExistFirst /\ Next => RowsExistFirst'
<1> SUFFICES ASSUME TypeOK, WorkersHoldRows, RowsExistFirst, Next, NEW t \in Transfers
             PROVE  IF transfer'[t].status = "none"
                    THEN /\ transfer'[t] = NoTransfer
                         /\ events'[t] = <<>>
                         /\ \A n \in AuthNos : debit'[t][n] = "none"
                    ELSE transfer'[t].obligation \in Versions
  BY DEF RowsExistFirst
<1>1. CASE \E v \in Versions : Release(v, t)
  BY <1>1 DEF Release, NoTransfer, TypeOK
<1>2. CASE transfer[t].status = "none" /\ ~\E v \in Versions : Release(v, t)
  BY <1>2, RowMoves, PlaidMoves DEF RowsExistFirst
<1>3. CASE transfer[t].status # "none" /\ ~\E v \in Versions : Release(v, t)
  BY <1>3, RowMoves DEF RowsExistFirst, SameFee
<1> QED
  BY <1>1, <1>2, <1>3

\* A step keeps at most one live row of the current version, and none of later ones.
LEMMA OneRowPerVersionStep ==
    TypeOK /\ WorkersHoldRows /\ RowsExistFirst /\ OneRowPerVersion /\ Next
        => OneRowPerVersion'
<1> SUFFICES ASSUME TypeOK, WorkersHoldRows, RowsExistFirst, OneRowPerVersion, Next,
                    NEW t \in Transfers, NEW u \in Transfers,
                    transfer'[t].obligation = transfer'[u].obligation,
                    transfer'[t].obligation \in Versions
             PROVE  t = u
  BY DEF OneRowPerVersion
<1>w. transfer \in [Transfers -> TransferType]
  BY DEF TypeOK
<1>1. ASSUME NEW v \in Versions, NEW x \in Transfers, Release(v, x)
      PROVE  t = u
  <2>1. \A y \in Transfers : y # x => transfer'[y] = transfer[y]
    BY <1>1, <1>w DEF Release
  <2>2. transfer'[x].obligation = v
    BY <1>1, <1>w DEF Release, NoTransfer
  <2>3. \A y \in Transfers : transfer[y].obligation # v
    BY <1>1 DEF Release, ReadyForRelease, TransfersOf
  <2> QED
    BY <2>1, <2>2, <2>3 DEF OneRowPerVersion
<1>2. CASE ~\E v \in Versions, x \in Transfers : Release(v, x)
  BY <1>2, RowMoves DEF OneRowPerVersion, SameFee
<1> QED
  BY <1>1, <1>2

\* A step keeps every busy dispatcher on a row that exists.
LEMMA WorkersHoldRowsStep ==
    TypeOK /\ WorkersHoldRows /\ RowsExistFirst /\ Next => WorkersHoldRows'
<1> SUFFICES ASSUME TypeOK, WorkersHoldRows, RowsExistFirst, Next, NEW u \in Workers
             PROVE  /\ worker'[u].pc # "idle" =>
                         /\ worker'[u].intent \in Transfers
                         /\ transfer'[worker'[u].intent].status # "none"
                    /\ worker'[u].pc \in Holding => worker'[u].auth \in AuthNos
  BY DEF WorkersHoldRows
<1> DEFINE Holds == /\ worker'[u].pc # "idle" =>
                         /\ worker'[u].intent \in Transfers
                         /\ transfer[worker'[u].intent].status # "none"
                    /\ worker'[u].pc \in Holding => worker'[u].auth \in AuthNos
<1>w. worker \in [Workers -> WorkerType]
  BY DEF TypeOK
<1>i. /\ worker[u].pc # "idle" => /\ worker[u].intent \in Transfers
                                  /\ transfer[worker[u].intent].status # "none"
      /\ worker[u].pc \in Holding => worker[u].auth \in AuthNos
  BY DEF WorkersHoldRows
<1>1. ASSUME UNCHANGED worker PROVE Holds
  BY <1>1, <1>i
<1>2. ASSUME NEW w \in Workers, NEW t \in Transfers, Claim(w, t) PROVE Holds
  BY <1>2, <1>w, <1>i DEF Claim, Claimable, Idle, Holding
<1>3. ASSUME NEW w \in Workers, DispatchStep(w) PROVE Holds
  <2> USE DEF Holding
  <2> DEFINE Same == /\ worker'[u].intent = worker[u].intent
                     /\ worker'[u].auth = worker[u].auth
             At(p) == worker'[u].pc = IF u = w THEN p ELSE worker[u].pc
  <2>e. /\ \A p : Goto(w, p) => Same /\ At(p)
        /\ \A f : Fail(w, f) => Same /\ At("failing")
        /\ \A s : Answered(w, s) => Same /\ At("record")
    BY <1>w, GotoEffects, FailEffects, AnsweredEffects DEF SameWork
  <2>l. \A a, c, p : Take(w, a, c, p) =>
            /\ worker'[u].intent = worker[u].intent
            /\ worker'[u].auth = IF u = w THEN a ELSE worker[u].auth
            /\ At(p)
    BY <1>w, TakeEffects
  <2>1. CASE LoadContext(w)
    <3>1. worker[w].intent \in Transfers
      BY <2>1 DEF LoadContext, WorkersHoldRows
    <3>2. transfer[worker[w].intent].auth \in AuthNos \cup {0}
      BY <3>1 DEF TypeOK, TransferType
    <3> QED
      BY <2>1, <1>i, <3>2, <2>e, <2>l DEF LoadContext
  <2>2. CASE Lookup(w)
    BY <2>2, <1>w, <1>i, <2>e DEF Lookup
  <2>3. CASE Authorize(w)
    BY <2>3, <1>w, <1>i, <2>e, <2>l DEF Authorize
  <2>4. CASE SaveAuthorization(w)
    BY <2>4, <1>w, <1>i, <2>e DEF SaveAuthorization
  <2>5. CASE Create(w)
    BY <2>5, <1>w, <1>i, <2>e DEF Create
  <2>6. CASE Recover(w)
    BY <2>6, <1>w, <1>i, <2>e DEF Recover
  <2>7. CASE Recreate(w)
    BY <2>7, <1>w, <1>i, <2>e DEF Recreate
  <2>8. CASE RecordSubmission(w)
    BY <2>8, <1>w, <1>i, <2>e DEF RecordSubmission, Idle
  <2>9. CASE RecordFailure(w)
    BY <2>9, <1>w, <1>i DEF RecordFailure, Idle
  <2> QED
    BY <1>3, <2>1, <2>2, <2>3, <2>4, <2>5, <2>6, <2>7, <2>8, <2>9 DEF DispatchStep
<1>4. ASSUME NEW w \in Workers, Crash(w) PROVE Holds
  BY <1>4, <1>w, <1>i DEF Crash, Idle, Holding
<1>5. Holds
  <2>1. Staff \/ Client \/ Environment => UNCHANGED worker
    BY DEF Staff, Client, Environment, SaveAllocation, CreateObligation, SendAuthorization,
       Release, SignMandate, RevokeMandate, ExchangeSource, Resume, WindowMoves,
       ItemRevoked, ClaimAges, ProviderStep
  <2>2. \A t \in Transfers : SyncEvent(t) => UNCHANGED worker
    BY DEF SyncEvent
  <2>3. \A w \in Workers, t \in Transfers : ClaimBlocked(w, t) => UNCHANGED worker
    BY DEF ClaimBlocked
  <2> HIDE DEF Holds
  <2> QED
    BY <1>1, <1>2, <1>3, <1>4, <2>1, <2>2, <2>3 DEF Next, ClaimStep
<1>6. \A t \in Transfers : transfer[t].status # "none" => transfer'[t].status # "none"
  BY RowMoves DEF Release
<1> QED
  BY <1>5, <1>6
-----------------------------------------------------------------------------
(* Rows in flight are protected and backed by an active mandate.           *)

\* Every status of the provider applies to a waiting row.
LEMMA WaitingAccepts == \A s \in ProviderStatuses : ShouldApply("authorizing", s)
<1> SUFFICES ASSUME NEW s \in ProviderStatuses PROVE ShouldApply("authorizing", s)
  OBVIOUS
<1>1. /\ StatusRank["authorizing"] = 0 /\ StatusRank["pending"] = 3
      /\ StatusRank["posted"] = 4 /\ StatusRank["funds_available"] = 6
  BY DEF StatusRank, TransferStatuses, ProviderStatuses
<1>2. CASE s \in {"returned", "cancelled", "failed"}
  BY <1>2 DEF ShouldApply, FinalStatuses
<1>3. CASE s \in {"pending", "posted", "funds_available"}
  BY <1>1, <1>3 DEF ShouldApply, FinalStatuses
<1> QED
  BY <1>2, <1>3 DEF ProviderStatuses

\* A row becomes waiting by a release or a resume only.
LEMMA BecomesWaiting ==
    ASSUME TypeOK, WorkersHoldRows, RowsExistFirst, WaitingIsFresh, Next,
           NEW t \in Transfers, transfer'[t].status = "authorizing"
    PROVE  \/ \E v \in Versions : Release(v, t)
           \/ Resume(t)
           \/ /\ transfer[t].status = "authorizing"
              /\ SameFee(t)
              /\ transfer'[t].plaid = transfer[t].plaid
              /\ transfer'[t].submitted = transfer[t].submitted
<1> DEFINE Stays == /\ transfer[t].status = "authorizing"
                    /\ SameFee(t)
                    /\ transfer'[t].plaid = transfer[t].plaid
                    /\ transfer'[t].submitted = transfer[t].submitted
<1>w. transfer \in [Transfers -> TransferType] /\ worker \in [Workers -> WorkerType]
  BY DEF TypeOK
<1>u. transfer'[t] = transfer[t] => Stays
  BY DEF SameFee
<1>c. ASSUME NEW S, transfer' = CancelTransfers(S) PROVE Stays
  BY <1>c, <1>w, <1>u, CancelRow
<1>1. CASE Staff
  <2>1. ASSUME NEW v \in Versions, NEW x \in Transfers, Release(v, x), x # t PROVE Stays
    <3>1. transfer'[t] = transfer[t]
      BY <2>1, <1>w, ReleaseEffects
    <3> QED
      BY <3>1, <1>u
  <2> QED
    BY <1>1, <1>c, <1>u, <2>1 DEF Staff, SaveAllocation, Supersede, CreateObligation,
       SendAuthorization
<1>2. CASE Client
  <2>1. ASSUME NEW x \in Transfers, Resume(x), x # t PROVE Stays
    BY <2>1, <1>u, <1>w, ResumeEffects
  <2> QED
    BY <1>2, <1>c, <2>1 DEF Client, SignMandate, RevokeMandate, ExchangeSource
<1>3. CASE Environment
  <2>1. ASSUME NEW u \in Transfers, ClaimAges(u) PROVE Stays
    BY <2>1, <1>w, <1>u DEF ClaimAges, TransferType
  <2> QED
    BY <1>3, <1>c, <1>u, <2>1
       DEF Environment, WindowMoves, ItemRevoked, ProviderStep, localVars
<1>4. ASSUME NEW w \in Workers, ClaimStep(w) PROVE Stays
  <2>1. PICK u \in Transfers : Claim(w, u) \/ ClaimBlocked(w, u)
    BY <1>4 DEF ClaimStep
  <2>2. PICK s \in {"submitting", "cancelled"}, c \in {"fresh", "no"} :
          transfer' = [transfer EXCEPT ![u] = [@ EXCEPT !.status = s, !.claimed = c]]
    BY <2>1 DEF Claim, ClaimBlocked
  <2> QED
    BY <2>2, <1>w, <1>u, ClaimEffects
<1>5. ASSUME NEW w \in Workers, DispatchStep(w) \/ Crash(w) PROVE Stays
  <2>1. CASE UNCHANGED transfer
    BY <2>1, <1>u
  <2>2. CASE SaveAuthorization(w) \/ RecordSubmission(w) \/ RecordFailure(w)
    <3>1. worker[w].intent \in Transfers
      BY <2>2 DEF SaveAuthorization, RecordSubmission, RecordFailure, WorkersHoldRows
    <3>2. worker[w].seen # "authorizing"
      BY <1>w DEF WorkerType, ProviderStatuses
    <3> QED
      BY <2>2, <3>1, <3>2, <1>u, <1>w, SaveEffects, SubmissionEffects, FailureEffects
  <2> QED
    BY <1>5, <2>1, <2>2 DEF DispatchStep, LoadContext, Lookup, Authorize, Create,
       Recover, Recreate, Crash, localVars
<1>6. ASSUME NEW u \in Transfers, SyncEvent(u) PROVE Stays
  <2>1. CASE u # t
    BY <2>1, <1>6, <1>u, <1>w, SyncEffects
  <2>2. CASE u = t
    <3> DEFINE e == Head(events[t])
    <3>1. e.status \in ProviderStatuses /\ e.status # "authorizing"
      BY <1>6, <2>2, NextEvent DEF SyncEvent, ProviderStatuses
    <3>2. transfer[t].status = "authorizing"
      BY <1>6, <2>2, <3>1, <1>w, SyncEffects
    <3>3. LinkedTo(t, e) = e.auth
      BY <3>2 DEF LinkedTo, WaitingIsFresh
    <3>4. ShouldApply(transfer[t].status, e.status)
      BY <3>1, <3>2, WaitingAccepts
    <3> QED
      BY <1>6, <2>2, <3>1, <3>3, <3>4, <1>w, SyncEffects
  <2> QED
    BY <2>1, <2>2
<1> QED
  BY <1>1, <1>2, <1>3, <1>4, <1>5, <1>6 DEF Next

\* A step keeps every waiting row of the current version and without a debit recorded.
LEMMA WaitingIsFreshStep ==
    TypeOK /\ WorkersHoldRows /\ RowsExistFirst /\ WaitingIsFresh /\ Next
        => WaitingIsFresh'
<1> SUFFICES ASSUME TypeOK, WorkersHoldRows, RowsExistFirst, WaitingIsFresh, Next,
                    NEW t \in Transfers, transfer'[t].status = "authorizing"
             PROVE  transfer'[t].plaid = 0 /\ ~transfer'[t].submitted
  BY DEF WaitingIsFresh
<1>w. transfer \in [Transfers -> TransferType]
  BY DEF TypeOK
<1> QED
  BY <1>w, BecomesWaiting, ReleaseEffects, ResumeEffects DEF WaitingIsFresh

InFlight(t) == transfer[t].status \in {"authorizing", "submitting"}

Protected(t) == /\ Current(transfer[t].obligation)
                /\ obligation[transfer[t].obligation].status = "processing"

\* What OneRowPerVersion gives for a row in flight.
LEMMA OnlyRow ==
    ASSUME RowsExistFirst, OneRowPerVersion,
           NEW t \in Transfers, transfer[t].status # "none",
           NEW x \in Transfers, transfer[x].obligation = transfer[t].obligation
    PROVE  x = t
  BY DEF RowsExistFirst, OneRowPerVersion

\* A step keeps the obligation and the mandate of a row in flight.
LEMMA InFlightIsProtectedStep ==
    TypeOK /\ RowInv /\ Next => InFlightIsProtected'
<1> SUFFICES ASSUME TypeOK, RowInv, Next, NEW t \in Transfers, InFlight(t)'
             PROVE  Protected(t)'
  BY DEF InFlightIsProtected, InFlight, Protected
<1> DEFINE v == transfer[t].obligation
<1>w. /\ transfer \in [Transfers -> TransferType] /\ worker \in [Workers -> WorkerType]
      /\ obligation \in [Versions -> ObligationType]
  BY DEF TypeOK
<1>r. WorkersHoldRows /\ RowsExistFirst /\ OneRowPerVersion
  BY DEF RowInv
<1>p. InFlight(t) => Protected(t) /\ v \in Versions
  BY DEF RowInv, InFlightIsProtected, InFlight, Protected, RowsExistFirst
\* A step that leaves the row's fee and status, and the fee in processing.
<1>s. ASSUME InFlight(t), transfer'[t].obligation = v,
             obligation'[v] = obligation[v]
      PROVE  Protected(t)'
  BY <1>s, <1>p DEF Protected, Current, Exists
<1>c. ASSUME NEW S, transfer' = CancelTransfers(S)
      PROVE  InFlight(t) /\ transfer'[t].obligation = v /\ ~(t \in S /\ Unclaimed(t))
  BY <1>c, <1>w, CancelRow DEF InFlight
<1>1. ASSUME NEW u \in Versions, SaveAllocation(u) PROVE Protected(t)'
  <2>1. InFlight(t) /\ transfer'[t].obligation = v
    BY <1>1, <1>c DEF SaveAllocation, Supersede
  <2>2. u # v
    BY <1>1, <1>p, <2>1 DEF SaveAllocation, Replaceable, Protected
  <2> QED
    BY <1>1, <1>s, <1>w, <2>1, <2>2 DEF SaveAllocation
<1>2. ASSUME NEW u \in Versions, CreateObligation(u) PROVE Protected(t)'
  <2>1. InFlight(t)
    BY <1>2, <1>c DEF CreateObligation
  <2> QED
    BY <1>2, <1>p, <2>1 DEF CreateObligation, Replaceable, Protected
<1>3. ASSUME NEW u \in Versions, SendAuthorization(u) PROVE Protected(t)'
  <2>1. InFlight(t) /\ transfer'[t] = transfer[t]
    BY <1>3 DEF SendAuthorization, InFlight
  <2>2. u # v
    BY <1>3, <1>p, <2>1 DEF SendAuthorization, Protected
  <2> QED
    BY <1>3, <1>s, <1>w, <2>1, <2>2 DEF SendAuthorization
<1>4. ASSUME NEW u \in Versions, NEW x \in Transfers, Release(u, x) PROVE Protected(t)'
  <2>1. CASE t = x
    <3>1. transfer'[t].obligation = u
      BY <1>4, <1>w, <2>1, ReleaseEffects
    <3>2. Current(u) /\ obligation' = [obligation EXCEPT ![u].status = "processing"]
      BY <1>4 DEF Release, ReadyForRelease
    <3>3. obligation'[u].status = "processing" /\ ~obligation'[u].superseded
      BY <3>2, <1>w DEF ObligationType, Current
    <3> QED
      BY <3>1, <3>3 DEF Protected, Current, Exists
  <2>2. CASE t # x
    <3>1. transfer'[t] = transfer[t] /\ InFlight(t)
      BY <1>4, <1>w, <2>2, ReleaseEffects DEF InFlight
    <3>2. u # v
      BY <1>4 DEF Release, ReadyForRelease, TransfersOf
    <3> QED
      <4>1. obligation' = [obligation EXCEPT ![u].status = "processing"]
        BY <1>4 DEF Release
      <4>2. obligation'[v] = obligation[v]
        BY <4>1, <1>w, <1>p, <3>1, <3>2
      <4> QED
        BY <1>s, <3>1, <4>2
  <2> QED
    BY <2>1, <2>2
<1>5. ASSUME NEW u \in Versions, SignMandate(u) PROVE Protected(t)'
  <2>1. InFlight(t) /\ transfer'[t].obligation = v
    BY <1>5, <1>c DEF SignMandate
  <2>2. u # v
    BY <1>5, <1>p, <2>1 DEF SignMandate, Protected
  <2> QED
    BY <1>5, <1>s, <1>w, <2>1, <2>2 DEF SignMandate
\* A cancelled row of v would be t itself, which is still in flight.
<1>k. ASSUME NEW S, transfer' = CancelTransfers(S)
      PROVE  AfterCancel(S \cap Transfers, v) = obligation[v].status
  <2>1. InFlight(t) /\ ~(t \in S /\ Unclaimed(t))
    BY <1>k, <1>c
  <2>2. \A x \in S \cap Transfers : Unclaimed(x) => transfer[x].obligation # v
    BY <1>r, <2>1, OnlyRow DEF InFlight
  <2> QED
    BY <2>2 DEF AfterCancel
<1>6. ASSUME NEW u \in Versions, RevokeMandate(u) PROVE Protected(t)'
  <2>1. InFlight(t) /\ transfer'[t].obligation = v
    BY <1>6, <1>c DEF RevokeMandate
  <2>2. UnderMandate(u) \cap Transfers = UnderMandate(u)
    BY DEF UnderMandate, TransfersOf
  <2>3. AfterCancel(UnderMandate(u), v) = obligation[v].status
    BY <1>6, <1>k, <2>2 DEF RevokeMandate
  <2>4. obligation'[v] = obligation[v]
    <3>1. CASE u # v
      BY <1>6, <1>w, <1>p, <2>1, <3>1 DEF RevokeMandate
    <3>2. CASE u = v
      BY <1>6, <1>w, <1>p, <2>1, <2>3, <3>2 DEF RevokeMandate, ObligationType
    <3> QED
      BY <3>1, <3>2
  <2> QED
    BY <1>s, <2>1, <2>4
<1>7. ASSUME ItemRevoked PROVE Protected(t)'
  <2>1. InFlight(t) /\ transfer'[t].obligation = v
    BY <1>7, <1>c DEF ItemRevoked
  <2>2. AfterCancel(Transfers, v) = obligation[v].status
    <3>1. Transfers \cap Transfers = Transfers
      OBVIOUS
    <3> QED
      BY <1>7, <1>k, <3>1 DEF ItemRevoked
  <2>3. obligation'[v] = obligation[v]
    BY <1>7, <1>w, <1>p, <2>1, <2>2 DEF ItemRevoked, ObligationType
  <2> QED
    BY <1>s, <2>1, <2>3
<1>8. ASSUME NEW u \in Versions, ExchangeSource(u) PROVE Protected(t)'
  <2>1. InFlight(t) /\ transfer'[t].obligation = v
    BY <1>8, <1>c DEF ExchangeSource
  <2> QED
    BY <1>8, <1>s, <2>1 DEF ExchangeSource
<1>9. ASSUME NEW x \in Transfers, Resume(x) PROVE Protected(t)'
  <2> DEFINE u == transfer[x].obligation
  <2>0. /\ obligation' = [obligation EXCEPT ![u].status = "processing"]
        /\ Current(u) /\ u \in Versions /\ transfer[x].status # "none"
    BY <1>9 DEF Resume, DispatchReady, MandateActive
  <2>1. CASE t = x
    <3>1. transfer'[t].obligation = u
      BY <1>9, <1>w, <2>1, ResumeEffects DEF SameFee
    <3>2. obligation'[u].status = "processing" /\ ~obligation'[u].superseded
      BY <2>0, <1>w DEF ObligationType, Current
    <3> QED
      BY <3>1, <3>2 DEF Protected, Current, Exists
  <2>2. CASE t # x
    <3>1. transfer'[t] = transfer[t] /\ InFlight(t)
      BY <1>9, <1>w, <2>2, ResumeEffects DEF InFlight
    <3>2. u # v
      BY <1>r, <2>0, <2>2, OnlyRow
    <3> QED
      BY <2>0, <1>s, <1>w, <3>1, <3>2
  <2> QED
    BY <2>1, <2>2
<1>10. ASSUME NEW w \in Workers, NEW x \in Transfers, Claim(w, x) PROVE Protected(t)'
  <2>1. InFlight(t) /\ transfer'[t].obligation = v
    <3>1. InFlight(x)
      BY <1>10 DEF Claim, Claimable, InFlight
    <3>2. transfer' = [transfer EXCEPT
                         ![x] = [@ EXCEPT !.status = "submitting", !.claimed = "fresh"]]
      BY <1>10 DEF Claim
    <3> QED
      BY <3>1, <3>2, <1>w, ClaimEffects DEF InFlight, SameFee
  <2> QED
    BY <1>10, <1>s, <2>1 DEF Claim, feeVars
<1>11. ASSUME NEW w \in Workers, NEW x \in Transfers, ClaimBlocked(w, x)
       PROVE  Protected(t)'
  <2> DEFINE u == transfer[x].obligation
  <2>1. transfer' = [transfer EXCEPT
                       ![x] = [@ EXCEPT !.status = "cancelled", !.claimed = "no"]]
    BY <1>11 DEF ClaimBlocked
  <2>2. t # x /\ transfer'[t] = transfer[t] /\ InFlight(t)
    <3>0. transfer'[x].status = "cancelled"
      BY <2>1, <1>w DEF TransferType
    <3>1. t # x
      BY <3>0 DEF InFlight
    <3>2. transfer'[t] = transfer[t]
      BY <2>1, <3>1, <1>w
    <3> QED
      BY <3>1, <3>2 DEF InFlight
  <2>3. u # v
    BY <1>r, <2>2, OnlyRow DEF InFlight
  <2> QED
    BY <1>11, <1>s, <1>w, <2>2, <2>3 DEF ClaimBlocked
<1>12. ASSUME NEW w \in Workers, DispatchStep(w) \/ Crash(w) PROVE Protected(t)'
  <2>1. CASE UNCHANGED <<transfer, obligation>>
    BY <2>1, <1>s DEF InFlight
  <2>2. CASE SaveAuthorization(w)
    <3>1. worker[w].intent \in Transfers
      BY <2>2, <1>r DEF SaveAuthorization, WorkersHoldRows
    <3>2. InFlight(t) /\ transfer'[t].obligation = v
      BY <2>2, <3>1, <1>w, SaveEffects DEF InFlight, SameFee
    <3> QED
      BY <2>2, <3>2, <1>s DEF SaveAuthorization, feeVars
  <2>3. CASE RecordSubmission(w)
    <3>1. worker[w].intent \in Transfers /\ worker[w].seen \notin {"authorizing", "submitting"}
      BY <2>3, <1>r, <1>w DEF RecordSubmission, WorkersHoldRows, WorkerType, ProviderStatuses
    <3>2. InFlight(t) /\ transfer'[t].obligation = v
      BY <2>3, <3>1, <1>w, SubmissionEffects DEF InFlight, SameFee
    <3> QED
      BY <2>3, <3>2, <1>s DEF RecordSubmission, feeVars
  <2>4. CASE RecordFailure(w)
    <3> DEFINE x == worker[w].intent
               u == transfer[x].obligation
    <3>1. x \in Transfers
      BY <2>4, <1>r DEF RecordFailure, WorkersHoldRows
    <3>2. transfer'[t] = transfer[t] /\ InFlight(t)
      BY <2>4, <3>1, <1>w, FailureEffects DEF InFlight
    <3>3. CASE UNCHANGED obligation
      BY <3>2, <3>3, <1>s
    <3>4. CASE obligation' # obligation
      <4>1. /\ transfer' = [transfer EXCEPT ![x] = [@ EXCEPT
                    !.status = IF worker[w].failure = "declined"
                               THEN "failed" ELSE "action_required",
                    !.failure = worker[w].failure,
                    !.claimed = "no"]]
            /\ obligation' = [obligation EXCEPT ![u].status = "authorized"]
        BY <2>4, <3>4 DEF RecordFailure
      <4>2. transfer'[x].status \in {"failed", "action_required"}
        BY <4>1, <3>1, <1>w DEF TransferType
      <4>3. t # x
        BY <4>2 DEF InFlight
      <4>4. u # v
        BY <1>r, <3>1, <3>2, <4>3, OnlyRow DEF InFlight
      <4> QED
        BY <1>s, <1>w, <3>2, <4>1, <4>4
    <3> QED
      BY <3>3, <3>4
  <2> QED
    BY <1>12, <2>1, <2>2, <2>3, <2>4 DEF DispatchStep, LoadContext, Lookup, Authorize,
       Create, Recover, Recreate, Crash, localVars
<1>13. ASSUME NEW x \in Transfers, SyncEvent(x) PROVE Protected(t)'
  <2> DEFINE e == Head(events[x])
             u == transfer[x].obligation
  <2>1. e.status \notin {"authorizing", "submitting"}
    BY <1>13, NextEvent DEF SyncEvent, ProviderStatuses
  <2>2. InFlight(t) /\ transfer'[t].obligation = v
    BY <1>13, <1>w, <2>1, SyncEffects DEF InFlight, SameFee
  <2>3. CASE UNCHANGED obligation
    BY <2>2, <2>3, <1>s
  <2>4. CASE obligation' # obligation
    <3>1. LinkedTo(x, e) = e.auth /\ ShouldApply(transfer[x].status, e.status)
      BY <1>13, <2>4 DEF SyncEvent
    <3>2. transfer'[x].status = e.status
      BY <1>13, <3>1, <1>w, SyncEffects
    <3>3. t # x
      BY <2>1, <3>2 DEF InFlight
    <3>4. u # v
      BY <1>r, <2>2, <3>3, OnlyRow DEF InFlight
    <3>5. \E s : obligation' = [obligation EXCEPT ![u].status = s]
      BY <1>13, <2>4 DEF SyncEvent
    <3> QED
      BY <1>s, <1>w, <2>2, <3>4, <3>5
  <2> QED
    BY <2>3, <2>4
<1>14. ASSUME UNCHANGED <<transfer, obligation>> PROVE Protected(t)'
  BY <1>14, <1>s DEF InFlight
<1>15. ASSUME NEW x \in Transfers, ClaimAges(x) PROVE Protected(t)'
  <2>1. transfer'[t].status = transfer[t].status /\ transfer'[t].obligation = v
    BY <1>15, <1>w DEF ClaimAges, TransferType
  <2> QED
    BY <1>15, <1>s, <2>1 DEF ClaimAges, feeVars, InFlight
<1>16. ASSUME NEW u \in Versions, WindowMoves(u) PROVE Protected(t)'
  BY <1>14, <1>16 DEF WindowMoves
<1>21. ASSUME NEW x \in Transfers, ProviderStep(x) PROVE Protected(t)'
  BY <1>14, <1>21 DEF ProviderStep, localVars
<1>17. Staff => Protected(t)'
  BY <1>1, <1>2, <1>3, <1>4 DEF Staff
<1>18. Client => Protected(t)'
  BY <1>5, <1>6, <1>8, <1>9 DEF Client
<1>19. Environment => Protected(t)'
  BY <1>7, <1>15, <1>16, <1>21 DEF Environment
<1>20. \A w \in Workers : ClaimStep(w) => Protected(t)'
  BY <1>10, <1>11 DEF ClaimStep
<1> QED
  BY <1>12, <1>13, <1>17, <1>18, <1>19, <1>20 DEF Next
\* No step ends the mandate of a row that stays waiting.
LEMMA MandateKept ==
    ASSUME TypeOK, RowInv, Next, NEW t \in Transfers,
           transfer[t].status = "authorizing", transfer'[t].status = "authorizing"
    PROVE  mandate'[transfer[t].obligation] = mandate[transfer[t].obligation]
<1> DEFINE v == transfer[t].obligation
<1>w. /\ transfer \in [Transfers -> TransferType]
      /\ mandate \in [Versions -> MandateType]
  BY DEF TypeOK
<1>p. v \in Versions /\ Current(v) /\ obligation[v].status = "processing"
  BY DEF RowInv, InFlightIsProtected, RowsExistFirst
<1>a. mandate[v].status = "active" /\ t \in UnderMandate(v) /\ Unclaimed(t)
  BY DEF RowInv, WaitingIsBacked, WaitingIsFresh, MandateActive, UnderMandate,
     TransfersOf, Unclaimed
<1>c. ASSUME NEW S, t \in S, transfer' = CancelTransfers(S) PROVE FALSE
  BY <1>c, <1>a, <1>w, CancelRow
<1>1. CASE Staff
  <2>1. ASSUME NEW u \in Versions, SaveAllocation(u) PROVE mandate'[v] = mandate[v]
    <3>1. u # v
      BY <2>1, <1>p DEF SaveAllocation, Replaceable
    <3> QED
      BY <2>1, <3>1, <1>w, <1>p DEF SaveAllocation, Supersede
  <2>2. ASSUME NEW u \in Versions, CreateObligation(u) PROVE FALSE
    BY <2>2, <1>p DEF CreateObligation, Replaceable
  <2>3. ASSUME NEW u \in Versions, NEW x \in Transfers,
               SendAuthorization(u) \/ Release(u, x)
        PROVE  mandate'[v] = mandate[v]
    BY <2>3 DEF SendAuthorization, Release
  <2> QED
    BY <1>1, <2>1, <2>2, <2>3 DEF Staff
<1>2. CASE Client
  <2>1. ASSUME NEW u \in Versions, SignMandate(u) PROVE mandate'[v] = mandate[v]
    <3>1. u # v
      BY <2>1, <1>p DEF SignMandate
    <3> QED
      BY <2>1, <3>1, <1>w, <1>p DEF SignMandate
  <2>2. ASSUME NEW u \in Versions, RevokeMandate(u) PROVE mandate'[v] = mandate[v]
    <3>1. u # v
      BY <2>2, <1>a, <1>c DEF RevokeMandate
    <3> QED
      BY <2>2, <3>1, <1>w, <1>p DEF RevokeMandate
  <2>3. ASSUME NEW u \in Versions, ExchangeSource(u) PROVE mandate'[v] = mandate[v]
    <3>1. u # v
      BY <2>3, <1>p DEF ExchangeSource
    <3> QED
      BY <2>3, <3>1, <1>w, <1>p DEF ExchangeSource
  <2>4. ASSUME NEW x \in Transfers, Resume(x) PROVE mandate'[v] = mandate[v]
    BY <2>4 DEF Resume
  <2> QED
    BY <1>2, <2>1, <2>2, <2>3, <2>4 DEF Client
<1>3. CASE Environment
  <2>1. ASSUME ItemRevoked PROVE FALSE
    BY <2>1, <1>c DEF ItemRevoked
  <2>2. ASSUME NEW u \in Versions, WindowMoves(u) PROVE mandate'[v] = mandate[v]
    BY <2>2 DEF WindowMoves
  <2>3. ASSUME NEW x \in Transfers, ClaimAges(x) \/ ProviderStep(x)
        PROVE  mandate'[v] = mandate[v]
    BY <2>3 DEF ClaimAges, ProviderStep, feeVars, localVars
  <2> QED
    BY <1>3, <2>1, <2>2, <2>3 DEF Environment
<1>4. ASSUME NEW w \in Workers, ClaimStep(w) \/ DispatchStep(w) \/ Crash(w)
      PROVE  mandate'[v] = mandate[v]
  BY <1>4 DEF ClaimStep, Claim, ClaimBlocked, DispatchStep, LoadContext, Lookup, Authorize,
     SaveAuthorization, Create, Recover, Recreate, RecordSubmission, RecordFailure, Crash,
     feeVars, localVars
<1>5. ASSUME NEW x \in Transfers, SyncEvent(x) PROVE mandate'[v] = mandate[v]
  BY <1>5 DEF SyncEvent
<1> QED
  BY <1>1, <1>2, <1>3, <1>4, <1>5 DEF Next

\* A step keeps an active mandate behind every waiting row.
LEMMA WaitingIsBackedStep == TypeOK /\ RowInv /\ Next => WaitingIsBacked'
<1> SUFFICES ASSUME TypeOK, RowInv, Next,
                    NEW t \in Transfers, transfer'[t].status = "authorizing"
             PROVE  MandateActive(t)'
  BY DEF WaitingIsBacked
<1>w. transfer \in [Transfers -> TransferType]
  BY DEF TypeOK
<1>1. ASSUME NEW v \in Versions, Release(v, t) PROVE MandateActive(t)'
  <2>1. transfer'[t].obligation = v /\ transfer'[t].mandate = mandate[v].no
    BY <1>1, <1>w, ReleaseEffects
  <2>2. mandate' = mandate /\ mandate[v].status = "active"
    BY <1>1 DEF Release, ReadyForRelease, ReleaseEvidence
  <2> QED
    BY <2>1, <2>2 DEF MandateActive
<1>2. ASSUME Resume(t) PROVE MandateActive(t)'
  <2>1. SameFee(t)
    BY <1>2, <1>w, ResumeEffects
  <2>2. mandate' = mandate /\ MandateActive(t)
    BY <1>2 DEF Resume, DispatchReady
  <2> QED
    BY <2>1, <2>2 DEF MandateActive, SameFee
<1>3. ASSUME transfer[t].status = "authorizing", SameFee(t) PROVE MandateActive(t)'
  <2>1. MandateActive(t)
    BY <1>3 DEF RowInv, WaitingIsBacked
  <2>2. mandate'[transfer[t].obligation] = mandate[transfer[t].obligation]
    BY <1>3, MandateKept
  <2> QED
    BY <1>3, <2>1, <2>2 DEF MandateActive, SameFee
<1> QED
  BY <1>1, <1>2, <1>3, BecomesWaiting DEF RowInv

\* A step keeps the part of the invariant about rows.
LEMMA RowInvStep == TypeOK /\ RowInv /\ Next => RowInv'
  BY WorkersHoldRowsStep, RowsExistFirstStep, OneRowPerVersionStep, WaitingIsFreshStep,
     InFlightIsProtectedStep, WaitingIsBackedStep DEF RowInv

-----------------------------------------------------------------------------
(* Reviewed authorizations.                                                *)

\* Plaid never takes a decision back, and decides once while it knows the key.
LEMMA DecisionsStay ==
    ASSUME TypeOK, WorkersHoldRows, OneDecision, Next
    PROVE  /\ \A t \in Transfers, n \in AuthNos :
                 auths[t][n] # "none" => auths'[t][n] = auths[t][n]
           /\ OneDecision'
<1>w. auths \in [Transfers -> [AuthNos -> Decisions \cup {"none"}]]
  BY DEF TypeOK, PlaidTypeOK
<1>1. CASE UNCHANGED auths
  BY <1>1 DEF OneDecision, Remembered
<1>2. ASSUME NEW x \in Transfers, NEW m \in AuthNos, CreateAuthorization(x, m)
      PROVE  /\ \A t \in Transfers, n \in AuthNos :
                   auths[t][n] # "none" => auths'[t][n] = auths[t][n]
             /\ OneDecision'
  <2>1. CASE UNCHANGED auths
    BY <2>1 DEF OneDecision, Remembered
  <2>2. CASE auths' # auths
    <3>1. auths[x][m] = "none" /\ Remembered(x) = {}
      BY <1>2, <2>2 DEF CreateAuthorization
    <3>2. PICK d \in Decisions : auths' = [auths EXCEPT ![x][m] = d]
      BY <1>2, <2>2 DEF CreateAuthorization
    <3>3. \A t \in Transfers, n \in AuthNos :
             auths'[t][n] = IF t = x /\ n = m THEN d ELSE auths[t][n]
      BY <3>2, <1>w
    <3>4. ASSUME NEW t \in Transfers PROVE \A i, j \in Remembered(t)' : i = j
      BY <3>1, <3>3 DEF OneDecision, Remembered
    <3> QED
      BY <3>1, <3>3, <3>4 DEF OneDecision
  <2> QED
    BY <2>1, <2>2
<1>3. CASE \E w \in Workers : Authorize(w)
  BY <1>1, <1>2, <1>3 DEF Authorize, WorkersHoldRows
<1>4. CASE ~\E w \in Workers : Authorize(w)
  <2>1. Staff \/ Client => UNCHANGED auths
    BY DEF Staff, Client, SaveAllocation, CreateObligation, SendAuthorization, Release,
       SignMandate, RevokeMandate, ExchangeSource, Resume, plaidVars
  <2>2. Environment => UNCHANGED auths
    BY DEF Environment, WindowMoves, ItemRevoked, ClaimAges, ProviderStep, PlaidProgress,
       plaidVars
  <2>3. ASSUME NEW w \in Workers, ClaimStep(w) \/ DispatchStep(w) \/ Crash(w)
        PROVE  UNCHANGED auths
    BY <1>4, <2>3 DEF ClaimStep, Claim, ClaimBlocked, DispatchStep, LoadContext, Lookup,
       SaveAuthorization, Create, Recover, Recreate, RecordSubmission, RecordFailure, Crash,
       plaidVars
  <2>4. ASSUME NEW x \in Transfers, SyncEvent(x) PROVE UNCHANGED auths
    BY <2>4 DEF SyncEvent
  <2> QED
    BY <1>1, <2>1, <2>2, <2>3, <2>4 DEF Next
<1> QED
  BY <1>3, <1>4

\* The saved authorization and review of a row: as they were, reset, or those of
\* the dispatcher that saves them.
LEMMA ReviewMoves ==
    ASSUME TypeOK, WorkersHoldRows, Next, NEW t \in Transfers
    PROVE  \/ ~transfer'[t].checked \/ transfer'[t].auth = 0
           \/ /\ transfer'[t].auth = transfer[t].auth
              /\ transfer'[t].checked = transfer[t].checked
           \/ \E w \in Workers : /\ worker[w].pc = "save" /\ worker[w].intent = t
                                 /\ transfer'[t].auth = worker[w].auth
                                 /\ transfer'[t].checked = worker[w].checked
<1> DEFINE Moved ==
             \/ ~transfer'[t].checked \/ transfer'[t].auth = 0
             \/ /\ transfer'[t].auth = transfer[t].auth
                /\ transfer'[t].checked = transfer[t].checked
             \/ \E w \in Workers : /\ worker[w].pc = "save" /\ worker[w].intent = t
                                   /\ transfer'[t].auth = worker[w].auth
                                   /\ transfer'[t].checked = worker[w].checked
<1>w. transfer \in [Transfers -> TransferType]
  BY DEF TypeOK
<1>u. transfer'[t] = transfer[t] => Moved
  OBVIOUS
<1>c. ASSUME NEW S, transfer' = CancelTransfers(S) PROVE Moved
  BY <1>c, <1>w, CancelRow
<1>1. CASE Staff
  <2>1. ASSUME NEW v \in Versions, NEW x \in Transfers, Release(v, x) PROVE Moved
    BY <2>1, <1>w, ReleaseEffects
  <2> QED
    BY <1>1, <1>c, <1>u, <2>1 DEF Staff, SaveAllocation, Supersede, CreateObligation,
       SendAuthorization
<1>2. CASE Client
  <2>1. ASSUME NEW x \in Transfers, Resume(x) PROVE Moved
    BY <2>1, <1>w, ResumeEffects
  <2> QED
    BY <1>2, <1>c, <2>1 DEF Client, SignMandate, RevokeMandate, ExchangeSource
<1>3. CASE Environment
  <2>1. ASSUME NEW u \in Transfers, ClaimAges(u) PROVE Moved
    BY <2>1, <1>w DEF ClaimAges, TransferType
  <2> QED
    BY <1>3, <1>c, <1>u, <2>1
       DEF Environment, WindowMoves, ItemRevoked, ProviderStep, localVars
<1>4. ASSUME NEW w \in Workers, ClaimStep(w) PROVE Moved
  <2>1. PICK u \in Transfers : Claim(w, u) \/ ClaimBlocked(w, u)
    BY <1>4 DEF ClaimStep
  <2>2. PICK s \in {"submitting", "cancelled"}, c \in {"fresh", "no"} :
          transfer' = [transfer EXCEPT ![u] = [@ EXCEPT !.status = s, !.claimed = c]]
    BY <2>1 DEF Claim, ClaimBlocked
  <2> QED
    BY <2>2, <1>w, ClaimEffects
<1>5. ASSUME NEW w \in Workers, DispatchStep(w) \/ Crash(w) PROVE Moved
  <2>1. CASE UNCHANGED transfer
    BY <2>1
  <2>2. CASE SaveAuthorization(w) \/ RecordSubmission(w) \/ RecordFailure(w)
    <3>1. worker[w].intent \in Transfers
      BY <2>2 DEF SaveAuthorization, RecordSubmission, RecordFailure, WorkersHoldRows
    <3>2. SaveAuthorization(w) => worker[w].pc = "save"
      BY DEF SaveAuthorization
    <3> QED
      BY <2>2, <3>1, <3>2, <1>w, SaveEffects, SubmissionEffects, FailureEffects
  <2> QED
    BY <1>5, <2>1, <2>2 DEF DispatchStep, LoadContext, Lookup, Authorize, Create,
       Recover, Recreate, Crash, localVars
<1>6. ASSUME NEW u \in Transfers, SyncEvent(u) PROVE Moved
  BY <1>6, <1>w, SyncEffects
<1> QED
  BY <1>1, <1>2, <1>3, <1>4, <1>5, <1>6 DEF Next

\* A step keeps the review recorded with every authorization a row names.
LEMMA RowsRememberReviewsStep ==
    TypeOK /\ WorkersHoldRows /\ OneDecision /\ ReviewInv /\ Next => RowsRememberReviews'
<1> SUFFICES ASSUME TypeOK, WorkersHoldRows, OneDecision, ReviewInv, Next,
                    NEW t \in Transfers, transfer'[t].checked, transfer'[t].auth # 0
             PROVE  auths'[t][transfer'[t].auth] = "approved"
  BY DEF RowsRememberReviews
<1>1. CASE /\ transfer'[t].auth = transfer[t].auth
           /\ transfer'[t].checked = transfer[t].checked
  <2>1. transfer[t].auth \in AuthNos
    BY <1>1 DEF TypeOK, TransferType
  <2> QED
    BY <1>1, <2>1, DecisionsStay DEF ReviewInv, RowsRememberReviews
<1>2. CASE \E w \in Workers : /\ worker[w].pc = "save" /\ worker[w].intent = t
                              /\ transfer'[t].auth = worker[w].auth
                              /\ transfer'[t].checked = worker[w].checked
  <2>1. PICK w \in Workers : /\ worker[w].pc = "save" /\ worker[w].intent = t
                             /\ transfer'[t].auth = worker[w].auth
                             /\ transfer'[t].checked = worker[w].checked
    BY <1>2
  <2>2. worker[w].auth \in AuthNos
    BY <2>1 DEF WorkersHoldRows, Holding
  <2>3. auths[t][worker[w].auth] = "approved"
    BY <2>1 DEF ReviewInv, WorkersRememberReviews
  <2> QED
    BY <2>1, <2>2, <2>3, DecisionsStay
<1> QED
  BY <1>1, <1>2, ReviewMoves

\* A step keeps the review known to every dispatcher that is about to create a debit.
LEMMA WorkersRememberReviewsStep ==
    TypeOK /\ WorkersHoldRows /\ OneDecision /\ ReviewInv /\ Next => WorkersRememberReviews'
<1> DEFINE Sure(u) == \/ worker[u].pc \in {"create", "recover", "recreate"}
                      \/ worker[u].pc \in {"lookup", "save"} /\ worker[u].checked
           Kept(u) == /\ worker'[u].intent = worker[u].intent
                      /\ worker'[u].auth = worker[u].auth
<1> SUFFICES ASSUME TypeOK, WorkersHoldRows, OneDecision, ReviewInv, Next,
                    NEW u \in Workers, Sure(u)'
             PROVE  auths'[worker'[u].intent][worker'[u].auth] = "approved"
  BY DEF WorkersRememberReviews
<1> DEFINE Goal == auths'[worker'[u].intent][worker'[u].auth] = "approved"
<1>w. worker \in [Workers -> WorkerType]
  BY DEF TypeOK
<1>k. ASSUME Sure(u), Kept(u) PROVE Goal
  <2>1. worker[u].intent \in Transfers /\ worker[u].auth \in AuthNos
    BY <1>k DEF WorkersHoldRows, Holding
  <2>2. auths[worker[u].intent][worker[u].auth] = "approved"
    BY <1>k DEF ReviewInv, WorkersRememberReviews
  <2> QED
    BY <1>k, <2>1, <2>2, DecisionsStay
<1>1. ASSUME worker'[u] = worker[u] PROVE Goal
  BY <1>1, <1>k
<1>2. ASSUME NEW w \in Workers, NEW t \in Transfers, Claim(w, t) PROVE Goal
  <2>1. worker'[u] = IF u = w THEN [Idle EXCEPT !.pc = "context", !.intent = t]
                              ELSE worker[u]
    BY <1>2, <1>w DEF Claim
  <2>2. u # w
    BY <2>1 DEF Idle
  <2> QED
    BY <1>1, <2>1, <2>2
<1>3. ASSUME NEW w \in Workers, Crash(w) \/ RecordSubmission(w) \/ RecordFailure(w)
      PROVE  Goal
  <2>1. CASE u # w
    <3>1. worker'[u] = worker[u]
      BY <1>3, <2>1, <1>w DEF Crash, RecordSubmission, RecordFailure, Fail
    <3> QED
      BY <1>1, <3>1
  <2>2. CASE u = w
    <3>1. worker'[w] = Idle \/ Fail(w, "transient")
      BY <1>3, <1>w DEF Crash, RecordSubmission, RecordFailure
    <3>2. worker'[w].pc \in {"idle", "failing"}
      BY <3>1, <1>w, FailEffects DEF Idle
    <3> QED
      BY <2>2, <3>2
  <2> QED
    BY <2>1, <2>2
<1>4. ASSUME NEW w \in Workers, LoadContext(w) PROVE Goal
  <2> DEFINE t == worker[w].intent
             p == IF transfer[t].auth = 0 THEN "authorize" ELSE "lookup"
  <2>1. CASE Fail(w, "declined")
    BY <2>1, <1>w, <1>k, FailEffects DEF SameWork
  <2>2. CASE Take(w, transfer[t].auth, transfer[t].checked, p)
    <3>1. CASE u # w
      BY <2>2, <3>1, <1>w, <1>k, TakeEffects
    <3>2. CASE u = w
      <4>1. /\ worker'[w].intent = t
            /\ worker'[w].auth = transfer[t].auth
            /\ worker'[w].checked = transfer[t].checked
            /\ worker'[w].pc = p
        BY <2>2, <1>w, TakeEffects
      <4>2. transfer[t].auth # 0 /\ transfer[t].checked
        BY <3>2, <4>1
      <4>3. t \in Transfers
        BY <1>4 DEF LoadContext, WorkersHoldRows
      <4>4. transfer[t].auth \in AuthNos /\ auths[t][transfer[t].auth] = "approved"
        BY <4>2, <4>3 DEF ReviewInv, RowsRememberReviews, TypeOK, TransferType
      <4> QED
        BY <3>2, <4>1, <4>3, <4>4, DecisionsStay
    <3> QED
      BY <3>1, <3>2
  <2> QED
    BY <1>4, <2>1, <2>2 DEF LoadContext
<1>5. ASSUME NEW w \in Workers, Authorize(w) PROVE Goal
  <2> DEFINE t == worker[w].intent
  <2>1. CASE Fail(w, "transient") \/ Fail(w, "declined")
    BY <2>1, <1>w, <1>k, FailEffects DEF SameWork
  <2>2. ASSUME NEW n \in AuthNos, Take(w, n, auths'[t][n] = "approved", "save") PROVE Goal
    <3>1. CASE u # w
      BY <2>2, <3>1, <1>w, <1>k, TakeEffects
    <3>2. CASE u = w
      <4>1. /\ worker'[w].intent = t
            /\ worker'[w].auth = n
            /\ worker'[w].checked = (auths'[t][n] = "approved")
            /\ worker'[w].pc = "save"
        BY <2>2, <1>w, TakeEffects
      <4> QED
        BY <3>2, <4>1
    <3> QED
      BY <3>1, <3>2
  <2> QED
    BY <1>5, <2>1, <2>2 DEF Authorize
\* Every other move of w keeps its authorization, and only a review leads on.
<1>6. ASSUME NEW w \in Workers,
             Lookup(w) \/ SaveAuthorization(w) \/ Create(w) \/ Recover(w) \/ Recreate(w)
      PROVE  Goal
  <2>1. Kept(u)
    BY <1>6, <1>w, GotoEffects, FailEffects, AnsweredEffects
       DEF SameWork, Lookup, SaveAuthorization, Create, Recover, Recreate
  <2>2. CASE u # w
    <3>1. worker'[u] = worker[u]
      BY <1>6, <2>2, <1>w
         DEF Lookup, SaveAuthorization, Create, Recover, Recreate, Goto, Fail, Answered
    <3> QED
      BY <1>1, <3>1
  <2>3. CASE u = w
    <3>1. Sure(u)
      BY <1>6, <2>3, <1>w, FailEffects, AnsweredEffects
         DEF Lookup, SaveAuthorization, Create, Recover, Recreate
    <3> QED
      BY <1>k, <2>1, <3>1
  <2> QED
    BY <2>2, <2>3
<1>7. CASE UNCHANGED worker
  BY <1>1, <1>7
<1>8. Staff \/ Client \/ Environment => UNCHANGED worker
  BY DEF Staff, Client, Environment, SaveAllocation, CreateObligation, SendAuthorization,
     Release, SignMandate, RevokeMandate, ExchangeSource, Resume, WindowMoves,
     ItemRevoked, ClaimAges, ProviderStep
<1>9. \A t \in Transfers : SyncEvent(t) => UNCHANGED worker
  BY DEF SyncEvent
<1>10. \A w \in Workers, t \in Transfers : ClaimBlocked(w, t) => UNCHANGED worker
  BY DEF ClaimBlocked
<1> HIDE DEF Goal, Sure, Kept
<1>11. ASSUME NEW w \in Workers, DispatchStep(w) PROVE Goal
  BY <1>3, <1>4, <1>5, <1>6, <1>11 DEF DispatchStep
<1>12. ASSUME NEW w \in Workers, ClaimStep(w) PROVE Goal
  BY <1>2, <1>7, <1>10, <1>12 DEF ClaimStep, Goal
<1> QED
  BY <1>3, <1>7, <1>8, <1>9, <1>11, <1>12 DEF Next, Goal

-----------------------------------------------------------------------------
(* Debits at Plaid.                                                        *)

\* A dispatcher creates the debit of the authorization it holds.
DebitCreated(t, n) ==
    /\ \E w \in Workers : /\ worker[w].pc \in {"create", "recreate"}
                          /\ worker[w].intent = t
                          /\ worker[w].auth = n
    /\ debit[t][n] = "none"
    /\ debit' = [debit EXCEPT ![t][n] = "pending"]
    /\ events' = [events EXCEPT ![t] = Append(@, [auth |-> n, status |-> "pending"])]
    /\ UNCHANGED localVars

\* All that may happen to the debits and to the log of their events.
LEMMA DebitMoves ==
    ASSUME TypeOK, WorkersHoldRows, Next
    PROVE  \/ UNCHANGED <<debit, events>>
           \/ \E t \in Transfers, n \in AuthNos : DebitCreated(t, n)
           \/ \E t \in Transfers : PlaidProgress(t)
           \/ \E t \in Transfers : SyncEvent(t)
<1> DEFINE Moved == \/ UNCHANGED <<debit, events>>
                    \/ \E t \in Transfers, n \in AuthNos : DebitCreated(t, n)
                    \/ \E t \in Transfers : PlaidProgress(t)
                    \/ \E t \in Transfers : SyncEvent(t)
<1>1. CASE Staff \/ Client
  BY <1>1 DEF Staff, Client, SaveAllocation, CreateObligation, SendAuthorization, Release,
     SignMandate, RevokeMandate, ExchangeSource, Resume, plaidVars
<1>2. CASE Environment
  BY <1>2 DEF Environment, WindowMoves, ItemRevoked, ClaimAges, ProviderStep, plaidVars
<1>3. ASSUME NEW w \in Workers, Create(w) \/ Recreate(w) PROVE Moved
  <2> DEFINE t == worker[w].intent
             n == worker[w].auth
  <2>1. t \in Transfers /\ n \in AuthNos
    BY <1>3 DEF Create, Recreate, WorkersHoldRows, Holding
  <2>2. UNCHANGED <<debit, events>> \/ CreateTransfer(t, n)
    BY <1>3 DEF Create, Recreate
  <2>3. UNCHANGED <<debit, events>> \/ DebitCreated(t, n)
    BY <1>3, <2>2 DEF Create, Recreate, CreateTransfer, DebitCreated
  <2> QED
    BY <2>1, <2>3
<1>4. ASSUME NEW w \in Workers, ClaimStep(w) \/ DispatchStep(w) \/ Crash(w),
             ~Create(w), ~Recreate(w)
      PROVE  Moved
  BY <1>4 DEF ClaimStep, Claim, ClaimBlocked, DispatchStep, LoadContext, Lookup,
     Authorize, SaveAuthorization, Recover, RecordSubmission, RecordFailure, Crash,
     plaidVars
<1> QED
  BY <1>1, <1>2, <1>3, <1>4 DEF Next

\* A step creates no debit on an authorization that was not reviewed.
LEMMA OnlyReviewedDebitsStep ==
    TypeOK /\ WorkersHoldRows /\ OneDecision /\ ReviewInv /\ Next => OnlyReviewedDebits'
<1> SUFFICES ASSUME TypeOK, WorkersHoldRows, OneDecision, ReviewInv, Next,
                    NEW t \in Transfers, NEW n \in AuthNos, debit'[t][n] # "none"
             PROVE  auths'[t][n] = "approved"
  BY DEF OnlyReviewedDebits, Debited
<1>w. debit \in [Transfers -> [AuthNos -> ProviderStatuses \cup {"none"}]]
  BY DEF TypeOK, PlaidTypeOK
<1>1. CASE debit[t][n] # "none"
  BY <1>1, DecisionsStay DEF ReviewInv, OnlyReviewedDebits, Debited
<1>2. CASE debit[t][n] = "none"
  <2>1. ASSUME NEW x \in Transfers, PlaidProgress(x) PROVE FALSE
    BY <1>2, <1>w, <2>1 DEF PlaidProgress, Debited
  <2>2. PICK x \in Transfers, m \in AuthNos : DebitCreated(x, m)
    BY <1>2, <2>1, DebitMoves DEF SyncEvent
  <2>3. x = t /\ m = n
    BY <1>2, <1>w, <2>2 DEF DebitCreated
  <2>4. auths[t][n] = "approved"
    BY <2>2, <2>3 DEF DebitCreated, ReviewInv, WorkersRememberReviews
  <2> QED
    BY <2>4, DecisionsStay
<1> QED
  BY <1>1, <1>2

\* A step keeps the part of the invariant about reviews.
LEMMA ReviewInvStep ==
    TypeOK /\ WorkersHoldRows /\ OneDecision /\ ReviewInv /\ Next => ReviewInv'
  BY RowsRememberReviewsStep, WorkersRememberReviewsStep, OnlyReviewedDebitsStep
     DEF ReviewInv
-----------------------------------------------------------------------------
(* Funds that arrived.                                                     *)

\* Funds that arrived stay, or are returned.
LEMMA FundsStay ==
    ASSUME TypeOK, WorkersHoldRows, Next, NEW t \in Transfers, FundsArrived(t)
    PROVE  FundsArrived(t)'
<1>w. debit \in [Transfers -> [AuthNos -> ProviderStatuses \cup {"none"}]]
  BY DEF TypeOK, PlaidTypeOK
<1>1. PICK n \in AuthNos : debit[t][n] \in {"funds_available", "returned"}
  BY DEF FundsArrived
<1>2. ASSUME NEW x \in Transfers, PlaidProgress(x)
      PROVE  debit'[t][n] \in {"funds_available", "returned"}
  <2>0. PICK m \in Debited(x) : \E s \in ProviderNext[debit[x][m]] :
          debit' = [debit EXCEPT ![x][m] = s]
    BY <1>2 DEF PlaidProgress
  <2>1. PICK s \in ProviderNext[debit[x][m]] : debit' = [debit EXCEPT ![x][m] = s]
    BY <2>0
  <2>2. CASE x = t /\ m = n
    <3>1. s = "returned"
      BY <1>1, <2>1, <2>2 DEF ProviderNext
    <3> QED
      BY <1>w, <2>1, <2>2, <3>1
  <2>3. CASE ~(x = t /\ m = n)
    BY <1>1, <1>w, <2>1, <2>3 DEF Debited
  <2> QED
    BY <2>2, <2>3
<1>3. ASSUME NEW x \in Transfers, NEW m \in AuthNos, DebitCreated(x, m)
      PROVE  debit'[t][n] \in {"funds_available", "returned"}
  <2>1. ~(x = t /\ m = n)
    BY <1>1, <1>3 DEF DebitCreated
  <2> QED
    BY <1>1, <1>3, <1>w, <2>1 DEF DebitCreated
<1>4. debit'[t][n] \in {"funds_available", "returned"}
  BY <1>1, <1>2, <1>3, DebitMoves DEF SyncEvent
<1> QED
  BY <1>4 DEF FundsArrived

\* A step adds no event that says more of the money than is true.
LEMMA EventsTellTrueStep ==
    TypeOK /\ RowInv /\ FundsInv /\ Next => EventsTellTrue'
<1> DEFINE E == [auth: AuthNos, status: ProviderStatuses]
<1> SUFFICES ASSUME TypeOK, WorkersHoldRows, EventsTellTrue, Next, NEW t \in Transfers,
                    NEW i \in 1 .. Len(events'[t]),
                    events'[t][i].status = "funds_available"
             PROVE  FundsArrived(t)'
  BY DEF EventsTellTrue, RowInv, FundsInv
<1>w. /\ debit \in [Transfers -> [AuthNos -> ProviderStatuses \cup {"none"}]]
      /\ events \in [Transfers -> Seq(E)]
  BY DEF TypeOK, PlaidTypeOK
<1>1. CASE events'[t] = events[t]
  BY <1>1, FundsStay DEF EventsTellTrue
<1>2. ASSUME NEW e \in E, events'[t] = Append(events[t], e)
      PROVE  e.status = "funds_available" \/ FundsArrived(t)'
  <2>1. /\ Len(events'[t]) = Len(events[t]) + 1
        /\ \A j \in 1 .. Len(events[t]) : events'[t][j] = events[t][j]
        /\ events'[t][Len(events[t]) + 1] = e
    <3> HIDE DEF E
    <3> QED
      BY <1>2, <1>w, AppendProperties
  <2>2. Len(events[t]) \in Nat
    BY <1>w
  <2>3. i = Len(events[t]) + 1 \/ i \in 1 .. Len(events[t])
    BY <2>1, <2>2
  <2> QED
    BY <2>1, <2>3, FundsStay DEF EventsTellTrue
<1>3. ASSUME NEW x \in Transfers, NEW n \in AuthNos, DebitCreated(x, n)
      PROVE  FundsArrived(t)'
  <2>1. CASE x # t
    BY <1>1, <1>3, <1>w, <2>1 DEF DebitCreated
  <2>2. CASE x = t
    BY <1>2, <1>3, <1>w, <2>2 DEF DebitCreated, ProviderStatuses
  <2> QED
    BY <2>1, <2>2
<1>4. ASSUME NEW x \in Transfers, PlaidProgress(x) PROVE FundsArrived(t)'
  <2>1. CASE x # t
    BY <1>1, <1>4, <1>w, <2>1 DEF PlaidProgress
  <2>2. CASE x = t
    <3>p. PlaidProgress(t)
      BY <1>4, <2>2
    <3>0. PICK n \in Debited(t) : \E s \in ProviderNext[debit[t][n]] :
            /\ debit' = [debit EXCEPT ![t][n] = s]
            /\ events' = [events EXCEPT ![t] = Append(@, [auth |-> n, status |-> s])]
      BY <3>p DEF PlaidProgress
    <3>1. PICK s \in ProviderNext[debit[t][n]] :
            /\ debit' = [debit EXCEPT ![t][n] = s]
            /\ events' = [events EXCEPT ![t] = Append(@, [auth |-> n, status |-> s])]
      BY <3>0
    <3>2. n \in AuthNos /\ debit'[t][n] = s
      BY <3>1, <1>w DEF Debited
    <3>3. s \in ProviderStatuses
      BY <3>1, <1>w DEF Debited, ProviderNext, ProviderStatuses
    <3>4. s = "funds_available" => FundsArrived(t)'
      BY <3>2 DEF FundsArrived
    <3> QED
      BY <1>2, <1>w, <3>1, <3>2, <3>3, <3>4
  <2> QED
    BY <2>1, <2>2
<1>5. ASSUME NEW x \in Transfers, SyncEvent(x) PROVE FundsArrived(t)'
  <2>1. CASE x # t
    BY <1>1, <1>5, <1>w, <2>1 DEF SyncEvent
  <2>2. CASE x = t
    <3>1. events[t] # <<>> /\ events'[t] = Tail(events[t])
      BY <1>5, <1>w, <2>2 DEF SyncEvent
    <3>2. /\ Len(events'[t]) = Len(events[t]) - 1
          /\ \A j \in 1 .. Len(events'[t]) : events'[t][j] = events[t][j + 1]
      <4> HIDE DEF E
      <4> QED
        BY <1>w, <3>1, HeadTailProperties
    <3>3. i + 1 \in 1 .. Len(events[t])
      BY <1>w, <3>2
    <3> QED
      BY <3>2, <3>3, FundsStay DEF EventsTellTrue
  <2> QED
    BY <2>1, <2>2
<1> QED
  BY <1>1, <1>3, <1>4, <1>5, DebitMoves

\* A dispatcher about to record a status was about to before, or learned it now.
LEMMA ReplyMoves ==
    ASSUME TypeOK, WorkersHoldRows, Next, NEW u \in Workers, worker'[u].pc = "record"
    PROVE  \/ worker'[u] = worker[u]
           \/ /\ worker'[u].intent = worker[u].intent
              /\ worker[u].pc \in Holding
              /\ worker'[u].seen \in { debit[worker[u].intent][worker[u].auth],
                                       debit'[worker[u].intent][worker[u].auth] }
<1>w. worker \in [Workers -> WorkerType]
  BY DEF TypeOK
<1>1. ASSUME NEW w \in Workers, w # u, ClaimStep(w) \/ DispatchStep(w) \/ Crash(w)
      PROVE  worker'[u] = worker[u]
  BY <1>1, <1>w DEF ClaimStep, Claim, ClaimBlocked, DispatchStep, LoadContext, Lookup,
     Authorize, SaveAuthorization, Create, Recover, Recreate, RecordSubmission,
     RecordFailure, Crash, Goto, Fail, Answered, Take
<1>2. CASE ClaimStep(u) \/ Crash(u) \/ RecordFailure(u) \/ RecordSubmission(u)
  <2>1. \/ UNCHANGED worker
        \/ Fail(u, "transient")
        \/ worker'[u] = Idle
        \/ \E t \in Transfers : worker'[u] = [Idle EXCEPT !.pc = "context", !.intent = t]
    BY <1>2, <1>w DEF ClaimStep, Claim, ClaimBlocked, Crash, RecordFailure,
       RecordSubmission
  <2>2. worker'[u] # Idle
    BY DEF Idle
  <2>3. \A t \in Transfers : worker'[u] # [Idle EXCEPT !.pc = "context", !.intent = t]
    BY DEF Idle
  <2>4. ~Fail(u, "transient")
    BY <1>w, FailEffects
  <2> QED
    BY <2>1, <2>2, <2>3, <2>4
<1>3. CASE LoadContext(u) \/ Authorize(u) \/ SaveAuthorization(u)
  <2>1. \/ \E f \in Failures : Fail(u, f)
        \/ \E n, c, p : Take(u, n, c, p) /\ p # "record"
        \/ Goto(u, "create")
    BY <1>3 DEF LoadContext, Authorize, SaveAuthorization, Failures
  <2> QED
    BY <2>1, <1>w, FailEffects, TakeEffects, GotoEffects
<1>4. CASE Lookup(u) \/ Create(u) \/ Recover(u) \/ Recreate(u)
  <2> DEFINE t == worker[u].intent
             n == worker[u].auth
  <2>1. \/ \E f \in Failures : Fail(u, f)
        \/ \E p : Goto(u, p) /\ p # "record"
        \/ Answered(u, debit[t][n])
        \/ Answered(u, debit'[t][n])
    BY <1>4 DEF Lookup, Create, Recover, Recreate, Failures
  <2>2. worker[u].pc \in Holding
    BY <1>4 DEF Lookup, Create, Recover, Recreate, Holding
  <2> QED
    BY <2>1, <2>2, <1>w, FailEffects, GotoEffects, AnsweredEffects DEF SameWork
<1>5. Staff \/ Client \/ Environment => UNCHANGED worker
  BY DEF Staff, Client, Environment, SaveAllocation, CreateObligation, SendAuthorization,
     Release, SignMandate, RevokeMandate, ExchangeSource, Resume, WindowMoves,
     ItemRevoked, ClaimAges, ProviderStep
<1>6. \A t \in Transfers : SyncEvent(t) => UNCHANGED worker
  BY DEF SyncEvent
<1> QED
  BY <1>1, <1>2, <1>3, <1>4, <1>5, <1>6 DEF Next, DispatchStep

\* A step leaves no dispatcher about to record more of the money than is true.
LEMMA RepliesTellTrueStep ==
    TypeOK /\ RowInv /\ FundsInv /\ Next => RepliesTellTrue'
<1> SUFFICES ASSUME TypeOK, WorkersHoldRows, RepliesTellTrue, Next, NEW u \in Workers,
                    worker'[u].pc = "record", worker'[u].seen = "funds_available"
             PROVE  FundsArrived(worker[u].intent)'
  BY DEF RepliesTellTrue, RowInv, FundsInv
<1>1. CASE worker'[u] = worker[u]
  <2>1. worker[u].intent \in Transfers
    BY <1>1 DEF WorkersHoldRows
  <2> QED
    BY <1>1, <2>1, FundsStay DEF RepliesTellTrue
<1>2. CASE worker'[u] # worker[u]
  <2> DEFINE t == worker[u].intent
             n == worker[u].auth
  <2>1. /\ worker'[u].intent = t
        /\ worker[u].pc \in Holding
        /\ "funds_available" \in {debit[t][n], debit'[t][n]}
    BY <1>2, ReplyMoves
  <2>2. t \in Transfers /\ n \in AuthNos
    BY <2>1 DEF WorkersHoldRows, Holding
  <2> QED
    BY <2>1, <2>2, FundsStay DEF FundsArrived
<1> QED
  BY <1>1, <1>2
\* How a row comes to say that the funds arrived.
LEMMA StatusMoves ==
    ASSUME TypeOK, WorkersHoldRows, Next, NEW t \in Transfers,
           transfer'[t].status = "funds_available"
    PROVE  \/ transfer[t].status = "funds_available"
           \/ \E w \in Workers : /\ worker[w].pc = "record" /\ worker[w].intent = t
                                 /\ worker[w].seen = "funds_available"
           \/ events[t] # <<>> /\ Head(events[t]).status = "funds_available"
<1> DEFINE Moved ==
             \/ transfer[t].status = "funds_available"
             \/ \E w \in Workers : /\ worker[w].pc = "record" /\ worker[w].intent = t
                                   /\ worker[w].seen = "funds_available"
             \/ events[t] # <<>> /\ Head(events[t]).status = "funds_available"
<1>w. transfer \in [Transfers -> TransferType]
  BY DEF TypeOK
<1>u. transfer'[t] = transfer[t] => Moved
  OBVIOUS
<1>c. ASSUME NEW S, transfer' = CancelTransfers(S) PROVE Moved
  BY <1>c, <1>w, CancelRow
<1>1. CASE Staff
  <2>1. ASSUME NEW v \in Versions, NEW x \in Transfers, Release(v, x) PROVE Moved
    BY <2>1, <1>w, ReleaseEffects
  <2> QED
    BY <1>1, <1>c, <1>u, <2>1 DEF Staff, SaveAllocation, Supersede, CreateObligation,
       SendAuthorization
<1>2. CASE Client
  <2>1. ASSUME NEW x \in Transfers, Resume(x) PROVE Moved
    BY <2>1, <1>w, ResumeEffects
  <2> QED
    BY <1>2, <1>c, <2>1 DEF Client, SignMandate, RevokeMandate, ExchangeSource
<1>3. CASE Environment
  <2>1. ASSUME NEW u \in Transfers, ClaimAges(u) PROVE Moved
    BY <2>1, <1>w DEF ClaimAges, TransferType
  <2> QED
    BY <1>3, <1>c, <1>u, <2>1
       DEF Environment, WindowMoves, ItemRevoked, ProviderStep, localVars
<1>4. ASSUME NEW w \in Workers, ClaimStep(w) PROVE Moved
  <2>1. PICK u \in Transfers : Claim(w, u) \/ ClaimBlocked(w, u)
    BY <1>4 DEF ClaimStep
  <2>2. PICK s \in {"submitting", "cancelled"}, c \in {"fresh", "no"} :
          transfer' = [transfer EXCEPT ![u] = [@ EXCEPT !.status = s, !.claimed = c]]
    BY <2>1 DEF Claim, ClaimBlocked
  <2>3. transfer'[t].status = s \/ transfer'[t] = transfer[t]
    BY <2>2, <1>w, ClaimEffects
  <2> QED
    BY <2>2, <2>3
<1>5. ASSUME NEW w \in Workers, DispatchStep(w) \/ Crash(w) PROVE Moved
  <2>1. CASE UNCHANGED transfer
    BY <2>1
  <2>2. CASE SaveAuthorization(w) \/ RecordSubmission(w) \/ RecordFailure(w)
    <3>1. worker[w].intent \in Transfers
      BY <2>2 DEF SaveAuthorization, RecordSubmission, RecordFailure, WorkersHoldRows
    <3>2. RecordSubmission(w) => worker[w].pc = "record"
      BY DEF RecordSubmission
    <3> QED
      BY <2>2, <3>1, <3>2, <1>w, SaveEffects, SubmissionEffects, FailureEffects
  <2> QED
    BY <1>5, <2>1, <2>2 DEF DispatchStep, LoadContext, Lookup, Authorize, Create,
       Recover, Recreate, Crash, localVars
<1>6. ASSUME NEW u \in Transfers, SyncEvent(u) PROVE Moved
  <2>1. events[u] # <<>>
    BY <1>6 DEF SyncEvent
  <2> QED
    BY <1>6, <1>w, <2>1, SyncEffects
<1> QED
  BY <1>1, <1>2, <1>3, <1>4, <1>5, <1>6 DEF Next

\* A step leaves no row that says more of the money than is true.
LEMMA RowsTellTrueStep ==
    TypeOK /\ RowInv /\ FundsInv /\ Next => RowsTellTrue'
<1> SUFFICES ASSUME TypeOK, WorkersHoldRows, FundsInv, Next, NEW t \in Transfers,
                    transfer'[t].status = "funds_available"
             PROVE  FundsArrived(t)'
  BY DEF RowsTellTrue, RowInv
<1>1. ASSUME events[t] # <<>>, Head(events[t]).status = "funds_available"
      PROVE  FundsArrived(t)
  <2>1. events[t] \in Seq([auth: AuthNos, status: ProviderStatuses])
    BY DEF TypeOK, PlaidTypeOK
  <2>2. 1 \in 1 .. Len(events[t]) /\ Head(events[t]) = events[t][1]
    BY <1>1, <2>1
  <2> QED
    BY <1>1, <2>2 DEF FundsInv, EventsTellTrue
<1>2. FundsArrived(t)
  BY <1>1, StatusMoves DEF FundsInv, RowsTellTrue, RepliesTellTrue
<1> QED
  BY <1>2, FundsStay

\* Only the event sync makes a fee collected.
LEMMA CollectedMoves ==
    ASSUME TypeOK, WorkersHoldRows, Next, NEW v \in Versions,
           obligation'[v].status = "collected"
    PROVE  \/ obligation[v].status = "collected"
           \/ Refreshed(v, transfer') = "collected"
<1> DEFINE Moved == \/ obligation[v].status = "collected"
                    \/ Refreshed(v, transfer') = "collected"
<1>w. obligation \in [Versions -> ObligationType]
  BY DEF TypeOK
<1>u. UNCHANGED obligation => Moved
  OBVIOUS
<1>s. ASSUME NEW u, NEW s, obligation' = [obligation EXCEPT ![u].status = s],
             s # "collected"
      PROVE  Moved
  <2>1. obligation'[v] \in {obligation[v], [obligation[v] EXCEPT !.status = s]}
    BY <1>s, <1>w
  <2> QED
    BY <1>s, <1>w, <2>1 DEF ObligationType
<1>1. CASE Staff
  <2>1. ASSUME NEW u \in Versions, SaveAllocation(u) PROVE Moved
    BY <2>1, <1>w DEF SaveAllocation, ObligationType
  <2>2. ASSUME NEW u \in Versions, CreateObligation(u) PROVE Moved
    BY <2>2, <1>w DEF CreateObligation, ObligationType
  <2>3. ASSUME NEW u \in Versions, SendAuthorization(u) PROVE Moved
    BY <2>3, <1>u, <1>w DEF SendAuthorization, ObligationType
  <2>4. ASSUME NEW u \in Versions, NEW t \in Transfers, Release(u, t) PROVE Moved
    BY <2>4, <1>s DEF Release
  <2> QED
    BY <1>1, <2>1, <2>2, <2>3, <2>4 DEF Staff
<1>2. CASE Client
  <2>1. ASSUME NEW u \in Versions, RevokeMandate(u) PROVE Moved
    <3>1. CASE AfterCancel(UnderMandate(u), u) # "collected"
      BY <2>1, <1>s, <3>1 DEF RevokeMandate
    <3>2. CASE AfterCancel(UnderMandate(u), u) = "collected"
      <4>1. obligation[u].status = "collected"
        BY <3>2 DEF AfterCancel
      <4>2. u # v => obligation'[v] = obligation[v]
        BY <2>1, <1>w DEF RevokeMandate
      <4> QED
        BY <4>1, <4>2
    <3> QED
      BY <3>1, <3>2
  <2>2. ASSUME NEW u \in Versions, SignMandate(u) PROVE Moved
    BY <2>2, <1>s DEF SignMandate
  <2>3. ASSUME NEW t \in Transfers, Resume(t) PROVE Moved
    BY <2>3, <1>s DEF Resume
  <2> QED
    BY <1>2, <1>u, <2>1, <2>2, <2>3 DEF Client, ExchangeSource
<1>3. CASE Environment
  <2>1. CASE ItemRevoked
    <3>1. obligation'[v] = [obligation[v] EXCEPT !.status = AfterCancel(Transfers, v)]
      BY <2>1 DEF ItemRevoked
    <3>2. AfterCancel(Transfers, v) = "collected"
      <4> HIDE DEF Moved
      <4> QED
        BY <3>1, <1>w DEF ObligationType
    <3> QED
      BY <3>2 DEF AfterCancel
  <2> QED
    BY <1>3, <1>u, <2>1 DEF Environment, WindowMoves, ClaimAges, ProviderStep, feeVars,
       localVars
<1>4. ASSUME NEW w \in Workers, ClaimStep(w) \/ DispatchStep(w) \/ Crash(w) PROVE Moved
  <2>1. \/ UNCHANGED obligation
        \/ \E u : obligation' = [obligation EXCEPT ![u].status = "prepared"]
        \/ \E u : obligation' = [obligation EXCEPT ![u].status = "authorized"]
    BY <1>4 DEF ClaimStep, Claim, ClaimBlocked, DispatchStep, LoadContext, Lookup,
       Authorize, SaveAuthorization, Create, Recover, Recreate, RecordSubmission,
       RecordFailure, Crash, feeVars, localVars
  <2> QED
    BY <2>1, <1>s, <1>u
<1>5. ASSUME NEW x \in Transfers, SyncEvent(x) PROVE Moved
  <2> DEFINE u == transfer[x].obligation
             s == Refreshed(u, transfer')
  <2>1. UNCHANGED obligation \/ obligation' = [obligation EXCEPT ![u].status = s]
    BY <1>5 DEF SyncEvent
  <2>2. CASE u = v
    BY <1>u, <1>s, <2>1, <2>2
  <2>3. CASE u # v
    BY <1>w, <2>1, <2>3
  <2> QED
    BY <2>2, <2>3
<1> QED
  BY <1>1, <1>2, <1>3, <1>4, <1>5 DEF Next

\* A step makes no fee collected without funds.
LEMMA CollectedStep ==
    TypeOK /\ RowInv /\ FundsInv /\ Next => CollectedMeansFundsArrived'
<1> SUFFICES ASSUME TypeOK, RowInv, FundsInv, Next, NEW v \in Versions,
                    obligation'[v].status = "collected"
             PROVE  \E t \in Transfers : transfer'[t].obligation = v /\ FundsArrived(t)'
  BY DEF CollectedMeansFundsArrived, TransfersOf, FundsArrived
<1>h. WorkersHoldRows /\ RowsExistFirst
  BY DEF RowInv
<1>1. CASE obligation[v].status = "collected"
  <2>1. PICK t \in Transfers : transfer[t].obligation = v /\ FundsArrived(t)
    BY <1>1 DEF FundsInv, CollectedMeansFundsArrived, TransfersOf, FundsArrived
  <2>2. transfer[t].status # "none"
    BY <2>1, <1>h, VersionsAssumption DEF RowsExistFirst, NoTransfer
  <2>3. transfer'[t].obligation = v
    BY <2>1, <2>2, <1>h, RowMoves DEF Release, SameFee
  <2> QED
    BY <2>1, <2>3, <1>h, FundsStay
<1>2. CASE Refreshed(v, transfer') = "collected"
  <2>1. CASE obligation[v].status = "collected"
    BY <1>1, <2>1
  <2>2. CASE obligation[v].status # "collected"
    <3>1. PICK t \in Transfers : /\ transfer'[t].obligation = v
                                 /\ transfer'[t].status \in CollectedOn
      BY <1>2, <2>2 DEF Refreshed
    <3>2. FundsArrived(t)'
      BY <3>1, RowsTellTrueStep DEF RowsTellTrue, CollectedOn
    <3> QED
      BY <3>1, <3>2
  <2> QED
    BY <2>1, <2>2
<1> QED
  BY <1>1, <1>2, <1>h, CollectedMoves

\* A step keeps the part of the invariant about the money.
LEMMA FundsInvStep == TypeOK /\ RowInv /\ FundsInv /\ Next => FundsInv'
  BY EventsTellTrueStep, RepliesTellTrueStep, RowsTellTrueStep, CollectedStep DEF FundsInv
-----------------------------------------------------------------------------
(* The theorems.                                                           *)

\* The initial states satisfy the inductive invariant.
LEMMA InitInv == Init => IInv
<1> SUFFICES ASSUME Init PROVE IInv
  OBVIOUS
<1>1. TypeOK
  BY InitType
<1>r. \A t \in Transfers : /\ transfer[t] = NoTransfer
                           /\ transfer[t].status = "none"
                           /\ transfer[t].obligation = 0
                           /\ transfer[t].auth = 0
                           /\ events[t] = <<>>
                           /\ \A n \in AuthNos : debit[t][n] = "none"
                           /\ \A n \in AuthNos : auths[t][n] = "none"
  BY DEF Init, PlaidInit, NoTransfer
<1>2. \A w \in Workers : worker[w].pc = "idle"
  BY DEF Init, Idle
<1>3. RowInv
  BY <1>r, <1>2, VersionsAssumption DEF RowInv, WorkersHoldRows, Holding, RowsExistFirst,
     OneRowPerVersion, WaitingIsFresh, InFlightIsProtected, WaitingIsBacked
<1>4. ReviewInv /\ OneDecision
  BY <1>r, <1>2 DEF ReviewInv, RowsRememberReviews, WorkersRememberReviews,
     OnlyReviewedDebits, Debited, OneDecision, Remembered
<1>5. \A v \in Versions : obligation[v].status = "none"
  BY DEF Init
<1>6. FundsInv
  BY <1>r, <1>2, <1>5 DEF FundsInv, EventsTellTrue, RepliesTellTrue, RowsTellTrue,
     CollectedMeansFundsArrived
<1> QED
  BY <1>1, <1>3, <1>4, <1>6 DEF IInv

\* Every step preserves the inductive invariant.
LEMMA StepInv == IInv /\ [Next]_vars => IInv'
<1> SUFFICES ASSUME IInv, [Next]_vars PROVE IInv'
  OBVIOUS
<1>1. CASE Next
  <2>1. TypeOK'
    BY <1>1, NextType DEF IInv, RowInv
  <2>2. OneDecision'
    BY <1>1, DecisionsStay DEF IInv, RowInv
  <2>3. ReviewInv'
    BY <1>1, ReviewInvStep DEF IInv, RowInv
  <2> QED
    BY <1>1, <2>1, <2>2, <2>3, RowInvStep, FundsInvStep DEF IInv
<1>2. CASE UNCHANGED vars
  <2>1. TypeOK'
    BY <1>2, NextType DEF IInv, RowInv
  <2>2. RowInv'
    BY <1>2 DEF IInv, RowInv, WorkersHoldRows, RowsExistFirst, OneRowPerVersion,
       WaitingIsFresh, InFlightIsProtected, WaitingIsBacked, Current, Exists,
       MandateActive, vars, plaidVars, feeVars
  <2>3. ReviewInv' /\ OneDecision'
    BY <1>2 DEF IInv, ReviewInv, RowsRememberReviews, WorkersRememberReviews,
       OnlyReviewedDebits, Debited, OneDecision, Remembered, vars, plaidVars
  <2>4. FundsInv'
    BY <1>2 DEF IInv, FundsInv, EventsTellTrue, RepliesTellTrue, RowsTellTrue,
       CollectedMeansFundsArrived, FundsArrived, TransfersOf, vars, plaidVars, feeVars
  <2> QED
    BY <2>1, <2>2, <2>3, <2>4 DEF IInv
<1> QED
  BY <1>1, <1>2

\* IInv is the inductive invariant of the fee collection: the rows, the
\* dispatchers' local copies of them and what Plaid was told agree in every
\* reachable state.
THEOREM InductiveInvariant == Spec => []IInv
  BY InitInv, StepInv, PTL DEF Spec

\* Every variable keeps its type: no dispatcher step, event or handler writes a
\* status, an authorization or a row reference the code has no case for.
THEOREM TypeCorrect == Spec => []TypeOK
<1>1. IInv => TypeOK
  BY DEF IInv
<1> QED
  BY <1>1, InductiveInvariant, PTL

\* While an intent waits for or is held by the dispatcher, its obligation is the
\* current one and is in "processing", whatever staff, client, bank and other
\* dispatchers do: the guard of save_fee_allocation and create_fee_obligation is
\* enough to keep the fee from being replaced under it.
THEOREM InFlightProtected == Spec => []InFlightIsProtected
<1>1. IInv => InFlightIsProtected
  BY DEF IInv, RowInv
<1> QED
  BY <1>1, InductiveInvariant, PTL

\* No handler that ends a mandate forgets an intent nobody claimed: one that is
\* still waiting has its mandate active.
THEOREM WaitingBacked == Spec => []WaitingIsBacked
<1>1. IInv => WaitingIsBacked
  BY DEF IInv, RowInv
<1> QED
  BY <1>1, InductiveInvariant, PTL

\* Only an authorization whose risk check passed is ever debited, by any number
\* of dispatchers, after any crashes, lost replies, resumes and recoveries.
THEOREM OnlyReviewed == Spec => []OnlyReviewedDebits
<1>1. IInv => OnlyReviewedDebits
  BY DEF IInv, ReviewInv
<1> QED
  BY <1>1, InductiveInvariant, PTL

\* As long as Plaid remembers the idempotency key of an intent, an intent causes
\* at most one debit, with any number of dispatchers racing for it.
THEOREM OneDebit == ASSUME KeyReplays PROVE Spec => []AtMostOneDebit
<1>1. IInv => AtMostOneDebit
  BY DEF IInv, ReviewInv, OnlyReviewedDebits, OneDecision, AtMostOneDebit, Remembered,
     Debited
<1> QED
  BY <1>1, InductiveInvariant, PTL

\* A fee that is shown as collected was: one of its debits reached
\* funds_available at Plaid, even if it was returned later.
THEOREM CollectedFundsArrived == Spec => []CollectedMeansFundsArrived
<1>1. IInv => CollectedMeansFundsArrived
  BY DEF IInv, FundsInv
<1> QED
  BY <1>1, InductiveInvariant, PTL

-----------------------------------------------------------------------------
(* One dispatcher.  The two workers of a claim that went stale may debit    *)
(* two authorizations of one intent; a dispatcher that runs alone cannot.   *)

OneDispatcher == \A v, w \in Workers : v = w

\* A debit is made from the authorization its row names, so that whoever takes
\* the row over looks up that debit first.
DebitIsSaved == \A t \in Transfers : \A n \in Debited(t) : transfer[t].auth = n

\* Plaid logs no event of an intent it made no debit for.
LogFollowsDebits == \A t \in Transfers : events[t] # <<>> => Debited(t) # {}

\* The bank must be reconnected: the authorization the row names was refused,
\* so it is safe to ask for a new one.
Refused(t) == /\ transfer[t].auth \in AuthNos
              /\ auths[t][transfer[t].auth] = "user_action_required"

\* The row of a dispatcher at work: nobody else settles it before there is a
\* debit, and what the dispatcher remembers of it is what the row says.
HeldRows ==
    \A w \in Workers, t \in Transfers : worker[w].pc # "idle" /\ worker[w].intent = t =>
        /\ transfer[t].status \notin {"none", "authorizing", "action_required"}
        /\ Debited(t) = {} => transfer[t].status = "submitting"
        /\ worker[w].pc \in Holding \ {"save"} => worker[w].auth = transfer[t].auth
        /\ worker[w].pc = "failing" /\ worker[w].failure = "repair" => Refused(t)

RepairsAreRefused ==
    \A t \in Transfers :
        transfer[t].status = "action_required" /\ transfer[t].failure = "repair" => Refused(t)

\* revoke_mandate refuses while an intent is claimed under the mandate.
ClaimsAreBacked ==
    \A t \in Transfers :
        LET v == transfer[t].obligation
        IN  transfer[t].status = "submitting" /\ mandate[v].no = transfer[t].mandate
              => mandate[v].status # "revoked"

AloneInv == /\ DebitIsSaved
            /\ LogFollowsDebits
            /\ HeldRows
            /\ RepairsAreRefused
            /\ ClaimsAreBacked

\* A row keeps what the dispatcher, a repair and a revocation look at.
KeepsRow(t) == /\ SameFee(t)
               /\ transfer'[t].status = transfer[t].status
               /\ transfer'[t].auth = transfer[t].auth
               /\ transfer'[t].failure = transfer[t].failure

\* What the dispatcher w that holds t writes to it.
Writes(w, t) ==
    /\ DispatchStep(w)
    /\ worker[w].intent = t
    /\ SameFee(t)
    /\ \/ /\ worker[w].pc = "save"
          /\ transfer[t].auth \in {0, worker[w].auth}
          /\ transfer'[t].auth = worker[w].auth
          /\ transfer'[t].status = transfer[t].status
          /\ transfer'[t].failure = transfer[t].failure
       \/ /\ worker[w].pc = "record"
          /\ transfer'[t].auth = worker[w].auth
          /\ transfer'[t].status = worker[w].seen
       \/ /\ worker[w].pc = "failing"
          /\ transfer'[t].auth = transfer[t].auth
          /\ transfer'[t].status \in {"failed", "action_required"}
          /\ transfer'[t].failure = worker[w].failure

\* An intent nobody claimed is cancelled, with its mandate or its claim.
IsCancelled(t) == /\ transfer[t].status \in {"authorizing", "submitting"}
                  /\ transfer'[t].status = "cancelled"
                  /\ transfer'[t].auth = transfer[t].auth

IsDropped(t) == transfer[t].status = "authorizing" /\ IsCancelled(t)

\* The events of a debit settle its row.
IsSettled(t) == /\ events[t] # <<>>
                /\ SameFee(t)
                /\ transfer'[t].status \in ProviderStatuses
                /\ transfer'[t].auth = transfer[t].auth

\* All that may happen to a row in one step.
RowChange(t) ==
    \/ KeepsRow(t)
    \/ \E v \in Versions : Release(v, t)
    \/ IsDropped(t)
    \/ Resume(t)
    \/ \E w \in Workers : worker[w].pc = "idle" /\ IsCancelled(t)
    \/ \E w \in Workers : Claim(w, t)
    \/ \E w \in Workers : Writes(w, t)
    \/ IsSettled(t)

\* Every step changes a row in one of these ways.
LEMMA RowChanges ==
    ASSUME TypeOK, WorkersHoldRows, Next, NEW t \in Transfers
    PROVE  RowChange(t)
<1>w. transfer \in [Transfers -> TransferType] /\ worker \in [Workers -> WorkerType]
  BY DEF TypeOK
<1>u. transfer'[t] = transfer[t] => KeepsRow(t)
  BY DEF KeepsRow, SameFee
<1>c. ASSUME NEW S, transfer' = CancelTransfers(S)
      PROVE  KeepsRow(t) \/ IsDropped(t)
  BY <1>c, <1>u, <1>w, CancelRow DEF IsDropped, IsCancelled
<1>r. /\ KeepsRow(t) => RowChange(t)
      /\ IsDropped(t) => RowChange(t)
      /\ IsSettled(t) => RowChange(t)
      /\ \A v \in Versions : Release(v, t) => RowChange(t)
      /\ Resume(t) => RowChange(t)
      /\ \A w \in Workers : /\ Claim(w, t) => RowChange(t)
                            /\ Writes(w, t) => RowChange(t)
                            /\ worker[w].pc = "idle" /\ IsCancelled(t) => RowChange(t)
  BY DEF RowChange
<1>1. CASE Staff
  <2>1. ASSUME NEW v \in Versions, NEW x \in Transfers, Release(v, x) PROVE RowChange(t)
    <3>1. CASE x = t
      BY <2>1, <3>1, <1>r
    <3>2. CASE x # t
      <4>1. transfer'[t] = transfer[t]
        BY <2>1, <3>2, <1>w, ReleaseEffects
      <4> QED
        BY <4>1, <1>u, <1>r
    <3> QED
      BY <3>1, <3>2
  <2> QED
    BY <1>1, <1>c, <1>u, <1>r, <2>1 DEF Staff, SaveAllocation, Supersede, CreateObligation,
       SendAuthorization
<1>2. CASE Client
  <2>1. ASSUME NEW x \in Transfers, Resume(x) PROVE RowChange(t)
    <3>1. CASE x = t
      BY <2>1, <3>1, <1>r
    <3>2. CASE x # t
      <4>1. transfer'[t] = transfer[t]
        BY <2>1, <3>2, <1>w, ResumeEffects
      <4> QED
        BY <4>1, <1>u, <1>r
    <3> QED
      BY <3>1, <3>2
  <2> QED
    BY <1>2, <1>c, <1>r, <2>1 DEF Client, SignMandate, RevokeMandate, ExchangeSource
<1>3. CASE Environment
  <2>1. ASSUME NEW u \in Transfers, ClaimAges(u) PROVE KeepsRow(t)
    BY <2>1, <1>w DEF ClaimAges, TransferType, KeepsRow, SameFee
  <2> QED
    BY <1>3, <1>c, <1>u, <1>r, <2>1
       DEF Environment, WindowMoves, ItemRevoked, ProviderStep, localVars
<1>4. ASSUME NEW w \in Workers, ClaimStep(w) PROVE RowChange(t)
  <2>1. PICK u \in Transfers : Claim(w, u) \/ ClaimBlocked(w, u)
    BY <1>4 DEF ClaimStep
  <2>2. PICK s \in {"submitting", "cancelled"}, c \in {"fresh", "no"} :
          transfer' = [transfer EXCEPT ![u] = [@ EXCEPT !.status = s, !.claimed = c]]
    BY <2>1 DEF Claim, ClaimBlocked
  <2>3. CASE u # t
    <3>1. transfer'[t] = transfer[t]
      BY <2>2, <2>3
    <3> QED
      BY <3>1, <1>u, <1>r
  <2>4. CASE u = t /\ Claim(w, u)
    BY <2>4, <1>r
  <2>5. CASE u = t /\ ClaimBlocked(w, u)
    <3>1. /\ worker[w].pc = "idle" /\ Claimable(t)
          /\ transfer' = [transfer EXCEPT ![t] =
                            [@ EXCEPT !.status = "cancelled", !.claimed = "no"]]
      BY <2>5 DEF ClaimBlocked
    <3>2. transfer'[t].status = "cancelled" /\ transfer'[t].auth = transfer[t].auth
      BY <3>1, <1>w, ClaimEffects
    <3>3. IsCancelled(t)
      BY <3>1, <3>2 DEF IsCancelled, Claimable
    <3> QED
      BY <3>1, <3>3, <1>r
  <2> QED
    BY <2>1, <2>3, <2>4, <2>5
<1>5. ASSUME NEW w \in Workers, DispatchStep(w) \/ Crash(w) PROVE RowChange(t)
  <2>1. CASE UNCHANGED transfer
    BY <2>1, <1>u, <1>r
  <2>2. CASE SaveAuthorization(w) \/ RecordSubmission(w) \/ RecordFailure(w)
    <3>1. worker[w].intent \in Transfers
      BY <2>2 DEF SaveAuthorization, RecordSubmission, RecordFailure, WorkersHoldRows
    <3>2. CASE SaveAuthorization(w)
      <4>1. worker[w].pc = "save" /\ DispatchStep(w)
        BY <3>2 DEF SaveAuthorization, DispatchStep
      <4>2. transfer'[t] = transfer[t] \/ transfer[worker[w].intent].auth \in {0, worker[w].auth}
        BY <3>2 DEF SaveAuthorization
      <4>3. transfer'[t] = transfer[t] \/ Writes(w, t)
        BY <3>1, <3>2, <4>1, <4>2, <1>w, SaveEffects DEF Writes
      <4> QED
        BY <4>3, <1>u, <1>r
    <3>3. CASE RecordSubmission(w)
      <4>1. worker[w].pc = "record" /\ DispatchStep(w)
        BY <3>3 DEF RecordSubmission, DispatchStep
      <4>2. transfer'[t] = transfer[t] \/ Writes(w, t)
        BY <3>1, <3>3, <4>1, <1>w, SubmissionEffects DEF Writes
      <4> QED
        BY <4>2, <1>u, <1>r
    <3>4. CASE RecordFailure(w)
      <4>1. worker[w].pc = "failing" /\ DispatchStep(w)
        BY <3>4 DEF RecordFailure, DispatchStep
      <4>2. transfer'[t] = transfer[t] \/ Writes(w, t)
        BY <3>1, <3>4, <4>1, <1>w, FailureEffects DEF Writes
      <4> QED
        BY <4>2, <1>u, <1>r
    <3> QED
      BY <2>2, <3>2, <3>3, <3>4
  <2> QED
    BY <1>5, <2>1, <2>2 DEF DispatchStep, LoadContext, Lookup, Authorize, Create,
       Recover, Recreate, Crash, localVars
<1>6. ASSUME NEW u \in Transfers, SyncEvent(u) PROVE RowChange(t)
  <2>1. CASE u # t
    <3>1. transfer'[t] = transfer[t]
      BY <1>6, <2>1, <1>w, SyncEffects
    <3> QED
      BY <3>1, <1>u, <1>r
  <2>2. CASE u = t
    <3>1. events[t] # <<>> /\ Head(events[t]).status \in ProviderStatuses
      BY <1>6, <2>2, NextEvent DEF SyncEvent
    <3>2. KeepsRow(t) \/ IsSettled(t)
      BY <1>6, <2>2, <3>1, <1>w, SyncEffects DEF KeepsRow, IsSettled
    <3> QED
      BY <3>2, <1>r
  <2> QED
    BY <2>1, <2>2
<1> QED
  BY <1>1, <1>2, <1>3, <1>4, <1>5, <1>6 DEF Next

\* A debit never disappears, and the only new one is that of a dispatcher.
LEMMA DebitsStay ==
    ASSUME TypeOK, WorkersHoldRows, Next, NEW t \in Transfers, NEW n \in AuthNos
    PROVE  /\ debit[t][n] # "none" => debit'[t][n] # "none"
           /\ debit[t][n] = "none" /\ debit'[t][n] # "none" => DebitCreated(t, n)
<1>w. debit \in [Transfers -> [AuthNos -> ProviderStatuses \cup {"none"}]]
  BY DEF TypeOK, PlaidTypeOK
<1>1. CASE UNCHANGED <<debit, events>>
  BY <1>1
<1>2. ASSUME NEW x \in Transfers, NEW m \in AuthNos, DebitCreated(x, m)
      PROVE  /\ debit[t][n] # "none" => debit'[t][n] # "none"
             /\ debit[t][n] = "none" /\ debit'[t][n] # "none" => x = t /\ m = n
  BY <1>2, <1>w DEF DebitCreated
<1>3. ASSUME NEW x \in Transfers, PlaidProgress(x)
      PROVE  debit[t][n] # "none" <=> debit'[t][n] # "none"
  <2>1. PICK m \in Debited(x) : \E s \in ProviderNext[debit[x][m]] :
          debit' = [debit EXCEPT ![x][m] = s]
    BY <1>3 DEF PlaidProgress
  <2>2. PICK s \in ProviderNext[debit[x][m]] : debit' = [debit EXCEPT ![x][m] = s]
    BY <2>1
  <2>3. debit[x][m] \in ProviderStatuses /\ m \in AuthNos /\ debit[x][m] # "none"
    BY <1>w DEF Debited
  <2>4. s # "none"
    BY <2>3 DEF ProviderStatuses, ProviderNext
  <2> QED
    BY <2>2, <2>3, <2>4, <1>w
<1>4. ASSUME NEW x \in Transfers, SyncEvent(x) PROVE UNCHANGED debit
  BY <1>4 DEF SyncEvent
<1> QED
  BY <1>1, <1>2, <1>3, <1>4, DebitMoves

\* An end that the client or staff put to a mandate: only revoke_mandate revokes.
LEMMA MandateChanges ==
    ASSUME TypeOK, Next, NEW v \in Versions
    PROVE  \/ mandate'[v] = mandate[v]
           \/ mandate'[v].status # "revoked"
           \/ RevokeMandate(v) /\ mandate'[v].no = mandate[v].no
<1> DEFINE Changes == \/ mandate'[v] = mandate[v]
                      \/ mandate'[v].status # "revoked"
                      \/ RevokeMandate(v) /\ mandate'[v].no = mandate[v].no
<1>w. mandate \in [Versions -> MandateType]
  BY DEF TypeOK
<1>1. CASE Staff
  <2>1. ASSUME NEW u \in Versions, SaveAllocation(u) PROVE Changes
    <3>1. \/ mandate'[v] = mandate[v]
          \/ mandate'[v] = [mandate[v] EXCEPT !.status = "superseded"]
      BY <2>1, <1>w DEF SaveAllocation, Supersede
    <3> QED
      BY <3>1, <1>w DEF MandateType
  <2>2. ASSUME NEW u \in Versions, CreateObligation(u) PROVE Changes
    <3>1. \/ mandate'[v] = mandate[v]
          \/ mandate'[v] = [mandate[v] EXCEPT !.status = "superseded"]
      BY <2>2 DEF CreateObligation
    <3> QED
      BY <3>1, <1>w DEF MandateType
  <2>3. ASSUME NEW u \in Versions, SendAuthorization(u) \/ \E x \in Transfers : Release(u, x)
        PROVE  Changes
    BY <2>3 DEF SendAuthorization, Release
  <2> QED
    BY <1>1, <2>1, <2>2, <2>3 DEF Staff
<1>2. CASE Client
  <2>1. ASSUME NEW u \in Versions, SignMandate(u) PROVE Changes
    BY <2>1, <1>w DEF SignMandate
  <2>2. ASSUME NEW u \in Versions, RevokeMandate(u) PROVE Changes
    <3>1. CASE u # v
      BY <2>2, <3>1, <1>w DEF RevokeMandate
    <3>2. CASE u = v
      <4>1. mandate'[v].no = mandate[v].no
        BY <2>2, <3>2, <1>w DEF RevokeMandate, MandateType
      <4> QED
        BY <2>2, <3>2, <4>1
    <3> QED
      BY <3>1, <3>2
  <2>3. ASSUME NEW u \in Versions, ExchangeSource(u) PROVE Changes
    BY <2>3, <1>w DEF ExchangeSource, MandateType
  <2>4. ASSUME NEW x \in Transfers, Resume(x) PROVE Changes
    BY <2>4 DEF Resume
  <2> QED
    BY <1>2, <2>1, <2>2, <2>3, <2>4 DEF Client
<1>3. CASE Environment
  <2>1. ASSUME ItemRevoked PROVE Changes
    BY <2>1, <1>w DEF ItemRevoked, MandateType
  <2> QED
    BY <1>3, <2>1 DEF Environment, WindowMoves, ClaimAges, ProviderStep, feeVars, localVars
<1>4. ASSUME NEW w \in Workers, ClaimStep(w) \/ DispatchStep(w) \/ Crash(w) PROVE Changes
  BY <1>4 DEF ClaimStep, Claim, ClaimBlocked, DispatchStep, LoadContext, Lookup, Authorize,
     SaveAuthorization, Create, Recover, Recreate, RecordSubmission, RecordFailure, Crash,
     feeVars, localVars
<1>5. ASSUME NEW x \in Transfers, SyncEvent(x) PROVE Changes
  BY <1>5 DEF SyncEvent
<1> QED
  BY <1>1, <1>2, <1>3, <1>4, <1>5 DEF Next

\* A claim that holds is backed: nobody revokes its mandate.
LEMMA ClaimsAreBackedStep ==
    TypeOK /\ WorkersHoldRows /\ RowsExistFirst /\ ClaimsAreBacked /\ Next
        => ClaimsAreBacked'
<1> SUFFICES ASSUME TypeOK, WorkersHoldRows, RowsExistFirst, ClaimsAreBacked, Next,
                    NEW t \in Transfers, transfer'[t].status = "submitting",
                    mandate'[transfer'[t].obligation].no = transfer'[t].mandate
             PROVE  mandate'[transfer'[t].obligation].status # "revoked"
  BY DEF ClaimsAreBacked
<1>w. transfer \in [Transfers -> TransferType] /\ worker \in [Workers -> WorkerType]
  BY DEF TypeOK
<1>1. ASSUME transfer[t].status = "submitting", SameFee(t)
      PROVE  mandate'[transfer'[t].obligation].status # "revoked"
  <2> DEFINE v == transfer[t].obligation
  <2>1. transfer'[t].obligation = v /\ transfer'[t].mandate = transfer[t].mandate
    BY <1>1 DEF SameFee
  <2>2. v \in Versions
    BY <1>1 DEF RowsExistFirst
  <2>3. mandate[v].no = transfer[t].mandate => mandate[v].status # "revoked"
    BY <1>1 DEF ClaimsAreBacked
  <2>4. CASE mandate'[v] = mandate[v]
    BY <2>1, <2>3, <2>4
  <2>5. ASSUME RevokeMandate(v), mandate'[v].no = mandate[v].no PROVE FALSE
    <3>1. mandate[v].status = "active" /\ mandate[v].no = transfer[t].mandate
      BY <2>1, <2>5 DEF RevokeMandate
    <3>2. t \in UnderMandate(v)
      BY <2>2, <3>1 DEF UnderMandate, TransfersOf, MandateActive
    <3> QED
      BY <1>1, <2>5, <3>2 DEF RevokeMandate, HandedOff
  <2> QED
    BY <2>1, <2>2, <2>4, <2>5, MandateChanges
<1>2. ASSUME NEW w \in Workers, Claim(w, t)
      PROVE  mandate'[transfer'[t].obligation].status # "revoked"
  <2>1. MandateActive(t) /\ mandate' = mandate
    BY <1>2 DEF Claim, DispatchReady, feeVars
  <2>2. SameFee(t)
    BY <1>2, <1>w, ClaimEffects DEF Claim
  <2> QED
    BY <2>1, <2>2 DEF MandateActive, SameFee
<1>3. CASE KeepsRow(t)
  BY <1>1, <1>3 DEF KeepsRow
<1>4. ASSUME NEW w \in Workers, Writes(w, t)
      PROVE  transfer[t].status = "submitting" /\ SameFee(t)
  BY <1>4, <1>w DEF Writes, WorkerType, ProviderStatuses
<1>5. /\ \A v \in Versions : ~Release(v, t)
      /\ ~Resume(t) /\ ~IsCancelled(t) /\ ~IsDropped(t) /\ ~IsSettled(t)
  BY <1>w, ReleaseEffects, ResumeEffects
     DEF IsCancelled, IsDropped, IsSettled, ProviderStatuses
<1> QED
  BY <1>1, <1>2, <1>3, <1>4, <1>5, RowChanges DEF RowChange

\* Plaid's log follows the debits.
LEMMA LogFollowsDebitsStep ==
    TypeOK /\ WorkersHoldRows /\ LogFollowsDebits /\ Next => LogFollowsDebits'
<1> SUFFICES ASSUME TypeOK, WorkersHoldRows, LogFollowsDebits, Next,
                    NEW t \in Transfers, events'[t] # <<>>
             PROVE  \E n \in AuthNos : debit'[t][n] # "none"
  BY DEF LogFollowsDebits, Debited
<1>w. /\ debit \in [Transfers -> [AuthNos -> ProviderStatuses \cup {"none"}]]
      /\ events \in [Transfers -> Seq([auth: AuthNos, status: ProviderStatuses])]
  BY DEF TypeOK, PlaidTypeOK
<1>1. ASSUME Debited(t) # {} PROVE \E n \in AuthNos : debit'[t][n] # "none"
  BY <1>1, DebitsStay DEF Debited
<1>2. CASE events[t] # <<>>
  BY <1>1, <1>2 DEF LogFollowsDebits
<1>3. CASE events[t] = <<>>
  <2>1. ASSUME NEW x \in Transfers, NEW n \in AuthNos, DebitCreated(x, n)
        PROVE  x = t /\ debit'[t][n] # "none"
    BY <1>3, <2>1, <1>w DEF DebitCreated
  <2>2. ASSUME NEW x \in Transfers, PlaidProgress(x) PROVE Debited(t) # {}
    BY <1>3, <2>2, <1>w DEF PlaidProgress
  <2>3. ASSUME NEW x \in Transfers, SyncEvent(x) PROVE FALSE
    BY <1>3, <2>3, <1>w DEF SyncEvent
  <2> QED
    BY <1>1, <1>3, <2>1, <2>2, <2>3, DebitMoves
<1> QED
  BY <1>2, <1>3

\* A dispatcher that runs alone debits the authorization its row names.
LEMMA DebitIsSavedStep ==
    OneDispatcher /\ IInv /\ AloneInv /\ Next => DebitIsSaved'
<1> SUFFICES ASSUME OneDispatcher, IInv, AloneInv, Next,
                    NEW t \in Transfers, NEW n \in AuthNos, debit'[t][n] # "none"
             PROVE  transfer'[t].auth = n
  BY DEF DebitIsSaved, Debited
<1>i. TypeOK /\ WorkersHoldRows /\ RowsExistFirst
  BY DEF IInv, RowInv
<1>w. transfer \in [Transfers -> TransferType] /\ worker \in [Workers -> WorkerType]
  BY <1>i DEF TypeOK
<1>1. ASSUME debit[t][n] = "none" PROVE transfer'[t].auth = n
  <2>1. DebitCreated(t, n)
    BY <1>1, <1>i, DebitsStay
  <2>2. PICK w \in Workers : /\ worker[w].pc \in {"create", "recreate"}
                             /\ worker[w].intent = t /\ worker[w].auth = n
    BY <2>1 DEF DebitCreated
  <2>3. transfer[t].auth = n
    BY <2>2 DEF AloneInv, HeldRows, Holding
  <2> QED
    BY <2>1, <2>3 DEF DebitCreated, localVars
<1>2. ASSUME debit[t][n] # "none" PROVE transfer'[t].auth = n
  <2>1. transfer[t].auth = n /\ n # 0 /\ transfer[t].status # "none"
    BY <1>2, <1>i DEF AloneInv, DebitIsSaved, Debited, AuthNos, RowsExistFirst
  <2>2. ASSUME NEW v \in Versions, Release(v, t) PROVE FALSE
    BY <2>1, <2>2 DEF Release
  <2>3. ASSUME Resume(t) PROVE transfer'[t].auth = n
    <3>1. transfer[t].status = "action_required"
      BY <2>3 DEF Resume
    <3>2. auths[t][n] = "approved"
      BY <1>2 DEF IInv, ReviewInv, OnlyReviewedDebits, Debited
    <3>3. transfer[t].failure # "repair"
      BY <2>1, <3>1, <3>2 DEF AloneInv, RepairsAreRefused, Refused
    <3> QED
      BY <2>1, <2>3, <3>3, <1>w, ResumeEffects
  <2>4. ASSUME NEW w \in Workers, Claim(w, t) PROVE transfer'[t].auth = n
    BY <2>1, <2>4, <1>w, ClaimEffects DEF Claim
  <2>5. ASSUME NEW w \in Workers, Writes(w, t) PROVE transfer'[t].auth = n
    <3>1. worker[w].pc = "record" => worker[w].auth = transfer[t].auth
      BY <2>5 DEF Writes, AloneInv, HeldRows, Holding
    <3> QED
      BY <2>1, <2>5, <3>1 DEF Writes
  <2> QED
    BY <2>1, <2>2, <2>3, <2>4, <2>5, <1>i, RowChanges
       DEF RowChange, KeepsRow, IsCancelled, IsDropped, IsSettled
<1> QED
  BY <1>1, <1>2

\* A bank repair always follows a refused authorization.
LEMMA RepairsAreRefusedStep ==
    IInv /\ AloneInv /\ Next => RepairsAreRefused'
<1> SUFFICES ASSUME IInv, AloneInv, Next, NEW t \in Transfers,
                    transfer'[t].status = "action_required",
                    transfer'[t].failure = "repair"
             PROVE  Refused(t)'
  BY DEF RepairsAreRefused
<1>i. TypeOK /\ WorkersHoldRows /\ RowsExistFirst /\ OneDecision
  BY DEF IInv, RowInv
<1>w. transfer \in [Transfers -> TransferType] /\ worker \in [Workers -> WorkerType]
  BY <1>i DEF TypeOK
<1>1. ASSUME Refused(t), transfer'[t].auth = transfer[t].auth PROVE Refused(t)'
  <2>1. auths'[t][transfer[t].auth] = auths[t][transfer[t].auth]
    BY <1>1, <1>i, DecisionsStay DEF Refused
  <2> QED
    BY <1>1, <2>1 DEF Refused
<1>2. CASE KeepsRow(t)
  <2>1. Refused(t)
    BY <1>2 DEF KeepsRow, AloneInv, RepairsAreRefused
  <2> QED
    BY <1>1, <1>2, <2>1 DEF KeepsRow
<1>3. ASSUME NEW w \in Workers, Writes(w, t) PROVE Refused(t)'
  <2>1. /\ worker[w].intent = t
        /\ transfer[t].status # "action_required"
        /\ worker[w].pc = "failing" /\ worker[w].failure = "repair" => Refused(t)
    BY <1>3 DEF Writes, AloneInv, HeldRows
  <2>2. worker[w].pc = "failing" /\ worker[w].failure = "repair"
        /\ transfer'[t].auth = transfer[t].auth
    BY <1>3, <1>w, <2>1 DEF Writes, WorkerType, ProviderStatuses
  <2> QED
    BY <1>1, <2>1, <2>2
<1>4. ASSUME NEW w \in Workers, Claim(w, t) PROVE FALSE
  <2>1. transfer'[t].status = "submitting"
    BY <1>4, <1>w, ClaimEffects DEF Claim
  <2> QED
    BY <2>1
<1>5. /\ \A v \in Versions : ~Release(v, t)
      /\ ~Resume(t) /\ ~IsCancelled(t) /\ ~IsDropped(t) /\ ~IsSettled(t)
  BY <1>w, ReleaseEffects, ResumeEffects
     DEF IsCancelled, IsDropped, IsSettled, ProviderStatuses
<1> QED
  BY <1>2, <1>3, <1>4, <1>5, <1>i, RowChanges DEF RowChange

\* A refusal stays one as long as the row names it.
LEMMA RefusalStays ==
    ASSUME IInv, Next, NEW t \in Transfers, Refused(t), transfer'[t].auth = transfer[t].auth
    PROVE  Refused(t)'
<1>1. auths'[t][transfer[t].auth] = auths[t][transfer[t].auth]
  BY DecisionsStay DEF Refused, IInv, RowInv
<1> QED
  BY <1>1 DEF Refused

\* The row of the dispatcher while others act: only events may settle it.
LEMMA HeldRowStays ==
    ASSUME OneDispatcher, IInv, AloneInv, Next,
           NEW w \in Workers, worker[w].pc # "idle", ~DispatchStep(w),
           NEW t \in Transfers, t = worker[w].intent
    PROVE  KeepsRow(t) \/ IsSettled(t)
<1>i. TypeOK /\ WorkersHoldRows /\ RowsExistFirst
  BY DEF IInv, RowInv
<1>w. transfer \in [Transfers -> TransferType] /\ worker \in [Workers -> WorkerType]
  BY <1>i DEF TypeOK
<1>1. transfer[t].status \notin {"none", "authorizing", "action_required"}
  BY DEF AloneInv, HeldRows
<1>2. \A v \in Workers : v = w
  BY DEF OneDispatcher
<1>3. \A v \in Versions : ~Release(v, t)
  BY <1>1 DEF Release
<1>4. ~IsDropped(t) /\ ~Resume(t)
  BY <1>1 DEF IsDropped, Resume
<1>5. \A v \in Workers : worker[v].pc # "idle" /\ ~Claim(v, t) /\ ~Writes(v, t)
  BY <1>2 DEF Claim, Writes
<1> QED
  BY <1>3, <1>4, <1>5, <1>i, RowChanges DEF RowChange

\* How the only dispatcher moves when the step is not one of DispatchStep.
LEMMA DispatcherWaits ==
    ASSUME OneDispatcher, TypeOK, Next, NEW w \in Workers, ~DispatchStep(w)
    PROVE  \/ worker'[w] = worker[w]
           \/ worker'[w] = Idle
           \/ \E t \in Transfers : Claim(w, t)
<1>w. worker \in [Workers -> WorkerType]
  BY DEF TypeOK
<1>1. Staff \/ Client \/ Environment => UNCHANGED worker
  BY DEF Staff, Client, Environment, SaveAllocation, CreateObligation, SendAuthorization,
     Release, SignMandate, RevokeMandate, ExchangeSource, Resume, WindowMoves,
     ItemRevoked, ClaimAges, ProviderStep
<1>2. \A t \in Transfers : SyncEvent(t) => UNCHANGED worker
  BY DEF SyncEvent
<1>3. ASSUME NEW v \in Workers, ClaimStep(v) \/ DispatchStep(v) \/ Crash(v)
      PROVE  ClaimStep(w) \/ Crash(w)
  BY <1>3 DEF OneDispatcher
<1>4. \A t \in Transfers : ClaimBlocked(w, t) => UNCHANGED worker
  BY DEF ClaimBlocked
<1>5. Crash(w) => worker'[w] = Idle
  BY <1>w DEF Crash
<1> QED
  BY <1>1, <1>2, <1>3, <1>4, <1>5 DEF Next, ClaimStep

\* Every move of a dispatcher at work leaves it with what its row says.
LEMMA DispatcherFollows ==
    ASSUME IInv, AloneInv, Next, NEW w \in Workers, DispatchStep(w),
           worker'[w].pc # "idle", NEW t \in Transfers, t = worker[w].intent
    PROVE  /\ worker[w].pc # "idle"
           /\ worker'[w].intent = t
           /\ transfer'[t].status = transfer[t].status
           /\ worker'[w].pc \in Holding \ {"save"} => worker'[w].auth = transfer'[t].auth
           /\ worker'[w].pc = "failing" /\ worker'[w].failure = "repair" => Refused(t)'
<1> DEFINE Same(u) == /\ worker'[u].intent = worker[u].intent
                      /\ worker'[u].auth = worker[u].auth
           Fails(f) == worker'[w].pc = "failing" /\ worker'[w].failure = f
           Goal == /\ worker[w].pc # "idle"
                   /\ worker'[w].intent = t
                   /\ transfer'[t].status = transfer[t].status
                   /\ worker'[w].pc \in Holding \ {"save"} => worker'[w].auth = transfer'[t].auth
                   /\ worker'[w].pc = "failing" /\ worker'[w].failure = "repair" => Refused(t)'
<1>w. transfer \in [Transfers -> TransferType] /\ worker \in [Workers -> WorkerType]
  BY DEF IInv, TypeOK
<1>e. /\ \A p : Goto(w, p) => Same(w) /\ worker'[w].pc = p
      /\ \A f : Fail(w, f) => Same(w) /\ Fails(f)
      /\ \A s : Answered(w, s) => Same(w) /\ worker'[w].pc = "record"
  BY <1>w, GotoEffects, FailEffects, AnsweredEffects DEF SameWork
<1>l. \A a, c, p : Take(w, a, c, p) => /\ worker'[w].intent = worker[w].intent
                                       /\ worker'[w].auth = a
                                       /\ worker'[w].pc = p
  BY <1>w, TakeEffects
<1>h. worker[w].pc \in Holding \ {"save"} => worker[w].auth = transfer[t].auth
  BY DEF AloneInv, HeldRows, Holding
<1>f. "failing" \notin Holding
  BY DEF Holding
\* These moves keep the authorization, or lead to a failure that is no repair.
<1>k. ASSUME transfer' = transfer, Same(w), worker[w].pc \in Holding \ {"save"},
             worker'[w].pc = "failing" => worker'[w].failure # "repair"
      PROVE  Goal
  BY <1>k, <1>h DEF Holding
<1>n. ASSUME transfer' = transfer, Same(w), worker[w].pc # "idle",
             Fails("declined") \/ Fails("transient")
      PROVE  Goal
  BY <1>n, <1>f
<1>1. CASE LoadContext(w)
  <2>1. transfer' = transfer /\ worker[w].pc # "idle"
    BY <1>1 DEF LoadContext, localVars
  <2>2. CASE Fail(w, "declined")
    BY <1>e, <1>n, <2>1, <2>2
  <2>3. ASSUME NEW p \in {"authorize", "lookup"}, Take(w, transfer[t].auth, transfer[t].checked, p)
        PROVE  Goal
    BY <1>l, <2>1, <2>3
  <2> QED
    BY <1>1, <2>2, <2>3 DEF LoadContext
<1>2. CASE Lookup(w) \/ Create(w) \/ Recover(w) \/ Recreate(w)
  <2>1. transfer' = transfer /\ worker[w].pc \in Holding \ {"save"}
    BY <1>2 DEF Lookup, Create, Recover, Recreate, localVars, Holding
  <2>2. /\ Same(w)
        /\ worker'[w].pc = "failing" => worker'[w].failure # "repair"
    BY <1>2, <1>e DEF Lookup, Create, Recover, Recreate
  <2> QED
    BY <1>k, <2>1, <2>2
<1>3. CASE Authorize(w)
  <2>1. transfer' = transfer /\ worker[w].pc # "idle"
    BY <1>3 DEF Authorize, localVars
  <2>2. CASE Fail(w, "transient") \/ Fail(w, "declined")
    BY <1>e, <1>n, <2>1, <2>2
  <2>3. ASSUME NEW n \in AuthNos, Take(w, n, auths'[t][n] = "approved", "save") PROVE Goal
    BY <1>l, <2>1, <2>3
  <2> QED
    BY <1>3, <2>2, <2>3 DEF Authorize
<1>4. CASE SaveAuthorization(w)
  <2> DEFINE n == worker[w].auth
  <2>1. worker[w].pc = "save" /\ n \in AuthNos
    BY <1>4 DEF SaveAuthorization, IInv, RowInv, WorkersHoldRows, Holding
  <2>2. CASE transfer' = transfer /\ Fail(w, "transient")
    BY <1>e, <1>n, <2>1, <2>2
  <2>3. CASE transfer[t].auth \in {0, n}
    <3>1. transfer' = [transfer EXCEPT ![t] = [@ EXCEPT !.auth = n, !.checked = worker[w].checked]]
      BY <1>4, <2>3 DEF SaveAuthorization
    <3>2. transfer'[t].auth = n /\ transfer'[t].status = transfer[t].status
      BY <3>1, <1>w DEF TransferType
    <3>3. auths[t][n] = "user_action_required" => Refused(t)'
      BY <1>4, <2>1, <3>2 DEF SaveAuthorization, plaidVars, Refused
    <3>4. \/ Goto(w, "create")
          \/ /\ Fail(w, "repair")
             /\ auths[t][n] = "user_action_required"
          \/ Fail(w, "declined")
      BY <1>4, <2>3 DEF SaveAuthorization
    <3> QED
      BY <1>e, <1>f, <2>1, <3>2, <3>3, <3>4
  <2> QED
    BY <1>4, <2>2, <2>3 DEF SaveAuthorization
<1>5. CASE RecordSubmission(w)
  <2>1. worker'[w] = Idle \/ (transfer' = transfer /\ Fail(w, "transient"))
    BY <1>5, <1>w DEF RecordSubmission
  <2>2. transfer' = transfer /\ Fail(w, "transient") /\ worker[w].pc = "record"
    BY <1>5, <2>1 DEF Idle, RecordSubmission
  <2> QED
    BY <1>e, <1>n, <2>2
<1>6. CASE RecordFailure(w)
  BY <1>6, <1>w DEF RecordFailure, Idle
<1> QED
  BY <1>1, <1>2, <1>3, <1>4, <1>5, <1>6 DEF DispatchStep

\* A dispatcher that runs alone finds its row as it left it.
LEMMA HeldRowsStep ==
    OneDispatcher /\ IInv /\ AloneInv /\ Next => HeldRows'
<1> SUFFICES ASSUME OneDispatcher, IInv, AloneInv, Next,
                    NEW w \in Workers, NEW t \in Transfers,
                    worker'[w].pc # "idle", worker'[w].intent = t
             PROVE  /\ transfer'[t].status \notin {"none", "authorizing", "action_required"}
                    /\ Debited(t)' = {} => transfer'[t].status = "submitting"
                    /\ worker'[w].pc \in Holding \ {"save"}
                         => worker'[w].auth = transfer'[t].auth
                    /\ worker'[w].pc = "failing" /\ worker'[w].failure = "repair"
                         => Refused(t)'
  BY DEF HeldRows
<1>i. TypeOK /\ WorkersHoldRows
  BY DEF IInv, RowInv
<1>w. transfer \in [Transfers -> TransferType] /\ worker \in [Workers -> WorkerType]
  BY <1>i DEF TypeOK
<1>1. Debited(t)' = {} => Debited(t) = {}
  BY <1>i, DebitsStay DEF Debited
<1>2. ASSUME worker[w].pc # "idle", worker[w].intent = t
      PROVE  /\ transfer[t].status \notin {"none", "authorizing", "action_required"}
             /\ Debited(t) = {} => transfer[t].status = "submitting"
             /\ worker[w].pc \in Holding \ {"save"} => worker[w].auth = transfer[t].auth
             /\ worker[w].pc = "failing" /\ worker[w].failure = "repair" => Refused(t)
  BY <1>2 DEF AloneInv, HeldRows
<1>3. CASE DispatchStep(w)
  <2>1. worker[w].pc # "idle" /\ worker[w].intent \in Transfers
    BY <1>3, <1>i DEF DispatchStep, LoadContext, Lookup, Authorize, SaveAuthorization, Create,
       Recover, Recreate, RecordSubmission, RecordFailure, WorkersHoldRows
  <2>2. worker[w].intent = t
    BY <1>3, <2>1, DispatcherFollows
  <2>3. /\ transfer'[t].status = transfer[t].status
        /\ worker'[w].pc \in Holding \ {"save"} => worker'[w].auth = transfer'[t].auth
        /\ worker'[w].pc = "failing" /\ worker'[w].failure = "repair" => Refused(t)'
    BY <1>3, <2>2, DispatcherFollows
  <2> QED
    BY <1>1, <1>2, <2>1, <2>2, <2>3
<1>4. CASE worker'[w] = worker[w] /\ ~DispatchStep(w)
  <2>1. worker[w].pc # "idle" /\ worker[w].intent = t
    BY <1>4
  <2>2. KeepsRow(t) \/ IsSettled(t)
    BY <1>4, <2>1, HeldRowStays
  <2>3. transfer'[t].auth = transfer[t].auth
    BY <2>2 DEF KeepsRow, IsSettled
  <2>4. /\ transfer'[t].status \notin {"none", "authorizing", "action_required"}
        /\ Debited(t) = {} => transfer'[t].status = "submitting"
    BY <1>2, <2>1, <2>2 DEF KeepsRow, IsSettled, ProviderStatuses, AloneInv, LogFollowsDebits
  <2>5. Refused(t) => Refused(t)'
    BY <2>3, RefusalStays
  <2> QED
    BY <1>1, <1>2, <1>4, <2>1, <2>3, <2>4, <2>5
<1>5. CASE ~DispatchStep(w) /\ worker'[w] # worker[w]
  <2>1. worker'[w] # Idle
    BY DEF Idle
  <2>2. PICK x \in Transfers : Claim(w, x)
    BY <1>5, <1>i, <2>1, DispatcherWaits
  <2>3. worker'[w].pc = "context" /\ x = t
    BY <1>w, <2>2 DEF Claim, Idle
  <2>4. transfer'[t].status = "submitting"
    <3>1. transfer' = [transfer EXCEPT ![x] = [@ EXCEPT !.status = "submitting",
                                                        !.claimed = "fresh"]]
      BY <2>2 DEF Claim
    <3> QED
      BY <3>1, <1>w, <2>3 DEF TransferType
  <2> QED
    BY <2>3, <2>4 DEF Holding
<1> QED
  BY <1>3, <1>4, <1>5

\* Every step of one dispatcher and of everybody else keeps AloneInv.
LEMMA AloneInvStep == OneDispatcher /\ IInv /\ AloneInv /\ [Next]_vars => AloneInv'
<1>1. CASE Next
  BY <1>1, DebitIsSavedStep, LogFollowsDebitsStep, HeldRowsStep, RepairsAreRefusedStep,
     ClaimsAreBackedStep DEF IInv, RowInv, AloneInv
<1>2. CASE UNCHANGED vars
  BY <1>2 DEF AloneInv, DebitIsSaved, LogFollowsDebits, HeldRows, RepairsAreRefused,
     ClaimsAreBacked, Refused, Debited, vars, plaidVars, feeVars
<1> QED
  BY <1>1, <1>2

\* With one dispatcher, what it remembers, its row and Plaid agree in every
\* reachable state, also across crashes, lost replies, repairs and forgotten
\* idempotency keys.
THEOREM OneDispatcherAgrees == ASSUME OneDispatcher PROVE Spec => []AloneInv
<1>1. Init => AloneInv
  <2> SUFFICES ASSUME Init PROVE AloneInv
    OBVIOUS
  <2>1. /\ \A t \in Transfers : transfer[t].status = "none" /\ events[t] = <<>>
        /\ \A t \in Transfers : \A n \in AuthNos : debit[t][n] = "none"
        /\ \A w \in Workers : worker[w].pc = "idle"
    BY DEF Init, PlaidInit, NoTransfer, Idle
  <2> QED
    BY <2>1 DEF AloneInv, DebitIsSaved, LogFollowsDebits, HeldRows, RepairsAreRefused,
       ClaimsAreBacked, Debited
<1>2. IInv /\ AloneInv /\ [Next]_vars => AloneInv'
  BY AloneInvStep
<1> QED
  BY <1>1, <1>2, InductiveInvariant, PTL DEF Spec

\* With one dispatcher an intent causes at most one debit even when Plaid
\* forgets its idempotency key between two attempts.
THEOREM OneDebitAlone == ASSUME OneDispatcher PROVE Spec => []AtMostOneDebit
<1>1. AloneInv => AtMostOneDebit
  BY DEF AloneInv, DebitIsSaved, AtMostOneDebit
<1> QED
  BY <1>1, OneDispatcherAgrees, PTL

\* A new debit is the first of its intent, whose row is claimed and stays so.
LEMMA FirstDebit ==
    ASSUME IInv, AloneInv, Next, NEW t \in Transfers, NEW n \in AuthNos, DebitCreated(t, n)
    PROVE  /\ Debited(t) = {} /\ Debited(t)' = {n}
           /\ transfer[t].status = "submitting"
           /\ UNCHANGED localVars
<1>w. debit \in [Transfers -> [AuthNos -> ProviderStatuses \cup {"none"}]]
  BY DEF IInv, TypeOK, PlaidTypeOK
<1>1. PICK w \in Workers : /\ worker[w].pc \in {"create", "recreate"}
                           /\ worker[w].intent = t /\ worker[w].auth = n
  BY DEF DebitCreated
<1>2. /\ transfer[t].auth = n
      /\ Debited(t) = {} => transfer[t].status = "submitting"
  BY <1>1 DEF AloneInv, HeldRows, Holding
<1>3. Debited(t) = {}
  BY <1>2 DEF AloneInv, DebitIsSaved, DebitCreated, Debited
<1>4. Debited(t)' = {n}
  BY <1>3, <1>w DEF DebitCreated, Debited
<1> QED
  BY <1>2, <1>3, <1>4 DEF DebitCreated

\* With one dispatcher an accepted revocation is final: no later step debits the
\* account under the revoked mandate, however long the claim was under way.
THEOREM RevocationIsFinal == ASSUME OneDispatcher PROVE Spec => NoDebitAfterRevocation
<1> DEFINE Final == \A t \in Transfers : NewDebit(t) =>
                       LET v == transfer[t].obligation
                       IN  mandate[v].no = transfer[t].mandate => mandate[v].status # "revoked"
<1>1. IInv /\ AloneInv /\ [Next]_vars => [Final]_vars
  <2> SUFFICES ASSUME IInv, AloneInv, Next, NEW t \in Transfers, NewDebit(t),
                      mandate[transfer[t].obligation].no = transfer[t].mandate
               PROVE  mandate[transfer[t].obligation].status # "revoked"
    OBVIOUS
  <2>1. PICK n \in AuthNos : debit[t][n] = "none" /\ debit'[t][n] # "none"
    BY DEF NewDebit
  <2>2. DebitCreated(t, n)
    BY <2>1, DebitsStay DEF IInv, RowInv
  <2>3. transfer[t].status = "submitting"
    BY <2>2, FirstDebit
  <2> QED
    BY <2>3 DEF AloneInv, ClaimsAreBacked
<1>2. Spec => [][Final]_vars
  BY <1>1, InductiveInvariant, OneDispatcherAgrees, PTL DEF Spec
<1> QED
  BY <1>2 DEF NoDebitAfterRevocation

\* The number of debits of an intent changes with its first debit only.
LEMMA CountsStay ==
    ASSUME TypeOK, WorkersHoldRows, Next,
           \A x \in Transfers, m \in AuthNos : ~DebitCreated(x, m)
    PROVE  DebitCounts' = DebitCounts
<1>1. ASSUME NEW x \in Transfers PROVE Debited(x)' = Debited(x)
  BY DebitsStay DEF Debited
<1> QED
  BY <1>1 DEF DebitCounts

\* A step of the collection is a debit of a live intent, or changes which
\* intents are live.
LEMMA OneDebitStep ==
    IInv /\ AloneInv /\ [Next]_vars => [Intents!Next]_<<LiveIntents, DebitCounts>>
<1> SUFFICES ASSUME IInv, AloneInv, [Next]_vars
             PROVE  Intents!Next \/ UNCHANGED <<LiveIntents, DebitCounts>>
  OBVIOUS
<1>1. CASE UNCHANGED vars
  <2>1. \A x \in Transfers : Debited(x)' = Debited(x)
    BY <1>1 DEF Debited, vars, plaidVars
  <2> QED
    BY <1>1, <2>1 DEF LiveIntents, DebitCounts, vars
<1>2. ASSUME Next, NEW t \in Transfers, NEW n \in AuthNos, DebitCreated(t, n)
      PROVE  Intents!Debit(t)
  <2>1. /\ Debited(t) = {} /\ Debited(t)' = {n}
        /\ transfer[t].status = "submitting"
        /\ UNCHANGED localVars
    BY <1>2, FirstDebit
  <2>2. ASSUME NEW x \in Transfers, x # t PROVE Debited(x)' = Debited(x)
    BY <1>2, <2>2 DEF DebitCreated, Debited, IInv, TypeOK, PlaidTypeOK
  <2>3. Cardinality(Debited(t)) = 0 /\ Cardinality(Debited(t)') = 1
    BY <2>1, FS_EmptySet, FS_Singleton
  <2>4. t \in LiveIntents /\ UNCHANGED LiveIntents
    BY <2>1 DEF LiveIntents, localVars
  <2>5. DebitCounts[t] = 0 /\ DebitCounts' = [DebitCounts EXCEPT ![t] = 1]
    BY <2>2, <2>3 DEF DebitCounts
  <2> QED
    BY <2>4, <2>5 DEF Intents!Debit
<1>3. CASE Next /\ \A x \in Transfers, m \in AuthNos : ~DebitCreated(x, m)
  <2>1. DebitCounts' = DebitCounts
    BY <1>3, CountsStay DEF IInv, RowInv
  <2>2. LiveIntents' \in SUBSET Transfers
    BY DEF LiveIntents
  <2> QED
    BY <2>1, <2>2 DEF Intents!Next, Intents!ChangeLive
<1> QED
  BY <1>1, <1>2, <1>3 DEF Intents!Next

\* With one dispatcher the collection implements "claim and submit exactly
\* once": money moves for an intent once, while it is live, and is never
\* counted back.
THEOREM OneDebitRefines == ASSUME OneDispatcher PROVE Spec => ImplementsOneDebit
<1>1. Init => Intents!Init
  <2> SUFFICES ASSUME Init PROVE Intents!Init
    OBVIOUS
  <2>1. \A t \in Transfers : transfer[t].status = "none" /\ Debited(t) = {}
    BY DEF Init, PlaidInit, NoTransfer, Debited
  <2>2. LiveIntents = {} /\ DebitCounts = [t \in Transfers |-> 0]
    BY <2>1, FS_EmptySet DEF LiveIntents, DebitCounts
  <2> QED
    BY <2>2 DEF Intents!Init
<1>2. Spec => Intents!Spec
  BY <1>1, OneDebitStep, InductiveInvariant, OneDispatcherAgrees, PTL
     DEF Spec, Intents!Spec, Intents!vars, LiveIntents, DebitCounts
<1> QED
  BY <1>2 DEF ImplementsOneDebit
=============================================================================
