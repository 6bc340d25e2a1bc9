-------------------------- MODULE StkPaymentProofs --------------------------
(***************************************************************************)
(* Proofs about StkPayment for any number of attempts, crashes and         *)
(* duplicated callbacks.                                                   *)
(***************************************************************************)
EXTENDS StkPayment, TLAPS

(***************************************************************************)
(* The inductive invariant                                                 *)
(***************************************************************************)
\* A result is on its way, logged or handled only once the phone answered.
HeardAnswered ==
    \A p \in Payments : p \in calls \/ p \in hearing \/ event[p] # "none" => phone[p] \in Answer

\* A checkout id is on a row only after its request stored it; a row whose
\* request is still under way is not settled.
RowFollowsRequest ==
    \A p \in Payments :
        /\ request[p] \in {"none", "prepared", "checked"} => row[p] = "none"
        /\ request[p] \in {"inserted", "accepted", "rejected"} => row[p] = "initiated" /\ p \notin bound
        /\ p \in bound => request[p] \in {"unsure", "over"} /\ row[p] \in {"pending"} \cup Settled
        /\ request[p] = "unsure" => p \in bound /\ faults > 0

\* Only a payment whose checkout id is stored is watched or reconciled.
WatchedIsBound ==
    \A p \in Payments : timer[p] # "none" \/ p \in stuck => p \in bound

\* The phone is silent until the request has reached the gateway, and never
\* prompted without a row.
PhoneFollowsRequest ==
    \A p \in Payments :
        /\ request[p] \in {"none", "prepared", "checked", "inserted"} => phone[p] = "none"
        /\ row[p] = "none" => phone[p] = "none"

\* What a settled row says of the phone is so.
RowsAreTrue ==
    \A p \in Payments :
        /\ row[p] = "success" => phone[p] \in Taken
        /\ row[p] = "failed" => phone[p] = "refused"
        /\ row[p] = "mismatch" => phone[p] = "other"
        /\ row[p] = "givenup" /\ p \in bound => faults > 0

\* An event that was handled cleanly belongs to a settled, known payment.
ProcessedIsSettled ==
    \A p \in Payments :
        /\ event[p] = "processed" => p \in bound /\ row[p] \in Settled
        /\ p \in hearing => event[p] = "received"

IInv ==
    /\ TypeOK
    /\ HeardAnswered /\ RowFollowsRequest /\ PhoneFollowsRequest /\ WatchedIsBound
    /\ RowsAreTrue /\ ProcessedIsSettled
    /\ PaidImpliesCharged /\ PendingIsWatched

(***************************************************************************)
(* Its preservation, action by action                                      *)
(***************************************************************************)
\* The initial state satisfies the invariant.
LEMMA InitInv == Init => IInv
  <1> SUFFICES ASSUME Init PROVE IInv
    OBVIOUS
  <1>1. TypeOK
    BY DEF Init, TypeOK
  <1>2. HeardAnswered /\ WatchedIsBound /\ RowsAreTrue /\ ProcessedIsSettled
      /\ PaidImpliesCharged /\ PendingIsWatched
    BY DEF Init, HeardAnswered, WatchedIsBound, RowsAreTrue, ProcessedIsSettled,
           PaidImpliesCharged, PendingIsWatched
  <1>3. RowFollowsRequest /\ PhoneFollowsRequest
    BY DEF Init, RowFollowsRequest, PhoneFollowsRequest
  <1>4. QED  BY <1>1, <1>2, <1>3 DEF IInv

\* Every step of a request preserves the invariant.
LEMMA RequestInv ==
  ASSUME IInv, NEW p \in Payments,
         Prepare(p) \/ CheckPending(p) \/ InsertPayment(p) \/ StorePending(p) \/ StoreFails(p) \/ MarkFailed(p) \/ MinutePasses(p)
  PROVE  IInv'
  <1> USE DEF IInv, TypeOK, HeardAnswered, RowFollowsRequest, PhoneFollowsRequest, WatchedIsBound,
          RowsAreTrue, ProcessedIsSettled, PaidImpliesCharged, PendingIsWatched, Open, Settled,
          Taken, Answer, FaultsAssumption,
          requestVars, callbackVars, workerVars, Request, Heard
  <1>1. CASE Prepare(p)
    BY <1>1 DEF Prepare
  <1>2. CASE CheckPending(p)
    BY <1>2 DEF CheckPending
  <1>3. CASE InsertPayment(p)
    BY <1>3 DEF InsertPayment
  <1>4. CASE StorePending(p)
    BY <1>4 DEF StorePending
  <1>5. CASE StoreFails(p)
    BY <1>5 DEF StoreFails
  <1>6. CASE MarkFailed(p)
    BY <1>6 DEF MarkFailed
  <1>7. CASE MinutePasses(p)
    BY <1>7 DEF MinutePasses
  <1>8. QED  BY <1>1, <1>2, <1>3, <1>4, <1>5, <1>6, <1>7

\* Whatever gateway, phone and network do preserves the invariant.
LEMMA GatewayInv ==
  ASSUME IInv, NEW p \in Payments,
         PushAccepted(p) \/ PushRejected(p) \/ PhoneAnswers(p) \/ CallbackLost(p)
  PROVE  IInv'
  <1> USE DEF IInv, TypeOK, HeardAnswered, RowFollowsRequest, PhoneFollowsRequest, WatchedIsBound,
          RowsAreTrue, ProcessedIsSettled, PaidImpliesCharged, PendingIsWatched, Open, Settled,
          Taken, Answer, FaultsAssumption,
          requestVars, callbackVars, workerVars, Request, Heard
  <1>1. CASE PushAccepted(p)
    BY <1>1 DEF PushAccepted
  <1>2. CASE PushRejected(p)
    BY <1>2 DEF PushRejected
  <1>3. CASE PhoneAnswers(p)
    BY <1>3 DEF PhoneAnswers
  <1>4. CASE CallbackLost(p)
    BY <1>4 DEF CallbackLost
  <1>5. QED  BY <1>1, <1>2, <1>3, <1>4

\* Logging, refusing and confirming a callback preserve the invariant.
LEMMA CallbackInv ==
  ASSUME IInv, NEW p \in Payments,
         CallbackLogged(p) \/ CallbackUnknown(p) \/ CallbackConfirmed(p)
  PROVE  IInv'
  <1> USE DEF IInv, TypeOK, HeardAnswered, RowFollowsRequest, PhoneFollowsRequest, WatchedIsBound,
          RowsAreTrue, ProcessedIsSettled, PaidImpliesCharged, PendingIsWatched, Open, Settled,
          Taken, Answer, FaultsAssumption,
          requestVars, callbackVars, workerVars, Request, Heard
  <1>1. CASE CallbackLogged(p)
    BY <1>1 DEF CallbackLogged
  <1>2. CASE CallbackUnknown(p)
    BY <1>2 DEF CallbackUnknown
  <1>3. CASE CallbackConfirmed(p)
    BY <1>3 DEF CallbackConfirmed, ResultStatus, CancelTimers, JobAfter
  <1>4. QED  BY <1>1, <1>2, <1>3

\* The worker's steps on one timer preserve the invariant.
LEMMA WorkerInv ==
  ASSUME IInv, NEW p \in Payments,
         ClaimTimer(p) \/ Reconcile(p) \/ HandlerFails(p) \/ ReconcileRunsOn(p)
  PROVE  IInv'
  <1> USE DEF IInv, TypeOK, HeardAnswered, RowFollowsRequest, PhoneFollowsRequest, WatchedIsBound,
          RowsAreTrue, ProcessedIsSettled, PaidImpliesCharged, PendingIsWatched, Open, Settled,
          Taken, Answer, FaultsAssumption,
          requestVars, callbackVars, workerVars, Request, Heard
  <1>1. CASE ClaimTimer(p)
    BY <1>1 DEF ClaimTimer
  <1>2. CASE Reconcile(p)
    BY <1>2 DEF Reconcile
  <1>3. CASE HandlerFails(p)
    BY <1>3 DEF HandlerFails
  <1>4. CASE ReconcileRunsOn(p)
    <2>1. PICK result \in Learnt(p), first \in {"live", "none"} :
            /\ row' = [row EXCEPT ![p] = result] /\ job' = JobAfter(result)
            /\ timer' = [timer EXCEPT ![p] = first]
      BY <1>4 DEF ReconcileRunsOn
    <2>2. /\ \/ result = "givenup"
             \/ (result = "success" /\ phone[p] \in Taken)
             \/ (result = "failed" /\ phone[p] = "refused")
          /\ faults' > 0 /\ p \in bound /\ stuck' = {}
      <3>1. faults' > 0 /\ p \in bound /\ stuck' = {}
        BY <1>4 DEF ReconcileRunsOn
      <3>2. result = "givenup" \/ (phone[p] \in Answer /\ result = ResultStatus(p))
        BY <2>1 DEF Learnt
      <3>3. QED  BY <3>1, <3>2 DEF ResultStatus
    <2>3. TypeOK'
      BY <1>4, <2>1, <2>2 DEF ReconcileRunsOn, JobAfter
    <2>4. HeardAnswered' /\ RowFollowsRequest' /\ PhoneFollowsRequest' /\ WatchedIsBound'
      BY <1>4, <2>1, <2>2 DEF ReconcileRunsOn
    <2>5. RowsAreTrue' /\ ProcessedIsSettled' /\ PaidImpliesCharged' /\ PendingIsWatched'
      BY <1>4, <2>1, <2>2 DEF ReconcileRunsOn
    <2>6. QED  BY <2>3, <2>4, <2>5
  <1>5. QED  BY <1>1, <1>2, <1>3, <1>4

\* Cash, a job that leaves, and crashes preserve the invariant.
LEMMA OtherInv ==
  ASSUME IInv,
         CashPayment \/ JobLeaves \/ WorkerRestarts \/ ServerCrashes
  PROVE  IInv'
  <1> USE DEF IInv, TypeOK, HeardAnswered, RowFollowsRequest, PhoneFollowsRequest, WatchedIsBound,
          RowsAreTrue, ProcessedIsSettled, PaidImpliesCharged, PendingIsWatched, Open, Settled,
          Taken, Answer, FaultsAssumption,
          requestVars, callbackVars, workerVars, Request, Heard
  <1>1. CASE CashPayment
    BY <1>1 DEF CashPayment
  <1>2. CASE JobLeaves
    BY <1>2 DEF JobLeaves
  <1>3. CASE WorkerRestarts
    BY <1>3 DEF WorkerRestarts
  <1>4. CASE ServerCrashes
    BY <1>4 DEF ServerCrashes
  <1>5. QED  BY <1>1, <1>2, <1>3, <1>4

\* Every step preserves the invariant.
LEMMA NextInv == IInv /\ [Next]_vars => IInv'
  <1> SUFFICES ASSUME IInv, [Next]_vars PROVE IInv'
    OBVIOUS
  <1>1. CASE UNCHANGED vars
    BY <1>1 DEF vars, IInv, TypeOK, HeardAnswered, RowFollowsRequest, PhoneFollowsRequest, WatchedIsBound,
          RowsAreTrue, ProcessedIsSettled, PaidImpliesCharged, PendingIsWatched, Open, Settled,
          Taken, Answer, FaultsAssumption
  <1>2. CASE Next
    BY <1>2, RequestInv, GatewayInv, CallbackInv, WorkerInv, OtherInv
       DEF Next, RequestStep, GatewayStep, CallbackStep, WorkerStep
  <1>3. QED  BY <1>1, <1>2

\* The invariant holds in every reachable state.
THEOREM InvariantHolds == Spec => []IInv
  <1>1. QED  BY InitInv, NextInv, PTL DEF Spec

(***************************************************************************)
(* The results                                                             *)
(***************************************************************************)
\* Every reachable state is typed.
THEOREM TypeCorrect == Spec => []TypeOK
  <1>1. IInv => TypeOK
    BY DEF IInv
  <1>2. QED  BY <1>1, InvariantHolds, PTL

\* No payment is a success that the customer was not charged for, for any
\* number of attempts and any callbacks (confirm_payment).
THEOREM PaidIsCharged == Spec => []PaidImpliesCharged
  <1>1. IInv => PaidImpliesCharged
    BY DEF IInv
  <1>2. QED  BY <1>1, InvariantHolds, PTL

\* A charge whose event is marked processed is recorded as what it was, a success
\* or a charge of another amount, unless a failure let somebody else settle the
\* payment first (handleMpesaCallback, confirm_payment).
THEOREM HeardStaysRecorded == Spec => []HeardIsRecorded
  <1>1. IInv => HeardIsRecorded
    BY DEF IInv, TypeOK, RowsAreTrue, ProcessedIsSettled, PaidImpliesCharged, HeardIsRecorded,
           Settled, Taken, Answer
  <1>2. QED  BY <1>1, InvariantHolds, PTL

\* While nothing has failed, every pending payment has its reconcile timer,
\* for any number of attempts that settle beside it.
THEOREM PendingStaysWatched == Spec => []PendingIsWatched
  <1>1. IInv => PendingIsWatched
    BY DEF IInv
  <1>2. QED  BY <1>1, InvariantHolds, PTL

\* A settled payment is never written again, by whichever request or callback
\* is still under way.
THEOREM SettledForGood == Spec => SettledStays
  <1> DEFINE Kept == \A p \in Payments : row[p] \in Settled =>
                         row'[p] = row[p] \/ (request[p] = "unsure" /\ row'[p] = "givenup")
  <1>1. ASSUME IInv, [Next]_vars PROVE [Kept]_vars
    <2>1. CASE UNCHANGED vars
      BY <2>1 DEF vars
    <2>2. CASE Next
      <3> SUFFICES Kept
        OBVIOUS
      <3> USE <1>1 DEF IInv, TypeOK, RowFollowsRequest, Settled, Open,
              requestVars, callbackVars, workerVars, Request, Heard
      <3>1. CASE \E p \in Payments : Prepare(p) \/ RequestStep(p) \/ StoreFails(p) \/ MinutePasses(p)
        BY <3>1 DEF RequestStep, Prepare, CheckPending, InsertPayment, StorePending,
                    MarkFailed, StoreFails, MinutePasses
      <3>2. CASE \E p \in Payments : GatewayStep(p)
        BY <3>2 DEF GatewayStep, PushAccepted, PushRejected, PhoneAnswers, CallbackLost
      <3>3. CASE \E p \in Payments : CallbackLogged(p) \/ CallbackStep(p)
        BY <3>3 DEF CallbackStep, CallbackLogged, CallbackUnknown, CallbackConfirmed
      <3>4. CASE \E p \in Payments : WorkerStep(p) \/ HandlerFails(p) \/ ReconcileRunsOn(p)
        BY <3>4 DEF WorkerStep, ClaimTimer, Reconcile, HandlerFails, ReconcileRunsOn
      <3>5. CASE CashPayment \/ JobLeaves \/ WorkerRestarts \/ ServerCrashes
        BY <3>5 DEF CashPayment, JobLeaves, WorkerRestarts, ServerCrashes
      <3>6. QED  BY <2>2, <3>1, <3>2, <3>3, <3>4, <3>5 DEF Next
    <2>3. QED  BY <1>1, <2>1, <2>2
  <1>2. QED  BY <1>1, InvariantHolds, PTL DEF Spec, SettledStays

\* The payment code implements PaymentLedger: every step of a request, a
\* callback, the worker or the counter is a step of the ledger or a stutter.
THEOREM ImplementsLedger == Spec => KeepsLedger
  <1>1. Init => Ledger!Init
    BY DEF Init, Ledger!Init, AttemptState, Open, Settled, Taken
  <1>2. ASSUME IInv, [Next]_vars PROVE [Ledger!Next]_(Ledger!ledgerVars)
    <2> DEFINE payment == [p \in Payments |-> AttemptState(p)]
               charged == {p \in Payments : phone[p] \in Taken}
               doubted == {p \in Payments : request[p] = "unsure"}
    <2>t. /\ row \in [Payments -> {"none"} \cup Open \cup Settled]
          /\ phone \in [Payments -> {"none", "open"} \cup Answer]
          /\ request \in [Payments -> {"none", "prepared", "checked", "inserted", "accepted",
                                       "rejected", "unsure", "over"}]
      BY <1>2 DEF IInv, TypeOK
    <2>a. ASSUME row' = row PROVE payment' = payment
      BY <2>a DEF AttemptState
    <2>b. ASSUME phone' = phone PROVE charged' = charged
      BY <2>b
    <2>c. ASSUME NEW p \in Payments, NEW from, NEW to, Request(p, from, to),
                 from # "unsure", to # "unsure"
          PROVE  doubted' = doubted
      BY <2>t, <2>c DEF Request
    <2>d. ASSUME NEW p \in Payments, NEW now \in {"none"} \cup Open \cup Settled,
                 row' = [row EXCEPT ![p] = now]
          PROVE  payment' = [payment EXCEPT ![p] = IF now \in Open THEN "open"
                     ELSE IF now \in Settled \ {"success"} THEN "failed" ELSE now]
      BY <2>t, <2>d DEF AttemptState
    <2>1. ASSUME row' = row, phone' = phone, doubted' = doubted, job' = job
          PROVE  UNCHANGED Ledger!ledgerVars
      BY <2>1, <2>a, <2>b DEF Ledger!ledgerVars
    <2>2. CASE UNCHANGED vars
      <3>1. doubted' = doubted
        BY <2>2 DEF vars
      <3>2. QED  BY <2>1, <2>2, <3>1 DEF vars
    <2>3. CASE CashPayment \/ JobLeaves
      <3>1. row' = row /\ phone' = phone /\ doubted' = doubted
        BY <2>3 DEF CashPayment, JobLeaves, requestVars
      <3>2. UNCHANGED <<payment, charged, doubted>>
        BY <3>1, <2>a, <2>b
      <3>3. job = "due" /\ job' \in {"paid", "left"}
        BY <2>3 DEF CashPayment, JobLeaves
      <3>4. QED  BY <3>2, <3>3 DEF Ledger!Otherwise, Ledger!Next
    <2>4. CASE WorkerRestarts
      <3>1. row' = row /\ phone' = phone /\ job' = job /\ doubted' = doubted
        BY <2>4 DEF WorkerRestarts, requestVars
      <3>2. QED  BY <2>1, <3>1
    <2>5. CASE ServerCrashes
      <3>1. row' = row /\ phone' = phone /\ job' = job
        BY <2>5 DEF ServerCrashes
      <3>2. doubted' = {}
        BY <2>5 DEF ServerCrashes
      <3>3. UNCHANGED <<payment, charged, job>>
        BY <3>1, <2>a, <2>b
      <3>4. QED  BY <3>2, <3>3 DEF Ledger!Forget, Ledger!Next
    <2>6. ASSUME NEW p \in Payments,
                 \/ Prepare(p) \/ CheckPending(p) \/ MinutePasses(p)
                 \/ PushRejected(p) \/ CallbackLost(p) \/ CallbackLogged(p)
                 \/ CallbackUnknown(p) \/ WorkerStep(p) \/ HandlerFails(p)
          PROVE  UNCHANGED Ledger!ledgerVars
      <3>1. row' = row /\ phone' = phone /\ job' = job
        BY <2>6
           DEF Prepare, CheckPending, MinutePasses, PushRejected, CallbackLost,
               CallbackLogged, CallbackUnknown, WorkerStep, ClaimTimer, Reconcile, HandlerFails
      <3>2. CASE Prepare(p) \/ CheckPending(p) \/ PushRejected(p)
        <4>1. doubted' = doubted
          BY <3>2, <2>c DEF Prepare, CheckPending, PushRejected
        <4>2. QED  BY <2>1, <3>1, <4>1
      <3>3. CASE ~(Prepare(p) \/ CheckPending(p) \/ PushRejected(p))
        <4>1. request' = request
          BY <2>6, <3>3
             DEF MinutePasses, CallbackLost, CallbackLogged, CallbackUnknown,
                 WorkerStep, ClaimTimer, Reconcile, HandlerFails, requestVars
        <4>2. doubted' = doubted
          BY <4>1
        <4>3. QED  BY <2>1, <3>1, <4>2
      <3>4. QED  BY <3>2, <3>3
    <2>7. ASSUME NEW p \in Payments, InsertPayment(p)
          PROVE  Ledger!Attempt(p)
      <3>1. row[p] = "none"
        BY <1>2, <2>7 DEF IInv, RowFollowsRequest, InsertPayment, Request
      <3>2. row' = [row EXCEPT ![p] = "initiated"]
        BY <2>7 DEF InsertPayment
      <3>3. payment' = [payment EXCEPT ![p] = "open"]
        BY <3>2, <2>d DEF Open
      <3>4. UNCHANGED <<charged, doubted, job>>
        BY <2>7, <2>b, <2>c DEF InsertPayment
      <3>5. payment[p] = "none"
        BY <3>1 DEF AttemptState, Open, Settled
      <3>6. QED  BY <3>3, <3>4, <3>5 DEF Ledger!Attempt
    <2>8. ASSUME NEW p \in Payments, StorePending(p) \/ StoreFails(p)
          PROVE  Ledger!Doubt(p) \/ UNCHANGED Ledger!ledgerVars
      <3>1. row[p] = "initiated"
        BY <1>2, <2>8 DEF IInv, RowFollowsRequest, StorePending, StoreFails, Request
      <3>2. row' = row \/ row' = [row EXCEPT ![p] = "pending"]
        BY <2>8 DEF StorePending, StoreFails
      <3>3. payment' = payment
        <4>1. payment[p] = "open"
          BY <3>1 DEF AttemptState, Open
        <4>2. CASE row' = [row EXCEPT ![p] = "pending"]
          <5>1. payment' = [payment EXCEPT ![p] = "open"]
            BY <4>2, <2>d DEF Open
          <5>2. QED  BY <4>1, <5>1
        <4>3. QED  BY <3>2, <4>2, <2>a
      <3>4. UNCHANGED <<charged, job>>
        BY <2>8, <2>b DEF StorePending, StoreFails
      <3>5. doubted' = doubted \/ doubted' = doubted \cup {p}
        <4>1. CASE StorePending(p) \/ Request(p, "accepted", "rejected")
          BY <4>1, <2>c DEF StorePending
        <4>2. CASE Request(p, "accepted", "unsure")
          BY <4>2, <2>t DEF Request
        <4>3. QED  BY <2>8, <4>1, <4>2 DEF StoreFails
      <3>6. payment[p] = "open"
        BY <3>1 DEF AttemptState, Open
      <3>7. QED  BY <3>3, <3>4, <3>5, <3>6 DEF Ledger!Doubt, Ledger!ledgerVars
    <2>9. ASSUME NEW p \in Payments, MarkFailed(p)
          PROVE  Ledger!Fail(p) \/ Ledger!Disown(p)
      <3>1. row' = [row EXCEPT ![p] = "givenup"]
        BY <2>9 DEF MarkFailed
      <3>2. payment' = [payment EXCEPT ![p] = "failed"]
        BY <3>1, <2>d DEF Open, Settled
      <3>3. UNCHANGED <<charged, job>>
        BY <2>9, <2>b DEF MarkFailed
      <3>4. CASE Request(p, "rejected", "over")
        <4>1. payment[p] = "open"
          BY <1>2, <3>4 DEF IInv, RowFollowsRequest, Request, AttemptState, Open
        <4>2. doubted' = doubted
          BY <3>4, <2>c
        <4>3. QED  BY <3>2, <3>3, <4>1, <4>2 DEF Ledger!Fail, Ledger!SettleAs
      <3>5. CASE Request(p, "unsure", "over")
        <4>1. p \in doubted /\ doubted' = doubted \ {p}
          BY <3>5, <2>t DEF Request
        <4>2. QED  BY <3>2, <3>3, <4>1 DEF Ledger!Disown
      <3>6. QED  BY <2>9, <3>4, <3>5 DEF MarkFailed
    <2>10. ASSUME NEW p \in Payments, PushAccepted(p)
           PROVE  UNCHANGED Ledger!ledgerVars
      <3>1. phone[p] = "none"
        BY <1>2, <2>10 DEF IInv, PhoneFollowsRequest, PushAccepted, Request
      <3>2. charged' = charged
        BY <2>10, <2>t, <3>1 DEF Taken, PushAccepted
      <3>3. doubted' = doubted
        BY <2>10, <2>c DEF PushAccepted
      <3>4. payment' = payment /\ job' = job
        BY <2>10, <2>a DEF PushAccepted
      <3>5. QED  BY <3>2, <3>3, <3>4 DEF Ledger!ledgerVars
    <2>11. ASSUME NEW p \in Payments, PhoneAnswers(p)
           PROVE  Ledger!Charge(p) \/ UNCHANGED Ledger!ledgerVars
      <3>1. row[p] # "none"
        BY <1>2, <2>11 DEF IInv, PhoneFollowsRequest, PhoneAnswers
      <3>2. payment' = payment /\ job' = job
        BY <2>11, <2>a DEF PhoneAnswers
      <3>3. doubted' = doubted
        BY <2>11 DEF PhoneAnswers, requestVars
      <3>4. phone[p] = "open"
        BY <2>11 DEF PhoneAnswers
      <3>5. PICK answer \in Answer : phone' = [phone EXCEPT ![p] = answer]
        BY <2>11 DEF PhoneAnswers
      <3>6. CASE answer \in Taken
        <4>1. charged' = charged \cup {p} /\ p \notin charged
          BY <2>t, <3>4, <3>5, <3>6 DEF Taken
        <4>2. payment[p] # "none"
          BY <3>1 DEF AttemptState, Open, Settled
        <4>3. QED  BY <3>2, <3>3, <4>1, <4>2 DEF Ledger!Charge
      <3>7. CASE answer \notin Taken
        <4>1. charged' = charged
          BY <2>t, <3>4, <3>5, <3>7 DEF Taken
        <4>2. QED  BY <3>2, <3>3, <4>1 DEF Ledger!ledgerVars
      <3>8. QED  BY <3>6, <3>7
    <2>12. ASSUME NEW p \in Payments, CallbackConfirmed(p)
           PROVE  Ledger!Succeed(p) \/ Ledger!Fail(p) \/ UNCHANGED Ledger!ledgerVars
      <3>1. charged' = charged /\ doubted' = doubted
        BY <2>12, <2>b DEF CallbackConfirmed, requestVars
      <3>2. CASE row[p] \in Settled
        BY <2>1, <2>12, <3>1, <3>2 DEF CallbackConfirmed
      <3>3. CASE row[p] \notin Settled
        <4>1. payment[p] = "open"
          <5>1. row[p] = "pending"
            BY <1>2, <2>12, <3>3 DEF IInv, RowFollowsRequest, CallbackConfirmed
          <5>2. QED  BY <5>1 DEF AttemptState, Open
        <4>2. CASE phone[p] = "other"
          <5>1. row' = [row EXCEPT ![p] = "mismatch"] /\ job' = job
            BY <2>12, <3>3, <4>2 DEF CallbackConfirmed
          <5>2. payment' = [payment EXCEPT ![p] = "failed"]
            BY <5>1, <2>d DEF Open, Settled
          <5>3. QED  BY <3>1, <4>1, <5>1, <5>2 DEF Ledger!Fail, Ledger!SettleAs
        <4>3. CASE phone[p] # "other"
          <5>1. row' = [row EXCEPT ![p] = ResultStatus(p)] /\ job' = JobAfter(ResultStatus(p))
            BY <2>12, <3>3, <4>3 DEF CallbackConfirmed
          <5>2. CASE phone[p] \in Taken
            <6>1. payment' = [payment EXCEPT ![p] = "success"]
              BY <5>1, <5>2, <2>d DEF Open, Settled, ResultStatus
            <6>2. QED  BY <3>1, <4>1, <5>1, <5>2, <6>1
                       DEF Ledger!Succeed, Ledger!SettleAs, ResultStatus, JobAfter
          <5>3. CASE phone[p] \notin Taken
            <6>1. payment' = [payment EXCEPT ![p] = "failed"]
              BY <5>1, <5>3, <2>d DEF Open, Settled, ResultStatus
            <6>2. QED  BY <3>1, <4>1, <5>1, <5>3, <6>1
                       DEF Ledger!Fail, Ledger!SettleAs, ResultStatus, JobAfter
          <5>4. QED  BY <5>2, <5>3
        <4>4. QED  BY <4>2, <4>3
      <3>4. QED  BY <3>2, <3>3
    <2>13. ASSUME NEW p \in Payments, ReconcileRunsOn(p)
           PROVE  Ledger!Succeed(p) \/ Ledger!Fail(p)
      <3>1. charged' = charged /\ doubted' = doubted
        BY <2>13, <2>b DEF ReconcileRunsOn, requestVars
      <3>2. payment[p] = "open"
        <4>1. row[p] = "pending"
          BY <1>2, <2>13 DEF IInv, WatchedIsBound, RowFollowsRequest, ReconcileRunsOn
        <4>2. QED  BY <4>1 DEF AttemptState, Open
      <3>3. PICK result \in Learnt(p) :
              row' = [row EXCEPT ![p] = result] /\ job' = JobAfter(result)
        BY <2>13 DEF ReconcileRunsOn
      <3>4. CASE result = "success"
        <4>1. phone[p] \in Taken
          BY <3>4 DEF Learnt, ResultStatus
        <4>2. payment' = [payment EXCEPT ![p] = "success"]
          BY <3>3, <3>4, <2>d DEF Open, Settled
        <4>3. QED  BY <3>1, <3>2, <3>3, <3>4, <4>1, <4>2
                   DEF Ledger!Succeed, Ledger!SettleAs, JobAfter
      <3>5. CASE result \in {"failed", "givenup"}
        <4>1. payment' = [payment EXCEPT ![p] = "failed"]
          BY <3>3, <3>5, <2>d DEF Open, Settled
        <4>2. QED  BY <3>1, <3>2, <3>3, <3>5, <4>1 DEF Ledger!Fail, Ledger!SettleAs, JobAfter
      <3>6. QED  BY <3>4, <3>5 DEF Learnt, ResultStatus
    <2>14. CASE Next
      BY <2>3, <2>4, <2>5, <2>6, <2>7, <2>8, <2>9, <2>10, <2>11, <2>12, <2>13, <2>14
         DEF Next, RequestStep, GatewayStep, CallbackStep, Ledger!Next
    <2>15. QED  BY <1>2, <2>2, <2>14
  <1>3. QED  BY <1>1, <1>2, InvariantHolds, PTL DEF Spec, KeepsLedger, Ledger!Spec

=============================================================================
