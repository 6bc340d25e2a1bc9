----------------------------- MODULE StkPayment -----------------------------
(***************************************************************************)
(* M-Pesa prompts for one thing a job has to pay: the request that sends   *)
(* one, the gateway and the customer's phone (external), the callback that *)
(* may come early, twice or never, the worker's reconcile timer, and cash  *)
(* at the counter.                                                         *)
(*                                                                         *)
(* A request runs through several transactions with the call to the        *)
(* gateway in between; the callback is logged in one statement and         *)
(* processed in another transaction.  The reconcile timer is handled by a  *)
(* transaction that locks the job row and then waits for another one,      *)
(* reconcilePayment's, whose first statement locks the payment and the     *)
(* same job row: from then on the worker holds both, and what lies beyond  *)
(* that statement is reached only if its caller's connection breaks.       *)
(***************************************************************************)
EXTENDS Naturals, FiniteSets

CONSTANTS
    Payments,   \* the payment attempts for this job and purpose
    MaxFaults   \* bound: crashes of server and worker, failed commits

ASSUME FaultsAssumption == MaxFaults \in Nat

VARIABLES
    job,       \* whether the job waits for this payment
    row,       \* payments.status
    bound,     \* payments whose checkout_request_id is stored
    recent,    \* payments created within the last 60 seconds
    request,   \* how far the request for this payment has come
    phone,     \* the customer's phone
    calls,     \* callbacks on their way
    event,     \* the webhook_events row of the result
    hearing,   \* events a server process is about to handle
    timer,     \* the payment_reconcile timer
    stuck,     \* payments whose reconcile handler holds its locks
    faults     \* crashes and failures so far

vars == <<job, row, bound, recent, request, phone, calls, event,
          hearing, timer, stuck, faults>>
requestVars  == <<bound, recent, request>>
callbackVars == <<calls, event, hearing>>
workerVars   == <<timer, stuck>>

Open    == {"initiated", "pending"}

\* 'failed' stands for 'timeout' and 'cancelled' too.  A row that failed is told
\* apart by who failed it: the result ("failed"), the result of a charge of
\* another amount ("mismatch", which keeps the receipt), or, without a result,
\* the request or the worker ("givenup").
Settled == {"success", "failed", "mismatch", "givenup"}

\* What the customer did: paid what was asked, paid another amount, or did not pay.
Taken  == {"charged", "other"}
Answer == Taken \cup {"refused"}

TypeOK ==
    /\ job \in {"due", "paid", "left"}
    /\ row \in [Payments -> {"none"} \cup Open \cup Settled]
    /\ bound \subseteq Payments
    /\ recent \subseteq Payments
    /\ request \in [Payments ->
            {"none", "prepared", "checked", "inserted", "accepted", "rejected", "unsure", "over"}]
    /\ phone \in [Payments -> {"none", "open"} \cup Answer]
    /\ calls \subseteq Payments
    /\ event \in [Payments -> {"none", "received", "processed", "error"}]
    /\ hearing \subseteq Payments
    /\ timer \in [Payments -> {"none", "live", "claimed"}]
    /\ stuck \subseteq Payments
    /\ faults \in Nat

Init ==
    /\ job = "due"
    /\ row = [p \in Payments |-> "none"]
    /\ bound = {}
    /\ recent = {}
    /\ request = [p \in Payments |-> "none"]
    /\ phone = [p \in Payments |-> "none"]
    /\ calls = {}
    /\ event = [p \in Payments |-> "none"]
    /\ hearing = {}
    /\ timer = [p \in Payments |-> "none"]
    /\ stuck = {}
    /\ faults = 0

\* The job row is free; it is locked for as long as a reconcile handler hangs.
JobFree == stuck = {}

Request(p, from, to) ==
    /\ request[p] = from
    /\ request' = [request EXCEPT ![p] = to]

(***************************************************************************)
(* The request: initiateStkPayment                                         *)
(***************************************************************************)
\* The amount due is read in a transaction of its own.
Prepare(p) ==
    /\ job = "due"
    /\ Request(p, "none", "prepared")
    /\ UNCHANGED <<job, row, bound, recent, phone, faults>>
    /\ UNCHANGED <<callbackVars, workerVars>>

\* An open payment of the last minute refuses a second prompt; the look at it
\* and the insert are two statements, and nothing is locked in between.
CheckPending(p) ==
    /\ IF \E q \in recent : row[q] \in Open
       THEN Request(p, "prepared", "over")
       ELSE Request(p, "prepared", "checked")
    /\ UNCHANGED <<job, row, bound, recent, phone, faults>>
    /\ UNCHANGED <<callbackVars, workerVars>>

\* The new row refers to the job and so waits for a locked job row.
InsertPayment(p) ==
    /\ JobFree
    /\ Request(p, "checked", "inserted")
    /\ row' = [row EXCEPT ![p] = "initiated"]
    /\ recent' = recent \cup {p}
    /\ UNCHANGED <<job, bound, phone, faults>>
    /\ UNCHANGED <<callbackVars, workerVars>>

\* The gateway accepts the push and prompts the phone; the answer may still
\* get lost on its way back.
PushAccepted(p) ==
    /\ \/ Request(p, "inserted", "accepted")
       \/ Request(p, "inserted", "rejected")
    /\ phone' = [phone EXCEPT ![p] = "open"]
    /\ UNCHANGED <<job, row, bound, recent, faults>>
    /\ UNCHANGED <<callbackVars, workerVars>>

PushRejected(p) ==
    /\ Request(p, "inserted", "rejected")
    /\ UNCHANGED <<job, row, bound, recent, phone, faults>>
    /\ UNCHANGED <<callbackVars, workerVars>>

\* The checkout id and the reconcile timer are stored together; the timer
\* refers to the job.
StorePending(p) ==
    /\ JobFree
    /\ Request(p, "accepted", "over")
    /\ row' = [row EXCEPT ![p] = "pending"]
    /\ bound' = bound \cup {p}
    /\ timer' = [timer EXCEPT ![p] = "live"]
    /\ UNCHANGED <<job, recent, phone, stuck, faults>>
    /\ UNCHANGED callbackVars

\* That transaction fails although the prompt is on the phone, or it commits
\* and the request never hears that it has.
StoreFails(p) ==
    /\ faults < MaxFaults
    /\ faults' = faults + 1
    /\ \/ Request(p, "accepted", "rejected") /\ UNCHANGED <<row, bound, timer>>
       \/ /\ JobFree
          /\ Request(p, "accepted", "unsure")
          /\ row' = [row EXCEPT ![p] = "pending"]
          /\ bound' = bound \cup {p}
          /\ timer' = [timer EXCEPT ![p] = "live"]
    /\ UNCHANGED <<job, recent, phone, stuck>>
    /\ UNCHANGED callbackVars

\* Whatever went wrong with the push, the row is failed, whatever it has become.
MarkFailed(p) ==
    /\ Request(p, "rejected", "over") \/ Request(p, "unsure", "over")
    /\ p \notin stuck
    /\ row' = [row EXCEPT ![p] = "givenup"]
    /\ UNCHANGED <<job, bound, recent, phone, faults>>
    /\ UNCHANGED <<callbackVars, workerVars>>

MinutePasses(p) ==
    /\ p \in recent
    /\ recent' = recent \ {p}
    /\ UNCHANGED <<job, row, bound, request, phone, faults>>
    /\ UNCHANGED <<callbackVars, workerVars>>

(***************************************************************************)
(* The phone and the gateway (external)                                    *)
(***************************************************************************)
\* The customer enters the PIN, or refuses or ignores the prompt; the result
\* is sent to us.
PhoneAnswers(p) ==
    /\ phone[p] = "open"
    /\ \E answer \in Answer : phone' = [phone EXCEPT ![p] = answer]
    /\ calls' = calls \cup {p}
    /\ UNCHANGED <<job, row, event, hearing, faults>>
    /\ UNCHANGED <<requestVars, workerVars>>

CallbackLost(p) ==
    /\ p \in calls
    /\ calls' = calls \ {p}
    /\ UNCHANGED <<job, row, phone, event, hearing, faults>>
    /\ UNCHANGED <<requestVars, workerVars>>

(***************************************************************************)
(* The callback: handleMpesaCallback and confirm_payment                   *)
(***************************************************************************)
\* The result is logged first; one that is logged already is a duplicate and
\* only acknowledged.  The gateway may send it once more.
CallbackLogged(p) ==
    /\ p \in calls
    /\ \E again \in BOOLEAN : calls' = IF again THEN calls ELSE calls \ {p}
    /\ IF event[p] = "none"
       THEN /\ event' = [event EXCEPT ![p] = "received"]
            /\ hearing' = hearing \cup {p}
       ELSE UNCHANGED <<event, hearing>>
    /\ UNCHANGED <<job, row, phone, faults>>
    /\ UNCHANGED <<requestVars, workerVars>>

Heard(p, as) ==
    /\ p \in hearing
    /\ hearing' = hearing \ {p}
    /\ event' = [event EXCEPT ![p] = as]
    /\ UNCHANGED calls

\* Mutant of CallbackUnknown: the event is marked as cleanly processed.
CallbackUnknownProcessed(p) ==
    /\ p \notin bound
    /\ Heard(p, "processed")
    /\ UNCHANGED <<job, row, phone, faults>>
    /\ UNCHANGED <<requestVars, workerVars>>

\* The checkout id is not (yet) on any row: the event keeps the error.
CallbackUnknown(p) ==
    /\ p \notin bound
    /\ Heard(p, "error")
    /\ UNCHANGED <<job, row, phone, faults>>
    /\ UNCHANGED <<requestVars, workerVars>>

\* Mutant of ResultStatus: the result code is not looked at.
AnySuccess(p) == "success"

\* The status a result code stands for.
ResultStatus(p) == IF phone[p] \in Taken THEN "success" ELSE "failed"

\* Mutant of CancelTimers: every payment of the job loses its timer.
CancelAllTimers(p) ==
    [q \in Payments |-> IF timer[q] = "live" THEN "none" ELSE timer[q]]

CancelTimers(p) == IF timer[p] = "live" THEN [timer EXCEPT ![p] = "none"] ELSE timer

\* Mutant of JobAfter: the status of the job is not looked at.
JobAfterAny(result) == IF result = "success" THEN "paid" ELSE job

JobAfter(result) == IF result = "success" /\ job = "due" THEN "paid" ELSE job

\* confirm_payment: a settled row stays; a charge of another amount fails the
\* row and leaves it at that, timer and job as they were; a success moves the
\* job that waits for it and notifies about the job, and so needs the job row.
CallbackConfirmed(p) ==
    /\ p \in bound /\ p \notin stuck
    /\ Heard(p, "processed")
    /\ \/ row[p] \in Settled /\ UNCHANGED <<row, timer, job>>
       \/ /\ row[p] \notin Settled /\ phone[p] = "other"
          /\ row' = [row EXCEPT ![p] = "mismatch"]
          /\ UNCHANGED <<timer, job>>
       \/ /\ row[p] \notin Settled /\ phone[p] # "other"
          /\ row' = [row EXCEPT ![p] = ResultStatus(p)]
          /\ timer' = CancelTimers(p)
          /\ ResultStatus(p) = "success" => JobFree
          /\ job' = JobAfter(ResultStatus(p))
    /\ UNCHANGED <<phone, stuck, faults>>
    /\ UNCHANGED requestVars

(***************************************************************************)
(* Cash, and everything else that moves the job                            *)
(***************************************************************************)
CashPayment ==
    /\ JobFree /\ job = "due"
    /\ job' = "paid"
    /\ UNCHANGED <<row, phone, faults>>
    /\ UNCHANGED <<requestVars, callbackVars, workerVars>>

\* The customer cancels, declines or goes back: the payment is not due any more.
JobLeaves ==
    /\ JobFree /\ job = "due"
    /\ job' = "left"
    /\ UNCHANGED <<row, phone, faults>>
    /\ UNCHANGED <<requestVars, callbackVars, workerVars>>

(***************************************************************************)
(* The worker                                                              *)
(***************************************************************************)
\* Two minutes after the push the timer is due.  There is one worker, and its
\* run ends only when every timer it claimed has been handled.
ClaimTimer(p) ==
    /\ stuck = {}
    /\ timer[p] = "live" /\ p \notin recent
    /\ timer' = [timer EXCEPT ![p] = "claimed"]
    /\ UNCHANGED <<job, row, phone, stuck, faults>>
    /\ UNCHANGED <<requestVars, callbackVars>>

\* fireTimers locks the job row, reconcilePayment the payment, and then, in
\* its own transaction, the job row again: it waits for its caller, which
\* waits for it.  The status of the payment is looked at only after that.
Reconcile(p) ==
    /\ stuck = {}
    /\ timer[p] = "claimed"
    /\ stuck' = {p}
    /\ UNCHANGED <<job, row, phone, timer, faults>>
    /\ UNCHANGED <<requestVars, callbackVars>>

\* The connections break, or only the caller's does and the gateway has no
\* answer yet: the locks are gone and the timer is put back.
HandlerFails(p) ==
    /\ p \in stuck /\ faults < MaxFaults
    /\ faults' = faults + 1
    /\ stuck' = {}
    /\ timer' = [timer EXCEPT ![p] = "live"]
    /\ UNCHANGED <<job, row, phone>>
    /\ UNCHANGED <<requestVars, callbackVars>>

\* What the gateway's answer to a query makes of a payment.  The answer carries
\* no amount; tries that are used up are a timeout.
Learnt(p) == {"givenup"} \cup (IF phone[p] \in Answer THEN {ResultStatus(p)} ELSE {})

\* Only the caller's connection breaks: reconcilePayment gets the job row, asks
\* the gateway and settles the payment, as the caller puts the timer back.
ReconcileRunsOn(p) ==
    /\ p \in stuck /\ row[p] \notin Settled /\ faults < MaxFaults
    /\ faults' = faults + 1
    /\ stuck' = {}
    /\ \E result \in Learnt(p) :
            row' = [row EXCEPT ![p] = result] /\ job' = JobAfter(result)
    /\ \E first \in {"live", "none"} : timer' = [timer EXCEPT ![p] = first]
    /\ UNCHANGED phone
    /\ UNCHANGED <<requestVars, callbackVars>>

\* The worker is restarted: what it had claimed is never fired again.
WorkerRestarts ==
    /\ faults < MaxFaults
    /\ \E p \in Payments : timer[p] = "claimed"
    /\ faults' = faults + 1
    /\ stuck' = {}
    /\ timer' = [p \in Payments |-> IF timer[p] = "claimed" THEN "none" ELSE timer[p]]
    /\ UNCHANGED <<job, row, phone>>
    /\ UNCHANGED <<requestVars, callbackVars>>

\* The web server crashes: requests and callbacks under way end where they are.
ServerCrashes ==
    /\ faults < MaxFaults
    /\ hearing # {} \/ \E p \in Payments : request[p] \notin {"none", "over"}
    /\ faults' = faults + 1
    /\ hearing' = {}
    /\ request' = [p \in Payments |-> IF request[p] = "none" THEN "none" ELSE "over"]
    /\ UNCHANGED <<job, row, bound, recent, phone, calls, event>>
    /\ UNCHANGED workerVars

(***************************************************************************)
(* The specification                                                       *)
(***************************************************************************)
RequestStep(p) ==
    \/ CheckPending(p) \/ InsertPayment(p) \/ StorePending(p) \/ MarkFailed(p)

GatewayStep(p) == PushAccepted(p) \/ PushRejected(p) \/ PhoneAnswers(p) \/ CallbackLost(p)

CallbackStep(p) == CallbackUnknown(p) \/ CallbackConfirmed(p)

WorkerStep(p) == ClaimTimer(p) \/ Reconcile(p)

Next ==
    \/ \E p \in Payments :
        \/ Prepare(p) \/ RequestStep(p) \/ StoreFails(p) \/ MinutePasses(p)
        \/ GatewayStep(p)
        \/ CallbackLogged(p) \/ CallbackStep(p)
        \/ WorkerStep(p) \/ HandlerFails(p) \/ ReconcileRunsOn(p)
    \/ CashPayment \/ JobLeaves
    \/ WorkerRestarts \/ ServerCrashes

Spec == Init /\ [][Next]_vars

\* Requests and callbacks run to their end, time passes, and the worker keeps
\* taking due timers; customer, gateway and network owe nothing.
Fairness ==
    \A p \in Payments :
        WF_vars(RequestStep(p)) /\ WF_vars(CallbackStep(p))
        /\ WF_vars(MinutePasses(p)) /\ WF_vars(WorkerStep(p))

FairSpec == Spec /\ Fairness

(***************************************************************************)
(* Properties                                                              *)
(***************************************************************************)
\* A payment counts as a success only when the customer was charged what was
\* asked, however early, late or often the callback comes.  Only a query that a
\* broken connection let through takes any charge for the right one.
PaidImpliesCharged ==
    \A p \in Payments : row[p] = "success" =>
        phone[p] = "charged" \/ (phone[p] = "other" /\ faults > 0)

\* A charge we were told about is a recorded payment, or a failed one that keeps
\* the receipt of the other amount, or its event still says that it was not
\* processed: no charge is dropped with a clean log, unless a failure made the
\* request or the worker give the payment up or take the amount for granted.
HeardIsRecorded ==
    \A p \in Payments : event[p] = "processed" /\ phone[p] \in Taken =>
        \/ row[p] = IF phone[p] = "charged" THEN "success" ELSE "mismatch"
        \/ faults > 0 /\ row[p] \in {"success", "givenup"}

\* Once settled, a payment stays as it is: neither a second result nor the
\* request that is still running overwrites it, except the one request that
\* never heard that its prompt was stored.
SettledStays ==
    [][\A p \in Payments : row[p] \in Settled =>
           row'[p] = row[p] \/ (request[p] = "unsure" /\ row'[p] = "givenup")]_vars

\* Without crashes a pending payment always has a reconcile timer to come, so
\* that settling another payment of the job never leaves it unwatched.
PendingIsWatched ==
    faults = 0 => \A p \in Payments : row[p] = "pending" => timer[p] # "none"

\* The attempts as PaymentLedger sees them.
AttemptState(p) ==
    IF row[p] \in Open THEN "open"
    ELSE IF row[p] \in Settled \ {"success"} THEN "failed" ELSE row[p]

Ledger == INSTANCE PaymentLedger
    WITH payment <- [p \in Payments |-> AttemptState(p)],
         charged <- {p \in Payments : phone[p] \in Taken},
         doubted <- {p \in Payments : request[p] = "unsure"}

\* Requests, callbacks, the worker and cash together keep the promise of
\* PaymentLedger: each step settles one attempt, moves the waiting job once,
\* or shows nothing to the outside.
KeepsLedger == Ledger!Spec

(***************************************************************************)
(* What the documents say and the code does not do                         *)
(***************************************************************************)
\* MPESA.md, step 6: the worker settles a pending payment whose callback
\* never arrives.
PendingIsSettled == \A p \in Payments : row[p] = "pending" ~> row[p] \in Settled

\* MPESA.md: no second prompt for the same job and purpose within 60 seconds
\* of an unresolved one.
OnePromptAtATime ==
    \A p, q \in recent : row[p] \in Open /\ row[q] \in Open => p = q

=============================================================================
