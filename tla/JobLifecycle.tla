---------------------------- MODULE JobLifecycle ----------------------------
(***************************************************************************)
(* One repair job, from the customer's draft (or the counter, for a        *)
(* walk-in) to a terminal status, under everybody who moves it: the        *)
(* customer, technicians and shop admins, couriers, M-Pesa confirmations   *)
(* and the worker's timers.                                                *)
(*                                                                         *)
(* A handler runs in one transaction and transition_job() locks the job    *)
(* row, so most handlers are one action.  Six handlers read the job or    *)
(* its quote before they hold a lock and write on the strength of what     *)
(* they read: those are a reading step and a committing step, with         *)
(* anything in between.  Handlers that continue in a second transaction    *)
(* leave a followUp behind, which a crash of the server loses.             *)
(*                                                                         *)
(* Amounts are small naturals, due times are left out (a live timer may    *)
(* fire at any moment), and so are texts, photos and addresses.            *)
(***************************************************************************)
EXTENDS JobMachine, Integers

CONSTANTS
    Origins,     \* how jobs come in: a subset of {"online", "walk_in"}
    Identities,  \* how devices are identified: a subset of {"device", "id"}
    Passcodes,   \* whether a passcode is handed over: a subset of BOOLEAN
    PickupFee,   \* what an online booking pays upfront: pickup leg and consultation
    ConsultFee,  \* what a walk-in pays upfront
    Prices,      \* the [deposit, total] pairs a quote may carry
    SuppPrice,   \* what a supplementary quote adds
    NearFee,     \* the return leg to the pickup address
    FarFee,      \* the return leg to any other address
    Interrupted, \* bound: the handlers others may run in the middle of
    MaxPrompts,  \* bound: payment prompts open at once
    MaxClaims,   \* bound: timers a worker run holds at once
    MaxFaults    \* bound: crashes and failures of the worker or the server

ASSUME AmountsAssumption ==
    /\ Origins \subseteq {"online", "walk_in"}
    /\ Identities \subseteq {"device", "id"} /\ Passcodes \subseteq BOOLEAN
    /\ PickupFee \in Nat /\ ConsultFee \in Nat /\ SuppPrice \in Nat
    /\ NearFee \in Nat /\ FarFee \in Nat
    /\ Prices \subseteq [deposit : Nat, total : Nat]

ASSUME BoundsAssumption ==
    /\ Interrupted \subseteq {"draft", "dropoff", "quote", "supp", "counter", "suppCounter"}
    /\ MaxPrompts \in Nat /\ MaxClaims \in Nat /\ MaxFaults \in Nat

VARIABLES
    status,     \* jobs.status, "absent" before the job exists
    outcome,    \* jobs.outcome
    reason,     \* jobs.cancel_reason is set
    timers,     \* unfired, uncancelled timers of the job, by kind
    dropoff,    \* jobs.dropoff_choice
    warranty,   \* jobs.warranty_until is set
    passcode,   \* job_secrets.passcode_enc is stored
    origin,     \* jobs.origin
    identity,   \* jobs.identity_method
    booking,    \* which of the photos and the pickup slot the draft has
    terms,      \* jobs.terms_accepted_at is set
    intake,     \* the intake checklist and its discrepancies
    completed,  \* the completion checklist exists
    quote,      \* quotes.status of the main quote
    version,    \* price of its current version
    accepted,   \* price of its accepted version
    supp,       \* quotes.status of the supplementary quote
    returnFee,  \* jobs.return_fee_cents
    invoice,    \* the live invoice
    paid,       \* paid_cents by purpose
    prompts,    \* M-Pesa prompts whose result is still open
    claimed,    \* timers stamped fired_at whose handler has not finished
    reader,     \* a handler between its read and its write
    followUp,   \* the second transaction a request still owes
    faults      \* crashes and failures so far

jobVars     == <<status, outcome, reason, timers, dropoff, warranty, passcode>>
bookingVars == <<origin, identity, booking, terms>>
benchVars   == <<intake, completed>>
quoteVars   == <<quote, version, accepted, supp>>
feeVars     == <<returnFee>>
payVars     == <<invoice, paid, prompts>>
workVars    == <<claimed, reader, followUp, faults>>
vars == <<jobVars, bookingVars, benchVars, quoteVars, feeVars, payVars, workVars>>

(***************************************************************************)
(* Values                                                                  *)
(***************************************************************************)
BookingFact == {"photos", "pickup"}
Delivery    == {"pickup_address", "other_address"}
Choice      == Delivery \cup {"collect_at_shop"}
Purpose     == {"pickup_fee", "deposit", "final_balance", "return_fee"}
QuoteRow    == {"none", "sent", "negotiating", "accepted", "declined", "expired"}
OpenQuote   == {"sent", "negotiating"}
NoPrice     == [deposit |-> 0, total |-> 0]
NoInvoice   == [status |-> "none", total |-> 0, balance |-> 0]
Reading     == {"draft", "dropoff", "quote", "supp", "counter", "suppCounter"}
NoReader    == [op |-> "none", status |-> "absent"]

DeliveryFee(choice) ==
    CASE choice = "pickup_address" -> NearFee
      [] choice = "other_address"  -> FarFee
      [] OTHER                     -> 0

\* jobs.pickup_fee_cents: a walk-in owes the consultation fee alone.
UpfrontFee == IF origin = "walk_in" THEN ConsultFee ELSE PickupFee

TotalPaid(pd) ==
    pd["pickup_fee"] + pd["deposit"] + pd["final_balance"] + pd["return_fee"]

TypeOK ==
    /\ status \in JobStatus \cup {"absent"}
    /\ outcome \in Outcome
    /\ reason \in BOOLEAN
    /\ timers \in [TimerKind -> Nat]
    /\ dropoff \in Choice \cup {"none"}
    /\ warranty \in BOOLEAN
    /\ passcode \in BOOLEAN
    /\ origin \in {"online", "walk_in"}
    /\ identity \in {"device", "id"}
    /\ booking \subseteq BookingFact
    /\ terms \in BOOLEAN
    /\ intake \in {"none", "clean", "discrepant", "acknowledged"}
    /\ completed \in BOOLEAN
    /\ quote \in QuoteRow
    /\ version \in [deposit : Nat, total : Nat]
    /\ accepted \in [deposit : Nat, total : Nat]
    /\ supp \in QuoteRow
    /\ returnFee \in Nat
    /\ invoice \in [status : {"none", "proforma", "issued"}, total : Nat, balance : Int]
    /\ paid \in [Purpose -> Nat]
    /\ prompts \subseteq [purpose : Purpose, amount : Nat, refused : BOOLEAN]
    /\ claimed \subseteq TimerKind
    /\ reader \in [op : {"none"} \cup Reading,
                   status : JobStatus \cup {"absent"}]
    /\ followUp \in {"none", "deposit", "settle", "waive"}
    /\ faults \in Nat

Init ==
    /\ status = "absent"
    /\ outcome = "none"
    /\ reason = FALSE
    /\ timers = [kind \in TimerKind |-> 0]
    /\ dropoff = "none"
    /\ warranty = FALSE
    /\ passcode \in Passcodes
    /\ origin \in Origins
    /\ identity \in Identities
    /\ booking = {}
    /\ terms = FALSE
    /\ intake = "none"
    /\ completed = FALSE
    /\ quote = "none"
    /\ version = NoPrice
    /\ accepted = NoPrice
    /\ supp = "none"
    /\ returnFee = 0
    /\ invoice = NoInvoice
    /\ paid = [p \in Purpose |-> 0]
    /\ prompts = {}
    /\ claimed = {}
    /\ reader = NoReader
    /\ followUp = "none"
    /\ faults = 0

(***************************************************************************)
(* Guards: what must be true before a status is entered                    *)
(***************************************************************************)
\* Enough for the booking form to be submitted.
BookingComplete ==
    /\ booking = BookingFact
    /\ identity = "device"
    /\ PickupFee > 0

UpfrontPaid(pd) == pd["pickup_fee"] >= UpfrontFee

\* Mutant of WalkInReady: consent is enough.
WalkInConsented == origin = "walk_in" => terms

\* A walk-in waits for the customer's consent and the consultation fee.
WalkInReady == origin = "walk_in" => terms /\ UpfrontPaid(paid)

\* What has to be paid, given the payments "pd", before a paid-for move.
PaymentGuard(from, to, drop, pd) ==
    /\ to = "pickup_requested" /\ from = "pickup_fee_pending" => UpfrontPaid(pd)
    /\ to = "in_repair" => quote = "accepted" /\ pd["deposit"] >= accepted.deposit
    /\ to = "dispatch_pending" /\ from = "return_fee_pending" =>
            drop \in Delivery /\ pd["return_fee"] >= returnFee
    /\ to = "dispatch_pending" /\ from # "return_fee_pending" =>
            invoice.status # "none" /\ TotalPaid(pd) >= invoice.total

\* A handler has written its own rows when it asks for the move, so the guard
\* looks at their new values.
Guard(from, to, drop, why) ==
    /\ to = "pickup_fee_pending" /\ from = "draft" => BookingComplete /\ terms'
    /\ to = "received_at_shop" /\ from = "draft" => origin = "walk_in"
    /\ to \in {"diagnosing", "intake_ack_pending"} => WalkInReady /\ intake' # "none"
    /\ to = "diagnosing" => intake' # "discrepant"
    /\ to = "intake_ack_pending" => intake' \in {"discrepant", "acknowledged"}
    /\ to = "quote_sent" => quote' # "none"
    /\ to = "quote_negotiating" => quote' \in OpenQuote
    /\ to = "deposit_pending" => quote' = "accepted"
    /\ to = "repair_complete" /\ from = "in_repair" => completed' /\ supp \notin OpenQuote
    /\ to = "final_payment_pending" => drop # "none" /\ invoice'.status = "proforma"
    /\ to = "return_requested" /\ from \in {"dispatch_pending", "return_failed"} =>
            drop # "collect_at_shop"
    /\ to = "ready_for_collection" /\ from = "dispatch_pending" => drop = "collect_at_shop"
    /\ to = "closed" => outcome = "repaired"
    /\ to = "declined_returned" => outcome = "declined"
    /\ to = "cancelled" =>
            why \/ reason \/ from \in {"draft", "pickup_fee_pending"}
    /\ PaymentGuard(from, to, drop, paid')

(***************************************************************************)
(* transition_job: the only way a job changes status.  "drop" is the       *)
(* drop-off choice at that moment, "want" the outcome the payload asks     *)
(* for, "why" whether it gives a reason.                                   *)
(***************************************************************************)
Transition(from, to, actor, drop, want, why) ==
    LET at == Landing(to, drop) IN
    /\ Allowed(from, to, actor)
    /\ Guard(from, to, drop, why)
    /\ status' = at
    /\ outcome' = OutcomeOn(at, OutcomeOn(to, outcome, want), "none")
    /\ reason' = (reason \/ why)
    /\ timers' = TimersAt(to, drop, timers)
    /\ dropoff' = IF at = "ready_for_collection" THEN "collect_at_shop" ELSE drop
    /\ warranty' = (warranty \/ (/\ at \in {"delivered", "ready_for_collection"}
                                 /\ outcome = "repaired"))
    /\ passcode' = (passcode /\ at \notin Terminal)

\* A move that brings no rows of its own.
Move(to, actor, want, why) ==
    /\ UNCHANGED <<bookingVars, benchVars, quoteVars, feeVars, payVars>>
    /\ Transition(status, to, actor, dropoff, want, why)

(***************************************************************************)
(* Booking                                                                 *)
(***************************************************************************)
CreateDraft ==
    /\ status = "absent" /\ origin = "online"
    /\ status' = "draft"
    /\ UNCHANGED <<outcome, reason, timers, dropoff, warranty, passcode>>
    /\ UNCHANGED <<bookingVars, benchVars, quoteVars, feeVars, payVars, workVars>>

\* A handler that reads before it locks: "op" has seen the job in "seen".
Read(op, seen) ==
    /\ reader = NoReader
    /\ reader' = [op |-> op, status |-> seen]
    /\ UNCHANGED <<jobVars, bookingVars, benchVars, quoteVars, feeVars, payVars>>
    /\ UNCHANGED <<claimed, followUp, faults>>

\* The reading handler goes on to write.
Commits(op) ==
    /\ reader.op = op
    /\ reader' = NoReader
    /\ UNCHANGED <<claimed, faults>>

\* It ends without writing: a refusal further on rolls it back.
AbandonRead ==
    /\ reader # NoReader
    /\ reader' = NoReader
    /\ UNCHANGED <<jobVars, bookingVars, benchVars, quoteVars, feeVars, payVars>>
    /\ UNCHANGED <<claimed, followUp, faults>>

\* Saving an existing draft: the status is checked before anything is locked.
ReadDraft == status = "draft" /\ Read("draft", "absent")

SaveDraft ==
    /\ Commits("draft")
    /\ identity' \in Identities
    /\ passcode' \in Passcodes
    /\ UNCHANGED <<status, outcome, reason, timers, dropoff, warranty>>
    /\ UNCHANGED <<origin, booking, terms, followUp>>
    /\ UNCHANGED <<benchVars, quoteVars, feeVars, payVars>>

\* The two declared photos are uploaded, or the pickup slot is set.
AddBookingFact(fact) ==
    /\ status = "draft"
    /\ booking' = booking \cup {fact}
    /\ UNCHANGED <<origin, identity, terms>>
    /\ UNCHANGED <<jobVars, benchVars, quoteVars, feeVars, payVars, workVars>>

SubmitDraft ==
    /\ status = "draft"
    /\ terms' = TRUE
    /\ UNCHANGED <<origin, identity, booking>>
    /\ UNCHANGED <<benchVars, quoteVars, feeVars, payVars, workVars>>
    /\ Transition(status, "pickup_fee_pending", "customer", dropoff, "none", FALSE)

\* Staff open a walk-in at the counter: the draft row and its arrival at the
\* shop are one transaction.
CreateWalkIn ==
    /\ status = "absent" /\ origin = "walk_in"
    /\ UNCHANGED <<bookingVars, benchVars, quoteVars, feeVars, payVars, workVars>>
    /\ \E actor \in Staff :
        Transition("draft", "received_at_shop", actor, dropoff, "none", FALSE)

\* The customer's consent from the SMS link, at any later moment.
AcceptTerms ==
    /\ status # "absent" /\ origin = "walk_in" /\ ~terms
    /\ terms' = TRUE
    /\ UNCHANGED <<origin, identity, booking>>
    /\ UNCHANGED <<jobVars, benchVars, quoteVars, feeVars, payVars, workVars>>

(***************************************************************************)
(* Cancelling                                                              *)
(***************************************************************************)
\* What cancelJob takes to be "at the shop".
AtShop ==
    {"received_at_shop", "intake_ack_pending", "diagnosing", "quote_sent",
     "quote_negotiating", "quote_expired", "deposit_pending", "in_repair",
     "repair_complete", "final_payment_pending"}

CustomerCancel ==
    /\ UNCHANGED workVars
    /\ \/ /\ status \in {"draft", "pickup_fee_pending", "pickup_requested",
                         "rider_en_route_to_customer", "pickup_failed"}
          /\ Move("cancelled", "customer", "none", TRUE)
       \/ /\ status \in {"diagnosing", "intake_ack_pending"}
          /\ Move("return_fee_pending", "customer", "cancelled", TRUE)

AdminCancel ==
    /\ UNCHANGED workVars
    /\ IF status \in AtShop
       THEN Move("return_fee_pending", "shop_admin", "cancelled", TRUE)
       ELSE Move("cancelled", "shop_admin", "none", TRUE)

(***************************************************************************)
(* Couriers and handovers                                                  *)
(***************************************************************************)
\* What a courier reports, or the mock courier is taken to have done, moves
\* the job along the provider's edges; a report of failure gives a reason.
CourierReport(to) ==
    /\ UNCHANGED workVars
    /\ Move(to, "provider", "none", to \in {"pickup_failed", "return_failed"})

RebookPickup ==
    /\ UNCHANGED workVars
    /\ Move("pickup_requested", "customer", "none", FALSE)

\* A scanned code: a scan before the courier reported the rider on the way
\* brings the rider there first, in the same transaction.
Handover(early, from, to, actor) ==
    /\ status \in {early} \cup from
    /\ UNCHANGED workVars
    /\ UNCHANGED <<bookingVars, benchVars, quoteVars, feeVars, payVars>>
    /\ \E mid \in from :
        /\ IF status = early THEN Allowed(early, mid, actor) ELSE mid = status
        /\ Transition(mid, to, actor, dropoff, "none", FALSE)

CustomerToRider ==
    Handover("pickup_requested", {"rider_en_route_to_customer"}, "picked_up", "customer")

RiderToShop ==
    Handover("none", {"picked_up", "in_transit_to_shop"}, "received_at_shop", "technician")

ShopToRider ==
    Handover("return_requested", {"rider_en_route_to_shop"}, "collected_from_shop", "technician")

RiderToCustomer ==
    Handover("none", {"collected_from_shop", "in_transit_to_customer"}, "delivered", "customer")

(***************************************************************************)
(* Intake                                                                  *)
(***************************************************************************)
CompleteIntake ==
    /\ status = "received_at_shop" /\ intake = "none"
    /\ UNCHANGED <<bookingVars, completed, quoteVars, feeVars, payVars, workVars>>
    /\ \E found \in {"clean", "discrepant"} :
        /\ intake' = found
        /\ Transition(status, IF found = "clean" THEN "diagnosing" ELSE "intake_ack_pending",
                      "technician", dropoff, "none", FALSE)

AcknowledgeIntake ==
    /\ status = "intake_ack_pending"
    /\ intake' = "acknowledged"
    /\ UNCHANGED <<bookingVars, completed, quoteVars, feeVars, payVars, workVars>>
    /\ Transition(status, "diagnosing", "customer", dropoff, "none", FALSE)

\* The customer disputes the intake report and wants the device back.
RejectIntake ==
    /\ status = "intake_ack_pending"
    /\ UNCHANGED workVars
    /\ Move("return_fee_pending", "customer", "cancelled", TRUE)

(***************************************************************************)
(* Quotes                                                                  *)
(***************************************************************************)
\* The technician's form: job and quote are read unlocked.
ReadForQuote ==
    /\ status \in {"diagnosing", "quote_negotiating", "quote_expired", "quote_sent"}
    /\ quote \in {"none", "expired"} \cup OpenQuote
    /\ Read("quote", status)

\* Mutant of SendQuote: the accepted version follows the current one.
SendQuoteAccepted(price) ==
    /\ Commits("quote")
    /\ quote' = "sent"
    /\ version' = price
    /\ accepted' = price
    /\ UNCHANGED <<supp, followUp>>
    /\ UNCHANGED <<bookingVars, benchVars, feeVars, payVars>>
    /\ IF reader.status = "quote_sent"
       THEN UNCHANGED jobVars
       ELSE Transition(status, "quote_sent", "technician", dropoff, "none", FALSE)

\* The new version is written and the quote set to 'sent' whatever it is by
\* now; a revision of a quote that was read as sent moves nothing.
SendQuote(price) ==
    /\ Commits("quote")
    /\ quote' = "sent"
    /\ version' = price
    /\ UNCHANGED <<accepted, supp, followUp>>
    /\ UNCHANGED <<bookingVars, benchVars, feeVars, payVars>>
    /\ IF reader.status = "quote_sent"
       THEN UNCHANGED jobVars
       ELSE Transition(status, "quote_sent", "technician", dropoff, "none", FALSE)

\* The customer's counter-offer: the job is read first, the quote is locked
\* and checked afterwards.
ReadForCounter == quote \in OpenQuote /\ Read("counter", status)

CounterQuote ==
    /\ quote \in OpenQuote
    /\ Commits("counter")
    /\ quote' = "negotiating"
    /\ UNCHANGED <<version, accepted, supp, followUp>>
    /\ UNCHANGED <<bookingVars, benchVars, feeVars, payVars>>
    /\ IF reader.status = "quote_sent"
       THEN Transition(status, "quote_negotiating", "customer", dropoff, "none", FALSE)
       ELSE UNCHANGED jobVars

\* Acceptance of "price", by the customer or by the shop taking a counter.
AcceptAt(price, actor) ==
    /\ followUp = "none"
    /\ quote' = "accepted"
    /\ accepted' = price
    /\ followUp' = "deposit"
    /\ UNCHANGED <<supp, claimed, reader, faults>>
    /\ UNCHANGED <<bookingVars, benchVars, feeVars, payVars>>
    /\ Transition(status, "deposit_pending", actor, dropoff, "none", FALSE)

\* Mutant of CustomerAccept: as with a counter-offer, the job moves only when
\* it still waits for an answer.
CustomerAcceptLate ==
    /\ quote \in OpenQuote /\ followUp = "none"
    /\ IF status \in {"quote_sent", "quote_negotiating"}
       THEN version' = version /\ AcceptAt(version, "customer")
       ELSE /\ quote' = "accepted" /\ accepted' = version
            /\ UNCHANGED <<jobVars, version, supp>>
            /\ UNCHANGED <<bookingVars, benchVars, feeVars, payVars, workVars>>

CustomerAccept ==
    /\ quote \in OpenQuote
    /\ version' = version
    /\ AcceptAt(version, "customer")

ShopAcceptCounter(price) ==
    /\ quote = "negotiating"
    /\ version' = price
    /\ AcceptAt(price, "technician")

CustomerDecline ==
    /\ quote \in OpenQuote \cup {"expired"}
    /\ quote' = "declined"
    /\ UNCHANGED <<version, accepted, supp>>
    /\ UNCHANGED <<bookingVars, benchVars, feeVars, payVars, workVars>>
    /\ Transition(status, "quote_declined", "customer", dropoff, "none", FALSE)

\* After an acceptance: a deposit of zero skips the payment step.
SkipZeroDeposit ==
    /\ followUp = "deposit"
    /\ followUp' = "none"
    /\ UNCHANGED <<claimed, reader, faults>>
    /\ IF status = "deposit_pending" /\ accepted.deposit = 0 /\ quote = "accepted"
       THEN Move("in_repair", "system", "none", FALSE)
       ELSE UNCHANGED <<jobVars, bookingVars, benchVars, quoteVars, feeVars, payVars>>

(***************************************************************************)
(* Repair and supplementary quotes                                         *)
(***************************************************************************)
\* Bound: a further supplementary quote is raised only after a declined one.
ReadForSupp ==
    /\ status = "in_repair" /\ supp \in {"none", "declined"}
    /\ Read("supp", status)

SetSupp(to) ==
    /\ supp' = to
    /\ UNCHANGED <<quote, version, accepted>>
    /\ UNCHANGED <<jobVars, bookingVars, benchVars, feeVars, payVars>>

SendSupp == Commits("supp") /\ UNCHANGED followUp /\ SetSupp("sent")

\* The customer counters, accepts or declines, under the quote's lock.
AnswerSupp ==
    /\ UNCHANGED workVars
    /\ supp \in OpenQuote
    /\ \E to \in {"negotiating", "accepted", "declined"} : SetSupp(to)

\* The shop accepts a counter it read unlocked, whatever the quote is by now
\* (for the main quote the move of the job refuses what has been overtaken).
ReadSuppCounter == supp = "negotiating" /\ Read("suppCounter", status)

AcceptSuppCounter == Commits("suppCounter") /\ UNCHANGED followUp /\ SetSupp("accepted")

CompleteRepair ==
    /\ completed' = TRUE
    /\ UNCHANGED intake
    /\ UNCHANGED <<bookingVars, quoteVars, feeVars, payVars, workVars>>
    /\ Transition(status, "repair_complete", "technician", dropoff, "none", FALSE)

(***************************************************************************)
(* Drop-off, invoice and dispatch                                          *)
(***************************************************************************)
\* The invoice's total: only accepted quotes are billed.
InvoiceTotal(fee) ==
    UpfrontFee + fee
      + (IF quote = "accepted" THEN accepted.total ELSE 0)
      + (IF supp = "accepted" THEN SuppPrice ELSE 0)

\* Mutant of Proforma: an issued invoice is replaced as well.
ProformaAlways(fee) ==
    [status  |-> "proforma", total |-> InvoiceTotal(fee),
     balance |-> InvoiceTotal(fee) - TotalPaid(paid)]

\* A fresh proforma replaces any earlier one; an issued invoice stays.
Proforma(fee) ==
    IF invoice.status = "issued" THEN invoice
    ELSE [status  |-> "proforma", total |-> InvoiceTotal(fee),
          balance |-> InvoiceTotal(fee) - TotalPaid(paid)]

ReadForDropoff ==
    /\ status \in {"repair_complete", "final_payment_pending",
                   "return_fee_pending", "return_failed"}
    /\ Read("dropoff", "absent")

\* On the way home unrepaired, or back from a failed delivery.
Returning == status \in {"return_fee_pending", "return_failed"}

\* The status a choice of drop-off moves the job to.
DropoffTarget(choice) ==
    CASE Returning /\ choice = "collect_at_shop" -> "ready_for_collection"
      [] status = "return_failed" -> "return_requested"
      [] status = "repair_complete" -> "final_payment_pending"
      [] OTHER -> status

\* The writes lock the job, and what follows looks at it afresh, but the
\* choice and its fee are written before that second look.
ChooseDropoff(choice) ==
    /\ choice = "pickup_address" => origin = "online"
    /\ followUp = "none"
    /\ Commits("dropoff")
    /\ returnFee' = DeliveryFee(choice)
    /\ UNCHANGED <<paid, prompts>>
    /\ UNCHANGED <<bookingVars, benchVars, quoteVars>>
    /\ LET due == IF Returning THEN DeliveryFee(choice) ELSE invoice'.balance IN
        /\ invoice' = IF Returning THEN invoice ELSE Proforma(DeliveryFee(choice))
        /\ followUp' = IF due <= 0 THEN "settle" ELSE "none"
    /\ IF DropoffTarget(choice) = status
       THEN /\ dropoff' = choice
            /\ UNCHANGED <<status, outcome, reason, timers, warranty, passcode>>
       ELSE Transition(status, DropoffTarget(choice), "customer", choice, "none", FALSE)

Issued == [invoice EXCEPT !.status = "issued"]

\* After a choice that left nothing to pay: settleZeroBalance, then
\* settleZeroReturnFee; a guard that refuses rolls the step back.
Settle ==
    LET balanceSettled ==
            /\ status = "final_payment_pending"
            /\ invoice.status = "proforma" /\ invoice.balance <= 0
            /\ TotalPaid(paid) >= invoice.total
        returnSettled ==
            /\ status = "return_fee_pending" /\ returnFee = 0 /\ dropoff \in Delivery
    IN  /\ followUp = "settle"
        /\ followUp' = "none"
        /\ UNCHANGED <<claimed, reader, faults, paid, prompts>>
        /\ UNCHANGED <<bookingVars, benchVars, quoteVars, feeVars>>
        /\ invoice' = IF balanceSettled THEN Issued ELSE invoice
        /\ IF balanceSettled \/ returnSettled
           THEN Transition(status, "dispatch_pending", "system", dropoff, "none", FALSE)
           ELSE UNCHANGED jobVars

\* An admin waives the return fee; the move on, when there is a drop-off
\* choice to move on to, is a second transaction.
WaiveReturnFee ==
    /\ status = "return_fee_pending" /\ followUp = "none"
    /\ returnFee' = 0
    /\ followUp' = "waive"
    /\ UNCHANGED <<claimed, reader, faults>>
    /\ UNCHANGED <<jobVars, bookingVars, benchVars, quoteVars, payVars>>

ReleaseWaived ==
    /\ followUp = "waive"
    /\ followUp' = "none"
    /\ UNCHANGED <<claimed, reader, faults>>
    /\ IF /\ dropoff \in Delivery
          /\ status = "return_fee_pending" /\ paid["return_fee"] >= returnFee
       THEN Move("dispatch_pending", "system", "none", TRUE)
       ELSE UNCHANGED <<jobVars, bookingVars, benchVars, quoteVars, feeVars, payVars>>

RequestDispatch ==
    /\ status = "dispatch_pending"
    /\ UNCHANGED workVars
    /\ Move("return_requested", "shop_admin", "none", TRUE)

(***************************************************************************)
(* Closing                                                                 *)
(***************************************************************************)
ConfirmDelivered ==
    /\ status = "delivered"
    /\ UNCHANGED workVars
    /\ Move(TerminalFor(outcome), "customer", "none", FALSE)

CounterHandover ==
    /\ status = "ready_for_collection"
    /\ UNCHANGED workVars
    /\ Move(TerminalFor(outcome), "technician", "none", FALSE)

(***************************************************************************)
(* Payments                                                                *)
(***************************************************************************)
AmountDue(purpose) ==
    CASE purpose = "pickup_fee" /\ origin = "walk_in"
              /\ status = "received_at_shop" /\ terms
              /\ paid["pickup_fee"] < ConsultFee -> ConsultFee - paid["pickup_fee"]
      [] purpose = "pickup_fee" /\ origin = "online"
              /\ status = "pickup_fee_pending" -> PickupFee
      [] purpose = "deposit" /\ status = "deposit_pending" -> accepted.deposit
      [] purpose = "final_balance" /\ status = "final_payment_pending" -> invoice.balance
      [] purpose = "return_fee" /\ status = "return_fee_pending" -> returnFee
      [] OTHER -> 0

\* The status a payment moves the job to, "none" when it only adds up.
Unlocks(purpose, pd) ==
    CASE purpose = "pickup_fee" /\ status = "pickup_fee_pending" -> "pickup_requested"
      [] purpose = "deposit" /\ status = "deposit_pending" -> "in_repair"
      [] purpose = "final_balance" /\ status = "final_payment_pending"
              /\ TotalPaid(pd) >= invoice.total -> "dispatch_pending"
      [] purpose = "return_fee" /\ status = "return_fee_pending" -> "dispatch_pending"
      [] OTHER -> "none"

Adding(purpose, amount) == [paid EXCEPT ![purpose] = @ + amount]

\* The move a payment unlocks is refused by its guard.
ConfirmationRaises(purpose, amount) ==
    LET pd == Adding(purpose, amount)
        to == Unlocks(purpose, pd)
    IN  to # "none" /\ ~PaymentGuard(status, to, dropoff, pd)

\* Mutant of Confirm: the paid invoice is not issued.
ConfirmUnissued(purpose, amount) ==
    LET pd == Adding(purpose, amount)
        to == Unlocks(purpose, pd)
    IN  /\ paid' = pd
        /\ invoice' = IF invoice.status = "none" THEN invoice
                      ELSE [invoice EXCEPT !.balance = invoice.total - TotalPaid(pd)]
        /\ UNCHANGED <<bookingVars, benchVars, quoteVars, feeVars, workVars>>
        /\ IF to = "none" THEN UNCHANGED jobVars
           ELSE Transition(status, to, "system", dropoff, "none", FALSE)

\* confirm_payment for a successful result: the payment, the live invoice and
\* the job move together.
Confirm(purpose, amount) ==
    LET pd == Adding(purpose, amount)
        to == Unlocks(purpose, pd)
        live == IF invoice.status = "none" THEN invoice
                ELSE [invoice EXCEPT !.balance = invoice.total - TotalPaid(pd)]
    IN  /\ paid' = pd
        /\ invoice' = IF purpose = "final_balance" /\ to = "dispatch_pending"
                      THEN [live EXCEPT !.status = "issued"] ELSE live
        /\ UNCHANGED <<bookingVars, benchVars, quoteVars, feeVars, workVars>>
        /\ IF to = "none" THEN UNCHANGED jobVars
           ELSE Transition(status, to, "system", dropoff, "none", FALSE)

SendPrompt(purpose) ==
    /\ AmountDue(purpose) > 0
    /\ Cardinality(prompts) < MaxPrompts
    /\ prompts' = prompts \cup
            {[purpose |-> purpose, amount |-> AmountDue(purpose), refused |-> FALSE]}
    /\ UNCHANGED <<invoice, paid>>
    /\ UNCHANGED <<jobVars, bookingVars, benchVars, quoteVars, feeVars, workVars>>

\* Declined, timed out or rejected: the customer was not charged.
PromptFails(p) ==
    /\ ~p.refused
    /\ prompts' = prompts \ {p}
    /\ UNCHANGED <<invoice, paid>>
    /\ UNCHANGED <<jobVars, bookingVars, benchVars, quoteVars, feeVars, workVars>>

\* The callback (or a later query) reports that the customer has paid.
PromptConfirmed(p) ==
    /\ prompts' = prompts \ {p}
    /\ Confirm(p.purpose, p.amount)

\* The customer has paid, but the guard of the unlocked move raises and takes
\* the whole confirmation back with it: nothing is recorded.
PromptRefused(p) ==
    /\ ~p.refused
    /\ ConfirmationRaises(p.purpose, p.amount)
    /\ prompts' = (prompts \ {p}) \cup {[p EXCEPT !.refused = TRUE]}
    /\ UNCHANGED <<invoice, paid>>
    /\ UNCHANGED <<jobVars, bookingVars, benchVars, quoteVars, feeVars, workVars>>

\* Cash at the counter: the amount due, recorded and confirmed under the lock.
CashPayment(purpose) ==
    /\ AmountDue(purpose) > 0
    /\ prompts' = prompts
    /\ Confirm(purpose, AmountDue(purpose))

(***************************************************************************)
(* Timers                                                                  *)
(***************************************************************************)
\* A due timer is stamped fired_at in a statement of its own.
ClaimTimer(kind) ==
    /\ timers[kind] > 0
    /\ kind \notin claimed /\ Cardinality(claimed) < MaxClaims
    /\ timers' = [timers EXCEPT ![kind] = @ - 1]
    /\ claimed' = claimed \cup {kind}
    /\ UNCHANGED <<status, outcome, reason, dropoff, warranty, passcode>>
    /\ UNCHANGED <<reader, followUp, faults>>
    /\ UNCHANGED <<bookingVars, benchVars, quoteVars, feeVars, payVars>>

Handled(kind) ==
    /\ kind \in claimed
    /\ claimed' = claimed \ {kind}
    /\ UNCHANGED <<reader, followUp, faults>>

\* The handlers look at the job again, under its lock.
QuoteExpiryHandler ==
    /\ Handled("quote_expiry")
    /\ UNCHANGED <<version, accepted, supp>>
    /\ UNCHANGED <<bookingVars, benchVars, feeVars, payVars>>
    /\ IF status \in {"quote_sent", "quote_negotiating"}
       THEN /\ quote' = IF quote \in OpenQuote THEN "expired" ELSE quote
            /\ Transition(status, "quote_expired", "system", dropoff, "none", FALSE)
       ELSE UNCHANGED <<quote, jobVars>>

\* Mutant of AutoDeclineHandler: it trusts the quote rather than the job.
AutoDeclineExpiredQuote ==
    /\ Handled("expired_quote_autodecline")
    /\ UNCHANGED <<version, accepted, supp>>
    /\ UNCHANGED <<bookingVars, benchVars, feeVars, payVars>>
    /\ IF status = "quote_expired" /\ quote = "expired"
       THEN /\ quote' = "declined"
            /\ Transition(status, "quote_declined", "system", dropoff, "none", TRUE)
       ELSE UNCHANGED <<quote, jobVars>>

AutoDeclineHandler ==
    /\ Handled("expired_quote_autodecline")
    /\ UNCHANGED <<version, accepted, supp>>
    /\ UNCHANGED <<bookingVars, benchVars, feeVars, payVars>>
    /\ IF status = "quote_expired"
       THEN /\ quote' = IF quote = "expired" THEN "declined" ELSE quote
            /\ Transition(status, "quote_declined", "system", dropoff, "none", TRUE)
       ELSE UNCHANGED <<quote, jobVars>>

\* Mutant of AutoCloseHandler: every delivered job closes as repaired.
AutoCloseRepaired ==
    /\ Handled("auto_close")
    /\ IF status = "delivered"
       THEN Move("closed", "system", "none", TRUE)
       ELSE UNCHANGED <<jobVars, bookingVars, benchVars, quoteVars, feeVars, payVars>>

AutoCloseHandler ==
    /\ Handled("auto_close")
    /\ IF status = "delivered"
       THEN Move(TerminalFor(outcome), "system", "none", TRUE)
       ELSE UNCHANGED <<jobVars, bookingVars, benchVars, quoteVars, feeVars, payVars>>

\* A reminder only notifies; the drop-off reminder may ask for another one
\* (at most three in all: the count in its payload is left out).
ReminderHandler(kind) ==
    /\ Handled(kind)
    /\ \E again \in BOOLEAN :
        /\ again => kind = "dropoff_reminder" /\ status = "repair_complete"
        /\ timers' = [timers EXCEPT ![kind] = @ + (IF again THEN 1 ELSE 0)]
    /\ UNCHANGED <<status, outcome, reason, dropoff, warranty, passcode>>
    /\ UNCHANGED <<bookingVars, benchVars, quoteVars, feeVars, payVars>>

Reminders ==
    {"deposit_reminder", "final_payment_reminder", "dropoff_reminder", "unclaimed_alert"}

HandleTimer ==
    \/ QuoteExpiryHandler
    \/ AutoDeclineHandler
    \/ AutoCloseHandler
    \/ \E kind \in Reminders : ReminderHandler(kind)

\* A handler that throws puts its timer back, whatever the job has become.
HandlerFails(kind) ==
    /\ kind \in claimed /\ faults < MaxFaults
    /\ claimed' = claimed \ {kind}
    /\ faults' = faults + 1
    /\ timers' = [timers EXCEPT ![kind] = @ + 1]
    /\ UNCHANGED <<status, outcome, reason, dropoff, warranty, passcode, reader, followUp>>
    /\ UNCHANGED <<bookingVars, benchVars, quoteVars, feeVars, payVars>>

(***************************************************************************)
(* Crashes: nothing written is lost, but what a process still had to do is *)
(***************************************************************************)
WorkerCrash ==
    /\ claimed # {} /\ faults < MaxFaults
    /\ claimed' = {}
    /\ faults' = faults + 1
    /\ UNCHANGED <<reader, followUp>>
    /\ UNCHANGED <<jobVars, bookingVars, benchVars, quoteVars, feeVars, payVars>>

ServerCrash ==
    /\ followUp # "none" /\ faults < MaxFaults
    /\ followUp' = "none"
    /\ reader' = NoReader
    /\ faults' = faults + 1
    /\ UNCHANGED claimed
    /\ UNCHANGED <<jobVars, bookingVars, benchVars, quoteVars, feeVars, payVars>>

\* The proforma is written by a transaction of its own: it stays when the
\* choice of drop-off that asked for it is rolled back.
DropoffCrash(choice) ==
    /\ choice = "pickup_address" => origin = "online"
    /\ status \in {"repair_complete", "final_payment_pending"}
    /\ faults < MaxFaults
    /\ reader.op = "dropoff"
    /\ reader' = NoReader
    /\ faults' = faults + 1
    /\ invoice' = Proforma(DeliveryFee(choice))
    /\ UNCHANGED <<paid, prompts, claimed, followUp>>
    /\ UNCHANGED <<jobVars, bookingVars, benchVars, quoteVars, feeVars>>

(***************************************************************************)
(* The specification                                                       *)
(***************************************************************************)
BookingStep ==
    \/ CreateDraft \/ CreateWalkIn \/ AcceptTerms
    \/ ReadDraft \/ SubmitDraft
    \/ \E fact \in BookingFact : AddBookingFact(fact)

CancelStep == CustomerCancel \/ AdminCancel

CourierStep ==
    \/ \E to \in JobStatus : CourierReport(to)
    \/ RebookPickup
    \/ CustomerToRider \/ RiderToShop \/ ShopToRider \/ RiderToCustomer

IntakeStep == CompleteIntake \/ AcknowledgeIntake \/ RejectIntake

QuoteStep ==
    \/ ReadForQuote \/ ReadForCounter
    \/ CustomerAccept \/ CustomerDecline
    \/ \E price \in Prices : ShopAcceptCounter(price)

RepairStep == ReadForSupp \/ ReadSuppCounter \/ AnswerSupp \/ CompleteRepair

ReturnStep ==
    \/ ReadForDropoff \/ WaiveReturnFee \/ RequestDispatch
    \/ ConfirmDelivered \/ CounterHandover

PaymentStep ==
    \/ \E purpose \in Purpose : SendPrompt(purpose) \/ CashPayment(purpose)
    \/ \E p \in prompts : PromptFails(p) \/ PromptConfirmed(p) \/ PromptRefused(p)

FollowUpStep == SkipZeroDeposit \/ Settle \/ ReleaseWaived

TimerStep == (\E kind \in TimerKind : ClaimTimer(kind)) \/ HandleTimer

FaultStep ==
    \/ \E kind \in TimerKind : HandlerFails(kind)
    \/ WorkerCrash \/ ServerCrash

\* The second half of a handler that reads before it locks.
CommitStep ==
    \/ SaveDraft \/ CounterQuote \/ SendSupp \/ AcceptSuppCounter
    \/ \E price \in Prices : SendQuote(price)
    \/ \E choice \in Choice : ChooseDropoff(choice)
    \/ AbandonRead
    \/ \E choice \in Choice : DropoffCrash(choice)

Step ==
    \/ BookingStep \/ CancelStep \/ CourierStep \/ IntakeStep \/ QuoteStep
    \/ RepairStep \/ ReturnStep \/ PaymentStep \/ FollowUpStep \/ TimerStep
    \/ FaultStep

\* Bound: a handler not in Interrupted writes right after its read.
Next == CommitStep \/ (reader.op \in Interrupted \cup {"none"} /\ Step)

Spec == Init /\ [][Next]_vars

\* The worker loops for ever, so a due timer is eventually claimed and a
\* claimed one handled; a request runs on to its second transaction.  Nobody
\* else is obliged to do anything.  A worker that hangs in a payment_reconcile
\* handler (StkPayment) does not loop: that is assumed away here.
Fairness ==
    /\ \A kind \in TimerKind : WF_vars(ClaimTimer(kind))
    /\ WF_vars(HandleTimer)
    /\ WF_vars(FollowUpStep)

FairSpec == Spec /\ Fairness


(***************************************************************************)
(* Properties                                                              *)
(***************************************************************************)
\* What a job has been through once a technician has begun to diagnose it.
UnderDiagnosis ==
    {"diagnosing", "quote_sent", "quote_negotiating", "quote_expired", "deposit_pending"}

UnderRepair == {"in_repair", "repair_complete", "final_payment_pending"}

\* On the way back to the customer, or there.
OutForReturn ==
    {"dispatch_pending", "return_requested", "rider_en_route_to_shop",
     "collected_from_shop", "in_transit_to_customer", "delivered"}

\* Nobody works on a walk-in's device before the customer has consented and
\* paid the consultation fee (check_walk_in_ready), whatever the order in
\* which consent, payment, refused confirmations and intake arrive.
WalkInGate ==
    origin = "walk_in" /\ status \in UnderDiagnosis \cup UnderRepair =>
        terms /\ paid["pickup_fee"] >= ConsultFee

\* Repair work rests on a price that was accepted and whose deposit has been
\* paid, even if the quote row is overwritten meanwhile.
DepositCoversRepair ==
    status \in UnderRepair => paid["deposit"] >= accepted.deposit

\* A repaired device leaves the shop, or waits on its shelf, only against an
\* issued invoice that is paid in full: through prompts, cash, a late choice
\* of drop-off and a settled zero balance alike.
PaidBeforeReturn ==
    completed /\ status \in OutForReturn \cup {"ready_for_collection", "closed"} =>
        invoice.status = "issued" /\ TotalPaid(paid) >= invoice.total

\* A job that only has to be closed can be closed: the terminal status its
\* outcome asks for is one whose guard lets it in (a cancelled one needs a
\* reason recorded on the way).
ReturnedCanClose ==
    status \in {"delivered", "ready_for_collection"} =>
        outcome # "none" /\ (outcome = "cancelled" => reason)

\* An acceptance that comes too late for its quote leaves no trace: the quote
\* of a job that was declined is never an accepted one.
DeclinedNotAccepted == outcome = "declined" => quote # "accepted"

\* What only the worker moves on, when the customer does not.
Deadlines == {"quote_expiry", "expired_quote_autodecline", "auto_close"}

\* As long as no handler has failed, a timer that may still fire belongs to
\* the status the job is in: moving on cancelled every other (timer_alive_in).
\* And a quote that can expire, an expired one and a delivered device are never
\* left without their timer, unless the worker holds it: no answer, revision
\* or counter-offer cancels the only thing that moves the job on.
TimersMatchStatus ==
    faults = 0 =>
        /\ \A kind \in TimerKind : timers[kind] > 0 => status \in AliveIn(kind)
        /\ \A kind \in Deadlines :
                status \in AliveIn(kind) => timers[kind] > 0 \/ kind \in claimed

\* A job closes with the status of its outcome; a warranty runs only for a
\* repaired one unless an admin cancelled it afterwards.
ClosesAsItEnded ==
    /\ status \in Terminal => status = TerminalFor(outcome)
    /\ warranty => outcome = "repaired" \/ status = "cancelled"

\* An issued invoice is never replaced, withdrawn or given another total, by
\* a drop-off choice that was read earlier or by a later payment.
IssuedInvoiceFrozen ==
    [][invoice.status = "issued" =>
          invoice'.status = "issued" /\ invoice'.total = invoice.total]_vars

\* The outcome is decided once: nothing but a cancellation changes it, and
\* nothing changes a cancellation, so the way home cannot turn a declined or
\* cancelled job into a repaired one with a warranty.
OutcomeDecidedOnce ==
    [][outcome # "none" /\ outcome' # outcome => outcome' = "cancelled"]_vars

\* The worker closes a delivered job the customer never confirms.
DeliveredCloses == status = "delivered" ~> status \in Terminal

\* An expired quote is revised, declined by the customer or, in the end,
\* declined by the worker.
ExpiredQuoteMovesOn == status = "quote_expired" ~> status # "quote_expired"

(***************************************************************************)
(* What the documents say and the code does not do                         *)
(***************************************************************************)
\* STATE_MACHINE.md: a job abandoned in the middle of its repair goes back as
\* a cancelled one; only a completed repair closes as repaired.
AbandonedIsNotRepaired == status = "closed" => completed

\* MPESA.md: a successful result is recorded and advances the job.
ChargedIsRecorded == \A p \in prompts : ~p.refused

\* While the deposit is due, and through the repair, the main quote is the
\* accepted one.
AcceptedStaysAccepted == status \in {"deposit_pending"} \cup UnderRepair => quote = "accepted"

\* COMPLIANCE.md: the passcode is purged the moment a job is terminal.
PasscodePurged == status \in Terminal => ~passcode

\* The job's status and the rows of its main quote and its passcode say the
\* same.  Two people writing the quote at once can part them, and so can a
\* draft saved while it is cancelled; nothing else does (RowsAreOvertaken).
RowsAgree ==
    /\ PasscodePurged
    /\ status = "quote_sent" => quote = "sent"
    /\ status = "quote_negotiating" => quote = "negotiating"
    /\ status = "quote_expired" => quote = "expired"
    /\ AcceptedStaysAccepted

=============================================================================
