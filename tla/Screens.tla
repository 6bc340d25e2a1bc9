------------------------------- MODULE Screens -------------------------------
(***************************************************************************)
(* What the customer's page of a job and the bench's page of it put on     *)
(* offer, against what the server's handlers (JobLifecycle) then accept.   *)
(*                                                                         *)
(* Both pages are functions of the job: they switch on its status and on   *)
(* a few rows (the fee due, the open quote, the drop-off choice), with     *)
(* rules of their own that repeat the server's.  A control is a record:    *)
(* what it does, what it is about, and the amount it shows.  Texts,        *)
(* photos, disputes and the assignment of a technician are left out.       *)
(***************************************************************************)
EXTENDS JobLifecycle, Sequences

Control(do, of, amount) == [do |-> do, of |-> of, amount |-> amount]

Button(do) == {Control(do, "job", 0)}

\* A section of a page: its controls, shown in some statuses only.
When(condition, controls) == IF condition THEN controls ELSE {}
In(statuses, controls)    == When(status \in statuses, controls)

(***************************************************************************)
(* The gate of a walk-in, as both pages work it out                        *)
(***************************************************************************)
FeeDue == IF paid["pickup_fee"] >= UpfrontFee THEN 0 ELSE UpfrontFee - paid["pickup_fee"]

GateReady == terms /\ FeeDue = 0

AtWalkInGate == status = "received_at_shop" /\ origin = "walk_in" /\ ~GateReady

(***************************************************************************)
(* The customer's page                                                     *)
(***************************************************************************)
PayPanel(purpose, amount) == {Control("pay", purpose, amount)}

WalkInConsent == Button("consent")

CancelBooking == Button("cancel")

HandoverScan == Button("scanRider")

RebookPickupButton == Button("rebook")

IntakeReview == Button("acknowledge") \cup Button("rejectIntake")

\* Accept, counter and decline; an expired quote can only be declined, and a
\* counter-offer is not made while one is open.
QuoteActions(kind, canCounter, expired) ==
    {Control("decline", kind, 0)}
      \cup When(~expired, {Control("accept", kind, 0)})
      \cup When(canCounter /\ ~expired, {Control("counter", kind, 0)})

\* A walk-in has no pickup address to be sent back to.
DropoffChooser ==
    {Control("choose", choice, 0) :
        choice \in IF origin = "online" THEN Choice ELSE Choice \ {"pickup_address"}}

DeliveredConfirm == Button("confirmDelivered")

QuoteMessageBox == {Control("message", "main", 0)}

RateLater == Button("rate")

WarrantyClaim == Button("claim")

SuppOpen == supp \in OpenQuote

\* The deposit the page shows: that of the version whose total was accepted,
\* or of the current version while none is.
DepositShown == IF accepted = NoPrice THEN version.deposit ELSE accepted.deposit

GateSection == IF terms THEN PayPanel("pickup_fee", FeeDue) ELSE WalkInConsent

PickupSection == UNION
    {In({"pickup_fee_pending"}, PayPanel("pickup_fee", UpfrontFee) \cup CancelBooking),
     In({"pickup_requested", "rider_en_route_to_customer"}, HandoverScan \cup CancelBooking),
     In({"pickup_failed"}, RebookPickupButton \cup CancelBooking)}

IntakeSection ==
    In({"diagnosing"}, CancelBooking) \cup In({"intake_ack_pending"}, IntakeReview)

QuoteSection == UNION
    {In({"quote_sent", "quote_negotiating", "quote_expired"},
        QuoteActions("main", status # "quote_negotiating", status = "quote_expired")
          \cup QuoteMessageBox),
     In({"deposit_pending"}, PayPanel("deposit", DepositShown)),
     In({"in_repair"}, When(SuppOpen, QuoteActions("supplementary", supp # "negotiating", FALSE)))}

\* The return fee is payable once a leg was chosen and priced; until then,
\* and next to it, the choice itself.  (The page also asks for the leg's 'quoted'
\* row, which is there from the choice to the booking of the courier, after the
\* fee.)
DropoffSection == UNION
    {In({"repair_complete", "return_failed"}, DropoffChooser),
     In({"final_payment_pending"}, PayPanel("final_balance", invoice.balance) \cup DropoffChooser),
     In({"return_fee_pending"},
        When(dropoff # "none" /\ returnFee > 0, PayPanel("return_fee", returnFee))
          \cup DropoffChooser)}

ReturnSection == UNION
    {In({"collected_from_shop", "in_transit_to_customer"}, HandoverScan),
     In({"ready_for_collection"}, Button("showCode")),
     In({"delivered"}, DeliveredConfirm)}

ClosedSection == In({"closed"}, RateLater \cup When(warranty, WarrantyClaim))

\* The list of the customer's jobs opens a draft in the booking wizard, and
\* everything else on its own page.
DraftSection == In({"draft"}, Button("wizard"))

CustomerPage ==
    IF AtWalkInGate THEN GateSection
    ELSE UNION {DraftSection, PickupSection, IntakeSection, QuoteSection,
                DropoffSection, ReturnSection, ClosedSection}

(***************************************************************************)
(* The bench's page                                                        *)
(***************************************************************************)
BenchHandover(point) == {Control("scan", point, 0)}

IntakeForm == Button("intake")

QuoteBuilder(kind) == {Control("quote", kind, 0)}

CounterResponse(kind) == {Control("acceptCounter", kind, 0), Control("declineCounter", kind, 0)}

ShopMessageBox == {Control("message", "main", 0)}

CompleteRepairForm == Button("complete")

\* A note on the work, with photos, that the customer may see.
ProgressForm == Button("progress")

CounterCollection == Button("collect")

\* Anybody on the staff sends a prompt; an admin also records cash.
CounterPayment(purpose, amount, role) ==
    {Control("prompt", purpose, amount)}
      \cup When(role = "shop_admin", {Control("cash", purpose, amount)})

WaiveReturnFeeButton == Button("waive")

RequestDispatchButton == Button("dispatch")

ResendWalkInLink == Button("resendLink")

\* A walk-in is opened at the counter; the customer's own booking is Booking.
WalkInForm == When(status = "absent" /\ origin = "walk_in", Button("walkIn"))

\* For the assigned technician and the admins.
PasscodeReveal == When(passcode, Button("reveal"))

\* Mutant of WalkInGatePanel: the fee can be taken before the consent.
WalkInGatePanelOpen(role) ==
    When(FeeDue > 0, CounterPayment("pickup_fee", FeeDue, role))

\* Consent first, then the fee; intake opens once both are done.
WalkInGatePanel(role) ==
    When(~terms, ResendWalkInLink)
      \cup When(terms /\ FeeDue > 0, CounterPayment("pickup_fee", FeeDue, role))

\* An admin sets the date by hand, also ahead of the closing that would set it.
WarrantyEdit(role) ==
    When(role = "shop_admin" /\ (warranty \/ status \in {"ready_for_collection", "delivered", "closed"}),
         Button("setWarranty"))

\* Where an admin's "Cancel job" is not shown.
NoAdminCancel ==
    Terminal \cup
    {"return_fee_pending", "dispatch_pending", "return_requested", "rider_en_route_to_shop",
     "collected_from_shop", "in_transit_to_customer", "delivered"}

AdminCancelButton(role) ==
    When(role = "shop_admin" /\ status \notin NoAdminCancel, Button("cancelJob"))

ArrivalSection ==
    In({"picked_up", "in_transit_to_shop"}, BenchHandover("rider_to_shop"))
      \cup In({"received_at_shop"}, IntakeForm)

BenchQuoteSection(role) == UNION
    {In({"diagnosing", "quote_sent", "quote_negotiating", "quote_expired"}, QuoteBuilder("main")),
     In({"diagnosing"}, ProgressForm),
     In({"quote_sent", "quote_negotiating", "quote_expired"}, ShopMessageBox),
     In({"quote_negotiating"}, CounterResponse("main")),
     In({"deposit_pending"}, CounterPayment("deposit", version.deposit, role))}

RepairSection == ProgressForm \cup
    IF SuppOpen
    THEN When(supp = "negotiating", CounterResponse("supplementary"))
    ELSE QuoteBuilder("supplementary") \cup CompleteRepairForm

ClosingSection(role) ==
    In({"final_payment_pending"}, CounterPayment("final_balance", invoice.balance, role))
      \cup In({"return_fee_pending"},
              When(returnFee > 0, CounterPayment("return_fee", returnFee, role))
                \cup When(role = "shop_admin", WaiveReturnFeeButton))

DispatchSection(role) == UNION
    {In({"dispatch_pending"}, When(role = "shop_admin", RequestDispatchButton)),
     In({"return_requested", "rider_en_route_to_shop"}, BenchHandover("shop_to_rider")),
     In({"ready_for_collection"}, CounterCollection)}

\* "role" is the member's role in the shop.
BenchAction(role) ==
    IF AtWalkInGate THEN WalkInGatePanel(role)
    ELSE UNION {ArrivalSection, BenchQuoteSection(role), In({"in_repair"}, RepairSection),
                ClosingSection(role), DispatchSection(role)}

BenchPage(role) == UNION
    {BenchAction(role), PasscodeReveal, WarrantyEdit(role), AdminCancelButton(role), WalkInForm}

Roles == {"technician", "shop_admin"}

(***************************************************************************)
(* Whose move it is, as the bench page's banner says                       *)
(***************************************************************************)
\* Mutant of NextStep: a failed delivery is the shop's to send out again.
NextStepAtShop ==
    CASE AtWalkInGate -> IF terms THEN "shop" ELSE "customer"
      [] status \in {"draft", "pickup_fee_pending", "pickup_failed", "intake_ack_pending",
                     "quote_sent", "deposit_pending", "repair_complete",
                     "final_payment_pending", "ready_for_collection",
                     "return_fee_pending", "delivered"} -> "customer"
      [] status \in {"picked_up", "in_transit_to_shop", "received_at_shop", "diagnosing",
                     "quote_negotiating", "quote_expired", "in_repair",
                     "rider_en_route_to_shop", "return_failed"} -> "shop"
      [] status = "dispatch_pending" -> "admin"
      [] status \in {"pickup_requested", "rider_en_route_to_customer", "return_requested",
                     "collected_from_shop", "in_transit_to_customer"} -> "courier"
      [] OTHER -> "none"

NextStep ==
    CASE AtWalkInGate -> IF terms THEN "shop" ELSE "customer"
      [] status \in {"draft", "pickup_fee_pending", "pickup_failed", "intake_ack_pending",
                     "quote_sent", "deposit_pending", "repair_complete",
                     "final_payment_pending", "ready_for_collection",
                     "return_fee_pending", "return_failed", "delivered"} -> "customer"
      [] status \in {"picked_up", "in_transit_to_shop", "received_at_shop", "diagnosing",
                     "quote_negotiating", "quote_expired", "in_repair",
                     "rider_en_route_to_shop"} -> "shop"
      [] status = "dispatch_pending" -> "admin"
      [] status \in {"pickup_requested", "rider_en_route_to_customer", "return_requested",
                     "collected_from_shop", "in_transit_to_customer"} -> "courier"
      [] OTHER -> "none"

(***************************************************************************)
(* The board of the bench                                                  *)
(***************************************************************************)
BoardColumns ==
    [incoming |->
        {"pickup_fee_pending", "pickup_requested", "rider_en_route_to_customer", "picked_up",
         "in_transit_to_shop", "pickup_failed"},
     at_bench |-> {"received_at_shop", "diagnosing", "in_repair"},
     awaiting_customer |->
        {"intake_ack_pending", "quote_sent", "quote_negotiating", "quote_expired",
         "deposit_pending", "repair_complete", "final_payment_pending", "return_fee_pending",
         "quote_declined"},
     ready_to_dispatch |->
        {"dispatch_pending", "return_requested", "rider_en_route_to_shop",
         "ready_for_collection", "return_failed"},
     out_for_delivery |-> {"collected_from_shop", "in_transit_to_customer", "delivered"}]

\* The board lists the jobs of its columns, and no others.
OnBoard == \E column \in DOMAIN BoardColumns : status \in BoardColumns[column]

(***************************************************************************)
(* The progress bars of the customer's page and of the bench's             *)
(***************************************************************************)
CustomerSteps ==
    <<{"draft", "pickup_fee_pending"},
      {"pickup_requested", "rider_en_route_to_customer", "pickup_failed", "picked_up",
       "in_transit_to_shop"},
      {"received_at_shop", "intake_ack_pending", "diagnosing"},
      {"quote_sent", "quote_negotiating", "quote_expired", "deposit_pending",
       "quote_declined", "return_fee_pending"},
      {"in_repair", "repair_complete", "final_payment_pending"},
      {"dispatch_pending", "return_requested", "rider_en_route_to_shop",
       "collected_from_shop", "in_transit_to_customer", "return_failed",
       "ready_for_collection", "delivered"},
      {"closed", "cancelled", "declined_returned"}>>

StaffStages ==
    <<CustomerSteps[1] \cup CustomerSteps[2],
      {"received_at_shop", "intake_ack_pending"},
      {"diagnosing"},
      {"quote_sent", "quote_negotiating", "quote_expired", "quote_declined"},
      {"deposit_pending"},
      {"in_repair"},
      {"repair_complete", "final_payment_pending"},
      {"dispatch_pending", "return_requested", "rider_en_route_to_shop",
       "ready_for_collection", "return_fee_pending", "return_failed"},
      {"collected_from_shop", "in_transit_to_customer", "delivered"},
      {"closed", "declined_returned", "cancelled"}>>

\* The first step that has the job's status, 0 when none has.
StageIndex(steps) ==
    LET at == {i \in DOMAIN steps : status \in steps[i]} IN
    IF at = {} THEN 0 ELSE CHOOSE i \in at : \A j \in at : i <= j

\* On the customer's bar the last step has no segment of its own: a finished job
\* has every other one filled.  The bench's chain marks the current stage.
StepBar      == [at |-> StageIndex(CustomerSteps), last |-> Len(CustomerSteps)]
StaffStepper == [at |-> StageIndex(StaffStages), last |-> Len(StaffStages)]

(***************************************************************************)
(* Pressing a control                                                      *)
(***************************************************************************)
\* The amount on the control is what the server would charge, and the
\* confirmation of that payment would not be refused.
Payable(c) == AmountDue(c.of) = c.amount /\ ENABLED CashPayment(c.of)

\* A handler that reads before it locks: its read goes through and, when it is
\* the one running, its write.
InTwo(op, read, write) == IF reader = NoReader THEN read ELSE reader.op = op => write

\* What the customer's handlers do until the device is at the bench ...
ArrivalServed(c) ==
    \/ c.do = "scanRider"    /\ ENABLED (CustomerToRider \/ RiderToCustomer)
    \/ c.do = "acknowledge"  /\ ENABLED AcknowledgeIntake
    \/ c.do = "rejectIntake" /\ ENABLED RejectIntake

\* ... about a quote ...
QuoteServed(c) ==
    \/ /\ c.do \in {"accept", "decline", "counter"} /\ c.of = "supplementary"
       /\ ENABLED AnswerSupp
    \/ c.do = "accept"  /\ c.of = "main" /\ ENABLED CustomerAccept
    \/ c.do = "decline" /\ c.of = "main" /\ ENABLED CustomerDecline
    \/ c.do = "counter" /\ c.of = "main"
       /\ InTwo("counter", ENABLED ReadForCounter, ENABLED CounterQuote)
    \/ c.do = "message" /\ quote # "none"

\* ... and from the return of the device on.
ReturnServed(c) ==
    \/ c.do = "choose"
       /\ InTwo("dropoff", ENABLED ReadForDropoff, ENABLED ChooseDropoff(c.of))
    \/ c.do = "confirmDelivered" /\ ENABLED ConfirmDelivered
    \/ c.do = "consent" /\ ENABLED AcceptTerms
    \/ c.do = "rate"    /\ status \in {"collected_from_shop", "delivered", "closed"}
    \/ c.do = "cancel"  /\ ENABLED CustomerCancel
    \/ c.do = "rebook"  /\ ENABLED RebookPickup
    \/ c.do = "claim"   /\ warranty

\* A note is taken down whatever the job's status.
NotePosted == status # "absent"

\* What the bench's handlers do up to the repair.  (The model raises no further
\* supplementary quote after an accepted one.)
BenchServed(c) ==
    \/ c.do = "scan"   /\ ENABLED (RiderToShop \/ ShopToRider)
    \/ c.do = "reveal" /\ status \notin Terminal
    \/ c.do = "progress" /\ NotePosted
    \/ c.do = "intake" /\ ENABLED CompleteIntake
    \/ c.do = "quote"  /\ c.of = "main"
       /\ InTwo("quote", ENABLED ReadForQuote, \A price \in Prices : ENABLED SendQuote(price))
    \/ c.do = "quote"  /\ c.of = "supplementary"
       /\ (supp = "accepted" \/ InTwo("supp", ENABLED ReadForSupp, ENABLED SendSupp))
    \/ c.do = "acceptCounter"  /\ c.of = "main"
       /\ \A price \in Prices : ENABLED ShopAcceptCounter(price)
    \/ c.do = "acceptCounter"  /\ c.of = "supplementary"
       /\ InTwo("suppCounter", ENABLED ReadSuppCounter, ENABLED AcceptSuppCounter)
    \/ c.do = "declineCounter" /\ "negotiating" = (IF c.of = "main" THEN quote ELSE supp)

\* What they do from its completion on.
ClosingServed(c) ==
    \/ c.do = "complete"  /\ ENABLED CompleteRepair
    \/ c.do \in {"showCode", "collect"} /\ ENABLED CounterHandover
    \/ c.do = "cancelJob" /\ ENABLED AdminCancel
    \/ c.do = "dispatch"  /\ ENABLED RequestDispatch
    \/ c.do = "waive"     /\ ENABLED WaiveReturnFee
    \/ c.do = "setWarranty" /\ status # "absent"

\* The link to the terms goes out again while it can still be accepted.
LinkResent == origin = "walk_in" /\ status = "received_at_shop" /\ ~terms

\* What they do at the counter.
CounterServed(c) ==
    \/ c.do = "walkIn"     /\ ENABLED CreateWalkIn
    \/ c.do = "resendLink" /\ LinkResent

\* The server carries out what the control asks for.
Served(c) ==
    \/ c.do \in {"pay", "prompt", "cash"} /\ Payable(c)
    \/ c.do = "wizard" /\ InTwo("draft", ENABLED ReadDraft, ENABLED SaveDraft)
    \/ ArrivalServed(c) \/ QuoteServed(c) \/ ReturnServed(c)
    \/ BenchServed(c) \/ ClosingServed(c) \/ CounterServed(c)

(***************************************************************************)
(* Properties                                                              *)
(***************************************************************************)
\* Nothing is half done: no request owes a second transaction or has lost it
\* in a crash, no handler is about to overtake the page, and none has parted
\* the job from the rows of its quote and its passcode.
Settled ==
    /\ faults = 0 /\ followUp = "none" /\ RowsAgree
    /\ reader.op \notin Interrupted

Offered == CustomerPage \cup UNION {BenchPage(role) : role \in Roles}

\* A late second payment can leave a balance of nothing, with its pay panel.
NothingToPay(c) == c.do \in {"pay", "prompt", "cash"} /\ c.amount <= 0

\* What either page offers, to whoever looks at it, the server carries out,
\* and a price on a control is the one it would charge: the pages' own rules
\* and transition_job's table and guards agree over the whole life of a job,
\* its deposit included (an admin's cancellation apart, see
\* CancelStartsReturn, and the deposit the bench shows once a stale revision
\* has parted the quote from its job, which Settled leaves out: see
\* BenchAsksTheDeposit).
OfferedIsServed ==
    Settled => \A c \in Offered : c.do = "cancelJob" \/ NothingToPay(c) \/ Served(c)

\* Whoever the banner names can make the job move: the customer and the shop
\* by a control they are offered, other than a note or calling the whole thing
\* off, the shop on a job its board lists, the courier by a report; nobody is
\* named only when the job is over, and then, not before, both progress bars are
\* at their end.  (While a supplementary quote waits for the customer the banner
\* still names the shop, which then has nothing but notes to write.)
NextStepIsReal ==
    Settled /\ status # "absent" /\ ~(status = "in_repair" /\ supp = "sent") =>
        /\ \A bar \in {StepBar, StaffStepper} :
                bar.at # 0 /\ (bar.at = bar.last <=> NextStep = "none")
        /\ CASE NextStep = "customer" -> \E c \in CustomerPage : c.do # "cancel" /\ Served(c)
             [] NextStep = "shop" ->
                OnBoard /\ \E c \in BenchAction("technician") : c.do # "progress" /\ Served(c)
             [] NextStep = "admin" -> OnBoard /\ \E c \in BenchAction("shop_admin") : Served(c)
             [] NextStep = "courier" -> \E to \in JobStatus : ENABLED CourierReport(to)
             [] OTHER -> status \in Terminal

(***************************************************************************)
(* What the pages say and the server does not do                           *)
(***************************************************************************)
\* The help under an admin's "Cancel job": cancelling records the reason and,
\* if the device is at the shop, starts a return.
CancelStartsReturn ==
    status \in AtShop => \A c \in BenchPage("shop_admin") : c.do = "cancelJob" => Served(c)

\* The bench's panel asks for the deposit that the server charges.
BenchAsksTheDeposit ==
    status = "deposit_pending" /\ followUp = "none" =>
        \A c \in BenchPage("shop_admin") : c.do = "cash" => c.amount = AmountDue(c.of)

\* The banner of a job whose deposit is due: the customer pays it by M-Pesa.
DepositIsPayable ==
    status = "deposit_pending" /\ followUp = "none" => AmountDue("deposit") > 0

=============================================================================
