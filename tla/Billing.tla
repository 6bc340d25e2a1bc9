------------------------------ MODULE Billing ------------------------------
(***************************************************************************)
(* What a job costs: the fees the customer pays before the repair, the     *)
(* price agreed by quote and counter-offer, the deposit, the proforma and  *)
(* its VAT, and the refunds the shop's admins record.                      *)
(*                                                                         *)
(* Amounts are KES cents.  The statuses are those at which an amount is    *)
(* computed or paid, on the way that ends in a repair; JobLifecycle has    *)
(* the others, and how a payment is sent and heard of is StkPayment's.     *)
(***************************************************************************)
EXTENDS Integers, FiniteSets

CONSTANTS
    Shops,       \* what the fees section of tenant_settings may hold
    Prices,      \* what the lines of a quote may sum to
    Offers,      \* totals a customer may counter with
    Costs,       \* what the courier may charge for a leg
    Admins,      \* shop admins who record refunds
    MaxVersions, \* bound: quotes sent and counter-offers made
    MaxChoices,  \* bound: choices of drop-off
    MaxSaves,    \* bound: times the fees section is saved
    MaxRefunds   \* bound: refunds recorded

ASSUME SettingsAssumption ==
    \A s \in Shops :
        /\ {s.registered, s.inclusive, s.credited} \subseteq BOOLEAN
        /\ {s.rate, s.deposit, s.min, s.markup, s.fee} \subseteq Nat
        /\ s.rule \in {"percent", "fixed"}
        /\ (s.rule = "percent" => s.deposit <= 10000)
\* Forms take whole shillings, so what is typed is a multiple of 100 cents.
ASSUME TypedAssumption ==
    /\ Prices \cup Offers \subseteq {c \in Nat : c > 0 /\ c % 100 = 0}
    /\ \A s \in Shops : s.fee % 100 = 0 /\ (s.rule = "fixed" => s.deposit % 100 = 0)
ASSUME CostsAssumption == Costs \subseteq Nat \ {0}
ASSUME BoundsAssumption == {MaxVersions, MaxChoices, MaxSaves, MaxRefunds} \subseteq Nat

VARIABLES
    shop,     \* the tenant's settings
    status,   \* the job's status
    fees,     \* the job's consultation fee, and its pickup fee, which includes it
    quotes,   \* current version of the main and of the supplementary quote
    legs,     \* the delivery legs that count: what they cost, what is charged
    prompts,  \* payment prompts the customer has not answered
    paid,     \* confirmed payments, by purpose
    invoice,  \* the invoice that is not void
    dropoff,  \* the proforma a choice of drop-off has computed and not stored
    refunded, \* sum of the refunds recorded
    desk,     \* what each admin's refund request has found it may give back
    versions, choices, saves, refunds  \* counts for the bounds

jobVars   == <<shop, status, fees, quotes, legs>>
payVars   == <<prompts, paid>>
billVars  == <<invoice, dropoff>>
deskVars  == <<refunded, desk, refunds>>
countVars == <<versions, choices, saves>>
vars == <<jobVars, payVars, billVars, deskVars, countVars>>

Status == {"draft", "pickup_fee_pending", "pickup_requested", "received_at_shop", "diagnosing",
           "quote_sent", "quote_negotiating", "deposit_pending", "in_repair", "repair_complete",
           "final_payment_pending", "dispatch_pending"}
Purpose == {"pickup_fee", "deposit", "final_balance"}
QuoteKind == {"main", "supplementary"}

NoLeg   == [cost |-> 0, charged |-> 0]
NoQuote == [status |-> "none", price |-> 0, discount |-> 0, total |-> 0, deposit |-> 0,
            offers |-> {}]
\* inclusive and credited are history: the settings the invoice was computed with.
NoInvoice == [status |-> "none", sub |-> 0, vat |-> 0, rounding |-> 0, total |-> 0,
              paid |-> 0, balance |-> 0, inclusive |-> TRUE, credited |-> FALSE]

---------------------------------------------------------------------------
(* lib/core/money.ts                                                       *)

AtMost(a, b)  == IF a <= b THEN a ELSE b
AtLeast(a, b) == IF a >= b THEN a ELSE b

\* Math.round of n / d.
Rounded(n, d)     == (n + d \div 2) \div d
RoundShilling(c)  == ((c + 50) \div 100) * 100
CeilShilling(c)   == -((-c) \div 100) * 100
IsWholeShilling(c) == c % 100 = 0

VatFromInclusive(gross, rate) == Rounded(gross * rate, 10000 + rate)
VatOnExclusive(net, rate)     == Rounded(net * rate, 10000)

\* Mutant: the charge is rounded to the cent only.
DeliveryChargeInCents(cost, s) == Rounded(cost * (10000 + s.markup), 10000)
DeliveryCharge(cost, s) == CeilShilling(Rounded(cost * (10000 + s.markup), 10000))

DepositFor(total, s) ==
    LET raw == IF s.rule = "percent" THEN RoundShilling(Rounded(total * s.deposit, 10000))
                                     ELSE s.deposit
    IN  IF total <= 0 \/ total < s.min THEN 0 ELSE AtMost(AtLeast(raw, 0), total)

\* Mutant: the rounding is not written down.
ComputeTotalsUnbalanced(vatable, rest, s) ==
    LET rate  == IF s.registered THEN s.rate ELSE 0
        vat   == IF s.inclusive THEN VatFromInclusive(vatable, rate)
                                ELSE VatOnExclusive(vatable, rate)
        gross == vatable + rest + (IF s.inclusive THEN 0 ELSE vat)
    IN  [sub |-> gross - vat, vat |-> vat, rounding |-> 0, total |-> RoundShilling(gross)]
\* VAT once over the whole vatable base.
ComputeTotals(vatable, rest, s) ==
    LET rate  == IF s.registered THEN s.rate ELSE 0
        vat   == IF s.inclusive THEN VatFromInclusive(vatable, rate)
                                ELSE VatOnExclusive(vatable, rate)
        gross == vatable + rest + (IF s.inclusive THEN 0 ELSE vat)
    IN  [sub |-> gross - vat, vat |-> vat,
         rounding |-> RoundShilling(gross) - gross, total |-> RoundShilling(gross)]

---------------------------------------------------------------------------
(* The invoice                                                             *)

AllPaid == paid["pickup_fee"] + paid["deposit"] + paid["final_balance"]

Accepted(k)  == quotes[k].status = "accepted"
AgreedTotal(k) == IF Accepted(k) THEN quotes[k].total ELSE 0
LineSum(k) == IF Accepted(k) THEN quotes[k].price + quotes[k].discount ELSE 0
\* Mutant: only the main quote's total is compared with its lines.
AdjustmentOfMain == AgreedTotal("main") - LineSum("main")
\* What the accepted totals differ from their lines.
Adjustment == AgreedTotal("main") - LineSum("main")
              + AgreedTotal("supplementary") - LineSum("supplementary")

\* computeJobInvoice and composeInvoice for a repaired job, with its return leg.
Composed(back) ==
    LET repair   == LineSum("main") + LineSum("supplementary") + Adjustment
        credit   == IF shop.credited THEN AtMost(fees.consult, AtLeast(repair, 0)) ELSE 0
        handling == (legs.pickup.charged - legs.pickup.cost) + (back.charged - back.cost)
        t == ComputeTotals(fees.consult + repair + handling - credit,
                           legs.pickup.cost + back.cost, shop)
    IN  [status |-> "proforma", sub |-> t.sub, vat |-> t.vat, rounding |-> t.rounding,
         total |-> t.total, paid |-> AllPaid, balance |-> t.total - AllPaid,
         inclusive |-> shop.inclusive, credited |-> shop.credited]

---------------------------------------------------------------------------
Leg     == [cost : Costs \cup {0}, charged : Nat]
Quote   == [status : {"none", "sent", "negotiating", "accepted", "declined"}, price : Nat,
            discount : Int, total : Nat, deposit : Nat, offers : SUBSET Offers]
Invoice == [status : {"none", "proforma", "issued"}, sub : Int, vat : Int, rounding : Int,
            total : Int, paid : Nat, balance : Int, inclusive : BOOLEAN, credited : BOOLEAN]

TypeOK ==
    /\ shop \in Shops /\ status \in Status
    /\ fees \in [consult : Nat, pickup : Nat]
    /\ quotes \in [QuoteKind -> Quote]
    /\ legs \in [pickup : Leg, return : Leg]
    /\ prompts \in SUBSET [purpose : Purpose, amount : Nat \ {0}]
    /\ paid \in [Purpose -> Nat]
    /\ invoice \in Invoice /\ dropoff \in Invoice
    /\ desk \in [Admins -> Nat] /\ refunded \in Nat

Init ==
    /\ shop \in Shops /\ status = "draft"
    /\ fees = [consult |-> 0, pickup |-> 0]
    /\ quotes = [k \in QuoteKind |-> NoQuote]
    /\ legs = [pickup |-> NoLeg, return |-> NoLeg]
    /\ prompts = {} /\ paid = [p \in Purpose |-> 0]
    /\ invoice = NoInvoice /\ dropoff = NoInvoice
    /\ refunded = 0 /\ desk = [a \in Admins |-> 0]
    /\ versions = 0 /\ choices = 0 /\ saves = 0 /\ refunds = 0

---------------------------------------------------------------------------
(* Settings, booking and intake                                            *)

\* An admin saves the fees section, whatever jobs are under way.
SaveFees(s) ==
    /\ saves < MaxSaves /\ s # shop
    /\ shop' = s /\ saves' = saves + 1
    /\ UNCHANGED <<status, fees, quotes, legs, payVars, billVars, deskVars, versions, choices>>

QuotedLeg(cost) == [cost |-> cost, charged |-> DeliveryCharge(cost, shop)]

\* setPickup: the pickup fee is the delivery charge and the consultation fee.
BookPickup(cost) ==
    /\ status = "draft"
    /\ status' = "pickup_fee_pending"
    /\ legs' = [legs EXCEPT !.pickup = QuotedLeg(cost)]
    /\ fees' = [consult |-> shop.fee, pickup |-> shop.fee + legs'.pickup.charged]
    /\ UNCHANGED <<shop, quotes, payVars, billVars, deskVars, countVars>>

\* createWalkIn: the consultation fee alone.
BookWalkIn ==
    /\ status = "draft"
    /\ status' = "received_at_shop"
    /\ fees' = [consult |-> shop.fee, pickup |-> shop.fee]
    /\ UNCHANGED <<shop, quotes, legs, payVars, billVars, deskVars, countVars>>

\* The ride failed and another is booked: the leg is quoted again, the fee paid stays.
RebookPickup(cost) ==
    /\ status = "pickup_requested"
    /\ legs' = [legs EXCEPT !.pickup = QuotedLeg(cost)]
    /\ UNCHANGED <<shop, status, fees, quotes, payVars, billVars, deskVars, countVars>>

\* Collected, received and checked in; a walk-in's fee is paid first.
Diagnose ==
    /\ \/ status = "pickup_requested"
       \/ status = "received_at_shop" /\ paid["pickup_fee"] >= fees.pickup
    /\ status' = "diagnosing"
    /\ UNCHANGED <<shop, fees, quotes, legs, payVars, billVars, deskVars, countVars>>

---------------------------------------------------------------------------
(* Quotes                                                                  *)

Open(k) == quotes[k].status \in {"sent", "negotiating"}

CanSend(k) ==
    IF k = "main" THEN status \in {"diagnosing", "quote_sent", "quote_negotiating"}
                  ELSE status = "in_repair" /\ ~Open(k) /\ ~Accepted(k)

\* sendQuoteVersion; the thread of offers goes on from version to version.
\* Bound: at most one supplementary quote is accepted.
SendQuote(k, price) ==
    /\ CanSend(k) /\ versions < MaxVersions
    /\ LET total == ComputeTotals(price, 0, shop).total IN
       quotes' = [quotes EXCEPT ![k] =
           [@ EXCEPT !.status = "sent", !.price = price, !.discount = 0, !.total = total,
                     !.deposit = IF k = "main" THEN DepositFor(total, shop) ELSE 0]]
    /\ status' = IF k = "main" THEN "quote_sent" ELSE status
    /\ versions' = versions + 1
    /\ UNCHANGED <<shop, fees, legs, payVars, billVars, deskVars, choices, saves>>

CustomerCounter(k, offer) ==
    /\ Open(k) /\ versions < MaxVersions
    /\ quotes' = [quotes EXCEPT ![k].status = "negotiating", ![k].offers = @ \cup {offer}]
    /\ status' = IF k = "main" THEN "quote_negotiating" ELSE status
    /\ versions' = versions + 1
    /\ UNCHANGED <<shop, fees, legs, payVars, billVars, deskVars, choices, saves>>

CustomerAccept(k) ==
    /\ Open(k)
    /\ quotes' = [quotes EXCEPT ![k].status = "accepted"]
    /\ status' = IF k = "main" THEN "deposit_pending" ELSE status
    /\ UNCHANGED <<shop, fees, legs, payVars, billVars, deskVars, countVars>>

\* The agreed total is a version of its own, with a line for the difference.
ShopAcceptCounter(k, offer) ==
    /\ quotes[k].status = "negotiating" /\ offer \in quotes[k].offers
    /\ quotes' = [quotes EXCEPT ![k] =
           [@ EXCEPT !.status = "accepted", !.discount = offer - quotes[k].total, !.total = offer,
                     !.deposit = IF k = "main" THEN DepositFor(offer, shop) ELSE 0]]
    /\ status' = IF k = "main" THEN "deposit_pending" ELSE status
    /\ UNCHANGED <<shop, fees, legs, payVars, billVars, deskVars, countVars>>

\* The repair goes on in the agreed scope.
DeclineSupplementary ==
    /\ Open("supplementary")
    /\ quotes' = [quotes EXCEPT !["supplementary"] = [NoQuote EXCEPT !.status = "declined"]]
    /\ UNCHANGED <<shop, status, fees, legs, payVars, billVars, deskVars, countVars>>

SkipZeroDeposit ==
    /\ status = "deposit_pending" /\ quotes["main"].deposit = 0
    /\ status' = "in_repair"
    /\ UNCHANGED <<shop, fees, quotes, legs, payVars, billVars, deskVars, countVars>>

CompleteRepair ==
    /\ status = "in_repair" /\ ~Open("supplementary")
    /\ status' = "repair_complete"
    /\ UNCHANGED <<shop, fees, quotes, legs, payVars, billVars, deskVars, countVars>>

---------------------------------------------------------------------------
(* Payments                                                                *)

AmountDue(p) ==
    CASE p = "pickup_fee" /\ status = "pickup_fee_pending" -> fees.pickup
      [] p = "pickup_fee" /\ status = "received_at_shop" ->
            AtLeast(fees.pickup - paid["pickup_fee"], 0)
      [] p = "deposit" /\ status = "deposit_pending" -> quotes["main"].deposit
      [] p = "final_balance" /\ status = "final_payment_pending" -> invoice.balance
      [] OTHER -> 0

\* One prompt for a purpose at a time; StkPayment shows how there may be two.
SendPrompt(p) ==
    /\ AmountDue(p) > 0 /\ IsWholeShilling(AmountDue(p))
    /\ \A q \in prompts : q.purpose # p
    /\ prompts' = prompts \cup {[purpose |-> p, amount |-> AmountDue(p)]}
    /\ UNCHANGED <<jobVars, paid, billVars, deskVars, countVars>>

Unanswered(q) ==
    /\ prompts' = prompts \ {q}
    /\ UNCHANGED <<jobVars, paid, billVars, deskVars, countVars>>

\* Mutant: the balance is issued on any payment of it.
SettlesAnyway(p, sum) == p = "final_balance" /\ status = "final_payment_pending"
Settles(p, sum) ==
    p = "final_balance" /\ status = "final_payment_pending" /\ sum >= invoice.total

\* confirm_payment.  A payment that moves the job waits for the row that a choice
\* of drop-off holds; the deadlock the two may fall into is left out.
Confirm(q) ==
    LET p == q.purpose
        sum == AllPaid + q.amount
        kept == IF invoice.status = "none" THEN invoice
                ELSE [invoice EXCEPT !.paid = sum, !.balance = invoice.total - sum]
    IN  /\ Settles(p, sum) => dropoff = NoInvoice
        /\ prompts' = prompts \ {q}
        /\ paid' = [paid EXCEPT ![p] = @ + q.amount]
        /\ invoice' = IF Settles(p, sum) THEN [kept EXCEPT !.status = "issued"] ELSE kept
        /\ status' = CASE p = "pickup_fee" /\ status = "pickup_fee_pending" -> "pickup_requested"
                       [] p = "deposit" /\ status = "deposit_pending" -> "in_repair"
                       [] Settles(p, sum) -> "dispatch_pending"
                       [] OTHER -> status
        /\ UNCHANGED <<shop, fees, quotes, legs, dropoff, deskVars, countVars>>

---------------------------------------------------------------------------
(* Drop-off and the proforma                                               *)

\* chooseDropoff up to upsertProforma's sums: back is the new return leg.
ChooseDropoff(back) ==
    /\ status \in {"repair_complete", "final_payment_pending"}
    /\ dropoff = NoInvoice /\ choices < MaxChoices
    /\ legs' = [legs EXCEPT !.return = back]
    /\ dropoff' = Composed(back)
    /\ choices' = choices + 1
    /\ UNCHANGED <<shop, status, fees, quotes, payVars, invoice, deskVars, versions, saves>>

\* ... and the transaction of its own that voids the old proforma for the new one.
StoreProforma ==
    /\ dropoff # NoInvoice
    /\ invoice' = dropoff /\ dropoff' = NoInvoice
    /\ status' = "final_payment_pending"
    /\ UNCHANGED <<shop, fees, quotes, legs, payVars, deskVars, countVars>>

SettleZeroBalance ==
    /\ status = "final_payment_pending" /\ dropoff = NoInvoice
    /\ invoice.status = "proforma" /\ invoice.balance <= 0 /\ AllPaid >= invoice.total
    /\ invoice' = [invoice EXCEPT !.status = "issued"]
    /\ status' = "dispatch_pending"
    /\ UNCHANGED <<shop, fees, quotes, legs, payVars, dropoff, deskVars, countVars>>

---------------------------------------------------------------------------
(* Refunds                                                                 *)

\* recordRefundAction reads what is paid and refunded without a lock: all of the rest.
ReadRefund(a) ==
    /\ desk[a] = 0 /\ refunds < MaxRefunds /\ AllPaid > refunded
    /\ desk' = [desk EXCEPT ![a] = AllPaid - refunded]
    /\ refunds' = refunds + 1
    /\ UNCHANGED <<jobVars, payVars, billVars, refunded, countVars>>

RecordRefund(a) ==
    /\ desk[a] > 0
    /\ refunded' = refunded + desk[a]
    /\ desk' = [desk EXCEPT ![a] = 0]
    /\ UNCHANGED <<jobVars, payVars, billVars, refunds, countVars>>

---------------------------------------------------------------------------
Next ==
    \/ \E s \in Shops : SaveFees(s)
    \/ \E c \in Costs : BookPickup(c)
    \/ BookWalkIn
    \/ \E c \in Costs : RebookPickup(c)
    \/ Diagnose
    \/ \E k \in QuoteKind, c \in Prices : SendQuote(k, c)
    \/ \E k \in QuoteKind, c \in Offers : CustomerCounter(k, c)
    \/ \E k \in QuoteKind : CustomerAccept(k)
    \/ \E k \in QuoteKind, c \in Offers : ShopAcceptCounter(k, c)
    \/ DeclineSupplementary
    \/ SkipZeroDeposit
    \/ CompleteRepair
    \/ \E p \in Purpose : SendPrompt(p)
    \/ \E q \in prompts : Unanswered(q)
    \/ \E q \in prompts : Confirm(q)
    \/ \E c \in Costs : ChooseDropoff(QuotedLeg(c))
    \/ ChooseDropoff(NoLeg)
    \/ StoreProforma
    \/ SettleZeroBalance
    \/ \E a \in Admins : ReadRefund(a)
    \/ \E a \in Admins : RecordRefund(a)

Spec == Init /\ [][Next]_vars

---------------------------------------------------------------------------
(* Properties                                                              *)

\* An invoice's net sum, VAT and rounding make its total, the rounding is half a
\* shilling at most, and its balance is its total less the payments on it
\* (money.ts:87-102,169), through counter-offers, new drop-offs, late payments
\* and changes of the settings.
InvoiceAddsUp ==
    invoice.status # "none" =>
        /\ invoice.sub + invoice.vat + invoice.rounding = invoice.total
        /\ invoice.rounding \in -50 .. 50
        /\ invoice.balance = invoice.total - invoice.paid

\* No amount that falls due has odd cents: initiateStkPayment and recordCashPayment
\* refuse one (payments.ts:81,137), and the job would wait for it for ever.
DuesAreWhole == \A p \in Purpose : IsWholeShilling(AmountDue(p))

Agreed == AgreedTotal("main") + AgreedTotal("supplementary")
Credit == IF invoice.credited THEN AtMost(fees.consult, Agreed) ELSE 0

\* What the customer is shown as it falls due: the pickup fee, consultation
\* included, when booking; the return leg when choosing the drop-off; the repair.
Shown == fees.pickup + legs.return.charged + Agreed

\* What a pickup that was booked again costs above the fee the customer paid:
\* quoteLeg prices it anew and jobs.pickup_fee_cents stays (logistics.ts:81-83).
Requoted == legs.pickup.charged - (fees.pickup - fees.consult)

\* In a shop whose prices include VAT the invoice asks, to the cent, for what the
\* customer was shown and agreed to, less the consultation credit, and for what a
\* pickup booked again has cost besides (invoices.ts:8-42): nothing else gets into
\* it, whatever was negotiated and however the settings changed meanwhile.
AgreedIsInvoiced ==
    invoice.status # "none" /\ dropoff = NoInvoice /\ invoice.inclusive =>
        invoice.total = (Shown + Requoted) - Credit

\* A numbered tax invoice is covered by confirmed payments (0024_walk_ins.sql:229),
\* though the balance that let it be issued may be older than they are.
IssuedIsCovered == invoice.status = "issued" => AllPaid >= invoice.total

(***************************************************************************)
(* What the documents say and the code does not keep                       *)
(***************************************************************************)
\* terms/page.tsx:94: the delivery fee "is shown before you pay".  A dearer ride
\* booked again after the pickup fee was paid comes up on the proforma only.
ShownIsInvoiced ==
    invoice.status # "none" /\ dropoff = NoInvoice /\ invoice.inclusive =>
        invoice.total <= Shown - Credit

\* DECISIONS.md:37: "VAT computed once per invoice".  At most the consultation fee
\* and the handling have VAT added on top of what the customer agreed to.
VatOnce ==
    invoice.status # "none" /\ dropoff = NoInvoice =>
        invoice.total <= Shown + Requoted
            + VatOnExclusive(fees.consult + legs.pickup.charged + legs.return.charged, shop.rate)
            + 50

\* 0024_walk_ins.sql:218: "Keep the invoice's paid/balance current whenever one exists."
BalanceIsCurrent == invoice.status # "none" => invoice.balance = invoice.total - AllPaid

\* admin/actions.ts:539: "Refund is more than the customer has paid for this job."
RefundsWithinPaid == refunded <= AllPaid

=============================================================================
