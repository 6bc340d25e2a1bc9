--------------------------- MODULE BillingProofs ---------------------------
(***************************************************************************)
(* Proofs about Billing for any shops, prices, costs and bounds.           *)
(***************************************************************************)
EXTENDS Billing, TLAPS

(***************************************************************************)
(* The arithmetic of lib/core/money.ts                                     *)
(***************************************************************************)
\* Rounding half up keeps natural numbers natural.
LEMMA RoundedNat == ASSUME NEW n \in Nat, NEW d \in Nat \ {0} PROVE Rounded(n, d) \in Nat
  BY DEF Rounded

\* The same of integers, for the VAT of a negative adjustment.
LEMMA RoundedInt == ASSUME NEW n \in Int, NEW d \in Nat \ {0} PROVE Rounded(n, d) \in Int
  BY DEF Rounded

\* Rounding to the shilling gives whole shillings, at most half a shilling off,
\* and changes no amount that is whole already.
LEMMA RoundShillingFacts ==
    ASSUME NEW c \in Int
    PROVE  /\ RoundShilling(c) \in Int /\ IsWholeShilling(RoundShilling(c))
           /\ RoundShilling(c) - c \in -50 .. 50
           /\ c \in Nat => RoundShilling(c) \in Nat
           /\ IsWholeShilling(c) => RoundShilling(c) = c
  BY DEF RoundShilling, IsWholeShilling

\* Rounding up gives whole shillings.
LEMMA CeilShillingFacts ==
    ASSUME NEW c \in Nat
    PROVE  CeilShilling(c) \in Nat /\ IsWholeShilling(CeilShilling(c))
  BY DEF CeilShilling, IsWholeShilling

\* Sums and differences of whole shillings are whole.
LEMMA WholeSums ==
    ASSUME NEW a \in Int, NEW b \in Int, IsWholeShilling(a), IsWholeShilling(b)
    PROVE  IsWholeShilling(a + b) /\ IsWholeShilling(a - b)
  BY DEF IsWholeShilling

\* The same of natural numbers.
LEMMA WholeNatSum ==
    ASSUME NEW a \in Nat, NEW b \in Nat, IsWholeShilling(a), IsWholeShilling(b)
    PROVE  a + b \in Nat /\ IsWholeShilling(a + b)
  BY DEF IsWholeShilling

\* Nothing is a whole number of shillings.
LEMMA WholeZero == IsWholeShilling(0)
  BY DEF IsWholeShilling

\* Products, stated once for the solver: a rate of an amount is natural.
LEMMA ProductNat == ASSUME NEW a \in Nat, NEW b \in Nat PROVE a * b \in Nat
  OBVIOUS

\* The same of integers.
LEMMA ProductInt == ASSUME NEW a \in Int, NEW b \in Nat PROVE a * b \in Int
  OBVIOUS

\* A shop's settings are of their kinds.
LEMMA ShopFacts ==
    ASSUME NEW s \in Shops
    PROVE  /\ s.rate \in Nat /\ s.deposit \in Nat /\ s.min \in Nat /\ s.markup \in Nat
           /\ s.fee \in Nat /\ IsWholeShilling(s.fee)
           /\ s.registered \in BOOLEAN /\ s.inclusive \in BOOLEAN /\ s.credited \in BOOLEAN
           /\ s.rule \in {"percent", "fixed"}
           /\ s.rule = "fixed" => IsWholeShilling(s.deposit)
  BY SettingsAssumption, TypedAssumption DEF IsWholeShilling

\* VAT within a price or on top of it is an amount.
LEMMA VatInt ==
    ASSUME NEW v \in Int, NEW rate \in Nat
    PROVE  VatFromInclusive(v, rate) \in Int /\ VatOnExclusive(v, rate) \in Int
           /\ (v \in Nat => VatOnExclusive(v, rate) \in Nat)
  <1>1. v * rate \in Int /\ (v \in Nat => v * rate \in Nat)
    BY ProductInt, ProductNat
  <1>2. QED
    BY <1>1, RoundedInt, RoundedNat DEF VatFromInclusive, VatOnExclusive

\* Totals are whole shillings, and net sum, VAT and rounding make them up.
LEMMA TotalsAddUp ==
    ASSUME NEW v \in Int, NEW r \in Int, NEW s \in Shops,
           NEW t, t = ComputeTotals(v, r, s)
    PROVE  /\ t.sub \in Int /\ t.vat \in Int /\ t.rounding \in -50 .. 50 /\ t.total \in Int
           /\ t.sub + t.vat + t.rounding = t.total
           /\ IsWholeShilling(t.total)
           /\ s.inclusive /\ IsWholeShilling(v + r) => t.total = v + r
           /\ v \in Nat /\ r = 0 => t.total \in Nat
  <1> DEFINE rate  == IF s.registered THEN s.rate ELSE 0
             vat   == IF s.inclusive THEN VatFromInclusive(v, rate) ELSE VatOnExclusive(v, rate)
             gross == v + r + (IF s.inclusive THEN 0 ELSE vat)
  <1>1. rate \in Nat
    BY ShopFacts
  <1>2. vat \in Int /\ (~s.inclusive /\ v \in Nat => vat \in Nat)
    BY <1>1, VatInt
  <1> HIDE DEF rate, vat
  <1>3. gross \in Int /\ (v \in Nat /\ r = 0 => gross \in Nat) /\ (s.inclusive => gross = v + r)
    BY <1>2
  <1>4. /\ t.sub = gross - vat /\ t.vat = vat /\ t.total = RoundShilling(gross)
        /\ t.rounding = RoundShilling(gross) - gross
    BY DEF ComputeTotals, rate, vat
  <1> HIDE DEF gross
  <1>5. QED
    BY <1>2, <1>3, <1>4, RoundShillingFacts

\* A deposit is a whole number of shillings when the total is.
LEMMA DepositWhole ==
    ASSUME NEW c \in Nat, IsWholeShilling(c), NEW s \in Shops
    PROVE  DepositFor(c, s) \in Nat /\ IsWholeShilling(DepositFor(c, s))
  <1> DEFINE raw == IF s.rule = "percent" THEN RoundShilling(Rounded(c * s.deposit, 10000))
                                          ELSE s.deposit
  <1>1. raw \in Nat /\ IsWholeShilling(raw)
    <2>1. c * s.deposit \in Nat
      BY ShopFacts, ProductNat
    <2>2. Rounded(c * s.deposit, 10000) \in Nat
      BY <2>1, RoundedNat
    <2>3. QED
      BY <2>2, ShopFacts, RoundShillingFacts
  <1> HIDE DEF raw
  <1>2. DepositFor(c, s) \in {0, raw, c}
    BY <1>1 DEF DepositFor, raw, AtMost, AtLeast
  <1>3. QED
    BY <1>1, <1>2, WholeZero

\* What a delivery is charged at is whole shillings, whatever the courier's cost.
LEMMA ChargeWhole ==
    ASSUME NEW cost \in Costs, NEW s \in Shops
    PROVE  DeliveryCharge(cost, s) \in Nat /\ IsWholeShilling(DeliveryCharge(cost, s))
  <1>1. cost * (10000 + s.markup) \in Nat
    BY ShopFacts, CostsAssumption, ProductNat
  <1>2. QED
    BY <1>1, RoundedNat, CeilShillingFacts DEF DeliveryCharge

(***************************************************************************)
(* The inductive invariant                                                 *)
(***************************************************************************)
\* Every amount that is charged, asked for or paid is whole shillings.
WholeAmounts ==
    /\ IsWholeShilling(fees.consult) /\ IsWholeShilling(fees.pickup)
    /\ \A k \in QuoteKind : IsWholeShilling(quotes[k].total) /\ IsWholeShilling(quotes[k].deposit)
    /\ IsWholeShilling(legs.pickup.charged) /\ IsWholeShilling(legs.return.charged)
    /\ \A q \in prompts : IsWholeShilling(q.amount)
    /\ \A p \in Purpose : IsWholeShilling(paid[p])
    /\ IsWholeShilling(invoice.total) /\ IsWholeShilling(invoice.balance)
    /\ IsWholeShilling(dropoff.total) /\ IsWholeShilling(dropoff.balance)

\* Nothing is negotiated once the repair is complete.
QuotesSettle ==
    /\ Open("main") => status \in {"quote_sent", "quote_negotiating"}
    /\ Open("supplementary") => status = "in_repair"

\* Bills are written from the completed repair on, and a proforma that is still
\* to be stored holds the job where it is.
BillsFollow ==
    /\ invoice.status # "none" => status \in {"final_payment_pending", "dispatch_pending"}
    /\ status = "final_payment_pending" => invoice.status # "none"
    /\ dropoff # NoInvoice => status \in {"repair_complete", "final_payment_pending"}
    /\ dropoff.status \in {"none", "proforma"}
    /\ dropoff.status = "none" => dropoff = NoInvoice

AddsUp(inv) ==
    inv.status # "none" =>
        /\ inv.sub + inv.vat + inv.rounding = inv.total
        /\ inv.rounding \in -50 .. 50
        /\ inv.balance = inv.total - inv.paid

\* Consultation, both legs as they are charged, and what was agreed.
Asked == fees.consult + legs.pickup.charged + legs.return.charged
         + AgreedTotal("main") + AgreedTotal("supplementary")

\* What AgreedIsInvoiced says of the invoice, of any bill.
AsAgreed(inv) ==
    inv.status # "none" /\ inv.inclusive =>
        inv.total = Asked - (IF inv.credited
                             THEN AtMost(fees.consult, AgreedTotal("main")
                                                       + AgreedTotal("supplementary"))
                             ELSE 0)

IInv ==
    /\ TypeOK /\ WholeAmounts /\ QuotesSettle /\ BillsFollow
    /\ AddsUp(invoice) /\ AddsUp(dropoff)
    /\ AsAgreed(dropoff) /\ (dropoff = NoInvoice => AsAgreed(invoice))
    /\ IssuedIsCovered

(***************************************************************************)
(* Its preservation                                                        *)
(***************************************************************************)
\* The initial state satisfies the invariant.
LEMMA InitInv == Init => IInv
  <1> SUFFICES ASSUME Init PROVE IInv
    OBVIOUS
  <1>1. NoInvoice \in Invoice /\ NoLeg \in Leg /\ NoQuote \in Quote
    BY DEF NoInvoice, Invoice, NoLeg, Leg, NoQuote, Quote
  <1>2. TypeOK
    BY <1>1 DEF Init, TypeOK, Status
  <1>3. WholeAmounts
    BY WholeZero DEF Init, WholeAmounts, NoInvoice, NoLeg, NoQuote
  <1>4. QED
    BY <1>2, <1>3 DEF Init, IInv, QuotesSettle, BillsFollow, AddsUp, AsAgreed, IssuedIsCovered,
       Open, NoQuote, NoInvoice, QuoteKind

\* What is asked for in all stays the same while fees, legs and quotes do.
LEMMA SameAsked ==
    ASSUME UNCHANGED <<fees, legs, quotes>>
    PROVE  /\ Asked' = Asked
           /\ \A k \in QuoteKind : AgreedTotal(k)' = AgreedTotal(k)
           /\ \A k \in QuoteKind : Open(k)' = Open(k)
  BY DEF Asked, AgreedTotal, Accepted, Open

\* The payments sum to whole shillings.
LEMMA PaidFacts ==
    ASSUME TypeOK, WholeAmounts
    PROVE  AllPaid \in Nat /\ IsWholeShilling(AllPaid)
  <1>1. \A p \in Purpose : paid[p] \in Nat /\ IsWholeShilling(paid[p])
    BY DEF TypeOK, WholeAmounts
  <1>2. /\ paid["pickup_fee"] \in Nat /\ IsWholeShilling(paid["pickup_fee"])
        /\ paid["deposit"] \in Nat /\ IsWholeShilling(paid["deposit"])
        /\ paid["final_balance"] \in Nat /\ IsWholeShilling(paid["final_balance"])
    BY <1>1 DEF Purpose
  <1>3. /\ paid["pickup_fee"] + paid["deposit"] \in Nat
        /\ IsWholeShilling(paid["pickup_fee"] + paid["deposit"])
    BY <1>2, WholeNatSum
  <1>4. QED
    BY <1>2, <1>3, WholeNatSum DEF AllPaid

\* A confirmed payment adds its amount to the sum.
LEMMA PaidGrows ==
    ASSUME TypeOK, NEW p \in Purpose, NEW a \in Nat, paid' = [paid EXCEPT ![p] = @ + a]
    PROVE  AllPaid' = AllPaid + a /\ paid' \in [Purpose -> Nat]
  <1>1. \A r \in Purpose : paid[r] \in Nat
    BY DEF TypeOK
  <1>2. DOMAIN paid = Purpose
    BY DEF TypeOK
  <1>3. CASE p = "pickup_fee"
    BY <1>1, <1>2, <1>3 DEF AllPaid, Purpose, TypeOK
  <1>4. CASE p = "deposit"
    BY <1>1, <1>2, <1>4 DEF AllPaid, Purpose, TypeOK
  <1>5. CASE p = "final_balance"
    BY <1>1, <1>2, <1>5 DEF AllPaid, Purpose, TypeOK
  <1>6. QED
    BY <1>3, <1>4, <1>5 DEF Purpose

\* The parts of the invariant that are about the bills.
BillsHold ==
    /\ BillsFollow /\ AddsUp(invoice) /\ AddsUp(dropoff)
    /\ AsAgreed(dropoff) /\ (dropoff = NoInvoice => AsAgreed(invoice))
    /\ IssuedIsCovered

\* Before the repair is complete there is no bill to keep.
LEMMA NoBillYet ==
    ASSUME IInv, status \notin {"repair_complete", "final_payment_pending", "dispatch_pending"}
    PROVE  invoice.status = "none" /\ dropoff = NoInvoice
  BY DEF IInv, BillsFollow

\* Without a bill nothing about bills can be broken.
LEMMA NoBillStep ==
    ASSUME invoice.status = "none", dropoff = NoInvoice, UNCHANGED <<invoice, dropoff>>,
           status' # "final_payment_pending"
    PROVE  BillsHold'
  BY DEF BillsHold, BillsFollow, AddsUp, AsAgreed, IssuedIsCovered, NoInvoice

\* Bills stay right while what they are written from and what is paid stays.
LEMMA SameBills ==
    ASSUME IInv, UNCHANGED <<fees, legs, quotes, invoice, dropoff, paid, status>>
    PROVE  BillsHold' /\ QuotesSettle'
  <1>1. AllPaid' = AllPaid
    BY DEF AllPaid
  <1>2. BillsHold'
    BY <1>1, SameAsked DEF IInv, BillsHold, BillsFollow, AddsUp, AsAgreed, IssuedIsCovered, QuoteKind
  <1>3. QED
    BY <1>2, SameAsked DEF IInv, QuotesSettle, QuoteKind

\* The settings change, and nothing that was computed with them.
LEMMA SaveFeesInv == ASSUME IInv, NEW s \in Shops, SaveFees(s) PROVE IInv'
  <1>1. TypeOK' /\ WholeAmounts'
    BY DEF IInv, SaveFees, TypeOK, WholeAmounts, payVars, billVars, deskVars
  <1>2. QED
    BY <1>1, SameBills DEF IInv, BillsHold, SaveFees, payVars, billVars

\* A leg's charge is whole shillings.
LEMMA LegWhole ==
    ASSUME TypeOK, NEW c \in Costs
    PROVE  QuotedLeg(c) \in Leg /\ IsWholeShilling(QuotedLeg(c).charged)
  BY ChargeWhole DEF TypeOK, QuotedLeg, Leg

\* A booking with pickup: the fee is the shop's and the courier's, both whole.
LEMMA BookPickupInv == ASSUME IInv, NEW c \in Costs, BookPickup(c) PROVE IInv'
  <1>1. TypeOK /\ WholeAmounts /\ shop \in Shops
    BY DEF IInv, TypeOK
  <1>2. /\ legs' \in [pickup : Leg, return : Leg] /\ IsWholeShilling(legs'.pickup.charged)
        /\ legs'.return = legs.return /\ legs'.pickup.charged \in Nat
    BY <1>1, LegWhole DEF TypeOK, BookPickup, Leg
  <1>3. shop.fee + legs'.pickup.charged \in Nat /\ IsWholeShilling(shop.fee + legs'.pickup.charged)
    BY <1>1, <1>2, ShopFacts, WholeNatSum
  <1>4. TypeOK'
    BY <1>1, <1>2, <1>3, ShopFacts
       DEF TypeOK, BookPickup, Status, payVars, billVars, deskVars
  <1>5. WholeAmounts'
    BY <1>1, <1>2, <1>3, ShopFacts
       DEF WholeAmounts, BookPickup, payVars, billVars
  <1>6. BillsHold'
    BY NoBillYet, NoBillStep DEF BookPickup, billVars
  <1>7. QuotesSettle'
    BY DEF IInv, QuotesSettle, Open, BookPickup
  <1>8. QED
    BY <1>4, <1>5, <1>6, <1>7 DEF IInv, BillsHold

\* A walk-in's fee is the shop's.
LEMMA BookWalkInInv == ASSUME IInv, BookWalkIn PROVE IInv'
  <1>1. shop.fee \in Nat /\ IsWholeShilling(shop.fee)
    BY ShopFacts DEF IInv, TypeOK
  <1>2. TypeOK' /\ WholeAmounts'
    BY <1>1 DEF IInv, TypeOK, WholeAmounts, BookWalkIn, Status, payVars, billVars, deskVars
  <1>3. BillsHold'
    BY NoBillYet, NoBillStep DEF BookWalkIn, billVars
  <1>4. QuotesSettle'
    BY DEF IInv, QuotesSettle, Open, BookWalkIn
  <1>5. QED
    BY <1>2, <1>3, <1>4 DEF IInv, BillsHold

\* Another ride, before anything is billed.
LEMMA RebookPickupInv == ASSUME IInv, NEW c \in Costs, RebookPickup(c) PROVE IInv'
  <1>1. TypeOK /\ WholeAmounts
    BY DEF IInv
  <1>2. /\ legs' \in [pickup : Leg, return : Leg] /\ IsWholeShilling(legs'.pickup.charged)
        /\ legs'.return = legs.return
    BY <1>1, LegWhole DEF TypeOK, RebookPickup, Leg
  <1>3. TypeOK' /\ WholeAmounts'
    BY <1>1, <1>2 DEF TypeOK, WholeAmounts, RebookPickup, payVars, billVars, deskVars
  <1>4. BillsHold'
    BY NoBillYet, NoBillStep DEF RebookPickup, billVars
  <1>5. QuotesSettle'
    BY DEF IInv, QuotesSettle, Open, RebookPickup
  <1>6. QED
    BY <1>3, <1>4, <1>5 DEF IInv, BillsHold

\* The moves of the job before a bill exists, that change its status alone.
LEMMA MovesInv == ASSUME IInv, Diagnose \/ SkipZeroDeposit \/ CompleteRepair PROVE IInv'
  <1>1. /\ status' \in Status \ {"final_payment_pending"}
        /\ status \in {"pickup_requested", "received_at_shop",
                                              "deposit_pending", "in_repair"}
        /\ UNCHANGED <<shop, fees, quotes, legs, payVars, billVars, deskVars>>
    BY DEF Diagnose, SkipZeroDeposit, CompleteRepair, Status
  <1>2. TypeOK' /\ WholeAmounts'
    BY <1>1 DEF IInv, TypeOK, WholeAmounts, payVars, billVars, deskVars
  <1>3. BillsHold'
    BY <1>1, NoBillYet, NoBillStep DEF billVars
  <1>4. ~Open("main")
    BY <1>1 DEF IInv, QuotesSettle
  <1>5. ~Open("supplementary")
    BY DEF IInv, QuotesSettle, Diagnose, SkipZeroDeposit, CompleteRepair
  <1>6. QuotesSettle'
    BY <1>1, <1>4, <1>5 DEF QuotesSettle, Open
  <1>7. QED
    BY <1>2, <1>3, <1>6 DEF IInv, BillsHold

\* A step that writes one quote, with whole amounts, where there is no bill.
LEMMA QuoteStep ==
    ASSUME IInv, NEW k \in QuoteKind, NEW q \in Quote, quotes' = [quotes EXCEPT ![k] = q],
           IsWholeShilling(q.total), IsWholeShilling(q.deposit),
           status' \in Status, UNCHANGED <<shop, fees, legs, payVars, billVars, deskVars>>,
           status \notin {"repair_complete", "final_payment_pending", "dispatch_pending"},
           status' # "final_payment_pending", QuotesSettle'
    PROVE  IInv'
  <1>1. quotes \in [QuoteKind -> Quote]
    BY DEF IInv, TypeOK
  <1>2. TypeOK'
    BY <1>1 DEF IInv, TypeOK, payVars, billVars, deskVars
  <1>3. \A r \in QuoteKind : quotes'[r] = IF r = k THEN q ELSE quotes[r]
    BY <1>1
  <1>4. WholeAmounts'
    BY <1>3 DEF IInv, WholeAmounts, payVars, billVars
  <1>5. BillsHold'
    BY NoBillYet, NoBillStep DEF billVars
  <1>6. QED
    BY <1>2, <1>4, <1>5 DEF IInv, BillsHold
\* A total that ComputeTotals makes of a price is whole, and not negative.
LEMMA SentTotal ==
    ASSUME NEW price \in Prices, NEW s \in Shops
    PROVE  /\ ComputeTotals(price, 0, s).total \in Nat
           /\ IsWholeShilling(ComputeTotals(price, 0, s).total)
  <1>1. price \in Int /\ price \in Nat /\ 0 \in Int
    BY TypedAssumption
  <1>2. QED
    BY <1>1, TotalsAddUp

\* A quote whose status, sums and deposit are rewritten is a quote.
LEMMA Rewritten ==
    ASSUME NEW x \in Quote, NEW price \in Nat,
           NEW discount \in Int, NEW total \in Nat, NEW deposit \in Nat
    PROVE  [x EXCEPT !.status = "sent", !.price = price, !.discount = discount,
                     !.total = total, !.deposit = deposit] \in Quote
  BY DEF Quote

\* A version is sent: its total and its deposit are whole.
LEMMA SendQuoteInv ==
    ASSUME IInv, NEW k \in QuoteKind, NEW price \in Prices, SendQuote(k, price) PROVE IInv'
  <1> DEFINE total   == ComputeTotals(price, 0, shop).total
             deposit == IF k = "main" THEN DepositFor(total, shop) ELSE 0
             q == [quotes[k] EXCEPT !.status = "sent", !.price = price, !.discount = 0,
                                    !.total = total, !.deposit = deposit]
  <1>1. shop \in Shops /\ quotes[k] \in Quote /\ price \in Nat
    BY TypedAssumption DEF IInv, TypeOK
  <1>2. total \in Nat /\ IsWholeShilling(total)
    BY <1>1, SentTotal
  <1>3. quotes' = [quotes EXCEPT ![k] = q]
    BY DEF SendQuote
  <1> HIDE DEF total
  <1>4. deposit \in Nat /\ IsWholeShilling(deposit)
    BY <1>1, <1>2, DepositWhole, WholeZero
  <1> HIDE DEF deposit
  <1>5. q \in Quote /\ q.total = total /\ q.deposit = deposit /\ q.status = "sent"
    <2>1. total \in Nat /\ deposit \in Nat /\ 0 \in Int /\ price \in Nat /\ quotes[k] \in Quote
      BY <1>1, <1>2, <1>4
    <2>2. q \in Quote
      BY <2>1, Rewritten, Zenon
    <2>3. q.total = total /\ q.deposit = deposit
      BY <2>1 DEF Quote
    <2>4. q.status = "sent"
      BY <2>1 DEF Quote
    <2>5. QED
      BY <2>2, <2>3, <2>4
  <1> HIDE DEF q
  <1>6. /\ status' \in Status \ {"final_payment_pending"}
        /\ UNCHANGED <<shop, fees, legs, payVars, billVars, deskVars>>
        /\ status \notin {"repair_complete", "final_payment_pending", "dispatch_pending"}
    BY DEF SendQuote, CanSend, IInv, TypeOK, Status
  <1>7. QuotesSettle'
    <2>1. CASE k = "main"
      <3>1. status' = "quote_sent" /\ status \in {"diagnosing", "quote_sent", "quote_negotiating"}
        BY <2>1 DEF SendQuote, CanSend
      <3>2. quotes'["supplementary"] = quotes["supplementary"]
        BY <1>3, <2>1 DEF IInv, TypeOK, QuoteKind
      <3>3. QED
        BY <3>1, <3>2 DEF IInv, QuotesSettle, Open
    <2>2. CASE k = "supplementary"
      <3>1. status' = "in_repair" /\ status = "in_repair"
        BY <2>2 DEF SendQuote, CanSend
      <3>2. quotes'["main"] = quotes["main"]
        BY <1>3, <2>2 DEF IInv, TypeOK, QuoteKind
      <3>3. QED
        BY <3>1, <3>2 DEF IInv, QuotesSettle, Open
    <2>3. QED
      BY <2>1, <2>2 DEF QuoteKind
  <1>8. QED
    BY <1>2, <1>3, <1>4, <1>5, <1>6, <1>7, QuoteStep

\* An open quote means that the job is being negotiated or repaired.
LEMMA OpenMeans ==
    ASSUME IInv, NEW k \in QuoteKind, Open(k)
    PROVE  /\ status \notin {"repair_complete", "final_payment_pending", "dispatch_pending"}
           /\ k = "main" => status # "in_repair"
           /\ k = "supplementary" => status = "in_repair"
  BY DEF IInv, QuotesSettle, QuoteKind

\* A step that writes one quote that was open, and moves the job as a main quote does.
LEMMA OpenQuoteStep ==
    ASSUME IInv, NEW k \in QuoteKind, Open(k), NEW q \in Quote,
           NEW next \in Status \ {"final_payment_pending"},
           quotes' = [quotes EXCEPT ![k] = q],
           IsWholeShilling(q.total), IsWholeShilling(q.deposit),
           UNCHANGED <<shop, fees, legs, payVars, billVars, deskVars>>,
           status' = IF k = "main" THEN next ELSE status,
           k = "main" /\ q.status \in {"sent", "negotiating"}
               => next \in {"quote_sent", "quote_negotiating"}
    PROVE  IInv'
  <1>1. status' \in Status /\ status' # "final_payment_pending"
    BY OpenMeans DEF IInv, TypeOK
  <1>2. \A r \in QuoteKind : quotes'[r] = IF r = k THEN q ELSE quotes[r]
    BY DEF IInv, TypeOK
  <1>3. QuotesSettle'
    <2>1. CASE k = "main"
      <3>1. ~Open("supplementary")
        BY <2>1, OpenMeans DEF IInv, QuotesSettle
      <3>2. quotes'["main"] = q /\ quotes'["supplementary"] = quotes["supplementary"]
        BY <1>2, <2>1 DEF QuoteKind
      <3>3. QED
        BY <2>1, <3>1, <3>2 DEF QuotesSettle, Open
    <2>2. CASE k = "supplementary"
      <3>1. ~Open("main") /\ status' = "in_repair"
        BY <2>2, OpenMeans DEF IInv, QuotesSettle
      <3>2. quotes'["main"] = quotes["main"]
        BY <1>2, <2>2 DEF QuoteKind
      <3>3. QED
        BY <3>1, <3>2 DEF QuotesSettle, Open
    <2>3. QED
      BY <2>1, <2>2 DEF QuoteKind
  <1>4. QED
    BY <1>1, <1>3, OpenMeans, QuoteStep

\* The customer's offer changes no amount.
LEMMA CustomerCounterInv ==
    ASSUME IInv, NEW k \in QuoteKind, NEW offer \in Offers, CustomerCounter(k, offer) PROVE IInv'
  <1> DEFINE q == [quotes[k] EXCEPT !.status = "negotiating", !.offers = @ \cup {offer}]
  <1>1. quotes[k] \in Quote /\ quotes \in [QuoteKind -> Quote]
    BY DEF IInv, TypeOK
  <1>2. /\ q \in Quote /\ q.total = quotes[k].total /\ q.deposit = quotes[k].deposit
        /\ q.status = "negotiating"
    BY <1>1 DEF Quote
  <1>3. quotes' = [quotes EXCEPT ![k] = q]
    BY <1>1 DEF CustomerCounter, Quote
  <1> HIDE DEF q
  <1>4. IsWholeShilling(q.total) /\ IsWholeShilling(q.deposit)
    BY <1>2 DEF IInv, WholeAmounts
  <1>5. /\ Open(k) /\ status' = (IF k = "main" THEN "quote_negotiating" ELSE status)
        /\ UNCHANGED <<shop, fees, legs, payVars, billVars, deskVars>>
    BY DEF CustomerCounter
  <1>6. "quote_negotiating" \in Status \ {"final_payment_pending"}
    BY DEF Status
  <1>7. QED
    BY <1>2, <1>3, <1>4, <1>5, <1>6, OpenQuoteStep

\* Acceptance changes no amount.
LEMMA CustomerAcceptInv ==
    ASSUME IInv, NEW k \in QuoteKind, CustomerAccept(k) PROVE IInv'
  <1> DEFINE q == [quotes[k] EXCEPT !.status = "accepted"]
  <1>1. quotes[k] \in Quote /\ quotes \in [QuoteKind -> Quote]
    BY DEF IInv, TypeOK
  <1>2. /\ q \in Quote /\ q.total = quotes[k].total /\ q.deposit = quotes[k].deposit
        /\ q.status = "accepted"
    BY <1>1 DEF Quote
  <1>3. quotes' = [quotes EXCEPT ![k] = q]
    BY <1>1 DEF CustomerAccept, Quote
  <1> HIDE DEF q
  <1>4. IsWholeShilling(q.total) /\ IsWholeShilling(q.deposit)
    BY <1>2 DEF IInv, WholeAmounts
  <1>5. /\ Open(k) /\ status' = (IF k = "main" THEN "deposit_pending" ELSE status)
        /\ UNCHANGED <<shop, fees, legs, payVars, billVars, deskVars>>
    BY DEF CustomerAccept
  <1>6. "deposit_pending" \in Status \ {"final_payment_pending"}
    BY DEF Status
  <1>7. QED
    BY <1>2, <1>3, <1>4, <1>5, <1>6, OpenQuoteStep

\* The agreed offer is typed in whole shillings, and its deposit is whole too.
LEMMA ShopAcceptCounterInv ==
    ASSUME IInv, NEW k \in QuoteKind, NEW offer \in Offers, ShopAcceptCounter(k, offer) PROVE IInv'
  <1> DEFINE deposit == IF k = "main" THEN DepositFor(offer, shop) ELSE 0
             q == [quotes[k] EXCEPT !.status = "accepted",
                                    !.discount = offer - quotes[k].total, !.total = offer,
                                    !.deposit = deposit]
  <1>1. /\ quotes[k] \in Quote /\ quotes \in [QuoteKind -> Quote] /\ shop \in Shops
        /\ offer \in Nat /\ IsWholeShilling(offer)
    BY TypedAssumption DEF IInv, TypeOK, IsWholeShilling
  <1>2. quotes' = [quotes EXCEPT ![k] = q]
    BY <1>1 DEF ShopAcceptCounter
  <1>3. deposit \in Nat /\ IsWholeShilling(deposit)
    BY <1>1, DepositWhole, WholeZero
  <1> HIDE DEF deposit
  <1>4. q \in Quote /\ q.total = offer /\ q.deposit = deposit /\ q.status = "accepted"
    <2>1. /\ quotes[k].price \in Nat /\ offer - quotes[k].total \in Int
          /\ quotes[k].offers \in SUBSET Offers
      BY <1>1 DEF Quote
    <2>2. q \in Quote
      BY <1>1, <1>3, <2>1 DEF Quote
    <2>3. q.total = offer /\ q.deposit = deposit
      BY <1>1, <1>3, <2>1 DEF Quote
    <2>4. q.status = "accepted"
      BY <1>1, <1>3, <2>1 DEF Quote
    <2>5. QED
      BY <2>2, <2>3, <2>4
  <1> HIDE DEF q
  <1>5. /\ Open(k) /\ status' = (IF k = "main" THEN "deposit_pending" ELSE status)
        /\ UNCHANGED <<shop, fees, legs, payVars, billVars, deskVars>>
    BY DEF ShopAcceptCounter, Open
  <1>6. "deposit_pending" \in Status \ {"final_payment_pending"}
    BY DEF Status
  <1>7. QED
    BY <1>1, <1>2, <1>3, <1>4, <1>5, <1>6, OpenQuoteStep

\* A declined supplementary quote asks for nothing.
LEMMA DeclineSupplementaryInv == ASSUME IInv, DeclineSupplementary PROVE IInv'
  <1> DEFINE q == [NoQuote EXCEPT !.status = "declined"]
  <1>1. q \in Quote /\ q.total = 0 /\ q.deposit = 0 /\ q.status = "declined"
    BY DEF NoQuote, Quote
  <1>2. /\ quotes' = [quotes EXCEPT !["supplementary"] = q] /\ Open("supplementary")
        /\ UNCHANGED <<shop, status, fees, legs, payVars, billVars, deskVars>>
    BY DEF DeclineSupplementary
  <1> HIDE DEF q
  <1>3. "supplementary" \in QuoteKind /\ status \in Status \ {"final_payment_pending"}
    BY <1>2, OpenMeans DEF QuoteKind, IInv, TypeOK
  <1>4. QED
    BY <1>1, <1>2, <1>3, WholeZero, OpenQuoteStep

\* What is due is a number, and no odd cents of one.
LEMMA DueFacts ==
    ASSUME IInv, NEW p \in Purpose
    PROVE  AmountDue(p) \in Int /\ IsWholeShilling(AmountDue(p))
  <1>1. /\ fees.pickup \in Nat /\ IsWholeShilling(fees.pickup)
        /\ paid["pickup_fee"] \in Nat /\ IsWholeShilling(paid["pickup_fee"])
    BY DEF IInv, TypeOK, WholeAmounts, Purpose
  <1>2. /\ quotes["main"].deposit \in Int /\ IsWholeShilling(quotes["main"].deposit)
    BY DEF IInv, TypeOK, WholeAmounts, QuoteKind, Quote
  <1>3. invoice.balance \in Int /\ IsWholeShilling(invoice.balance)
    BY DEF IInv, TypeOK, WholeAmounts, Invoice
  <1>4. /\ AtLeast(fees.pickup - paid["pickup_fee"], 0) \in Int
        /\ IsWholeShilling(AtLeast(fees.pickup - paid["pickup_fee"], 0))
    BY <1>1 DEF AtLeast, IsWholeShilling
  <1>5. fees.pickup \in Int /\ 0 \in Int /\ IsWholeShilling(0)
    BY <1>1, WholeZero
  <1>6. AmountDue(p) \in {fees.pickup, AtLeast(fees.pickup - paid["pickup_fee"], 0),
                          quotes["main"].deposit, invoice.balance, 0}
    BY Zenon DEF AmountDue
  <1>7. QED
    BY <1>1, <1>2, <1>3, <1>4, <1>5, <1>6

\* A prompt is sent for a whole amount, or its answer is that nothing was paid.
LEMMA PromptsInv ==
    ASSUME IInv, (\E p \in Purpose : SendPrompt(p)) \/ (\E q \in prompts : Unanswered(q))
    PROVE  IInv'
  <1>1. UNCHANGED <<shop, status, fees, quotes, legs, paid, invoice, dropoff, refunded, desk>>
    BY DEF SendPrompt, Unanswered, jobVars, billVars, deskVars
  <1>2. /\ prompts' \in SUBSET [purpose : Purpose, amount : Nat \ {0}]
        /\ \A q \in prompts' : IsWholeShilling(q.amount)
    <2>1. CASE \E p \in Purpose : SendPrompt(p)
      <3>1. PICK p \in Purpose : SendPrompt(p)
        BY <2>1
      <3>2. AmountDue(p) \in Nat \ {0} /\ IsWholeShilling(AmountDue(p))
        BY <3>1, DueFacts DEF SendPrompt
      <3>3. prompts' = prompts \cup {[purpose |-> p, amount |-> AmountDue(p)]}
        BY <3>1 DEF SendPrompt
      <3>4. QED
        BY <3>2, <3>3 DEF IInv, TypeOK, WholeAmounts
    <2>2. CASE \E q \in prompts : Unanswered(q)
      BY <2>2 DEF IInv, TypeOK, WholeAmounts, Unanswered
    <2>3. QED
      BY <2>1, <2>2
  <1>3. TypeOK' /\ WholeAmounts'
    BY <1>1, <1>2 DEF IInv, TypeOK, WholeAmounts
  <1>4. QED
    BY <1>1, <1>3, SameBills DEF IInv, BillsHold
\* A confirmed payment: the sum, and what is left of the balance, are whole; the
\* invoice is issued only when the sum covers it.
LEMMA ConfirmInv == ASSUME IInv, NEW q \in prompts, Confirm(q) PROVE IInv'
  <1> DEFINE sum == AllPaid + q.amount
  <1>1. /\ q.purpose \in Purpose /\ q.amount \in Nat /\ IsWholeShilling(q.amount)
        /\ AllPaid \in Nat /\ IsWholeShilling(AllPaid) /\ TypeOK /\ WholeAmounts
    BY PaidFacts DEF IInv, TypeOK, WholeAmounts
  <1>2. /\ prompts' = prompts \ {q}
        /\ paid' = [paid EXCEPT ![q.purpose] = @ + q.amount]
        /\ UNCHANGED <<shop, fees, quotes, legs, dropoff, refunded, desk>>
    BY Zenon DEF Confirm, deskVars
  <1>3. sum \in Nat /\ IsWholeShilling(sum)
    BY <1>1, WholeNatSum
  <1>4. AllPaid' = sum /\ paid' \in [Purpose -> Nat]
    BY <1>1, <1>2, PaidGrows
  <1>5. \/ status' = status /\ ~Settles(q.purpose, sum)
        \/ status = "pickup_fee_pending" /\ status' = "pickup_requested"
        \/ status = "deposit_pending" /\ status' = "in_repair"
        \/ status = "final_payment_pending" /\ status' = "dispatch_pending" /\ dropoff = NoInvoice
    BY Zenon DEF Confirm, Settles
  <1> DEFINE kept == IF invoice.status = "none" THEN invoice
                     ELSE [invoice EXCEPT !.paid = sum, !.balance = invoice.total - sum]
  <1>6. invoice' = IF Settles(q.purpose, sum) THEN [kept EXCEPT !.status = "issued"] ELSE kept
    BY Zenon DEF Confirm
  <1> HIDE DEF sum
  <1>7. invoice \in Invoice /\ invoice.total \in Int /\ invoice.total - sum \in Int
    BY <1>1, <1>3 DEF TypeOK, Invoice
  <1>8. IsWholeShilling(invoice.total - sum)
    BY <1>1, <1>3, <1>7 DEF WholeAmounts, IsWholeShilling
  <1>9. kept \in Invoice
    BY <1>3, <1>7 DEF Invoice
  <1>10. /\ kept.status = invoice.status /\ kept.sub = invoice.sub /\ kept.vat = invoice.vat
         /\ kept.rounding = invoice.rounding /\ kept.total = invoice.total
         /\ kept.inclusive = invoice.inclusive /\ kept.credited = invoice.credited
    BY <1>3, <1>7 DEF Invoice
  <1>11. IF invoice.status = "none" THEN kept.paid = invoice.paid /\ kept.balance = invoice.balance
         ELSE kept.paid = sum /\ kept.balance = invoice.total - sum
    BY <1>3, <1>7 DEF Invoice
  <1> HIDE DEF kept
  <1>12. /\ invoice' \in Invoice
         /\ invoice'.status \in {invoice.status, "issued"}
         /\ invoice'.status = "issued" => Settles(q.purpose, sum) \/ invoice.status = "issued"
    BY <1>6, <1>9, <1>10 DEF Invoice
  <1>13. /\ invoice'.sub = kept.sub /\ invoice'.vat = kept.vat
         /\ invoice'.rounding = kept.rounding /\ invoice'.total = kept.total
         /\ invoice'.inclusive = kept.inclusive /\ invoice'.credited = kept.credited
         /\ invoice'.paid = kept.paid /\ invoice'.balance = kept.balance
    BY <1>6, <1>9 DEF Invoice
  <1>14. Settles(q.purpose, sum) => status = "final_payment_pending" /\ sum >= invoice.total
    BY DEF Settles
  <1>15. TypeOK'
    BY <1>1, <1>2, <1>4, <1>5, <1>12 DEF TypeOK, Status
  <1>16. WholeAmounts'
    <2>1. IsWholeShilling(invoice'.total) /\ IsWholeShilling(invoice'.balance)
      BY <1>1, <1>8, <1>10, <1>11, <1>13 DEF WholeAmounts
    <2>2. \A p \in Purpose : IsWholeShilling(paid'[p])
      <3>1. paid[q.purpose] \in Nat /\ IsWholeShilling(paid[q.purpose])
        BY <1>1 DEF TypeOK, WholeAmounts
      <3>2. IsWholeShilling(paid[q.purpose] + q.amount)
        BY <1>1, <3>1, WholeNatSum
      <3>3. \A p \in Purpose : paid'[p] = IF p = q.purpose THEN paid[p] + q.amount ELSE paid[p]
        BY <1>1, <1>2 DEF TypeOK
      <3>4. QED
        BY <1>1, <3>2, <3>3 DEF WholeAmounts
    <2>3. QED
      BY <1>1, <1>2, <2>1, <2>2 DEF WholeAmounts
  <1>17. QuotesSettle'
    BY <1>2, <1>5, SameAsked DEF IInv, QuotesSettle, QuoteKind
  <1>18. BillsFollow'
    <2>1. invoice'.status # "none" <=> invoice.status # "none"
      BY <1>6, <1>7, <1>9, <1>10, <1>12, <1>14 DEF IInv, BillsFollow
    <2>2. QED
      BY <1>2, <1>5, <2>1 DEF IInv, BillsFollow
  <1>19. AddsUp(invoice)' /\ AddsUp(dropoff)'
    <2>1. invoice'.status # "none" => invoice.status # "none"
      BY <1>12, <1>14 DEF IInv, BillsFollow
    <2>2. AddsUp(invoice)'
      BY <1>10, <1>11, <1>13, <2>1 DEF IInv, AddsUp
    <2>3. QED
      BY <1>2, <2>2 DEF IInv, AddsUp
  <1>20. AsAgreed(dropoff)' /\ (dropoff' = NoInvoice => AsAgreed(invoice)')
    <2>1. invoice'.status # "none" => invoice.status # "none"
      BY <1>12, <1>14 DEF IInv, BillsFollow
    <2>2. QED
      BY <1>2, <1>10, <1>13, <2>1, SameAsked DEF IInv, AsAgreed, QuoteKind
  <1>21. IssuedIsCovered'
    <2>1. invoice.status = "issued" => AllPaid >= invoice.total
      BY DEF IInv, IssuedIsCovered
    <2>2. AllPaid' >= AllPaid
      BY <1>1, <1>4 DEF sum
    <2>3. CASE invoice.status = "issued"
      BY <1>1, <1>3, <1>4, <1>7, <1>10, <1>13, <2>1, <2>2, <2>3 DEF IssuedIsCovered
    <2>4. CASE invoice'.status = "issued" /\ Settles(q.purpose, sum)
      BY <1>4, <1>10, <1>13, <1>14, <2>4 DEF IssuedIsCovered
    <2>5. QED
      BY <1>12, <2>3, <2>4 DEF IssuedIsCovered
  <1>22. QED
    BY <1>15, <1>16, <1>17, <1>18, <1>19, <1>20, <1>21 DEF IInv

\* What was agreed for the repair is a sum of whole shillings.
LEMMA AgreedFacts ==
    ASSUME TypeOK, WholeAmounts, NEW k \in QuoteKind
    PROVE  AgreedTotal(k) \in Nat /\ IsWholeShilling(AgreedTotal(k)) /\ LineSum(k) \in Int
  <1>1. /\ quotes[k].total \in Nat /\ IsWholeShilling(quotes[k].total)
        /\ quotes[k].price \in Nat /\ quotes[k].discount \in Int
    BY DEF TypeOK, WholeAmounts, Quote
  <1>2. QED
    BY <1>1, WholeZero DEF AgreedTotal, LineSum

\* The proforma of a return leg: a bill that adds up, in whole shillings, and asks
\* for the fees, the legs and what was agreed, less the credit, if prices include VAT.
LEMMA ComposedFacts ==
    ASSUME TypeOK, WholeAmounts, NEW back \in Leg, IsWholeShilling(back.charged)
    PROVE  LET b == Composed(back)
               agreed == AgreedTotal("main") + AgreedTotal("supplementary")
           IN  /\ b \in Invoice /\ b.status = "proforma" /\ AddsUp(b)
               /\ IsWholeShilling(b.total) /\ IsWholeShilling(b.balance)
               /\ b.inclusive =>
                    b.total = (fees.consult + legs.pickup.charged + back.charged + agreed)
                              - (IF b.credited THEN AtMost(fees.consult, agreed) ELSE 0)
  <1> DEFINE m == AgreedTotal("main")
             s == AgreedTotal("supplementary")
             repair   == LineSum("main") + LineSum("supplementary") + Adjustment
             credit   == IF shop.credited THEN AtMost(fees.consult, AtLeast(repair, 0)) ELSE 0
             handling == (legs.pickup.charged - legs.pickup.cost) + (back.charged - back.cost)
             v == fees.consult + repair + handling - credit
             r == legs.pickup.cost + back.cost
             t == ComputeTotals(v, r, shop)
             b == Composed(back)
  <1>1. /\ m \in Nat /\ IsWholeShilling(m) /\ LineSum("main") \in Int
        /\ s \in Nat /\ IsWholeShilling(s) /\ LineSum("supplementary") \in Int
    BY AgreedFacts DEF QuoteKind
  <1> HIDE DEF m, s
  <1>2. repair = m + s
    BY <1>1 DEF Adjustment, m, s
  <1>3. repair \in Nat /\ IsWholeShilling(repair)
    BY <1>1, <1>2, WholeNatSum
  <1> HIDE DEF repair
  <1>4. /\ fees.consult \in Nat /\ IsWholeShilling(fees.consult)
        /\ legs.pickup.charged \in Nat /\ IsWholeShilling(legs.pickup.charged)
        /\ legs.pickup.cost \in Int /\ back.charged \in Nat /\ back.cost \in Int
        /\ shop \in Shops
    <2>1. legs.pickup \in Leg
      BY DEF TypeOK
    <2>2. \A l \in Leg : l.cost \in Int /\ l.charged \in Nat
      <3>1. TAKE l \in Leg
      <3>2. l.cost \in Costs \cup {0} /\ l.charged \in Nat
        BY DEF Leg
      <3>3. \A c \in Costs \cup {0} : c \in Int
        BY CostsAssumption
      <3>4. QED
        BY <3>2, <3>3
    <2>3. QED
      BY <2>1, <2>2 DEF TypeOK, WholeAmounts
  <1>5. /\ credit \in Nat /\ IsWholeShilling(credit)
        /\ credit = IF shop.credited THEN AtMost(fees.consult, m + s) ELSE 0
    BY <1>2, <1>3, <1>4, WholeZero DEF AtMost, AtLeast
  <1> HIDE DEF credit
  <1>6. v \in Int /\ r \in Int /\ v + r = fees.consult + legs.pickup.charged + back.charged
                                            + repair - credit
    BY <1>3, <1>4, <1>5
  <1> HIDE DEF v, r
  <1>7. IsWholeShilling(v + r)
    <2> DEFINE a == fees.consult + legs.pickup.charged
    <2>1. a \in Nat /\ IsWholeShilling(a)
      BY <1>4, WholeNatSum
    <2> HIDE DEF a
    <2>2. a + back.charged \in Nat /\ IsWholeShilling(a + back.charged)
      BY <1>4, <2>1, WholeNatSum
    <2>3. a + back.charged + repair \in Nat /\ IsWholeShilling(a + back.charged + repair)
      BY <1>3, <2>2, WholeNatSum
    <2>4. v + r = (a + back.charged + repair) - credit
      BY <1>3, <1>4, <1>5, <1>6 DEF a
    <2>5. a + back.charged + repair \in Int /\ credit \in Int
      BY <1>5, <2>3
    <2>6. IsWholeShilling((a + back.charged + repair) - credit)
      BY <1>5, <2>3, <2>5, WholeSums, Zenon
    <2>7. QED
      BY <2>4, <2>6
  <1>8. /\ t.sub \in Int /\ t.vat \in Int /\ t.rounding \in -50 .. 50 /\ t.total \in Int
        /\ t.sub + t.vat + t.rounding = t.total
        /\ IsWholeShilling(t.total)
        /\ shop.inclusive => t.total = v + r
    BY <1>4, <1>6, <1>7, TotalsAddUp
  <1>9. b = [status |-> "proforma", sub |-> t.sub, vat |-> t.vat, rounding |-> t.rounding,
             total |-> t.total, paid |-> AllPaid, balance |-> t.total - AllPaid,
             inclusive |-> shop.inclusive, credited |-> shop.credited]
    BY DEF Composed, v, r, repair, credit
  <1> HIDE DEF t, b
  <1>10. AllPaid \in Nat /\ IsWholeShilling(AllPaid)
    BY PaidFacts
  <1>11. t.total - AllPaid \in Int /\ IsWholeShilling(t.total - AllPaid)
    <2>1. AllPaid \in Int /\ t.total \in Int
      BY <1>8, <1>10
    <2>2. IsWholeShilling(t.total - AllPaid)
      BY <1>8, <1>10, <2>1, WholeSums, Zenon
    <2>3. QED
      BY <2>1, <2>2
  <1>12. b \in Invoice
    BY <1>4, <1>8, <1>9, <1>10, <1>11, ShopFacts DEF Invoice
  <1>13. AddsUp(b)
    BY <1>8, <1>9 DEF AddsUp
  <1>14. b.inclusive =>
           b.total = (fees.consult + legs.pickup.charged + back.charged + (m + s))
                     - (IF b.credited THEN AtMost(fees.consult, m + s) ELSE 0)
    BY <1>1, <1>2, <1>4, <1>5, <1>6, <1>8, <1>9
  <1>15. QED
    BY <1>8, <1>9, <1>11, <1>12, <1>13, <1>14 DEF b, m, s

\* The choice of a return leg writes a bill of what is asked for with that leg.
LEMMA ChooseDropoffInv ==
    ASSUME IInv, NEW back \in Leg, IsWholeShilling(back.charged), ChooseDropoff(back)
    PROVE  IInv'
  <1>1. /\ TypeOK /\ WholeAmounts /\ dropoff = NoInvoice
        /\ status \in {"repair_complete", "final_payment_pending"}
        /\ legs' = [legs EXCEPT !.return = back] /\ dropoff' = Composed(back)
        /\ UNCHANGED <<shop, status, fees, quotes, prompts, paid, invoice, refunded, desk>>
    BY DEF IInv, ChooseDropoff, payVars, deskVars
  <1> DEFINE b == Composed(back)
             agreed == AgreedTotal("main") + AgreedTotal("supplementary")
  <1>2. /\ b \in Invoice /\ b.status = "proforma" /\ AddsUp(b)
        /\ IsWholeShilling(b.total) /\ IsWholeShilling(b.balance)
        /\ b.inclusive =>
             b.total = (fees.consult + legs.pickup.charged + back.charged + agreed)
                       - (IF b.credited THEN AtMost(fees.consult, agreed) ELSE 0)
    BY <1>1, ComposedFacts
  <1> HIDE DEF b
  <1>3. dropoff' = b /\ b # NoInvoice
    BY <1>1, <1>2 DEF b, NoInvoice
  <1>4. /\ legs' \in [pickup : Leg, return : Leg]
        /\ legs'.pickup = legs.pickup /\ legs'.return = back
    BY <1>1 DEF TypeOK
  <1>5. TypeOK'
    BY <1>1, <1>2, <1>3, <1>4 DEF TypeOK
  <1>6. WholeAmounts'
    BY <1>1, <1>2, <1>3, <1>4 DEF WholeAmounts
  <1>7. /\ \A k \in QuoteKind : AgreedTotal(k)' = AgreedTotal(k)
        /\ \A k \in QuoteKind : Open(k)' = Open(k)
    BY <1>1 DEF AgreedTotal, Accepted, Open
  <1>8. QuotesSettle'
    BY <1>1, <1>7 DEF IInv, QuotesSettle, QuoteKind
  <1>9. BillsFollow'
    BY <1>1, <1>2, <1>3 DEF IInv, BillsFollow
  <1>10. AddsUp(invoice)' /\ AddsUp(dropoff)'
    BY <1>1, <1>2, <1>3 DEF IInv, AddsUp
  <1>11. AsAgreed(dropoff)'
    <2>1. AgreedTotal("main")' = AgreedTotal("main")
          /\ AgreedTotal("supplementary")' = AgreedTotal("supplementary")
      BY <1>7 DEF QuoteKind
    <2>2. /\ AgreedTotal("main") \in Nat /\ AgreedTotal("supplementary") \in Nat
          /\ fees.consult \in Nat /\ legs.pickup.charged \in Nat /\ back.charged \in Nat
      BY <1>1, AgreedFacts DEF TypeOK, Leg, QuoteKind
    <2>3. Asked' = fees.consult + legs.pickup.charged + back.charged + agreed
      BY <1>1, <1>4, <2>1, <2>2 DEF Asked
    <2>4. fees'.consult = fees.consult
      BY <1>1
    <2>5. AsAgreed(dropoff)' <=>
            (dropoff'.status # "none" /\ dropoff'.inclusive =>
                dropoff'.total = Asked' - (IF dropoff'.credited
                    THEN AtMost(fees'.consult, AgreedTotal("main")' + AgreedTotal("supplementary")')
                    ELSE 0))
      BY DEF AsAgreed
    <2>6. b.inclusive => b.total = Asked' - (IF b.credited THEN AtMost(fees.consult, agreed) ELSE 0)
      BY <1>2, <2>3, <2>2
    <2>7. QED
      BY <1>3, <2>1, <2>4, <2>5, <2>6
  <1>12. IssuedIsCovered'
    BY <1>1 DEF IInv, IssuedIsCovered, AllPaid
  <1>13. QED
    BY <1>3, <1>5, <1>6, <1>8, <1>9, <1>10, <1>11, <1>12 DEF IInv

\* The stored proforma is the one that was computed.
LEMMA StoreProformaInv == ASSUME IInv, StoreProforma PROVE IInv'
  <1>1. /\ dropoff # NoInvoice /\ invoice' = dropoff /\ dropoff' = NoInvoice
        /\ status' = "final_payment_pending"
        /\ UNCHANGED <<shop, fees, quotes, legs, prompts, paid, refunded, desk>>
    BY DEF StoreProforma, payVars, deskVars
  <1>2. dropoff.status = "proforma" /\ status \in {"repair_complete", "final_payment_pending"}
    BY <1>1 DEF IInv, BillsFollow
  <1>3. NoInvoice \in Invoice /\ NoInvoice.status = "none"
        /\ NoInvoice.total = 0 /\ NoInvoice.balance = 0
    BY DEF NoInvoice, Invoice
  <1>4. TypeOK'
    BY <1>1, <1>3 DEF IInv, TypeOK, Status
  <1>5. WholeAmounts'
    BY <1>1, <1>3, WholeZero DEF IInv, WholeAmounts
  <1>6. QuotesSettle'
    BY <1>1, <1>2, SameAsked DEF IInv, QuotesSettle, QuoteKind
  <1>7. BillsFollow'
    BY <1>1, <1>2, <1>3 DEF BillsFollow
  <1>8. AddsUp(invoice)' /\ AddsUp(dropoff)'
    BY <1>1, <1>3 DEF IInv, AddsUp
  <1>9. AsAgreed(invoice)' /\ AsAgreed(dropoff)'
    BY <1>1, <1>3, SameAsked DEF IInv, AsAgreed, QuoteKind
  <1>10. IssuedIsCovered'
    BY <1>1, <1>2 DEF IssuedIsCovered
  <1>11. QED
    BY <1>4, <1>5, <1>6, <1>7, <1>8, <1>9, <1>10 DEF IInv

\* A proforma that the payments cover already is issued as it is.
LEMMA SettleZeroBalanceInv == ASSUME IInv, SettleZeroBalance PROVE IInv'
  <1>1. /\ status = "final_payment_pending" /\ status' = "dispatch_pending"
        /\ dropoff = NoInvoice /\ invoice.status = "proforma" /\ AllPaid >= invoice.total
        /\ invoice' = [invoice EXCEPT !.status = "issued"]
        /\ UNCHANGED <<shop, fees, quotes, legs, prompts, paid, dropoff, refunded, desk>>
    BY DEF SettleZeroBalance, payVars, deskVars
  <1>2. invoice \in Invoice
    BY DEF IInv, TypeOK
  <1>3. invoice' \in Invoice /\ invoice'.status = "issued"
    BY <1>1, <1>2 DEF Invoice
  <1>4. /\ invoice'.sub = invoice.sub /\ invoice'.vat = invoice.vat
        /\ invoice'.rounding = invoice.rounding /\ invoice'.total = invoice.total
        /\ invoice'.inclusive = invoice.inclusive /\ invoice'.credited = invoice.credited
        /\ invoice'.paid = invoice.paid /\ invoice'.balance = invoice.balance
    BY <1>1, <1>2 DEF Invoice
  <1>5. TypeOK'
    BY <1>1, <1>3 DEF IInv, TypeOK, Status
  <1>6. WholeAmounts'
    BY <1>1, <1>4 DEF IInv, WholeAmounts
  <1>7. QuotesSettle'
    BY <1>1, SameAsked DEF IInv, QuotesSettle, QuoteKind
  <1>8. BillsFollow'
    BY <1>1, <1>3 DEF IInv, BillsFollow
  <1>9. AddsUp(invoice)' /\ AddsUp(dropoff)'
    BY <1>1, <1>4 DEF IInv, AddsUp
  <1>10. AsAgreed(dropoff)' /\ AsAgreed(invoice)'
    BY <1>1, <1>4, SameAsked DEF IInv, AsAgreed, QuoteKind
  <1>11. IssuedIsCovered'
    BY <1>1, <1>4 DEF IssuedIsCovered, AllPaid
  <1>12. QED
    BY <1>5, <1>6, <1>7, <1>8, <1>9, <1>10, <1>11 DEF IInv

\* Refunds touch no bill and no payment.
LEMMA RefundsInv ==
    ASSUME IInv, NEW a \in Admins, ReadRefund(a) \/ RecordRefund(a) PROVE IInv'
  <1>1. UNCHANGED <<shop, status, fees, quotes, legs, prompts, paid, invoice, dropoff>>
    BY DEF ReadRefund, RecordRefund, jobVars, payVars, billVars
  <1>2. refunded' \in Nat /\ desk' \in [Admins -> Nat]
    <2>1. refunded \in Nat /\ desk \in [Admins -> Nat] /\ AllPaid \in Nat
      BY PaidFacts DEF IInv, TypeOK
    <2>2. CASE ReadRefund(a)
      BY <2>1, <2>2 DEF ReadRefund
    <2>3. CASE RecordRefund(a)
      BY <2>1, <2>3 DEF RecordRefund
    <2>4. QED
      BY <2>2, <2>3
  <1>3. TypeOK' /\ WholeAmounts'
    BY <1>1, <1>2 DEF IInv, TypeOK, WholeAmounts
  <1>4. QED
    BY <1>1, <1>3, SameBills DEF IInv, BillsHold

\* Every step keeps the invariant.
LEMMA NextInv == ASSUME IInv, [Next]_vars PROVE IInv'
  <1>1. CASE \E s \in Shops : SaveFees(s)
    BY <1>1, SaveFeesInv
  <1>2. CASE (\E c \in Costs : BookPickup(c) \/ RebookPickup(c)) \/ BookWalkIn
    BY <1>2, BookPickupInv, RebookPickupInv, BookWalkInInv
  <1>3. CASE Diagnose \/ SkipZeroDeposit \/ CompleteRepair
    BY <1>3, MovesInv
  <1>4. CASE \E k \in QuoteKind, c \in Prices : SendQuote(k, c)
    BY <1>4, SendQuoteInv
  <1>5. CASE \E k \in QuoteKind, c \in Offers : CustomerCounter(k, c) \/ ShopAcceptCounter(k, c)
    BY <1>5, CustomerCounterInv, ShopAcceptCounterInv
  <1>6. CASE (\E k \in QuoteKind : CustomerAccept(k)) \/ DeclineSupplementary
    BY <1>6, CustomerAcceptInv, DeclineSupplementaryInv
  <1>7. CASE (\E p \in Purpose : SendPrompt(p)) \/ (\E q \in prompts : Unanswered(q))
    BY <1>7, PromptsInv
  <1>8. CASE \E q \in prompts : Confirm(q)
    BY <1>8, ConfirmInv
  <1>9. CASE (\E c \in Costs : ChooseDropoff(QuotedLeg(c))) \/ ChooseDropoff(NoLeg)
    <2>1. NoLeg \in Leg /\ IsWholeShilling(NoLeg.charged)
      BY WholeZero DEF NoLeg, Leg
    <2>2. \A c \in Costs : QuotedLeg(c) \in Leg /\ IsWholeShilling(QuotedLeg(c).charged)
      BY LegWhole DEF IInv
    <2>3. QED
      BY <1>9, <2>1, <2>2, ChooseDropoffInv
  <1>10. CASE StoreProforma \/ SettleZeroBalance
    BY <1>10, StoreProformaInv, SettleZeroBalanceInv
  <1>11. CASE \E a \in Admins : ReadRefund(a) \/ RecordRefund(a)
    BY <1>11, RefundsInv
  <1>12. CASE UNCHANGED vars
    <2>1. UNCHANGED <<shop, status, fees, quotes, legs, prompts, paid, invoice, dropoff,
                      refunded, desk>>
      BY <1>12 DEF vars, jobVars, payVars, billVars, deskVars
    <2>2. TypeOK' /\ WholeAmounts'
      BY <2>1 DEF IInv, TypeOK, WholeAmounts
    <2>3. QED
      BY <2>1, <2>2, SameBills DEF IInv, BillsHold
  <1>13. QED
    BY <1>1, <1>2, <1>3, <1>4, <1>5, <1>6, <1>7, <1>8, <1>9, <1>10, <1>11, <1>12 DEF Next

(***************************************************************************)
(* The theorems                                                            *)
(***************************************************************************)
\* The invariant holds in every state of every behaviour.
THEOREM Invariant == Spec => []IInv
  <1>1. QED
    BY InitInv, NextInv, PTL DEF Spec

\* Amounts, quotes, legs, prompts and invoices are of their kinds (0003_jobs.sql).
THEOREM TypeCorrect == Spec => []TypeOK
  <1>1. IInv => TypeOK
    BY DEF IInv
  <1>2. QED
    BY <1>1, Invariant, PTL

\* Net sum, VAT and rounding make the total and the balance is the total less the
\* payments on it (money.ts:87-102), at any rate of VAT and any prices.
THEOREM InvoicesAddUp == Spec => []InvoiceAddsUp
  <1>1. IInv => InvoiceAddsUp
    BY DEF IInv, AddsUp, InvoiceAddsUp
  <1>2. QED
    BY <1>1, Invariant, PTL

\* What falls due can be asked for by M-Pesa (payments.ts:81,137), whatever the
\* settings, the courier's costs and the way the job was paid so far.
THEOREM WholeDues == Spec => []DuesAreWhole
  <1>1. IInv => DuesAreWhole
    BY DueFacts DEF DuesAreWhole
  <1>2. QED
    BY <1>1, Invariant, PTL

\* The invoice asks for what the customer was shown and agreed to, less the credit,
\* and for what a pickup booked again has cost besides (invoices.ts:8-42), whatever
\* the shop's rates and fees.
THEOREM InvoicedAsAgreed == Spec => []AgreedIsInvoiced
  <1>1. IInv => AgreedIsInvoiced
    <2> SUFFICES ASSUME IInv, dropoff = NoInvoice PROVE AsAgreed(invoice) => AgreedIsInvoiced
      BY DEF IInv, AgreedIsInvoiced
    <2>1. /\ AgreedTotal("main") \in Nat /\ AgreedTotal("supplementary") \in Nat
          /\ fees.consult \in Nat /\ fees.pickup \in Nat
          /\ legs.pickup.charged \in Nat /\ legs.return.charged \in Nat
      BY AgreedFacts DEF IInv, TypeOK, Leg, QuoteKind
    <2>2. Shown + Requoted = Asked
      BY <2>1 DEF Shown, Requoted, Asked, Agreed
    <2>3. AsAgreed(invoice) <=>
            (invoice.status # "none" /\ invoice.inclusive => invoice.total = Asked - Credit)
      BY DEF AsAgreed, Credit, Agreed
    <2>4. QED
      BY <2>2, <2>3 DEF AgreedIsInvoiced
  <1>2. QED
    BY <1>1, Invariant, PTL

\* An issued tax invoice is paid (0024_walk_ins.sql:229).
THEOREM CoveredWhenIssued == Spec => []IssuedIsCovered
  <1>1. IInv => IssuedIsCovered
    BY DEF IInv
  <1>2. QED
    BY <1>1, Invariant, PTL

(***************************************************************************)
(* What the documents say, and what it takes to be so                      *)
(***************************************************************************)
\* The steps that pay, bill or refund; no other touches any of it.
LEMMA MoneyMoves ==
    ASSUME [Next]_vars
    PROVE  \/ UNCHANGED <<paid, invoice, dropoff, refunded, desk>>
           \/ \E q \in prompts : Confirm(q)
           \/ \E back : ChooseDropoff(back)
           \/ StoreProforma \/ SettleZeroBalance
           \/ \E a \in Admins : ReadRefund(a) \/ RecordRefund(a)
  <1> DEFINE Same == UNCHANGED <<paid, invoice, dropoff, refunded, desk>>
  <1> USE DEF payVars, billVars, deskVars
  <1>1. ASSUME NEW s \in Shops, SaveFees(s) PROVE Same
    BY <1>1 DEF SaveFees
  <1>2. ASSUME NEW c \in Costs, BookPickup(c) \/ RebookPickup(c) PROVE Same
    BY <1>2 DEF BookPickup, RebookPickup
  <1>3. CASE BookWalkIn \/ Diagnose \/ SkipZeroDeposit \/ CompleteRepair \/ DeclineSupplementary
    BY <1>3 DEF BookWalkIn, Diagnose, SkipZeroDeposit, CompleteRepair, DeclineSupplementary
  <1>4. ASSUME NEW k \in QuoteKind, NEW c, SendQuote(k, c) \/ CustomerCounter(k, c)
                                           \/ ShopAcceptCounter(k, c) \/ CustomerAccept(k)
        PROVE  Same
    BY <1>4 DEF SendQuote, CustomerCounter, ShopAcceptCounter, CustomerAccept
  <1>5. ASSUME NEW p \in Purpose, SendPrompt(p) PROVE Same
    BY <1>5 DEF SendPrompt
  <1>6. ASSUME NEW q \in prompts, Unanswered(q) PROVE Same
    BY <1>6 DEF Unanswered
  <1>7. CASE UNCHANGED vars
    BY <1>7 DEF vars
  <1>8. QED
    BY <1>1, <1>2, <1>3, <1>4, <1>5, <1>6, <1>7 DEF Next

\* The balance of an invoice is current (0024_walk_ins.sql:218) until a proforma is
\* stored whose sums are older than a payment: no other step, of any number of
\* admins, prompts and choices of drop-off, makes it stale.
THEOREM BalanceIsOvertaken ==
    Spec => [][BalanceIsCurrent =>
                 BalanceIsCurrent' \/ (StoreProforma /\ dropoff.paid # AllPaid)]_vars
  <1> DEFINE Fresh == BalanceIsCurrent =>
                        BalanceIsCurrent' \/ (StoreProforma /\ dropoff.paid # AllPaid)
  <1>1. IInv /\ [Next]_vars => Fresh
    <2> SUFFICES ASSUME IInv, [Next]_vars, BalanceIsCurrent PROVE Fresh
      OBVIOUS
    <2>1. invoice \in Invoice /\ dropoff \in Invoice /\ AllPaid \in Nat
      BY PaidFacts DEF IInv, TypeOK
    <2>2. CASE UNCHANGED <<paid, invoice>>
      BY <2>2 DEF AllPaid, BalanceIsCurrent
    <2>3. ASSUME NEW q \in prompts, Confirm(q) PROVE BalanceIsCurrent'
      <3> DEFINE p   == q.purpose
                 sum == AllPaid + q.amount
                 kept == IF invoice.status = "none" THEN invoice
                         ELSE [invoice EXCEPT !.paid = sum, !.balance = invoice.total - sum]
      <3>1. /\ paid' = [paid EXCEPT ![p] = @ + q.amount]
            /\ invoice' = IF Settles(p, sum) THEN [kept EXCEPT !.status = "issued"] ELSE kept
        BY <2>3, Zenon DEF Confirm
      <3>2. q.purpose \in Purpose /\ q.amount \in Nat
        BY DEF IInv, TypeOK
      <3>3. AllPaid' = sum
        BY <3>1, <3>2, PaidGrows DEF IInv
      <3>4. Settles(p, sum) => invoice.status # "none"
        BY DEF Settles, IInv, BillsFollow
      <3> HIDE DEF sum
      <3>5. invoice'.status # "none" => invoice'.total = invoice.total
                                        /\ invoice'.balance = invoice.total - sum
        BY <2>1, <3>1, <3>4 DEF Invoice
      <3>6. QED
        BY <3>3, <3>5 DEF BalanceIsCurrent
    <2>4. ASSUME NEW back, ChooseDropoff(back) PROVE UNCHANGED <<paid, invoice>>
      BY <2>4 DEF ChooseDropoff, payVars
    <2>5. ASSUME StoreProforma, dropoff.paid = AllPaid PROVE BalanceIsCurrent'
      <3>1. AllPaid' = AllPaid /\ invoice' = dropoff /\ dropoff.status # "none"
        BY <2>5 DEF StoreProforma, payVars, AllPaid, IInv, BillsFollow
      <3>2. dropoff.balance = dropoff.total - dropoff.paid
        BY <3>1 DEF IInv, AddsUp
      <3>3. QED
        BY <2>5, <3>1, <3>2 DEF BalanceIsCurrent
    <2>6. CASE SettleZeroBalance
      <3>1. AllPaid' = AllPaid /\ invoice.status # "none"
            /\ invoice' = [invoice EXCEPT !.status = "issued"]
        BY <2>6 DEF SettleZeroBalance, payVars, AllPaid
      <3>2. invoice'.total = invoice.total /\ invoice'.balance = invoice.balance
        BY <2>1, <3>1 DEF Invoice
      <3>3. QED
        BY <3>1, <3>2 DEF BalanceIsCurrent
    <2>7. ASSUME NEW a \in Admins, ReadRefund(a) \/ RecordRefund(a)
          PROVE  UNCHANGED <<paid, invoice>>
      BY <2>7 DEF ReadRefund, RecordRefund, payVars, billVars
    <2>8. QED
      BY <2>2, <2>3, <2>4, <2>5, <2>6, <2>7, MoneyMoves
  <1>2. QED
    BY <1>1, Invariant, PTL DEF Spec

=============================================================================
