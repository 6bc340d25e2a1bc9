-------------------------- MODULE JobLifecycleProofs --------------------------
(***************************************************************************)
(* Theorems about JobLifecycle, for any fees, prices and bounds.           *)
(***************************************************************************)
EXTENDS JobLifecycle, TLAPS

(***************************************************************************)
(* What the helpers return                                                 *)
(***************************************************************************)
\* Where a move lands is a status.
LEMMA LandingType ==
    ASSUME NEW to \in JobStatus, NEW drop
    PROVE  Landing(to, drop) \in JobStatus
BY DEF Landing, JobStatus, InboundStatus, QuoteStatus, BenchStatus, OutboundStatus, Terminal

\* The outcome after a move is an outcome.
LEMMA OutcomeType ==
    ASSUME NEW to, NEW o \in Outcome, NEW want \in Outcome
    PROVE  OutcomeOn(to, o, want) \in Outcome
BY DEF OutcomeOn, Outcome

\* Entering a status leaves a number of timers of each kind.
LEMMA TimersOnType ==
    ASSUME NEW to, NEW live \in [TimerKind -> Nat]
    PROVE  TimersOn(to, live) \in [TimerKind -> Nat]
BY DEF TimersOn

\* Scheduling and cancelling timers yields a natural number of each kind.
LEMMA TimersAtType ==
    ASSUME NEW to, NEW drop, NEW live \in [TimerKind -> Nat]
    PROVE  TimersAt(to, drop, live) \in [TimerKind -> Nat]
BY TimersOnType DEF TimersAt

(***************************************************************************)
(* Types                                                                   *)
(***************************************************************************)
JobTypeOK ==
    /\ status \in JobStatus \cup {"absent"}
    /\ outcome \in Outcome
    /\ reason \in BOOLEAN
    /\ timers \in [TimerKind -> Nat]
    /\ dropoff \in Choice \cup {"none"}
    /\ warranty \in BOOLEAN
    /\ passcode \in BOOLEAN

\* A move keeps the types of the job's own columns.
LEMMA TransitionType ==
    ASSUME JobTypeOK,
           NEW from, NEW to \in JobStatus, NEW actor, NEW drop \in Choice \cup {"none"},
           NEW want \in Outcome, NEW why \in BOOLEAN,
           Transition(from, to, actor, drop, want, why)
    PROVE  JobTypeOK'
<1>1. status' \in JobStatus
  BY LandingType DEF Transition
<1>2. outcome' \in Outcome
  <2>1. "none" \in Outcome
    BY DEF Outcome
  <2> QED
    BY <2>1, OutcomeType DEF Transition, JobTypeOK
<1>3. timers' \in [TimerKind -> Nat]
  BY TimersAtType DEF Transition, JobTypeOK
<1>4. dropoff' \in Choice \cup {"none"}
  BY DEF Transition, Choice
<1>5. reason' \in BOOLEAN /\ warranty' \in BOOLEAN /\ passcode' \in BOOLEAN
  BY DEF Transition, JobTypeOK
<1> QED
  BY <1>1, <1>2, <1>3, <1>4, <1>5 DEF JobTypeOK

RestTypeOK ==
    /\ origin \in {"online", "walk_in"}
    /\ identity \in {"device", "id"}
    /\ booking \subseteq BookingFact
    /\ terms \in BOOLEAN
    /\ intake \in {"none", "clean", "discrepant", "acknowledged"}
    /\ completed \in BOOLEAN
    /\ quote \in QuoteRow
    /\ version \in [deposit : Nat, total : Nat]
    /\ accepted \in [deposit : Nat, total : Nat]
    /\ supp \in QuoteRow
    /\ returnFee \in Nat

MoneyTypeOK ==
    /\ invoice \in [status : {"none", "proforma", "issued"}, total : Nat, balance : Int]
    /\ paid \in [Purpose -> Nat]
    /\ prompts \subseteq [purpose : Purpose, amount : Nat, refused : BOOLEAN]

WorkTypeOK ==
    /\ claimed \subseteq TimerKind
    /\ reader \in [op : {"none"} \cup Reading, status : JobStatus \cup {"absent"}]
    /\ followUp \in {"none", "deposit", "settle", "waive"}
    /\ faults \in Nat

\* TypeOK taken apart by groups of variables.
LEMMA TypeOKParts == TypeOK <=> JobTypeOK /\ RestTypeOK /\ MoneyTypeOK /\ WorkTypeOK
BY DEF TypeOK, JobTypeOK, RestTypeOK, MoneyTypeOK, WorkTypeOK

\* The same, of the next state.
LEMMA TypeOKNext ==
    JobTypeOK' /\ RestTypeOK' /\ MoneyTypeOK' /\ WorkTypeOK' => TypeOK'
BY DEF TypeOK, JobTypeOK, RestTypeOK, MoneyTypeOK, WorkTypeOK

\* Variables that do not change keep their types.
LEMMA JobTypeKept == JobTypeOK /\ UNCHANGED jobVars => JobTypeOK'
BY DEF JobTypeOK, jobVars

\* A step that leaves a group of variables alone keeps that group typed.
LEMMA RestTypeKept ==
    RestTypeOK /\ UNCHANGED <<bookingVars, benchVars, quoteVars, feeVars>> => RestTypeOK'
BY DEF RestTypeOK, bookingVars, benchVars, quoteVars, feeVars

\* The same for the payments.
LEMMA MoneyTypeKept == MoneyTypeOK /\ UNCHANGED payVars => MoneyTypeOK'
BY DEF MoneyTypeOK, payVars

\* The same for what the processes hold.
LEMMA WorkTypeKept == WorkTypeOK /\ UNCHANGED workVars => WorkTypeOK'
BY DEF WorkTypeOK, workVars

\* A move through transition_job alone keeps the state typed.
LEMMA MoveType ==
    ASSUME TypeOK,
           NEW to \in JobStatus, NEW actor, NEW want \in Outcome, NEW why \in BOOLEAN,
           Move(to, actor, want, why)
    PROVE  JobTypeOK' /\ RestTypeOK' /\ MoneyTypeOK'
<1>1. JobTypeOK'
  <2>1. JobTypeOK /\ dropoff \in Choice \cup {"none"}
    BY TypeOKParts DEF JobTypeOK
  <2>2. Transition(status, to, actor, dropoff, want, why)
    BY DEF Move
  <2> QED
    BY <2>1, <2>2, TransitionType
<1>2. RestTypeOK' /\ MoneyTypeOK'
  BY TypeOKParts, RestTypeKept, MoneyTypeKept DEF Move
<1> QED
  BY <1>1, <1>2

\* Reading changes nothing but the reader; a commit ends it.
LEMMA ReadType ==
    ASSUME TypeOK, NEW op \in Reading, NEW seen \in JobStatus \cup {"absent"}, Read(op, seen)
    PROVE  TypeOK'
<1>1. JobTypeOK' /\ RestTypeOK' /\ MoneyTypeOK'
  BY TypeOKParts, JobTypeKept, RestTypeKept, MoneyTypeKept DEF Read
<1>2. WorkTypeOK'
  BY TypeOKParts DEF Read, WorkTypeOK
<1> QED
  BY <1>1, <1>2, TypeOKNext

\* A handler that ends its read keeps its own variables typed.
LEMMA CommitType ==
    ASSUME WorkTypeOK, NEW op, Commits(op), followUp' \in {"none", "deposit", "settle", "waive"}
    PROVE  WorkTypeOK'
BY DEF Commits, WorkTypeOK, NoReader

\* What is charged and billed is a number of shillings.
LEMMA FeeType ==
    ASSUME NEW choice
    PROVE  DeliveryFee(choice) \in Nat
BY AmountsAssumption, Zenon DEF DeliveryFee

\* A proforma is an invoice, whatever the fee.
LEMMA ProformaType ==
    ASSUME RestTypeOK, MoneyTypeOK, NEW fee \in Nat
    PROVE  Proforma(fee) \in [status : {"none", "proforma", "issued"}, total : Nat, balance : Int]
<1>1. InvoiceTotal(fee) \in Nat
  BY AmountsAssumption DEF InvoiceTotal, UpfrontFee, RestTypeOK
<1>2. TotalPaid(paid) \in Nat
  BY DEF TotalPaid, MoneyTypeOK, Purpose
<1>3. InvoiceTotal(fee) - TotalPaid(paid) \in Int
  BY <1>1, <1>2
<1> QED
  BY <1>1, <1>3 DEF Proforma, MoneyTypeOK

\* A confirmed payment keeps the state typed.
LEMMA ConfirmType ==
    ASSUME TypeOK, NEW purpose \in Purpose, NEW amount \in Nat, Confirm(purpose, amount)
    PROVE  /\ JobTypeOK' /\ RestTypeOK' /\ WorkTypeOK'
           /\ paid' \in [Purpose -> Nat]
           /\ invoice' \in [status : {"none", "proforma", "issued"}, total : Nat, balance : Int]
<1> DEFINE pd == Adding(purpose, amount)
           to == Unlocks(purpose, pd)
<1>1. pd \in [Purpose -> Nat]
  BY TypeOKParts DEF MoneyTypeOK, Adding
<1>2. TotalPaid(pd) \in Nat
  BY <1>1 DEF TotalPaid, Purpose
<1>3. RestTypeOK' /\ WorkTypeOK'
  BY TypeOKParts, RestTypeKept, WorkTypeKept DEF Confirm
<1>4. invoice' \in [status : {"none", "proforma", "issued"}, total : Nat, balance : Int]
  <2> DEFINE live == IF invoice.status = "none" THEN invoice
                     ELSE [invoice EXCEPT !.balance = invoice.total - TotalPaid(pd)]
  <2>1. live \in [status : {"none", "proforma", "issued"}, total : Nat, balance : Int]
    BY <1>2, TypeOKParts DEF MoneyTypeOK
  <2>2. invoice' = IF purpose = "final_balance" /\ to = "dispatch_pending"
                   THEN [live EXCEPT !.status = "issued"] ELSE live
    BY DEF Confirm
  <2> HIDE DEF live
  <2> QED
    BY <2>1, <2>2
<1>5. JobTypeOK'
  <2>1. JobTypeOK /\ dropoff \in Choice \cup {"none"}
    BY TypeOKParts DEF JobTypeOK
  <2>2. CASE to = "none"
    BY <2>1, <2>2, JobTypeKept DEF Confirm
  <2>3. CASE to # "none"
    <3>1. Transition(status, to, "system", dropoff, "none", FALSE)
      BY <2>3 DEF Confirm
    <3>2. to \in JobStatus \cup {"none"}
      BY Zenon DEF Unlocks, JobStatus, InboundStatus, BenchStatus, OutboundStatus
    <3>3. "none" \in Outcome /\ FALSE \in BOOLEAN
      BY DEF Outcome
    <3> HIDE DEF to
    <3> QED
      BY <2>1, <2>3, <3>1, <3>2, <3>3, TransitionType
  <2> QED
    BY <2>2, <2>3
<1> QED
  BY <1>1, <1>3, <1>4, <1>5 DEF Confirm

\* A move made by an action that owes and holds nothing further.
LEMMA PlainMoveType ==
    ASSUME TypeOK, UNCHANGED workVars,
           NEW to \in JobStatus, NEW actor, NEW want \in Outcome, NEW why \in BOOLEAN,
           Move(to, actor, want, why)
    PROVE  TypeOK'
BY MoveType, TypeOKParts, WorkTypeKept, TypeOKNext

\* The initial state is typed.
LEMMA InitType == Init => TypeOK
<1> SUFFICES ASSUME Init PROVE TypeOK
  OBVIOUS
<1>1. JobTypeOK
  BY AmountsAssumption DEF Init, JobTypeOK, Outcome, TimerKind
<1>2. RestTypeOK
  BY AmountsAssumption DEF Init, RestTypeOK, QuoteRow, NoPrice
<1>3. MoneyTypeOK
  BY DEF Init, MoneyTypeOK, NoInvoice, Purpose
<1>4. WorkTypeOK
  BY DEF Init, WorkTypeOK, NoReader, Reading
<1> QED
  BY <1>1, <1>2, <1>3, <1>4, TypeOKParts

\* The steps of a booking keep the state typed.
LEMMA BookingStepType == ASSUME TypeOK, BookingStep PROVE TypeOK'
<1>0. JobTypeOK /\ RestTypeOK /\ MoneyTypeOK /\ WorkTypeOK
  BY TypeOKParts
<1>1. ASSUME CreateDraft PROVE TypeOK'
  <2>1. JobTypeOK'
    BY <1>0, <1>1 DEF CreateDraft, JobTypeOK, JobStatus, InboundStatus
  <2> QED
    BY <2>1, <1>0, <1>1, RestTypeKept, MoneyTypeKept, WorkTypeKept, TypeOKNext
    DEF CreateDraft
<1>2. ASSUME CreateWalkIn PROVE TypeOK'
  <2>1. JobTypeOK'
    <3>1. PICK actor \in Staff :
            Transition("draft", "received_at_shop", actor, dropoff, "none", FALSE)
      BY <1>2 DEF CreateWalkIn
    <3>2. dropoff \in Choice \cup {"none"} /\ "received_at_shop" \in JobStatus /\ "none" \in Outcome
      BY <1>0 DEF JobTypeOK, JobStatus, BenchStatus, Outcome
    <3> QED
      BY <1>0, <3>1, <3>2, TransitionType
  <2> QED
    BY <2>1, <1>0, <1>2, RestTypeKept, MoneyTypeKept, WorkTypeKept, TypeOKNext
    DEF CreateWalkIn
<1>3. ASSUME AcceptTerms PROVE TypeOK'
  <2>1. RestTypeOK'
    BY <1>0, <1>3 DEF AcceptTerms, RestTypeOK, benchVars, quoteVars, feeVars
  <2> QED
    BY <2>1, <1>0, <1>3, JobTypeKept, MoneyTypeKept, WorkTypeKept, TypeOKNext
    DEF AcceptTerms
<1>4. ASSUME ReadDraft PROVE TypeOK'
  BY <1>4, ReadType DEF ReadDraft, Reading
<1>5. ASSUME SubmitDraft PROVE TypeOK'
  <2>1. JobTypeOK'
    <3>1. Transition(status, "pickup_fee_pending", "customer", dropoff, "none", FALSE)
      BY <1>5 DEF SubmitDraft
    <3>2. dropoff \in Choice \cup {"none"} /\ "pickup_fee_pending" \in JobStatus /\ "none" \in Outcome
      BY <1>0 DEF JobTypeOK, JobStatus, InboundStatus, Outcome
    <3> QED
      BY <1>0, <3>1, <3>2, TransitionType
  <2>2. RestTypeOK'
    BY <1>0, <1>5 DEF SubmitDraft, RestTypeOK, benchVars, quoteVars, feeVars
  <2> QED
    BY <2>1, <2>2, <1>0, <1>5, MoneyTypeKept, WorkTypeKept, TypeOKNext
    DEF SubmitDraft
<1>6. ASSUME NEW fact \in BookingFact, AddBookingFact(fact) PROVE TypeOK'
  <2>1. RestTypeOK'
    BY <1>0, <1>6 DEF AddBookingFact, RestTypeOK, benchVars, quoteVars, feeVars
  <2> QED
    BY <2>1, <1>0, <1>6, JobTypeKept, MoneyTypeKept, WorkTypeKept, TypeOKNext
    DEF AddBookingFact
<1> QED
  BY <1>1, <1>2, <1>3, <1>4, <1>5, <1>6 DEF BookingStep

\* A cancellation keeps the state typed.
LEMMA CancelStepType == ASSUME TypeOK, CancelStep PROVE TypeOK'
<1>1. /\ {"cancelled", "return_fee_pending"} \subseteq JobStatus
      /\ {"none", "cancelled"} \subseteq Outcome
  BY DEF JobStatus, BenchStatus, Terminal, Outcome
<1>2. ASSUME CustomerCancel PROVE TypeOK'
  BY <1>1, <1>2, PlainMoveType DEF CustomerCancel
<1>3. ASSUME AdminCancel PROVE TypeOK'
  BY <1>1, <1>3, PlainMoveType DEF AdminCancel
<1> QED
  BY <1>2, <1>3 DEF CancelStep

\* A scan: the move after the rider's arrival, if that comes first.
LEMMA HandoverType ==
    ASSUME TypeOK, NEW early, NEW from, NEW to \in JobStatus, NEW actor,
           Handover(early, from, to, actor)
    PROVE  TypeOK'
<1>1. PICK mid \in from : Transition(mid, to, actor, dropoff, "none", FALSE)
  BY DEF Handover
<1>2. JobTypeOK /\ dropoff \in Choice \cup {"none"} /\ "none" \in Outcome
  BY TypeOKParts DEF JobTypeOK, Outcome
<1>3. JobTypeOK'
  BY <1>1, <1>2, TransitionType
<1> QED
  BY <1>3, TypeOKParts, RestTypeKept, MoneyTypeKept, WorkTypeKept, TypeOKNext DEF Handover

\* A courier report or a handover keeps the state typed.
LEMMA CourierStepType == ASSUME TypeOK, CourierStep PROVE TypeOK'
<1>1. /\ {"pickup_requested", "picked_up", "received_at_shop", "collected_from_shop",
          "delivered"} \subseteq JobStatus
      /\ "none" \in Outcome
  BY DEF JobStatus, InboundStatus, BenchStatus, OutboundStatus, Outcome
<1>2. ASSUME NEW to \in JobStatus, CourierReport(to) PROVE TypeOK'
  <2>1. (to \in {"pickup_failed", "return_failed"}) \in BOOLEAN
    OBVIOUS
  <2> QED
    BY <1>1, <1>2, <2>1, PlainMoveType DEF CourierReport
<1>3. ASSUME RebookPickup PROVE TypeOK'
  BY <1>1, <1>3, PlainMoveType DEF RebookPickup
<1>4. ASSUME CustomerToRider PROVE TypeOK'
  BY <1>1, <1>4, HandoverType DEF CustomerToRider
<1>5. ASSUME RiderToShop PROVE TypeOK'
  BY <1>1, <1>5, HandoverType DEF RiderToShop
<1>6. ASSUME ShopToRider PROVE TypeOK'
  BY <1>1, <1>6, HandoverType DEF ShopToRider
<1>7. ASSUME RiderToCustomer PROVE TypeOK'
  BY <1>1, <1>7, HandoverType DEF RiderToCustomer
<1> QED
  BY <1>2, <1>3, <1>4, <1>5, <1>6, <1>7 DEF CourierStep

\* The steps of the intake keep the state typed.
LEMMA IntakeStepType == ASSUME TypeOK, IntakeStep PROVE TypeOK'
<1>0. /\ JobTypeOK /\ RestTypeOK /\ MoneyTypeOK /\ WorkTypeOK
      /\ dropoff \in Choice \cup {"none"}
      /\ {"diagnosing", "intake_ack_pending", "return_fee_pending"} \subseteq JobStatus
      /\ {"none", "cancelled"} \subseteq Outcome
  BY TypeOKParts DEF JobTypeOK, JobStatus, BenchStatus, Outcome
<1>1. ASSUME CompleteIntake PROVE TypeOK'
  <2>1. PICK found \in {"clean", "discrepant"} :
          /\ intake' = found
          /\ Transition(status, IF found = "clean" THEN "diagnosing" ELSE "intake_ack_pending",
                        "technician", dropoff, "none", FALSE)
    BY <1>1 DEF CompleteIntake
  <2>2. JobTypeOK'
    BY <1>0, <2>1, TransitionType
  <2>3. RestTypeOK'
    BY <1>0, <1>1, <2>1 DEF CompleteIntake, RestTypeOK, bookingVars, quoteVars, feeVars
  <2> QED
    BY <2>2, <2>3, <1>0, <1>1, MoneyTypeKept, WorkTypeKept, TypeOKNext DEF CompleteIntake
<1>2. ASSUME AcknowledgeIntake PROVE TypeOK'
  <2>1. Transition(status, "diagnosing", "customer", dropoff, "none", FALSE)
    BY <1>2 DEF AcknowledgeIntake
  <2>2. JobTypeOK'
    BY <1>0, <2>1, TransitionType
  <2>3. RestTypeOK'
    BY <1>0, <1>2 DEF AcknowledgeIntake, RestTypeOK, bookingVars, quoteVars, feeVars
  <2> QED
    BY <2>2, <2>3, <1>0, <1>2, MoneyTypeKept, WorkTypeKept, TypeOKNext DEF AcknowledgeIntake
<1>3. ASSUME RejectIntake PROVE TypeOK'
  BY <1>0, <1>3, PlainMoveType DEF RejectIntake
<1> QED
  BY <1>1, <1>2, <1>3 DEF IntakeStep

\* An acceptance at a price of numbers.
LEMMA AcceptType ==
    ASSUME TypeOK, NEW price \in [deposit : Nat, total : Nat], NEW actor,
           version' \in [deposit : Nat, total : Nat], AcceptAt(price, actor)
    PROVE  TypeOK'
<1>0. /\ JobTypeOK /\ RestTypeOK /\ MoneyTypeOK /\ WorkTypeOK
      /\ dropoff \in Choice \cup {"none"}
      /\ "deposit_pending" \in JobStatus /\ "none" \in Outcome
  BY TypeOKParts DEF JobTypeOK, JobStatus, BenchStatus, Outcome
<1>1. JobTypeOK'
  <2>1. Transition(status, "deposit_pending", actor, dropoff, "none", FALSE)
    BY DEF AcceptAt
  <2> QED
    BY <1>0, <2>1, TransitionType
<1>2. RestTypeOK'
  BY <1>0 DEF AcceptAt, RestTypeOK, bookingVars, benchVars, feeVars, QuoteRow
<1>3. MoneyTypeOK' /\ WorkTypeOK'
  <2>1. WorkTypeOK'
    BY <1>0 DEF AcceptAt, WorkTypeOK
  <2> QED
    BY <2>1, <1>0, MoneyTypeKept DEF AcceptAt
<1> QED
  BY <1>1, <1>2, <1>3, TypeOKNext

\* The locked steps of the quote keep the state typed.
LEMMA QuoteStepType == ASSUME TypeOK, QuoteStep PROVE TypeOK'
<1>0. /\ JobTypeOK /\ RestTypeOK /\ MoneyTypeOK /\ WorkTypeOK
      /\ dropoff \in Choice \cup {"none"} /\ status \in JobStatus \cup {"absent"}
      /\ version \in [deposit : Nat, total : Nat]
      /\ "quote_declined" \in JobStatus /\ "none" \in Outcome
  BY TypeOKParts DEF JobTypeOK, RestTypeOK, JobStatus, QuoteStatus, Outcome
<1>1. ASSUME ReadForQuote PROVE TypeOK'
  BY <1>0, <1>1, ReadType DEF ReadForQuote, Reading
<1>2. ASSUME ReadForCounter PROVE TypeOK'
  BY <1>0, <1>2, ReadType DEF ReadForCounter, Reading
<1>3. ASSUME CustomerAccept PROVE TypeOK'
  BY <1>0, <1>3, AcceptType DEF CustomerAccept
<1>4. ASSUME CustomerDecline PROVE TypeOK'
  <2>1. JobTypeOK'
    <3>1. Transition(status, "quote_declined", "customer", dropoff, "none", FALSE)
      BY <1>4 DEF CustomerDecline
    <3> QED
      BY <1>0, <3>1, TransitionType
  <2>2. RestTypeOK'
    BY <1>0, <1>4 DEF CustomerDecline, RestTypeOK, bookingVars, benchVars, feeVars, QuoteRow
  <2> QED
    BY <2>1, <2>2, <1>0, <1>4, MoneyTypeKept, WorkTypeKept, TypeOKNext DEF CustomerDecline
<1>5. ASSUME NEW price \in Prices, ShopAcceptCounter(price) PROVE TypeOK'
  BY <1>0, <1>5, AmountsAssumption, AcceptType DEF ShopAcceptCounter
<1> QED
  BY <1>1, <1>2, <1>3, <1>4, <1>5 DEF QuoteStep

\* A change of the supplementary quote keeps the state typed.
LEMMA SuppType == ASSUME TypeOK, NEW to \in QuoteRow, SetSupp(to), WorkTypeOK' PROVE TypeOK'
<1>1. RestTypeOK'
  BY TypeOKParts DEF SetSupp, RestTypeOK, bookingVars, benchVars, feeVars
<1> QED
  BY <1>1, TypeOKParts, JobTypeKept, MoneyTypeKept, TypeOKNext DEF SetSupp

\* The steps of the repair keep the state typed.
LEMMA RepairStepType == ASSUME TypeOK, RepairStep PROVE TypeOK'
<1>0. /\ JobTypeOK /\ RestTypeOK /\ MoneyTypeOK /\ WorkTypeOK
      /\ dropoff \in Choice \cup {"none"} /\ status \in JobStatus \cup {"absent"}
      /\ "repair_complete" \in JobStatus /\ "none" \in Outcome
  BY TypeOKParts DEF JobTypeOK, JobStatus, BenchStatus, Outcome
<1>1. ASSUME ReadForSupp PROVE TypeOK'
  BY <1>0, <1>1, ReadType DEF ReadForSupp, Reading
<1>2. ASSUME ReadSuppCounter PROVE TypeOK'
  BY <1>0, <1>2, ReadType DEF ReadSuppCounter, Reading
<1>3. ASSUME AnswerSupp PROVE TypeOK'
  BY <1>0, <1>3, WorkTypeKept, SuppType DEF AnswerSupp, QuoteRow
<1>4. ASSUME CompleteRepair PROVE TypeOK'
  <2>1. JobTypeOK'
    <3>1. Transition(status, "repair_complete", "technician", dropoff, "none", FALSE)
      BY <1>4 DEF CompleteRepair
    <3> QED
      BY <1>0, <3>1, TransitionType
  <2>2. RestTypeOK'
    BY <1>0, <1>4 DEF CompleteRepair, RestTypeOK, bookingVars, quoteVars, feeVars
  <2> QED
    BY <2>1, <2>2, <1>0, <1>4, MoneyTypeKept, WorkTypeKept, TypeOKNext DEF CompleteRepair
<1> QED
  BY <1>1, <1>2, <1>3, <1>4 DEF RepairStep

\* The steps of the return keep the state typed.
LEMMA ReturnStepType == ASSUME TypeOK, ReturnStep PROVE TypeOK'
<1>0. /\ JobTypeOK /\ RestTypeOK /\ MoneyTypeOK /\ WorkTypeOK
      /\ "return_requested" \in JobStatus /\ "none" \in Outcome
  BY TypeOKParts DEF JobStatus, OutboundStatus, Outcome
<1>1. TerminalFor(outcome) \in JobStatus
  BY Zenon DEF TerminalFor, JobStatus, Terminal
<1>2. ASSUME ReadForDropoff PROVE TypeOK'
  BY <1>2, ReadType DEF ReadForDropoff, Reading
<1>3. ASSUME WaiveReturnFee PROVE TypeOK'
  <2>1. RestTypeOK'
    BY <1>0, <1>3 DEF WaiveReturnFee, RestTypeOK, bookingVars, benchVars, quoteVars
  <2>2. WorkTypeOK'
    BY <1>0, <1>3 DEF WaiveReturnFee, WorkTypeOK
  <2> QED
    BY <2>1, <2>2, <1>0, <1>3, JobTypeKept, MoneyTypeKept, TypeOKNext DEF WaiveReturnFee
<1>4. ASSUME RequestDispatch PROVE TypeOK'
  BY <1>0, <1>4, PlainMoveType DEF RequestDispatch
<1>5. ASSUME ConfirmDelivered PROVE TypeOK'
  BY <1>0, <1>1, <1>5, PlainMoveType DEF ConfirmDelivered
<1>6. ASSUME CounterHandover PROVE TypeOK'
  BY <1>0, <1>1, <1>6, PlainMoveType DEF CounterHandover
<1> QED
  BY <1>2, <1>3, <1>4, <1>5, <1>6 DEF ReturnStep

\* The amount due is a number of shillings, possibly less than nothing.
LEMMA AmountDueType ==
    ASSUME RestTypeOK, MoneyTypeOK, NEW purpose
    PROVE  AmountDue(purpose) \in Int
<1>1. /\ ConsultFee - paid["pickup_fee"] \in Int /\ PickupFee \in Int /\ 0 \in Int
      /\ accepted.deposit \in Int /\ invoice.balance \in Int /\ returnFee \in Int
  BY AmountsAssumption DEF RestTypeOK, MoneyTypeOK, Purpose
<1> QED
  BY <1>1, Zenon DEF AmountDue

\* Prompts, their results and cash keep the state typed.
LEMMA PaymentStepType == ASSUME TypeOK, PaymentStep PROVE TypeOK'
<1>0. JobTypeOK /\ RestTypeOK /\ MoneyTypeOK /\ WorkTypeOK
  BY TypeOKParts
<1>1. ASSUME NEW purpose \in Purpose, SendPrompt(purpose) PROVE TypeOK'
  <2>1. AmountDue(purpose) \in Nat
    BY <1>0, <1>1, AmountDueType DEF SendPrompt
  <2>2. MoneyTypeOK'
    <3> DEFINE sent == [purpose |-> purpose, amount |-> AmountDue(purpose), refused |-> FALSE]
    <3>1. sent \in [purpose : Purpose, amount : Nat, refused : BOOLEAN]
      BY <2>1
    <3>2. prompts' = prompts \cup {sent} /\ UNCHANGED <<invoice, paid>>
      BY <1>1 DEF SendPrompt
    <3> HIDE DEF sent
    <3> QED
      BY <1>0, <3>1, <3>2 DEF MoneyTypeOK
  <2> QED
    BY <2>2, <1>0, <1>1, JobTypeKept, RestTypeKept, WorkTypeKept, TypeOKNext DEF SendPrompt
<1>2. ASSUME NEW purpose \in Purpose, CashPayment(purpose) PROVE TypeOK'
  <2>1. AmountDue(purpose) \in Nat
    BY <1>0, <1>2, AmountDueType DEF CashPayment
  <2>2. Confirm(purpose, AmountDue(purpose)) /\ prompts' = prompts
    BY <1>2 DEF CashPayment
  <2>3. /\ JobTypeOK' /\ RestTypeOK' /\ WorkTypeOK'
        /\ paid' \in [Purpose -> Nat]
        /\ invoice' \in [status : {"none", "proforma", "issued"}, total : Nat, balance : Int]
    BY <2>1, <2>2, ConfirmType
  <2> QED
    BY <1>0, <2>2, <2>3, TypeOKNext DEF MoneyTypeOK
<1>3. ASSUME NEW p \in prompts, PromptFails(p) PROVE TypeOK'
  <2>1. MoneyTypeOK'
    BY <1>0, <1>3 DEF PromptFails, MoneyTypeOK
  <2> QED
    BY <2>1, <1>0, <1>3, JobTypeKept, RestTypeKept, WorkTypeKept, TypeOKNext DEF PromptFails
<1>4. ASSUME NEW p \in prompts, PromptConfirmed(p) PROVE TypeOK'
  <2>1. p.purpose \in Purpose /\ p.amount \in Nat
    BY <1>0 DEF MoneyTypeOK
  <2>2. Confirm(p.purpose, p.amount) /\ prompts' = prompts \ {p}
    BY <1>4 DEF PromptConfirmed
  <2>3. /\ JobTypeOK' /\ RestTypeOK' /\ WorkTypeOK'
        /\ paid' \in [Purpose -> Nat]
        /\ invoice' \in [status : {"none", "proforma", "issued"}, total : Nat, balance : Int]
    BY <2>1, <2>2, ConfirmType
  <2> QED
    BY <1>0, <2>2, <2>3, TypeOKNext DEF MoneyTypeOK
<1>5. ASSUME NEW p \in prompts, PromptRefused(p) PROVE TypeOK'
  <2>1. [p EXCEPT !.refused = TRUE] \in [purpose : Purpose, amount : Nat, refused : BOOLEAN]
    BY <1>0 DEF MoneyTypeOK
  <2>2. MoneyTypeOK'
    BY <1>0, <1>5, <2>1 DEF PromptRefused, MoneyTypeOK
  <2> QED
    BY <2>2, <1>0, <1>5, JobTypeKept, RestTypeKept, WorkTypeKept, TypeOKNext DEF PromptRefused
<1> QED
  BY <1>1, <1>2, <1>3, <1>4, <1>5 DEF PaymentStep

\* The second transaction of a request keeps the state typed.
LEMMA FollowUpStepType == ASSUME TypeOK, FollowUpStep PROVE TypeOK'
<1>0. /\ JobTypeOK /\ RestTypeOK /\ MoneyTypeOK /\ WorkTypeOK
      /\ dropoff \in Choice \cup {"none"}
      /\ {"in_repair", "dispatch_pending"} \subseteq JobStatus /\ "none" \in Outcome
  BY TypeOKParts DEF JobTypeOK, JobStatus, BenchStatus, OutboundStatus, Outcome
<1>1. ASSUME followUp' = "none", UNCHANGED <<claimed, reader, faults>> PROVE WorkTypeOK'
  BY <1>0, <1>1 DEF WorkTypeOK
<1>2. ASSUME SkipZeroDeposit PROVE TypeOK'
  <2>1. CASE Move("in_repair", "system", "none", FALSE)
    BY <1>0, <1>1, <1>2, <2>1, MoveType, TypeOKNext DEF SkipZeroDeposit
  <2>2. CASE UNCHANGED <<jobVars, bookingVars, benchVars, quoteVars, feeVars, payVars>>
    BY <1>0, <1>1, <1>2, <2>2, JobTypeKept, RestTypeKept, MoneyTypeKept, TypeOKNext
    DEF SkipZeroDeposit
  <2> QED
    BY <1>2, <2>1, <2>2 DEF SkipZeroDeposit
<1>3. ASSUME ReleaseWaived PROVE TypeOK'
  <2>1. CASE Move("dispatch_pending", "system", "none", TRUE)
    BY <1>0, <1>1, <1>3, <2>1, MoveType, TypeOKNext DEF ReleaseWaived
  <2>2. CASE UNCHANGED <<jobVars, bookingVars, benchVars, quoteVars, feeVars, payVars>>
    BY <1>0, <1>1, <1>3, <2>2, JobTypeKept, RestTypeKept, MoneyTypeKept, TypeOKNext
    DEF ReleaseWaived
  <2> QED
    BY <1>3, <2>1, <2>2 DEF ReleaseWaived
<1>4. ASSUME Settle PROVE TypeOK'
  <2>1. JobTypeOK'
    <3>1. \/ Transition(status, "dispatch_pending", "system", dropoff, "none", FALSE)
          \/ UNCHANGED jobVars
      BY <1>4 DEF Settle
    <3> QED
      BY <1>0, <3>1, TransitionType, JobTypeKept
  <2>2. MoneyTypeOK'
    <3>1. (invoice' = invoice \/ invoice' = Issued) /\ UNCHANGED <<paid, prompts>>
      BY <1>4 DEF Settle
    <3>2. Issued \in [status : {"none", "proforma", "issued"}, total : Nat, balance : Int]
      BY <1>0 DEF MoneyTypeOK, Issued
    <3> QED
      BY <1>0, <3>1, <3>2 DEF MoneyTypeOK
  <2> QED
    BY <2>1, <2>2, <1>0, <1>1, <1>4, RestTypeKept, TypeOKNext DEF Settle
<1> QED
  BY <1>2, <1>3, <1>4 DEF FollowUpStep

\* Claiming and handling timers keeps the state typed.
LEMMA TimerStepType == ASSUME TypeOK, TimerStep PROVE TypeOK'
<1>0. /\ JobTypeOK /\ RestTypeOK /\ MoneyTypeOK /\ WorkTypeOK
      /\ dropoff \in Choice \cup {"none"}
      /\ {"quote_expired", "quote_declined"} \subseteq JobStatus /\ "none" \in Outcome
  BY TypeOKParts DEF JobTypeOK, JobStatus, QuoteStatus, Outcome
<1>1. ASSUME NEW kind, Handled(kind) PROVE WorkTypeOK'
  BY <1>0, <1>1 DEF Handled, WorkTypeOK
<1>2. ASSUME NEW kind \in TimerKind, ClaimTimer(kind) PROVE TypeOK'
  <2>1. JobTypeOK'
    BY <1>0, <1>2 DEF ClaimTimer, JobTypeOK
  <2>2. WorkTypeOK'
    BY <1>0, <1>2 DEF ClaimTimer, WorkTypeOK
  <2> QED
    BY <2>1, <2>2, <1>0, <1>2, RestTypeKept, MoneyTypeKept, TypeOKNext DEF ClaimTimer
<1>3. ASSUME QuoteExpiryHandler PROVE TypeOK'
  <2>1. WorkTypeOK'
    BY <1>1, <1>3 DEF QuoteExpiryHandler
  <2>2. JobTypeOK'
    <3>1. \/ Transition(status, "quote_expired", "system", dropoff, "none", FALSE)
          \/ UNCHANGED jobVars
      BY <1>3 DEF QuoteExpiryHandler
    <3> QED
      BY <1>0, <3>1, TransitionType, JobTypeKept
  <2>3. RestTypeOK'
    BY <1>0, <1>3 DEF QuoteExpiryHandler, RestTypeOK, bookingVars, benchVars, feeVars, QuoteRow
  <2> QED
    BY <2>1, <2>2, <2>3, <1>0, <1>3, MoneyTypeKept, TypeOKNext DEF QuoteExpiryHandler
<1>4. ASSUME AutoDeclineHandler PROVE TypeOK'
  <2>1. WorkTypeOK'
    BY <1>1, <1>4 DEF AutoDeclineHandler
  <2>2. JobTypeOK'
    <3>1. \/ Transition(status, "quote_declined", "system", dropoff, "none", TRUE)
          \/ UNCHANGED jobVars
      BY <1>4 DEF AutoDeclineHandler
    <3> QED
      BY <1>0, <3>1, TransitionType, JobTypeKept
  <2>3. RestTypeOK'
    BY <1>0, <1>4 DEF AutoDeclineHandler, RestTypeOK, bookingVars, benchVars, feeVars, QuoteRow
  <2> QED
    BY <2>1, <2>2, <2>3, <1>0, <1>4, MoneyTypeKept, TypeOKNext DEF AutoDeclineHandler
<1>5. ASSUME AutoCloseHandler PROVE TypeOK'
  <2>1. WorkTypeOK'
    BY <1>1, <1>5 DEF AutoCloseHandler
  <2>2. TerminalFor(outcome) \in JobStatus
    BY Zenon DEF TerminalFor, JobStatus, Terminal
  <2>3. CASE Move(TerminalFor(outcome), "system", "none", TRUE)
    BY <1>0, <2>1, <2>2, <2>3, MoveType, TypeOKNext
  <2>4. CASE UNCHANGED <<jobVars, bookingVars, benchVars, quoteVars, feeVars, payVars>>
    BY <1>0, <2>1, <2>4, JobTypeKept, RestTypeKept, MoneyTypeKept, TypeOKNext
  <2> QED
    BY <1>5, <2>3, <2>4 DEF AutoCloseHandler
<1>6. ASSUME NEW kind \in Reminders, ReminderHandler(kind) PROVE TypeOK'
  <2>1. WorkTypeOK'
    BY <1>1, <1>6 DEF ReminderHandler
  <2>2. JobTypeOK'
    <3>1. kind \in TimerKind
      BY DEF Reminders, TimerKind
    <3>2. PICK more \in {0, 1} : timers' = [timers EXCEPT ![kind] = @ + more]
      BY <1>6 DEF ReminderHandler
    <3> QED
      BY <1>0, <1>6, <3>1, <3>2 DEF ReminderHandler, JobTypeOK
  <2> QED
    BY <2>1, <2>2, <1>0, <1>6, RestTypeKept, MoneyTypeKept, TypeOKNext DEF ReminderHandler
<1> QED
  BY <1>2, <1>3, <1>4, <1>5, <1>6 DEF TimerStep, HandleTimer

\* A crash or a failing handler keeps the state typed.
LEMMA FaultStepType == ASSUME TypeOK, FaultStep PROVE TypeOK'
<1>0. JobTypeOK /\ RestTypeOK /\ MoneyTypeOK /\ WorkTypeOK
  BY TypeOKParts
<1>1. ASSUME NEW kind \in TimerKind, HandlerFails(kind) PROVE TypeOK'
  <2>1. JobTypeOK'
    BY <1>0, <1>1 DEF HandlerFails, JobTypeOK
  <2>2. WorkTypeOK'
    BY <1>0, <1>1 DEF HandlerFails, WorkTypeOK
  <2> QED
    BY <2>1, <2>2, <1>0, <1>1, RestTypeKept, MoneyTypeKept, TypeOKNext DEF HandlerFails
<1>2. ASSUME WorkerCrash PROVE TypeOK'
  <2>1. WorkTypeOK'
    BY <1>0, <1>2 DEF WorkerCrash, WorkTypeOK
  <2> QED
    BY <2>1, <1>0, <1>2, JobTypeKept, RestTypeKept, MoneyTypeKept, TypeOKNext DEF WorkerCrash
<1>3. ASSUME ServerCrash PROVE TypeOK'
  <2>1. WorkTypeOK'
    BY <1>0, <1>3 DEF ServerCrash, WorkTypeOK, NoReader
  <2> QED
    BY <2>1, <1>0, <1>3, JobTypeKept, RestTypeKept, MoneyTypeKept, TypeOKNext DEF ServerCrash
<1> QED
  BY <1>1, <1>2, <1>3 DEF FaultStep

\* The second half of a reading handler keeps the state typed.
LEMMA CommitStepType == ASSUME TypeOK, CommitStep PROVE TypeOK'
<1>0. /\ JobTypeOK /\ RestTypeOK /\ MoneyTypeOK /\ WorkTypeOK
      /\ dropoff \in Choice \cup {"none"} /\ status \in JobStatus \cup {"absent"}
      /\ followUp \in {"none", "deposit", "settle", "waive"}
      /\ {"quote_negotiating", "quote_sent"} \subseteq JobStatus /\ "none" \in Outcome
  BY TypeOKParts DEF JobTypeOK, WorkTypeOK, JobStatus, QuoteStatus, Outcome
<1>1. ASSUME SaveDraft PROVE TypeOK'
  <2>1. WorkTypeOK'
    BY <1>0, <1>1, CommitType DEF SaveDraft
  <2>2. JobTypeOK'
    BY <1>0, <1>1, AmountsAssumption DEF SaveDraft, JobTypeOK
  <2>3. RestTypeOK'
    BY <1>0, <1>1, AmountsAssumption
    DEF SaveDraft, RestTypeOK, benchVars, quoteVars, feeVars
  <2> QED
    BY <2>1, <2>2, <2>3, <1>0, <1>1, MoneyTypeKept, TypeOKNext DEF SaveDraft
<1>2. ASSUME CounterQuote PROVE TypeOK'
  <2>1. WorkTypeOK'
    BY <1>0, <1>2, CommitType DEF CounterQuote
  <2>2. JobTypeOK'
    <3>1. \/ Transition(status, "quote_negotiating", "customer", dropoff, "none", FALSE)
          \/ UNCHANGED jobVars
      BY <1>2 DEF CounterQuote
    <3> QED
      BY <1>0, <3>1, TransitionType, JobTypeKept
  <2>3. RestTypeOK'
    BY <1>0, <1>2 DEF CounterQuote, RestTypeOK, bookingVars, benchVars, feeVars, QuoteRow
  <2> QED
    BY <2>1, <2>2, <2>3, <1>0, <1>2, MoneyTypeKept, TypeOKNext DEF CounterQuote
<1>3. ASSUME SendSupp PROVE TypeOK'
  <2>1. WorkTypeOK' /\ SetSupp("sent")
    BY <1>0, <1>3, CommitType DEF SendSupp
  <2> QED
    BY <2>1, SuppType DEF QuoteRow
<1>4. ASSUME AcceptSuppCounter PROVE TypeOK'
  <2>1. WorkTypeOK' /\ SetSupp("accepted")
    BY <1>0, <1>4, CommitType DEF AcceptSuppCounter
  <2> QED
    BY <2>1, SuppType DEF QuoteRow
<1>5. ASSUME NEW price \in Prices, SendQuote(price) PROVE TypeOK'
  <2>1. WorkTypeOK'
    BY <1>0, <1>5, CommitType DEF SendQuote
  <2>2. JobTypeOK'
    <3>1. \/ Transition(status, "quote_sent", "technician", dropoff, "none", FALSE)
          \/ UNCHANGED jobVars
      BY <1>5 DEF SendQuote
    <3> QED
      BY <1>0, <3>1, TransitionType, JobTypeKept
  <2>3. RestTypeOK'
    BY <1>0, <1>5, AmountsAssumption
    DEF SendQuote, RestTypeOK, bookingVars, benchVars, feeVars, QuoteRow
  <2> QED
    BY <2>1, <2>2, <2>3, <1>0, <1>5, MoneyTypeKept, TypeOKNext DEF SendQuote
<1>6. ASSUME NEW choice \in Choice, ChooseDropoff(choice) PROVE TypeOK'
  <2>1. followUp' \in {"none", "settle"}
    BY <1>6 DEF ChooseDropoff
  <2>2. WorkTypeOK'
    BY <1>0, <1>6, <2>1, CommitType DEF ChooseDropoff
  <2>3. JobTypeOK'
    <3> DEFINE to == DropoffTarget(choice)
    <3>1. IF to = status
          THEN /\ dropoff' = choice
               /\ UNCHANGED <<status, outcome, reason, timers, warranty, passcode>>
          ELSE Transition(status, to, "customer", choice, "none", FALSE)
      BY <1>6 DEF ChooseDropoff
    <3>2. to \in {"ready_for_collection", "return_requested", "final_payment_pending", status}
      BY Zenon DEF DropoffTarget
    <3>3. {"ready_for_collection", "return_requested", "final_payment_pending"} \subseteq JobStatus
      BY DEF JobStatus, BenchStatus, OutboundStatus
    <3> HIDE DEF to
    <3>4. CASE to = status
      BY <1>0, <3>1, <3>4 DEF JobTypeOK
    <3>5. CASE to # status
      BY <1>0, <3>1, <3>2, <3>3, <3>5, TransitionType
    <3> QED
      BY <3>4, <3>5
  <2>4. RestTypeOK'
    BY <1>0, <1>6, FeeType DEF ChooseDropoff, RestTypeOK, bookingVars, benchVars, quoteVars
  <2>5. MoneyTypeOK'
    <3>1. /\ UNCHANGED <<paid, prompts>>
          /\ invoice' = invoice \/ invoice' = Proforma(DeliveryFee(choice))
      BY <1>6 DEF ChooseDropoff
    <3> QED
      BY <1>0, <3>1, FeeType, ProformaType DEF MoneyTypeOK
  <2> QED
    BY <2>2, <2>3, <2>4, <2>5, TypeOKNext
<1>7. ASSUME AbandonRead PROVE TypeOK'
  <2>1. WorkTypeOK'
    BY <1>0, <1>7 DEF AbandonRead, WorkTypeOK, NoReader
  <2> QED
    BY <2>1, <1>0, <1>7, JobTypeKept, RestTypeKept, MoneyTypeKept, TypeOKNext DEF AbandonRead
<1>8. ASSUME NEW choice \in Choice, DropoffCrash(choice) PROVE TypeOK'
  <2>1. WorkTypeOK'
    BY <1>0, <1>8 DEF DropoffCrash, WorkTypeOK, NoReader
  <2>2. MoneyTypeOK'
    BY <1>0, <1>8, FeeType, ProformaType DEF DropoffCrash, MoneyTypeOK
  <2> QED
    BY <2>1, <2>2, <1>0, <1>8, JobTypeKept, RestTypeKept, TypeOKNext DEF DropoffCrash
<1> QED
  BY <1>1, <1>2, <1>3, <1>4, <1>5, <1>6, <1>7, <1>8 DEF CommitStep

\* Every step keeps the state typed.
LEMMA StepType == TypeOK /\ [Next]_vars => TypeOK'
<1> SUFFICES ASSUME TypeOK, [Next]_vars PROVE TypeOK'
  OBVIOUS
<1>1. CASE CommitStep
  BY <1>1, CommitStepType
<1>2. CASE Step
  BY <1>2, BookingStepType, CancelStepType, CourierStepType, IntakeStepType, QuoteStepType,
     RepairStepType, ReturnStepType, PaymentStepType, FollowUpStepType, TimerStepType,
     FaultStepType
  DEF Step
<1>3. CASE UNCHANGED vars
  BY <1>3, TypeOKParts, JobTypeKept, RestTypeKept, MoneyTypeKept, WorkTypeKept, TypeOKNext
  DEF vars
<1> QED
  BY <1>1, <1>2, <1>3 DEF Next

\* Type correctness: counters and amounts stay natural numbers (but for a
\* balance, which an overpayment makes negative), whatever the interleaving.
THEOREM TypeCorrect == Spec => []TypeOK
<1>1. Init => TypeOK
  BY InitType
<1>2. TypeOK /\ [Next]_vars => TypeOK'
  BY StepType
<1> QED
  BY <1>1, <1>2, PTL DEF Spec

(***************************************************************************)
(* Every change of status is a move of transition_job                      *)
(***************************************************************************)
\* A scan brings the rider first, and a walk-in's draft is a draft only inside
\* the transaction that opens it.
Arrives ==
    {<<"pickup_requested", "rider_en_route_to_customer">>,
     <<"return_requested", "rider_en_route_to_shop">>,
     <<"absent", "draft">>}

\* What the handlers say to transition_job: the only outcome they ask for is
\* cancelled, with a reason, and always for a device that goes back from the
\* bench; a decline comes with its quote's, except for an expired one.
Worded(to, want, why) ==
    /\ want = "none" \/ (want = "cancelled" /\ why)
    /\ to = "return_fee_pending" => want = "cancelled"
    /\ to = "quote_declined" =>
            quote' = "declined" \/ (status = "quote_expired" /\ quote' = quote)

\* A move from the job's status, or from the one it has just passed through.
Moved ==
    \E from \in JobStatus, to \in JobStatus, actor \in Actor, drop \in Choice \cup {"none"},
       want \in Outcome, why \in BOOLEAN :
        /\ from = status \/ <<status, from>> \in Arrives
        /\ Transition(from, to, actor, drop, want, why)
        /\ Worded(to, want, why)

\* The worker takes a timer, finishes a reminder, or puts a timer back.
TimerWork ==
    \/ \E kind \in TimerKind : ClaimTimer(kind) \/ HandlerFails(kind)
    \/ \E kind \in Reminders : ReminderHandler(kind)

\* The columns that only transition_job writes stay as they are, and so do the
\* timers but for what the worker does with them.
Stayed ==
    UNCHANGED <<status, outcome, reason, warranty>> /\ (timers' = timers \/ TimerWork)

Created ==
    status = "absent" /\ status' = "draft" /\ UNCHANGED <<outcome, reason, warranty, timers>>

\* Every edge of job_transitions, whoever may take it.
AnyEdge == CustomerEdges \cup TechnicianEdges \cup AdminOnlyEdges \cup SystemEdges

\* A move allowed to any actor is one of the listed edges.
LEMMA AllowedEdge ==
    ASSUME NEW actor \in Actor, NEW from, NEW to, Allowed(from, to, actor)
    PROVE  <<from, to>> \in AnyEdge
<1>1. EdgesOf(actor) \in {CustomerEdges, TechnicianEdges, TechnicianEdges \cup AdminOnlyEdges,
                          ProviderEdges, SystemEdges}
  BY Zenon DEF EdgesOf, Actor, Admins
<1> QED
  BY <1>1 DEF Allowed, AnyEdge, SystemEdges

\* No edge leaves a terminal status.
LEMMA AllowedFrom ==
    ASSUME NEW actor \in Actor, NEW from, NEW to, Allowed(from, to, actor)
    PROVE  from \in JobStatus \ Terminal
<1> USE DEF JobStatus, InboundStatus, QuoteStatus, BenchStatus, OutboundStatus, Terminal
<1>1. <<from, to>> \in AnyEdge
  BY AllowedEdge
<1>2. ASSUME <<from, to>> \in CustomerEdges PROVE from \in JobStatus \ Terminal
  BY <1>2 DEF CustomerEdges
<1>3. ASSUME <<from, to>> \in TechnicianEdges PROVE from \in JobStatus \ Terminal
  BY <1>3 DEF TechnicianEdges
<1>4. ASSUME <<from, to>> \in AdminOnlyEdges PROVE from \in JobStatus \ Terminal
  BY <1>4 DEF AdminOnlyEdges
<1>5. ASSUME <<from, to>> \in SystemEdges PROVE from \in JobStatus \ Terminal
  BY <1>5 DEF SystemEdges, ProviderEdges
<1> QED
  BY <1>1, <1>2, <1>3, <1>4, <1>5 DEF AnyEdge

\* A call of transition_job on the status the job has is such a move.
LEMMA MovedBy ==
    ASSUME NEW to \in JobStatus, NEW actor \in Actor, NEW drop \in Choice \cup {"none"},
           NEW want \in Outcome, NEW why \in BOOLEAN,
           Transition(status, to, actor, drop, want, why), Worded(to, want, why)
    PROVE  Moved
<1>1. status \in JobStatus
  BY AllowedFrom DEF Transition
<1> QED
  BY <1>1 DEF Moved

\* A handover ends with such a move, also when it began with another.
LEMMA HandoverMoves ==
    ASSUME TypeOK, NEW early, NEW from \in SUBSET JobStatus, NEW to \in JobStatus,
           to \notin {"return_fee_pending", "quote_declined"},
           early = "none" \/ \A mid \in from : <<early, mid>> \in Arrives,
           NEW actor \in Actor, Handover(early, from, to, actor)
    PROVE  Moved
<1>1. PICK mid \in from : /\ status = early \/ mid = status
                          /\ Transition(mid, to, actor, dropoff, "none", FALSE)
  BY DEF Handover
<1>2. status # "none"
  BY DEF TypeOK, JobStatus, InboundStatus, QuoteStatus, BenchStatus, OutboundStatus, Terminal
<1>3. dropoff \in Choice \cup {"none"} /\ "none" \in Outcome /\ Worded(to, "none", FALSE)
  BY DEF TypeOK, Outcome, Worded
<1> QED
  BY <1>1, <1>2, <1>3 DEF Moved

\* Whatever handler runs, the status stays, or the job is created as a
\* draft, or transition_job has moved it: no other write changes it.
LEMMA StatusMoves ==
    ASSUME TypeOK, [Next]_vars
    PROVE  Moved \/ Stayed \/ Created
<1> USE DEF Stayed
<1>0. /\ dropoff \in Choice \cup {"none"}
      /\ {"none", "cancelled"} \subseteq Outcome
      /\ TRUE \in BOOLEAN /\ FALSE \in BOOLEAN
      /\ Actor = {"customer", "technician", "shop_admin", "platform_admin", "system", "provider"}
  BY DEF TypeOK, Outcome, Actor
<1>1. /\ InboundStatus \subseteq JobStatus \ Terminal /\ QuoteStatus \subseteq JobStatus
      /\ BenchStatus \subseteq JobStatus \ Terminal /\ OutboundStatus \subseteq JobStatus \ Terminal
      /\ Terminal \subseteq JobStatus
  BY DEF JobStatus, InboundStatus, QuoteStatus, BenchStatus, OutboundStatus, Terminal
<1>2. TerminalFor(outcome) \in JobStatus \ {"return_fee_pending", "quote_declined"}
  BY Zenon DEF TerminalFor, JobStatus, Terminal
<1>w. /\ \A to, why : to \notin {"return_fee_pending", "quote_declined"} => Worded(to, "none", why)
      /\ \A to : to # "quote_declined" => Worded(to, "cancelled", TRUE)
  BY DEF Worded
<1>3. ASSUME NEW to \in JobStatus, NEW actor \in Actor, NEW want \in Outcome,
             NEW why \in BOOLEAN, Move(to, actor, want, why), Worded(to, want, why)
      PROVE  Moved
  BY <1>0, <1>3, MovedBy DEF Move
<1>4. ASSUME BookingStep PROVE Moved \/ Stayed \/ Created
  <2>1. CASE CreateDraft
    BY <2>1 DEF CreateDraft, Created
  <2>2. CASE CreateWalkIn
    <3>1. PICK actor \in Staff :
            Transition("draft", "received_at_shop", actor, dropoff, "none", FALSE)
      BY <2>2 DEF CreateWalkIn
    <3>2. /\ actor \in Actor /\ <<status, "draft">> \in Arrives
          /\ "draft" \in JobStatus /\ "received_at_shop" \in JobStatus
      BY <1>0, <1>1, <2>2 DEF CreateWalkIn, Staff, Admins, Arrives, InboundStatus, BenchStatus
    <3> QED
      BY <1>0, <1>w, <3>1, <3>2 DEF Moved
  <2>3. CASE SubmitDraft
    <3>1. Transition(status, "pickup_fee_pending", "customer", dropoff, "none", FALSE)
      BY <2>3 DEF SubmitDraft
    <3> QED
      BY <1>0, <1>w, <1>1, <3>1, MovedBy DEF InboundStatus
  <2>4. CASE AcceptTerms \/ ReadDraft \/ \E fact \in BookingFact : AddBookingFact(fact)
    BY <2>4 DEF AcceptTerms, ReadDraft, Read, AddBookingFact, jobVars
  <2> QED
    BY <1>4, <2>1, <2>2, <2>3, <2>4 DEF BookingStep
<1>5. ASSUME CancelStep PROVE Moved
  BY <1>0, <1>w, <1>1, <1>3, <1>5
  DEF CancelStep, CustomerCancel, AdminCancel, BenchStatus, Terminal
<1>6. ASSUME CourierStep PROVE Moved
  <2>1. ASSUME NEW to \in JobStatus, CourierReport(to) PROVE Moved
    <3> DEFINE why == to \in {"pickup_failed", "return_failed"}
    <3>1. why \in BOOLEAN
      OBVIOUS
    <3>2. Move(to, "provider", "none", why)
      BY <2>1 DEF CourierReport
    <3>3. EdgesOf("provider") = ProviderEdges
      BY Zenon DEF EdgesOf, Admins
    <3>4. <<status, to>> \in ProviderEdges
      BY <3>2, <3>3 DEF Move, Transition, Allowed
    <3>5. to \notin {"return_fee_pending", "quote_declined"}
      BY <3>4 DEF ProviderEdges
    <3> HIDE DEF why
    <3> QED
      BY <1>0, <1>w, <1>3, <3>1, <3>2, <3>5
  <2>2. CASE RebookPickup
    BY <1>0, <1>w, <1>1, <1>3, <2>2 DEF RebookPickup, InboundStatus
  <2>3. CASE CustomerToRider
    <3>1. /\ {"rider_en_route_to_customer"} \in SUBSET JobStatus
          /\ "customer" \in Actor /\ "picked_up" \in JobStatus
          /\ <<"pickup_requested", "rider_en_route_to_customer">> \in Arrives
      BY <1>0, <1>1 DEF InboundStatus, Arrives
    <3> QED
      BY <2>3, <3>1, HandoverMoves DEF CustomerToRider
  <2>4. CASE RiderToShop
    <3>1. /\ {"picked_up", "in_transit_to_shop"} \in SUBSET JobStatus
          /\ "technician" \in Actor /\ "received_at_shop" \in JobStatus
      BY <1>0, <1>1 DEF InboundStatus, BenchStatus
    <3> QED
      BY <2>4, <3>1, HandoverMoves DEF RiderToShop
  <2>5. CASE ShopToRider
    <3>1. /\ {"rider_en_route_to_shop"} \in SUBSET JobStatus
          /\ "technician" \in Actor /\ "collected_from_shop" \in JobStatus
          /\ <<"return_requested", "rider_en_route_to_shop">> \in Arrives
      BY <1>0, <1>1 DEF OutboundStatus, Arrives
    <3> QED
      BY <2>5, <3>1, HandoverMoves DEF ShopToRider
  <2>6. CASE RiderToCustomer
    <3>1. /\ {"collected_from_shop", "in_transit_to_customer"} \in SUBSET JobStatus
          /\ "customer" \in Actor /\ "delivered" \in JobStatus
      BY <1>0, <1>1 DEF OutboundStatus
    <3> QED
      BY <2>6, <3>1, HandoverMoves DEF RiderToCustomer
  <2> QED
    BY <1>6, <2>1, <2>2, <2>3, <2>4, <2>5, <2>6 DEF CourierStep
<1>7. ASSUME IntakeStep PROVE Moved
  <2>1. CASE CompleteIntake
    <3>1. PICK to \in {"diagnosing", "intake_ack_pending"} :
            Transition(status, to, "technician", dropoff, "none", FALSE)
      BY <2>1 DEF CompleteIntake
    <3> QED
      BY <1>0, <1>w, <1>1, <3>1, MovedBy DEF BenchStatus
  <2>2. CASE AcknowledgeIntake
    <3>1. Transition(status, "diagnosing", "customer", dropoff, "none", FALSE)
      BY <2>2 DEF AcknowledgeIntake
    <3> QED
      BY <1>0, <1>w, <1>1, <3>1, MovedBy DEF BenchStatus
  <2>3. CASE RejectIntake
    BY <1>0, <1>w, <1>1, <1>3, <2>3 DEF RejectIntake, BenchStatus
  <2> QED
    BY <1>7, <2>1, <2>2, <2>3 DEF IntakeStep
<1>8. ASSUME QuoteStep PROVE Moved \/ Stayed
  <2>1. ASSUME NEW price, NEW actor \in Actor, AcceptAt(price, actor) PROVE Moved
    <3>1. Transition(status, "deposit_pending", actor, dropoff, "none", FALSE)
      BY <2>1 DEF AcceptAt
    <3> QED
      BY <1>0, <1>w, <1>1, <3>1, MovedBy DEF BenchStatus
  <2>2. CASE CustomerDecline
    <3>1. /\ Transition(status, "quote_declined", "customer", dropoff, "none", FALSE)
          /\ Worded("quote_declined", "none", FALSE)
      BY <2>2 DEF CustomerDecline, Worded
    <3> QED
      BY <1>0, <1>1, <3>1, MovedBy DEF QuoteStatus
  <2>3. CASE ReadForQuote \/ ReadForCounter
    BY <2>3 DEF ReadForQuote, ReadForCounter, Read, jobVars
  <2> QED
    BY <1>0, <1>8, <2>1, <2>2, <2>3 DEF QuoteStep, CustomerAccept, ShopAcceptCounter
<1>9. ASSUME RepairStep PROVE Moved \/ Stayed
  <2>1. CASE CompleteRepair
    <3>1. Transition(status, "repair_complete", "technician", dropoff, "none", FALSE)
      BY <2>1 DEF CompleteRepair
    <3> QED
      BY <1>0, <1>w, <1>1, <3>1, MovedBy DEF BenchStatus
  <2> QED
    BY <1>9, <2>1 DEF RepairStep, ReadForSupp, ReadSuppCounter, AnswerSupp, Read, SetSupp, jobVars
<1>10. ASSUME ReturnStep PROVE Moved \/ Stayed
  <2>1. CASE RequestDispatch \/ ConfirmDelivered \/ CounterHandover
    BY <1>0, <1>w, <1>1, <1>2, <1>3, <2>1
    DEF RequestDispatch, ConfirmDelivered, CounterHandover, OutboundStatus
  <2> QED
    BY <1>10, <2>1 DEF ReturnStep, ReadForDropoff, WaiveReturnFee, Read, jobVars
<1>11. ASSUME PaymentStep PROVE Moved \/ Stayed
  <2>1. ASSUME NEW purpose, NEW amount, Confirm(purpose, amount) PROVE Moved \/ Stayed
    <3> DEFINE to == Unlocks(purpose, Adding(purpose, amount))
    <3>1. CASE to = "none"
      BY <2>1, <3>1 DEF Confirm, jobVars
    <3>2. CASE to # "none"
      <4>1. Transition(status, to, "system", dropoff, "none", FALSE)
        BY <2>1, <3>2 DEF Confirm
      <4>2. to \in {"none", "pickup_requested", "in_repair", "dispatch_pending"}
        BY Zenon DEF Unlocks
      <4>3. {"pickup_requested", "in_repair", "dispatch_pending"} \subseteq JobStatus
        BY <1>1 DEF InboundStatus, BenchStatus, OutboundStatus
      <4> HIDE DEF to
      <4> QED
        BY <1>0, <1>w, <3>2, <4>1, <4>2, <4>3, MovedBy
    <3> QED
      BY <3>1, <3>2
  <2> QED
    BY <1>11, <2>1
    DEF PaymentStep, SendPrompt, CashPayment, PromptFails, PromptConfirmed, PromptRefused, jobVars
<1>12. ASSUME FollowUpStep PROVE Moved \/ Stayed
  <2>1. CASE Settle
    <3>1. \/ Transition(status, "dispatch_pending", "system", dropoff, "none", FALSE)
          \/ UNCHANGED jobVars
      BY <2>1 DEF Settle
    <3> QED
      BY <1>0, <1>w, <1>1, <3>1, MovedBy DEF OutboundStatus, jobVars
  <2>2. CASE SkipZeroDeposit
    BY <1>0, <1>w, <1>1, <1>3, <2>2 DEF SkipZeroDeposit, BenchStatus, jobVars
  <2>3. CASE ReleaseWaived
    BY <1>0, <1>w, <1>1, <1>3, <2>3 DEF ReleaseWaived, OutboundStatus, jobVars
  <2> QED
    BY <1>12, <2>1, <2>2, <2>3 DEF FollowUpStep
<1>13. ASSUME TimerStep PROVE Moved \/ Stayed
  <2>1. CASE QuoteExpiryHandler \/ AutoDeclineHandler
    <3>1. \/ Transition(status, "quote_expired", "system", dropoff, "none", FALSE)
          \/ /\ Transition(status, "quote_declined", "system", dropoff, "none", TRUE)
             /\ Worded("quote_declined", "none", TRUE)
          \/ UNCHANGED jobVars
      BY <2>1 DEF QuoteExpiryHandler, AutoDeclineHandler, Worded
    <3> QED
      BY <1>0, <1>w, <1>1, <3>1, MovedBy DEF QuoteStatus, jobVars
  <2>2. CASE AutoCloseHandler
    BY <1>0, <1>w, <1>2, <1>3, <2>2 DEF AutoCloseHandler, jobVars
  <2>3. CASE (\E kind \in TimerKind : ClaimTimer(kind)) \/ \E kind \in Reminders : ReminderHandler(kind)
    BY <2>3 DEF ClaimTimer, ReminderHandler, TimerWork
  <2> QED
    BY <1>13, <2>1, <2>2, <2>3 DEF TimerStep, HandleTimer
<1>14. ASSUME FaultStep PROVE Stayed
  BY <1>14 DEF FaultStep, HandlerFails, WorkerCrash, ServerCrash, jobVars, TimerWork
<1>15. ASSUME CommitStep PROVE Moved \/ Stayed
  <2>1. CASE CounterQuote \/ \E price \in Prices : SendQuote(price)
    <3>1. \/ Transition(status, "quote_negotiating", "customer", dropoff, "none", FALSE)
          \/ Transition(status, "quote_sent", "technician", dropoff, "none", FALSE)
          \/ UNCHANGED jobVars
      BY <2>1 DEF CounterQuote, SendQuote
    <3> QED
      BY <1>0, <1>w, <1>1, <3>1, MovedBy DEF QuoteStatus, jobVars
  <2>2. ASSUME NEW choice \in Choice, ChooseDropoff(choice) PROVE Moved \/ Stayed
    <3> DEFINE to == DropoffTarget(choice)
    <3>1. \/ to = status /\ Stayed
          \/ to # status /\ Transition(status, to, "customer", choice, "none", FALSE)
      BY <2>2 DEF ChooseDropoff
    <3>2. to \in {"ready_for_collection", "return_requested", "final_payment_pending", status}
      BY Zenon DEF DropoffTarget
    <3>3. {"ready_for_collection", "return_requested", "final_payment_pending"} \subseteq JobStatus
      BY DEF JobStatus, BenchStatus, OutboundStatus
    <3> HIDE DEF to
    <3> QED
      BY <1>0, <1>w, <3>1, <3>2, <3>3, MovedBy
  <2> QED
    BY <1>15, <2>1, <2>2
    DEF CommitStep, SaveDraft, SendSupp, AcceptSuppCounter, SetSupp, AbandonRead, DropoffCrash, jobVars
<1>16. ASSUME UNCHANGED vars PROVE Stayed
  BY <1>16 DEF vars, jobVars
<1> QED
  BY <1>4, <1>5, <1>6, <1>7, <1>8, <1>9, <1>10, <1>11, <1>12, <1>13, <1>14, <1>15, <1>16
  DEF Next, Step

(***************************************************************************)
(* A walk-in's gate                                                        *)
(***************************************************************************)
Work == UnderDiagnosis \cup UnderRepair

\* Work is entered through diagnosis alone.
LEMMA IntoWork ==
    ASSUME NEW actor \in Actor, NEW from, NEW to, Allowed(from, to, actor),
           to \in Work, to # "diagnosing"
    PROVE  from \in Work
<1> USE DEF Work, UnderDiagnosis, UnderRepair, Terminal
<1>1. <<from, to>> \in AnyEdge
  BY AllowedEdge
<1>2. ASSUME <<from, to>> \in CustomerEdges PROVE from \in Work
  BY <1>2 DEF CustomerEdges
<1>3. ASSUME <<from, to>> \in TechnicianEdges PROVE from \in Work
  BY <1>3 DEF TechnicianEdges
<1>4. ASSUME <<from, to>> \in AdminOnlyEdges PROVE from \in Work
  BY <1>4 DEF AdminOnlyEdges
<1>5. ASSUME <<from, to>> \in SystemEdges PROVE from \in Work
  BY <1>5 DEF SystemEdges, ProviderEdges
<1> QED
  BY <1>1, <1>2, <1>3, <1>4, <1>5 DEF AnyEdge

\* Nothing a job passes through on the way is a status of work.
LEMMA LandingInWork ==
    ASSUME NEW to, NEW drop, Landing(to, drop) \in Work
    PROVE  Landing(to, drop) = to
BY Zenon DEF Landing, Work, UnderDiagnosis, UnderRepair

\* Payments and consent are never taken back.
LEMMA ConfirmGrows ==
    ASSUME TypeOK, NEW purpose \in Purpose, NEW amount \in Nat, Confirm(purpose, amount)
    PROVE  /\ origin' = origin /\ terms' = terms
           /\ \A p \in Purpose : paid'[p] >= paid[p]
<1>1. paid' = [paid EXCEPT ![purpose] = @ + amount] /\ UNCHANGED bookingVars
  BY DEF Confirm, Adding
<1> QED
  BY <1>1, TypeOKParts DEF MoneyTypeOK, bookingVars

\* The origin is fixed, and neither consent nor a payment is ever taken back.
LEMMA Grows ==
    ASSUME TypeOK, [Next]_vars
    PROVE  /\ origin' = origin /\ (terms => terms')
           /\ \A p \in Purpose : paid'[p] >= paid[p]
<1> DEFINE Kept == origin' = origin /\ (terms' = terms \/ terms' = TRUE) /\ paid' = paid
<1>0. paid \in [Purpose -> Nat]
  BY TypeOKParts DEF MoneyTypeOK
<1>1. ASSUME PaymentStep
      PROVE  Kept \/ /\ origin' = origin /\ terms' = terms
                     /\ \A p \in Purpose : paid'[p] >= paid[p]
  <2>1. ASSUME NEW purpose \in Purpose, CashPayment(purpose)
        PROVE  /\ origin' = origin /\ terms' = terms
               /\ \A p \in Purpose : paid'[p] >= paid[p]
    <3>1. AmountDue(purpose) \in Nat /\ Confirm(purpose, AmountDue(purpose))
      BY <2>1, TypeOKParts, AmountDueType DEF CashPayment
    <3> QED
      BY <3>1, ConfirmGrows
  <2>2. ASSUME NEW q \in prompts, PromptConfirmed(q)
        PROVE  /\ origin' = origin /\ terms' = terms
               /\ \A p \in Purpose : paid'[p] >= paid[p]
    <3>1. q.purpose \in Purpose /\ q.amount \in Nat /\ Confirm(q.purpose, q.amount)
      BY <2>2, TypeOKParts DEF PromptConfirmed, MoneyTypeOK
    <3> QED
      BY <3>1, ConfirmGrows
  <2> QED
    BY <1>1, <2>1, <2>2 DEF PaymentStep, SendPrompt, PromptFails, PromptRefused, bookingVars
<1> USE DEF bookingVars, payVars
<1>2. ASSUME BookingStep PROVE Kept
  BY <1>2
  DEF BookingStep, CreateDraft, CreateWalkIn, AcceptTerms, ReadDraft, Read, SubmitDraft, AddBookingFact
<1>3. ASSUME CancelStep \/ CourierStep PROVE Kept
  BY <1>3
  DEF CancelStep, CustomerCancel, AdminCancel, CourierStep, CourierReport, RebookPickup, Move,
      CustomerToRider, RiderToShop, ShopToRider, RiderToCustomer, Handover
<1>4. ASSUME IntakeStep \/ QuoteStep PROVE Kept
  BY <1>4
  DEF IntakeStep, CompleteIntake, AcknowledgeIntake, RejectIntake, Move, Read, QuoteStep,
      ReadForQuote, ReadForCounter, CustomerAccept, ShopAcceptCounter, AcceptAt, CustomerDecline
<1>5. ASSUME RepairStep \/ ReturnStep PROVE Kept
  BY <1>5
  DEF RepairStep, ReadForSupp, ReadSuppCounter, AnswerSupp, SetSupp, CompleteRepair, Read, Move,
      ReturnStep, ReadForDropoff, WaiveReturnFee, RequestDispatch, ConfirmDelivered, CounterHandover
<1>6. ASSUME FollowUpStep \/ TimerStep \/ FaultStep PROVE Kept
  BY <1>6
  DEF FollowUpStep, SkipZeroDeposit, Settle, ReleaseWaived, Move, TimerStep, HandleTimer,
      ClaimTimer, QuoteExpiryHandler, AutoDeclineHandler, AutoCloseHandler, ReminderHandler,
      FaultStep, HandlerFails, WorkerCrash, ServerCrash
<1>7. ASSUME CommitStep PROVE Kept
  BY <1>7
  DEF CommitStep, SaveDraft, CounterQuote, SendSupp, AcceptSuppCounter, SetSupp, SendQuote,
      ChooseDropoff, AbandonRead, DropoffCrash
<1>8. ASSUME UNCHANGED vars PROVE Kept
  BY <1>8 DEF vars
<1>9. Kept => \A p \in Purpose : paid'[p] >= paid[p]
  <2> SUFFICES ASSUME paid' = paid, NEW p \in Purpose PROVE paid'[p] >= paid[p]
    OBVIOUS
  <2>1. paid[p] \in Nat
    BY <1>0
  <2> QED
    BY <2>1
<1>10. Kept \/ /\ origin' = origin /\ terms' = terms
               /\ \A p \in Purpose : paid'[p] >= paid[p]
  BY <1>1, <1>2, <1>3, <1>4, <1>5, <1>6, <1>7, <1>8 DEF Next, Step
<1>11. terms => terms'
  <2>1. terms' = terms \/ terms' = TRUE
    BY <1>10
  <2> QED
    BY <2>1
<1> QED
  BY <1>9, <1>10, <1>11

\* Whatever happens between consent, payment, intake and quote, nobody works
\* on the device of a walk-in who has not consented and paid.
THEOREM WalkInGateHolds == Spec => []WalkInGate
<1>1. Init => WalkInGate
  BY DEF Init, WalkInGate, UnderDiagnosis, UnderRepair
<1>2. TypeOK /\ WalkInGate /\ [Next]_vars => WalkInGate'
  <2> SUFFICES ASSUME TypeOK, WalkInGate, [Next]_vars,
                      origin' = "walk_in", status' \in Work
               PROVE  terms' /\ paid'["pickup_fee"] >= ConsultFee
    BY DEF WalkInGate, Work
  <2>1. /\ origin = "walk_in" /\ (terms => terms')
        /\ paid'["pickup_fee"] >= paid["pickup_fee"]
    BY Grows DEF Purpose
  <2>2. /\ paid["pickup_fee"] \in Nat /\ paid'["pickup_fee"] \in Nat /\ ConsultFee \in Nat
    BY StepType, AmountsAssumption, TypeOKParts DEF TypeOK, Purpose
  <2>3. ASSUME terms /\ paid["pickup_fee"] >= ConsultFee
        PROVE  terms' /\ paid'["pickup_fee"] >= ConsultFee
    BY <2>1, <2>2, <2>3
  <2>4. CASE Stayed
    BY <2>1, <2>3, <2>4 DEF Stayed, WalkInGate, Work
  <2>5. CASE Created
    BY <2>5 DEF Created, Work, UnderDiagnosis, UnderRepair
  <2>6. CASE Moved
    <3>1. PICK from \in JobStatus, to \in JobStatus, actor \in Actor,
               drop \in Choice \cup {"none"}, want \in Outcome, why \in BOOLEAN :
            /\ from = status \/ <<status, from>> \in Arrives
            /\ Transition(from, to, actor, drop, want, why)
      BY <2>6 DEF Moved
    <3>2. Allowed(from, to, actor) /\ Guard(from, to, drop, why) /\ status' = Landing(to, drop)
      BY <3>1 DEF Transition
    <3>3. to \in Work
      BY <3>2, LandingInWork
    <3>4. CASE to = "diagnosing"
      BY <2>1, <2>3, <3>2, <3>4 DEF Guard, WalkInReady, UpfrontPaid, UpfrontFee
    <3>5. CASE to # "diagnosing"
      <4>1. from \in Work
        BY <3>2, <3>3, <3>5, IntoWork
      <4>2. from = status
        BY <3>1, <4>1 DEF Arrives, Work, UnderDiagnosis, UnderRepair
      <4> QED
        BY <2>1, <2>3, <4>1, <4>2 DEF WalkInGate, Work
    <3> QED
      BY <3>4, <3>5
  <2> QED
    BY <2>4, <2>5, <2>6, StatusMoves
<1> QED
  BY <1>1, <1>2, TypeCorrect, PTL DEF Spec

(***************************************************************************)
(* The deposit                                                             *)
(***************************************************************************)
LEMMA IntoRepair ==
    ASSUME NEW actor \in Actor, NEW from, NEW to, Allowed(from, to, actor),
           to \in UnderRepair, to # "in_repair"
    PROVE  from \in UnderRepair
<1> USE DEF UnderRepair, Terminal
<1>1. <<from, to>> \in AnyEdge
  BY AllowedEdge
<1>2. ASSUME <<from, to>> \in CustomerEdges PROVE from \in UnderRepair
  BY <1>2 DEF CustomerEdges
<1>3. ASSUME <<from, to>> \in TechnicianEdges PROVE from \in UnderRepair
  BY <1>3 DEF TechnicianEdges
<1>4. ASSUME <<from, to>> \in AdminOnlyEdges PROVE from \in UnderRepair
  BY <1>4 DEF AdminOnlyEdges
<1>5. ASSUME <<from, to>> \in SystemEdges PROVE from \in UnderRepair
  BY <1>5 DEF SystemEdges, ProviderEdges
<1> QED
  BY <1>1, <1>2, <1>3, <1>4, <1>5 DEF AnyEdge

\* The accepted price changes only as the job comes to wait for the deposit.
LEMMA AcceptedKept ==
    ASSUME [Next]_vars
    PROVE  accepted' = accepted \/ status' = "deposit_pending"
<1> USE DEF quoteVars
<1>1. ASSUME BookingStep \/ CancelStep \/ CourierStep PROVE accepted' = accepted
  BY <1>1
  DEF BookingStep, CreateDraft, CreateWalkIn, AcceptTerms, ReadDraft, Read, SubmitDraft,
      AddBookingFact, CancelStep, CustomerCancel, AdminCancel, CourierStep, CourierReport,
      RebookPickup, Move, CustomerToRider, RiderToShop, ShopToRider, RiderToCustomer, Handover
<1>2. ASSUME NEW price, NEW actor, AcceptAt(price, actor) PROVE status' = "deposit_pending"
  <2>1. status' = Landing("deposit_pending", dropoff)
    BY <1>2 DEF AcceptAt, Transition
  <2> QED
    BY <2>1, Zenon DEF Landing
<1>3. ASSUME IntakeStep \/ QuoteStep PROVE accepted' = accepted \/ status' = "deposit_pending"
  BY <1>2, <1>3
  DEF IntakeStep, CompleteIntake, AcknowledgeIntake, RejectIntake, Move, Read, QuoteStep,
      ReadForQuote, ReadForCounter, CustomerAccept, ShopAcceptCounter, CustomerDecline
<1>4. ASSUME RepairStep \/ ReturnStep PROVE accepted' = accepted
  BY <1>4
  DEF RepairStep, ReadForSupp, ReadSuppCounter, AnswerSupp, SetSupp, CompleteRepair, Read, Move,
      ReturnStep, ReadForDropoff, WaiveReturnFee, RequestDispatch, ConfirmDelivered, CounterHandover
<1>5. ASSUME PaymentStep PROVE accepted' = accepted
  BY <1>5 DEF PaymentStep, SendPrompt, CashPayment, PromptFails, PromptConfirmed, PromptRefused, Confirm
<1>6. ASSUME FollowUpStep \/ TimerStep \/ FaultStep PROVE accepted' = accepted
  BY <1>6
  DEF FollowUpStep, SkipZeroDeposit, Settle, ReleaseWaived, Move, TimerStep, HandleTimer,
      ClaimTimer, QuoteExpiryHandler, AutoDeclineHandler, AutoCloseHandler, ReminderHandler,
      FaultStep, HandlerFails, WorkerCrash, ServerCrash
<1>7. ASSUME CommitStep PROVE accepted' = accepted
  BY <1>7
  DEF CommitStep, SaveDraft, CounterQuote, SendSupp, AcceptSuppCounter, SetSupp, SendQuote,
      ChooseDropoff, AbandonRead, DropoffCrash
<1>8. ASSUME UNCHANGED vars PROVE accepted' = accepted
  BY <1>8 DEF vars
<1> QED
  BY <1>1, <1>3, <1>4, <1>5, <1>6, <1>7, <1>8 DEF Next, Step

\* However late quotes, counters, payments and zero-deposit steps come, a
\* device is under repair only once its accepted deposit is paid.
THEOREM DepositCovered == Spec => []DepositCoversRepair
<1>1. Init => DepositCoversRepair
  BY DEF Init, DepositCoversRepair, UnderRepair
<1>2. TypeOK /\ DepositCoversRepair /\ [Next]_vars => DepositCoversRepair'
  <2> SUFFICES ASSUME TypeOK, DepositCoversRepair, [Next]_vars, status' \in UnderRepair
               PROVE  paid'["deposit"] >= accepted'.deposit
    BY DEF DepositCoversRepair
  <2>1. paid'["deposit"] >= paid["deposit"]
    BY Grows DEF Purpose
  <2>2. accepted' = accepted
    BY AcceptedKept DEF UnderRepair
  <2>3. paid["deposit"] \in Nat /\ paid'["deposit"] \in Nat /\ accepted.deposit \in Nat
    BY StepType DEF TypeOK, Purpose
  <2>4. ASSUME status \in UnderRepair PROVE paid'["deposit"] >= accepted'.deposit
    BY <2>1, <2>2, <2>3, <2>4 DEF DepositCoversRepair
  <2>5. CASE Stayed
    BY <2>4, <2>5 DEF Stayed
  <2>6. CASE Created
    BY <2>6 DEF Created, UnderRepair
  <2>7. CASE Moved
    <3>1. PICK from \in JobStatus, to \in JobStatus, actor \in Actor,
               drop \in Choice \cup {"none"}, want \in Outcome, why \in BOOLEAN :
            /\ from = status \/ <<status, from>> \in Arrives
            /\ Transition(from, to, actor, drop, want, why)
      BY <2>7 DEF Moved
    <3>2. /\ Allowed(from, to, actor) /\ PaymentGuard(from, to, drop, paid')
          /\ status' = Landing(to, drop)
      BY <3>1 DEF Transition, Guard
    <3>3. to \in UnderRepair
      BY <3>2, LandingInWork DEF Work
    <3>4. CASE to = "in_repair"
      BY <2>2, <3>2, <3>4 DEF PaymentGuard
    <3>5. CASE to # "in_repair"
      <4>1. from \in UnderRepair
        BY <3>2, <3>3, <3>5, IntoRepair
      <4> QED
        BY <2>4, <3>1, <4>1 DEF Arrives, UnderRepair
    <3> QED
      BY <3>4, <3>5
  <2> QED
    BY <2>5, <2>6, <2>7, StatusMoves
<1> QED
  BY <1>1, <1>2, TypeCorrect, PTL DEF Spec

(***************************************************************************)
(* The outcome                                                             *)
(***************************************************************************)
\* Before anything is decided about the job.
Early ==
    {"absent"} \cup InboundStatus \cup QuoteStatus
      \cup {"received_at_shop", "intake_ack_pending", "diagnosing", "deposit_pending"}

\* No edge leads back.
LEMMA NeverBack ==
    ASSUME NEW actor \in Actor, NEW from, NEW to, Allowed(from, to, actor), to \in Early
    PROVE  from \in Early
<1> USE DEF Early, InboundStatus, QuoteStatus, Terminal
<1>1. <<from, to>> \in AnyEdge
  BY AllowedEdge
<1>2. ASSUME <<from, to>> \in CustomerEdges PROVE from \in Early
  BY <1>2 DEF CustomerEdges
<1>3. ASSUME <<from, to>> \in TechnicianEdges PROVE from \in Early
  BY <1>3 DEF TechnicianEdges
<1>4. ASSUME <<from, to>> \in AdminOnlyEdges PROVE from \in Early
  BY <1>4 DEF AdminOnlyEdges
<1>5. ASSUME <<from, to>> \in SystemEdges PROVE from \in Early
  BY <1>5 DEF SystemEdges, ProviderEdges
<1> QED
  BY <1>1, <1>2, <1>3, <1>4, <1>5 DEF AnyEdge

\* An outcome is decided only on entering these statuses, and a decided one
\* changes only on the first two.
LEMMA OutcomeChanges ==
    ASSUME NEW to, NEW o, NEW want
    PROVE  /\ OutcomeOn(to, o, want) = o
              \/ to \in {"cancelled", "quote_declined", "return_fee_pending", "in_repair"}
           /\ o # "none" => OutcomeOn(to, o, want) = o \/ to \in {"cancelled", "quote_declined"}
           /\ to = "cancelled" => OutcomeOn(to, o, want) = "cancelled"
BY Zenon DEF OutcomeOn

\* Where a move lands: on its target, on the shelf, or at the return fee.
LEMMA LandingCases ==
    ASSUME NEW to, NEW drop
    PROVE  \/ to = "quote_declined" /\ Landing(to, drop) = "return_fee_pending"
           \/ to = "dispatch_pending" /\ Landing(to, drop) = "ready_for_collection"
           \/ to # "quote_declined" /\ Landing(to, drop) = to
BY Zenon DEF Landing

DecidedLate == outcome # "none" => status \notin Early

\* Before the fate of the device is decided the job has no outcome.
LEMMA DecidedLateHolds == Spec => []DecidedLate
<1>1. Init => DecidedLate
  BY DEF Init, DecidedLate
<1>2. TypeOK /\ DecidedLate /\ [Next]_vars => DecidedLate'
  <2> SUFFICES ASSUME TypeOK, DecidedLate, [Next]_vars, outcome' # "none"
               PROVE  status' \notin Early
    BY DEF DecidedLate
  <2>1. CASE Stayed
    BY <2>1 DEF Stayed, DecidedLate
  <2>2. CASE Created
    BY <2>2 DEF Created, DecidedLate, Early
  <2>3. CASE Moved
    <3>1. PICK from \in JobStatus, to \in JobStatus, actor \in Actor,
               drop \in Choice \cup {"none"}, want \in Outcome, why \in BOOLEAN :
            /\ from = status \/ <<status, from>> \in Arrives
            /\ Transition(from, to, actor, drop, want, why)
      BY <2>3 DEF Moved
    <3> DEFINE at == Landing(to, drop)
    <3>2. /\ Allowed(from, to, actor) /\ status' = at
          /\ outcome' = OutcomeOn(at, OutcomeOn(to, outcome, want), "none")
      BY <3>1 DEF Transition
    <3>3. \/ to = "quote_declined" /\ at = "return_fee_pending"
          \/ to = "dispatch_pending" /\ at = "ready_for_collection"
          \/ at = to
      BY LandingCases
    <3> HIDE DEF at
    <3>4. CASE outcome # "none"
      <4>1. from \notin Early
        BY <3>1, <3>4 DEF DecidedLate, Arrives, Early, InboundStatus, QuoteStatus
      <4>2. to \notin Early
        BY <3>2, <4>1, NeverBack
      <4> QED
        BY <3>2, <3>3, <4>2 DEF Early, InboundStatus, QuoteStatus
    <3>5. CASE outcome = "none"
      <4> DEFINE Decides == {"cancelled", "quote_declined", "return_fee_pending", "in_repair"}
                 mid == OutcomeOn(to, outcome, want)
      <4>0. /\ mid = outcome \/ to \in Decides
            /\ OutcomeOn(at, mid, "none") = mid \/ at \in Decides
        BY OutcomeChanges
      <4> HIDE DEF mid
      <4>1. at \in Decides \/ to \in Decides
        BY <3>2, <3>5, <4>0 DEF mid
      <4>2. at # "quote_declined"
        BY <3>3, LandingCases DEF at
      <4>3. at \in {"cancelled", "return_fee_pending", "in_repair"}
        BY <3>3, <4>1, <4>2
      <4> QED
        BY <3>2, <4>3 DEF Early, InboundStatus, QuoteStatus
    <3> QED
      BY <3>4, <3>5
  <2> QED
    BY <2>1, <2>2, <2>3, StatusMoves
<1> QED
  BY <1>1, <1>2, TypeCorrect, PTL DEF Spec

\* A repaired, declined or cancelled job never becomes another one on its way
\* home, except by being cancelled: the outcome is decided late, and no edge
\* leads back to a quote that could be declined.
THEOREM OutcomeStands == Spec => OutcomeDecidedOnce
<1>1. TypeOK /\ DecidedLate /\ [Next]_vars
        => (outcome # "none" /\ outcome' # outcome => outcome' = "cancelled")
  <2> SUFFICES ASSUME TypeOK, DecidedLate, [Next]_vars, outcome # "none", outcome' # outcome
               PROVE  outcome' = "cancelled"
    OBVIOUS
  <2>1. Moved
    BY StatusMoves DEF Stayed, Created
  <2>2. PICK from \in JobStatus, to \in JobStatus, actor \in Actor,
             drop \in Choice \cup {"none"}, want \in Outcome, why \in BOOLEAN :
          /\ from = status \/ <<status, from>> \in Arrives
          /\ Transition(from, to, actor, drop, want, why)
    BY <2>1 DEF Moved
  <2> DEFINE at == Landing(to, drop)
             mid == OutcomeOn(to, outcome, want)
  <2>3. Allowed(from, to, actor) /\ outcome' = OutcomeOn(at, mid, "none")
    BY <2>2 DEF Transition
  <2>4. from \notin Early
    BY <2>2 DEF DecidedLate, Arrives, Early, InboundStatus, QuoteStatus
  <2>5. to \notin Early
    BY <2>3, <2>4, NeverBack
  <2>6. to # "quote_declined"
    BY <2>5 DEF Early, QuoteStatus
  <2>7. at # "quote_declined" /\ (at = to \/ at = "ready_for_collection")
    BY <2>6, LandingCases
  <2>8. mid \in {outcome, "cancelled"}
    BY <2>6, OutcomeChanges
  <2> HIDE DEF at, mid
  <2>9. OutcomeOn(at, mid, "none") \in {mid, "cancelled"}
    BY <2>7, <2>8, OutcomeChanges
  <2> QED
    BY <2>3, <2>8, <2>9
<1>2. TypeOK /\ DecidedLate /\ [Next]_vars
        => [outcome # "none" /\ outcome' # outcome => outcome' = "cancelled"]_vars
  BY <1>1
<1> QED
  BY <1>2, TypeCorrect, DecidedLateHolds, PTL DEF Spec, OutcomeDecidedOnce

(***************************************************************************)
(* Declined jobs and their quotes                                          *)
(***************************************************************************)
\* A quote is accepted only as the job comes to wait for the deposit.
LEMMA QuoteAccepted ==
    ASSUME [Next]_vars, quote' = "accepted"
    PROVE  quote = "accepted" \/ status' = "deposit_pending"
<1> USE DEF quoteVars
<1>1. ASSUME BookingStep \/ CancelStep \/ CourierStep PROVE quote' = quote
  BY <1>1
  DEF BookingStep, CreateDraft, CreateWalkIn, AcceptTerms, ReadDraft, Read, SubmitDraft,
      AddBookingFact, CancelStep, CustomerCancel, AdminCancel, CourierStep, CourierReport,
      RebookPickup, Move, CustomerToRider, RiderToShop, ShopToRider, RiderToCustomer, Handover
<1>2. ASSUME NEW price, NEW actor, AcceptAt(price, actor) PROVE status' = "deposit_pending"
  <2>1. status' = Landing("deposit_pending", dropoff)
    BY <1>2 DEF AcceptAt, Transition
  <2> QED
    BY <2>1, Zenon DEF Landing
<1>3. ASSUME IntakeStep \/ QuoteStep PROVE quote' \in {quote, "declined"} \/ status' = "deposit_pending"
  BY <1>2, <1>3
  DEF IntakeStep, CompleteIntake, AcknowledgeIntake, RejectIntake, Move, Read, QuoteStep,
      ReadForQuote, ReadForCounter, CustomerAccept, ShopAcceptCounter, CustomerDecline
<1>4. ASSUME RepairStep \/ ReturnStep PROVE quote' = quote
  BY <1>4
  DEF RepairStep, ReadForSupp, ReadSuppCounter, AnswerSupp, SetSupp, CompleteRepair, Read, Move,
      ReturnStep, ReadForDropoff, WaiveReturnFee, RequestDispatch, ConfirmDelivered, CounterHandover
<1>5. ASSUME PaymentStep PROVE quote' = quote
  BY <1>5 DEF PaymentStep, SendPrompt, CashPayment, PromptFails, PromptConfirmed, PromptRefused, Confirm
<1>6. ASSUME FollowUpStep \/ TimerStep \/ FaultStep PROVE quote' \in {quote, "expired", "declined"}
  BY <1>6
  DEF FollowUpStep, SkipZeroDeposit, Settle, ReleaseWaived, Move, TimerStep, HandleTimer,
      ClaimTimer, QuoteExpiryHandler, AutoDeclineHandler, AutoCloseHandler, ReminderHandler,
      FaultStep, HandlerFails, WorkerCrash, ServerCrash
<1>7. ASSUME CommitStep PROVE quote' \in {quote, "sent", "negotiating"}
  BY <1>7
  DEF CommitStep, SaveDraft, CounterQuote, SendSupp, AcceptSuppCounter, SetSupp, SendQuote,
      ChooseDropoff, AbandonRead, DropoffCrash
<1>8. ASSUME UNCHANGED vars PROVE quote' = quote
  BY <1>8 DEF vars
<1> QED
  BY <1>1, <1>3, <1>4, <1>5, <1>6, <1>7, <1>8 DEF Next, Step

\* Nothing but repair and decline follows the wait for a deposit.
LEMMA FromDeposit ==
    ASSUME NEW actor \in Actor, NEW to, Allowed("deposit_pending", to, actor)
    PROVE  to \in {"in_repair", "quote_declined"}
<1> DEFINE from == "deposit_pending"
           Onwards == to \in {"in_repair", "quote_declined"}
<1>1. <<from, to>> \in AnyEdge
  BY AllowedEdge
<1>2. ASSUME <<from, to>> \in CustomerEdges PROVE Onwards
  BY <1>2 DEF CustomerEdges
<1>3. ASSUME <<from, to>> \in TechnicianEdges PROVE Onwards
  BY <1>3 DEF TechnicianEdges
<1>4. ASSUME <<from, to>> \in AdminOnlyEdges PROVE Onwards
  BY <1>4 DEF AdminOnlyEdges
<1>5. ASSUME <<from, to>> \in SystemEdges PROVE Onwards
  BY <1>5 DEF SystemEdges, ProviderEdges
<1> QED
  BY <1>1, <1>2, <1>3, <1>4, <1>5 DEF AnyEdge

\* The job of an accepted quote waits for its deposit or is past all quotes.
AcceptedLate == quote = "accepted" => status \notin Early \ {"deposit_pending"}

\* By QuoteAccepted a quote becomes accepted only as the job comes to wait for
\* the deposit, and from there the job goes to repair or back, never to a quote.
LEMMA AcceptedLateHolds == Spec => []AcceptedLate
<1>1. Init => AcceptedLate
  BY DEF Init, AcceptedLate
<1>2. TypeOK /\ AcceptedLate /\ [Next]_vars => AcceptedLate'
  <2> SUFFICES ASSUME TypeOK, AcceptedLate, [Next]_vars, quote' = "accepted",
                      status' # "deposit_pending"
               PROVE  status' \notin Early
    BY DEF AcceptedLate
  <2>1. status \notin Early \ {"deposit_pending"}
    BY QuoteAccepted DEF AcceptedLate
  <2>2. CASE Stayed
    BY <2>1, <2>2 DEF Stayed
  <2>3. CASE Created
    BY <2>1, <2>3 DEF Created, Early
  <2>4. CASE Moved
    <3>1. PICK from \in JobStatus, to \in JobStatus, actor \in Actor,
               drop \in Choice \cup {"none"}, want \in Outcome, why \in BOOLEAN :
            /\ from = status \/ <<status, from>> \in Arrives
            /\ Transition(from, to, actor, drop, want, why)
      BY <2>4 DEF Moved
    <3>2. Allowed(from, to, actor) /\ status' = Landing(to, drop)
      BY <3>1 DEF Transition
    <3>3. CASE status = "deposit_pending"
      <4>1. from = "deposit_pending"
        BY <3>1, <3>3 DEF Arrives
      <4>2. to \in {"in_repair", "quote_declined"}
        BY <3>2, <4>1, FromDeposit
      <4> QED
        BY <3>2, <4>2, LandingCases DEF Early, InboundStatus, QuoteStatus
    <3>4. CASE status # "deposit_pending"
      <4>1. from \notin Early
        BY <2>1, <3>1, <3>4 DEF Arrives, Early, InboundStatus, QuoteStatus
      <4>2. to \notin Early
        BY <3>2, <4>1, NeverBack
      <4> QED
        BY <3>2, <4>2, LandingCases DEF Early, InboundStatus, QuoteStatus
    <3> QED
      BY <3>3, <3>4
  <2> QED
    BY <2>2, <2>3, <2>4, StatusMoves
<1> QED
  BY <1>1, <1>2, TypeCorrect, PTL DEF Spec

\* Where each outcome comes from.
LEMMA OutcomeSources ==
    ASSUME NEW to, NEW o, NEW want
    PROVE  /\ OutcomeOn(to, o, want) = "declined" =>
                \/ o = "declined" \/ to = "quote_declined"
                \/ to = "return_fee_pending" /\ o = "none" /\ want \in {"none", "declined"}
           /\ OutcomeOn(to, o, want) = "cancelled" => "cancelled" \in {o, to, want}
           /\ OutcomeOn(to, o, want) = "none" =>
                o = "none" /\ to \notin {"cancelled", "quote_declined", "in_repair"}
           /\ to = "return_fee_pending" /\ want = "cancelled" => OutcomeOn(to, o, want) # "none"
           /\ to = "return_fee_pending" /\ want = "none" => OutcomeOn(to, o, want) # "none"
BY Zenon DEF OutcomeOn

\* However late an acceptance comes, the quote of a declined job is not
\* accepted: what declines a job declines its quote, unless it had expired.
THEOREM DeclinedNotAcceptedHolds == Spec => []DeclinedNotAccepted
<1>1. Init => DeclinedNotAccepted
  BY DEF Init, DeclinedNotAccepted
<1>2. TypeOK /\ AcceptedLate /\ DecidedLate' /\ DeclinedNotAccepted /\ [Next]_vars
        => DeclinedNotAccepted'
  <2> SUFFICES ASSUME TypeOK, AcceptedLate, DecidedLate', DeclinedNotAccepted, [Next]_vars,
                      outcome' = "declined", quote' = "accepted"
               PROVE  FALSE
    BY DEF DeclinedNotAccepted
  <2>1. status' # "deposit_pending"
    BY DEF DecidedLate, Early
  <2>2. quote = "accepted" /\ outcome # "declined"
    BY <2>1, QuoteAccepted DEF DeclinedNotAccepted
  <2>3. Moved
    BY <2>2, StatusMoves DEF Stayed, Created
  <2>4. PICK from \in JobStatus, to \in JobStatus, actor \in Actor,
             drop \in Choice \cup {"none"}, want \in Outcome, why \in BOOLEAN :
          Transition(from, to, actor, drop, want, why) /\ Worded(to, want, why)
    BY <2>3 DEF Moved
  <2> DEFINE at == Landing(to, drop)
             mid == OutcomeOn(to, outcome, want)
  <2>5. OutcomeOn(at, mid, "none") = "declined"
    BY <2>4 DEF Transition
  <2>6. to # "quote_declined"
    <3>1. to = "quote_declined" => status = "quote_expired"
      BY <2>2, <2>4 DEF Worded
    <3> QED
      BY <2>2, <3>1 DEF AcceptedLate, Early, QuoteStatus
  <2>7. to = "return_fee_pending" => want = "cancelled"
    BY <2>4 DEF Worded
  <2>8. mid # "declined"
    BY <2>2, <2>6, <2>7, OutcomeSources
  <2>9. at = to \/ at = "ready_for_collection"
    BY <2>6, LandingCases
  <2>10. mid # "none" \/ at # "return_fee_pending"
    BY <2>7, <2>9, OutcomeSources
  <2> HIDE DEF at, mid
  <2> QED
    BY <2>5, <2>6, <2>8, <2>9, <2>10, OutcomeSources
<1> QED
  BY <1>1, <1>2, TypeCorrect, AcceptedLateHolds, DecidedLateHolds, PTL DEF Spec

\* The statuses before a decision are left only by one.
LEMMA OutOfEarly ==
    ASSUME NEW actor \in Actor, NEW from, NEW to, Allowed(from, to, actor), from \in Early
    PROVE  to \in Early \cup {"cancelled", "return_fee_pending", "in_repair"}
<1> DEFINE Onwards == to \in Early \cup {"cancelled", "return_fee_pending", "in_repair"}
<1> USE DEF Early, InboundStatus, QuoteStatus, Terminal
<1>1. <<from, to>> \in AnyEdge
  BY AllowedEdge
<1>2. ASSUME <<from, to>> \in CustomerEdges PROVE Onwards
  BY <1>2 DEF CustomerEdges
<1>3. ASSUME <<from, to>> \in TechnicianEdges PROVE Onwards
  BY <1>3 DEF TechnicianEdges
<1>4. ASSUME <<from, to>> \in AdminOnlyEdges PROVE Onwards
  BY <1>4 DEF AdminOnlyEdges
<1>5. ASSUME <<from, to>> \in SystemEdges PROVE Onwards
  BY <1>5 DEF SystemEdges, ProviderEdges
<1> QED
  BY <1>1, <1>2, <1>3, <1>4, <1>5 DEF AnyEdge

\* Past those statuses a job has an outcome, and one that goes back cancelled
\* has its reason.
Accounted ==
    /\ outcome = "none" => status \in Early
    /\ outcome = "cancelled" => reason \/ status = "cancelled"

\* A job that has come home can be closed as what it is: transition_job has
\* recorded, on whatever way it came, what its terminal status asks for.
THEOREM ReturnedCanCloseHolds == Spec => []ReturnedCanClose
<1>1. Init => Accounted
  BY DEF Init, Accounted, Early
<1>2. TypeOK /\ Accounted /\ [Next]_vars => Accounted'
  <2> SUFFICES ASSUME TypeOK, Accounted, [Next]_vars PROVE Accounted'
    OBVIOUS
  <2>1. CASE Stayed
    BY <2>1 DEF Stayed, Accounted
  <2>2. CASE Created
    BY <2>2 DEF Created, Accounted, Early, InboundStatus
  <2>3. CASE Moved
    <3>1. PICK from \in JobStatus, to \in JobStatus, actor \in Actor,
               drop \in Choice \cup {"none"}, want \in Outcome, why \in BOOLEAN :
            /\ from = status \/ <<status, from>> \in Arrives
            /\ Transition(from, to, actor, drop, want, why)
            /\ Worded(to, want, why)
      BY <2>3 DEF Moved
    <3> DEFINE at == Landing(to, drop)
               mid == OutcomeOn(to, outcome, want)
    <3>2. /\ Allowed(from, to, actor) /\ status' = at
          /\ outcome' = OutcomeOn(at, mid, "none")
      BY <3>1 DEF Transition
    <3>3. reason' = (reason \/ why)
      BY <3>1 DEF Transition
    <3>4. want = "none" \/ (want = "cancelled" /\ why)
      BY <3>1 DEF Worded
    <3>5. ASSUME outcome' = "none" PROVE status' \in Early
      <4>1. mid = "none" /\ at \notin {"cancelled", "quote_declined", "in_repair", "return_fee_pending"}
        BY <3>2, <3>5, OutcomeSources
      <4>2. outcome = "none" /\ to \notin {"cancelled", "quote_declined", "in_repair", "return_fee_pending"}
        BY <3>4, <4>1, OutcomeSources
      <4>3. from \in Early
        <5>1. status \in Early
          BY <4>2 DEF Accounted
        <5> QED
          BY <3>1, <5>1 DEF Arrives, Early, InboundStatus, QuoteStatus
      <4>4. to \in Early
        BY <3>2, <4>2, <4>3, OutOfEarly
      <4>5. at = to
        <5>1. to # "dispatch_pending"
          BY <4>4 DEF Early, InboundStatus, QuoteStatus
        <5> QED
          BY <4>2, <5>1, LandingCases
      <4> QED
        BY <3>2, <4>4, <4>5
    <3>6. ASSUME outcome' = "cancelled" PROVE reason' \/ status' = "cancelled"
      <4>1. mid = "cancelled" \/ at = "cancelled"
        BY <3>2, <3>6, OutcomeSources
      <4>2. mid = "cancelled" => "cancelled" \in {outcome, to, want}
        BY OutcomeSources
      <4>3. to = "cancelled" => at = "cancelled"
        BY LandingCases
      <4>4. want = "cancelled" => reason'
        BY <3>3, <3>4
      <4>5. outcome = "cancelled" => reason
        <5>1. status # "cancelled"
          BY <3>1, <3>2, AllowedFrom DEF Arrives, Terminal
        <5> QED
          BY <5>1 DEF Accounted
      <4> HIDE DEF mid, at
      <4> QED
        BY <3>2, <3>3, <4>1, <4>2, <4>3, <4>4, <4>5
    <3> QED
      BY <3>5, <3>6 DEF Accounted
  <2> QED
    BY <2>1, <2>2, <2>3, StatusMoves
<1>3. Accounted => ReturnedCanClose
  BY DEF Accounted, ReturnedCanClose, Early, InboundStatus, QuoteStatus
<1> QED
  BY <1>1, <1>2, <1>3, TypeCorrect, PTL DEF Spec

(***************************************************************************)
(* Closing                                                                 *)
(***************************************************************************)
Home == {"delivered", "ready_for_collection"}

\* From home a job can only be closed.
LEMMA FromHome ==
    ASSUME NEW actor \in Actor, NEW from, NEW to, Allowed(from, to, actor), from \in Home
    PROVE  to \in Terminal
<1> USE DEF Home, Terminal
<1>1. <<from, to>> \in AnyEdge
  BY AllowedEdge
<1>2. ASSUME <<from, to>> \in CustomerEdges PROVE to \in Terminal
  BY <1>2 DEF CustomerEdges
<1>3. ASSUME <<from, to>> \in TechnicianEdges PROVE to \in Terminal
  BY <1>3 DEF TechnicianEdges
<1>4. ASSUME <<from, to>> \in AdminOnlyEdges PROVE to \in Terminal
  BY <1>4 DEF AdminOnlyEdges
<1>5. ASSUME <<from, to>> \in SystemEdges PROVE to \in Terminal
  BY <1>5 DEF SystemEdges, ProviderEdges
<1> QED
  BY <1>1, <1>2, <1>3, <1>4, <1>5 DEF AnyEdge

\* A warranty starts as the device comes home, and nothing but closing follows.
WarrantyAtHome == warranty => status \in Home \cup Terminal

\* A closed job's status is that of its outcome, and a warranty was given only
\* for a repair.
THEOREM ClosesAsItEndedHolds == Spec => []ClosesAsItEnded
<1> DEFINE IInv == ClosesAsItEnded /\ WarrantyAtHome
<1>1. Init => IInv
  BY DEF Init, ClosesAsItEnded, WarrantyAtHome, Terminal
<1>2. TypeOK /\ IInv /\ [Next]_vars => IInv'
  <2> SUFFICES ASSUME TypeOK, IInv, [Next]_vars PROVE IInv'
    OBVIOUS
  <2>1. CASE Stayed
    <3>1. TerminalFor(outcome)' = TerminalFor(outcome)
      BY <2>1 DEF Stayed, TerminalFor
    <3> QED
      BY <2>1, <3>1 DEF Stayed, ClosesAsItEnded, WarrantyAtHome
  <2>2. CASE Created
    BY <2>2 DEF Created, ClosesAsItEnded, WarrantyAtHome, Home, Terminal
  <2>3. CASE Moved
    <3>1. PICK from \in JobStatus, to \in JobStatus, actor \in Actor,
               drop \in Choice \cup {"none"}, want \in Outcome, why \in BOOLEAN :
            /\ from = status \/ <<status, from>> \in Arrives
            /\ Transition(from, to, actor, drop, want, why)
      BY <2>3 DEF Moved
    <3> DEFINE at == Landing(to, drop)
               mid == OutcomeOn(to, outcome, want)
    <3>2. /\ Allowed(from, to, actor) /\ status' = at /\ outcome' = OutcomeOn(at, mid, "none")
          /\ to = "closed" => outcome = "repaired"
          /\ to = "declined_returned" => outcome = "declined"
          /\ warranty' = (warranty \/ (at \in Home /\ outcome = "repaired"))
      BY <3>1 DEF Transition, Guard, Home
    <3>3. at \in Terminal => at = to
      BY LandingCases DEF Terminal
    <3>4. /\ at \in Home => to \notin {"cancelled", "quote_declined", "return_fee_pending", "in_repair"}
          /\ at \in Home => at \notin {"cancelled", "quote_declined", "return_fee_pending", "in_repair"}
      BY LandingCases DEF Home
    <3>5. /\ mid = outcome
               \/ to \in {"cancelled", "quote_declined", "return_fee_pending", "in_repair"}
          /\ outcome' = mid
               \/ at \in {"cancelled", "quote_declined", "return_fee_pending", "in_repair"}
          /\ at = "cancelled" => outcome' = "cancelled"
      BY <3>2, OutcomeChanges
    <3> HIDE DEF at, mid
    <3>6. /\ at = "closed" => outcome' = "repaired"
          /\ at = "declined_returned" => outcome' = "declined"
          /\ at = "cancelled" => outcome' = "cancelled"
      BY <3>2, <3>3, <3>5 DEF Terminal
    <3>7. status' \in Terminal => status' = TerminalFor(outcome')
      <4>1. /\ TerminalFor("repaired") = "closed"
            /\ TerminalFor("declined") = "declined_returned"
            /\ TerminalFor("cancelled") = "cancelled"
        BY Zenon DEF TerminalFor
      <4> QED
        BY <3>2, <3>6, <4>1 DEF Terminal
    <3>8. ASSUME warranty', ~warranty
          PROVE  outcome' = "repaired" /\ status' \in Home
      BY <3>2, <3>4, <3>5, <3>8
    <3>9. ASSUME warranty
          PROVE  /\ outcome' = "repaired" \/ status' = "cancelled"
                 /\ status' \in Terminal
      <4>1. status \in Home \cup Terminal
        BY <3>9 DEF WarrantyAtHome
      <4>2. from = status
        BY <3>1, <4>1 DEF Arrives, Home, Terminal
      <4>3. from \in Home
        BY <3>2, <4>1, <4>2, AllowedFrom
      <4>4. to \in Terminal
        BY <3>2, <4>3, FromHome
      <4>5. at = to
        BY <4>4, LandingCases DEF at, Terminal
      <4>6. outcome = "repaired"
        BY <3>9, <4>2, <4>3 DEF ClosesAsItEnded, Home
      <4>7. outcome' = "repaired" \/ at = "cancelled"
        BY <3>5, <4>4, <4>5, <4>6 DEF Terminal
      <4> QED
        BY <3>2, <4>4, <4>5, <4>7
    <3> QED
      BY <3>2, <3>7, <3>8, <3>9 DEF ClosesAsItEnded, WarrantyAtHome
  <2> QED
    BY <2>1, <2>2, <2>3, StatusMoves
<1> QED
  BY <1>1, <1>2, TypeCorrect, PTL DEF Spec

(***************************************************************************)
(* Timers                                                                  *)
(***************************************************************************)
\* A timer that is scheduled, or kept, on entering a status is alive there.
LEMMA ScheduledAlive ==
    ASSUME NEW to, NEW kind \in ScheduledOn(to)
    PROVE  to \in AliveIn(kind)
BY Zenon DEF ScheduledOn, AliveIn

\* A timer left after a move is one that lives in the new status.
LEMMA TimersOnAlive ==
    ASSUME NEW to, NEW live \in [TimerKind -> Nat], NEW kind \in TimerKind,
           TimersOn(to, live)[kind] > 0
    PROVE  to \in AliveIn(kind)
<1>1. Survives(kind, to) \/ kind \in ScheduledOn(to)
  BY DEF TimersOn
<1> QED
  BY <1>1, ScheduledAlive DEF Survives

\* Failures are only counted up.
LEMMA FaultsGrow ==
    ASSUME TypeOK, [Next]_vars, faults' = 0
    PROVE  faults = 0
<1> USE DEF workVars, Handled
<1>1. ASSUME BookingStep \/ CancelStep \/ CourierStep PROVE faults' = faults
  BY <1>1
  DEF BookingStep, CreateDraft, CreateWalkIn, AcceptTerms, ReadDraft, Read, SubmitDraft,
      AddBookingFact, CancelStep, CustomerCancel, AdminCancel, CourierStep, CourierReport,
      RebookPickup, CustomerToRider, RiderToShop, ShopToRider, RiderToCustomer, Handover
<1>2. ASSUME IntakeStep \/ QuoteStep \/ RepairStep PROVE faults' = faults
  BY <1>2
  DEF IntakeStep, CompleteIntake, AcknowledgeIntake, RejectIntake, Read, QuoteStep,
      ReadForQuote, ReadForCounter, CustomerAccept, ShopAcceptCounter, AcceptAt,
      CustomerDecline, RepairStep, ReadForSupp, ReadSuppCounter, AnswerSupp, CompleteRepair
<1>3. ASSUME ReturnStep \/ FollowUpStep PROVE faults' = faults
  BY <1>3
  DEF ReturnStep, ReadForDropoff, Read, WaiveReturnFee, RequestDispatch, ConfirmDelivered,
      CounterHandover, FollowUpStep, SkipZeroDeposit, Settle, ReleaseWaived
<1>4. ASSUME PaymentStep PROVE faults' = faults
  BY <1>4 DEF PaymentStep, SendPrompt, CashPayment, PromptFails, PromptConfirmed, PromptRefused, Confirm
<1>5. ASSUME TimerStep PROVE faults' = faults
  BY <1>5
  DEF TimerStep, HandleTimer, ClaimTimer, QuoteExpiryHandler, AutoDeclineHandler,
      AutoCloseHandler, ReminderHandler
<1>6. ASSUME FaultStep PROVE faults' = faults + 1
  BY <1>6 DEF FaultStep, HandlerFails, WorkerCrash, ServerCrash
<1>7. ASSUME CommitStep PROVE faults' = faults \/ faults' = faults + 1
  BY <1>7
  DEF CommitStep, SaveDraft, CounterQuote, SendSupp, AcceptSuppCounter, SendQuote,
      ChooseDropoff, AbandonRead, DropoffCrash, Commits
<1>8. ASSUME UNCHANGED vars PROVE faults' = faults
  BY <1>8 DEF vars
<1>9. faults' = faults \/ faults' = faults + 1
  BY <1>1, <1>2, <1>3, <1>4, <1>5, <1>6, <1>7, <1>8 DEF Next, Step
<1> QED
  BY <1>9 DEF TypeOK

\* The first half of TimersMatchStatus: no timer of another status.
NoStrayTimer == faults = 0 => \A kind \in TimerKind : timers[kind] > 0 => status \in AliveIn(kind)

\* Unless something has failed, a move leaves no timer of another status, and
\* no reminder asks for another one after the job has moved on.
LEMMA NoStrayTimerHolds == Spec => []NoStrayTimer
<1>1. Init => NoStrayTimer
  BY DEF Init, NoStrayTimer
<1>2. TypeOK /\ NoStrayTimer /\ [Next]_vars => NoStrayTimer'
  <2> SUFFICES ASSUME TypeOK, NoStrayTimer, [Next]_vars, faults' = 0,
                      NEW kind \in TimerKind, timers'[kind] > 0
               PROVE  status' \in AliveIn(kind)
    BY DEF NoStrayTimer
  <2>0. timers \in [TimerKind -> Nat] /\ faults \in Nat
    BY DEF TypeOK
  <2>1. faults = 0
    BY FaultsGrow
  <2>2. \A k \in TimerKind : timers[k] > 0 => status \in AliveIn(k)
    BY <2>1 DEF NoStrayTimer
  <2>3. CASE Created
    BY <2>2, <2>3 DEF Created, AliveIn, TimerKind
  <2>4. CASE Stayed
    <3>1. CASE timers' = timers
      BY <2>2, <2>4, <3>1 DEF Stayed
    <3>2. ASSUME NEW k \in TimerKind, ClaimTimer(k) PROVE status' \in AliveIn(kind)
      <4>1. timers' = [timers EXCEPT ![k] = @ - 1] /\ timers[k] > 0 /\ status' = status
        BY <3>2 DEF ClaimTimer
      <4> QED
        BY <2>0, <2>2, <4>1
    <3>3. ASSUME NEW k \in TimerKind, HandlerFails(k) PROVE FALSE
      BY <2>0, <2>1, <3>3 DEF HandlerFails
    <3>4. ASSUME NEW k \in Reminders, ReminderHandler(k) PROVE status' \in AliveIn(kind)
      <4>1. PICK again \in BOOLEAN :
              /\ again => k = "dropoff_reminder" /\ status = "repair_complete"
              /\ timers' = [timers EXCEPT ![k] = @ + (IF again THEN 1 ELSE 0)]
        BY <3>4 DEF ReminderHandler
      <4>2. status' = status /\ k \in TimerKind
        BY <3>4 DEF ReminderHandler, Reminders, TimerKind
      <4>3. "repair_complete" \in AliveIn("dropoff_reminder")
        BY DEF AliveIn
      <4>4. timers[kind] > 0 \/ (kind = k /\ again)
        BY <2>0, <4>1, <4>2
      <4> QED
        BY <2>2, <4>1, <4>2, <4>3, <4>4
    <3> QED
      BY <2>4, <3>1, <3>2, <3>3, <3>4 DEF Stayed, TimerWork
  <2>5. CASE Moved
    <3>1. PICK from \in JobStatus, to \in JobStatus, actor \in Actor,
               drop \in Choice \cup {"none"}, want \in Outcome, why \in BOOLEAN :
            Transition(from, to, actor, drop, want, why)
      BY <2>5 DEF Moved
    <3>2. status' = Landing(to, drop) /\ timers' = TimersAt(to, drop, timers)
      BY <3>1 DEF Transition
    <3>3. CASE Landing(to, drop) = to
      BY <2>0, <3>2, <3>3, TimersOnAlive DEF TimersAt
    <3>4. CASE Landing(to, drop) # to
      BY <2>0, <3>2, <3>4, TimersOnAlive, TimersOnType DEF TimersAt
    <3> QED
      BY <3>3, <3>4
  <2> QED
    BY <2>3, <2>4, <2>5, StatusMoves
<1> QED
  BY <1>1, <1>2, TypeCorrect, PTL DEF Spec

\* A claimed timer is given up only by its handler, or in a failure.
LEMMA ClaimsKept ==
    ASSUME [Next]_vars
    PROVE  claimed' = claimed \/ TimerStep \/ FaultStep
<1> USE DEF workVars
<1>1. ASSUME BookingStep \/ CancelStep \/ CourierStep PROVE claimed' = claimed
  BY <1>1
  DEF BookingStep, CreateDraft, CreateWalkIn, AcceptTerms, ReadDraft, Read, SubmitDraft,
      AddBookingFact, CancelStep, CustomerCancel, AdminCancel, CourierStep, CourierReport,
      RebookPickup, CustomerToRider, RiderToShop, ShopToRider, RiderToCustomer, Handover
<1>2. ASSUME IntakeStep \/ QuoteStep \/ RepairStep PROVE claimed' = claimed
  BY <1>2
  DEF IntakeStep, CompleteIntake, AcknowledgeIntake, RejectIntake, Read, QuoteStep,
      ReadForQuote, ReadForCounter, CustomerAccept, ShopAcceptCounter, AcceptAt,
      CustomerDecline, RepairStep, ReadForSupp, ReadSuppCounter, AnswerSupp, CompleteRepair
<1>3. ASSUME ReturnStep \/ FollowUpStep PROVE claimed' = claimed
  BY <1>3
  DEF ReturnStep, ReadForDropoff, Read, WaiveReturnFee, RequestDispatch, ConfirmDelivered,
      CounterHandover, FollowUpStep, SkipZeroDeposit, Settle, ReleaseWaived
<1>4. ASSUME PaymentStep PROVE claimed' = claimed
  BY <1>4 DEF PaymentStep, SendPrompt, CashPayment, PromptFails, PromptConfirmed, PromptRefused, Confirm
<1>5. ASSUME CommitStep PROVE claimed' = claimed
  BY <1>5
  DEF CommitStep, SaveDraft, CounterQuote, SendSupp, AcceptSuppCounter, SendQuote,
      ChooseDropoff, AbandonRead, DropoffCrash, Commits
<1>6. ASSUME UNCHANGED vars PROVE claimed' = claimed
  BY <1>6 DEF vars
<1> QED
  BY <1>1, <1>2, <1>3, <1>4, <1>5, <1>6 DEF Next, Step

\* A job begins to negotiate only when a sent quote is countered.
LEMMA IntoNegotiation ==
    ASSUME NEW actor \in Actor, NEW from, Allowed(from, "quote_negotiating", actor)
    PROVE  from = "quote_sent"
<1> DEFINE to == "quote_negotiating"
<1>0. to \notin Terminal
  BY DEF Terminal
<1>1. <<from, to>> \in AnyEdge
  BY AllowedEdge
<1>2. ASSUME <<from, to>> \in CustomerEdges PROVE from = "quote_sent"
  BY <1>0, <1>2 DEF CustomerEdges
<1>3. <<from, to>> \notin TechnicianEdges
  BY <1>0 DEF TechnicianEdges
<1>4. <<from, to>> \notin AdminOnlyEdges
  BY <1>0 DEF AdminOnlyEdges
<1>5. <<from, to>> \notin SystemEdges
  BY <1>0 DEF SystemEdges, ProviderEdges
<1> QED
  BY <1>1, <1>2, <1>3, <1>4, <1>5 DEF AnyEdge

\* What the worker's handlers do to a job that waits for them: it moves on.
LEMMA HandlersMove ==
    ASSUME TypeOK, HandleTimer
    PROVE  \/ \E kind \in Reminders : ReminderHandler(kind)
           \/ UNCHANGED <<status, timers>> /\ \E kind \in Deadlines :
                    claimed' = claimed \ {kind} /\ status \notin AliveIn(kind)
           \/ status' # status /\ status' \in {"quote_expired", "return_fee_pending"} \cup Terminal
<1> USE DEF Handled, jobVars, Deadlines
<1>1. ASSUME QuoteExpiryHandler, status \in {"quote_sent", "quote_negotiating"}
      PROVE  status' = "quote_expired"
  <2>1. status' = Landing("quote_expired", dropoff)
    BY <1>1 DEF QuoteExpiryHandler, Transition
  <2> QED
    BY <2>1, LandingCases
<1>2. ASSUME AutoDeclineHandler, status = "quote_expired"
      PROVE  status' = "return_fee_pending"
  <2>1. status' = Landing("quote_declined", dropoff)
    BY <1>2 DEF AutoDeclineHandler, Transition
  <2> QED
    BY <2>1, LandingCases
<1>3. ASSUME AutoCloseHandler, status = "delivered"
      PROVE  status' \in Terminal
  <2>1. status' = Landing(TerminalFor(outcome), dropoff)
    BY <1>3 DEF AutoCloseHandler, Move, Transition
  <2>2. TerminalFor(outcome) \in Terminal
    BY Zenon DEF TerminalFor, Terminal
  <2> QED
    BY <2>1, <2>2, LandingCases DEF Terminal
<1>4. /\ AliveIn("quote_expiry") = {"quote_sent", "quote_negotiating"}
      /\ AliveIn("expired_quote_autodecline") = {"quote_expired"}
      /\ AliveIn("auto_close") = {"delivered"}
  BY DEF AliveIn
<1>5. ASSUME QuoteExpiryHandler, status \notin {"quote_sent", "quote_negotiating"}
      PROVE  UNCHANGED <<status, timers>> /\ claimed' = claimed \ {"quote_expiry"}
  BY <1>5 DEF QuoteExpiryHandler
<1>6. ASSUME AutoDeclineHandler, status # "quote_expired"
      PROVE  UNCHANGED <<status, timers>> /\ claimed' = claimed \ {"expired_quote_autodecline"}
  BY <1>6 DEF AutoDeclineHandler
<1>7. ASSUME AutoCloseHandler, status # "delivered"
      PROVE  UNCHANGED <<status, timers>> /\ claimed' = claimed \ {"auto_close"}
  BY <1>7 DEF AutoCloseHandler
<1> QED
  BY <1>1, <1>2, <1>3, <1>4, <1>5, <1>6, <1>7 DEF HandleTimer, Terminal

\* The second half of TimersMatchStatus.
DeadlineKept ==
    faults = 0 => \A kind \in Deadlines :
        status \in AliveIn(kind) => timers[kind] > 0 \/ kind \in claimed

\* Every move into such a status schedules its timer; a counter-offer keeps the
\* one its quote has; and a handler that ends leaves the status behind.
LEMMA DeadlineKeptHolds == Spec => []DeadlineKept
<1>1. Init => DeadlineKept
  BY DEF Init, DeadlineKept, Deadlines, AliveIn
<1>2. TypeOK /\ DeadlineKept /\ [Next]_vars => DeadlineKept'
  <2> SUFFICES ASSUME TypeOK, DeadlineKept, [Next]_vars, faults' = 0,
                      NEW kind \in Deadlines, status' \in AliveIn(kind)
               PROVE  timers'[kind] > 0 \/ kind \in claimed'
    BY DEF DeadlineKept
  <2>0. timers \in [TimerKind -> Nat] /\ faults \in Nat /\ faults = 0 /\ kind \in TimerKind
    BY FaultsGrow DEF TypeOK, Deadlines, TimerKind
  <2>1. status \in AliveIn(kind) => timers[kind] > 0 \/ kind \in claimed
    BY <2>0 DEF DeadlineKept
  <2>2. /\ AliveIn("quote_expiry") = {"quote_sent", "quote_negotiating"}
        /\ AliveIn("expired_quote_autodecline") = {"quote_expired"}
        /\ AliveIn("auto_close") = {"delivered"}
    BY DEF AliveIn
  <2>3. status' \in {"quote_sent", "quote_negotiating", "quote_expired", "delivered"}
    BY <2>2 DEF Deadlines
  <2>4. ~FaultStep
    BY <2>0 DEF FaultStep, HandlerFails, WorkerCrash, ServerCrash
  <2>5. CASE Created
    BY <2>3, <2>5 DEF Created
  <2>6. CASE Stayed
    <3>1. status' = status /\ (timers[kind] > 0 \/ kind \in claimed)
      BY <2>1, <2>6 DEF Stayed
    <3>2. ASSUME NEW k \in TimerKind, ClaimTimer(k)
          PROVE  timers'[kind] > 0 \/ kind \in claimed'
      <4>1. timers' = [timers EXCEPT ![k] = @ - 1] /\ claimed' = claimed \cup {k}
        BY <3>2 DEF ClaimTimer
      <4>2. CASE k = kind
        BY <4>1, <4>2
      <4>3. CASE k # kind
        BY <2>0, <3>1, <4>1, <4>3
      <4> QED
        BY <4>2, <4>3
    <3>3. ASSUME NEW k \in Reminders, ReminderHandler(k)
          PROVE  timers'[kind] > 0 \/ kind \in claimed'
      <4>1. PICK again \in BOOLEAN :
              timers' = [timers EXCEPT ![k] = @ + (IF again THEN 1 ELSE 0)]
        BY <3>3 DEF ReminderHandler
      <4>2. claimed' = claimed \ {k} /\ k # kind
        BY <3>3 DEF ReminderHandler, Handled, Reminders, Deadlines
      <4>3. timers'[kind] = timers[kind]
        BY <2>0, <4>1, <4>2
      <4> QED
        BY <3>1, <4>2, <4>3
    <3>4. ASSUME NEW k \in Deadlines, UNCHANGED timers,
                 claimed' = claimed \ {k}, status \notin AliveIn(k)
          PROVE  timers'[kind] > 0 \/ kind \in claimed'
      BY <3>1, <3>4
    <3>5. CASE claimed' = claimed
      <4>1. ~\E k \in TimerKind : ClaimTimer(k)
        BY <3>5 DEF ClaimTimer
      <4>2. \A k \in TimerKind : ~HandlerFails(k)
        BY <2>4 DEF FaultStep
      <4> QED
        BY <2>6, <3>1, <3>3, <3>5, <4>1, <4>2 DEF Stayed, TimerWork
    <3>6. CASE TimerStep
      BY <3>1, <3>2, <3>3, <3>4, <3>6, HandlersMove DEF TimerStep
    <3> QED
      BY <2>4, <3>5, <3>6, ClaimsKept
  <2>7. CASE Moved
    <3>1. PICK from \in JobStatus, to \in JobStatus, actor \in Actor,
               drop \in Choice \cup {"none"}, want \in Outcome, why \in BOOLEAN :
            /\ from = status \/ <<status, from>> \in Arrives
            /\ Transition(from, to, actor, drop, want, why)
      BY <2>7 DEF Moved
    <3>2. /\ status' = Landing(to, drop) /\ timers' = TimersAt(to, drop, timers)
          /\ Allowed(from, to, actor)
      BY <3>1 DEF Transition
    <3>3. Landing(to, drop) = to
      BY <2>3, <3>2, LandingCases
    <3>4. timers' = TimersOn(to, timers) /\ status' = to
      BY <3>2, <3>3 DEF TimersAt
    <3>5. CASE kind \in ScheduledOn(to)
      BY <2>0, <3>4, <3>5 DEF TimersOn
    <3>6. CASE kind \notin ScheduledOn(to)
      <4>1. to = "quote_negotiating" /\ kind = "quote_expiry"
        BY <2>2, <2>3, <3>4, <3>6, Zenon DEF ScheduledOn, Deadlines
      <4>2. from = "quote_sent" /\ status = "quote_sent"
        BY <3>1, <3>2, <4>1, IntoNegotiation DEF Arrives
      <4>3. timers'[kind] = timers[kind]
        BY <2>0, <2>2, <3>4, <3>6, <4>1 DEF TimersOn, Survives
      <4>4. claimed' = claimed
        <5>1. ~TimerStep
          <6>1. \A k \in TimerKind : ~ClaimTimer(k)
            BY <3>4, <4>1, <4>2 DEF ClaimTimer
          <6>2. \A k \in Reminders : ~ReminderHandler(k)
            BY <3>4, <4>1, <4>2 DEF ReminderHandler
          <6> QED
            BY <3>4, <4>1, <4>2, <6>1, <6>2, HandlersMove DEF TimerStep, Terminal
        <5> QED
          BY <2>4, <5>1, ClaimsKept
      <4> QED
        BY <2>1, <2>2, <4>1, <4>2, <4>3, <4>4
    <3> QED
      BY <3>5, <3>6
  <2> QED
    BY <2>5, <2>6, <2>7, StatusMoves
<1> QED
  BY <1>1, <1>2, TypeCorrect, PTL DEF Spec

\* Without failures every live timer belongs to the job's status, and no quote
\* that can expire, no expired one and no delivered device is without its own.
THEOREM TimersMatch == Spec => []TimersMatchStatus
<1>1. NoStrayTimer /\ DeadlineKept => TimersMatchStatus
  BY DEF NoStrayTimer, DeadlineKept, TimersMatchStatus
<1> QED
  BY <1>1, NoStrayTimerHolds, DeadlineKeptHolds, PTL

(***************************************************************************)
(* The invoice                                                             *)
(***************************************************************************)
LEMMA ProformaFrozen ==
    ASSUME NEW fee, invoice.status = "issued"
    PROVE  Proforma(fee) = invoice
BY DEF Proforma

\* An issued invoice keeps its total and stays issued under every step, among
\* them a drop-off choice that was read before it was issued.
LEMMA IssuedKept ==
    ASSUME TypeOK, [Next]_vars, invoice.status = "issued"
    PROVE  invoice'.status = "issued" /\ invoice'.total = invoice.total
<1> DEFINE Kept == invoice' = invoice
<1> USE DEF payVars
<1>0. invoice \in [status : {"none", "proforma", "issued"}, total : Nat, balance : Int]
  BY DEF TypeOK
<1>1. ASSUME BookingStep \/ CancelStep \/ CourierStep PROVE Kept
  BY <1>1
  DEF BookingStep, CreateDraft, CreateWalkIn, AcceptTerms, ReadDraft, Read, SubmitDraft,
      AddBookingFact, CancelStep, CustomerCancel, AdminCancel, CourierStep, CourierReport,
      RebookPickup, Move, CustomerToRider, RiderToShop, ShopToRider, RiderToCustomer, Handover
<1>2. ASSUME IntakeStep \/ QuoteStep \/ RepairStep PROVE Kept
  BY <1>2
  DEF IntakeStep, CompleteIntake, AcknowledgeIntake, RejectIntake, Move, Read, QuoteStep,
      ReadForQuote, ReadForCounter, CustomerAccept, ShopAcceptCounter, AcceptAt, CustomerDecline,
      RepairStep, ReadForSupp, ReadSuppCounter, AnswerSupp, SetSupp, CompleteRepair
<1>3. ASSUME ReturnStep PROVE Kept
  BY <1>3
  DEF ReturnStep, ReadForDropoff, Read, Move, WaiveReturnFee, RequestDispatch,
      ConfirmDelivered, CounterHandover
<1>4. ASSUME NEW purpose, NEW amount, Confirm(purpose, amount)
      PROVE  invoice'.status = "issued" /\ invoice'.total = invoice.total
  <2> DEFINE pd == Adding(purpose, amount)
             live == IF invoice.status = "none" THEN invoice
                     ELSE [invoice EXCEPT !.balance = invoice.total - TotalPaid(pd)]
  <2>1. invoice' = live \/ invoice' = [live EXCEPT !.status = "issued"]
    BY <1>4 DEF Confirm
  <2>2. live = [invoice EXCEPT !.balance = invoice.total - TotalPaid(pd)]
    OBVIOUS
  <2> QED
    BY <1>0, <2>1, <2>2
<1>5. ASSUME PaymentStep PROVE invoice'.status = "issued" /\ invoice'.total = invoice.total
  BY <1>4, <1>5 DEF PaymentStep, SendPrompt, CashPayment, PromptFails, PromptConfirmed, PromptRefused
<1>6. ASSUME FollowUpStep PROVE Kept
  BY <1>6 DEF FollowUpStep, SkipZeroDeposit, Settle, ReleaseWaived, Move
<1>7. ASSUME TimerStep \/ FaultStep PROVE Kept
  BY <1>7
  DEF TimerStep, HandleTimer, ClaimTimer, QuoteExpiryHandler, AutoDeclineHandler, Move,
      AutoCloseHandler, ReminderHandler, FaultStep, HandlerFails, WorkerCrash, ServerCrash
<1>8. ASSUME CommitStep PROVE Kept
  BY <1>8, ProformaFrozen
  DEF CommitStep, SaveDraft, CounterQuote, SendSupp, AcceptSuppCounter, SetSupp, SendQuote,
      ChooseDropoff, AbandonRead, DropoffCrash
<1>9. ASSUME UNCHANGED vars PROVE Kept
  BY <1>9 DEF vars
<1> QED
  BY <1>1, <1>2, <1>3, <1>5, <1>6, <1>7, <1>8, <1>9 DEF Next, Step

\* The same of every behaviour.
THEOREM IssuedStands == Spec => IssuedInvoiceFrozen
<1>1. TypeOK /\ [Next]_vars
        => [invoice.status = "issued" =>
              invoice'.status = "issued" /\ invoice'.total = invoice.total]_vars
  BY IssuedKept
<1> QED
  BY <1>1, TypeCorrect, PTL DEF Spec, IssuedInvoiceFrozen

(***************************************************************************)
(* The way out                                                             *)
(***************************************************************************)
\* Repaired and still on the bench, and where a repaired device may be then.
Finished == {"repair_complete", "final_payment_pending"}
Away     == OutForReturn \cup {"ready_for_collection", "return_failed"} \cup Terminal

\* A finished device leaves the bench for dispatch alone, and one that is away
\* does not come back to it.
LEMMA AfterRepair ==
    ASSUME NEW actor \in Actor, NEW from, NEW to, Allowed(from, to, actor)
    PROVE  /\ from \in Away => to \in Away
           /\ from = "repair_complete" => to = "final_payment_pending"
           /\ from = "final_payment_pending" => to \in {"repair_complete", "dispatch_pending"}
<1> DEFINE Onwards == /\ from \in Away => to \in Away
                      /\ from = "repair_complete" => to = "final_payment_pending"
                      /\ from = "final_payment_pending" => to \in {"repair_complete", "dispatch_pending"}
<1> USE DEF Away, OutForReturn, Terminal
<1>1. <<from, to>> \in AnyEdge
  BY AllowedEdge
<1>2. ASSUME <<from, to>> \in CustomerEdges PROVE Onwards
  BY <1>2 DEF CustomerEdges
<1>3. ASSUME <<from, to>> \in TechnicianEdges PROVE Onwards
  BY <1>3 DEF TechnicianEdges
<1>4. ASSUME <<from, to>> \in AdminOnlyEdges PROVE Onwards
  BY <1>4 DEF AdminOnlyEdges
<1>5. ASSUME <<from, to>> \in SystemEdges PROVE Onwards
  BY <1>5 DEF SystemEdges, ProviderEdges
<1> QED
  BY <1>1, <1>2, <1>3, <1>4, <1>5 DEF AnyEdge

\* A repair is completed only by the move to repair_complete.
LEMMA CompletedKept ==
    ASSUME [Next]_vars
    PROVE  completed' = completed \/ status' = "repair_complete"
<1> USE DEF benchVars
<1>1. ASSUME CompleteRepair PROVE status' = "repair_complete"
  <2>1. status' = Landing("repair_complete", dropoff)
    BY <1>1 DEF CompleteRepair, Transition
  <2> QED
    BY <2>1, Zenon DEF Landing
<1>2. ASSUME BookingStep \/ CancelStep \/ CourierStep PROVE completed' = completed
  BY <1>2
  DEF BookingStep, CreateDraft, CreateWalkIn, AcceptTerms, ReadDraft, Read, SubmitDraft,
      AddBookingFact, CancelStep, CustomerCancel, AdminCancel, CourierStep, CourierReport,
      RebookPickup, Move, CustomerToRider, RiderToShop, ShopToRider, RiderToCustomer, Handover
<1>3. ASSUME IntakeStep \/ QuoteStep PROVE completed' = completed
  BY <1>3
  DEF IntakeStep, CompleteIntake, AcknowledgeIntake, RejectIntake, Move, Read, QuoteStep,
      ReadForQuote, ReadForCounter, CustomerAccept, ShopAcceptCounter, AcceptAt, CustomerDecline
<1>4. ASSUME RepairStep \/ ReturnStep PROVE completed' = completed \/ status' = "repair_complete"
  BY <1>1, <1>4
  DEF RepairStep, ReadForSupp, ReadSuppCounter, AnswerSupp, SetSupp, Read, Move,
      ReturnStep, ReadForDropoff, WaiveReturnFee, RequestDispatch, ConfirmDelivered, CounterHandover
<1>5. ASSUME PaymentStep PROVE completed' = completed
  BY <1>5 DEF PaymentStep, SendPrompt, CashPayment, PromptFails, PromptConfirmed, PromptRefused, Confirm
<1>6. ASSUME FollowUpStep \/ TimerStep \/ FaultStep PROVE completed' = completed
  BY <1>6
  DEF FollowUpStep, SkipZeroDeposit, Settle, ReleaseWaived, Move, TimerStep, HandleTimer,
      ClaimTimer, QuoteExpiryHandler, AutoDeclineHandler, AutoCloseHandler, ReminderHandler,
      FaultStep, HandlerFails, WorkerCrash, ServerCrash
<1>7. ASSUME CommitStep PROVE completed' = completed
  BY <1>7
  DEF CommitStep, SaveDraft, CounterQuote, SendSupp, AcceptSuppCounter, SetSupp, SendQuote,
      ChooseDropoff, AbandonRead, DropoffCrash
<1>8. ASSUME UNCHANGED vars PROVE completed' = completed
  BY <1>8 DEF vars
<1> QED
  BY <1>2, <1>3, <1>4, <1>5, <1>6, <1>7, <1>8 DEF Next, Step

PaidUp == invoice.status = "issued" /\ TotalPaid(paid) >= invoice.total

\* What is paid up stays so.
LEMMA PaidUpStays ==
    ASSUME TypeOK, [Next]_vars, PaidUp
    PROVE  PaidUp'
<1>1. invoice'.status = "issued" /\ invoice'.total = invoice.total
  BY IssuedKept DEF PaidUp
<1>2. /\ paid \in [Purpose -> Nat] /\ paid' \in [Purpose -> Nat]
      /\ invoice.total \in Nat
  BY StepType DEF TypeOK
<1>3. \A p \in Purpose : paid'[p] >= paid[p]
  BY Grows
<1>4. TotalPaid(paid') >= TotalPaid(paid)
  BY <1>2, <1>3 DEF TotalPaid, Purpose
<1>5. TotalPaid(paid) \in Nat /\ TotalPaid(paid') \in Nat
  BY <1>2 DEF TotalPaid, Purpose
<1> QED
  BY <1>1, <1>2, <1>4, <1>5 DEF PaidUp

Leaves == status = "final_payment_pending" /\ status' \in {"dispatch_pending", "ready_for_collection"}

\* A confirmed payment that lets the device leave has paid for all of it.
LEMMA ConfirmedIsPaid ==
    ASSUME TypeOK, NEW purpose \in Purpose, NEW amount \in Nat, Confirm(purpose, amount), Leaves
    PROVE  PaidUp'
<1> DEFINE pd == Adding(purpose, amount)
           to == Unlocks(purpose, pd)
           live == IF invoice.status = "none" THEN invoice
                   ELSE [invoice EXCEPT !.balance = invoice.total - TotalPaid(pd)]
<1>1. to # "none"
  BY DEF Confirm, Leaves, jobVars
<1>2. purpose = "final_balance" /\ TotalPaid(pd) >= invoice.total /\ to = "dispatch_pending"
  BY <1>1, Zenon DEF Unlocks, Leaves
<1>3. paid' = pd /\ invoice' = [live EXCEPT !.status = "issued"]
  BY <1>2 DEF Confirm
<1>4. invoice'.status = "issued" /\ invoice'.total = invoice.total
  <2>1. invoice \in [status : {"none", "proforma", "issued"}, total : Nat, balance : Int]
    BY DEF TypeOK
  <2>2. live = invoice \/ live = [invoice EXCEPT !.balance = invoice.total - TotalPaid(pd)]
    OBVIOUS
  <2> HIDE DEF live, pd
  <2> QED
    BY <1>3, <2>1, <2>2
<1> HIDE DEF pd
<1>5. TotalPaid(paid') = TotalPaid(pd)
  BY <1>3
<1> QED
  BY <1>2, <1>4, <1>5 DEF PaidUp

\* The device leaves the bench only by a confirmed payment or the settlement of
\* a balance of nothing: both issue the invoice, and both are covered.
LEMMA LeavesPaid ==
    ASSUME TypeOK, [Next]_vars, Leaves
    PROVE  PaidUp'
<1> USE DEF Leaves
<1>0. ASSUME NEW to, NEW actor, NEW drop, NEW want, NEW why,
             Transition(status, to, actor, drop, want, why)
      PROVE  to = "dispatch_pending" \/ to = "ready_for_collection"
  <2>1. status' = Landing(to, drop)
    BY <1>0 DEF Transition
  <2> QED
    BY <2>1, LandingCases
<1>1. ASSUME BookingStep PROVE FALSE
  BY <1>1
  DEF BookingStep, CreateDraft, CreateWalkIn, AcceptTerms, ReadDraft, Read, SubmitDraft,
      AddBookingFact, jobVars
<1>2. ASSUME CancelStep PROVE FALSE
  BY <1>0, <1>2 DEF CancelStep, CustomerCancel, AdminCancel, Move
<1>3. ASSUME CourierStep PROVE FALSE
  <2>1. ASSUME NEW to, CourierReport(to) PROVE FALSE
    <3>1. Allowed(status, to, "provider")
      BY <2>1 DEF CourierReport, Move, Transition
    <3>2. EdgesOf("provider") = ProviderEdges
      BY Zenon DEF EdgesOf, Admins
    <3> QED
      BY <3>1, <3>2 DEF Allowed, ProviderEdges
  <2> QED
    BY <1>0, <1>3, <2>1
    DEF CourierStep, RebookPickup, Move, CustomerToRider, RiderToShop, ShopToRider,
        RiderToCustomer, Handover
<1>4. ASSUME IntakeStep PROVE FALSE
  BY <1>4 DEF IntakeStep, CompleteIntake, AcknowledgeIntake, RejectIntake
<1>5. ASSUME QuoteStep PROVE FALSE
  BY <1>0, <1>5
  DEF QuoteStep, ReadForQuote, ReadForCounter, Read, CustomerAccept, ShopAcceptCounter,
      AcceptAt, CustomerDecline, jobVars
<1>6. ASSUME RepairStep \/ ReturnStep PROVE FALSE
  BY <1>0, <1>6
  DEF RepairStep, ReadForSupp, ReadSuppCounter, AnswerSupp, SetSupp, CompleteRepair, Read,
      ReturnStep, ReadForDropoff, WaiveReturnFee, RequestDispatch, ConfirmDelivered,
      CounterHandover, jobVars
<1>7. ASSUME PaymentStep PROVE PaidUp'
  <2>1. ASSUME NEW purpose \in Purpose, CashPayment(purpose) PROVE PaidUp'
    <3>1. AmountDue(purpose) \in Nat /\ Confirm(purpose, AmountDue(purpose))
      BY <2>1, TypeOKParts, AmountDueType DEF CashPayment
    <3> QED
      BY <3>1, ConfirmedIsPaid
  <2>2. ASSUME NEW q \in prompts, PromptConfirmed(q) PROVE PaidUp'
    <3>1. q.purpose \in Purpose /\ q.amount \in Nat /\ Confirm(q.purpose, q.amount)
      BY <2>2, TypeOKParts DEF PromptConfirmed, MoneyTypeOK
    <3> QED
      BY <3>1, ConfirmedIsPaid
  <2> QED
    BY <1>7, <2>1, <2>2 DEF PaymentStep, SendPrompt, PromptFails, PromptRefused, jobVars
<1>8. ASSUME FollowUpStep PROVE PaidUp'
  <2>1. CASE Settle
    <3>1. /\ TotalPaid(paid) >= invoice.total /\ invoice' = Issued /\ paid' = paid
      BY <2>1 DEF Settle, jobVars
    <3>2. invoice'.status = "issued" /\ invoice'.total = invoice.total
      BY <3>1 DEF Issued, TypeOK
    <3> QED
      BY <3>1, <3>2 DEF PaidUp
  <2> QED
    BY <1>0, <1>8, <2>1 DEF FollowUpStep, SkipZeroDeposit, ReleaseWaived, jobVars
<1>9. ASSUME TimerStep \/ FaultStep PROVE FALSE
  BY <1>9
  DEF TimerStep, HandleTimer, ClaimTimer, QuoteExpiryHandler, AutoDeclineHandler,
      AutoCloseHandler, ReminderHandler, FaultStep, HandlerFails, WorkerCrash, ServerCrash, jobVars
<1>10. ASSUME CommitStep PROVE FALSE
  <2>1. ASSUME NEW choice, ChooseDropoff(choice) PROVE FALSE
    <3>1. DropoffTarget(choice) = status
      BY Zenon DEF DropoffTarget, Returning
    <3> QED
      BY <2>1, <3>1 DEF ChooseDropoff
  <2> QED
    BY <1>0, <1>10, <2>1
    DEF CommitStep, SaveDraft, CounterQuote, SendSupp, AcceptSuppCounter, SetSupp, SendQuote,
        AbandonRead, DropoffCrash, jobVars
<1>11. ASSUME UNCHANGED vars PROVE FALSE
  BY <1>11 DEF vars, jobVars
<1> QED
  BY <1>1, <1>2, <1>3, <1>4, <1>5, <1>6, <1>7, <1>8, <1>9, <1>10, <1>11 DEF Next, Step

\* A completed repair is on the bench, or it has left it paid up.
CompletedIsPaid == completed => status \in Finished \cup Away /\ (status \in Away => PaidUp)

\* A repaired device leaves the shop or waits on its shelf only against an
\* issued invoice that is paid in full, whatever handler moved it.
THEOREM PaidBeforeReturnHolds == Spec => []PaidBeforeReturn
<1>1. Init => CompletedIsPaid
  BY DEF Init, CompletedIsPaid
<1>2. TypeOK /\ CompletedIsPaid /\ [Next]_vars => CompletedIsPaid'
  <2> SUFFICES ASSUME TypeOK, CompletedIsPaid, [Next]_vars, completed'
               PROVE  status' \in Finished \cup Away /\ (status' \in Away => PaidUp')
    BY DEF CompletedIsPaid
  <2>1. CASE status' = "repair_complete"
    BY <2>1 DEF Finished, Away, OutForReturn, Terminal
  <2>2. CASE status' # "repair_complete"
    <3>1. completed /\ status \in Finished \cup Away /\ (status \in Away => PaidUp)
      BY <2>2, CompletedKept DEF CompletedIsPaid
    <3>2. CASE Stayed
      BY <3>1, <3>2, PaidUpStays DEF Stayed
    <3>3. CASE Created
      BY <3>1, <3>3 DEF Created, Finished, Away, OutForReturn, Terminal
    <3>4. CASE Moved
      <4>1. PICK from \in JobStatus, to \in JobStatus, actor \in Actor,
                 drop \in Choice \cup {"none"}, want \in Outcome, why \in BOOLEAN :
              /\ from = status \/ <<status, from>> \in Arrives
              /\ Transition(from, to, actor, drop, want, why)
        BY <3>4 DEF Moved
      <4>2. Allowed(from, to, actor) /\ status' = Landing(to, drop)
        BY <4>1 DEF Transition
      <4>3. CASE status \in Away
        <5>1. from \in Away
          BY <4>1, <4>3 DEF Arrives, Away, OutForReturn, Terminal
        <5>2. to \in Away
          BY <4>2, <5>1, AfterRepair
        <5>3. status' \in Away
          BY <4>2, <5>2, LandingCases DEF Away, OutForReturn, Terminal
        <5> QED
          BY <3>1, <4>3, <5>3, PaidUpStays
      <4>4. CASE status \in Finished
        <5>1. from = status
          BY <4>1, <4>4 DEF Arrives, Finished
        <5>2. \/ to \in {"final_payment_pending", "repair_complete"}
              \/ from = "final_payment_pending" /\ to = "dispatch_pending"
          BY <4>2, <4>4, <5>1, AfterRepair DEF Finished
        <5>3. CASE to \in {"final_payment_pending", "repair_complete"}
          <6>1. status' = to
            BY <4>2, <5>3, LandingCases
          <6> QED
            BY <5>3, <6>1 DEF Finished, Away, OutForReturn, Terminal
        <5>4. CASE from = "final_payment_pending" /\ to = "dispatch_pending"
          <6>1. Leaves
            BY <4>2, <5>1, <5>4, LandingCases DEF Leaves
          <6> QED
            BY <6>1, LeavesPaid DEF Leaves, Away, OutForReturn
        <5> QED
          BY <5>2, <5>3, <5>4
      <4> QED
        BY <3>1, <4>3, <4>4
    <3> QED
      BY <3>2, <3>3, <3>4, StatusMoves
  <2> QED
    BY <2>1, <2>2
<1>3. CompletedIsPaid => PaidBeforeReturn
  BY DEF CompletedIsPaid, PaidBeforeReturn, PaidUp, Away, Terminal
<1> QED
  BY <1>1, <1>2, <1>3, TypeCorrect, PTL DEF Spec

(***************************************************************************)
(* Unlocked reads: what the documents say and the code does not keep       *)
(***************************************************************************)
\* The passcode is written by the draft and purged by transition_job alone.
LEMMA PasscodeKept ==
    ASSUME TypeOK, [Next]_vars
    PROVE  SaveDraft \/ passcode' = passcode \/ (status' \in Terminal => ~passcode')
<1> DEFINE Purged == status' \in Terminal => ~passcode'
<1> USE DEF jobVars
<1>0. ASSUME NEW from, NEW to, NEW actor, NEW drop, NEW want, NEW why,
             Transition(from, to, actor, drop, want, why)
      PROVE  Purged
  BY <1>0 DEF Transition
<1> HIDE DEF Purged
<1>m. ASSUME NEW to, NEW actor, NEW want, NEW why, Move(to, actor, want, why)
      PROVE  Purged
  BY <1>0, <1>m DEF Move
<1>1. ASSUME BookingStep PROVE passcode' = passcode \/ Purged
  BY <1>0, <1>1
  DEF BookingStep, CreateDraft, CreateWalkIn, AcceptTerms, ReadDraft, Read, SubmitDraft,
      AddBookingFact
<1>2. ASSUME CancelStep \/ CourierStep PROVE passcode' = passcode \/ Purged
  BY <1>0, <1>m, <1>2
  DEF CancelStep, CustomerCancel, AdminCancel, CourierStep, CourierReport,
      RebookPickup, CustomerToRider, RiderToShop, ShopToRider, RiderToCustomer, Handover
<1>3. ASSUME IntakeStep \/ QuoteStep \/ RepairStep PROVE passcode' = passcode \/ Purged
  BY <1>0, <1>m, <1>3
  DEF IntakeStep, CompleteIntake, AcknowledgeIntake, RejectIntake, Read, QuoteStep,
      ReadForQuote, ReadForCounter, CustomerAccept, ShopAcceptCounter, AcceptAt,
      CustomerDecline, RepairStep, ReadForSupp, ReadSuppCounter, AnswerSupp, SetSupp,
      CompleteRepair
<1>4. ASSUME ReturnStep \/ FollowUpStep PROVE passcode' = passcode \/ Purged
  BY <1>0, <1>m, <1>4
  DEF ReturnStep, ReadForDropoff, Read, WaiveReturnFee, RequestDispatch, ConfirmDelivered,
      CounterHandover, FollowUpStep, SkipZeroDeposit, Settle, ReleaseWaived
<1>5. ASSUME PaymentStep PROVE passcode' = passcode \/ Purged
  BY <1>0, <1>5 DEF PaymentStep, SendPrompt, CashPayment, PromptFails, PromptConfirmed, PromptRefused, Confirm
<1>6. ASSUME TimerStep \/ FaultStep PROVE passcode' = passcode \/ Purged
  BY <1>0, <1>m, <1>6
  DEF TimerStep, HandleTimer, ClaimTimer, QuoteExpiryHandler, AutoDeclineHandler,
      AutoCloseHandler, ReminderHandler, FaultStep, HandlerFails, WorkerCrash, ServerCrash
<1>7. ASSUME CommitStep PROVE SaveDraft \/ passcode' = passcode \/ Purged
  BY <1>0, <1>7
  DEF CommitStep, CounterQuote, SendSupp, AcceptSuppCounter, SetSupp, SendQuote,
      ChooseDropoff, AbandonRead, DropoffCrash
<1>8. ASSUME UNCHANGED vars PROVE passcode' = passcode
  BY <1>8 DEF vars
<1> QED
  BY <1>1, <1>2, <1>3, <1>4, <1>5, <1>6, <1>7, <1>8 DEF Next, Step, Purged

\* A passcode outlives its job by one step alone.
LEMMA PurgeStep ==
    ASSUME TypeOK, PasscodePurged, [Next]_vars, ~PasscodePurged'
    PROVE  SaveDraft /\ status \in Terminal
<1>0. status' \in Terminal /\ passcode'
  BY DEF PasscodePurged
<1>1. CASE Created
  BY <1>0, <1>1 DEF Created, Terminal
<1>2. CASE Moved
  BY <1>0, <1>2 DEF Moved, Transition
<1>3. CASE Stayed
  <2>1. status' = status /\ status \in Terminal /\ ~passcode
    BY <1>0, <1>3 DEF Stayed, PasscodePurged
  <2> QED
    BY <1>0, <2>1, PasscodeKept
<1> QED
  BY <1>1, <1>2, <1>3, StatusMoves

\* A purged passcode comes back by one thing only: a draft that was read before
\* its job was closed and is saved after (service.ts:95).
THEOREM PurgeIsOvertaken ==
    Spec => [][PasscodePurged /\ ~PasscodePurged' => SaveDraft /\ status \in Terminal]_vars
<1>1. TypeOK /\ [Next]_vars
        => [PasscodePurged /\ ~PasscodePurged' => SaveDraft /\ status \in Terminal]_vars
  BY PurgeStep
<1> QED
  BY <1>1, TypeCorrect, PTL DEF Spec

\* The statuses of a main quote that is out, and of one that is accepted.
Quoted == {"quote_sent", "quote_negotiating", "quote_expired", "deposit_pending"}

\* A move to any other status lands on another one.
LEMMA LandsElsewhere ==
    ASSUME NEW to, to \notin Quoted, NEW from, NEW actor, NEW drop, NEW want, NEW why,
           Transition(from, to, actor, drop, want, why)
    PROVE  status' \notin Quoted
<1>1. status' = Landing(to, drop)
  BY DEF Transition
<1> QED
  BY <1>1, LandingCases DEF Quoted

\* A step that has nothing to do with the main quote, and does not bring the
\* job to one of its statuses.
Unquoted ==
    UNCHANGED <<quote, accepted>> /\ (status' = status \/ status' \notin Quoted)

\* The steps that write the main quote: the two that read it unlocked, an
\* acceptance, the expiry, and those that end in the return fee.
QuoteWrite ==
    \/ (\E price \in Prices : SendQuote(price)) \/ CounterQuote
    \/ quote' = "accepted" /\ status' = "deposit_pending" /\ followUp' = "deposit"
    \/ QuoteExpiryHandler
    \/ accepted' = accepted /\ status' = "return_fee_pending"

\* No other step writes the quote or brings the job to its statuses.
LEMMA QuoteWrites ==
    ASSUME [Next]_vars
    PROVE  Unquoted \/ QuoteWrite
<1> USE DEF quoteVars
<1>0. ASSUME NEW to, NEW actor, NEW want, NEW why, to \notin Quoted, Move(to, actor, want, why)
      PROVE  Unquoted
  BY <1>0, LandsElsewhere DEF Move, Unquoted
<1>q. ASSUME NEW actor, Transition(status, "quote_declined", actor, dropoff, "none", FALSE)
             \/ Transition(status, "quote_declined", actor, dropoff, "none", TRUE)
      PROVE  status' = "return_fee_pending"
  BY <1>q, LandingCases DEF Transition
<1>1. ASSUME BookingStep PROVE Unquoted
  <2>1. {"draft", "pickup_fee_pending", "received_at_shop"} \cap Quoted = {}
    BY DEF Quoted
  <2> QED
    BY <1>1, <2>1, LandsElsewhere
    DEF BookingStep, CreateDraft, CreateWalkIn, AcceptTerms, ReadDraft, Read, SubmitDraft,
        AddBookingFact, jobVars, Unquoted
<1>2. ASSUME CancelStep PROVE Unquoted
  <2>1. {"cancelled", "return_fee_pending"} \cap Quoted = {}
    BY DEF Quoted
  <2> QED
    BY <1>0, <1>2, <2>1 DEF CancelStep, CustomerCancel, AdminCancel
<1>3. ASSUME CourierStep PROVE Unquoted
  <2>1. ASSUME NEW to \in JobStatus, CourierReport(to) PROVE Unquoted
    <3>1. <<status, to>> \in ProviderEdges
      BY <2>1, Zenon DEF CourierReport, Move, Transition, Allowed, EdgesOf, Admins
    <3>2. to \notin Quoted
      BY <3>1 DEF ProviderEdges, Quoted
    <3> QED
      BY <1>0, <2>1, <3>2 DEF CourierReport
  <2>2. {"pickup_requested", "picked_up", "received_at_shop", "collected_from_shop",
         "delivered"} \cap Quoted = {}
    BY DEF Quoted
  <2> QED
    BY <1>0, <1>3, <2>1, <2>2, LandsElsewhere
    DEF CourierStep, RebookPickup, CustomerToRider, RiderToShop, ShopToRider, RiderToCustomer,
        Handover, Unquoted
<1>4. ASSUME IntakeStep PROVE Unquoted
  <2>1. {"diagnosing", "intake_ack_pending", "return_fee_pending"} \cap Quoted = {}
    BY DEF Quoted
  <2> QED
    BY <1>0, <1>4, <2>1, LandsElsewhere
    DEF IntakeStep, CompleteIntake, AcknowledgeIntake, RejectIntake, Unquoted
<1>5. ASSUME QuoteStep PROVE Unquoted \/ QuoteWrite
  <2>1. ASSUME NEW price, NEW actor, AcceptAt(price, actor) PROVE QuoteWrite
    <3>1. status' = Landing("deposit_pending", dropoff)
      BY <2>1 DEF AcceptAt, Transition
    <3> QED
      BY <2>1, <3>1, LandingCases DEF AcceptAt, QuoteWrite
  <2>2. ASSUME CustomerDecline PROVE QuoteWrite
    BY <1>q, <2>2 DEF CustomerDecline, QuoteWrite
  <2> QED
    BY <1>5, <2>1, <2>2
    DEF QuoteStep, ReadForQuote, ReadForCounter, Read, CustomerAccept, ShopAcceptCounter,
        jobVars, Unquoted
<1>6. ASSUME RepairStep PROVE Unquoted
  <2>1. "repair_complete" \notin Quoted
    BY DEF Quoted
  <2> QED
    BY <1>6, <2>1, LandsElsewhere
    DEF RepairStep, ReadForSupp, ReadSuppCounter, AnswerSupp, SetSupp, CompleteRepair, Read,
        jobVars, Unquoted
<1>t. TerminalFor(outcome) \notin Quoted
  BY Zenon DEF TerminalFor, Quoted
<1>7. ASSUME ReturnStep PROVE Unquoted
  <2>1. "return_requested" \notin Quoted
    BY DEF Quoted
  <2> QED
    BY <1>0, <1>7, <1>t, <2>1
    DEF ReturnStep, ReadForDropoff, Read, WaiveReturnFee, RequestDispatch, ConfirmDelivered,
        CounterHandover, jobVars, Unquoted
<1>8. ASSUME PaymentStep PROVE Unquoted
  <2>1. ASSUME NEW purpose, NEW amount, Confirm(purpose, amount) PROVE Unquoted
    <3> DEFINE to == Unlocks(purpose, Adding(purpose, amount))
    <3>1. to \notin Quoted
      BY Zenon DEF Unlocks, Quoted
    <3>2. to = "none" => UNCHANGED jobVars
      BY <2>1 DEF Confirm
    <3>3. to # "none" => Transition(status, to, "system", dropoff, "none", FALSE)
      BY <2>1 DEF Confirm
    <3>4. UNCHANGED quoteVars
      BY <2>1 DEF Confirm
    <3> QED
      BY <3>1, <3>2, <3>3, <3>4, LandsElsewhere DEF jobVars, Unquoted
  <2> QED
    BY <1>8, <2>1
    DEF PaymentStep, SendPrompt, CashPayment, PromptFails, PromptConfirmed, PromptRefused,
        jobVars, Unquoted
<1>9. ASSUME FollowUpStep PROVE Unquoted
  <2>1. {"in_repair", "dispatch_pending"} \cap Quoted = {}
    BY DEF Quoted
  <2> QED
    BY <1>0, <1>9, <2>1, LandsElsewhere
    DEF FollowUpStep, SkipZeroDeposit, Settle, ReleaseWaived, jobVars, Unquoted
<1>10. ASSUME TimerStep \/ FaultStep PROVE Unquoted \/ QuoteWrite
  <2>1. ASSUME AutoDeclineHandler PROVE Unquoted \/ QuoteWrite
    BY <1>q, <2>1 DEF AutoDeclineHandler, jobVars, Unquoted, QuoteWrite
  <2> QED
    BY <1>0, <1>10, <1>t, <2>1
    DEF TimerStep, HandleTimer, ClaimTimer, AutoCloseHandler, ReminderHandler, FaultStep,
        HandlerFails, WorkerCrash, ServerCrash, jobVars, Unquoted, QuoteWrite
<1>11. ASSUME CommitStep PROVE Unquoted \/ QuoteWrite
  <2>1. ASSUME NEW choice \in Choice, ChooseDropoff(choice) PROVE Unquoted
    <3>1. DropoffTarget(choice)
            \in {status, "ready_for_collection", "return_requested", "final_payment_pending"}
      BY Zenon DEF DropoffTarget
    <3>2. CASE DropoffTarget(choice) = status
      BY <2>1, <3>2 DEF ChooseDropoff, Unquoted
    <3>3. CASE DropoffTarget(choice) # status
      <4>1. DropoffTarget(choice) \notin Quoted
        BY <3>1, <3>3 DEF Quoted
      <4>2. Transition(status, DropoffTarget(choice), "customer", choice, "none", FALSE)
        BY <2>1, <3>3 DEF ChooseDropoff
      <4>3. UNCHANGED quoteVars
        BY <2>1 DEF ChooseDropoff
      <4> QED
        BY <4>1, <4>2, <4>3, LandsElsewhere DEF Unquoted
    <3> QED
      BY <3>2, <3>3
  <2> QED
    BY <1>11, <2>1
    DEF CommitStep, SaveDraft, SendSupp, AcceptSuppCounter, SetSupp, AbandonRead, DropoffCrash,
        jobVars, Unquoted, QuoteWrite
<1>12. ASSUME UNCHANGED vars PROVE Unquoted
  BY <1>12 DEF vars, jobVars, Unquoted
<1> QED
  BY <1>1, <1>2, <1>3, <1>4, <1>5, <1>6, <1>7, <1>8, <1>9, <1>10, <1>11, <1>12 DEF Next, Step

\* Where a quote is sent or countered, the job ends.
LEMMA QuoteSentLands ==
    ASSUME NEW price, SendQuote(price)
    PROVE  /\ quote' = "sent" /\ accepted' = accepted /\ followUp' = followUp
           /\ reader.op = "quote"
           /\ IF reader.status = "quote_sent" THEN status' = status ELSE status' = "quote_sent"
<1>1. ASSUME Transition(status, "quote_sent", "technician", dropoff, "none", FALSE)
      PROVE  status' = "quote_sent"
  BY <1>1, LandingCases DEF Transition
<1> QED
  BY <1>1 DEF SendQuote, Commits, jobVars

\* The same of a counter-offer.
LEMMA CounterLands ==
    ASSUME CounterQuote
    PROVE  /\ quote \in OpenQuote /\ quote' = "negotiating"
           /\ accepted' = accepted /\ followUp' = followUp
           /\ reader.op = "counter"
           /\ IF reader.status = "quote_sent" THEN status' = "quote_negotiating"
              ELSE status' = status
<1>1. ASSUME Transition(status, "quote_negotiating", "customer", dropoff, "none", FALSE)
      PROVE  status' = "quote_negotiating"
  BY <1>1, LandingCases DEF Transition
<1> QED
  BY <1>1 DEF CounterQuote, Commits, jobVars

\* The same of an expiry.
LEMMA ExpiryLands ==
    ASSUME QuoteExpiryHandler
    PROVE  /\ accepted' = accepted /\ followUp' = followUp
           /\ IF status \in {"quote_sent", "quote_negotiating"}
              THEN /\ status' = "quote_expired"
                   /\ quote' = IF quote \in OpenQuote THEN "expired" ELSE quote
              ELSE status' = status /\ quote' = quote
<1>1. ASSUME Transition(status, "quote_expired", "system", dropoff, "none", FALSE)
      PROVE  status' = "quote_expired"
  BY <1>1, LandingCases DEF Transition
<1> QED
  BY <1>1 DEF QuoteExpiryHandler, Handled, jobVars

\* A job begins its repair with an accepted quote, or goes on with it.
LEMMA RepairIsAccepted ==
    ASSUME TypeOK, [Next]_vars, AcceptedStaysAccepted, status' \in UnderRepair
    PROVE  quote = "accepted"
<1>1. CASE Stayed
  BY <1>1 DEF Stayed, AcceptedStaysAccepted
<1>2. CASE Created
  BY <1>2 DEF Created, UnderRepair
<1>3. CASE Moved
  <2>1. PICK from \in JobStatus, to \in JobStatus, actor \in Actor,
             drop \in Choice \cup {"none"}, want \in Outcome, why \in BOOLEAN :
          /\ from = status \/ <<status, from>> \in Arrives
          /\ Transition(from, to, actor, drop, want, why)
    BY <1>3 DEF Moved
  <2>2. /\ Allowed(from, to, actor) /\ PaymentGuard(from, to, drop, paid')
        /\ status' = Landing(to, drop)
    BY <2>1 DEF Transition, Guard
  <2>3. to \in UnderRepair
    BY <2>2, LandingInWork DEF Work
  <2>4. CASE to = "in_repair"
    BY <2>2, <2>4 DEF PaymentGuard
  <2>5. CASE to # "in_repair"
    BY <2>1, <2>2, <2>3, <2>5, IntoRepair DEF Arrives, UnderRepair, AcceptedStaysAccepted
  <2> QED
    BY <2>4, <2>5
<1> QED
  BY <1>1, <1>2, <1>3, StatusMoves

\* A quote that is due or under repair stops being accepted by one step alone.
LEMMA AcceptedStep ==
    ASSUME TypeOK, AcceptedStaysAccepted, [Next]_vars, ~AcceptedStaysAccepted'
    PROVE  \E price \in Prices :
               SendQuote(price) /\ status \in {"deposit_pending"} \cup UnderRepair
<1> DEFINE Due == {"deposit_pending"} \cup UnderRepair
<1>0. /\ status' \in Due /\ quote' # "accepted"
      /\ status \in Due => quote = "accepted"
  BY DEF AcceptedStaysAccepted
<1>1. ~Unquoted
  BY <1>0, RepairIsAccepted DEF Unquoted, Quoted
<1>2. ASSUME NEW price \in Prices, SendQuote(price) PROVE status \in Due
  <2>1. status' = status \/ status' = "quote_sent"
    BY <1>2, QuoteSentLands
  <2> QED
    BY <1>0, <2>1 DEF UnderRepair
<1>3. ~CounterQuote
  <2>1. ASSUME CounterQuote PROVE FALSE
    <3>1. quote \in OpenQuote /\ status' \in {status, "quote_negotiating"}
      BY <2>1, CounterLands
    <3> QED
      BY <1>0, <3>1 DEF UnderRepair, OpenQuote
  <2> QED
    BY <2>1
<1>4. ~QuoteExpiryHandler
  BY <1>0, ExpiryLands DEF UnderRepair
<1>5. status' # "return_fee_pending"
  BY <1>0 DEF UnderRepair
<1> QED
  BY <1>0, <1>1, <1>2, <1>3, <1>4, <1>5, QuoteWrites DEF QuoteWrite

\* An accepted quote is taken back by one thing only: a revision that was read
\* before the acceptance and is written after it (quotes.ts:55).
THEOREM AcceptanceIsOvertaken ==
    Spec => [][AcceptedStaysAccepted /\ ~AcceptedStaysAccepted' =>
                  \E price \in Prices :
                      SendQuote(price) /\ status \in {"deposit_pending"} \cup UnderRepair]_vars
<1>1. TypeOK /\ [Next]_vars =>
        [AcceptedStaysAccepted /\ ~AcceptedStaysAccepted' =>
            \E price \in Prices :
                SendQuote(price) /\ status \in {"deposit_pending"} \cup UnderRepair]_vars
  BY AcceptedStep
<1> QED
  BY <1>1, TypeCorrect, PTL DEF Spec

\* What the bench and the customer see of a quote that is out.
OpenRowsAgree ==
    /\ status = "quote_sent" => quote = "sent"
    /\ status = "quote_negotiating" => quote = "negotiating"
    /\ status = "quote_expired" => quote = "expired"

\* Job, quote and passcode come to say different things by three things only: a
\* draft saved after its job was closed (service.ts:95), a quote written over an
\* accepted one (quotes.ts:55), and a quote or a counter-offer written for a job
\* that has moved on since it was read.
THEOREM RowsAreOvertaken ==
    Spec => [][RowsAgree /\ ~RowsAgree' =>
                  \/ SaveDraft /\ status \in Terminal
                  \/ \E price \in Prices :
                        SendQuote(price) /\ status \in {"deposit_pending"} \cup UnderRepair
                  \/ (CounterQuote \/ \E price \in Prices : SendQuote(price))
                        /\ reader.status # status]_vars
<1> DEFINE Late == (CounterQuote \/ \E price \in Prices : SendQuote(price)) /\ reader.status # status
<1>1. ASSUME OpenRowsAgree, [Next]_vars, ~Late PROVE OpenRowsAgree'
  <2> USE <1>1
  <2>1. CASE Unquoted
    BY <2>1 DEF Unquoted, Quoted, OpenRowsAgree
  <2>2. ASSUME NEW price \in Prices, SendQuote(price) PROVE OpenRowsAgree'
    <3>1. reader.status = status
      BY <2>2
    <3>2. quote' = "sent" /\ status' = "quote_sent"
      BY <2>2, <3>1, QuoteSentLands
    <3> QED
      BY <3>2 DEF OpenRowsAgree
  <2>3. ASSUME CounterQuote PROVE OpenRowsAgree'
    <3>1. reader.status = status /\ quote \in OpenQuote
      BY <2>3, CounterLands
    <3>2. status # "quote_expired"
      BY <3>1 DEF OpenRowsAgree, OpenQuote
    <3>3. quote' = "negotiating" /\ status' \notin {"quote_sent", "quote_expired"}
      BY <2>3, <3>1, <3>2, CounterLands
    <3> QED
      BY <3>3 DEF OpenRowsAgree
  <2>4. ASSUME QuoteExpiryHandler PROVE OpenRowsAgree'
    BY <2>4, ExpiryLands DEF OpenRowsAgree, OpenQuote
  <2>5. ASSUME status' \in {"deposit_pending", "return_fee_pending"} PROVE OpenRowsAgree'
    BY <2>5 DEF OpenRowsAgree
  <2> QED
    BY <2>1, <2>2, <2>3, <2>4, <2>5, QuoteWrites DEF QuoteWrite
<1>2. RowsAgree <=> PasscodePurged /\ AcceptedStaysAccepted /\ OpenRowsAgree
  BY DEF RowsAgree, OpenRowsAgree
<1>3. RowsAgree' <=> PasscodePurged' /\ AcceptedStaysAccepted' /\ OpenRowsAgree'
  BY DEF RowsAgree, OpenRowsAgree
<1>4. ASSUME TypeOK, [Next]_vars, RowsAgree, ~RowsAgree'
      PROVE  \/ SaveDraft /\ status \in Terminal
             \/ \E price \in Prices :
                   SendQuote(price) /\ status \in {"deposit_pending"} \cup UnderRepair
             \/ Late
  BY <1>1, <1>2, <1>3, <1>4, PurgeStep, AcceptedStep
<1> QED
  BY <1>4, TypeCorrect, PTL DEF Spec

=============================================================================
