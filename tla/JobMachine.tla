----------------------------- MODULE JobMachine -----------------------------
(***************************************************************************)
(* The job state machine as the database holds it: the thirty statuses,    *)
(* the edges of job_transitions with the actors allowed on each, the       *)
(* statuses in which each job timer survives, and the consequences that    *)
(* transition_job() attaches to entering a status.  Everything here is a   *)
(* constant: JobLifecycle turns it into behaviour.                         *)
(***************************************************************************)
EXTENDS Naturals, FiniteSets

(***************************************************************************)
(* Statuses and actors                                                     *)
(***************************************************************************)
\* While the device is with the customer or on its way to the shop.
InboundStatus ==
    {"draft", "pickup_fee_pending", "pickup_requested", "rider_en_route_to_customer",
     "pickup_failed", "picked_up", "in_transit_to_shop"}

QuoteStatus == {"quote_sent", "quote_negotiating", "quote_expired", "quote_declined"}

BenchStatus ==
    {"received_at_shop", "intake_ack_pending", "diagnosing", "deposit_pending",
     "in_repair", "repair_complete", "final_payment_pending", "return_fee_pending"}

\* The device is packed, waits on the shelf, or is on its way back.
OutboundStatus ==
    {"dispatch_pending", "ready_for_collection", "return_requested",
     "rider_en_route_to_shop", "collected_from_shop", "in_transit_to_customer",
     "return_failed", "delivered"}

Terminal == {"closed", "cancelled", "declined_returned"}

JobStatus == InboundStatus \cup QuoteStatus \cup BenchStatus \cup OutboundStatus \cup Terminal

Actor == {"customer", "technician", "shop_admin", "platform_admin", "system", "provider"}

\* A shop admin may do what a technician may, and a platform admin in support
\* mode what a shop admin may.
Admins == {"shop_admin", "platform_admin"}
Staff  == {"technician"} \cup Admins

(***************************************************************************)
(* Edges, grouped by who may take them                                     *)
(***************************************************************************)
\* Edges a customer may take.
CustomerEdges ==
    {<<"draft", "pickup_fee_pending">>,
     <<"pickup_fee_pending", "draft">>,
     <<"pickup_requested", "rider_en_route_to_customer">>,
     <<"rider_en_route_to_customer", "picked_up">>,
     <<"pickup_failed", "pickup_requested">>,
     <<"intake_ack_pending", "diagnosing">>,
     <<"intake_ack_pending", "return_fee_pending">>,
     <<"diagnosing", "return_fee_pending">>,
     <<"quote_sent", "quote_negotiating">>,
     <<"quote_sent", "deposit_pending">>,
     <<"quote_negotiating", "deposit_pending">>,
     <<"return_fee_pending", "ready_for_collection">>,
     <<"repair_complete", "final_payment_pending">>,
     <<"final_payment_pending", "repair_complete">>,
     <<"return_failed", "return_requested">>,
     <<"return_failed", "ready_for_collection">>}
    \cup ({"collected_from_shop", "in_transit_to_customer"} \X {"delivered"})
    \cup ({"quote_sent", "quote_negotiating", "quote_expired", "deposit_pending"}
            \X {"quote_declined"})
    \cup ({"draft", "pickup_fee_pending", "pickup_requested",
           "rider_en_route_to_customer", "pickup_failed"} \X {"cancelled"})
    \cup ({"delivered"} \X Terminal)

\* Edges any member of staff may take.
TechnicianEdges ==
    {<<"draft", "received_at_shop">>,
     <<"picked_up", "received_at_shop">>,
     <<"in_transit_to_shop", "received_at_shop">>,
     <<"received_at_shop", "diagnosing">>,
     <<"received_at_shop", "intake_ack_pending">>,
     <<"quote_negotiating", "deposit_pending">>,
     <<"in_repair", "repair_complete">>,
     <<"return_requested", "rider_en_route_to_shop">>,
     <<"rider_en_route_to_shop", "collected_from_shop">>}
    \cup ({"diagnosing", "quote_negotiating", "quote_expired"} \X {"quote_sent"})
    \cup ({"ready_for_collection"} \X Terminal)

\* Edges only an admin of the shop may take, besides those of a technician.
AdminOnlyEdges ==
    {<<"rider_en_route_to_customer", "picked_up">>,
     <<"pickup_failed", "pickup_requested">>,
     <<"return_fee_pending", "ready_for_collection">>,
     <<"repair_complete", "final_payment_pending">>,
     <<"final_payment_pending", "repair_complete">>,
     <<"dispatch_pending", "return_requested">>,
     <<"return_failed", "return_requested">>,
     <<"return_failed", "ready_for_collection">>}
    \cup ({"pickup_requested", "rider_en_route_to_customer"} \X {"pickup_failed"})
    \cup ({"return_requested", "rider_en_route_to_shop", "collected_from_shop",
           "in_transit_to_customer"} \X {"return_failed"})
    \cup ({"collected_from_shop", "in_transit_to_customer"} \X {"delivered"})
    \cup ({"quote_sent", "quote_negotiating", "quote_expired", "deposit_pending"}
            \X {"quote_declined"})
    \cup ({"received_at_shop", "intake_ack_pending", "diagnosing", "in_repair"}
            \X {"return_fee_pending"})
    \cup ({"draft", "pickup_fee_pending", "pickup_requested",
           "rider_en_route_to_customer", "pickup_failed"} \X {"cancelled"})
    \cup ({"delivered"} \X Terminal)

\* Edges a courier's report may take.
ProviderEdges ==
    {<<"pickup_requested", "rider_en_route_to_customer">>,
     <<"rider_en_route_to_customer", "picked_up">>,
     <<"picked_up", "in_transit_to_shop">>,
     <<"return_requested", "rider_en_route_to_shop">>,
     <<"collected_from_shop", "in_transit_to_customer">>}
    \cup ({"collected_from_shop", "in_transit_to_customer"} \X {"delivered"})
    \cup ({"pickup_requested", "rider_en_route_to_customer"} \X {"pickup_failed"})
    \cup ({"return_requested", "rider_en_route_to_shop", "collected_from_shop",
           "in_transit_to_customer"} \X {"return_failed"})

\* Edges the system takes: whatever a courier may report, what a confirmed
\* payment unlocks, what a timer does, and the two automatic steps onwards.
SystemEdges ==
    ProviderEdges \cup
    {<<"pickup_fee_pending", "pickup_requested">>,
     <<"quote_sent", "quote_expired">>,
     <<"quote_negotiating", "quote_expired">>,
     <<"quote_expired", "quote_declined">>,
     <<"quote_declined", "return_fee_pending">>,
     <<"return_fee_pending", "dispatch_pending">>,
     <<"deposit_pending", "in_repair">>,
     <<"final_payment_pending", "dispatch_pending">>,
     <<"dispatch_pending", "return_requested">>,
     <<"dispatch_pending", "ready_for_collection">>}
    \cup ({"delivered"} \X Terminal)

EdgesOf(actor) ==
    CASE actor = "customer"   -> CustomerEdges
      [] actor = "technician" -> TechnicianEdges
      [] actor \in Admins     -> TechnicianEdges \cup AdminOnlyEdges
      [] actor = "provider"   -> ProviderEdges
      [] actor = "system"     -> SystemEdges

\* transition_job refuses every move that is not listed for its actor.
Allowed(from, to, actor) == <<from, to>> \in EdgesOf(actor)

(***************************************************************************)
(* Outcomes                                                                *)
(***************************************************************************)
Outcome == {"none", "repaired", "declined", "cancelled"}

\* Mutants of OutcomeOn: dispatch counts as repaired; an outcome that is set
\* survives a cancellation.
OutcomeAtDispatch(to, outcome, want) ==
    CASE to = "cancelled"      -> "cancelled"
      [] to = "quote_declined" -> "declined"
      [] to = "return_fee_pending" /\ outcome = "none" ->
            IF want = "none" THEN "declined" ELSE want
      [] to = "dispatch_pending" -> "repaired"
      [] OTHER -> outcome

OutcomeKept(to, outcome, want) ==
    CASE outcome # "none"      -> outcome
      [] to = "cancelled"      -> "cancelled"
      [] to = "quote_declined" -> "declined"
      [] to = "return_fee_pending" -> IF want = "none" THEN "declined" ELSE want
      [] to = "in_repair"      -> "repaired"
      [] OTHER -> outcome

\* The outcome after entering status "to": "want" is the outcome the caller
\* put in the payload, "none" when it put none.
OutcomeOn(to, outcome, want) ==
    CASE to = "cancelled"      -> "cancelled"
      [] to = "quote_declined" -> "declined"
      [] to = "return_fee_pending" /\ outcome = "none" ->
            IF want = "none" THEN "declined" ELSE want
      [] to = "in_repair" /\ outcome = "none" -> "repaired"
      [] OTHER -> outcome

\* The terminal status a returned device closes with.
TerminalFor(outcome) ==
    CASE outcome = "repaired" -> "closed"
      [] outcome = "declined" -> "declined_returned"
      [] OTHER                -> "cancelled"

(***************************************************************************)
(* Timers                                                                  *)
(***************************************************************************)
TimerKind ==
    {"quote_expiry", "expired_quote_autodecline", "deposit_reminder",
     "final_payment_reminder", "dropoff_reminder", "unclaimed_alert", "auto_close"}

\* The statuses in which an unfired timer of this kind is kept.
AliveIn(kind) ==
    CASE kind = "quote_expiry" -> {"quote_sent", "quote_negotiating"}
      [] kind = "expired_quote_autodecline" -> {"quote_expired"}
      [] kind = "deposit_reminder" -> {"deposit_pending"}
      [] kind = "final_payment_reminder" -> {"final_payment_pending"}
      [] kind = "dropoff_reminder" -> {"repair_complete"}
      [] kind = "unclaimed_alert" ->
            {"repair_complete", "ready_for_collection", "return_failed"}
      [] kind = "auto_close" -> {"delivered"}

\* The timers scheduled on entering a status.
ScheduledOn(to) ==
    CASE to = "quote_sent" -> {"quote_expiry"}
      [] to = "quote_expired" -> {"expired_quote_autodecline"}
      [] to = "deposit_pending" -> {"deposit_reminder"}
      [] to = "final_payment_pending" -> {"final_payment_reminder"}
      [] to = "repair_complete" -> {"dropoff_reminder", "unclaimed_alert"}
      [] to \in {"ready_for_collection", "return_failed"} -> {"unclaimed_alert"}
      [] to = "delivered" -> {"auto_close"}
      [] OTHER -> {}

\* Mutant of Survives: a move cancels nothing but the expiry timer it replaces.
SurvivesMoves(kind, to) == ~(kind = "quote_expiry" /\ to = "quote_sent")

\* Unfired timers that outlive the move to "to": those alive there, except
\* that a newly sent quote replaces its expiry timer.
Survives(kind, to) ==
    /\ to \in AliveIn(kind)
    /\ ~(kind = "quote_expiry" /\ to = "quote_sent")

\* The number of unfired timers of each kind after entering "to".
TimersOn(to, live) ==
    [kind \in TimerKind |->
        (IF Survives(kind, to) THEN live[kind] ELSE 0)
          + (IF kind \in ScheduledOn(to) THEN 1 ELSE 0)]

(***************************************************************************)
(* Statuses a job only passes through                                      *)
(***************************************************************************)
\* transition_job moves on by itself from a declined quote, and from a
\* dispatch whose customer collects at the shop.
Landing(to, dropoff) ==
    CASE to = "quote_declined" -> "return_fee_pending"
      [] to = "dispatch_pending" /\ dropoff = "collect_at_shop" -> "ready_for_collection"
      [] OTHER -> to

\* The timers after entering "to" and whatever it leads on to by itself.
TimersAt(to, dropoff, live) ==
    IF Landing(to, dropoff) = to THEN TimersOn(to, live)
    ELSE TimersOn(Landing(to, dropoff), TimersOn(to, live))

=============================================================================
