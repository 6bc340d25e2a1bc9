------------------------------ MODULE Couriers ------------------------------
(***************************************************************************)
(* One courier leg of a job: quoting, booking, cancelling, the courier's   *)
(* reports by webhook and by polling, and the handovers scanned at the     *)
(* door and at the bench.                                                  *)
(*                                                                         *)
(* The worker books and cancels rides from the outbox.  Whatever waits on  *)
(* the courier's API with a row read or locked is two steps: a booking     *)
(* holds the job row, a report the row of its delivery, a scan and a       *)
(* cancellation hold nothing.                                              *)
(*                                                                         *)
(* A delivery is known by its attempt number, which is also what the       *)
(* idempotency key of a booking is made of.  The lease of an outbox row is *)
(* the subject of WorkQueue; here a task is tried again or, when the       *)
(* courier refuses it or its last try has failed, given up: its row is     *)
(* dead and the operator alerted.                                          *)
(***************************************************************************)
EXTENDS JobMachine

CONSTANTS
    Legs,         \* the legs looked at: a subset of {"pickup", "return"}
    Providers,    \* the couriers: a subset of {"mock", "tumaboda"}
    MaxAttempts,  \* bound: delivery rows of the leg
    MaxReports,   \* bound: reports on their way at once
    MaxFaults     \* bound: lost replies, aborted reports, crashes

ASSUME LegsAssumption ==
    /\ Legs \subseteq {"pickup", "return"} /\ Providers \subseteq {"mock", "tumaboda"}
    /\ MaxAttempts \in Nat /\ MaxReports \in Nat /\ MaxFaults \in Nat

VARIABLES
    leg,         \* the leg this job is on
    provider,    \* tenant_settings.delivery_provider
    status,      \* jobs.status
    rows,        \* deliveries.status by attempt, "absent" without a row
    booked,      \* attempts whose provider_delivery_id is stored
    creates,     \* pending delivery.create rows of the outbox
    cancels,     \* attempts with a pending delivery.cancel row
    dead,        \* dead outbox rows: delivery.cancel by attempt; 0, a booking
                 \* given up since the job came to wait for its courier
    booking,     \* the attempt the courier is being asked for, 0 if none
    cancelling,  \* the attempt the courier has just cancelled, 0 if none
    applying,    \* a report being applied: its delivery row is locked
    scan,        \* a code the courier is being asked to verify
    courier,     \* the courier's own record of a ride, by attempt
    wire,        \* reports on their way: webhook events, and statuses a poll has read
    revived,     \* history: a scan has marked a ride that had ended by then
    faults       \* what has gone wrong so far

jobVars     == <<leg, provider, status>>
rowVars     == <<rows, booked>>
taskVars    == <<creates, cancels, dead, booking, cancelling>>
courierVars == <<courier, wire>>
scanVars    == <<scan, revived>>
vars == <<jobVars, rowVars, taskVars, applying, scanVars, courierVars, faults>>

(***************************************************************************)
(* Values                                                                  *)
(***************************************************************************)
Attempt == 1 .. MaxAttempts

\* The order in which a ride goes on.  A rider who is assigned and one who is on
\* the way are treated alike everywhere: "rider_assigned" stands for both.
Progress == <<"requested", "rider_assigned", "picked_up", "in_transit", "delivered">>

Rank        == [s \in {Progress[i] : i \in DOMAIN Progress} |->
                    CHOOSE i \in DOMAIN Progress : Progress[i] = s]
Ended       == {"failed", "cancelled"}
RideStatus  == {Progress[i] : i \in DOMAIN Progress} \cup Ended
Active      == RideStatus \ (Ended \cup {"delivered"})
ToTheDoor   == {"requested", "rider_assigned"}
WithRider   == {"picked_up", "in_transit"}

Requested == IF leg = "pickup" THEN "pickup_requested" ELSE "return_requested"

\* The statuses of the leg during which a courier has work to do.
Underway ==
    {"pickup_requested", "rider_en_route_to_customer", "picked_up", "in_transit_to_shop",
     "return_requested", "rider_en_route_to_shop", "collected_from_shop",
     "in_transit_to_customer"}

\* What a report moves the job from and to.
PickupMoves ==
    {<<"picked_up", "rider_en_route_to_customer", "picked_up">>,
     <<"in_transit", "rider_en_route_to_customer", "picked_up">>,
     <<"in_transit", "picked_up", "in_transit_to_shop">>,
     <<"rider_assigned", "pickup_requested", "rider_en_route_to_customer">>}
    \cup ({"failed"} \X {"pickup_requested", "rider_en_route_to_customer"} \X {"pickup_failed"})

ReturnMoves ==
    {<<"picked_up", "rider_en_route_to_shop", "collected_from_shop">>,
     <<"in_transit", "rider_en_route_to_shop", "collected_from_shop">>,
     <<"in_transit", "collected_from_shop", "in_transit_to_customer">>,
     <<"rider_assigned", "return_requested", "rider_en_route_to_shop">>}
    \cup ({"delivered"} \X {"collected_from_shop", "in_transit_to_customer"} \X {"delivered"})
    \cup ({"failed"} \X {"return_requested", "rider_en_route_to_shop", "collected_from_shop",
                         "in_transit_to_customer"} \X {"return_failed"})

Moves == PickupMoves \cup ReturnMoves

MovesTo(report, from) == {m[3] : m \in {x \in Moves : x[1] = report /\ x[2] = from}}

\* The four handovers: where the job is, where a job that was not reported on
\* its way yet is brought first, where it goes, who scans, what becomes of the
\* delivery ("same": what was read).
Handover ==
    [customer_to_rider |->
        [leg |-> "pickup", from |-> {"rider_en_route_to_customer"}, early |-> "pickup_requested",
         to |-> "picked_up", actor |-> "customer", row |-> "picked_up"],
     rider_to_shop |->
        [leg |-> "pickup", from |-> {"picked_up", "in_transit_to_shop"}, early |-> "none",
         to |-> "received_at_shop", actor |-> "technician", row |-> "same"],
     shop_to_rider |->
        [leg |-> "return", from |-> {"rider_en_route_to_shop"}, early |-> "return_requested",
         to |-> "collected_from_shop", actor |-> "technician", row |-> "picked_up"],
     rider_to_customer |->
        [leg |-> "return", from |-> {"collected_from_shop", "in_transit_to_customer"},
         early |-> "none", to |-> "delivered", actor |-> "customer", row |-> "delivered"]]

None == [n |-> 0]

Report == [n : Attempt, s : RideStatus]

TypeOK ==
    /\ leg \in {"pickup", "return"} /\ provider \in {"mock", "tumaboda"}
    /\ status \in JobStatus
    /\ rows \in [Attempt -> RideStatus \cup {"absent", "quoted"}]
    /\ booked \subseteq Attempt
    /\ creates \in Nat /\ cancels \subseteq Attempt /\ dead \subseteq 0 .. MaxAttempts
    /\ booking \in 0 .. MaxAttempts /\ cancelling \in 0 .. MaxAttempts
    /\ applying \in {None} \cup [n : Attempt, s : RideStatus, job : JobStatus]
    /\ scan \in {None} \cup [n : Attempt, row : RideStatus, job : JobStatus, point : DOMAIN Handover]
    /\ courier \in [Attempt -> RideStatus \cup {"none"}]
    /\ wire \subseteq Report
    /\ revived \in BOOLEAN /\ faults \in Nat

\* The job has just been moved to where a courier is wanted, which wrote the
\* outbox row; the leg was quoted when the slot or the drop-off was chosen.
Init ==
    /\ leg \in Legs /\ provider \in Providers
    /\ status = Requested
    /\ rows = [n \in Attempt |-> IF n = 1 THEN "quoted" ELSE "absent"]
    /\ booked = {}
    /\ creates = 1 /\ cancels = {} /\ dead = {}
    /\ booking = 0 /\ cancelling = 0
    /\ applying = None /\ scan = None /\ revived = FALSE
    /\ wire = {}
    /\ courier = [n \in Attempt |-> "none"]
    /\ faults = 0

(***************************************************************************)
(* Moving the job.  transition_job locks the job row, which a booking      *)
(* holds while it waits for the courier.                                   *)
(***************************************************************************)
JobFree == booking = 0

RowFree(n) == applying.n # n

Live == {n \in Attempt : rows[n] \in Active}

\* activeDelivery: the latest of them.
Latest == {n \in Live : \A k \in Live : k <= n}

\* Entering a status that wants a courier queues a booking.
Wants(to) ==
    IF to \in {"pickup_requested", "return_requested"}
    THEN creates' = creates + 1 /\ dead' = dead \ {0}
    ELSE UNCHANGED <<creates, dead>>

\* Mutant of Goes: nobody tells the courier of a cancelled job.
GoesQuietly(from, to, actor) ==
    /\ JobFree
    /\ Allowed(from, to, actor)
    /\ status' = to
    /\ Wants(to)
    /\ UNCHANGED <<leg, provider, cancels, booking, cancelling>>

\* A job that moves queues its booking; a cancelled one, the cancellation of its
\* live ride.
Goes(from, to, actor) ==
    /\ JobFree
    /\ Allowed(from, to, actor)
    /\ status' = to
    /\ Wants(to)
    /\ cancels' = IF to = "cancelled" THEN cancels \cup Latest ELSE cancels
    /\ UNCHANGED <<leg, provider, booking, cancelling>>

NextAttempt == Cardinality({n \in Attempt : rows[n] # "absent"}) + 1

\* The customer calls the pickup off, or asks for another one.
CancelBooking ==
    /\ leg = "pickup" /\ status \in {"pickup_requested", "rider_en_route_to_customer", "pickup_failed"}
    /\ Goes(status, "cancelled", "customer")
    /\ UNCHANGED <<rowVars, applying, scanVars, courierVars, faults>>

RebookPickup ==
    /\ status = "pickup_failed" /\ NextAttempt \in Attempt
    /\ Goes(status, "pickup_requested", "customer")
    /\ UNCHANGED <<rowVars, applying, scanVars, courierVars, faults>>

\* A new quote supersedes the ones before it.
Requoted == [n \in Attempt |->
    IF n = NextAttempt THEN "quoted" ELSE IF rows[n] = "quoted" THEN "cancelled" ELSE rows[n]]

\* The customer of a failed return chooses a drop-off again: the leg is quoted
\* in a transaction of its own, then the job is moved.
QuoteReturn ==
    /\ status = "return_failed" /\ NextAttempt \in Attempt
    /\ rows' = Requoted
    /\ UNCHANGED <<jobVars, booked, taskVars, applying, scanVars, courierVars, faults>>

RebookReturn ==
    /\ status = "return_failed"
    /\ \/ "quoted" \in {rows[n] : n \in Attempt} /\ Goes(status, "return_requested", "customer")
          /\ UNCHANGED rows
       \/ Goes(status, "ready_for_collection", "customer")
          /\ rows' = [n \in Attempt |-> IF rows[n] = "quoted" THEN "cancelled" ELSE rows[n]]
    /\ UNCHANGED <<booked, applying, scanVars, courierVars, faults>>

(***************************************************************************)
(* The worker books and cancels                                            *)
(***************************************************************************)
\* Mutant of Blocking: a failed ride still counts as booked.
BlockingFailed(n) == rows[n] \notin {"absent", "quoted", "cancelled"}

\* A row that makes a booking do nothing.
Blocking(n) == rows[n] \notin {"absent", "quoted", "cancelled", "failed"}

\* The row a booking is for: the quoted one, or a fresh quote.
ToBook == IF \E n \in Attempt : rows[n] = "quoted"
          THEN CHOOSE n \in Attempt : rows[n] = "quoted" ELSE NextAttempt

\* Mutant of BookCall: it trusts the quote it finds.
BookCallAgain ==
    /\ creates > 0 /\ booking = 0 /\ status = Requested /\ ToBook \in Attempt
    /\ booking' = ToBook
    /\ courier' = [courier EXCEPT ![ToBook] = IF @ = "none" THEN "requested" ELSE @]
    /\ UNCHANGED <<jobVars, rowVars, creates, cancels, dead, cancelling, applying, scanVars, wire, faults>>

CanBook ==
    /\ creates > 0 /\ booking = 0 /\ status = Requested
    /\ \A n \in Attempt : ~Blocking(n)
    /\ ToBook \in Attempt

\* bookLeg: with the job locked, the courier is asked.  A key it has seen
\* before gives the ride it has.
BookCall ==
    /\ CanBook
    /\ booking' = ToBook
    /\ courier' = [courier EXCEPT ![ToBook] = IF @ = "none" THEN "requested" ELSE @]
    /\ UNCHANGED <<jobVars, rowVars, creates, cancels, dead, cancelling, applying, scanVars, wire, faults>>

\* A task is given up: its row is dead, and the platform's admins are told.
BookDead == creates' = creates - 1 /\ dead' = dead \cup {0}

\* The courier refuses the quote or the ride, for good: rolled back.
BookRefused ==
    /\ CanBook /\ provider # "mock"
    /\ BookDead
    /\ UNCHANGED <<jobVars, rowVars, cancels, booking, cancelling, applying, scanVars, courierVars, faults>>

\* The answer is stored and the task done.
BookCommit ==
    /\ booking # 0
    /\ rows' = [rows EXCEPT ![booking] = "requested"]
    /\ booked' = booked \cup {booking}
    /\ creates' = creates - 1
    /\ booking' = 0
    /\ UNCHANGED <<jobVars, cancels, dead, cancelling, applying, scanVars, courierVars, faults>>

\* The worker dies after the commit: the ride is booked, the task still pending.
BookUnmarked ==
    /\ booking # 0 /\ faults < MaxFaults
    /\ rows' = [rows EXCEPT ![booking] = "requested"]
    /\ booked' = booked \cup {booking}
    /\ booking' = 0 /\ faults' = faults + 1
    /\ UNCHANGED <<jobVars, creates, cancels, dead, cancelling, applying, scanVars, courierVars>>

\* Nothing to book: the job has moved on, or a ride is booked already.
BookNothing ==
    /\ creates > 0 /\ JobFree
    /\ status # Requested \/ \E n \in Attempt : Blocking(n)
    /\ creates' = creates - 1
    /\ UNCHANGED <<jobVars, rowVars, cancels, dead, booking, cancelling, applying, scanVars, courierVars, faults>>

\* The reply is lost or the worker dies: rolled back.  The task stays pending,
\* or that was its last try and the courier has a ride that nobody knows of.
BookLost ==
    /\ booking # 0 /\ faults < MaxFaults
    /\ booking' = 0 /\ faults' = faults + 1
    /\ UNCHANGED <<creates, dead>> \/ BookDead
    /\ UNCHANGED <<jobVars, rowVars, cancels, cancelling, applying, scanVars, courierVars>>

\* A report sets out.  Reports overtake each other, and one is lost when it
\* never arrives or makes room for a later one.
SetsOut(e) ==
    \/ Cardinality(wire \cup {e}) <= MaxReports /\ wire' = wire \cup {e}
    \/ \E lost \in wire :
            Cardinality(wire \cup {e}) > MaxReports /\ wire' = (wire \ {lost}) \cup {e}

\* The simulated courier calls no webhook.
Sends(e) == IF provider = "mock" THEN UNCHANGED wire ELSE SetsOut(e)

\* cancelDelivery reads the row unlocked, asks the courier and writes.
CancelCall(n) ==
    /\ n \in cancels /\ cancelling = 0 /\ rows[n] \notin {"cancelled", "delivered"}
    /\ provider = "mock" \/ courier[n] \in Active
    /\ cancelling' = n
    /\ IF provider = "mock" THEN UNCHANGED courierVars
       ELSE /\ courier' = [courier EXCEPT ![n] = "cancelled"]
            /\ Sends([n |-> n, s |-> "cancelled"])
    /\ UNCHANGED <<jobVars, rowVars, creates, cancels, dead, booking, applying, scanVars, faults>>

CancelWrite ==
    /\ cancelling # 0 /\ RowFree(cancelling)
    /\ rows' = [rows EXCEPT ![cancelling] = "cancelled"]
    /\ cancels' = cancels \ {cancelling}
    /\ cancelling' = 0
    /\ UNCHANGED <<jobVars, booked, creates, dead, booking, applying, scanVars, courierVars, faults>>

\* The row is over already.
CancelNothing(n) ==
    /\ n \in cancels /\ cancelling = 0 /\ rows[n] \in {"cancelled", "delivered"}
    /\ cancels' = cancels \ {n}
    /\ UNCHANGED <<jobVars, rowVars, creates, dead, booking, cancelling, applying, scanVars, courierVars, faults>>

CancelDead(n) == cancels' = cancels \ {n} /\ dead' = dead \cup {n}

\* The courier refuses, for good or for the last time: the ride goes on.
CancelRefused(n) ==
    /\ n \in cancels /\ cancelling = 0 /\ rows[n] \notin {"cancelled", "delivered"}
    /\ provider # "mock"
    /\ CancelDead(n)
    /\ UNCHANGED <<jobVars, rowVars, creates, booking, cancelling, applying, scanVars, courierVars, faults>>

\* The reply is lost; that, too, may have been the last try.
CancelLost ==
    /\ cancelling # 0 /\ faults < MaxFaults
    /\ cancelling' = 0 /\ faults' = faults + 1
    /\ UNCHANGED <<cancels, dead>> \/ CancelDead(cancelling)
    /\ UNCHANGED <<jobVars, rowVars, creates, booking, applying, scanVars, courierVars>>

(***************************************************************************)
(* Reports                                                                 *)
(***************************************************************************)
\* A report goes forward, or ends the ride.
Forward(now, s) == s \in Ended \/ (now \notin Ended /\ Rank[s] > Rank[now])

\* applyDeliveryStatus does something: the ride is not over and goes forward.
Concerns(n, s) == n \in booked /\ rows[n] \notin Ended /\ Forward(rows[n], s)

\* The delivery row is locked, the job read without a lock.
Begin(n, s) ==
    /\ applying = None
    /\ applying' = [n |-> n, s |-> s, job |-> status]
    /\ UNCHANGED <<jobVars, rowVars, taskVars, scanVars, faults>>

\* pollDeliveries asks for the status of a ride that has not picked up yet, and
\* looks at the row again when it applies what it was told.
PollRead(n) ==
    /\ n \in booked /\ rows[n] \in ToTheDoor
    /\ SetsOut([n |-> n, s |-> courier[n]])
    /\ UNCHANGED <<jobVars, rowVars, taskVars, applying, scanVars, courier, faults>>

\* A report arrives.  A webhook's key is stored before the event is looked at,
\* so an event is processed once and for good, also one of a ride that is not
\* stored yet; a second copy of it does nothing.
Hear(e) ==
    /\ wire' = wire \ {e} /\ UNCHANGED courier
    /\ IF Concerns(e.n, e.s) THEN Begin(e.n, e.s)
       ELSE /\ RowFree(e.n) /\ UNCHANGED applying
            /\ UNCHANGED <<jobVars, rowVars, taskVars, scanVars, faults>>

\* Mutant of ApplyCommit: the job is moved and the row left as it is.
ApplyJobOnly ==
    /\ applying # None
    /\ IF MovesTo(applying.s, applying.job) = {} THEN UNCHANGED <<jobVars, taskVars>>
       ELSE \E to \in MovesTo(applying.s, applying.job) : Goes(status, to, "provider")
    /\ applying' = None
    /\ UNCHANGED <<rowVars, scanVars, courierVars, faults>>

\* The row is written and the job moved as the status it was read in says.
ApplyCommit ==
    /\ applying # None
    /\ rows' = [rows EXCEPT ![applying.n] = applying.s]
    /\ IF MovesTo(applying.s, applying.job) = {} THEN UNCHANGED <<jobVars, taskVars>>
       ELSE \E to \in MovesTo(applying.s, applying.job) : Goes(status, to, "provider")
    /\ applying' = None
    /\ UNCHANGED <<booked, scanVars, courierVars, faults>>

\* transition_job refuses a move for the job as it has become.
ApplyRefused ==
    /\ applying # None /\ JobFree
    /\ \E to \in MovesTo(applying.s, applying.job) : ~Allowed(status, to, "provider")
    /\ applying' = None
    /\ UNCHANGED <<jobVars, rowVars, taskVars, scanVars, courierVars, faults>>

\* The transaction is the victim of a deadlock with a scan, or dies.
ApplyLost ==
    /\ applying # None /\ faults < MaxFaults
    /\ applying' = None /\ faults' = faults + 1
    /\ UNCHANGED <<jobVars, rowVars, taskVars, scanVars, courierVars>>

(***************************************************************************)
(* Handovers                                                               *)
(***************************************************************************)
\* recordHandover reads job and delivery and asks the courier about the code.
ScanRead(point) ==
    /\ scan = None /\ Handover[point].leg = leg
    /\ status \in Handover[point].from \cup {Handover[point].early}
    /\ \E n \in Latest : scan' = [n |-> n, row |-> rows[n], job |-> status, point |-> point]
    /\ UNCHANGED <<jobVars, revived, rowVars, taskVars, applying, courierVars, faults>>

\* Mutant of ScanCommit: the delivery is left to the courier's reports.
ScanUnmarked ==
    LET point == Handover[scan.point] IN
    /\ scan # None
    /\ IF scan.job = point.early
       THEN \E mid \in point.from :
                Allowed(status, mid, point.actor) /\ Goes(mid, point.to, point.actor)
       ELSE Goes(status, point.to, point.actor)
    /\ scan' = None
    /\ UNCHANGED <<revived, rowVars, applying, courierVars, faults>>

\* The code is right: the delivery is marked, the job moved, by way of the
\* rider's arrival when it was read before that.
ScanCommit ==
    LET point == Handover[scan.point] IN
    /\ scan # None /\ RowFree(scan.n)
    /\ rows' = [rows EXCEPT ![scan.n] = IF point.row = "same" THEN scan.row ELSE point.row]
    /\ IF scan.job = point.early
       THEN \E mid \in point.from :
                Allowed(status, mid, point.actor) /\ Goes(mid, point.to, point.actor)
       ELSE Goes(status, point.to, point.actor)
    /\ scan' = None /\ revived' = (revived \/ rows[scan.n] \in Ended)
    /\ UNCHANGED <<booked, applying, courierVars, faults>>

\* The code is wrong, the job has moved, or the request dies: rolled back.
ScanFails ==
    /\ scan # None
    /\ scan' = None
    /\ UNCHANGED <<revived, jobVars, rowVars, taskVars, applying, courierVars, faults>>

\* The simulated courier has no reports: a job it holds is taken to be moving.
AutoAdvance ==
    /\ provider = "mock"
    /\ \/ status = "picked_up" /\ Goes(status, "in_transit_to_shop", "provider")
       \/ status = "collected_from_shop" /\ Goes(status, "in_transit_to_customer", "provider")
    /\ UNCHANGED <<rowVars, applying, scanVars, courierVars, faults>>

(***************************************************************************)
(* The courier.  External: rides go on, fail or are called off as they     *)
(* like, and every change is reported.  The simulated one only gets to     *)
(* the door.                                                               *)
(***************************************************************************)
RideGoesOn(n, s) ==
    /\ courier[n] \in Active
    /\ s \in Ended \cup {t \in RideStatus \ Ended : Rank[t] = Rank[courier[n]] + 1}
    /\ provider = "mock" => s \in ToTheDoor
    /\ courier' = [courier EXCEPT ![n] = s]
    /\ Sends([n |-> n, s |-> s])
    /\ UNCHANGED <<jobVars, rowVars, taskVars, applying, scanVars, faults>>

(***************************************************************************)
(* Specification                                                           *)
(***************************************************************************)
CustomerStep == CancelBooking \/ RebookPickup \/ QuoteReturn \/ RebookReturn

WorkerStep ==
    \/ BookCall \/ BookRefused \/ BookCommit \/ BookNothing \/ BookUnmarked \/ BookLost
    \/ \E n \in Attempt : CancelCall(n) \/ CancelRefused(n) \/ CancelNothing(n)
    \/ CancelWrite \/ CancelLost

ReportStep ==
    \/ \E n \in Attempt : PollRead(n)
    \/ \E e \in wire : Hear(e)
    \/ ApplyCommit \/ ApplyRefused \/ ApplyLost

HandoverStep ==
    \/ \E point \in DOMAIN Handover : ScanRead(point)
    \/ ScanCommit \/ ScanFails \/ AutoAdvance

Next ==
    \/ CustomerStep \/ WorkerStep \/ ReportStep \/ HandoverStep
    \/ \E n \in Attempt, s \in RideStatus : RideGoesOn(n, s)

Spec == Init /\ [][Next]_vars

\* The worker's loop drains the outbox, and a transaction that has started
\* ends.  A courier that is asked to take or to call off a ride does so or
\* refuses; customers, couriers and their reports owe nothing else.
Fairness ==
    /\ WF_vars(BookCall \/ BookRefused \/ BookNothing) /\ WF_vars(BookCommit)
    /\ \A n \in Attempt : WF_vars(CancelCall(n) \/ CancelRefused(n) \/ CancelNothing(n))
    /\ WF_vars(CancelWrite)
    /\ WF_vars(ApplyCommit \/ ApplyRefused)

FairSpec == Spec /\ Fairness

(***************************************************************************)
(* Properties                                                              *)
(***************************************************************************)
\* A job whose leg has failed can be booked again: no row of the leg would make
\* the booking that a rebooking queues do nothing (logistics.ts:75), as long as
\* no late scan has brought an ended ride back.
FailedCanRebook ==
    status \in {"pickup_failed", "return_failed"} /\ ~revived
        => \A n \in Attempt : ~Blocking(n)

\* The device is with a rider only on a ride that was booked with the courier,
\* and whose row says it was picked up, is delivered, or ended since.
CarriedIsTracked ==
    status \in {"picked_up", "in_transit_to_shop", "collected_from_shop", "in_transit_to_customer"}
        => \E n \in booked : rows[n] \in WithRider \cup Ended \cup {"delivered"}

\* A job that waits for its rider with no booking pending has a ride that has
\* not failed, or its booking was given up and lies dead in the outbox: a failed
\* ride moves the job in the same transaction.  (A rider who cancels does not,
\* see NotStranded.)
WaitingIsTracked ==
    status = Requested /\ creates = 0 /\ ~revived /\ 0 \notin dead
        => \E n \in booked : rows[n] # "failed"

\* A ride the shop has as failed or cancelled is over at the courier too,
\* whatever order its reports, a cancellation and a scan come in.
EndedIsOver ==
    provider # "mock" => \A n \in booked : rows[n] \in Ended => courier[n] \notin Active

\* A job that was called off has every ride that is still under way queued to
\* be cancelled, or dead in the outbox because the courier would not, though
\* only the latest live one was ever looked for.
CalledOffIsQueued ==
    status = "cancelled" /\ provider # "mock"
        => \A n \in booked : courier[n] \in Active => n \in cancels \cup dead

\* The job and its rides say the same: no device without its ride, and neither a
\* wait without one, nor a rider for a job called off, unless the outbox shows
\* the task that was given up; no rider comes for a ride that is over.
JobAndRidesAgree == CarriedIsTracked /\ WaitingIsTracked /\ EndedIsOver /\ CalledOffIsQueued

\* However often the outbox runs a booking, and whatever it is retried after: a
\* ride is booked only while the leg has no live one.
OneRideAtATime == [][\A n \in booked' \ booked : Live = {}]_vars

\* A booking that is called off ends every ride the shop knows of at the courier
\* too, or leaves a dead row for the one the courier would not call off (the
\* simulated one has nobody to call off).
CalledOffEnds ==
    status = "cancelled" ~>
        \A n \in booked : courier[n] \notin Active \/ n \in dead \/ provider = "mock"

\* A queued booking of a job that still wants a courier is never dropped without
\* a trace: it leads to a ride, whatever rides came to an end before, or to a
\* dead row and an alert (within the bound on rows).
WantedIsBooked ==
    creates > 0 /\ status = Requested /\ Cardinality(booked) < MaxAttempts
        ~> \/ status # Requested
           \/ \E n \in Attempt : rows[n] \in Active \cup {"delivered"}
           \/ 0 \in dead

(***************************************************************************)
(* What the documents say and the code does not keep                       *)
(***************************************************************************)
\* PLAN.md: the courier reports that the rider cancelled, so the job must not
\* get stuck.  A job under way has a live ride, a booking pending, or a report
\* to hear.
NotStranded ==
    status \in Underway =>
        Live # {} \/ creates > 0 \/ 0 \in dead \/ applying # None \/ scan # None
=============================================================================
