--------------------------- MODULE CouriersProofs ---------------------------
(***************************************************************************)
(* A leg's safety for every number of rides, reports and faults, for both  *)
(* legs and both couriers.                                                 *)
(*                                                                         *)
(* A booking holds the job, a report its delivery row, a scan nothing.     *)
(* The invariant says what each of them may rely on when it comes to       *)
(* write: nothing has been booked since the booking looked, the row is     *)
(* still what the report was compared with, the scanned ride is one the    *)
(* shop has booked.                                                        *)
(*                                                                         *)
(* That job, rows and courier agree rests on a second one: what is known   *)
(* of a ride that is over is true, and only the last ride can be under way.*)
(***************************************************************************)
EXTENDS Couriers, FiniteSetTheorems, TLAPS

(***************************************************************************)
(* Rides                                                                   *)
(***************************************************************************)
\* The statuses of a ride, spelt out.
LEMMA RideStatuses ==
    /\ RideStatus = {"requested", "rider_assigned", "picked_up", "in_transit", "delivered",
                     "failed", "cancelled"}
    /\ Active = {"requested", "rider_assigned", "picked_up", "in_transit"}
<1>1. DOMAIN Progress = {1, 2, 3, 4, 5}
  BY DEF Progress
<1>2. {Progress[i] : i \in DOMAIN Progress} =
         {"requested", "rider_assigned", "picked_up", "in_transit", "delivered"}
  BY <1>1 DEF Progress
<1>3. RideStatus = {"requested", "rider_assigned", "picked_up", "in_transit", "delivered",
                    "failed", "cancelled"}
  BY <1>2 DEF RideStatus, Ended
<1> QED
  BY <1>3 DEF Active, Ended

\* A ride that has picked up can only be reported further on, or ended.
LEMMA Onwards ==
    ASSUME NEW now \in RideStatus, NEW s \in RideStatus, Forward(now, s),
           now \in WithRider \cup {"delivered"}
    PROVE  s \in WithRider \cup Ended \cup {"delivered"}
<1>1. DOMAIN Progress = {1, 2, 3, 4, 5}
  BY DEF Progress
<1>2. {Progress[i] : i \in DOMAIN Progress} =
         {"requested", "rider_assigned", "picked_up", "in_transit", "delivered"}
  BY <1>1 DEF Progress
<1>3. ASSUME NEW i \in 1 .. 5 PROVE Rank[Progress[i]] = i
  <2>1. Progress[i] \in {Progress[j] : j \in DOMAIN Progress} /\ i \in DOMAIN Progress
    BY <1>1
  <2>2. \A j \in DOMAIN Progress : Progress[j] = Progress[i] => j = i
    BY <1>1 DEF Progress
  <2> QED
    BY <2>1, <2>2 DEF Rank
<1>4. /\ Rank["requested"] = 1 /\ Rank["rider_assigned"] = 2 /\ Rank["picked_up"] = 3
      /\ Rank["in_transit"] = 4 /\ Rank["delivered"] = 5
  BY <1>3, <1>1 DEF Progress
<1> QED
  BY <1>4, RideStatuses DEF Forward, WithRider, Ended

(***************************************************************************)
(* The inductive invariant                                                 *)
(***************************************************************************)
\* Rows are made one after the other.
RowsInOrder == \E k \in 0 .. MaxAttempts : \A n \in Attempt : rows[n] # "absent" <=> n <= k

\* A row past its quote is of a ride the courier was asked for, and only such a
\* row is.
RidesAreBooked ==
    \A n \in Attempt :
        /\ n \in booked => rows[n] \in RideStatus /\ courier[n] \in RideStatus
        /\ rows[n] \notin {"absent", "quoted", "cancelled"} => n \in booked

CancelsAreBooked == cancels \subseteq booked /\ (cancelling # 0 => cancelling \in booked)

\* With the job locked nothing that a booking looked at changes.
BookingHolds ==
    booking # 0 =>
        /\ status = Requested /\ creates > 0
        /\ booking \notin booked /\ courier[booking] \in RideStatus
        /\ \A n \in Attempt : ~Blocking(n)
        /\ \A n \in Attempt : n < booking => rows[n] # "absent"

\* With its row locked a report stays one that concerns the row.
ReportHolds == applying # None => Concerns(applying.n, applying.s)

ScanIsBooked == scan # None => scan.n \in booked /\ scan.row \in Active

\* Unless a late scan has brought one back, one row at most is in the way.
OneInTheWay ==
    ~revived => \A m \in Attempt, n \in Attempt : Blocking(m) /\ Blocking(n) => m = n

Inner ==
    /\ RowsInOrder /\ RidesAreBooked /\ CancelsAreBooked /\ BookingHolds /\ ReportHolds
    /\ ScanIsBooked /\ OneInTheWay /\ FailedCanRebook /\ CarriedIsTracked

IInv == TypeOK /\ Inner

(***************************************************************************)
(* Helpers of the steps                                                    *)
(***************************************************************************)
\* The next row is one that is not there.
LEMMA NextIsAbsent ==
    ASSUME TypeOK, RowsInOrder
    PROVE  /\ NextAttempt \in Nat \ {0}
           /\ \A n \in Attempt : rows[n] # "absent" <=> n < NextAttempt
<1>1. PICK k \in 0 .. MaxAttempts : \A n \in Attempt : rows[n] # "absent" <=> n <= k
  BY DEF RowsInOrder
<1>2. {n \in Attempt : rows[n] # "absent"} = 1 .. k
  BY <1>1, LegsAssumption DEF Attempt
<1>3. Cardinality(1 .. k) = k
  BY FS_Interval, LegsAssumption
<1>4. NextAttempt = k + 1
  BY <1>2, <1>3 DEF NextAttempt
<1> QED
  BY <1>1, <1>4, LegsAssumption DEF Attempt

\* A live ride is one the shop has booked.
LEMMA LiveIsBooked ==
    ASSUME RidesAreBooked
    PROVE  Latest \subseteq Live /\ Live \subseteq booked
BY RideStatuses DEF Latest, Live, RidesAreBooked

\* Moving the job leaves rows and rides alone.
LEMMA GoesFrame ==
    ASSUME NEW from, NEW to \in JobStatus, NEW actor, TypeOK, Goes(from, to, actor)
    PROVE  /\ booking = 0 /\ booking' = 0 /\ status' = to /\ cancelling' = cancelling
           /\ leg' = leg /\ provider' = provider
           /\ creates' \in Nat /\ dead' \subseteq dead /\ cancels \subseteq cancels' /\ cancels' \subseteq cancels \cup Latest
           /\ cancels' \subseteq Attempt
BY DEF Goes, Wants, JobFree, TypeOK, Latest, Live

\* The statuses a report moves a job to.
LEMMA MovesFacts ==
    ASSUME NEW s, NEW from, NEW to \in MovesTo(s, from)
    PROVE  /\ to \in JobStatus
           /\ to \in {"pickup_failed", "return_failed"} => s = "failed"
           /\ to \in {"picked_up", "in_transit_to_shop", "collected_from_shop",
                     "in_transit_to_customer"} => s \in WithRider
<1>1. <<s, from, to>> \in Moves
  <2>1. PICK m \in Moves : m[1] = s /\ m[2] = from /\ to = m[3]
    BY DEF MovesTo
  <2>2. m = <<m[1], m[2], m[3]>>
    BY DEF Moves, PickupMoves, ReturnMoves
  <2> QED
    BY <2>1, <2>2
<1>2. CASE <<s, from, to>> \in PickupMoves
  BY <1>2 DEF PickupMoves, JobStatus, InboundStatus, WithRider
<1>3. CASE <<s, from, to>> \in ReturnMoves
  BY <1>3 DEF ReturnMoves, JobStatus, OutboundStatus, Terminal, WithRider
<1> QED
  BY <1>1, <1>2, <1>3 DEF Moves

\* A dead row stays, unless another booking is queued, and is of a booking or of a
\* cancellation.
LEMMA DeadStays ==
    ASSUME TypeOK, [Next]_vars
    PROVE  /\ dead \subseteq dead' \/ (creates' = creates + 1 /\ dead' = dead \ {0})
           /\ dead' \subseteq 0 .. MaxAttempts
<1> DEFINE Kept == /\ dead \subseteq dead' \/ (creates' = creates + 1 /\ dead' = dead \ {0})
                   /\ dead' \subseteq 0 .. MaxAttempts
<1> USE LegsAssumption DEF taskVars, TypeOK, Attempt
<1>1. ASSUME UNCHANGED vars PROVE Kept
  BY <1>1 DEF vars
<1>2. ASSUME CustomerStep PROVE Kept
  BY <1>2 DEF CustomerStep, CancelBooking, RebookPickup, QuoteReturn, RebookReturn, Goes, Wants
<1>3. ASSUME WorkerStep PROVE Kept
  <2>1. ASSUME NEW d \in 0 .. MaxAttempts, dead' = dead \/ dead' = dead \cup {d} PROVE Kept
    BY <2>1
  <2>2. CASE BookCall \/ BookCommit \/ BookNothing \/ BookUnmarked \/ CancelWrite
    <3>1. dead' = dead
      BY <2>2 DEF BookCall, BookCommit, BookNothing, BookUnmarked, CancelWrite
    <3> QED
      BY <3>1
  <2>3. CASE BookRefused \/ BookLost
    <3>1. dead' = dead \/ dead' = dead \cup {0}
      BY <2>3 DEF BookRefused, BookLost, BookDead
    <3> QED
      BY <2>1, <3>1
  <2>4. ASSUME NEW n \in Attempt, CancelCall(n) \/ CancelRefused(n) \/ CancelNothing(n)
        PROVE  Kept
    <3>1. dead' = dead \/ dead' = dead \cup {n}
      BY <2>4 DEF CancelCall, CancelRefused, CancelDead, CancelNothing
    <3> QED
      BY <2>1, <3>1
  <2>5. CASE CancelLost
    <3>1. dead' = dead \/ dead' = dead \cup {cancelling}
      BY <2>5 DEF CancelLost, CancelDead
    <3> QED
      BY <2>1, <3>1
  <2> QED
    BY <1>3, <2>2, <2>3, <2>4, <2>5 DEF WorkerStep
<1>4. ASSUME ReportStep PROVE Kept
  BY <1>4
  DEF ReportStep, PollRead, Hear, Begin, ApplyCommit, ApplyRefused, ApplyLost, Goes, Wants
<1>5. ASSUME HandoverStep PROVE Kept
  BY <1>5 DEF HandoverStep, ScanRead, ScanCommit, ScanFails, AutoAdvance, Goes, Wants
<1>6. ASSUME NEW n \in Attempt, NEW s \in RideStatus, RideGoesOn(n, s) PROVE Kept
  BY <1>6 DEF RideGoesOn
<1> QED
  BY <1>1, <1>2, <1>3, <1>4, <1>5, <1>6 DEF Next

(***************************************************************************)
(* Types                                                                   *)
(***************************************************************************)
\* Every step keeps the types, given what it may rely on.
LEMMA TypeKept == ASSUME IInv, [Next]_vars PROVE TypeOK'
<1> USE LegsAssumption, RideStatuses DEF IInv, jobVars, rowVars, taskVars, courierVars, scanVars
<1>0. Requested \in JobStatus
  BY DEF Requested, JobStatus, InboundStatus, OutboundStatus
<1>d. dead' \subseteq 0 .. MaxAttempts
  BY DeadStays
<1> USE <1>d
<1>1. CASE UNCHANGED vars
  BY <1>1 DEF vars, TypeOK
<1>2. CASE CancelBooking
  <2>1. Goes(status, "cancelled", "customer") /\ "cancelled" \in JobStatus
    BY <1>2 DEF CancelBooking, JobStatus, Terminal
  <2> QED
    BY <1>2, <2>1, GoesFrame DEF CancelBooking, TypeOK
<1>3. CASE RebookPickup
  <2>1. Goes(status, "pickup_requested", "customer") /\ "pickup_requested" \in JobStatus
    BY <1>3 DEF RebookPickup, JobStatus, InboundStatus
  <2> QED
    BY <1>3, <2>1, GoesFrame DEF RebookPickup, TypeOK
<1>4. CASE QuoteReturn
  <2>1. rows' \in [Attempt -> RideStatus \cup {"absent", "quoted"}]
    BY <1>4 DEF QuoteReturn, Requoted, TypeOK
  <2> QED
    BY <1>4, <2>1 DEF QuoteReturn, TypeOK
<1>5. CASE RebookReturn
  <2>1. rows' \in [Attempt -> RideStatus \cup {"absent", "quoted"}]
    BY <1>5 DEF RebookReturn, TypeOK
  <2>2. PICK to \in {"return_requested", "ready_for_collection"} : Goes(status, to, "customer")
    BY <1>5 DEF RebookReturn
  <2>3. to \in JobStatus
    BY DEF JobStatus, OutboundStatus
  <2> QED
    BY <1>5, <2>1, <2>2, <2>3, GoesFrame DEF RebookReturn, TypeOK
<1>6. CASE BookCall
  BY <1>6 DEF BookCall, CanBook, TypeOK, Attempt
<1>7. CASE BookCommit \/ BookUnmarked
  <2>1. creates' \in Nat
    BY <1>7 DEF BookCommit, BookUnmarked, TypeOK, Inner, BookingHolds
  <2>2. rows' \in [Attempt -> RideStatus \cup {"absent", "quoted"}] /\ booked' \subseteq Attempt
    <3>1. booking \in Attempt
      BY <1>7 DEF BookCommit, BookUnmarked, TypeOK, Attempt
    <3>2. rows' = [rows EXCEPT ![booking] = "requested"] /\ booked' = booked \cup {booking}
      BY <1>7 DEF BookCommit, BookUnmarked
    <3> QED
      BY <3>1, <3>2 DEF TypeOK
  <2> QED
    BY <1>7, <2>1, <2>2 DEF BookCommit, BookUnmarked, TypeOK
<1>8. CASE BookNothing \/ BookRefused \/ BookLost
  <2>1. creates > 0
    BY <1>8 DEF BookNothing, BookRefused, CanBook, BookLost, Inner, BookingHolds
  <2>2. creates' = creates \/ creates' = creates - 1
    BY <1>8 DEF BookNothing, BookRefused, BookLost, BookDead
  <2>3. creates' \in Nat
    BY <2>1, <2>2 DEF TypeOK
  <2>4. faults' \in Nat /\ booking' \in 0 .. MaxAttempts
    BY <1>8 DEF BookNothing, BookRefused, BookLost, TypeOK
  <2> QED
    BY <1>8, <2>3, <2>4 DEF BookNothing, BookRefused, BookLost, BookDead, TypeOK
<1>9. ASSUME NEW n \in Attempt, CancelCall(n) \/ CancelRefused(n) \/ CancelNothing(n) PROVE TypeOK'
  <2>1. wire' \subseteq Report
    BY <1>9 DEF CancelCall, CancelNothing, CancelRefused, Sends, SetsOut, Report, TypeOK
  <2>2. courier' \in [Attempt -> RideStatus \cup {"none"}]
    BY <1>9 DEF CancelCall, CancelNothing, CancelRefused, TypeOK
  <2> QED
    <3>1. cancelling' \in 0 .. MaxAttempts /\ cancels' \subseteq cancels
      BY <1>9 DEF CancelCall, CancelNothing, CancelRefused, CancelDead, TypeOK, Attempt
    <3> QED
      BY <1>9, <2>1, <2>2, <3>1 DEF CancelCall, CancelNothing, CancelRefused, CancelDead, TypeOK
<1>10. CASE CancelWrite \/ CancelLost
  BY <1>10 DEF CancelWrite, CancelLost, CancelDead, TypeOK
<1>11. ASSUME NEW n \in Attempt, PollRead(n) PROVE TypeOK'
  <2>1. wire' \subseteq Report
    BY <1>11 DEF PollRead, SetsOut, Report, TypeOK, Inner, RidesAreBooked
  <2> QED
    BY <1>11, <2>1 DEF PollRead, TypeOK
<1>12. ASSUME NEW e \in wire, Hear(e) PROVE TypeOK'
  <2>1. e.n \in Attempt /\ e.s \in RideStatus
    BY DEF TypeOK, Report
  <2>2. applying' = applying \/ applying' = [n |-> e.n, s |-> e.s, job |-> status]
    BY <1>12 DEF Hear, Begin
  <2>3. applying' \in {None} \cup [n : Attempt, s : RideStatus, job : JobStatus]
    BY <2>1, <2>2 DEF TypeOK
  <2> QED
    BY <1>12, <2>3 DEF Hear, Begin, TypeOK
<1>13. CASE ApplyCommit
  <2>1. applying \in [n : Attempt, s : RideStatus, job : JobStatus]
    BY <1>13 DEF ApplyCommit, TypeOK
  <2>2. rows' \in [Attempt -> RideStatus \cup {"absent", "quoted"}]
    BY <1>13, <2>1 DEF ApplyCommit, TypeOK
  <2>3. UNCHANGED <<jobVars, taskVars>>
        \/ \E to \in MovesTo(applying.s, applying.job) : Goes(status, to, "provider")
    BY <1>13 DEF ApplyCommit
  <2>4. /\ leg' = leg /\ provider' = provider /\ status' \in JobStatus
        /\ creates' \in Nat /\ cancels' \subseteq Attempt /\ booking' \in 0 .. MaxAttempts
        /\ cancelling' = cancelling
    BY <2>3, MovesFacts, GoesFrame DEF TypeOK
  <2> QED
    BY <1>13, <2>2, <2>4 DEF ApplyCommit, TypeOK
<1>14. CASE ApplyRefused \/ ApplyLost
  BY <1>14 DEF ApplyRefused, ApplyLost, TypeOK
<1>15. ASSUME NEW point \in DOMAIN Handover, ScanRead(point) PROVE TypeOK'
  <2>1. PICK n \in Latest : scan' = [n |-> n, row |-> rows[n], job |-> status, point |-> point]
    BY <1>15 DEF ScanRead
  <2>2. n \in Attempt /\ rows[n] \in RideStatus
    BY DEF Latest, Live, TypeOK
  <2>3. scan' \in [n : Attempt, row : RideStatus, job : JobStatus, point : DOMAIN Handover]
    BY <2>1, <2>2 DEF TypeOK
  <2> QED
    BY <1>15, <2>3 DEF ScanRead, TypeOK
<1>16. CASE ScanCommit
  <2>1. scan \in [n : Attempt, row : RideStatus, job : JobStatus, point : DOMAIN Handover]
    BY <1>16 DEF ScanCommit, TypeOK
  <2>2. /\ Handover[scan.point].row \in {"same", "picked_up", "delivered"}
        /\ Handover[scan.point].to \in JobStatus
    BY <2>1 DEF Handover, JobStatus, InboundStatus, BenchStatus, OutboundStatus, Terminal
  <2>3. rows' \in [Attempt -> RideStatus \cup {"absent", "quoted"}]
    BY <1>16, <2>1, <2>2 DEF ScanCommit, TypeOK
  <2>4. \E from : Goes(from, Handover[scan.point].to, Handover[scan.point].actor)
    BY <1>16 DEF ScanCommit
  <2>5. revived' \in BOOLEAN
    BY <1>16 DEF ScanCommit, TypeOK
  <2> QED
    BY <1>16, <2>2, <2>3, <2>4, <2>5, GoesFrame DEF ScanCommit, TypeOK
<1>17. CASE ScanFails
  BY <1>17 DEF ScanFails, TypeOK
<1>18. CASE AutoAdvance
  <2>1. PICK to \in {"in_transit_to_shop", "in_transit_to_customer"} : Goes(status, to, "provider")
    BY <1>18 DEF AutoAdvance
  <2>2. to \in JobStatus
    BY DEF JobStatus, InboundStatus, OutboundStatus
  <2> QED
    BY <1>18, <2>1, <2>2, GoesFrame DEF AutoAdvance, TypeOK
<1>19. ASSUME NEW n \in Attempt, NEW s \in RideStatus, RideGoesOn(n, s) PROVE TypeOK'
  <2>1. wire' \subseteq Report
    BY <1>19 DEF RideGoesOn, Sends, SetsOut, Report, TypeOK
  <2> QED
    BY <1>19, <2>1 DEF RideGoesOn, TypeOK
<1> QED
  BY <1>1, <1>2, <1>3, <1>4, <1>5, <1>6, <1>7, <1>8, <1>9, <1>10, <1>11, <1>12, <1>13, <1>14,
     <1>15, <1>16, <1>17, <1>18, <1>19
  DEF Next, CustomerStep, WorkerStep, ReportStep, HandoverStep

(***************************************************************************)
(* What each step may disturb                                              *)
(***************************************************************************)
\* Steps that leave the rows and the job: readings, lost replies, tasks done.
Quiet ==
    /\ UNCHANGED <<rows, booked, status, leg, revived>>
    /\ (booking' = booking /\ creates' = creates) \/ booking' = 0
    /\ cancels' \subseteq cancels /\ cancelling' \in {0, cancelling} \cup cancels
    /\ applying' \in {applying, None} \/ (applying' # None /\ Concerns(applying'.n, applying'.s))
    /\ scan' \in {scan, None} \/ (scan'.n \in Latest /\ scan'.row = rows[scan'.n])
    /\ \A n \in Attempt : courier[n] \in RideStatus => courier'[n] \in RideStatus

\* They keep what the others rely on.
LEMMA QuietKeeps == ASSUME IInv, Quiet PROVE Inner'
<1> USE RideStatuses DEF IInv, Inner, Quiet
<1>1. RowsInOrder'
  BY DEF RowsInOrder
<1>2. RidesAreBooked'
  BY DEF RidesAreBooked
<1>3. CancelsAreBooked'
  BY DEF CancelsAreBooked
<1>4. BookingHolds'
  BY LegsAssumption DEF BookingHolds, Requested, Blocking, TypeOK, Attempt
<1>5. ReportHolds'
  BY DEF ReportHolds, Concerns, Forward
<1>6. ScanIsBooked'
  BY LiveIsBooked DEF ScanIsBooked, Latest, Live
<1>7. OneInTheWay' /\ FailedCanRebook'
  BY DEF OneInTheWay, FailedCanRebook, Blocking
<1>8. CarriedIsTracked'
  BY DEF CarriedIsTracked
<1> QED
  BY <1>1, <1>2, <1>3, <1>4, <1>5, <1>6, <1>7, <1>8

\* The quiet steps.
LEMMA QuietSteps ==
    ASSUME IInv,
           \/ UNCHANGED vars \/ BookNothing \/ BookRefused \/ BookLost \/ CancelLost
           \/ \E n \in Attempt : CancelCall(n) \/ CancelRefused(n) \/ CancelNothing(n) \/ PollRead(n)
           \/ \E e \in wire : Hear(e)
           \/ ApplyRefused \/ ApplyLost \/ ScanFails
           \/ \E point \in DOMAIN Handover : ScanRead(point)
           \/ \E n \in Attempt, s \in RideStatus : RideGoesOn(n, s)
    PROVE  Quiet
<1> USE RideStatuses DEF IInv, Quiet, jobVars, rowVars, taskVars, courierVars, scanVars
<1>1. CASE UNCHANGED vars \/ BookNothing \/ BookRefused \/ BookLost
  <2>1. booking' = booking \/ booking' = 0
    BY <1>1 DEF vars, BookNothing, BookRefused, BookLost
  <2>2. (booking' = booking /\ creates' = creates) \/ booking' = 0
    BY <1>1 DEF vars, BookNothing, BookRefused, BookLost, BookDead, CanBook, JobFree
  <2> QED
    BY <1>1, <2>2 DEF vars, BookNothing, BookRefused, BookLost
<1>7. CASE CancelLost
  <2>1. cancels' \subseteq cancels
    BY <1>7 DEF CancelLost, CancelDead
  <2> QED
    BY <1>7, <2>1 DEF CancelLost
<1>2. ASSUME NEW n \in Attempt, CancelCall(n) \/ CancelRefused(n) \/ CancelNothing(n) \/ PollRead(n)
      PROVE  Quiet
  BY <1>2 DEF CancelCall, CancelNothing, CancelRefused, CancelDead, PollRead, TypeOK
<1>3. ASSUME NEW e \in wire, Hear(e) PROVE Quiet
  <2>1. e.n \in Attempt
    BY DEF TypeOK, Report
  <2>2. CASE Concerns(e.n, e.s)
    <3>1. applying' = [n |-> e.n, s |-> e.s, job |-> status]
      BY <1>3, <2>2 DEF Hear, Begin
    <3>2. applying'.n # 0
      BY <2>1, <3>1, LegsAssumption DEF Attempt
    <3> QED
      BY <1>3, <2>2, <3>1, <3>2 DEF Hear, Begin, None
  <2>3. CASE ~Concerns(e.n, e.s)
    BY <1>3, <2>3 DEF Hear
  <2> QED
    BY <2>2, <2>3
<1>4. CASE ApplyRefused \/ ApplyLost \/ ScanFails
  BY <1>4 DEF ApplyRefused, ApplyLost, ScanFails
<1>5. ASSUME NEW point \in DOMAIN Handover, ScanRead(point) PROVE Quiet
  BY <1>5 DEF ScanRead
<1>6. ASSUME NEW n \in Attempt, NEW s \in RideStatus, RideGoesOn(n, s) PROVE Quiet
  BY <1>6 DEF RideGoesOn, TypeOK
<1> QED
  BY <1>1, <1>2, <1>3, <1>4, <1>5, <1>6, <1>7

\* Customers call off, ask for another ride, or quote one, while nothing is
\* being booked; a courier without reports is taken to be moving.
LEMMA CustomerKeeps == ASSUME IInv, CustomerStep \/ AutoAdvance PROVE Inner'
<1> USE RideStatuses DEF IInv, Inner, jobVars, rowVars, taskVars, courierVars, scanVars
<1>1. booking = 0 /\ booking' = 0
  BY GoesFrame DEF CustomerStep, CancelBooking, RebookPickup, QuoteReturn, RebookReturn,
     AutoAdvance, Goes, Wants, JobFree, BookingHolds, Requested
<1>2. /\ UNCHANGED <<booked, applying, scan, revived, courier>>
      /\ cancels' \subseteq cancels \cup Latest /\ cancelling' = cancelling
  BY DEF CustomerStep, CancelBooking, RebookPickup, QuoteReturn, RebookReturn, AutoAdvance, Goes, Wants
<1>3. \/ rows' = rows
      \/ rows' = Requoted /\ NextAttempt \in Attempt
      \/ rows' = [n \in Attempt |-> IF rows[n] = "quoted" THEN "cancelled" ELSE rows[n]]
  <2>1. CASE CancelBooking \/ RebookPickup \/ AutoAdvance
    BY <2>1 DEF CancelBooking, RebookPickup, AutoAdvance
  <2>2. CASE QuoteReturn
    BY <2>2 DEF QuoteReturn
  <2>3. CASE RebookReturn
    BY <2>3 DEF RebookReturn
  <2> QED
    BY <2>1, <2>2, <2>3 DEF CustomerStep
<1>4. \A n \in Attempt :
          \/ rows'[n] = rows[n]
          \/ rows[n] = "quoted" /\ rows'[n] = "cancelled"
          \/ rows[n] \in {"absent", "quoted"} /\ n = NextAttempt /\ rows'[n] = "quoted"
  BY <1>3, NextIsAbsent DEF Requoted, TypeOK
<1>5. RowsInOrder'
  <2>1. CASE rows' = Requoted /\ NextAttempt \in Attempt
    <3>1. \A n \in Attempt : rows'[n] # "absent" <=> n <= NextAttempt
      BY <2>1, NextIsAbsent, LegsAssumption DEF Requoted, Attempt
    <3> QED
      BY <2>1, <3>1, LegsAssumption DEF RowsInOrder, Attempt
  <2>2. CASE rows' = rows \/
             rows' = [n \in Attempt |-> IF rows[n] = "quoted" THEN "cancelled" ELSE rows[n]]
    BY <2>2 DEF RowsInOrder
  <2> QED
    BY <1>3, <2>1, <2>2
<1>6. RidesAreBooked'
  BY <1>2, <1>4 DEF RidesAreBooked
<1>7. CancelsAreBooked'
  BY <1>2, LiveIsBooked DEF CancelsAreBooked
<1>8. BookingHolds'
  BY <1>1 DEF BookingHolds
<1>9. ReportHolds'
  BY <1>2, <1>4 DEF ReportHolds, Concerns, RidesAreBooked, TypeOK
<1>10. ScanIsBooked'
  BY <1>2 DEF ScanIsBooked
<1>11. \A n \in Attempt : Blocking(n)' <=> Blocking(n)
  BY <1>4 DEF Blocking
<1>12. OneInTheWay'
  BY <1>2, <1>11 DEF OneInTheWay
<1>13. FailedCanRebook'
  <2>1. status' \in {"pickup_failed", "return_failed"} => status' = status
    BY DEF CustomerStep, CancelBooking, RebookPickup, QuoteReturn, RebookReturn, AutoAdvance, Goes, Wants
  <2> QED
    BY <1>2, <1>11, <2>1 DEF FailedCanRebook
<1>14. CarriedIsTracked'
  <2> DEFINE Carried == {"picked_up", "in_transit_to_shop", "collected_from_shop",
                         "in_transit_to_customer"}
  <2>1. status' \in Carried => status \in Carried
    BY DEF CustomerStep, CancelBooking, RebookPickup, QuoteReturn, RebookReturn, AutoAdvance, Goes, Wants
  <2>2. \A n \in booked : rows'[n] = rows[n]
    BY <1>4 DEF RidesAreBooked, TypeOK
  <2> QED
    BY <1>2, <2>1, <2>2 DEF CarriedIsTracked
<1> QED
  BY <1>5, <1>6, <1>7, <1>8, <1>9, <1>10, <1>12, <1>13, <1>14

\* A booking sets out only when no row is in the way, and writes its own.
LEMMA BookKeeps == ASSUME IInv, BookCall \/ BookCommit \/ BookUnmarked PROVE Inner'
<1> USE RideStatuses DEF IInv, Inner, jobVars, rowVars, taskVars, courierVars, scanVars
<1>1. CASE BookCall
  <2> USE <1>1 DEF BookCall, CanBook
  <2>1. ToBook \in Attempt /\ ToBook \notin booked /\ \A n \in Attempt : n < ToBook => rows[n] # "absent"
    <3>1. CASE \E n \in Attempt : rows[n] = "quoted"
      <4>1. rows[ToBook] = "quoted" /\ ToBook \in Attempt
        BY <3>1 DEF ToBook
      <4>2. ToBook \notin booked
        BY <4>1 DEF RidesAreBooked
      <4>3. ToBook < NextAttempt
        BY <4>1, NextIsAbsent
      <4> QED
        BY <4>1, <4>2, <4>3, NextIsAbsent, LegsAssumption DEF Attempt
    <3>2. CASE ~\E n \in Attempt : rows[n] = "quoted"
      <4>1. ToBook = NextAttempt /\ ToBook \in Attempt
        BY <3>2 DEF ToBook
      <4>2. rows[ToBook] = "absent"
        BY <4>1, NextIsAbsent
      <4> QED
        BY <4>1, <4>2, NextIsAbsent DEF RidesAreBooked
    <3> QED
      BY <3>1, <3>2
  <2>2. \A n \in Attempt : courier[n] \in RideStatus => courier'[n] \in RideStatus
    BY DEF TypeOK
  <2>3. courier'[ToBook] \in RideStatus
    BY <2>1 DEF TypeOK
  <2>4. BookingHolds'
    BY <2>1, <2>3 DEF BookingHolds, Requested, Blocking
  <2>5. RidesAreBooked'
    BY <2>2 DEF RidesAreBooked
  <2>6. RowsInOrder' /\ CancelsAreBooked' /\ ReportHolds' /\ ScanIsBooked'
    BY DEF RowsInOrder, CancelsAreBooked, ReportHolds, Concerns, ScanIsBooked
  <2>7. OneInTheWay' /\ FailedCanRebook' /\ CarriedIsTracked'
    BY DEF OneInTheWay, FailedCanRebook, CarriedIsTracked, Blocking
  <2> QED
    BY <2>4, <2>5, <2>6, <2>7
<1>2. CASE BookCommit \/ BookUnmarked
  <2>1. /\ booking \in Attempt /\ booking' = 0
        /\ rows' = [rows EXCEPT ![booking] = "requested"] /\ booked' = booked \cup {booking}
        /\ UNCHANGED <<leg, status, cancels, cancelling, applying, scan, revived, courier>>
    BY <1>2 DEF BookCommit, BookUnmarked, TypeOK, Attempt
  <2>2. /\ status = Requested /\ booking \notin booked /\ courier[booking] \in RideStatus
        /\ \A n \in Attempt : ~Blocking(n)
        /\ \A n \in Attempt : n < booking => rows[n] # "absent"
    BY <2>1, LegsAssumption DEF BookingHolds, Attempt
  <2>3. \A n \in Attempt : rows'[n] = IF n = booking THEN "requested" ELSE rows[n]
    BY <2>1 DEF TypeOK
  <2>4. RowsInOrder'
    <3>1. PICK k \in 0 .. MaxAttempts : \A n \in Attempt : rows[n] # "absent" <=> n <= k
      BY DEF RowsInOrder
    <3>2. booking <= k + 1
      BY <2>1, <2>2, <3>1, LegsAssumption DEF Attempt
    <3>3. CASE booking <= k
      BY <2>3, <3>1, <3>3 DEF RowsInOrder
    <3>4. CASE booking = k + 1
      <4>1. \A n \in Attempt : rows'[n] # "absent" <=> n <= k + 1
        BY <2>1, <2>3, <3>1, <3>4, LegsAssumption DEF Attempt
      <4> QED
        BY <2>1, <3>4, <4>1 DEF RowsInOrder, Attempt
    <3> QED
      BY <2>1, <3>2, <3>3, <3>4, LegsAssumption DEF Attempt
  <2>5. RidesAreBooked'
    BY <2>1, <2>2, <2>3 DEF RidesAreBooked
  <2>6. CancelsAreBooked' /\ BookingHolds' /\ ScanIsBooked'
    BY <2>1 DEF CancelsAreBooked, BookingHolds, ScanIsBooked
  <2>7. ReportHolds'
    BY <2>1, <2>2, <2>3 DEF ReportHolds, Concerns, TypeOK
  <2>8. OneInTheWay'
    BY <2>2, <2>3 DEF OneInTheWay, Blocking
  <2>9. FailedCanRebook' /\ CarriedIsTracked'
    BY <2>1, <2>2 DEF FailedCanRebook, CarriedIsTracked, Requested
  <2> QED
    BY <2>4, <2>5, <2>6, <2>7, <2>8, <2>9
<1> QED
  BY <1>1, <1>2

\* A booked row is written: by a cancellation, a report or a scan.
RowWritten(n, v) ==
    /\ n \in booked /\ v \in RideStatus
    /\ rows' = [rows EXCEPT ![n] = v]
    /\ UNCHANGED <<booked, courier, leg>>

\* Rows of rides stay so.
LEMMA RowWrittenKeeps ==
    ASSUME IInv, NEW n, NEW v, RowWritten(n, v)
    PROVE  /\ RowsInOrder' /\ RidesAreBooked'
           /\ \A m \in Attempt : rows'[m] = IF m = n THEN v ELSE rows[m]
           /\ n \in Attempt /\ rows[n] \in RideStatus
<1> USE RideStatuses DEF IInv, Inner, RowWritten
<1>1. n \in Attempt /\ rows[n] \in RideStatus
  BY DEF TypeOK, RidesAreBooked
<1>2. \A m \in Attempt : rows'[m] = IF m = n THEN v ELSE rows[m]
  BY <1>1 DEF TypeOK
<1>3. RowsInOrder'
  BY <1>1, <1>2 DEF RowsInOrder
<1>4. RidesAreBooked'
  BY <1>1, <1>2 DEF RidesAreBooked
<1> QED
  BY <1>1, <1>2, <1>3, <1>4

\* The courier has called the ride off.
LEMMA CancelKeeps == ASSUME IInv, CancelWrite PROVE Inner'
<1> USE RideStatuses DEF IInv, Inner, CancelWrite, jobVars, rowVars, taskVars, courierVars, scanVars
<1>1. RowWritten(cancelling, "cancelled")
  BY DEF RowWritten, CancelsAreBooked
<1>2. /\ RowsInOrder' /\ RidesAreBooked' /\ cancelling \in Attempt
      /\ \A m \in Attempt : rows'[m] = IF m = cancelling THEN "cancelled" ELSE rows[m]
  BY <1>1, RowWrittenKeeps
<1>3. \A m \in Attempt : Blocking(m)' => Blocking(m)
  BY <1>2 DEF Blocking
<1>4. CancelsAreBooked' /\ ScanIsBooked'
  BY DEF CancelsAreBooked, ScanIsBooked
<1>5. BookingHolds'
  BY <1>2, <1>3 DEF BookingHolds, Requested
<1>6. ReportHolds'
  BY <1>2 DEF ReportHolds, Concerns, RowFree, TypeOK
<1>7. OneInTheWay' /\ FailedCanRebook'
  BY <1>3 DEF OneInTheWay, FailedCanRebook
<1>8. CarriedIsTracked'
  BY <1>2 DEF CarriedIsTracked, Ended, TypeOK
<1> QED
  BY <1>2, <1>4, <1>5, <1>6, <1>7, <1>8

\* A report writes the row it was compared with; one that fails the leg frees it
\* of the only row in the way.
LEMMA ApplyKeeps == ASSUME IInv, ApplyCommit PROVE Inner'
<1> USE RideStatuses DEF IInv, Inner, jobVars, rowVars, taskVars, courierVars, scanVars
<1> DEFINE n == applying.n
           s == applying.s
<1>1. n \in Attempt /\ s \in RideStatus /\ Concerns(n, s)
  BY DEF ApplyCommit, TypeOK, ReportHolds
<1>2. n \in booked /\ rows[n] \notin Ended /\ Forward(rows[n], s)
  BY <1>1 DEF Concerns
<1>3. rows[n] \in RideStatus /\ Blocking(n)
  BY <1>1, <1>2 DEF RidesAreBooked, Blocking, Ended
<1>4. booking = 0
  BY <1>1, <1>3 DEF BookingHolds
<1>5. UNCHANGED <<jobVars, taskVars>>
      \/ \E to \in MovesTo(s, applying.job) : Goes(status, to, "provider")
  BY DEF ApplyCommit
<1>6. /\ leg' = leg /\ booking' = 0 /\ cancelling' = cancelling
      /\ cancels' \subseteq cancels \cup Latest
      /\ status' = status \/ status' \in MovesTo(s, applying.job)
  <2>1. CASE UNCHANGED <<jobVars, taskVars>>
    BY <1>4, <2>1
  <2>2. ASSUME NEW to \in MovesTo(s, applying.job), Goes(status, to, "provider")
        PROVE  /\ leg' = leg /\ booking' = 0 /\ cancelling' = cancelling
               /\ cancels' \subseteq cancels \cup Latest /\ status' = to
    <3>1. to \in JobStatus
      BY MovesFacts
    <3> HIDE DEF s
    <3> QED
      BY <2>2, <3>1, GoesFrame
  <2> HIDE DEF s
  <2> QED
    BY <1>5, <2>1, <2>2
<1>7. RowWritten(n, s) /\ applying' = None /\ UNCHANGED <<scan, revived>>
  BY <1>1, <1>2, <1>6 DEF ApplyCommit, RowWritten
<1>8. /\ RowsInOrder' /\ RidesAreBooked'
      /\ \A m \in Attempt : rows'[m] = IF m = n THEN s ELSE rows[m]
  BY <1>7, RowWrittenKeeps
<1> HIDE DEF n, s
<1>9. \A m \in Attempt : Blocking(m)' => Blocking(m)
  BY <1>3, <1>8 DEF Blocking
<1>10. CancelsAreBooked' /\ ScanIsBooked' /\ BookingHolds' /\ ReportHolds'
  BY <1>6, <1>7, LiveIsBooked DEF CancelsAreBooked, ScanIsBooked, BookingHolds, ReportHolds, RowWritten
<1>11. OneInTheWay'
  BY <1>7, <1>9 DEF OneInTheWay
<1>12. FailedCanRebook'
  <2>1. CASE status' = status
    BY <1>7, <1>9, <2>1 DEF FailedCanRebook
  <2>2. CASE status' \in {"pickup_failed", "return_failed"} /\ s = "failed" /\ ~revived
    BY <1>1, <1>3, <1>8, <1>9, <2>2 DEF FailedCanRebook, OneInTheWay, Blocking
  <2> QED
    BY <1>6, <1>7, <2>1, <2>2, MovesFacts DEF FailedCanRebook
<1>13. CarriedIsTracked'
  <2>1. CASE status' = status
    BY <1>1, <1>2, <1>3, <1>7, <1>8, <2>1, Onwards DEF CarriedIsTracked, RowWritten, Ended, WithRider, TypeOK
  <2>2. CASE s \in WithRider
    BY <1>2, <1>1, <1>7, <1>8, <2>2 DEF CarriedIsTracked, RowWritten
  <2> QED
    BY <1>6, <2>1, <2>2, MovesFacts DEF CarriedIsTracked
<1> QED
  BY <1>8, <1>10, <1>11, <1>12, <1>13

\* A scan marks the ride it read and takes the device over with it.
LEMMA ScanKeeps == ASSUME IInv, ScanCommit PROVE Inner'
<1> USE RideStatuses DEF IInv, Inner, jobVars, rowVars, taskVars, courierVars, scanVars
<1> DEFINE point == Handover[scan.point]
           n == scan.n
           v == IF point.row = "same" THEN scan.row ELSE point.row
<1>1. /\ scan \in [n : Attempt, row : RideStatus, job : JobStatus, point : DOMAIN Handover]
      /\ n \in booked /\ scan.row \in Active
  BY DEF ScanCommit, TypeOK, ScanIsBooked
<1>2. /\ point.row \in {"same", "picked_up", "delivered"} /\ point.to \in JobStatus
      /\ point.to \in {"picked_up", "collected_from_shop"} => v = "picked_up"
      /\ point.to \in {"picked_up", "received_at_shop", "collected_from_shop", "delivered"}
  BY <1>1 DEF Handover, JobStatus, InboundStatus, BenchStatus, OutboundStatus, Terminal
<1>3. \E from : Goes(from, point.to, point.actor)
  BY DEF ScanCommit
<1>4. /\ leg' = leg /\ booking = 0 /\ booking' = 0 /\ cancelling' = cancelling
      /\ cancels' \subseteq cancels \cup Latest /\ status' = point.to
  BY <1>2, <1>3, GoesFrame
<1>5. RowWritten(n, v) /\ scan' = None /\ applying' = applying
      /\ revived' = (revived \/ rows[n] \in Ended) /\ applying.n # n
  BY <1>1, <1>2, <1>4 DEF ScanCommit, RowWritten, RowFree
<1>6. /\ RowsInOrder' /\ RidesAreBooked' /\ n \in Attempt /\ rows[n] \in RideStatus
      /\ \A m \in Attempt : rows'[m] = IF m = n THEN v ELSE rows[m]
  BY <1>5, RowWrittenKeeps
<1> HIDE DEF n, v, point
<1>7. CancelsAreBooked' /\ ScanIsBooked' /\ BookingHolds'
  BY <1>4, <1>5, LiveIsBooked DEF CancelsAreBooked, ScanIsBooked, BookingHolds, RowWritten
<1>8. ReportHolds'
  BY <1>5, <1>6 DEF ReportHolds, Concerns, RowWritten, TypeOK
<1>9. OneInTheWay'
  BY <1>5, <1>6 DEF OneInTheWay, Blocking, Ended
<1>10. FailedCanRebook'
  BY <1>2, <1>4 DEF FailedCanRebook
<1>11. CarriedIsTracked'
  BY <1>2, <1>4, <1>5, <1>6 DEF CarriedIsTracked, RowWritten, WithRider
<1> QED
  BY <1>6, <1>7, <1>8, <1>9, <1>10, <1>11

(***************************************************************************)
(* The properties                                                          *)
(***************************************************************************)
\* A leg that has been quoted and not booked yet.
LEMMA InitInv == Init => IInv
<1> SUFFICES ASSUME Init PROVE IInv
  OBVIOUS
<1> USE LegsAssumption, RideStatuses DEF Init
<1>1. TypeOK
  <2>1. leg \in {"pickup", "return"} /\ provider \in {"mock", "tumaboda"} /\ status \in JobStatus
    BY DEF Requested, JobStatus, InboundStatus, OutboundStatus
  <2>2. /\ rows \in [Attempt -> RideStatus \cup {"absent", "quoted"}]
        /\ courier \in [Attempt -> RideStatus \cup {"none"}]
    OBVIOUS
  <2>3. booked \subseteq Attempt /\ creates \in Nat /\ cancels \subseteq Attempt
        /\ booking \in 0 .. MaxAttempts /\ cancelling \in 0 .. MaxAttempts
    OBVIOUS
  <2>4. applying = None /\ scan = None /\ wire \subseteq Report /\ revived \in BOOLEAN /\ faults \in Nat
    OBVIOUS
  <2> QED
    BY <2>1, <2>2, <2>3, <2>4 DEF TypeOK
<1>2. RowsInOrder
  <2>1. CASE MaxAttempts = 0
    BY <2>1 DEF RowsInOrder, Attempt
  <2>2. CASE MaxAttempts > 0
    <3>1. \A n \in Attempt : rows[n] # "absent" <=> n <= 1
      BY DEF Attempt
    <3> QED
      BY <2>2, <3>1 DEF RowsInOrder
  <2> QED
    BY <2>1, <2>2
<1>3. RidesAreBooked /\ CancelsAreBooked /\ BookingHolds /\ ReportHolds /\ ScanIsBooked
  BY DEF RidesAreBooked, CancelsAreBooked, BookingHolds, ReportHolds, ScanIsBooked
<1>4. OneInTheWay /\ FailedCanRebook /\ CarriedIsTracked
  BY DEF OneInTheWay, FailedCanRebook, CarriedIsTracked, Blocking, Requested
<1> QED
  BY <1>1, <1>2, <1>3, <1>4 DEF IInv, Inner

\* What everyone who waits for the courier relies on stays so.
LEMMA InvHolds == Spec => []IInv
<1>1. IInv /\ [Next]_vars => IInv'
  <2> SUFFICES ASSUME IInv, [Next]_vars PROVE IInv'
    OBVIOUS
  <2>1. TypeOK'
    BY TypeKept
  <2>2. Inner'
    BY QuietSteps, QuietKeeps, CustomerKeeps, BookKeeps, CancelKeeps, ApplyKeeps, ScanKeeps
    DEF Next, CustomerStep, WorkerStep, ReportStep, HandoverStep
  <2> QED
    BY <2>1, <2>2 DEF IInv
<1> QED
  BY InitInv, <1>1, PTL DEF Spec

\* The state of a leg is of its type, for any number of rides and reports.
THEOREM TypeCorrect == Spec => []TypeOK
BY InvHolds, PTL DEF IInv

\* No row stands in the way of booking a failed leg again, unless a late scan
\* has brought an ended ride back.
THEOREM FailedRebooks == Spec => []FailedCanRebook
BY InvHolds, PTL DEF IInv, Inner

\* However often the worker tries, a ride is booked only while none is live.
THEOREM OneRide == Spec => OneRideAtATime
<1>1. IInv /\ [Next]_vars => [\A n \in booked' \ booked : Live = {}]_vars
  <2> SUFFICES ASSUME IInv, Next, booked' # booked PROVE Live = {}
    BY DEF vars, rowVars
  <2>1. BookCommit \/ BookUnmarked
    BY DEF Next, CustomerStep, WorkerStep, ReportStep, HandoverStep, CancelBooking, RebookPickup,
       QuoteReturn, RebookReturn, BookCall, BookNothing, BookRefused, BookLost, BookDead, CancelCall, CancelNothing, CancelRefused,
       CancelWrite, CancelLost, CancelDead, PollRead, Hear, Begin, ApplyCommit, ApplyRefused, ApplyLost,
       ScanRead, ScanCommit, ScanFails, AutoAdvance, RideGoesOn, rowVars
  <2>2. \A n \in Attempt : ~Blocking(n)
    BY <2>1 DEF BookCommit, BookUnmarked, IInv, Inner, BookingHolds
  <2> QED
    BY <2>2, RideStatuses DEF Live, Blocking
<1> QED
  BY InvHolds, <1>1, PTL DEF Spec, OneRideAtATime

(***************************************************************************)
(* Waiting for a rider                                                     *)
(***************************************************************************)
\* The leg and its courier stay what they are, and only a scan marks a ride.
LEMMA LegStays ==
    ASSUME [Next]_vars
    PROVE  leg' = leg /\ provider' = provider /\ (revived' = revived \/ ScanCommit)
<1> DEFINE Same == UNCHANGED <<leg, provider, revived>>
<1> USE DEF jobVars, scanVars
<1>1. CASE UNCHANGED vars
  BY <1>1 DEF vars
<1>2. ASSUME CustomerStep PROVE Same
  BY <1>2 DEF CustomerStep, CancelBooking, RebookPickup, QuoteReturn, RebookReturn, Goes, Wants
<1>3. ASSUME BookCall \/ BookCommit \/ BookNothing \/ BookRefused \/ BookUnmarked \/ BookLost PROVE Same
  BY <1>3 DEF BookCall, BookCommit, BookNothing, BookRefused, BookUnmarked, BookLost, BookDead
<1>4. ASSUME CancelWrite \/ CancelLost PROVE Same
  BY <1>4 DEF CancelWrite, CancelLost, CancelDead
<1>5. ASSUME NEW n \in Attempt, CancelCall(n) \/ CancelRefused(n) \/ CancelNothing(n) \/ PollRead(n) PROVE Same
  BY <1>5 DEF CancelCall, CancelNothing, CancelRefused, PollRead
<1>6. ASSUME NEW e \in wire, Hear(e) PROVE Same
  BY <1>6 DEF Hear, Begin
<1>7. ASSUME ApplyCommit \/ ApplyRefused \/ ApplyLost PROVE Same
  BY <1>7 DEF ApplyCommit, ApplyRefused, ApplyLost, Goes, Wants
<1>8. ASSUME NEW point \in DOMAIN Handover, ScanRead(point) PROVE Same
  BY <1>8 DEF ScanRead
<1>9. ASSUME ScanFails \/ AutoAdvance PROVE Same
  BY <1>9 DEF ScanFails, AutoAdvance, Goes, Wants
<1>10. ASSUME ScanCommit PROVE leg' = leg /\ provider' = provider
  BY <1>10 DEF ScanCommit, Goes, Wants
<1>11. ASSUME NEW n \in Attempt, NEW s \in RideStatus, RideGoesOn(n, s) PROVE Same
  BY <1>11 DEF RideGoesOn
<1> QED
  BY <1>1, <1>2, <1>3, <1>4, <1>5, <1>6, <1>7, <1>8, <1>9, <1>10, <1>11
  DEF Next, CustomerStep, WorkerStep, ReportStep, HandoverStep

\* A scan that has marked an ended ride is not forgotten.
LEMMA RevivedStays ==
    ASSUME [Next]_vars, revived
    PROVE  revived'
<1>1. CASE revived' = revived
  BY <1>1
<1>2. CASE ScanCommit
  BY <1>2, Zenon DEF ScanCommit
<1> QED
  BY <1>1, <1>2, LegStays

\* A report read while the job was elsewhere is not about a job that waits.
ReportFits ==
    ~revived /\ applying # None /\ status = Requested => applying.job = Requested

\* What a failed ride does to a job that waits for it, and what no report does.
LEMMA FailureMoves ==
    ASSUME TypeOK
    PROVE  /\ \A s : MovesTo(s, Requested) \cap {Requested} = {}
           /\ MovesTo("failed", Requested) # {}
           /\ \A s, from : Requested \notin MovesTo(s, from) /\ "cancelled" \notin MovesTo(s, from)
<1>1. ASSUME NEW m \in Moves
      PROVE  m[3] \notin {"pickup_requested", "return_requested", "cancelled"}
  <2>1. CASE m \in PickupMoves
    BY <2>1 DEF PickupMoves
  <2>2. CASE m \in ReturnMoves
    BY <2>2 DEF ReturnMoves
  <2> QED
    BY <2>1, <2>2 DEF Moves
<1>2. /\ <<"failed", "pickup_requested", "pickup_failed">> \in Moves
      /\ <<"failed", "return_requested", "return_failed">> \in Moves
  BY DEF Moves, PickupMoves, ReturnMoves
<1>3. MovesTo("failed", Requested) # {}
  <2>1. CASE leg = "pickup"
    BY <1>2, <2>1 DEF MovesTo, Requested
  <2>2. CASE leg = "return"
    BY <1>2, <2>2 DEF MovesTo, Requested
  <2> QED
    BY <2>1, <2>2 DEF TypeOK
<1> QED
  BY <1>1, <1>3 DEF MovesTo, Requested

\* The job comes to wait for a rider by a rebooking alone, which is queued.
LEMMA IntoWaiting ==
    ASSUME IInv, [Next]_vars, status' = Requested, status # Requested
    PROVE  /\ RebookPickup \/ RebookReturn
           /\ creates' = creates + 1 /\ status \in {"pickup_failed", "return_failed"}
<1> USE DEF jobVars, taskVars
<1>0. IInv /\ TypeOK /\ Requested \in {"pickup_requested", "return_requested"}
  BY DEF IInv, Requested
<1>1. ~UNCHANGED vars
  BY DEF vars
<1>2. ASSUME CustomerStep
      PROVE  /\ RebookPickup \/ RebookReturn
             /\ creates' = creates + 1 /\ status \in {"pickup_failed", "return_failed"}
  BY <1>0, <1>2 DEF CustomerStep, CancelBooking, RebookPickup, QuoteReturn, RebookReturn, Goes, Wants
<1>3. ~WorkerStep
  BY
  DEF WorkerStep, BookCall, BookCommit, BookNothing, BookRefused, BookUnmarked, BookLost, BookDead, CancelCall,
      CancelNothing, CancelRefused, CancelWrite, CancelLost, CancelDead
<1>4. ~ReportStep
  <2>1. ASSUME ApplyCommit PROVE FALSE
    <3>1. status' = status \/ status' \in MovesTo(applying.s, applying.job)
      BY <2>1 DEF ApplyCommit, Goes, Wants
    <3> QED
      BY <1>0, <3>1, FailureMoves
  <2>2. ASSUME NEW e \in wire, Hear(e) PROVE FALSE
    BY <2>2 DEF Hear, Begin
  <2> QED
    BY <2>1, <2>2 DEF ReportStep, PollRead, ApplyRefused, ApplyLost
<1>5. ~HandoverStep
  <2>1. ASSUME ScanCommit PROVE FALSE
    <3>1. scan.point \in DOMAIN Handover
      BY <1>0, <2>1 DEF ScanCommit, TypeOK
    <3>2. Handover[scan.point].to \notin {"pickup_requested", "return_requested"}
      BY <3>1 DEF Handover
    <3>3. status' = Handover[scan.point].to
      BY <2>1 DEF ScanCommit, Goes, Wants
    <3> QED
      BY <1>0, <3>2, <3>3
  <2> QED
    BY <1>0, <2>1 DEF HandoverStep, ScanRead, ScanFails, AutoAdvance, Goes, Wants
<1>6. ASSUME NEW n \in Attempt, NEW s \in RideStatus, RideGoesOn(n, s) PROVE FALSE
  BY <1>6 DEF RideGoesOn
<1> QED
  BY <1>1, <1>2, <1>3, <1>4, <1>5, <1>6 DEF Next

\* A ride whose report is being applied keeps a failed leg from being booked, so
\* the job has been where the report found it ever since.
LEMMA ReportFitsKept ==
    ASSUME IInv, ReportFits, [Next]_vars
    PROVE  ReportFits'
<1> USE RideStatuses DEF IInv, Inner
<1> SUFFICES ASSUME ~revived', applying' # None, status' = Requested'
             PROVE  applying'.job = Requested'
  BY DEF ReportFits
<1>1. Requested' = Requested /\ ~revived
  BY LegStays, RevivedStays DEF Requested
<1>2. ASSUME applying # None PROVE status = Requested /\ applying.job = Requested
  <2>1. applying.n \in Attempt /\ Blocking(applying.n)
    BY <1>2 DEF ReportHolds, Concerns, RidesAreBooked, TypeOK, Blocking, Ended
  <2>2. status \notin {"pickup_failed", "return_failed"}
    BY <1>1, <2>1 DEF FailedCanRebook
  <2>3. status = Requested
    BY <1>1, <2>2, IntoWaiting
  <2> QED
    BY <1>1, <1>2, <2>3 DEF ReportFits
<1>3. applying' = applying \/ \E e \in wire : Hear(e) /\ Concerns(e.n, e.s)
  BY
  DEF Next, CustomerStep, WorkerStep, ReportStep, HandoverStep, CancelBooking, RebookPickup,
      QuoteReturn, RebookReturn, BookCall, BookCommit, BookUnmarked, BookNothing, BookRefused, BookLost, BookDead,
      CancelCall, CancelNothing, CancelRefused, CancelWrite, CancelLost, CancelDead, PollRead, Hear, ApplyCommit,
      ApplyRefused, ApplyLost, ScanRead, ScanCommit, ScanFails, AutoAdvance, RideGoesOn, vars
<1>4. CASE applying' = applying
  BY <1>1, <1>2, <1>4
<1>5. ASSUME NEW e \in wire, Hear(e), Concerns(e.n, e.s) PROVE applying'.job = Requested'
  BY <1>1, <1>5 DEF Hear, Begin, jobVars
<1> QED
  BY <1>3, <1>4, <1>5

\* Every step of a job that waits leaves it a booking to come, a ride, or the
\* dead row of its booking.
LEMMA WaitingKept ==
    ASSUME IInv, ReportFits, WaitingIsTracked, [Next]_vars
    PROVE  WaitingIsTracked'
<1> USE RideStatuses DEF IInv, Inner, jobVars, rowVars, taskVars
<1> SUFFICES ASSUME status' = Requested', creates' = 0, ~revived', 0 \notin dead'
             PROVE  \E n \in booked' : rows'[n] # "failed"
  BY DEF WaitingIsTracked
<1>1. Requested' = Requested /\ ~revived /\ creates \in Nat
  BY LegStays, RevivedStays DEF Requested, TypeOK
<1>2. status = Requested /\ 0 \notin dead
  BY <1>1, IntoWaiting, DeadStays
<1>3. CASE UNCHANGED <<rows, booked, creates>>
  BY <1>1, <1>2, <1>3 DEF WaitingIsTracked
<1>4. ASSUME BookCommit \/ BookUnmarked PROVE \E n \in booked' : rows'[n] # "failed"
  <2>1. booking \in Attempt
    BY <1>4, LegsAssumption DEF BookCommit, BookUnmarked, TypeOK, Attempt
  <2>2. booking \in booked' /\ rows'[booking] = "requested"
    BY <1>4, <2>1 DEF BookCommit, BookUnmarked, TypeOK
  <2> QED
    BY <2>2
<1>5. ASSUME BookNothing PROVE \E n \in booked' : rows'[n] # "failed"
  <2>1. PICK n \in Attempt : Blocking(n)
    BY <1>2, <1>5 DEF BookNothing
  <2>2. n \in booked /\ rows[n] # "failed"
    BY <2>1 DEF Blocking, RidesAreBooked
  <2> QED
    BY <1>5, <2>2 DEF BookNothing
<1>6. ASSUME CancelWrite PROVE \E n \in booked' : rows'[n] # "failed"
  <2>1. cancelling \in booked /\ cancelling \in Attempt
    BY <1>6 DEF CancelWrite, CancelsAreBooked, TypeOK
  <2> QED
    BY <1>6, <2>1 DEF CancelWrite, TypeOK
<1>7. ASSUME ApplyCommit PROVE \E n \in booked' : rows'[n] # "failed"
  <2>1. applying.n \in booked /\ applying.n \in Attempt
    BY <1>7 DEF ApplyCommit, ReportHolds, Concerns, TypeOK
  <2>2. booked' = booked /\ rows'[applying.n] = applying.s
    BY <1>7, <2>1 DEF ApplyCommit, TypeOK
  <2>3. applying.s # "failed"
    <3>1. applying.job = Requested
      BY <1>1, <1>2, <1>7 DEF ApplyCommit, ReportFits
    <3>2. status' \in MovesTo(applying.s, applying.job) \/ MovesTo(applying.s, applying.job) = {}
      BY <1>7 DEF ApplyCommit, Goes, Wants
    <3> QED
      BY <1>1, <3>1, <3>2, FailureMoves
  <2> QED
    BY <2>1, <2>2, <2>3
<1>8. ~CustomerStep
  BY <1>1, <1>2 DEF CustomerStep, CancelBooking, RebookPickup, QuoteReturn, RebookReturn, Goes, Wants, Requested
<1>9. ~ScanCommit
  <2>1. ASSUME ScanCommit PROVE FALSE
    <3>1. scan.point \in DOMAIN Handover
      BY <2>1 DEF ScanCommit, TypeOK
    <3>2. Handover[scan.point].to \notin {"pickup_requested", "return_requested"}
      BY <3>1 DEF Handover
    <3>3. status' = Handover[scan.point].to
      BY <2>1 DEF ScanCommit, Goes, Wants
    <3> QED
      BY <1>1, <3>2, <3>3 DEF Requested
  <2> QED
    BY <2>1
<1>10. \/ UNCHANGED <<rows, booked, creates>>
       \/ CustomerStep \/ BookCommit \/ BookUnmarked \/ BookNothing \/ 0 \in dead' \/ CancelWrite
       \/ ApplyCommit \/ ScanCommit \/ AutoAdvance
  <2>1. CASE WorkerStep
    <3>1. CASE BookCall \/ BookRefused \/ BookLost
      BY <3>1 DEF BookCall, BookRefused, BookLost, BookDead
    <3>2. ASSUME NEW n \in Attempt, CancelCall(n) \/ CancelRefused(n) \/ CancelNothing(n)
          PROVE  UNCHANGED <<rows, booked, creates>>
      BY <3>2 DEF CancelCall, CancelRefused, CancelNothing
    <3>3. CASE CancelLost
      BY <3>3 DEF CancelLost
    <3> QED
      BY <2>1, <3>1, <3>2, <3>3 DEF WorkerStep
  <2>2. CASE ReportStep
    BY <2>2 DEF ReportStep, PollRead, Hear, Begin, ApplyRefused, ApplyLost
  <2>3. CASE HandoverStep
    BY <2>3 DEF HandoverStep, ScanRead, ScanFails
  <2>4. ASSUME NEW n \in Attempt, NEW s \in RideStatus, RideGoesOn(n, s)
        PROVE  UNCHANGED <<rows, booked, creates>>
    BY <2>4 DEF RideGoesOn
  <2> QED
    BY <2>1, <2>2, <2>3, <2>4 DEF Next, vars
<1>11. ~AutoAdvance
  BY <1>1, <1>2 DEF AutoAdvance, Goes, Wants, Requested
<1> QED
  BY <1>3, <1>4, <1>5, <1>6, <1>7, <1>8, <1>9, <1>10, <1>11

(***************************************************************************)
(* What the shop knows of a ride                                           *)
(***************************************************************************)
\* A ride that cannot go on.
Final == Ended \cup {"delivered"}

\* The row of a quote is the last one, and the row being booked is.
QuoteIsLast ==
    \A n \in Attempt : rows[n] = "quoted" => \A m \in Attempt : m > n => rows[m] = "absent"

BookingIsLast ==
    booking # 0 => \A m \in Attempt :
        /\ m > booking => rows[m] = "absent"
        /\ m # booking => rows[m] # "quoted"

\* What the courier has reported as final, on its way or being applied, is so.
ReportsAreTrue ==
    /\ \A e \in wire : e.s \in Final => courier[e.n] = e.s
    /\ applying # None /\ applying.s \in Final => courier[applying.n] = applying.s
    /\ cancelling # 0 => courier[cancelling] = "cancelled"

\* What a pickup's row says is final is so; a return is marked delivered by the
\* scan at the door, ahead of the courier.
RowsAreTrue ==
    \A n \in booked :
        rows[n] \in Ended \/ (leg = "pickup" /\ rows[n] = "delivered") => courier[n] \in Final

\* Only the last ride that was booked can be under way.
LastIsUnderway == \A n \in booked : courier[n] \in Active => \A k \in booked : k <= n

\* Only pickups are called off.
CalledOffIsPickup == status = "cancelled" => leg = "pickup"

\* With a courier that is real, in step with its rides.
InStep == ReportsAreTrue /\ RowsAreTrue /\ LastIsUnderway /\ CalledOffIsQueued

\* A scan is of a handover of this leg.
ScanFitsLeg == scan # None => Handover[scan.point].leg = leg

RowsInv == QuoteIsLast /\ BookingIsLast /\ CalledOffIsPickup /\ ScanFitsLeg

\* A ride is under way or over.
LEMMA FinalOrActive == RideStatus = Active \cup Final /\ Active \cap Final = {}
BY RideStatuses DEF Final, Ended

\* The steps that write the rows.
RowSteps ==
    \/ rows' = rows /\ booked' = booked
    \/ QuoteReturn \/ RebookReturn
    \/ BookCommit \/ BookUnmarked
    \/ CancelWrite \/ ApplyCommit \/ ScanCommit

\* No other step writes one.
LEMMA RowsWritten == ASSUME [Next]_vars PROVE RowSteps
<1> USE DEF rowVars, RowSteps
<1>1. ASSUME CustomerStep PROVE RowSteps
  BY <1>1 DEF CustomerStep, CancelBooking, RebookPickup
<1>2. ASSUME WorkerStep PROVE RowSteps
  BY <1>2
  DEF WorkerStep, BookCall, BookNothing, BookRefused, BookLost, BookDead, CancelCall, CancelNothing, CancelRefused, CancelLost, CancelDead
<1>3. ASSUME ReportStep PROVE RowSteps
  BY <1>3 DEF ReportStep, PollRead, Hear, Begin, ApplyRefused, ApplyLost
<1>4. ASSUME HandoverStep PROVE RowSteps
  BY <1>4 DEF HandoverStep, ScanRead, ScanFails, AutoAdvance
<1>5. ASSUME NEW n \in Attempt, NEW s \in RideStatus, RideGoesOn(n, s) PROVE RowSteps
  BY <1>5 DEF RideGoesOn
<1>6. ASSUME UNCHANGED vars PROVE RowSteps
  BY <1>6 DEF vars
<1> QED
  BY <1>1, <1>2, <1>3, <1>4, <1>5, <1>6 DEF Next

\* The row of a ride that is written stays the row of a ride.
LEMMA RideRows ==
    ASSUME IInv, ScanFitsLeg, [Next]_vars, CancelWrite \/ ApplyCommit \/ ScanCommit
    PROVE  /\ booked' = booked
           /\ \E n \in booked, v \in RideStatus :
                /\ n \in Attempt /\ rows[n] \in RideStatus
                /\ \A m \in Attempt : rows'[m] = IF m = n THEN v ELSE rows[m]
                /\ \/ n = cancelling /\ cancelling # 0 /\ v = "cancelled"
                   \/ applying # None /\ n = applying.n /\ v = applying.s
                   \/ v \in Active \/ (v = "delivered" /\ leg # "pickup")
<1> USE RideStatuses DEF IInv, Inner, RowWritten
<1>0. \A n \in booked : n \in Attempt /\ rows[n] \in RideStatus
  BY DEF TypeOK, RidesAreBooked
<1>1. CASE CancelWrite
  <2>1. cancelling \in booked /\ cancelling # 0 /\ booked' = booked
    BY <1>1 DEF CancelWrite, CancelsAreBooked
  <2>2. \A m \in Attempt : rows'[m] = IF m = cancelling THEN "cancelled" ELSE rows[m]
    BY <1>0, <1>1, <2>1 DEF CancelWrite, TypeOK
  <2> QED
    BY <1>0, <2>1, <2>2
<1>2. CASE ApplyCommit
  <2>1. /\ applying # None /\ applying.n \in booked /\ applying.s \in RideStatus
        /\ booked' = booked
    BY <1>2 DEF ApplyCommit, ReportHolds, Concerns, TypeOK
  <2>2. \A m \in Attempt : rows'[m] = IF m = applying.n THEN applying.s ELSE rows[m]
    BY <1>0, <1>2, <2>1 DEF ApplyCommit, TypeOK
  <2> QED
    BY <1>0, <2>1, <2>2
<1>3. CASE ScanCommit
  <2> DEFINE point == Handover[scan.point]
             v == IF point.row = "same" THEN scan.row ELSE point.row
  <2>1. /\ scan.n \in booked /\ scan.row \in Active /\ scan.point \in DOMAIN Handover
        /\ booked' = booked
    BY <1>3 DEF ScanCommit, ScanIsBooked, TypeOK
  <2>2. \A m \in Attempt : rows'[m] = IF m = scan.n THEN v ELSE rows[m]
    BY <1>0, <1>3, <2>1 DEF ScanCommit, TypeOK
  <2>3. point.row \in {"same", "picked_up", "delivered"}
    BY <2>1 DEF Handover
  <2>4. CASE point.row # "delivered"
    <3>1. v \in Active /\ v \in RideStatus
      BY <2>1, <2>3, <2>4
    <3> HIDE DEF v
    <3> QED
      BY <1>0, <2>1, <2>2, <3>1
  <2>5. CASE point.row = "delivered"
    <3>1. leg # "pickup"
      <4>1. Handover[scan.point].leg = "return"
        BY <2>1, <2>5 DEF Handover
      <4> QED
        BY <1>3, <4>1 DEF ScanCommit, ScanFitsLeg
    <3> QED
      BY <1>0, <2>1, <2>2, <2>5, <3>1
  <2> QED
    BY <2>4, <2>5
<1> QED
  BY <1>1, <1>2, <1>3

\* A job is called off by its customer alone, and a courier has to be told.
LEMMA IntoCalledOff ==
    ASSUME IInv, [Next]_vars, status' = "cancelled", status # "cancelled"
    PROVE  CancelBooking
<1> USE DEF jobVars, taskVars
<1>0. TypeOK
  BY DEF IInv
<1>1. ~UNCHANGED vars
  BY DEF vars
<1>2. ASSUME CustomerStep PROVE CancelBooking
  BY <1>2 DEF CustomerStep, RebookPickup, QuoteReturn, RebookReturn, Goes, Wants
<1>3. ~WorkerStep
  BY
  DEF WorkerStep, BookCall, BookCommit, BookNothing, BookRefused, BookUnmarked, BookLost, BookDead, CancelCall,
      CancelNothing, CancelRefused, CancelWrite, CancelLost, CancelDead
<1>4. ~ReportStep
  <2>1. ASSUME ApplyCommit PROVE FALSE
    <3>1. status' = status \/ status' \in MovesTo(applying.s, applying.job)
      BY <2>1 DEF ApplyCommit, Goes, Wants
    <3> QED
      BY <1>0, <3>1, FailureMoves
  <2>2. ASSUME NEW e \in wire, Hear(e) PROVE FALSE
    BY <2>2 DEF Hear, Begin
  <2> QED
    BY <2>1, <2>2 DEF ReportStep, PollRead, ApplyRefused, ApplyLost
<1>5. ~HandoverStep
  <2>1. ASSUME ScanCommit PROVE FALSE
    <3>1. scan.point \in DOMAIN Handover
      BY <1>0, <2>1 DEF ScanCommit, TypeOK
    <3>2. Handover[scan.point].to # "cancelled"
      BY <3>1 DEF Handover
    <3>3. status' = Handover[scan.point].to
      BY <2>1 DEF ScanCommit, Goes, Wants
    <3> QED
      BY <3>2, <3>3
  <2> QED
    BY <2>1 DEF HandoverStep, ScanRead, ScanFails, AutoAdvance, Goes, Wants
<1>6. ASSUME NEW n \in Attempt, NEW s \in RideStatus, RideGoesOn(n, s) PROVE FALSE
  BY <1>6 DEF RideGoesOn
<1> QED
  BY <1>1, <1>2, <1>3, <1>4, <1>5, <1>6 DEF Next

\* The rows keep their order, the quote its place, and calling off its leg.
LEMMA RowsInvKept ==
    ASSUME IInv, RowsInv, [Next]_vars
    PROVE  RowsInv'
<1> USE RideStatuses DEF IInv, Inner, RowsInv, jobVars, rowVars, taskVars, scanVars
<1>0. rows \in [Attempt -> RideStatus \cup {"absent", "quoted"}] /\ leg' = leg
  BY LegStays DEF TypeOK
<1>1. ASSUME rows' = rows \/ (RowSteps /\ (CancelWrite \/ ApplyCommit \/ ScanCommit))
      PROVE  \A n \in Attempt : /\ rows[n] = "absent" => rows'[n] = "absent"
                                /\ rows'[n] = "quoted" => rows[n] = "quoted"
  <2>1. CASE rows' = rows
    BY <2>1
  <2>2. CASE CancelWrite \/ ApplyCommit \/ ScanCommit
    BY <2>2, RideRows
  <2> QED
    BY <1>1, <2>1, <2>2
<1>2. ASSUME QuoteReturn
      PROVE  \A n \in Attempt : /\ rows'[n] = "quoted" => n = NextAttempt
                                /\ n > NextAttempt => rows'[n] = "absent"
  BY <1>0, <1>2, NextIsAbsent, LegsAssumption DEF QuoteReturn, Requoted, Attempt
<1>3. ASSUME RebookReturn
      PROVE  \A n \in Attempt : /\ rows[n] = "absent" => rows'[n] = "absent"
                                /\ rows'[n] = "quoted" => rows[n] = "quoted"
  BY <1>0, <1>3 DEF RebookReturn
<1>4. ASSUME BookCommit \/ BookUnmarked
      PROVE  /\ booking' = 0 /\ booking # 0
             /\ \A n \in Attempt : rows'[n] = IF n = booking THEN "requested" ELSE rows[n]
  BY <1>0, <1>4 DEF BookCommit, BookUnmarked
<1>5. QuoteIsLast'
  <2>1. CASE QuoteReturn
    BY <1>2, <2>1, NextIsAbsent, LegsAssumption DEF QuoteIsLast, Attempt
  <2>2. CASE BookCommit \/ BookUnmarked
    BY <1>4, <2>2 DEF QuoteIsLast, BookingIsLast
  <2> QED
    BY <1>1, <1>3, <2>1, <2>2, RowsWritten DEF RowSteps, QuoteIsLast
<1>6. BookingIsLast'
  <2>1. CASE BookCall
    <3>1. booking' = ToBook /\ ToBook \in Attempt /\ rows' = rows
      BY <2>1 DEF BookCall, CanBook
    <3>2. CASE \E n \in Attempt : rows[n] = "quoted"
      <4>1. rows[ToBook] = "quoted"
        BY <3>2 DEF ToBook
      <4>2. \A m \in Attempt : m > ToBook => rows[m] = "absent"
        BY <3>1, <4>1 DEF QuoteIsLast
      <4>3. ASSUME NEW m \in Attempt, rows[m] = "quoted", m # ToBook PROVE FALSE
        <5>1. CASE m > ToBook
          BY <4>2, <4>3, <5>1
        <5>2. CASE ToBook > m
          BY <3>1, <4>1, <4>3, <5>2 DEF QuoteIsLast
        <5> QED
          BY <3>1, <4>3, <5>1, <5>2, LegsAssumption DEF Attempt
      <4> QED
        BY <3>1, <4>2, <4>3 DEF BookingIsLast
    <3>3. CASE ~\E n \in Attempt : rows[n] = "quoted"
      <4>1. ToBook = NextAttempt
        BY <3>3 DEF ToBook
      <4>2. \A m \in Attempt : m > ToBook => rows[m] = "absent"
        BY <3>1, <4>1, NextIsAbsent, LegsAssumption DEF Attempt
      <4> QED
        BY <3>1, <3>3, <4>2 DEF BookingIsLast
    <3> QED
      BY <3>2, <3>3
  <2>2. CASE booking' = 0
    BY <2>2 DEF BookingIsLast
  <2>3. CASE booking' = booking /\ booking # 0 /\ ~BookCall
    <3>1. ~(QuoteReturn \/ RebookReturn)
      <4>1. status = Requested
        BY <2>3 DEF BookingHolds
      <4> QED
        BY <4>1 DEF QuoteReturn, RebookReturn, Requested
    <3>2. ~(BookCommit \/ BookUnmarked)
      BY <1>4, <2>3
    <3>3. \A n \in Attempt : /\ rows[n] = "absent" => rows'[n] = "absent"
                             /\ rows'[n] = "quoted" => rows[n] = "quoted"
      BY <1>1, <3>1, <3>2, RowsWritten DEF RowSteps
    <3> QED
      BY <2>3, <3>3 DEF BookingIsLast
  <2>4. BookCall \/ booking' = 0 \/ booking' = booking
    <3>1. ASSUME NEW n \in Attempt, CancelCall(n) \/ CancelRefused(n) \/ CancelNothing(n) \/ PollRead(n)
          PROVE  booking' = booking
      BY <3>1 DEF CancelCall, CancelNothing, CancelRefused, PollRead
    <3>2. ASSUME NEW e \in wire, Hear(e) PROVE booking' = booking
      BY <3>2 DEF Hear, Begin
    <3>3. ASSUME CustomerStep \/ AutoAdvance PROVE booking' = booking
      BY <3>3
      DEF CustomerStep, CancelBooking, RebookPickup, QuoteReturn, RebookReturn, AutoAdvance, Goes, Wants
    <3>4. ASSUME ApplyCommit \/ ApplyRefused \/ ApplyLost PROVE booking' = booking
      BY <3>4 DEF ApplyCommit, ApplyRefused, ApplyLost, Goes, Wants
    <3>5. ASSUME ScanCommit \/ ScanFails PROVE booking' = booking
      BY <3>5 DEF ScanCommit, ScanFails, Goes, Wants
    <3>6. ASSUME NEW point \in DOMAIN Handover, ScanRead(point) PROVE booking' = booking
      BY <3>6 DEF ScanRead
    <3>7. ASSUME NEW n \in Attempt, NEW s \in RideStatus, RideGoesOn(n, s) PROVE booking' = booking
      BY <3>7 DEF RideGoesOn
    <3>8. ASSUME BookNothing \/ BookRefused \/ BookLost \/ CancelWrite \/ CancelLost
          PROVE  booking' \in {0, booking}
      BY <3>8 DEF BookNothing, BookRefused, BookLost, BookDead, CancelWrite, CancelLost, CancelDead
    <3>9. ASSUME UNCHANGED vars PROVE booking' = booking
      BY <3>9 DEF vars
    <3> QED
      BY <1>4, <3>1, <3>2, <3>3, <3>4, <3>5, <3>6, <3>7, <3>8, <3>9
      DEF Next, CustomerStep, WorkerStep, ReportStep, HandoverStep
  <2> QED
    BY <2>1, <2>2, <2>3, <2>4
<1>7. CalledOffIsPickup'
  BY <1>0, IntoCalledOff DEF CalledOffIsPickup, CancelBooking
<1>8. ScanFitsLeg'
  <2>1. ASSUME NEW point \in DOMAIN Handover, ScanRead(point) PROVE ScanFitsLeg'
    BY <1>0, <2>1 DEF ScanRead, ScanFitsLeg
  <2>2. (\E point \in DOMAIN Handover : ScanRead(point)) \/ scan' \in {scan, None}
    BY
    DEF Next, CustomerStep, WorkerStep, ReportStep, HandoverStep, CancelBooking, RebookPickup,
        QuoteReturn, RebookReturn, BookCall, BookCommit, BookUnmarked, BookNothing, BookRefused, BookLost, BookDead,
        CancelCall, CancelNothing, CancelRefused, CancelWrite, CancelLost, CancelDead, PollRead, Hear, Begin, ApplyCommit,
        ApplyRefused, ApplyLost, ScanCommit, ScanFails, AutoAdvance, RideGoesOn, vars
  <2> QED
    BY <1>0, <2>1, <2>2 DEF ScanFitsLeg
<1> QED
  BY <1>5, <1>6, <1>7, <1>8
\* What a step may do to a courier's rides and to what is known of them: a ride
\* that is over stays so, one that was booked is not started again, and what is
\* reported, applied or cancelled is what the courier says.
InTouch ==
    /\ \A n \in Attempt : courier[n] \in Final => courier'[n] = courier[n]
    /\ \A n \in booked : courier'[n] \in Active => courier[n] \in Active
    /\ \A e \in wire' : e \in wire \/ courier'[e.n] = e.s
    /\ \/ applying' \in {applying, None}
       \/ \E e \in wire : applying'.n = e.n /\ applying'.s = e.s /\ courier' = courier
    /\ cancelling' \in {0, cancelling} \/ courier'[cancelling'] = "cancelled"

\* Every step of a leg with a real courier is one of those.
LEMMA StaysInTouch == ASSUME IInv, provider # "mock", [Next]_vars PROVE InTouch
<1> USE FinalOrActive, RideStatuses DEF IInv, InTouch
<1> USE DEF taskVars, courierVars, jobVars, rowVars, scanVars
<1>0. courier \in [Attempt -> RideStatus \cup {"none"}] /\ booked \subseteq Attempt
  BY DEF TypeOK
<1>1. CASE UNCHANGED vars
  BY <1>1 DEF vars
<1>2. ASSUME CustomerStep PROVE InTouch
  BY <1>2 DEF CustomerStep, CancelBooking, RebookPickup, QuoteReturn, RebookReturn, Goes, Wants
<1>3. ASSUME BookCommit \/ BookNothing \/ BookRefused \/ BookUnmarked \/ BookLost PROVE InTouch
  BY <1>3 DEF BookCommit, BookNothing, BookRefused, BookUnmarked, BookLost, BookDead
<1>4. ASSUME BookCall PROVE InTouch
  <2>1. ToBook \in Attempt /\ UNCHANGED <<wire, applying, cancelling>>
    BY <1>4 DEF BookCall, CanBook
  <2>2. \A n \in Attempt : courier'[n] =
            IF n = ToBook /\ courier[n] = "none" THEN "requested" ELSE courier[n]
    BY <1>0, <1>4, <2>1 DEF BookCall
  <2>3. \A n \in booked : courier[n] # "none"
    BY DEF Inner, RidesAreBooked, TypeOK
  <2>4. "none" \notin Final
    BY DEF Final, Ended
  <2> QED
    BY <1>0, <2>1, <2>2, <2>3, <2>4
<1>5. ASSUME CancelWrite \/ CancelLost PROVE InTouch
  BY <1>5 DEF CancelWrite, CancelLost, CancelDead
<1>6. ASSUME NEW n \in Attempt, CancelCall(n) PROVE InTouch
  <2>1. /\ courier[n] \in Active /\ cancelling' = n /\ applying' = applying
        /\ courier' = [courier EXCEPT ![n] = "cancelled"]
        /\ SetsOut([n |-> n, s |-> "cancelled"])
    BY <1>6 DEF CancelCall, Sends
  <2>2. \A m \in Attempt : courier'[m] = IF m = n THEN "cancelled" ELSE courier[m]
    BY <1>0, <2>1
  <2>3. wire' \subseteq wire \cup {[n |-> n, s |-> "cancelled"]}
    BY <2>1 DEF SetsOut
  <2>4. "cancelled" \notin Active
    OBVIOUS
  <2> QED
    BY <1>0, <2>1, <2>2, <2>3, <2>4
<1>7. ASSUME NEW n \in Attempt, CancelRefused(n) \/ CancelNothing(n) PROVE InTouch
  BY <1>7 DEF CancelRefused, CancelNothing
<1>8. ASSUME NEW n \in Attempt, PollRead(n) PROVE InTouch
  <2>1. wire' \subseteq wire \cup {[n |-> n, s |-> courier[n]]}
    BY <1>8 DEF PollRead, SetsOut
  <2> QED
    BY <1>8, <2>1 DEF PollRead
<1>9. ASSUME NEW e \in wire, Hear(e) PROVE InTouch
  <2>1. wire' \subseteq wire /\ courier' = courier
    BY <1>9 DEF Hear
  <2>2. cancelling' = cancelling
    BY <1>9 DEF Hear, Begin
  <2>3. applying' = applying \/ (applying'.n = e.n /\ applying'.s = e.s)
    BY <1>9 DEF Hear, Begin
  <2> QED
    BY <2>1, <2>2, <2>3
<1>10. ASSUME ApplyCommit \/ ApplyRefused \/ ApplyLost PROVE InTouch
  BY <1>10 DEF ApplyCommit, ApplyRefused, ApplyLost, Goes, Wants
<1>11. ASSUME NEW point \in DOMAIN Handover, ScanRead(point) PROVE InTouch
  BY <1>11 DEF ScanRead
<1>12. ASSUME ScanCommit \/ ScanFails \/ AutoAdvance PROVE InTouch
  BY <1>12 DEF ScanCommit, ScanFails, AutoAdvance, Goes, Wants
<1>13. ASSUME NEW n \in Attempt, NEW s \in RideStatus, RideGoesOn(n, s) PROVE InTouch
  <2>1. /\ courier[n] \in Active /\ UNCHANGED <<applying, cancelling>>
        /\ courier' = [courier EXCEPT ![n] = s] /\ SetsOut([n |-> n, s |-> s])
    BY <1>13 DEF RideGoesOn, Sends
  <2>2. \A m \in Attempt : courier'[m] = IF m = n THEN s ELSE courier[m]
    BY <1>0, <2>1
  <2>3. wire' \subseteq wire \cup {[n |-> n, s |-> s]}
    BY <2>1 DEF SetsOut
  <2> QED
    BY <1>0, <2>1, <2>2, <2>3
<1> QED
  BY <1>1, <1>2, <1>3, <1>4, <1>5, <1>6, <1>7, <1>8, <1>9, <1>10, <1>11, <1>12, <1>13
  DEF Next, CustomerStep, WorkerStep, ReportStep, HandoverStep
\* What is reported, applied and cancelled stays true.
LEMMA ReportsTrueKept ==
    ASSUME IInv, provider # "mock", ReportsAreTrue, [Next]_vars
    PROVE  ReportsAreTrue'
<1> USE DEF IInv
<1>1. InTouch
  BY StaysInTouch
<1>2. /\ \A e \in wire : e.n \in Attempt
      /\ applying # None => applying.n \in Attempt
      /\ cancelling \in 0 .. MaxAttempts
  BY DEF TypeOK, Report
<1>3. \A e \in wire : e.s \in Final => courier'[e.n] = e.s
  BY <1>1, <1>2 DEF ReportsAreTrue, InTouch
<1>4. \A e \in wire' : e.s \in Final => courier'[e.n] = e.s
  BY <1>1, <1>3 DEF InTouch
<1>5. applying' # None /\ applying'.s \in Final => courier'[applying'.n] = applying'.s
  <2>1. CASE applying' = applying
    BY <1>1, <1>2, <2>1 DEF ReportsAreTrue, InTouch
  <2>2. ASSUME NEW e \in wire, applying'.n = e.n, applying'.s = e.s, courier' = courier
        PROVE  applying' # None /\ applying'.s \in Final => courier'[applying'.n] = applying'.s
    BY <1>3, <2>2
  <2> QED
    BY <1>1, <2>1, <2>2 DEF InTouch
<1>6. cancelling' # 0 => courier'[cancelling'] = "cancelled"
  <2>1. CASE cancelling' = cancelling /\ cancelling # 0
    BY <1>1, <1>2, <2>1, LegsAssumption DEF ReportsAreTrue, InTouch, Final, Ended, Attempt
  <2> QED
    BY <1>1, <2>1 DEF InTouch
<1> QED
  BY <1>4, <1>5, <1>6 DEF ReportsAreTrue

\* Booking stores the ride that was asked for, and no other is live then.
LEMMA BookedRow ==
    ASSUME IInv, RowsInv, BookCommit \/ BookUnmarked
    PROVE  /\ booking \in Attempt /\ booked' = booked \cup {booking} /\ UNCHANGED <<status, cancels>>
           /\ \A n \in Attempt : rows'[n] = IF n = booking THEN "requested" ELSE rows[n]
           /\ \A n \in booked : n \in Attempt /\ rows[n] \in Ended /\ n < booking
           /\ courier' = courier /\ leg' = leg /\ provider' = provider /\ status = Requested
<1> USE DEF IInv, Inner, RowsInv, jobVars, courierVars
<1>1. /\ booking \in Attempt /\ booking # 0
      /\ rows' = [rows EXCEPT ![booking] = "requested"] /\ booked' = booked \cup {booking}
  BY LegsAssumption DEF BookCommit, BookUnmarked, TypeOK, Attempt
<1>2. \A n \in Attempt : rows'[n] = IF n = booking THEN "requested" ELSE rows[n]
  BY <1>1 DEF TypeOK
<1>3. ASSUME NEW n \in booked PROVE n \in Attempt /\ rows[n] \in Ended /\ n < booking
  <2>1. n \in Attempt /\ rows[n] \in RideStatus
    BY DEF RidesAreBooked, TypeOK
  <2>2. rows[n] \in Ended
    BY <1>1, <2>1, RideStatuses DEF BookingHolds, Blocking, Ended
  <2>3. n # booking /\ ~(n > booking)
    BY <1>1, <2>1, RideStatuses DEF BookingHolds, BookingIsLast
  <2> QED
    BY <1>1, <2>1, <2>2, <2>3, LegsAssumption DEF Attempt
<1> QED
  BY <1>1, <1>2, <1>3 DEF BookCommit, BookUnmarked, BookingHolds

\* The rows of the rides that are over are right.
LEMMA RowsTrueKept ==
    ASSUME IInv, RowsInv, provider # "mock", ReportsAreTrue, RowsAreTrue, [Next]_vars
    PROVE  RowsAreTrue'
<1> USE RideStatuses, FinalOrActive DEF IInv, RowsInv
<1>1. leg' = leg /\ InTouch /\ booked \subseteq Attempt
  BY LegStays, StaysInTouch DEF TypeOK
<1>2. CASE rows' = rows /\ booked' = booked
  BY <1>1, <1>2 DEF RowsAreTrue, InTouch
<1>3. CASE QuoteReturn \/ RebookReturn
  <2>1. booked' = booked
    BY <1>3 DEF QuoteReturn, RebookReturn, rowVars
  <2>2. \A n \in booked : rows[n] \in RideStatus /\ rows[n] # "absent" /\ rows[n] # "quoted"
    BY DEF Inner, RidesAreBooked, TypeOK
  <2>3. \A n \in booked : rows'[n] = rows[n]
    <3>1. CASE QuoteReturn
      BY <1>1, <2>2, <3>1, NextIsAbsent DEF QuoteReturn, Requoted, Inner
    <3>2. CASE RebookReturn
      BY <1>1, <2>2, <3>2 DEF RebookReturn
    <3> QED
      BY <1>3, <3>1, <3>2
  <2> QED
    BY <1>1, <2>1, <2>3 DEF RowsAreTrue, InTouch
<1>4. CASE BookCommit \/ BookUnmarked
  BY <1>4, BookedRow DEF RowsAreTrue, Ended
<1>5. CASE CancelWrite \/ ApplyCommit \/ ScanCommit
  <2>0. courier' = courier
    BY <1>5 DEF CancelWrite, ApplyCommit, ScanCommit, courierVars
  <2>1. booked' = booked
    BY <1>5, RideRows
  <2>2. PICK n \in booked, v \in RideStatus :
            /\ n \in Attempt /\ rows[n] \in RideStatus
            /\ \A m \in Attempt : rows'[m] = IF m = n THEN v ELSE rows[m]
            /\ \/ n = cancelling /\ cancelling # 0 /\ v = "cancelled"
               \/ applying # None /\ n = applying.n /\ v = applying.s
               \/ v \in Active \/ (v = "delivered" /\ leg # "pickup")
    BY <1>5, RideRows
  <2>3. v \in Ended \/ (leg = "pickup" /\ v = "delivered") => courier[n] \in Final
    <3>1. "cancelled" \in Final
      BY DEF Final, Ended
    <3>2. v \in Ended \/ v = "delivered" => v \in Final
      BY DEF Final
    <3> QED
      BY <2>2, <3>1, <3>2 DEF ReportsAreTrue, Ended
  <2> QED
    BY <1>1, <2>0, <2>1, <2>2, <2>3 DEF RowsAreTrue
<1> QED
  BY <1>2, <1>3, <1>4, <1>5, RowsWritten DEF RowSteps

\* A ride is booked when the ones before it are over.
LEMMA LastKept ==
    ASSUME IInv, RowsInv, provider # "mock", RowsAreTrue, LastIsUnderway, [Next]_vars
    PROVE  LastIsUnderway'
<1>1. InTouch /\ booked \subseteq Attempt
  BY StaysInTouch DEF IInv, TypeOK
<1>2. CASE BookCommit \/ BookUnmarked
  <2>1. \A n \in booked : courier[n] \notin Active
    BY <1>2, BookedRow, FinalOrActive DEF RowsAreTrue
  <2>2. /\ booking \in Attempt /\ booked' = booked \cup {booking} /\ courier' = courier
        /\ \A k \in booked : k \in Attempt /\ k < booking
    BY <1>2, BookedRow
  <2>3. \A k \in booked' : k \in Attempt /\ k <= booking
    BY <2>2, LegsAssumption DEF Attempt
  <2>4. \A n \in booked' : courier'[n] \in Active => n = booking
    BY <2>1, <2>2
  <2> QED
    BY <2>3, <2>4 DEF LastIsUnderway
<1>3. CASE booked' = booked
  BY <1>1, <1>3 DEF LastIsUnderway, InTouch
<1>4. booked' = booked \/ BookCommit \/ BookUnmarked
  BY RowsWritten
  DEF RowSteps, QuoteReturn, RebookReturn, CancelWrite, ApplyCommit, ScanCommit
<1> QED
  BY <1>2, <1>3, <1>4

\* What is taken off the queue of cancellations is over, or was given up.
LEMMA TakenOff ==
    ASSUME IInv, provider # "mock", RowsAreTrue, ReportsAreTrue, leg = "pickup",
           [Next]_vars, NEW n \in cancels, n \notin cancels'
    PROVE  courier[n] \in Final \/ n \in dead'
<1> USE RideStatuses, FinalOrActive DEF IInv, Inner, taskVars
<1>0. n \in booked /\ n \in Attempt /\ courier[n] \in RideStatus
  BY DEF CancelsAreBooked, RidesAreBooked, TypeOK
<1>1. CancelWrite \/ CancelNothing(n) \/ n \in dead'
  <2>1. ~UNCHANGED vars
    BY DEF vars
  <2>2. ~CustomerStep
    BY DEF CustomerStep, CancelBooking, RebookPickup, QuoteReturn, RebookReturn, Goes, Wants
  <2>3. ~BookCall /\ ~BookCommit /\ ~BookNothing /\ ~BookRefused /\ ~BookUnmarked /\ ~BookLost
    BY DEF BookCall, BookCommit, BookNothing, BookRefused, BookUnmarked, BookLost, BookDead
  <2>4. \A m \in Attempt : ~CancelCall(m) /\ (CancelNothing(m) => m = n)
    BY DEF CancelCall, CancelNothing
  <2>8. (\E m \in Attempt : CancelRefused(m)) \/ CancelLost => n \in dead'
    BY DEF CancelRefused, CancelLost, CancelDead
  <2>5. ~ReportStep
    <3>1. \A e \in wire : ~Hear(e)
      BY DEF Hear, Begin
    <3> QED
      BY <3>1 DEF ReportStep, PollRead, ApplyCommit, ApplyRefused, ApplyLost, Goes, Wants
  <2>6. ~HandoverStep
    BY DEF HandoverStep, ScanRead, ScanCommit, ScanFails, AutoAdvance, Goes, Wants
  <2>7. \A m \in Attempt, s \in RideStatus : ~RideGoesOn(m, s)
    BY DEF RideGoesOn
  <2> QED
    BY <2>1, <2>2, <2>3, <2>4, <2>5, <2>6, <2>7, <2>8 DEF Next, WorkerStep
<1>2. CASE CancelWrite
  <2>1. cancelling # 0 /\ n = cancelling
    BY <1>2 DEF CancelWrite
  <2> QED
    BY <2>1 DEF ReportsAreTrue, Final, Ended
<1>3. CASE CancelNothing(n)
  BY <1>0, <1>3 DEF CancelNothing, CancelRefused, RowsAreTrue, Ended
<1> QED
  BY <1>1, <1>2, <1>3

\* Calling off finds the one ride that may be under way, and it stays queued
\* until it is over.
LEMMA CalledOffKept ==
    ASSUME IInv, RowsInv, provider # "mock", InStep, [Next]_vars
    PROVE  CalledOffIsQueued'
<1> USE RideStatuses, FinalOrActive DEF IInv, Inner, RowsInv, InStep
<1> SUFFICES ASSUME status' = "cancelled", NEW n \in booked', courier'[n] \in Active
             PROVE  n \in cancels' \cup dead'
  BY LegStays DEF CalledOffIsQueued
<1>1. InTouch
  BY StaysInTouch
<1>2. CASE status = "cancelled"
  <2>1. booked' = booked
    <3>1. ~BookCommit /\ ~BookUnmarked
      BY <1>2, BookedRow DEF Requested
    <3> QED
      BY <3>1, RowsWritten
      DEF RowSteps, QuoteReturn, RebookReturn, CancelWrite, ApplyCommit, ScanCommit
  <2>2. courier[n] \in Active
    BY <1>1, <2>1 DEF InTouch
  <2>3. n \in cancels \cup dead /\ n # 0
    BY <1>2, <2>1, <2>2, LegsAssumption DEF CalledOffIsQueued, TypeOK, Attempt
  <2>4. courier[n] \notin Final
    BY <2>2
  <2>5. CASE n \in dead
    BY <2>3, <2>5, DeadStays
  <2>6. CASE n \in cancels
    BY <1>2, <2>4, <2>6, TakenOff DEF CalledOffIsPickup
  <2> QED
    BY <2>3, <2>5, <2>6
<1>3. CASE status # "cancelled"
  <2>1. CancelBooking
    BY <1>3, IntoCalledOff
  <2>2. /\ cancels' = cancels \cup Latest /\ booked' = booked /\ courier' = courier
        /\ leg = "pickup"
    BY <2>1 DEF CancelBooking, Goes, Wants, rowVars, courierVars
  <2>3. n \in Attempt /\ rows[n] \in RideStatus /\ courier[n] \in Active
    BY <2>2 DEF RidesAreBooked, TypeOK
  <2>4. rows[n] \in Active
    BY <2>2, <2>3 DEF RowsAreTrue, Final
  <2>5. n \in Latest
    <3>1. \A k \in Live : k <= n
      BY <2>2, <2>3, LiveIsBooked DEF LastIsUnderway
    <3> QED
      BY <2>3, <2>4, <3>1 DEF Latest, Live
  <2> QED
    BY <2>2, <2>5
<1> QED
  BY <1>2, <1>3

\* A leg starts in step.
LEMMA InitInStep == Init => ReportFits /\ WaitingIsTracked /\ RowsInv /\ InStep
<1> SUFFICES ASSUME Init PROVE ReportFits /\ WaitingIsTracked /\ RowsInv /\ InStep
  OBVIOUS
<1> USE DEF Init
<1>1. ReportFits /\ WaitingIsTracked
  BY DEF ReportFits, WaitingIsTracked
<1>2. RowsInv
  BY LegsAssumption
  DEF RowsInv, QuoteIsLast, BookingIsLast, CalledOffIsPickup, ScanFitsLeg, Attempt, Requested
<1>3. InStep
  BY DEF InStep, ReportsAreTrue, RowsAreTrue, LastIsUnderway, CalledOffIsQueued
<1> QED
  BY <1>1, <1>2, <1>3

\* The job and its rides say the same, for any number of rides, reports and
\* faults: a device is with a rider only on a ride that was booked, a job that
\* waits has a booking pending, a ride, or the dead row of a booking that was
\* given up, a ride the shop has as over is over, and the rides of a job that
\* was called off are queued to be cancelled or dead in the outbox.
THEOREM InAgreement == Spec => []JobAndRidesAgree
<1> DEFINE Agreed == /\ IInv /\ ReportFits /\ WaitingIsTracked /\ RowsInv
                     /\ provider # "mock" => InStep
<1>1. Init => Agreed
  BY InitInv, InitInStep
<1>2. Agreed /\ IInv' /\ [Next]_vars => Agreed'
  <2> SUFFICES ASSUME Agreed, IInv', [Next]_vars PROVE Agreed'
    OBVIOUS
  <2>1. ReportFits' /\ WaitingIsTracked' /\ RowsInv'
    BY ReportFitsKept, WaitingKept, RowsInvKept
  <2>2. provider' # "mock" => InStep'
    <3>1. provider' = provider
      BY LegStays
    <3>2. ASSUME provider # "mock" PROVE InStep'
      <4>1. InStep
        BY <3>2
      <4> QED
        BY <3>2, <4>1, ReportsTrueKept, RowsTrueKept, LastKept, CalledOffKept DEF InStep
    <3> QED
      BY <3>1, <3>2
  <2> QED
    BY <2>1, <2>2
<1>3. Agreed => JobAndRidesAgree
  <2> SUFFICES ASSUME Agreed PROVE JobAndRidesAgree
    OBVIOUS
  <2>1. CarriedIsTracked /\ WaitingIsTracked
    BY DEF IInv, Inner
  <2>2. EndedIsOver
    BY FinalOrActive DEF EndedIsOver, InStep, RowsAreTrue
  <2>3. CalledOffIsQueued
    BY DEF CalledOffIsQueued, InStep
  <2> QED
    BY <2>1, <2>2, <2>3 DEF JobAndRidesAgree
<1> HIDE DEF Agreed
<1> QED
  BY <1>1, <1>2, <1>3, InvHolds, PTL DEF Spec

=============================================================================
