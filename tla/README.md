# iRepair in TLA+

iRepair is a multi-tenant web shop for phone and laptop repairs: a customer
books, a courier brings the device to the shop, technicians diagnose, quote and
repair, M-Pesa collects four kinds of payment, a courier takes the device back,
and a worker process moves along everything nobody answers. This directory holds
TLA+ modules that model the program's own logic, TLC configurations that check
them on small instances, and TLAPS proofs of the properties that matter most.

Everything is translated from `src/`; `PROJECT.json` maps every definition to
the lines it stands for, and lists the hazards the properties are about.

1. The system - 2. The modules - 3. The runs, their bounds and their fairness -
4. The proofs - 5. What is not modelled - 6. Where code and documents disagree -
7. Seen while modelling

## 1. The system

| Component | State it keeps | Operations | Talks to |
|---|---|---|---|
| Job state machine (`db/migrations/0002,0005,0020,0024`, `lib/core/state-machine.ts`) | `jobs`, `job_transitions`, `timers` | `transition_job`: edge, actor, guard, outcome, purge, timers, automatic moves | every handler, worker |
| Booking, walk-in, intake handlers (`lib/jobs/service.ts`, `walk-in.ts`, `(shop)/actions.ts`, `bench/actions.ts`) | draft, secrets, checklists | save, submit, walk-in, consent, intake, acknowledge, reject, cancel | state machine, payments |
| Booking wizard and customer IDs (`booking-wizard.tsx`, `customer-ids.ts`, `id-photo-upload.tsx`) | form, step, what the page believes is on file; `customer_ids` | edit, save, back, photos, pickup, review | booking handlers, upload queue |
| Quotes (`lib/jobs/quotes.ts`, `0012`) | `quotes`, `quote_versions` | send, counter, accept (either side), decline, expire; supplementary quotes | state machine, worker, money |
| Repair, drop-off, dispatch, closing (`service.ts`, `invoices.ts`) | completion checklist, drop-off choice, fee, `invoices` | complete, choose drop-off, settle zero, waive, dispatch, confirm, hand over | logistics, payments |
| Payments (`lib/jobs/payments.ts`, `providers/mpesa.ts`, `confirm_payment` in `0024`) | `payments`, `webhook_events` | prompt, callback, cash, reconcile | state machine, M-Pesa, worker |
| Money and invoices (`lib/core/money.ts`, `invoices.ts`) | `invoices` | rounding, VAT, mark-up, deposits, totals, proforma, issue | quotes, logistics, settings |
| Timers (`worker/tasks.ts`) | `timers.fired_at` | claim, handle, put back | state machine |
| Outbox and notifications (`worker/tasks.ts`, `api/internal/tick`, `providers/sms.ts`, `email.ts`) | `outbox`, `notifications` | claim under a lease, perform, retry, give up, delivery reports | couriers, gateways |
| Logistics (`lib/jobs/logistics.ts`, `0013`, `api/webhooks/delivery`) | `deliveries`, custody events | quote, book, cancel, poll, webhook, scan | couriers, outbox, state machine |
| Client upload queue (`lib/upload-queue.ts`, `photo-capture.tsx`, `api/photos`) | IndexedDB store, object store, `job_photos` | enqueue, drain, retry, remove | booking |
| Pages of a job (`jobs/[id]/page.tsx` of shop and bench, `customer-job.tsx`, `bench-job.tsx`, `job-parts.tsx`, `staff-stepper.tsx`, `workflow.ts`) | none of their own | controls by status, the banner "who is next", two progress bars | all handlers |
| Live pages (`live-refresh.tsx`, `api/events`, `lib/realtime.ts`, `0007`) | LISTEN connection, event streams | notify, stream, poll, refresh | every write, pages |
| Transactions and locks (`lib/db.ts`) | two connection pools, row locks | `withUser`, `withService`, nested | every handler |
| Refunds, shop administration (`admin/actions.ts`) | refunds, settings | save, record | money |
| Authentication, tenants, RLS, audit, SEO, CRM, PDF, scripts | - | - | - |

**What is hard here.** Requests, the worker and webhooks write the same job
concurrently. `transition_job` locks the job row, but six handlers read the job
or its quote *before* they hold any lock and write on the strength of it. Several
operations are two transactions, so a crash falls between them. Payments arrive
late, twice, or for a job that has moved on. Timers scheduled in one status fire
in another. Couriers and SMS gateways are called with rows read or leased, and
their answer is applied to what those rows have become. Two tabs drain one
IndexedDB. Notifications are not stored. Pages repeat the server's rules by hand
and remember what was on file some saves ago. Amounts are rounded in five places
and M-Pesa takes whole shillings only. Whether a job can be closed at all depends
on outcome, reason and terms recorded many steps before.

**What makes each component correct.**

- *Job state machine*: nobody works on a device that has not been consented to
  and paid for; a job that came back can be closed, with the terminal status of
  what really happened; outcomes are decided once; only timers of the present
  status are alive.
- *Booking wizard*: what the page believes to be on file is on file; the fees on
  its last button are those the server will ask; what it lets through is accepted.
- *Quotes*: repairs rest on a price that was accepted and whose deposit was
  paid; late answers leave no trace on declined jobs; expired quotes move on.
- *Repair to closing*: repaired devices leave only against an issued, fully paid
  invoice, which no later handler changes.
- *Payments*: a charge is recorded exactly once, whatever the order of callback,
  query, commit and crash; a failed attempt is never recorded as paid.
- *Money*: totals, VAT and rounding add up; what falls due can be asked for; the
  invoice asks for what was shown and agreed, and for nothing unexplained besides.
- *Queues*: an effect happens before its row is marked kept; a row is taken
  from a runner only after its lease; nothing due is forgotten.
- *Logistics*: one ride at a time, known to the courier; whatever is carried is
  tracked; what is called off ends, at the courier too; a task that is given up
  leaves its dead row.
- *Uploads*: one row for each photo, never without its object; an upload ends unless
  its tab is closed on it.
- *Pages*: what is offered is accepted; whoever is said to be next has something
  to do; a page that is behind will hear of it.

## 2. The modules

```
JobMachine                constants: statuses, edges, outcomes, timer tables
  JobLifecycle            one job under everybody who moves it
    JobLifecycleProofs      theorems
    Screens                 its two pages against the server's rules
  Couriers                one courier leg of a job
    CouriersProofs          theorems
PaymentLedger             what the payment code promises
  StkPayment              the M-Pesa protocol; implements PaymentLedger
    StkPaymentProofs        theorems, the refinement among them
AtLeastOnce               what the queues promise
  WorkQueue               outbox and notifications; implements AtLeastOnce
    WorkQueueProofs         theorems, the refinement among them
Billing                   amounts, in cents
    BillingProofs           theorems
Booking                   the wizard beside the server
    BookingProofs           theorems
UploadQueue               photos on their way
    UploadQueueProofs       theorems
LivePage                  a page that keeps itself up to date
    LivePageProofs          theorems
MCJobLifecycle, MCScreens, MCStkPayment, MCBooking, MCBilling
                          values of the constants and symmetry for TLC
```

The modules meet in the job. `Couriers` and `JobLifecycle` share the tables of
`JobMachine`: what `JobLifecycle` abstracts to one `CourierReport` is a protocol
of rows, rides and reports in `Couriers`. `StkPayment` is inside what
`JobLifecycle` takes as one prompt and one result, and `Billing` has the amounts
that `JobLifecycle` takes as small naturals. `Couriers` leaves the tries and the
lease of an outbox row to `WorkQueue`; `Booking` takes from `UploadQueue` that a
photo counted as uploaded is recorded (`DoneIsRecorded`). Definitions named
`...Anyway`, `...Late`, `...Unissued` and so on, with a comment "Mutant of", are
plausible mistakes used to test that the properties can fail; nothing else uses
them.

### JobMachine

The tables of the state machine as constant operators: the thirty statuses, the
edges of `job_transitions` grouped by actor (`EdgesOf` adds `expandActors`), the
outcome that entering a status sets (`OutcomeOn`), the terminal status of an
outcome (`TerminalFor`), which timers survive a move and which are scheduled
(`Survives`, `ScheduledOn`), and the two statuses from which `transition_job`
calls itself to move on (`Landing`).

### JobLifecycle

One job from draft (or the counter) to a terminal status.

| Variables | In the code |
|---|---|
| `status, outcome, reason, dropoff, warranty, passcode` | columns of `jobs`, `job_secrets.passcode_enc` |
| `timers` | unfired, uncancelled rows of `timers`, by kind |
| `origin, identity, booking, terms` | `jobs.origin`, `identity_method`, photos and slot, `terms_accepted_at` |
| `intake, completed` | the checklists |
| `quote, version, accepted, supp` | status and prices of main and supplementary quote |
| `returnFee, invoice, paid` | `return_fee_cents`, the live invoice, `paid_cents()` by purpose |
| `prompts` | M-Pesa prompts whose result is open |
| `claimed` | timers stamped `fired_at` whose handler has not finished |
| `reader` | a handler between its unlocked read and its write |
| `followUp` | the second transaction a request still owes |
| `faults` | crashes and failures so far |

`Transition` is `transition_job`: edge and actor, guard, outcome, reason, timers,
warranty, purge, automatic move on. The guard looks at primed rows because a
handler writes its own rows before it asks for the move. Every handler that holds
its locks throughout is one action. The six that read first are a reading and a
committing action (`ReadDraft`/`SaveDraft`, `ReadForDropoff`/`ChooseDropoff`,
`ReadForQuote`/`SendQuote`, `ReadForCounter`/`CounterQuote`,
`ReadForSupp`/`SendSupp`, `ReadSuppCounter`/`AcceptSuppCounter`) with every other
action allowed in between. The shop's acceptance of a counter to the *main* quote
also reads first, but the edge it asks for refuses whatever was overtaken, so one
action is equivalent; so is `cancelJob`'s unlocked look at the at-shop list.

Left out: due times (a live timer may fire at any moment), the count in the
drop-off reminder's payload, messages and notifications, the cap on negotiation
rounds and the expiry time of a version, outbox and fee ledger rows, repricing of
a pickup slot, an admin editing a warranty date.

### Screens

The customer's page and the bench's page as functions of `JobLifecycle`'s state: a
set of controls, each with what it does, what it is about and the amount it shows.
`Served` says when a server handler carries a control out, mostly as `ENABLED` of
the action (of both halves for a handler that reads first). `NextStep` is the
banner's rule, `StepBar` and `StaffStepper` the progress bars of the two pages, the
place of a status in each. An admin's edit of a warranty date is among the controls,
but its effect is left out. No variables of its own. Where a job is half done (a
second transaction owed, a crash, a stale write that parted rows: `Settled`,
`RowsAgree`) nothing is claimed; those states are the subject of `JobLifecycle`'s
properties and of section 6.

### PaymentLedger and StkPayment

`PaymentLedger` is the promise: an attempt is settled at most once, as a success
only after the charge, and the job is moved on once. `StkPayment` is the code:
the request as five steps (read what is due, look for an open prompt, insert,
push, store the checkout id), the callback as two (log, process), the reconcile
timer, and locks where they are held across steps. The phone, the gateway and the
network are external: they answer, duplicate and lose as they like.
`AttemptState` and `phone` give the refinement mapping; a step that
`PaymentLedger` does not know (a logged callback, a claimed timer) is a stutter.

A charge may be of another amount than was asked (`phone` "other"): a callback then
fails the payment and keeps the receipt, leaves its timer alone and logs the event as
processed (`row` "mismatch"). A row given up without a result is "givenup". When the
request's last commit is lost or not heard of (`StoreFails`), the `catch` fails the row
whatever it has become (`MarkFailed`), the one thing that may disown a settled
attempt; the ledger knows such attempts as `doubted`.

The worker's reconcile handler: `fireTimers` locks the job row and awaits
`reconcilePayment`, which in a transaction of its own joins `payments` with `jobs`
`for update`: it waits for its caller. `Reconcile` is that state, and `JobFree` what
other transactions wait for meanwhile. It ends only by broken connections: both
(`HandlerFails`), or the caller's alone, after which the query is made and its answer,
which carries no amount, settles the payment (`ReconcileRunsOn`). One worker and one
request per attempt; amounts other than right and wrong, tokens and the rate limit by
phone are left out.

### AtLeastOnce and WorkQueue

`AtLeastOnce` is what comments and plan promise of a side effect: it happens before
its row is kept, a row is given up in the open, and a kept row stays kept unless its
receiver reports otherwise. Of a row that more than one may be working on
(`contested`) only the first of these is promised. `WorkQueue` has both queues:
`status`, `attempts` and `due` are the columns; `batch` is what a run of
`processOutbox` or `sendNotifications` has claimed and not settled, `seen` the
attempts its claim returned, `result` how the present effect turned out. Time passes
in ticks of the longest effect (a provider's timeout); an effect takes at most one
(`spent`), so a batch of `Limit` rows takes up to `Limit` ticks while its lease runs
for `Lease`. Nothing keeps the batch within it: `overdue` is history, the rows some
runner has held for a whole lease, and stands for `contested`. A task's failure is
final after `TaskTries`, though a claim never stops; a message has `GiveUp`, and
claims stop one later. Actions: enqueue (`EnqueueTask`, `NotifyJob` with quiet
hours), `Claim`, the effect (`Succeed`, `Refused`, `ReplyLost`), `Settle` with
backoff and final failure, `Crash`, `RetryOutbox` by an operator, `DeliveryReport`,
`Tick`. `Fate` is the refinement mapping. What a task does is one effect; browser
pushes are left out.

### Couriers

One leg of a job with up to `MaxAttempts` rows of `deliveries`. `rows` and
`booked` are the shop's side (status, stored `provider_delivery_id`), `courier`
the courier's own record, `wire` the reports on their way (webhooks, and statuses
a poll has read), `creates` and `cancels` the outbox rows, `booking`,
`cancelling`, `applying` and `scan` a handler that waits for the courier's API.
`BookCall`/`BookCommit` hold the job row between them, a report holds its delivery
row, `ScanRead`/`ScanCommit` and `CancelCall`/`CancelWrite` hold nothing, so
everything else may come between. Both adapters are there: Tumaboda, which
reports, and the mock, which the shop's own buttons drive. A repeated booking
with the same idempotency key returns the same ride. A task the courier refuses for
good, or whose last try fails, is given up: `dead` has the rides whose cancellation
lies dead in the outbox, and 0 for a dead booking. How many tries that takes is
`WorkQueue`'s matter, so any lost reply may be the last. Riders, addresses,
geolocation and webhook signatures are left out.

### Billing

Amounts in cents under `tenant_settings` records that an admin may switch while the
job runs (`SaveFees`). The arithmetic of `money.ts` is operators (`RoundShilling`,
`VatFromInclusive`, `VatOnExclusive`, `DeliveryCharge`, `DepositFor`,
`ComputeTotals`), with JavaScript's `Math.round` as `Rounded`. `quotes` holds the
current version of main and supplementary quote with its deposit and adjustment,
`legs` what the rides cost and charge, `invoice` the invoice that is not void,
`dropoff` a proforma a drop-off choice has computed and not stored yet
(`fees.pickup` is what the customer was shown and paid, whatever `legs.pickup` costs
once the ride is booked again), `desk` what an admin's refund request has found it
may give back. Only the statuses on the way that ends in a repair appear;
`JobLifecycle` has the others.

### Booking

The five steps of the wizard in one tab: `form`, `step`, `known` (what the page
takes to be on the server), `shown` and `queued` photos, `total` (fees on the
review), and `call`, the server action in flight with its reply. Next.js runs the
server actions of a page one at a time, so a call takes effect when it is sent and
its reply waits, while fields and the Back button stay live. `draft`, `passcode`,
`card`, `feeOf` and `recorded` are the server's rows. A lost reply leaves a broken
page, loaded again by `LoadAfresh`. A page left while its save runs on may be loaded
again from the rows before the save (`LoadMeanwhile`); `overtaken` marks such a page,
of which the properties say nothing. `Numbers` are documents and `Look` what
`customer-ids.ts` and the wizard compare of them, the kind and the last four digits;
`card.photo` is the document the stored photo shows. Slots, the map, saved addresses
and the wording of fields are left out.

### UploadQueue

The photos of one slot: `item` is IndexedDB (status and tries), `drain` each tab's
loop (`pick`, `mark`, `sent`, `rest`), `requests` what the server is working on in
its three steps (check, object, row), `stored` and `rows` what it has, `online` the
browser's flag. A tab drains only when something calls `drain()` in it (`awake`): a
photo queued or retried there, the connection that comes back, the tab that is
looked at (`LookAt`), a page that is loaded (`LoadTab`). A call does nothing while
the loop runs or the browser is offline. A request outlives its tab. `CloseTab`,
`Disconnect`, `RequestDies` and `ReplyLost` are the faults; `Retry` and `Remove` the
customer's buttons. Compression is left out, back-off is a wait of any length.

### LivePage

One page of one job: `now` counts changes, `phase`, `accepted` and `payment` are
the job; `listening` the process's LISTEN connection, `stream` the EventSource,
`events` what is on its way; `poll`, `due`, `coming`, `page` and `panel` the
page's interval, debounced refresh, running fetch, contents and payment panel.
`missed` is history: a change that reached no stream since the last fetch, because
nobody listened or because it wrote only tables without a trigger.

## 3. The runs

Deadlock checking is off in every run: a job ends in a terminal status, a settled
payment, a drained queue or a finished upload has nothing left to do.

| Run | Checks and shows | Instance |
|---|---|---|
| `payments` | `PaidBeforeReturn`, `IssuedInvoiceFrozen`: drop-off choices read earlier, prompts and cash interleave around the final balance | one booking, either identity, fees 1 and 2, one prompt, drop-off interrupted, one crash |
| `quotes` | `DepositCoversRepair`, `DeclinedNotAccepted`, `TimersMatchStatus`, `OutcomeDecidedOnce`, and under fairness `DeliveredCloses`, `ExpiredQuoteMovesOn`: stale forms and counter-offers, expiry and automatic decline against late answers | two prices (with and without deposit), the four quote handlers interrupted, one claimed timer |
| `screens` | `WalkInGate`, `ClosesAsItEnded`, `OfferedIsServed`, `NextStepIsReal`: both pages, their banner and progress bars beside the server's rules | bookings and walk-ins, a price with a deposit, a prompt, a claimed timer, one fault anywhere, no handler interrupted |
| `stk` | `PaidImpliesCharged`, `HeardIsRecorded`, `PendingIsWatched`, `KeepsLedger` | two overlapping attempts, two faults |
| `couriers` | `FailedCanRebook`, `JobAndRidesAgree`, `OneRideAtATime`, and under fairness `CalledOffEnds`, `WantedIsBooked` | both legs, both adapters, two rows, two reports on the way, refusals at any time, one fault |
| `queue` | `TakenAfterItsLease`, `StrandedByCrashes`, `KeepsThePromise`, and under fairness `EveryRowEnds` | one task with one try, two messages with two, two runners, batches of two that just outlive a lease of 2, two faults |
| `pages` | `StaleIsOnItsWay`, and under fairness `PaidIsSeen`, `PollTakesOver` | five changes, two losses of stream or listener |
| `uploads` | `OneRowEach`, `RowsHaveObjects`, `DoneIsRecorded`, and under fairness `UploadsEnd` | two photos, two tabs, one retry, two faults |
| `booking` | `StepTwoIsEnough`, `IdPhotoIsOnFile`, `ReviewShowsTheFee`, `ReviewedIsAccepted` | two kinds of device, fees 0 and 500, three IDs of which two look alike, three edits, one fault, reload or change of a fee |
| `billing` | `InvoiceAddsUp`, `DuesAreWhole`, `AgreedIsInvoiced`, `IssuedIsCovered` | three shops (prices with VAT, without, not registered; three deposit rules), three versions, two choices, one save, one refund |
| `stk_reconcile`, `lease` | one statement each that the code does not keep (section 6) | one attempt, no faults; three messages, `Limit` 3 > `Lease` 2, no faults |

`TypeOK` of every module holds on the same instances; where a proof module is
named in section 4 it is a theorem as well. It is not repeated in the runs.

**Bounds, and why they are enough.** `Interrupted` names the handlers others may run
in the middle of; each hazard is one stale read against any number of whole
handlers, and two stale reads of different rows do not meet. One prompt is enough
for "in flight while the job moves on": `paid` adds up over several in sequence; two
overlapping prompts are `stk`'s subject. `MaxClaims` is 1 because handlers take the
job lock and look at the job again. Two prices tell a deposit from none and a
revision from a repeat; fees 1 and 2 let a choice raise or lower what is due. Two
attempts, two tabs and two runners are the fewest that can race; payment attempts,
devices and IDs are interchangeable, and runs with symmetry check safety only.
`screens` lets no handler be interrupted: what a stale write parts is not settled,
and nothing is claimed of it there. Its one price has a deposit, so that
`deposit_pending` settles with its panel and controls; an acceptance without one
passes that status in its own follow-up. (With both prices and both identities TLC
finds the same in 1.5 million states, too many for a routine run.) Two faults are a crash of each side, or two lost
runs, the number `StrandedByCrashes` speaks of. Two rows of a leg are a failed ride
and its successor. `GiveUp` and `TaskTries` are 1 or 2 instead of 4 and 8: a try
that is retried and a last one. `Lease` and `Limit` keep their order, not their
size: 2 and 2 is the batch of 20 tasks of 15 s that just reaches its 300 s, 3 > 2
that of 30 messages. Three edits fill in, correct and change back a field (typing a
passcode is not counted); five changes take a page from quote to repair with a
revision and a failed payment on the way. Prices are chosen so that VAT, percentages
and mark-up do round (3333.00, 250.50, 16 %, 33 %). One further supplementary quote
is raised only after a declined one, so at most one is billed.

**Fairness, and why the code justifies it.**

- `JobLifecycle`: `worker/index.ts` runs `tick()` in an endless loop, so a live
  timer is eventually claimed (`WF` on each kind: it stays live until claimed or
  cancelled) and a claimed one handled; a request that has started its second
  transaction finishes it. `DeliveredCloses` and `ExpiredQuoteMovesOn` therefore
  hold for a worker that neither crashes nor hangs in a reconcile handler, two
  assumptions the code does not secure (section 6).
- `WorkQueue`: the worker is restarted for ever (`restart: unless-stopped`), its
  loop comes round and each effect ends by its timeout: `WF` on "some runner goes
  on, or time does".
- `Couriers`: the outbox is drained, a task ends one way or the other (done,
  refused, given up), and a transaction that has started ends. Customers, couriers
  and their reports owe nothing.
- `UploadQueue`: the server answers, the connection comes back, and a tab that was
  woken or is draining goes on; no tab is obliged to be woken, looked at or loaded,
  so `UploadsEnd` rests on the wake-ups in the code alone. `LivePage`: intervals
  tick, scheduled refreshes run and are answered, the browser's EventSource
  reconnects, the listener is set up again.
- Nowhere is a customer, a technician, a phone or a courier obliged to act.

## 4. The proofs

For every value of the constants; the assumptions (`AmountsAssumption`,
`BoundsAssumption`, `SettingsAssumption`, ...) say only that fees, rates and bounds
are naturals, that fixed amounts in the settings are whole shillings, as the
settings form stores them, that no courier quotes a ride for nothing (the simulated
one asks 150 shillings at least, the other's quotes are external), and that sets
are what they are named for. No
theorem assumes that a batch fits into its lease, that a handler reads under its lock,
or how many admins there are.

| Module | Theorems (property) |
|---|---|
| `JobLifecycleProofs` | `TypeCorrect`; `WalkInGateHolds`, `DepositCovered`, `OutcomeStands`, `ClosesAsItEndedHolds`, `TimersMatch`, `IssuedStands`, `PaidBeforeReturnHolds`, `DeclinedNotAcceptedHolds`, `ReturnedCanCloseHolds`; of what is not kept: `PurgeIsOvertaken`, `AcceptanceIsOvertaken`, `RowsAreOvertaken` |
| `StkPaymentProofs` | `TypeCorrect`; `PaidIsCharged`, `HeardStaysRecorded`, `PendingStaysWatched`, `SettledForGood`; `ImplementsLedger`: refinement of `PaymentLedger` |
| `WorkQueueProofs` | `TypeCorrect`; `TakenLate` (`TakenAfterItsLease`), `StrandingTakesTwo`; `Implements`: refinement of `AtLeastOnce` |
| `BillingProofs` | `TypeCorrect`; `InvoicesAddUp`, `WholeDues`, `InvoicedAsAgreed`, `CoveredWhenIssued`; of what is not kept: `BalanceIsOvertaken` |
| `BookingProofs` | `TypeCorrect`; `StepTwoSuffices`, `IdPhotoOnFile`, `ReviewShowsFee`, `ReviewedAccepted` |
| `CouriersProofs` | `TypeCorrect`; `FailedRebooks`, `OneRide`, `InAgreement` (`JobAndRidesAgree`) |
| `UploadQueueProofs` | `TypeCorrect`; `OneRowForEach`, `ObjectsComeFirst`, `DoneMeansRecorded` |
| `LivePageProofs` | `TypeCorrect`; `StaleHasNews` |

*A job.* `TypeOK` is inductive. The other proofs rest on `StatusMoves`: whatever
handler runs, either the job's columns that matter stay, or the status changes by
one `Transition` along an edge. The properties then need only the edges, the
guards and `OutcomeOn`, one case per edge into the statuses they speak of, and
these facts. `Grows`: a step never changes where the job came from and never takes
back a consent or a recorded payment. `AcceptedKept`: the accepted price changes
only as the job comes to wait for the deposit. `NeverBack`: no edge leads back into
the statuses before anything is decided. `DecidedLate`, the strengthening that
makes `OutcomeDecidedOnce` inductive: a job with an outcome is past those statuses.
`FromHome`: a job that is delivered or ready to be collected can only be closed.

`PaidBeforeReturn` needs more: `CompletedIsPaid`, that a completed repair is still
on the bench, or is away and paid up. `AfterRepair` says that the edges lead off the
bench only from `final_payment_pending` to dispatch; `LeavesPaid` that this edge is
taken only by a confirmed payment or by `settleZeroBalance`, which both issue the
invoice first and look at what is paid; `PaidUpStays` that a paid-up job stays so,
because an issued invoice is frozen (`IssuedKept`) and payments are never taken
back (`Grows`). `DeclinedNotAccepted` rests on `AcceptedLate` (an accepted quote's
job waits for the deposit or is past all quotes), and `ReturnedCanClose`, which
no run checks, on `Accounted`: past the early statuses a job has an outcome, and
one that goes back cancelled has its reason.

`TimersMatchStatus` says two things: no timer outlives the statuses it belongs to,
and a quote that can expire, an expired one and a delivered device are never without
theirs (or the worker has just claimed it). The second part goes through the moves
that keep a timer, those that cancel and schedule it again, and `HandlersMove`: a
handler that uses its timer up leaves the status with it.

*Where reads are unlocked.* Some statements of section 6 fail because a handler reads
before it locks. Theorems about single steps say that this is the only reason: from a
state in which the statement holds, only the step they name breaks it.
`PurgeIsOvertaken`: the save of a draft whose job is closed. `AcceptanceIsOvertaken`: a
revision written when its job waits for the deposit or is repaired. `RowsAreOvertaken`:
these two, and a quote or a counter-offer written for a job that has moved on since it
was read; nothing else makes job, quote and passcode say different things. They assume
nothing about who is interrupted: `Interrupted` is any set of handlers.

*A payment.* `IInv` says how the five records of one payment can stand to each
other: results are heard only of phones that answered; the checkout id is on a row
only when its request is over or unsure; an unsettled request has an unsettled,
unknown row; a cleanly processed event belongs to a known, settled row and the other
way round. That last pair is what makes `SettledStays` hold: but for a request that
is unsure whether it has committed, the only one that could overwrite a settled row
has not stored its checkout id, so no callback can have settled it. The refinement
uses `IInv` for the enabling conditions of the ledger's steps.

*The queues.* A row may be claimed again when its lease lapses, so `TakenAfterItsLease`
needs to know when that is. `HeldIsLeased` ties the two clocks together: a row in a
batch is due no sooner than its lease less the ticks its runner has held it (`age`), and
once they are used up it is `overdue`. A due row in somebody's hands is therefore an
overdue one. The refinement takes overdue rows for `contested` ones;
`IdsAreOfSent` and `OutcomesAreTrue` connect what is recorded with what has happened,
for those rows too. For stranding, `RunsAreLost` counts: attempts beyond the recorded
failures are lost runs, and each took a fault, unless a late runner has written.

*The bill.* Rounding lemmas come first (`RoundShillingFacts`, `TotalsAddUp`,
`DepositWhole`). `IInv` is `TypeOK` with `WholeAmounts` (everything charged or
asked for is whole shillings), `QuotesSettle` and `BillsFollow` (in which statuses
a quote is accepted and an invoice exists), `AddsUp` for the stored and the
computed proforma, `AsAgreed` and `IssuedIsCovered`. `AsAgreed` is needed for both
copies because a proforma is computed in one transaction and stored in another.
`AgreedIsInvoiced` counts what was shown (the fee paid at booking, the return leg, the
accepted versions) and, by name, what booking the pickup again has added.
`BalanceIsOvertaken` says of one statement the code does not keep what breaks it: from
a state with a current balance, only the storing of a proforma whose sums are older
than a payment.

*Uploads and pages.* The upload invariant relates each tab's place in its loop to
the request it waits for and to what the server has stored by then. The page's says
when a fetch that is running is up to date.

*The wizard.* Its page decides by what it remembers of earlier saves, so the four
properties compare a memory with rows of the server, and a reply in flight is
between the two. `BeliefsHold` closes the gap: what the page *will* believe once
its call is answered is on the server already. A save takes effect as it is sent,
so sending establishes it and the reply only copies it. It needs `CallsLagBehind`
(how far the customer can have gone, with Back and the way forward that needs no
call, while a call is in flight), since a step reached meanwhile would
otherwise rest on a save not yet answered. `DraftSaved`, `PhotosStay` and
`QuoteStands` carry what each step has left behind to the review:
`ReviewedAccepted` is then the server's own list of demands, item by item.

*A courier leg.* The invariant has one part for each lock and says what its holder
may rely on when the courier has answered. `BookingHolds`: a booking holds the job
row, so nothing it looked at has changed. `ReportHolds`: a report holds its delivery
row, so it still concerns what it was compared with. `ScanIsBooked` is all a scan
can count on, because it holds nothing: a late scan may bring an ended ride back,
and from then on (`revived`) two rows can be in the way. Until then `OneInTheWay`
holds, and a report that fails the leg ends the only row there was, which is
`FailedCanRebook`. `OneRideAtATime` does not need it: a booking has looked at the rows
under the lock it still holds.
`QuietKeeps` deals with all steps that write neither rows nor job at once; each
writing step has a lemma of its own.

`JobAndRidesAgree` has four parts. `RidesAreBooked` leads from a status of the job
to a ride the courier knows of: `CarriedIsTracked`. `WaitingIsTracked` needs
`ReportFits`, that a report read while the job was elsewhere is not applied to a job
that waits: its ride, still in the way, has kept the leg from failing and being
booked again. It holds only until a late scan revives an ended ride; then a report
may fail the ride without failing the leg, which TLC finds with three rows. For
`EndedIsOver` and `CalledOffIsQueued` the shop's rows are compared with the courier:
a ride that is over stays so there (`StaysInTouch`), so a final report is still true
however late it is applied (`ReportsAreTrue`), so are the rows it is written to
(`RowsAreTrue`), and a ride is booked only when those before it are over, so the
last one alone can be under way (`LastIsUnderway`, with `BookingIsLast`). A task that
is given up moves from `creates` or `cancels` to `dead`, so each part names the dead row
beside the queued one. That is
why looking for the latest live row is enough when a job is called off. Both are
about the courier that reports; the simulated one has nobody to call off.

Only model-checked: `OfferedIsServed` and `NextStepIsReal`, which ask whether a
handler is `ENABLED` (out of the prover's reach), and every liveness property
(liveness under fairness is out of its reach too). Every other property of the runs
is a theorem. No module uses recursion.

## 5. What is not modelled, and why

- *Partly modelled.* Payments: a supplementary quote to be paid up front
  (`collect_upfront`), which no page asks for. Refunds and administration: only the
  fees section and the recording of refunds; the other forms write one row each.
  Transactions and locks: every module gives a handler as many steps as it has
  transactions; the lock graph itself appears only where it decides (reconcile).
- *Not modelled.* Authentication, OTP and rate limits (single statements on one
  row; who is signed in is the actor of an edge). Tenancy, branding and encryption
  (lookups and caches). Row level security and audit (declarative). SEO, CRM, PDF,
  scripts, static pages (rendering, reports, one-off runs).
- *Possible next.* The lock graph with pool exhaustion; two tabs of the wizard on
  one draft, and the removal of the ID on the account page while one is open.

## 6. Where code and documents disagree

Two have a run that finds the counterexample and an entry in `findings`:

- `stk_reconcile` (`PendingIsSettled`): the reconcile handler waits for its own
  caller's lock, so a lost callback leaves the payment pending and the worker, the
  payment and the job locked. (`docs/PLAN.md:256`, `docs/MPESA.md:26`: the worker
  settles it.)
- `lease` (`OneHolder`): a slow batch of messages outlives its lease and is claimed
  again while it is still being sent. (`worker/tasks.ts:110`: "one message is never
  sent twice by two workers".)

The others are stated at the end of their module, each with its source. Each is a
formula TLC refutes when it is added to the configuration named:

| Statement | Configuration | Said in | What the code does |
|---|---|---|---|
| `JobLifecycle!AbandonedIsNotRepaired` | `quotes` | `STATE_MACHINE.md:81,126` | entering `in_repair` sets the outcome to repaired (`0020:81`), so a job abandoned in mid-repair closes as repaired |
| `JobLifecycle!AcceptedStaysAccepted` | `quotes` | `0024:111` | a revision read earlier is written over an accepted quote (`quotes.ts:55`), and its deposit cannot be paid; nothing else does it (`AcceptanceIsOvertaken`) |
| `JobLifecycle!ChargedIsRecorded` | `payments` | `MPESA.md:22` | the guard of the move a payment unlocks rolls the payment back (`0024:236`) |
| `JobLifecycle!PasscodePurged` | `screens`, drafts interrupted | `COMPLIANCE.md:36` | a draft saved while it is cancelled stores its passcode after the purge (`service.ts:95`); nothing else does it (`PurgeIsOvertaken`) |
| `StkPayment!OnePromptAtATime` | `stk` | `MPESA.md:32` | two overlapping requests both look before either inserts (`payments.ts:90`) |
| `WorkQueue!CrashedRowsComeBack` | `queue` | `tasks.ts:12-14` | claims stop at five attempts, lost runs count |
| `Couriers!NotStranded` | `couriers` | `PLAN.md:199` | a report that the ride is cancelled ends the delivery row and moves the job nowhere, so it waits without a ride |
| `LivePage!CatchesUp` | `pages` | `live-refresh.tsx:10` | an event lost while the stream is away is not made up for when it reopens |
| `LivePage!AcceptsWhatItShows` | `pages` | `(shop)/actions.ts:171-180` | the current version is accepted, whichever the page showed |
| `UploadQueue!UploadsAreRetried` | `uploads` | `upload-queue.ts:6-7` | an item left at "uploading" by a closed tab is picked up by nobody, though the customer comes back again and again; nothing else keeps an upload from its end (`UploadsEnd`) |
| `Booking!PhotoShowsTheId` | `booking` | `customer-ids.ts:14`, `DECISIONS.md:220` | the photo is kept when kind and last four digits agree (`customer-ids.ts:22`), and the wizard believes the same: a different document with the same digits keeps the photo of the old one |
| `Booking!IdIsEnough` | `booking` | `en.json:227`, `0019:1` | the guard insists on a device identifier (`0024:63-65`), so a booking identified by an ID cannot be submitted |
| `Booking!ReviewedHasItsPhotos` | `booking` | `PLAN.md:294` | Back and a changed "powers on" lead to the review with the photos of the former answer |
| `Billing!ShownIsInvoiced` | `billing` | `terms/page.tsx:94` | booking a failed pickup again quotes it anew (`logistics.ts:81-83`) and the invoice bills the new quote (`invoices.ts:26`), while the fee that was shown and paid stays as it was |
| `Billing!VatOnce` | `billing` | `DECISIONS.md:37` | where prices exclude VAT, the accepted total, which includes it, is compared with lines that do not, so VAT goes into the adjustment and is added again (`invoices.ts:15-22`) |
| `Billing!BalanceIsCurrent` | `billing`, `MaxChoices` 3 | `0024:218` | a proforma computed before a payment is stored after it; nothing else does it (`BalanceIsOvertaken`) |
| `Billing!RefundsWithinPaid` | `billing`, two admins, two refunds | `admin/actions.ts:539` | the sum is read before the insert, without a lock, and two admins pass the same check |
| `Screens!CancelStartsReturn` | `screens` | `en.json:486` | the table has no such edge from most at-shop statuses |
| `Screens!DepositIsPayable` | `screens`, two prices | the banner of `deposit_pending` | a crash between acceptance and `skipZeroDeposit` leaves a deposit of zero to be paid |
| `Screens!BenchAsksTheDeposit` | `screens`, two prices, quotes interrupted | `bench-job.tsx:696-699` | after a stale revision the panel shows the current version's deposit and the server charges the accepted one's (`payments.ts:31-36`) |

`JobLifecycle`'s `DeliveredCloses` fails with `MaxFaults` 1: timers are stamped, not
leased (`tasks.ts:155`), and a crash loses them.

## 7. Seen while modelling

Not stated as properties; each was met while reading for the model.

*Handlers.* Choosing the drop-off after a waiver writes the waived fee back
(`bench/actions.ts:317`). A customer who chooses to collect just as the balance is
paid waits in `dispatch_pending`, where no rider can be requested. An admin cannot
cancel between pickup and arrival nor on the way home, though `PLAN.md:190` says
any unfinished status. `requestDispatch` writes its note into `cancel_reason`. A
quote revised while it is still sent keeps the expiry timer of its first version
(`quotes.ts:65-68`). Accepting a counter takes any counter of the quote,
also an older one. `confirm_payment` beside `chooseDropoff` can wait for each other
through the client, where Postgres sees no cycle. `unclaimed_alert` is scheduled
twice for a job that is collected after its return failed.

*Money.* A charge of another amount than was asked fails the payment and keeps the
receipt (`0024:199-204`), and nobody is told; its event is processed and its reconcile
timer runs on. A credited consultation may leave a negative balance. A supplementary
quote with `collect_upfront` has no pay panel. `recordCash` charges the server's due
amount, not the one shown (`bench-job.tsx:696-699`). A late second pickup fee leaves
a panel "Pay KES 0". A proforma PDF made late may overwrite the issued one.

*Pages.* The banner names the shop while a supplementary quote waits for the
customer.

*Booking and photos.* The server's guard counts any two photos, not the declared
ones. A page loaded again before the save of the one it replaces has committed
believes what was before it. A lost reply to the first save leaves an orphan draft.
A removed photo whose upload is in flight comes back as done; done items stay in
IndexedDB; a crash between object and row leaves an orphan object. `retentionSweep`
marks photos deleted even when the object store refused.

*Couriers.* A webhook that fails after its event was logged is taken for a duplicate
when it comes again (`route.ts:34-40`). A late scan marks a ride that had ended
(`0013:5-18`). A booking whose reply is lost and that is cancelled meanwhile leaves
a ride at the courier (`DECISIONS.md:38`). A dead booking or cancellation is told to
the platform's admins (`tasks.ts:46`), not to the shop, whose job waits on.

*Elsewhere.* `alertPlatform` runs after the write that gives a row up and is lost
with a crash between. Two admins can demote each other (`admin/actions.ts:330-352`).
