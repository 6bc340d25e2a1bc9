------------------------------ MODULE LivePage ------------------------------
(***************************************************************************)
(* A customer's page of a job that keeps itself up to date.  Most writes   *)
(* notify (pg_notify); one LISTEN connection per server process fans the   *)
(* notifications out to the event streams open at that moment; the page    *)
(* answers an event by fetching itself again a moment later, and polls     *)
(* every 30 s while its stream is down.  An open payment panel polls its   *)
(* own payment every 2 s.                                                  *)
(*                                                                         *)
(* Notifications are not stored: one that finds no listener or no stream   *)
(* is gone.  The job is the number of changes it has seen and the phase it *)
(* is in; each change of a quote is a new version of it.                   *)
(***************************************************************************)
EXTENDS Naturals

CONSTANTS
    MaxChanges, \* bound: changes of the job
    MaxDrops    \* bound: losses of the event stream or of the LISTEN connection

ASSUME BoundsAssumption == MaxChanges \in Nat /\ MaxDrops \in Nat

VARIABLES
    now,       \* changes of the job so far; while quoted, the current version
    phase,     \* where the job stands
    accepted,  \* the version accepted, 0 before
    payment,   \* status of the last payment of the deposit
    listening, \* the server process holds its LISTEN connection
    stream,    \* the page's EventSource
    events,    \* events on their way to the page
    poll,      \* the 30 s interval is running
    due,       \* the page has a refresh scheduled
    coming,    \* what a running fetch has read, NoPage when none runs
    page,      \* what the page shows
    panel,     \* what the payment panel shows
    missed,    \* history: a change since the last fetch was told to no stream
    drops      \* losses so far

jobVars    == <<now, phase, accepted, payment>>
streamVars == <<listening, stream, events, drops>>
pageVars   == <<poll, due, coming, page, panel>>
vars == <<jobVars, streamVars, pageVars, missed>>

Phase  == {"quoted", "deposit", "repair"}
NoPage == [now |-> 0, phase |-> "none"]
Job    == [now |-> now, phase |-> phase]
Page   == [now : Nat, phase : Phase \cup {"none"}]

TypeOK ==
    /\ now \in Nat \ {0} /\ phase \in Phase /\ accepted \in Nat
    /\ payment \in {"none", "pending", "success", "failed"}
    /\ listening \in BOOLEAN
    /\ stream \in {"connecting", "open", "closed"}
    /\ events \in Nat /\ drops \in Nat
    /\ poll \in BOOLEAN /\ due \in BOOLEAN
    /\ coming \in Page /\ page \in Page
    /\ panel \in {"form", "waiting", "paid", "failed"}
    /\ missed \in BOOLEAN

\* The server has rendered the page; its stream is still to be opened.
Init ==
    /\ now = 1 /\ phase = "quoted" /\ accepted = 0 /\ payment = "none"
    /\ listening = TRUE /\ stream = "connecting" /\ events = 0 /\ drops = 0
    /\ poll = FALSE /\ due = FALSE /\ coming = NoPage /\ page = Job
    /\ panel = "form" /\ missed = FALSE

(***************************************************************************)
(* Writes and their notifications                                          *)
(***************************************************************************)
\* The page's stream is subscribed to the process's bus, and that listens.
Heard == listening /\ stream = "open"

\* A change of the job commits, and its notification, if any, goes out with it.
Change(notified) ==
    /\ now' = now + 1
    /\ events' = IF notified /\ Heard THEN events + 1 ELSE events
    /\ missed' = (missed \/ ~(notified /\ Heard))
    /\ UNCHANGED <<listening, stream, drops>>

\* The shop revises its quote, or works on the repair.  After the repair there
\* are writes to tables without a trigger: a new proforma, another choice of
\* drop-off when no delivery row is left to change.
ShopWrites(notified) ==
    /\ phase \in {"quoted", "repair"} /\ now < MaxChanges
    /\ notified \/ phase = "repair"
    /\ Change(notified)
    /\ UNCHANGED <<phase, accepted, payment, pageVars>>

\* "Accept" on the page: the handler takes the version that is current when it
\* runs; the page does not say which one it shows.
AcceptQuote ==
    /\ page.phase = "quoted" /\ phase = "quoted"
    /\ accepted' = now
    /\ phase' = "deposit"
    /\ Change(TRUE)
    /\ UNCHANGED <<payment, pageVars>>

\* The pay button of the panel, for the deposit.  (Bound: one open payment;
\* StkPayment has several.)
SendPayment ==
    /\ page.phase = "deposit" /\ phase = "deposit"
    /\ panel \in {"form", "failed"} /\ payment # "pending"
    /\ payment' = "pending"
    /\ panel' = "waiting"
    /\ UNCHANGED <<now, phase, accepted, streamVars, poll, due, coming, page, missed>>

\* M-Pesa's answer is recorded; a success moves the job on.
PaymentAnswered(result) ==
    /\ payment = "pending"
    /\ payment' = result
    /\ phase' = IF result = "success" THEN "repair" ELSE phase
    /\ Change(TRUE)
    /\ UNCHANGED <<accepted, pageVars>>

(***************************************************************************)
(* The event stream                                                        *)
(***************************************************************************)
\* The subscription is made before the response's headers leave the server;
\* an open stream ends the polling, and fetches nothing.
StreamOpens ==
    /\ stream = "connecting"
    /\ stream' = "open"
    /\ poll' = FALSE
    /\ UNCHANGED <<jobVars, listening, events, drops, due, coming, page, panel, missed>>

\* Mutant of StreamFails: a refused stream is not replaced by the poll.
StreamFailsQuietly(to) ==
    /\ drops < MaxDrops /\ stream \in {"connecting", "open"}
    /\ drops' = drops + 1
    /\ stream' = to
    /\ events' = 0
    /\ missed' = (missed \/ events > 0)
    /\ poll' = (poll \/ to = "connecting")
    /\ UNCHANGED <<jobVars, listening, due, coming, page, panel>>

\* The connection breaks (EventSource will try again) or is refused for good;
\* what was under way is lost, and the poll starts.
StreamFails(to) ==
    /\ drops < MaxDrops /\ stream \in {"connecting", "open"}
    /\ drops' = drops + 1
    /\ stream' = to
    /\ events' = 0
    /\ missed' = (missed \/ events > 0)
    /\ poll' = TRUE
    /\ UNCHANGED <<jobVars, listening, due, coming, page, panel>>

\* The server's LISTEN connection goes and comes back; the streams it feeds
\* stay open and are told nothing.
ListenLost ==
    /\ listening /\ drops < MaxDrops
    /\ listening' = FALSE
    /\ drops' = drops + 1
    /\ UNCHANGED <<jobVars, stream, events, pageVars, missed>>

ListenBack ==
    /\ ~listening
    /\ listening' = TRUE
    /\ UNCHANGED <<jobVars, stream, events, drops, pageVars, missed>>

(***************************************************************************)
(* The page                                                                *)
(***************************************************************************)
\* An event about this job schedules a refresh.
EventArrives ==
    /\ events > 0
    /\ events' = events - 1
    /\ due' = TRUE
    /\ UNCHANGED <<jobVars, listening, stream, drops, poll, coming, page, panel, missed>>

PollTick ==
    /\ poll
    /\ due' = TRUE
    /\ UNCHANGED <<jobVars, streamVars, poll, coming, page, panel, missed>>

\* The customer comes back to the tab.
TabVisible ==
    /\ due' = TRUE
    /\ UNCHANGED <<jobVars, streamVars, poll, coming, page, panel, missed>>

\* A scheduled refresh runs: the server renders the job as it is now ...
Fetch ==
    /\ due /\ coming = NoPage
    /\ due' = FALSE
    /\ coming' = Job
    /\ missed' = FALSE
    /\ UNCHANGED <<jobVars, streamVars, poll, page, panel>>

\* Mutant of Shown: a refresh scheduled while the fetch ran is taken for done.
ShownForgetful ==
    /\ coming # NoPage
    /\ page' = coming
    /\ coming' = NoPage
    /\ due' = FALSE
    /\ panel' = IF coming.phase = "deposit" THEN panel ELSE "form"
    /\ UNCHANGED <<jobVars, streamVars, poll, missed>>

\* ... and the answer replaces the page, the panel with it when the deposit is
\* no longer due.
Shown ==
    /\ coming # NoPage
    /\ page' = coming
    /\ coming' = NoPage
    /\ panel' = IF coming.phase = "deposit" THEN panel ELSE "form"
    /\ UNCHANGED <<jobVars, streamVars, poll, due, missed>>

\* The customer reloads the page: everything it knew starts afresh, and a
\* panel that waited for its payment has forgotten it.
Reload ==
    /\ page' = Job /\ panel' = "form"
    /\ poll' = FALSE /\ due' = FALSE /\ coming' = NoPage
    /\ stream' = "connecting" /\ events' = 0
    /\ missed' = FALSE
    /\ UNCHANGED <<jobVars, listening, drops>>

\* Mutant of PanelPoll: the receipt is shown, the page is not refreshed.
PanelPollOnly ==
    /\ panel = "waiting" /\ payment # "pending"
    /\ panel' = IF payment = "success" THEN "paid" ELSE "failed"
    /\ UNCHANGED <<jobVars, streamVars, poll, due, coming, page, missed>>

\* The panel asks for its payment until it is answered; a success shows the
\* receipt and refreshes the page soon after.
PanelPoll ==
    /\ panel = "waiting" /\ payment # "pending"
    /\ panel' = IF payment = "success" THEN "paid" ELSE "failed"
    /\ due' = (due \/ payment = "success")
    /\ UNCHANGED <<jobVars, streamVars, poll, coming, page, missed>>

(***************************************************************************)
(* The specification                                                       *)
(***************************************************************************)
Next ==
    \/ \E notified \in BOOLEAN : ShopWrites(notified)
    \/ AcceptQuote \/ SendPayment
    \/ \E result \in {"success", "failed"} : now < MaxChanges /\ PaymentAnswered(result)
    \/ StreamOpens \/ \E to \in {"connecting", "closed"} : StreamFails(to)
    \/ ListenLost \/ ListenBack
    \/ EventArrives \/ PollTick \/ TabVisible \/ Fetch \/ Shown \/ Reload \/ PanelPoll

Spec == Init /\ [][Next]_vars

\* Intervals tick, scheduled refreshes run and are answered, EventSource keeps
\* reconnecting.  Nobody has to look at the tab, or to write.
Fairness ==
    /\ WF_vars(StreamOpens) /\ WF_vars(ListenBack)
    /\ WF_vars(EventArrives) /\ WF_vars(PollTick) /\ WF_vars(PanelPoll)
    /\ WF_vars(Fetch) /\ WF_vars(Shown)

FairSpec == Spec /\ Fairness

(***************************************************************************)
(* Properties                                                              *)
(***************************************************************************)
Stale == page # Job

\* A page that is behind has a change on its way, or one that passed it by
\* while nothing listened for it or since no trigger told of it: no change is
\* consumed and then forgotten, however events, refreshes and losses of the
\* stream overlap.
StaleIsOnItsWay == Stale => missed \/ events > 0 \/ due \/ coming = Job

\* A customer whose panel waits while the payment succeeds gets a page that
\* knows it, whatever happens to the event stream: the panel's own poll sees to
\* it (pay-panel.tsx).
PaidIsSeen == payment = "success" /\ panel = "waiting" ~> page.phase = "repair"

\* A stream that was refused for good leaves a page that the poll keeps up to
\* date.
PollTakesOver == stream = "closed" /\ Stale ~> ~Stale

(***************************************************************************)
(* What the comments say and the code does not do                          *)
(***************************************************************************)
\* live-refresh.tsx: the page falls back to a poll if the stream drops.  A
\* change made while the stream was away is caught up with.
CatchesUp == Stale ~> ~Stale

\* customer_quote_action: "the quote has changed; please review the latest
\* version": what is accepted is what the customer was looking at.
AcceptsWhatItShows == [][accepted' # accepted => accepted' = page.now]_vars

=============================================================================
