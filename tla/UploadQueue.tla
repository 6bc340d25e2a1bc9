---------------------------- MODULE UploadQueue ----------------------------
(***************************************************************************)
(* The photos of one slot of a job on their way to the shop.  The browser  *)
(* keeps them in IndexedDB, which its tabs share and which survives a      *)
(* reload; each tab drains the queue one photo at a time, retrying with a  *)
(* growing pause.  A drain ends when nothing is queued or the connection   *)
(* is gone, and starts again only when the tab has a reason to: a photo    *)
(* added or retried in it, the connection back, the customer looking at it *)
(* or loading it.  The server checks, stores the object and records the    *)
(* row in three separate steps; a request outlives the tab that sent it,   *)
(* and the id the browser gave the photo makes its row unique.             *)
(*                                                                         *)
(* A photo is its position in IndexedDB (getAll orders by the key).        *)
(***************************************************************************)
EXTENDS Integers, FiniteSets

CONSTANTS
    Photos,   \* photos taken for the slot, a set of integers
    Tabs,     \* tabs of the browser, at first all open on the site
    GiveUp,   \* failed tries after which a photo is given up (5 in the code)
    MaxFaults \* bound: lost or refused requests, lost connections, closed tabs

ASSUME PhotosAssumption == Photos \subseteq Int /\ IsFiniteSet(Photos)
\* Where a request came from once its tab no longer waits for it.
Gone == "gone"

ASSUME TabsAssumption == Gone \notin Tabs
ASSUME BoundsAssumption == GiveUp \in Nat /\ MaxFaults \in Nat

VARIABLES
    item,     \* IndexedDB: status and tries of each photo
    online,   \* navigator.onLine
    drain,    \* each tab's drain: where it stands and the photo it has read
    awake,    \* tabs that are about to call drain()
    requests, \* requests the server is working on
    stored,   \* photos of which the object store holds a copy
    rows,     \* rows of job_photos recorded for each photo
    dropped,  \* history: photos whose upload lost its tab
    left,     \* history: photos queued when a tab was closed, no drain started since
    faults    \* faults so far

browserVars == <<item, online, drain, awake>>
signals     == <<online, awake>>
serverVars  == <<requests, stored, rows>>
history     == <<dropped, left>>
vars == <<browserVars, serverVars, history, faults>>

Status  == {"unused", "queued", "uploading", "done", "failed", "removed"}
Settled == {"unused", "done", "failed", "removed"}
Item    == [status : Status, tries : 0 .. GiveUp]
Idle    == [at |-> "idle", photo |-> 0, tries |-> 0]
Closed  == [at |-> "closed", photo |-> 0, tries |-> 0]
Drain   == [at : {"closed", "idle", "pick", "mark", "sent", "rest"}, photo : Photos \cup {0}, tries : 0 .. GiveUp]
Request == [photo : Photos, from : Tabs \cup {Gone}, at : {"check", "store", "record"}]

TypeOK ==
    /\ item \in [Photos -> Item]
    /\ online \in BOOLEAN
    /\ drain \in [Tabs -> Drain]
    /\ awake \in SUBSET Tabs
    /\ requests \in SUBSET Request
    /\ stored \in SUBSET Photos
    /\ rows \in [Photos -> Nat]
    /\ dropped \in SUBSET Photos /\ left \in SUBSET Photos
    /\ faults \in 0 .. MaxFaults

Init ==
    /\ item = [p \in Photos |-> [status |-> "unused", tries |-> 0]]
    /\ online = TRUE
    /\ drain = [t \in Tabs |-> Idle]
    /\ awake = Tabs
    /\ requests = {} /\ stored = {}
    /\ rows = [p \in Photos |-> 0]
    /\ dropped = {} /\ left = {}
    /\ faults = 0

Fault == faults < MaxFaults /\ faults' = faults + 1
\* Tries are counted as far as giving up needs them.
Tried(n) == IF n >= GiveUp THEN GiveUp ELSE n + 1
Write(p, status, tries) == item' = [item EXCEPT ![p] = [status |-> status, tries |-> tries]]
Goto(t, at, p, tries) == drain' = [drain EXCEPT ![t] = [at |-> at, photo |-> p, tries |-> tries]]

(***************************************************************************)
(* The customer                                                            *)
(***************************************************************************)
Open(t) == drain[t] # Closed
Wake(t) == Open(t) /\ awake' = awake \cup {t}

Enqueue(t, p) ==
    /\ item[p].status = "unused"
    /\ Write(p, "queued", 0) /\ Wake(t)
    /\ UNCHANGED <<online, drain, serverVars, history, faults>>

\* The slot offers its buttons for the last of its photos only.
Latest(p) == \A other \in Photos : other > p => item[other].status \in {"unused", "removed"}

Retry(t, p) ==
    /\ Latest(p) /\ item[p].status = "failed"
    /\ Write(p, "queued", item[p].tries) /\ Wake(t)
    /\ UNCHANGED <<online, drain, serverVars, history, faults>>

Remove(t, p) ==
    /\ Open(t)
    /\ Latest(p) /\ item[p].status \in {"queued", "uploading", "failed"}
    /\ Write(p, "removed", 0)
    /\ UNCHANGED <<signals, drain, serverVars, history, faults>>

\* The tab comes to the front.
LookAt(t) ==
    /\ Wake(t)
    /\ UNCHANGED <<item, online, drain, serverVars, history, faults>>

\* A page of the site is loaded; it drains a second later.
LoadTab(t) ==
    /\ drain[t] = Closed
    /\ drain' = [drain EXCEPT ![t] = Idle] /\ awake' = awake \cup {t}
    /\ UNCHANGED <<item, online, serverVars, history, faults>>

(***************************************************************************)
(* A tab draining the queue                                                *)
(***************************************************************************)
Queued == {p \in Photos : item[p].status = "queued"}
First(p) == p \in Queued /\ \A other \in Queued : p <= other

\* drain(): nothing happens if it runs in this tab already, or without a connection.
Start(t) ==
    /\ t \in awake /\ awake' = awake \ {t}
    /\ IF drain[t] = Idle /\ online
       THEN Goto(t, "pick", 0, 0) /\ left' = {}
       ELSE UNCHANGED <<drain, left>>
    /\ UNCHANGED <<item, online, serverVars, dropped, faults>>

\* The queue is read, and the photo written back, in two transactions.
Pick(t) ==
    /\ drain[t].at = "pick"
    /\ \/ Queued = {} /\ drain' = [drain EXCEPT ![t] = Idle]
       \/ \E p \in Photos : First(p) /\ Goto(t, "mark", p, item[p].tries)
    /\ UNCHANGED <<item, signals, serverVars, history, faults>>

Send(t) ==
    /\ drain[t].at = "mark"
    /\ LET p == drain[t].photo IN
        /\ Write(p, "uploading", drain[t].tries)
        /\ Goto(t, "sent", p, drain[t].tries)
        /\ requests' = requests \cup {[photo |-> p, from |-> t, at |-> "check"]}
    /\ UNCHANGED <<signals, stored, rows, history, faults>>

\* The answer reached the tab: the item is written from what was read before
\* the upload, whatever became of it since.
Answered(t, status) ==
    /\ Write(drain[t].photo, status, Tried(drain[t].tries))
    /\ Goto(t, "pick", 0, 0)

\* No answer, or an error of the server: try again later, or give up.
Lost(t) ==
    LET n == drain[t].tries IN
        /\ Write(drain[t].photo, IF n >= GiveUp THEN "failed" ELSE "queued", Tried(n))
        /\ Goto(t, "rest", drain[t].photo, n)

\* After the pause the drain goes on, or ends when there is no connection.
Rested(t) ==
    /\ drain[t].at = "rest"
    /\ IF online THEN Goto(t, "pick", 0, 0) ELSE drain' = [drain EXCEPT ![t] = Idle]
    /\ UNCHANGED <<item, signals, serverVars, history, faults>>

(***************************************************************************)
(* The server                                                              *)
(***************************************************************************)
Step(r, at) == requests' = (requests \ {r}) \cup {[r EXCEPT !.at = at]}

\* The reply, if its tab is still there to hear it.
Reply(r, status) ==
    /\ requests' = requests \ {r}
    /\ IF r.from = Gone THEN UNCHANGED <<item, drain>> ELSE Answered(r.from, status)

\* A photo that has its row already is answered with it.
Check(r) ==
    /\ r.at = "check"
    /\ IF rows[r.photo] > 0
       THEN Reply(r, "done")
       ELSE Step(r, "store") /\ UNCHANGED <<item, drain>>
    /\ UNCHANGED <<signals, stored, rows, history, faults>>

\* Mutant of PutObject: the row is written before the object.
PutObjectLate(r) ==
    /\ r.at = "store"
    /\ Step(r, "record")
    /\ rows' = [rows EXCEPT ![r.photo] = 1]
    /\ UNCHANGED <<item, signals, drain, stored, history, faults>>

PutObject(r) ==
    /\ r.at = "store"
    /\ stored' = stored \cup {r.photo}
    /\ Step(r, "record")
    /\ UNCHANGED <<item, signals, drain, rows, history, faults>>

\* Mutant of Recorded: the insert ignores that the id is taken.
RecordedAgain(p) == [rows EXCEPT ![p] = @ + 1]

\* on conflict (job_id, client_upload_id): the first row stays.
Recorded(p) == [rows EXCEPT ![p] = 1]

RecordPhoto(r) ==
    /\ r.at = "record"
    /\ rows' = Recorded(r.photo)
    /\ Reply(r, "done")
    /\ UNCHANGED <<signals, stored, history, faults>>

\* No session, no such job, a file it does not take (before the check), or
\* row level security (at the insert): the photo is failed at once.
Refuse(r) ==
    /\ Fault
    /\ r.at \in {"check", "record"}
    /\ Reply(r, "failed")
    /\ UNCHANGED <<signals, stored, rows, history>>

(***************************************************************************)
(* Faults                                                                  *)
(***************************************************************************)
\* The request dies at the server, or never gets there.
RequestDies(r) ==
    /\ Fault
    /\ requests' = requests \ {r}
    /\ IF r.from = Gone THEN UNCHANGED <<item, drain>> ELSE Lost(r.from)
    /\ UNCHANGED <<signals, stored, rows, history>>

\* Mutant of ReplyLost: a request that got away counts as done.
ReplyTaken(r) ==
    /\ Fault
    /\ r.from # Gone
    /\ Step(r, r.at) /\ Answered(r.from, "done")
    /\ UNCHANGED <<signals, stored, rows, history>>

\* The browser gives the request up; the server does not know.
ReplyLost(r) ==
    /\ Fault
    /\ r.from # Gone
    /\ requests' = (requests \ {r}) \cup {[r EXCEPT !.from = Gone]}
    /\ Lost(r.from)
    /\ UNCHANGED <<signals, stored, rows, history>>

Disconnect ==
    /\ Fault
    /\ online /\ online' = FALSE
    /\ UNCHANGED <<item, drain, awake, serverVars, history>>

\* Mutant of Reconnect: nobody listens for the connection.
ReconnectUnheard ==
    /\ ~online /\ online' = TRUE
    /\ UNCHANGED <<item, drain, awake, serverVars, history, faults>>

\* Every open tab hears of it.
Reconnect ==
    /\ ~online /\ online' = TRUE
    /\ awake' = {t \in Tabs : Open(t)}
    /\ UNCHANGED <<item, drain, serverVars, history, faults>>

\* The tab is closed, or on its way to be loaded again: its drain is gone, its
\* request is not.
CloseTab(t) ==
    /\ Fault
    /\ Open(t)
    /\ drain' = [drain EXCEPT ![t] = Closed]
    /\ awake' = awake \ {t}
    /\ requests' = {IF r.from = t THEN [r EXCEPT !.from = Gone] ELSE r : r \in requests}
    /\ dropped' = dropped \cup (IF drain[t].at = "sent" THEN {drain[t].photo} ELSE {})
    /\ left' = left \cup Queued
    /\ UNCHANGED <<item, online, stored, rows>>

Customer == \E t \in Tabs :
    LookAt(t) \/ LoadTab(t) \/ \E p \in Photos : Enqueue(t, p) \/ Retry(t, p) \/ Remove(t, p)
GoesOn(t) == Pick(t) \/ Send(t) \/ Rested(t)
Draining == \E t \in Tabs : Start(t) \/ GoesOn(t)
Serving  == \E r \in requests : Check(r) \/ PutObject(r) \/ RecordPhoto(r)
Failing  == \/ \E r \in requests : Refuse(r) \/ RequestDies(r) \/ ReplyLost(r)
            \/ Disconnect \/ \E t \in Tabs : CloseTab(t)

Next == Customer \/ Draining \/ Serving \/ Failing \/ Reconnect

Spec == Init /\ [][Next]_vars

\* The server answers, the connection comes back, and a tab that has a reason to
\* drain goes on; nobody is obliged to wake one, or to open one again.
FairSpec == /\ Spec
            /\ \A t \in Tabs : WF_vars(Start(t)) /\ WF_vars(GoesOn(t))
            /\ WF_vars(Serving) /\ WF_vars(Reconnect)

(***************************************************************************)
(* Properties                                                              *)
(***************************************************************************)
\* However often a photo is sent, from two tabs at once or again after its
\* answer was lost, the job has one row of it.
OneRowEach == \A p \in Photos : rows[p] <= 1

\* A recorded photo can be shown: its object was stored before its row.
RowsHaveObjects == \A p \in Photos : rows[p] > 0 => p \in stored

\* A photo the slot counts as uploaded is one the shop has.
DoneIsRecorded == \A p \in Photos : item[p].status = "done" => rows[p] > 0

\* What may keep a photo from coming to an end: its upload lost its tab, and
\* nothing picks up an item left at "uploading"; or a tab was closed while it was
\* queued, and no tab has begun to drain since.
Stranded(p) ==
    \/ item[p].status = "uploading" /\ p \in dropped
    \/ item[p].status = "queued"    /\ p \in left

\* The uploads come to an end without anybody's help, as long as no tab is
\* closed on them: every photo is recorded, given up in the open or taken back,
\* through lost replies, refusals, two tabs and a connection that goes and comes
\* back.  A photo that a closed tab has left queued waits for the next drain of
\* any tab, and no longer; one it has left at "uploading" waits for ever
\* (UploadsAreRetried).
UploadsEnd == <>[](\A p \in Photos : item[p].status \in Settled \/ Stranded(p))

(***************************************************************************)
(* What the comments say and the code does not keep                        *)
(***************************************************************************)
\* upload-queue.ts:6-7: uploaded with retries whenever the browser is online,
\* for a customer who has not gone away.
UploadsAreRetried ==
    []<>(\E t \in Tabs : t \in awake) => <>[](\A p \in Photos : item[p].status \in Settled)
=============================================================================
