------------------------------ MODULE Booking ------------------------------
(***************************************************************************)
(* A customer books a pickup: the five steps of the wizard in one tab, the *)
(* draft it saves on the server, and the customer's ID document.           *)
(*                                                                         *)
(* Each step sends what the form held when its button was pressed and acts *)
(* on the reply whenever it comes: the Back button and the fields stay     *)
(* live meanwhile.  Server actions of a page run one at a time, so a call  *)
(* takes effect when it is sent and its reply is pending; a reply that is  *)
(* lost breaks the page, which is loaded again.  Only a page loaded while  *)
(* a call of the one before runs on may read the rows too early.  Photos   *)
(* behave as UploadQueue shows: one that counts as uploaded is recorded.   *)
(***************************************************************************)
EXTENDS Naturals, FiniteSets

CONSTANTS
    DeviceTypes,  \* kinds of device the shop takes
    Fees,         \* consultation fees the shop may set, in cents
    DeliveryFees, \* delivery charges a quote may come to, in cents
    Numbers,      \* ID documents
    Look,         \* what the row and the page show of each: its kind and last four digits
    MaxEdits,     \* bound: changes the customer makes to the form
    MaxFaults     \* bound: lost replies, fresh loads and changes of the fees

None == "none"

ASSUME NumbersAssumption == None \notin Numbers /\ \A n \in Numbers : Look[n] # None
ASSUME FeesAssumption == Fees \subseteq Nat /\ DeliveryFees \subseteq Nat \ {0}
ASSUME BoundsAssumption == MaxEdits \in Nat /\ MaxFaults \in Nat

VARIABLES
    draft,    \* the jobs row of the booking
    passcode, \* job_secrets holds a passcode for it
    card,     \* the customer's row of customer_ids, with the document its photo is of
    feeOf,    \* consultation fee of each kind of device
    recorded, \* kinds of photo the job has rows of
    queued,   \* kinds of photo still in the upload queue
    form,     \* the fields of the form
    step,     \* the step shown
    known,    \* what the page knows of the server: job, passcode, ID, ID photo
    shown,    \* kinds of photo the page counts as uploaded
    total,    \* the fees the review shows
    call,     \* the server action in flight, with what it replied
    overtaken, \* a save of a page that was left took effect after this page was loaded
    edits,    \* changes of the form so far
    faults    \* faults so far

serverVars == <<draft, passcode, card, feeOf>>
photoVars  == <<recorded, queued, shown>>
pageVars   == <<form, step, known, total, call>>
vars == <<serverVars, photoVars, pageVars, overtaken, edits, faults>>

Kind == {"front", "back", "screen_on"}
Identity == {"device", "id"}
NoCard  == [number |-> None, photo |-> None]
NoFees  == [delivery |-> 0, consultation |-> 0]
NoCall  == [op |-> None, form |-> None, fees |-> NoFees]
\* No server action is in flight.
Settled == call.op = None
NoDraft == [status |-> "absent", type |-> None, powers_on |-> TRUE, identity |-> "device",
            shared |-> FALSE, consultation |-> 0, pickup |-> FALSE, fee |-> 0]

Documents == Numbers \cup {None}
Seen(n) == IF n = None THEN None ELSE Look[n]
Looks == {Seen(n) : n \in Documents}
\* getCustomerIdSummary: the look of the ID on file, and whether it has a photo.
Summary(c) == [look |-> Seen(c.number), photo |-> c.photo # None]

Form == [type : DeviceTypes, powers_on : BOOLEAN, identity : Identity, shared : BOOLEAN,
         code : BOOLEAN, number : Documents, onFile : BOOLEAN]
Fresh(type) == [type |-> type, powers_on |-> TRUE, identity |-> "device", shared |-> FALSE,
                code |-> FALSE, number |-> None, onFile |-> card.number # None]
Total == DeliveryFees \cup {0}

TypeOK ==
    /\ draft = NoDraft \/
       draft \in [status : {"draft", "pickup_fee_pending"}, type : DeviceTypes,
                  powers_on : BOOLEAN, identity : Identity, shared : BOOLEAN,
                  consultation : Fees, pickup : BOOLEAN, fee : Nat]
    /\ passcode \in BOOLEAN
    /\ card \in [number : Documents, photo : Documents]
    /\ card.number = None => card.photo = None
    /\ feeOf \in [DeviceTypes -> Fees]
    /\ recorded \in SUBSET Kind /\ queued \in SUBSET Kind /\ shown \in SUBSET Kind
    /\ form \in Form /\ step \in 1 .. 5
    /\ known \in [job : BOOLEAN, passcode : BOOLEAN, card : [look : Looks, photo : BOOLEAN],
                  idPhoto : BOOLEAN]
    /\ total \in [delivery : Total, consultation : Fees \cup {0}]
    /\ call.op \in {None, "details", "pickup", "idPhoto"} /\ (call.op = "details" => call.form \in Form)
    /\ call.fees \in [delivery : Total, consultation : Fees \cup {0}]
    /\ overtaken \in BOOLEAN /\ edits \in 0 .. MaxEdits /\ faults \in 0 .. MaxFaults

(***************************************************************************)
(* Loading the page                                                        *)
(***************************************************************************)
\* A new booking, of the kind of device the link named.
Init ==
    /\ draft = NoDraft /\ passcode = FALSE
    /\ card \in {NoCard} \cup {[number |-> n, photo |-> n] : n \in Numbers}
    /\ feeOf \in [DeviceTypes -> Fees]
    /\ recorded = {} /\ queued = {} /\ shown = {}
    /\ form \in {Fresh(type) : type \in DeviceTypes}
    /\ step = 1
    /\ known = [job |-> FALSE, passcode |-> FALSE, card |-> Summary(card), idPhoto |-> card.photo # None]
    /\ total = NoFees /\ call = NoCall
    /\ overtaken = FALSE /\ edits = 0 /\ faults = 0

Fault == faults < MaxFaults /\ faults' = faults + 1

\* Everything the page knows comes from the rows the server reads for it.
Opened ==
    /\ form' = [type |-> draft.type, powers_on |-> draft.powers_on, identity |-> draft.identity,
                shared |-> draft.shared, code |-> FALSE, number |-> None, onFile |-> card.number # None]
    /\ step' = 3
    /\ known' = [job |-> TRUE, passcode |-> passcode, card |-> Summary(card), idPhoto |-> card.photo # None]
    /\ shown' = recorded
    /\ total' = NoFees /\ call' = NoCall
    /\ UNCHANGED <<feeOf, recorded, queued, edits>>

\* A reload, a page broken by a lost reply, or the draft opened again from the
\* account page.
Load ==
    /\ Fault
    /\ draft.status = "draft"
    /\ Opened
    /\ overtaken' = FALSE
    /\ UNCHANGED <<draft, passcode, card>>

\* The first save was answered to nobody: the page starts a second draft and
\* the first stays behind.
LoadAfresh ==
    /\ Fault
    /\ ~known.job /\ draft.status = "draft"
    /\ draft' = NoDraft /\ passcode' = FALSE
    /\ recorded' = {} /\ queued' = {} /\ shown' = {}
    /\ form' \in {Fresh(type) : type \in DeviceTypes}
    /\ step' = 1
    /\ known' = [job |-> FALSE, passcode |-> FALSE, card |-> Summary(card), idPhoto |-> card.photo # None]
    /\ total' = NoFees /\ call' = NoCall
    /\ overtaken' = FALSE
    /\ UNCHANGED <<card, feeOf, edits>>

\* An admin changes a consultation fee in the settings.
ChangeFee(type, fee) ==
    /\ Fault
    /\ feeOf[type] # fee
    /\ feeOf' = [feeOf EXCEPT ![type] = fee]
    /\ UNCHANGED <<draft, passcode, card, photoVars, pageVars, overtaken, edits>>

(***************************************************************************)
(* The form                                                                *)
(***************************************************************************)
Editing == draft.status # "pickup_fee_pending"

Fill(changed) ==
    /\ form' = changed /\ form' # form
    /\ UNCHANGED <<serverVars, photoVars, step, known, total, call, overtaken, faults>>

\* A change of what the form held; typing a passcode is none.
Edit(changed) == edits < MaxEdits /\ edits' = edits + 1 /\ Fill(changed)

EditDevice ==
    /\ Editing /\ step = 1
    /\ \/ \E type \in DeviceTypes : Edit([form EXCEPT !.type = type])
       \/ Edit([form EXCEPT !.powers_on = ~form.powers_on])

EditIdentity ==
    /\ Editing /\ step = 2
    /\ \/ Edit([form EXCEPT !.identity = IF form.identity = "device" THEN "id" ELSE "device"])
       \/ form.identity = "id" /\ form.onFile /\ Edit([form EXCEPT !.onFile = FALSE])
       \/ \E n \in Numbers : form.identity = "id" /\ ~form.onFile /\ Edit([form EXCEPT !.number = n])
       \/ Edit([form EXCEPT !.shared = ~form.shared])
       \/ form.shared /\ Fill([form EXCEPT !.code = TRUE]) /\ UNCHANGED edits

Goto(n) ==
    /\ step' = n
    /\ UNCHANGED <<serverVars, photoVars, form, known, total, call, overtaken, edits, faults>>

Back == Editing /\ step > 1 /\ Goto(step - 1)
NextFromDevice == Editing /\ step = 1 /\ Goto(2)

(***************************************************************************)
(* Step 2: the details are saved                                           *)
(***************************************************************************)
CardOnFile(f) == f.onFile /\ known.card.look # None
IdentityOk == form.identity = "id" => CardOnFile(form) \/ form.number # None
PasscodeMissing == form.shared /\ ~form.code /\ ~known.passcode

Pending == call.op \in {"details", "pickup"}
Call(op, f, fees) == call' = [op |-> op, form |-> f, fees |-> fees]

\* What createOrUpdateDraft asks of the details.
DetailsAccepted(f) ==
    /\ f.identity = "id" /\ CardOnFile(f) => card.number # None
    /\ f.shared /\ ~f.code => passcode

\* The photo stays when the new number looks like the old one.
SavedCard(f) ==
    IF f.identity = "device" \/ CardOnFile(f) THEN card
    ELSE [number |-> f.number,
          photo |-> IF Seen(card.number) = Seen(f.number) THEN card.photo ELSE None]

\* A blank field keeps the stored passcode; not sharing it forgets it.
SavedPasscode(f) == f.shared /\ (f.code \/ passcode)

DetailsReady ==
    /\ Editing /\ step = 2 /\ Settled
    /\ IdentityOk /\ ~PasscodeMissing
    /\ DetailsAccepted(form)

\* createOrUpdateDraft, with the ID's row and the passcode.
StoreDetails ==
    /\ draft' = [status |-> "draft", type |-> form.type, powers_on |-> form.powers_on,
                 identity |-> form.identity, shared |-> form.shared,
                 consultation |-> feeOf[form.type], pickup |-> draft.pickup, fee |-> draft.fee]
    /\ card' = SavedCard(form)
    /\ passcode' = SavedPasscode(form)

SaveDetails ==
    /\ DetailsReady
    /\ StoreDetails
    /\ Call("details", form, NoFees)
    /\ UNCHANGED <<feeOf, photoVars, form, step, known, total, overtaken, edits, faults>>

\* Mutant of KnownCard: the photo of the ID that was on file is taken for one
\* of the new ID.
KnownCardAnyway(f) == [look |-> Seen(f.number), photo |-> known.card.photo]

\* A new number needs a new photo, unless it looks like the one the page knows.
KnownCard(f) == [look |-> Seen(f.number),
                 photo |-> known.card.look = Seen(f.number) /\ known.card.photo]

\* Mutant of KnownPasscode: a passcode once saved is taken to be kept.
KnownPasscodeOnce(f) == f.code \/ known.passcode

KnownPasscode(f) == f.shared /\ (f.code \/ known.passcode)

DetailsSaved ==
    /\ call.op = "details"
    /\ LET f == call.form
           renewed == f.identity = "id" /\ ~CardOnFile(f)
           c == IF renewed THEN KnownCard(f) ELSE known.card IN
        /\ known' = [job |-> TRUE, passcode |-> KnownPasscode(f), card |-> c,
                     idPhoto |-> IF renewed THEN c.photo ELSE known.idPhoto]
        /\ form' = [form EXCEPT !.code = FALSE, !.onFile = renewed \/ @]
    /\ step' = 3
    /\ call' = NoCall
    /\ UNCHANGED <<serverVars, photoVars, total, overtaken, edits, faults>>

(***************************************************************************)
(* Step 3: photos                                                          *)
(***************************************************************************)
Required(on) == {"front", "back"} \cup (IF on THEN {"screen_on"} ELSE {})

TakePhoto(k) ==
    /\ Editing /\ step = 3 /\ known.job
    /\ k \in Required(form.powers_on) \ (queued \cup shown)
    /\ queued' = queued \cup {k}
    /\ UNCHANGED <<serverVars, recorded, shown, pageVars, overtaken, edits, faults>>

PhotoRecorded(k) ==
    /\ k \in queued \ recorded
    /\ recorded' = recorded \cup {k}
    /\ UNCHANGED <<serverVars, queued, shown, pageVars, overtaken, edits, faults>>

\* The photo leaves the queue: done, or failed or removed.
PhotoSettled(k) ==
    /\ k \in queued
    /\ queued' = queued \ {k}
    /\ shown' = IF k \in recorded THEN shown \cup {k} ELSE shown
    /\ UNCHANGED <<serverVars, recorded, pageVars, overtaken, edits, faults>>

IdPhotoReady ==
    /\ Editing /\ step = 3 /\ form.identity = "id" /\ Settled
    /\ card.number # None

\* The customer photographs the document that is on file.
StoreIdPhoto ==
    /\ card' = [card EXCEPT !.photo = card.number]
    /\ UNCHANGED <<draft, passcode>>

\* The ID photo goes straight to the customer's row, if there is one.
UploadIdPhoto ==
    /\ IdPhotoReady
    /\ StoreIdPhoto
    /\ Call("idPhoto", None, NoFees)
    /\ UNCHANGED <<feeOf, photoVars, form, step, known, total, overtaken, edits, faults>>

IdPhotoUploaded ==
    /\ call.op = "idPhoto"
    /\ known' = [known EXCEPT !.idPhoto = TRUE]
    /\ call' = NoCall
    /\ UNCHANGED <<serverVars, photoVars, form, step, total, overtaken, edits, faults>>

\* Mutant of PhotosOk: photos still on their way count.
PhotosOnTheirWay ==
    /\ Required(form.powers_on) \subseteq shown \cup queued
    /\ form.identity = "id" => known.idPhoto

PhotosOk ==
    /\ Required(form.powers_on) \subseteq shown
    /\ queued = {}
    /\ form.identity = "id" => known.idPhoto

NextFromPhotos == Editing /\ step = 3 /\ known.job /\ PhotosOk /\ Goto(4)

(***************************************************************************)
(* Steps 4 and 5: the pickup is quoted, the booking submitted              *)
(***************************************************************************)
\* The address and the window are filled in.
PickupStep == Editing /\ step = 4 /\ Settled
\* The fees are shown and the terms agreed to.
ReviewStep == draft.status = "draft" /\ step = 5 /\ total # NoFees /\ Settled

\* Mutant of StorePickup: the consultation fee is read from the settings again.
StorePickupAnew(charged) ==
    /\ draft' = [draft EXCEPT !.pickup = TRUE, !.fee = charged + feeOf[draft.type]]
    /\ UNCHANGED <<passcode, card>>

\* The delivery is quoted anew each time; the consultation fee is the draft's.
StorePickup(charged) ==
    /\ draft' = [draft EXCEPT !.pickup = TRUE, !.fee = charged + draft.consultation]
    /\ UNCHANGED <<passcode, card>>

SavePickup ==
    /\ PickupStep
    /\ \E charged \in DeliveryFees :
        /\ StorePickup(charged)
        /\ Call("pickup", None, [delivery |-> charged, consultation |-> draft.consultation])
    /\ UNCHANGED <<feeOf, photoVars, form, step, known, total, overtaken, edits, faults>>

\* A page left while its save runs on: the next page reads the rows before the
\* save is in them, and nothing tells it of the change.
LoadMeanwhile ==
    /\ Fault
    /\ draft.status = "draft"
    /\ Opened
    /\ overtaken' = TRUE
    /\ \/ DetailsReady /\ StoreDetails
       \/ IdPhotoReady /\ StoreIdPhoto
       \/ PickupStep /\ \E charged \in DeliveryFees : StorePickup(charged)

PickupSaved ==
    /\ call.op = "pickup"
    /\ total' = call.fees
    /\ step' = 5
    /\ call' = NoCall
    /\ UNCHANGED <<serverVars, photoVars, form, known, overtaken, edits, faults>>

\* The guard of the move to pickup_fee_pending.
BookingComplete ==
    /\ Cardinality(recorded) >= 2
    /\ draft.pickup
    /\ draft.identity = "device"
    /\ draft.fee > 0

Submit ==
    /\ ReviewStep
    /\ BookingComplete
    /\ draft' = [draft EXCEPT !.status = "pickup_fee_pending"]
    /\ UNCHANGED <<passcode, card, feeOf, photoVars, pageVars, overtaken, edits, faults>>

Next ==
    \/ Load \/ LoadMeanwhile \/ LoadAfresh
    \/ \E type \in DeviceTypes, fee \in Fees : ChangeFee(type, fee)
    \/ EditDevice \/ EditIdentity \/ Back \/ NextFromDevice
    \/ SaveDetails \/ DetailsSaved
    \/ \E k \in Kind : TakePhoto(k) \/ PhotoRecorded(k) \/ PhotoSettled(k)
    \/ UploadIdPhoto \/ IdPhotoUploaded \/ NextFromPhotos
    \/ SavePickup \/ PickupSaved \/ Submit

Spec == Init /\ [][Next]_vars

(***************************************************************************)
(* Properties                                                              *)
(***************************************************************************)
\* (Each of the four speaks of a page that no save of an earlier page has
\* overtaken: what the page shows is then of before that save.)

\* The server takes the details whenever the wizard lets the customer send
\* them: what the page remembers of the passcode and of the ID on file, after
\* any number of saves and edits, is still so on the server.
StepTwoIsEnough ==
    ~overtaken /\ step = 2 /\ Settled /\ IdentityOk /\ ~PasscodeMissing => DetailsAccepted(form)

\* When the page is content with the ID photo the row has one, and of a
\* document that looks like the one on file: of the kind and the last four
\* digits staff see next to it.
IdPhotoIsOnFile ==
    ~overtaken /\ step >= 3 /\ known.idPhoto =>
        card.photo # None /\ Seen(card.photo) = Seen(card.number)

\* The amount on the review's button is what the server will ask, and it was
\* reckoned with the fee of the details that are saved.
ReviewShowsTheFee ==
    ~overtaken /\ step = 5 => /\ draft.fee = total.delivery + total.consultation
                             /\ total.consultation = draft.consultation

\* A booking identified by its device that has come to the review is accepted.
ReviewedIsAccepted ==
    ~overtaken /\ step = 5 /\ draft.identity = "device" => BookingComplete

(***************************************************************************)
(* What the documents say and the code does not keep                       *)
(***************************************************************************)
\* "A changed number invalidates the old photo - it no longer shows the
\* document on file": not one with the same kind and last four digits.
PhotoShowsTheId == card.photo # None => card.photo = card.number

\* So is one identified by the customer's ID, says the wizard.
IdIsEnough == step = 5 /\ draft.identity = "id" => BookingComplete

\* Nobody gets to the review without the photos the declared condition calls
\* for, says the plan.
ReviewedHasItsPhotos == step = 5 => Required(draft.powers_on) \subseteq recorded
=============================================================================
