--------------------------- MODULE BookingProofs ---------------------------
(***************************************************************************)
(* The wizard's properties for every shop: any kinds of device, fees and   *)
(* ID documents, and any number of edits, reloads and lost replies.        *)
(*                                                                         *)
(* The page remembers what its saves have left on the server and decides   *)
(* by that what the next save needs.  The invariant therefore speaks of    *)
(* what the page will believe once the call in flight is answered, and     *)
(* says that the server bears it out already.                              *)
(***************************************************************************)
EXTENDS Booking, FiniteSetTheorems, TLAPS

(***************************************************************************)
(* The inductive invariant                                                 *)
(***************************************************************************)
\* The details in flight put another ID in the place of the one on file.
Renewed(f) == f.identity = "id" /\ ~CardOnFile(f)

\* What the page takes to be on the server once its call is answered.
PasscodeBelieved == IF call.op = "details" THEN KnownPasscode(call.form) ELSE known.passcode
CardBelieved ==
    IF call.op = "details" /\ Renewed(call.form) THEN KnownCard(call.form) ELSE known.card
IdPhotoBelieved ==
    IF call.op = "details" /\ Renewed(call.form) THEN KnownCard(call.form).photo ELSE known.idPhoto

\* All of it is so.
BeliefsHold ==
    /\ PasscodeBelieved => passcode
    /\ CardBelieved.look = Seen(card.number)
    /\ CardBelieved.photo => card.photo # None
    /\ IdPhotoBelieved => card.photo # None
    /\ call.op = "idPhoto" => card.photo # None

\* The stored photo is of a document that looks like the one on file.
PhotoFits == card.photo # None => Seen(card.photo) = Seen(card.number)

\* Where the customer can have got to while a call is in flight, with Back and
\* the way forward that needs no call.
CallsLagBehind ==
    /\ call.op = "details" => step <= 2
    /\ call.op \in {"pickup", "idPhoto"} => step <= 4

\* A step after the first save has a draft behind it.
DraftSaved == step >= 3 \/ ~Settled => draft.status # "absent"

\* The steps after the photos have the photos of front and back behind them.
PhotosStay ==
    /\ shown \subseteq recorded
    /\ step >= 4 \/ call.op = "pickup" => {"front", "back"} \subseteq recorded

\* A quote of the pickup is in the draft, and reckoned with its consultation fee.
QuotedFor(fees) ==
    /\ draft.pickup
    /\ draft.fee = fees.delivery + fees.consultation
    /\ fees.consultation = draft.consultation
    /\ fees.delivery > 0

\* The page shows, or is about to show, the fees of its draft.
QuoteStands ==
    /\ call.op = "pickup" => QuotedFor(call.fees)
    /\ step = 5 => QuotedFor(total)

IInv ==
    /\ TypeOK
    /\ ~overtaken => BeliefsHold
    /\ PhotoFits
    /\ CallsLagBehind
    /\ DraftSaved
    /\ PhotosStay
    /\ QuoteStands

(***************************************************************************)
(* It is inductive                                                         *)
(***************************************************************************)
\* The rows a saved draft may be.
SavedDraft ==
    [status : {"draft", "pickup_fee_pending"}, type : DeviceTypes, powers_on : BOOLEAN,
     identity : Identity, shared : BOOLEAN, consultation : Fees, pickup : BOOLEAN, fee : Nat]

\* A field of the draft can be overwritten once there is a draft.
LEMMA DraftIsSaved ==
    ASSUME TypeOK, DraftSaved, step >= 3 \/ ~Settled
    PROVE  draft \in SavedDraft
BY DEF TypeOK, DraftSaved, NoDraft, SavedDraft

\* What the page is shown of the customer's row.
LEMMA SummaryType ==
    ASSUME NEW c \in [number : Documents, photo : Documents]
    PROVE  /\ Summary(c) \in [look : Looks, photo : BOOLEAN]
           /\ Summary(c).look = Seen(c.number)
           /\ Summary(c).photo = (c.photo # None)
BY DEF Summary, Looks

\* A page that has just been opened.
LEMMA InitInv == Init => IInv
<1> SUFFICES ASSUME Init PROVE IInv
  OBVIOUS
<1> USE NumbersAssumption, FeesAssumption, BoundsAssumption DEF Init
<1>1. /\ card \in [number : Documents, photo : Documents]
      /\ card.number = None => card.photo = None
      /\ PhotoFits
  <2>1. CASE card = NoCard
    BY <2>1 DEF NoCard, Documents, PhotoFits
  <2>2. CASE card \in {[number |-> n, photo |-> n] : n \in Numbers}
    BY <2>2 DEF Documents, PhotoFits
  <2> QED
    BY <2>1, <2>2
<1>2. TypeOK
  <2>1. form \in Form
    <3>1. PICK type \in DeviceTypes : form = Fresh(type)
      OBVIOUS
    <3> QED
      BY <3>1 DEF Fresh, Form, Identity, Documents
  <2>2. known \in [job : BOOLEAN, passcode : BOOLEAN,
                   card : [look : Looks, photo : BOOLEAN], idPhoto : BOOLEAN]
    BY <1>1, SummaryType
  <2> QED
    <3>1. /\ total \in [delivery : Total, consultation : Fees \cup {0}]
          /\ call.op = None /\ call.fees \in [delivery : Total, consultation : Fees \cup {0}]
      BY DEF NoFees, NoCall, Total
    <3>2. edits \in 0 .. MaxEdits /\ faults \in 0 .. MaxFaults /\ step \in 1 .. 5
      OBVIOUS
    <3>3. passcode \in BOOLEAN /\ recorded \in SUBSET Kind /\ queued \in SUBSET Kind
          /\ shown \in SUBSET Kind /\ overtaken \in BOOLEAN
      OBVIOUS
    <3> QED
      BY <1>1, <2>1, <2>2, <3>1, <3>2, <3>3 DEF TypeOK, None
<1>3. BeliefsHold
  BY <1>1, SummaryType
  DEF BeliefsHold, PasscodeBelieved, CardBelieved, IdPhotoBelieved, NoCall, None
<1>4. CallsLagBehind /\ DraftSaved /\ PhotosStay /\ QuoteStands
  BY DEF CallsLagBehind, DraftSaved, PhotosStay, QuoteStands, NoCall, None, Settled
<1> QED
  BY <1>1, <1>2, <1>3, <1>4 DEF IInv

(***************************************************************************)
(* What the handlers store                                                 *)
(***************************************************************************)
\* Rows as the handlers may leave them.
RowsFit ==
    /\ draft \in SavedDraft
    /\ passcode \in BOOLEAN
    /\ card \in [number : Documents, photo : Documents]
    /\ card.number = None => card.photo = None
    /\ PhotoFits

\* The details, with an ID whose photo stays only if it fits.
LEMMA DetailsFit == ASSUME IInv, DetailsReady, StoreDetails PROVE RowsFit'
<1> USE NumbersAssumption, FeesAssumption DEF IInv, DetailsReady, StoreDetails
<1>1. draft' \in SavedDraft
  <2>1. feeOf[form.type] \in Fees /\ draft.pickup \in BOOLEAN /\ draft.fee \in Nat
    <3>1. feeOf[form.type] \in Fees
      BY DEF TypeOK, Form
    <3>2. CASE draft = NoDraft
      BY <3>1, <3>2 DEF NoDraft
    <3>3. CASE draft \in SavedDraft
      BY <3>1, <3>3 DEF SavedDraft
    <3> QED
      BY <3>2, <3>3 DEF TypeOK, SavedDraft
  <2> QED
    BY <2>1 DEF TypeOK, Form, SavedDraft
<1>2. passcode' \in BOOLEAN
  BY DEF TypeOK, Form, SavedPasscode
<1>3. CASE form.identity = "device" \/ CardOnFile(form)
  BY <1>1, <1>2, <1>3 DEF RowsFit, SavedCard, TypeOK, PhotoFits
<1>4. CASE ~(form.identity = "device" \/ CardOnFile(form))
  <2>1. form.number \in Numbers /\ form.number # None
    BY <1>4 DEF TypeOK, Form, Identity, IdentityOk, Documents
  <2>2. card' = [number |-> form.number,
                 photo |-> IF Seen(card.number) = Seen(form.number) THEN card.photo ELSE None]
    BY <1>4 DEF SavedCard
  <2> QED
    BY <1>1, <1>2, <2>1, <2>2 DEF RowsFit, TypeOK, PhotoFits, Documents
<1> QED
  BY <1>3, <1>4

\* A photo of the ID on file fits it.
LEMMA IdPhotoFits == ASSUME IInv, IdPhotoReady, StoreIdPhoto PROVE RowsFit'
<1>1. draft \in SavedDraft
  BY DraftIsSaved DEF IInv, IdPhotoReady
<1> QED
  BY <1>1 DEF IInv, IdPhotoReady, StoreIdPhoto, RowsFit, TypeOK, PhotoFits

\* The quote of the pickup goes into the draft.
LEMMA PickupFits ==
    ASSUME IInv, PickupStep, NEW charged \in DeliveryFees, StorePickup(charged)
    PROVE  RowsFit' /\ draft.consultation \in Fees
<1>1. draft \in SavedDraft
  BY DraftIsSaved DEF IInv, PickupStep
<1>2. draft.consultation \in Fees
  BY <1>1 DEF SavedDraft
<1>3. charged + draft.consultation \in Nat
  <2>1. charged \in Nat /\ draft.consultation \in Nat
    BY <1>2, FeesAssumption
  <2> QED
    BY <2>1
<1>4. draft' \in SavedDraft
  BY <1>1, <1>3 DEF SavedDraft, StorePickup
<1> QED
  BY <1>2, <1>4 DEF IInv, StorePickup, RowsFit, TypeOK, PhotoFits

\* A page opened on rows that fit.
LEMMA PageOpens ==
    ASSUME IInv, Fault, draft.status = "draft", Opened, RowsFit', overtaken' \in BOOLEAN
    PROVE  TypeOK' /\ PhotoFits' /\ CallsLagBehind' /\ DraftSaved' /\ PhotosStay' /\ QuoteStands'
<1> USE NumbersAssumption, FeesAssumption, BoundsAssumption
    DEF IInv, Opened, Fault, NoCall, None, RowsFit
<1>1. draft \in SavedDraft
  BY DEF TypeOK, NoDraft, SavedDraft
<1>2. form' \in Form
  BY <1>1 DEF Form, SavedDraft, Documents
<1>3. known' \in [job : BOOLEAN, passcode : BOOLEAN,
                  card : [look : Looks, photo : BOOLEAN], idPhoto : BOOLEAN]
  BY SummaryType DEF TypeOK
<1>4. /\ total' \in [delivery : Total, consultation : Fees \cup {0}]
      /\ call'.op = "none" /\ call'.fees \in [delivery : Total, consultation : Fees \cup {0}]
  BY DEF NoFees, Total
<1>5. step' \in 1 .. 5 /\ faults' \in 0 .. MaxFaults
  BY DEF TypeOK
<1>6. TypeOK'
  BY <1>2, <1>3, <1>4, <1>5 DEF TypeOK, SavedDraft
<1>7. CallsLagBehind' /\ PhotosStay' /\ QuoteStands'
  BY <1>4 DEF CallsLagBehind, PhotosStay, QuoteStands, TypeOK
<1>8. DraftSaved'
  BY DEF DraftSaved, SavedDraft
<1> QED
  BY <1>6, <1>7, <1>8

\* A reload leaves the page with what the server has, unless a save of the
\* page before comes after it.
LEMMA LoadKeeps == ASSUME IInv, Load \/ LoadMeanwhile \/ LoadAfresh PROVE IInv'
<1>1. CASE Load
  <2>1. draft \in SavedDraft
    BY <1>1 DEF Load, IInv, TypeOK, NoDraft, SavedDraft
  <2>2. RowsFit'
    BY <1>1, <2>1 DEF Load, IInv, TypeOK, RowsFit, PhotoFits
  <2>3. TypeOK' /\ PhotoFits' /\ CallsLagBehind' /\ DraftSaved' /\ PhotosStay' /\ QuoteStands'
    BY <1>1, <2>2, PageOpens DEF Load
  <2>4. BeliefsHold'
    <3>1. card \in [number : Documents, photo : Documents] /\ card' = card
      BY <1>1 DEF Load, IInv, TypeOK
    <3> QED
      BY <1>1, <3>1, SummaryType
      DEF Load, Opened, NoCall, None, BeliefsHold, PasscodeBelieved, CardBelieved, IdPhotoBelieved
  <2> QED
    BY <2>3, <2>4 DEF IInv
<1>2. CASE LoadMeanwhile
  <2>1. RowsFit'
    <3>1. CASE DetailsReady /\ StoreDetails
      BY <3>1, DetailsFit
    <3>2. CASE IdPhotoReady /\ StoreIdPhoto
      BY <3>2, IdPhotoFits
    <3>3. CASE PickupStep /\ \E charged \in DeliveryFees : StorePickup(charged)
      BY <3>3, PickupFits
    <3> QED
      BY <1>2, <3>1, <3>2, <3>3 DEF LoadMeanwhile
  <2>2. TypeOK' /\ PhotoFits' /\ CallsLagBehind' /\ DraftSaved' /\ PhotosStay' /\ QuoteStands'
    BY <1>2, <2>1, PageOpens DEF LoadMeanwhile
  <2> QED
    BY <1>2, <2>2 DEF LoadMeanwhile, IInv
<1>3. CASE LoadAfresh
  <2> USE <1>3, NumbersAssumption, FeesAssumption, BoundsAssumption
      DEF IInv, LoadAfresh, Fault, NoCall, None
  <2>0. card \in [number : Documents, photo : Documents]
    BY DEF TypeOK
  <2>1. TypeOK'
    <3>1. PICK type \in DeviceTypes : form' = Fresh(type)'
      BY DEF Fresh
    <3>2. form' \in Form
      BY <3>1 DEF Fresh, Form, Identity, TypeOK, Documents
    <3>3. known' \in [job : BOOLEAN, passcode : BOOLEAN,
                      card : [look : Looks, photo : BOOLEAN], idPhoto : BOOLEAN]
      BY <2>0, SummaryType
    <3>4. /\ total' \in [delivery : Total, consultation : Fees \cup {0}]
          /\ call'.op = "none" /\ call'.fees \in [delivery : Total, consultation : Fees \cup {0}]
      BY DEF NoFees, Total
    <3>5. step' \in 1 .. 5 /\ faults' \in 0 .. MaxFaults
      BY DEF TypeOK
    <3> QED
      BY <3>2, <3>3, <3>4, <3>5 DEF TypeOK
  <2>2. BeliefsHold'
    BY <2>0, SummaryType DEF BeliefsHold, PasscodeBelieved, CardBelieved, IdPhotoBelieved
  <2>3. PhotoFits' /\ CallsLagBehind' /\ DraftSaved' /\ PhotosStay' /\ QuoteStands'
    BY DEF PhotoFits, CallsLagBehind, DraftSaved, PhotosStay, QuoteStands, Settled
  <2> QED
    BY <2>1, <2>2, <2>3
<1> QED
  BY <1>1, <1>2, <1>3

\* A form stays one when a field is changed.
LEMMA FormEdited ==
    ASSUME NEW f \in Form
    PROVE  /\ \A type \in DeviceTypes : [f EXCEPT !.type = type] \in Form
           /\ [f EXCEPT !.powers_on = ~f.powers_on] \in Form
           /\ \A way \in Identity : [f EXCEPT !.identity = way] \in Form
           /\ [f EXCEPT !.onFile = FALSE] \in Form
           /\ \A n \in Numbers : [f EXCEPT !.number = n] \in Form
           /\ [f EXCEPT !.shared = ~f.shared] \in Form
           /\ [f EXCEPT !.code = TRUE] \in Form
<1>1. \A type \in DeviceTypes : [f EXCEPT !.type = type] \in Form
  BY DEF Form
<1>2. [f EXCEPT !.powers_on = ~f.powers_on] \in Form
  BY DEF Form
<1>3. \A way \in Identity : [f EXCEPT !.identity = way] \in Form
  BY DEF Form
<1>4. [f EXCEPT !.onFile = FALSE] \in Form
  BY DEF Form
<1>5. \A n \in Numbers : [f EXCEPT !.number = n] \in Form
  BY DEF Form, Documents
<1>6. [f EXCEPT !.shared = ~f.shared] \in Form
  BY DEF Form
<1>7. [f EXCEPT !.code = TRUE] \in Form
  BY DEF Form
<1> QED
  BY <1>1, <1>2, <1>3, <1>4, <1>5, <1>6, <1>7

\* Neither the fields nor the settings are part of what the page believes.
LEMMA EditKeeps ==
    ASSUME IInv,
           \/ \E type \in DeviceTypes, fee \in Fees : ChangeFee(type, fee)
           \/ EditDevice \/ EditIdentity
    PROVE  IInv'
<1> USE NumbersAssumption, FeesAssumption, BoundsAssumption
<1>1. /\ UNCHANGED <<draft, passcode, card, photoVars, step, known, total, call, overtaken>>
      /\ form' \in Form /\ feeOf' \in [DeviceTypes -> Fees]
      /\ edits' \in 0 .. MaxEdits /\ faults' \in 0 .. MaxFaults
  <2> USE DEF IInv, TypeOK
  <2>1. CASE \E type \in DeviceTypes, fee \in Fees : ChangeFee(type, fee)
    BY <2>1 DEF ChangeFee, Fault, pageVars
  <2>2. CASE EditDevice
    <3>1. \/ \E type \in DeviceTypes : form' = [form EXCEPT !.type = type]
          \/ form' = [form EXCEPT !.powers_on = ~form.powers_on]
      BY <2>2 DEF EditDevice, Edit, Fill
    <3>2. form' \in Form
      <4>1. form \in Form
        OBVIOUS
      <4> HIDE DEF IInv, TypeOK
      <4> QED
        BY <3>1, <4>1, FormEdited
    <3> QED
      BY <2>2, <3>2 DEF EditDevice, Edit, Fill, serverVars
  <2>3. CASE EditIdentity
    <3>1. \/ \E way \in Identity : form' = [form EXCEPT !.identity = way]
          \/ form' = [form EXCEPT !.onFile = FALSE]
          \/ \E n \in Numbers : form' = [form EXCEPT !.number = n]
          \/ form' = [form EXCEPT !.shared = ~form.shared]
          \/ form' = [form EXCEPT !.code = TRUE]
      BY <2>3 DEF EditIdentity, Edit, Fill, Identity
    <3>2. form' \in Form
      <4>1. form \in Form
        OBVIOUS
      <4> HIDE DEF IInv, TypeOK
      <4> QED
        BY <3>1, <4>1, FormEdited
    <3>3. /\ (edits < MaxEdits /\ edits' = edits + 1) \/ edits' = edits
          /\ UNCHANGED <<serverVars, photoVars, step, known, total, call, overtaken, faults>>
      BY <2>3 DEF EditIdentity, Edit, Fill
    <3> QED
      BY <3>2, <3>3 DEF serverVars
  <2> QED
    BY <2>1, <2>2, <2>3
<1> USE <1>1 DEF IInv, photoVars
<1>2. TypeOK'
  BY DEF TypeOK, Settled
<1>3. (~overtaken => BeliefsHold)'
  BY DEF BeliefsHold, PasscodeBelieved, CardBelieved, IdPhotoBelieved, Renewed, CardOnFile,
         KnownCard, KnownPasscode
<1>4. PhotoFits' /\ CallsLagBehind' /\ DraftSaved' /\ PhotosStay' /\ QuoteStands'
  BY DEF PhotoFits, CallsLagBehind, DraftSaved, PhotosStay, QuoteStands, QuotedFor, Settled
<1> QED
  BY <1>2, <1>3, <1>4

\* Steps that need no call: a reply may be out all the while.
LEMMA GotoKeeps ==
    ASSUME IInv, Back \/ NextFromDevice \/ NextFromPhotos
    PROVE  IInv'
<1>1. /\ UNCHANGED <<serverVars, photoVars, form, known, total, call, overtaken, edits, faults>>
      /\ step \in 1 .. 5 /\ step' \in 1 .. 4
      /\ step' <= step \/ step' = 2 \/ (step = 3 /\ step' = 4 /\ PhotosOk)
  BY DEF IInv, TypeOK, Back, NextFromDevice, NextFromPhotos, Goto
<1> USE <1>1 DEF IInv, photoVars, serverVars
<1>2. TypeOK'
  BY DEF TypeOK, Settled
<1>3. (~overtaken => BeliefsHold)'
  BY DEF BeliefsHold, PasscodeBelieved, CardBelieved, IdPhotoBelieved, Renewed, CardOnFile,
         KnownCard, KnownPasscode
<1>4. PhotoFits' /\ CallsLagBehind' /\ DraftSaved'
  BY DEF PhotoFits, CallsLagBehind, DraftSaved, Settled
<1>5. PhotosStay'
  BY DEF PhotosStay, PhotosOk, Required
<1>6. QuoteStands'
  BY DEF QuoteStands, QuotedFor
<1> QED
  BY <1>2, <1>3, <1>4, <1>5, <1>6

\* The server takes the details, and the page will believe what it stored.
LEMMA DetailsKeep == ASSUME IInv, SaveDetails \/ DetailsSaved PROVE IInv'
<1> USE NumbersAssumption, FeesAssumption, BoundsAssumption DEF IInv, photoVars, serverVars
<1>1. CASE SaveDetails
  <2> USE <1>1 DEF SaveDetails, Call
  <2>0. RowsFit'
    BY DetailsFit
  <2>1. TypeOK'
    BY <2>0 DEF TypeOK, NoFees, Total, SavedDraft, RowsFit
  <2>2. (~overtaken => BeliefsHold)'
    <3> SUFFICES ASSUME BeliefsHold PROVE BeliefsHold'
      OBVIOUS
    <3> USE DEF BeliefsHold, DetailsReady, StoreDetails, Settled, None
    <3>1. PasscodeBelieved' => passcode'
      BY DEF PasscodeBelieved, KnownPasscode, SavedPasscode
    <3>2. CASE Renewed(form)
      <4>1. /\ CardBelieved' = KnownCard(form)
            /\ IdPhotoBelieved' = KnownCard(form).photo
        BY <3>2 DEF CardBelieved, IdPhotoBelieved, Renewed, CardOnFile, KnownCard
      <4>2. card' = SavedCard(form) /\ form.identity = "id" /\ ~CardOnFile(form)
        BY <3>2 DEF Renewed
      <4>3. /\ known.card.look = Seen(card.number)
            /\ known.card.photo => card.photo # None
            /\ known.card.photo \in BOOLEAN
        BY DEF CardBelieved, TypeOK
      <4>4. card' = [number |-> form.number,
                     photo |-> IF Seen(card.number) = Seen(form.number) THEN card.photo ELSE None]
        BY <4>2 DEF SavedCard
      <4>5. /\ CardBelieved'.look = Seen(form.number)
            /\ CardBelieved'.photo <=> Seen(card.number) = Seen(form.number) /\ known.card.photo
            /\ IdPhotoBelieved' = CardBelieved'.photo
        BY <4>1, <4>3 DEF KnownCard
      <4>6. CardBelieved'.photo => card'.photo # None
        BY <4>3, <4>4, <4>5
      <4> QED
        BY <3>1, <4>4, <4>5, <4>6
    <3>3. CASE ~Renewed(form)
      <4>1. CardBelieved' = known.card /\ IdPhotoBelieved' = known.idPhoto
        BY <3>3 DEF CardBelieved, IdPhotoBelieved, Renewed, CardOnFile, KnownCard
      <4>2. card' = card
        BY <3>3 DEF SavedCard, Renewed, TypeOK, Form, Identity
      <4> QED
        BY <3>1, <4>1, <4>2 DEF CardBelieved, IdPhotoBelieved
    <3> QED
      BY <3>2, <3>3
  <2>3. PhotoFits' /\ CallsLagBehind' /\ DraftSaved' /\ PhotosStay' /\ QuoteStands'
    BY <2>0
    DEF RowsFit, DetailsReady, StoreDetails, CallsLagBehind, DraftSaved, PhotosStay, QuoteStands, TypeOK
  <2> QED
    BY <2>1, <2>2, <2>3
<1>2. CASE DetailsSaved
  <2> USE <1>2 DEF DetailsSaved, NoCall, Settled, None
  <2>1. /\ known' = [job |-> TRUE, passcode |-> PasscodeBelieved, card |-> CardBelieved,
                     idPhoto |-> IdPhotoBelieved]
        /\ form' \in Form
    BY DEF PasscodeBelieved, CardBelieved, IdPhotoBelieved, Renewed, TypeOK, Form
  <2>2. /\ PasscodeBelieved \in BOOLEAN /\ IdPhotoBelieved \in BOOLEAN
        /\ CardBelieved \in [look : Looks, photo : BOOLEAN]
    <3>1. call.form \in Form /\ known.card.photo \in BOOLEAN
      BY DEF TypeOK
    <3>2. Seen(call.form.number) \in Looks
      BY <3>1 DEF Form, Looks
    <3> QED
      BY <3>1, <3>2
      DEF PasscodeBelieved, CardBelieved, IdPhotoBelieved, KnownCard, KnownPasscode, TypeOK, Form
  <2>3. TypeOK'
    BY <2>1, <2>2 DEF TypeOK, NoFees, Total
  <2>4. (~overtaken => BeliefsHold)'
    BY <2>1, <2>2 DEF BeliefsHold, PasscodeBelieved, CardBelieved, IdPhotoBelieved
  <2>5. PhotoFits' /\ CallsLagBehind' /\ DraftSaved' /\ PhotosStay' /\ QuoteStands'
    BY DEF PhotoFits, CallsLagBehind, DraftSaved, PhotosStay, QuoteStands, TypeOK
  <2> QED
    BY <2>3, <2>4, <2>5
<1> QED
  BY <1>1, <1>2

\* Photos only come.
LEMMA PhotosKeep ==
    ASSUME IInv, \E k \in Kind : TakePhoto(k) \/ PhotoRecorded(k) \/ PhotoSettled(k)
    PROVE  IInv'
<1>1. /\ UNCHANGED <<serverVars, pageVars, overtaken, edits, faults>>
      /\ recorded \subseteq recorded' /\ shown' \subseteq recorded'
      /\ recorded' \in SUBSET Kind /\ queued' \in SUBSET Kind /\ shown' \in SUBSET Kind
  BY DEF IInv, TypeOK, PhotosStay, TakePhoto, PhotoRecorded, PhotoSettled
<1> USE <1>1 DEF IInv, serverVars, pageVars
<1>2. TypeOK'
  BY DEF TypeOK, Settled
<1>3. (~overtaken => BeliefsHold)'
  BY DEF BeliefsHold, PasscodeBelieved, CardBelieved, IdPhotoBelieved, Renewed, CardOnFile,
         KnownCard, KnownPasscode
<1>4. PhotoFits' /\ CallsLagBehind' /\ DraftSaved' /\ PhotosStay' /\ QuoteStands'
  BY DEF PhotoFits, CallsLagBehind, DraftSaved, PhotosStay, QuoteStands, QuotedFor, Settled
<1> QED
  BY <1>2, <1>3, <1>4

\* The photo of an ID is on the row before the page hears of it.
LEMMA IdPhotoKeeps == ASSUME IInv, UploadIdPhoto \/ IdPhotoUploaded PROVE IInv'
<1> USE NumbersAssumption DEF IInv, photoVars, serverVars, NoCall, Settled, None
<1>1. CASE UploadIdPhoto
  <2> USE <1>1 DEF UploadIdPhoto, Call
  <2>0. RowsFit' /\ card'.photo # None /\ card'.number = card.number
        /\ step = 3 /\ draft' = draft /\ passcode' = passcode /\ call.op = None
    <3>1. RowsFit'
      BY IdPhotoFits
    <3> QED
      BY <3>1 DEF IdPhotoReady, StoreIdPhoto, TypeOK
  <2>1. TypeOK'
    BY <2>0 DEF TypeOK, RowsFit, NoFees, Total
  <2>2. (~overtaken => BeliefsHold)'
    BY <2>0 DEF BeliefsHold, PasscodeBelieved, CardBelieved, IdPhotoBelieved, TypeOK
  <2>3. PhotoFits' /\ CallsLagBehind' /\ DraftSaved' /\ PhotosStay' /\ QuoteStands'
    BY <2>0 DEF RowsFit, CallsLagBehind, DraftSaved, PhotosStay, QuoteStands, TypeOK
  <2> QED
    BY <2>1, <2>2, <2>3
<1>2. CASE IdPhotoUploaded
  <2> USE <1>2 DEF IdPhotoUploaded
  <2>1. TypeOK'
    BY FeesAssumption DEF TypeOK, NoFees, Total
  <2>2. (~overtaken => BeliefsHold)'
    BY DEF BeliefsHold, PasscodeBelieved, CardBelieved, IdPhotoBelieved, TypeOK
  <2>3. PhotoFits' /\ CallsLagBehind' /\ DraftSaved' /\ PhotosStay' /\ QuoteStands'
    BY DEF PhotoFits, CallsLagBehind, DraftSaved, PhotosStay, QuoteStands, QuotedFor, TypeOK
  <2> QED
    BY <2>1, <2>2, <2>3
<1> QED
  BY <1>1, <1>2

\* The quote of the pickup is in the draft before it is shown, and what is
\* submitted is what was shown.
LEMMA PickupKeeps == ASSUME IInv, SavePickup \/ PickupSaved \/ Submit PROVE IInv'
<1> USE FeesAssumption DEF IInv, photoVars, serverVars, pageVars
<1>1. CASE SavePickup
  <2>s. step = 4 /\ call.op = "none" /\ PickupStep
    BY <1>1 DEF SavePickup, PickupStep, Settled, None
  <2>u. UNCHANGED <<feeOf, photoVars, form, step, known, total, overtaken, edits, faults>>
    BY <1>1 DEF SavePickup
  <2> USE <2>s, <2>u DEF Settled, None
  <2>1. PICK charged \in DeliveryFees :
          /\ StorePickup(charged)
          /\ call' = [op |-> "pickup", form |-> "none",
                      fees |-> [delivery |-> charged, consultation |-> draft.consultation]]
    BY <1>1 DEF SavePickup, Call
  <2>2. RowsFit' /\ draft.consultation \in Fees /\ draft \in SavedDraft
    BY <2>1, PickupFits, DraftIsSaved
  <2>3. TypeOK'
    <3>1. call'.fees \in [delivery : Total, consultation : Fees \cup {0}]
      BY <2>1, <2>2 DEF Total
    <3> QED
      BY <2>1, <2>2, <3>1 DEF TypeOK, SavedDraft, RowsFit
  <2>4. (~overtaken => BeliefsHold)'
    BY <2>1 DEF BeliefsHold, PasscodeBelieved, CardBelieved, IdPhotoBelieved, StorePickup
  <2>5. PhotoFits' /\ CallsLagBehind' /\ DraftSaved' /\ PhotosStay'
    BY <2>1, <2>2 DEF RowsFit, CallsLagBehind, DraftSaved, PhotosStay, SavedDraft
  <2>6. QuoteStands'
    BY <2>1, <2>2 DEF QuoteStands, QuotedFor, SavedDraft, StorePickup
  <2> QED
    BY <2>3, <2>4, <2>5, <2>6
<1>2. CASE PickupSaved
  <2> USE <1>2 DEF PickupSaved, NoCall, Settled, None
  <2>1. TypeOK'
    BY DEF TypeOK, NoFees, Total
  <2>2. (~overtaken => BeliefsHold)'
    BY DEF BeliefsHold, PasscodeBelieved, CardBelieved, IdPhotoBelieved
  <2>3. PhotoFits' /\ CallsLagBehind' /\ DraftSaved' /\ PhotosStay'
    BY DEF PhotoFits, CallsLagBehind, DraftSaved, PhotosStay
  <2>4. QuoteStands'
    BY DEF QuoteStands, QuotedFor
  <2> QED
    BY <2>1, <2>2, <2>3, <2>4
<1>3. CASE Submit
  <2> USE <1>3 DEF Submit, ReviewStep
  <2>1. draft \in SavedDraft
    BY DraftIsSaved
  <2>2. TypeOK'
    BY <2>1 DEF TypeOK, Settled, SavedDraft
  <2>3. (~overtaken => BeliefsHold)'
    BY DEF BeliefsHold, PasscodeBelieved, CardBelieved, IdPhotoBelieved, Settled, None
  <2>4. PhotoFits' /\ CallsLagBehind' /\ DraftSaved' /\ PhotosStay'
    BY <2>1 DEF PhotoFits, CallsLagBehind, DraftSaved, PhotosStay, SavedDraft
  <2>5. QuoteStands'
    BY <2>1 DEF QuoteStands, QuotedFor, Settled, None, SavedDraft
  <2> QED
    BY <2>2, <2>3, <2>4, <2>5
<1> QED
  BY <1>1, <1>2, <1>3

\* What the page will believe is so, whatever it does in whatever order.
LEMMA InvHolds == Spec => []IInv
<1>1. IInv /\ [Next]_vars => IInv'
  <2> SUFFICES ASSUME IInv, [Next]_vars PROVE IInv'
    OBVIOUS
  <2>1. CASE Next
    BY <2>1, LoadKeeps, EditKeeps, GotoKeeps, DetailsKeep, PhotosKeep, IdPhotoKeeps, PickupKeeps
    DEF Next
  <2>2. CASE UNCHANGED vars
    <3> USE <2>2 DEF IInv, vars, serverVars, photoVars, pageVars
    <3>1. TypeOK'
      BY DEF TypeOK, Settled
    <3>2. (~overtaken => BeliefsHold)'
      BY DEF BeliefsHold, PasscodeBelieved, CardBelieved, IdPhotoBelieved, Renewed, CardOnFile,
             KnownCard, KnownPasscode
    <3>3. PhotoFits' /\ CallsLagBehind' /\ DraftSaved' /\ PhotosStay' /\ QuoteStands'
      BY DEF PhotoFits, CallsLagBehind, DraftSaved, PhotosStay, QuoteStands, QuotedFor, Settled
    <3> QED
      BY <3>1, <3>2, <3>3
  <2> QED
    BY <2>1, <2>2
<1> QED
  BY InitInv, <1>1, PTL DEF Spec

(***************************************************************************)
(* The properties                                                          *)
(***************************************************************************)
\* The state of the wizard is of its type, for every shop.
THEOREM TypeCorrect == Spec => []TypeOK
BY InvHolds, PTL DEF IInv

\* Whatever the page lets through at its second step the server takes.
THEOREM StepTwoSuffices == Spec => []StepTwoIsEnough
<1>1. IInv => StepTwoIsEnough
  BY DEF IInv, BeliefsHold, StepTwoIsEnough, Settled, None, PasscodeBelieved, CardBelieved,
         PasscodeMissing, DetailsAccepted, CardOnFile, Seen
<1> QED
  BY InvHolds, <1>1, PTL

\* When the page is content with the ID photo, the row has one and it looks
\* like the ID on file: the customer may have typed any numbers in between.
THEOREM IdPhotoOnFile == Spec => []IdPhotoIsOnFile
<1>1. IInv => IdPhotoIsOnFile
  BY DEF IInv, TypeOK, BeliefsHold, PhotoFits, CallsLagBehind, IdPhotoIsOnFile, IdPhotoBelieved
<1> QED
  BY InvHolds, <1>1, PTL

\* The fees on the button are those of the draft, whatever an admin changes.
THEOREM ReviewShowsFee == Spec => []ReviewShowsTheFee
<1>1. IInv => ReviewShowsTheFee
  BY DEF IInv, QuoteStands, QuotedFor, ReviewShowsTheFee
<1> QED
  BY InvHolds, <1>1, PTL

\* A set of photos with a front and a back has two.
LEMMA FrontAndBack ==
    ASSUME NEW S \in SUBSET Kind, {"front", "back"} \subseteq S
    PROVE  Cardinality(S) >= 2
<1>1. IsFiniteSet(Kind)
  <2>1. IsFiniteSet({"front"})
    BY FS_Singleton
  <2>2. IsFiniteSet({"front"} \cup {"back"})
    BY <2>1, FS_AddElement
  <2>3. IsFiniteSet(({"front"} \cup {"back"}) \cup {"screen_on"})
    BY <2>2, FS_AddElement
  <2> QED
    BY <2>3, ({"front"} \cup {"back"}) \cup {"screen_on"} = Kind DEF Kind
<1>2. IsFiniteSet(S)
  BY <1>1, FS_Subset
<1>3. Cardinality({"front", "back"}) = 2
  <2>1. IsFiniteSet({"front"}) /\ Cardinality({"front"}) = 1
    BY FS_Singleton
  <2>2. Cardinality({"front"} \cup {"back"}) = 2
    BY <2>1, FS_AddElement
  <2> QED
    BY <2>2, {"front"} \cup {"back"} = {"front", "back"}
<1> QED
  BY <1>2, <1>3, FS_Subset, FS_CardinalityType

\* A device booked as far as the review is accepted: nothing the server asks
\* for can have been lost on the way there.
THEOREM ReviewedAccepted == Spec => []ReviewedIsAccepted
<1>1. IInv => ReviewedIsAccepted
  <2> SUFFICES ASSUME IInv, step = 5, draft.identity = "device" PROVE BookingComplete
    BY DEF ReviewedIsAccepted
  <2>1. Cardinality(recorded) >= 2
    BY FrontAndBack DEF IInv, TypeOK, PhotosStay
  <2>2. draft.pickup /\ draft.fee > 0
    <3>1. total.delivery \in Nat /\ total.consultation \in Nat
      <4>1. total \in [delivery : Total, consultation : Fees \cup {0}]
        BY DEF IInv, TypeOK
      <4>2. total.delivery \in DeliveryFees \cup {0} /\ total.consultation \in Fees \cup {0}
        BY <4>1 DEF Total
      <4>3. total.delivery \in Nat
        <5>1. CASE total.delivery \in DeliveryFees
          BY <5>1, FeesAssumption
        <5>2. CASE total.delivery = 0
          BY <5>2
        <5> QED
          BY <4>2, <5>1, <5>2
      <4>4. total.consultation \in Nat
        <5>1. CASE total.consultation \in Fees
          BY <5>1, FeesAssumption
        <5>2. CASE total.consultation = 0
          BY <5>2
        <5> QED
          BY <4>2, <5>1, <5>2
      <4> QED
        BY <4>3, <4>4
    <3> QED
      BY <3>1 DEF IInv, QuoteStands, QuotedFor
  <2> QED
    BY <2>1, <2>2 DEF BookingComplete
<1> QED
  BY InvHolds, <1>1, PTL

=============================================================================
