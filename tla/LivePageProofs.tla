--------------------------- MODULE LivePageProofs ---------------------------
(***************************************************************************)
(* Proofs about LivePage for any number of changes and lost connections.   *)
(***************************************************************************)
EXTENDS LivePage, TLAPS

(***************************************************************************)
(* The inductive invariant                                                 *)
(***************************************************************************)
\* A change the page will learn of, or one that passed it by.
OnItsWay == missed \/ events > 0 \/ due

\* What a running fetch has read is the job as it is, or the change since then
\* is on its way too: this is what makes StaleIsOnItsWay inductive, since the
\* answer of the fetch becomes the page.
ComingIsCovered == coming # NoPage /\ coming # Job => OnItsWay

IInv == TypeOK /\ StaleIsOnItsWay /\ ComingIsCovered

(***************************************************************************)
(* Its preservation                                                        *)
(***************************************************************************)
\* The initial state satisfies the invariant.
LEMMA InitInv == Init => IInv
  <1> SUFFICES ASSUME Init PROVE IInv
    OBVIOUS
  <1>1. page = Job /\ coming = NoPage
    BY DEF Init
  <1>2. page \in Page /\ coming \in Page
    BY <1>1 DEF Init, Job, NoPage, Page, Phase
  <1>3. TypeOK
    <2>1. listening \in BOOLEAN /\ poll \in BOOLEAN /\ due \in BOOLEAN /\ missed \in BOOLEAN
      BY DEF Init
    <2>2. QED
      BY <1>2, <2>1 DEF Init, TypeOK, Phase
  <1>4. QED
    BY <1>1, <1>3 DEF IInv, StaleIsOnItsWay, Stale, ComingIsCovered

\* The job can be shown.
LEMMA JobIsPage == TypeOK => Job \in Page /\ NoPage \in Page /\ Job # NoPage
  BY DEF TypeOK, Job, NoPage, Page, Phase

\* A step keeps the types of what LivePage records.
LEMMA TypeKept == TypeOK /\ Next => TypeOK'
  <1> SUFFICES ASSUME TypeOK, Next PROVE TypeOK'
    OBVIOUS
  <1> USE DEF TypeOK
  <1>1. /\ coming' \in Page /\ page' \in Page
    <2>1. coming' \in {coming, NoPage, Job} /\ page' \in {page, coming, Job}
      BY DEF Next, ShopWrites, AcceptQuote, SendPayment, PaymentAnswered, StreamOpens, StreamFails,
         ListenLost, ListenBack, EventArrives, PollTick, TabVisible, Fetch, Shown, Reload, PanelPoll,
         Change, jobVars, streamVars, pageVars
    <2>2. QED
      BY <2>1, JobIsPage
  <1>2. now' \in Nat \ {0} /\ phase' \in Phase /\ accepted' \in Nat
        /\ payment' \in {"none", "pending", "success", "failed"}
    BY DEF Next, ShopWrites, AcceptQuote, SendPayment, PaymentAnswered, StreamOpens, StreamFails,
       ListenLost, ListenBack, EventArrives, PollTick, TabVisible, Fetch, Shown, Reload, PanelPoll,
       Change, jobVars, Phase
  <1>3. /\ stream' \in {"connecting", "open", "closed"}
        /\ events' \in Nat /\ drops' \in Nat
        /\ panel' \in {"form", "waiting", "paid", "failed"}
    BY DEF Next, ShopWrites, AcceptQuote, SendPayment, PaymentAnswered, StreamOpens, StreamFails,
       ListenLost, ListenBack, EventArrives, PollTick, TabVisible, Fetch, Shown, Reload, PanelPoll,
       Change, jobVars, streamVars, pageVars
  <1>4. listening' \in BOOLEAN /\ poll' \in BOOLEAN
    BY DEF Next, ShopWrites, AcceptQuote, SendPayment, PaymentAnswered, StreamOpens, StreamFails,
       ListenLost, ListenBack, EventArrives, PollTick, TabVisible, Fetch, Shown, Reload, PanelPoll,
       Change, jobVars, streamVars, pageVars
  <1>5. due' \in BOOLEAN /\ missed' \in BOOLEAN
    BY DEF Next, ShopWrites, AcceptQuote, SendPayment, PaymentAnswered, StreamOpens, StreamFails,
       ListenLost, ListenBack, EventArrives, PollTick, TabVisible, Fetch, Shown, Reload, PanelPoll,
       Change, jobVars, streamVars, pageVars
  <1>6. QED
    BY <1>1, <1>2, <1>3, <1>4, <1>5

\* Every change is heard or missed: either way something is left to tell.
LEMMA ChangeIsOnItsWay ==
    ASSUME TypeOK, NEW notified \in BOOLEAN, Change(notified)
    PROVE  OnItsWay'
  <1>1. CASE notified /\ Heard
    BY <1>1 DEF TypeOK, Change, OnItsWay
  <1>2. CASE ~(notified /\ Heard)
    BY <1>2 DEF Change, OnItsWay
  <1>3. QED
    BY <1>1, <1>2

\* A step that leaves the job alone and runs no refresh keeps what is on its
\* way, and the page.
LEMMA QuietStep ==
    ASSUME TypeOK, \/ SendPayment \/ StreamOpens \/ StreamFails("connecting") \/ StreamFails("closed")
                   \/ ListenLost \/ ListenBack \/ EventArrives \/ PollTick \/ TabVisible \/ PanelPoll
    PROVE  /\ now' = now /\ phase' = phase /\ page' = page /\ coming' = coming
           /\ OnItsWay => OnItsWay'
  <1>1. /\ now' = now /\ phase' = phase /\ page' = page /\ coming' = coming
    BY DEF SendPayment, StreamOpens, StreamFails, ListenLost, ListenBack, EventArrives, PollTick,
       TabVisible, PanelPoll, jobVars, streamVars, pageVars
  <1>2. OnItsWay => OnItsWay'
    <2>1. CASE StreamFails("connecting") \/ StreamFails("closed")
      BY <2>1 DEF StreamFails, OnItsWay
    <2>2. CASE EventArrives \/ PollTick \/ TabVisible \/ PanelPoll
      BY <2>2 DEF EventArrives, PollTick, TabVisible, PanelPoll, OnItsWay, streamVars
    <2>3. CASE SendPayment \/ StreamOpens \/ ListenLost \/ ListenBack
      BY <2>3 DEF SendPayment, StreamOpens, ListenLost, ListenBack, OnItsWay, streamVars, pageVars
    <2>4. QED
      BY <2>1, <2>2, <2>3
  <1>3. QED
    BY <1>1, <1>2

\* The invariant holds initially and every step keeps it.
THEOREM Invariant == Spec => []IInv
  <1>1. Init => IInv
    BY InitInv
  <1>2. IInv /\ [Next]_vars => IInv'
    <2> SUFFICES ASSUME IInv, [Next]_vars PROVE IInv'
      OBVIOUS
    <2>1. CASE \/ \E notified \in BOOLEAN : ShopWrites(notified)
               \/ AcceptQuote
               \/ \E result \in {"success", "failed"} : now < MaxChanges /\ PaymentAnswered(result)
      <3>0. PICK notified \in BOOLEAN : Change(notified)
        BY <2>1 DEF ShopWrites, AcceptQuote, PaymentAnswered
      <3>1. Change(notified) /\ OnItsWay'
        BY <3>0, ChangeIsOnItsWay DEF IInv
      <3>2. TypeOK'
        BY <2>1, TypeKept DEF Next, IInv
      <3>3. QED
        BY <3>1, <3>2 DEF IInv, StaleIsOnItsWay, ComingIsCovered, OnItsWay
    <2>2. CASE \/ SendPayment \/ StreamOpens \/ \E to \in {"connecting", "closed"} : StreamFails(to)
               \/ ListenLost \/ ListenBack \/ EventArrives \/ PollTick \/ TabVisible \/ PanelPoll
      <3>1. /\ now' = now /\ phase' = phase /\ page' = page /\ coming' = coming
            /\ OnItsWay => OnItsWay'
        BY <2>2, QuietStep DEF IInv
      <3>2. Job' = Job
        BY <3>1 DEF Job
      <3>3. TypeOK'
        BY <2>2, TypeKept DEF Next, IInv
      <3>4. QED
        BY <3>1, <3>2, <3>3 DEF IInv, StaleIsOnItsWay, Stale, ComingIsCovered, OnItsWay
    <2>3. CASE Fetch
      <3>1. coming' = Job' /\ Job' = Job
        BY <2>3 DEF Fetch, jobVars, Job
      <3>2. TypeOK'
        BY <2>3, TypeKept DEF Next, IInv
      <3>3. QED
        BY <3>1, <3>2 DEF IInv, StaleIsOnItsWay, ComingIsCovered
    <2>4. CASE Shown
      <3>1. page' = coming /\ coming' = NoPage /\ coming # NoPage /\ Job' = Job
            /\ (OnItsWay => OnItsWay')
        BY <2>4 DEF Shown, jobVars, streamVars, Job, OnItsWay
      <3>2. TypeOK'
        BY <2>4, TypeKept DEF Next, IInv
      <3>3. QED
        BY <3>1, <3>2 DEF IInv, StaleIsOnItsWay, Stale, ComingIsCovered, OnItsWay
    <2>5. CASE Reload
      <3>1. page' = Job' /\ coming' = NoPage
        BY <2>5 DEF Reload, jobVars, Job
      <3>2. TypeOK'
        BY <2>5, TypeKept DEF Next, IInv
      <3>3. QED
        BY <3>1, <3>2 DEF IInv, StaleIsOnItsWay, Stale, ComingIsCovered
    <2>6. CASE UNCHANGED vars
      BY <2>6 DEF vars, jobVars, streamVars, pageVars, IInv, TypeOK, StaleIsOnItsWay, Stale, Job,
         ComingIsCovered, OnItsWay
    <2>7. QED
      BY <2>1, <2>2, <2>3, <2>4, <2>5, <2>6 DEF Next
  <1>3. QED
    BY <1>1, <1>2, PTL DEF Spec

(***************************************************************************)
(* The properties                                                          *)
(***************************************************************************)
\* Page, panel and stream keep their shape.
THEOREM TypeCorrect == Spec => []TypeOK
  BY Invariant, PTL DEF IInv

\* A page that is behind has a change, a refresh or a fetch of the job as it is
\* on its way, unless one passed it by while nobody listened
\* (live-refresh.tsx:17-50, realtime.ts:12-34).
THEOREM StaleHasNews == Spec => []StaleIsOnItsWay
  BY Invariant, PTL DEF IInv
=============================================================================
