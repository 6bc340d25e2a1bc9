------------------------- MODULE UploadQueueProofs -------------------------
(***************************************************************************)
(* Proofs about UploadQueue for any number of photos, tabs and tries.      *)
(***************************************************************************)
EXTENDS UploadQueue, TLAPS

(***************************************************************************)
(* The inductive invariant                                                 *)
(***************************************************************************)
\* A request that its tab waits for is the one of the photo the tab has sent,
\* and the only one.
AwaitedBySender ==
    \A r \in requests :
        r.from \in Tabs => drain[r.from].at = "sent" /\ drain[r.from].photo = r.photo

OneAwaited ==
    \A r, other \in requests : r.from \in Tabs /\ r.from = other.from => r = other

\* A tab works on one of the photos, except when it is about to look for one.
AtAPhoto == \A t \in Tabs : drain[t].at \in {"mark", "sent"} => drain[t].photo \in Photos

\* A row is written only after its object.
StoredFirst == \A r \in requests : r.at = "record" => r.photo \in stored

IInv ==
    /\ TypeOK
    /\ AwaitedBySender /\ OneAwaited /\ AtAPhoto /\ StoredFirst
    /\ OneRowEach /\ RowsHaveObjects /\ DoneIsRecorded

(***************************************************************************)
(* Its preservation                                                        *)
(***************************************************************************)
\* The initial state satisfies the invariant.
LEMMA InitInv == Init => IInv
  <1> SUFFICES ASSUME Init PROVE IInv
    OBVIOUS
  <1>1. TypeOK
    BY BoundsAssumption DEF Init, TypeOK, Item, Status, Drain, Idle, Request
  <1>2. QED
    BY <1>1 DEF Init, IInv, AwaitedBySender, OneAwaited, AtAPhoto, StoredFirst, OneRowEach,
       RowsHaveObjects, DoneIsRecorded, Idle, Queued

\* Counting tries stays within their bound.
LEMMA TriedInRange == ASSUME NEW n \in 0 .. GiveUp PROVE Tried(n) \in 0 .. GiveUp
  BY BoundsAssumption DEF Tried

\* What the customer does with a slot touches the items, and wakes a tab.
LEMMA CustomerKeeps == ASSUME IInv, Customer PROVE IInv'
  <1>1. PICK t \in Tabs :
            LookAt(t) \/ LoadTab(t) \/ \E p \in Photos : Enqueue(t, p) \/ Retry(t, p) \/ Remove(t, p)
    BY DEF Customer
  <1>2. awake' \in SUBSET Tabs
    BY <1>1 DEF LookAt, LoadTab, Enqueue, Retry, Remove, Wake, signals, IInv, TypeOK
  <1>3. UNCHANGED <<online, serverVars, history, faults>>
    BY <1>1 DEF LookAt, LoadTab, Enqueue, Retry, Remove, signals
  <1>4. CASE LookAt(t)
    BY <1>2, <1>3, <1>4 DEF LookAt, IInv, TypeOK, AwaitedBySender, OneAwaited, AtAPhoto, StoredFirst,
       OneRowEach, RowsHaveObjects, DoneIsRecorded, serverVars, history
  <1>5. CASE LoadTab(t)
    <2>1. drain[t] = Closed /\ drain' = [drain EXCEPT ![t] = Idle] /\ UNCHANGED item
      BY <1>5 DEF LoadTab
    <2>2. Idle \in Drain
      BY BoundsAssumption DEF Idle, Drain
    <2>3. TypeOK'
      BY <1>2, <1>3, <2>1, <2>2 DEF IInv, TypeOK, serverVars, history
    <2>4. AwaitedBySender' /\ AtAPhoto'
      BY <1>3, <2>1 DEF IInv, TypeOK, AwaitedBySender, AtAPhoto, serverVars, Closed, Idle
    <2>5. QED
      BY <1>3, <2>1, <2>3, <2>4 DEF IInv, OneAwaited, StoredFirst, OneRowEach, RowsHaveObjects,
         DoneIsRecorded, serverVars
  <1>6. CASE \E p \in Photos : Enqueue(t, p) \/ Retry(t, p) \/ Remove(t, p)
    <2>1. PICK p \in Photos : Enqueue(t, p) \/ Retry(t, p) \/ Remove(t, p)
      BY <1>6
    <2>2. PICK s \in {"queued", "removed"}, n \in 0 .. GiveUp : Write(p, s, n)
      <3>1. item[p].tries \in 0 .. GiveUp /\ 0 \in 0 .. GiveUp
        BY BoundsAssumption DEF IInv, TypeOK, Item
      <3>2. QED
        BY <2>1, <3>1 DEF Enqueue, Retry, Remove
    <2>3. UNCHANGED drain
      BY <2>1 DEF Enqueue, Retry, Remove
    <2>4. TypeOK'
      BY <1>2, <1>3, <2>2, <2>3 DEF IInv, TypeOK, Write, Item, Status, serverVars, history
    <2>5. DoneIsRecorded'
      BY <1>3, <2>2 DEF IInv, TypeOK, Write, Item, DoneIsRecorded, serverVars
    <2>6. QED
      BY <1>3, <2>3, <2>4, <2>5 DEF IInv, AwaitedBySender, OneAwaited, AtAPhoto, StoredFirst,
         OneRowEach, RowsHaveObjects, serverVars
  <1>7. QED
    BY <1>1, <1>4, <1>5, <1>6

\* A tab that looks for a photo, marks and sends it, or rests.
LEMMA DrainingKeeps == ASSUME IInv, Draining PROVE IInv'
  <1> USE DEF IInv
  <1>1. PICK t \in Tabs : Start(t) \/ Pick(t) \/ Send(t) \/ Rested(t)
    BY DEF Draining, GoesOn
  <1>2. drain[t] \in Drain /\ Idle \in Drain
    BY BoundsAssumption DEF TypeOK, Drain, Idle
  <1>3. CASE Send(t)
    <2> DEFINE p == drain[t].photo
               sent == [photo |-> p, from |-> t, at |-> "check"]
    <2>1. p \in Photos /\ drain[t].tries \in 0 .. GiveUp /\ drain[t].at = "mark"
      BY <1>2, <1>3 DEF Send, AtAPhoto, Drain
    <2>2. /\ item' = [item EXCEPT ![p] = [status |-> "uploading", tries |-> drain[t].tries]]
          /\ drain' = [drain EXCEPT ![t] = [at |-> "sent", photo |-> p, tries |-> drain[t].tries]]
          /\ requests' = requests \cup {sent}
          /\ UNCHANGED <<online, awake, stored, rows, dropped, left, faults>>
      BY <1>3 DEF Send, Write, Goto, signals, history
    <2>3. TypeOK'
      <3>1. sent \in Request
        BY <2>1 DEF Request
      <3>2. [status |-> "uploading", tries |-> drain[t].tries] \in Item
        BY <2>1 DEF Item, Status
      <3>3. [at |-> "sent", photo |-> p, tries |-> drain[t].tries] \in Drain
        BY <2>1 DEF Drain
      <3>4. QED
        BY <2>2, <3>1, <3>2, <3>3 DEF TypeOK
    <2>4. \A r \in requests : r.from # t
      BY <2>1 DEF AwaitedBySender
    <2>5. AwaitedBySender' /\ OneAwaited'
      BY <2>2, <2>4 DEF AwaitedBySender, OneAwaited, TypeOK, Request
    <2>6. AtAPhoto' /\ StoredFirst' /\ OneRowEach' /\ RowsHaveObjects'
      BY <2>1, <2>2 DEF AtAPhoto, StoredFirst, OneRowEach, RowsHaveObjects, TypeOK
    <2>7. DoneIsRecorded'
      BY <2>1, <2>2 DEF DoneIsRecorded, TypeOK, Item
    <2>8. QED
      BY <2>3, <2>5, <2>6, <2>7
  <1>4. CASE Start(t) \/ Pick(t) \/ Rested(t)
    <2>1. drain[t].at \in {"idle", "pick", "rest"} \/ drain' = drain
      BY <1>4 DEF Start, Pick, Rested, Idle
    <2>2. ASSUME drain' # drain
          PROVE  drain' \in [Tabs -> Drain] /\ AwaitedBySender' /\ AtAPhoto'
      <3>1. PICK d \in Drain : /\ drain' = [drain EXCEPT ![t] = d]
                               /\ d.at \in {"idle", "pick", "mark"}
                               /\ d.at = "mark" => d.photo \in Photos
        <4>1. CASE Start(t)
          <5>1. [at |-> "pick", photo |-> 0, tries |-> 0] \in Drain
            BY BoundsAssumption DEF Drain
          <5>2. QED
            BY <2>2, <4>1, <5>1 DEF Start, Goto
        <4>2. CASE Pick(t)
          <5>1. \A p \in Photos : item[p].tries \in 0 .. GiveUp
            BY DEF TypeOK, Item
          <5>2. QED
            BY <4>2, <1>2, <5>1 DEF Pick, Goto, Drain, Idle
        <4>3. CASE Rested(t)
          BY <4>3, <1>2, BoundsAssumption DEF Rested, Goto, Drain, Idle
        <4>4. QED
          BY <1>4, <4>1, <4>2, <4>3
      <3>2. \A r \in requests : r.from # t
        BY <2>1, <2>2 DEF AwaitedBySender
      <3>3. drain' \in [Tabs -> Drain]
        BY <3>1 DEF TypeOK
      <3>4. AwaitedBySender'
        BY <1>4, <3>1, <3>2 DEF AwaitedBySender, TypeOK, Start, Pick, Rested, serverVars
      <3>5. AtAPhoto'
        BY <3>1 DEF AtAPhoto, TypeOK
      <3>6. QED
        BY <3>3, <3>4, <3>5
    <2>3. drain' \in [Tabs -> Drain] /\ AwaitedBySender' /\ AtAPhoto'
      <3>1. CASE drain' = drain
        BY <1>4, <3>1 DEF TypeOK, AwaitedBySender, AtAPhoto, Start, Pick, Rested, serverVars
      <3>2. QED
        BY <2>2, <3>1
    <2>4. /\ UNCHANGED <<item, online, serverVars, dropped, faults>>
          /\ awake' \in SUBSET Tabs /\ left' \in SUBSET Photos
      BY <1>4 DEF Start, Pick, Rested, TypeOK, signals, history
    <2>5. TypeOK'
      BY <2>3, <2>4 DEF TypeOK, serverVars
    <2>6. QED
      BY <2>3, <2>4, <2>5 DEF OneAwaited, StoredFirst, OneRowEach, RowsHaveObjects,
         DoneIsRecorded, serverVars
  <1>5. QED
    BY <1>1, <1>3, <1>4

\* A request that leaves the server tells its tab, if that still waits: the
\* photo is done only if it is recorded by then.
LEMMA AnswerKeeps ==
    ASSUME IInv, NEW r \in requests, NEW status \in {"done", "failed", "queued"},
           NEW d \in Drain, NEW n \in 0 .. GiveUp,
           requests' = requests \ {r},
           IF r.from = Gone THEN UNCHANGED <<item, drain>>
           ELSE /\ item' = [item EXCEPT ![drain[r.from].photo] = [status |-> status, tries |-> n]]
                /\ drain' = [drain EXCEPT ![r.from] = d],
           d.at \in {"pick", "rest"},
           status = "done" => rows'[r.photo] > 0,
           rows' \in [Photos -> 0 .. 1], \A p \in Photos : rows'[p] >= rows[p],
           \A p \in Photos : rows'[p] > 0 => p \in stored,
           UNCHANGED <<signals, stored, history>>, faults' \in 0 .. MaxFaults
    PROVE  IInv'
  <1> USE DEF IInv
  <1>1. r \in Request /\ (r.from # Gone => r.from \in Tabs /\ drain[r.from].photo = r.photo)
    BY DEF TypeOK, AwaitedBySender, Request
  <1>2. TypeOK'
    <2>1. requests' \in SUBSET Request /\ rows' \in [Photos -> Nat]
      BY DEF TypeOK
    <2>2. item' \in [Photos -> Item]
      BY <1>1 DEF TypeOK, Item, Status, Request
    <2>3. drain' \in [Tabs -> Drain]
      BY <1>1 DEF TypeOK
    <2>4. QED
      BY <2>1, <2>2, <2>3 DEF TypeOK, signals, history
  <1>3. AwaitedBySender' /\ OneAwaited'
    <2>1. \A other \in requests' : other \in requests /\ other # r /\ other \in Request
      BY DEF TypeOK
    <2>2. \A other \in requests' : r.from \in Tabs => other.from # r.from
      BY <2>1, <1>1 DEF OneAwaited
    <2>3. \A other \in requests' : other.from \in Tabs => drain'[other.from] = drain[other.from]
      BY <1>1, <2>2, TabsAssumption DEF TypeOK
    <2>4. QED
      BY <2>1, <2>3 DEF AwaitedBySender, OneAwaited
  <1>4. AtAPhoto'
    BY <1>1 DEF AtAPhoto, TypeOK
  <1>5. DoneIsRecorded'
    BY <1>1, TabsAssumption DEF DoneIsRecorded, TypeOK, Item, Request
  <1>6. QED
    BY <1>2, <1>3, <1>4, <1>5 DEF StoredFirst, OneRowEach, RowsHaveObjects

\* What a tab waits for is a request of one photo, wherever the request stands.
LEMMA StepKeeps ==
    ASSUME IInv, NEW r \in requests, NEW moved \in Request,
           moved.photo = r.photo, moved.from \in {r.from, Gone},
           requests' = (requests \ {r}) \cup {moved},
           moved.at = "record" => r.photo \in stored',
           stored \subseteq stored', stored' \subseteq Photos,
           UNCHANGED <<signals, rows, history>>, faults' \in 0 .. MaxFaults,
           \/ UNCHANGED <<item, drain>>
           \/ /\ moved.from = Gone /\ r.from \in Tabs
              /\ \E n \in 0 .. GiveUp, status \in {"failed", "queued"} :
                    item' = [item EXCEPT ![r.photo] = [status |-> status, tries |-> n]]
              /\ \E d \in Drain : d.at = "rest" /\ drain' = [drain EXCEPT ![r.from] = d]
    PROVE  IInv'
  <1> USE DEF IInv
  <1>1. r \in Request /\ r.photo \in Photos
    BY DEF TypeOK, Request
  <1>2. item' \in [Photos -> Item] /\ drain' \in [Tabs -> Drain]
    <2>1. ASSUME NEW n \in 0 .. GiveUp, NEW status \in {"failed", "queued"}
          PROVE  [status |-> status, tries |-> n] \in Item
      BY DEF Item, Status
    <2>2. CASE UNCHANGED <<item, drain>>
      BY <2>2 DEF TypeOK
    <2>3. CASE ~UNCHANGED <<item, drain>>
      <3>1. PICK n \in 0 .. GiveUp, status \in {"failed", "queued"} :
               item' = [item EXCEPT ![r.photo] = [status |-> status, tries |-> n]]
        BY <2>3
      <3>2. PICK d \in Drain : drain' = [drain EXCEPT ![r.from] = d]
        BY <2>3
      <3>3. QED
        BY <1>1, <2>1, <3>1, <3>2 DEF TypeOK
    <2>4. QED
      BY <2>2, <2>3
  <1>3. TypeOK'
    BY <1>2 DEF TypeOK, signals, history
  <1>4. \A other \in requests' : \/ other \in requests /\ other # r /\ other \in Request
                                 \/ other = moved
    BY DEF TypeOK
  <1>5. \A other \in requests : other # r /\ other.from \in Tabs /\ r.from \in Tabs => other.from # r.from
    BY DEF OneAwaited
  <1>6. AwaitedBySender'
    BY <1>1, <1>2, <1>4, <1>5, TabsAssumption DEF AwaitedBySender, TypeOK, Request
  <1>7. OneAwaited'
    BY <1>1, <1>4, <1>5, TabsAssumption DEF OneAwaited, TypeOK, Request
  <1>8. AtAPhoto'
    BY <1>1 DEF AtAPhoto, TypeOK
  <1>9. StoredFirst' /\ OneRowEach' /\ RowsHaveObjects'
    BY <1>4 DEF StoredFirst, OneRowEach, RowsHaveObjects
  <1>10. DoneIsRecorded'
    <2>1. \A p \in Photos : item'[p].status = "done" => item[p].status = "done"
      <3>1. CASE UNCHANGED item
        BY <3>1
      <3>2. CASE \E n \in 0 .. GiveUp, status \in {"failed", "queued"} :
                    item' = [item EXCEPT ![r.photo] = [status |-> status, tries |-> n]]
        BY <1>1, <3>2 DEF TypeOK
      <3>3. QED
        BY <3>1, <3>2
    <2>2. QED
      BY <2>1 DEF DoneIsRecorded
  <1>11. QED
    BY <1>3, <1>6, <1>7, <1>8, <1>9, <1>10

\* The tab's next stop once an answer is in, and the tries it has counted.
LEMMA AfterAnswer ==
    ASSUME IInv, NEW t \in Tabs
    PROVE  /\ [at |-> "pick", photo |-> 0, tries |-> 0] \in Drain
           /\ drain[t].photo \in Photos => [at |-> "rest", photo |-> drain[t].photo, tries |-> drain[t].tries] \in Drain
           /\ drain[t].tries \in 0 .. GiveUp /\ Tried(drain[t].tries) \in 0 .. GiveUp
  BY BoundsAssumption, TriedInRange DEF IInv, TypeOK, Drain

\* What the server does with a request.
LEMMA ServingKeeps == ASSUME IInv, Serving PROVE IInv'
  <1>1. PICK r \in requests : Check(r) \/ PutObject(r) \/ RecordPhoto(r)
    BY DEF Serving
  <1>2. r \in Request /\ r.photo \in Photos /\ faults \in 0 .. MaxFaults /\ rows \in [Photos -> 0 .. 1]
    BY DEF IInv, TypeOK, Request, OneRowEach
  <1>3. r.from = Gone \/ r.from \in Tabs
    BY <1>2 DEF Request
  <1>4. ASSUME NEW status \in {"done"}, Reply(r, status), rows' \in [Photos -> 0 .. 1],
               rows'[r.photo] > 0, \A p \in Photos : rows'[p] >= rows[p],
               \A p \in Photos : rows'[p] > 0 => p \in stored,
               UNCHANGED <<signals, stored, history, faults>>
        PROVE  IInv'
    <2>1. 0 \in 0 .. GiveUp
      BY BoundsAssumption
    <2>2. PICK d \in Drain : d = [at |-> "pick", photo |-> 0, tries |-> 0]
      <3>1. [at |-> "pick", photo |-> 0, tries |-> 0] \in Drain
        BY BoundsAssumption DEF Drain
      <3>2. QED
        BY <3>1
    <2>3. PICK n \in 0 .. GiveUp : r.from # Gone => n = Tried(drain[r.from].tries)
      BY <1>3, <2>1, AfterAnswer
    <2>4. IF r.from = Gone THEN UNCHANGED <<item, drain>>
          ELSE /\ item' = [item EXCEPT ![drain[r.from].photo] = [status |-> status, tries |-> n]]
               /\ drain' = [drain EXCEPT ![r.from] = d]
      BY <1>4, <2>2, <2>3 DEF Reply, Answered, Write, Goto
    <2>5. requests' = requests \ {r}
      BY <1>4 DEF Reply
    <2>6. QED
      BY <1>2, <1>4, <2>2, <2>4, <2>5, AnswerKeeps
  <1>5. CASE Check(r) /\ rows[r.photo] > 0
    BY <1>2, <1>4, <1>5 DEF Check, IInv, RowsHaveObjects
  <1>6. CASE Check(r) /\ ~(rows[r.photo] > 0)
    <2>1. [r EXCEPT !.at = "store"] \in Request
      BY <1>2 DEF Request
    <2>2. QED
      BY <1>2, <1>6, <2>1, StepKeeps DEF Check, Step, Request, IInv, TypeOK
  <1>7. CASE PutObject(r)
    <2>1. [r EXCEPT !.at = "record"] \in Request
      BY <1>2 DEF Request
    <2>2. QED
      BY <1>2, <1>7, <2>1, StepKeeps DEF PutObject, Step, Request, IInv, TypeOK
  <1>8. CASE RecordPhoto(r)
    <2>1. rows' = [rows EXCEPT ![r.photo] = 1]
      BY <1>8 DEF RecordPhoto, Recorded
    <2>2. r.photo \in stored
      BY <1>8 DEF RecordPhoto, IInv, StoredFirst
    <2>3. rows' \in [Photos -> 0 .. 1] /\ rows'[r.photo] > 0 /\ (\A p \in Photos : rows'[p] >= rows[p])
      BY <1>2, <2>1
    <2>4. \A p \in Photos : rows'[p] > 0 => p \in stored
      BY <1>2, <2>1, <2>2 DEF IInv, RowsHaveObjects
    <2>5. QED
      BY <1>4, <1>8, <2>3, <2>4 DEF RecordPhoto
  <1>9. QED
    BY <1>1, <1>5, <1>6, <1>7, <1>8

\* A request refused, dead or given up: nothing is counted as done.
LEMMA RequestFails ==
    ASSUME IInv, NEW r \in requests, Refuse(r) \/ RequestDies(r) \/ ReplyLost(r)
    PROVE  IInv'
  <1>1. r \in Request /\ r.photo \in Photos /\ rows \in [Photos -> 0 .. 1] /\ (r.from = Gone \/ r.from \in Tabs)
    BY DEF IInv, TypeOK, Request, OneRowEach
  <1>2. faults' \in 0 .. MaxFaults
    BY BoundsAssumption DEF IInv, TypeOK, Refuse, RequestDies, ReplyLost, Fault
  <1>3. r.from \in Tabs => drain[r.from].photo = r.photo
    BY DEF IInv, AwaitedBySender
  <1>4. 0 \in 0 .. GiveUp
    BY BoundsAssumption
  <1>5. CASE Refuse(r)
    <2>1. PICK d \in Drain : d = [at |-> "pick", photo |-> 0, tries |-> 0]
      <3>1. [at |-> "pick", photo |-> 0, tries |-> 0] \in Drain
        BY BoundsAssumption DEF Drain
      <3>2. QED
        BY <3>1
    <2>2. PICK n \in 0 .. GiveUp : r.from # Gone => n = Tried(drain[r.from].tries)
      BY <1>1, <1>4, AfterAnswer
    <2>3. IF r.from = Gone THEN UNCHANGED <<item, drain>>
          ELSE /\ item' = [item EXCEPT ![drain[r.from].photo] = [status |-> "failed", tries |-> n]]
               /\ drain' = [drain EXCEPT ![r.from] = d]
      BY <1>5, <2>1, <2>2 DEF Refuse, Reply, Answered, Write, Goto
    <2>4. requests' = requests \ {r} /\ UNCHANGED <<signals, stored, rows, history>>
      BY <1>5 DEF Refuse, Reply
    <2>5. \A p \in Photos : rows'[p] >= rows[p] /\ (rows'[p] > 0 => p \in stored)
      BY <1>1, <2>4 DEF IInv, RowsHaveObjects
    <2>6. QED
      BY <1>1, <1>2, <2>1, <2>3, <2>4, <2>5, AnswerKeeps
  <1>6. CASE RequestDies(r) \/ ReplyLost(r)
    <2>1. PICK d \in Drain : d.at = "rest" /\ (r.from # Gone => d = [at |-> "rest", photo |-> drain[r.from].photo, tries |-> drain[r.from].tries])
      <3>1. CASE r.from = Gone
        <4>1. [at |-> "rest", photo |-> 0, tries |-> 0] \in Drain
          BY BoundsAssumption DEF Drain
        <4>2. QED
          BY <3>1, <4>1
      <3>2. CASE r.from \in Tabs
        BY <1>1, <1>3, <3>2, AfterAnswer, TabsAssumption
      <3>3. QED
        BY <1>1, <3>1, <3>2
    <2>2. PICK n \in 0 .. GiveUp : r.from # Gone => n = Tried(drain[r.from].tries)
      BY <1>1, <1>4, AfterAnswer
    <2>3. PICK status \in {"failed", "queued"} :
             r.from # Gone => status = IF drain[r.from].tries >= GiveUp THEN "failed" ELSE "queued"
      OBVIOUS
    <2>4. Lost(r.from) /\ r.from # Gone =>
             /\ item' = [item EXCEPT ![drain[r.from].photo] = [status |-> status, tries |-> n]]
             /\ drain' = [drain EXCEPT ![r.from] = d]
      BY <2>1, <2>2, <2>3 DEF Lost, Write, Goto
    <2>5. CASE RequestDies(r)
      <3>1. requests' = requests \ {r} /\ UNCHANGED <<signals, stored, rows, history>>
        BY <2>5 DEF RequestDies
      <3>2. \A p \in Photos : rows'[p] >= rows[p] /\ (rows'[p] > 0 => p \in stored)
        BY <1>1, <3>1 DEF IInv, RowsHaveObjects
      <3>3. IF r.from = Gone THEN UNCHANGED <<item, drain>>
            ELSE /\ item' = [item EXCEPT ![drain[r.from].photo] = [status |-> status, tries |-> n]]
                 /\ drain' = [drain EXCEPT ![r.from] = d]
        BY <2>4, <2>5 DEF RequestDies
      <3>4. QED
        BY <1>1, <1>2, <2>1, <3>1, <3>2, <3>3, AnswerKeeps
    <2>6. CASE ReplyLost(r)
      <3> DEFINE moved == [r EXCEPT !.from = Gone]
      <3>1. moved \in Request /\ moved.photo = r.photo /\ moved.from = Gone /\ moved.at = r.at
        BY <1>1 DEF Request
      <3>2. r.from \in Tabs /\ requests' = (requests \ {r}) \cup {moved}
            /\ UNCHANGED <<signals, stored, rows, history>>
        BY <1>1, <2>6 DEF ReplyLost
      <3>3. moved.at = "record" => r.photo \in stored'
        BY <3>1, <3>2 DEF IInv, StoredFirst
      <3>4. /\ item' = [item EXCEPT ![r.photo] = [status |-> status, tries |-> n]]
            /\ drain' = [drain EXCEPT ![r.from] = d]
        BY <1>3, <2>4, <2>6, <3>2 DEF ReplyLost
      <3>5. stored \subseteq stored' /\ stored' \subseteq Photos
        BY <3>2 DEF IInv, TypeOK
      <3> HIDE DEF moved
      <3>6. QED
        BY <1>2, <2>1, <3>1, <3>2, <3>3, <3>4, <3>5, StepKeeps
    <2>7. QED
      BY <1>6, <2>5, <2>6
  <1>7. QED
    BY <1>5, <1>6

\* A tab that is closed leaves its request behind.
LEMMA CloseTabKeeps == ASSUME IInv, NEW t \in Tabs, CloseTab(t) PROVE IInv'
  <1> USE DEF IInv
  <1> DEFINE gone(r) == IF r.from = t THEN [r EXCEPT !.from = Gone] ELSE r
  <1>1. /\ drain' = [drain EXCEPT ![t] = Closed]
        /\ requests' = {gone(r) : r \in requests}
        /\ UNCHANGED <<item, online, stored, rows>>
        /\ faults' \in 0 .. MaxFaults
    BY BoundsAssumption DEF CloseTab, Fault, TypeOK
  <1>2. dropped' \in SUBSET Photos /\ left' \in SUBSET Photos /\ awake' \in SUBSET Tabs
    BY DEF CloseTab, TypeOK, AtAPhoto, Queued
  <1>3. Closed \in Drain /\ Closed.at = "closed"
    BY BoundsAssumption DEF Closed, Drain
  <1>4. \A r \in requests : /\ gone(r) \in Request /\ gone(r).photo = r.photo /\ gone(r).at = r.at
                            /\ gone(r).from \in Tabs => r.from # t /\ gone(r) = r
    BY TabsAssumption DEF TypeOK, Request
  <1>5. TypeOK'
    BY <1>1, <1>2, <1>3, <1>4 DEF TypeOK
  <1> HIDE DEF gone
  <1>6. AwaitedBySender'
    BY <1>1, <1>4 DEF AwaitedBySender, TypeOK
  <1>7. OneAwaited'
    BY <1>1, <1>4 DEF OneAwaited
  <1>8. AtAPhoto' /\ StoredFirst'
    BY <1>1, <1>3, <1>4 DEF AtAPhoto, StoredFirst, TypeOK
  <1>9. QED
    BY <1>1, <1>5, <1>6, <1>7, <1>8 DEF OneRowEach, RowsHaveObjects, DoneIsRecorded

\* The invariant holds initially and every step keeps it.
THEOREM Invariant == Spec => []IInv
  <1>1. Init => IInv
    BY InitInv
  <1>2. IInv /\ [Next]_vars => IInv'
    <2> SUFFICES ASSUME IInv, [Next]_vars PROVE IInv'
      OBVIOUS
    <2>1. CASE Customer
      BY <2>1, CustomerKeeps
    <2>2. CASE Draining
      BY <2>2, DrainingKeeps
    <2>3. CASE Serving
      BY <2>3, ServingKeeps
    <2>4. CASE Failing
      <3>1. CASE \E r \in requests : Refuse(r) \/ RequestDies(r) \/ ReplyLost(r)
        BY <3>1, RequestFails
      <3>2. CASE Disconnect
        <4>1. online' \in BOOLEAN /\ faults' \in 0 .. MaxFaults
          <5>1. online' = FALSE
            BY <3>2 DEF Disconnect
          <5>2. faults' \in 0 .. MaxFaults
            BY <3>2, BoundsAssumption DEF Disconnect, Fault, IInv, TypeOK
          <5>3. QED
            BY <5>1, <5>2
        <4>2. UNCHANGED <<item, drain, awake, serverVars, history>>
          BY <3>2 DEF Disconnect
        <4>3. QED
          BY <4>1, <4>2 DEF serverVars, history, IInv, TypeOK, AwaitedBySender, OneAwaited, AtAPhoto,
             StoredFirst, OneRowEach, RowsHaveObjects, DoneIsRecorded
      <3>3. CASE \E t \in Tabs : CloseTab(t)
        BY <3>3, CloseTabKeeps
      <3>4. QED
        BY <2>4, <3>1, <3>2, <3>3 DEF Failing
    <2>5. CASE Reconnect
      BY <2>5 DEF Reconnect, serverVars, history, IInv, TypeOK, AwaitedBySender, OneAwaited, AtAPhoto,
         StoredFirst, OneRowEach, RowsHaveObjects, DoneIsRecorded
    <2>6. CASE UNCHANGED vars
      BY <2>6 DEF vars, browserVars, serverVars, history, IInv, TypeOK, AwaitedBySender, OneAwaited,
         AtAPhoto, StoredFirst, OneRowEach, RowsHaveObjects, DoneIsRecorded
    <2>7. QED
      BY <2>1, <2>2, <2>3, <2>4, <2>5, <2>6 DEF Next
  <1>3. QED
    BY <1>1, <1>2, PTL DEF Spec

(***************************************************************************)
(* The properties                                                          *)
(***************************************************************************)
\* Store, tabs and requests keep their shape (upload-queue.ts:11-22).
THEOREM TypeCorrect == Spec => []TypeOK
  BY Invariant, PTL DEF IInv

\* The job has at most one row of a photo, however many tabs send it and
\* however often (service.ts:146-168).
THEOREM OneRowForEach == Spec => []OneRowEach
  BY Invariant, PTL DEF IInv

\* A recorded photo has its object (api/photos/route.ts:47-60).
THEOREM ObjectsComeFirst == Spec => []RowsHaveObjects
  BY Invariant, PTL DEF IInv

\* What the slot shows as uploaded is recorded (upload-queue.ts:122-129).
THEOREM DoneMeansRecorded == Spec => []DoneIsRecorded
  BY Invariant, PTL DEF IInv
=============================================================================
