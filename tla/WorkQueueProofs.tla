-------------------------- MODULE WorkQueueProofs --------------------------
(***************************************************************************)
(* Proofs about WorkQueue for any rows, runners, lease, limits and number  *)
(* of faults, whether or not a batch fits into its lease.                  *)
(*                                                                         *)
(* All that can be relied on of a row is lost once some runner has held it *)
(* for a whole lease; up to then its holder is the only one, and the row   *)
(* is as the holder has claimed it.  Each part of the invariant is about   *)
(* the rows that are not overdue.                                          *)
(***************************************************************************)
EXTENDS WorkQueue, TLAPS

(***************************************************************************)
(* The inductive invariant                                                 *)
(***************************************************************************)
\* Only the holder ends a row.
HeldIsOpen == \A w \in Runners : \A r \in batch[w] \ overdue : status[r] \in Open

\* The time a row has been held and what is left of its lease make up the lease.
HeldIsLeased ==
    \A w \in Runners : \A r \in batch[w] \ overdue : age[w] < Lease /\ due[r] + age[w] >= Lease

\* A recorded id is that of a message that was sent and is not sent again.
IdsAreOfSent == \A r \in ids : r \in carried /\ (r \notin overdue => status[r] \in {"sent", "failed"})

\* An outcome is that of a row in hand; the effect of a success has happened.
OutcomesAreTrue ==
    \A w \in Runners : result[w] # None =>
        /\ result[w].row \in batch[w]
        /\ result[w].how = "ok" => result[w].row \in carried

\* A row that was held was asked for.
OverdueIsAsked == \A r \in overdue : status[r] # "absent"

IInv ==
    /\ TypeOK /\ HeldIsOpen /\ HeldIsLeased /\ IdsAreOfSent /\ OutcomesAreTrue
    /\ OverdueIsAsked /\ TakenAfterItsLease

----------------------------------------------------------------------------
\* A row in hand is not due, until its lease has run out.
LEMMA HeldIsNotDue ==
    ASSUME IInv, NEW w \in Runners, NEW r \in batch[w] \ overdue
    PROVE  due[r] > 0 /\ r \in Rows
  <1>1. r \in Rows /\ due[r] \in Nat /\ age[w] \in Nat
    BY DEF IInv, TypeOK
  <1>2. age[w] < Lease /\ due[r] + age[w] >= Lease
    BY DEF IInv, HeldIsLeased
  <1>3. QED
    BY <1>1, <1>2, LeaseAssumption

\* Initially nobody holds anything.
LEMMA InitInv == Init => IInv
  <1> SUFFICES ASSUME Init PROVE IInv
    OBVIOUS
  <1>1. TypeOK
    BY FaultsAssumption DEF Init, TypeOK, Rows
  <1>2. QED
    BY <1>1 DEF Init, IInv, HeldIsOpen, HeldIsLeased, IdsAreOfSent, OutcomesAreTrue,
       OverdueIsAsked, TakenAfterItsLease

\* A new row is in nobody's hands.
LEMMA PutInv ==
    ASSUME IInv, NEW r \in Rows, EnqueueTask(r) \/ NotifyJob(r)
    PROVE  IInv'
  <1>1. PICK s \in Open, wait \in Nat : Put(r, s, wait) /\ (r \in Tasks <=> s = "pending")
    BY RowsAssumption DEF EnqueueTask, NotifyJob, Open, Quiet
  <1>2. /\ status[r] = "absent" /\ status' = [status EXCEPT ![r] = s]
        /\ due' = [due EXCEPT ![r] = wait]
        /\ UNCHANGED <<attempts, batch, seen, result, carried, ids, spent, history, faults>>
    BY <1>1 DEF Put
  <1>3. r \notin overdue /\ \A w \in Runners : r \notin batch[w]
    BY <1>2 DEF IInv, HeldIsOpen, OverdueIsAsked, Open
  <1>4. r \notin ids
    BY <1>2, <1>3 DEF IInv, IdsAreOfSent
  <1>5. TypeOK'
    <2>1. /\ status' \in [Rows -> Open \cup Kept \cup Dropped \cup {"absent"}]
          /\ due' \in [Rows -> Nat]
      BY <1>1, <1>2 DEF IInv, TypeOK
    <2>2. \A t \in Tasks : status'[t] \in {"absent", "pending", "done", "dead"}
      BY <1>1, <1>2 DEF IInv, TypeOK, Rows
    <2>3. \A m \in Messages : status'[m] \notin {"pending", "done", "dead"}
      BY <1>1, <1>2, RowsAssumption DEF IInv, TypeOK, Rows, Open
    <2>4. QED
      BY <1>2, <2>1, <2>2, <2>3 DEF IInv, TypeOK, history
  <1>6. HeldIsOpen' /\ HeldIsLeased'
    BY <1>2, <1>3 DEF IInv, TypeOK, HeldIsOpen, HeldIsLeased, history
  <1>7. IdsAreOfSent' /\ OutcomesAreTrue' /\ OverdueIsAsked' /\ TakenAfterItsLease'
    BY <1>2, <1>3, <1>4
    DEF IInv, TypeOK, IdsAreOfSent, OutcomesAreTrue, OverdueIsAsked, TakenAfterItsLease, history
  <1>8. QED
    BY <1>5, <1>6, <1>7 DEF IInv

\* A claim takes rows that nobody holds, or that are overdue, and leases them.
LEMMA ClaimInv ==
    ASSUME IInv, NEW w \in Runners, NEW q \in Queues, Claim(w, q)
    PROVE  IInv'
  <1>1. PICK b \in Batches({r \in q : Claimable(r)}) :
            /\ due' = [r \in Rows |-> IF r \in b THEN Lease ELSE due[r]]
            /\ Taken(w, b)
    BY DEF Claim
  <1>2. /\ b \in SUBSET Rows
        /\ \A r \in b : status[r] \in Open /\ due[r] = 0
    BY <1>1 DEF Batches, Claimable, Queues, Rows
  <1>3. /\ batch' = [batch EXCEPT ![w] = b]
        /\ attempts' = [r \in Rows |-> IF r \in b THEN attempts[r] + 1 ELSE attempts[r]]
        /\ seen' = [seen EXCEPT ![w] = [r \in Rows |-> IF r \in b THEN attempts[r] + 1 ELSE 0]]
        /\ status' = [r \in Rows |-> IF r \in b \cap Messages THEN "queued" ELSE status[r]]
        /\ age' = [age EXCEPT ![w] = 0]
        /\ UNCHANGED <<result, carried, ids, spent, overdue, faults>>
    BY <1>1 DEF Taken
  <1>4. result[w] = None
    BY DEF Claim, Idle
  <1>5. \A v \in Runners \ {w} :
            /\ batch'[v] = batch[v] /\ batch[v] \cap b \subseteq overdue /\ age'[v] = age[v]
    BY <1>1, <1>2, <1>3, HeldIsNotDue DEF IInv, TypeOK
  <1>6. batch'[w] = b /\ age'[w] = 0
    BY <1>1, <1>3 DEF IInv, TypeOK
  <1>7. TypeOK'
    <2>1. status' \in [Rows -> Open \cup Kept \cup Dropped \cup {"absent"}]
      BY <1>3 DEF IInv, TypeOK, Open
    <2>2. \A r \in Tasks : status'[r] \in {"absent", "pending", "done", "dead"}
      BY <1>3, RowsAssumption DEF IInv, TypeOK, Rows
    <2>3. \A r \in Messages : status'[r] \notin {"pending", "done", "dead"}
      BY <1>3 DEF IInv, TypeOK, Rows
    <2>4. attempts' \in [Rows -> Nat] /\ seen' \in [Runners -> [Rows -> Nat]]
      BY <1>3 DEF IInv, TypeOK
    <2>5. /\ due' \in [Rows -> Nat] /\ batch' \in [Runners -> SUBSET Rows]
          /\ age' \in [Runners -> Nat]
      BY <1>1, <1>2, <1>3, LeaseAssumption DEF IInv, TypeOK
    <2>6. QED
      BY <1>3, <2>1, <2>2, <2>3, <2>4, <2>5 DEF IInv, TypeOK
  <1>8. HeldIsOpen'
    <2>1. \A r \in b : status'[r] \in Open
      BY <1>2, <1>3 DEF Open
    <2>2. \A v \in Runners \ {w} : \A r \in batch[v] \ overdue : r \in Rows /\ status'[r] = status[r]
      BY <1>3, <1>5 DEF IInv, TypeOK
    <2>3. QED
      BY <1>3, <1>5, <1>6, <2>1, <2>2 DEF IInv, HeldIsOpen
  <1>9. HeldIsLeased'
    <2>1. \A r \in b : due'[r] = Lease /\ Lease > 0
      BY <1>1, <1>2, LeaseAssumption
    <2>2. \A v \in Runners \ {w} : \A r \in batch[v] \ overdue : due'[r] = due[r]
      BY <1>1, <1>5 DEF IInv, TypeOK
    <2>3. QED
      BY <1>3, <1>5, <1>6, <2>1, <2>2, LeaseAssumption DEF IInv, HeldIsLeased
  <1>10. IdsAreOfSent' /\ OverdueIsAsked'
    <2>1. \A r \in ids : r \in Rows /\ (r \notin overdue => r \notin b)
      BY <1>2 DEF IInv, TypeOK, IdsAreOfSent, Open, Rows
    <2>2. \A r \in overdue : r \in Rows /\ status'[r] # "absent"
      BY <1>3 DEF IInv, TypeOK, OverdueIsAsked
    <2>3. QED
      BY <1>3, <2>1, <2>2 DEF IInv, IdsAreOfSent, OverdueIsAsked
  <1>11. OutcomesAreTrue'
    BY <1>3, <1>4, <1>5 DEF IInv, OutcomesAreTrue
  <1>12. TakenAfterItsLease'
    BY <1>3, <1>5, <1>6 DEF IInv, TakenAfterItsLease
  <1>13. QED
    BY <1>7, <1>8, <1>9, <1>10, <1>11, <1>12 DEF IInv

\* An effect has an outcome, and has happened if the outcome says so.
LEMMA PerformInv ==
    ASSUME IInv, NEW w \in Runners, Succeed(w) \/ Refused(w) \/ ReplyLost(w)
    PROVE  IInv'
  <1>1. PICK r \in batch[w], how \in {"ok", "error", "fatal"} :
            /\ Perform(w, r, how) /\ (how = "ok" => r \in carried')
            /\ carried' \in {carried, carried \cup {r}} /\ faults' \in 0 .. MaxFaults
    <2>1. faults \in 0 .. MaxFaults /\ MaxFaults \in Nat
      BY FaultsAssumption DEF IInv, TypeOK
    <2>2. CASE Succeed(w)
      BY <2>1, <2>2 DEF Succeed
    <2>3. CASE Refused(w)
      <3>1. PICK r \in batch[w] :
              \E how \in IF r \in Tasks THEN {"error", "fatal"} ELSE {"error"} :
                  Perform(w, r, how) /\ UNCHANGED <<carried, faults>>
        BY <2>3 DEF Refused
      <3>2. PICK how \in {"error", "fatal"} :
              Perform(w, r, how) /\ UNCHANGED <<carried, faults>>
        BY <3>1
      <3>3. QED
        BY <2>1, <3>2
    <2>4. CASE ReplyLost(w)
      BY <2>1, <2>4 DEF ReplyLost
    <2>5. QED
      BY <2>2, <2>3, <2>4
  <1>2. /\ result' = [result EXCEPT ![w] = [row |-> r, how |-> how]]
        /\ UNCHANGED <<status, attempts, due, batch, seen, ids, spent, age, overdue>>
    BY <1>1 DEF Perform, history
  <1>3. r \in Rows /\ carried' \in SUBSET Rows /\ carried \subseteq carried'
    BY <1>1 DEF IInv, TypeOK
  <1>4. TypeOK'
    <2>1. [row |-> r, how |-> how] \in [row : Rows, how : {"ok", "error", "fatal"}]
      BY <1>1, <1>3
    <2>2. result' \in [Runners -> {None} \cup [row : Rows, how : {"ok", "error", "fatal"}]]
      BY <1>2, <2>1 DEF IInv, TypeOK
    <2>3. QED
      BY <1>1, <1>2, <1>3, <2>2 DEF IInv, TypeOK
  <1>5. OutcomesAreTrue'
    <2>1. \A v \in Runners : result'[v] = IF v = w THEN [row |-> r, how |-> how] ELSE result[v]
      BY <1>2 DEF IInv, TypeOK
    <2>2. QED
      BY <1>1, <1>2, <1>3, <2>1 DEF IInv, OutcomesAreTrue
  <1>6. HeldIsOpen' /\ HeldIsLeased' /\ TakenAfterItsLease' /\ IdsAreOfSent' /\ OverdueIsAsked'
    BY <1>2, <1>3 DEF IInv, HeldIsOpen, HeldIsLeased, TakenAfterItsLease, IdsAreOfSent, OverdueIsAsked
  <1>7. QED
    BY <1>4, <1>5, <1>6 DEF IInv

\* What a settled row may become: kept if its effect has happened, given up, or
\* due again.
LEMMA SettleFacts ==
    ASSUME IInv, NEW w \in Runners, Settle(w)
    PROVE  \E r \in batch[w], s \in Open \cup Kept \cup Dropped, wait \in Nat :
              /\ Written(w, r, s, wait) /\ r \in Rows
              /\ s \in Kept => r \in carried
              /\ s \in Open => ~Final(w, r)
              /\ r \in Tasks => s \in {"pending", "done", "dead"}
              /\ r \in Messages => s \in {"queued", "sent", "failed"}
  <1>1. PICK r \in batch[w] :
            /\ result[w].row = r
            /\ IF result[w].how = "ok"
               THEN Written(w, r, IF r \in Tasks THEN "done" ELSE "sent", 0)
               ELSE IF Final(w, r)
               THEN Written(w, r, IF r \in Tasks THEN "dead" ELSE "failed", 0)
               ELSE Written(w, r, IF r \in Tasks THEN "pending" ELSE "queued", Backoff)
    BY DEF Settle
  <1>2. r \in Rows
    BY DEF IInv, TypeOK
  <1>3. result[w] # None
    BY <1>1, <1>2, RowsAssumption DEF None, Rows
  <1>4. result[w].how = "ok" => r \in carried
    BY <1>1, <1>3 DEF IInv, OutcomesAreTrue
  <1>5. Backoff \in Nat /\ 0 \in Nat
    BY DEF Backoff
  <1>6. r \in Tasks => r \notin Messages
    BY RowsAssumption
  <1>7. CASE result[w].how = "ok"
    <2> DEFINE s == IF r \in Tasks THEN "done" ELSE "sent"
    <2>1. Written(w, r, s, 0)
      BY <1>1, <1>7
    <2>2. /\ s \in Open \cup Kept \cup Dropped /\ s \notin Open
          /\ r \in Tasks => s \in {"pending", "done", "dead"}
          /\ r \in Messages => s \in {"queued", "sent", "failed"}
      BY <1>6 DEF Kept, Open
    <2> HIDE DEF s
    <2>3. QED
      BY <1>2, <1>4, <1>5, <1>7, <2>1, <2>2
  <1>8. CASE result[w].how # "ok" /\ Final(w, r)
    <2> DEFINE s == IF r \in Tasks THEN "dead" ELSE "failed"
    <2>1. Written(w, r, s, 0)
      BY <1>1, <1>8
    <2>2. /\ s \in Open \cup Kept \cup Dropped /\ s \notin Kept /\ s \notin Open
          /\ r \in Tasks => s \in {"pending", "done", "dead"}
          /\ r \in Messages => s \in {"queued", "sent", "failed"}
      BY <1>6 DEF Kept, Dropped, Open
    <2> HIDE DEF s
    <2>3. QED
      BY <1>2, <1>5, <2>1, <2>2
  <1>9. CASE result[w].how # "ok" /\ ~Final(w, r)
    <2> DEFINE s == IF r \in Tasks THEN "pending" ELSE "queued"
    <2>1. Written(w, r, s, Backoff)
      BY <1>1, <1>9
    <2>2. /\ s \in Open \cup Kept \cup Dropped /\ s \notin Kept
          /\ r \in Tasks => s \in {"pending", "done", "dead"}
          /\ r \in Messages => s \in {"queued", "sent", "failed"}
      BY <1>6 DEF Kept, Open
    <2> HIDE DEF s
    <2>3. QED
      BY <1>2, <1>5, <1>9, <2>1, <2>2
  <1>10. QED
    BY <1>7, <1>8, <1>9

\* A settled row leaves its holder one row fewer; the others' are as they were.
LEMMA SettleInv == ASSUME IInv, NEW w \in Runners, Settle(w) PROVE IInv'
  <1>1. PICK r \in batch[w], s \in Open \cup Kept \cup Dropped, wait \in Nat :
              /\ Written(w, r, s, wait) /\ r \in Rows
              /\ s \in Kept => r \in carried
              /\ r \in Tasks => s \in {"pending", "done", "dead"}
              /\ r \in Messages => s \in {"queued", "sent", "failed"}
    BY SettleFacts
  <1>2. /\ status' = [status EXCEPT ![r] = s] /\ due' = [due EXCEPT ![r] = wait]
        /\ batch' = [batch EXCEPT ![w] = @ \ {r}]
        /\ seen' = [seen EXCEPT ![w][r] = 0]
        /\ result' = [result EXCEPT ![w] = None]
        /\ spent' = spent \ {w}
        /\ ids' = IF s = "sent" THEN ids \cup {r} ELSE ids
        /\ age' = IF batch[w] = {r} THEN [age EXCEPT ![w] = 0] ELSE age
        /\ UNCHANGED <<attempts, carried, overdue, faults>>
    BY <1>1 DEF Written
  <1>3. /\ batch'[w] = batch[w] \ {r}
        /\ \A v \in Runners \ {w} : batch'[v] = batch[v] /\ (r \in batch[v] => r \in overdue)
    BY <1>2 DEF IInv, TypeOK, TakenAfterItsLease
  <1>4. r \in ids => r \in overdue
    BY DEF IInv, HeldIsOpen, IdsAreOfSent, Open
  <1>5. TypeOK'
    <2>1. s = "sent" => r \in Messages
      BY <1>1 DEF Rows
    <2>2. /\ status' \in [Rows -> Open \cup Kept \cup Dropped \cup {"absent"}]
          /\ \A t \in Tasks : status'[t] \in {"absent", "pending", "done", "dead"}
          /\ \A m \in Messages : status'[m] \notin {"pending", "done", "dead"}
      BY <1>1, <1>2 DEF IInv, TypeOK, Rows
    <2>3. /\ due' \in [Rows -> Nat] /\ batch' \in [Runners -> SUBSET Rows]
          /\ seen' \in [Runners -> [Rows -> Nat]]
      BY <1>1, <1>2 DEF IInv, TypeOK
    <2>4. result' \in [Runners -> {None} \cup [row : Rows, how : {"ok", "error", "fatal"}]]
      BY <1>2 DEF IInv, TypeOK
    <2>5. ids' \in SUBSET Messages /\ spent' \in SUBSET Runners /\ age' \in [Runners -> Nat]
      BY <1>2, <2>1 DEF IInv, TypeOK
    <2>6. QED
      BY <1>2, <2>2, <2>3, <2>4, <2>5 DEF IInv, TypeOK
  <1>6. \A v \in Runners : \A x \in batch'[v] \ overdue :
            x \in batch[v] /\ x \in Rows \ {r} /\ age'[v] = age[v]
    <2>1. ASSUME NEW v \in Runners \ {w}, NEW x \in batch'[v] \ overdue
          PROVE  x \in batch[v] /\ x \in Rows \ {r} /\ age'[v] = age[v]
      BY <1>2, <1>3 DEF IInv, TypeOK
    <2>2. ASSUME NEW x \in batch'[w]
          PROVE  x \in batch[w] /\ x \in Rows \ {r} /\ age'[w] = age[w]
      <3>1. x \in batch[w] /\ x # r
        BY <1>3
      <3>2. batch[w] # {r}
        BY <3>1
      <3>3. QED
        BY <1>2, <3>1, <3>2 DEF IInv, TypeOK
    <2>3. QED
      BY <2>1, <2>2
  <1>7. HeldIsOpen' /\ HeldIsLeased'
    <2>1. \A x \in Rows \ {r} : status'[x] = status[x] /\ due'[x] = due[x]
      BY <1>2 DEF IInv, TypeOK
    <2>2. QED
      BY <1>2, <1>6, <2>1 DEF IInv, HeldIsOpen, HeldIsLeased
  <1>8. IdsAreOfSent' /\ OverdueIsAsked'
    <2>1. ids \subseteq Rows /\ overdue \subseteq Rows
      BY DEF IInv, TypeOK, Rows
    <2>2. \A x \in Rows : status'[x] = IF x = r THEN s ELSE status[x]
      BY <1>2 DEF IInv, TypeOK
    <2>3. (s = "sent" => r \in carried) /\ s # "absent"
      BY <1>1 DEF Kept, Open, Dropped
    <2>4. IdsAreOfSent'
      BY <1>1, <1>2, <1>4, <2>1, <2>2, <2>3 DEF IInv, IdsAreOfSent
    <2>5. OverdueIsAsked'
      BY <1>2, <2>1, <2>2, <2>3 DEF IInv, OverdueIsAsked
    <2>6. QED
      BY <2>4, <2>5
  <1>9. OutcomesAreTrue'
    <2>1. \A v \in Runners : result'[v] = IF v = w THEN None ELSE result[v]
      BY <1>2 DEF IInv, TypeOK
    <2>2. QED
      BY <1>2, <1>3, <2>1 DEF IInv, OutcomesAreTrue
  <1>10. TakenAfterItsLease'
    BY <1>2, <1>3 DEF IInv, TakenAfterItsLease
  <1>11. QED
    BY <1>5, <1>7, <1>8, <1>9, <1>10 DEF IInv

\* A crash only lets rows go.
LEMMA CrashInv == ASSUME IInv, NEW w \in Runners, Crash(w) PROVE IInv'
  <1>1. /\ batch' = [batch EXCEPT ![w] = {}]
        /\ seen' = [seen EXCEPT ![w] = [r \in Rows |-> 0]]
        /\ result' = [result EXCEPT ![w] = None]
        /\ spent' = spent \ {w}
        /\ age' = [age EXCEPT ![w] = 0]
        /\ faults' \in 0 .. MaxFaults
        /\ UNCHANGED <<status, attempts, due, carried, ids, overdue>>
    BY FaultsAssumption DEF Crash, IInv, TypeOK
  <1>2. /\ batch'[w] = {}
        /\ \A v \in Runners \ {w} : batch'[v] = batch[v] /\ age'[v] = age[v]
    BY <1>1 DEF IInv, TypeOK
  <1>3. TypeOK'
    <2>1. batch' \in [Runners -> SUBSET Rows] /\ seen' \in [Runners -> [Rows -> Nat]]
      BY <1>1 DEF IInv, TypeOK
    <2>2. result' \in [Runners -> {None} \cup [row : Rows, how : {"ok", "error", "fatal"}]]
      BY <1>1 DEF IInv, TypeOK
    <2>3. QED
      BY <1>1, <2>1, <2>2 DEF IInv, TypeOK
  <1>4. HeldIsOpen' /\ TakenAfterItsLease' /\ IdsAreOfSent' /\ OverdueIsAsked'
    BY <1>1, <1>2 DEF IInv, HeldIsOpen, TakenAfterItsLease, IdsAreOfSent, OverdueIsAsked
  <1>5. HeldIsLeased'
    BY <1>1, <1>2 DEF IInv, HeldIsLeased
  <1>6. OutcomesAreTrue'
    <2>1. \A v \in Runners : result'[v] = IF v = w THEN None ELSE result[v]
      BY <1>1 DEF IInv, TypeOK
    <2>2. QED
      BY <1>1, <1>2, <2>1 DEF IInv, OutcomesAreTrue
  <1>7. QED
    BY <1>3, <1>4, <1>5, <1>6 DEF IInv

\* A tick takes one off what is left of a lease and adds one to what has passed;
\* what is then held for a whole lease is overdue.
LEMMA TickInv == ASSUME IInv, Tick PROVE IInv'
  <1>1. /\ due' = [r \in Rows |-> IF due[r] > 0 THEN due[r] - 1 ELSE 0]
        /\ spent' = {w \in Runners : ~Idle(w)}
        /\ age' = [w \in Runners |-> IF Idle(w) THEN 0 ELSE age[w] + 1]
        /\ overdue' = overdue \cup UNION {batch[w] : w \in {v \in Runners : age'[v] >= Lease}}
        /\ UNCHANGED <<status, attempts, batch, seen, result, carried, ids, faults>>
    BY DEF Tick
  <1>2. TypeOK'
    <2>1. due' \in [Rows -> Nat] /\ age' \in [Runners -> Nat]
      BY <1>1 DEF IInv, TypeOK
    <2>2. overdue' \in SUBSET Rows
      BY <1>1 DEF IInv, TypeOK
    <2>3. QED
      BY <1>1, <2>1, <2>2 DEF IInv, TypeOK
  <1>3. /\ overdue \subseteq overdue'
        /\ \A r \in overdue' \ overdue : \E w \in Runners : r \in batch[w]
        /\ \A w \in Runners : \A r \in batch[w] : age'[w] >= Lease => r \in overdue'
    BY <1>1
  <1>4. HeldIsLeased'
    <2>1. SUFFICES ASSUME NEW w \in Runners, NEW r \in batch[w] \ overdue'
                   PROVE  age'[w] < Lease /\ due'[r] + age'[w] >= Lease
      BY <1>1 DEF HeldIsLeased
    <2>2. r \in batch[w] \ overdue
      BY <1>3
    <2>3. due[r] > 0 /\ r \in Rows /\ due[r] \in Nat /\ age[w] \in Nat
      BY <2>2, HeldIsNotDue DEF IInv, TypeOK
    <2>4. age'[w] = age[w] + 1 /\ due'[r] = due[r] - 1
      BY <1>1, <2>2, <2>3 DEF Idle
    <2>5. due[r] + age[w] >= Lease
      BY <2>2 DEF IInv, HeldIsLeased
    <2>6. QED
      BY <1>3, <2>2, <2>3, <2>4, <2>5, LeaseAssumption
  <1>5. HeldIsOpen' /\ TakenAfterItsLease' /\ IdsAreOfSent' /\ OutcomesAreTrue'
    BY <1>1, <1>3 DEF IInv, HeldIsOpen, TakenAfterItsLease, IdsAreOfSent, OutcomesAreTrue
  <1>6. OverdueIsAsked'
    BY <1>1, <1>3 DEF IInv, HeldIsOpen, OverdueIsAsked, Open
  <1>7. QED
    BY <1>2, <1>4, <1>5, <1>6 DEF IInv

\* A row that is tried again was given up, so only a late runner may hold it.
LEMMA RetryInv == ASSUME IInv, NEW r \in Rows, RetryOutbox(r) PROVE IInv'
  <1>1. /\ r \in Tasks /\ status[r] \in Dropped
        /\ status' = [status EXCEPT ![r] = "pending"]
        /\ attempts' = [attempts EXCEPT ![r] = 0]
        /\ due' = [due EXCEPT ![r] = 0]
        /\ faults' \in 0 .. MaxFaults
        /\ UNCHANGED <<batch, seen, result, carried, ids, spent, age, overdue>>
    BY FaultsAssumption DEF RetryOutbox, IInv, TypeOK, history
  <1>2. \A w \in Runners : r \notin batch[w] \ overdue
    BY <1>1 DEF IInv, HeldIsOpen, Open, Dropped
  <1>3. r \notin ids
    BY <1>1, RowsAssumption DEF IInv, TypeOK
  <1>4. TypeOK'
    <2>1. attempts' \in [Rows -> Nat] /\ due' \in [Rows -> Nat]
      BY <1>1 DEF IInv, TypeOK
    <2>2. /\ status' \in [Rows -> Open \cup Kept \cup Dropped \cup {"absent"}]
          /\ \A t \in Tasks : status'[t] \in {"absent", "pending", "done", "dead"}
          /\ \A m \in Messages : status'[m] \notin {"pending", "done", "dead"}
      BY <1>1, RowsAssumption DEF IInv, TypeOK, Rows, Open
    <2>3. QED
      BY <1>1, <2>1, <2>2 DEF IInv, TypeOK
  <1>5. HeldIsOpen' /\ HeldIsLeased'
    BY <1>1, <1>2 DEF IInv, TypeOK, HeldIsOpen, HeldIsLeased
  <1>6. IdsAreOfSent' /\ OutcomesAreTrue' /\ TakenAfterItsLease'
    BY <1>1, <1>3 DEF IInv, TypeOK, IdsAreOfSent, OutcomesAreTrue, TakenAfterItsLease
  <1>7. OverdueIsAsked'
    BY <1>1 DEF IInv, TypeOK, OverdueIsAsked
  <1>8. QED
    BY <1>4, <1>5, <1>6, <1>7 DEF IInv

\* A report is about a message that was sent, so only a late runner may hold it.
LEMMA ReportInv == ASSUME IInv, NEW r \in Rows, DeliveryReport(r) PROVE IInv'
  <1>1. PICK s \in {"sent", "failed"} : status' = [status EXCEPT ![r] = s]
    BY DEF DeliveryReport
  <1>2. /\ r \in ids
        /\ UNCHANGED <<attempts, due, batch, seen, result, carried, ids, spent, age, overdue, faults>>
    BY DEF DeliveryReport, history
  <1>3. r \in Messages /\ (r \notin overdue => status[r] \in {"sent", "failed"})
    BY <1>2 DEF IInv, TypeOK, IdsAreOfSent
  <1>4. \A w \in Runners : r \notin batch[w] \ overdue
    BY <1>3 DEF IInv, HeldIsOpen, Open
  <1>5. TypeOK'
    BY <1>1, <1>2, <1>3, RowsAssumption DEF IInv, TypeOK, Rows, Kept, Dropped
  <1>6. HeldIsOpen' /\ HeldIsLeased'
    BY <1>1, <1>2, <1>4 DEF IInv, TypeOK, HeldIsOpen, HeldIsLeased
  <1>7. IdsAreOfSent' /\ OutcomesAreTrue' /\ TakenAfterItsLease'
    BY <1>1, <1>2 DEF IInv, TypeOK, IdsAreOfSent, OutcomesAreTrue, TakenAfterItsLease, Rows
  <1>8. OverdueIsAsked'
    BY <1>1, <1>2 DEF IInv, TypeOK, OverdueIsAsked
  <1>9. QED
    BY <1>5, <1>6, <1>7, <1>8 DEF IInv

\* Every step keeps the invariant.
LEMMA NextInv == ASSUME IInv, [Next]_vars PROVE IInv'
  <1>1. CASE \E r \in Rows : EnqueueTask(r) \/ NotifyJob(r)
    BY <1>1, PutInv
  <1>2. CASE \E r \in Rows : RetryOutbox(r) \/ DeliveryReport(r)
    BY <1>2, RetryInv, ReportInv
  <1>3. CASE \E w \in Runners, q \in Queues : Claim(w, q)
    BY <1>3, ClaimInv
  <1>4. CASE \E w \in Runners : Step(w)
    BY <1>4, PerformInv, SettleInv DEF Step
  <1>5. CASE \E w \in Runners : Crash(w)
    BY <1>5, CrashInv
  <1>6. CASE Tick
    BY <1>6, TickInv
  <1>7. CASE UNCHANGED vars
    BY <1>7 DEF vars, history, IInv, TypeOK, HeldIsOpen, HeldIsLeased, IdsAreOfSent,
       OutcomesAreTrue, OverdueIsAsked, TakenAfterItsLease
  <1>8. QED
    BY <1>1, <1>2, <1>3, <1>4, <1>5, <1>6, <1>7 DEF Next

(***************************************************************************)
(* The theorems                                                            *)
(***************************************************************************)
\* The invariant holds in every state of every behaviour.
THEOREM Invariant == Spec => []IInv
  <1>1. QED
    BY InitInv, NextInv, PTL DEF Spec

\* Rows, counts and what the runners hold are of their kinds.
THEOREM TypeCorrect == Spec => []TypeOK
  <1>1. IInv => TypeOK
    BY DEF IInv
  <1>2. QED
    BY <1>1, Invariant, PTL

\* However many runners drain the queues, whatever crashes, is retried or comes
\* late, a row is in the hands of two only once some runner has held it for a whole
\* lease (worker/tasks.ts:10-14).
THEOREM TakenLate == Spec => []TakenAfterItsLease
  <1>1. IInv => TakenAfterItsLease
    BY DEF IInv
  <1>2. QED
    BY <1>1, Invariant, PTL
(***************************************************************************)
(* The queues implement AtLeastOnce                                        *)
(***************************************************************************)
\* What became of one row, when its status is written.
LEMMA FateStep ==
    ASSUME TypeOK, NEW r \in Rows, NEW s, status' = [status EXCEPT ![r] = s]
    PROVE  Fate' = [Fate EXCEPT ![r] = FateOf(s)]
  <1>1. \A x \in Rows : status'[x] = IF x = r THEN s ELSE status[x]
    BY DEF TypeOK
  <1>2. \A x \in Rows : FateOf(status'[x]) = IF x = r THEN FateOf(s) ELSE FateOf(status[x])
    BY <1>1
  <1>3. Fate' = [x \in Rows |-> FateOf(status'[x])]
    BY DEF Fate
  <1>4. [Fate EXCEPT ![r] = FateOf(s)]
            = [x \in Rows |-> IF x = r THEN FateOf(s) ELSE FateOf(status[x])]
    BY DEF Fate
  <1>5. QED
    BY <1>2, <1>3, <1>4

\* No status is of two fates.
LEMMA Fates ==
    /\ \A s \in Open : FateOf(s) = "open"
    /\ \A s \in Kept : FateOf(s) = "kept"
    /\ \A s \in Dropped : FateOf(s) = "dropped"
    /\ FateOf("absent") = "absent"
  BY DEF FateOf, Open, Kept, Dropped

\* Nobody has asked for anything yet.
LEMMA InitPromise == Init => Promise!Init
  BY Fates DEF Init, Promise!Init, Fate

\* A step that writes a status of the same fate, or none, is a stutter.
LEMMA SameFate ==
    ASSUME TypeOK, NEW r \in Rows, NEW s, status' = [status EXCEPT ![r] = s],
           FateOf(s) = FateOf(status[r])
    PROVE  UNCHANGED Fate
  <1>1. \A x \in Rows : FateOf(status'[x]) = FateOf(status[x])
    BY DEF TypeOK
  <1>2. QED
    BY <1>1 DEF Fate

\* A step that moves a row from one fate to another moves it so in AtLeastOnce.
LEMMA MoveStep ==
    ASSUME TypeOK, NEW r \in Rows, NEW s, NEW from, status' = [status EXCEPT ![r] = s],
           FateOf(status[r]) \in from, UNCHANGED <<carried, overdue>>
    PROVE  Promise!Move(r, from, FateOf(s))
  BY FateStep DEF Promise!Move, Fate

\* What a runner holds it may write to: it is open, or contested.
LEMMA HeldIsMovable ==
    ASSUME IInv, NEW w \in Runners, NEW r \in batch[w]
    PROVE  FateOf(status[r]) \in Promise!Movable(r)
  <1>1. CASE r \in overdue
    <2>1. status[r] \in Open \cup Kept \cup Dropped
      BY <1>1 DEF IInv, TypeOK, OverdueIsAsked
    <2>2. FateOf(status[r]) \in {"open", "kept", "dropped"}
      BY <2>1, Fates
    <2>3. QED
      BY <1>1, <2>2 DEF Promise!Movable
  <1>2. CASE r \notin overdue
    <2>1. status[r] \in Open
      BY <1>2 DEF IInv, HeldIsOpen
    <2>2. QED
      BY <1>2, <2>1, Fates DEF Promise!Movable
  <1>3. QED
    BY <1>1, <1>2

\* Every step is one of AtLeastOnce, or changes nothing it tells apart.
LEMMA NextPromise == ASSUME IInv, [Next]_vars PROVE [Promise!Next]_(Promise!vars)
  <1>1. TypeOK
    BY DEF IInv
  <1>2. CASE \E r \in Rows : EnqueueTask(r) \/ NotifyJob(r)
    <2>1. PICK r \in Rows : EnqueueTask(r) \/ NotifyJob(r)
      BY <1>2
    <2>2. PICK s \in Open, wait \in Nat : Put(r, s, wait)
      BY <2>1 DEF EnqueueTask, NotifyJob, Open, Quiet
    <2>3. /\ status[r] = "absent" /\ status' = [status EXCEPT ![r] = s]
          /\ UNCHANGED <<carried, overdue>>
      BY <2>2 DEF Put, history
    <2>4. FateOf(status[r]) = "absent" /\ FateOf(s) = "open"
      BY <2>2, <2>3, Fates
    <2>5. Promise!Move(r, {"absent"}, "open")
      BY <1>1, <2>3, <2>4, MoveStep
    <2>6. Promise!Ask(r)
      BY <2>3, <2>5 DEF Promise!Ask
    <2>7. QED
      BY <2>6 DEF Promise!Next
  <1>3. CASE \E w \in Runners, q \in Queues : Claim(w, q)
    <2>1. PICK w \in Runners, q \in Queues : Claim(w, q)
      BY <1>3
    <2>2. PICK b \in Batches({r \in q : Claimable(r)}) : Taken(w, b)
      BY <2>1 DEF Claim
    <2>3. \A r \in b : status[r] \in Open
      BY <2>2 DEF Batches, Claimable
    <2>4. /\ status' = [r \in Rows |-> IF r \in b \cap Messages THEN "queued" ELSE status[r]]
          /\ UNCHANGED <<carried, overdue>>
      BY <2>2 DEF Taken
    <2>5. \A r \in Rows : FateOf(status'[r]) = FateOf(status[r])
      BY <2>3, <2>4, Fates DEF Open
    <2>6. UNCHANGED Fate
      BY <2>5 DEF Fate
    <2>7. QED
      BY <2>4, <2>6 DEF Promise!vars
  <1>4. CASE \E w \in Runners : Succeed(w) \/ Refused(w) \/ ReplyLost(w)
    <2>1. PICK w \in Runners : Succeed(w) \/ Refused(w) \/ ReplyLost(w)
      BY <1>4
    <2>2. UNCHANGED <<Fate, overdue>>
      BY <2>1 DEF Succeed, Refused, ReplyLost, Perform, Fate, history
    <2>3. CASE UNCHANGED carried
      BY <2>2, <2>3 DEF Promise!vars
    <2>4. CASE carried' # carried
      <3>1. PICK r \in batch[w] : carried' = carried \cup {r}
        BY <2>1, <2>4 DEF Succeed, Refused, ReplyLost
      <3>2. r \in Rows
        BY DEF IInv, TypeOK
      <3>3. Fate[r] \in Promise!Movable(r)
        BY <3>2, HeldIsMovable DEF Fate
      <3>4. Promise!CarryOut(r)
        BY <2>2, <3>1, <3>3 DEF Promise!CarryOut
      <3>5. QED
        BY <3>2, <3>4 DEF Promise!Next
    <2>5. QED
      BY <2>3, <2>4
  <1>5. CASE \E w \in Runners : Settle(w)
    <2>1. PICK w \in Runners : Settle(w)
      BY <1>5
    <2>2. PICK r \in batch[w], s \in Open \cup Kept \cup Dropped, wait \in Nat :
              /\ Written(w, r, s, wait) /\ r \in Rows
              /\ s \in Kept => r \in carried
      BY <2>1, SettleFacts
    <2>3. status' = [status EXCEPT ![r] = s] /\ UNCHANGED <<carried, overdue>>
      BY <2>2 DEF Written
    <2>4. FateOf(status[r]) \in Promise!Movable(r)
      BY HeldIsMovable
    <2>5. CASE s \in Open
      <3>1. CASE r \in overdue
        <4>1. Promise!Move(r, Promise!Movable(r), "open")
          BY <1>1, <2>2, <2>3, <2>4, <2>5, Fates, MoveStep
        <4>2. Promise!Relapse(r)
          BY <3>1, <4>1 DEF Promise!Relapse
        <4>3. QED
          BY <2>2, <4>2 DEF Promise!Next
      <3>2. CASE r \notin overdue
        <4>1. FateOf(status[r]) = "open"
          BY <3>2, Fates DEF IInv, HeldIsOpen
        <4>2. QED
          BY <1>1, <2>2, <2>3, <2>5, <4>1, Fates, SameFate DEF Promise!vars
      <3>3. QED
        BY <3>1, <3>2
    <2>6. CASE s \in Kept
      <3>1. Promise!Move(r, Promise!Movable(r), "kept")
        BY <1>1, <2>2, <2>3, <2>4, <2>6, Fates, MoveStep
      <3>2. Promise!Keep(r)
        BY <2>2, <2>3, <2>6, <3>1 DEF Promise!Keep
      <3>3. QED
        BY <2>2, <3>2 DEF Promise!Next
    <2>7. CASE s \in Dropped
      <3>1. Promise!Move(r, Promise!Movable(r), "dropped")
        BY <1>1, <2>2, <2>3, <2>4, <2>7, Fates, MoveStep
      <3>2. Promise!Drop(r)
        BY <2>3, <3>1 DEF Promise!Drop
      <3>3. QED
        BY <2>2, <3>2 DEF Promise!Next
    <2>8. QED
      BY <2>2, <2>5, <2>6, <2>7
  <1>6. CASE \E r \in Rows : RetryOutbox(r)
    <2>1. PICK r \in Rows : RetryOutbox(r)
      BY <1>6
    <2>2. /\ r \in Tasks /\ status[r] \in Dropped
          /\ status' = [status EXCEPT ![r] = "pending"] /\ UNCHANGED <<carried, overdue>>
      BY <2>1 DEF RetryOutbox, history
    <2>3. FateOf(status[r]) = "dropped" /\ FateOf("pending") = "open"
      BY <2>2, Fates DEF Open
    <2>4. Promise!Move(r, {"dropped"}, "open")
      BY <1>1, <2>2, <2>3, MoveStep
    <2>5. Promise!Reopen(r)
      BY <2>2, <2>4, RowsAssumption DEF Promise!Reopen
    <2>6. QED
      BY <2>5 DEF Promise!Next
  <1>7. CASE \E r \in Rows : DeliveryReport(r)
    <2>1. PICK r \in Rows : DeliveryReport(r)
      BY <1>7
    <2>2. r \in ids /\ UNCHANGED <<carried, overdue>>
      BY <2>1 DEF DeliveryReport, history
    <2>3. PICK s \in {"sent", "failed"} : status' = [status EXCEPT ![r] = s]
      BY <2>1 DEF DeliveryReport
    <2>4. /\ r \in Messages /\ r \in Rows /\ r \in carried
          /\ r \notin overdue => status[r] \in {"sent", "failed"}
          /\ r \in overdue => status[r] # "absent"
      BY <2>2 DEF IInv, TypeOK, IdsAreOfSent, OverdueIsAsked, Rows
    <2>5. CASE status[r] \in Open
      <3>1. r \in overdue /\ Promise!Movable(r) = {"open", "kept", "dropped"}
        BY <2>4, <2>5 DEF Open, Promise!Movable
      <3>2. FateOf(status[r]) \in Promise!Movable(r)
        BY <2>5, <3>1, Fates
      <3>3. Promise!Move(r, Promise!Movable(r), FateOf(s))
        BY <1>1, <2>2, <2>3, <2>4, <3>2, MoveStep
      <3>4. FateOf(s) = "kept" \/ FateOf(s) = "dropped"
        BY <2>3, Fates DEF Kept, Dropped
      <3>5. Promise!Keep(r) \/ Promise!Drop(r)
        BY <2>4, <3>3, <3>4 DEF Promise!Keep, Promise!Drop
      <3>6. QED
        BY <2>4, <3>5 DEF Promise!Next
    <2>6. CASE status[r] \notin Open
      <3>1. status[r] \in Kept \cup Dropped
        BY <2>4, <2>6 DEF IInv, TypeOK, Kept, Dropped
      <3>2. FateOf(status[r]) \in {"kept", "dropped"} /\ FateOf(s) \in {"kept", "dropped"}
        BY <2>3, <3>1, Fates DEF Kept, Dropped
      <3>3. Promise!Move(r, {"kept", "dropped"}, FateOf(s))
        BY <1>1, <2>2, <2>3, <2>4, <3>2, MoveStep
      <3>4. Promise!Report(r)
        BY <2>4, <3>2, <3>3 DEF Promise!Report
      <3>5. QED
        BY <2>4, <3>4 DEF Promise!Next
    <2>7. QED
      BY <2>5, <2>6
  <1>8. CASE (\E w \in Runners : Crash(w)) \/ UNCHANGED vars
    <2>1. UNCHANGED <<status, carried, overdue>>
      BY <1>8 DEF Crash, vars, history
    <2>2. QED
      BY <2>1 DEF Promise!vars, Fate
  <1>9. CASE Tick
    <2>1. /\ UNCHANGED <<status, carried>> /\ overdue \subseteq overdue'
          /\ \A r \in overdue' \ overdue : \E w \in Runners : r \in batch[w]
      BY <1>9 DEF Tick
    <2>2. \A r \in overdue' \ overdue : r \in Rows /\ Fate[r] = "open"
      <3>1. SUFFICES ASSUME NEW w \in Runners, NEW r \in batch[w] \ overdue
                     PROVE  r \in Rows /\ Fate[r] = "open"
        BY <2>1
      <3>2. r \in Rows /\ status[r] \in Open
        BY DEF IInv, TypeOK, HeldIsOpen
      <3>3. QED
        BY <3>2, Fates DEF Fate
    <2>3. UNCHANGED Fate
      BY <2>1 DEF Fate
    <2>4. Promise!Contest
      BY <2>1, <2>2, <2>3 DEF Promise!Contest
    <2>5. QED
      BY <2>4 DEF Promise!Next
  <1>10. QED
    BY <1>2, <1>3, <1>4, <1>5, <1>6, <1>7, <1>8, <1>9 DEF Next, Step

\* The queues keep the promise of an at-least-once queue for any number of rows
\* and runners and any crashes; a runner that holds a row beyond its lease may
\* reopen it or close it again, but marks it as kept only after an effect.
THEOREM Implements == Spec => KeepsThePromise
  <1>1. Init => Promise!Init
    BY InitPromise
  <1>2. IInv /\ [Next]_vars => [Promise!Next]_(Promise!vars)
    BY NextPromise
  <1>3. QED
    BY <1>1, <1>2, Invariant, PTL DEF Spec, Promise!Spec, KeepsThePromise
(***************************************************************************)
(* What it takes to strand a message                                       *)
(***************************************************************************)
\* A claim returns the attempts it has written.
SeenIsWritten == \A w \in Runners : \A r \in batch[w] \ overdue : seen[w][r] = attempts[r]

\* A row is asked for once, with no attempts.
AbsentIsNew == \A r \in Rows : status[r] = "absent" => attempts[r] = 0

\* A message that has used up its attempts and is still to be sent has lost a run
\* (unless a late runner has had it), and one past them that nobody holds has lost two.
RunsAreLost ==
    \A r \in Messages \ overdue : status[r] \in Open =>
        /\ attempts[r] >= GiveUp /\ ~Held(r) => faults >= 1
        /\ attempts[r] > GiveUp => faults >= 1
        /\ attempts[r] > GiveUp /\ ~Held(r) => faults >= 2

SInv == IInv /\ SeenIsWritten /\ AbsentIsNew /\ RunsAreLost

\* Initially there is nothing to lose.
LEMMA InitLost == Init => SInv
  BY InitInv DEF Init, SInv, SeenIsWritten, AbsentIsNew, RunsAreLost, Open, Rows

\* The counts are numbers.
LEMMA Counts ==
    ASSUME IInv
    PROVE  /\ \A r \in Rows : attempts[r] \in Nat
           /\ faults \in Nat /\ MaxFaults \in Nat /\ GiveUp \in Nat /\ GiveUp >= 1
           /\ Messages \subseteq Rows /\ Tasks \subseteq Rows
  BY GiveUpAssumption, FaultsAssumption DEF IInv, TypeOK, Rows

\* A claim past the last attempt is of a message whose run was lost.
LEMMA ClaimLost ==
    ASSUME SInv, NEW w \in Runners, NEW q \in Queues, Claim(w, q)
    PROVE  SeenIsWritten' /\ AbsentIsNew' /\ RunsAreLost'
  <1>1. PICK b \in Batches({r \in q : Claimable(r)}) : Taken(w, b)
    BY DEF Claim
  <1>2. /\ b \in SUBSET Rows /\ \A r \in b : status[r] \in Open /\ due[r] = 0
    BY <1>1 DEF Batches, Claimable, Queues, Rows
  <1>3. /\ batch' = [batch EXCEPT ![w] = b]
        /\ attempts' = [r \in Rows |-> IF r \in b THEN attempts[r] + 1 ELSE attempts[r]]
        /\ seen' = [seen EXCEPT ![w] = [r \in Rows |-> IF r \in b THEN attempts[r] + 1 ELSE 0]]
        /\ status' = [r \in Rows |-> IF r \in b \cap Messages THEN "queued" ELSE status[r]]
        /\ UNCHANGED <<overdue, faults>>
    BY <1>1 DEF Taken
  <1>4. IInv /\ batch[w] = {}
    BY DEF SInv, Claim, Idle
  <1>5. batch'[w] = b /\ seen'[w] = [r \in Rows |-> IF r \in b THEN attempts[r] + 1 ELSE 0]
    BY <1>3, <1>4 DEF IInv, TypeOK
  <1>6. \A v \in Runners \ {w} : /\ batch'[v] = batch[v] /\ seen'[v] = seen[v]
                                 /\ batch[v] \cap b \subseteq overdue /\ batch[v] \subseteq Rows
    BY <1>2, <1>3, <1>4, HeldIsNotDue DEF IInv, TypeOK
  <1>7. \A r \in b \ overdue : ~Held(r)
    BY <1>2, <1>4, HeldIsNotDue DEF Held
  <1>8. \A r \in Rows \ b : Held(r)' <=> Held(r)
    BY <1>4, <1>5, <1>6 DEF Held
  <1>9. SeenIsWritten'
    <2>1. \A r \in b : seen'[w][r] = attempts'[r]
      BY <1>2, <1>3, <1>5
    <2>2. \A v \in Runners \ {w} : \A r \in batch[v] \ overdue : seen'[v][r] = attempts'[r]
      BY <1>3, <1>6 DEF SInv, SeenIsWritten
    <2>3. QED
      BY <1>3, <1>5, <1>6, <2>1, <2>2 DEF SeenIsWritten
  <1>10. AbsentIsNew'
    BY <1>2, <1>3 DEF SInv, AbsentIsNew, Open
  <1>11. RunsAreLost'
    <2>1. SUFFICES ASSUME NEW r \in Messages \ overdue, status'[r] \in Open
                   PROVE  /\ attempts'[r] >= GiveUp /\ ~Held(r)' => faults' >= 1
                          /\ attempts'[r] > GiveUp => faults' >= 1
                          /\ attempts'[r] > GiveUp /\ ~Held(r)' => faults' >= 2
      BY <1>3 DEF RunsAreLost
    <2>2. r \in Rows /\ attempts[r] \in Nat /\ GiveUp \in Nat /\ faults \in Nat
      BY <1>4, Counts
    <2>3. CASE r \in b
      <3>1. attempts'[r] = attempts[r] + 1 /\ faults' = faults /\ Held(r)'
        BY <1>3, <1>5, <2>2, <2>3 DEF Held
      <3>2. attempts[r] >= GiveUp => faults >= 1
        BY <1>2, <1>7, <2>3 DEF SInv, RunsAreLost
      <3>3. QED
        BY <2>2, <3>1, <3>2
    <2>4. CASE r \notin b
      <3>1. attempts'[r] = attempts[r] /\ faults' = faults /\ status'[r] = status[r]
        BY <1>3, <2>2, <2>4
      <3>2. QED
        BY <1>8, <2>1, <2>2, <2>4, <3>1 DEF SInv, RunsAreLost
    <2>5. QED
      BY <2>3, <2>4
  <1>12. QED
    BY <1>9, <1>10, <1>11

\* A message that is put back after a failure has attempts left.
LEMMA SettleLost ==
    ASSUME SInv, NEW w \in Runners, Settle(w)
    PROVE  SeenIsWritten' /\ AbsentIsNew' /\ RunsAreLost'
  <1>1. IInv
    BY DEF SInv
  <1>2. PICK r \in batch[w], s \in Open \cup Kept \cup Dropped, wait \in Nat :
            Written(w, r, s, wait) /\ r \in Rows /\ (s \in Open => ~Final(w, r))
    BY <1>1, SettleFacts
  <1>3. /\ status' = [status EXCEPT ![r] = s]
        /\ batch' = [batch EXCEPT ![w] = @ \ {r}]
        /\ seen' = [seen EXCEPT ![w][r] = 0]
        /\ UNCHANGED <<attempts, overdue, faults>>
    BY <1>2 DEF Written
  <1>4. \A x \in Rows : status'[x] = IF x = r THEN s ELSE status[x]
    BY <1>1, <1>3 DEF IInv, TypeOK
  <1>5. /\ batch'[w] = batch[w] \ {r} /\ batch[w] \subseteq Rows
        /\ \A v \in Runners \ {w} : batch'[v] = batch[v]
    BY <1>1, <1>3 DEF IInv, TypeOK
  <1>6. \A v \in Runners : \A x \in batch'[v] : x \in Rows /\ seen'[v][x] = seen[v][x]
    BY <1>1, <1>3, <1>5 DEF IInv, TypeOK
  <1>7. SeenIsWritten'
    BY <1>3, <1>5, <1>6 DEF SInv, SeenIsWritten
  <1>8. AbsentIsNew'
    BY <1>3, <1>4 DEF SInv, AbsentIsNew, Open, Kept, Dropped
  <1>9. \A x \in Rows \ {r} : Held(x)' <=> Held(x)
    BY <1>5 DEF Held
  <1>10. s \in Open /\ r \in Messages \ overdue => attempts[r] < GiveUp
    <2>1. r \notin overdue => seen[w][r] = attempts[r]
      BY DEF SInv, SeenIsWritten
    <2>2. r \in Messages => Tries(r) = GiveUp
      BY RowsAssumption DEF Tries
    <2>3. QED
      BY <1>1, <1>2, <2>1, <2>2, Counts DEF Final
  <1>11. RunsAreLost'
    <2>1. SUFFICES ASSUME NEW x \in Messages \ overdue, status'[x] \in Open
                   PROVE  /\ attempts'[x] >= GiveUp /\ ~Held(x)' => faults' >= 1
                          /\ attempts'[x] > GiveUp => faults' >= 1
                          /\ attempts'[x] > GiveUp /\ ~Held(x)' => faults' >= 2
      BY <1>3 DEF RunsAreLost
    <2>2. x \in Rows /\ attempts[x] \in Nat /\ GiveUp \in Nat /\ faults \in Nat
      BY <1>1, Counts
    <2>3. CASE x = r
      BY <1>3, <1>4, <1>10, <2>1, <2>2, <2>3
    <2>4. CASE x # r
      BY <1>3, <1>4, <1>9, <2>1, <2>2, <2>4 DEF SInv, RunsAreLost
    <2>5. QED
      BY <2>3, <2>4
  <1>12. QED
    BY <1>7, <1>8, <1>11

\* A crash loses one run of each message in hand.
LEMMA CrashLost ==
    ASSUME SInv, NEW w \in Runners, Crash(w)
    PROVE  SeenIsWritten' /\ AbsentIsNew' /\ RunsAreLost'
  <1>1. IInv
    BY DEF SInv
  <1>2. /\ batch' = [batch EXCEPT ![w] = {}]
        /\ seen' = [seen EXCEPT ![w] = [r \in Rows |-> 0]]
        /\ faults' = faults + 1 /\ UNCHANGED <<status, attempts, overdue>>
    BY DEF Crash
  <1>3. /\ batch'[w] = {}
        /\ \A v \in Runners \ {w} : batch'[v] = batch[v] /\ seen'[v] = seen[v]
    BY <1>1, <1>2 DEF IInv, TypeOK
  <1>4. SeenIsWritten' /\ AbsentIsNew'
    BY <1>2, <1>3 DEF SInv, SeenIsWritten, AbsentIsNew
  <1>5. RunsAreLost'
    <2>1. SUFFICES ASSUME NEW r \in Messages \ overdue, status[r] \in Open
                   PROVE  /\ attempts[r] >= GiveUp /\ ~Held(r)' => faults' >= 1
                          /\ attempts[r] > GiveUp => faults' >= 1
                          /\ attempts[r] > GiveUp /\ ~Held(r)' => faults' >= 2
      BY <1>2 DEF RunsAreLost
    <2>2. attempts[r] > GiveUp => faults >= 1
      BY <2>1 DEF SInv, RunsAreLost
    <2>3. QED
      BY <1>1, <1>2, <2>2, Counts
  <1>6. QED
    BY <1>4, <1>5

\* New rows, retries and reports are of rows in nobody's hands.
LEMMA RowsLost ==
    ASSUME SInv, NEW r \in Rows,
           EnqueueTask(r) \/ NotifyJob(r) \/ RetryOutbox(r) \/ DeliveryReport(r)
    PROVE  SeenIsWritten' /\ AbsentIsNew' /\ RunsAreLost'
  <1>1. IInv /\ UNCHANGED overdue /\ \A x \in Rows : Held(x)' <=> Held(x)
    BY DEF SInv, Held, EnqueueTask, NotifyJob, Put, RetryOutbox, DeliveryReport, history
  <1>2. CASE EnqueueTask(r) \/ NotifyJob(r)
    <2>1. PICK s \in Open, wait \in Nat : Put(r, s, wait)
      BY <1>2 DEF EnqueueTask, NotifyJob, Open, Quiet
    <2>2. /\ attempts[r] = 0 /\ UNCHANGED <<attempts, batch, seen, faults>>
          /\ \A x \in Rows : status'[x] = IF x = r THEN s ELSE status[x]
      BY <1>1, <2>1 DEF Put, IInv, TypeOK, SInv, AbsentIsNew
    <2>3. SeenIsWritten' /\ AbsentIsNew'
      BY <1>1, <2>2 DEF SInv, SeenIsWritten, AbsentIsNew
    <2>4. RunsAreLost'
      BY <1>1, <2>2, Counts DEF SInv, RunsAreLost
    <2>5. QED
      BY <2>3, <2>4
  <1>3. CASE RetryOutbox(r)
    <2>1. /\ r \in Tasks /\ status[r] \in Dropped
          /\ status' = [status EXCEPT ![r] = "pending"]
          /\ attempts' = [attempts EXCEPT ![r] = 0]
          /\ faults' = faults + 1 /\ UNCHANGED <<batch, seen>>
      BY <1>3 DEF RetryOutbox
    <2>2. /\ \A x \in Rows : /\ status'[x] = IF x = r THEN "pending" ELSE status[x]
                             /\ attempts'[x] = IF x = r THEN 0 ELSE attempts[x]
          /\ r \notin Messages
      BY <1>1, <2>1, RowsAssumption DEF IInv, TypeOK
    <2>3. \A v \in Runners : r \notin batch[v] \ overdue /\ batch[v] \subseteq Rows
      BY <1>1, <2>1 DEF IInv, TypeOK, HeldIsOpen, Open, Dropped
    <2>4. SeenIsWritten' /\ AbsentIsNew'
      BY <1>1, <2>1, <2>2, <2>3 DEF SInv, SeenIsWritten, AbsentIsNew
    <2>5. RunsAreLost'
      BY <1>1, <2>1, <2>2, Counts DEF SInv, RunsAreLost
    <2>6. QED
      BY <2>4, <2>5
  <1>4. CASE DeliveryReport(r)
    <2>1. PICK s \in {"sent", "failed"} : status' = [status EXCEPT ![r] = s]
      BY <1>4 DEF DeliveryReport
    <2>2. /\ UNCHANGED <<attempts, batch, seen, faults>>
          /\ \A x \in Rows : status'[x] = IF x = r THEN s ELSE status[x]
      BY <1>1, <1>4, <2>1 DEF DeliveryReport, IInv, TypeOK
    <2>3. SeenIsWritten' /\ AbsentIsNew'
      BY <1>1, <2>2 DEF SInv, SeenIsWritten, AbsentIsNew
    <2>4. RunsAreLost'
      BY <1>1, <2>2, Counts DEF SInv, RunsAreLost, Open
    <2>5. QED
      BY <2>3, <2>4
  <1>5. QED
    BY <1>2, <1>3, <1>4

\* Effects and ticks lose no run.
LEMMA WorkLost ==
    ASSUME SInv, \/ \E w \in Runners : Succeed(w) \/ Refused(w) \/ ReplyLost(w)
                 \/ Tick \/ UNCHANGED vars
    PROVE  SeenIsWritten' /\ AbsentIsNew' /\ RunsAreLost'
  <1>1. /\ UNCHANGED <<status, attempts, batch, seen>> /\ faults' \in {faults, faults + 1}
        /\ overdue \subseteq overdue'
    BY DEF Succeed, Refused, ReplyLost, Perform, Tick, vars, history
  <1>2. IInv /\ \A x \in Rows : Held(x)' <=> Held(x)
    BY <1>1 DEF SInv, Held
  <1>3. SeenIsWritten' /\ AbsentIsNew'
    BY <1>1 DEF SInv, SeenIsWritten, AbsentIsNew
  <1>4. RunsAreLost'
    BY <1>1, <1>2, Counts DEF SInv, RunsAreLost
  <1>5. QED
    BY <1>3, <1>4

\* Every step keeps count of the lost runs.
LEMMA NextLost == ASSUME SInv, [Next]_vars PROVE SInv'
  <1>1. IInv'
    BY NextInv DEF SInv
  <1>2. CASE \E w \in Runners, q \in Queues : Claim(w, q)
    BY <1>1, <1>2, ClaimLost DEF SInv
  <1>3. CASE \E w \in Runners : Settle(w)
    BY <1>1, <1>3, SettleLost DEF SInv
  <1>4. CASE \E w \in Runners : Crash(w)
    BY <1>1, <1>4, CrashLost DEF SInv
  <1>5. CASE \E r \in Rows : EnqueueTask(r) \/ NotifyJob(r) \/ RetryOutbox(r) \/ DeliveryReport(r)
    BY <1>1, <1>5, RowsLost DEF SInv
  <1>6. CASE \/ \E w \in Runners : Succeed(w) \/ Refused(w) \/ ReplyLost(w)
             \/ Tick \/ UNCHANGED vars
    BY <1>1, <1>6, WorkLost DEF SInv
  <1>7. QED
    BY <1>2, <1>3, <1>4, <1>5, <1>6 DEF Next, Step

\* A message is stranded only by two runs lost or by a late runner, never by errors
\* alone: whatever the number of attempts, of messages and of runners, and however
\* long a batch takes (worker/tasks.ts:117,145).
THEOREM StrandingTakesTwo == Spec => []StrandedByCrashes
  <1>1. SInv => StrandedByCrashes
    <2>1. \A r \in Messages : Stranded(r) /\ SInv => faults >= 2 \/ r \in overdue
      BY DEF SInv, RunsAreLost, Stranded
    <2>2. QED
      BY <2>1 DEF StrandedByCrashes
  <1>2. Spec => []SInv
    BY InitLost, NextLost, PTL DEF Spec
  <1>3. QED
    BY <1>1, <1>2, PTL
=============================================================================
