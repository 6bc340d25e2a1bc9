----------------------------- MODULE WorkQueue -----------------------------
(***************************************************************************)
(* The two queues the background work drains: outbox rows (courier         *)
(* bookings, cancellations, invoice PDFs) and notifications (SMS, email).  *)
(* Several runners, the resident worker and calls of /api/internal/tick,   *)
(* claim batches of due rows under a lease, carry the effects out one      *)
(* after the other and record each result on its own.                      *)
(*                                                                         *)
(* Time passes in ticks of one effect's longest duration (the 15 s timeout *)
(* of the providers); a row knows the ticks until it is due.  A batch may  *)
(* take longer than its lease (30 messages do, worker/tasks.ts:21,120):    *)
(* then another runner claims what the first one still holds, and the late *)
(* one writes its results all the same.                                    *)
(***************************************************************************)
EXTENDS Naturals, FiniteSets

CONSTANTS Tasks,        \* rows of outbox
          Messages,     \* rows of notifications, channel sms or email
          Runners,      \* runs of processOutbox or sendNotifications under way
          Lease,        \* LEASE_SECONDS, in ticks
          Limit,        \* the limit of a claim
          TaskTries,    \* attempts after which a task's failure is final
          GiveUp,       \* and a message's
          MaxFaults     \* bound: crashes, lost replies and retries by hand

ASSUME LeaseAssumption == Lease \in Nat \ {0}
ASSUME LimitAssumption == Limit \in Nat \ {0}
ASSUME GiveUpAssumption == TaskTries \in Nat \ {0} /\ GiveUp \in Nat \ {0}
ASSUME FaultsAssumption == MaxFaults \in Nat
ASSUME RowsAssumption ==
    /\ Tasks \cap Messages = {} /\ IsFiniteSet(Tasks \cup Messages)
    /\ "none" \notin Tasks \cup Messages

VARIABLES status,    \* outbox.status, notifications.status
          attempts,  \* attempts
          due,       \* next_attempt_at / send_after, as ticks from now
          batch,     \* the rows a runner has claimed and not yet settled
          seen,      \* attempts as the claim returned them
          result,    \* how the effect a runner is at has turned out
          carried,   \* rows whose effect has happened
          ids,       \* messages whose provider_message_id is recorded
          spent,     \* runners whose present effect has taken its tick
          age,       \* history: ticks since a runner has claimed its batch
          overdue,   \* history: rows some runner has held for a whole lease
          faults     \* crashes, lost replies and retries so far

history == <<age, overdue>>
vars == <<status, attempts, due, batch, seen, result, carried, ids, spent, history, faults>>

Rows == Tasks \cup Messages
Queues == {Tasks, Messages}
Backoff == 1                      \* ticks before a failed row is due again
Quiet == 1                        \* ticks until the quiet hours end
None == [row |-> "none", how |-> "none"]

Open == {"pending", "queued", "held_quiet_hours"}
Kept == {"done", "sent"}              \* "sent" stands for "delivered" too
Dropped == {"dead", "failed"}

Tries(r) == IF r \in Tasks THEN TaskTries ELSE GiveUp

\* Mutant of Claimable: a task is not claimed past its last attempt either.
ClaimableOnce(r) == status[r] \in Open /\ due[r] = 0 /\ attempts[r] < Tries(r) + 1

(* A message is not claimed a fifth time past its fourth, final, failure;  *)
(* an outbox row has no such limit.                                        *)
Claimable(r) == /\ status[r] \in Open /\ due[r] = 0
                /\ r \in Messages => attempts[r] < GiveUp + 1

Idle(w) == batch[w] = {} /\ result[w] = None
Held(r) == \E w \in Runners : r \in batch[w]

----------------------------------------------------------------------------

TypeOK ==
    /\ status \in [Rows -> Open \cup Kept \cup Dropped \cup {"absent"}]
    /\ \A r \in Tasks : status[r] \in {"absent", "pending", "done", "dead"}
    /\ \A r \in Messages : status[r] \notin {"pending", "done", "dead"}
    /\ attempts \in [Rows -> Nat]
    /\ due \in [Rows -> Nat]
    /\ batch \in [Runners -> SUBSET Rows]
    /\ seen \in [Runners -> [Rows -> Nat]]
    /\ result \in [Runners -> {None} \cup [row : Rows, how : {"ok", "error", "fatal"}]]
    /\ carried \in SUBSET Rows
    /\ ids \in SUBSET Messages
    /\ spent \in SUBSET Runners
    /\ age \in [Runners -> Nat]
    /\ overdue \in SUBSET Rows
    /\ faults \in 0..MaxFaults

Init ==
    /\ status = [r \in Rows |-> "absent"]
    /\ attempts = [r \in Rows |-> 0]
    /\ due = [r \in Rows |-> 0]
    /\ batch = [w \in Runners |-> {}]
    /\ seen = [w \in Runners |-> [r \in Rows |-> 0]]
    /\ result = [w \in Runners |-> None]
    /\ carried = {}
    /\ ids = {}
    /\ spent = {}
    /\ age = [w \in Runners |-> 0]
    /\ overdue = {}
    /\ faults = 0

----------------------------------------------------------------------------
(* Rows come in with the transaction that asks for the effect.             *)

Put(r, s, wait) == /\ status[r] = "absent"
                   /\ status' = [status EXCEPT ![r] = s]
                   /\ due' = [due EXCEPT ![r] = wait]
                   /\ UNCHANGED <<attempts, batch, seen, result, carried, ids, spent, history, faults>>

EnqueueTask(r) == r \in Tasks /\ Put(r, "pending", 0)

NotifyJob(r) == /\ r \in Messages
                /\ Put(r, "queued", 0) \/ Put(r, "held_quiet_hours", Quiet)

----------------------------------------------------------------------------
(* One run.                                                                *)

\* claimOutbox, claimNotifications: due rows, not locked, up to the limit.
Taken(w, b) ==
    /\ batch' = [batch EXCEPT ![w] = b]
    /\ attempts' = [r \in Rows |-> IF r \in b THEN attempts[r] + 1 ELSE attempts[r]]
    /\ seen' = [seen EXCEPT ![w] = [r \in Rows |-> IF r \in b THEN attempts[r] + 1 ELSE 0]]
    /\ status' = [r \in Rows |-> IF r \in b \cap Messages THEN "queued" ELSE status[r]]
    /\ age' = [age EXCEPT ![w] = 0]
    /\ UNCHANGED <<result, carried, ids, spent, overdue, faults>>

Batches(ready) == {b \in SUBSET ready : Cardinality(b) \in 1..Limit}

\* Mutant of Claim: rows are locked, not leased.
ClaimUnleased(w, q) ==
    /\ Idle(w)
    /\ \E b \in Batches({r \in q : Claimable(r)}) : Taken(w, b) /\ UNCHANGED due

Claim(w, q) ==
    /\ Idle(w)
    /\ LET ready == {r \in q : Claimable(r)} IN
       \E b \in Batches(ready) :
        /\ b = ready \/ Cardinality(b) = Limit
        /\ due' = [r \in Rows |-> IF r \in b THEN Lease ELSE due[r]]
        /\ Taken(w, b)

\* runOutbox, send: the effect itself, outside any transaction.
Perform(w, r, how) ==
    /\ r \in batch[w] /\ result[w] = None
    /\ result' = [result EXCEPT ![w] = [row |-> r, how |-> how]]
    /\ UNCHANGED <<status, attempts, due, batch, seen, ids, spent, history>>

Succeed(w) == \E r \in batch[w] :
    Perform(w, r, "ok") /\ carried' = carried \cup {r} /\ UNCHANGED faults

Refused(w) == \E r \in batch[w] :
    \E how \in IF r \in Tasks THEN {"error", "fatal"} ELSE {"error"} :
        Perform(w, r, how) /\ UNCHANGED <<carried, faults>>

\* The provider did it, the answer timed out.
ReplyLost(w) == faults < MaxFaults /\ \E r \in batch[w] :
    Perform(w, r, "error") /\ carried' = carried \cup {r} /\ faults' = faults + 1

\* The update that ends each turn of the loop; it names the row by id only.
\* When a closed row would have been due is forgotten.
Written(w, r, s, wait) ==
    /\ status' = [status EXCEPT ![r] = s]
    /\ due' = [due EXCEPT ![r] = wait]
    /\ batch' = [batch EXCEPT ![w] = @ \ {r}]
    /\ seen' = [seen EXCEPT ![w][r] = 0]
    /\ result' = [result EXCEPT ![w] = None]
    /\ spent' = spent \ {w}
    /\ ids' = IF s = "sent" THEN ids \cup {r} ELSE ids
    /\ age' = IF batch[w] = {r} THEN [age EXCEPT ![w] = 0] ELSE age
    /\ UNCHANGED <<attempts, carried, overdue, faults>>

\* Mutant of Final: one more attempt is granted.
FinalLate(w, r) == result[w].how = "fatal" \/ seen[w][r] > Tries(r)

Final(w, r) == result[w].how = "fatal" \/ seen[w][r] >= Tries(r)

\* Mutant of Settle: the outcome of the effect is not looked at.
SettleUnread(w) == \E r \in batch[w] :
    /\ result[w].row = r
    /\ Written(w, r, IF r \in Tasks THEN "done" ELSE "sent", 0)

Settle(w) == \E r \in batch[w] :
    /\ result[w].row = r
    /\ IF result[w].how = "ok"
       THEN Written(w, r, IF r \in Tasks THEN "done" ELSE "sent", 0)
       ELSE IF Final(w, r)
       THEN Written(w, r, IF r \in Tasks THEN "dead" ELSE "failed", 0)
       ELSE Written(w, r, IF r \in Tasks THEN "pending" ELSE "queued", Backoff)

\* The process stops; what it held is nobody's until the lease lapses.
Crash(w) ==
    /\ ~Idle(w) /\ faults < MaxFaults
    /\ batch' = [batch EXCEPT ![w] = {}]
    /\ seen' = [seen EXCEPT ![w] = [r \in Rows |-> 0]]
    /\ result' = [result EXCEPT ![w] = None]
    /\ spent' = spent \ {w}
    /\ age' = [age EXCEPT ![w] = 0]
    /\ faults' = faults + 1
    /\ UNCHANGED <<status, attempts, due, carried, ids, overdue>>

----------------------------------------------------------------------------
(* Time, and those who write rows from outside the loop.                   *)

\* No effect outlasts its timeout: a runner at work sees one tick per effect.
Tick ==
    /\ \A w \in Runners : Idle(w) \/ w \notin spent
    /\ \E r \in Rows : due[r] > 0
    /\ due' = [r \in Rows |-> IF due[r] > 0 THEN due[r] - 1 ELSE 0]
    /\ spent' = {w \in Runners : ~Idle(w)}
    /\ age' = [w \in Runners |-> IF Idle(w) THEN 0 ELSE age[w] + 1]
    /\ overdue' = overdue \cup UNION {batch[w] : w \in {v \in Runners : age'[v] >= Lease}}
    /\ UNCHANGED <<status, attempts, batch, seen, result, carried, ids, faults>>

\* retryOutboxAction: the platform's admin tries a given-up row again.
RetryOutbox(r) ==
    /\ r \in Tasks /\ status[r] \in Dropped
    /\ faults < MaxFaults /\ faults' = faults + 1
    /\ status' = [status EXCEPT ![r] = "pending"]
    /\ attempts' = [attempts EXCEPT ![r] = 0]
    /\ due' = [due EXCEPT ![r] = 0]
    /\ UNCHANGED <<batch, seen, result, carried, ids, spent, history>>

\* POST /api/webhooks/sms/dlr: matched by the id that "sent" recorded, whatever
\* the row's status is by now.
DeliveryReport(r) ==
    /\ r \in ids
    /\ \E s \in {"sent", "failed"} : status' = [status EXCEPT ![r] = s]
    /\ UNCHANGED <<attempts, due, batch, seen, result, carried, ids, spent, history, faults>>

----------------------------------------------------------------------------

Step(w) == Succeed(w) \/ Refused(w) \/ ReplyLost(w) \/ Settle(w)

Next == \/ \E r \in Rows : EnqueueTask(r) \/ NotifyJob(r) \/ RetryOutbox(r) \/ DeliveryReport(r)
        \/ \E w \in Runners : (\E q \in Queues : Claim(w, q)) \/ Step(w) \/ Crash(w)
        \/ Tick

Spec == Init /\ [][Next]_vars

(* The worker is restarted for ever (restart: unless-stopped), its loop     *)
(* comes round and every effect ends: some runner goes on, or time does.   *)
Work == Tick \/ \E w \in Runners : (\E q \in Queues : Claim(w, q)) \/ Step(w)

FairSpec == Spec /\ WF_vars(Work)

----------------------------------------------------------------------------

(* Only a row that some runner has held for a whole lease is ever in the   *)
(* hands of two: whatever is claimed, retried, or left by a crash is not   *)
(* taken early (worker/tasks.ts:10-14, 24-29, 110-116).                    *)
TakenAfterItsLease ==
    \A w, v \in Runners : w # v => batch[w] \cap batch[v] \subseteq overdue

(* A message that no claim will ever take again, neither sent nor failed,  *)
(* is left behind by two lost runs, or by a runner that came late, and     *)
(* never by errors alone: the final failure is recorded one attempt before *)
(* claims stop (117, 145).                                                 *)
Stranded(r) == /\ r \in Messages /\ status[r] \in Open
               /\ attempts[r] > GiveUp /\ ~Held(r)

StrandedByCrashes == \A r \in Messages : Stranded(r) => faults >= 2 \/ r \in overdue

(* What the queue was asked to do is done or given up in the open, unless  *)
(* it strands: nothing due is forgotten, whatever fails, crashes or comes  *)
(* back (processOutbox 31-50, sendNotifications 122-151).                  *)
EveryRowEnds == <>[](\A r \in Rows : status[r] \in Open => Stranded(r))

(* What became of each row, as AtLeastOnce sees it.                        *)
FateOf(s) == IF s \in Open THEN "open" ELSE IF s \in Kept THEN "kept"
             ELSE IF s \in Dropped THEN "dropped" ELSE "absent"
Fate == [r \in Rows |-> FateOf(status[r])]

Promise == INSTANCE AtLeastOnce WITH fate <- Fate, contested <- overdue, Reported <- Messages

(* The queues keep the promise of an at-least-once queue: an effect has    *)
(* happened before its row says so, and only a provider's report or an     *)
(* admin's retry changes what became of a row, unless a runner has held it *)
(* beyond its lease: such a late one writes over what another has recorded *)
(* (its update names the row by id, 40, 143), and may reopen a row that    *)
(* was sent.                                                               *)
KeepsThePromise == Promise!Spec

(***************************************************************************)
(* What the comments say and the code does not do                          *)
(***************************************************************************)
(* One message is never in the hands of two workers (worker/tasks.ts:110). *)
OneHolder == \A w, v \in Runners : w # v => batch[w] \cap batch[v] = {}

(* EveryRowEnds without its exception, as worker/tasks.ts:12-13 has it: a  *)
(* crashed run's rows come back once the lease lapses.                     *)
CrashedRowsComeBack == <>[](\A r \in Messages : status[r] \notin Open)
=============================================================================
