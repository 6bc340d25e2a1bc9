--------------------------- MODULE PaymentLedger ---------------------------
(***************************************************************************)
(* What the payment code promises a job and its customer, whichever way a  *)
(* payment comes in: an attempt is settled at most once, as a success only *)
(* after a charge, and the job is moved on once, by a payment recorded     *)
(* while the job waits for one.  Only an attempt whose own request lost    *)
(* the news of it may be disowned, once, whatever has become of it.        *)
(***************************************************************************)
CONSTANT Payments

VARIABLES
    payment,   \* the state of each attempt
    charged,   \* the attempts the customer was charged for
    doubted,   \* the attempts whose request takes them for failed
    job        \* whether the job waits for the payment

ledgerVars == <<payment, charged, doubted, job>>

Init ==
    /\ payment = [p \in Payments |-> "none"]
    /\ charged = {}
    /\ doubted = {}
    /\ job = "due"

SettleAs(p, result) ==
    /\ payment[p] = "open"
    /\ payment' = [payment EXCEPT ![p] = result]
    /\ UNCHANGED <<charged, doubted>>

\* An attempt is made.
Attempt(p) ==
    /\ payment[p] = "none"
    /\ payment' = [payment EXCEPT ![p] = "open"]
    /\ UNCHANGED <<charged, doubted, job>>

\* The customer pays, before or after we have given the attempt up.
Charge(p) ==
    /\ payment[p] # "none" /\ p \notin charged
    /\ charged' = charged \cup {p}
    /\ UNCHANGED <<payment, doubted, job>>

\* A charge is recorded and moves the job that waits for it.
Succeed(p) ==
    /\ p \in charged
    /\ SettleAs(p, "success")
    /\ job' = IF job = "due" THEN "paid" ELSE job

Fail(p) == SettleAs(p, "failed") /\ UNCHANGED job

\* The request loses the news that its attempt was made, gives the attempt up
\* when it comes to that, or is forgotten with all others in a crash.
Doubt(p) ==
    /\ payment[p] = "open"
    /\ doubted' = doubted \cup {p}
    /\ UNCHANGED <<payment, charged, job>>

Disown(p) ==
    /\ p \in doubted
    /\ payment' = [payment EXCEPT ![p] = "failed"]
    /\ doubted' = doubted \ {p}
    /\ UNCHANGED <<charged, job>>

Forget == doubted' = {} /\ UNCHANGED <<payment, charged, job>>

\* Cash is recorded and moves the job in one step, or the job does not wait
\* for a payment any more.
Otherwise ==
    /\ job = "due"
    /\ job' \in {"paid", "left"}
    /\ UNCHANGED <<payment, charged, doubted>>

Next ==
    \/ \E p \in Payments :
        Attempt(p) \/ Charge(p) \/ Succeed(p) \/ Fail(p) \/ Doubt(p) \/ Disown(p)
    \/ Otherwise \/ Forget

Spec == Init /\ [][Next]_ledgerVars

=============================================================================
