---------------------------- MODULE AtLeastOnce ----------------------------
(***************************************************************************)
(* What a queue of side effects promises its users (docs/PLAN.md:12,49;    *)
(* the comment of worker/tasks.ts:10-14): an effect is carried out at      *)
(* least once before its row is marked as kept, a row is given up in the   *)
(* open, and a kept row stays kept unless the receiving side reports back  *)
(* otherwise.  Of a row that two may be working on only the first of these *)
(* is promised.  WorkQueue implements this module.                         *)
(***************************************************************************)
CONSTANTS Rows,      \* side effects somebody asked for
          Reported   \* those whose receiver reports back afterwards

VARIABLES fate,      \* what became of each row
          carried,   \* rows whose effect has happened at least once
          contested  \* rows more than one may be working on

vars == <<fate, carried, contested>>

Fate == {"absent", "open", "kept", "dropped"}

TypeOK == /\ fate \in [Rows -> Fate]
          /\ carried \in SUBSET Rows /\ contested \in SUBSET Rows

Init == fate = [r \in Rows |-> "absent"] /\ carried = {} /\ contested = {}

Move(r, from, to) == /\ fate[r] \in from /\ fate' = [fate EXCEPT ![r] = to]
                     /\ UNCHANGED <<carried, contested>>

\* A row that has been asked for and may move although it was kept or dropped.
Movable(r) == IF r \in contested THEN {"open", "kept", "dropped"} ELSE {"open"}

Ask(r) == Move(r, {"absent"}, "open")
CarryOut(r) == /\ fate[r] \in Movable(r)
               /\ carried' = carried \cup {r} /\ UNCHANGED <<fate, contested>>
Keep(r) == r \in carried /\ Move(r, Movable(r), "kept")
Drop(r) == Move(r, Movable(r), "dropped")
Relapse(r) == r \in contested /\ Move(r, Movable(r), "open")
Reopen(r) == r \notin Reported /\ Move(r, {"dropped"}, "open")
Report(r) == /\ r \in Reported /\ r \in carried
             /\ \E to \in {"kept", "dropped"} : Move(r, {"kept", "dropped"}, to)

\* Rows that are being worked on for too long.
Contest == /\ contested \subseteq contested'
           /\ \A r \in contested' \ contested : r \in Rows /\ fate[r] = "open"
           /\ UNCHANGED <<fate, carried>>

Next == \/ \E r \in Rows : \/ Ask(r) \/ CarryOut(r) \/ Keep(r) \/ Drop(r)
                           \/ Relapse(r) \/ Reopen(r) \/ Report(r)
        \/ Contest

Spec == Init /\ [][Next]_vars
============================================================================
