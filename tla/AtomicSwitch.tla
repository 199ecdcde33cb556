---------------------------- MODULE AtomicSwitch ----------------------------
(***************************************************************************)
(* What one journalled operation promises, whatever interrupts it: every   *)
(* destination of its plan ends on the same side, the records say which    *)
(* side that is, and once it has begun it ends.  Nothing here knows about  *)
(* staging names, exchanges, crashes or recovery; module Journal does, and *)
(* is shown to implement this specification.                               *)
(***************************************************************************)

CONSTANT Dest            \* the live paths ricepilot can be asked to change

VARIABLES
    plan,                \* the destinations this operation changes
    side,                \* per destination: the profile it shows, old or new
    records,             \* generation, ledger and rescue.sh: old or new
    outcome              \* planned, open, switched or abandoned

vars == <<plan, side, records, outcome>>

Sides == {"old", "new"}

Outcomes == {"planned", "open", "switched", "abandoned"}

TypeOK ==
    /\ plan \in SUBSET Dest
    /\ side \in [Dest -> Sides]
    /\ records \in Sides
    /\ outcome \in Outcomes

Init ==
    /\ plan \in (SUBSET Dest) \ {{}}
    /\ side = [d \in Dest |-> "old"]
    /\ records = "old"
    /\ outcome = "planned"

(***************************************************************************)
(* Actions                                                                 *)
(***************************************************************************)

Begin ==
    /\ outcome = "planned"
    /\ outcome' = "open"
    /\ UNCHANGED <<plan, side, records>>

\* One destination shows the new profile, in one step.
Cross(d) ==
    /\ outcome = "open"
    /\ d \in plan
    /\ side[d] = "old"
    /\ side' = [side EXCEPT ![d] = "new"]
    /\ UNCHANGED <<plan, records, outcome>>

\* The records follow the destinations, never the other way round.
Record ==
    /\ outcome = "open"
    /\ records = "old"
    /\ \A d \in plan : side[d] = "new"
    /\ records' = "new"
    /\ UNCHANGED <<plan, side, outcome>>

Switched ==
    /\ outcome = "open"
    /\ records = "new"
    /\ outcome' = "switched"
    /\ UNCHANGED <<plan, side, records>>

Abandoned ==
    /\ outcome = "open"
    /\ \A d \in plan : side[d] = "old"
    /\ outcome' = "abandoned"
    /\ UNCHANGED <<plan, side, records>>

Next ==
    \/ Begin
    \/ \E d \in Dest : Cross(d)
    \/ Record
    \/ Switched
    \/ Abandoned

(***************************************************************************)
(* Once begun, an operation ends.                                          *)
(***************************************************************************)

Fairness ==
    /\ \A d \in Dest : WF_vars(Cross(d))
    /\ WF_vars(Record)
    /\ WF_vars(Switched)

Spec == Init /\ [][Next]_vars /\ Fairness

=============================================================================
