----------------------------- MODULE ScenarioSlot -----------------------------
(***************************************************************************)
(* What the containerlab flavour promises about its host: there is room    *)
(* for one scenario at a time.  A scenario moves in only when nothing runs *)
(* and no other one is on record, it is put on record while its devices    *)
(* run, and the record alone keeps the others out.                         *)
(***************************************************************************)
CONSTANTS Scenarios, NoScenario

VARIABLES
    occupant,  \* the scenario whose devices run, if any do
    record     \* the scenario the marker file names, if there is one

slotVars == <<occupant, record>>

Init ==
    /\ occupant = NoScenario
    /\ record = NoScenario

MoveIn(s) ==
    /\ occupant = NoScenario
    /\ record \in {NoScenario, s}
    /\ occupant' = s
    /\ UNCHANGED record

MoveOut ==
    /\ occupant' = NoScenario
    /\ UNCHANGED record

PutOnRecord(s) ==
    /\ occupant = s
    /\ record' = s
    /\ UNCHANGED occupant

Forget ==
    /\ record' = NoScenario
    /\ UNCHANGED occupant

Next ==
    \/ \E s \in Scenarios : MoveIn(s) \/ PutOnRecord(s)
    \/ MoveOut
    \/ Forget

Spec == Init /\ [][Next]_slotVars

=============================================================================
