---------------------------- MODULE ClabLabProofs ----------------------------
(***************************************************************************)
(* What the containerlab flavour guarantees for any set of scenarios,      *)
(* devices and topologies, and with any of the faults.                     *)
(***************************************************************************)
EXTENDS ClabLab, TLAPS

DeployedSteps == {"ready", "devices", "record"}

\* No two scenarios run side by side.
OneScenario == \A d, e \in Running : lab[d] = lab[e]

\* The guard of local-lab-up outlives the whole target.
Admitted == pc \in UpSteps => marker \in {NoScenario, target}

\* Past the generator, containerlab is handed a file that names devices.
Generated == pc \in UpSteps \ {"generate"} => clabFile[target] \in Topologies

\* Past the deploy, the lab is the target's.
Deployed ==
    pc \in DeployedSteps =>
        /\ Running = clabFile[target]
        /\ \A d \in Running : lab[d] = target

\* Past the bootstrap the workflow is published, past wait_devices SSH answers.
Prepared ==
    /\ pc \in DeployedSteps \union {"reconfigure", "create"} => published
    /\ pc = "record" => Running \subseteq accepting

IInv == /\ TypeOK
        /\ RecordNamesTheRunning
        /\ OneScenario
        /\ Admitted
        /\ Generated
        /\ Deployed
        /\ Prepared

-----------------------------------------------------------------------------
(***************************************************************************)
(* The operators on labs.                                                  *)
(***************************************************************************)

\* Stopping devices leaves the others as they were.
LEMMA StoppedLab ==
    ASSUME NEW l \in [Devices -> OptionalScenario], NEW gone
    PROVE  /\ Without(l, gone) \in [Devices -> OptionalScenario]
           /\ RunningIn(Without(l, gone)) = RunningIn(l) \ gone
           /\ \A d \in RunningIn(l) \ gone : Without(l, gone)[d] = l[d]
  BY DEF Without, RunningIn, OptionalScenario

\* Starting devices in an empty lab makes the lab theirs.
LEMMA StartedLab ==
    ASSUME NEW l \in [Devices -> OptionalScenario], RunningIn(l) = {},
           NEW some \in SUBSET Devices, NEW s \in Scenarios
    PROVE  /\ Plus(l, some, s) \in [Devices -> OptionalScenario]
           /\ RunningIn(Plus(l, some, s)) = some
           /\ \A d \in some : Plus(l, some, s)[d] = s
  BY ScenariosAssumption DEF Plus, RunningIn, OptionalScenario

\* A clab file names devices only.
LEMMA HandedDevices ==
    ASSUME TypeOK, NEW s \in Scenarios
    PROVE  clabFile[s] \subseteq Devices
  BY ScenariosAssumption DEF TypeOK

-----------------------------------------------------------------------------
(***************************************************************************)
(* The inductive invariant.                                                *)
(***************************************************************************)

\* The initial states satisfy the invariant.
LEMMA InitIInv == Init => IInv
  BY ScenariosAssumption
     DEF Init, IInv, TypeOK, RecordNamesTheRunning, OneScenario, Admitted, Generated,
         Deployed, Prepared, Running, RunningIn, OptionalScenario, UpSteps, DownSteps,
         DeployedSteps

\* What stopping some devices in the middle of a target preserves.
LEMMA StopPreserves ==
    ASSUME IInv, NEW gone, StopDevices(gone)
    PROVE  /\ lab' \in [Devices -> OptionalScenario]
           /\ accepting' \subseteq Running'
           /\ Running' \subseteq Running
           /\ \A d \in Running' : lab'[d] = lab[d]
  <1>1. lab \in [Devices -> OptionalScenario]
    BY DEF IInv, TypeOK
  <1>2. /\ lab' \in [Devices -> OptionalScenario]
        /\ Running' = Running \ gone
        /\ \A d \in Running \ gone : lab'[d] = lab[d]
    BY <1>1, StoppedLab DEF StopDevices, Running, RunningIn
  <1>3. accepting' \subseteq Running'
    BY <1>2 DEF StopDevices, IInv, TypeOK
  <1> QED BY <1>2, <1>3

\* Every step of every target preserves the invariant.
LEMMA NextIInv == IInv /\ [Next]_vars => IInv'
  <1> SUFFICES ASSUME IInv, [Next]_vars PROVE IInv'
    OBVIOUS
  <1> USE DEF Running, RunningIn, UpSteps, DownSteps, DeployedSteps, OptionalScenario
  <1>1. ASSUME NEW s \in Scenarios, UpBegins(s) PROVE IInv'
    BY <1>1 DEF UpBegins, Admits, Begins, files, IInv, TypeOK, RecordNamesTheRunning,
        OneScenario, Admitted, Generated, Deployed, Prepared
  <1>2. CASE Generate
    <2>1. target \in Scenarios /\ topology[target] \in Topologies
      BY DEF IInv, TypeOK
    <2>2. clabFile' \in {clabFile, Written(target)}
      BY <1>2 DEF Generate
    <2>3. clabFile' \in [Scenarios -> Topologies \union {{}}]
      BY <2>1, <2>2 DEF IInv, TypeOK, Written
    <2>4. pc' = "stack" => clabFile'[target'] \in Topologies
      BY <1>2, <2>1 DEF Generate, Advances, Fails, Written, IInv, TypeOK
    <2> QED
      BY <1>2, <2>3, <2>4 DEF Generate, Advances, Fails, IInv, TypeOK,
         RecordNamesTheRunning, OneScenario, Admitted, Generated, Deployed, Prepared
  <1>3. CASE StartStack
    BY <1>3 DEF StartStack, Advances, Fails, files, IInv, TypeOK, RecordNamesTheRunning,
        OneScenario, Admitted, Generated, Deployed, Prepared
  <1>4. CASE AwaitBootstrap
    BY <1>4 DEF AwaitBootstrap, Advances, Fails, files, IInv, TypeOK,
        RecordNamesTheRunning, OneScenario, Admitted, Generated, Deployed, Prepared
  <1>5. CASE Reconfigure
    <2>1. PICK gone : StopDevices(gone)
      BY <1>5 DEF Reconfigure
    <2>2. /\ lab' \in [Devices -> OptionalScenario]
          /\ accepting' \subseteq Running'
          /\ Running' \subseteq Running
          /\ \A d \in Running' : lab'[d] = lab[d]
      BY <2>1, StopPreserves
    <2>3. TypeOK'
      BY <1>5, <2>2 DEF Reconfigure, Advances, Fails, files, IInv, TypeOK
    <2>4. RecordNamesTheRunning' /\ OneScenario'
      BY <1>5, <2>2 DEF Reconfigure, IInv, RecordNamesTheRunning, OneScenario
    <2>5. Admitted' /\ Generated' /\ Deployed' /\ Prepared'
      BY <1>5 DEF Reconfigure, Advances, Fails, files, IInv, Admitted, Generated,
         Deployed, Prepared
    <2> QED BY <2>3, <2>4, <2>5 DEF IInv
  <1>6. CASE Create
    <2>1. PICK some \in SUBSET clabFile[target] :
              /\ lab' = Plus(lab, some, target)
              /\ pc' = "ready" => some = clabFile[target]
      BY <1>6 DEF Create, Advances, Fails
    <2>2. some \in SUBSET Devices /\ target \in Scenarios
      BY <2>1, HandedDevices DEF IInv, TypeOK
    <2>3. /\ lab' \in [Devices -> OptionalScenario]
          /\ Running' = some
          /\ \A d \in some : lab'[d] = target
      BY <1>6, <2>1, <2>2, StartedLab DEF Create, IInv, TypeOK
    <2>4. marker \in {NoScenario, target}
      BY <1>6 DEF Create, Advances, Fails, IInv, Admitted
    <2>5. TypeOK'
      BY <1>6, <2>3 DEF Create, Advances, Fails, files, IInv, TypeOK
    <2>6. RecordNamesTheRunning' /\ OneScenario'
      BY <1>6, <2>3, <2>4 DEF Create, RecordNamesTheRunning, OneScenario
    <2>7. Deployed'
      BY <1>6, <2>1, <2>3 DEF Create, Advances, Fails, files, Deployed
    <2>8. Admitted' /\ Generated' /\ Prepared'
      BY <1>6, <2>4 DEF Create, Advances, Fails, files, IInv, Admitted, Generated, Prepared
    <2> QED BY <2>5, <2>6, <2>7, <2>8 DEF IInv
  <1>7. CASE CreateRefused
    BY <1>7 DEF CreateRefused, Advances, files, IInv, TypeOK, RecordNamesTheRunning,
        OneScenario, Admitted, Generated, Deployed, Prepared
  <1>8. CASE AwaitWorker
    BY <1>8 DEF AwaitWorker, Advances, Fails, files, IInv, TypeOK, RecordNamesTheRunning,
        OneScenario, Admitted, Generated, Deployed, Prepared
  <1>9. CASE AwaitDevices
    BY <1>9 DEF AwaitDevices, Advances, Fails, files, IInv, TypeOK, RecordNamesTheRunning,
        OneScenario, Admitted, Generated, Deployed, Prepared
  <1>10. CASE PutOnRecord
    BY <1>10 DEF PutOnRecord, Advances, files, IInv, TypeOK, RecordNamesTheRunning,
        OneScenario, Admitted, Generated, Deployed, Prepared
  <1>11. ASSUME NEW s \in Scenarios, DownBegins(s) PROVE IInv'
    BY <1>11 DEF DownBegins, Begins, files, IInv, TypeOK, RecordNamesTheRunning,
        OneScenario, Admitted, Generated, Deployed, Prepared
  <1>12. CASE Destroy
    <2>1. PICK gone : StopDevices(gone)
      BY <1>12 DEF Destroy
    <2>2. /\ lab' \in [Devices -> OptionalScenario]
          /\ accepting' \subseteq Running'
          /\ Running' \subseteq Running
          /\ \A d \in Running' : lab'[d] = lab[d]
      BY <2>1, StopPreserves
    <2>3. TypeOK'
      BY <1>12, <2>2 DEF Destroy, Advances, files, IInv, TypeOK
    <2>4. RecordNamesTheRunning' /\ OneScenario'
      BY <1>12, <2>2 DEF Destroy, IInv, RecordNamesTheRunning, OneScenario
    <2>5. Admitted' /\ Generated' /\ Deployed' /\ Prepared'
      BY <1>12 DEF Destroy, Advances, Admitted, Generated, Deployed, Prepared
    <2> QED BY <2>3, <2>4, <2>5 DEF IInv
  <1>13. CASE Forget
    BY <1>13, ScenariosAssumption DEF Forget, Advances, files, IInv, TypeOK,
        RecordNamesTheRunning, OneScenario, Admitted, Generated, Deployed, Prepared
  <1>14. ASSUME NEW s \in Scenarios, Regenerate(s) PROVE IInv'
    <2>1. topology[s] \in Topologies
      BY DEF IInv, TypeOK
    <2>2. clabFile' \in [Scenarios -> Topologies \union {{}}]
      BY <1>14, <2>1 DEF Regenerate, Written, IInv, TypeOK
    <2> QED
      BY <1>14, <2>2 DEF Regenerate, IInv, TypeOK, RecordNamesTheRunning, OneScenario,
         Admitted, Generated, Deployed, Prepared
  <1>15. CASE Prune
    BY <1>15 DEF Prune, files, IInv, TypeOK, RecordNamesTheRunning, OneScenario,
        Admitted, Generated, Deployed, Prepared
  <1>16. ASSUME NEW s \in Scenarios, EditTopology(s) PROVE IInv'
    <2>1. topology' \in [Scenarios -> Topologies]
      BY <1>16 DEF EditTopology, IInv, TypeOK
    <2> QED
      BY <1>16, <2>1 DEF EditTopology, IInv, TypeOK, RecordNamesTheRunning, OneScenario,
         Admitted, Generated, Deployed, Prepared
  <1>17. ASSUME NEW d \in Devices, DeviceBoots(d) PROVE IInv'
    BY <1>17 DEF DeviceBoots, files, IInv, TypeOK, RecordNamesTheRunning, OneScenario,
        Admitted, Generated, Deployed, Prepared
  <1>18. CASE UNCHANGED vars
    BY <1>18 DEF vars, IInv, TypeOK, RecordNamesTheRunning, OneScenario,
        Admitted, Generated, Deployed, Prepared
  <1> QED
    BY <1>1, <1>2, <1>3, <1>4, <1>5, <1>6, <1>7, <1>8, <1>9, <1>10, <1>11, <1>12, <1>13,
       <1>14, <1>15, <1>16, <1>17, <1>18 DEF Next, Up, Down, Others

\* The invariant holds in every reachable state of the containerlab flavour.
THEOREM Invariance == Spec => []IInv
  BY InitIInv, NextIInv, PTL DEF Spec

\* Every variable keeps its type; only running devices accept SSH.
THEOREM TypeCorrectness == Spec => []TypeOK
  BY Invariance, PTL DEF IInv

\* The marker, whenever there is one, names the scenario of every device that
\* runs, however often the targets failed half way.
THEOREM RecordIsTrue == Spec => []RecordNamesTheRunning
  BY Invariance, PTL DEF IInv

\* No sequence of failed, interrupted or repeated targets leaves two scenarios
\* running side by side.
THEOREM NeverTwoScenarios == Spec => []OneScenario
  BY Invariance, PTL DEF IInv

\* A lab put on record is what the banner of local-lab-up says it is.
THEOREM BannerTheorem == Spec => BannerIsHonest
  <1>1. IInv /\ [Next]_vars =>
          [pc = "record" /\ pc' # pc =>
             /\ Running = clabFile[target]
             /\ Running \subseteq accepting
             /\ \A d \in Running : lab[d] = target
             /\ published]_vars
    BY DEF IInv, Deployed, Prepared, DeployedSteps
  <1> QED
    BY <1>1, Invariance, PTL DEF Spec, BannerIsHonest

-----------------------------------------------------------------------------
(***************************************************************************)
(* The one-scenario slot is implemented.                                   *)
(***************************************************************************)

\* The occupant is the scenario of any running device.
LEMMA OccupantOfAny ==
    ASSUME NEW l \in [Devices -> OptionalScenario],
           \A d, e \in RunningIn(l) : l[d] = l[e],
           NEW d \in RunningIn(l)
    PROVE  l[CHOOSE e \in Devices : e \in RunningIn(l)] = l[d]
  <1>1. d \in Devices
    BY DEF RunningIn
  <1>2. (CHOOSE e \in Devices : e \in RunningIn(l)) \in RunningIn(l)
    BY <1>1
  <1> QED BY <1>2

\* The occupant is the scenario of every running device, and none runs without one.
LEMMA OccupantIs ==
    ASSUME IInv
    PROVE  /\ Running = {} => Occupant = NoScenario
           /\ \A d \in Running : Occupant = lab[d]
  BY OccupantOfAny DEF IInv, TypeOK, OneScenario, Occupant, Running

\* The same, one step later.
LEMMA OccupantIsNext ==
    ASSUME IInv'
    PROVE  /\ Running' = {} => Occupant' = NoScenario
           /\ \A d \in Running' : Occupant' = lab'[d]
  <1>1. lab' \in [Devices -> OptionalScenario]
    BY DEF IInv, TypeOK
  <1>2. \A d, e \in RunningIn(lab') : lab'[d] = lab'[e]
    BY DEF IInv, OneScenario, Running, RunningIn
  <1> QED
    BY <1>1, <1>2, OccupantOfAny DEF Occupant, Running, RunningIn

\* Stopping devices moves the occupant out or leaves it in.
LEMMA StoppingMovesOut ==
    ASSUME IInv, IInv', NEW gone, StopDevices(gone), UNCHANGED marker
    PROVE  Slot!MoveOut \/ UNCHANGED <<Occupant, marker>>
  <1>1. CASE Running' = {}
    BY <1>1, OccupantIsNext DEF Slot!MoveOut
  <1>2. CASE Running' # {}
    <2>1. PICK d \in Running' : TRUE
      BY <1>2
    <2>2. d \in Running /\ lab'[d] = lab[d]
      BY <2>1, StopPreserves
    <2> QED BY <2>1, <2>2, OccupantIs, OccupantIsNext
  <1> QED BY <1>1, <1>2

\* Every step of every target is a step of the slot, or none.
LEMMA SlotStep == IInv /\ IInv' /\ [Next]_vars => [Slot!Next]_<<Occupant, marker>>
  <1> SUFFICES ASSUME IInv, IInv', [Next]_vars
               PROVE  Slot!Next \/ UNCHANGED <<Occupant, marker>>
    OBVIOUS
  <1>1. CASE lab' = lab /\ marker' = marker
    BY <1>1 DEF Occupant, Running, RunningIn
  <1>2. CASE Reconfigure
    BY <1>2, StoppingMovesOut DEF Reconfigure, Slot!Next
  <1>3. CASE Destroy
    BY <1>3, StoppingMovesOut DEF Destroy, Slot!Next
  <1>4. CASE Create
    <2>1. target \in Scenarios /\ marker \in {NoScenario, target} /\ marker' = marker
      BY <1>4 DEF Create, Advances, Fails, IInv, TypeOK, Admitted, UpSteps
    <2>2. Occupant = NoScenario
      BY <1>4, OccupantIs DEF Create
    <2>3. CASE Running' = {}
      BY <2>1, <2>2, <2>3, OccupantIsNext
    <2>4. CASE Running' # {}
      <3>1. PICK d \in Running' : TRUE
        BY <2>4
      <3>2. PICK some \in SUBSET clabFile[target] : lab' = Plus(lab, some, target)
        BY <1>4 DEF Create
      <3>3. lab'[d] = target
        BY <1>4, <3>1, <3>2 DEF Create, Plus, Running, RunningIn
      <3>4. Slot!MoveIn(target)
        BY <2>1, <2>2, <3>1, <3>3, OccupantIsNext DEF Slot!MoveIn
      <3> QED BY <2>1, <3>4 DEF Slot!Next
    <2> QED BY <2>3, <2>4
  <1>5. CASE PutOnRecord
    <2>1. target \in Scenarios /\ marker' = target /\ lab' = lab
      BY <1>5 DEF PutOnRecord, IInv, TypeOK
    <2>2. Running = clabFile[target] /\ clabFile[target] \in Topologies
      BY <1>5 DEF PutOnRecord, Advances, IInv, Deployed, Generated, DeployedSteps, UpSteps
    <2>3. PICK d \in Running : TRUE
      BY <2>2, ScenariosAssumption
    <2>4. Occupant = target
      BY <1>5, <2>3, OccupantIs DEF PutOnRecord, Advances, IInv, Deployed, DeployedSteps
    <2>5. Occupant' = Occupant
      BY <2>1 DEF Occupant, Running, RunningIn
    <2>6. Slot!PutOnRecord(target)
      BY <2>1, <2>4, <2>5 DEF Slot!PutOnRecord
    <2> QED BY <2>1, <2>6 DEF Slot!Next
  <1>6. CASE Forget
    <2>1. Slot!Forget
      BY <1>6 DEF Forget, Slot!Forget, Occupant, Running, RunningIn
    <2> QED BY <2>1 DEF Slot!Next
  <1> QED
    BY <1>1, <1>2, <1>3, <1>4, <1>5, <1>6
       DEF Next, Up, Down, Others, vars, UpBegins, Generate, StartStack, AwaitBootstrap,
           CreateRefused, AwaitWorker, AwaitDevices, DownBegins, Regenerate, Prune,
           EditTopology, DeviceBoots

\* The make targets of the containerlab flavour implement the slot: one scenario
\* at a time, admitted only past an empty or matching record.
THEOREM ClabImplementsSlot == Spec => ImplementsSlot
  <1>1. Init => Slot!Init
    BY DEF Init, Slot!Init, Occupant, Running, RunningIn
  <1> QED
    BY <1>1, Invariance, SlotStep, PTL
       DEF Spec, ImplementsSlot, Slot!Spec, Slot!slotVars

-----------------------------------------------------------------------------
(***************************************************************************)
(* The record alone is enough for local-lab-down, when the deploy, the     *)
(* waits and the destroy do not fail and no topology is edited.            *)
(***************************************************************************)

\* The steps that may fail while the record stays enough.
HarmlessFaults == {"generate", "stack", "bootstrap"}

\* What is generated is what the topology says, if anything is.
FilesInStep == \A s \in Scenarios : clabFile[s] \in {{}, topology[s]}

\* Between its deploy and its record, local-lab-up knows what runs; at any other
\* time the record does.
RecordHolds ==
    pc \notin DeployedSteps =>
        \/ Running = {}
        \/ marker # NoScenario /\ Running \subseteq clabFile[marker]

\* A scenario's nodes are all gone before its record is.
GoneFirst == pc \in {"create", "forget"} => Running = {}

OrderlyInv == FilesInStep /\ RecordHolds /\ GoneFirst

\* Before the first target nothing runs and nothing is generated.
LEMMA InitOrderly == Init => OrderlyInv
  BY DEF Init, OrderlyInv, FilesInStep, RecordHolds, GoneFirst, Running, RunningIn,
         DeployedSteps

\* A step that leaves the files, the lab and the record alone, and that neither
\* leaves the deployed steps nor enters those that need an empty lab, is harmless.
LEMMA QuietStep ==
    ASSUME OrderlyInv, UNCHANGED <<topology, clabFile, lab, marker>>,
           pc \in DeployedSteps => pc' \in DeployedSteps \union {pc},
           pc' \in {"create", "forget"} => pc' = pc
    PROVE  OrderlyInv'
  BY DEF OrderlyInv, FilesInStep, RecordHolds, GoneFirst, Running, RunningIn, DeployedSteps

\* Generating a scenario's file again changes nothing that runs from it.
LEMMA RegeneratedOrderly ==
    ASSUME IInv, OrderlyInv, NEW s \in Scenarios, clabFile' \in {clabFile, Written(s)},
           UNCHANGED <<topology, lab, marker>>,
           pc \in DeployedSteps => pc' \in DeployedSteps,
           pc' \in {"create", "forget"} => pc' = pc
    PROVE  OrderlyInv'
  <1>1. Running' = Running
    BY DEF Running, RunningIn
  <1>2. clabFile \in [Scenarios -> Topologies \union {{}}] /\ marker \in OptionalScenario
    BY DEF IInv, TypeOK
  <1>3. \A r \in Scenarios : clabFile'[r] = clabFile[r] \/ clabFile'[r] = topology[r]
    BY <1>2 DEF Written
  <1>4. FilesInStep'
    BY <1>3 DEF OrderlyInv, FilesInStep
  <1>5. RecordHolds'
    <2> SUFFICES ASSUME pc' \notin DeployedSteps, Running # {}
                 PROVE  marker # NoScenario /\ Running \subseteq clabFile'[marker]
      BY <1>1 DEF RecordHolds
    <2>1. marker # NoScenario /\ Running \subseteq clabFile[marker]
      BY DEF OrderlyInv, RecordHolds
    <2>2. marker \in Scenarios
      BY <1>2, <2>1 DEF OptionalScenario
    <2>3. clabFile[marker] = topology[marker]
      BY <2>1, <2>2 DEF OrderlyInv, FilesInStep
    <2> QED BY <1>3, <2>1, <2>2, <2>3
  <1>6. GoneFirst'
    BY <1>1 DEF OrderlyInv, GoneFirst
  <1> QED BY <1>4, <1>5, <1>6 DEF OrderlyInv

\* Every step that may fail harmlessly, and every other one that does not fail,
\* keeps the lab within its record.
LEMMA NextOrderly ==
    ASSUME Faults \subseteq HarmlessFaults
    PROVE  IInv /\ OrderlyInv /\ [Next]_vars => OrderlyInv'
  <1> SUFFICES ASSUME IInv, OrderlyInv, [Next]_vars PROVE OrderlyInv'
    OBVIOUS
  <1>0. /\ "deploy" \notin Faults
        /\ "wait" \notin Faults
        /\ "destroy" \notin Faults
        /\ "edit" \notin Faults
    BY DEF HarmlessFaults
  <1>1. ASSUME NEW s \in Scenarios, UpBegins(s) PROVE OrderlyInv'
    BY <1>1, QuietStep DEF UpBegins, Begins, files, DeployedSteps
  <1>2. CASE Generate
    BY <1>2, RegeneratedOrderly DEF Generate, Advances, Fails, IInv, TypeOK, DeployedSteps
  <1>3. CASE StartStack
    BY <1>3, QuietStep DEF StartStack, Advances, Fails, files, DeployedSteps
  <1>4. CASE AwaitBootstrap
    BY <1>4, QuietStep DEF AwaitBootstrap, Advances, Fails, files, DeployedSteps
  <1>5. CASE Reconfigure
    <2>1. StopDevices(clabFile[target]) /\ pc = "reconfigure"
      BY <1>0, <1>5 DEF Reconfigure, Advances, Fails
    <2>2. Running \subseteq clabFile[target]
      BY <2>1 DEF OrderlyInv, RecordHolds, IInv, Admitted, UpSteps, DeployedSteps
    <2>3. Running' = {}
      <3>1. lab \in [Devices -> OptionalScenario]
        BY DEF IInv, TypeOK
      <3> QED BY <2>1, <2>2, <3>1, StoppedLab DEF StopDevices, Running, RunningIn
    <2> QED
      BY <1>5, <2>3 DEF Reconfigure, files, OrderlyInv, FilesInStep, RecordHolds, GoneFirst
  <1>6. CASE Create
    <2>1. pc' \in DeployedSteps
      BY <1>0, <1>6 DEF Create, Advances, Fails, DeployedSteps
    <2> QED
      BY <1>6, <2>1 DEF Create, files, OrderlyInv, FilesInStep, RecordHolds, GoneFirst,
         DeployedSteps
  <1>7. CASE CreateRefused
    BY <1>7 DEF CreateRefused, Advances, OrderlyInv, GoneFirst
  <1>8. CASE AwaitWorker
    BY <1>0, <1>8, QuietStep DEF AwaitWorker, Advances, Fails, files, DeployedSteps
  <1>9. CASE AwaitDevices
    BY <1>0, <1>9, QuietStep DEF AwaitDevices, Advances, Fails, files, DeployedSteps
  <1>10. CASE PutOnRecord
    <2>1. /\ Running' = clabFile'[marker']
          /\ marker' \in Scenarios
      BY <1>10 DEF PutOnRecord, Advances, files, IInv, TypeOK, Deployed, DeployedSteps,
         Running, RunningIn
    <2> QED
      BY <1>10, <2>1, ScenariosAssumption
         DEF PutOnRecord, Advances, files, OrderlyInv, FilesInStep, RecordHolds, GoneFirst
  <1>11. ASSUME NEW s \in Scenarios, DownBegins(s) PROVE OrderlyInv'
    BY <1>11, QuietStep DEF DownBegins, Begins, files, DeployedSteps
  <1>12. CASE Destroy
    <2>1. StopDevices(clabFile[DownScenario]) /\ pc = "destroy"
      BY <1>0, <1>12 DEF Destroy, Advances
    <2>2. Running \subseteq clabFile[DownScenario]
      BY <2>1 DEF OrderlyInv, RecordHolds, DownScenario, DeployedSteps
    <2>3. Running' = {}
      <3>1. lab \in [Devices -> OptionalScenario]
        BY DEF IInv, TypeOK
      <3> QED BY <2>1, <2>2, <3>1, StoppedLab DEF StopDevices, Running, RunningIn
    <2> QED
      BY <1>12, <2>3 DEF Destroy, files, OrderlyInv, FilesInStep, RecordHolds, GoneFirst
  <1>13. CASE Forget
    BY <1>13 DEF Forget, Advances, files, OrderlyInv, FilesInStep, RecordHolds, GoneFirst,
       Running, RunningIn
  <1>14. ASSUME NEW s \in Scenarios, Regenerate(s) PROVE OrderlyInv'
    BY <1>14, RegeneratedOrderly DEF Regenerate
  <1>15. CASE Prune
    BY <1>15, QuietStep DEF Prune, files
  <1>16. ASSUME NEW s \in Scenarios, EditTopology(s) PROVE FALSE
    BY <1>0, <1>16 DEF EditTopology
  <1>17. ASSUME NEW d \in Devices, DeviceBoots(d) PROVE OrderlyInv'
    <2>1. UNCHANGED <<topology, clabFile, lab, marker, pc>>
      BY <1>17 DEF DeviceBoots, files
    <2> QED BY <2>1, QuietStep
  <1>18. CASE UNCHANGED vars
    BY <1>18, QuietStep DEF vars
  <1> QED
    BY <1>1, <1>2, <1>3, <1>4, <1>5, <1>6, <1>7, <1>8, <1>9, <1>10, <1>11, <1>12, <1>13,
       <1>14, <1>15, <1>16, <1>17, <1>18 DEF Next, Up, Down, Others

\* local-lab-down hands containerlab every running device, whatever $(SCENARIO)
\* is and whichever of the generator, the stack and the bootstrap failed before.
\* What this takes is exactly that no deploy, wait or destroy fails half way and
\* that no topology is edited; with a destroy that fails it is not true.
THEOREM DownTheorem ==
    ASSUME Faults \subseteq HarmlessFaults
    PROVE  Spec => []DownHandsTheRunning
  <1>1. OrderlyInv => DownHandsTheRunning
    BY DEF OrderlyInv, RecordHolds, DownHandsTheRunning, DownScenario, DeployedSteps
  <1> QED
    BY <1>1, InitOrderly, NextOrderly, Invariance, PTL DEF Spec

\* Under the same condition local-lab-down forgets a scenario only when none of
\* its devices runs any more, and a deploy is never refused.
THEOREM GoneTheorem ==
    ASSUME Faults \subseteq HarmlessFaults
    PROVE  Spec => []GoneFirst
  <1>1. OrderlyInv => GoneFirst
    BY DEF OrderlyInv
  <1> QED
    BY <1>1, InitOrderly, NextOrderly, Invariance, PTL DEF Spec

=============================================================================
