---------------------------- MODULE KindLabProofs ----------------------------
(***************************************************************************)
(* What the Kubernetes flavour guarantees for any set of scenarios,        *)
(* devices and topologies, and with any of the faults.                     *)
(***************************************************************************)
EXTENDS KindLab, TLAPS

AppliedSteps == {"wait", "record"}

\* The guard of kind-lab-up outlives the whole target.
Admitted == pc \in UpSteps => marker \in {NoScenario, target}

\* Past the apply, the namespace holds the target's manifest.
Applied ==
    pc \in AppliedSteps =>
        /\ configMap = ConfigOf(target)
        /\ manifest[target] \subseteq deployments

\* Nothing on record and nothing left over means a namespace never applied to.
Fresh ==
    ~leftover /\ marker = NoScenario /\ pc \notin AppliedSteps =>
        configMap.scenario = NoScenario

\* With nothing left over, every pod read the config the namespace holds.
OneConfig == ~leftover => \A d \in Running : pods[d] = configMap.scenario

\* The record is removed over an empty namespace.
Emptied ==
    pc = "forget" => deployments = {} /\ configMap = NoConfigMap /\ ~leftover

\* What the running wait has seen it saw on the target's config.
Seen ==
    /\ pc # "wait" => saw = NothingSeen
    /\ pc = "wait" /\ ~leftover => \A d \in Devices : saw[d] \in {NoScenario, target}

IInv == /\ TypeOK
        /\ ConfigFollowsRecord
        /\ Admitted
        /\ Applied
        /\ Fresh
        /\ OneConfig
        /\ Emptied
        /\ Seen

-----------------------------------------------------------------------------

\* The initial states satisfy the invariant.
LEMMA InitIInv == Init => IInv
  <1> SUFFICES ASSUME Init PROVE IInv
    OBVIOUS
  <1>1. Running = {}
    BY DEF Init, Running, RunningIn
  <1>2. TypeOK
    <2>1. configMap \in [scenario : OptionalScenario, devices : SUBSET Devices]
      BY DEF Init, NoConfigMap, OptionalScenario
    <2>2. manifest \in [Scenarios -> SUBSET (Devices \intersect Frr)]
      BY DEF Init
    <2> QED
      BY <1>1, <2>1, <2>2, ScenariosAssumption DEF Init, TypeOK, OptionalScenario, NothingSeen
  <1> QED
    BY <1>1, <1>2 DEF Init, IInv, ConfigFollowsRecord, Admitted, Applied, Fresh, OneConfig,
       Emptied, Seen, NoConfigMap, UpSteps, AppliedSteps

\* Every step of every target and of the cluster preserves the invariant.
LEMMA NextIInv == IInv /\ [Next]_vars => IInv'
  <1> SUFFICES ASSUME IInv, [Next]_vars PROVE IInv'
    OBVIOUS
  <1> USE DEF UpSteps, DownSteps, AppliedSteps, OptionalScenario
  <1>1. ASSUME NEW s \in Scenarios, UpBegins(s) PROVE IInv'
    BY <1>1 DEF UpBegins, Admits, Begins, files, namespace, IInv, TypeOK,
        ConfigFollowsRecord, Admitted, Applied, Fresh, OneConfig, Emptied, Seen, Running, RunningIn
  <1>2. CASE LoadImage
    BY <1>2 DEF LoadImage, Advances, Fails, files, namespace, IInv, TypeOK,
        ConfigFollowsRecord, Admitted, Applied, Fresh, OneConfig, Emptied, Seen, Running, RunningIn
  <1>3. CASE GenerateManifest
    <2>1. topology[target] \in SUBSET Devices /\ target \in Scenarios
      BY ScenariosAssumption DEF IInv, TypeOK
    <2>2. frr_devices(topology[target]) \in SUBSET (Devices \intersect Frr)
      BY <2>1 DEF frr_devices
    <2>3. manifest' \in [Scenarios -> SUBSET (Devices \intersect Frr)]
      BY <1>3, <2>1, <2>2 DEF GenerateManifest, IInv, TypeOK
    <2>4. TypeOK'
      BY <1>3, <2>3 DEF GenerateManifest, Advances, Fails, namespace, IInv, TypeOK,
         Running, RunningIn
    <2> QED
      BY <1>3, <2>4 DEF GenerateManifest, Advances, Fails, namespace, IInv,
         ConfigFollowsRecord, Admitted, Applied, Fresh, OneConfig, Emptied, Seen, Running, RunningIn
  <1>4. CASE Apply
    <2>1. target \in Scenarios /\ manifest[target] \in SUBSET Devices
      BY DEF IInv, TypeOK
    <2>2. marker \in {NoScenario, target} /\ pc = "apply"
      BY <1>4 DEF Apply, Advances, Fails, IInv, Admitted
    <2>3. configMap' \in {configMap, ConfigOf(target)} /\ pods' = pods /\ marker' = marker
      BY <1>4 DEF Apply
    <2>4. /\ deployments \subseteq deployments'
          /\ deployments' \subseteq Devices
      BY <1>4, <2>1 DEF Apply, IInv, TypeOK
    <2>5. TypeOK'
      <3>1. configMap' \in [scenario : OptionalScenario, devices : SUBSET Devices]
        BY <2>1, <2>3 DEF ConfigOf, IInv, TypeOK
      <3> QED
        BY <1>4, <2>3, <2>4, <3>1 DEF Apply, Advances, Fails, files, IInv, TypeOK, Running,
           RunningIn
    <2>6. ConfigFollowsRecord'
      BY <2>2, <2>3 DEF ConfigOf, IInv, ConfigFollowsRecord
    <2>7. Applied'
      BY <1>4 DEF Apply, Advances, Fails, files, Applied, ConfigOf
    <2>8. OneConfig'
      <3> SUFFICES ASSUME ~leftover', NEW d \in Running' PROVE pods'[d] = configMap'.scenario
        BY DEF OneConfig
      <3>1. ~leftover /\ configMap' = ConfigOf(target)
        BY <1>4 DEF Apply, IInv, TypeOK
      <3>2. d \in Running /\ pods'[d] = pods[d]
        BY <2>3 DEF Running, RunningIn
      <3>3. pods[d] = configMap.scenario /\ pods[d] # NoScenario
        BY <3>1, <3>2 DEF IInv, OneConfig, Running, RunningIn
      <3>4. configMap.scenario \in {NoScenario, target}
        BY <2>2, <3>1 DEF IInv, ConfigFollowsRecord, Fresh
      <3> QED BY <3>1, <3>2, <3>3, <3>4 DEF ConfigOf
    <2>9. Admitted' /\ Fresh' /\ Emptied' /\ Seen'
      BY <1>4, ScenariosAssumption
         DEF Apply, Advances, Fails, IInv, TypeOK, Admitted, Fresh, Emptied, Seen, NothingSeen
    <2> QED BY <2>5, <2>6, <2>7, <2>8, <2>9 DEF IInv
  <1>5. CASE AwaitPods
    BY <1>5 DEF AwaitPods, NothingSeen, Advances, Fails, files, namespace, ConfigOf, IInv, TypeOK,
        ConfigFollowsRecord, Admitted, Applied, Fresh, OneConfig, Emptied, Seen, Running, RunningIn
  <1>6. CASE PutOnRecord
    BY <1>6, ScenariosAssumption
       DEF PutOnRecord, Advances, files, namespace, ConfigOf, IInv, TypeOK,
        ConfigFollowsRecord, Admitted, Applied, Fresh, OneConfig, Emptied, Seen, Running, RunningIn
  <1>7. ASSUME NEW s \in Scenarios, DownBegins(s) PROVE IInv'
    BY <1>7 DEF DownBegins, Begins, files, namespace, IInv, TypeOK,
        ConfigFollowsRecord, Admitted, Applied, Fresh, OneConfig, Emptied, Seen, Running, RunningIn
  <1>8. CASE Delete
    <2>1. CASE CleanSlate
      BY <1>8, <2>1 DEF Delete, Advances, Fails, CleanSlate, files, NoConfigMap, IInv, TypeOK,
          ConfigFollowsRecord, Admitted, Applied, Fresh, OneConfig, Emptied, Seen, Running, RunningIn
    <2>2. CASE Fails("delete", "delete") /\ UNCHANGED <<namespace, leftover>>
      BY <1>8, <2>2 DEF Delete, Advances, Fails, files, namespace, IInv, TypeOK,
          ConfigFollowsRecord, Admitted, Applied, Fresh, OneConfig, Emptied, Seen, Running, RunningIn
    <2> QED BY <1>8, <2>1, <2>2 DEF Delete
  <1>9. CASE Forget
    BY <1>9, ScenariosAssumption
       DEF Forget, Advances, files, namespace, NoConfigMap, IInv, TypeOK,
        ConfigFollowsRecord, Admitted, Applied, Fresh, OneConfig, Emptied, Seen, Running, RunningIn
  <1>10. ASSUME NEW d \in Devices, PodStarts(d) PROVE IInv'
    <2>1. /\ pods' = Plus(pods, {d}, configMap.scenario)
          /\ pods \in [Devices -> OptionalScenario]
          /\ configMap.scenario \in OptionalScenario
      BY <1>10 DEF PodStarts, IInv, TypeOK
    <2>2. pods' \in [Devices -> OptionalScenario]
      BY <2>1 DEF Plus
    <2>3. /\ Running \subseteq Running'
          /\ Running' \subseteq Running \union {d}
          /\ \A e \in Running' : pods'[e] = pods[e] \/ pods'[e] = configMap.scenario
      BY <1>10, <2>1, <2>2 DEF PodStarts, Plus, Running, RunningIn
    <2>4. TypeOK'
      BY <1>10, <2>2, <2>3 DEF PodStarts, files, IInv, TypeOK
    <2>5. OneConfig'
      <3> SUFFICES ASSUME ~leftover', NEW e \in Running' PROVE pods'[e] = configMap'.scenario
        BY DEF OneConfig
      <3>1. CASE e = d
        BY <1>10, <2>1, <3>1 DEF PodStarts, Plus
      <3>2. CASE e # d
        BY <1>10, <2>1, <2>3, <3>2 DEF PodStarts, Plus, IInv, OneConfig
      <3> QED BY <3>1, <3>2
    <2>6. ConfigFollowsRecord' /\ Admitted' /\ Applied' /\ Fresh' /\ Emptied' /\ Seen'
      BY <1>10 DEF PodStarts, files, ConfigOf, IInv, ConfigFollowsRecord, Admitted, Applied,
         Fresh, Emptied, Seen
    <2> QED BY <2>4, <2>5, <2>6 DEF IInv
  <1>11. ASSUME NEW d \in Devices, PodGetsReady(d) PROVE IInv'
    BY <1>11 DEF PodGetsReady, files, ConfigOf, IInv, TypeOK,
        ConfigFollowsRecord, Admitted, Applied, Fresh, OneConfig, Emptied, Seen, Running, RunningIn
  <1>12. ASSUME NEW d \in Devices, PodStops(d) PROVE IInv'
    <2>1. pods' = Without(pods, {d}) /\ pods \in [Devices -> OptionalScenario]
      BY <1>12 DEF PodStops, IInv, TypeOK
    <2>2. pods' \in [Devices -> OptionalScenario]
      BY <2>1 DEF Without
    <2>3. /\ Running' = Running \ {d}
          /\ \A e \in Running' : pods'[e] = pods[e]
      BY <2>1 DEF Without, Running, RunningIn
    <2>4. TypeOK'
      BY <1>12, <2>2, <2>3 DEF PodStops, files, IInv, TypeOK
    <2> QED
      BY <1>12, <2>3, <2>4 DEF PodStops, files, ConfigOf, IInv, ConfigFollowsRecord, Admitted,
         Applied, Fresh, OneConfig, Emptied, Seen
  <1>13. ASSUME NEW s \in Scenarios, EditTopology(s) PROVE IInv'
    <2>1. topology' \in [Scenarios -> Topologies]
      BY <1>13 DEF EditTopology, IInv, TypeOK
    <2> QED
      BY <1>13, <2>1 DEF EditTopology, namespace, ConfigOf, IInv, TypeOK,
        ConfigFollowsRecord, Admitted, Applied, Fresh, OneConfig, Emptied, Seen, Running, RunningIn
  <1>14. ASSUME NEW d \in Devices, SeesAvailable(d) PROVE IInv'
    <2>1. /\ saw' = [saw EXCEPT ![d] = pods[d]] /\ pods[d] \in OptionalScenario
          /\ pc = "wait" /\ d \in Running
          /\ UNCHANGED <<files, namespace, marker, target, pc, leftover>>
      BY <1>14 DEF SeesAvailable, IInv, TypeOK
    <2>2. TypeOK'
      BY <2>1 DEF files, namespace, IInv, TypeOK, Running, RunningIn
    <2>3. Seen'
      <3> SUFFICES ASSUME ~leftover, NEW e \in Devices PROVE saw'[e] \in {NoScenario, target}
        BY <2>1 DEF Seen
      <3>1. pods[d] = target
        BY <2>1 DEF IInv, OneConfig, Applied, ConfigOf
      <3> QED BY <2>1, <3>1 DEF IInv, TypeOK, Seen
    <2> QED
      BY <2>1, <2>2, <2>3 DEF files, namespace, ConfigOf, IInv, ConfigFollowsRecord, Admitted,
         Applied, Fresh, OneConfig, Emptied, Running, RunningIn
  <1>15. CASE UNCHANGED vars
    BY <1>15 DEF vars, ConfigOf, IInv, TypeOK,
        ConfigFollowsRecord, Admitted, Applied, Fresh, OneConfig, Emptied, Seen, Running, RunningIn
  <1> QED
    BY <1>1, <1>2, <1>3, <1>4, <1>5, <1>6, <1>7, <1>8, <1>9, <1>10, <1>11, <1>12, <1>13,
       <1>14, <1>15 DEF Next, Up, Down, Others

\* The invariant holds in every reachable state of the Kubernetes flavour.
THEOREM Invariance == Spec => []IInv
  BY InitIInv, NextIInv, PTL DEF Spec

\* Every variable keeps its type; no device that is not FRR is ever rendered.
THEOREM TypeCorrectness == Spec => []TypeOK
  BY Invariance, PTL DEF IInv

\* A scenario on record keeps every other scenario's config out of the namespace.
THEOREM ConfigTheorem == Spec => []ConfigFollowsRecord
  BY Invariance, PTL DEF IInv

\* The record names every running pod's scenario, as long as no kind-lab-up
\* stopped between its apply and its record: the gap is that window, no other.
THEOREM TrustTheorem == Spec => []RecordTrusted
  <1>1. IInv => RecordTrusted
    BY DEF IInv, ConfigFollowsRecord, OneConfig, RecordTrusted, RecordNamesTheRunning,
       Running, RunningIn
  <1> QED
    BY <1>1, Invariance, PTL

\* kubectl wait has seen every device of the manifest ready when it returns, each at
\* some time since the apply, and on this scenario's config unless something was
\* left behind.
THEOREM BannerTheorem == Spec => BannerIsHonest
  <1>1. IInv /\ [Next]_vars =>
          [pc = "wait" /\ pc' = "record" =>
             /\ \A d \in manifest[target] :
                   saw[d] # NoScenario /\ (~leftover => saw[d] = target)
             /\ ~leftover => \A d \in Running : pods[d] = target]_vars
    <2> SUFFICES ASSUME IInv, Next, pc = "wait", pc' = "record"
                 PROVE  /\ \A d \in manifest[target] :
                              saw[d] # NoScenario /\ (~leftover => saw[d] = target)
                        /\ ~leftover => \A d \in Running : pods[d] = target
      OBVIOUS
    <2>1. AwaitPods
      BY DEF Next, Up, Down, Others, UpBegins, Begins, LoadImage, GenerateManifest, Apply,
         SeesAvailable, PutOnRecord, DownBegins, Delete, Forget, PodStarts, PodGetsReady,
         PodStops, EditTopology, Advances, Fails
    <2>2. \A d \in deployments : saw[d] # NoScenario
      BY <2>1 DEF AwaitPods, Advances, Fails
    <2>3. /\ configMap.scenario = target
          /\ manifest[target] \subseteq deployments
          /\ deployments \subseteq Devices
      BY DEF IInv, TypeOK, Applied, AppliedSteps, ConfigOf
    <2>4. \A d \in manifest[target] : saw[d] # NoScenario /\ (~leftover => saw[d] = target)
      BY <2>2, <2>3 DEF IInv, Seen
    <2> QED
      BY <2>3, <2>4 DEF IInv, OneConfig
  <1> QED
    BY <1>1, Invariance, PTL DEF Spec, BannerIsHonest

\* kind-lab-down forgets a scenario over a clean slate only.
THEOREM CleanSlateTheorem == Spec => DownLeavesNothing
  <1>1. IInv /\ [Next]_vars =>
          [pc = "forget" /\ pc' # pc => deployments = {} /\ Running = {}]_vars
    BY DEF IInv, TypeOK, Emptied
  <1> QED
    BY <1>1, Invariance, PTL DEF Spec, DownLeavesNothing

-----------------------------------------------------------------------------
(***************************************************************************)
(* How far the Kubernetes flavour keeps the promise of the containerlab    *)
(* flavour.  Here the scenario that holds the namespace is the one its     *)
(* ConfigMap belongs to: it decides what every pod that starts reads.      *)
(***************************************************************************)

Slot == INSTANCE ScenarioSlot WITH occupant <- configMap.scenario, record <- marker

\* The scenario in the namespace is the one on record, or, between the apply and
\* the record, the one kind-lab-up is about to put there.
LEMMA OccupantKnown ==
    ASSUME IInv, ~leftover
    PROVE  \/ configMap.scenario \in {NoScenario, marker}
           \/ pc \in AppliedSteps /\ configMap.scenario = target
  BY DEF IInv, ConfigFollowsRecord, Fresh, Applied, ConfigOf

\* As long as nothing is left over, every step is a step of the slot, or none.
LEMMA SlotStep ==
    IInv /\ ~leftover /\ ~leftover' /\ [Next]_vars
      => [Slot!Next]_<<configMap.scenario, marker>>
  <1> SUFFICES ASSUME IInv, ~leftover, ~leftover', [Next]_vars
               PROVE  Slot!Next \/ UNCHANGED <<configMap.scenario, marker>>
    OBVIOUS
  <1>1. CASE configMap' = configMap /\ marker' = marker
    BY <1>1
  <1>2. CASE Apply
    <2>1. /\ pc = "apply" /\ marker' = marker
          /\ configMap' = ConfigOf(target)
      BY <1>2 DEF Apply, Advances, Fails
    <2>2. target \in Scenarios /\ marker \in {NoScenario, target}
      BY <2>1 DEF IInv, TypeOK, Admitted, UpSteps
    <2>3. configMap.scenario \in {NoScenario, target}
      BY <2>1, <2>2, OccupantKnown DEF AppliedSteps
    <2>4. configMap'.scenario = target
      BY <2>1 DEF ConfigOf
    <2>5. CASE configMap.scenario = target
      BY <2>1, <2>4, <2>5
    <2>6. CASE configMap.scenario = NoScenario
      <3>1. Slot!MoveIn(target)
        BY <2>1, <2>2, <2>4, <2>6 DEF Slot!MoveIn
      <3> QED BY <2>2, <3>1 DEF Slot!Next
    <2> QED BY <2>3, <2>5, <2>6
  <1>3. CASE PutOnRecord
    <2>1. target \in Scenarios /\ marker' = target /\ configMap' = configMap
      BY <1>3 DEF PutOnRecord, namespace, IInv, TypeOK
    <2>2. configMap.scenario = target
      BY <1>3 DEF PutOnRecord, Advances, IInv, Applied, AppliedSteps, ConfigOf
    <2>3. Slot!PutOnRecord(target)
      BY <2>1, <2>2 DEF Slot!PutOnRecord
    <2> QED BY <2>1, <2>3 DEF Slot!Next
  <1>4. CASE Delete
    <2>1. CASE CleanSlate
      <3>1. Slot!MoveOut
        BY <1>4, <2>1 DEF Delete, CleanSlate, NoConfigMap, Slot!MoveOut
      <3> QED BY <3>1 DEF Slot!Next
    <2>2. CASE UNCHANGED <<namespace, leftover>>
      BY <1>4, <2>2 DEF Delete, namespace
    <2> QED BY <1>4, <2>1, <2>2 DEF Delete
  <1>5. CASE Forget
    <2>1. Slot!Forget
      BY <1>5 DEF Forget, namespace, Slot!Forget
    <2> QED BY <2>1 DEF Slot!Next
  <1> QED
    BY <1>1, <1>2, <1>3, <1>4, <1>5
       DEF Next, Up, Down, Others, vars, namespace, UpBegins, LoadImage, GenerateManifest,
           SeesAvailable, AwaitPods, DownBegins, PodStarts, PodGetsReady, PodStops, EditTopology

\* As long as no kind-lab-up stops between its apply and its record, the targets
\* of the Kubernetes flavour implement the one-scenario slot too, with deletes
\* that fail, images that do not load and pods that restart.
THEOREM KindImplementsSlot == Spec /\ []~leftover => Slot!Spec
  <1>1. Init => Slot!Init
    BY DEF Init, NoConfigMap, Slot!Init
  <1> QED
    BY <1>1, Invariance, SlotStep, PTL DEF Spec, Slot!Spec, Slot!slotVars

\* Only an apply or a wait that fails leaves anything over.
LEMMA NothingLeft ==
    ASSUME "apply" \notin Faults, "wait" \notin Faults
    PROVE  Spec => []~leftover
  <1>1. Init => ~leftover
    BY DEF Init
  <1>2. ~leftover /\ [Next]_vars => ~leftover'
    BY DEF Next, Up, Down, Others, vars, namespace, UpBegins, LoadImage, GenerateManifest,
           Apply, SeesAvailable, AwaitPods, PutOnRecord, DownBegins, Delete, CleanSlate, Forget, PodStarts,
           PodGetsReady, PodStops, EditTopology, Fails
  <1> QED
    BY <1>1, <1>2, PTL DEF Spec

\* Where the apply and the wait do not fail, the marker names the scenario of every
\* running pod, whatever else fails, restarts or is edited; with a wait that times
\* out it does not.
THEOREM RecordTheorem ==
    ASSUME "apply" \notin Faults, "wait" \notin Faults
    PROVE  Spec => []RecordNamesTheRunning
  <1>1. RecordTrusted /\ ~leftover => RecordNamesTheRunning
    BY DEF RecordTrusted
  <1> QED
    BY <1>1, NothingLeft, TrustTheorem, PTL

=============================================================================
