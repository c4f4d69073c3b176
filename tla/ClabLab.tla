------------------------------- MODULE ClabLab -------------------------------
(***************************************************************************)
(* The containerlab flavour: the make targets local-lab-up, local-lab-down *)
(* and generate, run one at a time, against the device containers, the     *)
(* generated clab file of each scenario and the marker file that records   *)
(* the deployed scenario.  containerlab is external: it acts on the nodes  *)
(* of the topology it is handed and refuses to deploy while other nodes of *)
(* the lab still run.                                                      *)
(***************************************************************************)
EXTENDS LabScenarios

FaultKinds == {"generate", "stack", "bootstrap", "deploy", "wait", "destroy", "edit"}

ASSUME FaultsAssumption == Faults \subseteq FaultKinds

VARIABLES
    topology,   \* scenarios/<s>/topology.json
    clabFile,   \* generated/<s>/clab/neops-lab.clab.json, {} while absent
    lab,        \* per device container: the scenario it was started from
    accepting,  \* the devices that accept SSH
    published,  \* the engine holds the discovery workflow
    marker,     \* generated/.deployed-scenario-clab
    target,     \* $(SCENARIO) of the running make target
    pc          \* the step the running make target is at

vars == <<topology, clabFile, lab, accepting, published, marker, target, pc>>
files == <<topology, clabFile>>

Running == RunningIn(lab)

Init ==
    /\ topology = InitialTopology
    /\ clabFile = [s \in Scenarios |-> {}]
    /\ lab = [d \in Devices |-> NoScenario]
    /\ accepting = {}
    /\ published = FALSE
    /\ marker = NoScenario
    /\ target \in Scenarios
    /\ pc = "idle"

(***************************************************************************)
(* Steps the targets share.  A failing step ends the target: make stops at *)
(* the first command that fails, and `set -e` does in the long recipe.     *)
(***************************************************************************)

Begins(s, label) ==
    /\ pc = "idle"
    /\ target' = s
    /\ pc' = label

Advances(from, to) ==
    /\ pc = from
    /\ pc' = to
    /\ UNCHANGED target

Fails(from, kind) ==
    /\ kind \in Faults
    /\ Advances(from, "idle")

\* Mutant: what an earlier run wrote is kept beside the new nodes.
WrittenOverOld(s) == [clabFile EXCEPT ![s] = @ \union topology[s]]

\* The clab file gen_clab_topology leaves for scenario s.
Written(s) == [clabFile EXCEPT ![s] = topology[s]]

StopDevices(gone) ==
    /\ lab' = Without(lab, gone)
    /\ accepting' = accepting \ gone

(***************************************************************************)
(* local-lab-up                                                            *)
(***************************************************************************)

\* Mutant: no look at the marker.
AdmitsAny(s) == TRUE

\* The guard on the marker: nothing on record, or this scenario.
Admits(s) == marker \in {NoScenario, s}

\* Mutant: the marker written ahead of the deploy.
UpBeginsOnRecord(s) ==
    /\ Admits(s)
    /\ Begins(s, "generate")
    /\ marker' = s
    /\ UNCHANGED <<files, lab, accepting, published>>

UpBegins(s) ==
    /\ Admits(s)
    /\ Begins(s, "generate")
    /\ UNCHANGED <<files, lab, accepting, published, marker>>

\* The generator writes the clab file before the parameter files, so a failing
\* run may leave it written.
Generate ==
    /\ \/ Advances("generate", "stack") /\ clabFile' = Written(target)
       \/ Fails("generate", "generate") /\ clabFile' \in {clabFile, Written(target)}
    /\ UNCHANGED <<topology, lab, accepting, published, marker>>

\* The CMS, its configuration, a token, the other containers.
StartStack ==
    /\ Advances("stack", "bootstrap") \/ Fails("stack", "stack")
    /\ UNCHANGED <<files, lab, accepting, published, marker>>

\* Mutant: `up -d` taken for the end of the bootstrap.
AwaitNoBootstrap ==
    /\ Advances("bootstrap", "reconfigure")
    /\ UNCHANGED <<files, lab, accepting, published, marker>>

\* docker compose wait lab_bootstrap: its exit code is the step's.
AwaitBootstrap ==
    /\ \/ Advances("bootstrap", "reconfigure") /\ published' = TRUE
       \/ Fails("bootstrap", "bootstrap") /\ published' \in {published, TRUE}
    /\ UNCHANGED <<files, lab, accepting, marker>>

\* deploy --reconfigure, first half: the nodes it was handed are destroyed.
Reconfigure ==
    /\ \/ Advances("reconfigure", "create") /\ StopDevices(clabFile[target])
       \/ /\ Fails("reconfigure", "deploy")
          /\ \E gone \in SUBSET clabFile[target] : StopDevices(gone)
    /\ UNCHANGED <<files, published, marker>>

\* Second half: with no node of the lab left, every node it was handed starts.
Create ==
    /\ Running = {}
    /\ \/ /\ Advances("create", "ready")
          /\ lab' = Plus(lab, clabFile[target], target)
       \/ /\ Fails("create", "deploy")
          /\ \E some \in SUBSET clabFile[target] : lab' = Plus(lab, some, target)
    /\ UNCHANGED <<files, accepting, published, marker>>

\* "lab has already been deployed"
CreateRefused ==
    /\ Running # {}
    /\ Advances("create", "idle")
    /\ UNCHANGED <<files, lab, accepting, published, marker>>

\* A second token, then wait_ready for the worker's function block.
AwaitWorker ==
    /\ Advances("ready", "devices") \/ Fails("ready", "wait")
    /\ UNCHANGED <<files, lab, accepting, published, marker>>

\* wait_devices on the /32 targets generated beside the clab file.
AwaitDevices ==
    /\ \/ Advances("devices", "record") /\ clabFile[target] \subseteq accepting
       \/ Fails("devices", "wait")
    /\ UNCHANGED <<files, lab, accepting, published, marker>>

PutOnRecord ==
    /\ Advances("record", "idle")
    /\ marker' = target
    /\ UNCHANGED <<files, lab, accepting, published>>

Up ==
    \/ \E s \in Scenarios : UpBegins(s)
    \/ Generate \/ StartStack \/ AwaitBootstrap \/ Reconfigure \/ Create
    \/ CreateRefused \/ AwaitWorker \/ AwaitDevices \/ PutOnRecord

(***************************************************************************)
(* local-lab-down                                                          *)
(***************************************************************************)

DownBegins(s) ==
    /\ Begins(s, "destroy")
    /\ UNCHANGED <<files, lab, accepting, published, marker>>

\* The marker wins; $(SCENARIO) is the fallback.
DownScenario == IF marker # NoScenario THEN marker ELSE target

\* containerlab destroy || true: a destroy that fails does not stop the target,
\* an operator who interrupts it does.
Destroy ==
    /\ \/ Advances("destroy", "forget") /\ StopDevices(clabFile[DownScenario])
       \/ /\ "destroy" \in Faults
          /\ Advances("destroy", "forget") \/ Advances("destroy", "idle")
          /\ \E gone \in SUBSET clabFile[DownScenario] : StopDevices(gone)
    /\ UNCHANGED <<files, published, marker>>

\* rm -f marker, then docker compose down, which touches nothing modelled here.
Forget ==
    /\ Advances("forget", "idle")
    /\ marker' = NoScenario
    /\ UNCHANGED <<files, lab, accepting, published>>

Down == (\E s \in Scenarios : DownBegins(s)) \/ Destroy \/ Forget

(***************************************************************************)
(* Other targets, the author of the scenarios, the booting devices.        *)
(***************************************************************************)

\* make generate, also the prerequisite of local-lab-discover.
Regenerate(s) ==
    /\ pc = "idle"
    /\ clabFile' = Written(s)
    /\ UNCHANGED <<topology, lab, accepting, published, marker, target, pc>>

\* local-env-prune drops the engine's volume.
Prune ==
    /\ pc = "idle"
    /\ published' = FALSE
    /\ UNCHANGED <<files, lab, accepting, marker, target, pc>>

EditTopology(s) ==
    /\ "edit" \in Faults
    /\ \E t \in Topologies : topology' = [topology EXCEPT ![s] = t]
    /\ UNCHANGED <<clabFile, lab, accepting, published, marker, target, pc>>

DeviceBoots(d) ==
    /\ d \in Running \ accepting
    /\ accepting' = accepting \union {d}
    /\ UNCHANGED <<files, lab, published, marker, target, pc>>

Others ==
    \/ \E s \in Scenarios : Regenerate(s) \/ EditTopology(s)
    \/ Prune
    \/ \E d \in Devices : DeviceBoots(d)

Next == Up \/ Down \/ Others

Spec == Init /\ [][Next]_vars

-----------------------------------------------------------------------------
(***************************************************************************)
(* Properties.                                                             *)
(***************************************************************************)

UpSteps == {"generate", "stack", "bootstrap", "reconfigure", "create", "ready",
            "devices", "record"}
DownSteps == {"destroy", "forget"}

TypeOK ==
    /\ topology \in [Scenarios -> Topologies]
    /\ clabFile \in [Scenarios -> Topologies \union {{}}]
    /\ lab \in [Devices -> OptionalScenario]
    /\ accepting \subseteq Running
    /\ published \in BOOLEAN
    /\ marker \in OptionalScenario
    /\ target \in Scenarios
    /\ pc \in {"idle"} \union UpSteps \union DownSteps

\* The devices that run were all started from the scenario the marker names,
\* whatever step of whatever target failed or was interrupted before: what lets
\* local-lab-up trust the marker and local-lab-down destroy by it.
RecordNamesTheRunning ==
    marker # NoScenario => \A d \in Running : lab[d] = marker

\* The scenario that holds the host.
Occupant ==
    IF Running = {} THEN NoScenario ELSE lab[CHOOSE d \in Devices : d \in Running]

Slot == INSTANCE ScenarioSlot WITH occupant <- Occupant, record <- marker

\* The targets implement the one-scenario-at-a-time slot, with every fault: no
\* two scenarios ever share the host, and none moves in past another's record.
ImplementsSlot == Slot!Spec

\* A lab is put on record only when it is what the banner says: exactly the
\* devices of the scenario's topology run, all of them from it and accepting
\* SSH, and the discovery workflow is on the engine.
BannerIsHonest ==
    [][pc = "record" /\ pc' # pc =>
         /\ Running = clabFile[target]
         /\ Running \subseteq accepting
         /\ \A d \in Running : lab[d] = target
         /\ published]_vars

\* local-lab-down hands containerlab a topology that names every running
\* device: it tears down the right scenario, whatever $(SCENARIO) is.
DownHandsTheRunning ==
    pc = "destroy" => Running \subseteq clabFile[DownScenario]

=============================================================================
