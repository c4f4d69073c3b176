------------------------------- MODULE KindLab -------------------------------
(***************************************************************************)
(* The Kubernetes flavour: the make targets kind-lab-up and kind-lab-down, *)
(* run one at a time, against one namespace of a shared KIND cluster and   *)
(* the marker file that records the deployed scenario.  The cluster is     *)
(* external: `kubectl apply` adds and updates but never removes, a pod     *)
(* reads the ConfigMap when it starts and not again, and a pod whose key   *)
(* is no longer in the ConfigMap cannot start.                             *)
(***************************************************************************)
EXTENDS LabScenarios

CONSTANT Frr  \* the devices with vendor "frr"; no other device is rendered

FaultKinds == {"load", "manifest", "apply", "wait", "delete", "edit", "restart"}

ASSUME KindFaultsAssumption == Faults \subseteq FaultKinds

VARIABLES
    topology,     \* scenarios/<s>/topology.json
    manifest,     \* generated/<s>/kind/lab.yaml: the devices it renders
    deployments,  \* the Deployments in the namespace
    configMap,    \* the ConfigMap: its scenario, the devices it has keys for
    pods,         \* per device: the scenario its pod read its config from
    ready,        \* the devices whose pod passes the readiness probe
    marker,       \* generated/.deployed-scenario-kind
    target,       \* $(SCENARIO) of the running make target
    pc,           \* the step the running make target is at
    leftover,     \* history: since the last clean slate, a kind-lab-up stopped
                  \* between its apply and its record
    saw           \* what the running kubectl wait has behind it: per Deployment it
                  \* saw Available, the scenario its pod ran

vars == <<topology, manifest, deployments, configMap, pods, ready, marker, target, pc,
          leftover, saw>>
files == <<topology, manifest>>
namespace == <<deployments, configMap, pods, ready>>

Running == RunningIn(pods)

NothingSeen == [d \in Devices |-> NoScenario]

NoConfigMap == [scenario |-> NoScenario, devices |-> {}]

Init ==
    /\ topology = InitialTopology
    /\ manifest = [s \in Scenarios |-> {}]
    /\ deployments = {}
    /\ configMap = NoConfigMap
    /\ pods = [d \in Devices |-> NoScenario]
    /\ ready = {}
    /\ marker = NoScenario
    /\ target \in Scenarios
    /\ pc = "idle"
    /\ leftover = FALSE
    /\ saw = NothingSeen

Begins(s, label) ==
    /\ pc = "idle"
    /\ target' = s
    /\ pc' = label

Advances(from, to) ==
    /\ pc = from
    /\ pc' = to
    /\ UNCHANGED target

Fails(from, kind) ==
    /\ kind \in Faults
    /\ Advances(from, "idle")

(***************************************************************************)
(* kind-lab-up                                                             *)
(***************************************************************************)

\* Mutant: no look at the marker.
AdmitsAny(s) == TRUE

\* The guard on the marker: nothing on record, or this scenario.
Admits(s) == marker \in {NoScenario, s}

UpBegins(s) ==
    /\ Admits(s)
    /\ Begins(s, "load")
    /\ UNCHANGED <<files, namespace, marker, leftover, saw>>

\* kind load docker-image
LoadImage ==
    /\ Advances("load", "manifest") \/ Fails("load", "load")
    /\ UNCHANGED <<files, namespace, marker, leftover, saw>>

\* Mutant: the devices of every vendor.
EveryDevice(devices) == devices

frr_devices(devices) == devices \intersect Frr

\* gen_kind_manifests returns 1, and writes nothing, for a scenario without FRR
\* devices.
GenerateManifest ==
    /\ \/ /\ frr_devices(topology[target]) # {}
          /\ Advances("manifest", "apply")
          /\ manifest' = [manifest EXCEPT ![target] = frr_devices(topology[target])]
       \/ /\ frr_devices(topology[target]) = {}
          /\ Advances("manifest", "idle")
          /\ UNCHANGED manifest
       \/ Fails("manifest", "manifest") /\ UNCHANGED manifest
    /\ UNCHANGED <<topology, namespace, marker, leftover, saw>>

ConfigOf(s) == [scenario |-> s, devices |-> manifest[s]]

\* A failing apply may have created or updated any of the documents.
Apply ==
    /\ \/ /\ Advances("apply", "wait")
          /\ deployments' = deployments \union manifest[target]
          /\ configMap' = ConfigOf(target)
          /\ UNCHANGED leftover
       \/ /\ Fails("apply", "apply")
          /\ \E some \in SUBSET manifest[target] : deployments' = deployments \union some
          /\ configMap' \in {configMap, ConfigOf(target)}
          /\ leftover' = TRUE
    /\ UNCHANGED <<files, pods, ready, marker, saw>>

\* kubectl wait --all lists the Deployments and takes one after another: it moves
\* on from one it saw Available and does not look at it again.
SeesAvailable(d) ==
    /\ pc = "wait"
    /\ d \in deployments \intersect ready
    /\ saw[d] = NoScenario
    /\ saw' = [saw EXCEPT ![d] = pods[d]]
    /\ UNCHANGED <<files, namespace, marker, target, pc, leftover>>

\* Mutant: no wait between the apply and the record.
AwaitNothing ==
    /\ Advances("wait", "record")
    /\ saw' = NothingSeen
    /\ UNCHANGED <<files, namespace, marker, leftover>>

\* It returns when it has seen every Deployment of the namespace, not only the
\* applied ones.
AwaitPods ==
    /\ \/ /\ Advances("wait", "record")
          /\ \A d \in deployments : saw[d] # NoScenario
          /\ UNCHANGED leftover
       \/ /\ Fails("wait", "wait")
          /\ leftover' = TRUE
    /\ saw' = NothingSeen
    /\ UNCHANGED <<files, namespace, marker>>

PutOnRecord ==
    /\ Advances("record", "idle")
    /\ marker' = target
    /\ UNCHANGED <<files, namespace, leftover, saw>>

Up ==
    \/ \E s \in Scenarios : UpBegins(s)
    \/ \E d \in Devices : SeesAvailable(d)
    \/ LoadImage \/ GenerateManifest \/ Apply \/ AwaitPods \/ PutOnRecord

(***************************************************************************)
(* kind-lab-down                                                           *)
(***************************************************************************)

DownBegins(s) ==
    /\ Begins(s, "delete")
    /\ UNCHANGED <<files, namespace, marker, leftover, saw>>

CleanSlate ==
    /\ deployments' = {}
    /\ configMap' = NoConfigMap
    /\ pods' = [d \in Devices |-> NoScenario]
    /\ ready' = {}
    /\ leftover' = FALSE

\* Mutant: a failing delete does not stop the target.
DeleteOrTrue ==
    /\ \/ Advances("delete", "forget") /\ CleanSlate
       \/ Advances("delete", "forget") /\ UNCHANGED <<namespace, leftover>>
    /\ UNCHANGED <<files, marker, saw>>

\* kubectl delete namespace returns once the namespace is gone.  It may fail,
\* which ends the target; interrupted, the cluster still completes it.
Delete ==
    /\ \/ Advances("delete", "forget") /\ CleanSlate
       \/ Fails("delete", "delete") /\ CleanSlate
       \/ Fails("delete", "delete") /\ UNCHANGED <<namespace, leftover>>
    /\ UNCHANGED <<files, marker, saw>>

\* rm -f marker
Forget ==
    /\ Advances("forget", "idle")
    /\ marker' = NoScenario
    /\ UNCHANGED <<files, namespace, leftover, saw>>

Down == (\E s \in Scenarios : DownBegins(s)) \/ Delete \/ Forget

(***************************************************************************)
(* The cluster, the author of the scenarios.                               *)
(***************************************************************************)

PodStarts(d) ==
    /\ d \in (deployments \intersect configMap.devices) \ Running
    /\ pods' = Plus(pods, {d}, configMap.scenario)
    /\ UNCHANGED <<files, deployments, configMap, ready, marker, target, pc, leftover, saw>>

PodGetsReady(d) ==
    /\ d \in Running \ ready
    /\ ready' = ready \union {d}
    /\ UNCHANGED <<files, deployments, configMap, pods, marker, target, pc, leftover, saw>>

\* An eviction, a node restart, a container that died.
PodStops(d) ==
    /\ "restart" \in Faults
    /\ d \in Running
    /\ pods' = Without(pods, {d})
    /\ ready' = ready \ {d}
    /\ UNCHANGED <<files, deployments, configMap, marker, target, pc, leftover, saw>>

EditTopology(s) ==
    /\ "edit" \in Faults
    /\ \E t \in Topologies : topology' = [topology EXCEPT ![s] = t]
    /\ UNCHANGED <<manifest, namespace, marker, target, pc, leftover, saw>>

Others ==
    \/ \E d \in Devices : PodStarts(d) \/ PodGetsReady(d) \/ PodStops(d)
    \/ \E s \in Scenarios : EditTopology(s)

Next == Up \/ Down \/ Others

Spec == Init /\ [][Next]_vars

-----------------------------------------------------------------------------
(***************************************************************************)
(* Properties.                                                             *)
(***************************************************************************)

UpSteps == {"load", "manifest", "apply", "wait", "record"}
DownSteps == {"delete", "forget"}

TypeOK ==
    /\ topology \in [Scenarios -> Topologies]
    /\ manifest \in [Scenarios -> SUBSET (Devices \intersect Frr)]
    /\ deployments \subseteq Devices
    /\ configMap \in [scenario : OptionalScenario, devices : SUBSET Devices]
    /\ pods \in [Devices -> OptionalScenario]
    /\ Running \subseteq deployments
    /\ ready \subseteq Running
    /\ marker \in OptionalScenario
    /\ target \in Scenarios
    /\ pc \in {"idle"} \union UpSteps \union DownSteps
    /\ leftover \in BOOLEAN
    /\ saw \in [Devices -> OptionalScenario]

\* While a scenario is on record no other one reaches the namespace: a pod that
\* starts, whenever it does, reads the recorded scenario's config.
ConfigFollowsRecord ==
    marker # NoScenario => configMap.scenario \in {NoScenario, marker}

\* The running pods are those of the scenario on record.
RecordNamesTheRunning ==
    marker # NoScenario => \A d \in Running : pods[d] = marker

\* As long as no kind-lab-up stopped between its apply and its record, the
\* record can be trusted: no other scenario's device keeps running beside it.
RecordTrusted == ~leftover => RecordNamesTheRunning

\* The wait ends only when every device of the scenario's manifest was seen to accept
\* SSH since this kind-lab-up applied it and, unless an earlier one left something
\* behind, on this scenario's config, which is also what every pod then runs that
\* runs at all: one that was seen early may be gone when the last one is seen.
BannerIsHonest ==
    [][pc = "wait" /\ pc' = "record" =>
         /\ \A d \in manifest[target] :
               saw[d] # NoScenario /\ (~leftover => saw[d] = target)
         /\ ~leftover => \A d \in Running : pods[d] = target]_vars

\* kind-lab-down forgets a scenario only over a clean slate, whichever scenario
\* was deployed and however an earlier target stopped.
DownLeavesNothing ==
    [][pc = "forget" /\ pc' # pc => deployments = {} /\ Running = {}]_vars

=============================================================================
