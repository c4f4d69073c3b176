----------------------------- MODULE Discovery -----------------------------
(***************************************************************************)
(* The engine token through the recipes of local-lab-up and                *)
(* local-lab-discover, and the two waits, wait_ready and wait_devices,     *)
(* that it has to outlast.  A token carries the grants of its login and a  *)
(* fixed life; an engine that gates its routes asks for both, and a CMS    *)
(* image may come without the command that grants.  Grants only ever       *)
(* widen, so a number stands for a set of them.  What a step leaves behind *)
(* otherwise is the business of ClabLab, Bootstrap, CmsConfig and          *)
(* RunWorkflow.                                                            *)
(***************************************************************************)
EXTENDS Integers, FiniteSets

CONSTANTS
    Blocks,          \* DISCOVER_FB
    Devices,         \* the hosts of discover-params.json
    Life,            \* of an engine token
    LoginTimeout,    \* lab_token: the login's round trip
    ReadyTimeout,    \* WAIT_READY_TIMEOUT
    DevicesTimeout,  \* WAIT_DEVICES_TIMEOUT
    EngineTimeout,   \* wait_ready: one request
    ConnectTimeout,  \* wait_devices: one connection
    Interval,        \* the pause between two rounds of a wait
    MaxGrants,       \* bound: the widest permissions.json
    NoToken

ASSUME TimesAssumption ==
    {Life, LoginTimeout, ReadyTimeout, DevicesTimeout,
     EngineTimeout, ConnectTimeout, Interval} \subseteq Nat
ASSUME ItemsAssumption ==
    /\ IsFiniteSet(Blocks) /\ IsFiniteSet(Devices)
    /\ Blocks \intersect Devices = {}
ASSUME MaxGrantsAssumption == MaxGrants \in Nat
ASSUME NoTokenAssumption == NoToken \notin [age : Nat, grants : Nat]

\* A wait starts its last round before its timeout and takes a pause before it.
LongestReady == ReadyTimeout + Interval + EngineTimeout * Cardinality(Blocks)
LongestDevices == DevicesTimeout + Interval + ConnectTimeout * Cardinality(Devices)

\* A login and both waits at their longest fit into a token's life: in the
\* repository 15 + (180 + 2 + 5) + (240 + 2 + 3 * 15) < 900 seconds.
ASSUME LifeAssumption == LoginTimeout + LongestReady + LongestDevices < Life

VARIABLES
    grantCommand,  \* the CMS image has grant_workflow_permissions
    gated,         \* the engine gates: NEOPS_AUTHZ_MODE is not disabled
    declared,  \* the grants cms/permissions.json gives neops
    resolved,  \* the same in the tree that the target which runs resolved
    granted,   \* the same in the CMS
    shell,     \* NEOPS_ENGINE_TOKEN in the operator's shell
    env,       \* NEOPS_ENGINE_TOKEN in the recipe's shell
    minted,    \* history: the target minted it
    target,    \* the make target that runs, or ran last
    pc,        \* its step
    up,        \* the function blocks with an online worker, the devices that accept SSH
    pending,   \* those the wait has not found ready
    round,     \* those it has yet to ask in this round
    spent,     \* the time since it started
    seen       \* history: those that were ready since the last wait for them started

stack == <<grantCommand, gated>>
grants == <<declared, resolved, granted>>
tokens == <<shell, env, minted>>
wait == <<pending, round, spent>>
vars == <<stack, grants, tokens, target, pc, up, wait, seen>>

Items == Blocks \union Devices
Token == [age : 0..Life, grants : 0..MaxGrants]
TokenOf(age, g) == [age |-> age, grants |-> g]

Targets == {"local-lab-up", "local-lab-discover"}

\* Mutant: the token is minted before the grants are applied.
StepAfterSwapped ==
    [t \in Targets |->
        IF t = "local-lab-up"
        THEN [start |-> "mint", mint |-> "config", config |-> "bootstrap",
              bootstrap |-> "deploy", deploy |-> "remint", remint |-> "ready",
              ready |-> "devices", devices |-> "record"]
        ELSE [start |-> "mint", mint |-> "config", config |-> "ready",
              ready |-> "devices", devices |-> "run"]]

\* The order of the recipes.
StepAfter ==
    [t \in Targets |->
        IF t = "local-lab-up"
        THEN [start |-> "config", config |-> "mint", mint |-> "bootstrap",
              bootstrap |-> "deploy", deploy |-> "remint", remint |-> "ready",
              ready |-> "devices", devices |-> "record"]
        ELSE [start |-> "config", config |-> "mint", mint |-> "ready",
              ready |-> "devices", devices |-> "run"]]

Waited == [ready |-> Blocks, devices |-> Devices]
Timeout == [ready |-> ReadyTimeout, devices |-> DevicesTimeout]
Limit == [ready |-> EngineTimeout, devices |-> ConnectTimeout]
Waits == {"ready", "devices"}

Init ==
    /\ grantCommand \in BOOLEAN /\ gated \in BOOLEAN
    /\ declared \in 0..MaxGrants
    /\ resolved = 0 /\ granted = 0
    /\ shell = NoToken /\ env = NoToken /\ minted = FALSE
    /\ target \in Targets /\ pc = "idle"
    /\ up = {} /\ pending = {} /\ round = {} /\ spent = 0 /\ seen = {}

(***************************************************************************)
(* Time and tokens                                                         *)
(***************************************************************************)

Aged(t, d) == IF t = NoToken THEN t
              ELSE [t EXCEPT !.age = IF @ + d > Life THEN Life ELSE @ + d]

Passes(d) == shell' = Aged(shell, d) /\ env' = Aged(env, d)

\* 401 without a token that lives, 403 without the grant, unless nothing is gated.
Refused(t) == gated /\ (t = NoToken \/ t.age = Life \/ t.grants = 0)

Goto(step) ==
    /\ pc' = step
    /\ IF step \in Waits
       THEN /\ pending' = Waited[step] /\ round' = Waited[step] /\ spent' = 0
            /\ seen' = (seen \ Waited[step]) \union up
       ELSE UNCHANGED <<wait, seen>>

Completes(step) == pc = step /\ Goto(StepAfter[target][step])

Begin(t) ==
    /\ pc = "idle"
    /\ target' = t
    /\ Goto(StepAfter[t].start)
    /\ resolved' = declared
    /\ env' = shell /\ minted' = FALSE
    /\ UNCHANGED <<stack, declared, granted, shell, up>>

\* The recipe's shell ends, and its token with it.
Ends ==
    /\ pc' = "idle"
    /\ env' = NoToken /\ minted' = FALSE /\ resolved' = 0
    /\ pending' = {} /\ round' = {} /\ spent' = 0 /\ seen' = {}
    /\ UNCHANGED <<stack, declared, granted, shell, target, up>>

\* set -e, and Ctrl-C: a target ends where it stands.
Fails == pc # "idle" /\ Ends

\* Without the command the script prints a line, grants nothing and succeeds.
ApplyCmsConfig ==
    /\ Completes("config")
    /\ granted' = IF grantCommand /\ resolved > granted THEN resolved ELSE granted
    /\ UNCHANGED <<stack, declared, resolved, tokens, target, up>>

\* MINT_ENGINE_TOKEN; a refused or rate-limited login fails the target.
Mint ==
    /\ \E step \in {"mint", "remint"} : Completes(step)
    /\ \/ env # NoToken /\ UNCHANGED tokens
       \/ /\ env = NoToken
          /\ \E d \in 0..LoginTimeout :
                env' = TokenOf(d, granted) /\ shell' = Aged(shell, d)
          /\ minted' = TRUE
    /\ UNCHANGED <<stack, grants, target, up>>

\* The registration takes its time, and the token when it begins.
Bootstrap ==
    /\ ~Refused(env)
    /\ Completes("bootstrap")
    /\ \E d \in 0..Life : Passes(d)
    /\ UNCHANGED <<stack, grants, minted, target, up>>

\* Mutant: no `unset NEOPS_ENGINE_TOKEN`.
KeepToken(d) == env' = Aged(env, d) /\ UNCHANGED minted

UnsetToken(d) == env' = NoToken /\ minted' = FALSE

Deploy ==
    /\ Completes("deploy")
    /\ \E d \in 0..Life : shell' = Aged(shell, d) /\ UnsetToken(d)
    /\ UNCHANGED <<stack, grants, target, up>>

(***************************************************************************)
(* wait_ready and wait_devices: the same loop                              *)
(***************************************************************************)

\* Mutant: a block that is known without an online worker counts.
CountsKnown(answer) == answer # "none"

Counts(answer) == answer = "online"

Answers(i) == IF i \in up THEN {"online", "none"} ELSE {"offline", "none"}

\* A 401 or 403, which takes an engine that answers, ends wait_ready; a device needs
\* no token.
Asks(i, step) ==
    /\ pc = step
    /\ \E d \in 0..Limit[step] : Passes(d) /\ spent' = spent + d
    /\ round' = round \ {i}
    /\ \E answer \in Answers(i) :
          /\ step = "ready" /\ answer # "none" => ~Refused(env)
          /\ pending' = IF Counts(answer) THEN pending \ {i} ELSE pending
    /\ UNCHANGED <<stack, grants, minted, target, pc, up, seen>>

Ready(step) ==
    /\ round = {} /\ pending = {}
    /\ Completes(step)
    /\ UNCHANGED <<stack, grants, tokens, target, up>>

\* Mutant: the next round asks for everything again.
SleepsAskingAll(step) ==
    /\ pc = step
    /\ round = {} /\ pending # {} /\ spent < Timeout[step]
    /\ round' = Waited[step]
    /\ Passes(Interval) /\ spent' = spent + Interval
    /\ UNCHANGED <<stack, grants, minted, target, pc, up, pending, seen>>

Sleeps(step) ==
    /\ pc = step
    /\ round = {} /\ pending # {} /\ spent < Timeout[step]
    /\ round' = pending
    /\ Passes(Interval) /\ spent' = spent + Interval
    /\ UNCHANGED <<stack, grants, minted, target, pc, up, pending, seen>>

TimesOut(step) ==
    /\ pc = step
    /\ round = {} /\ pending # {} /\ spent >= Timeout[step]
    /\ Fails

Waiting ==
    \E step \in Waits :
        (\E i \in round : Asks(i, step)) \/ Ready(step) \/ Sleeps(step) \/ TimesOut(step)

(***************************************************************************)
(* The ends of the recipes; the execution itself is RunWorkflow's          *)
(***************************************************************************)

Record == pc = "record" /\ Ends

StartExecution == pc = "run" /\ ~Refused(env) /\ Ends

Recipe ==
    \/ \E t \in Targets : Begin(t)
    \/ Fails \/ ApplyCmsConfig \/ Mint \/ Bootstrap \/ Deploy \/ Waiting
    \/ Record \/ StartExecution

(***************************************************************************)
(* The lab and its operator                                                *)
(***************************************************************************)

\* Workers and devices come and go.
ItemsChange ==
    /\ up' \in SUBSET Items
    /\ seen' = IF pc = "idle" THEN {} ELSE seen \union up'
    /\ UNCHANGED <<stack, grants, tokens, target, pc, wait>>

EditPermissions ==
    /\ declared' \in declared + 1 .. MaxGrants
    /\ UNCHANGED <<stack, resolved, granted, tokens, target, pc, up, wait, seen>>

\* make lab-grant, from another shell.
LabGrant ==
    /\ grantCommand
    /\ granted' \in granted + 1 .. MaxGrants
    /\ UNCHANGED <<stack, declared, resolved, tokens, target, pc, up, wait, seen>>

\* local-env-prune drops the CMS database.
Prune ==
    /\ pc = "idle" /\ granted' = 0
    /\ UNCHANGED <<stack, declared, resolved, tokens, target, pc, up, wait, seen>>

\* export NEOPS_ENGINE_TOKEN=$(./lab_token), for any account; or unset it.
ExportToken ==
    /\ pc = "idle"
    /\ shell' \in {TokenOf(0, g) : g \in 0..granted} \union {NoToken}
    /\ UNCHANGED <<stack, grants, env, minted, target, pc, up, wait, seen>>

TimePasses ==
    /\ pc = "idle"
    /\ \E d \in 1..Life : Passes(d)
    /\ UNCHANGED <<stack, grants, minted, target, pc, up, wait, seen>>

Around == ItemsChange \/ EditPermissions \/ LabGrant \/ Prune \/ ExportToken \/ TimePasses

Next == Recipe \/ Around

Spec == Init /\ [][Next]_vars

(***************************************************************************)
(* Properties                                                              *)
(***************************************************************************)

\* Types, and a wait asks only for what it waits for.
TypeOK ==
    /\ grantCommand \in BOOLEAN /\ gated \in BOOLEAN
    /\ declared \in 0..MaxGrants /\ resolved \in 0..MaxGrants /\ granted \in 0..MaxGrants
    /\ shell \in Token \union {NoToken} /\ env \in Token \union {NoToken}
    /\ minted \in BOOLEAN
    /\ target \in Targets
    /\ pc \in {"idle", "config", "mint", "bootstrap", "deploy", "remint", "ready",
               "devices", "record", "run"}
    /\ up \subseteq Items /\ seen \subseteq Items
    /\ round \subseteq pending
    /\ pc \in Waits => pending \subseteq Waited[pc]
    /\ spent \in Nat

\* A token the target minted is alive in every call of wait_ready and when
\* run_workflow starts the execution, however long the registration and the deploy
\* took and however late in their last rounds the waits were; local-lab-up calls
\* wait_ready with no other (Makefile:408-411, 429-432, 490-496).
TokenOutlastsTheWaits ==
    /\ pc \in {"ready", "run"} /\ minted => env.age < Life
    /\ pc = "ready" /\ target = "local-lab-up" => minted

\* Where the CMS image can grant, a minted token carries at least what the tree
\* declared that its target resolved, whatever was edited, granted or dropped before
\* (Makefile:397-399, 488-491).  Where it cannot, the targets go on with a token that
\* carries nothing (apply_cms_config:263-267).
GrantsReachTheEngine ==
    grantCommand =>
        (pc \in {"bootstrap", "ready", "run"} /\ minted => env.grants >= resolved)

\* Past a wait each of its items was ready at some time since it started, although
\* none of them is asked twice (wait_ready:105-118, wait_devices:105-118).
ZeroMeansSeen ==
    /\ pc \in Waits => Waited[pc] \ pending \subseteq seen
    /\ pc \in {"devices", "record", "run"} => Blocks \subseteq seen
    /\ pc \in {"record", "run"} => Devices \subseteq seen

=============================================================================
