------------------------------ MODULE Bootstrap ------------------------------
(***************************************************************************)
(* bootstrap/register.py, the one-shot lab_bootstrap container: it sends   *)
(* every workflow document of the resolved scenario to the engine, one     *)
(* after the other, and its exit code decides whether local-lab-up and     *)
(* kind-lab-discover go on.  The engine is external: what it published it  *)
(* keeps and never changes, and a request whose answer was lost may still  *)
(* be handled, also while a later run of the script is under way.          *)
(*                                                                         *)
(* The documents are mounted read-only; scenario-resolve rewrites them     *)
(* between two runs only.                                                  *)
(***************************************************************************)
EXTENDS Naturals

CONSTANTS
    N,        \* the documents in /workflows, in the order they are sent
    Keys,     \* what identifies a definition: package, name and version
    Bodies,   \* the contents of a definition
    NoBody,   \* a version the engine does not hold
    MaxRuns   \* bound: runs of the container

ASSUME BootstrapAssumption ==
    /\ N \in Nat
    /\ MaxRuns \in Nat \ {0}
    /\ NoBody \notin Bodies

Definitions == [key : Keys, body : Bodies]

\* A document yaml.safe_load raises on.
Malformed == [malformed |-> TRUE]

Documents == 1..N
Routes == {"publish", "legacy"}

VARIABLES
    file,        \* what each document holds
    store,       \* the definitions the engine holds
    route,       \* "legacy" for an engine without POST .../publish
    authorised,  \* the engine accepts NEOPS_ENGINE_TOKEN
    up,          \* the engine can be reached
    pc,          \* where the script is: a step, or the route it waits on
    index,       \* the document it is at
    answer,      \* the engine's answer to the request it waits on
    outcome,     \* per document: what register_one returned
    exit,        \* the exit code
    stray,       \* requests nobody waits on that the engine may still handle
    runs         \* how often the container was started

scriptVars == <<pc, index, answer, outcome, exit>>
engineVars == <<store, route, authorised, up>>
vars == <<file, store, route, authorised, up, pc, index, answer, outcome, exit, stray, runs>>

Init ==
    /\ file \in [Documents -> Definitions \union {Malformed}]
    /\ store = [k \in Keys |-> NoBody]
    /\ route \in Routes
    /\ authorised \in BOOLEAN
    /\ up \in BOOLEAN
    /\ pc = "wait"
    /\ index = 1
    /\ answer = "none"
    /\ outcome = [n \in Documents |-> "none"]
    /\ exit = "none"
    /\ stray = {}
    /\ runs = 1

(***************************************************************************)
(* The script.                                                             *)
(***************************************************************************)

\* A requests exception, or one of yaml's, leaves main(): Python exits 1.
Raise ==
    /\ pc' = "done"
    /\ exit' = "1"
    /\ answer' = "none"
    /\ UNCHANGED <<index, outcome>>

\* The engine answered /health, or did not within MAX_WAIT_SECONDS: the script
\* tries anyway.
wait_for_engine ==
    /\ pc = "wait"
    /\ pc' = "next"
    /\ UNCHANGED <<file, engineVars, index, answer, outcome, exit, stray, runs>>

Request(kind) ==
    IF up THEN /\ pc' = kind
               /\ answer' = "pending"
               /\ UNCHANGED <<index, outcome, exit>>
          ELSE Raise

\* register_one up to its POST.
LoadAndPublish ==
    /\ pc = "next"
    /\ index \in Documents
    /\ IF file[index] = Malformed THEN Raise ELSE Request("publish")
    /\ UNCHANGED <<file, engineVars, stray, runs>>

Answered == answer \notin {"none", "pending"}

\* register_legacy, on a 404.
FallBack ==
    /\ pc = "publish"
    /\ answer = "no_route"
    /\ Request("legacy")
    /\ UNCHANGED <<file, engineVars, stray, runs>>

\* Mutant: the publish route's 409 taken for an earlier registration.
AcceptedOnConflict(kind, a) == a \in {"created", "unchanged", "conflict"}

\* The statuses register_one and register_legacy return True for.
Accepted(kind, a) ==
    \/ a \in {"created", "unchanged"}
    \/ kind = "legacy" /\ a = "conflict"

\* Mutant: all(...) over the calls themselves stops at the first refusal.
RecordOutcomeShortCircuit ==
    /\ pc \in Routes
    /\ Answered
    /\ ~(pc = "publish" /\ answer = "no_route")
    /\ outcome' = [outcome EXCEPT ![index] =
                     IF Accepted(pc, answer) THEN "ok" ELSE "failed"]
    /\ index' = IF Accepted(pc, answer) THEN index + 1 ELSE N + 1
    /\ pc' = "next"
    /\ answer' = "none"
    /\ UNCHANGED <<file, engineVars, exit, stray, runs>>

\* Mutant: register_one hands back the status, which is true for a refusal too.
RecordOutcomeStatus ==
    /\ pc \in Routes
    /\ Answered
    /\ ~(pc = "publish" /\ answer = "no_route")
    /\ outcome' = [outcome EXCEPT ![index] = answer]
    /\ index' = index + 1
    /\ pc' = "next"
    /\ answer' = "none"
    /\ UNCHANGED <<file, engineVars, exit, stray, runs>>

RecordOutcome ==
    /\ pc \in Routes
    /\ Answered
    /\ ~(pc = "publish" /\ answer = "no_route")
    /\ outcome' = [outcome EXCEPT ![index] =
                     IF Accepted(pc, answer) THEN "ok" ELSE "failed"]
    /\ index' = index + 1
    /\ pc' = "next"
    /\ answer' = "none"
    /\ UNCHANGED <<file, engineVars, exit, stray, runs>>

Content == file[index]

\* Mutant: requests.post without a timeout breaks with the connection only.
RequestBreaksUntimed ==
    /\ pc \in Routes
    /\ ~up
    /\ Raise
    /\ UNCHANGED <<file, engineVars, stray, runs>>

\* The connection broke or the 15 s timer fired.  A request the engine had not
\* answered is lost, or handled later.
RequestBreaks ==
    /\ pc \in Routes
    /\ Raise
    /\ \/ UNCHANGED stray
       \/ answer = "pending" /\ stray' = stray \union {Content}
    /\ UNCHANGED <<file, engineVars, runs>>

Finish ==
    /\ pc = "next"
    /\ index \notin Documents
    /\ pc' = "done"
    /\ exit' = IF \A n \in Documents : outcome[n] = "ok" THEN "0" ELSE "1"
    /\ UNCHANGED <<file, engineVars, index, answer, outcome, stray, runs>>

Script ==
    \/ wait_for_engine \/ LoadAndPublish \/ FallBack \/ RecordOutcome \/ RequestBreaks
    \/ Finish

(***************************************************************************)
(* The engine (external).                                                  *)
(***************************************************************************)

Publish(d) == store' = [store EXCEPT ![d.key] = d.body]

\* A free version is published, unless the engine computes a higher floor for it
\* or fails.
FreeVersion(d) ==
    /\ store[d.key] = NoBody
    /\ \/ answer' = "created" /\ Publish(d)
       \/ answer' \in {"too_low", "error"} /\ UNCHANGED store

\* A published version is never overwritten.  Only the publish route compares.
TakenVersion(d) ==
    /\ store[d.key] # NoBody
    /\ answer' = IF pc = "publish" /\ store[d.key] = d.body THEN "unchanged" ELSE "conflict"
    /\ UNCHANGED store

EngineAnswers ==
    /\ pc \in Routes
    /\ answer = "pending"
    /\ up
    /\ \/ authorised /\ pc \in {route, "legacy"} /\ (FreeVersion(Content) \/ TakenVersion(Content))
       \/ authorised /\ pc \notin {route, "legacy"} /\ answer' = "no_route" /\ UNCHANGED store
       \/ ~authorised /\ answer' = "unauthorised" /\ UNCHANGED store
    /\ UNCHANGED <<file, route, authorised, up, pc, index, outcome, exit, stray, runs>>

EngineHandlesStray(d) ==
    /\ up
    /\ stray' = stray \ {d}
    /\ \/ store[d.key] = NoBody /\ Publish(d)
       \/ UNCHANGED store
    /\ UNCHANGED <<file, route, authorised, up, scriptVars, runs>>

EngineComesAndGoes ==
    /\ up' = ~up
    /\ UNCHANGED <<file, store, route, authorised, scriptVars, stray, runs>>

TokenExpires ==
    /\ authorised
    /\ authorised' = FALSE
    /\ UNCHANGED <<file, store, route, up, scriptVars, stray, runs>>

(***************************************************************************)
(* make, which starts the container again with a fresh token: the author   *)
(* may have edited the documents, and the engine may have been upgraded.   *)
(***************************************************************************)

RunAgain ==
    /\ pc = "done"
    /\ runs < MaxRuns
    /\ runs' = runs + 1
    /\ file' \in [Documents -> Definitions \union {Malformed}]
    /\ route' \in {route, "publish"}
    /\ authorised' = TRUE
    /\ pc' = "wait"
    /\ index' = 1
    /\ answer' = "none"
    /\ outcome' = [n \in Documents |-> "none"]
    /\ exit' = "none"
    /\ UNCHANGED <<store, up, stray>>

Environment ==
    \/ EngineAnswers
    \/ \E d \in stray : EngineHandlesStray(d)
    \/ EngineComesAndGoes
    \/ TokenExpires
    \/ RunAgain

Next == Script \/ Environment

\* The script is a running process.  Nothing is assumed of the engine: its two
\* timers are what ends a wait.
Spec == Init /\ [][Next]_vars /\ WF_vars(Script)

-----------------------------------------------------------------------------
(***************************************************************************)
(* Properties.                                                             *)
(***************************************************************************)

Answers == {"none", "pending", "created", "unchanged", "conflict", "too_low", "error",
            "no_route", "unauthorised"}

TypeOK ==
    /\ file \in [Documents -> Definitions \union {Malformed}]
    /\ store \in [Keys -> Bodies \union {NoBody}]
    /\ route \in Routes
    /\ authorised \in BOOLEAN
    /\ up \in BOOLEAN
    /\ pc \in {"wait", "next", "done"} \union Routes
    /\ index \in 1..(N + 1)
    /\ answer \in Answers
    /\ outcome \in [Documents -> {"none", "ok", "failed"}]
    /\ exit \in {"none", "0", "1"}
    /\ stray \subseteq Definitions
    /\ runs \in 1..MaxRuns

\* What local-lab-up waits for: on exit code 0 the engine holds the version of
\* every document, and on the publish route with this document's content and no
\* other, whatever earlier runs left under way.
ExitZeroMeansPublished ==
    exit = "0" =>
        \A n \in Documents :
            /\ file[n] \in Definitions
            /\ store[file[n].key] # NoBody
            /\ route = "publish" => store[file[n].key] = file[n].body

\* A refused document does not keep a later one off the engine: a run that comes
\* to its end has sent every document, and what it was told is published is.
RefusalHidesNothing ==
    pc = "next" =>
        /\ \A n \in Documents : n < index <=> outcome[n] # "none"
        /\ index \notin Documents =>
             \A n \in Documents : outcome[n] = "ok" => store[file[n].key] # NoBody

\* Every run of the container ends, so docker compose wait returns, whatever the
\* engine does.
RunEnds == pc # "done" ~> pc = "done"

\* One unpublishable document does not keep every later one off the engine, as
\* the comment in main() has it: here, a document that does not parse.
UnpublishableHidesNothing ==
    pc = "done" =>
        \A m, n \in Documents :
            m < n /\ file[m] = Malformed /\ file[n] # Malformed => outcome[n] # "none"

=============================================================================
