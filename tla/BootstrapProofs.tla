--------------------------- MODULE BootstrapProofs ---------------------------
(***************************************************************************)
(* What the exit code of bootstrap/register.py guarantees for any number   *)
(* of documents, versions, contents and runs.                              *)
(***************************************************************************)
EXTENDS Bootstrap, TLAPS

\* The engine holds document n: its version, and on the publish route its content.
Held(n) ==
    /\ file[n] \in Definitions
    /\ store[file[n].key] # NoBody
    /\ route = "publish" => store[file[n].key] = file[n].body

\* While a request is out, it is for a document that parsed, and the legacy route
\* is used with an engine that lacks the other one only.
RequestInv ==
    /\ pc \in Routes => index \in Documents /\ file[index] \in Definitions
    /\ pc = "legacy" \/ answer = "no_route" => route = "legacy"

\* What the engine said stays true until the script reads it.
AnswerInv == pc \in Routes /\ Accepted(pc, answer) => Held(index)

\* What register_one returned stays true.
OutcomeInv == \A n \in Documents : outcome[n] = "ok" => Held(n)

\* Exit code 0 is the verdict on all of them.
ExitInv ==
    /\ exit # "none" => pc = "done"
    /\ exit = "0" => \A n \in Documents : outcome[n] = "ok"

\* The documents are sent in order, and none is left out on the way.
OrderInv == \A n \in Documents : n < index <=> outcome[n] # "none"

IInv == TypeOK /\ RequestInv /\ AnswerInv /\ OutcomeInv /\ ExitInv /\ OrderInv

-----------------------------------------------------------------------------

\* The initial states satisfy the invariant.
LEMMA InitIInv == Init => IInv
  BY BootstrapAssumption
     DEF Init, IInv, TypeOK, RequestInv, AnswerInv, OutcomeInv, ExitInv, OrderInv, Documents,
         Routes, Answers

\* A definition the engine holds survives whatever it publishes next.
LEMMA HeldStays ==
    ASSUME TypeOK, NEW n \in Documents, Held(n), UNCHANGED <<file, route>>,
           \/ UNCHANGED store
           \/ \E d \in Definitions : store[d.key] = NoBody /\ Publish(d)
    PROVE  Held(n)'
  <1>1. CASE UNCHANGED store
    BY <1>1 DEF Held
  <1>2. CASE \E d \in Definitions : store[d.key] = NoBody /\ Publish(d)
    <2>1. PICK d \in Definitions : store[d.key] = NoBody /\ Publish(d)
      BY <1>2
    <2>2. file[n].key # d.key /\ file[n].key \in Keys
      BY <2>1 DEF Held, Definitions
    <2>3. store'[file[n].key] = store[file[n].key]
      BY <2>1, <2>2 DEF Publish, TypeOK
    <2> QED BY <2>3 DEF Held
  <1> QED BY <1>1, <1>2

\* Every step of the script, the engine and make preserves the invariant.
LEMMA NextIInv == IInv /\ [Next]_vars => IInv'
  <1> SUFFICES ASSUME IInv, [Next]_vars PROVE IInv'
    OBVIOUS
  <1> USE DEF Documents, Routes, Answers
  <1>1. CASE wait_for_engine
    BY <1>1 DEF wait_for_engine, engineVars, IInv, TypeOK, RequestInv, AnswerInv, OutcomeInv,
        ExitInv, OrderInv, Held, Accepted
  <1>2. CASE LoadAndPublish
    BY <1>2 DEF LoadAndPublish, Raise, Request, engineVars, IInv, TypeOK, RequestInv,
        AnswerInv, OutcomeInv, ExitInv, OrderInv, Held, Accepted
  <1>3. CASE FallBack
    BY <1>3 DEF FallBack, Raise, Request, engineVars, IInv, TypeOK, RequestInv,
        AnswerInv, OutcomeInv, ExitInv, OrderInv, Held, Accepted
  <1>4. CASE RecordOutcome
    <2>1. index \in 1..N /\ index + 1 \in 1..(N + 1)
      BY <1>4, BootstrapAssumption DEF RecordOutcome, IInv, RequestInv
    <2>2. TypeOK'
      BY <1>4, <2>1 DEF RecordOutcome, engineVars, IInv, TypeOK
    <2>3. OutcomeInv'
      <3> SUFFICES ASSUME NEW n \in Documents, outcome'[n] = "ok" PROVE Held(n)'
        BY DEF OutcomeInv
      <3>1. CASE n = index
        BY <1>4, <3>1 DEF RecordOutcome, engineVars, IInv, TypeOK, AnswerInv, Held
      <3>2. CASE n # index
        BY <1>4, <3>2 DEF RecordOutcome, engineVars, IInv, TypeOK, OutcomeInv, Held
      <3> QED BY <3>1, <3>2
    <2>4. RequestInv' /\ AnswerInv' /\ ExitInv'
      BY <1>4 DEF RecordOutcome, engineVars, IInv, RequestInv, AnswerInv, ExitInv
    <2>5. OrderInv'
      BY <1>4, <2>1 DEF RecordOutcome, IInv, TypeOK, OrderInv
    <2> QED BY <2>2, <2>3, <2>4, <2>5 DEF IInv
  <1>5. CASE RequestBreaks
    BY <1>5 DEF RequestBreaks, Raise, Content, engineVars, IInv, TypeOK, RequestInv,
        AnswerInv, OutcomeInv, ExitInv, OrderInv, Held, Accepted
  <1>6. CASE Finish
    BY <1>6 DEF Finish, engineVars, IInv, TypeOK, RequestInv, AnswerInv, OutcomeInv,
        ExitInv, OrderInv, Held, Accepted
  <1>7. CASE EngineAnswers
    <2>1. index \in Documents /\ Content \in Definitions /\ pc \in Routes
      BY <1>7 DEF EngineAnswers, IInv, RequestInv, Content
    <2>2. Content.key \in Keys /\ Content.body \in Bodies
      BY <2>1 DEF Definitions
    <2>3. \/ UNCHANGED store
          \/ store[Content.key] = NoBody /\ Publish(Content)
      BY <1>7 DEF EngineAnswers, FreeVersion, TakenVersion
    <2>4. store' \in [Keys -> Bodies \union {NoBody}]
      BY <2>2, <2>3 DEF Publish, IInv, TypeOK
    <2>5. TypeOK'
      BY <1>7, <2>4 DEF EngineAnswers, FreeVersion, TakenVersion, IInv, TypeOK
    <2>6. OutcomeInv'
      BY <1>7, <2>1, <2>3, HeldStays DEF EngineAnswers, IInv, OutcomeInv
    <2>7. Accepted(pc, answer') => Held(index)'
      <3>1. CASE FreeVersion(Content)
        <4>1. CASE answer' = "created" /\ Publish(Content)
          BY <1>7, <2>1, <2>2, <4>1, BootstrapAssumption
             DEF EngineAnswers, Publish, Content, Held, IInv, TypeOK
        <4>2. CASE answer' \in {"too_low", "error"}
          BY <4>2 DEF Accepted
        <4> QED BY <3>1, <4>1, <4>2 DEF FreeVersion
      <3>2. CASE TakenVersion(Content) /\ pc \in {route, "legacy"}
        BY <1>7, <2>1, <3>2 DEF EngineAnswers, TakenVersion, Accepted, Content, Held, IInv,
           RequestInv
      <3>3. CASE answer' \in {"no_route", "unauthorised"}
        BY <3>3 DEF Accepted
      <3> QED BY <1>7, <3>1, <3>2, <3>3 DEF EngineAnswers
    <2>8. AnswerInv'
      BY <1>7, <2>7 DEF EngineAnswers, AnswerInv
    <2>9. RequestInv' /\ ExitInv' /\ OrderInv'
      BY <1>7 DEF EngineAnswers, FreeVersion, TakenVersion, IInv, TypeOK, RequestInv, ExitInv,
         OrderInv
    <2> QED BY <2>5, <2>6, <2>8, <2>9 DEF IInv
  <1>8. ASSUME NEW d \in stray, EngineHandlesStray(d) PROVE IInv'
    <2>1. d \in Definitions /\ d.key \in Keys /\ d.body \in Bodies
      BY DEF IInv, TypeOK, Definitions
    <2>2. \/ UNCHANGED store
          \/ store[d.key] = NoBody /\ Publish(d)
      BY <1>8 DEF EngineHandlesStray
    <2>3. store' \in [Keys -> Bodies \union {NoBody}]
      BY <2>1, <2>2 DEF Publish, IInv, TypeOK
    <2>4. TypeOK'
      BY <1>8, <2>3 DEF EngineHandlesStray, scriptVars, IInv, TypeOK
    <2>5. \A n \in Documents : Held(n) => Held(n)'
      BY <1>8, <2>1, <2>2, HeldStays DEF EngineHandlesStray, IInv
    <2>6. OutcomeInv'
      BY <1>8, <2>5 DEF EngineHandlesStray, scriptVars, IInv, OutcomeInv
    <2>7. AnswerInv'
      <3>1. Held(index) /\ index \in Documents => Held(index)'
        BY <2>5, <1>8 DEF EngineHandlesStray, scriptVars, Held
      <3> QED BY <1>8, <3>1 DEF EngineHandlesStray, scriptVars, IInv, RequestInv, AnswerInv, Accepted
    <2>8. RequestInv' /\ ExitInv' /\ OrderInv'
      BY <1>8 DEF EngineHandlesStray, scriptVars, IInv, RequestInv, ExitInv, OrderInv
    <2> QED BY <2>4, <2>6, <2>7, <2>8 DEF IInv
  <1>9. CASE EngineComesAndGoes
    BY <1>9 DEF EngineComesAndGoes, scriptVars, IInv, TypeOK, RequestInv, AnswerInv,
        OutcomeInv, ExitInv, OrderInv, Held, Accepted
  <1>10. CASE TokenExpires
    BY <1>10 DEF TokenExpires, scriptVars, IInv, TypeOK, RequestInv, AnswerInv,
        OutcomeInv, ExitInv, OrderInv, Held, Accepted
  <1>11. CASE RunAgain
    <2>1. runs + 1 \in 1..MaxRuns /\ 1 \in 1..(N + 1)
      BY <1>11, BootstrapAssumption DEF RunAgain, IInv, TypeOK
    <2> QED
      BY <1>11, <2>1 DEF RunAgain, IInv, TypeOK, RequestInv, AnswerInv, OutcomeInv, ExitInv, OrderInv,
         Held, Accepted
  <1>12. CASE UNCHANGED vars
    BY <1>12 DEF vars, IInv, TypeOK, RequestInv, AnswerInv, OutcomeInv, ExitInv, OrderInv, Held, Accepted
  <1> QED
    BY <1>1, <1>2, <1>3, <1>4, <1>5, <1>6, <1>7, <1>8, <1>9, <1>10, <1>11, <1>12
       DEF Next, Script, Environment

\* The invariant holds in every reachable state.
THEOREM Invariance == Spec => []IInv
  BY InitIInv, NextIInv, PTL DEF Spec

\* Every variable keeps its type.
THEOREM TypeCorrectness == Spec => []TypeOK
  BY Invariance, PTL DEF IInv

\* Exit code 0 of the bootstrap container is the truth about the engine, with any
\* number of documents, and whatever requests of earlier runs are handled late.
THEOREM ExitZeroTheorem == Spec => []ExitZeroMeansPublished
  <1>1. IInv => ExitZeroMeansPublished
    BY DEF IInv, ExitInv, OutcomeInv, Held, ExitZeroMeansPublished
  <1> QED
    BY <1>1, Invariance, PTL

\* A refused document hides no other, whatever the number of documents.
THEOREM NothingHidden == Spec => []RefusalHidesNothing
  <1>1. IInv => RefusalHidesNothing
    BY BootstrapAssumption DEF IInv, OrderInv, OutcomeInv, Held, RefusalHidesNothing
  <1> QED
    BY <1>1, Invariance, PTL

=============================================================================
