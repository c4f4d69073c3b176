-------------------------- MODULE RunWorkflowProofs --------------------------
(***************************************************************************)
(* Proofs about RunWorkflow, for every budget, pause, request timer and    *)
(* number of invocations.                                                  *)
(***************************************************************************)
EXTENDS RunWorkflow, TLAPS

\* What the attempts leave on the engine: nothing of those still to come, no
\* execution and no live request of those given up before, and an execution
\* exactly where a POST was accepted.
AttemptsInv ==
    \A a \in Attempts :
        /\ a > attempt => post[a] = "unsent"
        /\ a < attempt => post[a] \notin {"queued", "accepted"}
        /\ execution[a] # "absent" <=> post[a] = "accepted"

\* What the script may conclude about its own POST from where it is.
ProgressInv ==
    /\ pc \in {"load", "start"} => post[attempt] = "unsent"
    /\ pc \in PollStates => post[attempt] = "accepted"
    /\ pc = "done" <=> verdict # "none"
    /\ verdict \in NotStarted => post[attempt] \notin {"queued", "accepted"}
    /\ verdict = "completed" => execution[attempt] \in TERMINAL_SUCCESS
    /\ verdict = "failed" => execution[attempt] \in TERMINAL_FAILURE

\* A round trip starts inside the budget and ends inside it.
ClockInv ==
    /\ pc \in {"load", "start", "posted"} => elapsed = 0
    /\ pc = "asked" => elapsed < Timeout
    /\ pc = "sleep" => elapsed <= Timeout
    /\ elapsed <= Timeout + Interval

IInv == TypeOK /\ AttemptsInv /\ ProgressInv /\ ClockInv

-----------------------------------------------------------------------------

\* The invariant holds in every initial state.
LEMMA InitIInv == Init => IInv
  BY TimingAssumption, AttemptsAssumption
  DEF Init, IInv, TypeOK, AttemptsInv, ProgressInv, ClockInv, Attempts,
      PollStates, PostStates, Links, Verdicts, NotStarted, Terminal,
      TERMINAL_SUCCESS, TERMINAL_FAILURE

\* The cap on a poll's timeout keeps the clock inside the budget.
LEMMA PollTimeLimitBound ==
  ASSUME TypeOK, elapsed < Timeout
  PROVE  /\ PollTimeLimit \in Nat
         /\ elapsed + PollTimeLimit <= Timeout
         /\ TakesUpTo(PollTimeLimit) => elapsed' \in Nat /\ elapsed' <= Timeout
  BY TimingAssumption DEF TypeOK, PollTimeLimit, TakesUpTo

\* No step of the script disturbs the invariant.
LEMMA ScriptKeepsIInv == IInv /\ Script => IInv'
  <1> SUFFICES ASSUME IInv, Script PROVE IInv'
    OBVIOUS
  <1> USE TimingAssumption, AttemptsAssumption
      DEF IInv, TypeOK, AttemptsInv, ProgressInv, ClockInv, Attempts,
          PollStates, PostStates, Links, Verdicts, NotStarted, Terminal,
          TERMINAL_SUCCESS, TERMINAL_FAILURE, GoTo, EndWith
  <1>1. CASE LoadParameters
    BY <1>1 DEF LoadParameters
  <1>2. CASE SendPost
    BY <1>2 DEF SendPost
  <1>3. CASE PostAnswered
    BY <1>3 DEF PostAnswered
  <1>4. CASE PostAnswerLost
    BY <1>4 DEF PostAnswerLost
  <1>5. CASE Poll
    BY <1>5 DEF Poll
  <1>6. CASE PollAnswered
    BY <1>6, PollTimeLimitBound DEF PollAnswered, VerdictOf
  <1>7. CASE PollRefused
    BY <1>7, PollTimeLimitBound DEF PollRefused
  <1>8. CASE PollFails
    BY <1>8, PollTimeLimitBound DEF PollFails
  <1>9. CASE Sleep
    BY <1>9 DEF Sleep
  <1>10. CASE GiveUp
    BY <1>10 DEF GiveUp
  <1>11. QED
    BY <1>1, <1>2, <1>3, <1>4, <1>5, <1>6, <1>7, <1>8, <1>9, <1>10 DEF Script

\* Nor does another invocation, or anything the engine and the network do.
LEMMA OthersKeepIInv == IInv /\ (RunAgain \/ Environment) => IInv'
  <1> SUFFICES ASSUME IInv, RunAgain \/ Environment PROVE IInv'
    OBVIOUS
  <1> USE TimingAssumption, AttemptsAssumption
      DEF IInv, TypeOK, AttemptsInv, ProgressInv, ClockInv, Attempts,
          PollStates, PostStates, Links, Verdicts, NotStarted, Terminal,
          TERMINAL_SUCCESS, TERMINAL_FAILURE, clientVars
  <1>1. CASE RunAgain
    BY <1>1 DEF RunAgain
  <1>2. ASSUME NEW a \in Attempts, EngineHandlesPost(a) PROVE IInv'
    BY <1>2 DEF EngineHandlesPost
  <1>3. ASSUME NEW a \in Attempts, EngineDropsPost(a) PROVE IInv'
    BY <1>3 DEF EngineDropsPost
  <1>4. ASSUME NEW a \in Attempts, EngineFinishes(a) PROVE IInv'
    BY <1>4 DEF EngineFinishes
  <1>5. CASE LinkChanges
    BY <1>5 DEF LinkChanges
  <1>6. CASE TokenExpires
    BY <1>6 DEF TokenExpires
  <1>7. QED
    BY <1>1, <1>2, <1>3, <1>4, <1>5, <1>6 DEF Environment

\* The inductive invariant holds throughout every behaviour.
THEOREM Invariance == Spec => []IInv
  <1>1. IInv /\ [Next]_vars => IInv'
    <2>1. IInv /\ UNCHANGED vars => IInv'
      BY DEF vars, IInv, TypeOK, AttemptsInv, ProgressInv, ClockInv
    <2>2. QED
      BY <2>1, ScriptKeepsIInv, OthersKeepIInv DEF Next
  <1>2. QED
    BY InitIInv, <1>1, PTL DEF Spec

-----------------------------------------------------------------------------

\* Type correctness.
THEOREM TypeCorrectness == Spec => []TypeOK
  <1>1. IInv => TypeOK
    BY DEF IInv
  <1>2. QED
    BY Invariance, <1>1, PTL

\* A job is started at most once, however many invocations it takes.
THEOREM StartedOnce == Spec => []JobStartedOnce
  <1>1. IInv => JobStartedOnce
    BY DEF IInv, TypeOK, AttemptsInv, JobStartedOnce, Attempts
  <1>2. QED
    BY Invariance, <1>1, PTL

\* The verdicts are true of the engine.
THEOREM VerdictsAreTrue == Spec => []VerdictTruthful
  <1>1. IInv => VerdictTruthful
    BY DEF IInv, TypeOK, AttemptsInv, ProgressInv, VerdictTruthful
  <1>2. QED
    BY Invariance, <1>1, PTL

\* Polling overruns its budget by one pause at most.
THEOREM DeadlineBound == Spec => []DeadlineHolds
  <1>1. IInv => DeadlineHolds
    BY DEF IInv, ClockInv, DeadlineHolds
  <1>2. QED
    BY Invariance, <1>1, PTL

\* A poll the engine did not answer does not end the run.
THEOREM BrokenPollTheorem == Spec => BrokenPollIsRetried
  <1>1. IInv /\ [Next]_vars =>
          [pc = "asked" /\ link # "up" => verdict' = "none"]_vars
    <2> SUFFICES ASSUME IInv, Next, pc = "asked", link # "up"
                 PROVE  verdict' = "none"
      OBVIOUS
    <2>1. verdict = "none"
      BY DEF IInv, ProgressInv
    <2>2. CASE Script
      BY <2>1, <2>2 DEF Script, LoadParameters, SendPost, PostAnswered,
         PostAnswerLost, Poll, PollAnswered, PollRefused, PollFails, Sleep,
         GiveUp, GoTo
    <2>3. CASE RunAgain
      BY <2>3 DEF RunAgain
    <2>4. CASE Environment
      BY <2>1, <2>4 DEF Environment, EngineHandlesPost, EngineDropsPost,
         EngineFinishes, LinkChanges, TokenExpires, clientVars
    <2>5. QED
      BY <2>2, <2>3, <2>4 DEF Next
  <1>2. QED
    BY Invariance, <1>1, PTL DEF Spec, BrokenPollIsRetried

=============================================================================
