----------------------------- MODULE RunWorkflow -----------------------------
(***************************************************************************)
(* One job an operator wants run once: the host script `run_workflow`      *)
(* starts a workflow execution on the engine with a single POST and polls  *)
(* it with GETs until a terminal state or its deadline.  The engine and    *)
(* the network between them are external: a request may be refused,        *)
(* handled late, or lost together with its answer.                         *)
(*                                                                         *)
(* The operator invokes the script again only after a verdict that says    *)
(* the execution did not start; each invocation is an attempt, and the     *)
(* attempt number stands for the uuid the engine would assign.             *)
(***************************************************************************)
EXTENDS Naturals

CONSTANTS
    Timeout,         \* --timeout: the polling budget, in time units
    Interval,        \* --interval: the pause between two polls
    RequestTimeout,  \* REQUEST_TIMEOUT: the longest one round trip may take
    MaxAttempts      \* bound: invocations of the script for one job

ASSUME TimingAssumption ==
    /\ Timeout \in Nat
    /\ Interval \in Nat \ {0}
    /\ RequestTimeout \in Nat \ {0}

ASSUME AttemptsAssumption == MaxAttempts \in Nat \ {0}

VARIABLES
    attempt,     \* the current invocation of the script
    pc,          \* where that invocation is
    verdict,     \* how it ended, "none" while it runs
    elapsed,     \* time since poll_until_terminal started
    authorised,  \* the engine accepts NEOPS_ENGINE_TOKEN
    link,        \* "up", "refusing" (engine down) or "silent" (half-open)
    post,        \* per attempt: what became of its POST
    execution    \* per attempt: the execution the engine holds for it

clientVars == <<attempt, pc, verdict, elapsed>>
vars == <<attempt, pc, verdict, elapsed, authorised, link, post, execution>>

Attempts == 1..MaxAttempts

TERMINAL_SUCCESS == {"completed_ack"}
TERMINAL_FAILURE == {"failed_safe_ack", "failed_unsafe_ack"}
Terminal == TERMINAL_SUCCESS \union TERMINAL_FAILURE

\* Verdicts whose message says that nothing was started: a parameter file that
\* does not load, a refusal, an error status, an engine that cannot be reached.
NotStarted == {"bad_params", "refused", "http_error", "unreachable"}
Verdicts == NotStarted \union
            {"lost_answer", "completed", "failed", "token_stopped", "timeout"}

Links == {"up", "refusing", "silent"}
PostStates == {"unsent", "queued", "accepted", "refused", "errored", "dropped"}

Init ==
    /\ attempt = 1
    /\ pc = "load"
    /\ verdict = "none"
    /\ elapsed = 0
    /\ authorised \in BOOLEAN
    /\ link \in Links
    /\ post = [a \in Attempts |-> "unsent"]
    /\ execution = [a \in Attempts |-> "absent"]

(***************************************************************************)
(* The script.                                                             *)
(***************************************************************************)

GoTo(label) ==
    /\ pc' = label
    /\ UNCHANGED <<attempt, verdict>>

EndWith(v) ==
    /\ pc' = "done"
    /\ verdict' = v
    /\ UNCHANGED attempt

LoadParameters ==
    /\ pc = "load"
    /\ GoTo("start") \/ EndWith("bad_params")
    /\ UNCHANGED <<elapsed, authorised, link, post, execution>>

\* The send step: urllib raises URLError for anything that breaks before the
\* request is out, and the script reports an engine it could not reach.
SendPost ==
    /\ pc = "start"
    /\ IF link = "up"
         THEN /\ post' = [post EXCEPT ![attempt] = "queued"]
              /\ GoTo("posted")
         ELSE /\ UNCHANGED post
              /\ EndWith("unreachable")
    /\ UNCHANGED <<elapsed, authorised, link, execution>>

PostAnswered ==
    /\ pc = "posted"
    /\ link = "up"
    /\ \/ post[attempt] = "accepted" /\ GoTo("poll")
       \/ post[attempt] = "refused" /\ EndWith("refused")
       \/ post[attempt] = "errored" /\ EndWith("http_error")
    /\ UNCHANGED <<elapsed, authorised, link, post, execution>>

\* Mutant: a lost answer caught together with a failed send.
PostAnswerLostAsUnreachable ==
    /\ pc = "posted"
    /\ EndWith("unreachable")
    /\ UNCHANGED <<elapsed, authorised, link, post, execution>>

\* The answer broke or the request timer fired; the POST may still be handled,
\* so it is not sent again.
PostAnswerLost ==
    /\ pc = "posted"
    /\ EndWith("lost_answer")
    /\ UNCHANGED <<elapsed, authorised, link, post, execution>>

Poll ==
    /\ pc = "poll"
    /\ elapsed < Timeout
    /\ GoTo("asked")
    /\ UNCHANGED <<elapsed, authorised, link, post, execution>>

\* Mutant: the request timer alone.
PollTimeLimitUncapped == RequestTimeout

\* The timeout handed to one GET: it may not outlive the deadline.
PollTimeLimit ==
    IF RequestTimeout <= Timeout - elapsed THEN RequestTimeout ELSE Timeout - elapsed

\* d is the time the round trip took.
TakesUpTo(limit) == \E d \in 0..limit : elapsed' = elapsed + d

\* Mutant: every status that ends in `_ack` taken for success.
VerdictOfAnyAck(status) ==
    IF status \in Terminal THEN "completed" ELSE "none"

\* Mutant: the status handed back in place of what it means.
VerdictOfRaw(status) ==
    IF status \in Terminal THEN status ELSE "none"

VerdictOf(status) ==
    CASE status \in TERMINAL_SUCCESS -> "completed"
      [] status \in TERMINAL_FAILURE -> "failed"
      [] OTHER -> "none"

PollAnswered ==
    /\ pc = "asked"
    /\ link = "up"
    /\ authorised
    /\ LET v == VerdictOf(execution[attempt]) IN
         IF v = "none" THEN GoTo("sleep") ELSE EndWith(v)
    /\ TakesUpTo(PollTimeLimit)
    /\ UNCHANGED <<authorised, link, post, execution>>

\* 401 or 403: the token will not recover by itself.
PollRefused ==
    /\ pc = "asked"
    /\ link = "up"
    /\ ~authorised
    /\ EndWith("token_stopped")
    /\ TakesUpTo(PollTimeLimit)
    /\ UNCHANGED <<authorised, link, post, execution>>

\* Mutant: a GET without a timeout ends only when the connection breaks.
PollFailsWithoutTimer ==
    /\ pc = "asked"
    /\ link = "refusing"
    /\ GoTo("sleep")
    /\ TakesUpTo(PollTimeLimit)
    /\ UNCHANGED <<authorised, link, post, execution>>

\* Mutant: the first broken poll ends the run.
PollFailsForGood ==
    /\ pc = "asked"
    /\ EndWith("unreachable")
    /\ TakesUpTo(PollTimeLimit)
    /\ UNCHANGED <<authorised, link, post, execution>>

\* Any other broken round trip: an error status, a reset, a body that is not
\* JSON, or, on a half-open connection, the request timer.
PollFails ==
    /\ pc = "asked"
    /\ GoTo("sleep")
    /\ IF link = "silent" THEN elapsed' = elapsed + PollTimeLimit
                          ELSE TakesUpTo(PollTimeLimit)
    /\ UNCHANGED <<authorised, link, post, execution>>

\* time.sleep(interval), which the deadline does not shorten.
Sleep ==
    /\ pc = "sleep"
    /\ elapsed' = elapsed + Interval
    /\ GoTo("poll")
    /\ UNCHANGED <<authorised, link, post, execution>>

GiveUp ==
    /\ pc = "poll"
    /\ elapsed >= Timeout
    /\ EndWith("timeout")
    /\ UNCHANGED <<elapsed, authorised, link, post, execution>>

Script ==
    \/ LoadParameters \/ SendPost \/ PostAnswered \/ PostAnswerLost
    \/ Poll \/ PollAnswered \/ PollRefused \/ PollFails \/ Sleep \/ GiveUp

\* The operator runs the job again, with a fresh token, after a message that
\* says it did not start.  "may have started" sends them to the monitor instead.
RunAgain ==
    /\ pc = "done"
    /\ verdict \in NotStarted
    /\ attempt < MaxAttempts
    /\ attempt' = attempt + 1
    /\ pc' = "load"
    /\ verdict' = "none"
    /\ elapsed' = 0
    /\ authorised' = TRUE
    /\ UNCHANGED <<link, post, execution>>

(***************************************************************************)
(* The engine and the network (external).                                  *)
(***************************************************************************)

\* A queued request is handled whenever the engine runs, also after the script
\* stopped waiting for its answer.
EngineHandlesPost(a) ==
    /\ post[a] = "queued"
    /\ link # "refusing"
    /\ \/ /\ authorised
          /\ post' = [post EXCEPT ![a] = "accepted"]
          /\ execution' = [execution EXCEPT ![a] = "active"]
       \/ /\ authorised
          /\ post' = [post EXCEPT ![a] = "errored"]
          /\ UNCHANGED execution
       \/ /\ ~authorised
          /\ post' = [post EXCEPT ![a] = "refused"]
          /\ UNCHANGED execution
    /\ UNCHANGED <<clientVars, authorised, link>>

\* A restart loses a request the engine had not handled; executions survive it.
EngineDropsPost(a) ==
    /\ post[a] = "queued"
    /\ link = "refusing"
    /\ post' = [post EXCEPT ![a] = "dropped"]
    /\ UNCHANGED <<clientVars, authorised, link, execution>>

EngineFinishes(a) ==
    /\ execution[a] = "active"
    /\ link # "refusing"
    /\ \E status \in Terminal : execution' = [execution EXCEPT ![a] = status]
    /\ UNCHANGED <<clientVars, authorised, link, post>>

LinkChanges ==
    /\ \E l \in Links \ {link} : link' = l
    /\ UNCHANGED <<clientVars, authorised, post, execution>>

TokenExpires ==
    /\ authorised
    /\ authorised' = FALSE
    /\ UNCHANGED <<clientVars, link, post, execution>>

Environment ==
    \/ \E a \in Attempts : EngineHandlesPost(a) \/ EngineDropsPost(a) \/ EngineFinishes(a)
    \/ LinkChanges
    \/ TokenExpires

Next == Script \/ RunAgain \/ Environment

\* The script is a running process: one of its steps that stays possible is
\* taken.  Nothing is assumed of the engine, the network or the operator.
Fairness == WF_vars(Script)

Spec == Init /\ [][Next]_vars /\ Fairness

-----------------------------------------------------------------------------
(***************************************************************************)
(* Properties.                                                             *)
(***************************************************************************)

PollStates == {"poll", "asked", "sleep"}

TypeOK ==
    /\ attempt \in Attempts
    /\ pc \in {"load", "start", "posted", "done"} \union PollStates
    /\ verdict \in Verdicts \union {"none"}
    /\ elapsed \in Nat
    /\ authorised \in BOOLEAN
    /\ link \in Links
    /\ post \in [Attempts -> PostStates]
    /\ execution \in [Attempts -> {"absent", "active"} \union Terminal]

\* However answers are lost and whenever the engine handles a late request, a
\* job whose operator believes the script's messages is started at most once:
\* the reason start_execution does not retry its POST and tells a lost answer
\* from a failed start.
JobStartedOnce ==
    \A a, b \in Attempts :
        execution[a] # "absent" /\ execution[b] # "absent" => a = b

\* Every verdict is true of the engine: `completed` and `failed` name the state
\* the execution is in, and a verdict that says the start failed leaves neither
\* an execution nor a request that could still become one.
VerdictTruthful ==
    /\ verdict = "completed" => execution[attempt] \in TERMINAL_SUCCESS
    /\ verdict = "failed" => execution[attempt] \in TERMINAL_FAILURE
    /\ verdict \in NotStarted => /\ execution[attempt] = "absent"
                                 /\ post[attempt] # "queued"

\* Polling outlives its budget by one pause at most: no round trip outlives the
\* deadline, also on a connection that never answers.
DeadlineHolds == elapsed <= Timeout + Interval

\* A poll the engine did not answer never ends the run: an engine restart or a
\* dropped connection in mid-run is polled through.
BrokenPollIsRetried ==
    [][pc = "asked" /\ link # "up" => verdict' = "none"]_vars

\* Every invocation ends, whatever the engine and the network do.
InvocationEnds == pc # "done" ~> pc = "done"

=============================================================================
