-------------------------- MODULE ReasoningAgent --------------------------
(***************************************************************************)
(* core/multi_agent.py: the reasoning graph (reasoning_agent, its routing  *)
(* and terminal_node) over the providers, with the security pipeline of    *)
(* core/security_guardrails.py around every turn.                          *)
(*                                                                         *)
(* Threads of the graph run side by side and share security_enforcer,      *)
(* hence one SLMGuardBreaker: a thread has at most one check in flight     *)
(* there.  A thread runs one invocation at a time; its code between two    *)
(* awaits is one action.                                                   *)
(*                                                                         *)
(* The answers of the models are nondeterministic.  The failover of        *)
(* route_query, with the library breaker in front of the primary provider  *)
(* and the second guard (router.security) in front of the fallback, has    *)
(* three outcomes: a response, a refusal, an error.  The texts of history  *)
(* are left out: entries that a turn appends carry the signature the next  *)
(* will check, so only the history an invocation starts from can fail it.  *)
(***************************************************************************)
EXTENDS Integers

CONSTANTS
    Runs,               \* threads of the graph, each with a checkpoint
    MaxIterations,      \* 10: the turns after which a run must end
    FailureThreshold, RecoveryTimeout, HalfOpenMaxCalls   \* of the guard

ASSUME ReasoningAssumption ==
    /\ MaxIterations \in Nat
    /\ FailureThreshold \in Nat \ {0}
    /\ RecoveryTimeout \in Nat \ {0}
    /\ HalfOpenMaxCalls \in Nat \ {0}

VARIABLES
    state, failureCount, age, halfOpenCalls, successCount, flight, run,
                    \* of the guard
    stage,          \* thread -> where its run stands
    iterations,     \* thread -> the turns its checkpoint counts, up to one
                    \* more than MaxIterations, with which it is compared
    turns,          \* history: thread -> turns of the present run, up to two
                    \* more than MaxIterations
    outage          \* history: texts blocked in a row for want of an answer

guardVars == <<state, failureCount, age, halfOpenCalls, successCount, flight,
               run>>
vars == <<guardVars, stage, iterations, turns, outage>>

Guard == INSTANCE SLMGuardBreaker WITH Calls <- Runs

\* Awaiting: the next turn; the check of the query; the primary provider; the
\* fallback; the check of the response; its semantic judge; the verdict on
\* whether the query is resolved.
Working == {"think", "input", "ask", "fallback", "output", "judge", "verdict"}
Ended == {"answered", "refused", "failed"}

---------------------------------------------------------------------------
Init ==
    /\ Guard!BreakerInit
    /\ stage = [r \in Runs |-> "answered"]
    /\ iterations = [r \in Runs |-> 0]
    /\ turns = [r \in Runs |-> 0]
    /\ outage = 0

Goto(r, s) == stage' = [stage EXCEPT ![r] = s]

\* The graph is invoked with a new query.  The count of turns goes on from the
\* thread's checkpoint unless the input resets it.
Invoke(r) ==
    /\ stage[r] \in Ended
    /\ Goto(r, "think")
    /\ \E i \in {0, iterations[r]} : iterations' = [iterations EXCEPT ![r] = i]
    /\ turns' = [turns EXCEPT ![r] = 0]
    /\ UNCHANGED <<guardVars, outage>>

\* An entry of the history a run starts from does not match its signature.
Tampered(r) ==
    /\ stage[r] = "think"
    /\ turns[r] = 0
    /\ Goto(r, "failed")
    /\ UNCHANGED <<guardVars, iterations, turns, outage>>

\* Mutant of Check: the model is asked whatever the breaker says.
CheckAlways(r, checking, passed) ==
    /\ Guard!Fly(r, "regular")
    /\ Goto(r, checking)
    /\ UNCHANGED <<state, failureCount, age, halfOpenCalls, successCount, run>>

\* check_integrity() up to its request: the text passes at once in OPEN, or
\* its check is under way.
Check(r, checking, passed) ==
    \/ Guard!Bypass(r) /\ Goto(r, passed)
    \/ /\ Guard!Begin(r) \/ Guard!BeginRecovery(r) \/ Guard!BeginProbe(r)
       /\ Goto(r, checking)

\* A turn begins: the query is sanitized, which cannot fail, and checked.
Think(r) ==
    /\ stage[r] = "think"
    /\ turns' = [turns EXCEPT ![r] = IF @ > MaxIterations + 1 THEN @ ELSE @ + 1]
    /\ Check(r, "input", "ask")
    /\ UNCHANGED <<iterations, outage>>

Passed(r) == Goto(r, IF stage[r] = "input" THEN "ask" ELSE "judge")

\* The guard's model has answered a check, SAFE or not.
Checked(r) ==
    /\ stage[r] \in {"input", "output"}
    /\ Guard!Answer(r)
    /\ Passed(r) \/ Goto(r, "refused")
    /\ outage' = 0
    /\ UNCHANGED <<iterations, turns>>

\* Mutant of CheckFailed: is_open() is read before the failure is recorded.
OpenBefore(r) ==
    /\ stage[r] \in {"input", "output"}
    /\ Guard!Failure(r)
    /\ IF state = "OPEN" THEN Passed(r) /\ UNCHANGED outage
                         ELSE Goto(r, "refused") /\ outage' = outage + 1
    /\ UNCHANGED <<iterations, turns>>

\* Mutant of CheckFailed: the first failure lets the text pass.
PassesOnFailure(r) ==
    /\ stage[r] \in {"input", "output"}
    /\ Guard!Failure(r)
    /\ Passed(r)
    /\ UNCHANGED <<iterations, turns, outage>>

\* The check has failed: its text passes if the circuit is open by now.
CheckFailed(r) ==
    /\ stage[r] \in {"input", "output"}
    /\ Guard!Failure(r)
    /\ IF state' = "OPEN" THEN Passed(r) /\ UNCHANGED outage
                          ELSE Goto(r, "refused") /\ outage' = outage + 1
    /\ UNCHANGED <<iterations, turns>>

\* A provider has responded; validate_llm_output begins.
Respond(r) ==
    /\ stage[r] \in {"ask", "fallback"}
    /\ Check(r, "output", "judge")
    /\ UNCHANGED <<iterations, turns, outage>>

\* The primary fails, takes longer than its timeout, or is not asked.
Failover(r) ==
    /\ stage[r] = "ask"
    /\ Goto(r, "fallback")
    /\ UNCHANGED <<guardVars, iterations, turns, outage>>

\* The messages for the fallback are refused, or the fallback fails.
FallbackFails(r) ==
    /\ stage[r] = "fallback"
    /\ Goto(r, "refused") \/ Goto(r, "failed")
    /\ UNCHANGED <<guardVars, iterations, turns, outage>>

\* Mutant of Counted: the turns of an unresolved query are not counted.
Uncounted(i) == i

\* iterations after one more turn
Counted(i) == IF i > MaxIterations THEN i ELSE i + 1

\* Mutant of Routes: a response that is empty is tested first.
EmptyFirst(i) == {"think", "answered"} \cup
    (IF i > MaxIterations THEN {} ELSE {"verdict"})

\* route_reasoning, up to its request for a verdict: the run ends if the count
\* is above the bound; or else an empty response needs another turn, one with a
\* final marker ends the run, and any other needs a verdict.
Routes(i) == IF i > MaxIterations THEN {"answered"}
                                  ELSE {"think", "answered", "verdict"}

\* The semantic judge finds the response safe, and the turn is over.
TurnEnds(r) ==
    /\ stage[r] = "judge"
    /\ iterations' = [iterations EXCEPT ![r] = Counted(@)]
    /\ \E s \in Routes(iterations'[r]) : Goto(r, s)
    /\ UNCHANGED <<guardVars, turns, outage>>

\* It finds a violation, or fails: nothing of the turn is kept.
JudgeRefuses(r) ==
    /\ stage[r] = "judge"
    /\ Goto(r, "refused") \/ Goto(r, "failed")
    /\ UNCHANGED <<guardVars, iterations, turns, outage>>

\* TERMINAR or CONTINUAR.  An error, or a cancellation, which the bare
\* `except` takes for one, makes the length of the response decide.
Verdict(r) ==
    /\ stage[r] = "verdict"
    /\ Goto(r, "answered") \/ Goto(r, "think")
    /\ UNCHANGED <<guardVars, iterations, turns, outage>>

\* The invocation is cancelled anywhere else.
Cancel(r) ==
    /\ stage[r] \in Working \ {"verdict"}
    /\ IF stage[r] \in {"input", "output"} THEN Guard!Cancel(r)
                                           ELSE UNCHANGED guardVars
    /\ Goto(r, "failed")
    /\ UNCHANGED <<iterations, turns, outage>>

Tick ==
    /\ Guard!Tick
    /\ UNCHANGED <<stage, iterations, turns, outage>>

---------------------------------------------------------------------------
\* What a run does when it is not cancelled.
Proceed(r) ==
    \/ Tampered(r) \/ Think(r)
    \/ Checked(r) \/ CheckFailed(r)
    \/ Respond(r) \/ Failover(r) \/ FallbackFails(r)
    \/ TurnEnds(r) \/ JudgeRefuses(r) \/ Verdict(r)

Next ==
    \/ \E r \in Runs : Invoke(r) \/ Proceed(r) \/ Cancel(r)
    \/ Tick

Spec == Init /\ [][Next]_vars

\* Every await has a timeout, of httpx, of wait_for or of the provider's
\* client, and the clock goes on.
FairSpec == Spec /\ WF_vars(Tick) /\ \A r \in Runs : WF_vars(Proceed(r))

---------------------------------------------------------------------------
\* Types; a run has a check in flight exactly while it awaits one, and it
\* takes at most one turn more than MaxIterations, since the count is compared
\* after a turn (line 305), from whatever count its checkpoint brings.
ReasoningTypeOK ==
    /\ stage \in [Runs -> Working \cup Ended]
    /\ flight \in [Runs -> Guard!Flights]
    /\ \A r \in Runs :
          Guard!InFlight(r) <=> stage[r] \in {"input", "output"}
    /\ iterations \in [Runs -> 0..(MaxIterations + 1)]
    /\ turns \in [Runs -> 0..(MaxIterations + 1)]
    /\ outage \in Nat

\* While its model is out of reach, the guard refuses fewer than
\* FailureThreshold texts before it lets them pass, whatever other checks are
\* under way: a text is refused for want of an answer only while the circuit
\* stays closed (security_guardrails.py:259-273).
OutageRefusesFew == outage < FailureThreshold

\* r's text goes on although the guard's model has not answered its check:
\* no check was begun, or it failed.
Unchecked(r) ==
    \/ stage[r] = "think" /\ stage'[r] = "ask"
    \/ stage[r] \in {"ask", "fallback"} /\ stage'[r] = "judge"
    \/ stage[r] \in {"input", "output"} /\ stage'[r] \in {"ask", "judge"}
       /\ run' < 0

\* A text goes on unchecked only while the circuit is open: a call that the
\* breaker skips in HALF_OPEN would let its text pass as well, and so would a
\* failure that leaves the circuit closed
\* (security_guardrails.py:203-215, 263-273).
UncheckedOnlyWhenOpen == [][\A r \in Runs : Unchecked(r) => state' = "OPEN"]_vars

\* The runs use the guard as SLMGuardBreaker specifies, cancelled or not, so
\* that its properties hold here.
GuardSpec == Guard!BreakerSpec

\* Every run ends: with an answer, a refusal or an error, whatever the models
\* answer (multi_agent.py:303-331).
RunEnds == \A r \in Runs : stage[r] \in Working ~> stage[r] \in Ended
===========================================================================
