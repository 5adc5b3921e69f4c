----------------------- MODULE ReasoningAgentProofs -----------------------
(***************************************************************************)
(* ReasoningAgent uses the guard as SLMGuardBreaker specifies, a text goes *)
(* on unchecked only while the circuit is open, and the bounds on the      *)
(* turns of a run and on the texts that an outage of the guard's model     *)
(* refuses, for any number of runs and any thresholds.                     *)
(***************************************************************************)
EXTENDS ReasoningAgent, TLAPS

\* In CLOSED every refused text since the last answer is one of the failures
\* counted; the circuit opens before there are FailureThreshold.
OutageInv ==
    /\ state \in {"CLOSED", "OPEN", "HALF_OPEN"}
    /\ outage \in Nat
    /\ failureCount \in Nat
    /\ outage < FailureThreshold
    /\ state = "CLOSED" => /\ outage <= failureCount
                           /\ failureCount < FailureThreshold

\* A run's step is a step of the guard for that run, or leaves the guard.
LEMMA StepOfGuard == [Next]_vars => [Guard!BreakerNext]_(Guard!breakerVars)
<1> SUFFICES ASSUME [Next]_vars
             PROVE  Guard!BreakerNext \/ UNCHANGED Guard!breakerVars
  OBVIOUS
<1>1. ASSUME NEW r \in Runs, NEW s, NEW p, Check(r, s, p)
      PROVE  Guard!BreakerNext \/ UNCHANGED Guard!breakerVars
  BY <1>1 DEF Check, Guard!BreakerNext, Guard!Enter
<1>2. ASSUME NEW r \in Runs, Invoke(r) PROVE UNCHANGED Guard!breakerVars
  BY <1>2 DEF Invoke, guardVars, Guard!breakerVars
<1>3. ASSUME NEW r \in Runs, Proceed(r)
      PROVE  Guard!BreakerNext \/ UNCHANGED Guard!breakerVars
  <2>1. CASE Think(r) \/ Respond(r)
    BY <1>1, <2>1 DEF Think, Respond
  <2>2. CASE Checked(r) \/ CheckFailed(r)
    BY <2>2 DEF Checked, CheckFailed, Guard!BreakerNext, Guard!End
  <2>3. CASE \/ Tampered(r) \/ Failover(r) \/ FallbackFails(r)
             \/ TurnEnds(r) \/ JudgeRefuses(r) \/ Verdict(r)
    BY <2>3 DEF Tampered, Failover, FallbackFails, TurnEnds, JudgeRefuses, Verdict, guardVars,
                Guard!breakerVars
  <2> QED
    BY <1>3, <2>1, <2>2, <2>3 DEF Proceed
<1>4. ASSUME NEW r \in Runs, Cancel(r)
      PROVE  Guard!BreakerNext \/ UNCHANGED Guard!breakerVars
  BY <1>4 DEF Cancel, guardVars, Guard!breakerVars, Guard!BreakerNext, Guard!End
<1>5. CASE Tick
  BY <1>5 DEF Tick, Guard!BreakerNext
<1>6. CASE UNCHANGED vars
  BY <1>6 DEF vars, guardVars, Guard!breakerVars
<1> QED
  BY <1>2, <1>3, <1>4, <1>5, <1>6 DEF Next

\* Whatever holds of SLMGuardBreaker holds of the guard in the agent.
THEOREM ImplementsGuard == Spec => GuardSpec
<1>1. Init => Guard!BreakerInit
  BY DEF Init
<1> QED
  BY <1>1, StepOfGuard, PTL DEF Spec, GuardSpec, Guard!BreakerSpec

\* The turns of a run are counted, except the one under way, on top of what
\* its checkpoint brought; and it begins a turn only if it has one left.
Counts(st, i, t) ==
    /\ st = "think" => t <= i /\ (i > MaxIterations => t = 0)
    /\ st = "verdict" => t <= i /\ i <= MaxIterations
    /\ st \in Working => t <= i + 1 /\ (i > MaxIterations => t <= 1)

TurnsCounted == \A r \in Runs : Counts(stage[r], iterations[r], turns[r])

RunsInv == ReasoningTypeOK /\ TurnsCounted

---------------------------------------------------------------------------
\* A run's move from one stage to another, with what it does to its check.
Moves(r, s) ==
    /\ Goto(r, s)
    /\ \/ UNCHANGED flight
       \/ Guard!Fly(r, "idle") \/ Guard!Fly(r, "regular") \/ Guard!Fly(r, "probe")
    /\ flight'[r] # "idle" <=> s \in {"input", "output"}

LEMMA MovesKeepStages ==
    ASSUME ReasoningTypeOK, NEW r \in Runs, NEW s \in Working \cup Ended,
           Moves(r, s)
    PROVE  /\ stage' \in [Runs -> Working \cup Ended]
           /\ flight' \in [Runs -> Guard!Flights]
           /\ \A q \in Runs :
                 Guard!InFlight(q)' <=> stage'[q] \in {"input", "output"}
<1>1. /\ stage' \in [Runs -> Working \cup Ended]
      /\ stage'[r] = s
      /\ \A q \in Runs \ {r} : stage'[q] = stage[q]
  BY DEF ReasoningTypeOK, Moves, Goto
<1>2. /\ flight' \in [Runs -> Guard!Flights]
      /\ \A q \in Runs \ {r} : flight'[q] = flight[q]
  BY DEF ReasoningTypeOK, Moves, Guard!Fly, Guard!Flights
<1> QED
  BY <1>1, <1>2 DEF ReasoningTypeOK, Moves, Guard!InFlight

\* Where each action moves its run.
LEMMA CheckMoves ==
    ASSUME ReasoningTypeOK, NEW r \in Runs, NEW s, NEW p, Check(r, s, p),
           s \in {"input", "output"}, p \in {"ask", "judge"},
           stage[r] \notin {"input", "output"}
    PROVE  \E x \in {s, p} : Moves(r, x)
<1>1. CASE Guard!Bypass(r) /\ Goto(r, p)
  BY <1>1 DEF ReasoningTypeOK, Moves, Working, Guard!Bypass, Guard!breakerVars
<1>2. CASE (Guard!Begin(r) \/ Guard!BeginRecovery(r) \/ Guard!BeginProbe(r))
           /\ Goto(r, s)
  <2>1. Guard!Fly(r, "regular") \/ Guard!Fly(r, "probe")
    BY <1>2 DEF Guard!Begin, Guard!BeginRecovery, Guard!BeginProbe
  <2>2. flight'[r] # "idle"
    BY <2>1 DEF Guard!Fly, ReasoningTypeOK
  <2> QED
    BY <1>2, <2>1, <2>2 DEF Moves, Working
<1> QED
  BY <1>1, <1>2 DEF Check

LEMMA EndMoves ==
    ASSUME ReasoningTypeOK, NEW r \in Runs,
           Guard!Answer(r) \/ Guard!Failure(r) \/ Guard!Cancel(r),
           stage[r] \in {"input", "output"},
           NEW s, s \in {"ask", "judge", "refused", "failed"}, Goto(r, s)
    PROVE  Moves(r, s) /\ s \in Working \cup Ended
<1>1. Guard!Fly(r, "idle")
  BY DEF Guard!Answer, Guard!Failure, Guard!Cancel
<1>2. flight'[r] = "idle"
  BY <1>1 DEF Guard!Fly, ReasoningTypeOK
<1> QED
  BY <1>1, <1>2 DEF Moves, Working, Ended

LEMMA PlainMoves ==
    ASSUME ReasoningTypeOK, NEW r \in Runs, UNCHANGED flight,
           stage[r] \notin {"input", "output"},
           NEW s, s \notin {"input", "output"}, Goto(r, s)
    PROVE  Moves(r, s)
  BY DEF Moves, ReasoningTypeOK, Guard!InFlight

LEMMA RunsInitInv == Init => RunsInv
  BY ReasoningAssumption
  DEF Init, Guard!BreakerInit, Guard!Flights, RunsInv, ReasoningTypeOK, TurnsCounted,
      Counts, Working, Ended, Guard!InFlight

LEMMA RunsStepInv == RunsInv /\ [Next]_vars => RunsInv'
<1> SUFFICES ASSUME RunsInv, [Next]_vars
             PROVE  RunsInv'
  OBVIOUS
<1> USE ReasoningAssumption DEF RunsInv
\* A step of r keeps the invariant if it moves r, leaves the counts of the
\* others, and counts the turns of r.
<1>1. ASSUME NEW r \in Runs, NEW s \in Working \cup Ended, Moves(r, s),
             NEW i \in 0..(MaxIterations + 1), NEW t \in 0..(MaxIterations + 1),
             iterations' = [iterations EXCEPT ![r] = i],
             turns' = [turns EXCEPT ![r] = t],
             Counts(s, i, t), outage' \in Nat
      PROVE  RunsInv'
  <2>1. stage'[r] = s /\ \A q \in Runs \ {r} : stage'[q] = stage[q]
    BY <1>1 DEF ReasoningTypeOK, Moves, Goto
  <2>2. /\ iterations'[r] = i /\ turns'[r] = t
        /\ \A q \in Runs \ {r} : iterations'[q] = iterations[q] /\ turns'[q] = turns[q]
        /\ iterations' \in [Runs -> 0..(MaxIterations + 1)]
        /\ turns' \in [Runs -> 0..(MaxIterations + 1)]
    BY <1>1 DEF ReasoningTypeOK
  <2>3. TurnsCounted'
    BY <1>1, <2>1, <2>2 DEF TurnsCounted
  <2> QED
    BY <1>1, <2>2, <2>3, MovesKeepStages DEF ReasoningTypeOK
\* In the middle of a turn the counts stay.
<1>2. ASSUME NEW r \in Runs, NEW s \in Working \cup Ended, Moves(r, s),
             UNCHANGED <<iterations, turns>>, outage' \in Nat,
             stage[r] \in Working, s \notin {"think", "verdict"}
      PROVE  RunsInv'
  <2>1. Counts(s, iterations[r], turns[r])
    BY <1>2 DEF TurnsCounted, Counts
  <2>2. /\ iterations' = [iterations EXCEPT ![r] = iterations[r]]
        /\ turns' = [turns EXCEPT ![r] = turns[r]]
        /\ iterations[r] \in 0..(MaxIterations + 1)
        /\ turns[r] \in 0..(MaxIterations + 1)
    BY <1>2 DEF ReasoningTypeOK
  <2> QED
    BY <1>1, <1>2, <2>1, <2>2
<1>3. ASSUME NEW r \in Runs, Invoke(r) PROVE RunsInv'
  <2>1. Moves(r, "think")
    BY <1>3, PlainMoves DEF Invoke, guardVars, Ended
  <2>2. PICK i \in {0, iterations[r]} : iterations' = [iterations EXCEPT ![r] = i]
    BY <1>3 DEF Invoke
  <2>3. i \in 0..(MaxIterations + 1) /\ Counts("think", i, 0)
    BY DEF ReasoningTypeOK, Counts
  <2>4. turns' = [turns EXCEPT ![r] = 0] /\ outage' \in Nat
    BY <1>3 DEF Invoke, ReasoningTypeOK
  <2>5. 0 \in 0..(MaxIterations + 1) /\ "think" \in Working \cup Ended
    BY DEF Working
  <2> QED
    BY <1>1, <2>1, <2>2, <2>3, <2>4, <2>5
<1>4. ASSUME NEW r \in Runs, Tampered(r) PROVE RunsInv'
  <2>1. Moves(r, "failed")
    BY <1>4, PlainMoves DEF Tampered, guardVars
  <2> QED
    BY <1>2, <1>4, <2>1 DEF Tampered, ReasoningTypeOK, Working, Ended
<1>5. ASSUME NEW r \in Runs, Think(r) PROVE RunsInv'
  <2>1. PICK x \in {"input", "ask"} : Moves(r, x)
    BY <1>5, CheckMoves DEF Think
  <2>2. /\ iterations[r] \in 0..(MaxIterations + 1)
        /\ turns[r] \in 0..(MaxIterations + 1)
        /\ stage[r] = "think"
        /\ Counts("think", iterations[r], turns[r])
    BY <1>5 DEF Think, ReasoningTypeOK, TurnsCounted
  <2>3. turns[r] <= MaxIterations /\ Counts(x, iterations[r], turns[r] + 1)
    BY <2>2 DEF Counts
  <2>4. /\ turns' = [turns EXCEPT ![r] = turns[r] + 1]
        /\ iterations' = [iterations EXCEPT ![r] = iterations[r]]
        /\ outage' \in Nat
    <3>1. ~(turns[r] > MaxIterations + 1)
      BY <2>2, <2>3
    <3>2. UNCHANGED <<iterations, outage>>
      BY <1>5 DEF Think
    <3> QED
      BY <1>5, <3>1, <3>2 DEF Think, ReasoningTypeOK
  <2>5. turns[r] + 1 \in 0..(MaxIterations + 1)
    BY <2>2, <2>3
  <2> QED
    BY <1>1, <2>1, <2>2, <2>3, <2>4, <2>5 DEF Working
<1>6. ASSUME NEW r \in Runs, Checked(r) \/ CheckFailed(r) PROVE RunsInv'
  <2>1. PICK x \in {"ask", "judge", "refused"} : Goto(r, x)
    BY <1>6 DEF Checked, CheckFailed, Passed
  <2>2. Moves(r, x)
    BY <1>6, <2>1, EndMoves DEF Checked, CheckFailed
  <2>3. UNCHANGED <<iterations, turns>> /\ outage' \in Nat /\ stage[r] \in Working
    BY <1>6 DEF Checked, CheckFailed, ReasoningTypeOK, Working
  <2> QED
    BY <1>2, <2>2, <2>3 DEF Working, Ended
<1>7. ASSUME NEW r \in Runs, Respond(r) PROVE RunsInv'
  <2>1. PICK x \in {"output", "judge"} : Moves(r, x)
    BY <1>7, CheckMoves DEF Respond
  <2>2. UNCHANGED <<iterations, turns>> /\ outage' \in Nat /\ stage[r] \in Working
    BY <1>7 DEF Respond, ReasoningTypeOK, Working
  <2> QED
    BY <1>2, <2>1, <2>2 DEF Working
<1>8. ASSUME NEW r \in Runs, Failover(r) \/ FallbackFails(r) \/ JudgeRefuses(r)
      PROVE  RunsInv'
  <2>1. PICK x \in {"fallback", "refused", "failed"} : Goto(r, x)
    BY <1>8 DEF Failover, FallbackFails, JudgeRefuses
  <2>2. Moves(r, x)
    BY <1>8, <2>1, PlainMoves DEF Failover, FallbackFails, JudgeRefuses, guardVars
  <2>3. UNCHANGED <<iterations, turns>> /\ outage' \in Nat /\ stage[r] \in Working
    BY <1>8 DEF Failover, FallbackFails, JudgeRefuses, ReasoningTypeOK, Working
  <2> QED
    BY <1>2, <2>2, <2>3 DEF Working, Ended
<1>9. ASSUME NEW r \in Runs, TurnEnds(r) PROVE RunsInv'
  <2>1. /\ iterations[r] \in 0..(MaxIterations + 1)
        /\ turns[r] \in 0..(MaxIterations + 1)
        /\ Counts("judge", iterations[r], turns[r])
    BY <1>9 DEF TurnEnds, ReasoningTypeOK, TurnsCounted
  <2> DEFINE i == Counted(iterations[r])
  <2>2. i \in 0..(MaxIterations + 1) /\ (i <= MaxIterations => turns[r] <= i)
        /\ (i > MaxIterations => Counts("answered", i, turns[r]))
    BY <2>1 DEF Counted, Counts, Working
  <2>3. iterations' = [iterations EXCEPT ![r] = i] /\ iterations'[r] = i
    BY <1>9 DEF TurnEnds, ReasoningTypeOK
  <2> HIDE DEF i
  <2>4. PICK s \in Routes(i) : Goto(r, s)
    BY <1>9, <2>3 DEF TurnEnds
  <2>5. s \in {"think", "answered", "verdict"} /\ Counts(s, i, turns[r])
    BY <2>1, <2>2, <2>4 DEF Routes, Counts, Working
  <2>6. Moves(r, s)
    BY <1>9, <2>4, <2>5, PlainMoves DEF TurnEnds, guardVars
  <2>7. turns' = [turns EXCEPT ![r] = turns[r]] /\ outage' \in Nat
    BY <1>9 DEF TurnEnds, ReasoningTypeOK
  <2> QED
    BY <1>1, <2>1, <2>2, <2>3, <2>5, <2>6, <2>7 DEF Working, Ended
<1>10. ASSUME NEW r \in Runs, Verdict(r) PROVE RunsInv'
  <2>1. PICK s \in {"answered", "think"} : Goto(r, s)
    BY <1>10 DEF Verdict
  <2>2. Moves(r, s)
    BY <1>10, <2>1, PlainMoves DEF Verdict, guardVars
  <2>3. /\ iterations[r] \in 0..(MaxIterations + 1)
        /\ turns[r] \in 0..(MaxIterations + 1)
        /\ Counts("verdict", iterations[r], turns[r])
    BY <1>10 DEF Verdict, ReasoningTypeOK, TurnsCounted
  <2>4. Counts(s, iterations[r], turns[r])
    BY <2>3 DEF Counts, Working
  <2>5. /\ iterations' = [iterations EXCEPT ![r] = iterations[r]]
        /\ turns' = [turns EXCEPT ![r] = turns[r]]
        /\ outage' \in Nat
    BY <1>10 DEF Verdict, ReasoningTypeOK
  <2> QED
    BY <1>1, <2>2, <2>3, <2>4, <2>5 DEF Working, Ended
<1>11. ASSUME NEW r \in Runs, Cancel(r) PROVE RunsInv'
  <2>1. Moves(r, "failed")
    BY <1>11, EndMoves, PlainMoves DEF Cancel, guardVars
  <2> QED
    BY <1>2, <1>11, <2>1 DEF Cancel, ReasoningTypeOK, Ended
<1>12. CASE Tick \/ UNCHANGED vars
  <2>1. UNCHANGED <<flight, stage, iterations, turns, outage>>
    BY <1>12 DEF Tick, Guard!Tick, vars, guardVars
  <2> QED
    BY <2>1 DEF ReasoningTypeOK, TurnsCounted, Guard!InFlight
<1> QED
  BY <1>3, <1>4, <1>5, <1>6, <1>7, <1>8, <1>9, <1>10, <1>11, <1>12
  DEF Next, Proceed

\* Types, and the bound on the turns of a run.
THEOREM ReasoningTypeCorrect == Spec => []ReasoningTypeOK
<1>1. RunsInv => ReasoningTypeOK
  BY DEF RunsInv
<1> QED
  BY <1>1, RunsInitInv, RunsStepInv, PTL DEF Spec

---------------------------------------------------------------------------
LEMMA OutageInitInv == Init => OutageInv
  BY ReasoningAssumption DEF Init, Guard!BreakerInit, OutageInv

LEMMA OutageStepInv == OutageInv /\ [Next]_vars => OutageInv'
<1> SUFFICES ASSUME OutageInv, [Next]_vars
             PROVE  OutageInv'
  OBVIOUS
<1> USE ReasoningAssumption DEF OutageInv
<1>1. ASSUME UNCHANGED outage, UNCHANGED failureCount,
             state' \in {state, "HALF_OPEN"}
      PROVE  OutageInv'
  BY <1>1
<1>2. ASSUME NEW r \in Runs, NEW s, NEW p, Check(r, s, p), UNCHANGED outage
      PROVE  OutageInv'
  BY <1>1, <1>2 DEF Check, Guard!Bypass, Guard!breakerVars, Guard!Begin,
                    Guard!BeginRecovery, Guard!BeginProbe
<1>3. ASSUME NEW r \in Runs, Checked(r) PROVE OutageInv'
  <2>1. outage' = 0 /\ Guard!Answer(r)
    BY <1>3 DEF Checked
  <2>2. /\ failureCount' \in Nat
        /\ state' = "CLOSED" => failureCount' < FailureThreshold
    BY <2>1 DEF Guard!Answer, Guard!SuccessWhenClosed,
                Guard!SuccessWhenHalfOpen, Guard!SuccessWhenOpen
  <2>3. state' \in {"CLOSED", "OPEN", "HALF_OPEN"}
    BY <2>1 DEF Guard!Answer, Guard!SuccessWhenClosed,
                Guard!SuccessWhenHalfOpen, Guard!SuccessWhenOpen
  <2> QED
    BY <2>1, <2>2, <2>3
<1>4. ASSUME NEW r \in Runs, CheckFailed(r) PROVE OutageInv'
  <2>1. /\ failureCount' = Guard!OneMore
        /\ state' = IF \/ state = "HALF_OPEN"
                       \/ state = "CLOSED" /\ Guard!OneMore >= FailureThreshold
                    THEN "OPEN" ELSE state
    BY <1>4 DEF CheckFailed, Guard!Failure
  <2>2. outage' = outage \/ (state' # "OPEN" /\ outage' = outage + 1)
    BY <1>4 DEF CheckFailed
  <2>3. Guard!OneMore \in Nat
    BY DEF Guard!OneMore
  <2>4. CASE state = "CLOSED"
    BY <2>1, <2>2, <2>3, <2>4 DEF Guard!OneMore
  <2>5. CASE state # "CLOSED"
    BY <2>1, <2>2, <2>3, <2>5
  <2> QED
    BY <2>4, <2>5
<1>5. ASSUME NEW r \in Runs,
             \/ Invoke(r) \/ Tampered(r) \/ Failover(r) \/ FallbackFails(r)
             \/ TurnEnds(r) \/ JudgeRefuses(r) \/ Verdict(r) \/ Cancel(r)
      PROVE  OutageInv'
  BY <1>1, <1>5 DEF Invoke, Tampered, Failover, FallbackFails, TurnEnds, JudgeRefuses, Verdict,
                    Cancel, Guard!Cancel, guardVars
<1>6. CASE Tick \/ UNCHANGED vars
  BY <1>1, <1>6 DEF Tick, Guard!Tick, vars, guardVars
<1>7. ASSUME NEW r \in Runs, Think(r) \/ Respond(r) PROVE OutageInv'
  BY <1>2, <1>7 DEF Think, Respond
<1> QED
  BY <1>3, <1>4, <1>5, <1>6, <1>7 DEF Next, Proceed

\* However the checks of the runs overlap and whatever the thresholds, an
\* outage of the guard's model refuses fewer than FailureThreshold texts.
THEOREM OutageIsShort == Spec => []OutageRefusesFew
<1>1. OutageInv => OutageRefusesFew
  BY DEF OutageInv, OutageRefusesFew
<1> QED
  BY <1>1, OutageInitInv, OutageStepInv, PTL DEF Spec

---------------------------------------------------------------------------
\* What is proved of SLMGuardBreaker holds of the guard, whose calls are the
\* runs.
GuardProofs == INSTANCE SLMGuardBreakerProofs WITH Calls <- Runs

\* Guard and GuardProofs instantiate one specification with the same runs.
LEMMA SameGuard == GuardSpec <=> GuardProofs!BreakerSpec
<1>1. Guard!BreakerInit <=> GuardProofs!BreakerInit
  BY DEF Guard!BreakerInit, GuardProofs!BreakerInit, Guard!NoFailure,
         GuardProofs!NoFailure
<1>2. Guard!breakerVars = GuardProofs!breakerVars
  BY DEF Guard!breakerVars, GuardProofs!breakerVars
<1>3. ASSUME NEW r \in Runs
      PROVE  /\ Guard!Enter(r) <=> GuardProofs!Enter(r)
             /\ Guard!Answer(r) <=> GuardProofs!Answer(r)
             /\ Guard!Failure(r) <=> GuardProofs!Failure(r)
             /\ Guard!Cancel(r) <=> GuardProofs!Cancel(r)
  <2>1. Guard!Enter(r) <=> GuardProofs!Enter(r)
    BY DEF Guard!Enter, GuardProofs!Enter, Guard!Begin, GuardProofs!Begin,
         Guard!Bypass, GuardProofs!Bypass, Guard!BeginRecovery,
         GuardProofs!BeginRecovery, Guard!BeginProbe, GuardProofs!BeginProbe,
         Guard!Fly, GuardProofs!Fly, Guard!breakerVars,
         GuardProofs!breakerVars, Guard!Asks, GuardProofs!Asks
  <2>2. Guard!Answer(r) <=> GuardProofs!Answer(r)
    BY DEF Guard!Answer, GuardProofs!Answer, Guard!Fly, GuardProofs!Fly,
         Guard!SuccessWhenClosed, GuardProofs!SuccessWhenClosed,
         Guard!SuccessWhenHalfOpen, GuardProofs!SuccessWhenHalfOpen,
         Guard!SuccessWhenOpen, GuardProofs!SuccessWhenOpen, Guard!Longer,
         GuardProofs!Longer, Guard!InFlight, GuardProofs!InFlight
  <2>3. Guard!Failure(r) <=> GuardProofs!Failure(r)
    BY DEF Guard!Failure, GuardProofs!Failure, Guard!Fly, GuardProofs!Fly,
         Guard!Longer, GuardProofs!Longer, Guard!InFlight,
         GuardProofs!InFlight, Guard!OneMore, GuardProofs!OneMore
  <2>4. Guard!Cancel(r) <=> GuardProofs!Cancel(r)
    BY DEF Guard!Cancel, GuardProofs!Cancel, Guard!Fly, GuardProofs!Fly,
         Guard!InFlight, GuardProofs!InFlight
  <2> QED
    BY <2>1, <2>2, <2>3, <2>4
<1>4. Guard!Tick <=> GuardProofs!Tick
  BY DEF Guard!Tick, GuardProofs!Tick, Guard!NoFailure, GuardProofs!NoFailure
<1>5. [Guard!BreakerNext]_(Guard!breakerVars)
        <=> [GuardProofs!BreakerNext]_(GuardProofs!breakerVars)
  <2>1. ASSUME NEW r \in Runs
        PROVE  /\ Guard!Enter(r) <=> GuardProofs!Enter(r)
               /\ Guard!End(r) <=> GuardProofs!End(r)
    BY <1>3 DEF Guard!End, GuardProofs!End
  <2>2. Guard!BreakerNext <=> GuardProofs!BreakerNext
    BY <2>1, <1>4 DEF Guard!BreakerNext, GuardProofs!BreakerNext
  <2>3. UNCHANGED Guard!breakerVars <=> UNCHANGED GuardProofs!breakerVars
    BY DEF Guard!breakerVars, GuardProofs!breakerVars
  <2> QED
    BY <2>2, <2>3
<1> QED
  BY <1>1, <1>5, PTL DEF GuardSpec, Guard!BreakerSpec, GuardProofs!BreakerSpec

\* What the counters of the guard say, whatever the runs do.
LEMMA GuardInvariant == Spec => []GuardProofs!BreakerInv
<1>1. GuardProofs!BreakerSpec => []GuardProofs!BreakerInv
  BY GuardProofs!BreakerInvariance, ReasoningAssumption
<1> QED
  BY <1>1, SameGuard, ImplementsGuard, PTL

\* A text that goes on without an answer is one that the breaker skips, or one
\* whose check has failed.
LEMMA UncheckedSteps ==
  ASSUME ReasoningTypeOK, GuardProofs!BreakerInv, Next, NEW r \in Runs,
         Unchecked(r)
  PROVE  Guard!Bypass(r) \/ (CheckFailed(r) /\ state' = "OPEN")
<1>1. stage'[r] # stage[r]
  BY DEF Unchecked
<1>2. ASSUME NEW q \in Runs, NEW s, Goto(q, s)
      PROVE  q = r /\ stage'[r] = s
  BY <1>1, <1>2 DEF Goto, ReasoningTypeOK
<1>3. ~Tick
  BY <1>1 DEF Tick
<1>4. ASSUME NEW q \in Runs, NEW s \in {"think", "failed", "refused", "answered",
                                    "fallback", "verdict", "input", "output"}
      PROVE  ~Goto(q, s)
  BY <1>2 DEF Unchecked
<1>5. ASSUME NEW q \in Runs
      PROVE  ~Invoke(q) /\ ~Tampered(q) /\ ~Failover(q) /\ ~FallbackFails(q)
             /\ ~JudgeRefuses(q) /\ ~Verdict(q) /\ ~Cancel(q) /\ ~TurnEnds(q)
  BY <1>4 DEF Invoke, Tampered, Failover, FallbackFails, JudgeRefuses,
     Verdict, Cancel, TurnEnds, Routes
<1>6. ASSUME NEW q \in Runs, NEW s \in {"input", "output"}, NEW p,
             Check(q, s, p)
      PROVE  q = r /\ Guard!Bypass(r)
  BY <1>2, <1>4, <1>6 DEF Check
<1>7. ASSUME NEW q \in Runs, Think(q) \/ Respond(q) PROVE Guard!Bypass(r)
  BY <1>6, <1>7 DEF Think, Respond
<1>8. ASSUME NEW q \in Runs, Checked(q) PROVE FALSE
  <2>1. q = r /\ stage[r] \in {"input", "output"}
    BY <1>2, <1>4, <1>8 DEF Checked, Passed
  <2>2. run' < 0
    BY <2>1 DEF Unchecked
  <2>3. run \in Int
    BY ReasoningAssumption
    DEF GuardProofs!BreakerInv, GuardProofs!BreakerTypeOK
  <2>4. run' \in Int /\ run' > 0
    BY <1>8, <2>3, ReasoningAssumption DEF Checked, Guard!Answer, Guard!Longer
  <2> QED
    BY <2>2, <2>4
<1>9. ASSUME NEW q \in Runs, CheckFailed(q)
      PROVE  CheckFailed(r) /\ state' = "OPEN"
  BY <1>2, <1>4, <1>9 DEF CheckFailed, Passed
<1> QED
  BY <1>3, <1>5, <1>7, <1>8, <1>9 DEF Next, Proceed

\* A text goes on unchecked only while the circuit is open: in HALF_OPEN the
\* breaker always has room for the next call, so that it skips none, and a
\* failure that leaves the circuit closed refuses its text
\* (security_guardrails.py:203-215, 263-273).
THEOREM UncheckedNeedsOpen == Spec => UncheckedOnlyWhenOpen
<1>1. ReasoningTypeOK /\ GuardProofs!BreakerInv /\ [Next]_vars
        => [\A r \in Runs : Unchecked(r) => state' = "OPEN"]_vars
  <2> SUFFICES ASSUME ReasoningTypeOK, GuardProofs!BreakerInv, Next,
                      NEW r \in Runs, Unchecked(r)
               PROVE  state' = "OPEN"
    OBVIOUS
  <2>1. CASE Guard!Bypass(r)
    BY <2>1
    DEF Guard!Bypass, Guard!Asks, Guard!breakerVars, GuardProofs!BreakerInv,
        GuardProofs!BreakerTypeOK, GuardProofs!NeverStuck
  <2> QED
    BY <2>1, UncheckedSteps
<1> QED
  BY <1>1, GuardInvariant, ReasoningTypeCorrect, PTL
  DEF Spec, UncheckedOnlyWhenOpen
---------------------------------------------------------------------------
\* What is left of a turn; a turn has at most seven steps.
TurnRank(s) ==
    CASE s = "input"    -> 6
      [] s = "ask"      -> 5
      [] s = "fallback" -> 4
      [] s = "output"   -> 3
      [] s = "judge"    -> 2
      [] s = "verdict"  -> 1
      [] OTHER          -> 0

\* The steps that a run has left, at most.
RunRank(r) == IF stage[r] \in Ended
                THEN 0
                ELSE 7 * (MaxIterations + 1 - turns[r]) + TurnRank(stage[r])

\* A run ends within 7 * (MaxIterations + 1) steps of its own, whatever the
\* models answer and whatever count its checkpoint brings, and no other run
\* takes it back (multi_agent.py:303-331).
RunsShrink ==
    [][\A r \in Runs : stage[r] \in Working =>
          /\ RunRank(r)' <= RunRank(r)
          /\ Proceed(r) \/ Cancel(r) => RunRank(r)' < RunRank(r)]_vars

\* Every step of a run brings its end nearer: the safety half of RunEnds, for
\* any bound on the iterations and any number of runs.
THEOREM RunsAreBounded == Spec => RunsShrink
<1> DEFINE Shrinks(r) ==
        stage[r] \in Working =>
          /\ RunRank(r)' <= RunRank(r)
          /\ Proceed(r) \/ Cancel(r) => RunRank(r)' < RunRank(r)
<1>1. ASSUME RunsInv, RunsInv', Next, NEW r \in Runs, stage[r] \in Working
      PROVE  Shrinks(r)
  <2> USE ReasoningAssumption
  <2>1. /\ stage \in [Runs -> Working \cup Ended]
        /\ stage' \in [Runs -> Working \cup Ended]
        /\ turns \in [Runs -> 0..(MaxIterations + 1)]
        /\ turns' \in [Runs -> 0..(MaxIterations + 1)]
        /\ stage[r] = "think" => turns[r] <= MaxIterations
    BY <1>1 DEF RunsInv, ReasoningTypeOK, TurnsCounted, Counts
  <2>2. \A x \in Working : TurnRank(x) \in 0..6 /\ (x # "think" => TurnRank(x) > 0)
    BY DEF TurnRank, Working
  <2>3. RunRank(r) \in Nat /\ RunRank(r) > 0
    BY <1>1, <2>1, <2>2 DEF RunRank, Working, Ended
  <2>4. RunRank(r)' \in Nat
    BY <2>1, <2>2 DEF RunRank
  <2> DEFINE Less == RunRank(r)' < RunRank(r)
             Same == stage'[r] = stage[r] /\ turns'[r] = turns[r]
  <2>5. ASSUME NEW x \in Working \cup Ended, stage'[r] = x, turns'[r] = turns[r],
               x \in Ended \/ TurnRank(x) < TurnRank(stage[r])
        PROVE  Less
    <3>1. CASE x \in Ended
      BY <2>3, <2>5, <3>1 DEF RunRank
    <3>2. CASE x \in Working
      BY <1>1, <2>1, <2>2, <2>5, <3>2 DEF RunRank, Working, Ended
    <3> QED
      BY <3>1, <3>2
  <2>6. ASSUME NEW q \in Runs, Think(q)
        PROVE  IF q = r THEN Less ELSE Same
    <3>1. CASE q = r
      <4>1. /\ stage[r] = "think"
            /\ stage'[r] \in {"input", "ask"}
            /\ turns'[r] = turns[r] + 1
        BY <2>1, <2>6, <3>1 DEF Think, Check, Goto
      <4>2. RunRank(r) = 7 * (MaxIterations + 1 - turns[r])
        BY <2>1, <4>1 DEF RunRank, TurnRank, Ended
      <4>3. /\ RunRank(r)' = 7 * (MaxIterations - turns[r]) + TurnRank(stage'[r])
            /\ TurnRank(stage'[r]) \in 0..6
        BY <2>1, <4>1 DEF RunRank, TurnRank, Ended
      <4> QED
        BY <2>1, <4>1, <4>2, <4>3, <3>1
    <3>2. CASE q # r
      BY <2>1, <2>6, <3>2 DEF Think, Check, Goto
    <3> QED
      BY <3>1, <3>2
  <2>7. ASSUME NEW q \in Runs,
               \/ Tampered(q) \/ Checked(q) \/ CheckFailed(q) \/ Respond(q)
               \/ Failover(q) \/ FallbackFails(q) \/ TurnEnds(q)
               \/ JudgeRefuses(q) \/ Verdict(q) \/ Cancel(q)
        PROVE  IF q = r THEN Less ELSE Same
    <3>1. turns' = turns
      BY <2>7 DEF Tampered, Checked, CheckFailed, Respond, Failover,
         FallbackFails, TurnEnds, JudgeRefuses, Verdict, Cancel
    <3>2. PICK x \in Working \cup Ended :
             /\ Goto(q, x)
             /\ x \in Ended \/ TurnRank(x) < TurnRank(stage[q])
      <4>1. CASE Tampered(q) \/ JudgeRefuses(q) \/ FallbackFails(q) \/ Cancel(q)
        BY <4>1 DEF Tampered, JudgeRefuses, FallbackFails, Cancel, Ended
      <4>2. CASE Checked(q) \/ CheckFailed(q)
        <5>1. /\ stage[q] \in {"input", "output"}
              /\ Passed(q) \/ Goto(q, "refused")
          BY <4>2 DEF Checked, CheckFailed
        <5>2. CASE Goto(q, "refused")
          BY <5>2 DEF Ended
        <5>3. CASE Passed(q)
          BY <5>1, <5>3 DEF Passed, TurnRank, Working
        <5> QED
          BY <5>1, <5>2, <5>3
      <4>3. CASE Respond(q)
        BY <4>3 DEF Respond, Check, TurnRank, Working
      <4>4. CASE Failover(q)
        BY <4>4 DEF Failover, TurnRank, Working
      <4>5. CASE TurnEnds(q)
        <5>1. /\ stage[q] = "judge"
              /\ \E x \in {"think", "answered", "verdict"} : Goto(q, x)
          BY <4>5 DEF TurnEnds, Routes
        <5> QED
          BY <5>1 DEF TurnRank, Working, Ended
      <4>6. CASE Verdict(q)
        BY <4>6 DEF Verdict, TurnRank, Working, Ended
      <4> QED
        BY <2>7, <4>1, <4>2, <4>3, <4>4, <4>5, <4>6
    <3>3. CASE q = r
      BY <2>1, <2>5, <3>1, <3>2, <3>3 DEF Goto
    <3>4. CASE q # r
      BY <2>1, <3>1, <3>2, <3>4 DEF Goto
    <3> QED
      BY <3>3, <3>4
  <2>8. ASSUME NEW q \in Runs, Invoke(q) PROVE Same
    <3>1. q # r
      BY <1>1, <2>8 DEF Invoke, Working, Ended
    <3> QED
      BY <2>1, <2>8, <3>1 DEF Invoke, Goto
  <2>9. ASSUME Tick PROVE Same
    BY <2>9 DEF Tick
  <2>10. Same => RunRank(r)' = RunRank(r)
    BY DEF RunRank
  <2>11. Proceed(r) \/ Cancel(r) => Less
    BY <2>6, <2>7 DEF Proceed
  <2>12. Less \/ Same
    BY <1>1, <2>6, <2>7, <2>8, <2>9 DEF Next, Proceed
  <2> HIDE DEF Same
  <2> QED
    BY <2>3, <2>4, <2>10, <2>11, <2>12
<1>2. RunsInv /\ RunsInv' /\ [Next]_vars => [\A r \in Runs : Shrinks(r)]_vars
  BY <1>1
<1> QED
  BY <1>2, RunsInitInv, RunsStepInv, PTL DEF Spec, RunsShrink
===========================================================================
