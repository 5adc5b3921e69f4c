----------------------- MODULE SLMGuardBreakerProofs -----------------------
(***************************************************************************)
(* The safety properties of SLMGuardBreaker, for any number of overlapping *)
(* calls and any threshold, limit and timeout.                             *)
(***************************************************************************)
EXTENDS SLMGuardBreaker, TLAPS

\* What each counter says of the outcomes so far: failureCount of the failures
\* in a row while CLOSED, successCount of the successes in a row while
\* HALF_OPEN.
CountsAreRuns ==
    /\ (state = "CLOSED" /\ failureCount > 0) => run = -failureCount
    /\ (state = "CLOSED" /\ failureCount = 0) => run >= 0
    /\ (state = "HALF_OPEN" /\ successCount > 0) => run >= successCount

BreakerInv ==
    /\ BreakerTypeOK
    /\ NeverStuck
    /\ CountsAreRuns

LEMMA BreakerInitInv == BreakerInit => BreakerInv
  BY BreakerAssumption
  DEF BreakerInit, BreakerInv, BreakerTypeOK, NeverStuck, CountsAreRuns, Flights,
      NoFailure

LEMMA BreakerStepInv == BreakerInv /\ [BreakerNext]_breakerVars => BreakerInv'
<1> SUFFICES ASSUME BreakerInv, [BreakerNext]_breakerVars
             PROVE  BreakerInv'
  OBVIOUS
<1> USE BreakerAssumption DEF BreakerInv, BreakerTypeOK, NeverStuck,
        CountsAreRuns, Flights, NoFailure
<1>1. ASSUME NEW c \in Calls, Begin(c)
      PROVE  BreakerInv'
  BY <1>1 DEF Begin, Fly
<1>2. ASSUME NEW c \in Calls, Bypass(c)
      PROVE  BreakerInv'
  BY <1>2 DEF Bypass, breakerVars
<1>3. ASSUME NEW c \in Calls, BeginRecovery(c)
      PROVE  BreakerInv'
  BY <1>3 DEF BeginRecovery, Fly
<1>4. ASSUME NEW c \in Calls, BeginProbe(c)
      PROVE  BreakerInv'
  BY <1>4 DEF BeginProbe, Fly
<1>5. ASSUME NEW c \in Calls, Answer(c)
      PROVE  BreakerInv'
  <2>1. flight' \in [Calls -> Flights] /\ age' = age
    BY <1>5 DEF Answer, Fly
  <2>2. run' \in 1..HalfOpenMaxCalls
        /\ (run < 0 => run' = 1)
        /\ (run >= 0 /\ run < HalfOpenMaxCalls => run' = run + 1)
        /\ (run = HalfOpenMaxCalls => run' = run)
    BY <1>5 DEF Answer, Longer
  <2>3. CASE SuccessWhenClosed
    BY <2>1, <2>2, <2>3 DEF SuccessWhenClosed
  <2>4. CASE SuccessWhenHalfOpen
    BY <2>1, <2>2, <2>4 DEF SuccessWhenHalfOpen
  <2>5. CASE SuccessWhenOpen
    BY <2>1, <2>2, <2>5 DEF SuccessWhenOpen
  <2> QED
    BY <1>5, <2>3, <2>4, <2>5 DEF Answer
<1>6. ASSUME NEW c \in Calls, Failure(c)
      PROVE  BreakerInv'
  <2>1. flight' \in [Calls -> Flights] /\ age' = 0
    BY <1>6 DEF Failure, Fly
  <2>2. run' \in -FailureThreshold..-1
        /\ (run > 0 => run' = -1)
        /\ (run <= 0 /\ -run < FailureThreshold => run' = run - 1)
    BY <1>6 DEF Failure, Longer
  <2>3. OneMore \in 0..FailureThreshold
        /\ (failureCount < FailureThreshold => OneMore = failureCount + 1)
    BY DEF OneMore
  <2>4. CASE state = "CLOSED"
    BY <1>6, <2>1, <2>2, <2>3, <2>4 DEF Failure
  <2>5. CASE state # "CLOSED"
    BY <1>6, <2>1, <2>2, <2>3, <2>5 DEF Failure
  <2> QED
    BY <2>4, <2>5
<1>7. ASSUME NEW c \in Calls, Cancel(c)
      PROVE  BreakerInv'
  BY <1>7 DEF Cancel, Fly
<1>8. CASE Tick
  BY <1>8 DEF Tick
<1>9. CASE UNCHANGED breakerVars
  BY <1>9 DEF breakerVars
<1> QED
  BY <1>1, <1>2, <1>3, <1>4, <1>5, <1>6, <1>7, <1>8, <1>9
  DEF BreakerNext, Enter, End

LEMMA BreakerInvariance == BreakerSpec => []BreakerInv
  BY BreakerInitInv, BreakerStepInv, PTL DEF BreakerSpec

\* In no state is the breaker stuck, for any number of overlapping calls.
THEOREM BreakerNeverStuck == BreakerSpec => [](BreakerTypeOK /\ NeverStuck)
<1>1. BreakerInv => BreakerTypeOK /\ NeverStuck
  BY DEF BreakerInv
<1> QED
  BY <1>1, BreakerInvariance, PTL

\* It opens and closes only after as many failures or successes in a row as
\* its parameters say.
THEOREM BreakerTransitions == BreakerSpec => TransitionsAreEarned
<1>1. BreakerInv /\ [BreakerNext]_breakerVars =>
        [/\ (state = "CLOSED" /\ state' # "CLOSED") => run' = -FailureThreshold
         /\ (state # "CLOSED" /\ state' = "CLOSED") => run' = HalfOpenMaxCalls]_breakerVars
  <2> SUFFICES ASSUME BreakerInv, BreakerNext, state' # state
               PROVE  /\ (state = "CLOSED" /\ state' # "CLOSED")
                            => run' = -FailureThreshold
                      /\ (state # "CLOSED" /\ state' = "CLOSED")
                            => run' = HalfOpenMaxCalls
    BY DEF breakerVars
  <2> USE BreakerAssumption DEF BreakerInv, BreakerTypeOK, NeverStuck,
          CountsAreRuns
  <2>1. ASSUME NEW c \in Calls, Enter(c)
        PROVE  state = "OPEN" /\ state' = "HALF_OPEN"
    BY <2>1 DEF Enter, Begin, Bypass, BeginRecovery, BeginProbe, breakerVars
  <2>2. ASSUME NEW c \in Calls, Answer(c)
        PROVE  state = "HALF_OPEN" /\ run' = HalfOpenMaxCalls
    BY <2>2 DEF Answer, SuccessWhenClosed, SuccessWhenHalfOpen,
       SuccessWhenOpen, Longer
  <2>3. ASSUME NEW c \in Calls, Failure(c)
        PROVE  state' = "OPEN" /\ (state = "CLOSED" => run' = -FailureThreshold)
    BY <2>3 DEF Failure, OneMore, Longer
  <2>4. ASSUME NEW c \in Calls, Cancel(c) PROVE FALSE
    BY <2>4 DEF Cancel
  <2>5. CASE Tick
    BY <2>5 DEF Tick
  <2> QED
    BY <2>1, <2>2, <2>3, <2>4, <2>5 DEF BreakerNext, End
<1> QED
  BY <1>1, BreakerInvariance, PTL DEF BreakerSpec, TransitionsAreEarned
---------------------------------------------------------------------------
\* The calls under way.
Flying == {c \in Calls : InFlight(c)}

\* While the circuit stays open no call begins, so that only the calls that
\* were under way when it opened can restart its timeout, each of them once:
\* otherwise time and every other step only bring recovery nearer
\* (security_guardrails.py:46-77, 106-119).
OpenCircuitAges ==
    [][state = "OPEN" /\ state' = "OPEN" =>
          /\ Flying' \subseteq Flying
          /\ Flying' = Flying => age' >= age
          /\ Tick => age' > age]_breakerVars

\* Recovery of an open circuit only comes nearer: the safety half of
\* RecoveryIsTested, for any number of overlapping calls.
THEOREM RecoveryComesNearer == BreakerSpec => OpenCircuitAges
<1>1. ASSUME BreakerInv, [BreakerNext]_breakerVars, state = "OPEN", state' = "OPEN"
      PROVE  /\ Flying' \subseteq Flying
             /\ Flying' = Flying => age' >= age
             /\ Tick => age' > age
  <2>0. age \in Int /\ flight \in [Calls -> Flights]
    BY <1>1 DEF BreakerInv, BreakerTypeOK, NoFailure
  <2>1. Tick => age' = age + 1 /\ Flying' = Flying
    BY <2>0 DEF Tick, Flying, InFlight
  <2>2. ASSUME NEW c \in Calls, Enter(c)
        PROVE  Flying' = Flying /\ age' = age
    <3>1. Bypass(c)
      BY <1>1, <2>2 DEF Enter, Begin, BeginRecovery, BeginProbe
    <3> QED
      BY <2>0, <3>1 DEF Bypass, breakerVars, Flying, InFlight
  <2>3. ASSUME NEW c \in Calls, End(c)
        PROVE  Flying' \subseteq Flying /\ Flying' # Flying
    <3>1. InFlight(c) /\ flight' = [flight EXCEPT ![c] = "idle"]
      BY <2>3 DEF End, Answer, Failure, Cancel, Fly
    <3>2. c \in Flying /\ c \notin Flying'
      BY <2>0, <3>1 DEF Flying, InFlight
    <3>3. Flying' \subseteq Flying
      BY <2>0, <3>1 DEF Flying, InFlight
    <3> QED
      BY <3>2, <3>3
  <2>4. UNCHANGED breakerVars => Flying' = Flying /\ age' = age
    BY <2>0 DEF breakerVars, Flying, InFlight
  <2>5. \/ Flying' = Flying /\ age' = age
        \/ Flying' = Flying /\ age' = age + 1
        \/ Flying' \subseteq Flying /\ Flying' # Flying
    <3>1. CASE Tick
      BY <2>1, <3>1
    <3>2. CASE UNCHANGED breakerVars
      BY <2>4, <3>2
    <3>3. CASE \E c \in Calls : Enter(c) \/ End(c)
      BY <2>2, <2>3, <3>3
    <3> QED
      BY <1>1, <3>1, <3>2, <3>3 DEF BreakerNext
  <2>6. Flying' = Flying => age' >= age
    BY <2>0, <2>5
  <2>7. Flying' \subseteq Flying
    BY <2>5
  <2>8. Tick => age' > age
    BY <2>0, <2>1
  <2> QED
    BY <2>6, <2>7, <2>8
<1>2. BreakerInv /\ [BreakerNext]_breakerVars
        => [state = "OPEN" /\ state' = "OPEN" =>
              /\ Flying' \subseteq Flying
              /\ Flying' = Flying => age' >= age
              /\ Tick => age' > age]_breakerVars
  BY <1>1
<1> QED
  BY <1>2, BreakerInvariance, PTL DEF BreakerSpec, OpenCircuitAges
===========================================================================
