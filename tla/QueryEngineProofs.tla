------------------------- MODULE QueryEngineProofs -------------------------
(***************************************************************************)
(* The safety properties of QueryEngine, for any number of overlapping     *)
(* queries: whatever the queries of one engine do to the circuit breaker   *)
(* they share is a behaviour of SLMGuardBreaker, so what is proved of the  *)
(* breaker holds of the engine.                                            *)
(***************************************************************************)
EXTENDS QueryEngine, SLMGuardBreakerProofs

\* A step of the engine is a step of its breaker, or none.
LEMMA StepOfBreaker == [Next]_vars => [BreakerNext]_breakerVars
<1> SUFFICES ASSUME [Next]_vars PROVE [BreakerNext]_breakerVars
  OBVIOUS
<1>1. ASSUME NEW q \in Calls, NEW s, NEW p, Check(q, s, p)
      PROVE  Enter(q)
  BY <1>1 DEF Check, Enter
<1>2. ASSUME NEW q \in Calls, Ask(q) \/ Answered(q) PROVE Enter(q)
  BY <1>1, <1>2 DEF Ask, Answered
<1>3. ASSUME NEW q \in Calls, Checked(q) \/ CheckFailed(q) PROVE End(q)
  BY <1>3 DEF Checked, CheckFailed, End
<1>4. ASSUME NEW q \in Calls, Abort(q)
      PROVE  End(q) \/ UNCHANGED breakerVars
  BY <1>4 DEF Abort, End
<1>5. ASSUME NEW q \in Calls,
             \/ SchemaRead(q) \/ SchemaRetried(q) \/ CypherWritten(q)
             \/ RowsRead(q) \/ Fails(q)
      PROVE  UNCHANGED breakerVars
  BY <1>5 DEF SchemaRead, SchemaRetried, CypherWritten, RowsRead, Fails
<1>6. CASE Clock
  BY <1>6 DEF Clock, BreakerNext
<1>7. CASE UNCHANGED vars
  BY <1>7 DEF vars
<1> QED
  BY <1>2, <1>3, <1>4, <1>5, <1>6, <1>7 DEF Next, Proceed, BreakerNext

\* The queries of an engine use its breaker as SLMGuardBreaker says its
\* callers do (engine.py:62-140, security_guardrails.py:146-242).
THEOREM EngineImplementsBreaker == Spec => BreakerSpec
<1>1. Init => BreakerInit
  BY DEF Init
<1> QED
  BY <1>1, StepOfBreaker, PTL DEF Spec, BreakerSpec

\* So the breaker of an engine is never stuck (security_guardrails.py:106-119)
THEOREM EngineNeverStuck == Spec => []NeverStuck
  BY EngineImplementsBreaker, BreakerNeverStuck, PTL

\* and opens and closes only as its parameters say, whichever of the queries
\* report the outcomes (security_guardrails.py:46-77).
THEOREM EngineTransitions == Spec => TransitionsAreEarned
  BY EngineImplementsBreaker, BreakerTransitions, PTL

\* While the circuit of an engine is open, its recovery only comes nearer
\* (security_guardrails.py:106-119).
THEOREM EngineRecovery == Spec => OpenCircuitAges
  BY EngineImplementsBreaker, RecoveryComesNearer, PTL

---------------------------------------------------------------------------
\* Whether a call is in flight, or may be in flight, in each kind of step.
LEMMA BreakerFlights ==
  ASSUME BreakerTypeOK, NEW q \in Calls
  PROVE  /\ Begin(q) \/ BeginRecovery(q) \/ BeginProbe(q)
              => \E f \in Flights \ {"idle"} : Fly(q, f)
         /\ Bypass(q) => UNCHANGED flight /\ flight[q] = "idle"
         /\ End(q) => Fly(q, "idle")
         /\ Tick => UNCHANGED flight
  BY DEF Begin, BeginRecovery, BeginProbe, Bypass, End, Answer, Failure,
     Cancel, Tick, Flights, breakerVars

\* One query's variables change, and those of the others do not.
EngineMove(q, s, n, f) ==
    /\ stage' = [stage EXCEPT ![q] = s]
    /\ attempts' = [attempts EXCEPT ![q] = n]
    /\ flight' = [flight EXCEPT ![q] = f]

\* Such a step keeps EngineTypeOK if q's new values agree.
LEMMA MovesKeep ==
  ASSUME EngineTypeOK, BreakerTypeOK', NEW q \in Calls,
         NEW s \in Waiting \cup {"idle", "answered"},
         NEW n \in 0..(MaxAttempts - 1), NEW f \in Flights,
         f # "idle" <=> s \in {"input", "output"},
         n = 0 \/ s = "schema",
         EngineMove(q, s, n, f)
  PROVE  EngineTypeOK'
<1>1. /\ stage' \in [Calls -> Waiting \cup {"idle", "answered"}]
      /\ attempts' \in [Calls -> 0..(MaxAttempts - 1)]
      /\ flight' \in [Calls -> Flights]
  BY DEF EngineTypeOK, EngineMove, BreakerTypeOK
<1>2. ASSUME NEW r \in Calls
      PROVE  /\ InFlight(r)' <=> stage'[r] \in {"input", "output"}
             /\ attempts'[r] > 0 => stage'[r] = "schema"
  <2> USE EngineAssumption
  <2>1. CASE r = q
    BY <2>1 DEF EngineTypeOK, EngineMove, BreakerTypeOK, InFlight
  <2>2. CASE r # q
    BY <2>2 DEF EngineTypeOK, EngineMove, BreakerTypeOK, InFlight
  <2> QED
    BY <2>1, <2>2
<1> QED
  BY <1>1, <1>2 DEF EngineTypeOK

\* What a query's variables are before a step: in particular, they are what
\* EXCEPT leaves them.
LEMMA Stays ==
  ASSUME EngineTypeOK, NEW q \in Calls
  PROVE  /\ stage[q] \in Waiting \cup {"idle", "answered"}
         /\ attempts[q] \in 0..(MaxAttempts - 1)
         /\ flight[q] \in Flights
         /\ stage = [stage EXCEPT ![q] = stage[q]]
         /\ attempts = [attempts EXCEPT ![q] = attempts[q]]
         /\ flight = [flight EXCEPT ![q] = flight[q]]
         /\ flight[q] # "idle" <=> stage[q] \in {"input", "output"}
         /\ attempts[q] = 0 \/ stage[q] = "schema"
  BY EngineAssumption DEF EngineTypeOK, BreakerTypeOK, InFlight

LEMMA EngineInit == Init => EngineTypeOK
<1> SUFFICES ASSUME Init PROVE EngineTypeOK
  OBVIOUS
<1>1. BreakerTypeOK
  BY BreakerInitInv DEF Init, BreakerInv
<1> QED
  BY <1>1, EngineAssumption
  DEF Init, BreakerInit, EngineTypeOK, InFlight, Waiting

LEMMA EngineStep ==
  EngineTypeOK /\ BreakerTypeOK' /\ [Next]_vars => EngineTypeOK'
<1> SUFFICES ASSUME EngineTypeOK, BreakerTypeOK', [Next]_vars
             PROVE  EngineTypeOK'
  OBVIOUS
<1>0. BreakerTypeOK
  BY DEF EngineTypeOK
<1>1. ASSUME NEW q \in Calls, Ask(q) PROVE EngineTypeOK'
  <2>1. attempts[q] = 0 /\ attempts' = attempts
    BY <1>1, Stays DEF Ask, Waiting
  <2>2. CASE Bypass(q) /\ Goto(q, "schema")
    <3>1. flight[q] = "idle" /\ flight' = flight
      BY <2>2, <1>0, BreakerFlights
    <3>2. EngineMove(q, "schema", 0, "idle")
      BY <2>1, <2>2, <3>1, Stays DEF EngineMove, Goto
    <3> QED
      BY <3>2, MovesKeep, EngineAssumption DEF Waiting, Flights
  <2>3. CASE (Begin(q) \/ BeginRecovery(q) \/ BeginProbe(q)) /\ Goto(q, "input")
    <3>1. PICK f \in Flights \ {"idle"} : Fly(q, f)
      BY <2>3, <1>0, BreakerFlights
    <3> QED
      BY <2>1, <2>3, <3>1, Stays, MovesKeep DEF EngineMove, Goto, Waiting, Fly
  <2> QED
    BY <1>1, <2>2, <2>3 DEF Ask, Check
<1>2. ASSUME NEW q \in Calls, Answered(q) PROVE EngineTypeOK'
  <2>1. attempts[q] = 0 /\ attempts' = attempts
    BY <1>2, Stays DEF Answered
  <2>2. CASE Bypass(q) /\ Goto(q, "answered")
    <3>1. flight[q] = "idle" /\ flight' = flight
      BY <2>2, <1>0, BreakerFlights
    <3>2. EngineMove(q, "answered", 0, "idle")
      BY <2>1, <2>2, <3>1, Stays DEF EngineMove, Goto
    <3> QED
      BY <3>2, MovesKeep, EngineAssumption DEF Waiting, Flights
  <2>3. CASE (Begin(q) \/ BeginRecovery(q) \/ BeginProbe(q)) /\ Goto(q, "output")
    <3>1. PICK f \in Flights \ {"idle"} : Fly(q, f)
      BY <2>3, <1>0, BreakerFlights
    <3> QED
      BY <2>1, <2>3, <3>1, Stays, MovesKeep DEF EngineMove, Goto, Waiting, Fly
  <2> QED
    BY <1>2, <2>2, <2>3 DEF Answered, Check
<1>3. ASSUME NEW q \in Calls, Checked(q) \/ CheckFailed(q) PROVE EngineTypeOK'
  <2>1. attempts[q] = 0 /\ attempts' = attempts
    BY <1>3, Stays DEF Checked, CheckFailed
  <2>2. Fly(q, "idle")
    BY <1>3, <1>0, BreakerFlights DEF Checked, CheckFailed, End
  <2>3. PICK s \in {"schema", "answered", "idle"} : Goto(q, s)
    BY <1>3 DEF Checked, CheckFailed, Passed, Blocked
  <2>4. EngineMove(q, s, 0, "idle")
    BY <2>1, <2>2, <2>3, Stays DEF EngineMove, Goto, Fly
  <2> QED
    BY <2>4, MovesKeep, EngineAssumption DEF Waiting, Flights
<1>4. ASSUME NEW q \in Calls, SchemaRead(q) \/ CypherWritten(q) \/ RowsRead(q)
      PROVE  EngineTypeOK'
  <2>1. PICK s \in {"cypher", "read", "answer"} : Goto(q, s)
    BY <1>4 DEF SchemaRead, CypherWritten, RowsRead
  <2>2. attempts' = [attempts EXCEPT ![q] = 0]
    BY <1>4, Stays DEF SchemaRead, CypherWritten, RowsRead
  <2>3. flight[q] = "idle" /\ flight' = flight
    BY <1>4, Stays DEF SchemaRead, CypherWritten, RowsRead, breakerVars
  <2>4. EngineMove(q, s, 0, "idle")
    BY <2>1, <2>2, <2>3, Stays DEF EngineMove, Goto
  <2> QED
    BY <2>4, MovesKeep, EngineAssumption DEF Waiting, Flights
<1>5. ASSUME NEW q \in Calls, SchemaRetried(q) PROVE EngineTypeOK'
  <2>1. attempts[q] + 1 \in 0..(MaxAttempts - 1)
    <3>1. attempts[q] \in 0..(MaxAttempts - 1) /\ attempts[q] + 1 < MaxAttempts
      BY <1>5, Stays DEF SchemaRetried
    <3> QED
      BY <3>1, EngineAssumption
  <2>2. flight' = flight /\ stage' = stage /\ stage[q] = "schema"
        /\ attempts' = [attempts EXCEPT ![q] = attempts[q] + 1]
    BY <1>5 DEF SchemaRetried, breakerVars
  <2>3. flight[q] = "idle"
    BY <2>2, Stays
  <2>4. EngineMove(q, "schema", attempts[q] + 1, "idle")
    BY <2>2, <2>3, Stays DEF EngineMove
  <2> QED
    BY <2>1, <2>4, MovesKeep DEF Waiting, Flights
<1>6. ASSUME NEW q \in Calls, Fails(q) PROVE EngineTypeOK'
  <2>1. flight[q] = "idle" /\ flight' = flight
    BY <1>6, Stays DEF Fails, breakerVars
  <2>2. EngineMove(q, "idle", 0, "idle")
    BY <1>6, <2>1, Stays DEF Fails, EngineMove, Goto
  <2> QED
    BY <2>2, MovesKeep, EngineAssumption DEF Flights
<1>7. ASSUME NEW q \in Calls, Abort(q) PROVE EngineTypeOK'
  <2>1. Fly(q, "idle")
    <3>1. CASE Cancel(q)
      BY <3>1, <1>0, BreakerFlights DEF End
    <3>2. CASE flight' = flight /\ stage[q] \notin {"input", "output"}
      BY <3>2, Stays DEF Fly
    <3> QED
      BY <1>7, <3>1, <3>2 DEF Abort, breakerVars
  <2>2. EngineMove(q, "idle", 0, "idle")
    BY <1>7, <2>1 DEF Abort, EngineMove, Goto, Fly
  <2> QED
    BY <2>2, MovesKeep, EngineAssumption DEF Flights
<1>8. CASE Clock
  BY <1>8 DEF Clock, Tick, engineVars, EngineTypeOK, InFlight
<1>9. CASE UNCHANGED vars
  BY <1>9 DEF vars, engineVars, breakerVars, EngineTypeOK, InFlight
<1> QED
  BY <1>1, <1>2, <1>3, <1>4, <1>5, <1>6, <1>7, <1>8, <1>9 DEF Next, Proceed

\* A query has a check in flight exactly while it awaits one, so that a call
\* the breaker counts is always some query's, and only the snapshot is tried
\* again, at most MaxAttempts times (engine.py:62-140, database.py:83-88).
THEOREM EngineTypeCorrect == Spec => []EngineTypeOK
<1>1. Spec => []BreakerTypeOK
  BY EngineImplementsBreaker, BreakerNeverStuck, PTL
<1> QED
  BY <1>1, EngineInit, EngineStep, PTL DEF Spec
---------------------------------------------------------------------------
\* The steps that a query has left, at most.
QueryRank(q) ==
    CASE stage[q] = "input"  -> MaxAttempts + 5
      [] stage[q] = "schema" -> MaxAttempts + 4 - attempts[q]
      [] stage[q] = "cypher" -> 4
      [] stage[q] = "read"   -> 3
      [] stage[q] = "answer" -> 2
      [] stage[q] = "output" -> 1
      [] OTHER               -> 0

\* A query ends within MaxAttempts + 5 steps of its own, whatever the guard,
\* the models and Neo4j answer, and no other query sharing its guard takes it
\* back (engine.py:73-140, database.py:83-88).
QueriesShrink ==
    [][\A q \in Calls : stage[q] \in Waiting =>
          /\ QueryRank(q)' <= QueryRank(q)
          /\ Proceed(q) \/ Abort(q) => QueryRank(q)' < QueryRank(q)]_vars

\* Every step of a query brings its end nearer: the safety half of QueryEnds,
\* for any number of queries and attempts.
THEOREM QueriesAreBounded == Spec => QueriesShrink
<1> DEFINE Shrinks(q) ==
        stage[q] \in Waiting =>
          /\ QueryRank(q)' <= QueryRank(q)
          /\ Proceed(q) \/ Abort(q) => QueryRank(q)' < QueryRank(q)
<1>1. ASSUME EngineTypeOK, EngineTypeOK', Next, NEW q \in Calls, stage[q] \in Waiting
      PROVE  Shrinks(q)
  <2> USE EngineAssumption
  <2>1. /\ stage \in [Calls -> Waiting \cup {"idle", "answered"}]
        /\ attempts \in [Calls -> 0..(MaxAttempts - 1)]
        /\ stage' \in [Calls -> Waiting \cup {"idle", "answered"}]
        /\ attempts' \in [Calls -> 0..(MaxAttempts - 1)]
        /\ attempts[q] > 0 => stage[q] = "schema"
        /\ attempts'[q] > 0 => stage'[q] = "schema"
    BY <1>1 DEF EngineTypeOK
  <2>2. QueryRank(q) \in Nat
    BY <2>1 DEF QueryRank, Waiting
  <2>3. QueryRank(q)' \in Nat
    BY <2>1 DEF QueryRank, Waiting
  <2> DEFINE Less == QueryRank(q)' < QueryRank(q)
             Same == stage'[q] = stage[q] /\ attempts'[q] = attempts[q]
  <2>4. ASSUME NEW r \in Calls, Checked(r) \/ CheckFailed(r)
        PROVE  IF r = q THEN Less ELSE Same
    <3>1. /\ stage[r] \in {"input", "output"} /\ attempts' = attempts
          /\ \/ stage' = [stage EXCEPT ![r] = "idle"]
             \/ stage' = [stage EXCEPT ![r] =
                            IF stage[r] = "input" THEN "schema" ELSE "answered"]
      BY <2>4 DEF Checked, CheckFailed, Passed, Blocked, Goto
    <3>2. CASE r = q
      BY <2>1, <3>1, <3>2 DEF QueryRank
    <3>3. CASE r # q
      BY <2>1, <3>1, <3>3
    <3> QED
      BY <3>2, <3>3
  <2>5. ASSUME NEW r \in Calls, SchemaRetried(r)
        PROVE  IF r = q THEN Less ELSE Same
    <3>1. CASE r = q
      BY <2>1, <2>5, <3>1 DEF SchemaRetried, QueryRank
    <3>2. CASE r # q
      BY <2>1, <2>5, <3>2 DEF SchemaRetried
    <3> QED
      BY <3>1, <3>2
  <2>6. ASSUME NEW r \in Calls,
               SchemaRead(r) \/ CypherWritten(r) \/ RowsRead(r) \/ Answered(r)
        PROVE  IF r = q THEN Less ELSE Same
    <3>1. CASE r = q
      BY <2>1, <2>6, <3>1
      DEF SchemaRead, CypherWritten, RowsRead, Answered, Check, Goto, QueryRank
    <3>2. CASE r # q
      BY <2>1, <2>6, <3>2
      DEF SchemaRead, CypherWritten, RowsRead, Answered, Check, Goto
    <3> QED
      BY <3>1, <3>2
  <2>7. ASSUME NEW r \in Calls, Fails(r) \/ Abort(r)
        PROVE  IF r = q THEN Less ELSE Same
    <3>1. CASE r = q
      BY <1>1, <2>1, <2>7, <3>1 DEF Fails, Abort, Goto, QueryRank, Waiting
    <3>2. CASE r # q
      BY <2>1, <2>7, <3>2 DEF Fails, Abort, Goto
    <3> QED
      BY <3>1, <3>2
  <2>8. ASSUME NEW r \in Calls, Ask(r) PROVE Same
    <3>1. r # q
      BY <1>1, <2>8 DEF Ask
    <3> QED
      BY <2>1, <2>8, <3>1 DEF Ask, Check, Goto
  <2>9. ASSUME Clock PROVE Same
    BY <2>9 DEF Clock, engineVars
  <2>10. Same => QueryRank(q)' = QueryRank(q)
    BY DEF QueryRank
  <2>11. Proceed(q) \/ Abort(q) => Less
    BY <2>4, <2>5, <2>6, <2>7 DEF Proceed
  <2>12. Less \/ Same
    BY <1>1, <2>4, <2>5, <2>6, <2>7, <2>8, <2>9 DEF Next, Proceed
  <2> HIDE DEF Same
  <2> QED
    BY <2>2, <2>3, <2>10, <2>11, <2>12
<1>2. EngineTypeOK /\ EngineTypeOK' /\ [Next]_vars
        => [\A q \in Calls : Shrinks(q)]_vars
  BY <1>1
<1> QED
  BY <1>2, EngineTypeCorrect, PTL DEF Spec, QueriesShrink
===========================================================================
