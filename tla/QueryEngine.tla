---------------------------- MODULE QueryEngine ----------------------------
(***************************************************************************)
(* core/engine.py: GraphQueryEngine.query, and its front ends in cli and   *)
(* app.py.  A question is checked, translated to Cypher on a snapshot of   *)
(* the schema, run in a READ session, and the rows become an answer, which *)
(* is checked too.                                                         *)
(*                                                                         *)
(* The queries of one engine share its SecurityEnforcer, hence one         *)
(* SLMGuardBreaker.  The front ends of the repository ask one query at a   *)
(* time; query() is a coroutine that may be awaited by several tasks.      *)
(* Its reply is a text, also when it is an error.                          *)
(***************************************************************************)
EXTENDS SLMGuardBreaker

CONSTANT MaxAttempts     \* stop_after_attempt(3)

ASSUME EngineAssumption == MaxAttempts \in Nat \ {0}

VARIABLES
    stage,      \* query -> what it awaits, or how it ended: "answered", or
                \* "idle" with an error text, or none
    attempts    \* query -> the attempts at its snapshot that have failed

engineVars == <<stage, attempts>>
vars == <<breakerVars, engineVars>>

Waiting == {"input", "schema", "cypher", "read", "answer", "output"}

---------------------------------------------------------------------------
Init ==
    /\ BreakerInit
    /\ stage = [q \in Calls |-> "idle"]
    /\ attempts = [q \in Calls |-> 0]

Goto(q, s) == stage' = [stage EXCEPT ![q] = s]

\* A text goes to the guard: it passes at once, or its check is under way.
Check(q, checking, passed) ==
    \/ Bypass(q) /\ Goto(q, passed)
    \/ /\ Begin(q) \/ BeginRecovery(q) \/ BeginProbe(q)
       /\ Goto(q, checking)

\* A question is sanitized, which cannot fail, and checked.  The front ends
\* ignore an empty one.
Ask(q) ==
    /\ stage[q] \notin Waiting
    /\ Check(q, "input", "schema")
    /\ UNCHANGED attempts

\* After the check of the question comes the schema, after that of the answer
\* the reply.
Passed(q) == Goto(q, IF stage[q] = "input" THEN "schema" ELSE "answered")
Blocked(q) == Goto(q, "idle")

\* The guard's model answers: SAFE, or anything else.
Checked(q) ==
    /\ stage[q] \in {"input", "output"}
    /\ Answer(q)
    /\ Passed(q) \/ Blocked(q)
    /\ UNCHANGED attempts

\* The guard's model fails: the text passes if the circuit is open by now.
CheckFailed(q) ==
    /\ stage[q] \in {"input", "output"}
    /\ Failure(q)
    /\ IF state' = "OPEN" THEN Passed(q) ELSE Blocked(q)
    /\ UNCHANGED attempts

---------------------------------------------------------------------------
\* get_schema_snapshot(): its three calls succeed.
SchemaRead(q) ==
    /\ stage[q] = "schema"
    /\ Goto(q, "cypher")
    /\ attempts' = [attempts EXCEPT ![q] = 0]
    /\ UNCHANGED breakerVars

\* Mutant of SchemaRetried: the count starts again after the last attempt.
RetryForever(q) ==
    /\ stage[q] = "schema"
    /\ attempts' = [attempts EXCEPT ![q] = (@ + 1) % MaxAttempts]
    /\ UNCHANGED <<breakerVars, stage>>

\* Mutant of SchemaRetried: the last attempt is retried.
RetryOnceMore(q) ==
    /\ stage[q] = "schema"
    /\ attempts[q] < MaxAttempts
    /\ attempts' = [attempts EXCEPT ![q] = @ + 1]
    /\ UNCHANGED <<breakerVars, stage>>

\* One of them fails for a reason that may pass: all are tried again.
SchemaRetried(q) ==
    /\ stage[q] = "schema"
    /\ attempts[q] + 1 < MaxAttempts
    /\ attempts' = [attempts EXCEPT ![q] = @ + 1]
    /\ UNCHANGED <<breakerVars, stage>>

\* The agent translates the question into Cypher.
CypherWritten(q) ==
    /\ stage[q] = "cypher"
    /\ Goto(q, "read")
    /\ UNCHANGED <<breakerVars, attempts>>

\* The rows are read; the agent is asked for an answer.
RowsRead(q) ==
    /\ stage[q] = "read"
    /\ Goto(q, "answer")
    /\ UNCHANGED <<breakerVars, attempts>>

\* The answer is checked.
Answered(q) ==
    /\ stage[q] = "answer"
    /\ Check(q, "output", "answered")
    /\ UNCHANGED attempts

\* The last attempt at the snapshot or one with another error, an agent that
\* fails or returns no Cypher, Cypher that is wrong or writes: an error text.
Fails(q) ==
    /\ stage[q] \in {"schema", "cypher", "read", "answer"}
    /\ Goto(q, "idle")
    /\ attempts' = [attempts EXCEPT ![q] = 0]
    /\ UNCHANGED breakerVars

\* q is cancelled, in a check or anywhere else.
Abort(q) ==
    /\ stage[q] \in Waiting
    /\ Goto(q, "idle")
    /\ attempts' = [attempts EXCEPT ![q] = 0]
    /\ IF stage[q] \in {"input", "output"} THEN Cancel(q)
                                           ELSE UNCHANGED breakerVars

Clock == Tick /\ UNCHANGED engineVars

---------------------------------------------------------------------------
Proceed(q) ==
    \/ Checked(q) \/ CheckFailed(q)
    \/ SchemaRead(q) \/ SchemaRetried(q)
    \/ CypherWritten(q) \/ RowsRead(q) \/ Answered(q) \/ Fails(q)

Next ==
    \/ \E q \in Calls : Ask(q) \/ Proceed(q) \/ Abort(q)
    \/ Clock

Spec == Init /\ [][Next]_vars

\* The clients of the guard, of the models and of Neo4j end each request, with
\* an error at the latest, time passes, and questions keep coming.
FairSpec ==
    /\ Spec
    /\ WF_vars(Clock)
    /\ WF_vars(\E q \in Calls : Ask(q))
    /\ \A q \in Calls : WF_vars(Proceed(q))

---------------------------------------------------------------------------
\* Types; a query has a check in flight exactly while it awaits one, and its
\* snapshot is not tried again after the last attempt.
EngineTypeOK ==
    /\ BreakerTypeOK
    /\ stage \in [Calls -> Waiting \cup {"idle", "answered"}]
    /\ attempts \in [Calls -> 0..(MaxAttempts - 1)]
    /\ \A q \in Calls :
          /\ InFlight(q) <=> stage[q] \in {"input", "output"}
          /\ attempts[q] > 0 => stage[q] = "schema"

\* Every query returns, whatever the models and Neo4j answer and however often
\* they fail (engine.py:73-140, database.py:83-88).
QueryEnds == \A q \in Calls : stage[q] \in Waiting ~> stage[q] \notin Waiting
===========================================================================
