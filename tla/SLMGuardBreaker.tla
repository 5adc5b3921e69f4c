-------------------------- MODULE SLMGuardBreaker --------------------------
(***************************************************************************)
(* core/security_guardrails.py: SLMGuardCircuitBreaker and the calls of    *)
(* SLMGuard.check_integrity that share it.                                 *)
(*                                                                         *)
(* A call decides at its start, from the breaker's state, whether to ask   *)
(* the model; it records the outcome when the answer arrives, however the  *)
(* state has changed in between.  What runs between two awaits is one      *)
(* action.                                                                 *)
(*                                                                         *)
(* Time counts only as the age of the last failure, up to the recovery     *)
(* timeout.  failure_count is compared with the threshold only, so it      *)
(* stops counting there.                                                   *)
(***************************************************************************)
EXTENDS Integers

CONSTANTS
    Calls,              \* calls of check_integrity that may overlap
    FailureThreshold,   \* failure_threshold=5
    RecoveryTimeout,    \* recovery_timeout=60.0, in ticks
    HalfOpenMaxCalls    \* half_open_max_calls=3

ASSUME BreakerAssumption ==
    /\ FailureThreshold \in Nat \ {0}
    /\ RecoveryTimeout \in Nat \ {0}
    /\ HalfOpenMaxCalls \in Nat \ {0}

VARIABLES
    state,          \* CircuitState
    failureCount,   \* failure_count, up to FailureThreshold
    age,            \* time since last_failure_time, NoFailure if it is None
    halfOpenCalls,  \* half_open_calls
    successCount,   \* success_count
    flight,         \* call -> what it is in flight as
    run             \* history: successes in a row, or failures if negative

breakerVars == <<state, failureCount, age, halfOpenCalls, successCount, flight, run>>

NoFailure == -1

\* A call is not running, was begun while CLOSED, or as a test of recovery.
Flights == {"idle", "regular", "probe"}

InFlight(c) == flight[c] # "idle"

---------------------------------------------------------------------------
BreakerInit ==
    /\ state = "CLOSED"
    /\ failureCount = 0
    /\ age = NoFailure
    /\ halfOpenCalls = 0
    /\ successCount = 0
    /\ flight = [c \in Calls |-> "idle"]
    /\ run = 0

Fly(c, f) == flight' = [flight EXCEPT ![c] = f]

\* can_attempt_call() in CLOSED.
Begin(c) ==
    /\ flight[c] = "idle"
    /\ state = "CLOSED"
    /\ Fly(c, "regular")
    /\ UNCHANGED <<state, failureCount, age, halfOpenCalls, successCount, run>>

\* Whether can_attempt_call() leads to a request: always in CLOSED, in OPEN
\* when recovery_timeout is over, in HALF_OPEN below its limit.
Asks ==
    \/ state = "CLOSED"
    \/ state = "OPEN" /\ age = RecoveryTimeout
    \/ state = "HALF_OPEN" /\ halfOpenCalls < HalfOpenMaxCalls

\* Mutant of Bypass: every bypassed call restarts the timeout.
BypassRestarts(c) ==
    /\ flight[c] = "idle"
    /\ ~Asks
    /\ age' = 0
    /\ UNCHANGED <<state, failureCount, halfOpenCalls, successCount, flight, run>>

\* The call is skipped, or the circuit is open: the text passes unchecked.
Bypass(c) ==
    /\ flight[c] = "idle"
    /\ ~Asks
    /\ UNCHANGED breakerVars

\* Mutant of BeginRecovery: the counters of the last recovery are kept.
RecoveryKeepsCounts(c) ==
    /\ flight[c] = "idle"
    /\ state = "OPEN"
    /\ age = RecoveryTimeout
    /\ state' = "HALF_OPEN"
    /\ Fly(c, "probe")
    /\ UNCHANGED <<failureCount, age, halfOpenCalls, successCount, run>>

\* In OPEN, after it: _transition_to_half_open().
BeginRecovery(c) ==
    /\ flight[c] = "idle"
    /\ state = "OPEN"
    /\ age = RecoveryTimeout
    /\ state' = "HALF_OPEN"
    /\ halfOpenCalls' = 0
    /\ successCount' = 0
    /\ Fly(c, "probe")
    /\ UNCHANGED <<failureCount, age, run>>

\* In HALF_OPEN, while half_open_calls is below its limit.
BeginProbe(c) ==
    /\ flight[c] = "idle"
    /\ state = "HALF_OPEN"
    /\ halfOpenCalls < HalfOpenMaxCalls
    /\ Fly(c, "probe")
    /\ UNCHANGED <<state, failureCount, age, halfOpenCalls, successCount, run>>

Longer(up) ==
    run' = IF up THEN (IF run < 0 THEN 1
                       ELSE IF run < HalfOpenMaxCalls THEN run + 1 ELSE run)
                 ELSE (IF run > 0 THEN -1
                       ELSE IF -run < FailureThreshold THEN run - 1 ELSE run)

\* record_success(), by state.
SuccessWhenClosed ==
    /\ state = "CLOSED"
    /\ failureCount' = 0
    /\ UNCHANGED <<state, halfOpenCalls, successCount>>

\* Mutant of SuccessWhenHalfOpen: closing does not reset failure_count.
ClosesWithFailures ==
    /\ state = "HALF_OPEN"
    /\ UNCHANGED failureCount
    /\ IF successCount + 1 >= HalfOpenMaxCalls
         THEN state' = "CLOSED" /\ halfOpenCalls' = 0 /\ successCount' = 0
         ELSE /\ halfOpenCalls' = halfOpenCalls + 1
              /\ successCount' = successCount + 1
              /\ UNCHANGED state

SuccessWhenHalfOpen ==
    /\ state = "HALF_OPEN"
    /\ IF successCount + 1 >= HalfOpenMaxCalls
         THEN /\ state' = "CLOSED"
              /\ failureCount' = 0
              /\ halfOpenCalls' = 0
              /\ successCount' = 0
         ELSE /\ halfOpenCalls' = halfOpenCalls + 1
              /\ successCount' = successCount + 1
              /\ UNCHANGED <<state, failureCount>>

SuccessWhenOpen ==
    /\ state = "OPEN"
    /\ UNCHANGED <<state, failureCount, halfOpenCalls, successCount>>

\* The model answers c, SAFE or not.
Answer(c) ==
    /\ InFlight(c)
    /\ SuccessWhenClosed \/ SuccessWhenHalfOpen \/ SuccessWhenOpen
    /\ Longer(TRUE)
    /\ Fly(c, "idle")
    /\ UNCHANGED age

OneMore == IF failureCount < FailureThreshold THEN failureCount + 1
                                              ELSE failureCount

\* record_failure(): c's request failed.
Failure(c) ==
    /\ InFlight(c)
    /\ failureCount' = OneMore
    /\ age' = 0
    /\ state' = IF \/ state = "HALF_OPEN"
                   \/ state = "CLOSED" /\ OneMore >= FailureThreshold
                THEN "OPEN" ELSE state
    /\ Longer(FALSE)
    /\ Fly(c, "idle")
    /\ UNCHANGED <<halfOpenCalls, successCount>>

\* c is cancelled while it waits: CancelledError is no Exception, so nothing
\* is recorded.
Cancel(c) ==
    /\ InFlight(c)
    /\ Fly(c, "idle")
    /\ UNCHANGED <<state, failureCount, age, halfOpenCalls, successCount, run>>

Tick ==
    /\ age # NoFailure
    /\ age < RecoveryTimeout
    /\ age' = age + 1
    /\ UNCHANGED <<state, failureCount, halfOpenCalls, successCount, flight, run>>

---------------------------------------------------------------------------
Enter(c) == Begin(c) \/ Bypass(c) \/ BeginRecovery(c) \/ BeginProbe(c)
End(c) == Answer(c) \/ Failure(c) \/ Cancel(c)

BreakerNext == (\E c \in Calls : Enter(c) \/ End(c)) \/ Tick

BreakerSpec == BreakerInit /\ [][BreakerNext]_breakerVars

---------------------------------------------------------------------------
BreakerTypeOK ==
    /\ state \in {"CLOSED", "OPEN", "HALF_OPEN"}
    /\ failureCount \in 0..FailureThreshold
    /\ age \in NoFailure..RecoveryTimeout
    /\ halfOpenCalls \in 0..HalfOpenMaxCalls
    /\ successCount \in 0..HalfOpenMaxCalls
    /\ flight \in [Calls -> Flights]
    /\ run \in -FailureThreshold..HalfOpenMaxCalls

\* The breaker can always leave its state: CLOSED has room for another
\* failure, OPEN knows when it opened, and HALF_OPEN still admits a call, so
\* that the branch that skips calls is never taken (lines 106-119).
NeverStuck ==
    /\ (state = "CLOSED") => failureCount < FailureThreshold
    /\ (state = "OPEN") => age # NoFailure
    /\ (state = "HALF_OPEN") => /\ halfOpenCalls = successCount
                                /\ halfOpenCalls < HalfOpenMaxCalls

\* The circuit opens from CLOSED only after FailureThreshold failures in a
\* row and closes only after HalfOpenMaxCalls successes in a row, whichever
\* calls report them and however late (lines 46-77).
TransitionsAreEarned ==
    [][/\ (state = "CLOSED" /\ state' # "CLOSED") => run' = -FailureThreshold
       /\ (state # "CLOSED" /\ state' = "CLOSED") => run' = HalfOpenMaxCalls]_breakerVars

\* Texts do not pass unchecked for ever: an open circuit goes on to test
\* recovery, although late failures restart its timeout (lines 109-114).
RecoveryIsTested == state = "OPEN" ~> state # "OPEN"
===========================================================================
