---------------------------- MODULE RateLimiter ----------------------------
(***************************************************************************)
(* api/main.py: rate_limit_per_tenant, for one tenant: the requests of all *)
(* API processes share the key rate_limit:<sub> in Redis.                  *)
(*                                                                         *)
(* A request reads the key in one call and counts itself in a second one   *)
(* (a pipeline, which Redis runs as one transaction), so that others come  *)
(* in between.  An error of Redis lets the request through.                *)
(***************************************************************************)
EXTENDS Integers, FiniteSets

CONSTANTS
    Requests,   \* requests of the tenant that may overlap
    Limit,      \* limit = 100
    Window      \* window = 60, in ticks

ASSUME LimiterAssumption ==
    /\ IsFiniteSet(Requests)
    /\ Limit \in Nat \ {0}
    /\ Window \in Nat \ {0}

VARIABLES
    count,      \* the key's value, 0 if it does not exist
    ttl,        \* ticks until the key expires, 0 if it does not exist
    phase       \* request -> "idle" or "counting", between GET and INCR

limiterVars == <<count, ttl, phase>>

Counting == {r \in Requests : phase[r] = "counting"}

---------------------------------------------------------------------------
LimiterInit ==
    /\ count = 0
    /\ ttl = 0
    /\ phase = [r \in Requests |-> "idle"]

\* Mutant of Pass: the limit itself passes.
PassAtLimit(r) ==
    /\ phase[r] = "idle"
    /\ count <= Limit
    /\ phase' = [phase EXCEPT ![r] = "counting"]
    /\ UNCHANGED <<count, ttl>>

\* GET finds fewer than limit.
Pass(r) ==
    /\ phase[r] = "idle"
    /\ count < Limit
    /\ phase' = [phase EXCEPT ![r] = "counting"]
    /\ UNCHANGED <<count, ttl>>

\* Mutant of Refuse: a refused request extends the window.
RefuseExtends(r) ==
    /\ phase[r] = "idle"
    /\ count >= Limit
    /\ ttl' = Window
    /\ UNCHANGED <<count, phase>>

\* GET finds limit or more: RateLimitExceededError.
Refuse(r) ==
    /\ phase[r] = "idle"
    /\ count >= Limit
    /\ UNCHANGED limiterVars

\* GET fails: the request goes on uncounted, whatever the count is.
PassUnchecked(r) ==
    /\ phase[r] = "idle"
    /\ UNCHANGED limiterVars

Done(r) == phase' = [phase EXCEPT ![r] = "idle"]

\* Mutant of Counted: two calls instead of one pipeline, the second may fail.
CountedMaybeExpires ==
    /\ count' = count + 1
    /\ ttl' \in {ttl, Window}

\* INCR and EXPIRE: the window starts again with every request counted.
Counted ==
    /\ count' = count + 1
    /\ ttl' = Window

Count(r) ==
    /\ phase[r] = "counting"
    /\ Counted
    /\ Done(r)

\* The pipeline fails: the request goes on, counted or not.
FailOpen(r) ==
    /\ phase[r] = "counting"
    /\ UNCHANGED <<count, ttl>> \/ Counted
    /\ Done(r)

\* The requests of a process that ends are neither counted nor answered.
Abandon(R) ==
    /\ R \subseteq Counting
    /\ phase' = [r \in Requests |-> IF r \in R THEN "idle" ELSE phase[r]]
    /\ UNCHANGED <<count, ttl>>

\* A tick of the clock; Redis deletes the key when its time is over.
Tick ==
    /\ ttl' = IF ttl > 0 THEN ttl - 1 ELSE 0
    /\ count' = IF ttl > 1 THEN count ELSE 0
    /\ UNCHANGED phase

---------------------------------------------------------------------------
Arrive(r) == Pass(r) \/ Refuse(r) \/ PassUnchecked(r)
Proceed(r) == Count(r) \/ FailOpen(r)

LimiterNext ==
    \/ \E r \in Requests : Arrive(r) \/ Proceed(r)
    \/ \E R \in SUBSET Requests : Abandon(R)
    \/ Tick

LimiterSpec == LimiterInit /\ [][LimiterNext]_limiterVars

---------------------------------------------------------------------------
LimiterTypeOK ==
    /\ count \in Nat
    /\ ttl \in 0..Window
    /\ phase \in [Requests -> {"idle", "counting"}]

\* A count always has an end: no tenant is locked out by a key without expiry
\* (lines 67-70).
CountExpires == count > 0 <=> ttl > 0

\* However many requests are between their GET and their INCR, the count
\* passes the limit by less than the number of requests that overlap
\* (lines 59-70).
BoundedOvershoot == count < Limit + Cardinality(Requests)

\* A tenant that has reached the limit is let in again, however often it
\* tries in the meantime: refused requests do not extend the window
\* (lines 60-65).
LockoutEnds == count >= Limit ~> count < Limit
===========================================================================
