--------------------------- MODULE OntologyLock ---------------------------
(***************************************************************************)
(* core/concurrency.py: OntologyLockManager, the distributed lock manager  *)
(* that serialises the writers of the graph.                               *)
(*                                                                         *)
(* A client is one call of acquire_node_lock or acquire_edge_locks, with   *)
(* the `async with` body it wraps.  A lock is one Redis key holding a      *)
(* random token and an expiry (redis.lock(name, timeout=10,                *)
(* blocking_timeout=5)); the fencing tokens come from INCR on one key.     *)
(*                                                                         *)
(* Time is not modelled: a lease may run out at any moment, since nothing  *)
(* in the code renews it or bounds the time spent holding it.  Every call  *)
(* to Redis may fail before or after it took effect, and a client's        *)
(* process may die between any two calls.                                  *)
(***************************************************************************)
EXTENDS Integers, Sequences, FiniteSets

CONSTANTS
    Clients,     \* concurrent calls of the lock manager, in all processes
    LockNames,   \* lock names, as naturals: < is the lexicographic order
    NoOwner,     \* the key of a lock does not exist
    Orphan,      \* the key holds a token that no live call knows
    MaxToken     \* bound: no call starts that could take a token above it

ASSUME LockAssumption ==
    /\ LockNames \subseteq Nat
    /\ IsFiniteSet(Clients)
    /\ NoOwner \notin Clients
    /\ Orphan \notin Clients
    /\ NoOwner # Orphan
    /\ MaxToken \in Nat

VARIABLES
    owner,    \* lock name -> the client whose token its key holds
    counter,  \* the Redis key global_fencing_token
    phase,    \* client -> where its call stands
    names,    \* client -> the lock names it acquires, in order
    held,     \* client -> how many of them it believes it holds
    token,    \* client -> the fencing token yielded to its body, 0 if none
    fresh     \* history: client -> it owned all its locks at its INCR

lockVars == <<owner, counter, phase, names, held, token, fresh>>

Phases == {"idle", "acquire", "incr", "body", "release"}

NameSeqs == {<<n>> : n \in LockNames}
            \cup {<<m, n>> : m \in LockNames, n \in LockNames}

---------------------------------------------------------------------------
\* The locks a client believes it holds.
Held(c) == {names[c][i] : i \in 1..held[c]}

\* The lock name a client in phase "acquire" tries next.
Wanted(c) == names[c][held[c] + 1]

\* The calls that may still take a fencing token.
Pending == {c \in Clients : phase[c] \in {"acquire", "incr"}}

\* The owners left when c stops existing: the keys keep c's token, which
\* nobody knows any more, until they expire.
Abandoned(c) ==
    [n \in LockNames |-> IF owner[n] = c THEN Orphan ELSE owner[n]]

---------------------------------------------------------------------------
LockInit ==
    /\ owner = [n \in LockNames |-> NoOwner]
    /\ counter = 0
    /\ phase = [c \in Clients |-> "idle"]
    /\ names = [c \in Clients |-> <<>>]
    /\ held = [c \in Clients |-> 0]
    /\ token = [c \in Clients |-> 0]
    /\ fresh = [c \in Clients |-> FALSE]

Start(c, ns) ==
    /\ phase[c] = "idle"
    /\ counter + Cardinality(Pending) < MaxToken
    /\ phase' = [phase EXCEPT ![c] = "acquire"]
    /\ names' = [names EXCEPT ![c] = ns]
    /\ UNCHANGED <<owner, counter, held, token, fresh>>

\* acquire_node_lock(n)
NodeLock(c, n) == Start(c, <<n>>)

\* Mutant of Sorted: the locks are taken in the caller's order.
UnsortedPair(s, t) == <<s, t>>

\* sorted([source_id, target_id])
Sorted(s, t) == IF s < t THEN <<s, t>> ELSE <<t, s>>

\* acquire_edge_locks(s, t)
EdgeLocks(c, s, t) == s # t /\ Start(c, Sorted(s, t))

\* acquire_edge_locks(s, s) raises ValueError before it touches Redis.
EdgeLocksRefused(c) == phase[c] = "idle" /\ UNCHANGED lockVars

\* Mutant of Acquire: SET without NX.
AcquireTaken(c) ==
    /\ phase[c] = "acquire"
    /\ owner' = [owner EXCEPT ![Wanted(c)] = c]
    /\ held' = [held EXCEPT ![c] = @ + 1]
    /\ phase' = [phase EXCEPT
                   ![c] = IF held[c] + 1 = Len(names[c]) THEN "incr" ELSE @]
    /\ UNCHANGED <<counter, names, token, fresh>>

\* lock.acquire(): SET NX PX found no key.
Acquire(c) ==
    /\ phase[c] = "acquire"
    /\ owner[Wanted(c)] = NoOwner
    /\ owner' = [owner EXCEPT ![Wanted(c)] = c]
    /\ held' = [held EXCEPT ![c] = @ + 1]
    /\ phase' = [phase EXCEPT
                   ![c] = IF held[c] + 1 = Len(names[c]) THEN "incr" ELSE @]
    /\ UNCHANGED <<counter, names, token, fresh>>

\* Mutant of AcquireTimeout: no blocking_timeout.
WaitForEver(c) == phase[c] = "acquire" /\ FALSE

\* The last try within blocking_timeout found the key taken: TimeoutError.
AcquireTimeout(c) ==
    /\ phase[c] = "acquire"
    /\ owner[Wanted(c)] # NoOwner
    /\ phase' = [phase EXCEPT ![c] = "release"]
    /\ UNCHANGED <<owner, counter, names, held, token, fresh>>

\* Redis fails during lock.acquire(): `acquired` stays False, so a key that
\* was set all the same is never released.
AcquireError(c) ==
    /\ phase[c] = "acquire"
    /\ \/ UNCHANGED owner
       \/ /\ owner[Wanted(c)] = NoOwner
          /\ owner' = [owner EXCEPT ![Wanted(c)] = Orphan]
    /\ phase' = [phase EXCEPT ![c] = "release"]
    /\ UNCHANGED <<counter, names, held, token, fresh>>

\* Mutant of IssueToken: GET and add one, without writing it back.
PeekToken(c) ==
    /\ phase[c] = "incr"
    /\ token' = [token EXCEPT ![c] = counter + 1]
    /\ fresh' = [fresh EXCEPT ![c] = \A n \in Held(c) : owner[n] = c]
    /\ phase' = [phase EXCEPT ![c] = "body"]
    /\ UNCHANGED <<owner, counter, names, held>>

\* redis.incr("global_fencing_token"), then the body runs with the result.
IssueToken(c) ==
    /\ phase[c] = "incr"
    /\ counter' = counter + 1
    /\ token' = [token EXCEPT ![c] = counter + 1]
    /\ fresh' = [fresh EXCEPT ![c] = \A n \in Held(c) : owner[n] = c]
    /\ phase' = [phase EXCEPT ![c] = "body"]
    /\ UNCHANGED <<owner, names, held>>

\* Redis fails during the INCR, which may have been applied.
IssueTokenError(c) ==
    /\ phase[c] = "incr"
    /\ counter' \in {counter, counter + 1}
    /\ phase' = [phase EXCEPT ![c] = "release"]
    /\ UNCHANGED <<owner, names, held, token, fresh>>

\* The body ends, normally or with an exception: the finally clause starts.
LeaveBody(c) ==
    /\ phase[c] = "body"
    /\ phase' = [phase EXCEPT ![c] = "release"]
    /\ UNCHANGED <<owner, counter, names, held, token, fresh>>

\* Mutants of Release: in the order of acquisition; without the check of the
\* key's token; for every name, acquired or not.
ReleaseForward(c) ==
    /\ phase[c] = "release"
    /\ held[c] > 0
    /\ owner' = [owner EXCEPT ![names[c][Len(names[c]) - held[c] + 1]] =
                   IF @ = c THEN NoOwner ELSE @]
    /\ held' = [held EXCEPT ![c] = @ - 1]
    /\ UNCHANGED <<counter, phase, names, token, fresh>>

ReleaseAnyOwner(c) ==
    /\ phase[c] = "release"
    /\ held[c] > 0
    /\ owner' = [owner EXCEPT ![names[c][held[c]]] = NoOwner]
    /\ held' = [held EXCEPT ![c] = @ - 1]
    /\ UNCHANGED <<counter, phase, names, token, fresh>>

ReleaseAll(c) ==
    /\ phase[c] = "release"
    /\ held[c] > 0
    /\ owner' = [n \in LockNames |-> IF owner[n] = c THEN NoOwner ELSE owner[n]]
    /\ held' = [held EXCEPT ![c] = @ - Len(names[c])]
    /\ UNCHANGED <<counter, phase, names, token, fresh>>

\* lock.release() of the last lock still held: the script deletes the key if
\* it holds this call's token; otherwise LockError is logged and dropped.
Release(c) ==
    /\ phase[c] = "release"
    /\ held[c] > 0
    /\ owner' = [owner EXCEPT ![names[c][held[c]]] =
                   IF @ = c THEN NoOwner ELSE @]
    /\ held' = [held EXCEPT ![c] = @ - 1]
    /\ UNCHANGED <<counter, phase, names, token, fresh>>

\* The call is over and its handles are gone.
Forget(c) ==
    /\ phase' = [phase EXCEPT ![c] = "idle"]
    /\ names' = [names EXCEPT ![c] = <<>>]
    /\ held' = [held EXCEPT ![c] = 0]
    /\ token' = [token EXCEPT ![c] = 0]
    /\ fresh' = [fresh EXCEPT ![c] = FALSE]

\* lock.release() raises something else than LockError (a lost connection):
\* the key may be gone or not, and a lock acquired before it is not released.
ReleaseError(c) ==
    /\ phase[c] = "release"
    /\ held[c] > 0
    /\ LET last == names[c][held[c]]
       IN  \/ owner' = Abandoned(c)
           \/ /\ owner[last] = c
              /\ owner' = [Abandoned(c) EXCEPT ![last] = NoOwner]
    /\ Forget(c)
    /\ UNCHANGED counter

Return(c) ==
    /\ phase[c] = "release"
    /\ held[c] = 0
    /\ Forget(c)
    /\ UNCHANGED <<owner, counter>>

\* The process of c dies.
Crash(c) ==
    /\ phase[c] # "idle"
    /\ owner' = Abandoned(c)
    /\ Forget(c)
    /\ UNCHANGED counter

\* The lease on n runs out: Redis deletes the key.
Expire(n) ==
    /\ owner[n] # NoOwner
    /\ owner' = [owner EXCEPT ![n] = NoOwner]
    /\ UNCHANGED <<counter, phase, names, held, token, fresh>>

---------------------------------------------------------------------------
Request(c) ==
    \/ \E n \in LockNames : NodeLock(c, n)
    \/ \E s, t \in LockNames : EdgeLocks(c, s, t)
    \/ EdgeLocksRefused(c)

\* What a call in progress does when nothing fails.
Advance(c) ==
    \/ Acquire(c)
    \/ AcquireTimeout(c)
    \/ IssueToken(c)
    \/ LeaveBody(c)
    \/ Release(c)
    \/ Return(c)

Fail(c) ==
    \/ AcquireError(c)
    \/ IssueTokenError(c)
    \/ ReleaseError(c)
    \/ Crash(c)

LockNext ==
    \/ \E c \in Clients : Request(c) \/ Advance(c) \/ Fail(c)
    \/ \E n \in LockNames : Expire(n)

LockSpec == LockInit /\ [][LockNext]_lockVars

\* blocking_timeout and the deadlines of the body's own calls: a call that
\* can advance does.
LockFairness == \A c \in Clients : WF_lockVars(Advance(c))

FairLockSpec == LockSpec /\ LockFairness

---------------------------------------------------------------------------
\* Types, and how the parts of a call's state go with its phase.
LockTypeOK ==
    /\ owner \in [LockNames -> Clients \cup {NoOwner, Orphan}]
    /\ counter \in Nat
    /\ phase \in [Clients -> Phases]
    /\ names \in [Clients -> NameSeqs \cup {<<>>}]
    /\ held \in [Clients -> 0..2]
    /\ token \in [Clients -> Nat]
    /\ fresh \in [Clients -> BOOLEAN]

\* A key that holds a call's token is one that the call knows it acquired
\* and will release: no lock is left to its expiry while its owner lives
\* (concurrency.py:71-102, the flags acquired_lock1 and acquired_lock2).
OwnerKnows ==
    \A n \in LockNames, c \in Clients : owner[n] = c => n \in Held(c)

\* If c waits for a lock held by d, and d itself waits, then d waits for a
\* later name: along any chain of waiting calls the names climb, so no set
\* of calls wait for each other (concurrency.py:62-65).
AscendingWaits ==
    \A c, d \in Clients :
        /\ phase[c] = "acquire"
        /\ phase[d] = "acquire"
        /\ owner[Wanted(c)] = d
        => Wanted(c) < Wanted(d)

\* While a call holds its lock and runs its body, its token is above that of
\* every other body that took its token while holding the same lock: what
\* such a predecessor, its lease lost, still sends is older than what the
\* holder sends (concurrency.py:34-38, 83-86).
FreshTokenOrder ==
    \A c, d \in Clients : \A n \in Held(c) \cap Held(d) :
        /\ c # d
        /\ phase[c] = "body" /\ owner[n] = c
        /\ phase[d] = "body" /\ fresh[d]
        => token[d] < token[c]

\* At most one body at a time runs on behalf of a lock (README.md:23).
ExclusiveBodies ==
    \A c, d \in Clients :
        /\ c # d
        /\ phase[c] = "body" /\ phase[d] = "body"
        => Held(c) \cap Held(d) = {}

\* The body of a lock's present holder has the newest token of the bodies
\* run for that lock, so that fencing favours the holder.
OwnerHasNewestToken ==
    \A c, d \in Clients : \A n \in Held(c) \cap Held(d) :
        phase[c] = "body" /\ owner[n] = c /\ phase[d] = "body"
        => token[d] <= token[c]

\* A call loses a lock only by a step of its own that gives it up, or by the
\* expiry of the lease: nobody's release deletes the key of another holder
\* (concurrency.py:42-47, 90-102, release() against an expired lease).
OnlyHolderFrees ==
    [][\A n \in LockNames, c \in Clients :
          owner[n] = c /\ owner'[n] # c
          => held'[c] < held[c] \/ UNCHANGED <<phase, held>>]_lockVars

\* Every call ends, whatever the others do with the locks: nobody waits for
\* ever (blocking_timeout, concurrency.py:26, 68-69).
CallsReturn == \A c \in Clients : phase[c] # "idle" ~> phase[c] = "idle"
===========================================================================
