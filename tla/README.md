# A TLA+ verification of Nexus Graph AI

Nexus Graph AI turns documents into a knowledge graph in Neo4j and lets
agents and people query and extend it. This directory holds the TLA+ model of
its core: who may write the graph and in which order, how chunks travel from
the topic to the graph, how a question becomes an answer, and how the API and
the guards in front of it and of the models behave under load and failure. TLC
checks small instances; TLAPS proves every safety property that the passing runs
check, that the calls never deadlock, and a bound on the steps of each call, message,
query, run and request, for all values of the constants.

Paths below are relative to the repository's root.

## 1. The system

| Component | Source | State | Operations | Hard parts |
|---|---|---|---|---|
| Lock manager | `core/concurrency.py` | Redis keys `node_lock:*` with an expiry, the counter `global_fencing_token`; per call the flags `acquired…` | `acquire_node_lock`, `acquire_edge_locks` | leases end under their holder, several Redis calls per operation, each may fail, lock order |
| Graph repository | `core/database.py` | vertices and edges with `last_fencing_token` | `add_graph_data`, `clear_database`, `get_schema_snapshot`, `check_connection` | retries, transactions whose outcome is unknown, stale rows dropped in the query |
| MCP graph service | `api/mcp.py` | the same graph; the identity of the present request | `write_edge`, `read_node`, `query_subgraph`, tool dispatch | edge writers and ingest workers hold different locks |
| Ingest worker | `core/worker.py` | offsets in the topic, `processed:<hash>` keys in Redis | `consume_document_chunks` and its steps | crashes and rebalances between insert, mark and commit; one message fails, the next succeeds |
| SLM guard | `core/security_guardrails.py` | the circuit breaker's state, counters and last failure time | `check_integrity`, `record_success`, `record_failure`, `can_attempt_call` | outcomes recorded long after the state they were begun in |
| Tenant rate limiter | `api/main.py` | `rate_limit:<sub>` in Redis | `rate_limit_per_tenant` | read and count are two calls; the expiry is renewed |
| API lifecycle and health | `api/main.py` | the process's connections, the gauge `active_ai_tasks` | `lifespan`, `health_check`, `track_active_ai_tasks`, `nexus_exception_handler` | startup with a database that is down, services that are silent, requests that end in many ways, or wait for Redis without a timeout |
| MCP transport | `api/mcp.py` | open sessions, the context variable `current_token`, the driver of the tools | `mcp_sse`, `mcp_messages`, `execute_mcp_action` | tools run in tasks that outlive the request that posted the call and the connection of their session |
| Identity | `core/auth.py` | none | `verify_cryptographic_identity` | |
| Reasoning agent | `core/multi_agent.py` | `AgentState`, checkpointed in Redis; the failover breaker | `reasoning_agent`, `route_reasoning`, `route_query` | bounded iterations, failover between providers |
| Idempotency key | `core/multi_agent.py` | `nexus_idempotency:*` | `check_idempotency_key` | the key is set before the work is done |
| Inference router | `core/router.py` | `InferenceState` | edge inference, cloud fallback | timeout, low confidence |
| Ontology | `core/ontology.py` | registry of entities and relations | `resolve_*`, `validate_extraction` | aliases, constraints on both ends |
| Query engine | `core/engine.py` | the guard that its queries share | `query` | two checks around two model calls and two reads, of which each may fail |
| Document producer | `cli/ingest.py` | the buffer of the Kafka client | `ingest_document`, `delivery_report` | deliveries happen behind the loop and fail in a callback |
| Front ends | `cli/chat.py`, `cli/ask.py`, `app.py` | none | chat loop | |

How they interact. A document is split into chunks (`cli/ingest.py`) that go to
the topic `document_chunks`. An ingest worker extracts a graph from each chunk
and persists it through the graph repository inside the lock `global_ingest`;
agents write edges through the MCP service inside the locks of the two node
ids. Both take a fencing token from one counter while they hold their locks,
and every Cypher statement that sets properties compares that token with the
one on the vertex or edge. Requests of the API pass the identity check and the
rate limiter; a request to `/mcp/sse` becomes a session in which the tools run that
other requests post to it. Questions of people go through the query engine, those
of agents through the reasoning graph; in both, what is sent to a model or returned
from it passes an SLM guard that the queries or runs share.

What makes each modelled component correct:

* lock manager: no waiting in a circle, no lock left behind by a caller that
  lives, no release of somebody else's lock, tokens that order the holders of
  a lock, calls that always end;
* writers of the graph: an element never goes back to an older token, whatever
  is lost, late or repeated; a conflict is reported only when it is one; within
  its lease an ingest owns what it wrote;
* producer and ingest worker: when `ingest_document` has returned, each chunk is in
  the topic or an error was logged for it; no chunk is passed over unless its
  processing raised; a mark implies that the content is in the graph; every chunk
  of the document is eventually tried, or was reported;
* breaker: never stuck, opened only by a run of failures, closed only by a run
  of successes, recovery eventually tested;
* rate limiter: a count always expires, overshoot is bounded, lock-out ends;
* reasoning agent: turns are bounded whatever count a thread's checkpoint brings,
  every run ends, a text passes without a verdict only while the circuit is open, an
  outage of the guard's model refuses few texts, and the runs leave the breaker able to
  do its work even when they are cancelled;
* query engine: every query returns;
* API process: the autoscaler's gauge is exact whichever way a request ends, edges
  are written only in a session that an administrator opened, every request that has
  passed the limiter ends;
* ontology: resolving is idempotent, what validation keeps is
  allowed, a registration that replaces no entry takes no label from an older one (one
  that replaces an entry may: its aliases take the old place).

## 2. The modules

| Module | Models | Built on |
|---|---|---|
| `OntologyLock` | the lock manager | |
| `OntologyLockProofs` | its inductive invariant, freedom from deadlock, the bound on a call's steps | `OntologyLock`, TLAPS |
| `TokenStore` | abstract: what fencing promises of the graph | |
| `FencedGraph` | `insert_to_neo4j` + `add_graph_data` and `write_edge`, on the locks | EXTENDS `OntologyLock`, INSTANCE `TokenStore` |
| `FencedGraphProofs` | refinement of `OntologyLock` and `TokenStore`, conflicts, exclusion in calm runs, the bound on a write's steps | `FencedGraph`, `OntologyLockProofs` |
| `MCFencedGraph` | instances of it for TLC | `FencedGraph` |
| `DocumentProducer` | the producer and the topic it fills | |
| `IngestWorker`, `MCIngestWorker` | the consumer loop, behind the producer; its instances | EXTENDS `DocumentProducer` |
| `IngestWorkerProofs` | the inductive invariant of producer and workers, the bound on a message's steps | `IngestWorker`, TLAPS |
| `SLMGuardBreaker`, `SLMGuardBreakerProofs` | the breaker and the calls that share it | |
| `QueryEngine` | the queries of one engine | EXTENDS `SLMGuardBreaker` |
| `QueryEngineProofs` | refinement of `SLMGuardBreaker`, types, the bound on a query's steps | `QueryEngine`, `SLMGuardBreakerProofs` |
| `RateLimiter` | the limiter for one tenant | |
| `ApiService`, `MCApiService` | a process of the API with its requests, sessions and tools | EXTENDS `RateLimiter` |
| `ApiServiceProofs` | the theorems of the limiter; the service implements it; the gauge, the roles, the bound on a request's steps | `ApiService`, TLAPS |
| `OntologyRegistry`, `MCOntologyRegistry` | the registry and the validation pipeline; the registry the module fills | |
| `OntologyRegistryProofs` | dicts, resolution, validation, new names | `OntologyRegistry`, TLAPS |
| `ReasoningAgent` | the reasoning graph with the security pipeline around each turn | INSTANCE `SLMGuardBreaker` |
| `ReasoningAgentProofs` | refinement of `SLMGuardBreaker`, types, `OutageRefusesFew`, `UncheckedOnlyWhenOpen`, the bound on a run's steps | `ReasoningAgent`, INSTANCE `SLMGuardBreakerProofs` |

Operators whose comment starts with "Mutant of" are wrong variants of the
definition they follow. No specification uses them; each records a plausible
mistake that the property listed for it in `PROJECT.json` finds.

### OntologyLock

A *client* is one call of the lock manager with the `async with` body around
which it runs. `phase` is the position in the code: "acquire" (lines 30 and
75-79), "incr" (35, 84), "body" (the `yield`), "release" (the `finally`
clauses). `names` are the lock names in the order of acquisition, `held` how
many of the flags `acquired…` are true, `token` the token yielded. `owner` is
what Redis holds: a client stands for the random value in the key, `NoOwner`
for no key, `Orphan` for a value that no live call knows (after a crash, an
error during `acquire`, or an error in a release before it).

Time is not modelled. A lease may end at any moment (`Expire`), because nothing
in the code renews it or bounds what happens inside; this includes everything
that 10 s would allow and more. `AcquireTimeout` is enabled whenever the key is
taken. Each Redis call may fail before or after it took effect. `fresh` is a
history variable: the client owned all its locks when it took its token.

### FencedGraph

Adds the graph (`version`: vertex or edge to `last_fencing_token`), the data of
each call (`job`), the attempts of `add_graph_data` (`attempts`), the outcome a
body knows (`result`) and the transactions whose client gave them up but which
may still be applied (`late`). `Fenced` is MERGE … WHERE coalesce(token, 0) < $t SET;
`Created` is MERGE alone; `AfterBatch` and `AfterEdge` are the two transactions
in the order of their statements. Vertices are pairs of a label and an id,
because MERGE creates per label while MATCH by id finds every label.

Assumed of Neo4j: a transaction is atomic and is applied at most once per
attempt. The code relies on it (it declares no uniqueness constraint, so two
concurrent MERGEs of a new vertex could create it twice under read-committed
isolation; that is outside this model). Assumed of Redis: INCR never goes back.
Ids that equal "global_ingest" are not modelled.

### DocumentProducer and IngestWorker

The producer puts chunks into the buffer of the client library (`Produce`), which
delivers them later, to any partition and in any order (`Deliver`), perhaps twice
(`DeliverAgain`), or reports an error (`DeliveryFails`, `ProduceFails`: `reported`).
`Flush` waits for an empty buffer, as `flush()` without a timeout does. `log` is the
topic; `EarlierLogs` is what others may have sent there before.

In the worker, `phase` is the position in the loop; `committed` and `position` are
the group's state, which `Assign` resets as a new member does. A commit covers
everything polled, as `commit(asynchronous=False)` without arguments does. `failed`
is a history variable: the messages for which `except Exception` ran. `faults`
bounds the producer's faults, crashes, rebalances, expired marks and Redis or commit
errors; extraction and insertion failures are unbounded, and an insertion that
raises may have been applied. `PollPoison` is `json.loads` outside the inner `try`:
the loop ends.

### SLMGuardBreaker

One action per stretch of code between two awaits: the start of a check by the
breaker's state (`Begin`, `Bypass`, `BeginRecovery`, `BeginProbe`), and its end
(`Answer`, `Failure`, `Cancel`). `age` is the time since `last_failure_time`, in
ticks, up to the timeout; `failureCount` stops at the threshold, with which alone
it is compared. `run` is a history variable: successes, or failures, in a row.

### QueryEngine

`stage` is what a query awaits: the check of the question, the schema snapshot, the
Cypher agent, the rows, the answer agent, the check of the answer. The queries share
the breaker of one `SecurityEnforcer`. The front ends ask one question at a time; the
model lets the queries of an engine overlap, as `query` allows. `attempts` counts the
failed attempts at the snapshot, of which the retry decorator makes three.

### RateLimiter

`Pass`/`Refuse`/`PassUnchecked` are the GET, `Count`/`FailOpen` the pipeline, and
`Abandon` is the death of a process between the two.

### ApiService

A request is a member of `Requests` with a `Kind`, the route it takes. `at` is where
it stands: arrived (it waits for the GET of the limiter), in the limiter between GET
and INCR, in its handler, posting (a message waits for its session to read it), open
(a session), or closing (a session whose client has gone). All requests are of one
tenant, whose certificates may hold either role; another tenant has a key of its own.
`gauge` is `active_ai_tasks`: the middleware counts a request in before the
dependencies run and out when its response starts, which for a session is when the
event stream opens. An unidentified request is counted in and out in one step. `who`
is the role in the request's context. A tool sees that of the request that opened the
session, in whose context the session's task group runs it (`RoleOf`); the role of the
request that posts the call decides nothing. `waiting` is a health check whose three
probes have not all ended; a probe may be silent for ever, and `wait_for` ends the
check all the same. `Restart` is the end of the process at any point, and the start of
the next.

External and assumed, of mcp 1.26.0: when the client of a session goes, its streams
are closed and nothing is cancelled; `Server.run` returns when the calls of the
session have ended, and only then is the context reset (`CloseSession`,
`SessionEnds`). A call in such a session goes on to its end, or is cancelled by `run`
when the answer of another call meets the closed streams (`ToolEnds` stands for both).
A message that was posted before may still be read, or its post fails (`PostLost`).
The tools' work on the graph is `FencedGraph`; here a tool only ends.

### OntologyRegistry

A registry is a sequence of entries in the order in which a Python dict keeps them;
`Upper` stands for `str.upper`. `Register` replaces an entry in place or appends it,
`Resolve` is both `resolve_*` functions, `Validated` is `validate_extraction`, for
extractions whose nodes and relations are those of `core/schemas.py` (`Nodes`, `Rels`). The
initial registry is the one the module fills on import, entry by entry in the
instance; the actions register more. Dates, scores and descriptions, which nothing
reads, are left out. The pipeline has no caller in the repository.

### ReasoningAgent

A member of `Runs` is a thread of the LangGraph graph, with a checkpoint in Redis
and at most one invocation under way. `stage` is what the invocation awaits:
"think" is the start of `reasoning_agent`; "input" and "output" are the guard's
checks of the query and of the response; "ask" and "fallback" the two providers
in `route_query`; "judge" the semantic judge of `SpecializedGeminiEnforcer`; "verdict"
the request at the end of `route_reasoning`. `iterations` is the count in the
checkpoint: it changes only when a turn is complete, and a new query of the
thread goes on from it unless the caller's input resets it (`Invoke`; the
repository holds no caller, so both happen). `turns` is a history variable, the
turns of the present invocation. `outage`, also history, counts the texts
refused since the guard's model last answered because a check failed.

All threads share one `security_enforcer` and so one breaker: the breaker's
variables are this module's, its actions are those of `SLMGuardBreaker`, and
`GuardSpec` says that what the threads do to it is what that module allows. The
second guard, that of `router.security`, is not shared with it and appears as a
refusal before the fallback; the library breaker in front of the primary
provider appears as `Failover`, which needs no reason.

## 3. The runs

| Run | Instance | Checks |
|---|---|---|
| `lock` | 2 clients, 2 names, 3 tokens; fair | `LockTypeOK`, `OwnerKnows`, `FreshTokenOrder`, `AscendingWaits`, `OnlyHolderFrees`, `CallsReturn` |
| `graph` | a worker and an agent, 2 ids, 2 tokens, 2 attempts; fair | `GraphTypeOK`, refinement of `LockSpec` and of `Store!StoreSpec` (`FencedStore`), `CallsReturn` |
| `graph_calm` | 2 workers and an agent, 3 tokens, 2 extractions | `ExclusiveBodies`, `IngestExclusive`, `ConflictIsStale` |
| `worker` | a producer with a chunk, 2 workers, 2 partitions of which one may hold a message before, 2 faults; fair | `WorkerTypeOK`, `SentOrReported`, `OnlyFailuresAreSkipped`, `MarkedIsPersisted`, `PoisonBlocks`, `EveryChunkTried` |
| `engine` | 3 queries, thresholds 3 and 2, timeout 2 ticks, 3 attempts; fair | `EngineTypeOK`, `NeverStuck`, `TransitionsAreEarned`, `RecoveryIsTested`, `QueryEnds` |
| `api` | 2 sessions, a poster, a probe, limit 1, window 2 ticks; fair | `ApiTypeOK`, `CountExpires`, `BoundedOvershoot`, `GaugeIsExact`, `WritesAreAdmins`, `LockoutEnds`, `HandledRequestsEnd` |
| `ontology` | the default registry, 4 entities and 3 relations that collide with it, 220 extractions | `OntologyTypeOK`, `ResolvedIsFixed`, `KeptAreAllowed`, `NewNamesTakeNothing` |
| `reasoning` | 2 threads, at most 2 counted turns, thresholds 3 and 2, timeout 1 tick; fair | `ReasoningTypeOK`, `OutageRefusesFew`, refinement `GuardSpec`, `UncheckedOnlyWhenOpen`, `RunEnds` |

and four runs that show a disagreement between the code and what is said of it:

| Run | Property | What TLC finds |
|---|---|---|
| `lock_newest` | `OwnerHasNewestToken` | a caller loses its lease between `acquire()` and `incr()` and then outranks the lock's present holder (`core/concurrency.py:13`, "Guarantees strict write ordering") |
| `graph_stale` | `StaleIsReported` | even while every lease holds, rows overtaken by an agent's edge are dropped and the worker reports success; `StaleTransactionError` (`core/database.py:20`) is never raised |
| `worker_skip` | `CommittedIsPersisted` | a chunk that failed is committed with the next one (`core/worker.py:150`, "Optimized for durability") |
| `api_roles` | `WritesArePosters` | a call posted by a user to an administrator's session writes an edge: the role is that of the request that opened the session, and the token of the poster (`api/mcp.py:335`) is set where no tool reads it (`README.md:36`, "Tool execution is strictly tied to the cryptographic identity") |

Why the bounds are enough. Two clients on two names reach every pair of positions of
two calls, and so every race of one release, expiry or token against another; three
tokens allow a successor and a second call of the one that lost its lease. The proofs
carry the lock properties to any number of clients. In `FencedGraph` two tokens
suffice for one transaction to overtake another, late or not, and two attempts for one
to be applied after its own retry; `graph_calm` has two workers so that one can wait
while the other's lost transaction is still in flight. In `IngestWorker` the chunk may
go to either partition, and the other may hold the same content, so that duplicates
race, a different one, so that one commit covers two, or one that cannot be decoded;
two faults cover a crash at one step and a rebalance, a repeated delivery or an error
at another. The breaker's thresholds are small but different, so that a wrong counter
shows; three queries allow late outcomes from two states back. In `api` four requests
can all stand between GET and INCR of a limit of one; the two sessions may have
different roles and the poster may post to either, while the one closes with its tool
still running or the process ends. The registrations of `ontology` replace an entry,
take the name of an alias, share an alias with two older entries and differ in case;
its extractions have nodes that share an id and relations with an end that is missing.
Two threads of the reasoning graph are enough for one to open, test or close the
circuit while a check of the other is in flight; a bound of two turns lets a run start
below, at and above it.

Fairness. Each client's own progress (`Advance`, `Proceed`, `Step`, `End`, and `Serve`
of each request of the API) is weakly fair. In part the code bounds the waits:
`blocking_timeout=5` of the locks, the timeout of the guard's httpx client, `wait_for`
in the health check, at most five attempts of a transaction and three of a snapshot.
The rest is an assumption about the environment, which nothing in the code enforces:
no Redis client sets a `socket_timeout`, so that each call of the lock manager and of
the workers to Redis must end, with an answer or an error; so must each call to Neo4j,
Kafka and the models, and each wait of a post for its session to read, whose client
must read what it is sent or go away. `CallsReturn`, `EveryChunkTried`, `QueryEnds`,
`RunEnds` and the posts of `HandledRequestsEnd` hold under that assumption. The API's
limiter is modelled without it: `Limited`, the calls to Redis before any handler, is
not fair, nor are the bodies that clients send (`Receive`), the health check's probes,
the tools and the closing of sessions. `HandledRequestsEnd` therefore begins behind
the limiter and, for a message, when its body is there; that the same does not hold
from the arrival on is reported in section 5. The producer's steps without a fault are
fair. No fairness is assumed for failures, for expiry or for the arrival of requests,
with one exception: `RecoveryIsTested` needs texts to keep coming, since only the
start of a call can move the breaker from OPEN. Restarting a dead worker and assigning
a free partition are fair, being the duty of the deployment and of the consumer group.
The clock is fair.

Actions without effect (`EdgeLocksRefused`, `PollNothing`, `Bypass`) are kept:
they are real steps of the code, and each run checks for deadlock.

## 4. The proofs

Every invariant and action property of the passing runs is a theorem about the
specification that its run checks, or about a more general one, for any number of
actors and any values of the constants that satisfy the module's assumptions.

* **OntologyLockProofs.** The inductive invariant `LockInv` adds to the types
  what each phase implies of `names`, `held` and `token` (`CallShape`), that keys
  hold only tokens of locks their owner believes to hold, and the order of tokens.
  Without the call shapes `OwnerKnows` is not inductive: a release clears the last
  name and must not be able to meet the same name twice. From it: `LockTypeCorrect`,
  `NoLockForgotten`, `SuccessorsOutrank`, `NoCircularWait`, `NoForeignRelease`.
  `LocksDoNotDeadlock` draws the conclusion from the climbing names: of the calls that
  wait for others, the one that waits for the greatest name waits for a call that
  waits for none. That finitely many calls have such a one is `GreatestExists`, by
  least counterexample in the number of calls.
  Assumed: `LockAssumption` (names are naturals, finitely many clients).
* **FencedGraphProofs.** Every step of a writer is a step of the lock manager
  or leaves it alone (`ImplementsLockManager`), which carries `LockInv` over. With the
  type invariant - every token in the graph or in flight was issued, and
  in-transaction tokens are positive - each transaction is a `Write` of
  `TokenStore` (`GraphImplementsStore`), so that no token falls and no element
  disappears (`NoElementFallsBack`).
  `ConflictMeansStale` needs `OwnTokenUnused`: no two calls have the same token, and
  until an agent's transaction ends its token is on no element and on no
  transaction in flight. Then the agent's own MERGE cannot be what made its edge
  statement match nothing.
  The calm runs (`CalmSpec`: Redis answers, leases last, processes live) are
  behaviours of the composition (`CalmIsSpec`), so all of this holds of them. There,
  what a client believes to hold it owns (`HoldersOwn`), hence `CalmExclusion`.
  `CalmIngestExclusive` takes `IngestInv`: a worker holds the global lock from its
  INCR to the end of its body; workers write the labelled vertices and agents the
  others, also in what they left in flight; and the worker in its body has the newest
  token of all workers that wrote or may still write (`HolderNewest`), so that nothing
  that arrives late can touch what it wrote.
* **IngestWorkerProofs.** `WorkerInv`: every chunk before `next` is in the buffer,
  reported or in the topic (`ChunksAccounted`); what each phase implies of a worker's
  message (`WorkerShape`); every message that a live member has polled, except the one
  it works on, is done, that is persisted or failed (`PolledAreDone`), and so is every
  committed one (`CommittedAreDone`). The chain is circular without all of it: a
  commit covers everything polled, a duplicate may be committed because its mark is
  true, a mark is true because it is set after the insert. From it `WorkerTypeCorrect`,
  `ReturnedIsSent`, `SkippedHaveFailed`, `MarksAreTrue`, `PoisonIsNotPassed`.
* **SLMGuardBreakerProofs.** The invariant relates the counters to `run`:
  in CLOSED, `failureCount` failures were recorded in a row; in HALF_OPEN,
  `successCount` successes. From it `BreakerNeverStuck` and `BreakerTransitions`.
* **QueryEngineProofs.** Every step of the engine is a step of its breaker or leaves it
  alone (`EngineImplementsBreaker`), so `EngineNeverStuck` and `EngineTransitions`
  follow from the breaker's theorems. `EngineTypeCorrect`: a query has a call in flight
  exactly while it awaits a check.
* **ReasoningAgentProofs.** Every step of a thread is a step of the breaker or leaves
  it alone (`ImplementsGuard`). The bound on turns is not inductive by itself:
  `TurnsCounted` says that the checkpoint counts at least the complete turns of a
  run, and that a run that starts above the bound has taken none before. From
  it `ReasoningTypeCorrect`. For `OutageIsShort`: while the circuit is closed, each
  text refused since the last answer is one of the failures the breaker counts,
  so it opens before there are `FailureThreshold`. `UncheckedNeedsOpen` takes the
  breaker's own invariant, from an instance of `SLMGuardBreakerProofs` whose calls
  are the threads: in HALF_OPEN `half_open_calls` equals `success_count` and is
  below its limit, so that `Bypass` is enabled only in OPEN.
* **ApiServiceProofs.** First the limiter on its own. `RoomForCounting`: once the
  limit is reached, the requests still between GET and INCR fit under the bound; a
  process that dies only takes requests away from it. From it `OvershootIsBounded`;
  `CountsExpire`. Then the service: each of its steps is a step of the limiter or
  leaves it alone, a restart abandoning all requests that count
  (`ServiceImplementsLimiter`), so that both bounds hold of it (`ServiceKeepsLimit`).
  `GaugeFollows` is the lemma behind `GaugeCorrect`: the gauge stays exact if a
  request that enters or leaves the stages before an answer is counted in or out in
  that step. `WritersAreAdmins` needs from the types that a tool runs only in a session
  that is open or closing, and that the role of such a session does not change before
  its last tool has ended. It says nothing of who posts the calls.
* **OntologyRegistryProofs.** `Dict` says what a registry is: keys are names in upper
  case, each once. Registering keeps it (`RegisterKeepsDict`). The registry that the
  module fills is a recursive function; that it exists (`FilledExists`) and is a dict
  (`RegisteredIsDict`) is proved by least counterexample, from the well-foundedness of
  the natural numbers, since the library's induction theorems cannot be cited here.
  From it `OntologyTypeCorrect`, `ResolvingIsFinal` (what a label resolves to is a key or
  has no entry at all, `ResolveCases`), `KeptAreLegal` (`LastLabel`: the last node with
  an id is the one the constraints see) and `NewNamesAreNew` (with one more entry at
  the end the first hit stays the first, `FirstStays`). Assumed:
  `OntologyAssumption`, in particular that `upper()` is idempotent.

The safety half of liveness. A leads-to property may fail in two ways: somebody stops
where the code does not bound a wait, which is a matter of fairness, or everybody goes
on for ever without getting anywhere. The second is excluded by variants: a rank, a
natural number for each actor, which each step of that actor lowers and no step of
another raises.

| Theorem | Rank, at most | Safety half of |
| --- | --- | --- |
| `CallsAreBounded` (OntologyLock) | 7 steps of the call | `CallsReturn` |
| `WritesAreBounded` (FencedGraph) | `MaxAttempts + 7`, with the retried transaction | `CallsReturn`, with its body |
| `MessagesAreBounded` (IngestWorker) | `MaxRetries + 4`, from poll to poll | a part of `EveryChunkTried` |
| `QueriesAreBounded` (QueryEngine) | `MaxAttempts + 5` | `QueryEnds` |
| `RunsAreBounded` (ReasoningAgent) | `7 * (MaxIterations + 1)`, a turn having seven steps | `RunEnds` |
| `RequestsAreBounded` (ApiService) | 4, from the arrival on | `HandledRequestsEnd` |

Failures of the actor's own calls lower the rank as its other steps do. `RunsAreBounded`
needs `TurnsCounted`: a run begins a turn only if it has one left. For the two
timeouts the variant is a pair, since late answers restart them:
`RecoveryComesNearer` says that while the circuit is open the set of calls under way
only shrinks, and that a step which leaves that set alone does not set the clock
back, while a tick moves it on; `LockoutComesNearerItsEnd` says the same of the
requests between GET and INCR and the key's expiry. Both carry over to the
engine (`EngineRecovery`) and to the service (`ServiceLockout`) by refinement, as
freedom from deadlock does to the writers of the graph (`WritersDoNotDeadlock`).

The candidate invariants, the variants and freedom from deadlock were model-checked on
the instances of section 3 before they were proved; the variant of the breaker, which
has no run of its own, with three calls and thresholds of two. With the names taken in the
caller's order (`UnsortedPair`) TLC finds the calls deadlocked.

Only model-checked: the other half of the liveness properties (`CallsReturn`,
`EveryChunkTried`, `RecoveryIsTested`, `QueryEnds`, `LockoutEnds`, `HandledRequestsEnd`,
`RunEnds`), that a step which lowers the rank is always enabled and is taken, which rests on
ENABLED and on fairness, both out of the prover's reach. The four disagreements of
section 3 are shown by TLC's counterexamples.

## 5. Not modelled

All parts with state of their own are modelled. What is left out, and why:

* the inference router (`core/router.py`): an edge node, a condition, a cloud node;
  both models are mocks, only tests build the graph, and no state outlives a call;
* `check_idempotency_key`: one transaction of GET and SETEX (`core/multi_agent.py:85`)
  that nothing calls, so that there is no work whose repetition it could prevent;
* `clear_database`: its only caller (`cli/chat.py:24`) does not await the coroutine, so
  that it never runs;
* what `read_node` and `query_subgraph` return, and the answers of the models: data
  that no property tells apart;
* isolation inside a Neo4j transaction, see FencedGraph above;
* the library breaker in front of the primary provider and the second guard of the
  reasoning graph, which are nondeterministic choices in `Failover` and `FallbackFails`;
* configuration, tracing, error classes, the parsing of X.509, redaction by
  Presidio, deployment files and scripts: no behaviour of their own to check.

Observed while modelling and not shown by a run: two bodies run under one lock when a
lease ends under its holder, against `README.md:23`; two workers that receive the same
content at once both persist it, against `core/worker.py:88`; any number of calls test
recovery at once, since `half_open_calls` only counts successes
(`core/security_guardrails.py:118`); each counted request renews the expiry of the
tenant's key, so that a tenant whose requests come less than a window apart is refused
after the limit, however few a minute it sends, against the "simple fixed window" of
`api/main.py:54`; overlapping requests pass the limiter on the same count
(`api/main.py:59`); a thread whose checkpoint counts more than ten turns gets a single
turn for each later query, and a run may take eleven turns, since the count is
compared after the turn (`core/multi_agent.py:305`), while `README.md:16` speaks of
ten. The limiter is a dependency of every route, `/health` included, and waits for a
Redis client without a `socket_timeout` (`api/main.py:59`, `70`, `86`): when Redis
accepts connections and does not answer, every request hangs there, and so do the
health probes, before the `wait_for` of the check begins, against `README.md:48`
("3.0s timeout on all probes to prevent resource exhaustion during partial outages").
`/health` says "healthy" in a process whose startup failed and whose tools all answer
"not initialized" (`api/main.py:94`), since it does not look at their driver. The
probes of `k8s/deployment.yaml:58` send no certificate, which the dependency of every
route answers with 401; the readiness probe waits 2 s, the check 3 s, its docstring
says 2.0 s (`api/main.py:223`, `265`). A running tool is not counted by the gauge,
whose request has ended, so that the autoscaler does not see it. `write_edge` creates
its ends as DYNAMIC_NODE (`api/mcp.py:129`), which is no `AllowedNodeLabels`, so that
`read_graph_node` of such an id ends in an error (`api/mcp.py:116`). The labels that
extraction allows (`Company`, ...) are no names or aliases of the registry, so that
the validation pipeline would drop every registered relation between them
(`core/ontology.py:228`). `check_idempotency_key` sets its key before the work it
stands for.
