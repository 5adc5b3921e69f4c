---------------------------- MODULE FencedGraph ----------------------------
(***************************************************************************)
(* The writers of the graph, on top of the lock manager: the ingest        *)
(* workers (core/worker.py insert_to_neo4j, core/database.py               *)
(* add_graph_data) and the agents' edge writes (api/mcp.py write_edge).    *)
(*                                                                         *)
(* A worker persists an extraction in one transaction under the lock       *)
(* "global_ingest"; an agent writes an edge in one transaction under the   *)
(* locks of its two node ids.  So workers exclude each other, agents that  *)
(* share a node exclude each other, and a worker and an agent do not.      *)
(*                                                                         *)
(* Neo4j is external.  A transaction is atomic; one whose answer is lost   *)
(* may have been applied, or may be applied later, even after its client   *)
(* died.  Of a vertex or edge only last_fencing_token is kept: it decides  *)
(* which write wins.  Left out: property values; edge types, each of which *)
(* behaves like the one modelled; the `Check` vertex each ingest attempt   *)
(* creates, which has no id and so is matched by no other query.           *)
(***************************************************************************)
EXTENDS OntologyLock

CONSTANTS
    Workers,        \* the clients that are ingest workers; the rest are agents
    GlobalIngest,   \* the lock name "global_ingest"
    Labels,         \* AllowedNodeLabels
    Dynamic,        \* the label DYNAMIC_NODE
    Extractions,    \* what the extraction agent may return for a chunk
    MaxAttempts     \* stop_after_attempt(5)

Agents == Clients \ Workers
Ids == LockNames \ {GlobalIngest}
Vertices == (Labels \cup {Dynamic}) \X Ids
Edges == Vertices \X Vertices

\* GraphExtraction: a node has one of the labels; nothing makes a relationship
\* name nodes of the same extraction.
GraphExtractions == [nodes : SUBSET (Labels \X Ids), pairs : SUBSET (Ids \X Ids)]

NoJob == [nodes |-> {}, pairs |-> {}]

ASSUME GraphAssumption ==
    /\ Workers \subseteq Clients
    /\ GlobalIngest \in LockNames
    /\ Vertices \cap Edges = {}
    /\ Dynamic \notin Labels
    /\ Extractions \subseteq GraphExtractions
    /\ MaxAttempts \in Nat \ {0}

VARIABLES
    version,    \* vertex or edge -> its last_fencing_token
    job,        \* client -> the vertices and edges its call writes
    attempts,   \* worker -> attempts of add_graph_data so far
    result,     \* client -> how its transaction ended, as its body knows it
    late        \* transactions given up by their client, still in flight

graphVars == <<version, job, attempts, result, late>>
vars == <<lockVars, graphVars>>

Store == INSTANCE TokenStore
           WITH Elements <- Vertices \cup Edges

---------------------------------------------------------------------------
\* The transactions.

Later(a, b) == IF a < b THEN b ELSE a

\* MATCH (n {id: i}): any label.
Matches(ver, i) ==
    {v \in Vertices : v[2] = i /\ ver[v] # Store!Absent}

\* The edges between the matches of the two ids of a pair.
MatchedEdges(ver, pairs) ==
    UNION {Matches(ver, p[1]) \X Matches(ver, p[2]) : p \in pairs}

\* Mutant of Fenced: SET without the WHERE.
Unguarded(ver, S, t) ==
    [e \in Vertices \cup Edges |-> IF e \in S THEN t ELSE ver[e]]

\* MERGE each element, SET what is older than t.
Fenced(ver, S, t) ==
    [e \in Vertices \cup Edges |->
        IF e \in S THEN Later(ver[e], t) ELSE ver[e]]

\* MERGE without SET.
Created(ver, S) ==
    [e \in Vertices \cup Edges |->
        IF e \in S /\ ver[e] = Store!Absent THEN Store!Unfenced ELSE ver[e]]

\* _execute_batch_unwind(nodes, rels, t): first all nodes, then all rels.
AfterBatch(x, t) ==
    LET ver == Fenced(version, x.nodes, t)
    IN  Fenced(ver, MatchedEdges(ver, x.pairs), t)

\* _execute_edge_mutation(t)
AfterEdge(x, t) ==
    LET ver == Created(version, x.nodes)
    IN  Fenced(ver, MatchedEdges(ver, x.pairs), t)

\* Mutant of EdgeRecord: a conflict as soon as one edge is newer.
AllEdgesOlder(x, t) ==
    LET ver == Created(version, x.nodes)
    IN  \A e \in MatchedEdges(ver, x.pairs) : ver[e] < t

\* RETURN r: is there an edge that the mutation updated?
EdgeRecord(x, t) ==
    LET ver == Created(version, x.nodes)
    IN  \E e \in MatchedEdges(ver, x.pairs) : ver[e] < t

After(c, x, t) ==
    IF c \in Workers THEN AfterBatch(x, t) ELSE AfterEdge(x, t)

---------------------------------------------------------------------------
Init ==
    /\ LockInit
    /\ Store!StoreInit
    /\ job = [c \in Clients |-> NoJob]
    /\ attempts = [c \in Clients |-> 0]
    /\ result = [c \in Clients |-> "none"]
    /\ late = {}

\* Mutant of Ingest: the lock of some node instead of the global one.
IngestUnderNode(w, x) ==
    /\ \E n \in Ids : NodeLock(w, n)
    /\ job' = [job EXCEPT ![w] = x]
    /\ UNCHANGED <<version, attempts, result, late>>

\* insert_to_neo4j(x)
Ingest(w, x) ==
    /\ NodeLock(w, GlobalIngest)
    /\ job' = [job EXCEPT ![w] = x]
    /\ UNCHANGED <<version, attempts, result, late>>

\* execute_mcp_action calls write_edge(s, t), with its MERGE of both nodes and
\* of the edge, for an admin whose arguments are valid.  Refused calls, and the
\* tools that read, change nothing.
WriteEdge(a, s, t) ==
    /\ EdgeLocks(a, s, t)
    /\ job' = [job EXCEPT ![a] =
                 [nodes |-> {<<Dynamic, s>>, <<Dynamic, t>>},
                  pairs |-> {<<s, t>>}]]
    /\ UNCHANGED <<version, attempts, result, late>>

\* The lock manager works for c, and Redis answers.
LockStep(c) ==
    /\ \/ EdgeLocksRefused(c) /\ c \in Agents
       \/ Acquire(c)
       \/ AcquireTimeout(c)
       \/ IssueToken(c)
       \/ Release(c)
    /\ UNCHANGED graphVars

LockFailure(c) ==
    /\ AcquireError(c) \/ IssueTokenError(c)
    /\ UNCHANGED graphVars

InTransaction(c) == phase[c] = "body" /\ result[c] = "none"

End(c, r) == result' = [result EXCEPT ![c] = r]

\* A worker's transaction commits.  Its rows that were too old are dropped,
\* and the worker cannot tell.
Persist(w) ==
    /\ w \in Workers
    /\ InTransaction(w)
    /\ version' = AfterBatch(job[w], token[w])
    /\ End(w, "ok")
    /\ UNCHANGED <<lockVars, job, attempts, late>>

\* An agent's transaction commits; no record means ConflictError.
Mutate(a) ==
    /\ a \in Agents
    /\ InTransaction(a)
    /\ version' = AfterEdge(job[a], token[a])
    /\ End(a, IF EdgeRecord(job[a], token[a]) THEN "ok" ELSE "conflict")
    /\ UNCHANGED <<lockVars, job, attempts, late>>

\* c's transaction leaves c's hands: it has no effect, or will be applied.
Lose(c) ==
    late' \in {late, late \cup {[by |-> c, job |-> job[c], token |-> token[c]]}}

\* Mutants of Retry: one attempt too many; attempts not counted.
RetryOnceMore(w) ==
    /\ w \in Workers
    /\ InTransaction(w)
    /\ attempts[w] < MaxAttempts
    /\ attempts' = [attempts EXCEPT ![w] = @ + 1]
    /\ Lose(w)
    /\ UNCHANGED <<lockVars, version, job, result>>

RetryForEver(w) ==
    /\ w \in Workers
    /\ InTransaction(w)
    /\ UNCHANGED <<lockVars, version, job, result, attempts>>
    /\ Lose(w)

\* ServiceUnavailable or TransientError: the whole of add_graph_data runs
\* again with the same token, up to MaxAttempts times.
Retry(w) ==
    /\ w \in Workers
    /\ InTransaction(w)
    /\ attempts[w] + 1 < MaxAttempts
    /\ attempts' = [attempts EXCEPT ![w] = @ + 1]
    /\ Lose(w)
    /\ UNCHANGED <<lockVars, version, job, result>>

\* An error that is not retried, or the last attempt's error, is raised.
Fails(c) ==
    /\ InTransaction(c)
    /\ End(c, "failed")
    /\ Lose(c)
    /\ UNCHANGED <<lockVars, version, job, attempts>>

\* Mutant of Leave: the block is left without its finally clause.
LeaveUnreleased(c) ==
    /\ result[c] # "none"
    /\ phase[c] = "body"
    /\ Forget(c)
    /\ UNCHANGED <<owner, counter, graphVars>>

\* The transaction has ended: the `async with` block is left.
Leave(c) ==
    /\ result[c] # "none"
    /\ LeaveBody(c)
    /\ UNCHANGED graphVars

Reset(c) ==
    /\ job' = [job EXCEPT ![c] = NoJob]
    /\ attempts' = [attempts EXCEPT ![c] = 0]
    /\ End(c, "none")
    /\ UNCHANGED version

Finish(c) ==
    /\ Return(c) \/ ReleaseError(c)
    /\ Reset(c)
    /\ UNCHANGED late

\* The process dies; a transaction it has sent may still be applied.
Die(c) ==
    /\ Crash(c)
    /\ Reset(c)
    /\ IF InTransaction(c) THEN Lose(c) ELSE UNCHANGED late

\* Neo4j applies a transaction whose client has given it up.
ApplyLate ==
    \E r \in late :
        /\ version' = After(r.by, r.job, r.token)
        /\ late' = late \ {r}
        /\ UNCHANGED <<lockVars, job, attempts, result>>

LeaseEnds ==
    /\ \E n \in LockNames : Expire(n)
    /\ UNCHANGED graphVars

---------------------------------------------------------------------------
Submit ==
    \/ \E w \in Workers, x \in Extractions : Ingest(w, x)
    \/ \E a \in Agents, s, t \in Ids : WriteEdge(a, s, t)

Transact(c) == Persist(c) \/ Mutate(c) \/ Retry(c) \/ Fails(c) \/ Leave(c)

Next ==
    \/ Submit
    \/ \E c \in Clients :
          \/ LockStep(c)
          \/ LockFailure(c)
          \/ Transact(c)
          \/ Finish(c)
          \/ Die(c)
    \/ ApplyLate
    \/ LeaseEnds

Spec == Init /\ [][Next]_vars

\* Redis answers every call, no process dies and no lease runs out under its
\* holder; Neo4j may still fail.
CalmGraphNext ==
    \/ Submit
    \/ \E c \in Clients :
          \/ LockStep(c)
          \/ Transact(c)
          \/ Return(c) /\ Reset(c) /\ UNCHANGED late
    \/ ApplyLate

CalmSpec == Init /\ [][CalmGraphNext]_vars

\* Every call of a client proceeds while it can: add_graph_data gives up
\* after MaxAttempts, and the driver bounds each attempt.
Proceed(c) ==
    \/ LockStep(c) /\ phase[c] # "idle"
    \/ Transact(c)
    \/ Finish(c)

FairSpec == Spec /\ \A c \in Clients : WF_vars(Proceed(c))

---------------------------------------------------------------------------
\* Types: what a call writes, how it ends, what is in flight; no token in
\* the graph or in flight that was not issued.
GraphTypeOK ==
    /\ version \in [Vertices \cup Edges -> -1..counter]
    /\ job \in [Clients -> [nodes : SUBSET Vertices, pairs : SUBSET (Ids \X Ids)]]
    /\ attempts \in [Clients -> 0..(MaxAttempts - 1)]
    /\ result \in [Clients -> {"none", "ok", "conflict", "failed"}]
    /\ late \subseteq [by : Clients, token : 1..counter,
                       job : [nodes : SUBSET Vertices,
                              pairs : SUBSET (Ids \X Ids)]]

\* The graph obeys TokenStore: late, retried and overtaken transactions never
\* take an element back (database.py:177, 193; mcp.py:143).
FencedStore == Store!StoreSpec

\* An agent is told of a conflict only if every edge it asked for bears a
\* newer token (mcp.py:162-168).
ConflictIsStale ==
    [][\A a \in Agents :
          result[a] = "none" /\ result'[a] = "conflict" =>
             \A e \in MatchedEdges(version', job[a].pairs) :
                version'[e] > token[a]]_vars

\* While its lease lasts, a worker that persisted an extraction owns every
\* vertex of it: no other write of those vertices comes in between, not even
\* a late one (README.md:23).
IngestExclusive ==
    \A w \in Workers :
        phase[w] = "body" /\ result[w] = "ok" =>
           \A v \in job[w].nodes : version[v] = token[w]

\* A worker whose transaction met an element with a newer token does not
\* report success (database.py:20-21).
StaleIsReported ==
    [][\A w \in Workers :
          result[w] = "none" /\ result'[w] = "ok" =>
             \A e \in job[w].nodes \cup MatchedEdges(version', job[w].pairs) :
                version'[e] = token[w]]_vars
===========================================================================
