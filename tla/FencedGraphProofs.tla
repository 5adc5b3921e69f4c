------------------------- MODULE FencedGraphProofs -------------------------
(***************************************************************************)
(* The composition of FencedGraph keeps what the lock manager guarantees,  *)
(* its graph implements TokenStore, a conflict is reported only if there   *)
(* is one, and within its lease an ingest owns what it wrote: for any      *)
(* workers, agents, ids, extractions and numbers of attempts.              *)
(***************************************************************************)
EXTENDS FencedGraph, OntologyLockProofs

Elements == Vertices \cup Edges

Jobs == [nodes : SUBSET Vertices, pairs : SUBSET (Ids \X Ids)]

---------------------------------------------------------------------------
(* The lock manager.                                                       *)

LEMMA StepOfLocks == [Next]_vars => [LockNext]_lockVars
<1> SUFFICES ASSUME Next
             PROVE  LockNext \/ UNCHANGED lockVars
  BY DEF vars
<1> USE GraphAssumption DEF GraphExtractions
<1>1. CASE Submit
  <2>1. CASE \E w \in Workers, x \in Extractions : Ingest(w, x)
    BY <2>1 DEF Ingest, LockNext, Request
  <2>2. CASE \E a \in Agents, s, t \in Ids : WriteEdge(a, s, t)
    BY <2>2 DEF WriteEdge, LockNext, Request, Agents, Ids
  <2> QED
    BY <1>1, <2>1, <2>2 DEF Submit
<1>2. ASSUME NEW c \in Clients,
             \/ LockStep(c) \/ LockFailure(c) \/ Transact(c)
             \/ Finish(c) \/ Die(c)
      PROVE  LockNext \/ UNCHANGED lockVars
  BY <1>2
  DEF LockStep, LockFailure, Transact, Persist, Mutate, Retry, Fails, Leave,
      Finish, Die, LockNext, Request, Advance, Fail
<1>3. CASE ApplyLate
  BY <1>3 DEF ApplyLate
<1>4. CASE LeaseEnds
  BY <1>4 DEF LeaseEnds, LockNext
<1> QED
  BY <1>1, <1>2, <1>3, <1>4 DEF Next

\* The composition implements the lock manager, so every theorem about
\* LockSpec holds of it.
THEOREM ImplementsLockManager == Spec => LockSpec
<1>1. Init => LockInit
  BY DEF Init
<1> QED
  BY <1>1, StepOfLocks, PTL DEF Spec, LockSpec

LEMMA LocksInvariant == Spec => []LockInv
  BY ImplementsLockManager, LockInvariance, PTL

\* So the writers of the graph, each with one lock or two, are never all
\* waiting for one another (concurrency.py:62-65).
THEOREM WritersDoNotDeadlock == Spec => []SomeCallIsFree
  BY ImplementsLockManager, LocksDoNotDeadlock, PTL

---------------------------------------------------------------------------
(* The graph.                                                              *)

LEMMA FencedVersions ==
    ASSUME NEW ver, NEW S, NEW t \in Int, NEW n \in Int,
           ver \in [Elements -> -1..n], t <= n
    PROVE  /\ Fenced(ver, S, t) \in [Elements -> -1..n]
           /\ \A e \in Elements :
                 Fenced(ver, S, t)[e] = IF e \in S /\ ver[e] < t THEN t ELSE ver[e]
  BY DEF Fenced, Later, Elements

LEMMA CreatedVersions ==
    ASSUME NEW ver, NEW S, NEW n \in Nat, ver \in [Elements -> -1..n]
    PROVE  /\ Created(ver, S) \in [Elements -> -1..n]
           /\ \A e \in Elements :
                 Created(ver, S)[e] = IF e \in S /\ ver[e] = -1 THEN 0 ELSE ver[e]
  BY DEF Created, Elements, Store!Absent, Store!Unfenced

\* Applying a transaction with an issued token yields versions up to the
\* counter, and is a step of TokenStore or changes nothing.
LEMMA AfterVersions ==
    ASSUME GraphTypeOK, counter \in Nat, NEW c, NEW x \in Jobs,
           NEW t \in 1..counter
    PROVE  /\ After(c, x, t) \in [Elements -> -1..counter]
           /\ \A e \in Elements :
                 \/ After(c, x, t)[e] = version[e]
                 \/ version[e] < t /\ After(c, x, t)[e] = t
                 \/ version[e] = -1 /\ After(c, x, t)[e] = 0
<1>1. version \in [Elements -> -1..counter] /\ t \in Int /\ t <= counter
  BY DEF GraphTypeOK, Elements
<1>2. CASE c \in Workers
  <2> DEFINE ver == Fenced(version, x.nodes, t)
             S == MatchedEdges(ver, x.pairs)
  <2>1. /\ ver \in [Elements -> -1..counter]
        /\ \A e \in Elements : ver[e] =
              IF e \in x.nodes /\ version[e] < t THEN t ELSE version[e]
    BY <1>1, FencedVersions
  <2>2. After(c, x, t) = Fenced(ver, S, t)
    BY <1>2 DEF After, AfterBatch
  <2> HIDE DEF ver, S
  <2>3. /\ Fenced(ver, S, t) \in [Elements -> -1..counter]
        /\ \A e \in Elements : Fenced(ver, S, t)[e] =
              IF e \in S /\ ver[e] < t THEN t ELSE ver[e]
    BY <1>1, <2>1, FencedVersions
  <2> QED
    BY <1>1, <2>1, <2>2, <2>3
<1>3. CASE c \notin Workers
  <2> DEFINE ver == Created(version, x.nodes)
             S == MatchedEdges(ver, x.pairs)
  <2>1. /\ ver \in [Elements -> -1..counter]
        /\ \A e \in Elements : ver[e] =
              IF e \in x.nodes /\ version[e] = -1 THEN 0 ELSE version[e]
    BY <1>1, CreatedVersions
  <2>2. After(c, x, t) = Fenced(ver, S, t)
    BY <1>3 DEF After, AfterEdge
  <2> HIDE DEF ver, S
  <2>3. /\ Fenced(ver, S, t) \in [Elements -> -1..counter]
        /\ \A e \in Elements : Fenced(ver, S, t)[e] =
              IF e \in S /\ ver[e] < t THEN t ELSE ver[e]
    BY <1>1, <2>1, FencedVersions
  <2> QED
    BY <1>1, <2>1, <2>2, <2>3
<1> QED
  BY <1>2, <1>3

\* A step of the lock manager moves the counter only upwards.
LEMMA CounterGrows == LockInv /\ [LockNext]_lockVars => counter' \in Nat /\ counter <= counter'
<1> SUFFICES ASSUME LockInv, [LockNext]_lockVars
             PROVE  counter' \in Nat /\ counter <= counter'
  OBVIOUS
<1>1. counter \in Nat
  BY DEF LockInv, LockTypeOK
<1>2. ASSUME NEW c \in Clients, Request(c) PROVE counter' = counter
  <2>1. ASSUME NEW ns, Start(c, ns) PROVE counter' = counter
    BY <2>1 DEF Start
  <2>2. CASE \E n \in LockNames : NodeLock(c, n)
    BY <2>1, <2>2 DEF NodeLock
  <2>3. CASE \E x, y \in LockNames : EdgeLocks(c, x, y)
    BY <2>1, <2>3 DEF EdgeLocks
  <2>4. CASE EdgeLocksRefused(c)
    BY <2>4 DEF EdgeLocksRefused, lockVars
  <2> QED
    BY <1>2, <2>2, <2>3, <2>4 DEF Request
<1>3. ASSUME NEW c \in Clients, Advance(c)
      PROVE  counter' \in {counter, counter + 1}
  BY <1>3
  DEF Advance, Acquire, AcquireTimeout, IssueToken, LeaveBody, Release, Return
<1>4. ASSUME NEW c \in Clients, Fail(c)
      PROVE  counter' \in {counter, counter + 1}
  BY <1>4 DEF Fail, AcquireError, IssueTokenError, ReleaseError, Crash
<1>5. ASSUME NEW n \in LockNames, Expire(n) PROVE counter' = counter
  BY <1>5 DEF Expire
<1>6. counter' \in {counter, counter + 1}
  BY <1>2, <1>3, <1>4, <1>5 DEF LockNext, lockVars
<1> QED
  BY <1>1, <1>6

LEMMA GraphInitType == Init => GraphTypeOK
  BY GraphAssumption
  DEF Init, LockInit, Store!StoreInit, Store!Absent, GraphTypeOK, NoJob

LEMMA GraphStepType == LockInv /\ GraphTypeOK /\ [Next]_vars => GraphTypeOK'
<1> SUFFICES ASSUME LockInv, GraphTypeOK, [Next]_vars
             PROVE  GraphTypeOK'
  OBVIOUS
<1> USE GraphAssumption DEF GraphExtractions
<1>0. /\ counter \in Nat /\ counter' \in Nat /\ counter <= counter'
      /\ \A c \in Clients : phase[c] = "body" => token[c] \in 1..counter
  BY CounterGrows, StepOfLocks DEF LockInv, LockTypeOK, CallShape
<1>1. /\ version \in [Elements -> -1..counter']
      /\ late \subseteq [by : Clients, token : 1..counter', job : Jobs]
  BY <1>0 DEF GraphTypeOK, Elements, Jobs
<1> DEFINE LateOK == late' \subseteq [by : Clients, token : 1..counter', job : Jobs]
<1>2. ASSUME NEW c \in Clients, Lose(c), InTransaction(c)
      PROVE  LateOK
  <2>1. [by |-> c, job |-> job[c], token |-> token[c]]
          \in [by : Clients, token : 1..counter', job : Jobs]
    BY <1>0, <1>2 DEF InTransaction, GraphTypeOK, Jobs
  <2> QED
    BY <1>1, <1>2, <2>1 DEF Lose
<1>3. ASSUME NEW c \in Clients, LockStep(c) \/ LockFailure(c) \/ Leave(c)
      PROVE  GraphTypeOK'
  BY <1>1, <1>3 DEF LockStep, LockFailure, Leave, graphVars, GraphTypeOK,
     Elements, Jobs
<1>4. CASE Submit
  <2>1. CASE \E w \in Workers, x \in Extractions : Ingest(w, x)
    <3>1. PICK w \in Workers, x \in Extractions : Ingest(w, x)
      BY <2>1
    <3>2. x \in Jobs
      BY DEF Jobs, Vertices
    <3> QED
      BY <1>1, <3>1, <3>2 DEF Ingest, GraphTypeOK, Elements, Jobs
  <2>2. CASE \E a \in Agents, s, t \in Ids : WriteEdge(a, s, t)
    <3>1. PICK a \in Agents, s \in Ids, t \in Ids : WriteEdge(a, s, t)
      BY <2>2
    <3>2. [nodes |-> {<<Dynamic, s>>, <<Dynamic, t>>}, pairs |-> {<<s, t>>}]
            \in Jobs
      BY DEF Jobs, Vertices
    <3> QED
      BY <1>1, <3>1, <3>2 DEF WriteEdge, GraphTypeOK, Elements, Jobs
  <2> QED
    BY <1>4, <2>1, <2>2 DEF Submit
<1>5. ASSUME NEW c \in Clients, Persist(c) \/ Mutate(c)
      PROVE  GraphTypeOK'
  <2>1. version' = After(c, job[c], token[c])
    BY <1>5 DEF Persist, Mutate, After, Agents
  <2>2. job[c] \in Jobs /\ token[c] \in 1..counter /\ counter' = counter
    BY <1>0, <1>5
    DEF Persist, Mutate, InTransaction, GraphTypeOK, Jobs, lockVars
  <2>3. version' \in [Elements -> -1..counter']
    BY <1>0, <2>1, <2>2, AfterVersions
  <2> QED
    BY <1>1, <1>5, <2>3
    DEF Persist, Mutate, End, GraphTypeOK, Elements, Jobs
<1>6. ASSUME NEW c \in Clients, Retry(c)
      PROVE  GraphTypeOK'
  <2>1. attempts' \in [Clients -> 0..(MaxAttempts - 1)]
    BY <1>6 DEF Retry, GraphTypeOK
  <2>2. LateOK
    BY <1>2, <1>6 DEF Retry
  <2> QED
    BY <1>1, <1>6, <2>1, <2>2 DEF Retry, GraphTypeOK, Elements, Jobs
<1>7. ASSUME NEW c \in Clients, Fails(c)
      PROVE  GraphTypeOK'
  <2>1. LateOK
    BY <1>2, <1>7 DEF Fails
  <2> QED
    BY <1>1, <1>7, <2>1 DEF Fails, End, GraphTypeOK, Elements, Jobs
<1>8. ASSUME NEW c \in Clients, Reset(c), LateOK
      PROVE  GraphTypeOK'
  BY <1>1, <1>8 DEF Reset, End, NoJob, GraphTypeOK, Elements, Jobs
<1>9. ASSUME NEW c \in Clients, Finish(c)
      PROVE  GraphTypeOK'
  BY <1>1, <1>8, <1>9 DEF Finish
<1>10. ASSUME NEW c \in Clients, Die(c)
       PROVE  GraphTypeOK'
  BY <1>1, <1>2, <1>8, <1>10 DEF Die
<1>11. CASE ApplyLate
  <2>1. PICK r \in late : /\ version' = After(r.by, r.job, r.token)
                          /\ late' = late \ {r}
                          /\ UNCHANGED <<lockVars, job, attempts, result>>
    BY <1>11 DEF ApplyLate
  <2>2. r.job \in Jobs /\ r.token \in 1..counter /\ counter' = counter
    BY <2>1 DEF GraphTypeOK, Jobs, lockVars
  <2>3. version' \in [Elements -> -1..counter']
    BY <1>0, <2>1, <2>2, AfterVersions
  <2> QED
    BY <1>1, <2>1, <2>3 DEF GraphTypeOK, Elements, Jobs
<1>12. CASE LeaseEnds \/ UNCHANGED vars
  BY <1>1, <1>12 DEF LeaseEnds, vars, graphVars, lockVars, GraphTypeOK,
     Elements, Jobs
<1> QED
  BY <1>3, <1>4, <1>5, <1>6, <1>7, <1>9, <1>10, <1>11, <1>12
  DEF Next, Transact

\* Every element of the graph, and every transaction in flight, bears a token
\* that was issued.
THEOREM GraphTypeCorrect == Spec => []GraphTypeOK
<1>1. GraphTypeOK /\ LockInv /\ [Next]_vars => GraphTypeOK'
  BY GraphStepType
<1> QED
  BY <1>1, GraphInitType, LocksInvariant, PTL DEF Spec

\* The graph with all its writers implements TokenStore: each transaction
\* moves the elements it changes up to its own token or creates them.
THEOREM GraphImplementsStore == Spec => FencedStore
<1>1. Init => Store!StoreInit
  BY DEF Init
<1>2. LockInv /\ GraphTypeOK /\ GraphTypeOK' /\ [Next]_vars
        => [Store!StoreNext]_version
  <2> SUFFICES ASSUME LockInv, GraphTypeOK, GraphTypeOK', [Next]_vars,
                      version' # version
               PROVE  Store!StoreNext
    OBVIOUS
  <2>1. PICK c \in Clients, x \in Jobs, t \in 1..counter :
             version' = After(c, x, t)
    <3>1. CASE \E c \in Clients : Persist(c) \/ Mutate(c)
      <4>1. PICK c \in Clients : Persist(c) \/ Mutate(c)
        BY <3>1
      <4>2. version' = After(c, job[c], token[c])
        BY <4>1 DEF Persist, Mutate, After, Agents
      <4>3. job[c] \in Jobs /\ token[c] \in 1..counter
        BY <4>1 DEF Persist, Mutate, InTransaction, GraphTypeOK, Jobs,
           LockInv, LockTypeOK, CallShape
      <4> QED
        BY <4>2, <4>3
    <3>2. CASE ApplyLate
      <4>1. PICK r \in late : version' = After(r.by, r.job, r.token)
        BY <3>2 DEF ApplyLate
      <4>2. r.by \in Clients /\ r.job \in Jobs /\ r.token \in 1..counter
        BY <4>1 DEF GraphTypeOK, Jobs
      <4> QED
        BY <4>1, <4>2
    <3>3. CASE Submit
      BY <3>3 DEF Submit, Ingest, WriteEdge
    <3>4. CASE \E c \in Clients : \/ LockStep(c) \/ LockFailure(c)
                                  \/ Retry(c) \/ Fails(c) \/ Leave(c)
                                  \/ Finish(c) \/ Die(c)
      BY <3>4 DEF LockStep, LockFailure, Retry, Fails, Leave, Finish, Die,
         Reset, graphVars
    <3>5. CASE LeaseEnds \/ UNCHANGED vars
      BY <3>5 DEF LeaseEnds, vars, graphVars
    <3> QED
      BY <3>1, <3>2, <3>3, <3>4, <3>5 DEF Next, Transact
  <2>2. \A e \in Elements :
           \/ version'[e] = version[e]
           \/ version[e] < t /\ version'[e] = t
           \/ version[e] = -1 /\ version'[e] = 0
    BY <2>1, AfterVersions DEF LockInv, LockTypeOK
  <2>3. version' \in [Elements -> Int] /\ version \in [Elements -> Int]
    BY DEF GraphTypeOK, Elements
  <2>4. CASE \E e \in Elements : version'[e] = t
    BY <2>2, <2>3, <2>4
    DEF Store!StoreNext, Store!Write, Store!Absent, Store!Unfenced, Elements
  <2>5. CASE \A e \in Elements : version'[e] # t
    <3>1. PICK e \in Elements : version'[e] # version[e]
      BY <2>3
    <3>2. Store!Write(version'[e])
      BY <2>2, <2>3, <2>5
      DEF Store!Write, Store!Absent, Store!Unfenced, Elements
    <3> QED
      BY <3>1, <3>2 DEF Store!StoreNext, Elements
  <2> QED
    BY <2>4, <2>5
<1> QED
  BY <1>1, <1>2, LocksInvariant, GraphTypeCorrect, PTL
  DEF Spec, FencedStore, Store!StoreSpec

\* What TokenStore promises: whatever is late, lost or repeated, the token of
\* an element never falls, and what exists does not disappear.
TokensGrow == [][\A e \in Elements : version[e] <= version'[e]]_version

\* So does the graph under all its writers (database.py:171-195,
\* mcp.py:126-147).
THEOREM NoElementFallsBack == Spec => TokensGrow
<1>1. GraphTypeOK /\ GraphTypeOK' /\ [Store!StoreNext]_version
        => [\A e \in Elements : version[e] <= version'[e]]_version
  <2> SUFFICES ASSUME GraphTypeOK, GraphTypeOK', Store!StoreNext,
                      NEW e \in Elements
               PROVE  version[e] <= version'[e]
    OBVIOUS
  <2>1. version[e] \in Int /\ version'[e] \in Int
    <3>1. version \in [Elements -> Int] /\ version' \in [Elements -> Int]
      BY DEF GraphTypeOK, Elements
    <3> QED
      BY <3>1
  <2>2. PICK f \in Elements : Store!Write(version'[f])
    BY DEF Store!StoreNext, Elements
  <2>3. version'[f] \in Int
    BY DEF GraphTypeOK, Elements
  <2> QED
    BY <2>1, <2>2, <2>3 DEF Store!Write, Store!Absent, Store!Unfenced, Elements
<1> QED
  BY <1>1, GraphImplementsStore, GraphTypeCorrect, PTL
  DEF FencedStore, Store!StoreSpec, TokensGrow

---------------------------------------------------------------------------
(* Conflicts.                                                              *)

\* No two calls have the same token, and nothing bears the token of an
\* agent's call before its transaction ends: an agent does not retry.
OwnTokenUnused ==
    /\ \A c, d \in Clients : c # d /\ token[c] = token[d] => token[c] = 0
    /\ \A a \in Agents : phase[a] = "body" /\ result[a] = "none" =>
          /\ \A e \in Elements : version[e] # token[a]
          /\ \A r \in late : r.token # token[a]

\* A step that issues no token keeps it, if what it adds to the graph and to
\* the transactions in flight bears a token of another call or of such a
\* transaction.
LEMMA KeepsOwnTokens ==
    ASSUME LockInv, OwnTokenUnused,
           \A c \in Clients :
              /\ token'[c] \in {token[c], 0}
              /\ phase'[c] = "body" =>
                    phase[c] = "body" /\ token'[c] = token[c],
           \A a \in Agents : phase'[a] = "body" /\ result'[a] = "none" =>
              /\ result[a] = "none"
              /\ \A e \in Elements :
                    \/ version'[e] \in {version[e], 0}
                    \/ \E c \in Clients \ {a} : version'[e] = token[c]
                    \/ \E r \in late : version'[e] = r.token
              /\ \A r \in late' :
                    \/ r \in late
                    \/ \E c \in Clients \ {a} : r.token = token[c]
    PROVE  OwnTokenUnused'
<1>1. \A c, d \in Clients : c # d /\ token'[c] = token'[d] => token'[c] = 0
  BY DEF OwnTokenUnused
<1>2. ASSUME NEW a \in Agents, phase'[a] = "body", result'[a] = "none"
      PROVE  /\ \A e \in Elements : version'[e] # token'[a]
             /\ \A r \in late' : r.token # token'[a]
  <2>1. /\ a \in Clients /\ phase[a] = "body" /\ token'[a] = token[a]
        /\ result[a] = "none" /\ token[a] # 0
    BY <1>2, GraphAssumption DEF Agents, LockInv, LockTypeOK, CallShape
  <2>2. /\ \A c \in Clients \ {a} : token[c] # token[a]
        /\ \A e \in Elements : version[e] # token[a]
        /\ \A r \in late : r.token # token[a]
    BY <2>1 DEF OwnTokenUnused
  <2> QED
    BY <1>2, <2>1, <2>2
<1> QED
  BY <1>1, <1>2 DEF OwnTokenUnused

LEMMA OwnTokensInit == Init => OwnTokenUnused
  BY DEF Init, LockInit, OwnTokenUnused, Agents

LEMMA OwnTokensStep ==
    LockInv /\ GraphTypeOK /\ OwnTokenUnused /\ [Next]_vars => OwnTokenUnused'
<1> SUFFICES ASSUME LockInv, GraphTypeOK, OwnTokenUnused, [Next]_vars
             PROVE  OwnTokenUnused'
  OBVIOUS
<1> USE GraphAssumption
<1>0. /\ phase \in [Clients -> Phases]
      /\ token \in [Clients -> Nat]
      /\ result \in [Clients -> {"none", "ok", "conflict", "failed"}]
      /\ \A c \in Clients : token[c] <= counter
      /\ \A c \in Clients : phase[c] = "body" => token[c] \in 1..counter
      /\ counter \in Nat
      /\ Agents \subseteq Clients
  BY DEF LockInv, LockTypeOK, CallShape, GraphTypeOK, Agents
<1>1. ASSUME NEW c \in Clients, IssueToken(c), UNCHANGED graphVars
      PROVE  OwnTokenUnused'
  <2>1. /\ token'[c] = counter + 1
        /\ \A d \in Clients : d # c =>
              token'[d] = token[d] /\ phase'[d] = phase[d]
        /\ result' = result /\ version' = version /\ late' = late
    BY <1>0, <1>1 DEF IssueToken, graphVars
  <2>2. \A d, e \in Clients : d # e /\ token'[d] = token'[e] => token'[d] = 0
    BY <1>0, <2>1 DEF OwnTokenUnused
  <2>3. ASSUME NEW a \in Agents, phase'[a] = "body", result'[a] = "none"
        PROVE  /\ \A e \in Elements : version'[e] # token'[a]
               /\ \A r \in late' : r.token # token'[a]
    <3>1. CASE a = c
      BY <1>0, <2>1, <3>1 DEF GraphTypeOK, Elements
    <3>2. CASE a # c
      BY <1>0, <2>1, <2>3, <3>2 DEF OwnTokenUnused
    <3> QED
      BY <3>1, <3>2
  <2> QED
    BY <2>2, <2>3 DEF OwnTokenUnused
<1>2. ASSUME NEW c \in Clients,
             \/ EdgeLocksRefused(c) \/ Acquire(c) \/ AcquireTimeout(c)
             \/ Release(c) \/ AcquireError(c) \/ IssueTokenError(c)
             \/ LeaveBody(c),
             UNCHANGED graphVars
      PROVE  OwnTokenUnused'
  BY <1>0, <1>2, KeepsOwnTokens
  DEF EdgeLocksRefused, Acquire, AcquireTimeout, Release, AcquireError,
      IssueTokenError, LeaveBody, graphVars, lockVars
<1>3. CASE Submit
  BY <1>0, <1>3, KeepsOwnTokens
  DEF Submit, Ingest, WriteEdge, NodeLock, EdgeLocks, Start
<1>4. ASSUME NEW c \in Clients, Persist(c) \/ Mutate(c)
      PROVE  OwnTokenUnused'
  <2>1. version' = After(c, job[c], token[c])
    BY <1>4 DEF Persist, Mutate, After, Agents
  <2>2. job[c] \in Jobs /\ counter \in Nat /\ token[c] \in 1..counter
    BY <1>0, <1>4 DEF Persist, Mutate, InTransaction, GraphTypeOK, Jobs
  <2>3. \A e \in Elements : \/ version'[e] = version[e]
                              \/ version'[e] = token[c]
                              \/ version'[e] = 0
    BY <2>1, <2>2, AfterVersions
  <2>4. /\ UNCHANGED <<lockVars, late>>
        /\ c \in Agents => result'[c] # "none"
        /\ \A d \in Clients : d # c => result'[d] = result[d]
    BY <1>0, <1>4 DEF Persist, Mutate, End, Agents
  <2> QED
    BY <1>0, <2>3, <2>4, KeepsOwnTokens DEF lockVars
<1>5. ASSUME NEW c \in Clients, Retry(c) \/ Fails(c)
      PROVE  OwnTokenUnused'
  <2>1. /\ UNCHANGED <<lockVars, version>>
        /\ \A r \in late' : r \in late \/ r.token = token[c]
        /\ \A d \in Clients : d # c => result'[d] = result[d]
        /\ c \in Agents => result'[c] # "none"
    BY <1>0, <1>5 DEF Retry, Fails, Lose, End, Agents
  <2> QED
    BY <1>0, <2>1, KeepsOwnTokens DEF lockVars
<1>6. ASSUME NEW c \in Clients, Finish(c) \/ Die(c)
      PROVE  OwnTokenUnused'
  <2>1. /\ version' = version
        /\ \A r \in late' : r \in late \/ r.token = token[c]
        /\ \A d \in Clients : d # c =>
              /\ result'[d] = result[d]
              /\ phase'[d] = phase[d] /\ token'[d] = token[d]
        /\ phase'[c] = "idle" /\ token'[c] = 0
    BY <1>0, <1>6 DEF Finish, Die, Return, ReleaseError, Crash, Forget, Reset,
       Lose, End
  <2> QED
    BY <1>0, <2>1, KeepsOwnTokens
<1>7. CASE ApplyLate
  <2>1. PICK r \in late : /\ version' = After(r.by, r.job, r.token)
                          /\ late' = late \ {r}
                          /\ UNCHANGED <<lockVars, job, attempts, result>>
    BY <1>7 DEF ApplyLate
  <2>2. r.job \in Jobs /\ r.token \in 1..counter
    BY <2>1 DEF GraphTypeOK, Jobs
  <2>3. \A e \in Elements : \/ version'[e] = version[e]
                            \/ version'[e] = r.token
                            \/ version'[e] = 0
    <3> TAKE e \in Elements
    <3>1. counter \in Nat /\ GraphTypeOK
      BY <1>0
    <3>2. \/ After(r.by, r.job, r.token)[e] = version[e]
          \/ After(r.by, r.job, r.token)[e] = r.token
          \/ After(r.by, r.job, r.token)[e] = 0
      BY <2>2, <3>1, AfterVersions
    <3> QED
      BY <2>1, <3>2
  <2>4. \A r1 \in late' : r1 \in late
    BY <2>1
  <2>5. \A c \in Clients : /\ phase'[c] = phase[c] /\ token'[c] = token[c]
                           /\ result'[c] = result[c]
    BY <2>1 DEF lockVars
  <2>6. \A e \in Elements : \/ version'[e] \in {version[e], 0}
                            \/ \E q \in late : version'[e] = q.token
    BY <2>3
  <2> QED
    BY <1>0, <2>4, <2>5, <2>6, KeepsOwnTokens
<1>8. CASE LeaseEnds \/ UNCHANGED vars
  BY <1>0, <1>8, KeepsOwnTokens
  DEF LeaseEnds, Expire, vars, graphVars, lockVars
<1> QED
  BY <1>1, <1>2, <1>3, <1>4, <1>5, <1>6, <1>7, <1>8
  DEF Next, LockStep, LockFailure, Transact, Leave

LEMMA OwnTokensInvariant == Spec => []OwnTokenUnused
<1>1. LockInv /\ GraphTypeOK /\ OwnTokenUnused /\ [Next]_vars => OwnTokenUnused'
  BY OwnTokensStep
<1> QED
  BY <1>1, OwnTokensInit, LocksInvariant, GraphTypeCorrect, PTL DEF Spec

\* A conflict without a newer edge never happens: the statement updated no
\* edge, so it left the graph as the MERGE of the vertices made it, where all
\* the matched edges bear the agent's token or a newer one; and its own token
\* it can meet nowhere.
THEOREM ConflictMeansStale == Spec => ConflictIsStale
<1>1. LockInv /\ GraphTypeOK /\ OwnTokenUnused /\ [Next]_vars =>
        [\A a \in Agents :
            result[a] = "none" /\ result'[a] = "conflict" =>
               \A e \in MatchedEdges(version', job[a].pairs) :
                  version'[e] > token[a]]_vars
  <2> SUFFICES ASSUME LockInv, GraphTypeOK, OwnTokenUnused, Next,
                      NEW a \in Agents,
                      result[a] = "none", result'[a] = "conflict",
                      NEW e \in MatchedEdges(version', job[a].pairs)
               PROVE  version'[e] > token[a]
    OBVIOUS
  <2> USE GraphAssumption
  <2>1. Mutate(a)
    <3>1. /\ result \in [Clients -> {"none", "ok", "conflict", "failed"}]
          /\ a \in Clients
      BY DEF GraphTypeOK, Agents
    <3>2. \E c \in Clients : Mutate(c) /\ c = a
      BY <3>1
      DEF Next, Submit, Ingest, WriteEdge, LockStep, LockFailure, Transact,
          Persist, Mutate, Retry, Fails, Leave, Finish, Die, Reset, End,
          ApplyLate, LeaseEnds, graphVars
    <3> QED
      BY <3>2
  <2>2. /\ job[a] \in Jobs /\ token[a] \in 1..counter /\ counter \in Nat
        /\ version \in [Elements -> -1..counter]
    BY <2>1 DEF Mutate, InTransaction, GraphTypeOK, Jobs, Elements, Agents,
       LockInv, LockTypeOK, CallShape
  <2> DEFINE ver == Created(version, job[a].nodes)
             S == MatchedEdges(ver, job[a].pairs)
  <2>3. /\ ver \in [Elements -> -1..counter]
        /\ \A x \in Elements : ver[x] # token[a]
    <3>1. \A x \in Elements : version[x] # token[a]
      BY <2>1 DEF Mutate, InTransaction, OwnTokenUnused
    <3>2. /\ ver \in [Elements -> -1..counter]
          /\ \A x \in Elements : ver[x] \in {version[x], 0}
      BY <2>2, CreatedVersions
    <3> QED
      BY <2>2, <3>1, <3>2
  <2>4. \A x \in S : ~(ver[x] < token[a])
    BY <2>1, <2>2 DEF Mutate, End, EdgeRecord, GraphTypeOK, Agents
  <2>5. version' = Fenced(ver, S, token[a])
    BY <2>1 DEF Mutate, AfterEdge
  <2>6. S \subseteq Elements
    BY DEF MatchedEdges, Matches, Elements, Edges
  <2> HIDE DEF ver
  <2>7. version' = ver
    <3>1. /\ version' \in [Elements -> -1..counter]
          /\ \A x \in Elements : version'[x] = ver[x]
      BY <2>2, <2>3, <2>4, <2>5, FencedVersions
    <3> QED
      BY <2>3, <3>1
  <2>8. e \in S
    BY <2>7
  <2>9. e \in Elements /\ ver[e] # token[a] /\ ~(ver[e] < token[a])
        /\ ver[e] \in Int
    BY <2>3, <2>4, <2>6, <2>8
  <2> QED
    BY <2>2, <2>7, <2>9
<1> QED
  BY <1>1, LocksInvariant, GraphTypeCorrect, OwnTokensInvariant, PTL
  DEF Spec, ConflictIsStale

---------------------------------------------------------------------------
(* Exclusion, as long as Redis answers, leases last and processes live.    *)

\* A calm step is a step of the composition.
LEMMA CalmStep == [CalmGraphNext]_vars => [Next]_vars
  BY DEF CalmGraphNext, Next, Finish

\* What holds of every behaviour holds of the calm ones, in which no lease ends
\* under its holder, Redis answers and no process dies (concurrency.py:22-110).
THEOREM CalmIsSpec == CalmSpec => Spec
  BY CalmStep, PTL DEF CalmSpec, Spec

\* What a client believes it holds, it owns.
HoldersOwn == \A c \in Clients : \A n \in Held(c) : owner[n] = c

LEMMA HoldersOwnStep ==
    LockInv /\ GraphTypeOK /\ HoldersOwn /\ [CalmGraphNext]_vars => HoldersOwn'
<1> SUFFICES ASSUME LockInv, GraphTypeOK, HoldersOwn, [CalmGraphNext]_vars
             PROVE  HoldersOwn'
  OBVIOUS
<1> USE GraphAssumption, LockAssumption
<1>0. /\ LockTypeOK /\ CallShape
      /\ owner \in [LockNames -> Clients \cup {NoOwner, Orphan}]
      /\ held \in [Clients -> 0..2]
      /\ \A c \in Clients : Held(c) \subseteq LockNames
  BY HeldNames DEF LockInv, LockTypeOK
<1>1. ASSUME UNCHANGED <<owner, names, held>>
      PROVE  HoldersOwn'
  BY <1>1 DEF HoldersOwn, Held
<1>2. ASSUME NEW c \in Clients, NEW ns, Start(c, ns)
      PROVE  HoldersOwn'
  <2>1. Held(c)' = {}
    BY <1>0, <1>2 DEF Start, CallShape, Held
  <2>2. \A d \in Clients : d # c => Held(d)' = Held(d)
    BY <1>0, <1>2 DEF Start, LockTypeOK, Held
  <2>3. owner' = owner
    BY <1>2 DEF Start
  <2> QED
    BY <2>1, <2>2, <2>3 DEF HoldersOwn
<1>3. ASSUME NEW c \in Clients, Acquire(c)
      PROVE  HoldersOwn'
  <2>1. /\ Wanted(c) \in LockNames
        /\ owner' = [owner EXCEPT ![Wanted(c)] = c]
        /\ owner[Wanted(c)] = NoOwner
    BY <1>0, <1>3, WantedName DEF Acquire
  <2>2. \A n \in Held(c)' : n \in Held(c) \/ n = Wanted(c)
    BY <1>0, <1>3 DEF Acquire, Held, Wanted
  <2>3. \A d \in Clients : d # c => Held(d)' = Held(d)
    BY <1>0, <1>3 DEF Acquire, Held
  <2> QED
    BY <1>0, <2>1, <2>2, <2>3 DEF HoldersOwn
<1>4. ASSUME NEW c \in Clients, Release(c)
      PROVE  HoldersOwn'
  <2> DEFINE last == names[c][held[c]]
  <2>1. /\ last \in LockNames /\ last \in Held(c)
        /\ owner' = [owner EXCEPT ![last] = IF @ = c THEN NoOwner ELSE @]
    BY <1>0, <1>4, HeldNames DEF Release, Held
  <2>2. \A n \in Held(c)' : n \in Held(c) /\ n # last
    <3>1. PICK ns \in NameSeqs \cup {<<>>} : names[c] = ns
      BY <1>0 DEF LockTypeOK
    <3>2. held[c] \in 1..2 /\ held'[c] = held[c] - 1 /\ held[c] <= Len(ns)
          /\ names' = names
      BY <1>0, <1>4, <3>1 DEF Release, CallShape
    <3>3. CASE held[c] = 1
      BY <3>2, <3>3 DEF Held
    <3>4. CASE held[c] = 2
      <4>1. PICK m \in LockNames, k \in LockNames : ns = <<m, k>>
        <5>1. ns # <<>> /\ ~ \E n \in LockNames : ns = <<n>>
          <6>1. 2 <= Len(ns)
            BY <3>2, <3>4
          <6>2. ASSUME ns = <<>> PROVE FALSE
            <7>1. Len(ns) = 0
              BY <6>2
            <7> QED
              BY <6>1, <7>1
          <6>3. ASSUME NEW n \in LockNames, ns = <<n>> PROVE FALSE
            <7>1. Len(ns) = 1
              BY <6>3
            <7> QED
              BY <6>1, <7>1
          <6> QED
            BY <6>2, <6>3
        <5> QED
          BY <5>1 DEF NameSeqs
      <4>2. ns[1] < ns[2] /\ ns[1] \in Nat /\ ns[2] \in Nat
        BY <1>0, <3>1, <4>1 DEF CallShape
      <4>3. /\ \A n \in Held(c)' : n = names[c][1]
            /\ names[c][1] \in Held(c)
        BY <3>2, <3>4 DEF Held
      <4> QED
        BY <3>1, <3>4, <4>2, <4>3
    <3> QED
      BY <3>2, <3>3, <3>4
  <2>3. \A d \in Clients : d # c => Held(d)' = Held(d)
    BY <1>0, <1>4 DEF Release, Held
  <2> HIDE DEF last
  <2> SUFFICES ASSUME NEW d \in Clients, NEW n \in Held(d)'
               PROVE  owner'[n] = d
    BY DEF HoldersOwn
  <2>4. n \in Held(d) /\ (d = c => n # last)
    BY <2>2, <2>3
  <2>5. owner[n] = d /\ owner[last] = c /\ n \in LockNames
    BY <1>0, <2>1, <2>4, HeldNames DEF HoldersOwn
  <2>6. n # last
    BY <2>4, <2>5
  <2> QED
    BY <1>0, <2>1, <2>5, <2>6 DEF LockTypeOK
<1>5. ASSUME NEW c \in Clients, Return(c)
      PROVE  HoldersOwn'
  <2>1. Held(c)' = {}
    BY <1>0, <1>5 DEF Return, Forget, Held
  <2>2. owner' = owner /\ \A d \in Clients : d # c => Held(d)' = Held(d)
    BY <1>0, <1>5 DEF Return, Forget, LockTypeOK, Held
  <2> QED
    BY <2>1, <2>2 DEF HoldersOwn
<1>6. CASE Submit
  BY <1>2, <1>6
  DEF Submit, Ingest, WriteEdge, NodeLock, EdgeLocks, Agents
<1>7. ASSUME NEW c \in Clients, LockStep(c) \/ Transact(c)
      PROVE  HoldersOwn'
  BY <1>1, <1>3, <1>4, <1>7
  DEF LockStep, EdgeLocksRefused, AcquireTimeout, IssueToken, lockVars,
      Transact, Persist, Mutate, Retry, Fails, Leave, LeaveBody
<1>8. CASE ApplyLate \/ UNCHANGED vars
  BY <1>1, <1>8 DEF ApplyLate, vars, lockVars
<1> QED
  BY <1>5, <1>6, <1>7, <1>8 DEF CalmGraphNext

LEMMA HoldersOwnInvariant == CalmSpec => [](LockInv /\ GraphTypeOK /\ HoldersOwn)
<1>1. Init => HoldersOwn
  BY DEF Init, LockInit, HoldersOwn, Held
<1>2. LockInv /\ GraphTypeOK /\ HoldersOwn /\ [CalmGraphNext]_vars => HoldersOwn'
  BY HoldersOwnStep
<1> QED
  BY <1>1, <1>2, CalmIsSpec, LocksInvariant, GraphTypeCorrect, PTL
  DEF CalmSpec

\* Two bodies never run on behalf of one lock: both would own it.
THEOREM CalmExclusion == CalmSpec => []ExclusiveBodies
<1>1. HoldersOwn => ExclusiveBodies
  BY DEF HoldersOwn, ExclusiveBodies
<1> QED
  BY <1>1, HoldersOwnInvariant, PTL

\* The vertices that only workers write, and those that agents create.
Labelled == Labels \X Ids

\* A worker's call is for the global lock alone, and it holds it from its
\* INCR to the end of its body.
WorkerHolds ==
    \A w \in Workers :
        /\ phase[w] \in {"acquire", "incr", "body"} => names[w] = <<GlobalIngest>>
        /\ phase[w] \in {"incr", "body"} => held[w] = 1

\* A call that has not reached its body has no result.
ResultOfBody ==
    \A c \in Clients : phase[c] \in {"idle", "acquire", "incr"} => result[c] = "none"

\* Workers write labelled vertices, agents do not, not even late.
WritesApart ==
    /\ \A w \in Workers : job[w].nodes \subseteq Labelled
    /\ \A a \in Agents : job[a].nodes \cap Labelled = {}
    /\ \A r \in late : r.by \in Agents => r.job.nodes \cap Labelled = {}

\* The worker that holds the global lock has the newest token of all that
\* the labelled vertices bear or may still be given.
HolderNewest ==
    \A w \in Workers : phase[w] = "body" =>
        /\ \A v \in Labelled : version[v] <= token[w]
        /\ \A r \in late : r.by \in Workers => r.token <= token[w]

\* The inductive invariant for IngestExclusive, next to HoldersOwn.
IngestInv ==
    /\ WorkerHolds
    /\ ResultOfBody
    /\ WritesApart
    /\ HolderNewest
    /\ IngestExclusive

LEMMA LabelledVertices == Labelled \subseteq Vertices /\ Labelled \subseteq Elements
  BY DEF Labelled, Vertices, Elements

LEMMA MatchedAreEdges ==
    ASSUME NEW ver, NEW pairs
    PROVE  MatchedEdges(ver, pairs) \subseteq Edges
  BY DEF MatchedEdges, Matches, Edges

\* Two workers are never both between their INCR and the end of their bodies.
LEMMA OneWorker ==
    ASSUME HoldersOwn, WorkerHolds, NEW w \in Workers, NEW u \in Workers,
           phase[w] \in {"incr", "body"}, phase[u] \in {"incr", "body"}
    PROVE  w = u
<1>1. GlobalIngest \in Held(w) /\ GlobalIngest \in Held(u)
  BY DEF WorkerHolds, Held
<1> QED
  BY <1>1, GraphAssumption DEF HoldersOwn

\* What a transaction does to a labelled vertex: a batch raises the vertices
\* it names to its token, a mutation leaves the labelled ones alone.
LEMMA AfterLabelled ==
    ASSUME GraphTypeOK, counter \in Nat, NEW c \in Clients, NEW x \in Jobs,
           NEW t \in 1..counter,
           c \in Agents => x.nodes \cap Labelled = {},
           NEW v \in Labelled
    PROVE  /\ c \in Agents => After(c, x, t)[v] = version[v]
           /\ c \in Workers /\ v \in x.nodes =>
                 After(c, x, t)[v] = IF version[v] < t THEN t ELSE version[v]
<1>1. /\ version \in [Elements -> -1..counter] /\ t \in Int /\ t <= counter
      /\ v \in Elements /\ v \notin Edges
  BY LabelledVertices, GraphAssumption DEF GraphTypeOK, Elements
<1>2. CASE c \in Agents
  <2> DEFINE ver == Created(version, x.nodes)
             S == MatchedEdges(ver, x.pairs)
  <2>1. ver \in [Elements -> -1..counter] /\ ver[v] = version[v]
    BY <1>1, <1>2, CreatedVersions
  <2>2. After(c, x, t) = Fenced(ver, S, t) /\ v \notin S
    BY <1>1, <1>2, MatchedAreEdges DEF After, AfterEdge, Agents
  <2> HIDE DEF ver, S
  <2>3. Fenced(ver, S, t)[v] = ver[v]
    BY <1>1, <2>1, <2>2, FencedVersions
  <2> QED
    BY <1>2, <2>1, <2>2, <2>3 DEF Agents
<1>3. CASE c \in Workers
  <2> DEFINE ver == Fenced(version, x.nodes, t)
             S == MatchedEdges(ver, x.pairs)
  <2>1. /\ ver \in [Elements -> -1..counter]
        /\ v \in x.nodes =>
              ver[v] = IF version[v] < t THEN t ELSE version[v]
    BY <1>1, FencedVersions
  <2>2. After(c, x, t) = Fenced(ver, S, t) /\ v \notin S
    BY <1>1, <1>3, MatchedAreEdges DEF After, AfterBatch
  <2> HIDE DEF ver, S
  <2>3. Fenced(ver, S, t)[v] = ver[v]
    BY <1>1, <2>1, <2>2, FencedVersions
  <2> QED
    BY <1>3, <2>1, <2>2, <2>3 DEF Agents
<1> QED
  BY <1>2, <1>3 DEF Agents

LEMMA IngestInit == Init => IngestInv
  BY GraphAssumption
  DEF Init, LockInit, NoJob, IngestInv, WorkerHolds, ResultOfBody,
      WritesApart, HolderNewest, IngestExclusive, Agents

\* A step that lets no worker enter its body and leaves the labelled vertices
\* and the transactions of workers in flight alone keeps the holder's rights.
LEMMA KeepsHolder ==
    ASSUME IngestInv,
           \A w \in Workers : phase'[w] = "body" =>
              /\ phase[w] = "body" /\ token'[w] = token[w]
              /\ result'[w] = "ok" => result[w] = "ok" /\ job'[w] = job[w],
           \A v \in Labelled : version'[v] = version[v],
           \A r \in late' : r \in late \/ r.by \in Agents
    PROVE  HolderNewest' /\ IngestExclusive'
<1>1. HolderNewest'
  BY DEF IngestInv, HolderNewest, Agents
<1>2. IngestExclusive'
  <2> SUFFICES ASSUME NEW w \in Workers, phase'[w] = "body", result'[w] = "ok",
                      NEW v \in job'[w].nodes
               PROVE  version'[v] = token'[w]
    BY DEF IngestExclusive
  <2>1. v \in job[w].nodes /\ v \in Labelled
    BY DEF IngestInv, WritesApart
  <2> QED
    BY <2>1 DEF IngestInv, IngestExclusive
<1> QED
  BY <1>1, <1>2

LEMMA IngestStep ==
    LockInv /\ GraphTypeOK /\ HoldersOwn /\ IngestInv /\ [CalmGraphNext]_vars
        => IngestInv'
<1> SUFFICES ASSUME LockInv, GraphTypeOK, HoldersOwn, IngestInv,
                    [CalmGraphNext]_vars
             PROVE  IngestInv'
  OBVIOUS
<1> USE GraphAssumption, LockAssumption
<1>0. /\ phase \in [Clients -> Phases]
      /\ names \in [Clients -> NameSeqs \cup {<<>>}]
      /\ held \in [Clients -> 0..2]
      /\ token \in [Clients -> Nat]
      /\ result \in [Clients -> {"none", "ok", "conflict", "failed"}]
      /\ job \in [Clients -> Jobs]
      /\ counter \in Nat
      /\ \A c \in Clients : phase[c] = "body" => token[c] \in 1..counter
      /\ \A c \in Clients : phase[c] = "idle" => held[c] = 0
      /\ Agents \subseteq Clients /\ Workers \subseteq Clients
      /\ Workers \cap Agents = {} /\ Clients = Workers \cup Agents
  <2>1. ASSUME NEW c \in Clients
        PROVE  /\ phase[c] = "body" => token[c] \in 1..counter
               /\ phase[c] = "idle" => held[c] = 0
    <3>1. phase[c] = "body" => token[c] \in 1..counter
      <4>1. token[c] \in Nat /\ counter \in Nat /\ token[c] <= counter
        BY DEF LockInv, LockTypeOK, CallShape
      <4>2. phase[c] = "body" => token[c] > 0
        BY DEF LockInv, CallShape
      <4> QED
        BY <4>1, <4>2
    <3>2. phase[c] = "idle" => held[c] = 0
      BY DEF LockInv, CallShape
    <3> QED
      BY <3>1, <3>2
  <2>2. /\ Agents \subseteq Clients /\ Workers \subseteq Clients
        /\ Workers \cap Agents = {} /\ Clients = Workers \cup Agents
    BY DEF Agents
  <2> QED
    BY <2>1, <2>2 DEF LockInv, LockTypeOK, GraphTypeOK, Jobs
<1>1. ASSUME UNCHANGED <<phase, names, held, token, job, result, version>>,
             \A r \in late' : r \in late
      PROVE  IngestInv'
  <2>1. WorkerHolds' /\ ResultOfBody' /\ WritesApart'
    <3>1. WorkerHolds'
      BY <1>1 DEF IngestInv, WorkerHolds
    <3>2. ResultOfBody'
      BY <1>1 DEF IngestInv, ResultOfBody
    <3>3. WritesApart'
      BY <1>1 DEF IngestInv, WritesApart
    <3> QED
      BY <3>1, <3>2, <3>3
  <2>2. HolderNewest' /\ IngestExclusive'
    BY <1>1, KeepsHolder
  <2> QED
    BY <2>1, <2>2 DEF IngestInv
<1>2. CASE Submit
  <2>1. CASE \E w \in Workers, x \in Extractions : Ingest(w, x)
    <3>1. PICK w \in Workers, x \in Extractions : Ingest(w, x)
      BY <2>1
    <3>2. /\ phase[w] = "idle" /\ phase'[w] = "acquire"
          /\ names'[w] = <<GlobalIngest>> /\ job'[w] = x
          /\ \A c \in Clients : c # w =>
                /\ phase'[c] = phase[c] /\ names'[c] = names[c]
                /\ job'[c] = job[c]
          /\ UNCHANGED <<held, token, version, result, late>>
      BY <1>0, <3>1 DEF Ingest, NodeLock, Start
    <3>3. x.nodes \subseteq Labelled
      BY DEF GraphExtractions, Labelled
    <3>4. WorkerHolds' /\ ResultOfBody' /\ WritesApart'
      <4>1. WorkerHolds'
        BY <1>0, <3>2 DEF IngestInv, WorkerHolds
      <4>2. ResultOfBody'
        BY <1>0, <3>2 DEF IngestInv, ResultOfBody
      <4>3. WritesApart'
        <5>1. \A w1 \in Workers : job'[w1].nodes \subseteq Labelled
          BY <1>0, <3>2, <3>3 DEF IngestInv, WritesApart
        <5>2. \A a1 \in Agents : job'[a1].nodes \cap Labelled = {}
          BY <1>0, <3>2, <3>3 DEF IngestInv, WritesApart
        <5>3. \A r \in late' :
                  r.by \in Agents => r.job.nodes \cap Labelled = {}
          BY <3>2 DEF IngestInv, WritesApart
        <5> QED
          BY <5>1, <5>2, <5>3 DEF WritesApart
      <4> QED
        BY <4>1, <4>2, <4>3
    <3>5. HolderNewest' /\ IngestExclusive'
      BY <1>0, <3>2, KeepsHolder
    <3> QED
      BY <3>4, <3>5 DEF IngestInv
  <2>2. CASE \E a \in Agents, s, t \in Ids : WriteEdge(a, s, t)
    <3>1. PICK a \in Agents, s \in Ids, t \in Ids : WriteEdge(a, s, t)
      BY <2>2
    <3>2. /\ phase[a] = "idle" /\ phase'[a] = "acquire"
          /\ job'[a].nodes = {<<Dynamic, s>>, <<Dynamic, t>>}
          /\ \A c \in Clients : c # a =>
                /\ phase'[c] = phase[c] /\ names'[c] = names[c]
                /\ job'[c] = job[c]
          /\ UNCHANGED <<held, token, version, result, late>>
      BY <1>0, <3>1 DEF WriteEdge, EdgeLocks, Start
    <3>3. job'[a].nodes \cap Labelled = {}
      <4>1. \A v \in Labelled : v[1] # Dynamic
        BY DEF Labelled
      <4> QED
        BY <3>2, <4>1
    <3>4. WorkerHolds' /\ ResultOfBody' /\ WritesApart'
      <4>1. WorkerHolds'
        BY <1>0, <3>2 DEF IngestInv, WorkerHolds
      <4>2. ResultOfBody'
        BY <1>0, <3>2 DEF IngestInv, ResultOfBody
      <4>3. WritesApart'
        <5>1. \A w1 \in Workers : job'[w1].nodes \subseteq Labelled
          BY <1>0, <3>2, <3>3 DEF IngestInv, WritesApart
        <5>2. \A a1 \in Agents : job'[a1].nodes \cap Labelled = {}
          BY <1>0, <3>2, <3>3 DEF IngestInv, WritesApart
        <5>3. \A r \in late' :
                  r.by \in Agents => r.job.nodes \cap Labelled = {}
          BY <3>2 DEF IngestInv, WritesApart
        <5> QED
          BY <5>1, <5>2, <5>3 DEF WritesApart
      <4> QED
        BY <4>1, <4>2, <4>3
    <3>5. HolderNewest' /\ IngestExclusive'
      BY <1>0, <3>2, KeepsHolder
    <3> QED
      BY <3>4, <3>5 DEF IngestInv
  <2> QED
    BY <1>2, <2>1, <2>2 DEF Submit
<1>3. ASSUME NEW c \in Clients, Acquire(c), UNCHANGED graphVars
      PROVE  IngestInv'
  <2>1. /\ phase[c] = "acquire" /\ held'[c] = held[c] + 1
        /\ phase'[c] = IF held[c] + 1 = Len(names[c]) THEN "incr" ELSE "acquire"
        /\ \A d \in Clients : d # c =>
              phase'[d] = phase[d] /\ held'[d] = held[d]
        /\ UNCHANGED <<names, token, job, result, version, late>>
    BY <1>0, <1>3 DEF Acquire, graphVars
  <2>2. held[c] < Len(names[c])
    BY <2>1 DEF LockInv, CallShape
  <2>3. c \in Workers /\ phase'[c] = "incr" => held'[c] = 1
    <3> SUFFICES ASSUME c \in Workers, phase'[c] = "incr"
                 PROVE  held'[c] = 1
      OBVIOUS
    <3>1. names[c] = <<GlobalIngest>>
      BY <2>1 DEF IngestInv, WorkerHolds
    <3> QED
      BY <1>0, <2>1, <2>2, <3>1
  <2>4. WorkerHolds' /\ ResultOfBody' /\ WritesApart'
    <3>1. WorkerHolds'
      BY <1>0, <2>1, <2>3 DEF IngestInv, WorkerHolds
    <3>2. ResultOfBody'
      BY <1>0, <2>1 DEF IngestInv, ResultOfBody
    <3>3. WritesApart'
      BY <2>1 DEF IngestInv, WritesApart
    <3> QED
      BY <3>1, <3>2, <3>3
  <2>5. HolderNewest' /\ IngestExclusive'
    BY <1>0, <2>1, KeepsHolder
  <2> QED
    BY <2>4, <2>5 DEF IngestInv
<1>4. ASSUME NEW c \in Clients, IssueToken(c), UNCHANGED graphVars
      PROVE  IngestInv'
  <2>1. /\ phase[c] = "incr" /\ phase'[c] = "body" /\ token'[c] = counter + 1
        /\ result[c] = "none"
        /\ \A d \in Clients : d # c =>
              phase'[d] = phase[d] /\ token'[d] = token[d]
        /\ UNCHANGED <<names, held, job, result, version, late>>
    BY <1>0, <1>4 DEF IssueToken, graphVars, IngestInv, ResultOfBody
  <2>2. WorkerHolds' /\ ResultOfBody' /\ WritesApart'
    <3>1. WorkerHolds'
      BY <1>0, <2>1 DEF IngestInv, WorkerHolds
    <3>2. ResultOfBody'
      BY <1>0, <2>1 DEF IngestInv, ResultOfBody
    <3>3. WritesApart'
      BY <2>1 DEF IngestInv, WritesApart
    <3> QED
      BY <3>1, <3>2, <3>3
  <2>3. /\ \A v \in Labelled : version[v] \in Int /\ version[v] <= counter
        /\ \A r \in late : r.token \in Int /\ r.token <= counter
    BY <1>0, LabelledVertices DEF GraphTypeOK, Elements
  <2>4. HolderNewest'
    <3> SUFFICES ASSUME NEW w \in Workers, phase'[w] = "body"
                 PROVE  /\ \A v \in Labelled : version[v] <= token'[w]
                        /\ \A r \in late :
                              r.by \in Workers => r.token <= token'[w]
      BY <2>1 DEF HolderNewest
    <3>1. CASE w = c
      BY <1>0, <2>1, <2>3, <3>1
    <3>2. CASE w # c
      BY <1>0, <2>1, <3>2 DEF IngestInv, HolderNewest
    <3> QED
      BY <3>1, <3>2
  <2>5. IngestExclusive'
    BY <1>0, <2>1 DEF IngestInv, IngestExclusive
  <2> QED
    BY <2>2, <2>4, <2>5 DEF IngestInv
<1>5. ASSUME NEW c \in Clients,
             AcquireTimeout(c) \/ LeaveBody(c) \/ Release(c),
             UNCHANGED graphVars
      PROVE  IngestInv'
  <2>1. /\ phase'[c] = "release"
        /\ \A d \in Clients : d # c =>
              phase'[d] = phase[d] /\ held'[d] = held[d]
        /\ UNCHANGED <<names, token, job, result, version, late>>
    BY <1>0, <1>5 DEF AcquireTimeout, LeaveBody, Release, graphVars
  <2>2. WorkerHolds' /\ ResultOfBody' /\ WritesApart'
    <3>1. WorkerHolds'
      BY <1>0, <2>1 DEF IngestInv, WorkerHolds
    <3>2. ResultOfBody'
      BY <1>0, <2>1 DEF IngestInv, ResultOfBody
    <3>3. WritesApart'
      BY <2>1 DEF IngestInv, WritesApart
    <3> QED
      BY <3>1, <3>2, <3>3
  <2>3. HolderNewest' /\ IngestExclusive'
    BY <1>0, <2>1, KeepsHolder
  <2> QED
    BY <2>2, <2>3 DEF IngestInv
<1>6. ASSUME NEW c \in Clients, Return(c), Reset(c), UNCHANGED late
      PROVE  IngestInv'
  <2>1. /\ phase'[c] = "idle" /\ result'[c] = "none" /\ job'[c] = NoJob
        /\ \A d \in Clients : d # c =>
              /\ phase'[d] = phase[d] /\ held'[d] = held[d]
              /\ names'[d] = names[d] /\ token'[d] = token[d]
              /\ job'[d] = job[d] /\ result'[d] = result[d]
        /\ UNCHANGED <<version, late>>
    BY <1>0, <1>6 DEF Return, Forget, Reset, End
  <2>2. WorkerHolds' /\ ResultOfBody' /\ WritesApart'
    <3>1. WorkerHolds'
      BY <1>0, <2>1 DEF IngestInv, WorkerHolds
    <3>2. ResultOfBody'
      BY <1>0, <2>1 DEF IngestInv, ResultOfBody
    <3>3. WritesApart'
      <4>1. job'[c].nodes = {}
        BY <2>1 DEF NoJob
      <4>2. \A w \in Workers : job'[w].nodes \subseteq Labelled
        BY <1>0, <2>1, <4>1 DEF IngestInv, WritesApart
      <4>3. \A a \in Agents : job'[a].nodes \cap Labelled = {}
        BY <1>0, <2>1, <4>1 DEF IngestInv, WritesApart
      <4>4. \A r \in late' :
                r.by \in Agents => r.job.nodes \cap Labelled = {}
        BY <2>1 DEF IngestInv, WritesApart
      <4> QED
        BY <4>2, <4>3, <4>4 DEF WritesApart
    <3> QED
      BY <3>1, <3>2, <3>3
  <2>3. HolderNewest' /\ IngestExclusive'
    BY <1>0, <2>1, KeepsHolder
  <2> QED
    BY <2>2, <2>3 DEF IngestInv
<1>7. ASSUME NEW w \in Workers, Persist(w)
      PROVE  IngestInv'
  <2>1. /\ phase[w] = "body" /\ token[w] \in 1..counter /\ job[w] \in Jobs
        /\ version' = After(w, job[w], token[w])
        /\ \A d \in Clients : d # w => result'[d] = result[d]
        /\ UNCHANGED <<lockVars, job, late>>
    BY <1>0, <1>7 DEF Persist, InTransaction, After, End
  <2>2. WorkerHolds' /\ ResultOfBody' /\ WritesApart'
    <3>1. WorkerHolds'
      BY <1>0, <2>1 DEF IngestInv, WorkerHolds, lockVars
    <3>2. ResultOfBody'
      BY <1>0, <2>1 DEF IngestInv, ResultOfBody, lockVars
    <3>3. WritesApart'
      BY <2>1 DEF IngestInv, WritesApart
    <3> QED
      BY <3>1, <3>2, <3>3
  <2>3. \A u \in Workers : phase[u] = "body" => u = w
    BY <2>1, OneWorker DEF IngestInv
  <2>4. \A v \in Labelled : version[v] <= token[w] /\ version[v] \in Int
    BY <2>1, LabelledVertices
    DEF IngestInv, HolderNewest, GraphTypeOK, Elements
  <2>5. \A v \in Labelled : version'[v] <= token[w]
    <3> TAKE v \in Labelled
    <3>1. \/ version'[v] = version[v]
          \/ version'[v] = token[w]
          \/ version'[v] = 0
      <4>1. v \in Elements /\ counter \in Nat
        BY <1>0, LabelledVertices
      <4>2. \/ After(w, job[w], token[w])[v] = version[v]
            \/ After(w, job[w], token[w])[v] = token[w]
            \/ After(w, job[w], token[w])[v] = 0
        BY <2>1, <4>1, AfterVersions
      <4> QED
        BY <2>1, <4>2
    <3> QED
      BY <2>1, <2>4, <3>1
  <2>6. \A v \in job[w].nodes : version'[v] = token[w]
    <3> TAKE v \in job[w].nodes
    <3>1. v \in Labelled
      BY DEF IngestInv, WritesApart
    <3>2. version'[v] = IF version[v] < token[w] THEN token[w] ELSE version[v]
      BY <1>0, <2>1, <3>1, AfterLabelled
    <3> QED
      BY <2>1, <2>4, <3>1, <3>2
  <2>7. HolderNewest'
    BY <2>1, <2>3, <2>5 DEF IngestInv, HolderNewest, lockVars
  <2>8. IngestExclusive'
    BY <2>1, <2>3, <2>6 DEF IngestExclusive, lockVars
  <2> QED
    BY <2>2, <2>7, <2>8 DEF IngestInv
<1>8. ASSUME NEW a \in Agents, Mutate(a)
      PROVE  IngestInv'
  <2>1. /\ a \in Clients /\ phase[a] = "body" /\ token[a] \in 1..counter
        /\ job[a] \in Jobs
        /\ version' = After(a, job[a], token[a])
        /\ \A d \in Clients : d # a => result'[d] = result[d]
        /\ UNCHANGED <<lockVars, job, late>>
    BY <1>0, <1>8 DEF Mutate, InTransaction, After, End
  <2>2. WorkerHolds' /\ ResultOfBody' /\ WritesApart'
    <3>1. WorkerHolds'
      BY <1>0, <2>1 DEF IngestInv, WorkerHolds, lockVars
    <3>2. ResultOfBody'
      BY <1>0, <2>1 DEF IngestInv, ResultOfBody, lockVars
    <3>3. WritesApart'
      BY <2>1 DEF IngestInv, WritesApart
    <3> QED
      BY <3>1, <3>2, <3>3
  <2>3. \A v \in Labelled : version'[v] = version[v]
    BY <1>0, <2>1, AfterLabelled DEF IngestInv, WritesApart
  <2>4. HolderNewest' /\ IngestExclusive'
    BY <1>0, <2>1, <2>3, KeepsHolder DEF lockVars
  <2> QED
    BY <2>2, <2>4 DEF IngestInv
<1>9. ASSUME NEW c \in Clients, Retry(c) \/ Fails(c)
      PROVE  IngestInv'
  <2>1. /\ phase[c] = "body" /\ result'[c] # "ok"
        /\ \A r \in late' :
              \/ r \in late
              \/ r = [by |-> c, job |-> job[c], token |-> token[c]]
        /\ \A d \in Clients : d # c => result'[d] = result[d]
        /\ UNCHANGED <<lockVars, job, version>>
    BY <1>0, <1>9 DEF Retry, Fails, InTransaction, Lose, End
  <2>2. WorkerHolds' /\ ResultOfBody' /\ WritesApart'
    <3>1. WorkerHolds'
      BY <1>0, <2>1 DEF IngestInv, WorkerHolds, lockVars
    <3>2. ResultOfBody'
      BY <1>0, <2>1 DEF IngestInv, ResultOfBody, lockVars
    <3>3. WritesApart'
      BY <2>1 DEF IngestInv, WritesApart
    <3> QED
      BY <3>1, <3>2, <3>3
  <2>3. CASE c \in Agents
    <3>1. HolderNewest' /\ IngestExclusive'
      BY <1>0, <2>1, <2>3, KeepsHolder DEF lockVars
    <3> QED
      BY <2>2, <3>1 DEF IngestInv
  <2>4. CASE c \in Workers
    <3>1. \A u \in Workers : phase[u] = "body" => u = c
      BY <2>1, <2>4, OneWorker DEF IngestInv
    <3>2. HolderNewest'
      BY <1>0, <2>1, <3>1 DEF IngestInv, HolderNewest, lockVars
    <3>3. IngestExclusive'
      BY <2>1, <3>1 DEF IngestExclusive, lockVars
    <3> QED
      BY <2>2, <3>2, <3>3 DEF IngestInv
  <2> QED
    BY <1>0, <2>3, <2>4
<1>10. CASE ApplyLate
  <2>1. PICK r \in late : /\ version' = After(r.by, r.job, r.token)
                          /\ late' = late \ {r}
                          /\ UNCHANGED <<lockVars, job, attempts, result>>
    BY <1>10 DEF ApplyLate
  <2>2. r.by \in Clients /\ r.job \in Jobs /\ r.token \in 1..counter
    BY <2>1 DEF GraphTypeOK, Jobs
  <2>3. WorkerHolds' /\ ResultOfBody' /\ WritesApart'
    <3>1. WorkerHolds'
      BY <1>0, <2>1 DEF IngestInv, WorkerHolds, lockVars
    <3>2. ResultOfBody'
      BY <1>0, <2>1 DEF IngestInv, ResultOfBody, lockVars
    <3>3. WritesApart'
      BY <2>1 DEF IngestInv, WritesApart
    <3> QED
      BY <3>1, <3>2, <3>3
  <2>4. CASE r.by \in Agents
    <3>1. \A v \in Labelled : version'[v] = version[v]
      <4>1. counter \in Nat /\ GraphTypeOK
        BY <1>0
      <4>2. r.job.nodes \cap Labelled = {}
        BY <2>4 DEF IngestInv, WritesApart
      <4> QED
        BY <2>1, <2>2, <2>4, <4>1, <4>2, AfterLabelled
    <3>2. HolderNewest' /\ IngestExclusive'
      BY <1>0, <2>1, <3>1, KeepsHolder DEF lockVars
    <3> QED
      BY <2>3, <3>2 DEF IngestInv
  <2>5. CASE r.by \in Workers
    <3>1. \A v \in Labelled :
             /\ version[v] \in Int
             /\ \/ version'[v] = version[v]
                \/ version[v] < r.token /\ version'[v] = r.token
                \/ version[v] = -1 /\ version'[v] = 0
      <4> TAKE v \in Labelled
      <4>1. v \in Elements /\ version[v] \in Int /\ counter \in Nat
        BY <1>0, LabelledVertices DEF GraphTypeOK, Elements
      <4> QED
        BY <2>1, <2>2, <4>1, AfterVersions
    <3>2. \A w \in Workers : phase[w] = "body" =>
             /\ r.token <= token[w] /\ token[w] \in 1..counter
             /\ \A v \in Labelled : version[v] <= token[w]
      BY <1>0, <2>5 DEF IngestInv, HolderNewest
    <3>3. HolderNewest'
      <4> SUFFICES ASSUME NEW w \in Workers, phase[w] = "body"
                   PROVE  /\ \A v \in Labelled : version'[v] <= token[w]
                          /\ \A q \in late : q.by \in Workers => q.token <= token[w]
        BY <2>1 DEF HolderNewest, lockVars
      <4>1. \A v \in Labelled : version'[v] <= token[w]
        BY <2>2, <3>1, <3>2
      <4> QED
        BY <4>1 DEF IngestInv, HolderNewest
    <3>4. IngestExclusive'
      <4> SUFFICES ASSUME NEW w \in Workers, phase[w] = "body",
                          result[w] = "ok", NEW v \in job[w].nodes
                   PROVE  version'[v] = token[w]
        BY <2>1 DEF IngestExclusive, lockVars
      <4>1. version[v] = token[w] /\ v \in Labelled
        BY DEF IngestInv, IngestExclusive, WritesApart
      <4> QED
        BY <2>2, <3>1, <3>2, <4>1
    <3> QED
      BY <2>3, <3>3, <3>4 DEF IngestInv
  <2> QED
    BY <1>0, <2>2, <2>4, <2>5
<1>11. ASSUME NEW c \in Clients, LockStep(c)
       PROVE  IngestInv'
  BY <1>1, <1>3, <1>4, <1>5, <1>11
  DEF LockStep, EdgeLocksRefused, graphVars, lockVars
<1>12. ASSUME NEW c \in Clients, Transact(c)
       PROVE  IngestInv'
  BY <1>5, <1>7, <1>8, <1>9, <1>12 DEF Transact, Persist, Mutate, Leave
<1>13. CASE UNCHANGED vars
  BY <1>1, <1>13 DEF vars, graphVars, lockVars
<1> QED
  BY <1>2, <1>6, <1>10, <1>11, <1>12, <1>13 DEF CalmGraphNext

\* Between a worker's commit and the end of its body nobody touches the
\* vertices it wrote: the other workers wait for the lock it owns, what they
\* left in flight is older, and agents write other vertices.
THEOREM CalmIngestExclusive == CalmSpec => []IngestExclusive
<1>1. LockInv /\ GraphTypeOK /\ HoldersOwn /\ IngestInv /\ [CalmGraphNext]_vars
        => IngestInv'
  BY IngestStep
<1>2. IngestInv => IngestExclusive
  BY DEF IngestInv
<1> QED
  BY <1>1, <1>2, IngestInit, HoldersOwnInvariant, PTL DEF CalmSpec

---------------------------------------------------------------------------
\* The steps that a call has left, at most, with the attempts that its worker
\* may still make.
WriteRank(c) ==
    CASE phase[c] = "acquire" -> MaxAttempts + 7 - held[c]
      [] phase[c] = "incr"    -> MaxAttempts + 5
      [] InTransaction(c)     -> MaxAttempts + 4 - attempts[c]
      [] phase[c] = "body" /\ result[c] # "none" -> 4
      [] phase[c] = "release" -> 1 + held[c]
      [] OTHER                -> 0

\* A write ends within MaxAttempts + 7 steps of its client, however often
\* Neo4j fails and whatever leases end and transactions land late in between
\* (database.py:111-116, concurrency.py:40-102).
WritesShrink ==
    [][\A c \in Clients : phase[c] # "idle" =>
          /\ WriteRank(c)' <= WriteRank(c)
          /\ Proceed(c) \/ LockFailure(c) \/ Die(c) =>
                WriteRank(c)' < WriteRank(c)]_vars

\* Every step of a write brings its end nearer, for any number of attempts:
\* each action lowers the rank of its own call and writes nothing that the
\* rank of another is read from.
THEOREM WritesAreBounded == Spec => WritesShrink
<1> DEFINE Shrinks(c) ==
        phase[c] # "idle" =>
          /\ WriteRank(c)' <= WriteRank(c)
          /\ Proceed(c) \/ LockFailure(c) \/ Die(c) =>
                WriteRank(c)' < WriteRank(c)
<1>1. ASSUME LockInv, GraphTypeOK, LockTypeOK', GraphTypeOK', Next,
             NEW c \in Clients, phase[c] # "idle"
      PROVE  Shrinks(c)
  <2> USE GraphAssumption
  <2>1. /\ phase \in [Clients -> Phases] /\ held \in [Clients -> 0..2]
        /\ attempts \in [Clients -> 0..(MaxAttempts - 1)]
        /\ result \in [Clients -> {"none", "ok", "conflict", "failed"}]
        /\ phase[c] = "acquire" => held[c] \in 0..1
        /\ MaxAttempts \in Nat \ {0}
    BY <1>1, WantedName DEF LockInv, LockTypeOK, GraphTypeOK
  <2>2. WriteRank(c) \in Nat
    BY <2>1 DEF WriteRank, InTransaction
  <2>3. WriteRank(c)' \in Nat
    <3>1. /\ phase'[c] \in Phases /\ held'[c] \in 0..2
          /\ attempts'[c] \in 0..(MaxAttempts - 1)
      BY <1>1 DEF LockTypeOK, GraphTypeOK
    <3> QED
      BY <2>1, <3>1 DEF WriteRank, InTransaction
  <2> DEFINE Less == WriteRank(c)' < WriteRank(c)
             Same == /\ phase'[c] = phase[c] /\ held'[c] = held[c]
                     /\ attempts'[c] = attempts[c] /\ result'[c] = result[c]
  <2>4. ASSUME NEW d \in Clients, LockStep(d) \/ LockFailure(d)
        PROVE  IF d = c THEN Less ELSE Same
    <3>1. attempts' = attempts /\ result' = result
      BY <2>4 DEF LockStep, LockFailure, graphVars
    <3>2. ASSUME d = c PROVE Less
      <4>1. CASE EdgeLocksRefused(c)
        BY <1>1, <4>1 DEF EdgeLocksRefused
      <4>2. CASE Acquire(c)
        BY <2>1, <3>1, <4>2 DEF Acquire, WriteRank, InTransaction
      <4>3. CASE AcquireTimeout(c)
        BY <2>1, <3>1, <4>3 DEF AcquireTimeout, WriteRank, InTransaction
      <4>4. CASE IssueToken(c)
        BY <2>1, <3>1, <4>4 DEF IssueToken, WriteRank, InTransaction
      <4>5. CASE Release(c)
        BY <2>1, <3>1, <4>5 DEF Release, WriteRank, InTransaction
      <4>6. CASE AcquireError(c)
        BY <2>1, <3>1, <4>6 DEF AcquireError, WriteRank, InTransaction
      <4>7. CASE IssueTokenError(c)
        BY <2>1, <3>1, <4>7 DEF IssueTokenError, WriteRank, InTransaction
      <4> QED
        BY <2>4, <3>2, <4>1, <4>2, <4>3, <4>4, <4>5, <4>6, <4>7
        DEF LockStep, LockFailure
    <3>3. CASE d # c
      <4>1. CASE LockStep(d)
        BY <2>1, <3>1, <3>3, <4>1 DEF LockStep, EdgeLocksRefused, Acquire,
           AcquireTimeout, IssueToken, Release, lockVars
      <4>2. CASE LockFailure(d)
        BY <2>1, <3>1, <3>3, <4>2 DEF LockFailure, AcquireError, IssueTokenError
      <4> QED
        BY <2>4, <3>3, <4>1, <4>2
    <3> QED
      BY <3>2, <3>3
  <2>5. ASSUME NEW d \in Clients, Transact(d)
        PROVE  IF d = c THEN Less ELSE Same
    <3>1. ASSUME d = c PROVE Less
      <4>1. CASE Persist(c)
        BY <2>1, <4>1 DEF Persist, End, WriteRank, InTransaction, lockVars
      <4>2. CASE Mutate(c)
        BY <2>1, <4>2 DEF Mutate, End, WriteRank, InTransaction, lockVars
      <4>3. CASE Retry(c)
        BY <2>1, <4>3 DEF Retry, WriteRank, InTransaction, lockVars
      <4>4. CASE Fails(c)
        BY <2>1, <4>4 DEF Fails, End, WriteRank, InTransaction, lockVars
      <4>5. CASE Leave(c)
        BY <2>1, <4>5
        DEF Leave, LeaveBody, WriteRank, InTransaction, graphVars
      <4> QED
        BY <2>5, <3>1, <4>1, <4>2, <4>3, <4>4, <4>5 DEF Transact
    <3>2. CASE d # c
      BY <2>1, <2>5, <3>2 DEF Transact, Persist, Mutate, Retry, Fails, Leave,
         LeaveBody, End, lockVars, graphVars
    <3> QED
      BY <3>1, <3>2
  <2>6. ASSUME NEW d \in Clients, Finish(d) \/ Die(d)
        PROVE  IF d = c THEN Less ELSE Same
    <3>1. phase' = [phase EXCEPT ![d] = "idle"]
      BY <2>6 DEF Finish, Die, Return, ReleaseError, Crash, Forget
    <3>2. CASE d = c
      <4>1. WriteRank(c)' = 0
        BY <2>1, <3>1, <3>2 DEF WriteRank, InTransaction
      <4>2. WriteRank(c) > 0
        BY <1>1, <2>1 DEF WriteRank, InTransaction, Phases
      <4> QED
        BY <3>2, <4>1, <4>2
    <3>3. CASE d # c
      BY <2>1, <2>6, <3>3
      DEF Finish, Die, Return, ReleaseError, Crash, Forget, Reset, End
    <3> QED
      BY <3>2, <3>3
  <2>7. ASSUME Submit PROVE Same
    <3>1. ASSUME NEW d \in Clients, NEW ns, Start(d, ns)
          PROVE  phase'[c] = phase[c] /\ held'[c] = held[c]
      BY <1>1, <2>1, <3>1 DEF Start
    <3>2. /\ \E d \in Clients : \E ns : Start(d, ns)
          /\ attempts' = attempts /\ result' = result
      <4>1. CASE \E w \in Workers, x \in Extractions : Ingest(w, x)
        BY <4>1 DEF Ingest, NodeLock
      <4>2. CASE \E a \in Agents, x, y \in Ids : WriteEdge(a, x, y)
        BY <4>2 DEF WriteEdge, EdgeLocks, Agents
      <4> QED
        BY <2>7, <4>1, <4>2 DEF Submit
    <3> QED
      BY <3>1, <3>2
  <2>8. ASSUME ApplyLate \/ LeaseEnds PROVE Same
    BY <2>8 DEF ApplyLate, LeaseEnds, Expire, graphVars, lockVars
  <2>9. Same => WriteRank(c)' = WriteRank(c)
    BY DEF WriteRank, InTransaction
  <2>10. Proceed(c) \/ LockFailure(c) \/ Die(c) => Less
    BY <2>4, <2>5, <2>6 DEF Proceed
  <2>11. Less \/ Same
    BY <1>1, <2>4, <2>5, <2>6, <2>7, <2>8 DEF Next
  <2> HIDE DEF Same
  <2> QED
    BY <2>2, <2>3, <2>9, <2>10, <2>11
<1>2. LockInv /\ GraphTypeOK /\ LockTypeOK' /\ GraphTypeOK' /\ [Next]_vars
        => [\A c \in Clients : Shrinks(c)]_vars
  BY <1>1
<1>3. LockInv => LockTypeOK
  BY DEF LockInv
<1> QED
  BY <1>2, <1>3, LocksInvariant, GraphTypeCorrect, PTL DEF Spec, WritesShrink
===========================================================================
