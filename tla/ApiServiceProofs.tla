------------------------- MODULE ApiServiceProofs -------------------------
(***************************************************************************)
(* The bound on the overshoot of RateLimiter, and the safety properties of *)
(* ApiService, for any number of overlapping requests of any kinds, any    *)
(* limit, window and tools.                                                *)
(***************************************************************************)
EXTENDS ApiService, FiniteSetTheorems, TLAPS

---------------------------------------------------------------------------
(* The limiter on its own.                                                 *)

\* Once the limit is reached no request passes, and each that passed before
\* adds at most one; the one that reached it no longer counts.
RoomForCounting ==
    count >= Limit =>
        count + Cardinality(Counting) < Limit + Cardinality(Requests)

LimiterInv ==
    /\ LimiterTypeOK
    /\ CountExpires
    /\ RoomForCounting

LEMMA CountingIsFinite ==
    /\ IsFiniteSet(Counting)
    /\ Cardinality(Counting) \in Nat
    /\ Cardinality(Requests) \in Nat
    /\ Cardinality(Counting) <= Cardinality(Requests)
  BY LimiterAssumption, FS_Subset, FS_CardinalityType DEF Counting

LEMMA LimiterInitInv == LimiterInit => LimiterInv
  BY LimiterAssumption
  DEF LimiterInit, LimiterInv, LimiterTypeOK, CountExpires, RoomForCounting

\* When a request has been answered, one fewer is counting.
LEMMA OneFewerCounting ==
    ASSUME LimiterTypeOK, NEW r \in Requests, phase[r] = "counting", Done(r)
    PROVE  Cardinality(Counting') = Cardinality(Counting) - 1
<1>1. Counting' = Counting \ {r} /\ r \in Counting
  BY DEF Done, Counting, LimiterTypeOK
<1> QED
  BY <1>1, CountingIsFinite, FS_RemoveElement

LEMMA LimiterStepInv == LimiterInv /\ [LimiterNext]_limiterVars => LimiterInv'
<1> SUFFICES ASSUME LimiterInv, [LimiterNext]_limiterVars
             PROVE  LimiterInv'
  OBVIOUS
<1> USE LimiterAssumption DEF LimiterInv
<1>1. ASSUME NEW r \in Requests, Pass(r)
      PROVE  LimiterInv'
  BY <1>1 DEF Pass, LimiterTypeOK, CountExpires, RoomForCounting
<1>2. ASSUME NEW r \in Requests, Refuse(r)
      PROVE  LimiterInv'
  BY <1>2 DEF Refuse, limiterVars, LimiterTypeOK, CountExpires, RoomForCounting,
              Counting
<1>3. ASSUME NEW r \in Requests, phase[r] = "counting", Counted, Done(r)
      PROVE  LimiterInv'
  <2>1. LimiterTypeOK' /\ CountExpires'
    BY <1>3 DEF Counted, Done, LimiterTypeOK, CountExpires
  <2>2. Cardinality(Counting') = Cardinality(Counting) - 1
    BY <1>3, OneFewerCounting
  <2>3. count + 1 + Cardinality(Counting') = count + Cardinality(Counting)
    BY <2>2, CountingIsFinite DEF LimiterTypeOK
  <2>4. RoomForCounting'
    BY <1>3, <2>2, <2>3, CountingIsFinite
    DEF Counted, RoomForCounting, LimiterTypeOK
  <2> QED
    BY <2>1, <2>4
<1>4. ASSUME NEW r \in Requests, phase[r] = "counting", Done(r),
             UNCHANGED <<count, ttl>>
      PROVE  LimiterInv'
  <2>1. LimiterTypeOK' /\ CountExpires'
    BY <1>4 DEF Done, LimiterTypeOK, CountExpires
  <2>2. Cardinality(Counting') = Cardinality(Counting) - 1
    BY <1>4, OneFewerCounting
  <2> QED
    BY <1>4, <2>1, <2>2, CountingIsFinite DEF RoomForCounting, LimiterTypeOK
<1>5. CASE Tick
  <2>1. LimiterTypeOK' /\ CountExpires'
    BY <1>5 DEF Tick, LimiterTypeOK, CountExpires
  <2>2. RoomForCounting'
    BY <1>5 DEF Tick, RoomForCounting, LimiterTypeOK, Counting
  <2> QED
    BY <2>1, <2>2
<1>6. ASSUME NEW r \in Requests, PassUnchecked(r)
      PROVE  LimiterInv'
  BY <1>6 DEF PassUnchecked, limiterVars, LimiterTypeOK, CountExpires,
              RoomForCounting, Counting
<1>7. ASSUME NEW R \in SUBSET Requests, Abandon(R)
      PROVE  LimiterInv'
  <2>1. LimiterTypeOK' /\ CountExpires'
    BY <1>7 DEF Abandon, LimiterTypeOK, CountExpires
  <2>2. Counting' \subseteq Counting
    BY <1>7 DEF Abandon, Counting, LimiterTypeOK
  <2>3. /\ Cardinality(Counting') \in Nat
        /\ Cardinality(Counting') <= Cardinality(Counting)
    BY <2>2, CountingIsFinite, FS_Subset, FS_CardinalityType
  <2> QED
    BY <1>7, <2>1, <2>3, CountingIsFinite
    DEF Abandon, RoomForCounting, LimiterTypeOK
<1>8. CASE UNCHANGED limiterVars
  BY <1>8 DEF limiterVars, LimiterTypeOK, CountExpires, RoomForCounting, Counting
<1> QED
  BY <1>1, <1>2, <1>3, <1>4, <1>5, <1>6, <1>7, <1>8
  DEF LimiterNext, Arrive, Proceed, Count, FailOpen

LEMMA LimiterInvariance == LimiterSpec => []LimiterInv
  BY LimiterInitInv, LimiterStepInv, PTL DEF LimiterSpec

\* The key of a tenant always has an expiry (main.py:67-70).
THEOREM CountsExpire == LimiterSpec => [](LimiterTypeOK /\ CountExpires)
<1>1. LimiterInv => LimiterTypeOK /\ CountExpires
  BY DEF LimiterInv
<1> QED
  BY <1>1, LimiterInvariance, PTL

\* The overshoot is below the number of overlapping requests, whatever the
\* limit (main.py:59-70).
THEOREM OvershootIsBounded == LimiterSpec => []BoundedOvershoot
<1>1. LimiterInv => BoundedOvershoot
  BY LimiterAssumption, CountingIsFinite
  DEF LimiterInv, LimiterTypeOK, RoomForCounting, BoundedOvershoot
<1> QED
  BY <1>1, LimiterInvariance, PTL

---------------------------------------------------------------------------
(* The service around it.                                                  *)

\* The requests of the service meet the limiter as LimiterSpec says: a
\* restart abandons those that have not been counted.
THEOREM ServiceImplementsLimiter == ApiSpec => LimiterSpec
<1>1. Init => LimiterInit
  BY DEF Init
<1>2. [Next]_vars => [LimiterNext]_limiterVars
  <2> SUFFICES ASSUME Next
               PROVE  LimiterNext \/ UNCHANGED limiterVars
    BY DEF vars
  <2>1. CASE Startup
    BY <2>1 DEF Startup, Verified, Pinged, StartupFails
  <2>2. ASSUME NEW r \in Requests, NEW cert \in Certificates, Arrives(r, cert)
        PROVE  UNCHANGED limiterVars
    BY <2>2 DEF Arrives, Unidentified, Enter, vars
  <2>3. ASSUME NEW r \in Requests, Limited(r)
        PROVE  LimiterNext
    BY <2>3 DEF Limited, FindsRoom, TooMany, GetFails, Admit, Arrive, LimiterNext
  <2>4. ASSUME NEW r \in Requests,
               \/ Receive(r) \/ Serve(r)
               \/ ChecksEnd(r) \/ CloseSession(r) \/ SessionEnds(r)
               \/ \E tool \in Tools : ToolEnds(r, tool)
        PROVE  UNCHANGED limiterVars
    BY <2>4 DEF Receive, Post, PostRefused, Serve, ReportHealth, OpenSession,
       PostLost, CallTool, AnswerAtOnce, ChecksEnd, CloseSession, SessionEnds,
       ToolEnds
  <2>5. CASE Restart
    <3>1. Abandon(Counting) /\ Counting \in SUBSET Requests
      BY <2>5 DEF Restart, Counting
    <3> QED
      BY <3>1 DEF LimiterNext
  <2>6. CASE Clock
    BY <2>6 DEF Clock, LimiterNext
  <2> QED
    BY <2>1, <2>2, <2>3, <2>4, <2>5, <2>6 DEF Next
<1> QED
  BY <1>1, <1>2, PTL DEF ApiSpec, LimiterSpec

InFlight == {r \in Requests : IsAI(r) /\ at[r] \in Busy}

\* The gauge follows a request that changes its stage, if it is counted on its
\* way in and out.
LEMMA GaugeFollows ==
    ASSUME GaugeIsExact, at \in [Requests -> Stages],
           NEW r \in Requests, NEW stage, at' = [at EXCEPT ![r] = stage],
           \/ (at[r] \in Busy <=> stage \in Busy) /\ gauge' = gauge
           \/ ~IsAI(r) /\ gauge' = gauge
           \/ at[r] \notin Busy /\ stage \in Busy /\ Entered(r)
           \/ at[r] \in Busy /\ stage \notin Busy /\ Responded(r)
    PROVE  GaugeIsExact'
<1>1. gauge = Cardinality(InFlight) /\ IsFiniteSet(InFlight)
  BY LimiterAssumption, FS_Subset DEF GaugeIsExact, InFlight, Busy
<1>2. Cardinality(InFlight) \in Nat
  BY <1>1, FS_CardinalityType
<1>3. SUFFICES gauge' = Cardinality(InFlight')
  BY DEF GaugeIsExact, InFlight, Busy, IsAI
<1>4. CASE gauge' = gauge /\ (~IsAI(r) \/ (at[r] \in Busy <=> stage \in Busy))
  <2>1. InFlight' = InFlight
    BY <1>4 DEF InFlight, IsAI
  <2> QED
    BY <1>1, <1>4, <2>1
<1>5. CASE IsAI(r) /\ at[r] \notin Busy /\ stage \in Busy /\ Entered(r)
  <2>1. InFlight' = InFlight \cup {r} /\ r \notin InFlight
    BY <1>5 DEF InFlight, IsAI
  <2>2. Cardinality(InFlight') = Cardinality(InFlight) + 1
    BY <1>1, <2>1, FS_AddElement
  <2> QED
    BY <1>1, <1>5, <2>2 DEF Entered
<1>6. CASE IsAI(r) /\ at[r] \in Busy /\ stage \notin Busy /\ Responded(r)
  <2>1. InFlight' = InFlight \ {r} /\ r \in InFlight
    BY <1>6 DEF InFlight, IsAI
  <2>2. Cardinality(InFlight') = Cardinality(InFlight) - 1
    BY <1>1, <2>1, FS_RemoveElement
  <2> QED
    BY <1>1, <1>6, <2>2 DEF Responded
<1> QED
  BY <1>4, <1>5, <1>6 DEF Entered, Responded

\* The inductive invariant: that of the limiter comes with LimiterInv.
ApiInv == ApiTypeOK /\ GaugeIsExact /\ WritesAreAdmins

LEMMA ApiInitInv == Init => ApiInv
<1> SUFFICES ASSUME Init
             PROVE  ApiInv
  OBVIOUS
<1> USE ApiAssumption DEF Init
<1>1. LimiterTypeOK
  BY LimiterInitInv DEF LimiterInv
<1>2. ApiTypeOK
  BY <1>1 DEF ApiTypeOK, LimiterInit, Stages
<1>3. GaugeIsExact
  <2>1. {r \in Requests : IsAI(r) /\ at[r] \in Busy} = {}
    BY DEF Busy
  <2> QED
    BY <2>1, FS_EmptySet DEF GaugeIsExact, Busy
<1>4. WritesAreAdmins
  BY DEF WritesAreAdmins
<1> QED
  BY <1>2, <1>3, <1>4 DEF ApiInv

LEMMA ApiStepInv ==
    LimiterInv /\ LimiterInv' /\ ApiInv /\ [Next]_vars => ApiInv'
<1> SUFFICES ASSUME LimiterInv, LimiterInv', ApiInv, [Next]_vars
             PROVE  ApiInv'
  OBVIOUS
<1> USE ApiAssumption
<1>0. /\ LimiterTypeOK /\ LimiterTypeOK'
      /\ phase \in [Requests -> {"idle", "counting"}]
      /\ life \in {"verify", "ping", "serving"}
      /\ toolDriver \in BOOLEAN
      /\ at \in [Requests -> Stages]
      /\ who \in [Requests -> {"user", "admin"}]
      /\ session \in [Requests -> Requests \cup {NoSession}]
      /\ tools \in [Requests -> SUBSET Tools]
      /\ waiting \in [Requests -> BOOLEAN]
      /\ \A r \in Requests :
            /\ at[r] = "limiter" <=> phase[r] = "counting"
            /\ tools[r] # {} => at[r] \in {"open", "closing"} /\ toolDriver
            /\ at[r] # "idle" => life = "serving"
            /\ session[r] # NoSession =>
                  at[r] = "posting" /\ at[session[r]] \in {"open", "closing"}
      /\ GaugeIsExact
      /\ \A s \in Requests : "write_graph_edge" \in tools[s] => who[s] = "admin"
  BY DEF LimiterInv, LimiterTypeOK, ApiInv, ApiTypeOK, Running, WritesAreAdmins
<1>1. CASE Startup
  <2>1. ApiTypeOK'
    <3>1. /\ UNCHANGED <<limiterVars, at, who, session, tools, waiting>>
          /\ toolDriver' \in {toolDriver, TRUE}
          /\ life' \in {"ping", "serving"} /\ life # "serving"
      BY <1>1 DEF Startup, Verified, Pinged, StartupFails
    <3> QED
      BY <1>0, <3>1 DEF limiterVars, ApiTypeOK
  <2>2. UNCHANGED <<at, who, gauge, tools>>
    BY <1>1 DEF Startup, Verified, Pinged, StartupFails
  <2>3. GaugeIsExact'
    BY <1>0, <2>2 DEF GaugeIsExact, IsAI
  <2>4. WritesAreAdmins'
    BY <1>0, <2>2 DEF WritesAreAdmins
  <2> QED
    BY <2>1, <2>3, <2>4 DEF ApiInv
<1>2. ASSUME UNCHANGED apiVars, phase' = phase
      PROVE  ApiInv'
  <2>1. ApiTypeOK'
    BY <1>0, <1>2 DEF apiVars, ApiTypeOK, Running
  <2>2. GaugeIsExact' /\ WritesAreAdmins'
    BY <1>0, <1>2 DEF apiVars, GaugeIsExact, WritesAreAdmins, IsAI
  <2> QED
    BY <2>1, <2>2 DEF ApiInv
<1>3. ASSUME NEW r \in Requests, NEW cert \in Certificates, Enter(r, cert)
      PROVE  ApiInv'
  <2>1. /\ at' = [at EXCEPT ![r] = "arrived"] /\ at[r] = "idle"
        /\ life = "serving" /\ Entered(r)
        /\ who' \in [Requests -> {"user", "admin"}]
        /\ \A u \in Requests : u # r => who'[u] = who[u]
        /\ UNCHANGED <<limiterVars, life, toolDriver, session, tools, waiting>>
    BY <1>0, <1>3 DEF Enter, Identify, Identified, Certificates, Goto
  <2>2. ApiTypeOK'
    BY <1>0, <2>1 DEF ApiTypeOK, Stages, Running, limiterVars
  <2>3. GaugeIsExact'
    BY <1>0, <2>1, GaugeFollows DEF Busy
  <2>4. WritesAreAdmins'
    BY <1>0, <2>1 DEF WritesAreAdmins
  <2> QED
    BY <2>2, <2>3, <2>4 DEF ApiInv
<1>4. ASSUME NEW r \in Requests, FindsRoom(r)
      PROVE  ApiInv'
  <2>1. /\ at' = [at EXCEPT ![r] = "limiter"] /\ at[r] = "arrived"
        /\ phase' = [phase EXCEPT ![r] = "counting"]
        /\ UNCHANGED <<life, toolDriver, who, gauge, session, tools, waiting>>
    BY <1>4 DEF FindsRoom, Pass, Goto
  <2>2. ApiTypeOK'
    BY <1>0, <2>1 DEF ApiTypeOK, Stages, Running
  <2>3. GaugeIsExact'
    BY <1>0, <2>1, GaugeFollows DEF Busy
  <2>4. WritesAreAdmins'
    BY <1>0, <2>1 DEF WritesAreAdmins
  <2> QED
    BY <2>2, <2>3, <2>4 DEF ApiInv
<1>5. ASSUME NEW r \in Requests, GetFails(r)
      PROVE  ApiInv'
  <2>1. /\ at' = [at EXCEPT ![r] = "handler"] /\ at[r] = "arrived"
        /\ waiting' \in [Requests -> BOOLEAN]
        /\ UNCHANGED <<limiterVars, life, toolDriver, who, gauge, session, tools>>
    BY <1>0, <1>5 DEF GetFails, PassUnchecked, Handle, Goto
  <2>2. ApiTypeOK'
    BY <1>0, <2>1 DEF ApiTypeOK, Stages, Running, limiterVars
  <2>3. GaugeIsExact'
    BY <1>0, <2>1, GaugeFollows DEF Busy
  <2>4. WritesAreAdmins'
    BY <1>0, <2>1 DEF WritesAreAdmins
  <2> QED
    BY <2>2, <2>3, <2>4 DEF ApiInv
<1>6. ASSUME NEW r \in Requests, Admit(r)
      PROVE  ApiInv'
  <2>1. /\ at' = [at EXCEPT ![r] = "handler"] /\ at[r] = "limiter"
        /\ phase' = [phase EXCEPT ![r] = "idle"]
        /\ waiting' \in [Requests -> BOOLEAN]
        /\ UNCHANGED <<life, toolDriver, who, gauge, session, tools>>
    BY <1>0, <1>6 DEF Admit, Proceed, Count, FailOpen, Done, Handle, Goto
  <2>2. ApiTypeOK'
    BY <1>0, <2>1 DEF ApiTypeOK, Stages, Running
  <2>3. GaugeIsExact'
    BY <1>0, <2>1, GaugeFollows DEF Busy
  <2>4. WritesAreAdmins'
    BY <1>0, <2>1 DEF WritesAreAdmins
  <2> QED
    BY <2>2, <2>3, <2>4 DEF ApiInv
<1>7. ASSUME NEW r \in Requests, ChecksEnd(r)
      PROVE  ApiInv'
  <2>1. ApiTypeOK'
    BY <1>0, <1>7 DEF ChecksEnd, limiterVars, ApiTypeOK, Running
  <2>2. GaugeIsExact' /\ WritesAreAdmins'
    BY <1>0, <1>7 DEF ChecksEnd, GaugeIsExact, WritesAreAdmins, IsAI
  <2> QED
    BY <2>1, <2>2 DEF ApiInv
<1>8. ASSUME NEW r \in Requests, ReportHealth(r)
      PROVE  ApiInv'
  <2>1. /\ at' = [at EXCEPT ![r] = "idle"] /\ at[r] = "handler"
        /\ who' = [who EXCEPT ![r] = "user"] /\ ~IsAI(r)
        /\ waiting' \in [Requests -> BOOLEAN]
        /\ UNCHANGED <<limiterVars, life, toolDriver, gauge, session, tools>>
    BY <1>0, <1>8 DEF ReportHealth, End, IsAI
  <2>2. ApiTypeOK'
    BY <1>0, <2>1 DEF ApiTypeOK, Stages, limiterVars, Running
  <2>3. GaugeIsExact'
    BY <1>0, <2>1, GaugeFollows
  <2>4. WritesAreAdmins'
    BY <1>0, <2>1 DEF WritesAreAdmins
  <2> QED
    BY <2>2, <2>3, <2>4 DEF ApiInv
<1>9. ASSUME NEW r \in Requests, OpenSession(r)
      PROVE  ApiInv'
  <2>1. /\ at' = [at EXCEPT ![r] = "open"] /\ at[r] = "handler"
        /\ Responded(r)
        /\ UNCHANGED <<limiterVars, life, toolDriver, who, session, tools,
                       waiting>>
    BY <1>9 DEF OpenSession, Goto
  <2>2. ApiTypeOK'
    BY <1>0, <2>1 DEF ApiTypeOK, Stages, limiterVars, Running
  <2>3. GaugeIsExact'
    BY <1>0, <2>1, GaugeFollows DEF Busy
  <2>4. WritesAreAdmins'
    BY <1>0, <2>1 DEF WritesAreAdmins
  <2> QED
    BY <2>2, <2>3, <2>4 DEF ApiInv
<1>10. ASSUME NEW s \in Requests, CloseSession(s)
       PROVE  ApiInv'
  <2>1. /\ at' = [at EXCEPT ![s] = "closing"] /\ at[s] = "open"
        /\ UNCHANGED <<limiterVars, life, toolDriver, who, gauge, session, tools,
                       waiting>>
    BY <1>10 DEF CloseSession, Goto
  <2>2. ApiTypeOK'
    BY <1>0, <2>1 DEF ApiTypeOK, Stages, Running, limiterVars
  <2>3. GaugeIsExact'
    BY <1>0, <2>1, GaugeFollows DEF Busy
  <2>4. WritesAreAdmins'
    BY <1>0, <2>1 DEF WritesAreAdmins
  <2> QED
    BY <2>2, <2>3, <2>4 DEF ApiInv
<1>11. ASSUME NEW s \in Requests, SessionEnds(s)
       PROVE  ApiInv'
  <2>1. /\ at' = [at EXCEPT ![s] = "idle"] /\ at[s] = "closing"
        /\ tools[s] = {}
        /\ who' = [who EXCEPT ![s] = "user"]
        /\ session' = [r \in Requests |-> IF session[r] = s THEN NoSession
                                                            ELSE session[r]]
        /\ UNCHANGED <<limiterVars, life, toolDriver, gauge, tools, waiting>>
    BY <1>11 DEF SessionEnds, End
  <2>2. ApiTypeOK'
    <3>1. \A r \in Requests : session'[r] # NoSession =>
             at'[r] = "posting" /\ session'[r] \in Running'
      BY <1>0, <2>1 DEF Running
    <3>2. \A r \in Requests : tools'[r] # {} => r \in Running'
      BY <1>0, <2>1 DEF Running
    <3> QED
      BY <1>0, <2>1, <3>1, <3>2 DEF ApiTypeOK, Stages, limiterVars
  <2>3. GaugeIsExact'
    BY <1>0, <2>1, GaugeFollows DEF Busy
  <2>4. WritesAreAdmins'
    BY <1>0, <2>1 DEF WritesAreAdmins
  <2> QED
    BY <2>2, <2>3, <2>4 DEF ApiInv
<1>12. ASSUME NEW r \in Requests, NEW s \in Requests, Post(r, s)
       PROVE  ApiInv'
  <2>1. /\ at' = [at EXCEPT ![r] = "posting"] /\ at[r] = "handler"
        /\ at[s] = "open"
        /\ session' = [session EXCEPT ![r] = s]
        /\ UNCHANGED <<limiterVars, life, toolDriver, who, gauge, tools, waiting>>
    BY <1>12 DEF Post, Goto, Sessions
  <2>2. ApiTypeOK'
    <3>1. \A q \in Requests : session'[q] # NoSession =>
             at'[q] = "posting" /\ session'[q] \in Running'
      BY <1>0, <2>1 DEF Stages, Running
    <3> QED
      BY <1>0, <2>1, <3>1 DEF ApiTypeOK, Stages, limiterVars, Running
  <2>3. GaugeIsExact'
    BY <1>0, <2>1, GaugeFollows DEF Busy
  <2>4. WritesAreAdmins'
    BY <1>0, <2>1 DEF WritesAreAdmins
  <2> QED
    BY <2>2, <2>3, <2>4 DEF ApiInv
<1>13. ASSUME NEW r \in Requests, PostRefused(r) \/ PostLost(r) \/ AnswerAtOnce(r)
       PROVE  ApiInv'
  <2>1. /\ at' = [at EXCEPT ![r] = "idle"]
        /\ at[r] \in {"handler", "posting"}
        /\ who' = [who EXCEPT ![r] = "user"]
        /\ Responded(r)
        /\ session' = [session EXCEPT ![r] = NoSession]
        /\ UNCHANGED <<limiterVars, life, toolDriver, tools, waiting>>
    BY <1>0, <1>13 DEF PostRefused, PostLost, AnswerAtOnce, End
  <2>2. ApiTypeOK'
    <3>1. \A q \in Requests : session'[q] # NoSession =>
             at'[q] = "posting" /\ session'[q] \in Running'
      BY <1>0, <2>1 DEF Running
    <3> QED
      BY <1>0, <2>1, <3>1 DEF ApiTypeOK, Stages, limiterVars, Running
  <2>3. GaugeIsExact'
    BY <1>0, <2>1, GaugeFollows DEF Busy
  <2>4. WritesAreAdmins'
    BY <1>0, <2>1 DEF WritesAreAdmins
  <2> QED
    BY <2>2, <2>3, <2>4 DEF ApiInv
<1>14. ASSUME NEW r \in Requests, NEW tool \in Tools, CallTool(r, tool)
       PROVE  ApiInv'
  <2> DEFINE s == session[r]
  <2>1. /\ at' = [at EXCEPT ![r] = "idle"] /\ at[r] = "posting"
        /\ who' = [who EXCEPT ![r] = "user"]
        /\ Responded(r)
        /\ session' = [session EXCEPT ![r] = NoSession]
        /\ s \in Requests /\ at[s] \in {"open", "closing"} /\ s # r
        /\ toolDriver
        /\ tool = "write_graph_edge" => who[s] = "admin"
        /\ tools' = [tools EXCEPT ![s] = @ \cup {tool}]
        /\ UNCHANGED <<limiterVars, life, toolDriver, waiting>>
    BY <1>0, <1>14 DEF CallTool, End, RoleOf
  <2> HIDE DEF s
  <2>2. ApiTypeOK'
    <3>1. \A q \in Requests : session'[q] # NoSession =>
             at'[q] = "posting" /\ session'[q] \in Running'
      BY <1>0, <2>1 DEF Running
    <3>2. tools' \in [Requests -> SUBSET Tools]
      BY <1>0, <2>1
    <3>3. \A q \in Requests : tools'[q] # {} => q \in Running'
      BY <1>0, <2>1 DEF Running
    <3> QED
      BY <1>0, <2>1, <3>1, <3>2, <3>3 DEF ApiTypeOK, Stages, limiterVars
  <2>3. GaugeIsExact'
    BY <1>0, <2>1, GaugeFollows DEF Busy
  <2>4. WritesAreAdmins'
    BY <1>0, <2>1 DEF WritesAreAdmins
  <2> QED
    BY <2>2, <2>3, <2>4 DEF ApiInv
<1>15. ASSUME NEW s \in Requests, NEW tool \in Tools, ToolEnds(s, tool)
       PROVE  ApiInv'
  <2>1. ApiTypeOK'
    BY <1>0, <1>15 DEF ToolEnds, limiterVars, ApiTypeOK, Running
  <2>2. GaugeIsExact'
    BY <1>0, <1>15 DEF ToolEnds, GaugeIsExact, IsAI
  <2>3. WritesAreAdmins'
    BY <1>0, <1>15 DEF ToolEnds, WritesAreAdmins
  <2> QED
    BY <2>1, <2>2, <2>3 DEF ApiInv
<1>16. CASE Restart
  <2>1. \A r \in Requests : phase'[r] = "idle"
    BY <1>0, <1>16 DEF Restart, Abandon, Counting
  <2>2. ApiTypeOK'
    BY <1>0, <1>16, <2>1 DEF Restart, ApiTypeOK, Stages, Running
  <2>3. GaugeIsExact'
    <3>1. {r \in Requests : IsAI(r)' /\ at'[r] \in Busy} = {}
      BY <1>16 DEF Restart, Busy
    <3> QED
      BY <1>16, <3>1, FS_EmptySet DEF Restart, GaugeIsExact, Busy, IsAI
  <2>4. WritesAreAdmins'
    BY <1>16 DEF Restart, WritesAreAdmins
  <2> QED
    BY <2>2, <2>3, <2>4 DEF ApiInv
<1>17. ASSUME NEW r \in Requests, TooMany(r)
       PROVE  ApiInv'
  <2>1. /\ at' = [at EXCEPT ![r] = "idle"] /\ at[r] = "arrived"
        /\ who' = [who EXCEPT ![r] = "user"] /\ Responded(r)
        /\ UNCHANGED <<limiterVars, life, toolDriver, session, tools, waiting>>
    BY <1>17 DEF TooMany, Refuse, End
  <2>2. ApiTypeOK'
    BY <1>0, <2>1 DEF ApiTypeOK, Stages, Running, limiterVars
  <2>3. GaugeIsExact'
    BY <1>0, <2>1, GaugeFollows DEF Busy
  <2>4. WritesAreAdmins'
    BY <1>0, <2>1 DEF WritesAreAdmins
  <2> QED
    BY <2>2, <2>3, <2>4 DEF ApiInv
<1>18. CASE Clock \/ UNCHANGED vars \/ \E r \in Requests, cert \in Certificates :
                                           Unidentified(r, cert)
  BY <1>2, <1>18 DEF Clock, Tick, Unidentified, vars, limiterVars
<1> QED
  BY <1>1, <1>3, <1>4, <1>5, <1>6, <1>7, <1>8, <1>9, <1>10, <1>11,
     <1>12, <1>13, <1>14, <1>15, <1>16, <1>17, <1>18
  DEF Next, Arrives, Limited, Receive, Serve

LEMMA ApiInvariance == ApiSpec => []ApiInv
<1>1. LimiterInv /\ LimiterInv' /\ ApiInv /\ [Next]_vars => ApiInv'
  BY ApiStepInv
<1>2. ApiSpec => []LimiterInv
  BY ServiceImplementsLimiter, LimiterInvariance, PTL
<1> QED
  BY <1>1, <1>2, ApiInitInv, PTL DEF ApiSpec

\* So the service as a whole keeps the limit as RateLimiter does: its counts
\* expire, and the overshoot is below the number of requests that overlap,
\* whatever else they do and whenever the process ends (main.py:58-70).
THEOREM ServiceKeepsLimit == ApiSpec => [](CountExpires /\ BoundedOvershoot)
  BY ServiceImplementsLimiter, CountsExpire, OvershootIsBounded, PTL

\* A request counts exactly while it is in the limiter; a session, with the role
\* in its context, lasts until its tools have ended, and tools run only in a process
\* with a driver (main.py:58-70, mcp.py:244, 310-327).
THEOREM ApiTypeCorrect == ApiSpec => []ApiTypeOK
<1>1. ApiInv => ApiTypeOK
  BY DEF ApiInv
<1> QED
  BY <1>1, ApiInvariance, PTL

\* Whichever way a request ends, it is counted out as often as in
\* (main.py:152-158).
THEOREM GaugeCorrect == ApiSpec => []GaugeIsExact
<1>1. ApiInv => GaugeIsExact
  BY DEF ApiInv
<1> QED
  BY <1>1, ApiInvariance, PTL

\* The role that a write needs is that of the identity which opened its session,
\* from the call to its end: no other request, the one that posts the call
\* included, lends it a role or takes it away (mcp.py:256-268, 314-327).
THEOREM WritersAreAdmins == ApiSpec => []WritesAreAdmins
<1>1. ApiInv => WritesAreAdmins
  BY DEF ApiInv
<1> QED
  BY <1>1, ApiInvariance, PTL
---------------------------------------------------------------------------
\* While a tenant is locked out, nothing but a request that had passed its GET
\* before restarts the window, each of them once: a refused or an uncounted
\* request does not, and the clock brings the end nearer
\* (main.py:59-70).
LockoutShrinks ==
    [][count >= Limit /\ count' >= Limit =>
          /\ Counting' \subseteq Counting
          /\ Counting' = Counting => ttl' <= ttl
          /\ Tick => ttl' < ttl]_limiterVars

\* A lockout only comes nearer its end: the safety half of LockoutEnds, for any
\* limit, window and number of overlapping requests.
THEOREM LockoutComesNearerItsEnd == LimiterSpec => LockoutShrinks
<1>1. ASSUME LimiterInv, [LimiterNext]_limiterVars, count >= Limit, count' >= Limit
      PROVE  /\ Counting' \subseteq Counting
             /\ Counting' = Counting => ttl' <= ttl
             /\ Tick => ttl' < ttl
  <2> USE LimiterAssumption
  <2>0. ttl \in Nat /\ count \in Nat /\ phase \in [Requests -> {"idle", "counting"}]
    BY <1>1 DEF LimiterInv, LimiterTypeOK
  <2>1. Tick => ttl' = ttl - 1 /\ Counting' = Counting
    BY <1>1, <2>0 DEF Tick, Counting
  <2>2. ASSUME NEW r \in Requests, Arrive(r)
        PROVE  Counting' = Counting /\ ttl' = ttl
    BY <1>1, <2>0, <2>2 DEF Arrive, Pass, Refuse, PassUnchecked, limiterVars, Counting
  <2>3. ASSUME NEW r \in Requests, Proceed(r)
        PROVE  Counting' \subseteq Counting /\ Counting' # Counting
    <3>1. phase[r] = "counting" /\ phase' = [phase EXCEPT ![r] = "idle"]
      BY <2>3 DEF Proceed, Count, FailOpen, Done
    <3>2. r \in Counting /\ r \notin Counting'
      BY <2>0, <3>1 DEF Counting
    <3>3. Counting' \subseteq Counting
      BY <2>0, <3>1 DEF Counting
    <3> QED
      BY <3>2, <3>3
  <2>4. ASSUME NEW R \in SUBSET Requests, Abandon(R)
        PROVE  Counting' \subseteq Counting /\ ttl' = ttl
    BY <2>0, <2>4 DEF Abandon, Counting
  <2>5. UNCHANGED limiterVars => Counting' = Counting /\ ttl' = ttl
    BY DEF limiterVars, Counting
  <2>6. \/ Counting' \subseteq Counting /\ ttl' = ttl
        \/ Counting' = Counting /\ ttl' = ttl - 1
        \/ Counting' \subseteq Counting /\ Counting' # Counting
    <3>1. CASE Tick
      BY <2>1, <3>1
    <3>2. CASE UNCHANGED limiterVars
      BY <2>5, <3>2
    <3>3. CASE \E r \in Requests : Arrive(r) \/ Proceed(r)
      BY <2>2, <2>3, <3>3
    <3>4. CASE \E R \in SUBSET Requests : Abandon(R)
      BY <2>4, <3>4
    <3> QED
      BY <1>1, <3>1, <3>2, <3>3, <3>4 DEF LimiterNext
  <2>7. Counting' = Counting => ttl' <= ttl
    BY <2>0, <2>6
  <2>8. Counting' \subseteq Counting
    BY <2>6
  <2>9. Tick => ttl' < ttl
    BY <2>0, <2>1
  <2> QED
    BY <2>7, <2>8, <2>9
<1>2. LimiterInv /\ [LimiterNext]_limiterVars
        => [count >= Limit /\ count' >= Limit =>
              /\ Counting' \subseteq Counting
              /\ Counting' = Counting => ttl' <= ttl
              /\ Tick => ttl' < ttl]_limiterVars
  BY <1>1
<1> QED
  BY <1>2, LimiterInvariance, PTL DEF LimiterSpec, LockoutShrinks

\* So does a lockout in the service, sessions and restarts included.
THEOREM ServiceLockout == ApiSpec => LockoutShrinks
  BY ServiceImplementsLimiter, LockoutComesNearerItsEnd, PTL

\* The steps that a request has left, at most.
RequestRank(r) ==
    CASE at[r] = "arrived" -> 4
      [] at[r] = "limiter" -> 3
      [] at[r] = "handler" -> 2
      [] at[r] = "posting" -> 1
      [] OTHER             -> 0

\* What a request or its process does for it
Progress(r) == Limited(r) \/ Receive(r) \/ Serve(r) \/ Restart

\* A request is answered, or is a session, within four steps of its own:
\* neither services, nor the session it posts to, nor other requests take it
\* back, or a restart ends it (main.py:58-78, 141-158, 223-266).
RequestsShrink ==
    [][\A r \in Requests : RequestRank(r) > 0 =>
          /\ RequestRank(r)' <= RequestRank(r)
          /\ Progress(r) => RequestRank(r)' < RequestRank(r)]_vars

\* Every step of a request brings its end nearer: the safety half of
\* HandledRequestsEnd, for any number of requests of any kinds, and from their
\* arrival on.
THEOREM RequestsAreBounded == ApiSpec => RequestsShrink
<1> DEFINE Shrinks(r) ==
        RequestRank(r) > 0 =>
          /\ RequestRank(r)' <= RequestRank(r)
          /\ Progress(r) => RequestRank(r)' < RequestRank(r)
<1>1. ASSUME ApiTypeOK, ApiTypeOK', Next, NEW r \in Requests, RequestRank(r) > 0
      PROVE  Shrinks(r)
  <2>1. at \in [Requests -> Stages] /\ at' \in [Requests -> Stages]
    BY <1>1 DEF ApiTypeOK
  <2>2. /\ RequestRank(r) \in Nat /\ RequestRank(r)' \in Nat
        /\ at[r] \in Busy
    BY <1>1, <2>1 DEF RequestRank, Stages, Busy
  <2> DEFINE Less == RequestRank(r)' < RequestRank(r)
  <2>3. ASSUME NEW q \in Requests, Limited(q) \/ Receive(q) \/ Serve(q)
        PROVE  IF q = r THEN Less ELSE at'[r] = at[r]
    <3>1. CASE FindsRoom(q) \/ GetFails(q) \/ Admit(q)
      BY <2>1, <3>1 DEF FindsRoom, GetFails, Admit, Handle, Goto, RequestRank
    <3>2. CASE TooMany(q) \/ ReportHealth(q) \/ PostRefused(q) \/ PostLost(q)
      BY <2>1, <2>2, <3>2
      DEF TooMany, ReportHealth, PostRefused, PostLost, End, RequestRank
    <3>3. CASE OpenSession(q)
      BY <2>1, <3>3 DEF OpenSession, Goto, RequestRank
    <3>4. ASSUME NEW s \in Requests, Post(q, s)
          PROVE  IF q = r THEN Less ELSE at'[r] = at[r]
      BY <2>1, <3>4 DEF Post, Goto, RequestRank
    <3>5. ASSUME NEW tool \in Tools, CallTool(q, tool)
          PROVE  IF q = r THEN Less ELSE at'[r] = at[r]
      BY <2>1, <3>5 DEF CallTool, End, RequestRank
    <3>6. CASE AnswerAtOnce(q)
      BY <2>1, <3>6 DEF AnswerAtOnce, End, RequestRank
    <3> QED
      BY <2>3, <3>1, <3>2, <3>3, <3>4, <3>5, <3>6 DEF Limited, Receive, Serve
  <2>4. Restart => Less
    BY <2>1, <2>2 DEF Restart, Busy, RequestRank
  <2>5. ASSUME NEW q \in Requests, NEW cert \in Certificates, Arrives(q, cert)
        PROVE  at'[r] = at[r]
    BY <2>1, <2>2, <2>5 DEF Arrives, Unidentified, Enter, Goto, vars, apiVars, Busy
  <2>6. ASSUME NEW q \in Requests, CloseSession(q) \/ SessionEnds(q)
        PROVE  at'[r] = at[r]
    BY <2>1, <2>2, <2>6 DEF CloseSession, SessionEnds, Goto, End, Busy
  <2>7. ASSUME \/ Startup \/ Clock
               \/ \E q \in Requests :
                     ChecksEnd(q) \/ \E tool \in Tools : ToolEnds(q, tool)
        PROVE  at'[r] = at[r]
    BY <2>7 DEF Startup, Verified, Pinged, StartupFails, Clock, apiVars,
       ChecksEnd, ToolEnds
  <2>8. at'[r] = at[r] => RequestRank(r)' = RequestRank(r)
    BY DEF RequestRank
  <2>9. Less \/ at'[r] = at[r]
    BY <1>1, <2>3, <2>4, <2>5, <2>6, <2>7 DEF Next
  <2>10. Progress(r) => Less
    BY <2>3, <2>4 DEF Progress
  <2> QED
    BY <2>2, <2>8, <2>9, <2>10
<1>2. ApiTypeOK /\ ApiTypeOK' /\ [Next]_vars
        => [\A r \in Requests : Shrinks(r)]_vars
  BY <1>1
<1> QED
  BY <1>2, ApiTypeCorrect, PTL DEF ApiSpec, RequestsShrink
===========================================================================
