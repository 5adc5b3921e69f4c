----------------------------- MODULE ApiService -----------------------------
(***************************************************************************)
(* api/main.py and the transport in api/mcp.py: one process of the API     *)
(* from its startup to its end, with the requests of one tenant: identity, *)
(* the limiter of RateLimiter, the gauge that the autoscaler reads, the    *)
(* health check, and MCP sessions in which tools run.                      *)
(*                                                                         *)
(* A request of kind "sse" becomes a session that stays open.  A request   *)
(* of kind "message" posts a tool call to a session; the session reads it  *)
(* and runs the tool in a task of its own, in the context of the request   *)
(* that opened the session.  The call outlives the request that posted it, *)
(* and the session ends only after its calls, also when its client has     *)
(* gone.  What the tools do to the graph is FencedGraph.                   *)
(*                                                                         *)
(* Redis, Neo4j and the guard's model may fail or be silent at any time,   *)
(* and the process may end at any time.                                    *)
(***************************************************************************)
EXTENDS RateLimiter

CONSTANTS
    Kind,         \* request -> "sse", "message" or "health", the route it takes
    NoSession,    \* no session
    Tools         \* the tools that are called

ASSUME ApiAssumption ==
    /\ Kind \in [Requests -> {"sse", "message", "health"}]
    /\ NoSession \notin Requests
    /\ Tools \subseteq {"read_graph_node", "write_graph_edge", "query_subgraph"}

VARIABLES
    life,         \* where lifespan stands: "verify", "ping" or "serving"
    toolDriver,   \* whether _global_db_driver is set
    at,           \* request -> where it stands
    who,          \* request -> the role of the token of its context
    gauge,        \* active_ai_tasks
    session,      \* request -> the session it posts to
    tools,        \* request -> the tools that run in its session, at most one
                  \* call of each at a time (a bound)
    waiting       \* request -> whether the checks of its health check go on

apiVars == <<life, toolDriver, at, who, gauge, session, tools, waiting>>
vars == <<limiterVars, apiVars>>

\* A request is "arrived" until the GET of the limiter ends and in the "limiter"
\* until its pipeline ends; a session is "closing" when its client has gone.
Stages == {"idle", "arrived", "limiter", "handler", "posting", "open", "closing"}

\* What the X-Forwarded-Client-Cert header of a request may hold: nothing, a
\* certificate that cannot be parsed or has no CN, one without or with the
\* organizational unit `admin` in any case.
Certificates == {"missing", "broken", "user", "admin"}
Identified(cert) == cert \notin {"missing", "broken"}

\* Requests to the routes under /mcp
IsAI(r) == Kind[r] \in {"sse", "message"}

Sessions == {s \in Requests : at[s] = "open"}

\* Sessions that may still read what was posted to them
Running == {s \in Requests : at[s] \in {"open", "closing"}}

---------------------------------------------------------------------------
Init ==
    /\ LimiterInit
    /\ life = "verify"
    /\ toolDriver = FALSE
    /\ at = [r \in Requests |-> "idle"]
    /\ who = [r \in Requests |-> "user"]
    /\ gauge = 0
    /\ session = [r \in Requests |-> NoSession]
    /\ tools = [r \in Requests |-> {}]
    /\ waiting = [r \in Requests |-> FALSE]

Goto(r, stage) == at' = [at EXCEPT ![r] = stage]

\* A request ends, and its context with it.
End(r) ==
    /\ at' = [at EXCEPT ![r] = "idle"]
    /\ who' = [who EXCEPT ![r] = "user"]

\* Startup: verify_connectivity(), then ping(); set_mcp_db_driver() only after
\* both.  Their errors are logged, and the process serves all the same.
Verified ==
    /\ life = "verify"
    /\ life' = "ping"
    /\ UNCHANGED <<limiterVars, toolDriver, at, who, gauge, session, tools,
                   waiting>>

Pinged ==
    /\ life = "ping"
    /\ life' = "serving"
    /\ toolDriver' = TRUE
    /\ UNCHANGED <<limiterVars, at, who, gauge, session, tools, waiting>>

StartupFails ==
    /\ life \in {"verify", "ping"}
    /\ life' = "serving"
    /\ UNCHANGED <<limiterVars, toolDriver, at, who, gauge, session, tools,
                   waiting>>

\* The middleware counts a request to an AI route on its way in and out.
Entered(r) == gauge' = IF IsAI(r) THEN gauge + 1 ELSE gauge
Responded(r) == gauge' = IF IsAI(r) THEN gauge - 1 ELSE gauge

\* verify_cryptographic_identity answers 401 or 403: nothing is counted.
Unidentified(r, cert) ==
    /\ life = "serving"
    /\ at[r] = "idle"
    /\ ~Identified(cert)
    /\ UNCHANGED vars

\* The token of the request's context; only AI routes read its role.
Identify(r, cert) == who' = [who EXCEPT ![r] = IF IsAI(r) THEN cert ELSE @]

\* A request with an identity waits for the GET of the limiter.
Enter(r, cert) ==
    /\ life = "serving"
    /\ at[r] = "idle"
    /\ Identified(cert)
    /\ Identify(r, cert)
    /\ Goto(r, "arrived")
    /\ Entered(r)
    /\ UNCHANGED <<limiterVars, life, toolDriver, session, tools, waiting>>

\* GET finds room, and the pipeline is sent.
FindsRoom(r) ==
    /\ at[r] = "arrived"
    /\ Pass(r)
    /\ Goto(r, "limiter")
    /\ UNCHANGED <<life, toolDriver, who, gauge, session, tools, waiting>>

\* GET finds none: 429.
TooMany(r) ==
    /\ at[r] = "arrived"
    /\ Refuse(r)
    /\ End(r)
    /\ Responded(r)
    /\ UNCHANGED <<life, toolDriver, session, tools, waiting>>

\* The handler begins; health_check starts its checks.
Handle(r) ==
    /\ Goto(r, "handler")
    /\ waiting' = [waiting EXCEPT ![r] = Kind[r] = "health"]

\* GET fails.
GetFails(r) ==
    /\ at[r] = "arrived"
    /\ PassUnchecked(r)
    /\ Handle(r)
    /\ UNCHANGED <<life, toolDriver, who, gauge, session, tools>>

\* The limiter has counted r, or failed to.
Admit(r) ==
    /\ at[r] = "limiter"
    /\ Proceed(r)
    /\ Handle(r)
    /\ UNCHANGED <<life, toolDriver, who, gauge, session, tools>>

---------------------------------------------------------------------------
(* Health *)

\* Redis, Neo4j and the guard's model have all answered or failed: gather()
\* waits for each of them, whether another has failed or not.
ChecksEnd(r) ==
    /\ waiting[r]
    /\ waiting' = [waiting EXCEPT ![r] = FALSE]
    /\ UNCHANGED <<limiterVars, life, toolDriver, at, who, gauge, session, tools>>

\* Mutant of ReportHealth: the timeout of wait_for is left out.
ReportWhenAllEnd(r) ==
    /\ Kind[r] = "health"
    /\ at[r] = "handler"
    /\ ~waiting[r]
    /\ End(r)
    /\ waiting' = [waiting EXCEPT ![r] = FALSE]
    /\ UNCHANGED <<limiterVars, life, toolDriver, gauge, session, tools>>

\* healthy or 503 when all have ended, 503 when the timeout of wait_for ends
\* them.
ReportHealth(r) ==
    /\ Kind[r] = "health"
    /\ at[r] = "handler"
    /\ End(r)
    /\ waiting' = [waiting EXCEPT ![r] = FALSE]
    /\ UNCHANGED <<limiterVars, life, toolDriver, gauge, session, tools>>

---------------------------------------------------------------------------
(* MCP sessions and tools *)

\* connect_sse starts the response, and the server runs in r's context.
OpenSession(r) ==
    /\ Kind[r] = "sse"
    /\ at[r] = "handler"
    /\ Goto(r, "open")
    /\ Responded(r)
    /\ UNCHANGED <<limiterVars, life, toolDriver, who, session, tools, waiting>>

\* The client goes away.  Nothing is cancelled: run() waits for the calls of
\* the session, and may still read a message that was posted before.
CloseSession(s) ==
    /\ at[s] = "open"
    /\ Goto(s, "closing")
    /\ UNCHANGED <<limiterVars, life, toolDriver, who, gauge, session, tools,
                   waiting>>

\* run() returns when the last call has ended, and the context is reset.
SessionEnds(s) ==
    /\ at[s] = "closing"
    /\ tools[s] = {}
    /\ End(s)
    /\ session' = [r \in Requests |-> IF session[r] = s THEN NoSession
                                                       ELSE session[r]]
    /\ UNCHANGED <<limiterVars, life, toolDriver, gauge, tools, waiting>>

\* handle_post_message finds the session and waits for it to read.
Post(r, s) ==
    /\ Kind[r] = "message"
    /\ at[r] = "handler"
    /\ s \in Sessions
    /\ Goto(r, "posting")
    /\ session' = [session EXCEPT ![r] = s]
    /\ UNCHANGED <<limiterVars, life, toolDriver, who, gauge, tools, waiting>>

\* It finds none that is open, or a body that is no message: 404, 400 or an
\* error.
PostRefused(r) ==
    /\ Kind[r] = "message"
    /\ at[r] = "handler"
    /\ End(r)
    /\ Responded(r)
    /\ UNCHANGED <<limiterVars, life, toolDriver, session, tools, waiting>>

\* Mutant of PostLost: the decrement is not in a `finally`.
PostLostUncounted(r) ==
    /\ at[r] = "posting"
    /\ session[r] \notin Sessions
    /\ session' = [session EXCEPT ![r] = NoSession]
    /\ End(r)
    /\ UNCHANGED <<limiterVars, life, toolDriver, gauge, tools, waiting>>

\* The session has closed before it read: the handler raises.
PostLost(r) ==
    /\ at[r] = "posting"
    /\ session[r] \notin Sessions
    /\ session' = [session EXCEPT ![r] = NoSession]
    /\ End(r)
    /\ Responded(r)
    /\ UNCHANGED <<limiterVars, life, toolDriver, tools, waiting>>

\* Mutant of RoleOf: a variable of the process in place of a ContextVar, that
\* holds an administrator's token while one of theirs is under way.
RoleOfProcess(s, r) ==
    IF \E q \in Requests : who[q] = "admin" THEN "admin" ELSE "user"

\* current_token.get() in a tool called in session s by a message of r: the
\* context is that of the request that opened s, whoever posts.
RoleOf(s, r) == who[s]

\* Mutant of CallTool: the driver is not looked at.
CallWithoutDriver(r, tool) ==
    LET s == session[r] IN
    /\ at[r] = "posting"
    /\ s # NoSession
    /\ tool = "write_graph_edge" => RoleOf(s, r) = "admin"
    /\ tool \notin tools[s]
    /\ tools' = [tools EXCEPT ![s] = @ \cup {tool}]
    /\ session' = [session EXCEPT ![r] = NoSession]
    /\ End(r)
    /\ Responded(r)
    /\ UNCHANGED <<limiterVars, life, toolDriver, waiting>>

\* The session reads r's message, which is answered, and calls tool: it runs.
CallTool(r, tool) ==
    LET s == session[r] IN
    /\ at[r] = "posting"
    /\ s # NoSession
    /\ toolDriver
    /\ tool = "write_graph_edge" => RoleOf(s, r) = "admin"
    /\ tool \notin tools[s]
    /\ tools' = [tools EXCEPT ![s] = @ \cup {tool}]
    /\ session' = [session EXCEPT ![r] = NoSession]
    /\ End(r)
    /\ Responded(r)
    /\ UNCHANGED <<limiterVars, life, toolDriver, waiting>>

\* The call is answered at once: no driver, not the role for it, an unknown
\* tool or arguments that fail validation.
AnswerAtOnce(r) ==
    /\ at[r] = "posting"
    /\ session[r] # NoSession
    /\ session' = [session EXCEPT ![r] = NoSession]
    /\ End(r)
    /\ Responded(r)
    /\ UNCHANGED <<limiterVars, life, toolDriver, tools, waiting>>

\* tool ends in session s: with its result, or an error, of the domain or any
\* other, as a text; or run() cancels it, when the answer of another call has
\* met the closed streams.
ToolEnds(s, tool) ==
    /\ tool \in tools[s]
    /\ tools' = [tools EXCEPT ![s] = @ \ {tool}]
    /\ UNCHANGED <<limiterVars, life, toolDriver, at, who, gauge, session,
                   waiting>>

---------------------------------------------------------------------------
(* The environment *)

\* The process ends, and another starts in its place.
Restart ==
    /\ Abandon(Counting)
    /\ life' = "verify"
    /\ toolDriver' = FALSE
    /\ at' = [r \in Requests |-> "idle"]
    /\ gauge' = 0
    /\ session' = [r \in Requests |-> NoSession]
    /\ tools' = [r \in Requests |-> {}]
    /\ waiting' = [r \in Requests |-> FALSE]
    /\ who' = [r \in Requests |-> "user"]

Clock == Tick /\ UNCHANGED apiVars

---------------------------------------------------------------------------
Startup == Verified \/ Pinged \/ StartupFails

Arrives(r, cert) == Unidentified(r, cert) \/ Enter(r, cert)

\* The calls to Redis that a request waits for without a timeout
Limited(r) == FindsRoom(r) \/ TooMany(r) \/ GetFails(r) \/ Admit(r)

\* A message whose body the client has sent
Receive(r) == (\E s \in Requests : Post(r, s)) \/ PostRefused(r)

\* What the process does for a request without waiting for others, except up
\* to a timeout or for a session to read.
Serve(r) ==
    \/ ReportHealth(r)
    \/ OpenSession(r)
    \/ PostLost(r)
    \/ (\E tool \in Tools : CallTool(r, tool)) \/ AnswerAtOnce(r)

Next ==
    \/ Startup
    \/ \E r \in Requests :
          \/ \E cert \in Certificates : Arrives(r, cert)
          \/ Limited(r) \/ Receive(r) \/ Serve(r)
          \/ ChecksEnd(r)
          \/ CloseSession(r) \/ SessionEnds(r)
          \/ \E tool \in Tools : ToolEnds(r, tool)
    \/ Restart
    \/ Clock

ApiSpec == Init /\ [][Next]_vars

\* Time passes and the process serves.  Nothing is assumed of Redis, whose client
\* has no socket_timeout, of Neo4j, of the guard's model, of tools and of the
\* bodies that clients send.
FairSpec ==
    /\ ApiSpec
    /\ WF_vars(Clock)
    /\ \A r \in Requests : WF_vars(Serve(r))

---------------------------------------------------------------------------
\* Types; a request counts exactly while it is in the limiter; tools run only in
\* a process with a driver, and a session with its context lasts until its tools
\* have ended, also after its client has gone (mcp.py:244, 314-327).
ApiTypeOK ==
    /\ LimiterTypeOK
    /\ life \in {"verify", "ping", "serving"}
    /\ toolDriver \in BOOLEAN
    /\ at \in [Requests -> Stages]
    /\ who \in [Requests -> {"user", "admin"}]
    /\ session \in [Requests -> Requests \cup {NoSession}]
    /\ tools \in [Requests -> SUBSET Tools]
    /\ waiting \in [Requests -> BOOLEAN]
    /\ \A r \in Requests :
          /\ at[r] = "limiter" <=> phase[r] = "counting"
          /\ tools[r] # {} => r \in Running /\ toolDriver
          /\ at[r] # "idle" => life = "serving"
          /\ session[r] # NoSession => at[r] = "posting" /\ session[r] \in Running

\* The stages in which a request is on its way to an answer
Busy == {"arrived", "limiter", "handler", "posting"}

\* The gauge the autoscaler reads is the number of AI requests that have not
\* been answered, whichever way they end, and goes back to 0 with them
\* (main.py:152-158).
GaugeIsExact == gauge = Cardinality({r \in Requests : IsAI(r) /\ at[r] \in Busy})

\* An edge is written only in a session that an administrator has opened, from
\* the call to its end, whoever uses the process and whether the session's client
\* has gone in the meantime (mcp.py:256-268, 314-327).  Who posted the call plays
\* no part, see WritesArePosters.
WritesAreAdmins ==
    \A s \in Requests : "write_graph_edge" \in tools[s] => who[s] = "admin"

\* A request that has passed the limiter is answered or becomes a session,
\* although a service may stay silent and a session may close before it reads
\* (main.py:258-266); of a message, from when its body has been received.  No
\* more is true: in the limiter a request waits as long as Redis is silent.
HandledRequestsEnd ==
    \A r \in Requests :
        at[r] = "posting" \/ (at[r] = "handler" /\ Kind[r] # "message")
            ~> at[r] \in {"idle", "open"}

\* README.md:36: the execution of a tool is tied to the cryptographic identity.  A
\* write begins with a message that an administrator has posted (mcp.py:256-268,
\* 335: the token of who posts is set in a context that no tool reads).
WritesArePosters ==
    [][\A s \in Requests :
          "write_graph_edge" \in tools'[s] \ tools[s] =>
              \E r \in Requests : /\ session[r] = s /\ session'[r] = NoSession
                                 /\ who[r] = "admin"]_vars
===========================================================================
