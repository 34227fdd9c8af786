------------------------------ MODULE Gateway ------------------------------
(***************************************************************************)
(* A request's way through the gateway (src/services/cmd/gateway/main.go,  *)
(* handler.go, ratelimit.go): the middleware chain, the concurrency slots, *)
(* the handlers, the chat proxy with its two ends (the client and the      *)
(* agent), and the server's shutdown.  The verdicts of the token store and *)
(* of the rate limiter are free here; TokenStore and RateLimiter say what  *)
(* they are.                                                               *)
(*                                                                         *)
(* Every request is one goroutine of the HTTP server.  The HTTP server     *)
(* cancels a request's context when its client disconnects; the process    *)
(* ends when main returns, whatever the other goroutines are doing.        *)
(***************************************************************************)
EXTENDS Integers, FiniteSets

CONSTANTS
    Request,        \* the requests of a behaviour
    MaxConcurrent   \* maxConcurrent, the capacity of the semaphore channel

ASSUME GatewayAssumption == IsFiniteSet(Request) /\ MaxConcurrent \in Nat

VARIABLES
    at,        \* where each request is in the chain
    path,      \* the endpoint each request is for
    caller,    \* "here" or "gone": is the request's client still connected
    sem,       \* slots taken in the semaphore channel
    answered,  \* the HTTP status each request was answered with, 0 when none
    critical,  \* diskMon.IsCritical(), as of the monitor's last poll
    completed, \* MetricsStore.chatLatCount
    whole,     \* history: chats whose agent stream reached its end at a client
    server     \* "serving", "draining" (Shutdown called) or "exited"

gatewayVars == <<at, path, caller, sem, answered, critical, completed, whole, server>>

\* The endpoints by what their handler does: two ask the agent for its health
\* and one second for the answer, one asks it with no time limit, one is the
\* streaming proxy, and "local" is the rest, which answer 200 with what they can
\* gather (version, metrics, config, models, update/status, telemetry/status,
\* board).
Paths == {"healthz", "tools", "status", "local", "chat"}
InHandler == {"handler", "calling", "streaming"}
InFlight == {"auth", "rate", "slot"} \cup InHandler
TakesSlot(r) == path[r] # "healthz"

GatewayInit ==
    /\ at = [r \in Request |-> "none"]
    /\ path = [r \in Request |-> "local"]
    /\ caller = [r \in Request |-> "here"]
    /\ sem = 0
    /\ answered = [r \in Request |-> 0]
    /\ critical = FALSE
    /\ completed = 0
    /\ whole = 0
    /\ server = "serving"

Go(r, place) == at' = [at EXCEPT ![r] = place]

\* The handler returns: the slot, if the request holds one, is given back by
\* the deferred receive of concurrencyMiddleware.
MutReturnFromHandler(r, code) ==
    /\ Go(r, "done")
    /\ answered' = [answered EXCEPT ![r] = code]
    /\ sem' = IF TakesSlot(r) /\ code # 503 THEN sem - 1 ELSE sem

ReturnFromHandler(r, code) ==
    /\ Go(r, "done")
    /\ answered' = [answered EXCEPT ![r] = code]
    /\ sem' = IF TakesSlot(r) THEN sem - 1 ELSE sem

Refuse(r, code) ==
    /\ Go(r, "done")
    /\ answered' = [answered EXCEPT ![r] = code]
    /\ UNCHANGED sem

-----------------------------------------------------------------------------
Arrive(r, p) ==
    /\ server = "serving" /\ at[r] = "none"
    /\ Go(r, "auth")
    /\ path' = [path EXCEPT ![r] = p]
    /\ UNCHANGED <<caller, sem, answered, critical, completed, whole, server>>

Disconnect(r) ==
    /\ at[r] \in InFlight /\ caller[r] = "here"
    /\ caller' = [caller EXCEPT ![r] = "gone"]
    /\ UNCHANGED <<at, path, sem, answered, critical, completed, whole, server>>

BearerAuth(r, ok) ==
    /\ at[r] = "auth"
    /\ IF ok \/ path[r] = "healthz"
       THEN Go(r, "rate") /\ UNCHANGED <<sem, answered>>
       ELSE Refuse(r, 401)
    /\ UNCHANGED <<path, caller, critical, completed, whole, server>>

RateLimit(r, ok) ==
    /\ at[r] = "rate"
    /\ IF ok \/ path[r] = "healthz"
       THEN Go(r, "slot") /\ UNCHANGED <<sem, answered>>
       ELSE Refuse(r, 429)
    /\ UNCHANGED <<path, caller, critical, completed, whole, server>>

Concurrency(r) ==
    /\ at[r] = "slot"
    /\ IF ~TakesSlot(r) THEN Go(r, "handler") /\ UNCHANGED <<sem, answered>>
       ELSE IF sem < MaxConcurrent
            THEN Go(r, "handler") /\ sem' = sem + 1 /\ UNCHANGED answered
            ELSE Refuse(r, 429)
    /\ UNCHANGED <<path, caller, critical, completed, whole, server>>

\* The status handler's verdict: agent and integrity are what the probes
\* report, providers says whether some provider is in fallback; the gateway
\* and the model are never degraded, and the disk does not count.
Components == [agent : {"ok", "degraded"}, integrity : {"pass", "fail", "skipped", "none"},
               providersFallBack : BOOLEAN]
Overall(c) ==
    IF c.agent = "degraded" \/ c.integrity = "fail" \/ c.providersFallBack
    THEN 503 ELSE 200

Healthz(r) ==
    /\ at[r] = "handler" /\ path[r] = "healthz"
    /\ \E code \in {200, 503} : ReturnFromHandler(r, code)
    /\ UNCHANGED <<path, caller, critical, completed, whole, server>>

StatusHandler(r) ==
    /\ at[r] = "handler" /\ path[r] = "status"
    /\ \E c \in Components : ReturnFromHandler(r, Overall(c))
    /\ UNCHANGED <<path, caller, critical, completed, whole, server>>

LocalHandler(r) ==
    /\ at[r] = "handler" /\ path[r] = "local"
    /\ ReturnFromHandler(r, 200)
    /\ UNCHANGED <<path, caller, critical, completed, whole, server>>

\* The tools handler passes the request's own context on: no time limit.
ToolsCalls(r) ==
    /\ at[r] = "handler" /\ path[r] = "tools"
    /\ Go(r, "calling")
    /\ UNCHANGED <<path, caller, sem, answered, critical, completed, whole, server>>

\* agentClient.Tools returns the list or an error.
ToolsAnswered(r) ==
    /\ at[r] = "calling" /\ path[r] = "tools"
    /\ \E code \in {200, 503} : ReturnFromHandler(r, code)
    /\ UNCHANGED <<path, caller, critical, completed, whole, server>>

-----------------------------------------------------------------------------
\* The chat handler up to its call of the agent: refused on a critical disk,
\* on a wrong content type, an oversized body, bad JSON and an empty message
\* list, in that order.
ChatChecks(r) ==
    /\ at[r] = "handler" /\ path[r] = "chat"
    /\ IF critical THEN ReturnFromHandler(r, 503)
       ELSE \/ \E code \in {415, 413, 400} : ReturnFromHandler(r, code)
            \/ Go(r, "calling") /\ UNCHANGED <<sem, answered>>
    /\ UNCHANGED <<path, caller, critical, completed, whole, server>>

\* agentClient.ChatStream returns: an error, another status, or the stream.
AgentAnswers(r) ==
    /\ at[r] = "calling" /\ path[r] = "chat"
    /\ \/ \E code \in {503, 502} : ReturnFromHandler(r, code)
       \/ /\ Go(r, "streaming")
          /\ answered' = [answered EXCEPT ![r] = 200]
          /\ UNCHANGED sem
    /\ UNCHANGED <<path, caller, critical, completed, whole, server>>

\* The cancelled request context makes ChatStream or Tools return an error.
CallCancelled(r) ==
    /\ at[r] = "calling" /\ caller[r] = "gone"
    /\ ReturnFromHandler(r, 503)
    /\ UNCHANGED <<path, caller, critical, completed, whole, server>>

\* The copy loop reads the end of the stream, or an error of the agent's.
StreamEnds(r, atEnd) ==
    /\ at[r] = "streaming"
    /\ ReturnFromHandler(r, 200)
    /\ completed' = completed + 1
    /\ whole' = IF atEnd /\ caller[r] = "here" THEN whole + 1 ELSE whole
    /\ UNCHANGED <<path, caller, critical, server>>

\* The goroutine that waits for the request context closes the agent's body;
\* the read that was blocked returns with an error.
MutBodyClosed(r) == FALSE /\ UNCHANGED gatewayVars
BodyClosed(r) ==
    /\ at[r] = "streaming" /\ caller[r] = "gone"
    /\ ReturnFromHandler(r, 200)
    /\ completed' = completed + 1
    /\ UNCHANGED <<path, caller, critical, whole, server>>

\* The copy loop has bytes for a client that is no longer there.
WriteFails(r) ==
    /\ at[r] = "streaming" /\ caller[r] = "gone"
    /\ ReturnFromHandler(r, 200)
    /\ UNCHANGED <<path, caller, critical, completed, whole, server>>

-----------------------------------------------------------------------------
DiskPoll(now) ==
    /\ server # "exited"
    /\ critical' = now
    /\ UNCHANGED <<at, path, caller, sem, answered, completed, whole, server>>

\* SIGTERM: the signal goroutine calls Shutdown, which closes the listener and
\* starts to wait for the requests in flight.
ShutdownServer ==
    /\ server = "serving"
    /\ server' = "draining"
    /\ UNCHANGED <<at, path, caller, sem, answered, critical, completed, whole>>

\* Serve returns ErrServerClosed as soon as the listener is closed; main logs
\* and returns, which ends the process and every request still in flight.
MainReturns ==
    /\ server = "draining"
    /\ server' = "exited"
    /\ at' = [r \in Request |-> IF at[r] \in InFlight THEN "cut" ELSE at[r]]
    /\ UNCHANGED <<path, caller, sem, answered, critical, completed, whole>>

HandlerStep(r) ==
    \/ \E ok \in BOOLEAN : BearerAuth(r, ok) \/ RateLimit(r, ok)
    \/ Concurrency(r)
    \/ Healthz(r) \/ StatusHandler(r) \/ LocalHandler(r) \/ ToolsCalls(r)
    \/ ChatChecks(r)
    \/ CallCancelled(r)
    \/ BodyClosed(r)

GatewayNext ==
    \/ \E r \in Request :
          \/ \E p \in Paths : Arrive(r, p)
          \/ Disconnect(r)
          \/ HandlerStep(r)
          \/ ToolsAnswered(r) \/ AgentAnswers(r)
          \/ \E atEnd \in BOOLEAN : StreamEnds(r, atEnd)
          \/ WriteFails(r)
    \/ \E now \in BOOLEAN : now # critical /\ DiskPoll(now)
    \/ ShutdownServer
    \/ MainReturns

\* The Go scheduler runs every handler goroutine; nothing is assumed of the
\* agent, which may never answer nor end its stream.
GatewayFairness == \A r \in Request : WF_gatewayVars(HandlerStep(r))
GatewaySpec == GatewayInit /\ [][GatewayNext]_gatewayVars /\ GatewayFairness

-----------------------------------------------------------------------------
GatewayTypeOK ==
    /\ at \in [Request -> InFlight \cup {"none", "done", "cut"}]
    /\ path \in [Request -> Paths]
    /\ caller \in [Request -> {"here", "gone"}]
    /\ sem \in 0..MaxConcurrent
    /\ answered \in [Request -> {0, 200, 400, 401, 413, 415, 429, 502, 503}]
    /\ critical \in BOOLEAN
    /\ completed \in 0..Cardinality(Request) /\ whole \in 0..completed
    /\ server \in {"serving", "draining", "exited"}

\* Every way out of every handler gives its slot back exactly once: the slots
\* taken are the requests that are inside a handler other than /healthz
\* (ratelimit.go:113-131).
SlotsAccounted ==
    server # "exited" =>
        sem = Cardinality({r \in Request : at[r] \in InHandler /\ TakesSlot(r)})

\* /healthz is never refused: whatever the load, the tokens and the disk, it is
\* answered with the agent's state (auth.go:43, ratelimit.go:95, 115).
HealthzAlwaysAnswered ==
    \A r \in Request :
        path[r] = "healthz" /\ at[r] = "done" => answered[r] \in {200, 503}

\* A client that goes away gets its slot freed and its turn cancelled, even
\* when the agent never answers or never ends its stream (handler.go:138-176).
DisconnectFreesSlot ==
    \A r \in Request :
        caller[r] = "gone" /\ at[r] \in InHandler
            ~> at[r] \notin InHandler

\* Shutdown drains: main.go:146, "listen for SIGTERM or SIGINT, then drain
\* connections"; no request in flight is cut by the end of the process.
DrainsBeforeExit == \A r \in Request : at[r] # "cut"

\* metrics.go:132: the counter is of "/chat requests that received a complete
\* response".
CompletedAreComplete == completed = whole
=============================================================================
