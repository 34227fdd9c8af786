-------------------------- MODULE FrontDoorProofs ---------------------------
(*****************************************************************************)
(* What stands between clients and providers, for every number of them:      *)
(* the slots of the gateway, the token buckets of its clients, and the       *)
(* circuit breakers of the providers.                                        *)
(*****************************************************************************)
EXTENDS Gateway, RateLimiter, ProviderHealth, FiniteSetTheorems, TLAPS

-----------------------------------------------------------------------------
(*****************************************************************************)
(* Gateway. The concurrency slots are accounted for, and never more than     *)
(* there are: each way out of a handler gives back the slot it holds, and    *)
(* no other. /healthz is never refused. The invariant adds to the two        *)
(* properties where a request may be: no request is in flight once the       *)
(* process has ended, so that what happens after it cannot touch the         *)
(* slots.                                                                    *)
(*****************************************************************************)

\* The requests that hold a slot.
Holders == {r \in Request : at[r] \in InHandler /\ TakesSlot(r)}

\* Where requests are.
PlaceInv ==
    /\ at \in [Request -> InFlight \cup {"none", "done", "cut"}]
    /\ path \in [Request -> Paths]
    /\ answered \in [Request -> Int]

\* No request is in flight once the process has ended.
EndedInv == server = "exited" => \A r \in Request : at[r] \notin InFlight

\* The semaphore counts the holders.
SlotInv == sem = Cardinality(Holders) /\ sem <= MaxConcurrent

\* The slots taken never outnumber the places of the semaphore channel
\* (ratelimit.go concurrencyMiddleware), and are those of the holders.
SlotsBounded == server # "exited" => SlotInv

\* The inductive invariant of the gateway.
GatewayInv == PlaceInv /\ EndedInv /\ SlotsBounded /\ HealthzAlwaysAnswered

\* There are finitely many holders.
LEMMA HoldersFinite == IsFiniteSet(Holders) /\ Cardinality(Holders) \in Nat
  <1>1. Holders \in SUBSET Request
    BY DEF Holders
  <1>2. IsFiniteSet(Holders)
    BY <1>1, FS_Subset, GatewayAssumption
  <1> QED
    BY <1>2, FS_CardinalityType

\* A request that leaves its handler gives back the slot it holds.
LEMMA ReturnKeeps ==
    ASSUME GatewayInv, NEW r \in Request, NEW code \in Int, at[r] \in InHandler,
           path[r] = "healthz" => code \in {200, 503},
           ReturnFromHandler(r, code), UNCHANGED <<path, server>>
    PROVE  GatewayInv'
  <1>1. PlaceInv'
    BY DEF GatewayInv, PlaceInv, ReturnFromHandler, Go
  <1>2. server # "exited"
    BY DEF GatewayInv, EndedInv, InFlight
  <1>3. EndedInv'
    BY <1>2 DEF EndedInv
  <1>4. /\ at' = [at EXCEPT ![r] = "done"] /\ at'[r] = "done"
        /\ \A q \in Request \ {r} : at'[q] = at[q]
    BY DEF GatewayInv, PlaceInv, ReturnFromHandler, Go
  <1>5. Holders' = Holders \ {r}
    BY <1>4 DEF Holders, TakesSlot, InHandler
  <1>6. r \in Holders <=> TakesSlot(r)
    BY DEF Holders
  <1>7. Cardinality(Holders \ {r})
           = IF r \in Holders THEN Cardinality(Holders) - 1 ELSE Cardinality(Holders)
    BY Zenon, HoldersFinite, FS_RemoveElement
  <1>8. sem' = IF TakesSlot(r) THEN sem - 1 ELSE sem
    BY DEF ReturnFromHandler
  <1>9. sem = Cardinality(Holders) /\ sem <= MaxConcurrent
    BY <1>2 DEF GatewayInv, SlotsBounded, SlotInv
  <1>10. SlotInv'
    BY <1>5, <1>6, <1>7, <1>8, <1>9, HoldersFinite, GatewayAssumption DEF SlotInv
  <1>11. HealthzAlwaysAnswered'
    <2>1. answered' = [answered EXCEPT ![r] = code]
      BY DEF ReturnFromHandler
    <2> QED
      BY <1>4, <2>1 DEF GatewayInv, PlaceInv, HealthzAlwaysAnswered
  <1> QED
    BY <1>1, <1>3, <1>10, <1>11 DEF GatewayInv, SlotsBounded

\* A step that moves one request, outside or inside the handlers, and leaves the
\* slots alone.
LEMMA MoveKeeps ==
    ASSUME GatewayInv, NEW r \in Request, NEW place \in InFlight \cup {"done"}, Go(r, place),
           at[r] \in InFlight, UNCHANGED <<path, server, sem>>,
           place \in InHandler /\ TakesSlot(r) <=> at[r] \in InHandler /\ TakesSlot(r),
           answered' \in [Request -> Int],
           \A q \in Request \ {r} : answered'[q] = answered[q],
           place = "done" => path[r] # "healthz"
    PROVE  GatewayInv'
  <1>1. PlaceInv'
    BY Zenon DEF GatewayInv, PlaceInv, Go
  <1>2. server # "exited"
    BY DEF GatewayInv, EndedInv
  <1>3. EndedInv'
    BY <1>2 DEF EndedInv
  <1>4. at'[r] = place /\ \A q \in Request \ {r} : at'[q] = at[q]
    BY DEF GatewayInv, PlaceInv, Go
  <1>5. Holders' = Holders
    BY <1>4 DEF Holders, TakesSlot
  <1>6. SlotsBounded'
    BY <1>5 DEF GatewayInv, SlotsBounded, SlotInv
  <1>7. HealthzAlwaysAnswered'
    BY <1>4 DEF GatewayInv, HealthzAlwaysAnswered, InFlight, InHandler
  <1> QED
    BY <1>1, <1>3, <1>6, <1>7 DEF GatewayInv

\* A request that takes a slot takes a free one.
LEMMA TakeKeeps ==
    ASSUME GatewayInv, NEW r \in Request, Concurrency(r)
    PROVE  GatewayInv'
  <1>1. at[r] = "slot" /\ at[r] \in InFlight /\ at[r] \notin InHandler
    BY DEF Concurrency, InFlight, InHandler
  <1>2. CASE TakesSlot(r) /\ sem < MaxConcurrent
    <2>1. Go(r, "handler") /\ sem' = sem + 1 /\ UNCHANGED <<answered, path, server>>
      BY <1>2 DEF Concurrency
    <2>2. PlaceInv'
      BY <2>1 DEF GatewayInv, PlaceInv, Go, InFlight, InHandler
    <2>3. server # "exited"
      BY <1>1 DEF GatewayInv, EndedInv
    <2>4. at'[r] = "handler" /\ \A q \in Request \ {r} : at'[q] = at[q]
      BY <2>1 DEF GatewayInv, PlaceInv, Go
    <2>5. Holders' = Holders \cup {r} /\ r \notin Holders
      BY <1>1, <1>2, <2>1, <2>4 DEF Holders, TakesSlot, InHandler
    <2>6. Cardinality(Holders \cup {r}) = Cardinality(Holders) + 1
      BY <2>5, HoldersFinite, FS_AddElement
    <2>7. sem = Cardinality(Holders)
      BY <2>3 DEF GatewayInv, SlotsBounded, SlotInv
    <2>8. SlotInv'
      BY <1>2, <2>1, <2>5, <2>6, <2>7, HoldersFinite, GatewayAssumption DEF SlotInv
    <2>9. EndedInv' /\ HealthzAlwaysAnswered'
      BY <2>1, <2>3, <2>4 DEF GatewayInv, EndedInv, HealthzAlwaysAnswered
    <2> QED
      BY <2>2, <2>8, <2>9 DEF GatewayInv, SlotsBounded
  <1>3. CASE ~TakesSlot(r)
    <2>1. Go(r, "handler") /\ UNCHANGED <<answered, path, server, sem>>
      BY <1>3 DEF Concurrency
    <2> QED
      BY <1>1, <1>3, <2>1, MoveKeeps DEF GatewayInv, PlaceInv, InFlight, InHandler
  <1>4. CASE TakesSlot(r) /\ ~(sem < MaxConcurrent)
    <2>1. Refuse(r, 429) /\ UNCHANGED <<path, server>>
      BY <1>4 DEF Concurrency
    <2>2. /\ answered' \in [Request -> Int]
          /\ \A q \in Request \ {r} : answered'[q] = answered[q]
      BY <2>1 DEF Refuse, GatewayInv, PlaceInv
    <2> QED
      BY <1>1, <1>4, <2>1, <2>2, MoveKeeps DEF Refuse, TakesSlot, InHandler
  <1> QED
    BY <1>2, <1>3, <1>4

\* The two checks before the slot move a request on or refuse it, /healthz never.
LEMMA CheckKeeps ==
    ASSUME GatewayInv, NEW r \in Request, NEW ok \in BOOLEAN, BearerAuth(r, ok) \/ RateLimit(r, ok)
    PROVE  GatewayInv'
  <1>1. at[r] \in {"auth", "rate"} /\ at[r] \in InFlight /\ at[r] \notin InHandler
    BY DEF BearerAuth, RateLimit, InFlight, InHandler
  <1>2. UNCHANGED <<path, server>>
    BY DEF BearerAuth, RateLimit
  <1>3. \/ \E place \in {"rate", "slot"} : Go(r, place) /\ UNCHANGED <<sem, answered>>
        \/ \E code \in {401, 429} : path[r] # "healthz" /\ Refuse(r, code)
    BY DEF BearerAuth, RateLimit
  <1>4. ASSUME NEW place \in {"rate", "slot"}, Go(r, place), UNCHANGED <<sem, answered>>
        PROVE  GatewayInv'
    BY Zenon, <1>1, <1>2, <1>4, MoveKeeps DEF GatewayInv, PlaceInv, InFlight, InHandler
  <1>5. ASSUME NEW code \in {401, 429}, path[r] # "healthz", Refuse(r, code)
        PROVE  GatewayInv'
    <2>1. /\ answered' \in [Request -> Int]
          /\ \A q \in Request \ {r} : answered'[q] = answered[q]
      BY <1>5 DEF Refuse, GatewayInv, PlaceInv
    <2> QED
      BY <1>1, <1>2, <1>5, <2>1, MoveKeeps DEF Refuse, InHandler
  <1> QED
    BY <1>3, <1>4, <1>5

\* Every step of a handler goroutine keeps the invariant.
LEMMA HandlerKeeps ==
    ASSUME GatewayInv, NEW r \in Request,
           \/ HandlerStep(r) \/ ToolsAnswered(r) \/ AgentAnswers(r) \/ WriteFails(r)
           \/ \E atEnd \in BOOLEAN : StreamEnds(r, atEnd)
    PROVE  GatewayInv'
  <1>1. ASSUME NEW ok \in BOOLEAN, BearerAuth(r, ok) \/ RateLimit(r, ok)
        PROVE  GatewayInv'
    BY <1>1, CheckKeeps
  <1>2. CASE Concurrency(r)
    BY Zenon, <1>2, TakeKeeps
  <1>3. CASE Healthz(r)
    BY <1>3, ReturnKeeps DEF Healthz, InHandler
  <1>4. CASE StatusHandler(r)
    <2>1. PICK c \in Components : ReturnFromHandler(r, Overall(c))
      BY <1>4 DEF StatusHandler
    <2>2. Overall(c) \in Int
      BY DEF Overall
    <2> QED
      BY <1>4, <2>1, <2>2, ReturnKeeps DEF StatusHandler, InHandler
  <1>5. CASE LocalHandler(r)
    BY <1>5, ReturnKeeps DEF LocalHandler, InHandler
  <1>6. CASE ToolsCalls(r)
    BY <1>6, MoveKeeps DEF ToolsCalls, GatewayInv, PlaceInv, InFlight, InHandler
  <1>7. CASE ChatChecks(r)
    <2>1. at[r] = "handler" /\ path[r] = "chat" /\ UNCHANGED <<path, server>>
      BY <1>7 DEF ChatChecks
    <2>2. \/ \E code \in {503, 415, 413, 400} : ReturnFromHandler(r, code)
          \/ Go(r, "calling") /\ UNCHANGED <<sem, answered>>
      BY <1>7 DEF ChatChecks
    <2>3. ASSUME NEW code \in {503, 415, 413, 400}, ReturnFromHandler(r, code)
          PROVE  GatewayInv'
      BY <2>1, <2>3, ReturnKeeps DEF InHandler
    <2>4. CASE Go(r, "calling") /\ UNCHANGED <<sem, answered>>
      BY Zenon, <2>1, <2>4, MoveKeeps DEF GatewayInv, PlaceInv, InFlight, InHandler
    <2> QED
      BY <2>2, <2>3, <2>4
  <1>8. CASE CallCancelled(r)
    BY <1>8, ReturnKeeps DEF CallCancelled, InHandler
  <1>9. CASE BodyClosed(r)
    BY <1>9, ReturnKeeps DEF BodyClosed, InHandler
  <1>10. CASE ToolsAnswered(r)
    BY <1>10, ReturnKeeps DEF ToolsAnswered, InHandler
  <1>11. CASE AgentAnswers(r)
    <2>1. at[r] = "calling" /\ path[r] = "chat" /\ UNCHANGED <<path, server>>
      BY <1>11 DEF AgentAnswers
    <2>2. ASSUME NEW code \in {503, 502}, ReturnFromHandler(r, code)
          PROVE  GatewayInv'
      BY <2>1, <2>2, ReturnKeeps DEF InHandler
    <2>3. ASSUME Go(r, "streaming"), answered' = [answered EXCEPT ![r] = 200], UNCHANGED sem
          PROVE  GatewayInv'
      <3>1. /\ answered' \in [Request -> Int]
            /\ \A q \in Request \ {r} : answered'[q] = answered[q]
        BY <2>3 DEF GatewayInv, PlaceInv
      <3> QED
        BY <2>1, <2>3, <3>1, MoveKeeps DEF InFlight, InHandler
    <2> QED
      BY <1>11, <2>2, <2>3 DEF AgentAnswers
  <1>12. ASSUME NEW atEnd \in BOOLEAN, StreamEnds(r, atEnd)
         PROVE  GatewayInv'
    BY <1>12, ReturnKeeps DEF StreamEnds, InHandler
  <1>13. CASE WriteFails(r)
    BY <1>13, ReturnKeeps DEF WriteFails, InHandler
  <1> QED
    BY Zenon, <1>1, <1>2, <1>3, <1>4, <1>5, <1>6, <1>7, <1>8, <1>9, <1>10, <1>11,
       <1>12, <1>13
       DEF HandlerStep

\* Before the first request there are no holders.
LEMMA GatewayInitInv == GatewayInit => GatewayInv
  <1> SUFFICES ASSUME GatewayInit
               PROVE  GatewayInv
    OBVIOUS
  <1>1. Holders = {}
    BY DEF GatewayInit, Holders, InHandler
  <1>2. SlotInv
    BY <1>1, FS_EmptySet, GatewayAssumption DEF GatewayInit, SlotInv
  <1> QED
    BY <1>2 DEF GatewayInit, GatewayInv, PlaceInv, EndedInv, SlotsBounded,
                HealthzAlwaysAnswered, InFlight, InHandler, Paths

\* Each step of the gateway keeps the invariant.
LEMMA GatewayStep == GatewayInv /\ [GatewayNext]_gatewayVars => GatewayInv'
  <1> SUFFICES ASSUME GatewayInv, [GatewayNext]_gatewayVars
               PROVE  GatewayInv'
    OBVIOUS
  <1>1. ASSUME NEW r \in Request, NEW p \in Paths, Arrive(r, p)
        PROVE  GatewayInv'
    <2>1. /\ at' = [at EXCEPT ![r] = "auth"] /\ path' = [path EXCEPT ![r] = p]
          /\ at[r] = "none" /\ server = "serving" /\ UNCHANGED <<sem, answered, server>>
      BY <1>1 DEF Arrive, Go
    <2>2. PlaceInv'
      BY <2>1 DEF GatewayInv, PlaceInv, InFlight
    <2>3. Holders' = Holders
      BY <2>1 DEF GatewayInv, PlaceInv, Holders, TakesSlot, InHandler
    <2>4. SlotsBounded'
      BY <2>1, <2>3 DEF GatewayInv, SlotsBounded, SlotInv
    <2>5. EndedInv' /\ HealthzAlwaysAnswered'
      BY <2>1 DEF GatewayInv, PlaceInv, EndedInv, HealthzAlwaysAnswered
    <2> QED
      BY <2>2, <2>4, <2>5 DEF GatewayInv
  <1>2. ASSUME UNCHANGED <<at, path, answered, sem>>, (server' = "exited") = (server = "exited")
        PROVE  GatewayInv'
    <2>1. Holders' = Holders
      BY <1>2 DEF Holders, TakesSlot
    <2> QED
      BY <1>2, <2>1 DEF GatewayInv, PlaceInv, EndedInv, SlotsBounded, SlotInv,
         HealthzAlwaysAnswered
  <1>3. ASSUME NEW r \in Request, Disconnect(r)
        PROVE  GatewayInv'
    BY <1>2, <1>3 DEF Disconnect
  <1>4. ASSUME NEW r \in Request,
               \/ HandlerStep(r) \/ ToolsAnswered(r) \/ AgentAnswers(r) \/ WriteFails(r)
               \/ \E atEnd \in BOOLEAN : StreamEnds(r, atEnd)
        PROVE  GatewayInv'
    BY <1>4, HandlerKeeps
  <1>5. ASSUME NEW now \in BOOLEAN, DiskPoll(now)
        PROVE  GatewayInv'
    BY <1>2, <1>5 DEF DiskPoll
  <1>6. CASE ShutdownServer
    <2>1. server = "serving" /\ server' = "draining" /\ UNCHANGED <<at, path, answered, sem>>
      BY <1>6 DEF ShutdownServer
    <2> QED
      BY <1>2, <2>1
  <1>7. CASE MainReturns
    <2>1. /\ server' = "exited" /\ UNCHANGED <<path, answered>>
          /\ at' = [r \in Request |-> IF at[r] \in InFlight THEN "cut" ELSE at[r]]
      BY <1>7 DEF MainReturns
    <2>2. PlaceInv'
      BY <2>1 DEF GatewayInv, PlaceInv
    <2>3. EndedInv' /\ SlotsBounded' /\ HealthzAlwaysAnswered'
      BY <2>1
         DEF GatewayInv, EndedInv, SlotsBounded, HealthzAlwaysAnswered, InFlight,
             InHandler
    <2> QED
      BY <2>2, <2>3 DEF GatewayInv
  <1>8. CASE UNCHANGED gatewayVars
    BY <1>2, <1>8 DEF gatewayVars
  <1> QED
    BY Zenon, <1>1, <1>3, <1>4, <1>5, <1>6, <1>7, <1>8 DEF GatewayNext

-----------------------------------------------------------------------------
\* The invariant of the gateway holds throughout.
LEMMA GatewayAlways == GatewaySpec => []GatewayInv
  BY GatewayInitInv, GatewayStep, PTL DEF GatewaySpec

\* Every way out of every handler gives its slot back exactly once, for any
\* number of requests and slots (ratelimit.go concurrencyMiddleware).
THEOREM SlotsAreAccounted == GatewaySpec => []SlotsAccounted
  <1>1. GatewayInv => SlotsAccounted
    BY DEF GatewayInv, SlotsBounded, SlotInv, SlotsAccounted, Holders
  <1> QED
    BY GatewayAlways, <1>1, PTL

\* /healthz is never refused, for any number of requests and slots (auth.go,
\* ratelimit.go).
THEOREM HealthzIsAnswered == GatewaySpec => []HealthzAlwaysAnswered
  <1>1. GatewayInv => HealthzAlwaysAnswered
    BY DEF GatewayInv
  <1> QED
    BY GatewayAlways, <1>1, PTL

-----------------------------------------------------------------------------
(*****************************************************************************)
(* RateLimiter. No window of time sees more admitted than a full bucket      *)
(* and the refill of the window. The property speaks of admissions and the   *)
(* limiter of tokens; the invariant relates them, for every admission as     *)
(* the start of a window, and also for a bucket the cleanup has dropped.     *)
(*****************************************************************************)

\* What the requests admitted since the i-th, that one included, have cost.
CostSince(ip, i) == (Len(admitted[ip]) - i + 1) * TokenCost

\* The types of the variables.
RateData ==
    /\ RateTypeOK
    /\ buckets \in [IP -> [tokens : Int, lastSeen : Int]]
    /\ admitted \in [IP -> Seq(Int)]

\* The cost since any admission and what is left in the bucket are covered by a
\* full bucket and the refill up to the bucket's last use; once the bucket is
\* dropped, the refill up to now covers the cost by itself.
BucketCovers(ip) ==
    \A i \in DOMAIN admitted[ip] :
        /\ admitted[ip][i] <= clock
        /\ buckets[ip] # NoBucket =>
              /\ admitted[ip][i] <= buckets[ip].lastSeen
              /\ CostSince(ip, i) + buckets[ip].tokens
                    <= Capacity + (buckets[ip].lastSeen - admitted[ip][i]) * RefillPerTick
        /\ buckets[ip] = NoBucket => CostSince(ip, i) <= (clock - admitted[ip][i]) * RefillPerTick

\* The inductive invariant of the limiter.
RateInv == RateData /\ (\A ip \in IP : BucketCovers(ip)) /\ WindowBudget

-----------------------------------------------------------------------------
\* A larger factor gives a larger product.
LEMMA TimesMonotone ==
    ASSUME NEW x \in Int, NEW y \in Int, NEW z \in Nat, x <= y
    PROVE  x * z <= y * z
  <1>1. (y - x) * z >= 0
    OBVIOUS
  <1>2. y * z = x * z + (y - x) * z
    OBVIOUS
  <1> QED
    BY <1>1, <1>2

\* The constants, and the bucket that stands for none.
LEMMA BucketFacts ==
    /\ TokenCost \in Nat \ {0} /\ RefillPerTick \in Nat \ {0} /\ BurstTokens \in Nat \ {0}
    /\ StaleDuration \in Nat \ {0} /\ MaxTime \in Nat
    /\ Capacity \in Nat /\ StaleDuration * RefillPerTick >= Capacity
    /\ NoCutoff \in Int /\ NoCutoff < -StaleDuration
    /\ NoBucket \in [tokens : Int, lastSeen : Int] /\ NoBucket.tokens = -1 /\ NoBucket.lastSeen = -1
  <1>1. /\ TokenCost \in Nat \ {0} /\ RefillPerTick \in Nat \ {0} /\ BurstTokens \in Nat \ {0}
        /\ StaleDuration \in Nat \ {0} /\ MaxTime \in Nat
    BY BucketAssumption
  <1>2. Capacity \in Nat
    BY <1>1 DEF Capacity
  <1> QED
    BY <1>1, <1>2, StaleRefillsBucket DEF Capacity, NoCutoff, NoBucket

\* Nothing has been admitted at first.
LEMMA RateInitInv == RateInit => RateInv
  <1> SUFFICES ASSUME RateInit
               PROVE  RateInv
    OBVIOUS
  <1>1. RateData
    BY BucketFacts DEF RateInit, RateData, RateTypeOK
  <1>2. \A ip \in IP : admitted[ip] = <<>>
    BY Zenon DEF RateInit
  <1> QED
    BY <1>1, <1>2 DEF RateInv, BucketCovers, WindowBudget

\* The bucket of a request: what it had, and what allow leaves in it.
LEMMA AllowCases ==
    ASSUME RateInv, NEW ip \in IP, Allow(ip)
    PROVE  \E have \in 0 .. Capacity, ok \in BOOLEAN :
              /\ buckets[ip] = NoBucket => have = Capacity
              /\ buckets[ip] # NoBucket =>
                    have <= buckets[ip].tokens + (clock - buckets[ip].lastSeen) * RefillPerTick
              /\ buckets' = [buckets EXCEPT ![ip] =
                               [tokens |-> IF ok THEN have - TokenCost ELSE have, lastSeen |-> clock]]
              /\ ok => have >= TokenCost
              /\ admitted' = IF ok THEN [admitted EXCEPT ![ip] = Append(@, clock)] ELSE admitted
  <1> DEFINE have == IF buckets[ip] # NoBucket THEN Refilled(ip) ELSE Capacity
             ok == have >= TokenCost
  <1>1. /\ buckets' = [buckets EXCEPT ![ip] =
                         [tokens |-> IF ok THEN have - TokenCost ELSE have, lastSeen |-> clock]]
        /\ admitted' = IF ok THEN [admitted EXCEPT ![ip] = Append(@, clock)] ELSE admitted
    BY Zenon DEF Allow
  <1>2. /\ have \in 0 .. Capacity
        /\ buckets[ip] = NoBucket => have = Capacity
        /\ buckets[ip] # NoBucket =>
              have <= buckets[ip].tokens + (clock - buckets[ip].lastSeen) * RefillPerTick
    <2>1. CASE buckets[ip] = NoBucket
      BY <2>1, BucketFacts
    <2>2. CASE buckets[ip] # NoBucket
      <3> DEFINE t == buckets[ip].tokens + (clock - buckets[ip].lastSeen) * RefillPerTick
      <3>1. /\ buckets[ip].tokens \in 0 .. Capacity /\ buckets[ip].lastSeen \in 0 .. clock
            /\ clock \in Nat
        BY <2>2, BucketFacts DEF RateInv, RateData, RateTypeOK
      <3>2. t \in Nat
        BY <3>1, BucketFacts
      <3>3. have = IF t > Capacity THEN Capacity ELSE t
        BY Zenon, <2>2 DEF Refilled
      <3>4. have \in 0 .. Capacity /\ have <= t
        BY <3>2, <3>3, BucketFacts
      <3> QED
        BY <2>2, <3>4
    <2> QED
      BY <2>1, <2>2
  <1> HIDE DEF have
  <1> QED
    BY Zenon, <1>1, <1>2

\* A request is paid from what the bucket had, which is covered.
LEMMA AllowKeeps ==
    ASSUME RateInv, NEW ip \in IP, Allow(ip)
    PROVE  RateInv'
  <1>1. PICK have \in 0 .. Capacity, ok \in BOOLEAN :
              /\ buckets[ip] = NoBucket => have = Capacity
              /\ buckets[ip] # NoBucket =>
                    have <= buckets[ip].tokens + (clock - buckets[ip].lastSeen) * RefillPerTick
              /\ buckets' = [buckets EXCEPT ![ip] =
                               [tokens |-> IF ok THEN have - TokenCost ELSE have, lastSeen |-> clock]]
              /\ ok => have >= TokenCost
              /\ admitted' = IF ok THEN [admitted EXCEPT ![ip] = Append(@, clock)] ELSE admitted
    BY AllowCases
  <1>2. UNCHANGED <<clock, cutoff>>
    BY DEF Allow
  <1> DEFINE A == admitted[ip]
  <1>3. /\ A \in Seq(Int) /\ Len(A) \in Nat /\ DOMAIN A = 1 .. Len(A) /\ clock \in 0 .. MaxTime
        /\ \A i \in DOMAIN A : A[i] \in Int
        /\ buckets \in [IP -> [tokens : Int, lastSeen : Int]] /\ admitted \in [IP -> Seq(Int)]
        /\ buckets[ip].tokens \in Int /\ buckets[ip].lastSeen \in Int
        /\ Capacity \in Nat /\ TokenCost \in Nat /\ RefillPerTick \in Nat /\ MaxTime \in Nat
    BY BucketFacts DEF RateInv, RateData, RateTypeOK
  <1>4. /\ buckets'[ip].tokens = (IF ok THEN have - TokenCost ELSE have)
        /\ buckets'[ip].lastSeen = clock /\ buckets'[ip].tokens \in 0 .. Capacity
        /\ \A q \in IP \ {ip} : buckets'[q] = buckets[q] /\ admitted'[q] = admitted[q]
        /\ admitted'[ip] = IF ok THEN Append(A, clock) ELSE A
    BY <1>1, <1>3
  <1>5. RateData'
    <2>1. buckets' \in [IP -> [tokens : Int, lastSeen : Int]]
      BY <1>1, <1>3
    <2>2. admitted' \in [IP -> Seq(Int)]
      BY <1>1, <1>3
    <2>3. ASSUME NEW q \in IP
          PROVE  \/ buckets'[q] = NoBucket
                 \/ buckets'[q].tokens \in 0 .. Capacity /\ buckets'[q].lastSeen \in 0 .. clock
      <3>1. CASE q = ip
        BY <1>3, <1>4, <3>1
      <3>2. CASE q # ip
        BY <1>4, <3>2 DEF RateInv, RateData, RateTypeOK
      <3> QED
        BY Zenon, <3>1, <3>2
    <2>4. RateTypeOK'
      BY <1>2, <2>3 DEF RateInv, RateData, RateTypeOK
    <2> QED
      BY Zenon, <2>1, <2>2, <2>4 DEF RateData
  <1>6. buckets'[ip] # NoBucket
    BY <1>4, BucketFacts
  <1> DEFINE Cost(i) == (Len(A) - i + 1) * TokenCost
  <1>7. ASSUME NEW i \in DOMAIN A
        PROVE  /\ Cost(i) \in Int /\ A[i] <= clock
               /\ Cost(i) + have <= Capacity + (clock - A[i]) * RefillPerTick
    <2>1. Cost(i) \in Int
      BY <1>3
    <2>2. A[i] <= clock
      BY Zenon DEF RateInv, BucketCovers
    <2>3. CASE buckets[ip] = NoBucket
      <3>1. Cost(i) <= (clock - A[i]) * RefillPerTick
        BY <2>3 DEF RateInv, BucketCovers, CostSince
      <3>2. (clock - A[i]) * RefillPerTick \in Int
        BY <1>3
      <3> QED
        BY <1>1, <1>3, <2>1, <2>2, <2>3, <3>1, <3>2
    <2>4. CASE buckets[ip] # NoBucket
      <3> DEFINE b == buckets[ip]
                 used == (b.lastSeen - A[i]) * RefillPerTick
                 gained == (clock - b.lastSeen) * RefillPerTick
      <3>1. Cost(i) + b.tokens <= Capacity + used
        BY <2>4 DEF RateInv, BucketCovers, CostSince
      <3>2. used + gained = (clock - A[i]) * RefillPerTick /\ used \in Int /\ gained \in Int
        BY SMTT(30), <1>3
      <3>3. have <= b.tokens + gained
        BY <1>1, <2>4
      <3>4. /\ b.tokens \in Int /\ used \in Int /\ gained \in Int /\ Cost(i) \in Int
            /\ Capacity \in Int /\ have \in Int
        BY <1>3, <2>1, <3>2
      <3> HIDE DEF used, gained, b, Cost
      <3>5. Cost(i) + have <= Capacity + (used + gained)
        BY <3>1, <3>3, <3>4
      <3> QED
        BY Zenon, <2>1, <2>2, <3>2, <3>5
    <2> QED
      BY <2>3, <2>4
  <1>8. BucketCovers(ip)' /\ WindowBudget'
    <2>1. CASE ~ok
      <3>1. admitted' = admitted /\ buckets'[ip].tokens = have
        BY <1>1, <1>4, <2>1
      <3>2. ASSUME NEW i \in DOMAIN A
            PROVE  CostSince(ip, i)' = Cost(i)
        BY <3>1 DEF CostSince
      <3> QED
        BY Zenon, <1>2, <1>4, <1>6, <1>7, <3>1, <3>2
           DEF RateInv, BucketCovers, WindowBudget
    <2>2. CASE ok
      <3>1. /\ admitted'[ip] = Append(A, clock) /\ buckets'[ip].tokens = have - TokenCost
            /\ have >= TokenCost
        BY Zenon, <1>1, <1>4, <2>2
      <3>2. /\ Len(admitted'[ip]) = Len(A) + 1 /\ DOMAIN admitted'[ip] = 1 .. Len(A) + 1
            /\ admitted'[ip][Len(A) + 1] = clock
            /\ \A i \in DOMAIN A : admitted'[ip][i] = A[i]
        BY <1>3, <3>1
      <3>3. ASSUME NEW i \in DOMAIN admitted'[ip]
            PROVE  /\ admitted'[ip][i] \in Int /\ admitted'[ip][i] <= clock
                   /\ CostSince(ip, i)' + buckets'[ip].tokens
                        <= Capacity + (clock - admitted'[ip][i]) * RefillPerTick
                   /\ CostSince(ip, i)' \in Int
        <4>1. CASE i \in DOMAIN A
          <5>1. CostSince(ip, i)' = (Len(A) + 1 - i + 1) * TokenCost
            BY <3>2 DEF CostSince
          <5>2. (Len(A) + 1 - i + 1) * TokenCost = Cost(i) + TokenCost
            BY <1>3, <4>1
          <5>3. admitted'[ip][i] = A[i] /\ A[i] \in Int
            BY Zenon, <1>3, <3>2, <4>1
          <5>4. (clock - A[i]) * RefillPerTick \in Int
            BY <1>3, <5>3
          <5> DEFINE refill == (clock - A[i]) * RefillPerTick
          <5>5. Cost(i) \in Int /\ A[i] <= clock /\ Cost(i) + have <= Capacity + refill
            BY Zenon, <1>7, <4>1
          <5> HIDE DEF refill, Cost
          <5>6. CostSince(ip, i)' + buckets'[ip].tokens <= Capacity + refill
            BY <1>3, <3>1, <5>1, <5>2, <5>4, <5>5 DEF refill
          <5> QED
            BY <1>3, <5>1, <5>2, <5>3, <5>5, <5>6 DEF refill
        <4>2. CASE i = Len(A) + 1
          <5>1. CostSince(ip, i)' = TokenCost
            <6>1. CostSince(ip, i)' = (Len(A) + 1 - (Len(A) + 1) + 1) * TokenCost
              BY <3>2, <4>2 DEF CostSince
            <6>2. Len(A) + 1 - (Len(A) + 1) + 1 = 1
              BY <1>3
            <6> QED
              BY <1>3, <6>1, <6>2
          <5>2. (clock - clock) * RefillPerTick = 0
            BY <1>3
          <5> QED
            BY <1>1, <1>3, <3>1, <3>2, <4>2, <5>1, <5>2
        <4> QED
          BY <1>3, <3>2, <4>1, <4>2
      <3>4. BucketCovers(ip)'
        BY Zenon, <1>2, <1>4, <1>6, <3>3 DEF BucketCovers
      <3>5. ASSUME NEW i \in DOMAIN admitted'[ip], NEW j \in i .. Len(admitted'[ip])
            PROVE  (j - i + 1) * TokenCost
                     <= Capacity + (admitted'[ip][j] - admitted'[ip][i]) * RefillPerTick
        <4>1. CASE j <= Len(A)
          <5>1. i \in DOMAIN A /\ j \in i .. Len(A) /\ j \in DOMAIN A
            BY <1>3, <3>2, <4>1
          <5> QED
            BY Zenon, <3>2, <5>1 DEF RateInv, WindowBudget
        <4>2. CASE j = Len(A) + 1
          <5>1. CostSince(ip, i)' = (j - i + 1) * TokenCost
            BY Zenon, <3>2, <4>2 DEF CostSince
          <5>2. buckets'[ip].tokens \in Nat
            BY <1>3, <1>4
          <5>3. (clock - admitted'[ip][i]) * RefillPerTick \in Int
            BY <1>3, <3>3
          <5>4. admitted'[ip][j] = clock
            BY <3>2, <4>2
          <5> DEFINE cost == CostSince(ip, i)'
                     refill == (clock - admitted'[ip][i]) * RefillPerTick
          <5>5. cost \in Int /\ cost + buckets'[ip].tokens <= Capacity + refill
            BY <3>3
          <5>6. refill \in Int /\ Capacity \in Int
            BY <1>3, <5>3
          <5> HIDE DEF cost, refill
          <5>7. cost <= Capacity + refill
            BY <5>2, <5>5, <5>6
          <5> QED
            BY Zenon, <5>1, <5>4, <5>7 DEF cost, refill
        <4> QED
          BY <1>3, <3>2, <4>1, <4>2
      <3>6. WindowBudget'
        BY Zenon, <1>4, <3>5 DEF RateInv, WindowBudget
      <3> QED
        BY Zenon, <3>4, <3>6
    <2> QED
      BY <2>1, <2>2
  <1>9. ASSUME NEW q \in IP \ {ip}
        PROVE  BucketCovers(q)'
    BY Zenon, <1>2, <1>4 DEF RateInv, BucketCovers, CostSince
  <1> QED
    BY Zenon, <1>5, <1>8, <1>9 DEF RateInv

\* A bucket is dropped only when the refill since its last use fills it.
LEMMA SweepKeeps ==
    ASSUME RateInv, CleanupSweep
    PROVE  RateInv'
  <1>1. UNCHANGED <<clock, admitted>> /\ cutoff' = NoCutoff /\ cutoff # NoCutoff
    BY DEF CleanupSweep
  <1>2. cutoff <= clock - StaleDuration /\ cutoff \in Int /\ clock \in Nat
    BY <1>1, BucketFacts DEF RateInv, RateData, RateTypeOK
  <1>3. \A ip \in IP : buckets'[ip] = IF buckets[ip].lastSeen < cutoff THEN NoBucket ELSE buckets[ip]
    BY DEF CleanupSweep
  <1>4. RateData'
    BY <1>1, <1>3, BucketFacts DEF CleanupSweep, RateInv, RateData, RateTypeOK
  <1>5. ASSUME NEW ip \in IP
        PROVE  BucketCovers(ip)'
    <2>1. CASE buckets'[ip] = buckets[ip]
      BY Zenon, <1>1, <2>1 DEF RateInv, BucketCovers, CostSince
    <2>2. CASE buckets[ip].lastSeen < cutoff /\ buckets[ip] # NoBucket /\ buckets'[ip] = NoBucket
      <3> SUFFICES ASSUME NEW i \in DOMAIN admitted[ip]
                   PROVE  /\ admitted[ip][i] <= clock
                          /\ CostSince(ip, i) <= (clock - admitted[ip][i]) * RefillPerTick
        BY Zenon, <1>1, <2>2 DEF BucketCovers, CostSince
      <3> DEFINE a == admitted[ip][i]
                 b == buckets[ip]
      <3>1. /\ a <= clock
            /\ CostSince(ip, i) + b.tokens <= Capacity + (b.lastSeen - a) * RefillPerTick
        BY Zenon, <2>2 DEF RateInv, BucketCovers
      <3>2. /\ a \in Int /\ b.lastSeen \in Int /\ b.tokens \in Nat /\ i \in Int
            /\ Len(admitted[ip]) \in Nat
        BY <2>2, BucketFacts DEF RateInv, RateData, RateTypeOK
      <3>3. CostSince(ip, i) \in Int
        BY <3>2, BucketFacts DEF CostSince
      <3>4. StaleDuration * RefillPerTick <= (clock - b.lastSeen) * RefillPerTick
        <4> DEFINE since == clock - b.lastSeen
        <4>1. StaleDuration <= since /\ since \in Int /\ StaleDuration \in Int /\ RefillPerTick \in Nat
          BY <1>2, <2>2, <3>2, BucketFacts
        <4> HIDE DEF since
        <4>2. StaleDuration * RefillPerTick <= since * RefillPerTick
          BY <4>1, TimesMonotone
        <4> QED
          BY Zenon, <4>2 DEF since
      <3>5. (b.lastSeen - a) * RefillPerTick + (clock - b.lastSeen) * RefillPerTick
              = (clock - a) * RefillPerTick
        BY <1>2, <3>2, BucketFacts
      <3>6. /\ (b.lastSeen - a) * RefillPerTick \in Int /\ (clock - b.lastSeen) * RefillPerTick \in Int
            /\ StaleDuration * RefillPerTick \in Int
        BY SMTT(30), <1>2, <3>2, BucketFacts
      <3> DEFINE cost == CostSince(ip, i)
                 used == (b.lastSeen - a) * RefillPerTick
                 gained == (clock - b.lastSeen) * RefillPerTick
                 stale == StaleDuration * RefillPerTick
                 tokens == b.tokens
      <3>7. /\ cost \in Int /\ used \in Int /\ gained \in Int /\ stale \in Int /\ tokens \in Nat
            /\ cost + tokens <= Capacity + used /\ stale <= gained /\ stale >= Capacity
            /\ Capacity \in Nat
        BY Zenon, <3>1, <3>2, <3>3, <3>4, <3>6, BucketFacts
      <3> HIDE DEF cost, used, gained, stale, tokens
      <3>8. cost <= used + gained
        BY <3>7
      <3> QED
        BY Zenon, <3>1, <3>5, <3>8 DEF cost, used, gained
    <2> QED
      BY Zenon, <1>3, <2>1, <2>2
  <1> QED
    BY Zenon, <1>1, <1>4, <1>5 DEF RateInv, WindowBudget

\* Time only adds to the refill.
LEMMA RateTickKeeps ==
    ASSUME RateInv, RateTick
    PROVE  RateInv'
  <1>1. UNCHANGED <<buckets, cutoff, admitted>> /\ clock' = clock + 1 /\ clock' \in 0 .. MaxTime
    BY BucketFacts DEF RateTick, RateInv, RateData, RateTypeOK
  <1>2. clock \in Nat
    BY DEF RateInv, RateData, RateTypeOK
  <1>3. RateData'
    BY <1>1, <1>2, BucketFacts DEF RateInv, RateData, RateTypeOK
  <1>4. ASSUME NEW ip \in IP
        PROVE  BucketCovers(ip)'
    <2>1. ASSUME NEW i \in DOMAIN admitted[ip]
          PROVE  /\ admitted[ip][i] <= clock' /\ CostSince(ip, i)' = CostSince(ip, i)
                 /\ buckets[ip] = NoBucket =>
                        CostSince(ip, i) <= (clock' - admitted[ip][i]) * RefillPerTick
      <3> DEFINE a == admitted[ip][i]
      <3>1. a \in Int /\ a <= clock /\ i \in Int /\ Len(admitted[ip]) \in Nat
        BY DEF RateInv, RateData, BucketCovers
      <3>2. (clock - a) * RefillPerTick <= (clock' - a) * RefillPerTick
        BY <1>1, <1>2, <3>1, BucketFacts, TimesMonotone
      <3>3. CostSince(ip, i) \in Int
        BY <3>1, BucketFacts DEF CostSince
      <3>4. (clock - a) * RefillPerTick \in Int /\ (clock' - a) * RefillPerTick \in Int
        BY <1>1, <1>2, <3>1, BucketFacts
      <3>5. buckets[ip] = NoBucket => CostSince(ip, i) <= (clock - a) * RefillPerTick
        BY Zenon DEF RateInv, BucketCovers
      <3>6. CostSince(ip, i)' = CostSince(ip, i)
        BY Zenon, <1>1 DEF CostSince
      <3> QED
        BY <1>1, <1>2, <3>1, <3>2, <3>3, <3>4, <3>5, <3>6
    <2>2. ASSUME NEW i \in DOMAIN admitted[ip], buckets[ip] # NoBucket
          PROVE  /\ admitted[ip][i] <= buckets[ip].lastSeen
                 /\ CostSince(ip, i) + buckets[ip].tokens
                      <= Capacity + (buckets[ip].lastSeen - admitted[ip][i]) * RefillPerTick
      BY Zenon, <2>2 DEF RateInv, BucketCovers
    <2> SUFFICES ASSUME NEW i \in DOMAIN admitted[ip]
                 PROVE  /\ admitted[ip][i] <= clock'
                        /\ buckets[ip] # NoBucket =>
                              /\ admitted[ip][i] <= buckets[ip].lastSeen
                              /\ CostSince(ip, i)' + buckets[ip].tokens
                                    <= Capacity + (buckets[ip].lastSeen - admitted[ip][i]) * RefillPerTick
                        /\ buckets[ip] = NoBucket =>
                              CostSince(ip, i)' <= (clock' - admitted[ip][i]) * RefillPerTick
      BY <1>1 DEF BucketCovers
    <2> QED
      BY <2>1, <2>2, Zenon
  <1> QED
    BY Zenon, <1>1, <1>3, <1>4 DEF RateInv, WindowBudget

\* Every step keeps the invariant.
LEMMA RateStep == RateInv /\ [RateNext]_rateVars => RateInv'
  <1> SUFFICES ASSUME RateInv, [RateNext]_rateVars
               PROVE  RateInv'
    OBVIOUS
  <1>1. CASE UNCHANGED rateVars
    BY Zenon, <1>1
       DEF rateVars, RateInv, RateData, RateTypeOK, BucketCovers, CostSince,
           WindowBudget
  <1>2. CASE CleanupTick
    <2>1. UNCHANGED <<clock, buckets, admitted>> /\ cutoff' = clock - StaleDuration
      BY Zenon, <1>2 DEF CleanupTick
    <2>2. RateData'
      BY <2>1, BucketFacts DEF RateInv, RateData, RateTypeOK
    <2> QED
      BY <2>1, <2>2 DEF RateInv, BucketCovers, CostSince, WindowBudget
  <1> QED
    BY Zenon, <1>1, <1>2, AllowKeeps, SweepKeeps, RateTickKeeps DEF RateNext

\* Over every window of time a client is admitted at most a burst plus the refill
\* of that window, for every cost, refill, burst and stale duration that lets a
\* dropped bucket have filled up, whenever the cleanup runs (ratelimit.go, allow
\* and periodicCleanup).
THEOREM BudgetHolds == RateSpec => []WindowBudget
  <1>1. RateInv => WindowBudget
    BY DEF RateInv
  <1> QED
    BY RateInitInv, RateStep, <1>1, PTL DEF RateSpec

-----------------------------------------------------------------------------
(*****************************************************************************)
(* ProviderHealth. The type invariant, CountsAreEvidence and                 *)
(* TripsAndClosesOnRuns hold for every set of providers, every channel       *)
(* size and all thresholds. The operations of a breaker are characterised    *)
(* once, by the first lemmas; the machine is then a frame around them.       *)
(*****************************************************************************)

\* A breaker that trips is a breaker.
LEMMA TripType ==
    ASSUME NEW b \in Breaker
    PROVE  Trip(b) \in Breaker
<1>1. 0 \in 0 .. OpenDuration /\ "open" \in States
  BY BreakerConfig DEF States
<1>2. [b EXCEPT !.state = "open"] \in Breaker
  BY <1>1 DEF Breaker
<1>3. [[b EXCEPT !.state = "open"] EXCEPT !.age = 0] \in Breaker
  BY Zenon, <1>1, <1>2 DEF Breaker
<1>4. Trip(b) = [[b EXCEPT !.state = "open"] EXCEPT !.age = 0]
  BY DEF Trip
<1>5. QED
  BY <1>3, <1>4

\* Record keeps a breaker well formed.
LEMMA RecordType ==
    ASSUME NEW b \in Breaker, NEW s \in BOOLEAN
    PROVE  AfterRecord(b, s) \in Breaker
<1>1. b.state \in States /\ 0 \in 0 .. FailThreshold - 1 /\ 0 \in 0 .. RecoverThreshold - 1
  BY BreakerConfig DEF Breaker
<1>2. RecordSuccess(b) \in Breaker
  <2>1. CASE b.state = "closed"
    BY <1>1, <2>1 DEF RecordSuccess, Breaker
  <2>2. CASE b.state = "half-open" /\ b.successCount + 1 >= RecoverThreshold
    <3>1. RecordSuccess(b) = [[[b EXCEPT !.state = "closed"] EXCEPT !.failCount = 0]
                                EXCEPT !.successCount = 0]
      BY <2>2 DEF RecordSuccess
    <3>2. [b EXCEPT !.state = "closed"] \in Breaker
      BY DEF Breaker, States
    <3>3. [[b EXCEPT !.state = "closed"] EXCEPT !.failCount = 0] \in Breaker
      BY Zenon, <1>1, <3>2 DEF Breaker
    <3>4. QED
      BY Zenon, <1>1, <3>1, <3>3 DEF Breaker
  <2>3. CASE b.state = "half-open" /\ ~(b.successCount + 1 >= RecoverThreshold)
    <3>1. RecordSuccess(b) = [b EXCEPT !.successCount = b.successCount + 1]
      BY <2>3 DEF RecordSuccess
    <3>2. b.successCount + 1 \in 0 .. RecoverThreshold - 1
      BY <2>3, BreakerConfig DEF Breaker
    <3>3. QED
      BY <3>1, <3>2 DEF Breaker
  <2>4. CASE b.state = "open"
    BY <2>4 DEF RecordSuccess
  <2>5. QED
    BY <1>1, <2>1, <2>2, <2>3, <2>4 DEF States
<1>3. RecordFailure(b) \in Breaker
  <2>1. CASE b.state = "closed" /\ b.failCount + 1 >= FailThreshold
    <3>1. RecordFailure(b) = [Trip(b) EXCEPT !.failCount = 0]
      BY <2>1 DEF RecordFailure
    <3>2. QED
      BY <1>1, <3>1, TripType DEF Breaker
  <2>2. CASE b.state = "closed" /\ ~(b.failCount + 1 >= FailThreshold)
    <3>1. RecordFailure(b) = [b EXCEPT !.failCount = b.failCount + 1]
      BY <2>2 DEF RecordFailure
    <3>2. b.failCount + 1 \in 0 .. FailThreshold - 1
      BY <2>2, BreakerConfig DEF Breaker
    <3>3. QED
      BY <3>1, <3>2 DEF Breaker
  <2>3. CASE b.state = "half-open"
    <3>1. RecordFailure(b) = [Trip(b) EXCEPT !.successCount = 0]
      BY <2>3 DEF RecordFailure
    <3>2. QED
      BY <1>1, <3>1, TripType DEF Breaker
  <2>4. CASE b.state = "open"
    BY <2>4 DEF RecordFailure
  <2>5. QED
    BY <1>1, <2>1, <2>2, <2>3, <2>4 DEF States
<1>4. QED
  BY <1>2, <1>3 DEF AfterRecord

\* State, Allow and the passing of time keep a breaker well formed.
LEMMA QueryType ==
    ASSUME NEW b \in Breaker
    PROVE  /\ AfterState(b) \in Breaker
           /\ AfterAllow(b) \in Breaker
           /\ AfterTick(b) \in Breaker
<1>1. [b EXCEPT !.state = "half-open"] \in Breaker
  BY DEF Breaker, States
<1>2. [[b EXCEPT !.state = "half-open"] EXCEPT !.successCount = 0] \in Breaker
  <2>1. 0 \in 0 .. RecoverThreshold - 1
    BY BreakerConfig
  <2>2. QED
    BY Zenon, <1>1, <2>1 DEF Breaker
<1>3. HalfOpenIfElapsed(b) \in Breaker
  BY <1>2 DEF HalfOpenIfElapsed
<1>4. AfterTick(b) \in Breaker
  <2>1. CASE b.state = "open" /\ b.age < OpenDuration
    <3>1. b.age + 1 \in 0 .. OpenDuration
      BY <2>1, BreakerConfig DEF Breaker
    <3>2. [b EXCEPT !.age = b.age + 1] \in Breaker
      BY <3>1 DEF Breaker
    <3>3. QED
      BY <2>1, <3>2 DEF AfterTick
  <2>2. CASE ~(b.state = "open" /\ b.age < OpenDuration)
    BY Zenon, <2>2 DEF AfterTick
  <2>3. QED
    BY <2>1, <2>2
<1>5. QED
  BY <1>3, <1>4 DEF AfterState, AfterAllow

\* The relation CountsAreEvidence asks of one breaker and its histories.
Backed(b, f, o) ==
    /\ b.state = "closed" => b.failCount <= f
    /\ b.state = "half-open" => b.successCount <= o

\* Reading a breaker, and time, move no count ahead of its evidence and
\* neither close a breaker nor trip a closed one.
LEMMA QueryBacked ==
    ASSUME NEW b \in Breaker, NEW f \in Nat, NEW o \in Nat, Backed(b, f, o),
           NEW c \in {AfterState(b), AfterAllow(b), AfterTick(b)}
    PROVE  /\ Backed(c, f, o)
           /\ (b.state = "closed") <=> (c.state = "closed")
<1>1. CASE c = HalfOpenIfElapsed(b) /\ b.state = "open" /\ b.age >= OpenDuration
  <2>1. c.state = "half-open" /\ c.successCount = 0
    BY <1>1 DEF HalfOpenIfElapsed, Breaker
  <2>2. QED
    BY <1>1, <2>1 DEF Backed
<1>2. CASE c = HalfOpenIfElapsed(b) /\ ~(b.state = "open" /\ b.age >= OpenDuration)
  <2>1. c = b
    BY <1>2 DEF HalfOpenIfElapsed
  <2>2. QED
    BY <2>1
<1>3. CASE c = AfterTick(b)
  <2>1. c.state = b.state /\ c.failCount = b.failCount /\ c.successCount = b.successCount
    BY <1>3 DEF AfterTick, Breaker
  <2>2. QED
    BY <2>1 DEF Backed
<1>4. QED
  BY Zenon, <1>1, <1>2, <1>3 DEF AfterState, AfterAllow

\* A recorded success: counts stay backed, a closed breaker stays closed and
\* another one closes only when the run of successes is long enough.
LEMMA SuccessBacked ==
    ASSUME NEW b \in Breaker, NEW f \in 0 .. FailThreshold,
           NEW o \in 0 .. RecoverThreshold, Backed(b, f, o)
    PROVE  LET c == AfterRecord(b, TRUE)
               p == Least(o + 1, RecoverThreshold) IN
           /\ Backed(c, 0, p)
           /\ b.state = "closed" => c.state = "closed"
           /\ (b.state # "closed" /\ c.state = "closed") => p = RecoverThreshold
  BY BreakerConfig, SMTT(30)
     DEF Backed, AfterRecord, RecordSuccess, Least, Breaker, States

\* A recorded failure: counts stay backed, no breaker closes and a closed one
\* trips only when the run of failures is long enough.
LEMMA FailureBacked ==
    ASSUME NEW b \in Breaker, NEW f \in 0 .. FailThreshold,
           NEW o \in 0 .. RecoverThreshold, Backed(b, f, o)
    PROVE  LET c == AfterRecord(b, FALSE)
               g == Least(f + 1, FailThreshold) IN
           /\ Backed(c, g, 0)
           /\ b.state # "closed" => c.state # "closed"
           /\ (b.state = "closed" /\ c.state # "closed") => g = FailThreshold
  BY BreakerConfig, SMTT(30)
     DEF Backed, AfterRecord, RecordFailure, Trip, Least, Breaker, States
-----------------------------------------------------------------------------
\* The size of the results channel is a number.
LEMMA ResultCapType == ResultCap \in Nat
  BY ProviderConfig, FS_CardinalityType DEF ResultCap

\* The inductive invariant.
IInv == TypeOK /\ CountsAreEvidence

\* What a step may do to the breaker of p.
Disciplined(p) ==
    /\ (breaker[p].state = "closed" /\ breaker'[p].state # "closed")
         => failRun'[p] = FailThreshold
    /\ (breaker[p].state # "closed" /\ breaker'[p].state = "closed")
         => okRun'[p] = RecoverThreshold

\* IInv holds initially.
LEMMA InitIInv == Init => IInv
<1> SUFFICES ASSUME Init PROVE IInv
  OBVIOUS
<1>1. New \in Breaker
  BY BreakerConfig DEF New, Breaker, States
<1>2. TypeOK
  BY <1>1, BreakerConfig, ResultCapType DEF Init, TypeOK, Result
<1>3. CountsAreEvidence
  BY DEF Init, CountsAreEvidence, New
<1>4. QED
  BY Zenon, <1>2, <1>3 DEF IInv

\* Steps that only query breakers: routing, the two halves of Snapshot, the
\* log line of a failure, and the clock.
LEMMA QueryStep ==
    ASSUME IInv, UNCHANGED <<failRun, okRun>>,
           breaker' \in [Providers -> Breaker],
           \A p \in Providers : breaker'[p] \in
               {breaker[p], AfterState(breaker[p]), AfterAllow(breaker[p]), AfterTick(breaker[p])}
    PROVE  CountsAreEvidence' /\ \A p \in Providers : Disciplined(p)
<1> SUFFICES ASSUME NEW p \in Providers
             PROVE  /\ Backed(breaker'[p], failRun[p], okRun[p])
                    /\ (breaker[p].state = "closed") <=> (breaker'[p].state = "closed")
  BY Zenon DEF CountsAreEvidence, Disciplined, Backed
<1>1. /\ breaker[p] \in Breaker
      /\ failRun[p] \in Nat
      /\ okRun[p] \in Nat
      /\ Backed(breaker[p], failRun[p], okRun[p])
  BY BreakerConfig DEF IInv, TypeOK, CountsAreEvidence, Backed
<1>2. CASE breaker'[p] = breaker[p]
  BY Zenon, <1>1, <1>2
<1>3. CASE breaker'[p] \in {AfterState(breaker[p]), AfterAllow(breaker[p]), AfterTick(breaker[p])}
  BY Zenon, <1>1, <1>3, QueryBacked
<1>4. QED
  BY Zenon, <1>2, <1>3

\* Every step preserves IInv and treats every breaker with discipline.
LEMMA StepIInv ==
    IInv /\ [Next]_vars => IInv' /\ \A p \in Providers : Disciplined(p)
<1> SUFFICES ASSUME IInv, [Next]_vars
             PROVE  IInv' /\ \A p \in Providers : Disciplined(p)
  OBVIOUS
<1> USE DEF IInv
<1>1. ASSUME NEW p \in Providers, ProbeSend(p)
      PROVE  TypeOK' /\ UNCHANGED <<breaker, failRun, okRun>>
  <2>1. [name |-> p, success |-> up[p]] \in Result
    BY Zenon DEF TypeOK, Result
  <2>2. results' \in Seq(Result) /\ Len(results') <= ResultCap
    BY <1>1, <2>1, ResultCapType DEF ProbeSend, TypeOK
  <2>3. QED
    BY Zenon, <1>1, <2>2 DEF ProbeSend, TypeOK
<1>2. ASSUME NEW p \in Providers, ProbeDrop(p)
      PROVE  TypeOK' /\ UNCHANGED <<breaker, failRun, okRun>>
  BY Zenon, <1>2 DEF ProbeDrop, vars, TypeOK
<1>3. ASSUME NEW p \in Providers, EndpointChanges(p)
      PROVE  TypeOK' /\ UNCHANGED <<breaker, failRun, okRun>>
  BY Zenon, <1>3 DEF EndpointChanges, TypeOK
<1>4. ASSUME NEW p \in Providers, ShouldFallback(p)
      PROVE  IInv' /\ \A q \in Providers : Disciplined(q)
  <2>1. breaker' \in [Providers -> Breaker]
    BY Zenon, <1>4, QueryType DEF ShouldFallback, TypeOK
  <2>2. TypeOK'
    BY Zenon, <1>4, <2>1 DEF ShouldFallback, TypeOK
  <2>3. \A q \in Providers : breaker'[q] \in {breaker[q], AfterAllow(breaker[q])}
    BY Zenon, <1>4 DEF ShouldFallback, TypeOK
  <2>4. QED
    BY Zenon, <1>4, <2>1, <2>2, <2>3, QueryStep DEF ShouldFallback
<1>5. ASSUME NEW p \in Providers, SnapshotState(p)
      PROVE  IInv' /\ \A q \in Providers : Disciplined(q)
  <2>1. breaker' \in [Providers -> Breaker]
    BY Zenon, <1>5, QueryType DEF SnapshotState, TypeOK
  <2>2. reader' \in Reading
    BY Zenon, <1>5, <2>1 DEF SnapshotState, Reading, Breaker
  <2>3. TypeOK'
    BY Zenon, <1>5, <2>1, <2>2 DEF SnapshotState, TypeOK
  <2>4. \A q \in Providers : breaker'[q] \in {breaker[q], AfterState(breaker[q])}
    BY Zenon, <1>5 DEF SnapshotState, TypeOK
  <2>5. QED
    BY Zenon, <1>5, <2>1, <2>3, <2>4, QueryStep DEF SnapshotState
<1>6. ASSUME SnapshotAllow
      PROVE  IInv' /\ \A q \in Providers : Disciplined(q)
  <2>1. reader.name \in Providers /\ reader.circuit \in States
    BY Zenon, <1>6 DEF SnapshotAllow, TypeOK, Reading
  <2>2. breaker' \in [Providers -> Breaker]
    BY Zenon, <1>6, <2>1, QueryType DEF SnapshotAllow, TypeOK
  <2>3. status' \in Status
    BY Zenon, <1>6, <2>1 DEF SnapshotAllow, Status, Allows
  <2>4. TypeOK'
    BY Zenon, <1>6, <2>2, <2>3 DEF SnapshotAllow, TypeOK
  <2>5. \A q \in Providers : breaker'[q] \in {breaker[q], AfterAllow(breaker[q])}
    BY Zenon, <1>6 DEF SnapshotAllow, TypeOK
  <2>6. QED
    BY Zenon, <1>6, <2>2, <2>4, <2>5, QueryStep DEF SnapshotAllow
<1>7. ASSUME LogFailure
      PROVE  IInv' /\ \A q \in Providers : Disciplined(q)
  <2>1. runLoop \in Providers
    BY Zenon, <1>7 DEF LogFailure, TypeOK
  <2>2. breaker' \in [Providers -> Breaker]
    BY Zenon, <1>7, <2>1, QueryType DEF LogFailure, TypeOK
  <2>3. TypeOK'
    BY Zenon, <1>7, <2>2 DEF LogFailure, TypeOK
  <2>4. \A q \in Providers : breaker'[q] \in {breaker[q], AfterState(breaker[q])}
    BY Zenon, <1>7 DEF LogFailure, TypeOK
  <2>5. QED
    BY Zenon, <1>7, <2>2, <2>3, <2>4, QueryStep DEF LogFailure
<1>8. ASSUME Tick
      PROVE  IInv' /\ \A q \in Providers : Disciplined(q)
  <2>1. breaker' \in [Providers -> Breaker]
    BY Zenon, <1>8, QueryType DEF Tick, TypeOK
  <2>2. TypeOK'
    BY Zenon, <1>8, <2>1 DEF Tick, TypeOK
  <2>3. \A q \in Providers : breaker'[q] = AfterTick(breaker[q])
    BY Zenon, <1>8 DEF Tick
  <2>4. QED
    BY Zenon, <1>8, <2>1, <2>2, <2>3, QueryStep DEF Tick
<1>9. ASSUME Receive
      PROVE  IInv' /\ \A q \in Providers : Disciplined(q)
  <2> DEFINE r == Head(results)
  <2>1. r \in Result /\ results' \in Seq(Result) /\ Len(results') <= ResultCap
    BY <1>9, ResultCapType DEF Receive, TypeOK
  <2>2. r.name \in Providers /\ r.success \in BOOLEAN
    BY Zenon, <2>1 DEF Result
  <2>3. breaker' \in [Providers -> Breaker]
    BY Zenon, <1>9, <2>2, RecordType DEF Receive, TypeOK
  <2>4. /\ failRun' \in [Providers -> 0 .. FailThreshold]
        /\ okRun' \in [Providers -> 0 .. RecoverThreshold]
    BY <1>9, <2>2, BreakerConfig DEF Receive, TypeOK, Least
  <2>5. TypeOK'
    BY Zenon, <1>9, <2>1, <2>2, <2>3, <2>4 DEF Receive, TypeOK
  <2>6. ASSUME NEW q \in Providers
        PROVE  Backed(breaker'[q], failRun'[q], okRun'[q]) /\ Disciplined(q)
    <3>1. /\ breaker[q] \in Breaker
          /\ failRun[q] \in 0 .. FailThreshold
          /\ okRun[q] \in 0 .. RecoverThreshold
          /\ Backed(breaker[q], failRun[q], okRun[q])
      BY DEF TypeOK, CountsAreEvidence, Backed
    <3>2. CASE q # r.name
      <4>1. breaker'[q] = breaker[q] /\ failRun'[q] = failRun[q] /\ okRun'[q] = okRun[q]
        BY Zenon, <1>9, <3>2 DEF Receive, TypeOK
      <4>2. QED
        BY Zenon, <3>1, <4>1 DEF Disciplined
    <3>3. CASE q = r.name /\ r.success = TRUE
      <4>1. /\ breaker'[q] = AfterRecord(breaker[q], TRUE)
            /\ failRun'[q] = 0
            /\ okRun'[q] = Least(okRun[q] + 1, RecoverThreshold)
        BY Zenon, <1>9, <3>3 DEF Receive, TypeOK
      <4>2. QED
        BY Zenon, <3>1, <4>1, SuccessBacked DEF Disciplined
    <3>4. CASE q = r.name /\ r.success = FALSE
      <4>1. /\ breaker'[q] = AfterRecord(breaker[q], FALSE)
            /\ failRun'[q] = Least(failRun[q] + 1, FailThreshold)
            /\ okRun'[q] = 0
        BY Zenon, <1>9, <3>4 DEF Receive, TypeOK
      <4>2. QED
        BY Zenon, <3>1, <4>1, FailureBacked DEF Disciplined
    <3>5. QED
      BY Zenon, <2>2, <3>2, <3>3, <3>4
  <2>7. QED
    BY Zenon, <2>5, <2>6 DEF CountsAreEvidence, Backed
<1>10. ASSUME TypeOK', UNCHANGED <<breaker, failRun, okRun>>
       PROVE  IInv' /\ \A q \in Providers : Disciplined(q)
  BY Zenon, <1>10 DEF CountsAreEvidence, Disciplined
<1>11. CASE UNCHANGED vars
  BY <1>10, <1>11 DEF vars, TypeOK
<1>12. QED
  BY Zenon, <1>1, <1>2, <1>3, <1>4, <1>5, <1>6, <1>7, <1>8, <1>9, <1>10, <1>11 DEF Next

\* In every behaviour the state is well typed: in particular no counter ever
\* reaches its threshold and the results channel never overflows.
THEOREM TypeCorrect == Spec => []TypeOK
<1>1. IInv => TypeOK
  BY DEF IInv
<1>2. IInv /\ [Next]_vars => IInv'
  BY StepIInv
<1>3. QED
  BY <1>1, <1>2, InitIInv, PTL DEF Spec

\* What a breaker has counted was recorded without an opposite outcome.
THEOREM CountsCorrect == Spec => []CountsAreEvidence
<1>1. IInv => CountsAreEvidence
  BY DEF IInv
<1>2. IInv /\ [Next]_vars => IInv'
  BY StepIInv
<1>3. QED
  BY <1>1, <1>2, InitIInv, PTL DEF Spec

\* Breakers trip and close only on unbroken runs of outcomes, for every number
\* of providers, every channel capacity and all thresholds.
THEOREM RunsCorrect == Spec => TripsAndClosesOnRuns
<1> DEFINE D == \A p \in Providers : Disciplined(p)
<1>1. IInv /\ [Next]_vars => IInv' /\ [D]_vars
  BY Zenon, StepIInv
<1>2. [D]_vars => [\A p \in Providers :
         /\ (breaker[p].state = "closed" /\ breaker'[p].state # "closed")
              => failRun'[p] = FailThreshold
         /\ (breaker[p].state # "closed" /\ breaker'[p].state = "closed")
              => okRun'[p] = RecoverThreshold]_vars
  BY DEF Disciplined
<1>3. QED
  BY <1>1, <1>2, InitIInv, PTL DEF Spec, TripsAndClosesOnRuns
=============================================================================
