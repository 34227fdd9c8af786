---------------------------- MODULE RateLimiter ----------------------------
(***************************************************************************)
(* The per-client token bucket of the gateway                              *)
(* (src/services/cmd/gateway/ratelimit.go).  rateLimiter.allow runs under  *)
(* the limiter's mutex and is one step.  periodicCleanup computes its      *)
(* cutoff before it takes the mutex, so it is two steps and any number of  *)
(* allow calls may fall between them.                                      *)
(*                                                                         *)
(* Tokens are floats in the code.  Here a token is TokenCost units and one *)
(* clock tick adds RefillPerTick units, so TokenCost = 2 models half       *)
(* tokens: a refused call that leaves a fraction behind.                   *)
(***************************************************************************)
EXTENDS Integers, Sequences

CONSTANTS
    IP,             \* client addresses, as clientIP returns them
    TokenCost,      \* units one admitted request costs
    RefillPerTick,  \* units added per clock tick (defaultRPS)
    BurstTokens,    \* bucket capacity in requests (defaultBurst)
    StaleDuration,  \* ticks without a request before a bucket may be dropped
    MaxTime         \* bound on the clock

ASSUME BucketAssumption ==
    /\ {TokenCost, RefillPerTick, BurstTokens, StaleDuration} \subseteq Nat \ {0}
    /\ MaxTime \in Nat

\* A dropped bucket would have been full again: the code's five minutes at one
\* request per second far exceed its burst of ten.
ASSUME StaleRefillsBucket ==
    StaleDuration * RefillPerTick >= BurstTokens * TokenCost

VARIABLES
    clock,     \* time.Now(), in ticks
    buckets,   \* rateLimiter.buckets: IP -> bucket, or NoBucket when absent
    cutoff,    \* the cutoff periodicCleanup holds before it locks, or NoCutoff
    admitted   \* history: for each IP the times at which allow returned true

rateVars == <<clock, buckets, cutoff, admitted>>

Capacity == BurstTokens * TokenCost
NoBucket == [tokens |-> -1, lastSeen |-> -1]
NoCutoff == -(StaleDuration + 1)

RateInit ==
    /\ clock = 0
    /\ buckets = [ip \in IP |-> NoBucket]
    /\ cutoff = NoCutoff
    /\ admitted = [ip \in IP |-> <<>>]

\* The tokens in ip's bucket once the time since its last request is credited.
Refilled(ip) ==
    LET b == buckets[ip]
        t == b.tokens + (clock - b.lastSeen) * RefillPerTick
    IN  IF t > Capacity THEN Capacity ELSE t

-----------------------------------------------------------------------------
\* A plausible slip: the refill is credited but lastSeen is not advanced on a
\* refused call, so the same interval is credited again.
MutAllow(ip) ==
    LET known == buckets[ip] # NoBucket
        have  == IF known THEN Refilled(ip) ELSE Capacity
        ok    == have >= TokenCost
    IN  /\ buckets' = [buckets EXCEPT ![ip] =
                          [tokens   |-> IF ok THEN have - TokenCost ELSE have,
                           lastSeen |-> IF ok THEN clock ELSE @.lastSeen]]
        /\ admitted' = IF ok THEN [admitted EXCEPT ![ip] = Append(@, clock)]
                             ELSE admitted
        /\ UNCHANGED <<clock, cutoff>>

Allow(ip) ==
    LET known == buckets[ip] # NoBucket
        have  == IF known THEN Refilled(ip) ELSE Capacity
        ok    == have >= TokenCost
    IN  /\ buckets' = [buckets EXCEPT ![ip] =
                          [tokens   |-> IF ok THEN have - TokenCost ELSE have,
                           lastSeen |-> clock]]
        /\ admitted' = IF ok THEN [admitted EXCEPT ![ip] = Append(@, clock)]
                             ELSE admitted
        /\ UNCHANGED <<clock, cutoff>>

\* The cleanup ticker fires; its phase is arbitrary.
CleanupTick ==
    /\ cutoff = NoCutoff
    /\ cutoff' = clock - StaleDuration
    /\ UNCHANGED <<clock, buckets, admitted>>

CleanupSweep ==
    /\ cutoff # NoCutoff
    /\ buckets' = [ip \in IP |-> IF buckets[ip].lastSeen < cutoff
                                 THEN NoBucket ELSE buckets[ip]]
    /\ cutoff' = NoCutoff
    /\ UNCHANGED <<clock, admitted>>

RateTick ==
    /\ clock < MaxTime
    /\ clock' = clock + 1
    /\ UNCHANGED <<buckets, cutoff, admitted>>

RateNext ==
    \/ \E ip \in IP : Allow(ip)
    \/ CleanupTick
    \/ CleanupSweep
    \/ RateTick

RateSpec == RateInit /\ [][RateNext]_rateVars

-----------------------------------------------------------------------------
RateTypeOK ==
    /\ clock \in 0..MaxTime
    /\ \A ip \in IP :
          \/ buckets[ip] = NoBucket
          \/ buckets[ip].tokens \in 0..Capacity /\ buckets[ip].lastSeen \in 0..clock
    /\ cutoff \in {NoCutoff} \cup (-StaleDuration..clock - StaleDuration)

\* Over every window of time, however the calls, the refusals and the cleanup
\* interleave, a client is admitted at most BurstTokens times plus the refill
\* of that window.  In particular dropping a stale bucket, which hands the
\* client a full burst again (ratelimit.go:49, 71), never admits more than
\* keeping it would have.
WindowBudget ==
    \A ip \in IP : \A i \in DOMAIN admitted[ip] : \A j \in i..Len(admitted[ip]) :
        (j - i + 1) * TokenCost
            <= Capacity + (admitted[ip][j] - admitted[ip][i]) * RefillPerTick
=============================================================================
