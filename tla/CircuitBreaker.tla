--------------------------- MODULE CircuitBreaker ---------------------------
(***************************************************************************)
(* services/internal/circuitbreaker/breaker.go: the three-state breaker    *)
(* kept for each inference provider.  A breaker is a record; each          *)
(* operation of the package is an operator from the breaker before the     *)
(* call to the breaker after it.  Every operation runs under b.mu, so it   *)
(* is one step of the machines that use it (ProviderHealth).               *)
(*                                                                         *)
(* openedAt is represented by age, the time since it was set, saturating   *)
(* at OpenDuration: the code only ever compares it with OpenDuration.      *)
(* The cumulative probe counters (Stats) decide nothing and are left out.  *)
(***************************************************************************)
EXTENDS Naturals

CONSTANTS FailThreshold,     \* Config.failThreshold()
          RecoverThreshold,  \* Config.recoverThreshold()
          OpenDuration       \* Config.openDuration(), in ticks

ASSUME BreakerConfig ==
    /\ FailThreshold \in Nat \ {0}
    /\ RecoverThreshold \in Nat \ {0}
    /\ OpenDuration \in Nat \ {0}

States == {"closed", "open", "half-open"}

Breaker == [state : States,
            failCount : 0 .. FailThreshold - 1,
            successCount : 0 .. RecoverThreshold - 1,
            age : 0 .. OpenDuration]

New == [state |-> "closed", failCount |-> 0, successCount |-> 0, age |-> 0]

MutElapsedCloses(b) ==
    IF b.state = "open" /\ b.age >= OpenDuration
    THEN [b EXCEPT !.state = "closed", !.successCount = 0]
    ELSE b

\* maybeTransitionToHalfOpen
HalfOpenIfElapsed(b) ==
    IF b.state = "open" /\ b.age >= OpenDuration
    THEN [b EXCEPT !.state = "half-open", !.successCount = 0]
    ELSE b

\* State() and Allow() first give an elapsed Open breaker its transition.
AfterState(b) == HalfOpenIfElapsed(b)

AfterAllow(b) == HalfOpenIfElapsed(b)

Allows(b) == HalfOpenIfElapsed(b).state # "open"

Trip(b) == [b EXCEPT !.state = "open", !.age = 0]

MutSuccessClosesAtOnce(b) ==
    IF b.state = "open" THEN b
    ELSE [b EXCEPT !.state = "closed", !.failCount = 0, !.successCount = 0]

MutSuccessOnlyWhenClosed(b) ==
    IF b.state = "closed" THEN [b EXCEPT !.failCount = 0] ELSE b

RecordSuccess(b) ==
    CASE b.state = "closed" -> [b EXCEPT !.failCount = 0]
      [] b.state = "half-open" ->
            IF b.successCount + 1 >= RecoverThreshold
            THEN [b EXCEPT !.state = "closed", !.failCount = 0, !.successCount = 0]
            ELSE [b EXCEPT !.successCount = @ + 1]
      [] b.state = "open" -> b

RecordFailure(b) ==
    CASE b.state = "closed" ->
            IF b.failCount + 1 >= FailThreshold
            THEN [Trip(b) EXCEPT !.failCount = 0]
            ELSE [b EXCEPT !.failCount = @ + 1]
      [] b.state = "half-open" -> [Trip(b) EXCEPT !.successCount = 0]
      [] b.state = "open" -> b

\* Record(success)
AfterRecord(b, success) == IF success THEN RecordSuccess(b) ELSE RecordFailure(b)

\* One tick of the clock that time.Since(openedAt) reads.
AfterTick(b) ==
    IF b.state = "open" /\ b.age < OpenDuration THEN [b EXCEPT !.age = @ + 1] ELSE b

\* The event setState publishes when an operation takes the breaker from b
\* to c; every operation calls setState at most once.
Published(b, c) ==
    IF b.state = c.state THEN "none"
    ELSE IF c.state = "open" THEN "provider.degraded" ELSE "provider.healthy"
=============================================================================
