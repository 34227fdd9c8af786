--------------------------- MODULE ProviderHealth ---------------------------
(***************************************************************************)
(* services/internal/providerhealth/manager.go with the probers of         *)
(* services/internal/healthprobe/probe.go: one prober goroutine per        *)
(* provider sends probe results into a bounded channel, the Run loop       *)
(* feeds them to the provider's breaker, and routing code (ShouldFallback) *)
(* and the /status and /metrics handlers (Snapshot) read the breakers.     *)
(***************************************************************************)
EXTENDS CircuitBreaker, Sequences, FiniteSets

CONSTANTS Providers,        \* names given to Add before Run
          ResultsPerEntry,  \* 4 in the code
          Idle              \* a goroutine that is between two operations

\* Run makes the results channel len(entries)*4 long.
ResultCap == Cardinality(Providers) * ResultsPerEntry

Result == [name : Providers, success : BOOLEAN]
Status == [name : Providers, circuit : States, fallback : BOOLEAN]
Reading == [name : Providers, circuit : States]

ASSUME ProviderConfig ==
    /\ IsFiniteSet(Providers)
    /\ ResultsPerEntry \in Nat \ {0}
    /\ Idle \notin Providers \cup Reading \cup Status

VARIABLES
    breaker,   \* the breaker of each entry
    results,   \* the results channel between the probers and Run
    runLoop,   \* Idle, or the provider whose failure Run is about to log
    up,        \* whether the provider's endpoint answers 2xx (environment)
    reader,    \* Snapshot between State() and Allow() on one entry, or Idle
    status,    \* the last Status a Snapshot produced
    failRun,   \* history: length of the run of failures recorded last
    okRun      \* history: length of the run of successes recorded last

vars == <<breaker, results, runLoop, up, reader, status, failRun, okRun>>

Least(m, n) == IF m <= n THEN m ELSE n

Init ==
    /\ breaker = [p \in Providers |-> New]
    /\ results = << >>
    /\ runLoop = Idle
    /\ up \in [Providers -> BOOLEAN]
    /\ reader = Idle
    /\ status = Idle
    /\ failRun = [p \in Providers |-> 0]
    /\ okRun = [p \in Providers |-> 0]
-----------------------------------------------------------------------------
\* fireOnce and send when the channel has room.
ProbeSend(p) ==
    /\ Len(results) < ResultCap
    /\ results' = Append(results, [name |-> p, success |-> up[p]])
    /\ UNCHANGED <<breaker, runLoop, up, reader, status, failRun, okRun>>

\* send's default branch: the channel is full and the result is dropped.
ProbeDrop(p) ==
    /\ Len(results) >= ResultCap
    /\ UNCHANGED vars

\* Run receives a result and records it; a failure is then logged.
Receive ==
    /\ runLoop = Idle
    /\ results # << >>
    /\ LET r == Head(results) IN
       /\ breaker' = [breaker EXCEPT ![r.name] = AfterRecord(@, r.success)]
       /\ failRun' = [failRun EXCEPT ![r.name] =
                         IF r.success THEN 0 ELSE Least(@ + 1, FailThreshold)]
       /\ okRun' = [okRun EXCEPT ![r.name] =
                         IF r.success THEN Least(@ + 1, RecoverThreshold) ELSE 0]
       /\ runLoop' = IF r.success THEN Idle ELSE r.name
    /\ results' = Tail(results)
    /\ UNCHANGED <<up, reader, status>>

\* The log line of a failed probe evaluates breaker.State().
LogFailure ==
    /\ runLoop # Idle
    /\ breaker' = [breaker EXCEPT ![runLoop] = AfterState(@)]
    /\ runLoop' = Idle
    /\ UNCHANGED <<results, up, reader, status, failRun, okRun>>

\* Routing asks whether to avoid the provider: ShouldFallback calls Allow.
ShouldFallback(p) ==
    /\ breaker' = [breaker EXCEPT ![p] = AfterAllow(@)]
    /\ UNCHANGED <<results, runLoop, up, reader, status, failRun, okRun>>

\* Snapshot reads an entry in two calls on its breaker: State, then Allow.
SnapshotState(p) ==
    /\ reader = Idle
    /\ breaker' = [breaker EXCEPT ![p] = AfterState(@)]
    /\ reader' = [name |-> p, circuit |-> breaker'[p].state]
    /\ UNCHANGED <<results, runLoop, up, status, failRun, okRun>>

SnapshotAllow ==
    /\ reader # Idle
    /\ breaker' = [breaker EXCEPT ![reader.name] = AfterAllow(@)]
    /\ status' = [name |-> reader.name, circuit |-> reader.circuit,
                  fallback |-> ~Allows(breaker[reader.name])]
    /\ reader' = Idle
    /\ UNCHANGED <<results, runLoop, up, failRun, okRun>>

Tick ==
    /\ breaker' = [p \in Providers |-> AfterTick(breaker[p])]
    /\ UNCHANGED <<results, runLoop, up, reader, status, failRun, okRun>>

EndpointChanges(p) ==
    /\ up' = [up EXCEPT ![p] = ~@]
    /\ UNCHANGED <<breaker, results, runLoop, reader, status, failRun, okRun>>

Next ==
    \/ \E p \in Providers :
          \/ ProbeSend(p)
          \/ ProbeDrop(p)
          \/ ShouldFallback(p)
          \/ SnapshotState(p)
          \/ EndpointChanges(p)
    \/ Receive
    \/ LogFailure
    \/ SnapshotAllow
    \/ Tick

Spec == Init /\ [][Next]_vars

(***************************************************************************)
(* The prober's ticker fires every Interval and Run drains the channel in  *)
(* between, so a prober finds room again and again; time passes.  Routing  *)
(* is driven by requests: only RoutedSpec assumes that they keep coming.   *)
(***************************************************************************)
Fairness ==
    /\ \A p \in Providers : SF_vars(ProbeSend(p))
    /\ WF_vars(Receive)
    /\ WF_vars(LogFailure)
    /\ WF_vars(Tick)

ProbingSpec == Spec /\ Fairness
RoutedSpec == ProbingSpec /\ \A p \in Providers : WF_vars(ShouldFallback(p))
-----------------------------------------------------------------------------
\* Breakers are well formed, and the results channel holds at most what Run
\* made it for.
TypeOK ==
    /\ breaker \in [Providers -> Breaker]
    /\ results \in Seq(Result)
    /\ Len(results) <= ResultCap
    /\ runLoop \in Providers \cup {Idle}
    /\ up \in [Providers -> BOOLEAN]
    /\ reader \in Reading \cup {Idle}
    /\ status \in Status \cup {Idle}
    /\ failRun \in [Providers -> 0 .. FailThreshold]
    /\ okRun \in [Providers -> 0 .. RecoverThreshold]

\* A breaker trips from closed only when the last FailThreshold outcomes that
\* Run recorded for the provider were all failures, and closes only when the
\* last RecoverThreshold ones were all successes; no mixture of old counts,
\* half-open episodes and other readers' calls gets it there sooner.
TripsAndClosesOnRuns ==
    [][\A p \in Providers :
         /\ (breaker[p].state = "closed" /\ breaker'[p].state # "closed")
              => failRun'[p] = FailThreshold
         /\ (breaker[p].state # "closed" /\ breaker'[p].state = "closed")
              => okRun'[p] = RecoverThreshold]_vars

\* The counters never run ahead of the evidence they stand for: what a closed
\* breaker has counted against the provider, and a half-open one in its
\* favour, was recorded without an opposite outcome in between.
CountsAreEvidence ==
    \A p \in Providers :
        /\ breaker[p].state = "closed" => breaker[p].failCount <= failRun[p]
        /\ breaker[p].state = "half-open" => breaker[p].successCount <= okRun[p]

\* A provider that stays down does not stay closed: routing eventually falls
\* back, although a full channel drops probe results.
DeadProviderTrips ==
    \A p \in Providers : <>[]~up[p] => <>[](breaker[p].state # "closed")

\* A provider that stays up is eventually given back its traffic for good.
HealthyProviderCloses ==
    \A p \in Providers : <>[]up[p] => <>[](breaker[p].state = "closed")

\* docs/events.md says provider.healthy is published when the "Provider
\* becomes reachable after a failure": some probe of it has then succeeded.
HealthyEventHasEvidence ==
    [][\A p \in Providers :
         Published(breaker[p], breaker'[p]) = "provider.healthy" => okRun'[p] > 0]_vars

\* docs/providers.md: "When the circuit is closed or half-open, status is ok
\* and detail shows the circuit state string"; an open circuit is degraded.
StatusIsCoherent ==
    status # Idle => (status.fallback <=> status.circuit = "open")
=============================================================================
