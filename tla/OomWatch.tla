------------------------------ MODULE OomWatch ------------------------------
(***************************************************************************)
(* How out-of-memory kills are noticed.  The restart loop of a service     *)
(* (lifecycle/manager.go) creates its cgroup when it begins and deletes it *)
(* when it returns, and at every spawn starts a WatchOOM goroutine         *)
(* (cgroup/manage_linux.go) that lives as long as the context of the loop. *)
(* The inference governor (inferencegovernor/governor.go) polls the same   *)
(* counter on its own, for as long as the manager runs.                    *)
(***************************************************************************)
EXTENDS Integers, Sequences

CONSTANTS
    MaxSpawns,  \* bound on the processes spawned
    MaxKills    \* bound on the kills

ASSUME OomAssumption == MaxSpawns \in Nat \ {0} /\ MaxKills \in Nat

VARIABLES
    loop,       \* restartLoop: "none", "spawn", "waits", "backoff", "returned"
    ctx,        \* the context of the loop is alive
    cgroup,     \* the cgroup exists
    oomKill,    \* its oom_kill counter
    watchers,   \* lastOOM of each WatchOOM goroutine of the present loop
    govLast,    \* lastOOM of the governor
    spawns,     \* processes spawned so far
    kills,      \* history: kills so far
    recreated,  \* history: kills happened in a cgroup that was deleted since
    logged,     \* history: the new_kills of all records of watchers
    published   \* history: the new_kills of all events of the governor

oomVars == <<loop, ctx, cgroup, oomKill, watchers, govLast, spawns, kills, recreated, logged, published>>

OomInit ==
    /\ loop = "none" /\ ctx = FALSE /\ cgroup = FALSE /\ oomKill = 0
    /\ watchers = <<>> /\ govLast = 0 /\ spawns = 0
    /\ kills = 0 /\ recreated = FALSE /\ logged = 0 /\ published = 0

\* launchUnit, and again after the unit was stopped for a dependency.
LaunchLoop ==
    /\ loop \in {"none", "returned"} /\ ~ctx /\ spawns < MaxSpawns
    /\ loop' = "spawn" /\ ctx' = TRUE
    /\ cgroup' = TRUE
    /\ watchers' = <<>>
    /\ UNCHANGED <<oomKill, govLast, spawns, kills, recreated, logged, published>>

SpawnFails ==
    /\ loop = "spawn"
    /\ loop' = "backoff"
    /\ UNCHANGED <<ctx, cgroup, oomKill, watchers, govLast, spawns, kills, recreated, logged, published>>

\* spawnProcess, AddPid and WatchOOM in a goroutine.
Spawn ==
    /\ loop = "spawn" /\ ctx /\ spawns < MaxSpawns
    /\ loop' = "waits"
    /\ spawns' = spawns + 1
    /\ watchers' = Append(watchers, 0)
    /\ UNCHANGED <<ctx, cgroup, oomKill, govLast, kills, recreated, logged, published>>

\* The kernel kills the process: cmd.Wait returns.
OomKill ==
    /\ loop = "waits" /\ kills < MaxKills
    /\ oomKill' = oomKill + 1
    /\ kills' = kills + 1
    /\ loop' = "backoff"
    /\ UNCHANGED <<ctx, cgroup, watchers, govLast, spawns, recreated, logged, published>>

ProcessExit ==
    /\ loop = "waits"
    /\ loop' = "backoff"
    /\ UNCHANGED <<ctx, cgroup, oomKill, watchers, govLast, spawns, kills, recreated, logged, published>>

Restarts ==
    /\ loop = "backoff" /\ ctx
    /\ loop' = "spawn"
    /\ UNCHANGED <<ctx, cgroup, oomKill, watchers, govLast, spawns, kills, recreated, logged, published>>

\* The loop returns, by its policy or because it was stopped, and Delete takes
\* the cgroup and its counter away.
LoopReturns ==
    /\ loop = "backoff"
    /\ loop' = "returned"
    /\ cgroup' = FALSE
    /\ oomKill' = 0
    /\ recreated' = (recreated \/ oomKill > 0)
    /\ UNCHANGED <<ctx, watchers, govLast, spawns, kills, logged, published>>

StopRun ==
    /\ ctx
    /\ ctx' = FALSE
    /\ watchers' = <<>>
    /\ UNCHANGED <<loop, cgroup, oomKill, govLast, spawns, kills, recreated, logged, published>>

\* A plausible slip: a single kill is not an increase.
MutWatchTick(i) ==
    /\ cgroup /\ oomKill > watchers[i] + 1
    /\ logged' = logged + (oomKill - watchers[i])
    /\ watchers' = [watchers EXCEPT ![i] = oomKill]
    /\ UNCHANGED <<loop, ctx, cgroup, oomKill, govLast, spawns, kills, recreated, published>>

\* The tick of one WatchOOM.
WatchTick(i) ==
    /\ cgroup /\ oomKill > watchers[i]
    /\ logged' = logged + (oomKill - watchers[i])
    /\ watchers' = [watchers EXCEPT ![i] = oomKill]
    /\ UNCHANGED <<loop, ctx, cgroup, oomKill, govLast, spawns, kills, recreated, published>>

\* The governor's poll.
GovernorPoll ==
    /\ cgroup /\ oomKill > govLast
    /\ published' = published + (oomKill - govLast)
    /\ govLast' = oomKill
    /\ UNCHANGED <<loop, ctx, cgroup, oomKill, watchers, spawns, kills, recreated, logged>>

OomNext ==
    \/ LaunchLoop \/ SpawnFails \/ Spawn \/ OomKill \/ ProcessExit \/ Restarts \/ LoopReturns \/ StopRun
    \/ GovernorPoll
    \/ \E i \in DOMAIN watchers : WatchTick(i)

\* The tickers of the watchers and of the governor.
OomFairness ==
    /\ WF_oomVars(\E i \in DOMAIN watchers : WatchTick(i))
    /\ WF_oomVars(GovernorPoll)
OomSpec == OomInit /\ [][OomNext]_oomVars /\ OomFairness

-----------------------------------------------------------------------------
\* The governor publishes no kill twice, and after each of its polls none is
\* missing, as long as no cgroup with kills was deleted: its lastOOM outlives
\* the counter it was read from (governor.go:102-171).
GovernorCountsOnce ==
    /\ published <= kills
    /\ ~recreated => published = govLast

\* A kill in a service whose loop goes on is logged (manage_linux.go:96-127):
\* the watcher of the process that was killed, or of one before it, sees it.
EveryKillLogged ==
    \A n \in 1 .. MaxKills :
        (oomKill >= n /\ ctx) ~> (logged >= n \/ ~ctx \/ ~cgroup)

\* The two together: no kill goes unnoticed, and the governor counts none twice.
KillsAreCounted == EveryKillLogged /\ []GovernorCountsOnce

\* manage_linux.go:94-95 says WatchOOM "logs an OOM event ... whenever the
\* oom_kill counter increases": the kills it logs are kills that happened.
LoggedKillsHappened == logged <= kills
=============================================================================
