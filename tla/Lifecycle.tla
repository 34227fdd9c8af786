----------------------------- MODULE Lifecycle -----------------------------
(***************************************************************************)
(* services/internal/lifecycle/manager.go and ctl_handler.go with the main *)
(* goroutine of cmd/nura-manager/subcmd/run.go: one restart loop per unit, *)
(* the boot sequence that launches them, stop and restart requests of      *)
(* nuractl connections, and the ordered shutdown.  Socket-activated units  *)
(* have their own machine (SocketActivation).                              *)
(*                                                                         *)
(* A process is identified by the number of the launch that created it.    *)
(* Times are abstracted: a pause or a timeout may end at any moment, and   *)
(* whether an exit completes a crash loop, which the code decides by the   *)
(* clock, is a free choice.  Events and log lines change nothing here.     *)
(***************************************************************************)
EXTENDS ServiceStates, Naturals, Sequences, FiniteSets

CONSTANTS Plan,         \* the units in start order, from the resolver
          Requires,     \* [Units -> SUBSET Units]
          Policy,       \* [Units -> {"no", "on-failure", "always"}]
          NotifyUnits,  \* the units of type notify
          Ctl,          \* control socket connections
          Main,         \* the shutdown goroutine, also a caller of stop
          MaxLaunches   \* bound: later launches fail to spawn

Units == {Plan[i] : i \in 1 .. Len(Plan)}
Callers == Ctl \cup {Main}
Generations == 1 .. MaxLaunches

ASSUME LifecycleConfig ==
    /\ Plan \in Seq(Units)
    /\ \A i, j \in 1 .. Len(Plan) : Plan[i] = Plan[j] => i = j
    /\ Requires \in [Units -> SUBSET Units]
    /\ Policy \in [Units -> {"no", "on-failure", "always"}]
    /\ NotifyUnits \subseteq Units
    /\ Main \notin Ctl
    /\ MaxLaunches \in Nat

VARIABLES
    boot,       \* the main goroutine: where it is and the plan index it is at
    request,    \* the shutdown mode in shutdownCh
    status,     \* reported state of each unit; "absent" before StartPlan
    loop,       \* where the unit's restartLoop is; "none" before launchUnit
    launches,   \* processes launched so far; the loop's cmd is the last one
    alive,      \* the unit's processes that are running
    unwaited,   \* processes for which a cmd.Wait can still return
    cmd,        \* run.cmd; 0 is nil
    notified,   \* READY=1 was written by the last process
    cancelled,  \* the context of the run is done
    caller,     \* the stop() calls in progress
    ctxKilled   \* history: units whose process was killed by its context

vars == <<boot, request, status, loop, launches, alive, unwaited, cmd,
          notified, cancelled, caller, ctxKilled>>

LoopStates == {"none", "top", "spawn", "spawned", "await", "wait", "pause",
               "backoff", "done"}
NoCall == [pc |-> "idle"]
Calls == [pc : {"signal", "wait", "finish"}, u : Units, g : 0 .. MaxLaunches,
          kind : {"stop", "restart", "shutdown"}]

Init ==
    /\ boot = [pc |-> "launch", i |-> 1]
    /\ request = "none"
    /\ status = [u \in Units |-> "absent"]
    /\ loop = [u \in Units |-> "none"]
    /\ launches = [u \in Units |-> 0]
    /\ alive = [u \in Units |-> {}]
    /\ unwaited = [u \in Units |-> {}]
    /\ cmd = [u \in Units |-> 0]
    /\ notified = [u \in Units |-> FALSE]
    /\ cancelled = [u \in Units |-> FALSE]
    /\ caller = [c \in Callers |-> NoCall]
    /\ ctxKilled = {}
-----------------------------------------------------------------------------
(* The main goroutine: StartPlan, then waiting for a shutdown trigger.     *)

procVars == <<launches, alive, unwaited, cmd, notified, ctxKilled>>

\* StartPlan launches the next unit; launchUnit's goroutine is at its top.
StartUnit ==
    /\ boot.pc = "launch"
    /\ boot.i <= Len(Plan)
    /\ LET u == Plan[boot.i] IN
       /\ status' = [status EXCEPT ![u] = "inactive"]
       /\ loop' = [loop EXCEPT ![u] = "top"]
       /\ boot' = IF Requires[u] # {} THEN [boot EXCEPT !.pc = "gate"]
                                      ELSE [boot EXCEPT !.i = @ + 1]
    /\ UNCHANGED <<request, cancelled, caller, procVars>>

\* waitReady on the unit just launched returns: ready, failed or timed out.
GateReturns ==
    /\ boot.pc = "gate"
    /\ boot' = [pc |-> "launch", i |-> boot.i + 1]
    /\ UNCHANGED <<request, status, loop, cancelled, caller, procVars>>

AllStarted ==
    /\ boot.pc = "launch"
    /\ boot.i > Len(Plan)
    /\ boot' = [boot EXCEPT !.pc = "idle"]
    /\ UNCHANGED <<request, status, loop, cancelled, caller, procVars>>

\* deliverShutdown: the first trigger wins.
ShutdownRequest(mode) ==
    /\ request = "none"
    /\ request' = mode
    /\ UNCHANGED <<boot, status, loop, cancelled, caller, procVars>>

\* The trigger is received: cancel() ends the context of every run.
ShutdownBegin ==
    /\ boot.pc = "idle"
    /\ request # "none"
    /\ cancelled' = [u \in Units |-> TRUE]
    /\ boot' = [pc |-> "stopping", i |-> Len(Plan)]
    /\ UNCHANGED <<request, status, loop, caller, procVars>>

MutPowerActionAwaitsLoops ==
    /\ boot.pc = "stopping"
    /\ \A u \in Units : loop[u] = "done"
    /\ boot' = [boot EXCEPT !.pc = "off"]
    /\ alive' = [u \in Units |-> {}]
    /\ loop' = [u \in Units |-> "done"]
    /\ caller' = [c \in Callers |-> NoCall]
    /\ UNCHANGED <<request, status, launches, unwaited, cmd, notified,
                   cancelled, ctxKilled>>

\* ShutdownPlan is through, or shutdownTotalTimeout has passed: the machine
\* halts, reboots, or loses its init process.  Everything ends.
PowerAction ==
    /\ boot.pc = "stopping"
    /\ boot' = [boot EXCEPT !.pc = "off"]
    /\ alive' = [u \in Units |-> {}]
    /\ loop' = [u \in Units |-> "done"]
    /\ caller' = [c \in Callers |-> NoCall]
    /\ UNCHANGED <<request, status, launches, unwaited, cmd, notified,
                   cancelled, ctxKilled>>
-----------------------------------------------------------------------------
(* restartLoop of unit u.                                                  *)

Transition(u, to) == status' = [status EXCEPT ![u] = Moved(@, to)]
Goto(u, pc) == loop' = [loop EXCEPT ![u] = pc]
ShouldRestart(u, exitCode) ==
    \/ Policy[u] = "always"
    \/ Policy[u] = "on-failure" /\ exitCode # 0

\* The head of the for loop: return when cancelled, else "starting".
LoopReturns(u) ==
    /\ loop[u] = "top"
    /\ cancelled[u]
    /\ Goto(u, "done")
    /\ UNCHANGED <<boot, request, status, cancelled, caller, procVars>>

LoopTop(u) ==
    /\ loop[u] = "top"
    /\ ~cancelled[u]
    /\ Transition(u, "starting")
    /\ Goto(u, "spawn")
    /\ UNCHANGED <<boot, request, cancelled, caller, procVars>>

\* spawnProcess; exec's Start refuses when the context is done.
Spawn(u) ==
    /\ loop[u] = "spawn"
    /\ ~cancelled[u]
    /\ launches[u] < MaxLaunches
    /\ LET g == launches[u] + 1 IN
       /\ launches' = [launches EXCEPT ![u] = g]
       /\ alive' = [alive EXCEPT ![u] = @ \cup {g}]
       /\ unwaited' = [unwaited EXCEPT ![u] = @ \cup {g}]
    /\ notified' = [notified EXCEPT ![u] = FALSE]
    /\ Goto(u, "spawned")
    /\ UNCHANGED <<boot, request, status, cmd, cancelled, caller, ctxKilled>>

SpawnFails(u) ==
    /\ loop[u] = "spawn"
    /\ Transition(u, "failed")
    /\ Goto(u, IF Policy[u] = "no" THEN "done" ELSE "backoff")
    /\ UNCHANGED <<boot, request, cancelled, caller, procVars>>

\* run.cmd and the pid are published; the process joins its cgroup.
SetCmd(u) ==
    /\ loop[u] = "spawned"
    /\ cmd' = [cmd EXCEPT ![u] = launches[u]]
    /\ Goto(u, "await")
    /\ UNCHANGED <<boot, request, status, launches, alive, unwaited, notified,
                   cancelled, caller, ctxKilled>>

\* Ready at once, or on READY=1 for a notify unit; then running.
BecomeReady(u) ==
    /\ loop[u] = "await"
    /\ u \in NotifyUnits => notified[u]
    /\ status' = [status EXCEPT ![u] = Moved(Moved(@, "ready"), "running")]
    /\ Goto(u, "wait")
    /\ UNCHANGED <<boot, request, cancelled, caller, procVars>>

MutAwaitTimesOut(u) ==
    /\ loop[u] = "await"
    /\ u \in NotifyUnits
    /\ Goto(u, "done")
    /\ UNCHANGED <<boot, request, status, cancelled, caller, procVars>>

AwaitCancelled(u) ==
    /\ loop[u] = "await"
    /\ u \in NotifyUnits
    /\ cancelled[u]
    /\ Goto(u, "done")
    /\ UNCHANGED <<boot, request, status, cancelled, caller, procVars>>

\* cmd.Wait returns in the loop: of two Waits on one process only one does.
LoopReaps(u) ==
    /\ loop[u] = "wait"
    /\ launches[u] \in unwaited[u] \ alive[u]
    /\ unwaited' = [unwaited EXCEPT ![u] = @ \ {launches[u]}]
    /\ UNCHANGED <<boot, request, launches, alive, cmd, notified, cancelled,
                   caller, ctxKilled>>

ExitCancelled(u) ==
    /\ cancelled[u]
    /\ LoopReaps(u)
    /\ Goto(u, "done")
    /\ UNCHANGED status

\* An exit that the policy does not restart.
ExitFinal(u) ==
    /\ ~cancelled[u]
    /\ LoopReaps(u)
    /\ \E exitCode \in {0, 1} : ~ShouldRestart(u, exitCode)
    /\ Transition(u, "failed")
    /\ Goto(u, "done")

ExitRestarts(u) ==
    /\ ~cancelled[u]
    /\ LoopReaps(u)
    /\ \E exitCode \in {0, 1} : ShouldRestart(u, exitCode)
    /\ Goto(u, "backoff")
    /\ UNCHANGED status

\* An exit that completes a crash loop.
ExitCrashLoop(u) ==
    /\ ~cancelled[u]
    /\ LoopReaps(u)
    /\ \E exitCode \in {0, 1} : ShouldRestart(u, exitCode)
    /\ Transition(u, "failed")
    /\ Goto(u, "pause")

\* crashBackoff is over; the ordinary backoff follows.
PauseOver(u) ==
    /\ loop[u] = "pause"
    /\ Goto(u, "backoff")
    /\ UNCHANGED <<boot, request, status, cancelled, caller, procVars>>

BackoffOver(u) ==
    /\ loop[u] = "backoff"
    /\ Goto(u, "top")
    /\ UNCHANGED <<boot, request, status, cancelled, caller, procVars>>

SleepCancelled(u) ==
    /\ loop[u] \in {"pause", "backoff"}
    /\ cancelled[u]
    /\ Goto(u, "done")
    /\ UNCHANGED <<boot, request, status, cancelled, caller, procVars>>
-----------------------------------------------------------------------------
(* Processes: the kernel and os/exec.                                      *)

\* A process ends by itself, or because it got SIGTERM.
ProcessExits(u, g) ==
    /\ g \in alive[u]
    /\ alive' = [alive EXCEPT ![u] = @ \ {g}]
    /\ UNCHANGED <<boot, request, status, loop, launches, unwaited, cmd,
                   notified, cancelled, caller, ctxKilled>>

Notifies(u) ==
    /\ u \in NotifyUnits
    /\ launches[u] \in alive[u]
    /\ loop[u] \in {"spawned", "await"}
    /\ ~notified[u]
    /\ notified' = [notified EXCEPT ![u] = TRUE]
    /\ UNCHANGED <<boot, request, status, loop, launches, alive, unwaited, cmd,
                   cancelled, caller, ctxKilled>>

\* exec.CommandContext kills the process of a context that is done.
CtxKills(u) ==
    /\ cancelled[u]
    /\ alive[u] # {}
    /\ alive' = [alive EXCEPT ![u] = {}]
    /\ ctxKilled' = ctxKilled \cup {u}
    /\ UNCHANGED <<boot, request, status, loop, launches, unwaited, cmd,
                   notified, cancelled, caller>>
-----------------------------------------------------------------------------
(* serviceRun.stop and its callers.                                        *)

BeginStop(c, u, kind) ==
    /\ boot.pc # "off"
    /\ caller[c] = NoCall
    /\ loop[u] # "none"
    /\ Transition(u, "stopping")
    /\ caller' = [caller EXCEPT ![c] = [pc |-> "signal", u |-> u, g |-> 0,
                                        kind |-> kind]]
    /\ UNCHANGED <<boot, request, loop, cancelled, procVars>>

StopService(c, u) == BeginStop(c, u, "stop")

RestartService(c, u) == BeginStop(c, u, "restart")

\* ShutdownPlan's next unit, in reverse plan order.
ShutdownUnit ==
    /\ boot.pc = "stopping"
    /\ boot.i > 0
    /\ BeginStop(Main, Plan[boot.i], "shutdown")

\* stop() finds no process yet and returns without cancelling the run.
StopNoProcess(c) ==
    /\ caller[c].pc = "signal"
    /\ cmd[caller[c].u] = 0
    /\ caller' = [caller EXCEPT ![c].pc = "finish"]
    /\ UNCHANGED <<boot, request, status, loop, cancelled, procVars>>

\* SIGTERM to the process group of run.cmd, and a second cmd.Wait.
StopSignals(c) ==
    /\ caller[c].pc = "signal"
    /\ cmd[caller[c].u] \in unwaited[caller[c].u]
    /\ caller' = [caller EXCEPT ![c].pc = "wait", ![c].g = cmd[caller[c].u]]
    /\ UNCHANGED <<boot, request, status, loop, cancelled, procVars>>

\* The process was waited for already: the second Wait fails at once.
StopFindsExited(c) ==
    LET u == caller[c].u IN
    /\ caller[c].pc = "signal"
    /\ cmd[u] # 0
    /\ cmd[u] \notin unwaited[u]
    /\ cancelled' = [cancelled EXCEPT ![u] = TRUE]
    /\ caller' = [caller EXCEPT ![c].pc = "finish"]
    /\ UNCHANGED <<boot, request, status, loop, procVars>>

MutStopForgetsCancel(c) ==
    LET u == caller[c].u
        g == caller[c].g
    IN /\ caller[c].pc = "wait"
       /\ g \in unwaited[u] \ alive[u]
       /\ unwaited' = [unwaited EXCEPT ![u] = @ \ {g}]
       /\ caller' = [caller EXCEPT ![c].pc = "finish"]
       /\ UNCHANGED <<boot, request, status, loop, launches, alive, cmd,
                      notified, cancelled, ctxKilled>>

\* The second Wait is the one that returns, and the run is cancelled.
StopReaps(c) ==
    LET u == caller[c].u
        g == caller[c].g
    IN /\ caller[c].pc = "wait"
       /\ g \in unwaited[u] \ alive[u]
       /\ unwaited' = [unwaited EXCEPT ![u] = @ \ {g}]
       /\ cancelled' = [cancelled EXCEPT ![u] = TRUE]
       /\ caller' = [caller EXCEPT ![c].pc = "finish"]
       /\ UNCHANGED <<boot, request, status, loop, launches, alive, cmd,
                      notified, ctxKilled>>

MutStopExpiresOnlyAlive(c) ==
    LET u == caller[c].u
        g == caller[c].g
    IN /\ caller[c].pc = "wait"
       /\ g \in alive[u]
       /\ alive' = [alive EXCEPT ![u] = @ \ {g}]
       /\ cancelled' = [cancelled EXCEPT ![u] = TRUE]
       /\ caller' = [caller EXCEPT ![c].pc = "finish"]
       /\ UNCHANGED <<boot, request, status, loop, launches, unwaited, cmd,
                      notified, ctxKilled>>

\* StopTimeout: SIGKILL to the group, and the run is cancelled.
StopExpires(c) ==
    LET u == caller[c].u
        g == caller[c].g
    IN /\ caller[c].pc = "wait"
       /\ alive' = [alive EXCEPT ![u] = @ \ {g}]
       /\ cancelled' = [cancelled EXCEPT ![u] = TRUE]
       /\ caller' = [caller EXCEPT ![c].pc = "finish"]
       /\ UNCHANGED <<boot, request, status, loop, launches, unwaited, cmd,
                      notified, ctxKilled>>

\* The caller reports the unit inactive; ShutdownPlan goes on to the next.
StopFinishes(c) ==
    /\ caller[c].pc = "finish"
    /\ Transition(caller[c].u, "inactive")
    /\ caller' = [caller EXCEPT ![c] = NoCall]
    /\ boot' = IF c = Main THEN [boot EXCEPT !.i = @ - 1] ELSE boot
    /\ UNCHANGED <<request, loop, cancelled, procVars>>
-----------------------------------------------------------------------------
MainStep ==
    \/ StartUnit \/ GateReturns \/ AllStarted \/ ShutdownBegin \/ PowerAction
    \/ ShutdownUnit

LoopStep(u) ==
    \/ LoopReturns(u) \/ LoopTop(u) \/ Spawn(u) \/ SpawnFails(u) \/ SetCmd(u)
    \/ BecomeReady(u) \/ AwaitCancelled(u) \/ ExitCancelled(u) \/ ExitFinal(u)
    \/ ExitRestarts(u) \/ ExitCrashLoop(u) \/ PauseOver(u) \/ BackoffOver(u)
    \/ SleepCancelled(u)

StopStep(c) ==
    \/ StopNoProcess(c) \/ StopSignals(c) \/ StopFindsExited(c) \/ StopReaps(c)
    \/ StopExpires(c) \/ StopFinishes(c)

Environment ==
    \/ \E mode \in {"normal", "poweroff"} : ShutdownRequest(mode)
    \/ \E u \in Units, g \in Generations : ProcessExits(u, g)
    \/ \E u \in Units : Notifies(u)
    \/ \E c \in Ctl, u \in Units : StopService(c, u) \/ RestartService(c, u)

Next ==
    \/ MainStep
    \/ \E u \in Units : LoopStep(u) \/ CtxKills(u)
    \/ \E c \in Callers : StopStep(c)
    \/ Environment

Spec == Init /\ [][Next]_vars

(***************************************************************************)
(* Goroutines that can run do run, timers expire and a context that is     *)
(* done kills its process.  Nothing is assumed of the services and of the  *)
(* users of nuractl.                                                       *)
(***************************************************************************)
Fairness ==
    /\ WF_vars(MainStep)
    /\ \A u \in Units : /\ WF_vars(LoopStep(u))
                        /\ WF_vars(CtxKills(u))
    /\ \A c \in Callers : WF_vars(StopStep(c))

FairSpec == Spec /\ Fairness
-----------------------------------------------------------------------------
\* The main goroutine stays within the plan, and runs, processes and calls of
\* stop have their forms.
TypeOK ==
    /\ boot \in [pc : {"launch", "gate", "idle", "stopping", "off"},
                 i : 0 .. Len(Plan) + 1]
    /\ request \in {"none", "normal", "poweroff"}
    /\ status \in [Units -> States \cup {"absent"}]
    /\ loop \in [Units -> LoopStates]
    /\ launches \in [Units -> 0 .. MaxLaunches]
    /\ alive \in [Units -> SUBSET Generations]
    /\ unwaited \in [Units -> SUBSET Generations]
    /\ cmd \in [Units -> 0 .. MaxLaunches]
    /\ notified \in [Units -> BOOLEAN]
    /\ cancelled \in [Units -> BOOLEAN]
    /\ caller \in [Callers -> Calls \cup {NoCall}]
    /\ ctxKilled \subseteq Units

\* However exits, stop requests and restarts interleave, a unit has at most
\* one process, the one its loop launched last, and that process is watched
\* by the loop, or the loop has returned and the process belongs to a context
\* that is done and kills it.
Supervised ==
    \A u \in Units :
        /\ alive[u] \subseteq {launches[u]}
        /\ alive[u] # {} => \/ loop[u] \in {"spawned", "await", "wait"}
                            \/ loop[u] = "done" /\ cancelled[u]

\* A unit that is reported failed has no process, whoever moved it there:
\* its own loop giving up, a spawn error, or a crash loop racing a stop.
FailedHasNoProcess == \A u \in Units : status[u] = "failed" => alive[u] = {}

\* A unit with policy "no" is launched once: neither spawn errors nor exits
\* nor stop requests lead its loop back to a second launch.
NoPolicyRunsOnce == \A u \in Units : Policy[u] = "no" => launches[u] <= 1

\* The three together: whatever stops, crashes and restarts overlap, the manager
\* accounts for every process it launched.
LaunchesAccounted == Supervised /\ FailedHasNoProcess /\ NoPolicyRunsOnce

\* Every stop() call returns, although the loop may take the one result that
\* the two concurrent Waits on the process share.
StopReturns == \A c \in Callers : caller[c] # NoCall ~> caller[c] = NoCall

\* A unit with policy "always" whose process died is tried again, unless the
\* run was cancelled; no stop request may leave it dead and uncancelled.
CrashedIsRetried ==
    \A u \in Units :
        (Policy[u] = "always" /\ loop[u] = "wait" /\ alive[u] = {})
            ~> (loop[u] = "spawn" \/ cancelled[u] \/ boot.pc = "off")

\* A shutdown trigger leads to the power action, whatever services do.
ShutdownCompletes == request # "none" ~> boot.pc = "off"

\* unit.go: "Requires lists units that must be started AND healthy before
\* this one."
RequiredAreReady ==
    [][\A u \in Units : loop[u] = "none" /\ loop'[u] # "none" =>
          \A r \in Requires[u] : status[r] \in {"ready", "running"}]_vars

\* state.go: StateInactive is "not yet started or fully stopped".
InactiveIsStopped == \A u \in Units : status[u] = "inactive" => alive[u] = {}

\* docs/services.md: running is "Process live, no active probe": a unit does
\* not stay reported as running without a process.
RunningIsLive ==
    \A u \in Units : (status[u] = "running" /\ alive[u] = {})
        ~> (status[u] # "running" \/ alive[u] # {} \/ boot.pc = "off")

\* RestartService: "service will restart via its policy".
RestartComesBack ==
    \A c \in Ctl, u \in Units :
        (caller[c].pc = "finish" /\ caller[c].kind = "restart" /\ caller[c].u = u)
            ~> (loop[u] = "spawn" \/ boot.pc # "idle")

\* docs/services.md: policy always is "Restart unconditionally".
NotifyCrashIsRetried ==
    \A u \in Units :
        (Policy[u] = "always" /\ loop[u] = "await" /\ alive[u] = {})
            ~> (loop[u] = "spawn" \/ cancelled[u] \/ boot.pc = "off")

\* docs/power.md: "services are always stopped in dependency-reverse order":
\* the context kills no process that a live unit requires.
KilledInOrder ==
    [][\A u, r \in Units : (r \in ctxKilled' \ ctxKilled /\ r \in Requires[u])
          => alive[u] = {}]_vars
=============================================================================
