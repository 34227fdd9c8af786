-------------------------- MODULE SocketActivation --------------------------
(***************************************************************************)
(* A socket-activated unit: socketActivate, launchSocketUnit and           *)
(* waitRunStopped of services/internal/lifecycle/manager.go, with the      *)
(* holder and the idle monitor of services/internal/sockact.  The manager  *)
(* holds the listening socket, accepts the first connection itself, starts *)
(* the service, which inherits the socket, and waits until it stops; the   *)
(* idle monitor and nuractl stop it.                                       *)
(*                                                                         *)
(* The runs of the unit are numbered.  Each connection starts at most one  *)
(* run, so MaxConnects bounds both.  Clock ticks are IdleTimeout fractions.*)
(***************************************************************************)
EXTENDS ServiceStates, Naturals, FiniteSets

CONSTANTS IdleTimeout,  \* in ticks; 0 means no idle monitor
          MaxConnects,  \* bound on client connections
          Prompt        \* timeouts are long against the goroutines' own steps

ASSUME SocketConfig ==
    IdleTimeout \in Nat /\ MaxConnects \in Nat \ {0} /\ Prompt \in BOOLEAN

Runs == 1 .. MaxConnects
Stoppers == {"idle", "ctl"}

VARIABLES
    connects,  \* client connections made so far
    pending,   \* a connection waits in the listen queue
    age,       \* time since lastActivity, saturating at IdleTimeout
    use,       \* time since a client last connected, likewise
    act,       \* socketActivate: its position and the run it waits for
    task,      \* where the goroutine of each launched run is
    alive,     \* runs whose process is running
    unwaited,  \* runs on whose process a cmd.Wait can still return
    hasCmd,    \* runs whose run.cmd is set
    ctxDone,   \* runs whose context was cancelled
    procs,     \* m.procs of the unit; 0 is nil
    status,    \* the reported state
    stop,      \* stop() calls: of the idle monitor and of nuractl
    down       \* the manager's context is done

socketVars == <<connects, pending, age, use, act, task, alive, unwaited, hasCmd,
          ctxDone, procs, status, stop, down>>

NoStop == [pc |-> "none", r |-> 0]
Done(r) == down \/ r \in ctxDone

SocketInit ==
    /\ connects = 0 /\ pending = FALSE
    /\ age = 0 /\ use = 0
    /\ act = [pc |-> "accept", r |-> 0]
    /\ task = [r \in Runs |-> "none"]
    /\ alive = {} /\ unwaited = {} /\ hasCmd = {} /\ ctxDone = {}
    /\ procs = 0
    /\ status = "inactive"
    /\ stop = [s \in Stoppers |-> NoStop]
    /\ down = FALSE
-----------------------------------------------------------------------------
(* Clients, the service and the clock.                                     *)

client == <<connects, pending, age, use>>
runState == <<task, alive, unwaited, hasCmd, ctxDone>>

Connect ==
    /\ connects < MaxConnects
    /\ ~pending
    /\ connects' = connects + 1
    /\ pending' = TRUE
    /\ use' = 0
    /\ UNCHANGED <<age, act, runState, procs, status, stop, down>>

\* The service takes the connection from the socket it inherited.
ServiceAccepts ==
    /\ pending
    /\ alive # {}
    /\ pending' = FALSE
    /\ use' = 0
    /\ UNCHANGED <<connects, age, act, runState, procs, status, stop, down>>

\* A goroutine has a step to take: with Prompt no tick passes meanwhile.
Runnable ==
    \/ act.pc \in {"launch", "register", "look"}
    \/ act.pc = "accept" /\ pending
    \/ act.pc = "waiting" /\ Done(act.r)
    \/ \E r \in Runs : task[r] \in {"begin", "started"}
    \/ \E s \in Stoppers : stop[s].pc \in {"signal", "finish"}

Tick ==
    /\ Prompt => ~Runnable
    /\ age' = IF age < IdleTimeout THEN age + 1 ELSE age
    /\ use' = IF use < IdleTimeout THEN use + 1 ELSE use
    /\ UNCHANGED <<connects, pending, act, runState, procs, status, stop, down>>

ProcessExits(r) ==
    /\ r \in alive
    /\ alive' = alive \ {r}
    /\ UNCHANGED <<client, act, task, unwaited, hasCmd, ctxDone, procs, status,
                   stop, down>>

\* exec.CommandContext kills the process of a context that is done.
CtxKills(r) == Done(r) /\ ProcessExits(r)

Shutdown ==
    /\ ~down
    /\ down' = TRUE
    /\ UNCHANGED <<client, act, runState, procs, status, stop>>
-----------------------------------------------------------------------------
(* socketActivate.                                                         *)

\* WaitFirstConnection: the connection is closed, the activity recorded.
Accept ==
    /\ act.pc = "accept"
    /\ pending
    /\ pending' = FALSE
    /\ age' = 0
    /\ act' = [act EXCEPT !.pc = "launch"]
    /\ UNCHANGED <<connects, use, runState, procs, status, stop, down>>

\* The wait is cancelled, or the head of the loop finds the context done.
AcceptCancelled ==
    /\ act.pc = "accept"
    /\ down
    /\ act' = [act EXCEPT !.pc = "off"]
    /\ UNCHANGED <<client, runState, procs, status, stop, down>>

\* launchSocketUnit starts the goroutine of a new run.
Launch ==
    LET r == CHOOSE q \in Runs : task[q] = "none" /\ \A p \in 1 .. q - 1 : task[p] # "none"
    IN /\ act.pc = "launch"
       /\ task' = [task EXCEPT ![r] = "begin"]
       /\ act' = [pc |-> "register", r |-> r]
       /\ UNCHANGED <<client, alive, unwaited, hasCmd, ctxDone, procs, status,
                      stop, down>>

Register ==
    /\ act.pc = "register"
    /\ procs' = act.r
    /\ act' = [act EXCEPT !.pc = "look"]
    /\ UNCHANGED <<client, runState, status, stop, down>>

\* waitRunStopped reads m.procs again and does not wait when it is nil.
MutLookDoesNotWait ==
    /\ act.pc = "look"
    /\ act' = [pc |-> "accept", r |-> 0]
    /\ UNCHANGED <<client, runState, procs, status, stop, down>>

LookUp ==
    /\ act.pc = "look"
    /\ act' = IF procs = 0 THEN [pc |-> "accept", r |-> 0]
                           ELSE [pc |-> "waiting", r |-> procs]
    /\ UNCHANGED <<client, runState, procs, status, stop, down>>

RunStopped ==
    /\ act.pc = "waiting"
    /\ Done(act.r)
    /\ act' = [pc |-> "accept", r |-> 0]
    /\ UNCHANGED <<client, runState, procs, status, stop, down>>
-----------------------------------------------------------------------------
(* The goroutine of run r in launchSocketUnit.                             *)

Start(r) ==
    /\ task[r] = "begin"
    /\ ~Done(r)
    /\ status' = Moved(status, "starting")
    /\ alive' = alive \cup {r}
    /\ unwaited' = unwaited \cup {r}
    /\ task' = [task EXCEPT ![r] = "started"]
    /\ UNCHANGED <<client, act, hasCmd, ctxDone, procs, stop, down>>

\* holder.File or cmd.Start fails.
StartFails(r) ==
    /\ task[r] = "begin"
    /\ status' = Moved(Moved(status, "starting"), "failed")
    /\ ctxDone' = ctxDone \cup {r}
    /\ task' = [task EXCEPT ![r] = "done"]
    /\ UNCHANGED <<client, act, alive, unwaited, hasCmd, procs, stop, down>>

Publish(r) ==
    /\ task[r] = "started"
    /\ hasCmd' = hasCmd \cup {r}
    /\ status' = Moved(Moved(status, "ready"), "running")
    /\ task' = [task EXCEPT ![r] = "wait"]
    /\ UNCHANGED <<client, act, alive, unwaited, ctxDone, procs, stop, down>>

MutExitKeepsContext(r) ==
    /\ task[r] = "wait"
    /\ r \in unwaited \ alive
    /\ unwaited' = unwaited \ {r}
    /\ status' = Moved(status, "inactive")
    /\ task' = [task EXCEPT ![r] = "done"]
    /\ UNCHANGED <<client, act, alive, hasCmd, ctxDone, procs, stop, down>>

\* cmd.Wait returns here: "inactive", and the run is cancelled.
Exits(r) ==
    /\ task[r] = "wait"
    /\ r \in unwaited \ alive
    /\ unwaited' = unwaited \ {r}
    /\ status' = Moved(status, "inactive")
    /\ ctxDone' = ctxDone \cup {r}
    /\ task' = [task EXCEPT ![r] = "done"]
    /\ UNCHANGED <<client, act, alive, hasCmd, procs, stop, down>>
-----------------------------------------------------------------------------
(* Stopping: the idle monitor's callback and nuractl stop.                 *)

BeginStop(s) ==
    /\ status' = Moved(status, "stopping")
    /\ stop' = [stop EXCEPT ![s] = [pc |-> "signal", r |-> procs]]

\* The ticker of IdleMonitor finds the socket idle.
IdleFires ==
    /\ IdleTimeout > 0
    /\ ~down
    /\ age >= IdleTimeout
    /\ stop["idle"] = NoStop
    /\ IF procs = 0
       THEN age' = 0 /\ UNCHANGED <<status, stop>>
       ELSE BeginStop("idle") /\ UNCHANGED age
    /\ UNCHANGED <<connects, pending, use, act, runState, procs, down>>

StopService ==
    /\ stop["ctl"] = NoStop
    /\ procs # 0
    /\ BeginStop("ctl")
    /\ UNCHANGED <<client, act, runState, procs, down>>

\* run.cmd is still nil: nothing is signalled or cancelled.
StopNoProcess(s) ==
    /\ stop[s].pc = "signal"
    /\ stop[s].r \notin hasCmd
    /\ stop' = [stop EXCEPT ![s].pc = "finish"]
    /\ UNCHANGED <<client, act, runState, procs, status, down>>

StopSignals(s) ==
    /\ stop[s].pc = "signal"
    /\ stop[s].r \in hasCmd \cap unwaited
    /\ stop' = [stop EXCEPT ![s].pc = "wait"]
    /\ UNCHANGED <<client, act, runState, procs, status, down>>

\* The process was waited for already: the second Wait fails at once.
StopFindsExited(s) ==
    /\ stop[s].pc = "signal"
    /\ stop[s].r \in hasCmd \ unwaited
    /\ ctxDone' = ctxDone \cup {stop[s].r}
    /\ stop' = [stop EXCEPT ![s].pc = "finish"]
    /\ UNCHANGED <<client, act, task, alive, unwaited, hasCmd, procs, status, down>>

\* Of the two Waits on the process this one returns.
StopReaps(s) ==
    /\ stop[s].pc = "wait"
    /\ stop[s].r \in unwaited \ alive
    /\ unwaited' = unwaited \ {stop[s].r}
    /\ ctxDone' = ctxDone \cup {stop[s].r}
    /\ stop' = [stop EXCEPT ![s].pc = "finish"]
    /\ UNCHANGED <<client, act, task, alive, hasCmd, procs, status, down>>

\* StopTimeout: SIGKILL.
StopExpires(s) ==
    /\ stop[s].pc = "wait"
    /\ alive' = alive \ {stop[s].r}
    /\ ctxDone' = ctxDone \cup {stop[s].r}
    /\ stop' = [stop EXCEPT ![s].pc = "finish"]
    /\ UNCHANGED <<client, act, task, unwaited, hasCmd, procs, status, down>>

\* The idle callback forgets the run, whichever it is by now.
IdleFinishes ==
    /\ stop["idle"].pc = "finish"
    /\ procs' = 0
    /\ status' = Moved(status, "inactive")
    /\ age' = 0
    /\ stop' = [stop EXCEPT !["idle"] = NoStop]
    /\ UNCHANGED <<connects, pending, use, act, runState, down>>

CtlFinishes ==
    /\ stop["ctl"].pc = "finish"
    /\ status' = Moved(status, "inactive")
    /\ stop' = [stop EXCEPT !["ctl"] = NoStop]
    /\ UNCHANGED <<client, act, runState, procs, down>>
-----------------------------------------------------------------------------
Activation == Accept \/ AcceptCancelled \/ Launch \/ Register \/ LookUp \/ RunStopped
RunStep(r) == Start(r) \/ StartFails(r) \/ Publish(r) \/ Exits(r)
StopStep(s) == \/ StopNoProcess(s) \/ StopSignals(s) \/ StopFindsExited(s)
               \/ StopReaps(s) \/ StopExpires(s)

SocketNext ==
    \/ Connect \/ ServiceAccepts \/ Tick \/ Shutdown
    \/ \E r \in Runs : ProcessExits(r) \/ CtxKills(r) \/ RunStep(r)
    \/ Activation
    \/ IdleFires \/ StopService \/ IdleFinishes \/ CtlFinishes
    \/ \E s \in Stoppers : StopStep(s)

SocketSpec == SocketInit /\ [][SocketNext]_socketVars

(***************************************************************************)
(* The manager's goroutines run, time passes, contexts kill, and a service *)
(* that is up takes its connections.                                       *)
(***************************************************************************)
SocketProgress ==
    /\ WF_socketVars(Activation) /\ WF_socketVars(ServiceAccepts)
    /\ WF_socketVars(IdleFires) /\ WF_socketVars(IdleFinishes) /\ WF_socketVars(CtlFinishes)
    /\ \A r \in Runs : WF_socketVars(RunStep(r)) /\ WF_socketVars(CtxKills(r))
    /\ \A s \in Stoppers : WF_socketVars(StopStep(s))

SocketFairness == SocketProgress /\ WF_socketVars(Tick)

FairSocketSpec == SocketSpec /\ SocketFairness
-----------------------------------------------------------------------------
\* The activation loop, the runs and the stops have their forms, and the
\* reported state is one of state.go's.
SocketTypeOK ==
    /\ connects \in 0 .. MaxConnects /\ pending \in BOOLEAN
    /\ age \in 0 .. IdleTimeout /\ use \in 0 .. IdleTimeout
    /\ act \in [pc : {"accept", "launch", "register", "look", "waiting", "off"},
                r : Runs \cup {0}]
    /\ task \in [Runs -> {"none", "begin", "started", "wait", "done"}]
    /\ alive \subseteq Runs /\ unwaited \subseteq Runs
    /\ hasCmd \subseteq Runs /\ ctxDone \subseteq Runs
    /\ procs \in Runs \cup {0}
    /\ status \in States
    /\ stop \in [Stoppers -> [pc : {"none", "signal", "wait", "finish"},
                              r : Runs \cup {0}]]
    /\ down \in BOOLEAN

\* A run is up or about to be.
Up(r) == r \in alive \/ task[r] \in {"begin", "started"}

\* socketActivate: "Wait until the unit stops (idle-stop or crash) before
\* accepting the next activation cycle".  While the manager itself accepts on
\* the socket, no run is up: it would take the service's connections and start
\* a second instance.
AcceptsOnlyWhenStopped ==
    act.pc = "accept" /\ ~down => \A r \in Runs : ~Up(r)

\* What the code keeps of it: the manager does not accept beside the run that
\* m.procs holds.  (The end of an idle stop may have erased the entry.)
RegisteredIsAwaited ==
    act.pc = "accept" /\ ~down => \A r \in Runs : Up(r) => procs # r

\* A connection does not stay in the queue: the service takes it or the
\* manager activates the unit for it, whatever stops and crashes happen.
PendingIsServed == pending ~> ~pending \/ down

\* docs/services.md: "the manager stops the service after that many seconds
\* of no connection activity": it stops, once connections cease.
IdleServiceStops ==
    <>[](~pending /\ use = IdleTimeout) => <>[](alive = {})

\* The same sentence: a process that is up is not stopped for idleness when
\* a client connected within the last idle_timeout.
StopsOnlyWhenIdle ==
    [][stop["idle"].pc = "signal" /\ stop'["idle"].pc = "wait" /\ stop["idle"].r \in alive
         => use >= IdleTimeout]_socketVars
=============================================================================
