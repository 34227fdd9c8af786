----------------------------- MODULE ManagerRun -----------------------------
(***************************************************************************)
(* The main function of nura-manager from boot to the power action         *)
(* (cmd/nura-manager/subcmd/run.go), the control socket                    *)
(* (internal/ctlsock, internal/lifecycle/ctl_handler.go) and nuractl on    *)
(* the other end of it.  Three kinds of goroutine race for the one slot of *)
(* shutdownCh: the one waiting for SIGTERM or SIGINT, the one waiting for  *)
(* the power button, and the handlers of control connections.              *)
(*                                                                         *)
(* What the other commands do to services is modelled in Lifecycle.tla;    *)
(* here they are "service", a command that may outlast the deadlines.      *)
(***************************************************************************)
EXTENDS Integers, Sequences

CONSTANT Client     \* invocations of nuractl

VARIABLES
    run,            \* how far Run has come
    hasJournal,     \* NewWriter succeeded
    unsynced,       \* the journal holds records that were not synced
    signals,        \* "TERM", "PWR" -> "none", "sent", "received"
    shutdownCh,     \* the buffered channel of one shutdown mode
    first,          \* history: the mode of the first call of deliverShutdown
    mode,           \* the mode Run received
    allStopped,     \* ShutdownPlan has returned
    power,          \* the state of the machine: "on", "off", "rebooting"
    ctl             \* client -> [cmd, client side, server side, result]

managerVars == <<run, hasJournal, unsynced, signals, shutdownCh, first, mode, allStopped, power, ctl>>

NoMode == "none"
Commands == {"service", "poweroff", "reboot"}
IdleClient == [cmd |-> "service", at |-> "idle", server |-> "none", ok |-> FALSE]

\* The process is alive: it has set up its goroutines and has not returned.
Alive == run \in {"boot", "setup", "serving", "waiting", "stopping", "stopped", "flushed", "acted"}
ManagerUp == Alive /\ run # "boot"

ManagerInit ==
    /\ run = "boot"
    /\ hasJournal \in BOOLEAN
    /\ unsynced = FALSE
    /\ signals = [s \in {"TERM", "PWR"} |-> "none"]
    /\ shutdownCh = <<>> /\ first = NoMode /\ mode = NoMode
    /\ allStopped = FALSE
    /\ power = "on"
    /\ ctl = [c \in Client |-> IdleClient]

\* A record goes to the journal file, which Write reopens after a Close.
Log == unsynced' = hasJournal

-----------------------------------------------------------------------------
(* Run.                                                                    *)

\* No units, an unreadable unit, or no order to start them in: the deferred
\* Close syncs the journal.
BootFails ==
    /\ run = "boot"
    /\ run' = "exited"
    /\ unsynced' = FALSE
    /\ UNCHANGED <<hasJournal, signals, shutdownCh, first, mode, allStopped, power, ctl>>

Boot ==
    /\ run = "boot"
    /\ run' = "setup"
    /\ Log
    /\ UNCHANGED <<hasJournal, signals, shutdownCh, first, mode, allStopped, power, ctl>>

\* The control socket is served, and StartPlan starts the units.
Serve ==
    /\ run = "setup"
    /\ run' = "serving"
    /\ Log
    /\ UNCHANGED <<hasJournal, signals, shutdownCh, first, mode, allStopped, power, ctl>>

AllStarted ==
    /\ run = "serving"
    /\ run' = "waiting"
    /\ Log
    /\ UNCHANGED <<hasJournal, signals, shutdownCh, first, mode, allStopped, power, ctl>>

\* <-shutdownCh, cancel, and ShutdownPlan in a goroutine of its own.
ReceiveMode ==
    /\ run = "waiting" /\ shutdownCh # <<>>
    /\ mode' = Head(shutdownCh)
    /\ shutdownCh' = Tail(shutdownCh)
    /\ run' = "stopping"
    /\ Log
    /\ UNCHANGED <<hasJournal, signals, first, allStopped, power, ctl>>

ShutdownPlan ==
    /\ ManagerUp /\ mode # NoMode /\ ~allStopped
    /\ allStopped' = TRUE
    /\ Log
    /\ UNCHANGED <<run, hasJournal, signals, shutdownCh, first, mode, power, ctl>>

\* A plausible slip: no timeout bounds the ordered shutdown.
MutShutdownSelect ==
    /\ run = "stopping" /\ allStopped
    /\ run' = "stopped"
    /\ Log
    /\ UNCHANGED <<hasJournal, signals, shutdownCh, first, mode, allStopped, power, ctl>>

\* The select takes the end of the shutdown or its timeout, whichever is first.
ShutdownSelect ==
    /\ run = "stopping"
    /\ run' = "stopped"
    /\ Log
    /\ UNCHANGED <<hasJournal, signals, shutdownCh, first, mode, allStopped, power, ctl>>

CloseJournal ==
    /\ run = "stopped"
    /\ run' = "flushed"
    /\ unsynced' = FALSE
    /\ UNCHANGED <<hasJournal, signals, shutdownCh, first, mode, allStopped, power, ctl>>

\* The switch on the mode logs what it is about to do and makes the system
\* call, which does not return when it succeeds.
PowerAction ==
    /\ run = "flushed"
    /\ Log
    /\ \/ /\ mode = "normal"
          /\ run' = "acted"
          /\ UNCHANGED power
       \/ /\ mode # "normal"
          /\ run' = "halted"
          /\ power' = IF mode = "poweroff" THEN "off" ELSE "rebooting"
       \/ /\ mode # "normal"
          /\ run' = "acted"
          /\ UNCHANGED power
    /\ UNCHANGED <<hasJournal, signals, shutdownCh, first, mode, allStopped, ctl>>

Return ==
    /\ run = "acted"
    /\ run' = "exited"
    /\ unsynced' = FALSE
    /\ UNCHANGED <<hasJournal, signals, shutdownCh, first, mode, allStopped, power, ctl>>

-----------------------------------------------------------------------------
(* The triggers.                                                           *)

\* A plausible slip: the newest mode replaces one that still waits.
MutDeliverShutdown(m) ==
    /\ shutdownCh' = <<m>>
    /\ first' = IF first = NoMode THEN m ELSE first

deliverShutdown(m) ==
    /\ shutdownCh' = IF shutdownCh = <<>> THEN <<m>> ELSE shutdownCh
    /\ first' = IF first = NoMode THEN m ELSE first

\* Before signal.Notify a signal ends the process.
SendSignal(s) ==
    /\ Alive /\ signals[s] = "none"
    /\ signals' = [signals EXCEPT ![s] = "sent"]
    /\ run' = IF run = "boot" THEN "exited" ELSE run
    /\ UNCHANGED <<hasJournal, unsynced, shutdownCh, first, mode, allStopped, power, ctl>>

SignalReceived(s) ==
    /\ ManagerUp /\ signals[s] = "sent"
    /\ signals' = [signals EXCEPT ![s] = "received"]
    /\ deliverShutdown(IF s = "TERM" THEN "normal" ELSE "poweroff")
    /\ Log
    /\ UNCHANGED <<run, hasJournal, mode, allStopped, power, ctl>>

-----------------------------------------------------------------------------
(* nuractl and the handlers of its connections.                            *)

\* Client.Send: without a listener the dial fails.
Send(c, cmd) ==
    /\ ctl[c].at = "idle"
    /\ ctl' = [ctl EXCEPT ![c] =
                 IF run \in {"serving", "waiting"}
                 THEN [cmd |-> cmd, at |-> "sent", server |-> "decode", ok |-> FALSE]
                 ELSE [cmd |-> cmd, at |-> "failed", server |-> "none", ok |-> FALSE]]
    /\ UNCHANGED <<run, hasJournal, unsynced, signals, shutdownCh, first, mode, allStopped, power>>

Reply(c, ok) == ctl' = [ctl EXCEPT ![c].server = "reply", ![c].ok = ok]

\* dispatch: a power command, or a command on services, which may fail.
Dispatch(c) ==
    /\ ManagerUp /\ ctl[c].server = "decode"
    /\ \/ /\ ctl[c].cmd = "service"
          /\ \E ok \in BOOLEAN : Reply(c, ok)
          /\ UNCHANGED <<unsynced, shutdownCh, first>>
       \/ /\ ctl[c].cmd \in {"poweroff", "reboot"}
          /\ deliverShutdown(ctl[c].cmd)
          /\ Log
          /\ Reply(c, TRUE)
    /\ UNCHANGED <<run, hasJournal, signals, mode, allStopped, power>>

\* Encode reaches a client that still waits, within the server's deadline.
Answer(c) ==
    /\ ManagerUp /\ ctl[c].server = "reply"
    /\ ctl' = [ctl EXCEPT ![c].server = "closed",
                          ![c].at = IF @ # "sent" THEN @
                                    ELSE IF ctl[c].ok THEN "answered" ELSE "refused"]
    /\ UNCHANGED <<run, hasJournal, unsynced, signals, shutdownCh, first, mode, allStopped, power>>

\* The ten seconds of the client or of the server are over, or the manager is
\* gone and the connection with it.
SendFails(c) ==
    /\ ctl[c].at = "sent"
    /\ ctl' = [ctl EXCEPT ![c].at = "failed"]
    /\ UNCHANGED <<run, hasJournal, unsynced, signals, shutdownCh, first, mode, allStopped, power>>

MainStep ==
    \/ BootFails \/ Boot \/ Serve \/ AllStarted \/ ReceiveMode \/ ShutdownSelect
    \/ CloseJournal \/ PowerAction \/ Return

ManagerNext ==
    \/ MainStep \/ ShutdownPlan
    \/ \E s \in {"TERM", "PWR"} : SendSignal(s) \/ SignalReceived(s)
    \/ \E c \in Client :
         \/ \E cmd \in Commands : Send(c, cmd)
         \/ Dispatch(c) \/ Answer(c) \/ SendFails(c)

\* Goroutines run; StartPlan returns because every readiness wait is bounded,
\* and the shutdown is, because the select has a timeout.
ManagerFairness ==
    /\ WF_managerVars(MainStep)
    /\ \A s \in {"TERM", "PWR"} : WF_managerVars(SignalReceived(s))
ManagerSpec == ManagerInit /\ [][ManagerNext]_managerVars /\ ManagerFairness

-----------------------------------------------------------------------------
\* The trigger that comes first decides what happens to the machine, whatever
\* arrives while the services stop (run.go:100-107, "first one wins").
FirstTriggerWins ==
    /\ mode # NoMode => mode = first
    /\ power = "off" => first = "poweroff"
    /\ power = "rebooting" => first = "reboot"

\* A poweroff or reboot that nuractl acknowledges, and every signal sent to a
\* manager that is up, ends with the manager off (run.go:243-281): whatever the
\* services do, and whichever trigger came first.
TriggerEndsManager ==
    /\ \A c \in Client :
         (ctl[c].at = "answered" /\ ctl[c].cmd \in {"poweroff", "reboot"}) ~> ~Alive
    /\ \A s \in {"TERM", "PWR"} : (signals[s] = "sent") ~> ~Alive

\* run.go:261 says "Flush journal before any power state transition", and that
\* after it the deferred Close "is a safe no-op": when the machine goes down,
\* every record is synced.
JournalSyncedAtPower == power # "on" => ~unsynced
=============================================================================
