-------------------------- MODULE MCManagerServices -------------------------
(***************************************************************************)
(* The parts of nura-manager beside the service lifecycle: main and the    *)
(* control socket, unit files and start order, event bus and disk monitor, *)
(* out-of-memory watchers, clock, watchdog; and the runner of tools.  A    *)
(* behaviour exercises one of them, so that their state spaces add up      *)
(* instead of multiplying.                                                 *)
(***************************************************************************)
EXTENDS ManagerRun, Resolver, EventBus, OomWatch, Clock, Watchdog, ToolRunner

VARIABLE part   \* the component this behaviour is about

vars == <<part, managerVars, resolverVars, busVars, oomVars, clockVars, watchdogVars, toolVars>>

\* Unit files: none; three, of which the third may repeat the name of the first and
\* both may be disabled; four that are enabled; one that does not parse or
\* depends on a name that is not there.
UnitFile(names, deps, enabled) ==
    [name : names, parses : {TRUE}, enabled : enabled, deps : SUBSET deps]

SomeUnitFiles ==
    {<<>>}
    \cup {<<f, g, h>> : f \in UnitFile({1}, 1 .. 3, BOOLEAN), g \in UnitFile({2}, 1 .. 3, {TRUE}),
                   h \in UnitFile({1, 3}, 1 .. 3, BOOLEAN)}
    \cup {<<f, g, h, i>> : f \in UnitFile({1}, 2 .. 4, {TRUE}), g \in UnitFile({2}, {1, 3, 4}, {TRUE}),
                           h \in UnitFile({3}, {1, 2, 4}, {TRUE}), i \in UnitFile({4}, 1 .. 3, {TRUE})}
    \cup {<<f>> : f \in [name : {1}, parses : BOOLEAN, enabled : {TRUE}, deps : {{}, {0}}]}

Init ==
    /\ part \in {"main", "units", "bus", "oom", "clock", "watchdog", "tool"}
    /\ ManagerInit /\ ResolverInit /\ BusInit /\ OomInit /\ ClockInit
    /\ WatchdogInit /\ ToolInit
    /\ part # "main" => hasJournal
    /\ part # "units" => unitFiles = <<>>

Next ==
    /\ UNCHANGED part
    /\ \/ /\ part = "main" /\ ManagerNext
          /\ UNCHANGED <<resolverVars, busVars, oomVars, clockVars, watchdogVars, toolVars>>
       \/ /\ part = "units" /\ ResolverNext
          /\ UNCHANGED <<managerVars, busVars, oomVars, clockVars, watchdogVars, toolVars>>
       \/ /\ part = "bus" /\ BusNext
          /\ UNCHANGED <<managerVars, resolverVars, oomVars, clockVars, watchdogVars, toolVars>>
       \/ /\ part = "oom" /\ OomNext
          /\ UNCHANGED <<managerVars, resolverVars, busVars, clockVars, watchdogVars, toolVars>>
       \/ /\ part = "clock" /\ ClockNext
          /\ UNCHANGED <<managerVars, resolverVars, busVars, oomVars, watchdogVars, toolVars>>
       \/ /\ part = "watchdog" /\ WatchdogNext
          /\ UNCHANGED <<managerVars, resolverVars, busVars, oomVars, clockVars, toolVars>>
       \/ /\ part = "tool" /\ ToolNext
          /\ UNCHANGED <<managerVars, resolverVars, busVars, oomVars, clockVars, watchdogVars>>

\* The fairness of each component's own specification.  A component that this
\* behaviour is not about stays in its initial state, in which none of its fair
\* steps is enabled but those that are named here with their part.
Spec ==
    /\ Init /\ [][Next]_vars
    /\ WF_managerVars(part = "main" /\ MainStep)
    /\ \A s \in {"TERM", "PWR"} : WF_managerVars(SignalReceived(s))
    /\ BusFairness /\ OomFairness /\ WatchdogFairness /\ ToolFairness
=============================================================================
