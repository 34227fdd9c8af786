------------------------------ MODULE Watchdog ------------------------------
(***************************************************************************)
(* The watchdog (src/services/internal/watchdog): a petter that writes to  *)
(* /dev/watchdog, a supervisor that stops the petter after SoftTries       *)
(* failed health checks in a row, and the kernel, which resets the machine *)
(* when the device was open and not written to for HardwareTimeout.        *)
(*                                                                         *)
(* Time is counted in periods of the supervisor.  A goroutine whose ticker *)
(* is due runs before time goes on.                                        *)
(***************************************************************************)
EXTENDS Integers

CONSTANTS
    PetInterval,        \* periods between two pets
    HardwareTimeout,    \* periods without a pet the kernel tolerates
    SoftTries           \* failures in a row before escalation

ASSUME WatchdogAssumption ==
    /\ PetInterval \in Nat \ {0} /\ HardwareTimeout \in Nat /\ SoftTries \in Nat \ {0}
    /\ PetInterval < HardwareTimeout

VARIABLES
    device,         \* "closed", "armed", "released" (closed after the magic byte), "reset"
    unpetted,       \* periods since the device was opened or written to
    petter,         \* "off", "on", "returned"
    petTimer,       \* periods until the petter's next tick
    supervisor,     \* "off", "on", "returned"
    checkDue,       \* the supervisor's ticker has fired
    failures,       \* failed checks in a row
    unhealthy,      \* history: periods since the last check that passed
    petClosed,      \* StopPetting was called
    stopClosed,     \* Close has closed the stop channel
    contextDone         \* the context is cancelled

watchdogVars == <<device, unpetted, petter, petTimer, supervisor, checkDue, failures, unhealthy,
                  petClosed, stopClosed, contextDone>>

WatchdogInit ==
    /\ device = "closed" /\ unpetted = 0
    /\ petter = "off" /\ petTimer = 0
    /\ supervisor = "off" /\ checkDue = FALSE
    /\ failures = 0 /\ unhealthy = 0
    /\ petClosed = FALSE /\ stopClosed = FALSE /\ contextDone = FALSE

StartWatchdog ==
    /\ device = "closed" /\ petter = "off" /\ ~stopClosed
    /\ device' = "armed" /\ unpetted' = 0
    /\ petter' = "on" /\ petTimer' = PetInterval
    /\ supervisor' = "on"
    /\ UNCHANGED <<checkDue, failures, unhealthy, petClosed, stopClosed, contextDone>>

\* A plausible slip: the petter does not look at the channel the supervisor closes.
MutPetterReturns ==
    /\ petter = "on" /\ (contextDone \/ stopClosed)
    /\ petter' = "returned"
    /\ UNCHANGED <<device, unpetted, petTimer, supervisor, checkDue, failures, unhealthy,
                   petClosed, stopClosed, contextDone>>

\* One round of runPetter's select: a closed channel, or the ticker.  Go picks
\* among the ready cases at random.
PetterReturns ==
    /\ petter = "on" /\ (contextDone \/ stopClosed \/ petClosed)
    /\ petter' = "returned"
    /\ UNCHANGED <<device, unpetted, petTimer, supervisor, checkDue, failures, unhealthy,
                   petClosed, stopClosed, contextDone>>

Pet ==
    /\ petter = "on" /\ petTimer = 0
    /\ petTimer' = PetInterval
    /\ unpetted' = 0
    /\ UNCHANGED <<device, petter, supervisor, checkDue, failures, unhealthy,
                   petClosed, stopClosed, contextDone>>

SupervisorReturns ==
    /\ supervisor = "on" /\ (contextDone \/ stopClosed)
    /\ supervisor' = "returned"
    /\ UNCHANGED <<device, unpetted, petter, petTimer, checkDue, failures, unhealthy,
                   petClosed, stopClosed, contextDone>>

CheckHealth(healthy) ==
    /\ supervisor = "on" /\ checkDue
    /\ checkDue' = FALSE
    /\ failures' = IF healthy THEN 0 ELSE failures + 1
    /\ unhealthy' = IF healthy THEN 0 ELSE unhealthy
    /\ petClosed' = (petClosed \/ failures' >= SoftTries)
    /\ supervisor' = IF failures' >= SoftTries THEN "returned" ELSE supervisor
    /\ UNCHANGED <<device, unpetted, petter, petTimer, stopClosed, contextDone>>

CancelContext ==
    /\ petter # "off" /\ ~contextDone
    /\ contextDone' = TRUE
    /\ UNCHANGED <<device, unpetted, petter, petTimer, supervisor, checkDue, failures, unhealthy,
                   petClosed, stopClosed>>

\* Close: stop both goroutines,
CloseStops ==
    /\ ~stopClosed /\ device = "armed"
    /\ stopClosed' = TRUE
    /\ UNCHANGED <<device, unpetted, petter, petTimer, supervisor, checkDue, failures, unhealthy,
                   petClosed, contextDone>>

\* wait for them, and disarm the device.
CloseDisarms ==
    /\ stopClosed /\ petter # "on" /\ supervisor # "on" /\ device = "armed"
    /\ device' = "released"
    /\ UNCHANGED <<unpetted, petter, petTimer, supervisor, checkDue, failures, unhealthy,
                   petClosed, stopClosed, contextDone>>

Due ==
    \/ petter = "on" /\ (petTimer = 0 \/ contextDone \/ stopClosed)
    \/ supervisor = "on" /\ (checkDue \/ contextDone \/ stopClosed)
    \/ stopClosed

Period ==
    /\ device = "armed" /\ ~Due
    /\ unpetted' = unpetted + 1
    /\ device' = IF unpetted + 1 > HardwareTimeout THEN "reset" ELSE device
    /\ petTimer' = IF petter = "on" THEN petTimer - 1 ELSE petTimer
    /\ checkDue' = (supervisor = "on")
    /\ unhealthy' = IF supervisor = "on" THEN unhealthy + 1 ELSE unhealthy
    /\ UNCHANGED <<petter, supervisor, failures, petClosed, stopClosed, contextDone>>

GoroutineStep ==
    \/ PetterReturns \/ Pet \/ SupervisorReturns
    \/ \E healthy \in BOOLEAN : CheckHealth(healthy)

WatchdogNext == StartWatchdog \/ GoroutineStep \/ CancelContext \/ CloseStops \/ CloseDisarms \/ Period

\* Time passes and goroutines run; select does not put off a ready case for ever.
WatchdogFairness ==
    /\ WF_watchdogVars(GoroutineStep) /\ SF_watchdogVars(PetterReturns)
    /\ WF_watchdogVars(Period) /\ WF_watchdogVars(CloseDisarms)
WatchdogSpec == WatchdogInit /\ [][WatchdogNext]_watchdogVars /\ WatchdogFairness

-----------------------------------------------------------------------------
\* While its context lives, the machine is reset only after SoftTries periods
\* in which every health check failed: a check that passes in between, and the
\* petter and the supervisor being out of step, never cost a reset
\* (watchdog.go:185-252).
ResetOnlyAfterFailures ==
    (device = "reset" /\ ~contextDone) => unhealthy >= SoftTries

\* "After HardwareTimeout elapses the kernel will trigger a hard reset"
\* (watchdog.go:153-155): once the supervisor escalates, the reset comes unless
\* Close disarms the device before.
EscalationResets == petClosed ~> (device \in {"reset", "released"})

\* The two together: the machine is reset when the checks keep failing, and only
\* then.
ResetsExactly == EscalationResets /\ []ResetOnlyAfterFailures
=============================================================================
