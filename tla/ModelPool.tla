----------------------------- MODULE ModelPool ------------------------------
(***************************************************************************)
(* The model pool (src/services/internal/modelpool): Acquire loads the     *)
(* model through the control socket and waits for it, Run unloads it when  *)
(* it is idle.  The mutex is Go's: anyone may unlock it, and to unlock it  *)
(* when it is unlocked is a fatal error that ends the process.  waitReady  *)
(* starts a goroutine that calls cond.Wait, which unlocks the mutex, and   *)
(* then unlocks the mutex itself.                                          *)
(***************************************************************************)
EXTENDS Integers

CONSTANT User       \* goroutines that call Acquire

VARIABLES
    state,      \* Pool.state
    locked,     \* Pool.mu
    fatal,      \* the runtime has ended the process
    acquire,    \* user -> where it is in Acquire
    waiter,     \* user -> the goroutine waitReady started for it
    background  \* "notify", "idle" -> where NotifyLoaded or NotifyUnloaded, and checkIdle are

poolVars == <<state, locked, fatal, acquire, waiter, background>>

PoolInit ==
    /\ state = "unloaded" /\ locked = FALSE /\ fatal = FALSE
    /\ acquire = [u \in User |-> "out"]
    /\ waiter = [u \in User |-> "none"]
    /\ background = [g \in {"notify", "idle"} |-> "out"]

Lock == ~fatal /\ ~locked /\ locked' = TRUE /\ UNCHANGED fatal
Unlock == ~fatal /\ locked' = FALSE /\ fatal' = ~locked
Running == ~fatal /\ UNCHANGED <<locked, fatal>>

Goes(u, p) == acquire' = [acquire EXCEPT ![u] = p]

Decides(u) == Goes(u, IF state = "loaded" THEN "succeeds" ELSE "fails")

-----------------------------------------------------------------------------
AcquireLocks(u) ==
    /\ acquire[u] = "out"
    /\ Lock
    /\ Goes(u, "switch")
    /\ UNCHANGED <<state, waiter, background>>

\* The switch on the state.
Switch(u) ==
    /\ acquire[u] = "switch"
    /\ \/ state = "loaded" /\ Running /\ Goes(u, "succeeds")
       \/ state = "loading" /\ Running /\ Goes(u, "loop")
       \/ state = "unloading" /\ Unlock /\ Goes(u, "unloaded?")    \* waitState: cond.Wait
       \/ state = "unloaded" /\ Running /\ Goes(u, "load")
    /\ UNCHANGED <<state, waiter, background>>

\* waitState wakes up with the lock, and waits again unless the unload is over.
WaitStateWakes(u) ==
    /\ acquire[u] = "woken"
    /\ \/ state = "unloaded" /\ Lock /\ Goes(u, "load")
       \/ state # "unloaded" /\ ~locked /\ Running /\ Goes(u, "unloaded?")
    /\ UNCHANGED <<state, waiter, background>>

\* sendStart, which may fail.
Load(u) ==
    /\ acquire[u] = "load"
    /\ Running
    /\ \/ Goes(u, "fails") /\ UNCHANGED state
       \/ Goes(u, "loop") /\ state' = "loading"
    /\ UNCHANGED <<waiter, background>>

\* The head of the loop of waitReady: leave, time out, or start a waiter.
WaitLoop(u) ==
    /\ acquire[u] = "loop"
    /\ Running
    /\ \/ /\ state # "loading"
          /\ Decides(u)
          /\ UNCHANGED waiter
       \/ /\ state = "loading"
          /\ Goes(u, "fails")
          /\ UNCHANGED waiter
       \/ /\ state = "loading"
          /\ Goes(u, "unlock")
          /\ waiter' = [waiter EXCEPT ![u] = "start"]
    /\ UNCHANGED <<state, background>>

\* cond.Wait in the goroutine unlocks the mutex,
WaiterWaits(u) ==
    /\ waiter[u] = "start"
    /\ Unlock
    /\ waiter' = [waiter EXCEPT ![u] = "waits"]
    /\ UNCHANGED <<state, acquire, background>>

\* and so does waitReady.
UnlockToSelect(u) ==
    /\ acquire[u] = "unlock"
    /\ Unlock
    /\ Goes(u, "select")
    /\ UNCHANGED <<state, waiter, background>>

\* The goroutine returns from cond.Wait with the lock, and never unlocks it.
WaiterWakes(u) ==
    /\ waiter[u] = "woken"
    /\ Lock
    /\ waiter' = [waiter EXCEPT ![u] = "done"]
    /\ UNCHANGED <<state, acquire, background>>

\* The select: the waiter is done, or the context is.
Relock(u) ==
    /\ acquire[u] = "select"
    /\ Lock
    /\ \/ waiter[u] = "done" /\ Goes(u, "loop")
       \/ Goes(u, "fails")
    /\ UNCHANGED <<state, waiter, background>>

\* The deferred Unlock.
AcquireReturns(u) ==
    /\ acquire[u] \in {"succeeds", "fails"}
    /\ Unlock
    /\ Goes(u, IF acquire[u] = "succeeds" THEN "acquired" ELSE "out")
    /\ UNCHANGED <<state, waiter, background>>

\* Release writes a time stamp under the lock.
Release(u) ==
    /\ acquire[u] = "acquired" /\ ~locked /\ Running
    /\ Goes(u, "out")
    /\ UNCHANGED <<state, waiter, background>>

-----------------------------------------------------------------------------
\* cond.Broadcast.
Broadcast ==
    /\ waiter' = [u \in User |-> IF waiter[u] = "waits" THEN "woken" ELSE waiter[u]]
    /\ acquire' = [u \in User |-> IF acquire[u] = "unloaded?" THEN "woken" ELSE acquire[u]]

BackgroundLocks(g, what) ==
    /\ background[g] = "out"
    /\ what \in IF g = "idle" THEN {"unloading"} ELSE {"loaded", "unloaded"}
    /\ Lock
    /\ background' = [background EXCEPT ![g] = what]
    /\ UNCHANGED <<state, acquire, waiter>>

\* NotifyLoaded, NotifyUnloaded, and checkIdle once the idle time is over.
BackgroundActs(g) ==
    /\ background[g] \in {"loaded", "unloaded", "unloading"}
    /\ Running
    /\ background' = [background EXCEPT ![g] = "unlock"]
    /\ \/ /\ background[g] = "loaded" /\ state = "loading"
          /\ state' = "loaded"
          /\ Broadcast
       \/ /\ background[g] = "unloaded"
          /\ state' = "unloaded"
          /\ Broadcast
       \/ /\ background[g] = "unloading" /\ state = "loaded"
          /\ state' = "unloading"
          /\ UNCHANGED <<acquire, waiter>>
       \/ /\ \/ background[g] = "loaded" /\ state # "loading"
             \/ background[g] = "unloading" /\ state # "loaded"
          /\ UNCHANGED <<state, acquire, waiter>>

BackgroundUnlocks(g) ==
    /\ background[g] = "unlock"
    /\ Unlock
    /\ background' = [background EXCEPT ![g] = "out"]
    /\ UNCHANGED <<state, acquire, waiter>>

PoolNext ==
    \/ \E u \in User :
         \/ AcquireLocks(u) \/ Switch(u) \/ WaitStateWakes(u) \/ Load(u) \/ WaitLoop(u)
         \/ WaiterWaits(u) \/ UnlockToSelect(u) \/ WaiterWakes(u) \/ Relock(u) \/ AcquireReturns(u) \/ Release(u)
    \/ \E g \in {"notify", "idle"} :
         \/ \E what \in {"loaded", "unloaded", "unloading"} : BackgroundLocks(g, what)
         \/ BackgroundActs(g) \/ BackgroundUnlocks(g)

PoolSpec == PoolInit /\ [][PoolNext]_poolVars

-----------------------------------------------------------------------------
\* pool.go:131-133 says Acquire "returns when it is ready", or returns "an error
\* if the model cannot be loaded": it does not end the process.
AcquireIsNotFatal == ~fatal
=============================================================================
