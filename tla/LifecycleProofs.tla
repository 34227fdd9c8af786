-------------------------- MODULE LifecycleProofs ---------------------------
(*****************************************************************************)
(* What the service manager promises of the services it runs and of the      *)
(* machine it keeps alive, for every plan and all timings: processes are     *)
(* accounted for, and the hardware watchdog resets the machine only for a    *)
(* reason.                                                                   *)
(*****************************************************************************)
EXTENDS Lifecycle, Watchdog, TLAPS

-----------------------------------------------------------------------------
(*****************************************************************************)
(* Lifecycle. Supervised, FailedHasNoProcess and NoPolicyRunsOnce hold for   *)
(* every plan, policy, set of connections and launch bound.                  *)
(*                                                                           *)
(* None of them is inductive alone. IInv adds what they rest on: which       *)
(* units the main goroutine has started (BootInv), where a loop can be       *)
(* when its unit is reported failed (FailedInv), and that the loop of a      *)
(* "no" unit has launched nothing before its first spawn (OnceInv).          *)
(*****************************************************************************)

\* StartPlan has launched the i-th unit of the plan.
Started(i) ==
    \/ boot.pc \in {"idle", "stopping", "off"}
    \/ i < boot.i
    \/ boot.pc = "gate" /\ i = boot.i

\* Which units the main goroutine has started, by where it is.
BootInv ==
    /\ boot.pc = "gate" => boot.i \in 1 .. Len(Plan)
    /\ boot.pc = "launch" => boot.i \in 1 .. Len(Plan) + 1
    /\ boot.pc = "stopping" => boot.i <= Len(Plan)
    /\ caller[Main] # NoCall => boot.pc = "stopping" /\ boot.i > 0
    /\ \A i \in 1 .. Len(Plan) :
          /\ Started(i) => loop[Plan[i]] # "none" /\ status[Plan[i]] # "absent"
          /\ ~Started(i) => loop[Plan[i]] = "none"

\* Where the loop of a unit that is reported failed can be.
FailedInv ==
    \A u \in Units :
        status[u] = "failed" =>
            loop[u] \in {"none", "top", "pause", "backoff", "done"} /\ alive[u] = {}

\* The loop of a unit with policy "no" has launched nothing before its spawn.
OnceInv ==
    \A u \in Units : Policy[u] = "no" =>
        /\ loop[u] \notin {"pause", "backoff"}
        /\ loop[u] \in {"none", "top", "spawn"} => launches[u] = 0
        /\ launches[u] <= 1

\* A call of stop() concerns a unit that was started.
CallInv == \A c \in Callers : caller[c] # NoCall => loop[caller[c].u] # "none"

\* The inductive invariant.
IInv == TypeOK /\ BootInv /\ CallInv /\ Supervised /\ FailedInv /\ OnceInv
-----------------------------------------------------------------------------
\* A transition of a known state leads to a known state, and to failed only
\* if it was asked for or already there.
LEMMA MovedFacts ==
    ASSUME NEW s \in States, NEW t \in States
    PROVE  /\ Moved(s, t) \in States
           /\ Moved(s, t) = "failed" => s = "failed" \/ t = "failed"
  BY DEF Moved, Allowed, States

\* Every unit has a place in the plan.
LEMMA UnitIndex == \A u \in Units : \E i \in 1 .. Len(Plan) : Plan[i] = u
  BY DEF Units

\* The initial state of Lifecycle satisfies the invariant.
LEMMA InitIInv == Init => IInv
  <1> SUFFICES ASSUME Init PROVE IInv
    OBVIOUS
  <1> USE LifecycleConfig DEF Init
  <1>1. Len(Plan) \in Nat
    BY DEF Units
  <1>2. TypeOK
    BY <1>1 DEF TypeOK, LoopStates, Generations, Callers, Calls
  <1>3. BootInv
    BY <1>1 DEF BootInv, Started, Callers, Units
  <1>4. CallInv
    BY DEF CallInv
  <1>5. Supervised /\ FailedInv /\ OnceInv
    BY DEF Supervised, FailedInv, OnceInv
  <1> QED BY <1>2, <1>3, <1>4, <1>5 DEF IInv

\* A call in progress is a record of Calls about a unit.
LEMMA CallFacts ==
    ASSUME TypeOK, NEW c \in Callers, caller[c].pc # "idle"
    PROVE  /\ caller[c] \in Calls
           /\ caller[c] # NoCall
           /\ caller[c].u \in Units
           /\ caller[c].g \in 0 .. MaxLaunches
  BY DEF TypeOK, Calls, NoCall

\* A unit whose loop was started has a known state and a place in the plan
\* that StartPlan has passed.
LEMMA KnownState ==
    ASSUME IInv, NEW u \in Units, loop[u] # "none"
    PROVE  status[u] \in States
  <1>1. PICK i \in 1 .. Len(Plan) : Plan[i] = u
    BY UnitIndex
  <1>2. status[u] # "absent"
    BY <1>1 DEF IInv, BootInv
  <1> QED BY <1>2 DEF IInv, TypeOK

\* BootInv survives a step of another goroutine: it starts no loop, forgets
\* no unit, and the shutdown goroutine's call is as before.
LEMMA BootKept ==
    ASSUME IInv, boot' = boot,
           caller'[Main] # NoCall => caller[Main] # NoCall,
           \A u \in Units : (loop'[u] = "none") <=> (loop[u] = "none"),
           \A u \in Units : status[u] # "absent" => status'[u] # "absent"
    PROVE  BootInv'
  <1> \A i \in 1 .. Len(Plan) : Plan[i] \in Units
    BY DEF Units
  <1> QED BY DEF IInv, BootInv, Started
-----------------------------------------------------------------------------
\* Every step of a restart loop preserves the invariant.
LEMMA LoopIInv ==
    ASSUME IInv, NEW u \in Units, LoopStep(u)
    PROVE  IInv'
  <1> USE LifecycleConfig
  <1>1. loop[u] # "none"
    BY DEF LoopStep, LoopReturns, LoopTop, Spawn, SpawnFails, SetCmd, BecomeReady,
           AwaitCancelled, ExitCancelled, ExitFinal, ExitRestarts,
           ExitCrashLoop, LoopReaps, PauseOver, BackoffOver, SleepCancelled
  <1>2. status[u] \in States
    BY <1>1, KnownState
  <1>3. \A t \in States : /\ Moved(status[u], t) \in States
                          /\ Moved(status[u], t) = "failed" =>
                                status[u] = "failed" \/ t = "failed"
    BY <1>2, MovedFacts
  <1>4. /\ "starting" \in States /\ "ready" \in States /\ "running" \in States
        /\ "failed" \in States /\ "absent" \notin States
        /\ Moved("failed", "starting") = "starting"
    BY DEF States, Moved, Allowed
  <1>5. CASE LoopReturns(u)
    <2>1. TypeOK'
      BY <1>5 DEF LoopReturns, Goto, procVars, IInv, TypeOK, LoopStates, Generations
    <2>2. BootInv'
      BY <1>5, <1>1, BootKept DEF LoopReturns, Goto, procVars, IInv, TypeOK
    <2>3. CallInv'
      BY <1>5, CallFacts DEF LoopReturns, Goto, procVars, IInv, TypeOK, CallInv
    <2>4. Supervised' /\ OnceInv'
      BY <1>5 DEF LoopReturns, Goto, procVars, IInv, TypeOK, Supervised, OnceInv
    <2>5. FailedInv'
      BY <1>5 DEF LoopReturns, Goto, procVars, IInv, TypeOK, FailedInv, Supervised
    <2> QED BY <2>1, <2>2, <2>3, <2>4, <2>5 DEF IInv
  <1>6. CASE LoopTop(u)
    <2>1. TypeOK'
      BY <1>6, <1>3, <1>4 DEF LoopTop, Goto, procVars, Transition, IInv, TypeOK,
         LoopStates, Generations
    <2>2. BootInv'
      BY <1>6, <1>1, <1>3, <1>4, BootKept DEF LoopTop, Goto, procVars, Transition,
         IInv, TypeOK
    <2>3. CallInv'
      BY <1>6, CallFacts DEF LoopTop, Goto, procVars, Transition, IInv, TypeOK,
         CallInv
    <2>4. Supervised' /\ OnceInv'
      BY <1>6 DEF LoopTop, Goto, procVars, Transition, IInv, TypeOK, Supervised,
         OnceInv
    <2>5. FailedInv'
      BY Zenon, <1>6, <1>3, <1>4 DEF LoopTop, Goto, procVars, Transition, IInv, TypeOK,
         FailedInv, Supervised
    <2> QED BY <2>1, <2>2, <2>3, <2>4, <2>5 DEF IInv
  <1>7. CASE Spawn(u)
    <2>1. TypeOK'
      <3>1. launches[u] + 1 \in 0 .. MaxLaunches /\ launches[u] + 1 \in Generations
        BY <1>7 DEF Spawn, IInv, TypeOK, Generations
      <3>2. launches' \in [Units -> 0 .. MaxLaunches]
        BY <1>7, <3>1 DEF Spawn, IInv, TypeOK
      <3>3. alive' \in [Units -> SUBSET Generations] /\ unwaited' \in [Units -> SUBSET Generations]
        BY <1>7, <3>1 DEF Spawn, IInv, TypeOK
      <3>4. loop' \in [Units -> LoopStates] /\ notified' \in [Units -> BOOLEAN]
        BY <1>7 DEF Spawn, Goto, IInv, TypeOK, LoopStates
      <3> QED BY Zenon, <1>7, <3>2, <3>3, <3>4 DEF Spawn, IInv, TypeOK
    <2>2. BootInv'
      BY <1>7, <1>1, BootKept DEF Spawn, Goto, procVars, IInv, TypeOK
    <2>3. CallInv'
      BY <1>7, CallFacts DEF Spawn, Goto, procVars, IInv, TypeOK, CallInv
    <2>4. Supervised' /\ OnceInv'
      BY <1>7 DEF Spawn, Goto, procVars, IInv, TypeOK, Supervised, OnceInv
    <2>5. FailedInv'
      BY Zenon, <1>7 DEF Spawn, Goto, procVars, IInv, TypeOK, FailedInv, Supervised
    <2> QED BY <2>1, <2>2, <2>3, <2>4, <2>5 DEF IInv
  <1>8. CASE SpawnFails(u)
    <2>1. TypeOK'
      BY <1>8, <1>3, <1>4 DEF SpawnFails, Goto, procVars, Transition, IInv, TypeOK,
         LoopStates, Generations
    <2>2. BootInv'
      BY <1>8, <1>1, <1>3, <1>4, BootKept DEF SpawnFails, Goto, procVars,
         Transition, IInv, TypeOK
    <2>3. CallInv'
      BY <1>8, CallFacts DEF SpawnFails, Goto, procVars, Transition, IInv, TypeOK,
         CallInv
    <2>4. Supervised' /\ OnceInv'
      BY <1>8 DEF SpawnFails, Goto, procVars, Transition, IInv, TypeOK, Supervised,
         OnceInv
    <2>5. FailedInv'
      BY Zenon, <1>8, <1>3, <1>4
         DEF SpawnFails, Goto, procVars, Transition, IInv, TypeOK,
         FailedInv, Supervised
    <2> QED BY <2>1, <2>2, <2>3, <2>4, <2>5 DEF IInv
  <1>9. CASE SetCmd(u)
    <2>1. TypeOK'
      BY Zenon, <1>9 DEF SetCmd, Goto, procVars, IInv, TypeOK, LoopStates, Generations
    <2>2. BootInv'
      BY <1>9, <1>1, BootKept DEF SetCmd, Goto, procVars, IInv, TypeOK
    <2>3. CallInv'
      BY <1>9, CallFacts DEF SetCmd, Goto, procVars, IInv, TypeOK, CallInv
    <2>4. Supervised' /\ OnceInv'
      BY <1>9 DEF SetCmd, Goto, procVars, IInv, TypeOK, Supervised, OnceInv
    <2>5. FailedInv'
      BY <1>9 DEF SetCmd, Goto, procVars, IInv, TypeOK, FailedInv, Supervised
    <2> QED BY <2>1, <2>2, <2>3, <2>4, <2>5 DEF IInv
  <1>10. CASE BecomeReady(u)
    <2>0. /\ Moved(Moved(status[u], "ready"), "running") \in States
          /\ Moved(Moved(status[u], "ready"), "running") = "failed" => status[u] = "failed"
      BY <1>3, <1>4, MovedFacts
    <2>1. TypeOK'
      BY Zenon, <1>10, <2>0, <1>4 DEF BecomeReady, Goto, procVars, IInv, TypeOK,
         LoopStates, Generations
    <2>2. BootInv'
      BY <1>10, <1>1, <2>0, <1>4, BootKept DEF BecomeReady, Goto, procVars, IInv,
         TypeOK
    <2>3. CallInv'
      BY <1>10, CallFacts DEF BecomeReady, Goto, procVars, IInv, TypeOK, CallInv
    <2>4. Supervised' /\ OnceInv'
      BY <1>10 DEF BecomeReady, Goto, procVars, IInv, TypeOK, Supervised, OnceInv
    <2>5. FailedInv'
      BY <1>10, <2>0, <1>4 DEF BecomeReady, Goto, procVars, IInv, TypeOK, FailedInv,
         Supervised
    <2> QED BY <2>1, <2>2, <2>3, <2>4, <2>5 DEF IInv
  <1>11. CASE AwaitCancelled(u)
    <2>1. TypeOK'
      BY Zenon, <1>11 DEF AwaitCancelled, Goto, procVars, IInv, TypeOK, LoopStates,
         Generations
    <2>2. BootInv'
      BY <1>11, <1>1, BootKept DEF AwaitCancelled, Goto, procVars, IInv, TypeOK
    <2>3. CallInv'
      BY <1>11, CallFacts DEF AwaitCancelled, Goto, procVars, IInv, TypeOK, CallInv
    <2>4. Supervised' /\ OnceInv'
      BY <1>11 DEF AwaitCancelled, Goto, procVars, IInv, TypeOK, Supervised, OnceInv
    <2>5. FailedInv'
      BY <1>11 DEF AwaitCancelled, Goto, procVars, IInv, TypeOK, FailedInv, Supervised
    <2> QED BY <2>1, <2>2, <2>3, <2>4, <2>5 DEF IInv
  <1>12. CASE ExitCancelled(u)
    <2>1. TypeOK'
      BY <1>12 DEF ExitCancelled, Goto, procVars, LoopReaps, IInv, TypeOK,
         LoopStates, Generations
    <2>2. BootInv'
      BY <1>12, <1>1, BootKept DEF ExitCancelled, Goto, procVars, LoopReaps, IInv,
         TypeOK
    <2>3. CallInv'
      BY <1>12, CallFacts DEF ExitCancelled, Goto, procVars, LoopReaps, IInv,
         TypeOK, CallInv
    <2>4. Supervised' /\ OnceInv'
      BY <1>12 DEF ExitCancelled, Goto, procVars, LoopReaps, IInv, TypeOK,
         Supervised, OnceInv
    <2>5. FailedInv'
      BY Zenon, <1>12 DEF ExitCancelled, Goto, procVars, LoopReaps, IInv, TypeOK,
         FailedInv, Supervised
    <2> QED BY <2>1, <2>2, <2>3, <2>4, <2>5 DEF IInv
  <1>13. CASE ExitFinal(u)
    <2>1. TypeOK'
      BY Zenon, <1>13, <1>3, <1>4 DEF ExitFinal, Goto, procVars, LoopReaps, Transition,
         IInv, TypeOK, LoopStates, Generations
    <2>2. BootInv'
      BY <1>13, <1>1, <1>3, <1>4, BootKept DEF ExitFinal, Goto, procVars, LoopReaps,
         Transition, IInv, TypeOK
    <2>3. CallInv'
      BY <1>13, CallFacts DEF ExitFinal, Goto, procVars, LoopReaps, Transition,
         IInv, TypeOK, CallInv
    <2>4. Supervised' /\ OnceInv'
      BY <1>13 DEF ExitFinal, Goto, procVars, LoopReaps, Transition, IInv, TypeOK,
         Supervised, OnceInv
    <2>5. FailedInv'
      BY <1>13, <1>3, <1>4 DEF ExitFinal, Goto, procVars, LoopReaps, Transition,
         IInv, TypeOK, FailedInv, Supervised
    <2> QED BY <2>1, <2>2, <2>3, <2>4, <2>5 DEF IInv
  <1>14. CASE ExitRestarts(u)
    <2>1. TypeOK'
      BY Zenon, <1>14 DEF ExitRestarts, Goto, procVars, LoopReaps, ShouldRestart, IInv,
         TypeOK, LoopStates, Generations
    <2>2. BootInv'
      BY Zenon, <1>14, <1>1, BootKept DEF ExitRestarts, Goto, procVars, LoopReaps,
         ShouldRestart, IInv, TypeOK
    <2>3. CallInv'
      BY <1>14, CallFacts DEF ExitRestarts, Goto, procVars, LoopReaps,
         ShouldRestart, IInv, TypeOK, CallInv
    <2>4. Supervised' /\ OnceInv'
      BY <1>14 DEF ExitRestarts, Goto, procVars, LoopReaps, ShouldRestart, IInv,
         TypeOK, Supervised, OnceInv
    <2>5. FailedInv'
      BY Zenon, <1>14 DEF ExitRestarts, Goto, procVars, LoopReaps, ShouldRestart, IInv,
         TypeOK, FailedInv, Supervised
    <2> QED BY <2>1, <2>2, <2>3, <2>4, <2>5 DEF IInv
  <1>15. CASE ExitCrashLoop(u)
    <2>1. TypeOK'
      BY SMTT(30), <1>15, <1>3, <1>4 DEF ExitCrashLoop, Goto, procVars, LoopReaps,
         ShouldRestart, Transition, IInv, TypeOK, LoopStates, Generations
    <2>2. BootInv'
      BY <1>15, <1>1, <1>3, <1>4, BootKept DEF ExitCrashLoop, Goto, procVars,
         LoopReaps, ShouldRestart, Transition, IInv, TypeOK
    <2>3. CallInv'
      BY <1>15, CallFacts DEF ExitCrashLoop, Goto, procVars, LoopReaps,
         ShouldRestart, Transition, IInv, TypeOK, CallInv
    <2>4. Supervised' /\ OnceInv'
      BY <1>15 DEF ExitCrashLoop, Goto, procVars, LoopReaps, ShouldRestart,
         Transition, IInv, TypeOK, Supervised, OnceInv
    <2>5. FailedInv'
      BY <1>15, <1>3, <1>4 DEF ExitCrashLoop, Goto, procVars, LoopReaps,
         ShouldRestart, Transition, IInv, TypeOK, FailedInv, Supervised
    <2> QED BY <2>1, <2>2, <2>3, <2>4, <2>5 DEF IInv
  <1>16. CASE PauseOver(u)
    <2>1. TypeOK'
      BY Zenon, <1>16
         DEF PauseOver, Goto, procVars, IInv, TypeOK, LoopStates, Generations
    <2>2. BootInv'
      BY <1>16, <1>1, BootKept DEF PauseOver, Goto, procVars, IInv, TypeOK
    <2>3. CallInv'
      BY <1>16, CallFacts DEF PauseOver, Goto, procVars, IInv, TypeOK, CallInv
    <2>4. Supervised' /\ OnceInv'
      BY <1>16 DEF PauseOver, Goto, procVars, IInv, TypeOK, Supervised, OnceInv
    <2>5. FailedInv'
      BY Zenon, <1>16 DEF PauseOver, Goto, procVars, IInv, TypeOK, FailedInv, Supervised
    <2> QED BY <2>1, <2>2, <2>3, <2>4, <2>5 DEF IInv
  <1>17. CASE BackoffOver(u)
    <2>1. TypeOK'
      BY Zenon, <1>17
         DEF BackoffOver, Goto, procVars, IInv, TypeOK, LoopStates, Generations
    <2>2. BootInv'
      BY <1>17, <1>1, BootKept DEF BackoffOver, Goto, procVars, IInv, TypeOK
    <2>3. CallInv'
      BY <1>17, CallFacts DEF BackoffOver, Goto, procVars, IInv, TypeOK, CallInv
    <2>4. Supervised' /\ OnceInv'
      BY Zenon, <1>17 DEF BackoffOver, Goto, procVars, IInv, TypeOK, Supervised, OnceInv
    <2>5. FailedInv'
      BY Zenon, <1>17
         DEF BackoffOver, Goto, procVars, IInv, TypeOK, FailedInv, Supervised
    <2> QED BY <2>1, <2>2, <2>3, <2>4, <2>5 DEF IInv
  <1>18. CASE SleepCancelled(u)
    <2>1. TypeOK'
      BY Zenon, <1>18 DEF SleepCancelled, Goto, procVars, IInv, TypeOK, LoopStates,
         Generations
    <2>2. BootInv'
      BY Zenon, <1>18, <1>1, BootKept DEF SleepCancelled, Goto, procVars, IInv, TypeOK
    <2>3. CallInv'
      BY <1>18, CallFacts DEF SleepCancelled, Goto, procVars, IInv, TypeOK, CallInv
    <2>4. Supervised' /\ OnceInv'
      BY <1>18 DEF SleepCancelled, Goto, procVars, IInv, TypeOK, Supervised, OnceInv
    <2>5. FailedInv'
      BY Zenon, <1>18
         DEF SleepCancelled, Goto, procVars, IInv, TypeOK, FailedInv, Supervised
    <2> QED BY <2>1, <2>2, <2>3, <2>4, <2>5 DEF IInv
  <1> QED BY Zenon, <1>5, <1>6, <1>7, <1>8, <1>9, <1>10, <1>11, <1>12, <1>13, <1>14,
             <1>15,
     <1>16, <1>17, <1>18 DEF LoopStep

\* Every step of a stop() call preserves the invariant.
LEMMA StopIInv ==
    ASSUME IInv, NEW c \in Callers, StopStep(c)
    PROVE  IInv'
  <1> USE LifecycleConfig
  <1>1. /\ caller[c] \in Calls /\ caller[c] # NoCall
        /\ caller[c].u \in Units /\ caller[c].g \in 0 .. MaxLaunches
    BY CallFacts DEF IInv, StopStep, StopNoProcess, StopSignals, StopReaps,
                     StopFindsExited, StopExpires, StopFinishes
  <1>2. status[caller[c].u] \in States
    BY <1>1, KnownState DEF IInv, CallInv
  <1>3. CASE \/ StopNoProcess(c) \/ StopSignals(c) \/ StopFindsExited(c)
             \/ StopReaps(c) \/ StopExpires(c)
    <2>1. /\ UNCHANGED <<boot, request, status, loop, launches, cmd, notified, ctxKilled>>
          /\ \A u \in Units : alive'[u] \subseteq alive[u]
          /\ \A u \in Units : cancelled[u] => cancelled'[u]
          /\ alive' \in [Units -> SUBSET Generations]
          /\ unwaited' \in [Units -> SUBSET Generations]
          /\ cancelled' \in [Units -> BOOLEAN]
      <3>1. CASE StopNoProcess(c) \/ StopSignals(c)
        BY <3>1 DEF IInv, TypeOK, procVars, StopNoProcess, StopSignals
      <3>2. CASE StopFindsExited(c)
        BY <1>1, <3>2 DEF IInv, TypeOK, procVars, StopFindsExited
      <3>3. CASE StopReaps(c)
        BY <1>1, <3>3 DEF IInv, TypeOK, StopReaps
      <3>4. CASE StopExpires(c)
        BY Zenon, <1>1, <3>4 DEF IInv, TypeOK, StopExpires
      <3> QED BY Zenon, <1>3, <3>1, <3>2, <3>3, <3>4
    <2>3. /\ caller' \in [Callers -> Calls \cup {NoCall}]
          /\ caller'[c] # NoCall /\ caller'[c].u = caller[c].u
          /\ \A d \in Callers \ {c} : caller'[d] = caller[d]
      <3>1. CASE StopSignals(c)
        BY Zenon, <1>1, <3>1 DEF IInv, TypeOK, Calls, NoCall, StopSignals
      <3>2. CASE caller' = [caller EXCEPT ![c].pc = "finish"]
        BY Zenon, <1>1, <3>2 DEF IInv, TypeOK, Calls, NoCall
      <3> QED BY <1>3, <3>1, <3>2 DEF StopNoProcess, StopFindsExited, StopReaps,
                                      StopExpires
    <2>4. TypeOK'
      BY Zenon, <2>1, <2>3 DEF IInv, TypeOK
    <2>5. BootInv'
      BY Zenon, <1>1, <2>1, <2>3, BootKept DEF IInv, Callers
    <2>6. CallInv'
      BY Zenon, <1>1, <2>1, <2>3 DEF IInv, CallInv
    <2>7. Supervised' /\ FailedInv' /\ OnceInv'
      BY <2>1 DEF IInv, Supervised, FailedInv, OnceInv
    <2> QED BY SMTT(30), <2>4, <2>5, <2>6, <2>7 DEF IInv
  <1>4. CASE StopFinishes(c)
    <2>1. /\ Moved(status[caller[c].u], "inactive") \in States
          /\ Moved(status[caller[c].u], "inactive") = "failed" => status[caller[c].u] = "failed"
          /\ "absent" \notin States
      BY <1>2, MovedFacts DEF States
    <2>2. /\ caller' = [caller EXCEPT ![c] = NoCall]
          /\ status' = [status EXCEPT ![caller[c].u] = Moved(@, "inactive")]
          /\ UNCHANGED <<request, loop, launches, alive, unwaited, cmd, notified,
                         cancelled, ctxKilled>>
          /\ boot' = IF c = Main THEN [boot EXCEPT !.i = @ - 1] ELSE boot
      BY Zenon, <1>4 DEF StopFinishes, Transition, procVars
    <2>3. c = Main => boot.pc = "stopping" /\ boot.i > 0
      BY <1>1 DEF IInv, BootInv
    <2>4. /\ boot'.pc = boot.pc /\ boot'.i \in 0 .. Len(Plan) + 1
          /\ boot' \in [pc : {"launch", "gate", "idle", "stopping", "off"},
                        i : 0 .. Len(Plan) + 1]
          /\ boot.pc # "stopping" => boot' = boot
          /\ boot'.i <= boot.i
      <3>1. Len(Plan) \in Nat /\ boot.i \in 0 .. Len(Plan) + 1
        BY DEF IInv, TypeOK
      <3>2. CASE c = Main
        <4>1. boot' = [boot EXCEPT !.i = boot.i - 1]
          BY <2>2, <3>2
        <4>2. boot.i - 1 \in 0 .. Len(Plan) + 1 /\ boot.i - 1 <= boot.i
          BY <2>3, <3>1, <3>2
        <4>3. /\ boot'.pc = boot.pc /\ boot'.i = boot.i - 1
              /\ boot' \in [pc : {"launch", "gate", "idle", "stopping", "off"},
                            i : 0 .. Len(Plan) + 1]
          BY Zenon, <4>1, <4>2 DEF IInv, TypeOK
        <4> QED BY <2>3, <3>2, <4>2, <4>3
      <3>3. CASE c # Main
        BY <2>2, <3>1, <3>3 DEF IInv, TypeOK
      <3> QED BY <3>2, <3>3
    <2>5. TypeOK'
      BY Zenon, <1>1, <2>1, <2>2, <2>4 DEF IInv, TypeOK
    <2>6. BootInv'
      <3>1. CASE c = Main
        <4>1. caller'[Main] = NoCall
          BY <2>2, <3>1 DEF IInv, TypeOK
        <4>2. \A i \in 1 .. Len(Plan) :
                 loop'[Plan[i]] # "none" /\ status'[Plan[i]] # "absent"
          BY Zenon, <2>1, <2>2, <2>3, <3>1 DEF IInv, BootInv, Started, TypeOK, Units
        <4> QED BY <2>3, <2>4, <3>1, <4>1, <4>2 DEF IInv, BootInv, Started, TypeOK
      <3>2. CASE c # Main
        BY <1>1, <2>1, <2>2, <3>2, BootKept DEF IInv, TypeOK
      <3> QED BY <3>1, <3>2
    <2>7. CallInv'
      BY <1>1, <2>2 DEF IInv, CallInv, TypeOK
    <2>8. Supervised' /\ FailedInv' /\ OnceInv'
      BY <1>1, <2>1, <2>2 DEF IInv, Supervised, FailedInv, OnceInv, TypeOK
    <2> QED BY <2>5, <2>6, <2>7, <2>8 DEF IInv
  <1> QED BY <1>3, <1>4 DEF StopStep

\* Beginning a stop() call preserves the invariant.
LEMMA BeginIInv ==
    ASSUME IInv, NEW c \in Callers, NEW u \in Units,
           NEW kind \in {"stop", "restart", "shutdown"}, BeginStop(c, u, kind),
           c = Main => boot.pc = "stopping" /\ boot.i > 0
    PROVE  IInv'
  <1> USE LifecycleConfig
  <1>1. /\ loop[u] # "none" /\ status[u] \in States
    BY Zenon, KnownState DEF BeginStop
  <1>2. /\ Moved(status[u], "stopping") \in States
        /\ Moved(status[u], "stopping") = "failed" => status[u] = "failed"
        /\ "absent" \notin States
    BY Zenon, <1>1, MovedFacts DEF States
  <1>3. /\ status' = [status EXCEPT ![u] = Moved(@, "stopping")]
        /\ caller' = [caller EXCEPT ![c] = [pc |-> "signal", u |-> u, g |-> 0,
                                            kind |-> kind]]
        /\ UNCHANGED <<boot, request, loop, cancelled, launches, alive, unwaited,
                       cmd, notified, ctxKilled>>
    BY Zenon DEF BeginStop, Transition, procVars
  <1>4. TypeOK'
    BY <1>2, <1>3 DEF IInv, TypeOK, Calls
  <1>5. BootInv'
    <2>1. CASE c = Main
      BY <1>2, <1>3, <2>1 DEF IInv, TypeOK, BootInv, Started
    <2>2. CASE c # Main
      BY <1>2, <1>3, <2>2, BootKept DEF IInv, TypeOK
    <2> QED BY <2>1, <2>2
  <1>6. CallInv'
    BY Zenon, <1>1, <1>3 DEF IInv, TypeOK, CallInv
  <1>7. Supervised' /\ FailedInv' /\ OnceInv'
    BY <1>2, <1>3 DEF IInv, TypeOK, Supervised, FailedInv, OnceInv
  <1> QED BY <1>4, <1>5, <1>6, <1>7 DEF IInv

\* Every step of the main goroutine preserves the invariant.
LEMMA MainIInv ==
    ASSUME IInv, MainStep
    PROVE  IInv'
  <1> USE LifecycleConfig
  <1>1. /\ Len(Plan) \in Nat
        /\ boot.i \in 0 .. Len(Plan) + 1
        /\ \A i \in 1 .. Len(Plan) : Plan[i] \in Units
    <2>1. Len(Plan) \in Nat
      OBVIOUS
    <2>2. boot.i \in 0 .. Len(Plan) + 1
      BY DEF IInv, TypeOK
    <2>3. \A i \in 1 .. Len(Plan) : Plan[i] \in Units
      BY DEF Units
    <2> QED BY <2>1, <2>2, <2>3
  <1>2. CASE StartUnit
    <2> DEFINE u == Plan[boot.i]
    <2>1. /\ boot.pc = "launch" /\ boot.i \in 1 .. Len(Plan) /\ u \in Units
          /\ loop[u] = "none" /\ alive[u] = {}
          /\ Policy[u] = "no" => launches[u] = 0
      BY <1>1, <1>2 DEF StartUnit, IInv, BootInv, Started, Supervised, OnceInv
    <2>2. /\ status' = [status EXCEPT ![u] = "inactive"]
          /\ loop' = [loop EXCEPT ![u] = "top"]
          /\ UNCHANGED <<request, cancelled, caller, launches, alive, unwaited,
                         cmd, notified, ctxKilled>>
          /\ \/ boot' = [boot EXCEPT !.pc = "gate"]
             \/ boot' = [boot EXCEPT !.i = boot.i + 1]
      BY <1>2 DEF StartUnit, procVars
    <2>3. /\ boot' \in [pc : {"launch", "gate", "idle", "stopping", "off"},
                        i : 0 .. Len(Plan) + 1]
          /\ \/ boot'.pc = "gate" /\ boot'.i = boot.i
             \/ boot'.pc = "launch" /\ boot'.i = boot.i + 1
      <3>1. boot.i + 1 \in 0 .. Len(Plan) + 1
        BY <1>1, <2>1
      <3> QED BY Zenon, <2>1, <2>2, <3>1 DEF IInv, TypeOK
    <2>4. TypeOK'
      BY SMTT(30), <2>1, <2>2, <2>3 DEF IInv, TypeOK, LoopStates, States
    <2>5. BootInv'
      <3>1. \A i \in 1 .. Len(Plan) : Started(i)' <=> Started(i) \/ i = boot.i
        <4>1. CASE boot'.pc = "gate" /\ boot'.i = boot.i
          BY <2>1, <4>1 DEF Started
        <4>2. CASE boot'.pc = "launch" /\ boot'.i = boot.i + 1
          <5>1. \A i \in 1 .. Len(Plan) : i < boot.i + 1 <=> i < boot.i \/ i = boot.i
            BY <1>1, <2>1
          <5> QED BY <2>1, <4>2, <5>1 DEF Started
        <4> QED BY <2>3, <4>1, <4>2
      <3>2. \A i \in 1 .. Len(Plan) : i # boot.i => Plan[i] # u
        BY <2>1
      <3>3. \A i \in 1 .. Len(Plan) :
              /\ Started(i)' => loop'[Plan[i]] # "none" /\ status'[Plan[i]] # "absent"
              /\ ~Started(i)' => loop'[Plan[i]] = "none"
        BY SMTT(30), <1>1, <2>1, <2>2, <3>1, <3>2 DEF IInv, TypeOK, BootInv
      <3>4. caller'[Main] = NoCall
        BY <2>1, <2>2 DEF IInv, BootInv
      <3>5. /\ boot'.pc = "gate" => boot'.i \in 1 .. Len(Plan)
            /\ boot'.pc = "launch" => boot'.i \in 1 .. Len(Plan) + 1
            /\ boot'.pc # "stopping"
        <4>1. boot.i + 1 \in 1 .. Len(Plan) + 1
          BY <1>1, <2>1
        <4> QED BY <2>1, <2>3, <4>1
      <3> QED BY <3>3, <3>4, <3>5 DEF BootInv
    <2>6. CallInv'
      BY <2>1, <2>2, CallFacts DEF IInv, TypeOK, CallInv, NoCall
    <2>7. Supervised' /\ FailedInv' /\ OnceInv'
      BY <2>1, <2>2 DEF IInv, TypeOK, Supervised, FailedInv, OnceInv
    <2> QED BY <2>4, <2>5, <2>6, <2>7 DEF IInv
  <1>3. CASE GateReturns \/ AllStarted \/ ShutdownBegin
    <2>1. /\ UNCHANGED <<request, status, loop, caller, launches, alive, unwaited,
                         cmd, notified, ctxKilled>>
          /\ cancelled' \in [Units -> BOOLEAN]
          /\ \A u \in Units : cancelled[u] => cancelled'[u]
      BY Zenon, <1>3 DEF GateReturns, AllStarted, ShutdownBegin, procVars, IInv, TypeOK
    <2>2. /\ boot' \in [pc : {"launch", "gate", "idle", "stopping", "off"},
                        i : 0 .. Len(Plan) + 1]
          /\ boot'.pc = "launch" => boot'.i \in 1 .. Len(Plan) + 1
          /\ boot'.pc \in {"launch", "idle", "stopping"}
          /\ boot'.pc = "stopping" => boot'.i <= Len(Plan)
          /\ boot.pc # "stopping"
          /\ \A i \in 1 .. Len(Plan) : Started(i)' <=> Started(i)
      <3>1. CASE GateReturns
        <4>1. /\ boot.pc = "gate" /\ boot.i \in 1 .. Len(Plan)
              /\ boot' = [pc |-> "launch", i |-> boot.i + 1]
          BY <3>1 DEF GateReturns, IInv, BootInv
        <4>2. boot'.pc = "launch" /\ boot'.i = boot.i + 1
          BY <4>1
        <4>3. boot.i + 1 \in 1 .. Len(Plan) + 1
          BY <1>1, <4>1
        <4>4. \A i \in 1 .. Len(Plan) : Started(i)' <=> Started(i)
          BY <1>1, <4>1, <4>2 DEF Started
        <4> QED BY <4>1, <4>2, <4>3, <4>4
      <3>2. CASE AllStarted
        <4>1. /\ boot.pc = "launch" /\ boot.i > Len(Plan)
              /\ boot'.pc = "idle" /\ boot'.i = boot.i
              /\ boot' \in [pc : {"launch", "gate", "idle", "stopping", "off"},
                            i : 0 .. Len(Plan) + 1]
          BY Zenon, <3>2 DEF AllStarted, IInv, TypeOK
        <4> QED BY <1>1, <4>1 DEF Started
      <3>3. CASE ShutdownBegin
        <4>1. /\ boot.pc = "idle"
              /\ boot' = [pc |-> "stopping", i |-> Len(Plan)]
          BY <3>3 DEF ShutdownBegin
        <4>2. boot'.pc = "stopping" /\ boot'.i = Len(Plan)
          BY <4>1
        <4>3. \A i \in 1 .. Len(Plan) : Started(i)' <=> Started(i)
          BY Zenon, <4>1, <4>2 DEF Started
        <4> QED BY <1>1, <4>1, <4>2, <4>3
      <3> QED BY Zenon, <1>3, <3>1, <3>2, <3>3
    <2>3. TypeOK'
      BY Zenon, <2>1, <2>2 DEF IInv, TypeOK
    <2>4. BootInv'
      BY Zenon, <2>1, <2>2 DEF IInv, BootInv
    <2>5. CallInv' /\ Supervised' /\ FailedInv' /\ OnceInv'
      BY <2>1 DEF IInv, CallInv, Supervised, FailedInv, OnceInv
    <2> QED BY <2>3, <2>4, <2>5 DEF IInv
  <1>4. CASE PowerAction
    <2>1. /\ boot.pc = "stopping"
          /\ boot' = [boot EXCEPT !.pc = "off"]
          /\ alive' = [u \in Units |-> {}]
          /\ loop' = [u \in Units |-> "done"]
          /\ caller' = [c \in Callers |-> NoCall]
          /\ UNCHANGED <<request, status, launches, unwaited, cmd, notified,
                         cancelled, ctxKilled>>
      BY <1>4 DEF PowerAction
    <2>2. TypeOK'
      BY Zenon, <1>1, <2>1 DEF IInv, TypeOK, LoopStates
    <2>3. \A i \in 1 .. Len(Plan) : status[Plan[i]] # "absent"
      BY <2>1 DEF IInv, BootInv, Started
    <2>4. BootInv' /\ CallInv'
      BY <1>1, <2>1, <2>3 DEF IInv, TypeOK, BootInv, Started, CallInv, Callers
    <2>5. Supervised' /\ FailedInv' /\ OnceInv'
      BY <2>1 DEF IInv, TypeOK, Supervised, FailedInv, OnceInv
    <2> QED BY <2>2, <2>4, <2>5 DEF IInv
  <1>5. CASE ShutdownUnit
    <2>1. /\ Plan[boot.i] \in Units /\ boot.pc = "stopping" /\ boot.i > 0
          /\ BeginStop(Main, Plan[boot.i], "shutdown")
      BY <1>1, <1>5 DEF ShutdownUnit, IInv, BootInv
    <2> QED BY Zenon, <2>1, BeginIInv DEF Callers
  <1> QED BY <1>2, <1>3, <1>4, <1>5 DEF MainStep

\* Processes, signals and requests from outside preserve the invariant.
LEMMA OutsideIInv ==
    ASSUME IInv, Environment \/ \E u \in Units : CtxKills(u)
    PROVE  IInv'
  <1> USE LifecycleConfig
  <1>1. CASE \E mode \in {"normal", "poweroff"} : ShutdownRequest(mode)
    <2>1. request' \in {"normal", "poweroff"}
      BY <1>1 DEF ShutdownRequest
    <2>2. UNCHANGED <<boot, status, loop, cancelled, caller, launches, alive,
                      unwaited, cmd, notified, ctxKilled>>
      BY <1>1 DEF ShutdownRequest, procVars
    <2> QED BY <2>1, <2>2 DEF IInv, TypeOK, BootInv, Started, CallInv,
                              Supervised, FailedInv, OnceInv
  <1>2. CASE \/ \E u \in Units, g \in Generations : ProcessExits(u, g)
             \/ \E u \in Units : CtxKills(u) \/ Notifies(u)
    <2>1. /\ UNCHANGED <<boot, request, status, loop, launches, unwaited, cmd,
                         cancelled, caller>>
          /\ alive' \in [Units -> SUBSET Generations]
          /\ notified' \in [Units -> BOOLEAN]
          /\ ctxKilled' \subseteq Units
          /\ \A v \in Units : alive'[v] \subseteq alive[v]
      <3>1. CASE \E u \in Units, g \in Generations : ProcessExits(u, g)
        BY <3>1 DEF ProcessExits, IInv, TypeOK
      <3>2. CASE \E u \in Units : CtxKills(u)
        BY <3>2 DEF CtxKills, IInv, TypeOK
      <3>3. CASE \E u \in Units : Notifies(u)
        BY Zenon, <3>3 DEF Notifies, IInv, TypeOK
      <3> QED BY Zenon, <1>2, <3>1, <3>2, <3>3
    <2>2. TypeOK' /\ CallInv' /\ Supervised' /\ FailedInv' /\ OnceInv'
      BY SMTT(30), <2>1 DEF IInv, TypeOK, CallInv, Supervised, FailedInv, OnceInv
    <2>3. BootInv'
      BY Zenon, <2>1, BootKept
    <2> QED BY Zenon, <2>2, <2>3 DEF IInv
  <1>3. CASE \E c \in Ctl, u \in Units : StopService(c, u) \/ RestartService(c, u)
    <2>1. PICK c \in Ctl, u \in Units : StopService(c, u) \/ RestartService(c, u)
      BY <1>3
    <2>2. c \in Callers /\ c # Main
      BY DEF Callers
    <2> QED BY <2>1, <2>2, BeginIInv DEF StopService, RestartService
  <1> QED BY Zenon, <1>1, <1>2, <1>3 DEF Environment

\* The invariant is inductive.
LEMMA StepIInv == IInv /\ [Next]_vars => IInv'
  <1> SUFFICES ASSUME IInv, [Next]_vars PROVE IInv'
    OBVIOUS
  <1>1. CASE Next
    BY <1>1, LoopIInv, StopIInv, MainIInv, OutsideIInv DEF Next
  <1>2. CASE UNCHANGED vars
    <2>1. TypeOK' /\ CallInv' /\ Supervised' /\ FailedInv' /\ OnceInv'
      BY <1>2 DEF vars, IInv, TypeOK, CallInv, Supervised, FailedInv, OnceInv
    <2>2. BootInv'
      BY <1>2, BootKept DEF vars
    <2> QED BY Zenon, <2>1, <2>2 DEF IInv
  <1> QED BY <1>1, <1>2
-----------------------------------------------------------------------------
\* The manager's tables, run records and process sets keep their shape under
\* every interleaving of boot, loops, stop requests and shutdown.
THEOREM TypeCorrect == Spec => []TypeOK
  <1>1. IInv => TypeOK
    BY DEF IInv
  <1> QED BY <1>1, InitIInv, StepIInv, PTL DEF Spec

\* restartLoop and stop() never give a unit two processes or an unwatched
\* one, for any number of units and of concurrent nuractl connections.
THEOREM SupervisedCorrect == Spec => []Supervised
  <1>1. IInv => Supervised
    BY DEF IInv
  <1> QED BY <1>1, InitIInv, StepIInv, PTL DEF Spec

\* A unit that state.go reports as failed has no process.
THEOREM FailedCorrect == Spec => []FailedHasNoProcess
  <1>1. IInv => FailedHasNoProcess
    BY Zenon DEF IInv, FailedInv, FailedHasNoProcess
  <1> QED BY <1>1, InitIInv, StepIInv, PTL DEF Spec

\* restartLoop launches a unit with policy "no" at most once.
THEOREM OnceCorrect == Spec => []NoPolicyRunsOnce
  <1>1. IInv => NoPolicyRunsOnce
    BY DEF IInv, OnceInv, NoPolicyRunsOnce
  <1> QED BY <1>1, InitIInv, StepIInv, PTL DEF Spec

\* Whatever overlaps, the manager accounts for every process it launched.
THEOREM LaunchesCorrect == Spec => []LaunchesAccounted
  <1>1. Supervised /\ FailedHasNoProcess /\ NoPolicyRunsOnce => LaunchesAccounted
    BY Zenon DEF LaunchesAccounted
  <1> QED BY <1>1, SupervisedCorrect, FailedCorrect, OnceCorrect, PTL

-----------------------------------------------------------------------------
(*****************************************************************************)
(* Watchdog. The petter stops only when it is told to, and the supervisor    *)
(* tells it only after SoftTries failed checks. The invariant adds that a    *)
(* petter that runs keeps the device within its timeout.                     *)
(*****************************************************************************)

\* The types of the variables.
WatchdogType ==
    /\ device \in {"closed", "armed", "released", "reset"} /\ unpetted \in Nat
    /\ petter \in {"off", "on", "returned"} /\ petTimer \in Nat
    /\ supervisor \in {"off", "on", "returned"}
    /\ failures \in Nat /\ unhealthy \in Nat

\* The types of the Boolean ones.
WatchdogFlags ==
    /\ checkDue \in BOOLEAN
    /\ petClosed \in BOOLEAN /\ stopClosed \in BOOLEAN /\ contextDone \in BOOLEAN

\* A failed check takes a period of its own, and one that is due has had its period.
FailuresTakePeriods ==
    /\ failures <= unhealthy
    /\ checkDue => failures + 1 <= unhealthy

\* A petter that runs writes in time; one that returned was told to.
PettingStops ==
    /\ petter = "on" => unpetted + petTimer = PetInterval
    /\ petter = "off" => device = "closed" /\ supervisor = "off"
    /\ petter = "returned" => contextDone \/ stopClosed \/ petClosed
    /\ petClosed => failures >= SoftTries /\ supervisor = "returned"
    /\ device = "closed" => petter = "off"
    /\ device = "reset" => contextDone \/ petClosed

\* The inductive invariant of the two goroutines and the device.
WatchdogInv == WatchdogType /\ WatchdogFlags /\ FailuresTakePeriods /\ PettingStops

\* A step keeps the types, the count of the failures and the bound on the pets.
LEMMA WatchdogStep == WatchdogInv /\ [WatchdogNext]_watchdogVars => WatchdogInv'
  <1> SUFFICES ASSUME WatchdogInv, [WatchdogNext]_watchdogVars
               PROVE  WatchdogInv'
    OBVIOUS
  <1>f. WatchdogFlags'
    <2>1. \A x, y \in BOOLEAN : (x \/ y) \in BOOLEAN
      OBVIOUS
    <2>2. \A x, y : (x = y) \in BOOLEAN
      OBVIOUS
    <2>3. \A x, y : (x >= y) \in BOOLEAN
      OBVIOUS
    <2> QED
      BY <2>1, <2>2, <2>3, Zenon
      DEF WatchdogInv, WatchdogFlags, WatchdogNext, GoroutineStep, watchdogVars,
          StartWatchdog,
          PetterReturns, SupervisorReturns, Pet, CheckHealth, CancelContext, CloseStops, CloseDisarms, Period
  <1> USE WatchdogAssumption DEF WatchdogType, FailuresTakePeriods, PettingStops
  <1> SUFFICES WatchdogType' /\ FailuresTakePeriods' /\ PettingStops'
    BY Zenon, <1>f DEF WatchdogInv
  <1>0. WatchdogType /\ WatchdogFlags /\ FailuresTakePeriods /\ PettingStops
    BY Zenon DEF WatchdogInv
  <1>1. CASE StartWatchdog
    BY <1>0, <1>1 DEF StartWatchdog
  <1>2. CASE PetterReturns \/ SupervisorReturns
    BY <1>0, <1>2 DEF PetterReturns, SupervisorReturns
  <1>3. CASE Pet
    BY <1>0, <1>3 DEF Pet
  <1>4. ASSUME NEW healthy \in BOOLEAN, CheckHealth(healthy)
        PROVE  WatchdogType' /\ FailuresTakePeriods' /\ PettingStops'
    <2>1. /\ supervisor = "on" /\ checkDue /\ ~checkDue' /\ ~petClosed
          /\ UNCHANGED <<device, unpetted, petter, petTimer, stopClosed, contextDone>>
      BY Zenon, <1>0, <1>4 DEF CheckHealth
    <2>2. /\ failures' \in Nat /\ unhealthy' \in Nat /\ failures' <= unhealthy'
          /\ petClosed' = (failures' >= SoftTries)
      BY <1>0, <1>4, <2>1 DEF CheckHealth
    <2>3. supervisor' = IF failures' >= SoftTries THEN "returned" ELSE supervisor
      BY Zenon, <1>4 DEF CheckHealth
    <2> QED
      BY Zenon, <1>0, <2>1, <2>2, <2>3
  <1>5. CASE CancelContext \/ CloseStops \/ CloseDisarms
    BY <1>0, <1>5 DEF CancelContext, CloseStops, CloseDisarms
  <1>6. CASE Period
    <2>1. /\ device = "armed" /\ ~stopClosed /\ unpetted' = unpetted + 1
          /\ petter = "on" => petTimer # 0
          /\ UNCHANGED <<petter, supervisor, failures, petClosed, stopClosed, contextDone>>
      BY <1>6 DEF Period, Due
    <2>2. petTimer' = IF petter = "on" THEN petTimer - 1 ELSE petTimer
      BY <1>6 DEF Period
    <2>3. device' \in {"armed", "reset"} /\ (device' = "reset" => unpetted + 1 > HardwareTimeout)
      BY <1>6 DEF Period
    <2>4. /\ checkDue' => supervisor = "on"
          /\ unhealthy' = IF supervisor = "on" THEN unhealthy + 1 ELSE unhealthy
      BY Zenon, <1>6 DEF Period
    <2>5. FailuresTakePeriods' /\ unhealthy' \in Nat
      BY <1>0, <2>1, <2>4
    <2>6. device' = "reset" => petter # "on"
      BY <1>0, <2>1, <2>3
    <2>7. petTimer' \in Nat /\ (petter' = "on" => unpetted' + petTimer' = PetInterval)
      BY <1>0, <2>1, <2>2
    <2>8. petter = "off" \/ petter = "on" \/ petter = "returned"
      BY <1>0
    <2>9. device' = "reset" => contextDone \/ petClosed
      BY Zenon, <1>0, <2>1, <2>6, <2>8
    <2>10. device' # "closed" /\ petter # "off"
      BY <1>0, <2>1, <2>3
    <2>11. PettingStops'
      BY Zenon, <1>0, <2>1, <2>7, <2>9, <2>10
    <2>12. WatchdogType'
      <3>1. unpetted' \in Nat
        BY <1>0, <2>1
      <3>2. /\ failures' \in Nat /\ petter' \in {"off", "on", "returned"}
            /\ supervisor' \in {"off", "on", "returned"}
        BY Zenon, <1>0, <2>1
      <3> QED
        BY Zenon, <2>3, <2>5, <2>7, <3>1, <3>2
    <2> QED
      BY Zenon, <2>5, <2>11, <2>12
  <1>7. CASE UNCHANGED watchdogVars
    BY <1>0, <1>7 DEF watchdogVars
  <1> QED
    BY <1>1, <1>2, <1>3, <1>4, <1>5, <1>6, <1>7 DEF WatchdogNext, GoroutineStep

\* While the context lives the machine is reset only after SoftTries failed checks in
\* a row, whatever the pet interval, the timeout and the interleaving of the two
\* goroutines are.
THEOREM ResetsAreEarned == WatchdogSpec => []ResetOnlyAfterFailures
  <1>1. WatchdogInit => WatchdogInv
    <2> SUFFICES ASSUME WatchdogInit
                 PROVE  WatchdogInv
      OBVIOUS
    <2>1. WatchdogFlags
      BY Zenon DEF WatchdogInit, WatchdogFlags
    <2>2. ~petClosed /\ ~checkDue
      BY Zenon DEF WatchdogInit
    <2> QED
      BY <2>1, <2>2, WatchdogAssumption DEF WatchdogInit, WatchdogInv, WatchdogType,
         FailuresTakePeriods, PettingStops
  <1>2. WatchdogInv => ResetOnlyAfterFailures
    BY WatchdogAssumption
       DEF WatchdogInv, WatchdogType, FailuresTakePeriods, PettingStops,
       ResetOnlyAfterFailures
  <1> QED
    BY <1>1, <1>2, WatchdogStep, PTL DEF WatchdogSpec
=============================================================================
