----------------------------- MODULE ToolRunner -----------------------------
(***************************************************************************)
(* Runner.Run of the tool sandbox (src/services/internal/toolsandbox) and  *)
(* the cgroup calls it makes (src/services/internal/cgroup), for runs of   *)
(* one tool name at the same time: the cgroup is named after the tool, so  *)
(* the runs share it.                                                      *)
(*                                                                         *)
(* A tool is a process that ends by itself, is killed by the kernel for    *)
(* want of memory, or by the context when it ends.  It may leave heirs:    *)
(* processes of its own, which hold the pipe of its output and stay in the *)
(* cgroup they were born in.  What the trampoline applies before the tool  *)
(* is system calls, and ends in a tool or in an exit.                      *)
(***************************************************************************)
EXTENDS Integers

CONSTANT ToolRun    \* calls of Run for the same tool name

VARIABLES
    at,         \* run -> where Run is
    proc,       \* run -> its tool: "none", "running", "exited", "signaled"
    inGroup,    \* run -> its tool is in the cgroup
    heirs,      \* run -> "none", or where they are: "outside", "inside" the cgroup
    ctxDone,    \* run -> its context has ended
    deferred,   \* run -> the Delete of its cgroup is deferred
    result,     \* run -> what Run has returned
    groupDir,   \* the directory of the cgroup exists
    left        \* history: why it may be left behind

toolVars == <<at, proc, inGroup, heirs, ctxDone, deferred, result, groupDir, left>>

ToolInit ==
    /\ at = [r \in ToolRun |-> "idle"]
    /\ proc = [r \in ToolRun |-> "none"]
    /\ inGroup = [r \in ToolRun |-> FALSE]
    /\ heirs = [r \in ToolRun |-> "none"]
    /\ ctxDone = [r \in ToolRun |-> FALSE]
    /\ deferred = [r \in ToolRun |-> FALSE]
    /\ result = [r \in ToolRun |-> "none"]
    /\ groupDir = FALSE
    /\ left = {}

Goto(r, place) == at' = [at EXCEPT ![r] = place]

-----------------------------------------------------------------------------
\* The grant has a memory or a CPU limit, or neither.  (An error before this point
\* has the effect of a start that fails.)
BeginRun(r) ==
    /\ at[r] = "idle"
    /\ Goto(r, "create") \/ Goto(r, "start")
    /\ UNCHANGED <<proc, inGroup, heirs, ctxDone, deferred, result, groupDir, left>>

\* Create: the directory and its limits, the directory alone, or nothing.  Only
\* the first defers the Delete.
CreateCgroup(r) ==
    /\ at[r] = "create"
    /\ \/ groupDir' = TRUE /\ deferred' = [deferred EXCEPT ![r] = TRUE] /\ UNCHANGED left
       \/ groupDir' = TRUE /\ left' = left \cup {"limits"} /\ UNCHANGED deferred
       \/ UNCHANGED <<groupDir, deferred, left>>
    /\ Goto(r, "start")
    /\ UNCHANGED <<proc, inGroup, heirs, ctxDone, result>>

\* cmd.Start, and once more without namespaces when it is not permitted.  A
\* command whose context has ended does not start.
StartTool(r) ==
    /\ at[r] = "start" /\ ~ctxDone[r]
    /\ proc' = [proc EXCEPT ![r] = "running"]
    /\ Goto(r, "add")
    /\ UNCHANGED <<inGroup, heirs, ctxDone, deferred, result, groupDir, left>>

StartFails(r) ==
    /\ at[r] = "start"
    /\ result' = [result EXCEPT ![r] = "error"]
    /\ Goto(r, "delete")
    /\ UNCHANGED <<proc, inGroup, heirs, ctxDone, deferred, groupDir, left>>

\* AddPid fails, unnoticed, without the directory or the process.
AddPid(r) ==
    /\ at[r] = "add"
    /\ inGroup' = [inGroup EXCEPT ![r] = groupDir /\ proc[r] = "running"]
    /\ Goto(r, "wait")
    /\ UNCHANGED <<proc, heirs, ctxDone, deferred, result, groupDir, left>>

\* cmd.Wait returns when the tool is dead and nobody holds its output.
WaitReturns(r) ==
    /\ at[r] = "wait"
    /\ proc[r] \in {"exited", "signaled"} /\ heirs[r] = "none"
    /\ Goto(r, "report")
    /\ UNCHANGED <<proc, inGroup, heirs, ctxDone, deferred, result, groupDir, left>>

Report(r) ==
    /\ at[r] = "report"
    /\ result' = [result EXCEPT ![r] =
                    IF ctxDone[r] \/ proc[r] = "signaled" THEN "killed" ELSE "ended"]
    /\ Goto(r, "delete")
    /\ UNCHANGED <<proc, inGroup, heirs, ctxDone, deferred, groupDir, left>>

\* The deferred calls, Delete and cancel.  A directory with processes in it cannot
\* be removed; the error is ignored.
Occupants == {r \in ToolRun : inGroup[r] \/ heirs[r] = "inside"}

\* A plausible slip: a run whose tool did not start returns without the Delete.
MutDelete(r) ==
    /\ at[r] = "delete"
    /\ groupDir' = (groupDir /\ (~deferred[r] \/ Occupants # {} \/ proc[r] = "none"))
    /\ left' = IF deferred[r] /\ \E o \in Occupants : heirs[o] = "inside" \/ ~deferred[o]
               THEN left \cup {"occupant"} ELSE left
    /\ Goto(r, "returned")
    /\ deferred' = [deferred EXCEPT ![r] = FALSE] /\ ctxDone' = [ctxDone EXCEPT ![r] = TRUE]
    /\ UNCHANGED <<proc, inGroup, heirs, result>>

Delete(r) ==
    /\ at[r] = "delete"
    /\ groupDir' = (groupDir /\ (~deferred[r] \/ Occupants # {}))
    /\ left' = IF deferred[r] /\ \E o \in Occupants : heirs[o] = "inside" \/ ~deferred[o]
               THEN left \cup {"occupant"} ELSE left
    /\ Goto(r, "returned")
    /\ deferred' = [deferred EXCEPT ![r] = FALSE] /\ ctxDone' = [ctxDone EXCEPT ![r] = TRUE]
    /\ UNCHANGED <<proc, inGroup, heirs, result>>

-----------------------------------------------------------------------------
\* The timeout of the grant, or the end of the caller's context, while Run still
\* has to look at it.
ContextEnds(r) ==
    /\ at[r] \in {"start", "add", "wait", "report"} /\ ~ctxDone[r]
    /\ ctxDone' = [ctxDone EXCEPT ![r] = TRUE]
    /\ UNCHANGED <<at, proc, inGroup, heirs, deferred, result, groupDir, left>>

ToolDies(r, how) ==
    /\ proc[r] = "running"
    /\ proc' = [proc EXCEPT ![r] = how]
    /\ inGroup' = [inGroup EXCEPT ![r] = FALSE]
    /\ UNCHANGED <<at, heirs, ctxDone, deferred, result, groupDir, left>>

\* A plausible slip: exec.Command instead of exec.CommandContext.
MutContextKills(r) == FALSE /\ UNCHANGED toolVars
ContextKills(r) == ctxDone[r] /\ ToolDies(r, "signaled")

ToolEnds(r) == ToolDies(r, "exited")

OomKills(r) == inGroup[r] /\ ToolDies(r, "signaled")

LeaveHeir(r) ==
    /\ proc[r] = "running" /\ heirs[r] = "none"
    /\ heirs' = [heirs EXCEPT ![r] = IF inGroup[r] THEN "inside" ELSE "outside"]
    /\ UNCHANGED <<at, proc, inGroup, ctxDone, deferred, result, groupDir, left>>

HeirEnds(r) ==
    /\ heirs[r] # "none"
    /\ heirs' = [heirs EXCEPT ![r] = "none"]
    /\ UNCHANGED <<at, proc, inGroup, ctxDone, deferred, result, groupDir, left>>

RunStep(r) ==
    \/ CreateCgroup(r) \/ StartTool(r) \/ StartFails(r) \/ AddPid(r) \/ WaitReturns(r)
    \/ Report(r) \/ Delete(r)

ToolNext ==
    \E r \in ToolRun :
        \/ BeginRun(r) \/ RunStep(r) \/ ContextEnds(r) \/ ContextKills(r)
        \/ ToolEnds(r) \/ OomKills(r) \/ LeaveHeir(r) \/ HeirEnds(r)

\* Run and the goroutine that waits for its context keep being scheduled;
\* nothing is assumed of the tools.
ToolFairness ==
    \A r \in ToolRun : WF_toolVars(RunStep(r)) /\ WF_toolVars(ContextKills(r))
ToolSpec == ToolInit /\ [][ToolNext]_toolVars /\ ToolFairness

-----------------------------------------------------------------------------
\* A tool that was killed is never reported as one that ended, whoever killed it
\* and whatever its context did meanwhile (runner_linux.go:132-144).
KilledIsReported ==
    \A r \in ToolRun : proc[r] = "signaled" => result[r] \in {"none", "killed"}

\* However the runs of one tool overlap, the cgroup is gone when all of them have
\* returned, unless the limits could not be written into it, or the last to try
\* met a process that no run of its own will clear away: an heir, or the tool of
\* a run without limits (runner_linux.go:78-94, manage_linux.go:86-91).
CgroupIsRemoved ==
    (\A r \in ToolRun : at[r] \in {"idle", "returned"}) /\ groupDir => left # {}

\* The two together: overlapping runs of a tool answer for its end and for what
\* they made for it.
RunIsAccounted == KilledIsReported /\ CgroupIsRemoved

\* The end of the context ends the run, unless heirs of the tool hold its output
\* (runner_linux.go:60, 124).
TimeoutEndsRun ==
    \A r \in ToolRun :
        (ctxDone[r] /\ at[r] # "returned") ~> (at[r] = "returned" \/ heirs[r] # "none")

\* grant.go:46: "Timeout is the wall-clock timeout for the tool."
TimeoutIsWallClock ==
    \A r \in ToolRun : (ctxDone[r] /\ at[r] # "returned") ~> at[r] = "returned"

\* grant.go:70: "Killed is true when the tool was terminated by the timeout or
\* OOM killer."
KilledWasTerminated ==
    \A r \in ToolRun : result[r] = "killed" => proc[r] = "signaled"
=============================================================================
