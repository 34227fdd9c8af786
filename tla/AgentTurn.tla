----------------------------- MODULE AgentTurn -----------------------------
(***************************************************************************)
(* One turn of the agent: run_turn of nura-core/src/turn.rs, which calls a *)
(* provider, reads its event stream (ProviderStream), runs the tools the   *)
(* model asked for through ToolRegistry::call and goes round again, while  *)
(* the user may cancel and the deadline may pass at any moment.            *)
(*                                                                         *)
(* A message is its role, whether it has text, the ids of the tool calls   *)
(* it requests and the ids of the calls it answers.                        *)
(***************************************************************************)
EXTENDS ProviderStream

CONSTANTS MaxIterations,  \* TurnConfig.max_iterations
          ToolBudget,     \* TurnConfig.tool_budget
          MaxRetries,     \* MAX_RETRIES of the two remote providers
          MaxItems        \* bound on what one response sends before it ends

ASSUME AgentTurnAssumption ==
    /\ MaxIterations \in Nat /\ ToolBudget \in Nat
    /\ MaxRetries \in Nat /\ MaxItems \in Nat /\ NoId \notin CallIds

VARIABLES pc,          \* "loop", "send", "stream", "tools" or "done"
          kind,        \* the provider of the turn
          cancel,      \* the CancelToken is set
          late,        \* the turn's deadline has passed
          iterations,
          attempt,     \* of send_with_retry
          stream,      \* the provider's stream, and how much it has sent
          items,
          said,        \* what the server sent last in this call
          output,      \* AggregatedOutput of the current call
          messages,    \* the conversation history the caller passed in
          results,     \* ids answered so far in this round of tools
          spent,       \* ToolBudget.calls_made
          running,     \* tool threads: the waited-for one and abandoned ones
          outcome

turnVars == <<pc, kind, cancel, late, iterations, attempt, stream, items, said, output,
          messages, results, spent, running, outcome>>

NoOutcome == [res |-> "none", stop |-> "none", cancelled |-> FALSE, timed_out |-> FALSE]

Message(role, text, requests, answers) ==
    [role |-> role, text |-> text, requests |-> requests, answers |-> answers]

TurnInit ==
    /\ pc = "loop" /\ kind \in Kinds
    /\ cancel = FALSE /\ late = FALSE
    /\ iterations = 0 /\ attempt = 0 /\ items = 0 /\ said = "nothing"
    /\ stream = NewStream /\ output = NewOutput
    /\ messages = <<Message("user", TRUE, <<>>, <<>>)>>
    /\ results = <<>> /\ spent = 0 /\ running = 0
    /\ outcome = NoOutcome

-----------------------------------------------------------------------------
\* CancelToken::cancel, from another thread.
Cancel ==
    /\ ~cancel /\ pc # "done"
    /\ cancel' = TRUE
    /\ UNCHANGED <<pc, kind, late, iterations, attempt, stream, items, said, output,
                   messages, results, spent, running, outcome>>

DeadlinePasses ==
    /\ ~late /\ pc # "done"
    /\ late' = TRUE
    /\ UNCHANGED <<pc, kind, cancel, iterations, attempt, stream, items, said, output,
                   messages, results, spent, running, outcome>>

Finish(res, stop, cancelled, timed_out) ==
    /\ pc' = "done"
    /\ outcome' = [res |-> res, stop |-> stop, cancelled |-> cancelled, timed_out |-> timed_out]

\* The top of the loop: cancelled, out of time, out of iterations, or one more
\* call of the provider.
LoopEnds ==
    /\ pc = "loop"
    /\ \/ cancel /\ Finish("ok", "Cancel", TRUE, FALSE)
       \/ ~cancel /\ late /\ Finish("ok", "Error", FALSE, TRUE)
       \/ ~cancel /\ ~late /\ iterations >= MaxIterations /\ Finish("err", "none", FALSE, FALSE)
    /\ UNCHANGED <<kind, cancel, late, iterations, attempt, stream, items, said, output,
                   messages, results, spent, running>>

LoopCalls ==
    /\ pc = "loop" /\ ~cancel /\ ~late /\ iterations < MaxIterations
    /\ iterations' = iterations + 1
    /\ pc' = "send"
    /\ attempt' = 0 /\ items' = 0 /\ said' = "nothing"
    /\ stream' = NewStream /\ output' = NewOutput
    /\ UNCHANGED <<kind, cancel, late, messages, results, spent, running, outcome>>

-----------------------------------------------------------------------------
Unsent == <<kind, cancel, late, iterations, stream, items, said, output, messages, results,
            spent, running>>

\* Provider::complete: the request is accepted and the stream begins.
SendAccepted ==
    /\ pc = "send" /\ pc' = "stream"
    /\ UNCHANGED <<attempt, outcome>> /\ UNCHANGED Unsent

MutSendRetriesWraps ==
    /\ pc = "send" /\ kind # "local" /\ ~cancel
    /\ attempt' = IF attempt < MaxRetries THEN attempt + 1 ELSE 0
    /\ UNCHANGED <<pc, outcome>> /\ UNCHANGED Unsent

\* send_with_retry: rate limited or a server error, with a retry left.
SendRetries ==
    /\ pc = "send" /\ kind # "local" /\ ~cancel /\ attempt < MaxRetries
    /\ attempt' = attempt + 1
    /\ UNCHANGED <<pc, outcome>> /\ UNCHANGED Unsent

\* The request fails for good.  The stream is the one error; aggregate_sync
\* looks at the token before it looks at the error.
SendFails ==
    /\ pc = "send"
    /\ IF cancel THEN Finish("ok", "Cancel", TRUE, FALSE) ELSE Finish("err", "none", FALSE, FALSE)
    /\ UNCHANGED attempt /\ UNCHANGED Unsent

-----------------------------------------------------------------------------
Unread == <<kind, cancel, late, iterations, attempt, results, spent, running>>

\* run_turn after the stream: the final answer, or a round of tools.
AfterStream(out) ==
    LET calls == Assembled(out)
    IN IF out.stop # "ToolCall" \/ calls = <<>>
       THEN /\ messages' = IF out.text THEN Append(messages, Message("assistant", TRUE, <<>>, <<>>))
                           ELSE messages
            /\ Finish("ok", out.stop, FALSE, FALSE)
       ELSE /\ messages' = Append(messages, Message("assistant", out.text, calls, <<>>))
            /\ pc' = "tools"
            /\ UNCHANGED outcome

Final == {"eof", "broken", "error"} \union Ends

\* aggregate_sync takes one item off the stream, with the token not set.
StreamItem ==
    /\ pc = "stream" /\ ~cancel /\ ~stream.done
    /\ \E item \in Sent(kind) :
         LET ev == StreamStep(kind, stream, item)[1]
             out == handle_event(output, ev)
         IN /\ item.t \in Final \/ items < MaxItems
            /\ stream' = StreamStep(kind, stream, item)[2]
            /\ items' = IF item.t \in Final THEN items ELSE items + 1
            /\ output' = out /\ said' = item.t
            /\ CASE ev.t = "err" -> Finish("err", "none", FALSE, FALSE) /\ UNCHANGED messages
                 [] ev.t = "done" -> AfterStream(out)
                 [] OTHER -> UNCHANGED <<pc, outcome, messages>>
    /\ UNCHANGED Unread

\* The next event, whatever it is, is taken with the token set.
StreamCancelled ==
    /\ pc = "stream" /\ cancel /\ ~stream.done
    /\ Finish("ok", "Cancel", TRUE, FALSE)
    /\ UNCHANGED <<stream, items, said, output, messages>> /\ UNCHANGED Unread

\* The iterator ends without a Done event: LocalStream after its usage.
StreamExhausted ==
    /\ pc = "stream" /\ stream.done
    /\ AfterStream(output)
    /\ UNCHANGED <<stream, items, said, output>> /\ UNCHANGED Unread

-----------------------------------------------------------------------------
Unused == <<kind, cancel, late, iterations, attempt, stream, items, said, output, outcome>>

Calls == Assembled(output)

MutAnswerStopsRound ==
    LET all == Append(results, Calls[Len(results) + 1])
    IN IF Len(all) = Len(Calls) \/ spent >= ToolBudget
       THEN /\ messages' = Append(messages, Message("tool", FALSE, <<>>, all))
            /\ results' = <<>>
            /\ pc' = "loop"
       ELSE /\ results' = all
            /\ UNCHANGED <<messages, pc>>

\* execute_tools records the result of the current call, whatever it is; the
\* last one ends the round with one message of all the results.
Answer ==
    LET all == Append(results, Calls[Len(results) + 1])
    IN IF Len(all) = Len(Calls)
       THEN /\ messages' = Append(messages, Message("tool", FALSE, <<>>, all))
            /\ results' = <<>>
            /\ pc' = "loop"
       ELSE /\ results' = all
            /\ UNCHANGED <<messages, pc>>

\* ToolRegistry::call refuses: not allowlisted, arguments that do not fit the
\* schema, or a spent budget.
ToolRefused ==
    /\ pc = "tools"
    /\ Answer
    /\ UNCHANGED <<spent, running>> /\ UNCHANGED Unused

\* ToolBudget::consume, when a call is left.
Consume == spent < ToolBudget /\ spent' = spent + 1

\* The tool runs and its thread answers, or dies, within call_timeout.
ToolRuns ==
    /\ pc = "tools" /\ Consume
    /\ Answer
    /\ UNCHANGED running /\ UNCHANGED Unused

\* The tool runs past call_timeout: the call is answered with an error and its
\* thread runs on.
ToolTimesOut ==
    /\ pc = "tools" /\ Consume
    /\ running' = running + 1
    /\ Answer
    /\ UNCHANGED Unused

\* A thread that was given up finishes.
ThreadEnds ==
    /\ running > 0
    /\ running' = running - 1
    /\ UNCHANGED <<pc, kind, cancel, late, iterations, attempt, stream, items, said, output,
                   messages, results, spent, outcome>>

Done == pc = "done" /\ UNCHANGED turnVars

TurnNext ==
    \/ Cancel \/ DeadlinePasses
    \/ LoopEnds \/ LoopCalls
    \/ SendAccepted \/ SendRetries \/ SendFails
    \/ StreamItem \/ StreamCancelled \/ StreamExhausted
    \/ ToolRefused \/ ToolRuns \/ ToolTimesOut \/ ThreadEnds
    \/ Done

Turn ==
    \/ LoopEnds \/ LoopCalls
    \/ SendAccepted \/ SendRetries \/ SendFails
    \/ StreamItem \/ StreamCancelled \/ StreamExhausted
    \/ ToolRefused \/ ToolRuns \/ ToolTimesOut

TurnSpec == TurnInit /\ [][TurnNext]_turnVars

\* The thread that runs the turn is scheduled; every request, read and tool
\* call it waits for has a timeout.
TurnFairness == WF_turnVars(Turn)
FairTurnSpec == TurnSpec /\ TurnFairness

-----------------------------------------------------------------------------
Ids == CallIds \union {NoId}

\* Every variable has its type; tool threads given up are among the calls
\* that were paid for.
TurnTypeOK ==
    /\ pc \in {"loop", "send", "stream", "tools", "done"} /\ kind \in Kinds
    /\ cancel \in BOOLEAN /\ late \in BOOLEAN
    /\ iterations \in 0 .. MaxIterations /\ attempt \in 0 .. MaxRetries /\ items \in 0 .. MaxItems
    /\ stream.cur \in Ids /\ stream.opened \subseteq CallIds /\ stream.unnamed \subseteq stream.opened
    /\ \A i \in DOMAIN messages :
         /\ messages[i].role \in {"user", "assistant", "tool"}
         /\ Range(messages[i].requests) \subseteq CallIds
    /\ running \in 0 .. spent /\ spent \in 0 .. ToolBudget
    /\ outcome.res \in {"none", "ok", "err"} /\ (outcome.res = "none") = (pc # "done")

\* In the history every request of a tool call is answered, once and in the
\* order of the requests, by the message after it; only the round being
\* executed is still open.  This holds however the turn ends: cancelled, out
\* of time, out of budget or on a provider error.
RequestsAreAnswered ==
    \A i \in DOMAIN messages :
        /\ messages[i].requests # <<>> =>
             \/ i < Len(messages) /\ messages[i + 1].answers = messages[i].requests
             \/ i = Len(messages) /\ pc = "tools"
        /\ messages[i].role = "tool" => messages[i - 1].requests = messages[i].answers

\* The ids of one round of tool calls are distinct, so a result belongs to
\* one request.
IdsAreDistinct == \A i \in DOMAIN messages : IsInjective(messages[i].requests)

\* A turn that run_turn reports as cancelled, timed out or failed leaves no
\* assistant reply at the end of the history, whatever text had arrived.  (A
\* response cut off by its connection is not reported: EndOfTurnIsNatural.)
NoHalfAnswer ==
    pc = "done" /\ (outcome.res = "err" \/ outcome.cancelled \/ outcome.timed_out) =>
        messages[Len(messages)].role # "assistant"

\* The three together: what run_turn leaves of the conversation is a history that
\* a provider accepts, whichever way the turn ended.
HistoryIsSendable == RequestsAreAnswered /\ IdsAreDistinct /\ NoHalfAnswer

\* run_turn returns, whatever the server sends and the tools do.
TurnEnds == <>(pc = "done")

-----------------------------------------------------------------------------
\* "Tool calls within each iteration are executed sequentially": no tool is
\* started while another one's thread is running.
ToolsRunOneByOne == [][spent' > spent => running = 0]_turnVars

\* StopReason::EndOfTurn: "Model reached a natural end-of-turn."
EndOfTurnIsNatural == outcome.stop = "EndOfTurn" => said \in {"end_turn", "usage"}

\* TurnOutcome.timed_out: "True when the turn exceeded
\* TurnConfig::turn_timeout."
LateIsReported ==
    outcome.res = "ok" /\ late /\ ~outcome.cancelled => outcome.timed_out

\* The provider conformance suite: a stream must "eventually yield a Done
\* event" rather than just end.
StreamsEndWithDone == pc = "stream" => ~stream.done
=============================================================================
