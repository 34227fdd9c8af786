--------------------------- MODULE ProviderStream ---------------------------
(***************************************************************************)
(* The event streams of the agent's three providers: what AnthropicStream, *)
(* OpenAiStream and LocalStream make of one item read from the server, and *)
(* how stream.rs folds the events into the output of one model call.       *)
(*                                                                         *)
(* Text is present or absent, an argument chunk is counted, usage figures  *)
(* are left out.  A stream's state is whether it is done, the ids of the   *)
(* tool calls opened, those whose name is still to be sent and those with  *)
(* a chunk sent; cur is the block Anthropic is sending.                    *)
(***************************************************************************)
EXTENDS Naturals, Sequences, Functions

CONSTANTS CallIds   \* the ids servers give to tool calls

NoId == "none"

Kinds == {"anthropic", "openai", "local"}

Item(t, id) == [t |-> t, id |-> id]

Items(ts, ids) == {Item(t, id) : t \in ts, id \in ids}

\* What a server can send: a piece of text, a tool call and its arguments, a
\* usage report, the end with its reason, an error; or the connection closes
\* or breaks.  "skip" stands for comments, unknown events and, for the two
\* remote providers, lines that are not JSON; OpenAI's "data: [DONE]" is an
\* end_turn, and an empty first chunk of arguments is an args item.
Sent(kind) ==
    Items({"text", "usage", "skip", "error", "eof", "broken"}, {NoId}) \union
    CASE kind = "anthropic" ->
            Items({"args", "stop", "end_turn", "tool_use", "max_tokens"}, {NoId})
            \union Items({"start"}, CallIds)
      [] kind = "openai" ->
            Items({"end_turn", "tool_use", "max_tokens"}, {NoId})
            \union Items({"start", "args"}, CallIds)
      [] kind = "local" -> {}

\* The items after which the server has nothing more to say.
Ends == {"end_turn", "tool_use", "max_tokens"}

Event(t, id, named, reason) == [t |-> t, id |-> id, named |-> named, reason |-> reason]
Plain(t) == Event(t, NoId, FALSE, "")
DoneEvent(reason) == Event("done", NoId, FALSE, reason)

NewStream == [done |-> FALSE, cur |-> NoId, opened |-> {}, unnamed |-> {}, sent |-> {}]

Closes(s) == [s EXCEPT !.done = TRUE]

Reason(t) ==
    CASE t = "tool_use" -> "ToolCall" [] t = "max_tokens" -> "MaxTokens" [] OTHER -> "EndOfTurn"

Passes(ev, s) == <<ev, s>>

\* What the three iterators have in common: text, a line that is passed over,
\* the end of the connection and a failing read.
CommonStep(s, t) ==
    CASE t = "text" -> Passes(Plain("token"), s)
      [] t = "skip" -> Passes(Plain("none"), s)
      [] t = "eof" -> Passes(DoneEvent("EndOfTurn"), Closes(s))
      [] t = "broken" -> Passes(Plain("err"), Closes(s))

\* One argument chunk; a name not sent yet goes with it.
Delta(s, id) ==
    Passes(Event("delta", IF id \in s.opened THEN id ELSE NoId, id \in s.unnamed, ""),
           [s EXCEPT !.unnamed = @ \ {id}, !.sent = @ \union {id}])

\* LocalStream: the final line is a usage report and ends the stream; a line
\* that is not JSON is an error.
LocalStep(s, item) ==
    CASE item.t = "usage" -> Passes(Plain("usage"), Closes(s))
      [] item.t = "error" -> Passes(Plain("err"), s)
      [] OTHER -> CommonStep(s, item.t)

\* AnthropicStream and parse_event: a tool call is a block that is opened,
\* sends its arguments and is closed.
AnthropicStep(s, item) ==
    CASE item.t = "start" ->
            Passes(Plain("none"), [s EXCEPT !.cur = item.id, !.opened = @ \union {item.id},
                                            !.unnamed = {item.id}])
      [] item.t = "args" -> Delta(s, s.cur)
      [] item.t = "stop" -> Passes(Plain("none"), [s EXCEPT !.cur = NoId, !.unnamed = {}])
      [] item.t = "usage" -> Passes(Plain("usage"), s)
      [] item.t = "error" -> Passes(Plain("err"), Closes(s))
      [] item.t \in Ends -> Passes(DoneEvent(Reason(item.t)), Closes(s))
      [] OTHER -> CommonStep(s, item.t)

\* OpenAiStream: chunks of several tool calls may alternate; the name goes
\* with the first chunk of a call's arguments.
OpenAiStep(s, item) ==
    CASE item.t = "start" ->
            Passes(Plain("none"), [s EXCEPT !.opened = @ \union {item.id},
                                            !.unnamed = @ \union ({item.id} \ s.sent)])
      [] item.t = "args" -> Delta(s, item.id)
      [] item.t = "usage" -> Passes(Plain("usage"), s)
      [] item.t = "error" -> Passes(Plain("err"), Closes(s))
      [] item.t \in Ends -> Passes(DoneEvent(Reason(item.t)), Closes(s))
      [] OTHER -> CommonStep(s, item.t)

\* Iterator::next for one item: the event, "none" when the loop reads on, and
\* the stream's state after it.
StreamStep(kind, s, item) ==
    CASE kind = "anthropic" -> AnthropicStep(s, item)
      [] kind = "openai" -> OpenAiStep(s, item)
      [] kind = "local" -> LocalStep(s, item)

-----------------------------------------------------------------------------
\* AggregatedOutput while the stream is read, with its partial calls.
NewOutput == [text |-> FALSE, partial |-> <<>>, stop |-> "EndOfTurn"]

PartialAt(out, id) == {i \in DOMAIN out.partial : out.partial[i].id = id}

\* handle_event for the events that do not fail the call.
handle_event(out, ev) ==
    CASE ev.t = "token" -> [out EXCEPT !.text = TRUE]
      [] ev.t = "done" -> [out EXCEPT !.stop = ev.reason]
      [] ev.t = "delta" /\ PartialAt(out, ev.id) = {} ->
            [out EXCEPT !.partial = Append(@, [id |-> ev.id, named |-> ev.named, chunks |-> 1])]
      [] ev.t = "delta" /\ PartialAt(out, ev.id) # {} ->
            LET i == CHOOSE i \in PartialAt(out, ev.id) : TRUE
                p == out.partial[i]
                more == [id |-> p.id, named |-> p.named \/ ev.named, chunks |-> p.chunks + 1]
            IN [out EXCEPT !.partial = [out.partial EXCEPT ![i] = more]]
      [] OTHER -> out

\* The tool calls assembled when the stream has ended: those with an id and a
\* name, in the order in which they first appeared.
Assembled(out) ==
    LET calls[i \in 0 .. Len(out.partial)] ==
            IF i = 0 THEN <<>>
            ELSE IF out.partial[i].id # NoId /\ out.partial[i].named
            THEN Append(calls[i - 1], out.partial[i].id)
            ELSE calls[i - 1]
    IN calls[Len(out.partial)]
=============================================================================
