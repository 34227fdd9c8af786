---------------------------- MODULE AgentProofs -----------------------------
(*****************************************************************************)
(* What the agent's turns and the runs of its tools leave behind, for any    *)
(* number of messages, tool calls and runs.                                  *)
(*****************************************************************************)
EXTENDS AgentTurn, ToolRunner, WellFoundedInduction, TLAPS

-----------------------------------------------------------------------------
(*****************************************************************************)
(* AgentTurn. However a turn ends, run_turn leaves a history a provider      *)
(* accepts, for any ids the servers give to tool calls and any limits.       *)
(*                                                                           *)
(* The first part is about the calls of one response: events keep the        *)
(* partial calls apart by id, so the list that stream.rs assembles from      *)
(* them, a loop over the parts, has no id twice. The second has the          *)
(* invariant: while a round of tools is open the last message of the         *)
(* history is its request, and the results so far are its first ids;         *)
(* otherwise nothing is open, and until the turn ends the last message is    *)
(* no reply.                                                                 *)
(*****************************************************************************)

(* Sequences of any values, and induction over their positions.            *)

\* A sequence, whatever its elements are.
Listed(s) == s \in Seq({s[i] : i \in DOMAIN s})

\* A set of numbers that is not empty has a least one.
LEMMA LeastNumber ==
    ASSUME NEW T \in SUBSET Nat, T # {}
    PROVE  \E x \in T : \A y \in T : ~(y < x)
  <1>1. IsWellFoundedOn(OpToRel(<, Nat), Nat)
    BY Zenon, NatLessThanWellFounded
  <1>2. PICK x \in T : \A y \in T : ~(<<y, x>> \in OpToRel(<, Nat))
    BY Zenon, <1>1, WFMin
  <1>3. \A y \in T : ~(y < x)
    BY Zenon, <1>2 DEF OpToRel
  <1> QED
    BY <1>3

\* The positions of a sequence.
LEMMA ListedFacts ==
    ASSUME NEW s, Listed(s)
    PROVE  Len(s) \in Nat /\ DOMAIN s = 1 .. Len(s)
  BY DEF Listed

\* A function on the numbers from 1 to n is a sequence.
LEMMA ListedIs ==
    ASSUME NEW n \in Nat, NEW s, DOMAIN s = 1 .. n, s = [i \in 1 .. n |-> s[i]]
    PROVE  Listed(s) /\ Len(s) = n
  <1> DEFINE S == {s[i] : i \in DOMAIN s}
  <1>1. s \in [1 .. n -> S]
    OBVIOUS
  <1> HIDE DEF S
  <1>2. s \in Seq(S) /\ Len(s) = n
    BY <1>1
  <1> QED
    BY <1>2 DEF Listed, S

\* What Append does to a sequence.
LEMMA AppendListed ==
    ASSUME NEW s, Listed(s), NEW e
    PROVE  /\ Listed(Append(s, e)) /\ Len(Append(s, e)) = Len(s) + 1
           /\ \A i \in 1 .. Len(s) : Append(s, e)[i] = s[i]
           /\ Append(s, e)[Len(s) + 1] = e
  <1> DEFINE S == {s[i] : i \in DOMAIN s} \cup {e}
             t == Append(s, e)
  <1>1. s \in Seq(S)
    BY DEF Listed
  <1>2. e \in S
    OBVIOUS
  <1> HIDE DEF S
  <1>3. /\ t \in Seq(S) /\ Len(t) = Len(s) + 1 /\ Len(s) \in Nat
        /\ \A i \in 1 .. Len(s) : t[i] = s[i]
        /\ t[Len(s) + 1] = e
    BY <1>1, <1>2
  <1> HIDE DEF t
  <1>4. DOMAIN t = 1 .. Len(t) /\ t = [i \in 1 .. Len(t) |-> t[i]] /\ Len(t) \in Nat
    BY <1>3
  <1>5. Listed(t)
    BY <1>4, ListedIs
  <1> QED
    BY <1>3, <1>5 DEF t

-----------------------------------------------------------------------------
(* The tool calls of one response.                                         *)

\* The partial calls of a response have different ids.
Parts(p) ==
    /\ Listed(p)
    /\ \A i \in 1 .. Len(p) : p[i] = [id |-> p[i].id, named |-> p[i].named, chunks |-> p[i].chunks]
    /\ \A i, j \in 1 .. Len(p) : p[i].id = p[j].id => i = j

\* A sequence of ids without repetition.
IdList(c) == Listed(c) /\ IsInjective(c)

\* The step of the loop of Assembled.
Takes(p, f, i) ==
    IF i = 0 THEN <<>>
    ELSE IF p[i].id # NoId /\ p[i].named THEN Append(f[i - 1], p[i].id)
    ELSE f[i - 1]

\* f is what the loop over the first n parts computes.
Loops(p, f, k) == f = [i \in 0 .. k |-> Takes(p, f, i)]

\* The loop of Assembled has a result.
LEMMA LoopHasResult ==
    ASSUME NEW p, NEW n \in Nat
    PROVE  \E f : Loops(p, f, n)
  <1> DEFINE Bad == {k \in Nat : ~ \E f : Loops(p, f, k)}
  <1> SUFFICES ASSUME Bad # {}
               PROVE  FALSE
    OBVIOUS
  <1>1. PICK k \in Bad : \A y \in Bad : ~(y < k)
    BY Zenon, LeastNumber
  <1>2. CASE k = 0
    <2> DEFINE g == [i \in 0 .. 0 |-> <<>>]
    <2>1. \A i \in 0 .. 0 : Takes(p, g, i) = <<>>
      BY DEF Takes
    <2>2. g = [i \in 0 .. 0 |-> Takes(p, g, i)]
      BY <2>1
    <2> QED
      BY <1>1, <1>2, <2>2 DEF Loops
  <1>3. CASE k # 0
    <2>1. k - 1 \in Nat /\ k - 1 < k
      BY <1>1, <1>3
    <2>2. PICK f : Loops(p, f, k - 1)
      BY <1>1, <2>1
    <2> DEFINE g == [i \in 0 .. k |-> IF i <= k - 1 THEN f[i] ELSE Takes(p, f, k)]
    <2>3. ASSUME NEW i \in 0 .. k
          PROVE  g[i] = Takes(p, g, i)
      <3>1. CASE i <= k - 1
        <4>1. i \in 0 .. k - 1
          BY <1>1, <3>1
        <4>2. g[i] = Takes(p, f, i)
          BY <2>2, <3>1, <4>1 DEF Loops
        <4>3. i # 0 => g[i - 1] = f[i - 1]
          BY <1>1, <4>1
        <4> HIDE DEF g
        <4> QED
          BY <4>2, <4>3 DEF Takes
      <3>2. CASE i = k
        <4>1. g[i] = Takes(p, f, k)
          BY <1>1, <3>2
        <4>2. g[k - 1] = f[k - 1]
          BY <1>1, <2>1
        <4> HIDE DEF g
        <4> QED
          BY <1>3, <3>2, <4>1, <4>2 DEF Takes
      <3> QED
        BY <1>1, <3>1, <3>2
    <2>4. g = [i \in 0 .. k |-> Takes(p, g, i)]
      BY <2>3
    <2> HIDE DEF g
    <2> QED
      BY <1>1, <2>4 DEF Loops
  <1> QED
    BY <1>2, <1>3

\* The calls of a response have different ids.
LEMMA AssembledFacts ==
    ASSUME NEW out, Parts(out.partial)
    PROVE  IdList(Assembled(out))
  <1> DEFINE p == out.partial
             n == Len(p)
             f == CHOOSE f : Loops(p, f, n)
  <1>1. n \in Nat /\ DOMAIN p = 1 .. n
    BY ListedFacts DEF Parts
  <1>2. Assembled(out) = f[n]
    BY DEF Assembled, Loops, Takes
  <1>3. Loops(p, f, n)
    BY Zenon, <1>1, LoopHasResult
  <1> HIDE DEF f
  <1> DEFINE Good(k) == IdList(f[k]) /\ \A a \in 1 .. Len(f[k]) : \E j \in 1 .. k : f[k][a] = p[j].id
             Bad == {k \in 0 .. n : ~Good(k)}
  <1>4. ASSUME Bad # {}
        PROVE  FALSE
    <2>1. Bad \in SUBSET Nat
      BY <1>1
    <2>2. PICK k \in Bad : \A y \in Bad : ~(y < k)
      BY Zenon, <1>4, <2>1, LeastNumber
    <2>3. k \in 0 .. n /\ ~Good(k)
      BY Zenon, <2>2
    <2>4. f[k] = Takes(p, f, k)
      BY <1>3, <2>3 DEF Loops
    <2>5. CASE k = 0
      <3>1. f[k] = <<>>
        BY <2>4, <2>5 DEF Takes
      <3> QED
        BY <2>3, <3>1 DEF IdList, Listed, IsInjective
    <2>6. CASE k # 0
      <3> DEFINE c == f[k - 1]
                 x == p[k].id
      <3>1. k - 1 \in 0 .. n /\ k - 1 < k /\ k \in 1 .. n
        BY <1>1, <2>3, <2>6
      <3>2. Good(k - 1)
        BY <2>2, <3>1
      <3>3. \A j \in 1 .. k - 1 : j \in 1 .. k /\ j \in 1 .. n /\ j # k
        BY <1>1, <2>3
      <3>4. \A a \in 1 .. Len(c) : \E j \in 1 .. k - 1 : c[a] = p[j].id
        BY <3>2
      <3>5. CASE p[k].id # NoId /\ p[k].named
        <4>1. f[k] = Append(c, x)
          BY <2>4, <2>6, <3>5 DEF Takes
        <4>2. Listed(c) /\ IsInjective(c)
          BY <3>2 DEF IdList
        <4> HIDE DEF c, x
        <4>3. /\ Listed(f[k]) /\ Len(f[k]) = Len(c) + 1
              /\ \A i \in 1 .. Len(c) : f[k][i] = c[i]
              /\ f[k][Len(c) + 1] = x
          BY <4>1, <4>2, AppendListed
        <4>4. Len(c) \in Nat /\ DOMAIN c = 1 .. Len(c) /\ DOMAIN f[k] = 1 .. Len(c) + 1
          BY <4>2, <4>3, ListedFacts
        <4>5. \A i \in 1 .. Len(c) + 1 : i \in 1 .. Len(c) \/ i = Len(c) + 1
          BY <4>4
        <4>6. \A a \in 1 .. Len(c) : c[a] # x
          BY <3>1, <3>3, <3>4 DEF Parts, x
        <4>7. IsInjective(f[k])
          BY <4>2, <4>3, <4>4, <4>5, <4>6 DEF IsInjective
        <4>8. \A a \in 1 .. Len(c) + 1 : \E j \in 1 .. k : f[k][a] = p[j].id
          <5>1. k \in 1 .. k
            BY <3>1
          <5>2. f[k][Len(c) + 1] = p[k].id
            BY <4>3 DEF x
          <5> QED
            BY Zenon, <3>3, <3>4, <4>3, <4>5, <5>1, <5>2
        <4>9. Good(k)
          BY <4>3, <4>7, <4>8 DEF IdList
        <4> QED
          BY <2>3, <4>9
      <3>6. CASE ~(p[k].id # NoId /\ p[k].named)
        <4>1. f[k] = c
          BY <2>4, <2>6, <3>6 DEF Takes
        <4> QED
          BY <2>3, <3>2, <3>3, <4>1
      <3> QED
        BY <3>5, <3>6
    <2> QED
      BY <2>5, <2>6
  <1>5. n \in 0 .. n
    BY <1>1
  <1>6. Good(n)
    BY <1>4, <1>5
  <1> QED
    BY <1>2, <1>6

-----------------------------------------------------------------------------
(* The history.                                                            *)

\* The record of a response; handle_event adds a partial call only under a new id.
Gathers(out) ==
    /\ out = [text |-> out.text, partial |-> out.partial, stop |-> out.stop]
    /\ Parts(out.partial)

\* While no round of tools is open the last message has no requests and is no reply,
\* unless the turn is over; while one is, the last message requests the calls of the
\* response, and the first of them have results.
TurnInv ==
    /\ Gathers(output)
    /\ Listed(messages) /\ messages # <<>> /\ messages[1].role # "tool"
    /\ RequestsAreAnswered /\ IdsAreDistinct /\ NoHalfAnswer
    /\ pc \in {"loop", "send", "stream"} => messages[Len(messages)].role # "assistant"
    /\ pc # "tools" => results = <<>>
    /\ pc = "tools" =>
         /\ messages[Len(messages)].requests = Calls
         /\ Listed(results) /\ Len(results) < Len(Calls)
         /\ \A i \in 1 .. Len(results) : results[i] = Calls[i]

\* Events keep the partial calls apart.
LEMMA EventGathers ==
    ASSUME NEW out, Gathers(out), NEW ev
    PROVE  Gathers(handle_event(out, ev))
  <1> DEFINE p == out.partial
             n == Len(p)
             new == handle_event(out, ev)
             found == PartialAt(out, ev.id)
  <1>0. /\ Listed(p) /\ n \in Nat /\ DOMAIN p = 1 .. n
        /\ \A i \in 1 .. n : p[i] = [id |-> p[i].id, named |-> p[i].named, chunks |-> p[i].chunks]
        /\ \A i, j \in 1 .. n : p[i].id = p[j].id => i = j
    BY ListedFacts DEF Gathers, Parts
  <1>1. ASSUME new.partial = p, new = [text |-> new.text, partial |-> new.partial, stop |-> new.stop]
        PROVE  Gathers(new)
    BY <1>1 DEF Gathers
  <1>2. CASE ev.t = "token"
    <2>1. new = [out EXCEPT !.text = TRUE]
      BY <1>2 DEF handle_event
    <2>2. new.partial = p /\ new = [text |-> new.text, partial |-> new.partial, stop |-> new.stop]
      BY Zenon, <2>1 DEF Gathers
    <2> QED
      BY <1>1, <2>2
  <1>3. CASE ev.t = "done"
    <2>1. new = [out EXCEPT !.stop = ev.reason]
      BY <1>3 DEF handle_event
    <2>2. new.partial = p /\ new = [text |-> new.text, partial |-> new.partial, stop |-> new.stop]
      BY <2>1 DEF Gathers
    <2> QED
      BY <1>1, <2>2
  <1>4. CASE ev.t = "delta" /\ found = {}
    <2> DEFINE e == [id |-> ev.id, named |-> ev.named, chunks |-> 1]
               q == Append(p, e)
    <2>1. new = [out EXCEPT !.partial = q]
      BY <1>4 DEF handle_event
    <2>2. e.id = ev.id /\ e = [id |-> e.id, named |-> e.named, chunks |-> e.chunks]
      OBVIOUS
    <2>3. \A i \in 1 .. n : p[i].id # ev.id
      BY <1>0, <1>4 DEF PartialAt
    <2> HIDE DEF e
    <2>4. Listed(q) /\ Len(q) = n + 1 /\ (\A i \in 1 .. n : q[i] = p[i]) /\ q[n + 1] = e
      BY <1>0, AppendListed
    <2>5. \A i \in 1 .. n + 1 : i \in 1 .. n \/ i = n + 1
      BY <1>0
    <2> HIDE DEF q
    <2>6. Parts(q)
      <3>1. \A i \in 1 .. n + 1 : q[i] = [id |-> q[i].id, named |-> q[i].named, chunks |-> q[i].chunks]
        BY <1>0, <2>2, <2>4, <2>5
      <3>2. \A i, j \in 1 .. n + 1 : q[i].id = q[j].id => i = j
        BY <1>0, <2>2, <2>3, <2>4, <2>5
      <3> QED
        BY <2>4, <3>1, <3>2 DEF Parts
    <2>7. new.partial = q /\ new = [text |-> new.text, partial |-> new.partial, stop |-> new.stop]
      BY <2>1 DEF Gathers
    <2> QED
      BY <2>6, <2>7 DEF Gathers
  <1>5. CASE ev.t = "delta" /\ found # {}
    <2> DEFINE k == CHOOSE i \in found : TRUE
               c == [id |-> p[k].id, named |-> p[k].named \/ ev.named, chunks |-> p[k].chunks + 1]
               q == [p EXCEPT ![k] = c]
    <2>1. new = [out EXCEPT !.partial = q]
      BY <1>5 DEF handle_event
    <2>2. k \in 1 .. n
      BY <1>0, <1>5 DEF PartialAt
    <2> HIDE DEF k
    <2>3. c.id = p[k].id /\ c = [id |-> c.id, named |-> c.named, chunks |-> c.chunks]
      OBVIOUS
    <2> HIDE DEF c
    <2>4. /\ DOMAIN q = 1 .. n /\ q = [i \in 1 .. n |-> q[i]]
          /\ \A i \in 1 .. n : q[i] = IF i = k THEN c ELSE p[i]
      BY <1>0, <2>2
    <2> HIDE DEF q
    <2>5. Listed(q) /\ Len(q) = n
      BY <1>0, <2>4, ListedIs
    <2>6. \A i \in 1 .. n :
            q[i].id = p[i].id /\ q[i] = [id |-> q[i].id, named |-> q[i].named, chunks |-> q[i].chunks]
      BY Zenon, <1>0, <2>3, <2>4
    <2>7. Parts(q)
      BY Zenon, <1>0, <2>5, <2>6 DEF Parts
    <2>8. new.partial = q /\ new = [text |-> new.text, partial |-> new.partial, stop |-> new.stop]
      BY <2>1 DEF Gathers
    <2> QED
      BY <2>7, <2>8 DEF Gathers
  <1>6. CASE ev.t \notin {"token", "done", "delta"}
    <2>1. new = out
      BY <1>6 DEF handle_event
    <2> QED
      BY <2>1
  <1> QED
    BY <1>2, <1>3, <1>4, <1>5, <1>6

\* The empty list of ids, and the output a call of the provider starts from.
LEMMA NoIds == Listed(<<>>) /\ Len(<<>>) = 0 /\ IsInjective(<<>>)
  BY DEF Listed, IsInjective

\* A call of the provider starts with no partial calls.
LEMMA NewGathers == Gathers(NewOutput)
  BY NoIds DEF Gathers, NewOutput, Parts

\* Lists of one length with the same members are the same.
LEMMA SameList ==
    ASSUME NEW s, NEW t, Listed(s), Listed(t), Len(s) = Len(t),
           \A i \in 1 .. Len(s) : s[i] = t[i]
    PROVE  s = t
  BY DEF Listed

\* A message at the end of the history: one that answers an open round, or one that
\* may open a round when none is open.
LEMMA HistoryGrows ==
    ASSUME Listed(messages), messages # <<>>, messages[1].role # "tool",
           RequestsAreAnswered, IdsAreDistinct,
           NEW m, messages' = Append(messages, m), IsInjective(m.requests),
           pc = "tools" \/ m.role = "tool" => m.answers = messages[Len(messages)].requests,
           m.requests # <<>> => pc' = "tools"
    PROVE  /\ Listed(messages') /\ messages' # <<>> /\ messages'[1].role # "tool"
           /\ messages'[Len(messages')] = m
           /\ RequestsAreAnswered' /\ IdsAreDistinct'
  <1> DEFINE n == Len(messages)
  <1>1. n \in Nat /\ DOMAIN messages = 1 .. n
    BY ListedFacts
  <1>2. /\ Listed(messages') /\ Len(messages') = n + 1 /\ messages'[n + 1] = m
        /\ \A i \in 1 .. n : messages'[i] = messages[i]
    BY AppendListed
  <1>3. DOMAIN messages' = 1 .. n + 1
    BY <1>2, ListedFacts
  <1>4. /\ \A i \in 1 .. n + 1 : i \in 1 .. n \/ i = n + 1
        /\ \A i \in 1 .. n : i < n \/ i = n
    <2> HIDE DEF n
    <2> QED
      BY <1>1
  <1>5. messages'[Len(messages')] = m /\ messages[Len(messages)] = messages[n]
    BY <1>2
  <1>6. n # 0 /\ messages' # <<>>
    BY <1>1, <1>2 DEF Listed
  <1>9. messages'[1].role # "tool"
    BY SMTT(30), <1>1, <1>2, <1>6
  <1>7. IdsAreDistinct'
    BY Zenon, <1>1, <1>2, <1>3, <1>4 DEF IdsAreDistinct
  <1>8. RequestsAreAnswered'
    <2> SUFFICES ASSUME NEW i \in 1 .. n + 1
                 PROVE  /\ messages'[i].requests # <<>> =>
                              \/ i < n + 1 /\ messages'[i + 1].answers = messages'[i].requests
                              \/ i = n + 1 /\ pc' = "tools"
                        /\ messages'[i].role = "tool" => messages'[i - 1].requests = messages'[i].answers
      BY Zenon, <1>2, <1>3 DEF RequestsAreAnswered
    <2>1. CASE i = n + 1
      <3>1. i - 1 = n /\ n \in 1 .. n
        BY <1>1, <1>6, <2>1
      <3> QED
        BY <1>2, <1>5, <2>1, <3>1
    <2>2. CASE i \in 1 .. n
      <3>1. messages'[i] = messages[i] /\ i < n + 1
        BY <1>1, <1>2, <2>2
      <3>2. ASSUME messages[i].requests # <<>>
            PROVE  messages'[i + 1].answers = messages[i].requests
        <4>1. CASE i < n
          <5>1. i + 1 \in 1 .. n
            BY <1>1, <2>2, <4>1
          <5>2. messages[i + 1].answers = messages[i].requests
            BY <1>1, <2>2, <3>2, <4>1 DEF RequestsAreAnswered
          <5> QED
            BY <1>2, <5>1, <5>2
        <4>2. CASE i = n
          <5>1. pc = "tools"
            BY <1>1, <2>2, <3>2, <4>2 DEF RequestsAreAnswered
          <5> QED
            BY <1>2, <1>5, <4>2, <5>1
        <4> QED
          BY <1>4, <2>2, <4>1, <4>2
      <3>3. ASSUME messages[i].role = "tool"
            PROVE  messages'[i - 1].requests = messages[i].answers
        <4>1. messages[i - 1].requests = messages[i].answers
          BY <1>1, <2>2, <3>3 DEF RequestsAreAnswered
        <4>2. CASE i # 1
          <5>1. i - 1 \in 1 .. n
            BY <1>1, <2>2, <4>2
          <5> QED
            BY <1>2, <4>1, <5>1
        <4> QED
          BY <2>2, <3>3, <4>1, <4>2
      <3> QED
        BY <3>1, <3>2, <3>3
    <2> QED
      BY <1>4, <2>1, <2>2
  <1> QED
    BY <1>2, <1>5, <1>6, <1>7, <1>8, <1>9

\* The turn starts with the user's message.
LEMMA TurnInitSafe == TurnInit => TurnInv
  <1> SUFFICES ASSUME TurnInit PROVE TurnInv
    OBVIOUS
  <1> DEFINE m == Message("user", TRUE, <<>>, <<>>)
  <1>1. /\ messages = <<m>> /\ results = <<>> /\ pc = "loop" /\ output = NewOutput
    BY DEF TurnInit
  <1>2. m.role = "user" /\ m.requests = <<>>
    BY DEF Message
  <1> HIDE DEF m
  <1>3. Len(messages) = 1 /\ DOMAIN messages = {1} /\ messages[1] = m /\ messages # <<>>
    BY <1>1
  <1>4. Listed(messages)
    BY <1>1 DEF Listed
  <1>5. messages[Len(messages)] = m
    BY <1>3
  <1>6. Gathers(output)
    BY <1>1, NewGathers
  <1>7. IsInjective(<<>>)
    BY NoIds
  <1>8. RequestsAreAnswered /\ IdsAreDistinct /\ NoHalfAnswer
    BY <1>1, <1>2, <1>3, <1>7 DEF RequestsAreAnswered, IdsAreDistinct, NoHalfAnswer
  <1> QED
    BY <1>1, <1>2, <1>3, <1>4, <1>5, <1>6, <1>8 DEF TurnInv

\* A step that leaves the history, the output and the results alone.
LEMMA QuietStep ==
    ASSUME TurnInv, UNCHANGED <<messages, results>>, Gathers(output'),
           pc = "tools" <=> pc' = "tools", pc = "tools" => output' = output,
           pc' \in {"loop", "send", "stream"} => pc \in {"loop", "send", "stream"},
           pc' = "done" => \/ pc \in {"loop", "send", "stream"}
                           \/ pc = "done" /\ outcome' = outcome
    PROVE  TurnInv'
  <1>1. RequestsAreAnswered' /\ IdsAreDistinct'
    BY DEF TurnInv, RequestsAreAnswered, IdsAreDistinct
  <1>2. NoHalfAnswer'
    BY DEF TurnInv, NoHalfAnswer
  <1>3. pc' = "tools" => Calls' = Calls
    BY DEF Calls
  <1> QED
    BY <1>1, <1>2, <1>3 DEF TurnInv

\* run_turn after the stream: an answer ends the turn, a round of tool calls opens.
LEMMA AfterStreamStep ==
    ASSUME TurnInv, pc = "stream", results' = results,
           NEW out, Gathers(out), output' = out, AfterStream(out)
    PROVE  TurnInv'
  <1> DEFINE calls == Assembled(out)
  <1>0. Listed(messages) /\ messages # <<>> /\ messages[1].role # "tool"
        /\ RequestsAreAnswered /\ IdsAreDistinct /\ results = <<>>
    BY DEF TurnInv
  <1>1. IdList(calls)
    BY AssembledFacts DEF Gathers
  <1>2. Calls' = calls
    BY DEF Calls
  <1>3. CASE out.stop # "ToolCall" \/ calls = <<>>
    <2>1. /\ pc' = "done"
          /\ outcome' = [res |-> "ok", stop |-> out.stop, cancelled |-> FALSE, timed_out |-> FALSE]
      BY Zenon, <1>3 DEF AfterStream, Finish
    <2>2. NoHalfAnswer'
      BY <2>1 DEF NoHalfAnswer
    <2>3. CASE out.text
      <3> DEFINE m == Message("assistant", TRUE, <<>>, <<>>)
      <3>1. messages' = Append(messages, m)
        BY Zenon, <1>3, <2>3 DEF AfterStream
      <3>2. m.role = "assistant" /\ m.requests = <<>> /\ IsInjective(m.requests)
        BY NoIds DEF Message
      <3> HIDE DEF m
      <3>3. /\ Listed(messages') /\ messages' # <<>> /\ messages'[1].role # "tool"
            /\ RequestsAreAnswered' /\ IdsAreDistinct'
        BY <1>0, <3>1, <3>2, HistoryGrows
      <3> QED
        BY <1>0, <2>1, <2>2, <3>3 DEF TurnInv
    <2>4. CASE ~out.text
      <3>1. messages' = messages
        BY Zenon, <1>3, <2>4 DEF AfterStream
      <3> QED
        BY <1>0, <2>1, <3>1, QuietStep
    <2> QED
      BY <2>3, <2>4
  <1>4. CASE ~(out.stop # "ToolCall" \/ calls = <<>>)
    <2> DEFINE m == Message("assistant", out.text, calls, <<>>)
    <2>1. messages' = Append(messages, m) /\ pc' = "tools"
      BY <1>4 DEF AfterStream
    <2>2. m.role = "assistant" /\ m.requests = calls /\ IsInjective(m.requests)
      BY <1>1 DEF Message, IdList
    <2> HIDE DEF m
    <2>3. /\ Listed(messages') /\ messages' # <<>> /\ messages'[1].role # "tool"
          /\ messages'[Len(messages')] = m /\ RequestsAreAnswered' /\ IdsAreDistinct'
      BY <1>0, <2>1, <2>2, HistoryGrows
    <2>4. Listed(results') /\ Len(results') = 0
      BY <1>0, NoIds
    <2>5. Len(results') < Len(calls)
      BY <1>1, <1>4, <2>4, ListedFacts DEF IdList, Listed
    <2>6. \A i \in 1 .. Len(results') : results'[i] = calls[i]
      BY <2>4
    <2>7. NoHalfAnswer'
      BY <2>1 DEF NoHalfAnswer
    <2> QED
      BY <1>2, <2>1, <2>2, <2>3, <2>4, <2>5, <2>6, <2>7 DEF TurnInv
  <1> QED
    BY <1>3, <1>4

\* execute_tools answers one call, and with the last one closes the round.
LEMMA AnswerStep ==
    ASSUME TurnInv, pc = "tools", output' = output, Answer
    PROVE  TurnInv'
  <1> DEFINE n == Len(results)
             all == Append(results, Calls[n + 1])
  <1>0. /\ Gathers(output) /\ Listed(messages) /\ messages # <<>> /\ messages[1].role # "tool"
        /\ RequestsAreAnswered /\ IdsAreDistinct /\ messages[Len(messages)].requests = Calls
        /\ Listed(results) /\ n < Len(Calls) /\ \A i \in 1 .. n : results[i] = Calls[i]
    BY DEF TurnInv
  <1>1. IdList(Calls) /\ Listed(Calls)
    BY <1>0, AssembledFacts DEF Gathers, Calls, IdList
  <1>2. n \in Nat /\ Len(Calls) \in Nat
    BY <1>0, <1>1, ListedFacts
  <1>3. /\ Listed(all) /\ Len(all) = n + 1 /\ all[n + 1] = Calls[n + 1]
        /\ \A i \in 1 .. n : all[i] = results[i]
    BY <1>0, AppendListed
  <1>4. \A i \in 1 .. n + 1 : all[i] = Calls[i]
    <2> HIDE DEF n, all
    <2>1. \A i \in 1 .. n + 1 : i \in 1 .. n \/ i = n + 1
      BY <1>2
    <2> QED
      BY <1>0, <1>3, <2>1 DEF n
  <1>5. Calls' = Calls
    BY Zenon DEF Calls
  <1>6. CASE Len(all) = Len(Calls)
    <2> DEFINE m == Message("tool", FALSE, <<>>, all)
    <2>1. messages' = Append(messages, m) /\ results' = <<>> /\ pc' = "loop"
      BY Zenon, <1>6 DEF Answer
    <2>2. all = Calls
      BY Zenon, <1>1, <1>3, <1>4, <1>6, SameList
    <2>3. m.role = "tool" /\ m.requests = <<>> /\ m.answers = all /\ IsInjective(m.requests)
      BY NoIds DEF Message
    <2> HIDE DEF m, all
    <2>4. /\ Listed(messages') /\ messages' # <<>> /\ messages'[1].role # "tool"
          /\ messages'[Len(messages')] = m /\ RequestsAreAnswered' /\ IdsAreDistinct'
      BY <1>0, <2>1, <2>2, <2>3, HistoryGrows
    <2>5. NoHalfAnswer'
      BY Zenon, <2>1 DEF NoHalfAnswer
    <2> QED
      BY SMTT(30), <1>0, <2>1, <2>3, <2>4, <2>5 DEF TurnInv
  <1>7. CASE Len(all) # Len(Calls)
    <2>1. messages' = messages /\ results' = all /\ pc' = pc
      BY Zenon, <1>7 DEF Answer
    <2> HIDE DEF all
    <2>2. RequestsAreAnswered' /\ IdsAreDistinct' /\ NoHalfAnswer'
      BY <1>0, <2>1 DEF RequestsAreAnswered, IdsAreDistinct, NoHalfAnswer
    <2>3. Len(results') < Len(Calls)
      BY <1>0, <1>2, <1>3, <1>7, <2>1
    <2>4. \A i \in 1 .. Len(results') : results'[i] = Calls[i]
      BY <1>3, <1>4, <2>1
    <2> QED
      BY <1>0, <1>3, <1>5, <2>1, <2>2, <2>3, <2>4 DEF TurnInv
  <1> QED
    BY <1>6, <1>7

\* Every step of run_turn, and of the threads beside it, keeps the invariant.
LEMMA TurnStep ==
    ASSUME TurnInv, [TurnNext]_turnVars
    PROVE  TurnInv'
  <1>0. Gathers(output)
    BY DEF TurnInv
  <1>1. CASE Cancel
    BY <1>0, <1>1, QuietStep DEF Cancel
  <1>2. CASE DeadlinePasses
    BY <1>0, <1>2, QuietStep DEF DeadlinePasses
  <1>3. CASE LoopEnds
    <2>1. /\ pc = "loop" /\ pc' = "done"
          /\ UNCHANGED <<messages, results, output>>
      BY <1>3 DEF LoopEnds, Finish
    <2> QED
      BY <1>0, <2>1, QuietStep
  <1>4. CASE LoopCalls
    <2>1. /\ pc = "loop" /\ pc' = "send" /\ output' = NewOutput
          /\ UNCHANGED <<messages, results>>
      BY <1>4 DEF LoopCalls
    <2> QED
      BY <2>1, NewGathers, QuietStep
  <1>5. CASE SendAccepted
    BY <1>0, <1>5, QuietStep DEF SendAccepted, Unsent
  <1>6. CASE SendRetries
    BY <1>0, <1>6, QuietStep DEF SendRetries, Unsent
  <1>7. CASE SendFails
    <2>1. /\ pc = "send" /\ pc' = "done"
          /\ UNCHANGED <<messages, results, output>>
      BY <1>7 DEF SendFails, Finish, Unsent
    <2> QED
      BY <1>0, <2>1, QuietStep
  <1>8. CASE StreamItem
    <2>1. PICK item \in Sent(kind) :
            LET ev == StreamStep(kind, stream, item)[1]
                out == handle_event(output, ev)
            IN /\ output' = out
               /\ CASE ev.t = "err" -> Finish("err", "none", FALSE, FALSE) /\ UNCHANGED messages
                    [] ev.t = "done" -> AfterStream(out)
                    [] OTHER -> UNCHANGED <<pc, outcome, messages>>
      BY Zenon, <1>8 DEF StreamItem
    <2> DEFINE ev == StreamStep(kind, stream, item)[1]
               out == handle_event(output, ev)
    <2>2. pc = "stream" /\ results' = results
      BY <1>8 DEF StreamItem, Unread
    <2>3. Gathers(out) /\ output' = out
      BY <1>0, <2>1, EventGathers
    <2>4. \/ Finish("err", "none", FALSE, FALSE) /\ UNCHANGED messages
          \/ AfterStream(out)
          \/ UNCHANGED <<pc, outcome, messages>>
      BY Zenon, <2>1
    <2> HIDE DEF out
    <2>5. CASE Finish("err", "none", FALSE, FALSE) /\ UNCHANGED messages
      <3>1. pc' = "done" /\ UNCHANGED messages
        BY <2>5 DEF Finish
      <3> QED
        BY <2>2, <2>3, <3>1, QuietStep
    <2>6. CASE AfterStream(out)
      BY <2>2, <2>3, <2>6, AfterStreamStep
    <2>7. CASE UNCHANGED <<pc, outcome, messages>>
      BY <2>2, <2>3, <2>7, QuietStep
    <2> QED
      BY Zenon, <2>4, <2>5, <2>6, <2>7
  <1>9. CASE StreamCancelled
    <2>1. /\ pc = "stream" /\ pc' = "done"
          /\ UNCHANGED <<messages, results, output>>
      BY <1>9 DEF StreamCancelled, Finish, Unread
    <2> QED
      BY <1>0, <2>1, QuietStep
  <1>10. CASE StreamExhausted
    BY <1>0, <1>10, AfterStreamStep DEF StreamExhausted, Unread
  <1>11. CASE ToolRefused
    BY <1>11, AnswerStep DEF ToolRefused, Unused
  <1>12. CASE ToolRuns
    BY <1>12, AnswerStep DEF ToolRuns, Unused
  <1>13. CASE ToolTimesOut
    BY <1>13, AnswerStep DEF ToolTimesOut, Unused
  <1>14. CASE ThreadEnds
    BY <1>0, <1>14, QuietStep DEF ThreadEnds
  <1>15. CASE UNCHANGED turnVars
    BY <1>0, <1>15, QuietStep DEF turnVars
  <1> QED
    BY Zenon, <1>1, <1>2, <1>3, <1>4, <1>5, <1>6, <1>7, <1>8, <1>9, <1>10, <1>11,
       <1>12, <1>13,
       <1>14, <1>15 DEF TurnNext, Done

\* run_turn: however a turn ends (cancelled, out of time, out of budget, on a provider
\* error), for any ids the servers give and any limits, every tool call in the history
\* is answered once, in order, by the message after it, the ids of a round are
\* distinct, and a turn that is reported as cut short leaves no reply at the end.
THEOREM HistoriesAreSendable == TurnSpec => []HistoryIsSendable
  <1>1. TurnInit => TurnInv
    BY TurnInitSafe
  <1>2. TurnInv /\ [TurnNext]_turnVars => TurnInv'
    BY TurnStep
  <1>3. TurnInv => HistoryIsSendable
    BY DEF TurnInv, HistoryIsSendable
  <1> QED
    BY <1>1, <1>2, <1>3, PTL DEF TurnSpec

-----------------------------------------------------------------------------
(*****************************************************************************)
(* ToolRunner. Runs of one tool share a cgroup. The invariant follows the    *)
(* deferred Delete of each run: as long as the directory is there without    *)
(* a reason, some run has its Delete before it.                              *)
(*****************************************************************************)

\* Where a run of a tool is.
ToolPlaces == {"idle", "create", "start", "add", "wait", "report", "delete", "returned"}

\* The types of the variables.
ToolType ==
    /\ at \in [ToolRun -> ToolPlaces]
    /\ proc \in [ToolRun -> {"none", "running", "exited", "signaled"}]
    /\ inGroup \in [ToolRun -> BOOLEAN]
    /\ heirs \in [ToolRun -> {"none", "outside", "inside"}]
    /\ ctxDone \in [ToolRun -> BOOLEAN]
    /\ deferred \in [ToolRun -> BOOLEAN]
    /\ result \in [ToolRun -> {"none", "error", "killed", "ended"}]
    /\ groupDir \in BOOLEAN

\* A tool lives between its start and the report, it is in the cgroup only while
\* it lives, and the Delete stays deferred until Run returns.
RunOk(r) ==
    /\ at[r] \in {"idle", "create", "start"} => proc[r] = "none"
    /\ at[r] \in {"report", "delete", "returned"} => proc[r] # "running"
    /\ at[r] \notin {"delete", "returned"} => result[r] = "none"
    /\ proc[r] = "signaled" => result[r] \in {"none", "killed"}
    /\ inGroup[r] => proc[r] = "running"
    /\ deferred[r] => at[r] \in {"start", "add", "wait", "report", "delete"}

\* Somebody will still try to remove the cgroup.
GroupOk == groupDir /\ left = {} => \E r \in ToolRun : deferred[r]

\* The inductive invariant of the runner.
ToolInv == ToolType /\ (\A r \in ToolRun : RunOk(r)) /\ GroupOk

\* Before the first run there is no cgroup.
LEMMA ToolInitInv == ToolInit => ToolInv
  BY Zenon DEF ToolInit, ToolInv, ToolType, RunOk, GroupOk, ToolPlaces

\* Every step keeps the types.
LEMMA ToolTypeStep == ToolType /\ [ToolNext]_toolVars => ToolType'
  <1> SUFFICES ASSUME ToolType, [ToolNext]_toolVars
               PROVE  ToolType'
    OBVIOUS
  <1> USE DEF ToolType, ToolPlaces
  <1>1. CASE UNCHANGED toolVars
    BY <1>1 DEF toolVars
  <1>2. ASSUME NEW r \in ToolRun, BeginRun(r) \/ CreateCgroup(r)
        PROVE  ToolType'
    BY Zenon, <1>2 DEF BeginRun, CreateCgroup, Goto
  <1>3. ASSUME NEW r \in ToolRun, StartTool(r) \/ StartFails(r) \/ WaitReturns(r) \/ Report(r)
        PROVE  ToolType'
    BY <1>3 DEF StartTool, StartFails, WaitReturns, Report, Goto
  <1>4. ASSUME NEW r \in ToolRun, AddPid(r) \/ Delete(r) \/ ContextEnds(r)
        PROVE  ToolType'
    BY Zenon, <1>4 DEF AddPid, Delete, ContextEnds, Goto
  <1>5. ASSUME NEW r \in ToolRun, ContextKills(r) \/ ToolEnds(r) \/ OomKills(r)
        PROVE  ToolType'
    BY Zenon, <1>5 DEF ContextKills, ToolEnds, OomKills, ToolDies
  <1>6. ASSUME NEW r \in ToolRun, LeaveHeir(r) \/ HeirEnds(r)
        PROVE  ToolType'
    BY <1>6 DEF LeaveHeir, HeirEnds
  <1> QED
    BY <1>1, <1>2, <1>3, <1>4, <1>5, <1>6 DEF ToolNext, RunStep

\* Every step keeps the invariant: the last run to remove the cgroup removes it.
LEMMA ToolStep == ToolInv /\ [ToolNext]_toolVars => ToolInv'
  <1> SUFFICES ASSUME ToolInv, [ToolNext]_toolVars
               PROVE  (\A r \in ToolRun : RunOk(r)') /\ GroupOk'
    BY ToolTypeStep DEF ToolInv
  <1>0. ToolType /\ GroupOk /\ \A r \in ToolRun : RunOk(r)
    BY Zenon DEF ToolInv
  <1>1. CASE UNCHANGED toolVars
    BY <1>0, <1>1 DEF toolVars, RunOk, GroupOk
  <1>2. ASSUME NEW r \in ToolRun, BeginRun(r)
        PROVE  (\A s \in ToolRun : RunOk(s)') /\ GroupOk'
    BY Zenon, <1>0, <1>2 DEF BeginRun, Goto, RunOk, GroupOk, ToolType
  <1>3. ASSUME NEW r \in ToolRun, CreateCgroup(r)
        PROVE  (\A s \in ToolRun : RunOk(s)') /\ GroupOk'
    BY SMTT(30), <1>0, <1>3 DEF CreateCgroup, Goto, RunOk, GroupOk, ToolType
  <1>4. ASSUME NEW r \in ToolRun, StartTool(r) \/ StartFails(r) \/ WaitReturns(r)
        PROVE  (\A s \in ToolRun : RunOk(s)') /\ GroupOk'
    BY <1>0, <1>4 DEF StartTool, StartFails, WaitReturns, Goto, RunOk, GroupOk, ToolType
  <1>5. ASSUME NEW r \in ToolRun, AddPid(r) \/ Report(r) \/ ContextEnds(r)
        PROVE  (\A s \in ToolRun : RunOk(s)') /\ GroupOk'
    BY <1>0, <1>5 DEF AddPid, Report, ContextEnds, Goto, RunOk, GroupOk, ToolType
  <1>6. ASSUME NEW r \in ToolRun, Delete(r)
        PROVE  (\A s \in ToolRun : RunOk(s)') /\ GroupOk'
    <2>1. \A s \in ToolRun : RunOk(s)'
      BY <1>0, <1>6 DEF Delete, Goto, RunOk, ToolType
    <2>2. GroupOk'
      <3> SUFFICES ASSUME groupDir', left' = {}
                   PROVE  \E s \in ToolRun : deferred'[s]
        BY DEF GroupOk
      <3>1. \A s \in ToolRun \ {r} : deferred'[s] = deferred[s]
        BY <1>0, <1>6 DEF Delete, ToolType
      <3>2. groupDir /\ left = {}
        BY Zenon, <1>6 DEF Delete
      <3>3. CASE ~deferred[r]
        BY Zenon, <1>0, <3>1, <3>2, <3>3 DEF GroupOk
      <3>4. CASE deferred[r]
        <4>1. PICK o \in Occupants : heirs[o] # "inside" /\ deferred[o]
          BY Zenon, <1>6, <3>4 DEF Delete
        <4>2. o \in ToolRun /\ inGroup[o]
          BY Zenon, <4>1 DEF Occupants
        <4>3. o # r
          BY Zenon, <1>0, <1>6, <4>2 DEF Delete, RunOk
        <4> QED
          BY <3>1, <4>1, <4>2, <4>3
      <3> QED
        BY <3>3, <3>4
    <2> QED
      BY <2>1, <2>2
  <1>7. ASSUME NEW r \in ToolRun, ContextKills(r) \/ ToolEnds(r) \/ OomKills(r)
        PROVE  (\A s \in ToolRun : RunOk(s)') /\ GroupOk'
    BY <1>0, <1>7
       DEF ContextKills, ToolEnds, OomKills, ToolDies, RunOk, GroupOk, ToolType
  <1>8. ASSUME NEW r \in ToolRun, LeaveHeir(r) \/ HeirEnds(r)
        PROVE  (\A s \in ToolRun : RunOk(s)') /\ GroupOk'
    BY <1>0, <1>8 DEF LeaveHeir, HeirEnds, RunOk, GroupOk, ToolType
  <1> QED
    BY <1>1, <1>2, <1>3, <1>4, <1>5, <1>6, <1>7, <1>8 DEF ToolNext, RunStep

\* Overlapping runs of one tool never report a killed tool as one that ended, and
\* leave no cgroup behind without a reason, for any number of runs
\* (runner_linux.go, Run; manage_linux.go, Delete).
THEOREM RunsAreAccounted == ToolSpec => []RunIsAccounted
  <1>1. ToolInv => RunIsAccounted
    BY DEF ToolInv, RunOk, GroupOk, RunIsAccounted, KilledIsReported, CgroupIsRemoved
  <1> QED
    BY ToolInitInv, ToolStep, <1>1, PTL DEF ToolSpec
=============================================================================
