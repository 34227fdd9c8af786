------------------------------- MODULE Clock --------------------------------
(***************************************************************************)
(* The clock of the time manager (src/services/internal/timesync): Now     *)
(* stamps a reading with a sequence number and compares it with the last   *)
(* one to detect a step of the wall clock.  Now reads the clock before it  *)
(* takes the lock and compares after it has released it, so calls of two   *)
(* goroutines overlap in every way.                                        *)
(*                                                                         *)
(* A reading is its offset, wall minus monotonic time: that difference is  *)
(* all the comparison looks at.  Offsets are in units above stepThreshold. *)
(***************************************************************************)
EXTENDS Integers, FiniteSets, FiniteSetsExt

CONSTANTS
    Caller,     \* goroutines that call Now
    Offset,     \* offsets the wall clock can have
    StepBuffer, \* capacity of stepCh
    MaxCalls    \* bound on the calls of Now

ASSUME ClockAssumption == Offset \subseteq Int /\ 0 \in Offset /\ StepBuffer \in Nat /\ MaxCalls \in Nat

VARIABLES
    offset,     \* the present offset of the wall clock
    seq,        \* Clock.seq
    last,       \* Clock.last
    stepCh,     \* number of step events in the channel
    now,        \* caller -> where it is in Now, and its locals
    emitted,    \* history: the sum of the deltas emitted
    discarded,  \* history: a full channel discarded a step
    skipped,    \* history: the delta the first call passes over
    stamps      \* history: the sequence numbers returned

clockVars == <<offset, seq, last, stepCh, now, emitted, discarded, skipped, stamps>>

NotInNow == [at |-> "out", reading |-> 0, seq |-> 0, last |-> 0, after |-> 0]

ClockInit ==
    /\ offset = 0 /\ seq = 0 /\ last = 0 /\ stepCh = 0
    /\ now = [c \in Caller |-> NotInNow]
    /\ emitted = 0 /\ discarded = FALSE /\ skipped = 0 /\ stamps = {}

\* SetSystemTime: from the RTC, by syncNTP at start and every thirty minutes.
SetSystemTime(o) ==
    /\ o # offset
    /\ offset' = o
    /\ UNCHANGED <<seq, last, stepCh, now, emitted, discarded, skipped, stamps>>

\* now := time.Now()
ReadClock(c) ==
    /\ now[c].at = "out" /\ seq + Cardinality({d \in Caller : now[d].at = "read"}) < MaxCalls
    /\ now' = [now EXCEPT ![c] = [NotInNow EXCEPT !.at = "read", !.reading = offset,
                                                  !.after = Max(stamps \cup {0})]]
    /\ UNCHANGED <<offset, seq, last, stepCh, emitted, discarded, skipped, stamps>>

\* seq := c.seq.Add(1)
AddSeq(c) ==
    /\ now[c].at = "read"
    /\ seq' = seq + 1
    /\ now' = [now EXCEPT ![c].at = "numbered", ![c].seq = seq + 1]
    /\ UNCHANGED <<offset, last, stepCh, emitted, discarded, skipped, stamps>>

\* A plausible slip: without the lock, the last reading may be one that
\* another caller has replaced since.
MutSwapLast(c) ==
    /\ now[c].at = "numbered"
    /\ \E l \in {last} \cup {now[d].last : d \in {e \in Caller : now[e].at = "swapped"}} :
         now' = [now EXCEPT ![c].at = "swapped", ![c].last = l]
    /\ last' = now[c].reading
    /\ UNCHANGED <<offset, seq, stepCh, emitted, discarded, skipped, stamps>>

\* The lock: last, c.last = c.last, now.
SwapLast(c) ==
    /\ now[c].at = "numbered"
    /\ now' = [now EXCEPT ![c].at = "swapped", ![c].last = last]
    /\ last' = now[c].reading
    /\ UNCHANGED <<offset, seq, stepCh, emitted, discarded, skipped, stamps>>

\* The comparison, a send that does not block, and the return.  The first call
\* has nothing to compare with.
Detect(c) ==
    LET delta == now[c].reading - now[c].last
    IN  /\ now[c].at = "swapped"
        /\ \/ /\ now[c].seq > 1 /\ delta # 0 /\ stepCh < StepBuffer
              /\ stepCh' = stepCh + 1
              /\ emitted' = emitted + delta
              /\ UNCHANGED discarded
           \/ /\ now[c].seq = 1 \/ delta = 0 \/ stepCh >= StepBuffer
              /\ discarded' = (discarded \/ (now[c].seq > 1 /\ delta # 0))
              /\ UNCHANGED <<stepCh, emitted>>
        /\ skipped' = IF now[c].seq = 1 THEN skipped + delta ELSE skipped
        /\ now' = [now EXCEPT ![c] = NotInNow]
        /\ stamps' = stamps \cup {now[c].seq}
        /\ UNCHANGED <<offset, seq, last>>

\* runStepLogger.
LogStep ==
    /\ stepCh > 0
    /\ stepCh' = stepCh - 1
    /\ UNCHANGED <<offset, seq, last, now, emitted, discarded, skipped, stamps>>

ClockNext ==
    \/ LogStep
    \/ \E o \in Offset : SetSystemTime(o)
    \/ \E c \in Caller : ReadClock(c) \/ AddSeq(c) \/ SwapLast(c) \/ Detect(c)

ClockSpec == ClockInit /\ [][ClockNext]_clockVars

-----------------------------------------------------------------------------
\* "Use Seq for causal ordering" (mono.go:13-15): no two calls have the same
\* number, and a call that starts after another returned has the larger one.
SeqIsCausal ==
    \A c \in Caller :
        now[c].seq # 0 =>
            /\ now[c].seq > now[c].after
            /\ now[c].seq \notin stamps
            /\ \A d \in Caller \ {c} : now[d].seq # now[c].seq

\* However the calls overlap, and although one step may be reported several
\* times, back and forth, the deltas of all the steps reported add up to the
\* change of the wall clock, once no call is in progress: nothing is counted
\* twice and nothing is lost, save what a full channel discards and what the
\* first call passes over (mono.go:49-82).
StepsAddUp ==
    ((\A c \in Caller : now[c].at = "out") /\ ~discarded) => last = skipped + emitted

\* The two together: overlapping calls of Now neither confuse the order of their
\* stamps nor the account of the steps.
ClockIsSound == SeqIsCausal /\ StepsAddUp
=============================================================================
