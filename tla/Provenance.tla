----------------------------- MODULE Provenance -----------------------------
(***************************************************************************)
(* The hash-chained provenance log of agent/nura-core/src/provenance.rs    *)
(* in /data/sessions, together with what else changes that directory: a    *)
(* restart of the agent, a write the disk refuses or a crash tears, and    *)
(* the two reclaimers of the Go services, diskmon.Reclaim and              *)
(* compliance.DeleteExpired.                                               *)
(*                                                                         *)
(* A file is the sequence of its lines; its name is its number.  A hash is *)
(* what it commits to: the payloads from the genesis entry on, so distinct *)
(* chains have distinct hashes.  Sizes are counted in lines.               *)
(***************************************************************************)
EXTENDS Naturals, FiniteSets, FiniteSetsExt, Joined

CONSTANTS MaxLines,     \* MAX_FILE_BYTES: a file this long is not written to
          SessionCap,   \* ReclaimOptions.SessionCap
          MaxAppends,   \* bound on the calls of append
          MaxFiles,     \* bound on the file numbers
          Faults        \* which of AllFaults may happen

AllFaults == {"empty", "tear", "refuse", "reclaim", "expire"}

ASSUME ProvenanceAssumption ==
    /\ MaxLines \in Nat \ {0} /\ SessionCap \in Nat /\ MaxAppends \in Nat
    /\ MaxLines <= SessionCap /\ MaxFiles \in Nat \ {0} /\ Faults \subseteq AllFaults

VARIABLES disk,     \* the files: number -> lines
          mtimes,   \* their numbers, least recently modified first
          w,        \* the ProvenanceWriter of the running agent
          calls,    \* calls of append so far; a call's number is its content
          acked,    \* contents of the calls that returned Ok, in order
          harm      \* the faults that have happened; "emptied" is a reclaim
                    \* that left no file at all

provenanceVars == <<disk, mtimes, w, calls, acked, harm>>

Genesis == <<>>

\* compute_hash: commits to the previous hash and to the payload.
Hash(prev, seq, content) == Append(prev, <<seq, content>>)

\* A line of a file; nl: it ends with a newline.
LineOf(prev, seq, content) ==
    [seq |-> seq, content |-> content, prev |-> prev,
     hash |-> Hash(prev, seq, content), nl |-> TRUE]

\* A line that does not parse has no sequence number.
Garbage == [seq |-> 0, content |-> 0, prev |-> Genesis, hash |-> Genesis, nl |-> TRUE]

Parses(line) == line.seq > 0

\* What a write of the line that stops early can leave: a part of the entry,
\* or all of it without the newline.
Torn(line) == {[Garbage EXCEPT !.nl = FALSE], [line EXCEPT !.nl = FALSE]}

Closed == [up |-> FALSE, file |-> 0, linked |-> FALSE, seq |-> 0,
           last |-> Genesis, size |-> 0, rotated |-> FALSE]

ProvenanceInit ==
    /\ disk = <<>> /\ mtimes = <<>>
    /\ w = Closed
    /\ calls = 0 /\ acked = <<>> /\ harm = {}

-----------------------------------------------------------------------------
\* The lines after a write: behind a line without a newline the two run
\* together and do not parse.
Written(lines, line) ==
    IF lines # <<>> /\ ~lines[Len(lines)].nl
    THEN [lines EXCEPT ![Len(lines)] = [Garbage EXCEPT !.nl = line.nl]]
    ELSE Append(lines, line)

\* The file has become the most recently modified one.
Touched(file) ==
    LET at == CHOOSE i \in DOMAIN mtimes : mtimes[i] = file
    IN  [i \in DOMAIN mtimes |->
            IF i = Len(mtimes) THEN file
            ELSE IF i < at THEN mtimes[i] ELSE mtimes[i + 1]]

\* scan: the last entry of the latest file that parses gives the position.
ScanOf(lines) ==
    LET good == {i \in DOMAIN lines : Parses(lines[i])}
    IN  IF good = {} THEN <<0, Genesis>> ELSE <<lines[Max(good)].seq, lines[Max(good)].hash>>

\* ProvenanceWriter::open, at the start of the agent.
Open ==
    /\ ~w.up
    /\ LET new == DOMAIN disk = {}
           file == IF new THEN 1 ELSE Max(DOMAIN disk)
           lines == IF new THEN <<>> ELSE disk[file]
           at == ScanOf(lines)
       IN /\ disk' = [f \in DOMAIN disk \union {file} |-> IF f = file THEN lines ELSE disk[f]]
          /\ mtimes' = IF new THEN <<file>> ELSE mtimes
          /\ w' = [up |-> TRUE, file |-> file, linked |-> TRUE, seq |-> at[1],
                   last |-> at[2], size |-> Len(lines), rotated |-> FALSE]
    /\ UNCHANGED <<calls, acked, harm>>

MutRotateRestartsChain ==
    LET n == Len(mtimes) + 1
    IN /\ w.up /\ w.size >= MaxLines /\ calls < MaxAppends /\ n <= MaxFiles
       /\ disk' = [f \in DOMAIN disk \union {n} |-> IF f \in DOMAIN disk THEN disk[f] ELSE <<>>]
       /\ mtimes' = IF n \in DOMAIN disk THEN mtimes ELSE Append(mtimes, n)
       /\ w' = [w EXCEPT !.file = n, !.linked = TRUE, !.size = 0, !.rotated = TRUE,
                         !.last = Genesis]
       /\ UNCHANGED <<calls, acked, harm>>

\* rotate, the first step of an append to a full file.  The new file is named
\* after the number of files; when that name exists, that file is continued.
Rotate ==
    LET n == Len(mtimes) + 1
    IN /\ w.up /\ w.size >= MaxLines /\ calls < MaxAppends /\ n <= MaxFiles
       /\ disk' = [f \in DOMAIN disk \union {n} |-> IF f \in DOMAIN disk THEN disk[f] ELSE <<>>]
       /\ mtimes' = IF n \in DOMAIN disk THEN mtimes ELSE Append(mtimes, n)
       /\ w' = [w EXCEPT !.file = n, !.linked = TRUE, !.size = 0, !.rotated = TRUE]
       /\ UNCHANGED <<calls, acked, harm>>

\* write_all to the file the writer has open, which may have been unlinked.
PutLine(line) ==
    IF w.linked
    THEN /\ disk' = [disk EXCEPT ![w.file] = Written(@, line)]
         /\ mtimes' = Touched(w.file)
    ELSE UNCHANGED <<disk, mtimes>>

Put == w.up /\ w.size < MaxLines /\ calls < MaxAppends /\ calls' = calls + 1

NextLine == LineOf(w.last, w.seq + 1, calls + 1)

\* append: the entry is written and acknowledged.
AppendOk ==
    /\ Put
    /\ PutLine(NextLine)
    /\ w' = [w EXCEPT !.seq = @ + 1, !.size = @ + 1, !.last = NextLine.hash, !.rotated = FALSE]
    /\ acked' = Append(acked, calls')
    /\ UNCHANGED harm

\* append: write_all fails, before the first byte or within the line.  The
\* sequence number has been taken; last_hash and file_bytes are as before.
AppendFails ==
    /\ "refuse" \in Faults /\ Put
    /\ \/ \E line \in Torn(NextLine) : PutLine(line)
       \/ UNCHANGED <<disk, mtimes>>
    /\ w' = [w EXCEPT !.seq = @ + 1, !.rotated = FALSE]
    /\ harm' = harm \union {"refuse"}
    /\ UNCHANGED acked

\* The agent stops between two appends, or after rotate and before the write.
Crash ==
    /\ w.up
    /\ w.rotated => "empty" \in Faults
    /\ w' = Closed
    /\ harm' = harm \union (IF w.rotated THEN {"empty"} ELSE {})
    /\ UNCHANGED <<disk, mtimes, calls, acked>>

\* Power is lost while a line is being written.
CrashInWrite ==
    /\ "tear" \in Faults /\ Put
    /\ \E line \in Torn(NextLine) : PutLine(line)
    /\ w' = Closed
    /\ harm' = harm \union {"tear"}
    /\ UNCHANGED acked

-----------------------------------------------------------------------------
SizeOf(files) == MapThenSumSet(LAMBDA f : Len(disk[f]), files)

\* The k files that were modified least recently.
Oldest(k) == {mtimes[i] : i \in 1 .. k}

\* os.Remove of the k oldest files; a writer that has one open keeps the inode.
RemoveOldest(k) ==
    /\ disk' = [f \in DOMAIN disk \ Oldest(k) |-> disk[f]]
    /\ mtimes' = SubSeq(mtimes, k + 1, Len(mtimes))
    /\ w' = [w EXCEPT !.linked = @ /\ w.file \notin Oldest(k)]

\* trimOldestFiles: remove the oldest files until the rest is within the cap.
Reclaim ==
    /\ "reclaim" \in Faults
    /\ \E k \in 1 .. Len(mtimes) :
         /\ SizeOf(DOMAIN disk \ Oldest(k - 1)) > SessionCap
         /\ SizeOf(DOMAIN disk \ Oldest(k)) <= SessionCap
         /\ RemoveOldest(k)
    /\ harm' = harm \union {IF DOMAIN disk' = {} THEN "emptied" ELSE "reclaim"}
    /\ UNCHANGED <<calls, acked>>

\* DeleteExpired: remove the files last modified before the cutoff.
Expire ==
    /\ "expire" \in Faults
    /\ \E k \in 1 .. Len(mtimes) : RemoveOldest(k)
    /\ harm' = harm \union {"expire"}
    /\ UNCHANGED <<calls, acked>>

Done == calls = MaxAppends /\ w.up /\ UNCHANGED provenanceVars

ProvenanceNext ==
    \/ Open \/ Rotate \/ AppendOk \/ AppendFails
    \/ Crash \/ CrashInWrite \/ Reclaim \/ Expire \/ Done

ProvenanceSpec == ProvenanceInit /\ [][ProvenanceNext]_provenanceVars

-----------------------------------------------------------------------------
\* The lines verify_chain walks, in the order of the file names.
Walked == Joined(disk, MaxFiles)

\* The loop of verify_chain: every line parses, is numbered from 1 on, names its
\* predecessor's hash and has the hash of its payload.
Verifies(lines) ==
    \A i \in DOMAIN lines :
        LET e == lines[i]
        IN /\ Parses(e)
           /\ e.seq = i
           /\ e.prev = IF i = 1 THEN Genesis ELSE lines[i - 1].hash
           /\ e.hash = Hash(e.prev, e.seq, e.content)

verify_chain == Verifies(Walked)

Line == [seq : 0 .. MaxAppends, content : 0 .. MaxAppends, prev : Seq(Nat \X Nat),
         hash : Seq(Nat \X Nat), nl : BOOLEAN]

\* The files have numbers in range and each a place in the order of modification,
\* and the writer's fields have their types.
ProvenanceTypeOK ==
    /\ DOMAIN disk \subseteq 1 .. MaxFiles
    /\ \A f \in DOMAIN disk : disk[f] \in Seq(Line)
    /\ Oldest(Len(mtimes)) = DOMAIN disk /\ Len(mtimes) = Cardinality(DOMAIN disk)
    /\ w.up \in BOOLEAN /\ w.linked \in BOOLEAN /\ w.rotated \in BOOLEAN
    /\ w.file \in 0 .. MaxFiles /\ w.seq \in 0 .. MaxAppends /\ w.size \in 0 .. MaxAppends
    /\ w.linked => w.file \in DOMAIN disk
    /\ harm \subseteq AllFaults \union {"emptied"}

\* While no fault has happened, through any number of restarts and rotations
\* the log verifies and holds every append that returned Ok, in order, and
\* nothing else (provenance.rs:183-245, 253-315).
AckedVerifies ==
    harm = {} => /\ verify_chain
                 /\ acked = [i \in DOMAIN Walked |-> Walked[i].content]

\* A log that refused or torn writes have damaged is accepted only when it holds
\* every append that returned Ok, in the order of the calls: an entry that was
\* lost is found out, whatever was written behind it (provenance.rs:190-230).
AcceptsNoLoss ==
    /\ harm \subseteq {"refuse", "tear"}
    /\ verify_chain
    => /\ \A i, j \in DOMAIN Walked : i < j => Walked[i].content < Walked[j].content
       /\ \A a \in DOMAIN acked : \E i \in DOMAIN Walked : Walked[i].content = acked[a]

\* A log of which the disk monitor removed the oldest files, though not the last
\* one, is never again accepted as one with entries: its beginning is missing,
\* whatever is written later and whichever file it goes to (provenance.rs:232-245).
ReclaimIsSeen ==
    harm = {"reclaim"} /\ verify_chain => Walked = <<>>

\* The three together: verify_chain accepts what was acknowledged, and nothing less.
VerifyIsExact == AckedVerifies /\ AcceptsNoLoss /\ ReclaimIsSeen

\* ProvenanceEntry.seq: "Monotonically increasing sequence number across all
\* files", in the order in which the files are read.
SeqIncreases ==
    \A i, j \in DOMAIN Walked :
        i < j /\ Parses(Walked[i]) /\ Parses(Walked[j]) => Walked[i].seq < Walked[j].seq

\* "chain continuity is maintained across files": an entry that is the first
\* of its file names the hash of the last entry of the file before.
ContinuesAcrossFiles ==
    LET full == {f \in DOMAIN disk : disk[f] # <<>>}
    IN  \A f, g \in full :
            f < g /\ (\A h \in full : h <= f \/ h >= g) =>
                disk[g][1].prev = disk[f][Len(disk[f])].hash
=============================================================================
