------------------------------ MODULE Journal -------------------------------
(***************************************************************************)
(* The journal (src/services/internal/journal: writer.go, ratelimit.go,    *)
(* query.go, forwarder.go, collector.go, router.go).  Collectors and the   *)
(* manager's own log write day files under one mutex; readers and the      *)
(* forwarder read the files with no lock at all.                           *)
(*                                                                         *)
(* Records are numbered in the order they are written and have size 1.     *)
(* Files are inodes, because the writer and the follower keep open files   *)
(* that may no longer have a name.                                         *)
(***************************************************************************)
EXTENDS Integers, FiniteSetsExt, Joined

CONSTANTS
    MaxSize,     \* size cap over all day files
    MaxPerSec,   \* records the flood limiter lets through in a window
    MaxRecords,  \* bound on the records written
    MaxDay       \* bound on the clock

ASSUME JournalAssumption ==
    MaxSize \in Nat /\ MaxPerSec \in Nat /\ MaxRecords \in Nat /\ MaxDay \in Nat \ {0}

VARIABLES
    day,        \* the date
    dir,        \* the directory: day -> inode, for the files that exist
    inodes,     \* the contents of the inodes, in the order of their creation
    writer,     \* [today, file]: Writer, file 0 when closed
    window,     \* records the limiter has counted in this window
    accepted,   \* history: number of records written so far
    stepped,    \* history: the clock has been set back
    follow,     \* Follow: [at, path, offset, file]
    forwarded,  \* records handed to dispatch, in order
    killFile,   \* <journal-dir>/no-forward exists
    stopped,    \* Forwarder.stopped
    cancelled,  \* the context of Run is cancelled
    killedAt    \* history: records written when Kill was called

journalVars == <<day, dir, inodes, writer, window, accepted, stepped,
                 follow, forwarded, killFile, stopped, cancelled, killedAt>>
writerVars == <<dir, inodes, writer, window, accepted>>
forwardVars == <<follow, forwarded, killFile, stopped, cancelled, killedAt>>

Never == MaxRecords + 1
Size(d) == Len(inodes[dir[d]])

JournalInit ==
    /\ day = 1
    /\ dir = <<>> /\ inodes = <<>>
    /\ writer = [today |-> 0, file |-> 0]
    /\ window = 0
    /\ accepted = 0
    /\ stepped = FALSE
    /\ follow = [at |-> "list", path |-> 0, offset |-> 0, file |-> 0]
    /\ forwarded = <<>>
    /\ killFile = FALSE /\ stopped = FALSE /\ cancelled = FALSE
    /\ killedAt = Never

-----------------------------------------------------------------------------
\* ensureFile: the inode that the record of today goes to, a new one when the
\* day has no file under its name.  An open file of the day is used as it is.
EnsureFile ==
    IF writer.today = day /\ writer.file # 0 THEN writer.file
    ELSE IF day \in DOMAIN dir THEN dir[day]
    ELSE Len(inodes) + 1

\* enforceCap: the days whose files are removed, oldest first, as long as what
\* the files before them leave of the total is over the cap.  The file being
\* written is no exception.
EnforceCap(files) ==
    LET sizeTo(d) == Len(Joined(files, d))
    IN  {d \in DOMAIN files : sizeTo(MaxDay) - sizeTo(d - 1) > MaxSize}

\* The directory when the file is open: the day has its name, unless the file of
\* the day was open already.
Named ==
    IF writer.today = day /\ writer.file # 0 THEN dir
    ELSE [d \in DOMAIN dir \cup {day} |-> IF d = day THEN EnsureFile ELSE dir[d]]

\* Write: a record is dropped by the limiter, or appended to the day file,
\* after which the cap is enforced.
Write ==
    /\ accepted < MaxRecords
    /\ window < MaxPerSec
    /\ inodes' = [i \in DOMAIN inodes \cup {EnsureFile} |->
                    IF i = EnsureFile
                    THEN Append(IF i \in DOMAIN inodes THEN inodes[i] ELSE <<>>, accepted + 1)
                    ELSE inodes[i]]
    /\ dir' = LET gone == EnforceCap([d \in DOMAIN Named |-> inodes'[Named[d]]])
              IN  [d \in DOMAIN Named \ gone |-> Named[d]]
    /\ writer' = [today |-> day, file |-> EnsureFile]
    /\ window' = window + 1
    /\ accepted' = accepted + 1
    /\ UNCHANGED <<day, stepped, forwardVars>>

WindowEnds ==
    /\ window > 0
    /\ window' = 0
    /\ UNCHANGED <<day, dir, inodes, writer, accepted, stepped, forwardVars>>

\* The manager closes the journal at shutdown and opens it again when it logs
\* afterwards, or when it starts again.
CloseWriter ==
    /\ writer.file # 0
    /\ writer' = [writer EXCEPT !.file = 0]
    /\ UNCHANGED <<day, dir, inodes, window, accepted, stepped, forwardVars>>

DayPasses ==
    /\ day < MaxDay
    /\ day' = day + 1
    /\ UNCHANGED <<writerVars, stepped, forwardVars>>

\* Time synchronisation sets the clock back over midnight.
ClockSetBack ==
    /\ day > 1
    /\ day' = day - 1
    /\ stepped' = TRUE
    /\ UNCHANGED <<writerVars, forwardVars>>

-----------------------------------------------------------------------------
\* Follow, one poll: find the latest file; when it is another one than before,
\* start at its end; open it; read to its end.
FollowList ==
    /\ follow.at = "list" /\ ~cancelled
    /\ DOMAIN dir # {}
    /\ follow' = LET latest == Max(DOMAIN dir)
                 IN  IF latest = follow.path THEN [follow EXCEPT !.at = "open"]
                     ELSE [follow EXCEPT !.at = "stat", !.path = latest]
    /\ UNCHANGED <<day, writerVars, stepped, forwarded, killFile, stopped, cancelled, killedAt>>

FollowStat ==
    /\ follow.at = "stat"
    /\ follow' = [follow EXCEPT !.at = "open",
                                !.offset = IF follow.path \in DOMAIN dir THEN Size(follow.path) ELSE 0]
    /\ UNCHANGED <<day, writerVars, stepped, forwarded, killFile, stopped, cancelled, killedAt>>

FollowOpen ==
    /\ follow.at = "open"
    /\ follow' = IF follow.path \in DOMAIN dir THEN [follow EXCEPT !.at = "read", !.file = dir[follow.path]]
                 ELSE [follow EXCEPT !.at = "list"]
    /\ UNCHANGED <<day, writerVars, stepped, forwarded, killFile, stopped, cancelled, killedAt>>

\* The callback of Run: the kill switches, then redaction and dispatch.
OnRecord(r) ==
    /\ stopped' = (stopped \/ killFile)
    /\ forwarded' = IF stopped \/ killFile THEN forwarded ELSE Append(forwarded, r)

FollowLine ==
    /\ follow.at = "read" /\ follow.offset < Len(inodes[follow.file])
    /\ OnRecord(inodes[follow.file][follow.offset + 1])
    /\ follow' = [follow EXCEPT !.offset = @ + 1]
    /\ UNCHANGED <<day, writerVars, stepped, killFile, cancelled, killedAt>>

\* A plausible slip: the offset is not kept from one poll to the next.
MutFollowEnd ==
    /\ follow.at = "read" /\ follow.offset >= Len(inodes[follow.file])
    /\ follow' = [follow EXCEPT !.at = "list", !.offset = 0, !.file = 0]
    /\ UNCHANGED <<day, writerVars, stepped, forwarded, killFile, stopped, cancelled, killedAt>>

FollowEnd ==
    /\ follow.at = "read" /\ follow.offset >= Len(inodes[follow.file])
    /\ follow' = [follow EXCEPT !.at = "list", !.file = 0]
    /\ UNCHANGED <<day, writerVars, stepped, forwarded, killFile, stopped, cancelled, killedAt>>

\* A plausible slip: stopCh is looked at only once a file has been found.
MutFollowReturns ==
    /\ follow.at = "list" /\ cancelled /\ DOMAIN dir # {}
    /\ follow' = [follow EXCEPT !.at = "returned"]
    /\ UNCHANGED <<day, writerVars, stepped, forwarded, killFile, stopped, cancelled, killedAt>>

\* The only way out of Run: the context is done.
FollowReturns ==
    /\ follow.at = "list" /\ cancelled
    /\ follow' = [follow EXCEPT !.at = "returned"]
    /\ UNCHANGED <<day, writerVars, stepped, forwarded, killFile, stopped, cancelled, killedAt>>

Kill ==
    /\ killedAt = Never
    /\ stopped' = TRUE
    /\ killedAt' = accepted
    /\ UNCHANGED <<day, writerVars, stepped, follow, forwarded, killFile, cancelled>>

CreateKillFile ==
    /\ ~killFile
    /\ killFile' = TRUE
    /\ UNCHANGED <<day, writerVars, stepped, follow, forwarded, stopped, cancelled, killedAt>>

Cancel ==
    /\ ~cancelled
    /\ cancelled' = TRUE
    /\ UNCHANGED <<day, writerVars, stepped, follow, forwarded, killFile, stopped, killedAt>>

FollowStep ==
    FollowList \/ FollowStat \/ FollowOpen \/ FollowLine \/ FollowEnd \/ FollowReturns

JournalNext ==
    \/ Write \/ WindowEnds \/ CloseWriter \/ DayPasses \/ ClockSetBack
    \/ FollowStep \/ Kill \/ CreateKillFile \/ Cancel

\* The goroutine of Follow keeps being scheduled, and its sleeps end.
JournalFairness == WF_journalVars(FollowStep)
JournalSpec == JournalInit /\ [][JournalNext]_journalVars /\ JournalFairness

-----------------------------------------------------------------------------
\* What Query returns without a filter: the day files in the order of their
\* names.
DayFiles == [d \in DOMAIN dir |-> inodes[dir[d]]]
Query == Joined(DayFiles, MaxDay)

\* As long as the clock is not set back, a query returns the records in the
\* order they were written and without a gap: the cap takes the oldest away,
\* and once the file being written has been removed, its later records too, up
\* to the next day (writer.go:54-77, 127-151; query.go:28-50).
QueryIsContiguous ==
    ~stepped => \A i \in 1 .. Len(Query) - 1 : Query[i + 1] = Query[i] + 1

\* The forwarder sends no record twice and none out of order, over day changes, a
\* clock set back, removals and files that are opened again (query.go:113-173).
ForwardedOnce ==
    \A i \in 1 .. Len(forwarded) - 1 : forwarded[i] < forwarded[i + 1]

\* Nothing written after Kill has returned is sent (forwarder.go:65-67, 88-99).
SilentAfterKill == \A i \in DOMAIN forwarded : forwarded[i] <= killedAt

\* The three together: what readers and the collector of the forwarder get is the
\* journal, in order, and none of it after the switch (query.go:28-173).
ReadersAreExact == QueryIsContiguous /\ ForwardedOnce /\ SilentAfterKill

\* forwarder.go:69-70: "It returns as soon as ctx.Done() fires or either kill
\* switch is activated".
ReturnsWhenKilled == (killedAt # Never) ~> (follow.at = "returned")

\* When the context of Run is done, the forwarder returns: also while there is
\* no journal file, and whatever is still being written (query.go:119-131,
\* 176-183).
CancelReturns == cancelled ~> (follow.at = "returned")
=============================================================================
