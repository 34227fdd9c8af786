------------------------------- MODULE Backup -------------------------------
(***************************************************************************)
(* nuractl backup and restore (src/services/internal/backup/backup.go).    *)
(* A backup walks /data file by file while the services keep writing, and  *)
(* puts the archive at its path with a plain write.  A restore checks what *)
(* it can before it writes, then overwrites the files one by one.  Either  *)
(* process may stop between two of its steps.                              *)
(*                                                                         *)
(* Directories, excluded models and the manifest beside the archive, which *)
(* a restore does not read, are left out.                                  *)
(***************************************************************************)
EXTENDS Integers, Sequences, FiniteSets, Functions

CONSTANTS
    WalkOrder,   \* the paths under /data, in the order of filepath.Walk
    Content,     \* what a service writes into a file
    Absent,      \* the file does not exist
    Passphrase,  \* passphrases, NoPass excluded
    NoPass,      \* no encryption
    MaxWrites    \* bound: writes by the services

Paths == {WalkOrder[i] : i \in DOMAIN WalkOrder}

ASSUME BackupAssumption ==
    /\ Absent \notin Content /\ NoPass \notin Passphrase
    /\ WalkOrder \in Seq(Paths)
    /\ \A i, j \in DOMAIN WalkOrder : WalkOrder[i] = WalkOrder[j] => i = j

VARIABLES
    data,      \* /data: path -> content or Absent
    archive,   \* the archive file, or NoArchive
    walk,      \* the backup in progress, or NoWalk
    restore,   \* the restore in progress, or NoRestore
    writes,    \* services' writes so far
    restored   \* history: the archive /data was restored from, if no service
               \*   has written to it since the restore began

backupVars == <<data, archive, walk, restore, writes, restored>>

NoArchive == [state |-> "none"]
NoWalk == [at |-> "none"]
NoRestore == [at |-> "none"]

\* history: every state /data is in during the walk
Witnessed(w, d) == IF w = NoWalk THEN w ELSE [w EXCEPT !.past = @ \cup {d}]

BackupInit ==
    /\ data = [p \in Paths |-> Absent]
    /\ archive = NoArchive
    /\ walk = NoWalk
    /\ restore = NoRestore
    /\ writes = 0
    /\ restored = NoArchive

ServiceWrites(p, c) ==
    /\ writes < MaxWrites /\ data[p] # c
    /\ data' = [data EXCEPT ![p] = c]
    /\ writes' = writes + 1
    /\ walk' = Witnessed(walk, data')
    /\ restored' = NoArchive
    /\ restore' = IF restore = NoRestore THEN restore ELSE [restore EXCEPT !.alone = FALSE]
    /\ UNCHANGED archive

-----------------------------------------------------------------------------
StartBackup(pass) ==
    /\ walk = NoWalk
    /\ walk' = [at |-> "next", i |-> 1, entries |-> <<>>, pass |-> pass, seen |-> Absent, past |-> {data}]
    /\ UNCHANGED <<data, archive, restore, writes, restored>>

\* The header of the next file is written with the size the file has now; a
\* file that cannot be examined is skipped.
WriteHeader ==
    /\ walk.at = "next" /\ walk.i <= Len(WalkOrder)
    /\ LET p == WalkOrder[walk.i]
       IN  walk' = IF data[p] = Absent THEN [walk EXCEPT !.i = @ + 1]
                   ELSE [walk EXCEPT !.at = "copy", !.seen = data[p]]
    /\ UNCHANGED <<data, archive, restore, writes, restored>>

\* A file that changed in between is copied when its size is the same.
CopyFile ==
    /\ walk.at = "copy"
    /\ LET p == WalkOrder[walk.i]
       IN  /\ data[p] # Absent
           /\ walk' = [walk EXCEPT !.at = "next", !.i = @ + 1, !.entries = Append(@, <<p, data[p]>>)]
    /\ UNCHANGED <<data, archive, restore, writes, restored>>

\* One whose size changed, or that vanished, ends the backup with an error.
CopyFails ==
    /\ walk.at = "copy" /\ data[WalkOrder[walk.i]] # walk.seen
    /\ walk' = NoWalk
    /\ UNCHANGED <<data, archive, restore, writes, restored>>

\* os.WriteFile truncates the file at the path and then writes the archive.
OpenArchive ==
    /\ walk.at = "next" /\ walk.i > Len(WalkOrder)
    /\ archive' = [entries |-> walk.entries, pass |-> walk.pass, state |-> "torn", past |-> walk.past]
    /\ walk' = [walk EXCEPT !.at = "write"]
    /\ UNCHANGED <<data, restore, writes, restored>>

WriteArchive ==
    /\ walk.at = "write"
    /\ archive' = [archive EXCEPT !.state = "whole"]
    /\ walk' = NoWalk
    /\ UNCHANGED <<data, restore, writes, restored>>

BackupStops ==
    /\ walk # NoWalk
    /\ walk' = NoWalk
    /\ UNCHANGED <<data, archive, restore, writes, restored>>

-----------------------------------------------------------------------------
\* AES-GCM with a key derived from the passphrase: the archive opens with the
\* passphrase it was sealed with, and only if none of it is missing.
Decrypts(pass) == archive.pass = pass /\ (pass # NoPass => archive.state = "whole")

\* Decryption and the digest are checked before anything is written.
AcceptsArchive(pass, sha) == Decrypts(pass) /\ (sha => archive.state = "whole")

\* The whole archive is read into memory first.
StartRestore(pass, sha) ==
    /\ restore = NoRestore
    /\ archive # NoArchive
    /\ AcceptsArchive(pass, sha)
    /\ restore' = [at |-> "extract", i |-> 1, sha |-> sha, from |-> archive, alone |-> TRUE]
    /\ restored' = NoArchive
    /\ UNCHANGED <<data, archive, walk, writes>>

\* The entry is created or truncated and filled.
RestoreFile ==
    /\ restore.at = "extract" /\ restore.i <= Len(restore.from.entries)
    /\ LET e == restore.from.entries[restore.i]
       IN  data' = [data EXCEPT ![e[1]] = e[2]]
    /\ restore' = [restore EXCEPT !.i = @ + 1]
    /\ walk' = Witnessed(walk, data')
    /\ UNCHANGED <<archive, writes, restored>>

\* A plausible slip: a truncated stream is taken for the end of the archive.
MutEndRestore ==
    /\ restore.at = "extract"
    /\ restore.from.state = "whole" => restore.i > Len(restore.from.entries)
    /\ restore' = NoRestore
    /\ restored' = IF restore.alone THEN restore.from ELSE NoArchive
    /\ UNCHANGED <<data, archive, walk, writes>>

\* The end of the archive is read.  Of a torn archive only the last bytes, which
\* belong to no file, may be missing here.
EndRestore ==
    /\ restore.at = "extract" /\ restore.i > Len(restore.from.entries)
    /\ restore' = NoRestore
    /\ restored' = IF restore.alone THEN restore.from ELSE NoArchive
    /\ UNCHANGED <<data, archive, walk, writes>>

\* A torn archive, a write error or a stop ends the restore where it is.
RestoreStops ==
    /\ restore # NoRestore
    /\ restore' = NoRestore
    /\ UNCHANGED <<data, archive, walk, writes, restored>>

BackupNext ==
    \/ \E p \in Paths, c \in Content \cup {Absent} : ServiceWrites(p, c)
    \/ \E pass \in Passphrase \cup {NoPass} : StartBackup(pass)
    \/ WriteHeader \/ CopyFile \/ CopyFails \/ OpenArchive \/ WriteArchive \/ BackupStops
    \/ \E pass \in Passphrase \cup {NoPass}, sha \in BOOLEAN : StartRestore(pass, sha)
    \/ RestoreFile \/ EndRestore \/ RestoreStops

BackupSpec == BackupInit /\ [][BackupNext]_backupVars

-----------------------------------------------------------------------------
\* The content the archive gives a path.
ArchivedContent(a, p) ==
    LET found == {e \in Range(a.entries) : e[1] = p}
    IN  IF found = {} THEN Absent ELSE (CHOOSE e \in found : TRUE)[2]

\* Although /data changes under the walk, an archive has for every file a
\* content the file had during the walk, and leaves a file out only if it was
\* missing at some moment of it (backup.go:91-142).
FileWiseConsistent ==
    archive # NoArchive => \A p \in Paths : \E d \in archive.past : d[p] = ArchivedContent(archive, p)

\* A restore that reports success, with no service writing beside it, has put
\* back every file of its archive, although what is left of a backup that was
\* cut short can be restored as far as it goes (backup.go:315-365).
RestoreIsComplete ==
    restored # NoArchive =>
        \A p \in Paths : ArchivedContent(restored, p) # Absent => data[p] = ArchivedContent(restored, p)

\* With --sha256, or with a passphrase, the rest of a backup that was cut short
\* changes nothing of /data (backup.go:296-312).
CheckedRestoreIsWhole ==
    (restore # NoRestore /\ (restore.sha \/ restore.from.pass # NoPass)) => restore.from.state = "whole"

\* The three together: what a backup took of each file is what a restore that
\* reports success puts back.
BackupRoundTrip == FileWiseConsistent /\ RestoreIsComplete /\ CheckedRestoreIsWhole

\* nuractl/main.go:1090: "Create a consistent backup archive of /data".  The
\* archive holds /data as it was at one moment of the walk.
ConsistentBackup ==
    archive # NoArchive => \E d \in archive.past : \A p \in Paths : d[p] = ArchivedContent(archive, p)
=============================================================================
