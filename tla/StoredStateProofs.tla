------------------------- MODULE StoredStateProofs --------------------------
(*****************************************************************************)
(* What the components that keep state on the disk promise, for every        *)
(* value of their constants: backups, the package database, the              *)
(* configuration store and the machine-id. Each section has the inductive    *)
(* invariant of one component, what its steps do to it, and the theorems.    *)
(*****************************************************************************)
EXTENDS Backup, PackageManager, ConfigStore, Identity, TLAPS

-----------------------------------------------------------------------------
(*****************************************************************************)
(* Backup. An archive is right about each file although services write       *)
(* during the walk. The invariant relates what the walk has collected to     *)
(* the states /data had since it began, and what a restore has put back to   *)
(* the archive it read.                                                      *)
(*****************************************************************************)

\* The states of /data, and the records of archives, walks and restores.
DataStates == [Paths -> Content \cup {Absent}]
Archives == [entries : Seq(Paths \X Content), pass : Passphrase \cup {NoPass},
             state : {"torn", "whole"}, past : SUBSET DataStates]
Walks == [at : {"next", "copy", "write"}, i : Nat, entries : Seq(Paths \X Content),
          pass : Passphrase \cup {NoPass}, seen : Content \cup {Absent}, past : SUBSET DataStates]
Restores == [at : {"extract"}, i : Nat, sha : BOOLEAN, from : Archives, alone : BOOLEAN]

\* What has been collected after the first k paths of the walk: one entry at most
\* for each, with a content the file had, and none only if it was missing.
Collected(entries, k, past) ==
    /\ \A x \in DOMAIN entries : /\ \E j \in 1 .. k : entries[x][1] = WalkOrder[j]
                                 /\ \E d \in past : d[entries[x][1]] = entries[x][2]
    /\ \A x, y \in DOMAIN entries : entries[x][1] = entries[y][1] => x = y
    /\ \A j \in 1 .. k : \/ \E x \in DOMAIN entries : entries[x][1] = WalkOrder[j]
                         \/ \E d \in past : d[WalkOrder[j]] = Absent

\* An archive has what a finished walk collected; a walk under way has collected the
\* paths before its own.
ArchiveOk(a) == a \in Archives /\ Collected(a.entries, Len(WalkOrder), a.past)
WalkOk ==
    walk # NoWalk =>
        /\ walk \in Walks /\ walk.i \in 1 .. Len(WalkOrder) + 1 /\ data \in walk.past
        /\ walk.at = "copy" => walk.i <= Len(WalkOrder)
        /\ walk.at = "write" => archive # NoArchive
        /\ Collected(walk.entries, walk.i - 1, walk.past)

\* The first k entries of an archive are in /data.
PutBack(a, k) == \A x \in DOMAIN a.entries : x <= k => data[a.entries[x][1]] = a.entries[x][2]
\* A restore under way has put back the entries before its own, if it ran alone.
RestoreOk ==
    restore # NoRestore =>
        /\ restore \in Restores /\ ArchiveOk(restore.from) /\ restore.i >= 1
        /\ restored = NoArchive
        /\ restore.alone => PutBack(restore.from, restore.i - 1)

\* What holds of /data, the archive, the walk, the restore and the last restore.
BackupInv ==
    /\ data \in DataStates
    /\ archive # NoArchive => ArchiveOk(archive)
    /\ WalkOk /\ RestoreOk /\ CheckedRestoreIsWhole
    /\ restored # NoArchive => ArchiveOk(restored) /\ PutBack(restored, Len(restored.entries))

-----------------------------------------------------------------------------
\* The walk order lists every path once.
LEMMA WalkFacts ==
    /\ Len(WalkOrder) \in Nat /\ DOMAIN WalkOrder = 1 .. Len(WalkOrder)
    /\ \A j \in 1 .. Len(WalkOrder) : WalkOrder[j] \in Paths
    /\ \A p \in Paths : \E j \in 1 .. Len(WalkOrder) : p = WalkOrder[j]
    /\ \A i, j \in 1 .. Len(WalkOrder) : WalkOrder[i] = WalkOrder[j] => i = j
  <1>1. Len(WalkOrder) \in Nat /\ DOMAIN WalkOrder = 1 .. Len(WalkOrder)
    BY BackupAssumption
  <1> QED
    BY <1>1, BackupAssumption DEF Paths

\* The records that stand for nothing differ from the ones that are something.
LEMMA NothingFacts ==
    /\ NoArchive \notin Archives /\ NoWalk \notin Walks /\ NoRestore \notin Restores
    /\ \A w \in Walks : w.at # "none"
  BY Zenon DEF NoArchive, NoWalk, NoRestore, Archives, Walks, Restores

\* More states of /data during the walk account for what was collected as well.
LEMMA CollectedGrows ==
    ASSUME NEW entries, NEW k, NEW past, NEW more, past \subseteq more, Collected(entries, k, past)
    PROVE  Collected(entries, k, more)
  BY DEF Collected

\* A change of /data is witnessed by the walk.
LEMMA WitnessKeeps ==
    ASSUME WalkOk, data' \in DataStates, walk' = Witnessed(walk, data'), archive' = archive
    PROVE  WalkOk'
  <1>1. CASE walk = NoWalk
    BY <1>1 DEF WalkOk, Witnessed
  <1>2. CASE walk # NoWalk
    <2>1. walk \in Walks /\ walk' = [walk EXCEPT !.past = walk.past \cup {data'}]
      BY <1>2 DEF WalkOk, Witnessed
    <2>2. /\ walk' \in Walks /\ walk'.at = walk.at /\ walk'.i = walk.i /\ walk'.entries = walk.entries
          /\ walk'.past = walk.past \cup {data'}
      BY <2>1 DEF Walks
    <2>3. Collected(walk'.entries, walk'.i - 1, walk'.past)
      BY <1>2, <2>2, CollectedGrows DEF WalkOk
    <2> QED
      BY <1>2, <2>2, <2>3 DEF WalkOk
  <1> QED
    BY <1>1, <1>2

\* Before the first backup there is no archive.
LEMMA BackupInitInv == BackupInit => BackupInv
  <1> SUFFICES ASSUME BackupInit
               PROVE  BackupInv
    OBVIOUS
  <1>1. data \in DataStates
    BY DEF BackupInit, DataStates
  <1>2. archive = NoArchive /\ walk = NoWalk /\ restore = NoRestore /\ restored = NoArchive
    BY DEF BackupInit
  <1> QED
    BY <1>1, <1>2 DEF BackupInv, WalkOk, RestoreOk, CheckedRestoreIsWhole

\* A service writes: a walk under way has seen it, a restore is no longer alone.
LEMMA ServiceKeeps ==
    ASSUME BackupInv, NEW p \in Paths, NEW c \in Content \cup {Absent}, ServiceWrites(p, c)
    PROVE  BackupInv'
  <1>1. data' \in DataStates
    BY DEF BackupInv, ServiceWrites, DataStates
  <1>2. WalkOk'
    BY <1>1, WitnessKeeps DEF BackupInv, ServiceWrites
  <1>3. restored' = NoArchive /\ archive' = archive
    BY DEF ServiceWrites
  <1>4. RestoreOk' /\ CheckedRestoreIsWhole'
    <2>1. CASE restore = NoRestore
      BY <2>1 DEF ServiceWrites, RestoreOk, CheckedRestoreIsWhole
    <2>2. CASE restore # NoRestore
      <3>1. restore' = [restore EXCEPT !.alone = FALSE] /\ restore \in Restores
        BY <2>2 DEF ServiceWrites, BackupInv, RestoreOk
      <3>2. /\ restore' \in Restores /\ restore'.from = restore.from /\ restore'.i = restore.i
            /\ restore'.sha = restore.sha
        BY Zenon, <3>1 DEF Restores
      <3>3. ~restore'.alone
        BY <3>1 DEF Restores
      <3>4. RestoreOk'
        BY <1>3, <2>2, <3>2, <3>3 DEF BackupInv, RestoreOk
      <3>5. CheckedRestoreIsWhole'
        BY <2>2, <3>2 DEF BackupInv, CheckedRestoreIsWhole
      <3> QED
        BY <3>4, <3>5
    <2> QED
      BY <2>1, <2>2
  <1> QED
    BY <1>1, <1>2, <1>3, <1>4 DEF BackupInv

\* The steps of a backup touch neither /data nor a restore.
LEMMA BackupSide ==
    ASSUME BackupInv, UNCHANGED <<data, restore, restored>>, WalkOk',
           archive' # NoArchive => ArchiveOk(archive')
    PROVE  BackupInv'
  BY DEF BackupInv, RestoreOk, PutBack, CheckedRestoreIsWhole

\* Before the first path nothing has to be collected.
LEMMA NothingCollected ==
    ASSUME NEW past
    PROVE  Collected(<<>>, 0, past)
  <1>1. \A x : x \notin DOMAIN <<>> /\ x \notin 1 .. 0
    OBVIOUS
  <1> QED
    BY Zenon, <1>1 DEF Collected

\* The record of a walk that starts.
LEMMA NewWalk ==
    ASSUME NEW d \in DataStates, NEW pass \in Passphrase \cup {NoPass}
    PROVE  [at |-> "next", i |-> 1, entries |-> <<>>, pass |-> pass, seen |-> Absent,
            past |-> {d}] \in Walks
  <1>1. <<>> \in Seq(Paths \X Content) /\ 1 \in Nat
    OBVIOUS
  <1>2. {d} \in SUBSET DataStates /\ Absent \in Content \cup {Absent}
    OBVIOUS
  <1> QED
    BY Zenon, <1>1, <1>2 DEF Walks

\* A backup starts with nothing collected.
LEMMA BackupStarts ==
    ASSUME BackupInv, NEW pass \in Passphrase \cup {NoPass}, StartBackup(pass)
    PROVE  BackupInv'
  <1> DEFINE w == [at |-> "next", i |-> 1, entries |-> <<>>, pass |-> pass, seen |-> Absent, past |-> {data}]
  <1>0. data \in DataStates
    BY Zenon DEF BackupInv
  <1>1. w \in Walks /\ w.at = "next" /\ w.i = 1 /\ w.entries = <<>> /\ w.past = {data}
    BY Zenon, <1>0, NewWalk
  <1>2. walk' = w
    BY DEF StartBackup
  <1> HIDE DEF w
  <1>3. Collected(<<>>, 0, {data})
    BY Zenon, NothingCollected
  <1>4. walk'.i - 1 = 0 /\ walk'.i \in 1 .. Len(WalkOrder) + 1
    BY <1>1, <1>2, WalkFacts
  <1>5. walk' \in Walks /\ Collected(walk'.entries, walk'.i - 1, walk'.past)
    BY Zenon, <1>1, <1>2, <1>3, <1>4
  <1>6. walk'.at = "next" /\ data' \in walk'.past
    BY <1>1, <1>2 DEF StartBackup
  <1>7. WalkOk'
    BY <1>4, <1>5, <1>6 DEF WalkOk
  <1> QED
    BY <1>7, BackupSide DEF StartBackup, BackupInv

\* The header of the next path is written, or the path is missing and passed over.
LEMMA HeaderKeeps ==
    ASSUME BackupInv, WriteHeader
    PROVE  BackupInv'
  <1> DEFINE p == WalkOrder[walk.i]
  <1>1. walk # NoWalk
    BY DEF WriteHeader, NoWalk
  <1>2. /\ walk \in Walks /\ walk.i \in 1 .. Len(WalkOrder) /\ data \in walk.past
        /\ Collected(walk.entries, walk.i - 1, walk.past) /\ walk.at = "next"
    BY <1>1, WalkFacts DEF BackupInv, WalkOk, WriteHeader
  <1>3. CASE data[p] = Absent
    <2>1. walk' = [walk EXCEPT !.i = walk.i + 1]
      BY <1>3 DEF WriteHeader
    <2>2. /\ walk' \in Walks /\ walk'.i = walk.i + 1 /\ walk'.entries = walk.entries
          /\ walk'.past = walk.past /\ walk'.at = "next"
      <3>1. walk.i + 1 \in Nat
        BY <1>2, WalkFacts
      <3> QED
        BY Zenon, <1>2, <2>1, <3>1 DEF Walks
    <2>3. Collected(walk.entries, walk.i, walk.past)
      <3>1. walk.i \in Nat /\ \A j \in 1 .. walk.i : j \in 1 .. walk.i - 1 \/ j = walk.i
        BY <1>2, WalkFacts
      <3>2. \A j \in 1 .. walk.i - 1 : j \in 1 .. walk.i
        BY <3>1
      <3> QED
        BY <1>2, <1>3, <3>1, <3>2 DEF Collected
    <2>4. WalkOk'
      BY <1>2, <2>2, <2>3, WalkFacts DEF WalkOk, WriteHeader
    <2> QED
      BY <2>4, BackupSide DEF WriteHeader, BackupInv
  <1>4. CASE data[p] # Absent
    <2>1. walk' = [walk EXCEPT !.at = "copy", !.seen = data[p]] /\ data[p] \in Content \cup {Absent}
      BY <1>2, <1>4, WalkFacts DEF WriteHeader, BackupInv, DataStates
    <2>2. /\ walk' \in Walks /\ walk'.i = walk.i /\ walk'.entries = walk.entries
          /\ walk'.past = walk.past /\ walk'.at = "copy"
      BY Zenon, <1>2, <2>1 DEF Walks
    <2>3. WalkOk'
      BY <1>2, <2>2, WalkFacts DEF WalkOk, WriteHeader
    <2> QED
      BY <2>3, BackupSide DEF WriteHeader, BackupInv
  <1> QED
    BY <1>3, <1>4

\* The content of the path is copied: the one it has now, during the walk.
LEMMA CopyKeeps ==
    ASSUME BackupInv, CopyFile
    PROVE  BackupInv'
  <1> DEFINE p == WalkOrder[walk.i]
             e == <<p, data[p]>>
             more == Append(walk.entries, e)
  <1>1. walk # NoWalk
    BY DEF CopyFile, NoWalk
  <1>2. /\ walk \in Walks /\ walk.i \in 1 .. Len(WalkOrder) /\ data \in walk.past
        /\ Collected(walk.entries, walk.i - 1, walk.past)
    BY <1>1, WalkFacts DEF BackupInv, WalkOk, CopyFile
  <1>3. p \in Paths /\ e \in Paths \X Content /\ e[1] = p /\ e[2] = data[p]
    BY <1>2, WalkFacts DEF CopyFile, BackupInv, DataStates
  <1>4. /\ walk.entries \in Seq(Paths \X Content) /\ walk.i \in Nat
    BY <1>2 DEF Walks
  <1> HIDE DEF e
  <1>5. /\ more \in Seq(Paths \X Content)
        /\ Len(walk.entries) \in Nat /\ DOMAIN walk.entries = 1 .. Len(walk.entries)
        /\ DOMAIN more = 1 .. Len(walk.entries) + 1
        /\ more[Len(walk.entries) + 1] = e
        /\ \A x \in 1 .. Len(walk.entries) : more[x] = walk.entries[x]
    BY <1>3, <1>4
  <1>6. walk' = [walk EXCEPT !.at = "next", !.i = walk.i + 1, !.entries = more]
    BY DEF CopyFile, e
  <1> HIDE DEF more
  <1>7. /\ walk' \in Walks /\ walk'.i = walk.i + 1 /\ walk'.entries = more
        /\ walk'.past = walk.past /\ walk'.at = "next"
    <2>1. walk.i + 1 \in Nat
      BY <1>4
    <2> QED
      BY Zenon, <1>2, <1>5, <1>6, <2>1 DEF Walks
  <1>8. Collected(more, walk.i, walk.past)
    <2> DEFINE n == Len(walk.entries)
    <2>1. \A x \in DOMAIN more : x \in 1 .. n \/ x = n + 1
      BY <1>5
    <2>2. \A j \in 1 .. walk.i - 1 : j \in 1 .. walk.i /\ WalkOrder[j] # p
      BY <1>2, WalkFacts
    <2>3. \A j \in 1 .. walk.i : j \in 1 .. walk.i - 1 \/ j = walk.i
      BY <1>4
    <2>4. ASSUME NEW x \in 1 .. n
          PROVE  /\ more[x][1] # p
                 /\ \E j \in 1 .. walk.i : more[x][1] = WalkOrder[j]
                 /\ \E d \in walk.past : d[more[x][1]] = more[x][2]
      <3>1. more[x] = walk.entries[x] /\ x \in DOMAIN walk.entries
        BY <1>5
      <3>2. /\ \E j \in 1 .. walk.i - 1 : walk.entries[x][1] = WalkOrder[j]
            /\ \E d \in walk.past : d[walk.entries[x][1]] = walk.entries[x][2]
        BY <1>2, <3>1 DEF Collected
      <3> QED
        BY <2>2, <3>1, <3>2
    <2>5. ASSUME NEW x \in DOMAIN more
          PROVE  /\ \E j \in 1 .. walk.i : more[x][1] = WalkOrder[j]
                 /\ \E d \in walk.past : d[more[x][1]] = more[x][2]
      <3>1. CASE x \in 1 .. n
        BY <2>4, <3>1
      <3>2. CASE x = n + 1
        BY <1>2, <1>3, <1>4, <1>5, <3>2
      <3> QED
        BY <2>1, <3>1, <3>2
    <2>6. ASSUME NEW x \in DOMAIN more, NEW y \in DOMAIN more, more[x][1] = more[y][1]
          PROVE  x = y
      <3>1. CASE x \in 1 .. n /\ y \in 1 .. n
        BY SMTT(30), <1>2, <1>5, <2>6, <3>1 DEF Collected
      <3>2. CASE x = n + 1 \/ y = n + 1
        BY <1>3, <1>5, <2>1, <2>4, <2>6, <3>2
      <3> QED
        BY <2>1, <3>1, <3>2
    <2>7. ASSUME NEW j \in 1 .. walk.i
          PROVE  \/ \E x \in DOMAIN more : more[x][1] = WalkOrder[j]
                 \/ \E d \in walk.past : d[WalkOrder[j]] = Absent
      <3>1. CASE j = walk.i
        BY <1>3, <1>5, <3>1
      <3>2. CASE j \in 1 .. walk.i - 1
        <4>1. CASE \E x \in DOMAIN walk.entries : walk.entries[x][1] = WalkOrder[j]
          BY <1>5, <4>1
        <4> QED
          BY <1>2, <3>2, <4>1 DEF Collected
      <3> QED
        BY <2>3, <3>1, <3>2
    <2> QED
      BY <2>5, <2>6, <2>7 DEF Collected
  <1>9. walk'.i - 1 = walk.i /\ walk'.i \in 1 .. Len(WalkOrder) + 1
    BY <1>2, <1>7, WalkFacts
  <1>10. data' \in walk'.past
    BY <1>2, <1>7 DEF CopyFile
  <1>11. WalkOk'
    BY <1>7, <1>8, <1>9, <1>10 DEF WalkOk
  <1> QED
    BY <1>11, BackupSide DEF CopyFile, BackupInv

\* A backup that fails or is stopped leaves the archive as it is.
LEMMA BackupEnds ==
    ASSUME BackupInv, CopyFails \/ BackupStops
    PROVE  BackupInv'
  <1>1. walk' = NoWalk /\ UNCHANGED <<data, archive, restore, restored>>
    BY DEF CopyFails, BackupStops
  <1>2. WalkOk'
    BY <1>1 DEF WalkOk
  <1> QED
    BY <1>1, <1>2, BackupSide DEF BackupInv

\* The archive is opened and written with what the walk collected.
LEMMA ArchiveKeeps ==
    ASSUME BackupInv, OpenArchive \/ WriteArchive
    PROVE  BackupInv'
  <1>1. walk # NoWalk
    BY DEF OpenArchive, WriteArchive, NoWalk
  <1>2. /\ walk \in Walks /\ walk.i \in 1 .. Len(WalkOrder) + 1 /\ data \in walk.past
        /\ Collected(walk.entries, walk.i - 1, walk.past)
        /\ walk.at = "write" => archive # NoArchive
    BY <1>1 DEF BackupInv, WalkOk
  <1>3. CASE OpenArchive
    <2> DEFINE a == [entries |-> walk.entries, pass |-> walk.pass, state |-> "torn", past |-> walk.past]
    <2>1. archive' = a /\ walk' = [walk EXCEPT !.at = "write"] /\ walk.i > Len(WalkOrder)
      BY <1>3 DEF OpenArchive
    <2>2. a \in Archives /\ a.entries = walk.entries /\ a.past = walk.past
      BY <1>2 DEF Walks, Archives
    <2> HIDE DEF a
    <2>3. walk.i - 1 = Len(WalkOrder)
      BY <1>2, <2>1, WalkFacts
    <2>4. ArchiveOk(archive') /\ archive' # NoArchive
      BY <1>2, <2>1, <2>2, <2>3, NothingFacts DEF ArchiveOk
    <2>5. /\ walk' \in Walks /\ walk'.i = walk.i /\ walk'.entries = walk.entries
          /\ walk'.past = walk.past /\ walk'.at = "write"
      BY Zenon, <1>2, <2>1 DEF Walks
    <2>6. WalkOk'
      BY <1>2, <1>3, <2>4, <2>5 DEF WalkOk, OpenArchive
    <2> QED
      BY <1>3, <2>4, <2>6, BackupSide DEF OpenArchive
  <1>4. CASE WriteArchive
    <2>1. archive' = [archive EXCEPT !.state = "whole"] /\ walk' = NoWalk /\ archive # NoArchive
      BY <1>2, <1>4 DEF WriteArchive
    <2>2. archive \in Archives /\ Collected(archive.entries, Len(WalkOrder), archive.past)
      BY <2>1 DEF BackupInv, ArchiveOk
    <2>3. archive' \in Archives /\ archive'.entries = archive.entries /\ archive'.past = archive.past
      BY <2>1, <2>2 DEF Archives
    <2>4. ArchiveOk(archive')
      BY <2>2, <2>3 DEF ArchiveOk
    <2>5. WalkOk'
      BY <2>1 DEF WalkOk
    <2> QED
      BY <1>4, <2>4, <2>5, BackupSide DEF WriteArchive
  <1> QED
    BY <1>3, <1>4

-----------------------------------------------------------------------------
\* A restore begins with the archive that is there, and only a whole one passes
\* the digest or the decryption.
LEMMA RestoreStarts ==
    ASSUME BackupInv, NEW pass \in Passphrase \cup {NoPass}, NEW sha \in BOOLEAN,
           StartRestore(pass, sha)
    PROVE  BackupInv'
  <1> DEFINE r == [at |-> "extract", i |-> 1, sha |-> sha, from |-> archive, alone |-> TRUE]
  <1>1. ArchiveOk(archive) /\ restored' = NoArchive /\ UNCHANGED <<data, archive, walk>> /\ restore' = r
    BY DEF BackupInv, StartRestore
  <1>2. r \in Restores
    BY <1>1 DEF Restores, ArchiveOk
  <1>3. r.from = archive /\ r.i = 1
    OBVIOUS
  <1>4. (r.sha \/ archive.pass # NoPass) => archive.state = "whole"
    <2>1. /\ archive.pass = pass /\ (pass # NoPass => archive.state = "whole")
          /\ sha => archive.state = "whole"
      BY DEF StartRestore, AcceptsArchive, Decrypts
    <2>2. r.sha = sha
      OBVIOUS
    <2> HIDE DEF r
    <2> QED
      BY <2>1, <2>2
  <1> HIDE DEF r
  <1>5. PutBack(archive, 0)'
    <2>1. \A x \in DOMAIN archive.entries : x \in Nat \ {0}
      BY <1>1 DEF ArchiveOk, Archives
    <2> QED
      BY <1>1, <2>1 DEF PutBack
  <1>6. RestoreOk'
    <2>1. restore'.i - 1 = 0 /\ restore'.i >= 1 /\ restore'.from = archive'
      BY <1>1, <1>3
    <2>2. PutBack(restore.from, restore.i - 1)'
      BY <1>1, <1>3, <1>5, <2>1 DEF PutBack
    <2> QED
      BY <1>1, <1>2, <2>1, <2>2 DEF RestoreOk
  <1>7. CheckedRestoreIsWhole'
    BY <1>1, <1>3, <1>4 DEF CheckedRestoreIsWhole
  <1>8. WalkOk'
    BY SMTT(30), <1>1 DEF BackupInv, WalkOk
  <1> QED
    BY <1>1, <1>6, <1>7, <1>8 DEF BackupInv

\* The next entry is put back, and those before it stay: each has a path of its own.
LEMMA RestoreFileKeeps ==
    ASSUME BackupInv, RestoreFile
    PROVE  BackupInv'
  <1> DEFINE a == restore.from
             e == a.entries[restore.i]
  <1>1. restore # NoRestore
    BY DEF RestoreFile, NoRestore
  <1>2. /\ restore \in Restores /\ ArchiveOk(a) /\ restore.i \in Nat /\ restore.i >= 1
        /\ restored = NoArchive /\ (restore.alone => PutBack(a, restore.i - 1))
    BY Zenon, <1>1 DEF BackupInv, RestoreOk, Restores
  <1>3. /\ a.entries \in Seq(Paths \X Content) /\ Len(a.entries) \in Nat
        /\ DOMAIN a.entries = 1 .. Len(a.entries)
        /\ \A x, y \in DOMAIN a.entries : a.entries[x][1] = a.entries[y][1] => x = y
    BY <1>2 DEF ArchiveOk, Archives, Collected
  <1>4. restore.i \in DOMAIN a.entries /\ e \in Paths \X Content
    BY <1>2, <1>3 DEF RestoreFile
  <1>5. data' = [data EXCEPT ![e[1]] = e[2]] /\ data \in DataStates
    BY Zenon DEF RestoreFile, BackupInv
  <1>6. /\ data' \in DataStates /\ data'[e[1]] = e[2]
        /\ \A p \in Paths \ {e[1]} : data'[p] = data[p]
    BY SMTT(30), <1>4, <1>5 DEF DataStates
  <1>7. WalkOk'
    BY Zenon, <1>6, WitnessKeeps DEF BackupInv, RestoreFile
  <1>8. restore' = [restore EXCEPT !.i = restore.i + 1]
    BY DEF RestoreFile
  <1>9. /\ restore' \in Restores /\ restore'.i = restore.i + 1 /\ restore'.from = restore.from
        /\ restore'.sha = restore.sha /\ restore'.alone = restore.alone
    BY <1>2, <1>8 DEF Restores
  <1>10. ASSUME PutBack(a, restore.i - 1), NEW x \in DOMAIN a.entries, x <= restore.i
         PROVE  data'[a.entries[x][1]] = a.entries[x][2]
    <2>1. CASE x = restore.i
      BY Zenon, <1>6, <2>1
    <2>2. CASE x # restore.i
      <3>1. x <= restore.i - 1 /\ a.entries[x][1] # e[1] /\ a.entries[x][1] \in Paths
        BY <1>2, <1>3, <1>4, <1>10, <2>2
      <3> QED
        BY Zenon, <1>6, <1>10, <3>1 DEF PutBack
    <2> QED
      BY Zenon, <2>1, <2>2
  <1>11. restore'.i - 1 = restore.i /\ restore'.i >= 1
    BY <1>2, <1>9
  <1>12. restore'.alone => PutBack(restore.from, restore.i - 1)'
    BY Zenon, <1>2, <1>9, <1>10, <1>11 DEF PutBack
  <1>13. RestoreOk'
    BY <1>2, <1>9, <1>11, <1>12 DEF RestoreOk, RestoreFile
  <1>14. CheckedRestoreIsWhole'
    BY <1>1, <1>9 DEF BackupInv, CheckedRestoreIsWhole
  <1> QED
    BY Zenon, <1>2, <1>6, <1>7, <1>13, <1>14 DEF BackupInv, RestoreFile

\* A restore ends with every entry put back, or is stopped.
LEMMA RestoreEnds ==
    ASSUME BackupInv, EndRestore \/ RestoreStops
    PROVE  BackupInv'
  <1>1. restore' = NoRestore /\ UNCHANGED <<data, archive, walk>>
    BY Zenon DEF EndRestore, RestoreStops
  <1>2. WalkOk' /\ RestoreOk' /\ CheckedRestoreIsWhole'
    BY <1>1 DEF BackupInv, WalkOk, RestoreOk, CheckedRestoreIsWhole
  <1>3. restored' # NoArchive => ArchiveOk(restored') /\ PutBack(restored, Len(restored.entries))'
    <2>1. CASE RestoreStops
      BY Zenon, <1>1, <2>1 DEF RestoreStops, BackupInv, PutBack
    <2>2. CASE EndRestore
      <3>1. restore # NoRestore
        BY <2>2 DEF EndRestore, NoRestore
      <3>2. /\ restore \in Restores /\ ArchiveOk(restore.from) /\ restore.i \in Nat
            /\ restore.i > Len(restore.from.entries)
            /\ restore.alone => PutBack(restore.from, restore.i - 1)
        BY <2>2, <3>1 DEF BackupInv, RestoreOk, EndRestore, Restores
      <3>3. /\ Len(restore.from.entries) \in Nat
            /\ DOMAIN restore.from.entries = 1 .. Len(restore.from.entries)
        BY <3>2 DEF ArchiveOk, Archives
      <3>4. \A x \in DOMAIN restore.from.entries : x <= restore.i - 1
        BY <3>2, <3>3
      <3>5. restored' # NoArchive => restored' = restore.from /\ restore.alone
        BY <2>2 DEF EndRestore
      <3> QED
        BY <1>1, <3>2, <3>4, <3>5 DEF PutBack
    <2> QED
      BY <2>1, <2>2
  <1> QED
    BY <1>1, <1>2, <1>3 DEF BackupInv

\* Every step keeps the invariant.
LEMMA BackupStep == BackupInv /\ [BackupNext]_backupVars => BackupInv'
  <1> SUFFICES ASSUME BackupInv, [BackupNext]_backupVars
               PROVE  BackupInv'
    OBVIOUS
  <1>1. CASE UNCHANGED backupVars
    BY <1>1 DEF backupVars, BackupInv, WalkOk, RestoreOk, PutBack, CheckedRestoreIsWhole
  <1>2. CASE BackupNext
    BY Zenon, <1>2, ServiceKeeps, BackupStarts, HeaderKeeps, CopyKeeps, BackupEnds,
       ArchiveKeeps,
       RestoreStarts, RestoreFileKeeps, RestoreEnds DEF BackupNext
  <1> QED
    BY <1>1, <1>2

\* The entry of a path is the only one, and its content is the archived one.
LEMMA ArchivedFacts ==
    ASSUME NEW a, ArchiveOk(a), NEW p \in Paths
    PROVE  \/ /\ \A x \in DOMAIN a.entries : a.entries[x][1] # p
              /\ ArchivedContent(a, p) = Absent
           \/ \E x \in DOMAIN a.entries : a.entries[x][1] = p /\ ArchivedContent(a, p) = a.entries[x][2]
  <1> DEFINE found == {e \in Range(a.entries) : e[1] = p}
  <1>1. found = {e \in {a.entries[x] : x \in DOMAIN a.entries} : e[1] = p}
    BY DEF Range
  <1>2. CASE found = {}
    <2>1. ArchivedContent(a, p) = Absent
      BY <1>2 DEF ArchivedContent
    <2>2. \A x \in DOMAIN a.entries : a.entries[x][1] # p
      BY <1>1, <1>2
    <2> QED
      BY <2>1, <2>2
  <1>3. CASE found # {}
    <2> DEFINE e == CHOOSE e \in found : TRUE
    <2>1. e \in found
      BY <1>3
    <2>2. ArchivedContent(a, p) = e[2]
      BY <1>3 DEF ArchivedContent
    <2> HIDE DEF e
    <2> QED
      BY <1>1, <2>1, <2>2
  <1> QED
    BY <1>2, <1>3

\* Although services write under the walk, Create's archive has for each file a
\* content it had during the walk; Restore puts back every file of the archive it
\* read; and with a digest or a passphrase it takes only a whole archive.
THEOREM BackupsRoundTrip == BackupSpec => []BackupRoundTrip
  <1>1. ASSUME BackupInv
        PROVE  BackupRoundTrip
    <2>1. ASSUME archive # NoArchive, NEW p \in Paths
          PROVE  \E d \in archive.past : d[p] = ArchivedContent(archive, p)
      <3>1. ArchiveOk(archive) /\ Collected(archive.entries, Len(WalkOrder), archive.past)
        BY <1>1, <2>1 DEF BackupInv, ArchiveOk
      <3>2. CASE /\ \A x \in DOMAIN archive.entries : archive.entries[x][1] # p
                 /\ ArchivedContent(archive, p) = Absent
        <4>1. PICK j \in 1 .. Len(WalkOrder) : p = WalkOrder[j]
          BY WalkFacts
        <4> QED
          BY <3>1, <3>2, <4>1 DEF Collected
      <3>3. CASE \E x \in DOMAIN archive.entries :
                    archive.entries[x][1] = p /\ ArchivedContent(archive, p) = archive.entries[x][2]
        BY <3>1, <3>3 DEF Collected
      <3> QED
        BY <3>1, <3>2, <3>3, ArchivedFacts
    <2>2. ASSUME restored # NoArchive, NEW p \in Paths, ArchivedContent(restored, p) # Absent
          PROVE  data[p] = ArchivedContent(restored, p)
      <3>1. ArchiveOk(restored) /\ PutBack(restored, Len(restored.entries))
        BY Zenon, <1>1, <2>2 DEF BackupInv
      <3>2. PICK x \in DOMAIN restored.entries :
              restored.entries[x][1] = p /\ ArchivedContent(restored, p) = restored.entries[x][2]
        BY <2>2, <3>1, ArchivedFacts
      <3>3. x <= Len(restored.entries)
        BY <3>1 DEF ArchiveOk, Archives
      <3> QED
        BY <3>1, <3>2, <3>3 DEF PutBack
    <2>3. CheckedRestoreIsWhole
      BY <1>1 DEF BackupInv
    <2> QED
      BY Zenon, <2>1, <2>2, <2>3
         DEF BackupRoundTrip, FileWiseConsistent, RestoreIsComplete
  <1> QED
    BY <1>1, BackupInitInv, BackupStep, PTL DEF BackupSpec

-----------------------------------------------------------------------------
(*****************************************************************************)
(* PackageManager. Install and Remove write back the database they read.     *)
(* The invariant says that what a process read is closed under               *)
(* dependencies, so that whichever process writes last leaves a closed       *)
(* database; and that, while no two processes overlapped, the files of the   *)
(* package being installed that are no longer on its list are in place.      *)
(*****************************************************************************)

\* A database as Install and Remove leave it: records of packages, with their
\* dependencies.
Known(d) == \A n \in DOMAIN d : \E a \in Archive : a.name = n /\ d[n] = Record(a)
Closed(d) == \A n \in DOMAIN d : d[n].depends \subseteq DOMAIN d
Snapshot(d) == Known(d) /\ Closed(d)

\* What a process holds between its first step and its last.
Installs(s, a, todo, read) ==
    /\ s = [op |-> "install", archive |-> a, todo |-> todo, read |-> read]
    /\ Snapshot(read) /\ todo \subseteq a.files /\ a.depends \subseteq DOMAIN read
Removes(s, n, todo, read) ==
    /\ s = [op |-> "remove", name |-> n, todo |-> todo, read |-> read]
    /\ Snapshot(read) /\ n \in DOMAIN read /\ todo \subseteq read[n].files
    /\ Dependents(n, read) = {}
ProcOk(s) ==
    \/ s = IdleProc
    \/ s.op = "install" /\ \E a \in Archive : Installs(s, a, s.todo, s.read)
    \/ s.op = "remove" /\ \E n \in Names : Removes(s, n, s.todo, s.read)

\* A file of the overlay is as the archive of one version of package n has it.
Whole(tree, n, f, version) == f \in DOMAIN tree /\ tree[f] = [name |-> n, version |-> version]

\* While processes have not overlapped, the one at work has read the database that
\* is there, its package is unsettled, and what it has extracted is in place.
AloneOk ==
    /\ \A p, q \in Proc : proc[p] # IdleProc /\ proc[q] # IdleProc => p = q
    /\ \A p \in Proc : proc[p] # IdleProc => proc[p].read = db
    /\ \A p \in Proc : proc[p].op = "remove" => proc[p].name \in unsettled
    /\ \A p \in Proc : proc[p].op = "install" =>
          LET a == proc[p].archive
          IN  /\ a.name \in unsettled
              /\ \A f \in (a.files \ proc[p].todo) \cap Own(a.name) : Whole(overlay, a.name, f, a.version)
    /\ \A n \in DOMAIN db \ unsettled : \A f \in db[n].files \cap Own(n) : Whole(overlay, n, f, db[n].version)

\* Every database, on disk or read by a process, has its dependencies; as long as no
\* two processes overlapped, the one at work can be trusted.
PackageInv ==
    /\ proc = [p \in Proc |-> proc[p]]
    /\ Snapshot(db)
    /\ \A p \in Proc : ProcOk(proc[p])
    /\ ~overlapped => AloneOk

-----------------------------------------------------------------------------
\* An empty database has all its dependencies.
LEMMA PackageInitInv == PackageInit => PackageInv
  <1> SUFFICES ASSUME PackageInit
               PROVE  PackageInv
    OBVIOUS
  <1>1. proc = [p \in Proc |-> proc[p]] /\ \A p \in Proc : proc[p] = IdleProc
    BY DEF PackageInit
  <1>2. DOMAIN db = {}
    BY DEF PackageInit
  <1>3. Snapshot(db)
    BY <1>2 DEF Snapshot, Known, Closed
  <1>4. AloneOk
    BY <1>1, <1>2 DEF AloneOk, IdleProc
  <1> QED
    BY <1>1, <1>3, <1>4 DEF PackageInv, ProcOk

\* What a process that is not idle holds.
LEMMA AtWork ==
    ASSUME PackageInv, NEW p \in Proc
    PROVE  /\ proc[p].op = "install" =>
                /\ proc[p].archive \in Archive
                /\ Installs(proc[p], proc[p].archive, proc[p].todo, proc[p].read)
           /\ proc[p].op = "remove" =>
                /\ proc[p].name \in Names
                /\ Removes(proc[p], proc[p].name, proc[p].todo, proc[p].read)
           /\ proc[p] = IdleProc => proc[p].op = "idle"
  <1>1. ProcOk(proc[p])
    BY DEF PackageInv
  <1>2. CASE proc[p] = IdleProc
    BY <1>2 DEF IdleProc
  <1>3. CASE proc[p].op = "install" /\ \E a \in Archive : Installs(proc[p], a, proc[p].todo, proc[p].read)
    <2>1. PICK a \in Archive : Installs(proc[p], a, proc[p].todo, proc[p].read)
      BY <1>3
    <2>2. proc[p].archive = a
      BY <2>1 DEF Installs
    <2>3. proc[p] # IdleProc
      BY <1>3 DEF IdleProc
    <2> QED
      BY <1>3, <2>1, <2>2, <2>3
  <1>4. CASE proc[p].op = "remove" /\ \E n \in Names : Removes(proc[p], n, proc[p].todo, proc[p].read)
    <2>1. PICK n \in Names : Removes(proc[p], n, proc[p].todo, proc[p].read)
      BY Zenon, <1>4
    <2>2. proc[p].name = n
      BY <2>1 DEF Removes
    <2>3. proc[p] # IdleProc
      BY <1>4 DEF IdleProc
    <2> QED
      BY <1>4, <2>1, <2>2, <2>3
  <1> QED
    BY <1>1, <1>2, <1>3, <1>4 DEF ProcOk

\* A step of process p leaves the others alone.
LEMMA OneProcess ==
    ASSUME PackageInv, NEW p \in Proc, NEW s, proc' = [proc EXCEPT ![p] = s]
    PROVE  /\ proc' = [q \in Proc |-> proc'[q]]
           /\ proc'[p] = s /\ \A q \in Proc \ {p} : proc'[q] = proc[q]
  BY DEF PackageInv

\* A name and a path that belongs to another package.
LEMMA OwnFile ==
    ASSUME NEW a \in Archive, NEW f \in a.files, NEW n, f \in Own(n)
    PROVE  n = a.name
  BY DEF Own

-----------------------------------------------------------------------------
\* A process that starts finds a database that is there; if no other process is
\* at work, it will find it so at its end.
LEMMA StartKeeps ==
    ASSUME PackageInv, NEW p \in Proc, NEW s, NEW name, proc[p] = IdleProc,
           proc' = [proc EXCEPT ![p] = s], ProcOk(s),
           unsettled' = unsettled \cup {name},
           ~overlapped' => ~overlapped /\ \A q \in Proc : proc[q] = IdleProc,
           UNCHANGED <<db, overlay>>,
           s.read = db,
           s.op = "remove" => s.name = name,
           s.op = "install" => s.archive.name = name /\ s.todo = s.archive.files
    PROVE  PackageInv'
  <1>1. /\ proc' = [q \in Proc |-> proc'[q]]
        /\ proc'[p] = s /\ \A q \in Proc \ {p} : proc'[q] = proc[q]
    BY Zenon, OneProcess
  <1>2. Snapshot(db)' /\ \A q \in Proc : ProcOk(proc[q])'
    BY <1>1 DEF PackageInv, Snapshot, Known, Closed
  <1>3. ASSUME ~overlapped'
        PROVE  AloneOk'
    <2>1. AloneOk /\ \A q \in Proc \ {p} : proc'[q] = IdleProc
      BY <1>1, <1>3 DEF PackageInv
    <2>2. \A q \in Proc \ {p} : proc'[q].op = "idle"
      BY <2>1 DEF IdleProc
    <2> QED
      BY <1>1, <2>1, <2>2 DEF AloneOk, Whole
  <1> QED
    BY <1>1, <1>2, <1>3 DEF PackageInv

\* Install reads the database and checks the dependencies.
LEMMA InstallStarts ==
    ASSUME PackageInv, NEW p \in Proc, NEW a \in Archive, StartInstall(p, a)
    PROVE  PackageInv'
  <1> DEFINE s == [op |-> "install", archive |-> a, todo |-> a.files, read |-> db]
  <1>1. /\ s.op = "install" /\ s.archive = a /\ s.todo = a.files /\ s.read = db
        /\ s = [op |-> "install", archive |-> a, todo |-> s.todo, read |-> s.read]
    OBVIOUS
  <1>2. proc' = [proc EXCEPT ![p] = s] /\ a.depends \subseteq DOMAIN db
    BY DEF StartInstall, DependsMet
  <1> HIDE DEF s
  <1>3. ProcOk(s)
    BY <1>1, <1>2 DEF ProcOk, Installs, PackageInv
  <1>4. ~overlapped' => ~overlapped /\ \A q \in Proc : proc[q] = IdleProc
    BY Zenon DEF StartInstall
  <1>5. proc[p] = IdleProc /\ unsettled' = unsettled \cup {a.name} /\ UNCHANGED <<db, overlay>>
    BY DEF StartInstall
  <1> QED
    BY Zenon, <1>1, <1>2, <1>3, <1>4, <1>5, StartKeeps

\* Remove reads the database and checks that nothing depends on the package.
LEMMA RemoveStarts ==
    ASSUME PackageInv, NEW p \in Proc, NEW n \in Names, StartRemove(p, n)
    PROVE  PackageInv'
  <1> DEFINE s == [op |-> "remove", name |-> n, todo |-> db[n].files, read |-> db]
  <1>1. /\ s.op = "remove" /\ s.name = n /\ s.todo = db[n].files /\ s.read = db
        /\ s = [op |-> "remove", name |-> n, todo |-> s.todo, read |-> s.read]
    OBVIOUS
  <1>2. proc' = [proc EXCEPT ![p] = s] /\ n \in DOMAIN db /\ Dependents(n, db) = {}
    BY Zenon DEF StartRemove
  <1> HIDE DEF s
  <1>3. ProcOk(s)
    BY <1>1, <1>2 DEF ProcOk, Removes, PackageInv
  <1>4. ~overlapped' => ~overlapped /\ \A q \in Proc : proc[q] = IdleProc
    BY Zenon DEF StartRemove
  <1>5. proc[p] = IdleProc /\ unsettled' = unsettled \cup {n} /\ UNCHANGED <<db, overlay>>
    BY DEF StartRemove
  <1> QED
    BY Zenon, <1>1, <1>2, <1>3, <1>4, <1>5, StartKeeps

\* One file of an archive is extracted over whatever was there.
LEMMA ExtractKeeps ==
    ASSUME PackageInv, NEW p \in Proc, NEW f \in File, ExtractFile(p, f)
    PROVE  PackageInv'
  <1> DEFINE a == proc[p].archive
             s == [op |-> "install", archive |-> a, todo |-> proc[p].todo \ {f}, read |-> proc[p].read]
  <1>1. /\ proc[p].op = "install" /\ a \in Archive /\ f \in proc[p].todo
        /\ Installs(proc[p], a, proc[p].todo, proc[p].read)
    BY AtWork DEF ExtractFile
  <1>2. proc' = [proc EXCEPT ![p] = s]
    <2>1. proc' = [proc EXCEPT ![p] = [proc[p] EXCEPT !.todo = proc[p].todo \ {f}]]
      BY DEF ExtractFile
    <2>2. [proc[p] EXCEPT !.todo = proc[p].todo \ {f}] = s
      BY <1>1 DEF Installs
    <2> QED
      BY Zenon, <2>1, <2>2
  <1>3. /\ s.op = "install" /\ s.archive = a /\ s.todo = proc[p].todo \ {f} /\ s.read = proc[p].read
        /\ s = [op |-> "install", archive |-> a, todo |-> s.todo, read |-> s.read]
    OBVIOUS
  <1> HIDE DEF s
  <1>4. ProcOk(s)
    BY <1>1, <1>3 DEF ProcOk, Installs
  <1>5. /\ proc' = [q \in Proc |-> proc'[q]]
        /\ proc'[p] = s /\ \A q \in Proc \ {p} : proc'[q] = proc[q]
    BY Zenon, <1>2, OneProcess
  <1>6. UNCHANGED <<db, unsettled, overlapped>>
    BY DEF ExtractFile
  <1>7. /\ DOMAIN overlay' = DOMAIN overlay \cup {f}
        /\ overlay'[f] = [name |-> a.name, version |-> a.version]
        /\ \A g \in DOMAIN overlay \ {f} : overlay'[g] = overlay[g]
    BY DEF ExtractFile
  <1>8. Snapshot(db)' /\ \A q \in Proc : ProcOk(proc[q])'
    BY Zenon, <1>4, <1>5, <1>6 DEF PackageInv, Snapshot, Known, Closed
  <1>9. ASSUME ~overlapped
        PROVE  AloneOk'
    <2>1. /\ AloneOk /\ a.name \in unsettled /\ proc[p] # IdleProc
          /\ \A q \in Proc \ {p} : proc[q] = IdleProc
      BY <1>1, <1>9 DEF PackageInv, AloneOk, IdleProc
    <2>2. f \in a.files
      BY <1>1 DEF Installs
    <2>3. \A q \in Proc \ {p} : proc'[q].op = "idle" /\ proc'[q] = IdleProc
      BY <1>5, <2>1 DEF IdleProc
    <2>4. ASSUME NEW n \in DOMAIN db \ unsettled, NEW g \in db[n].files \cap Own(n)
          PROVE  Whole(overlay', n, g, db[n].version)
      <3>1. g # f
        BY Zenon, <1>1, <2>1, <2>2, <2>4, OwnFile
      <3>2. Whole(overlay, n, g, db[n].version)
        BY Zenon, <2>1, <2>4 DEF AloneOk
      <3> QED
        BY Zenon, <1>6, <1>7, <3>1, <3>2 DEF Whole
    <2>5. ASSUME NEW g \in (a.files \ s.todo) \cap Own(a.name)
          PROVE  Whole(overlay', a.name, g, a.version)
      <3>1. CASE g = f
        BY Zenon, <1>7, <3>1 DEF Whole
      <3>2. CASE g # f
        <4>1. Whole(overlay, a.name, g, a.version)
          BY Zenon, <1>1, <1>3, <2>1, <2>5, <3>2 DEF AloneOk
        <4> QED
          BY Zenon, <1>7, <3>2, <4>1 DEF Whole
      <3> QED
        BY Zenon, <3>1, <3>2
    <2>6. proc'[p].op = "install" /\ proc'[p].archive = a /\ proc'[p].todo = s.todo /\ proc'[p].read = db
      BY Zenon, <1>3, <1>5, <2>1 DEF AloneOk
    <2>7. \A q \in Proc : q # p => proc'[q].op = "idle" /\ proc'[q] = IdleProc
      BY <2>3
    <2> HIDE DEF a
    <2> QED
      BY <1>6, <2>1, <2>4, <2>5, <2>6, <2>7 DEF AloneOk, Whole
  <1> QED
    BY <1>5, <1>6, <1>8, <1>9 DEF PackageInv

\* One file of a package is removed; its package is unsettled.
LEMMA RemoveFileKeeps ==
    ASSUME PackageInv, NEW p \in Proc, NEW f \in File, RemoveFile(p, f)
    PROVE  PackageInv'
  <1> DEFINE name == proc[p].name
             s == [op |-> "remove", name |-> name, todo |-> proc[p].todo \ {f}, read |-> proc[p].read]
  <1>1. /\ proc[p].op = "remove" /\ name \in Names /\ f \in proc[p].todo
        /\ Removes(proc[p], name, proc[p].todo, proc[p].read)
    BY AtWork DEF RemoveFile
  <1>2. proc' = [proc EXCEPT ![p] = s]
    <2>1. proc' = [proc EXCEPT ![p] = [proc[p] EXCEPT !.todo = proc[p].todo \ {f}]]
      BY DEF RemoveFile
    <2>2. [proc[p] EXCEPT !.todo = proc[p].todo \ {f}] = s
      BY <1>1 DEF Removes
    <2> QED
      BY Zenon, <2>1, <2>2
  <1>3. /\ s.op = "remove" /\ s.name = name /\ s.todo = proc[p].todo \ {f} /\ s.read = proc[p].read
        /\ s = [op |-> "remove", name |-> name, todo |-> s.todo, read |-> s.read]
    OBVIOUS
  <1> HIDE DEF s
  <1>4. ProcOk(s)
    BY <1>1, <1>3 DEF ProcOk, Removes
  <1>5. /\ proc' = [q \in Proc |-> proc'[q]]
        /\ proc'[p] = s /\ \A q \in Proc \ {p} : proc'[q] = proc[q]
    BY Zenon, <1>2, OneProcess
  <1>6. UNCHANGED <<db, unsettled, overlapped>>
    BY DEF RemoveFile
  <1>7. /\ DOMAIN overlay' = DOMAIN overlay \ {f}
        /\ \A g \in DOMAIN overlay \ {f} : overlay'[g] = overlay[g]
    BY Zenon DEF RemoveFile, Restrict
  <1>8. Snapshot(db)' /\ \A q \in Proc : ProcOk(proc[q])'
    BY <1>4, <1>5, <1>6 DEF PackageInv, Snapshot, Known, Closed
  <1>9. ASSUME ~overlapped
        PROVE  AloneOk'
    <2>1. /\ AloneOk /\ name \in unsettled /\ proc[p] # IdleProc
          /\ \A q \in Proc \ {p} : proc[q] = IdleProc
      BY <1>1, <1>9 DEF PackageInv, AloneOk, IdleProc
    <2>2. PICK a \in Archive : a.name = name /\ proc[p].read[name] = Record(a)
      BY Zenon, <1>1 DEF Removes, Snapshot, Known
    <2>3. f \in a.files
      BY <1>1, <2>2 DEF Removes, Record
    <2>4. \A q \in Proc \ {p} : proc'[q].op = "idle" /\ proc'[q] = IdleProc
      BY <1>5, <2>1 DEF IdleProc
    <2>5. ASSUME NEW n \in DOMAIN db \ unsettled, NEW g \in db[n].files \cap Own(n)
          PROVE  Whole(overlay', n, g, db[n].version)
      <3>1. g # f
        BY Zenon, <2>1, <2>2, <2>3, <2>5, OwnFile
      <3>2. Whole(overlay, n, g, db[n].version)
        BY Zenon, <2>1, <2>5 DEF AloneOk
      <3> QED
        BY Zenon, <1>7, <3>1, <3>2 DEF Whole
    <2>6. proc'[p].op = "remove" /\ proc'[p].name = name /\ proc'[p].read = db
      BY Zenon, <1>3, <1>5, <2>1 DEF AloneOk
    <2> HIDE DEF name
    <2> QED
      BY Zenon, <1>6, <2>1, <2>4, <2>5, <2>6 DEF AloneOk
  <1> QED
    BY <1>5, <1>6, <1>8, <1>9 DEF PackageInv

\* Install writes what it read with the new record, and all its files are in place.
LEMMA SaveInstallKeeps ==
    ASSUME PackageInv, NEW p \in Proc, SaveInstall(p)
    PROVE  PackageInv'
  <1> DEFINE a == proc[p].archive
             read == proc[p].read
  <1>1. /\ proc[p].op = "install" /\ a \in Archive /\ proc[p].todo = {}
        /\ Snapshot(read) /\ a.depends \subseteq DOMAIN read
    BY Zenon, AtWork DEF SaveInstall, Installs
  <1>2. /\ DOMAIN db' = DOMAIN read \cup {a.name} /\ db'[a.name] = Record(a)
        /\ \A n \in DOMAIN read \ {a.name} : db'[n] = read[n]
        /\ unsettled' = unsettled \ {a.name} /\ UNCHANGED <<overlay, overlapped>>
    BY DEF SaveInstall
  <1>3. /\ proc' = [q \in Proc |-> proc'[q]]
        /\ proc'[p] = IdleProc /\ \A q \in Proc \ {p} : proc'[q] = proc[q]
    BY Zenon, OneProcess DEF SaveInstall
  <1>4. Snapshot(db')
    <2>1. Known(db')
      BY <1>1, <1>2 DEF Snapshot, Known
    <2>2. db'[a.name].depends = a.depends
      BY <1>2 DEF Record
    <2>3. Closed(db')
      BY <1>1, <1>2, <2>2 DEF Snapshot, Closed
    <2> QED
      BY Zenon, <2>1, <2>3 DEF Snapshot
  <1>5. \A q \in Proc : ProcOk(proc'[q])
    BY Zenon, <1>3 DEF PackageInv, ProcOk
  <1>6. ASSUME ~overlapped
        PROVE  AloneOk'
    <2>1. /\ AloneOk /\ proc[p] # IdleProc /\ read = db
          /\ \A q \in Proc \ {p} : proc[q] = IdleProc
          /\ \A f \in a.files \cap Own(a.name) : Whole(overlay, a.name, f, a.version)
      BY <1>1, <1>6 DEF PackageInv, AloneOk, IdleProc
    <2>2. \A q \in Proc : proc'[q] = IdleProc /\ proc'[q].op = "idle"
      BY <1>3, <2>1 DEF IdleProc
    <2>3. ASSUME NEW n \in DOMAIN db' \ unsettled', NEW f \in db'[n].files \cap Own(n)
          PROVE  Whole(overlay, n, f, db'[n].version)
      <3>1. CASE n = a.name
        BY <1>2, <2>1, <2>3, <3>1 DEF Record
      <3>2. CASE n # a.name
        BY Zenon, <1>2, <2>1, <2>3, <3>2 DEF AloneOk
      <3> QED
        BY Zenon, <3>1, <3>2
    <2> QED
      BY Zenon, <1>2, <2>2, <2>3 DEF AloneOk
  <1> QED
    BY <1>2, <1>3, <1>4, <1>5, <1>6 DEF PackageInv, ProcOk

\* Remove writes what it read without the record, on which nothing depends.
LEMMA SaveRemoveKeeps ==
    ASSUME PackageInv, NEW p \in Proc, SaveRemove(p)
    PROVE  PackageInv'
  <1> DEFINE name == proc[p].name
             read == proc[p].read
  <1>1. proc[p].op = "remove" /\ Snapshot(read) /\ Dependents(name, read) = {}
    BY Zenon, AtWork DEF SaveRemove, Removes
  <1>2. /\ DOMAIN db' = DOMAIN read \ {name} /\ \A n \in DOMAIN db' : db'[n] = read[n]
        /\ unsettled' = unsettled \ {name} /\ UNCHANGED <<overlay, overlapped>>
    BY DEF SaveRemove, Restrict
  <1>3. /\ proc' = [q \in Proc |-> proc'[q]]
        /\ proc'[p] = IdleProc /\ \A q \in Proc \ {p} : proc'[q] = proc[q]
    BY Zenon, OneProcess DEF SaveRemove
  <1>4. Snapshot(db')
    <2>1. Known(db')
      BY Zenon, <1>1, <1>2 DEF Snapshot, Known
    <2>2. ASSUME NEW n \in DOMAIN db'
          PROVE  db'[n].depends \subseteq DOMAIN db'
      <3>1. n \in DOMAIN read /\ db'[n] = read[n]
        BY <1>2
      <3>2. read[n].depends \subseteq DOMAIN read
        BY Zenon, <1>1, <3>1 DEF Snapshot, Closed
      <3>3. name \notin read[n].depends
        BY Zenon, <1>1, <3>1 DEF Dependents
      <3> QED
        BY Zenon, <1>2, <3>1, <3>2, <3>3
    <2> QED
      BY Zenon, <2>1, <2>2 DEF Snapshot, Closed
  <1>5. \A q \in Proc : ProcOk(proc'[q])
    BY <1>3 DEF PackageInv, ProcOk
  <1>6. ASSUME ~overlapped
        PROVE  AloneOk'
    <2>1. /\ AloneOk /\ proc[p] # IdleProc /\ read = db
          /\ \A q \in Proc \ {p} : proc[q] = IdleProc
      BY <1>1, <1>6 DEF PackageInv, AloneOk, IdleProc
    <2>2. \A q \in Proc : proc'[q] = IdleProc /\ proc'[q].op = "idle"
      BY <1>3, <2>1 DEF IdleProc
    <2>3. ASSUME NEW n \in DOMAIN db' \ unsettled', NEW f \in db'[n].files \cap Own(n)
          PROVE  Whole(overlay, n, f, db'[n].version)
      BY Zenon, <1>2, <2>1, <2>3 DEF AloneOk
    <2> QED
      BY Zenon, <1>2, <2>2, <2>3 DEF AloneOk
  <1> QED
    BY <1>2, <1>3, <1>4, <1>5, <1>6 DEF PackageInv, ProcOk

\* A process that stops leaves its package unsettled.
LEMMA InterruptionKeeps ==
    ASSUME PackageInv, NEW p \in Proc, Interrupted(p)
    PROVE  PackageInv'
  <1>1. /\ proc' = [q \in Proc |-> proc'[q]]
        /\ proc'[p] = IdleProc /\ \A q \in Proc \ {p} : proc'[q] = proc[q]
    BY Zenon, OneProcess DEF Interrupted
  <1>2. UNCHANGED <<db, overlay, unsettled, overlapped>> /\ proc'[p].op = "idle"
    BY Zenon, <1>1 DEF Interrupted, IdleProc
  <1>3. Snapshot(db') /\ \A q \in Proc : ProcOk(proc'[q])
    BY Zenon, <1>1, <1>2 DEF PackageInv, ProcOk
  <1>4. AloneOk => AloneOk'
    BY Zenon, <1>1, <1>2 DEF AloneOk
  <1> QED
    BY <1>1, <1>2, <1>3, <1>4 DEF PackageInv, ProcOk

\* Every step of every process keeps the invariant.
LEMMA PackageStep == PackageInv /\ [PackageNext]_packageVars => PackageInv'
  <1> SUFFICES ASSUME PackageInv, [PackageNext]_packageVars
               PROVE  PackageInv'
    OBVIOUS
  <1>1. CASE UNCHANGED packageVars
    BY Zenon, <1>1 DEF packageVars, PackageInv, Snapshot, Known, Closed, AloneOk
  <1>2. CASE PackageNext
    BY <1>2, InstallStarts, RemoveStarts, ExtractKeeps, RemoveFileKeeps,
       SaveInstallKeeps,
       SaveRemoveKeeps, InterruptionKeeps DEF PackageNext
  <1> QED
    BY <1>1, <1>2

\* Whatever processes overlap and wherever they stop, every package of the database
\* has its dependencies in it; and as long as they do not overlap, a package whose
\* last operation finished has its own files in the overlay, all of one version.
THEOREM DatabaseTrue == PackageSpec => []DatabaseIsTrue
  <1>1. PackageInv => DatabaseIsTrue
    BY DEF PackageInv, Snapshot, Closed, AloneOk, Whole,
           DatabaseIsTrue, DependenciesInstalled, InstalledIsWhole
  <1> QED
    BY <1>1, PackageInitInv, PackageStep, PTL DEF PackageSpec

-----------------------------------------------------------------------------
(*****************************************************************************)
(* ConfigStore. The store implements the versioned configuration, and its    *)
(* history is faithful, whatever fails or stops on the way.                  *)
(*                                                                           *)
(* The inductive invariant ties three things together: the version of the    *)
(* live file counts the configurations that have been in force; the change   *)
(* in progress carries the next version (the current one once renamed) and   *)
(* the content its cause calls for; and every line of the history that       *)
(* decodes, the ones after a torn line included, has the content of its      *)
(* version, in increasing order of versions. HistoryIsFaithful alone is      *)
(* not inductive: it says nothing of the change in progress.                 *)
(*****************************************************************************)

\* A line of the history file, and the change in progress.
Line == Entry \cup {TornFile, Merged}

OpRecord == [step : {"tmp", "rename", "history"}, version : 2..MaxVersion,
             content : ValidContent,
             why : [op : {"apply", "rollback"}, of : ValidContent \cup 2..MaxVersion]]

\* The types of the variables.
TypeInv ==
    /\ live \in Entry \cup {NoFile}
    /\ history \in Seq(Line)
    /\ applied \in Seq(ValidContent)
    /\ op \in OpRecord \cup {NoOp}

\* The version in force counts the configurations that have been in force.
VersionCounts == CurrentVersion = Len(applied) + 1

\* Why the change in progress has the content it has.
CauseHolds ==
    \/ op.why = [op |-> "apply", of |-> op.content]
    \/ \E v \in 2..MaxVersion :
          /\ op.why = [op |-> "rollback", of |-> v]
          /\ v - 1 \in DOMAIN applied
          /\ op.content = applied[v - 1]

\* The change in progress is the next one, or the last one once it is renamed.
ChangeHolds ==
    op # NoOp =>
        IF op.step = "history"
        THEN op.version = Len(applied) + 1 /\ op.content = applied[Len(applied)]
        ELSE op.version = Len(applied) + 2 /\ CauseHolds

\* Every line that decodes has the content its version had.
LinesHold ==
    \A i \in DOMAIN history : history[i] \in Entry =>
        /\ history[i].version - 1 \in DOMAIN applied
        /\ history[i].content = applied[history[i].version - 1]
        /\ op # NoOp /\ op.step = "history" => history[i].version < op.version

\* The lines are in the order of their versions.
LinesAscend ==
    \A i, j \in DOMAIN history :
        i < j /\ history[i] \in Entry /\ history[j] \in Entry
        => history[i].version < history[j].version

\* The inductive invariant of the store.
ConfigInv == TypeInv /\ VersionCounts /\ ChangeHolds /\ LinesHold /\ LinesAscend

-----------------------------------------------------------------------------
\* A line that does not decode is no entry: entries have versions from 2 on.
LEMMA DistinctLines ==
    /\ TornFile \notin Entry /\ Merged \notin Entry /\ NoFile \notin Entry
    /\ NoOp \notin OpRecord
  <1>1. \A e \in Entry : e.version # 0
    BY MaxVersionIsNat DEF Entry
  <1>2. TornFile.version = 0 /\ Merged.version = 0 /\ NoFile.version = 0
    BY DEF TornFile, Merged, NoFile
  <1>3. \A o \in OpRecord : o.step # "none"
    BY DEF OpRecord
  <1>4. NoOp.step = "none"
    BY DEF NoOp
  <1> QED
    BY <1>1, <1>2, <1>3, <1>4

\* Before any change the invariant holds: there is no line and no change.
LEMMA InitEstablishes == ConfigInit => ConfigInv
  BY
     DEF ConfigInit, ConfigInv, TypeInv, VersionCounts, ChangeHolds, LinesHold,
         LinesAscend,
         CurrentVersion

\* Begin (the head of Apply and of RollbackTo) only adds the change in progress.
LEMMA BeginKeeps ==
    ASSUME ConfigInv, NEW c \in ValidContent,
           NEW why \in [op : {"apply", "rollback"}, of : ValidContent \cup 2..MaxVersion],
           Begin(c, why),
           \/ why = [op |-> "apply", of |-> c]
           \/ \E v \in 2..MaxVersion :
                 /\ why = [op |-> "rollback", of |-> v]
                 /\ v - 1 \in DOMAIN applied
                 /\ c = applied[v - 1]
    PROVE  ConfigInv'
  <1>1. CurrentVersion = Len(applied) + 1 /\ Len(applied) \in Nat
    BY DEF ConfigInv, VersionCounts, TypeInv
  <1>2. op' = [step |-> "tmp", version |-> Len(applied) + 2, content |-> c, why |-> why]
    BY <1>1 DEF Begin
  <1>3. op' \in OpRecord
    BY <1>1, <1>2, MaxVersionIsNat DEF Begin, OpRecord
  <1>4. TypeInv'
    BY Zenon, <1>3 DEF Begin, ConfigInv, TypeInv
  <1>5. VersionCounts'
    BY Zenon DEF Begin, ConfigInv, VersionCounts, CurrentVersion
  <1>6. op'.step = "tmp" /\ op'.version = Len(applied) + 2 /\ op'.content = c /\ op'.why = why
    BY Zenon, <1>2
  <1>7. ChangeHolds'
    BY Zenon, <1>6 DEF Begin, ChangeHolds, CauseHolds
  <1>8. LinesHold' /\ LinesAscend'
    BY Zenon, <1>6 DEF Begin, ConfigInv, LinesHold, LinesAscend
  <1> QED
    BY Zenon, <1>4, <1>5, <1>7, <1>8 DEF ConfigInv

\* The end of a change, whole or torn: the lines of the history that decode are
\* the ones there were, and perhaps, at the end, the one of this change.
LEMMA RecordKeeps ==
    ASSUME ConfigInv, op \in OpRecord, op.step = "history", op' = NoOp,
           UNCHANGED <<live, applied>>, history' \in Seq(Line),
           \A i \in DOMAIN history' :
              \/ i \in DOMAIN history /\ history'[i] = history[i]
              \/ history'[i] \notin Entry
              \/ /\ history'[i] = [version |-> op.version, content |-> op.content]
                 /\ i = Len(history')
    PROVE  ConfigInv'
  <1>1. TypeInv' /\ VersionCounts' /\ ChangeHolds'
    BY Zenon DEF ConfigInv, TypeInv, VersionCounts, CurrentVersion, ChangeHolds
  <1>2. /\ op # NoOp /\ op.version = Len(applied) + 1 /\ op.content = applied[Len(applied)]
        /\ op.version \in 2..MaxVersion /\ Len(applied) \in Nat /\ applied \in Seq(ValidContent)
    BY DistinctLines DEF ConfigInv, TypeInv, ChangeHolds, OpRecord
  <1>3. LinesHold'
    <2> SUFFICES ASSUME NEW i \in DOMAIN history', history'[i] \in Entry
                 PROVE  /\ history'[i].version - 1 \in DOMAIN applied
                        /\ history'[i].content = applied[history'[i].version - 1]
      BY Zenon DEF LinesHold
    <2>1. CASE i \in DOMAIN history /\ history'[i] = history[i]
      BY Zenon, <2>1 DEF ConfigInv, LinesHold
    <2>2. CASE history'[i] = [version |-> op.version, content |-> op.content]
      BY <2>2, <1>2, MaxVersionIsNat
    <2> QED
      BY Zenon, <2>1, <2>2
  <1>4. LinesAscend'
    <2> SUFFICES ASSUME NEW i \in DOMAIN history', NEW j \in DOMAIN history', i < j,
                        history'[i] \in Entry, history'[j] \in Entry
                 PROVE  history'[i].version < history'[j].version
      BY Zenon DEF LinesAscend
    <2>1. i # Len(history')
      OBVIOUS
    <2>2. i \in DOMAIN history /\ history'[i] = history[i]
      BY Zenon, <2>1
    <2>3. CASE j \in DOMAIN history /\ history'[j] = history[j]
      BY Zenon, <2>2, <2>3 DEF ConfigInv, LinesAscend
    <2>4. CASE history'[j] = [version |-> op.version, content |-> op.content]
      BY <2>2, <2>4, <1>2 DEF ConfigInv, LinesHold
    <2> QED
      BY Zenon, <2>3, <2>4
  <1> QED
    BY Zenon, <1>1, <1>3, <1>4 DEF ConfigInv

\* Each step of the store keeps the invariant.
LEMMA NextKeeps == ConfigInv /\ [ConfigNext]_configVars => ConfigInv'
  <1> SUFFICES ASSUME ConfigInv, [ConfigNext]_configVars
               PROVE  ConfigInv'
    OBVIOUS
  <1> USE DistinctLines
  <1>1. ASSUME NEW c \in ValidContent \cup InvalidContent, Apply(c)
        PROVE  ConfigInv'
    <2>1. c \in ValidContent
      BY Zenon, <1>1 DEF Apply, Validate
    <2> QED
      BY <1>1, <2>1, BeginKeeps DEF Apply
  <1>2. ASSUME NEW v \in 2..MaxVersion, RollbackTo(v)
        PROVE  ConfigInv'
    <2>1. PICK i \in Readable : /\ history[i].version = v
                                /\ Begin(history[i].content, [op |-> "rollback", of |-> v])
      BY <1>2 DEF RollbackTo
    <2>2. i \in DOMAIN history /\ history[i] \in Entry
      BY DEF Readable, ConfigInv, TypeInv, Line
    <2>3. v - 1 \in DOMAIN applied /\ history[i].content = applied[v - 1]
      BY <2>1, <2>2 DEF ConfigInv, LinesHold
    <2>4. history[i].content \in ValidContent
      BY <2>2 DEF Entry
    <2>5. [op |-> "rollback", of |-> v]
             \in [op : {"apply", "rollback"}, of : ValidContent \cup 2..MaxVersion]
      OBVIOUS
    <2> QED
      BY Zenon, <2>1, <2>3, <2>4, <2>5, BeginKeeps
  <1>3. CASE WriteTmp
    <2>1. op \in OpRecord /\ op.step = "tmp"
      BY <1>3 DEF WriteTmp, ConfigInv, TypeInv
    <2>2. /\ op' \in OpRecord /\ op'.step = "rename"
          /\ op'.version = op.version /\ op'.content = op.content /\ op'.why = op.why
      BY <1>3, <2>1 DEF WriteTmp, OpRecord
    <2>3. TypeInv' /\ VersionCounts'
      BY <1>3, <2>2 DEF WriteTmp, ConfigInv, TypeInv, VersionCounts, CurrentVersion
    <2>4. ChangeHolds'
      BY <1>3, <2>1, <2>2 DEF WriteTmp, ConfigInv, ChangeHolds, CauseHolds
    <2>5. LinesHold' /\ LinesAscend'
      BY <1>3, <2>2 DEF WriteTmp, ConfigInv, LinesHold, LinesAscend
    <2> QED
      BY <2>3, <2>4, <2>5 DEF ConfigInv
  <1>4. CASE RenameTmp
    <2>1. op \in OpRecord /\ op.step = "rename" /\ op.content \in ValidContent
      BY <1>4 DEF RenameTmp, ConfigInv, TypeInv, OpRecord
    <2>2. /\ op' \in OpRecord /\ op'.step = "history"
          /\ op'.version = op.version /\ op'.content = op.content
      BY <1>4, <2>1 DEF RenameTmp, OpRecord
    <2>3. op.version = Len(applied) + 2
      BY <2>1 DEF ConfigInv, ChangeHolds
    <2>4. /\ applied' \in Seq(ValidContent)
          /\ Len(applied') = Len(applied) + 1
          /\ applied'[Len(applied')] = op.content
          /\ \A i \in DOMAIN applied : i \in DOMAIN applied' /\ applied'[i] = applied[i]
      BY <1>4, <2>1 DEF RenameTmp, ConfigInv, TypeInv
    <2>5. live' \in Entry /\ live'.version = op.version
      BY <1>4, <2>1 DEF RenameTmp, Entry, OpRecord
    <2>6. TypeInv'
      BY Zenon, <1>4, <2>2, <2>4, <2>5 DEF RenameTmp, ConfigInv, TypeInv
    <2>7. VersionCounts'
      <3>1. Len(applied) \in Nat
        BY DEF ConfigInv, TypeInv
      <3>2. live' # NoFile
        BY Zenon, <2>5
      <3> QED
        BY <2>3, <2>4, <2>5, <3>1, <3>2 DEF VersionCounts, CurrentVersion, NoFile
    <2>8. ChangeHolds'
      <3>1. Len(applied) \in Nat
        BY DEF ConfigInv, TypeInv
      <3> QED
        BY <2>2, <2>3, <2>4, <3>1 DEF ChangeHolds
    <2>9. LinesHold'
      <3> SUFFICES ASSUME NEW i \in DOMAIN history, history[i] \in Entry
                   PROVE  /\ history[i].version - 1 \in DOMAIN applied'
                          /\ history[i].content = applied'[history[i].version - 1]
                          /\ history[i].version < op'.version
        BY Zenon, <1>4 DEF RenameTmp, LinesHold
      <3>1. /\ history[i].version - 1 \in DOMAIN applied
            /\ history[i].content = applied[history[i].version - 1]
        BY Zenon DEF ConfigInv, LinesHold
      <3>2. history[i].version \in Nat /\ history[i].version - 1 <= Len(applied)
        BY <3>1, MaxVersionIsNat DEF Entry, ConfigInv, TypeInv
      <3>3. Len(applied) \in Nat
        BY DEF ConfigInv, TypeInv
      <3> QED
        BY <2>2, <2>3, <2>4, <3>1, <3>2, <3>3
    <2>10. LinesAscend'
      BY <1>4 DEF RenameTmp, ConfigInv, LinesAscend
    <2> QED
      BY <2>6, <2>7, <2>8, <2>9, <2>10 DEF ConfigInv
  <1>5. CASE AppendHistory
    <2>1. op \in OpRecord /\ op.step = "history"
      BY Zenon, <1>5 DEF AppendHistory, ConfigInv, TypeInv
    <2>2. history \in Seq(Line) /\ Merged \in Line
          /\ [version |-> op.version, content |-> op.content] \in Line
      BY Zenon, <2>1 DEF ConfigInv, TypeInv, Line, Entry, OpRecord
    <2>3. CASE EndsTorn
      <3>1. history' = [history EXCEPT ![Len(history)] = Merged]
        BY <1>5, <2>3 DEF AppendHistory
      <3>2. Len(history) \in 1..Len(history)
        BY <2>2, <2>3 DEF EndsTorn
      <3>3. [history EXCEPT ![Len(history)] = Merged] \in Seq(Line)
        <4>1. history \in [1 .. Len(history) -> Line] /\ Len(history) \in Nat
          BY <2>2
        <4>2. [history EXCEPT ![Len(history)] = Merged] \in [1 .. Len(history) -> Line]
          BY Zenon, <2>2, <4>1
        <4> QED
          BY <4>1, <4>2
      <3>4. history' \in Seq(Line) /\ DOMAIN history' = DOMAIN history
        BY Zenon, <3>1, <3>3
      <3>5. \A i \in DOMAIN history' : \/ i \in DOMAIN history /\ history'[i] = history[i]
                                       \/ history'[i] = Merged
        BY Zenon, <2>2, <3>1, <3>4
      <3> QED
        BY Zenon, <1>5, <2>1, <3>4, <3>5, RecordKeeps DEF AppendHistory
    <2>4. CASE ~EndsTorn
      <3>1. history' = Append(history, [version |-> op.version, content |-> op.content])
        BY Zenon, <1>5, <2>4 DEF AppendHistory
      <3>2. history' \in Seq(Line) /\ Len(history') = Len(history) + 1
        BY <2>2, <3>1
      <3>3. \A i \in DOMAIN history' :
               \/ i \in DOMAIN history /\ history'[i] = history[i]
               \/ /\ history'[i] = [version |-> op.version, content |-> op.content]
                  /\ i = Len(history')
        BY <2>2, <3>1, <3>2
      <3> QED
        BY Zenon, <1>5, <2>1, <3>2, <3>3, RecordKeeps DEF AppendHistory
    <2> QED
      BY Zenon, <2>3, <2>4
  <1>6. CASE TearHistory
    <2>1. op \in OpRecord /\ op.step = "history"
      BY <1>6 DEF TearHistory, ConfigInv, TypeInv
    <2>2. history \in Seq(Line) /\ TornFile \in Line
      BY DEF ConfigInv, TypeInv, Line
    <2>3. history' \in Seq(Line)
      BY <1>6, <2>2 DEF TearHistory
    <2>4. \A i \in DOMAIN history' : \/ i \in DOMAIN history /\ history'[i] = history[i]
                                     \/ history'[i] = TornFile
      BY <1>6, <2>2 DEF TearHistory
    <2> QED
      BY Zenon, <1>6, <2>1, <2>3, <2>4, RecordKeeps DEF TearHistory
  <1>7. CASE FailOrStop
    BY Zenon, <1>7
       DEF FailOrStop, ConfigInv, TypeInv, VersionCounts, CurrentVersion, ChangeHolds,
                LinesHold, LinesAscend
  <1>8. CASE UNCHANGED configVars
    BY Zenon, <1>8
       DEF configVars, ConfigInv, TypeInv, VersionCounts, CurrentVersion, ChangeHolds,
                CauseHolds, LinesHold, LinesAscend
  <1> QED
    BY Zenon, <1>1, <1>2, <1>3, <1>4, <1>5, <1>6, <1>7, <1>8 DEF ConfigNext

-----------------------------------------------------------------------------
\* What the invariant says of the entries that readHistory returns.
LEMMA InvImplies == ConfigInv => HistoryIsFaithful
  <1> SUFFICES ASSUME ConfigInv, NEW i \in Readable
               PROVE  /\ history[i].version - 1 \in DOMAIN applied
                      /\ history[i].content = applied[history[i].version - 1]
                      /\ \A j \in 1..i - 1 : history[j].version < history[i].version
    BY DEF HistoryIsFaithful
  <1>1. \A j \in 1..i : j \in DOMAIN history /\ history[j] \in Entry
    BY DEF Readable, ConfigInv, TypeInv, Line
  <1>2. i \in 1..i /\ \A j \in 1..i - 1 : j \in 1..i /\ j < i
    BY DEF Readable, ConfigInv, TypeInv
  <1> QED
    BY Zenon, <1>1, <1>2 DEF ConfigInv, LinesHold, LinesAscend

\* Whatever fails or stops on the way, an entry that History returns holds the
\* configuration that was in force under its version, and no version is there
\* twice (store.go Apply, RollbackTo, appendHistory, readHistory).
THEOREM HistoryFaithful == ConfigSpec => []HistoryIsFaithful
  <1>1. ConfigInv => HistoryIsFaithful
    BY InvImplies
  <1> QED
    BY InitEstablishes, NextKeeps, <1>1, PTL DEF ConfigSpec

\* A step of the store is one of the versioned configuration, or leaves it alone:
\* the rename is the only step that changes what is in force.
LEMMA StepRefines == ConfigInv /\ [ConfigNext]_configVars
                     => [Abstract!VersionedNext]_(Abstract!versionedVars)
  <1> SUFFICES ASSUME ConfigInv, [ConfigNext]_configVars
               PROVE  [Abstract!VersionedNext]_(Abstract!versionedVars)
    OBVIOUS
  <1>1. CASE RenameTmp
    <2>1. /\ op \in OpRecord /\ op.step = "rename" /\ op.content \in ValidContent /\ op # NoOp
      BY <1>1 DEF RenameTmp, ConfigInv, TypeInv, OpRecord
    <2>2. op.version = Len(applied) + 2 /\ CauseHolds
      BY <2>1 DEF ConfigInv, ChangeHolds
    <2>3. Abstract!InForce(op.content)
      BY <1>1, <2>2 DEF RenameTmp, Abstract!InForce
    <2>4. CASE op.why = [op |-> "apply", of |-> op.content]
      <3>1. Abstract!Put(op.content)
        BY Zenon, <1>1, <2>3, <2>4 DEF RenameTmp, Abstract!Put
      <3> QED
        BY <2>1, <3>1 DEF Abstract!VersionedNext
    <2>5. ASSUME NEW v \in 2..MaxVersion, op.why = [op |-> "rollback", of |-> v],
                 v - 1 \in DOMAIN applied, op.content = applied[v - 1]
          PROVE  Abstract!VersionedNext
      <3>1. Abstract!Restore(v)
        BY <1>1, <2>3, <2>5 DEF RenameTmp, Abstract!Restore
      <3>2. v = (v - 1) + 1
        BY MaxVersionIsNat
      <3>3. Abstract!Restore((v - 1) + 1)
        BY <3>1, <3>2
      <3> QED
        BY <2>5, <3>3 DEF Abstract!VersionedNext
    <2> QED
      BY Zenon, <2>2, <2>4, <2>5 DEF CauseHolds
  <1>2. CASE ~RenameTmp
    BY <1>2
       DEF ConfigNext, configVars, Apply, RollbackTo, Begin, WriteTmp, AppendHistory,
                TearHistory, FailOrStop, Abstract!versionedVars
  <1> QED
    BY <1>1, <1>2

\* The configuration store implements the versioned configuration: each rename
\* puts one valid configuration in force under the next version, and a rollback
\* the one its version had (schema.go, store.go).
THEOREM StoreRefines == ConfigSpec => ImplementsVersionedConfig
  <1>1. ConfigInit => Abstract!VersionedInit
    BY DEF ConfigInit, Abstract!VersionedInit
  <1> QED
    BY InitEstablishes, NextKeeps, StepRefines, <1>1, PTL
       DEF ConfigSpec, ImplementsVersionedConfig, Abstract!VersionedSpec

-----------------------------------------------------------------------------
(*****************************************************************************)
(* Identity. The machine-id is stable for every number of attempts,          *)
(* failures, deaths and losses of power. IdentityIsStable is not             *)
(* inductive; the invariant adds that, unless a file was left with its       *)
(* directory not synced, the file is the durable one except between rename   *)
(* and sync, and holds what was returned.                                    *)
(*****************************************************************************)

\* The types of the variables.
IdTypeInv ==
    /\ idFile \in Int /\ durable \in Int /\ tmp \in Int /\ ids \in Nat
    /\ orphaned \in BOOLEAN /\ changed \in BOOLEAN
    /\ caller \in {"out", "written", "synced", "renamed"}

\* What is renamed into place is an identifier.
WholeFile ==
    /\ caller \in {"written", "synced"} => tmp > 0
    /\ caller = "renamed" => idFile > 0

\* Unless a file was left with its directory not synced, the file is the durable one
\* and holds what was returned.
DurableHolds ==
    ~orphaned =>
        /\ ~changed
        /\ caller # "renamed" => idFile = durable
        /\ returned # 0 => caller = "out" /\ idFile = returned /\ idFile > 0

\* The inductive invariant of EnsureMachineID.
IdentityInv == IdTypeInv /\ WholeFile /\ DurableHolds

\* No file or a malformed one: nothing has been returned.
LEMMA IdentityInitInv == IdentityInit => IdentityInv
  <1> SUFFICES ASSUME IdentityInit
               PROVE  IdentityInv
    OBVIOUS
  <1>1. idFile \in Int /\ durable = idFile /\ tmp \in Int /\ ids \in Nat
    BY DEF IdentityInit
  <1>2. ~orphaned /\ ~changed /\ orphaned \in BOOLEAN /\ changed \in BOOLEAN
    BY Zenon DEF IdentityInit
  <1>3. caller = "out" /\ returned = 0
    BY Zenon DEF IdentityInit
  <1> QED
    BY <1>1, <1>2, <1>3 DEF IdentityInv, IdTypeInv, WholeFile, DurableHolds

\* Each system call, failure, death and loss of power keeps the invariant.
LEMMA IdentityStep == IdentityInv /\ [IdentityNext]_identityVars => IdentityInv'
  <1> SUFFICES ASSUME IdentityInv, [IdentityNext]_identityVars
               PROVE  IdentityInv'
    OBVIOUS
  <1> USE DEF IdentityInv, IdTypeInv, WholeFile, DurableHolds
  <1>1. CASE LoadId
    BY Zenon, <1>1 DEF LoadId, Returns
  <1>2. CASE CreateId
    BY <1>2 DEF CreateId
  <1>3. CASE SyncTmp
    BY Zenon, <1>3 DEF SyncTmp
  <1>4. CASE WriteFails
    BY <1>4 DEF WriteFails
  <1>5. CASE RenameId
    BY <1>5 DEF RenameId
  <1>6. CASE SyncDir
    BY Zenon, <1>6 DEF SyncDir, Returns
  <1>7. CASE ProcessDies
    BY Zenon, <1>7 DEF ProcessDies
  <1>8. CASE PowerLost
    BY <1>8 DEF PowerLost
  <1>9. CASE UNCHANGED identityVars
    BY <1>9 DEF identityVars
  <1> QED
    BY Zenon, <1>1, <1>2, <1>3, <1>4, <1>5, <1>6, <1>7, <1>8, <1>9 DEF IdentityNext

\* Once LoadOrCreate has returned an identifier every later call returns it,
\* unless a sync of the directory failed or was cut off (identity.go,
\* atomicfile.go).
THEOREM StableIdentity == IdentitySpec => []IdentityIsStable
  <1>1. IdentityInv => IdentityIsStable
    BY DEF IdentityInv, IdTypeInv, DurableHolds, IdentityIsStable
  <1> QED
    BY IdentityInitInv, IdentityStep, <1>1, PTL DEF IdentitySpec
=============================================================================
