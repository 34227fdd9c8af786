--------------------------- MODULE PackageManager ---------------------------
(***************************************************************************)
(* The package manager (src/services/internal/pkgmgr/installer.go, db.go,  *)
(* verify.go; nuractl pkg).  Each nuractl process reads the whole database *)
(* once, changes the overlay file by file and writes the database back,    *)
(* with nothing that excludes another process.  A process may stop, or     *)
(* meet a write error, between any two of its steps.                       *)
(*                                                                         *)
(* A file's content is the package and the version it came from.  Save is  *)
(* one step: that two processes inside it share one temporary file is not  *)
(* modelled.                                                               *)
(***************************************************************************)
EXTENDS Integers, FiniteSets, FiniteSetsExt, Functions

CONSTANTS
    Proc,      \* nuractl processes that may run at the same time
    Archive,   \* .nupkg files: [name, version, files, depends, genuine]
    File       \* overlay paths

VARIABLES
    db,        \* db.json: package name -> its record
    overlay,   \* path -> content, for the files that exist
    proc,      \* what each process is doing
    unsettled, \* history: packages whose last install or removal did not finish
    overlapped \* history: two processes have been at work at the same time

packageVars == <<db, overlay, proc, unsettled, overlapped>>

Names == {a.name : a \in Archive}
Record(a) == [version |-> a.version, files |-> a.files, depends |-> a.depends]
IdleProc == [op |-> "idle"]

PackageInit ==
    /\ db = <<>>
    /\ overlay = <<>>
    /\ proc = [p \in Proc |-> IdleProc]
    /\ unsettled = {}
    /\ overlapped = FALSE

\* OpenPackage: signature, schema and every file's digest are checked before
\* anything is written.
Opens(a) == a.genuine

DependsMet(a, known) == a.depends \subseteq known

Dependents(name, known) == {n \in DOMAIN known : name \in known[n].depends}

-----------------------------------------------------------------------------
\* Install up to the first write: verify, load the database, check the
\* dependencies against it.
StartInstall(p, a) ==
    /\ proc[p] = IdleProc
    /\ Opens(a)
    /\ DependsMet(a, DOMAIN db)
    /\ proc' = [proc EXCEPT ![p] = [op |-> "install", archive |-> a, todo |-> a.files, read |-> db]]
    /\ unsettled' = unsettled \cup {a.name}
    /\ overlapped' = (overlapped \/ \E q \in Proc : proc[q] # IdleProc)
    /\ UNCHANGED <<db, overlay>>

ExtractFile(p, f) ==
    /\ proc[p].op = "install" /\ f \in proc[p].todo
    /\ overlay' = [g \in DOMAIN overlay \cup {f} |->
                     IF g = f THEN [name |-> proc[p].archive.name, version |-> proc[p].archive.version]
                     ELSE overlay[g]]
    /\ proc' = [proc EXCEPT ![p].todo = @ \ {f}]
    /\ UNCHANGED <<db, unsettled, overlapped>>

\* A plausible slip: the record is saved before the last file is extracted.
MutSaveInstall(p) ==
    /\ proc[p].op = "install" /\ Cardinality(proc[p].todo) <= 1
    /\ LET a == proc[p].archive
       IN  /\ db' = [n \in DOMAIN proc[p].read \cup {a.name} |->
                       IF n = a.name THEN Record(a) ELSE proc[p].read[n]]
           /\ unsettled' = unsettled \ {a.name}
    /\ proc' = [proc EXCEPT ![p] = IdleProc]
    /\ UNCHANGED <<overlay, overlapped>>

\* The database as this process read it, with the new record, replaces the
\* file by a rename; the install hook runs after that.
SaveInstall(p) ==
    /\ proc[p].op = "install" /\ proc[p].todo = {}
    /\ LET a == proc[p].archive
       IN  /\ db' = [n \in DOMAIN proc[p].read \cup {a.name} |->
                       IF n = a.name THEN Record(a) ELSE proc[p].read[n]]
           /\ unsettled' = unsettled \ {a.name}
    /\ proc' = [proc EXCEPT ![p] = IdleProc]
    /\ UNCHANGED <<overlay, overlapped>>

-----------------------------------------------------------------------------
\* Remove up to its first change; the remove hook runs here.
StartRemove(p, name) ==
    /\ proc[p] = IdleProc /\ name \in DOMAIN db
    /\ Dependents(name, db) = {}
    /\ proc' = [proc EXCEPT ![p] =
                  [op |-> "remove", name |-> name, todo |-> db[name].files, read |-> db]]
    /\ unsettled' = unsettled \cup {name}
    /\ overlapped' = (overlapped \/ \E q \in Proc : proc[q] # IdleProc)
    /\ UNCHANGED <<db, overlay>>

RemoveFile(p, f) ==
    /\ proc[p].op = "remove" /\ f \in proc[p].todo
    /\ overlay' = Restrict(overlay, DOMAIN overlay \ {f})
    /\ proc' = [proc EXCEPT ![p].todo = @ \ {f}]
    /\ UNCHANGED <<db, unsettled, overlapped>>

SaveRemove(p) ==
    /\ proc[p].op = "remove" /\ proc[p].todo = {}
    /\ db' = Restrict(proc[p].read, DOMAIN proc[p].read \ {proc[p].name})
    /\ unsettled' = unsettled \ {proc[p].name}
    /\ proc' = [proc EXCEPT ![p] = IdleProc]
    /\ UNCHANGED <<overlay, overlapped>>

\* A write error or a stop: what was changed stays changed.
Interrupted(p) ==
    /\ proc[p] # IdleProc
    /\ proc' = [proc EXCEPT ![p] = IdleProc]
    /\ UNCHANGED <<db, overlay, unsettled, overlapped>>

PackageNext ==
    \E p \in Proc :
        \/ \E a \in Archive : StartInstall(p, a)
        \/ \E f \in File : ExtractFile(p, f) \/ RemoveFile(p, f)
        \/ SaveInstall(p)
        \/ \E n \in Names : StartRemove(p, n)
        \/ SaveRemove(p)
        \/ Interrupted(p)

PackageSpec == PackageInit /\ [][PackageNext]_packageVars

-----------------------------------------------------------------------------
PackageTypeOK ==
    /\ DOMAIN db \subseteq Names
    /\ \A n \in DOMAIN db : db[n] \in {Record(a) : a \in {b \in Archive : b.name = n}}
    /\ DOMAIN overlay \subseteq File
    /\ unsettled \subseteq Names

\* Every installed package has its dependencies installed: through upgrades
\* that change them, through interruptions at every step, and even when two
\* processes overwrite each other's database (installer.go:60-65, 112,
\* 124-127), because each writes a closed snapshot back.
DependenciesInstalled ==
    \A n \in DOMAIN db : db[n].depends \subseteq DOMAIN db

\* The paths that no archive of another package brings.
Own(name) == {f \in File : \A a \in Archive : f \in a.files => a.name = name}

\* A package whose last install completed has every file of its record in the
\* overlay, all of the recorded version: never a mixture of two versions.
\* This needs processes that do not overlap (installer.go takes no lock) and
\* paths that no other package brings (it overwrites what it finds).
InstalledIsWhole ==
    ~overlapped => \A n \in DOMAIN db \ unsettled : \A f \in db[n].files \cap Own(n) :
        /\ f \in DOMAIN overlay
        /\ overlay[f] = [name |-> n, version |-> db[n].version]

\* The two together: what the database says of a package is true of the overlay
\* and of its dependencies.
DatabaseIsTrue == InstalledIsWhole /\ DependenciesInstalled
=============================================================================
