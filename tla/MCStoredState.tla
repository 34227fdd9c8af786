---------------------------- MODULE MCStoredState ---------------------------
(***************************************************************************)
(* The components that keep their state in files of their own and share    *)
(* none of it: configuration store, package manager, image deltas, crash   *)
(* captures, backups, the agent's provenance log, journal, machine         *)
(* identity.  A behaviour exercises one of them, so that their state       *)
(* spaces add up instead of multiplying.                                   *)
(***************************************************************************)
EXTENDS ConfigStore, PackageManager, ImageDelta, CrashCapture, Backup, Provenance, Journal,
        Identity

VARIABLE part   \* the component this behaviour is about

vars == <<part, configVars, packageVars, deltaVars, captureVars, backupVars, provenanceVars,
          journalVars, identityVars>>

Package(name, version, of, depends) ==
    [name |-> name, version |-> version, files |-> of, depends |-> depends, genuine |-> TRUE]

\* An upgrade that adds a file, which the older version installed over it drops,
\* and one that adds a dependency; a package that does not verify.
SomeArchives ==
    {Package("base", 1, {"f1"}, {}), Package("base", 2, {"f1", "f2"}, {}),
     Package("app", 1, {"f3"}, {}), Package("app", 2, {"f3"}, {"base"}),
     [Package("app", 3, {"f3"}, {}) EXCEPT !.genuine = FALSE]}

DataFiles == <<"config", "packages">>

Init ==
    /\ part \in {"config", "package", "delta", "crash", "backup", "provenance", "journal", "identity"}
    /\ ConfigInit /\ PackageInit /\ DeltaInit /\ CrashInit /\ BackupInit
    /\ ProvenanceInit /\ JournalInit /\ IdentityInit
    /\ part # "identity" => idFile = 0

Next ==
    /\ UNCHANGED part
    /\ \/ /\ part = "config" /\ ConfigNext
          /\ UNCHANGED <<packageVars, deltaVars, captureVars, backupVars, provenanceVars,
                         journalVars, identityVars>>
       \/ /\ part = "package" /\ PackageNext
          /\ UNCHANGED <<configVars, deltaVars, captureVars, backupVars, provenanceVars,
                         journalVars, identityVars>>
       \/ /\ part = "delta" /\ DeltaNext
          /\ UNCHANGED <<configVars, packageVars, captureVars, backupVars, provenanceVars,
                         journalVars, identityVars>>
       \/ /\ part = "crash" /\ CrashNext
          /\ UNCHANGED <<configVars, packageVars, deltaVars, backupVars, provenanceVars,
                         journalVars, identityVars>>
       \/ /\ part = "backup" /\ BackupNext
          /\ UNCHANGED <<configVars, packageVars, deltaVars, captureVars, provenanceVars,
                         journalVars, identityVars>>
       \/ /\ part = "provenance" /\ ProvenanceNext
          /\ UNCHANGED <<configVars, packageVars, deltaVars, captureVars, backupVars,
                         journalVars, identityVars>>
       \/ /\ part = "journal" /\ JournalNext
          /\ UNCHANGED <<configVars, packageVars, deltaVars, captureVars, backupVars,
                         provenanceVars, identityVars>>
       \/ /\ part = "identity" /\ IdentityNext
          /\ UNCHANGED <<configVars, packageVars, deltaVars, captureVars, backupVars,
                         provenanceVars, journalVars>>

\* Only the captures and the journal's follower state fairness; neither has a
\* step to take in its initial state.
Spec == Init /\ [][Next]_vars /\ CrashFairness /\ JournalFairness
=============================================================================
