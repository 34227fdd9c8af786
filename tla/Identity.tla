------------------------------ MODULE Identity ------------------------------
(***************************************************************************)
(* The machine-id (src/services/internal/identity) and the atomic file     *)
(* write under it (src/services/internal/atomicfile), with failures of     *)
(* each system call, deaths of the process between two of them, and losses *)
(* of power, which undo a rename whose directory was not synced.           *)
(*                                                                         *)
(* The manager calls LoadOrCreate before it starts any service, and the    *)
(* gateway is a service: the callers come one after the other.             *)
(***************************************************************************)
EXTENDS Integers

CONSTANTS
    MaxIds      \* bound on the identifiers generated

ASSUME IdentityAssumption == MaxIds \in Nat

VARIABLES
    idFile,     \* what a read of the file finds: 0 for no file, -1 for a malformed one
    durable,    \* what a read finds after a loss of power
    tmp,        \* what the temporary file holds
    caller,     \* where LoadOrCreate is
    ids,        \* identifiers generated so far
    returned,   \* history: the identifier last returned by LoadOrCreate
    changed,    \* history: a call returned another identifier than the call before
    orphaned    \* history: a file was left in place with its directory not synced

identityVars == <<idFile, durable, tmp, caller, ids, returned, changed, orphaned>>

IdentityInit ==
    /\ idFile \in {0, -1} /\ durable = idFile
    /\ tmp = 0 /\ caller = "out"
    /\ ids = 0 /\ returned = 0 /\ changed = FALSE /\ orphaned = FALSE

Returns(id) ==
    /\ changed' = (changed \/ (returned # 0 /\ returned # id))
    /\ returned' = id
    /\ caller' = "out"

\* The file holds an identifier of the right length: it is returned.
LoadId ==
    /\ caller = "out" /\ idFile > 0
    /\ Returns(idFile)
    /\ UNCHANGED <<idFile, durable, tmp, ids, orphaned>>

\* It does not: generate one. CreateTemp and Write follow.
CreateId ==
    /\ caller = "out" /\ idFile <= 0 /\ ids < MaxIds
    /\ ids' = ids + 1
    /\ tmp' = ids + 1
    /\ caller' = "written"
    /\ UNCHANGED <<idFile, durable, returned, changed, orphaned>>

SyncTmp ==
    /\ caller = "written"
    /\ caller' = "synced"
    /\ UNCHANGED <<idFile, durable, tmp, ids, returned, changed, orphaned>>

\* Any call before the rename fails: the temporary file is removed.
WriteFails ==
    /\ caller \in {"written", "synced"}
    /\ tmp' = 0
    /\ caller' = "out"
    /\ UNCHANGED <<idFile, durable, ids, returned, changed, orphaned>>

\* The kernel may write the directory back on its own at any time.
RenameId ==
    /\ caller = "synced"
    /\ idFile' = tmp
    /\ tmp' = 0
    /\ durable' \in {durable, tmp}
    /\ caller' = "renamed"
    /\ UNCHANGED <<ids, returned, changed, orphaned>>

\* A plausible slip: Write returns without syncing the directory.
MutSyncDir ==
    /\ caller = "renamed"
    /\ Returns(idFile)
    /\ UNCHANGED <<idFile, durable, tmp, ids, orphaned>>

\* Best-effort: a directory that cannot be opened or synced is no error.
SyncDir ==
    /\ caller = "renamed"
    /\ \/ durable' = idFile /\ UNCHANGED orphaned
       \/ orphaned' = TRUE /\ UNCHANGED durable
    /\ Returns(idFile)
    /\ UNCHANGED <<idFile, tmp, ids>>

ProcessDies ==
    /\ caller # "out"
    /\ orphaned' = (orphaned \/ caller = "renamed")
    /\ caller' = "out"
    /\ UNCHANGED <<idFile, durable, tmp, ids, returned, changed>>

PowerLost ==
    /\ idFile' = durable
    /\ caller' = "out" /\ tmp' = 0
    /\ UNCHANGED <<durable, ids, returned, changed, orphaned>>

IdentityNext ==
    \/ LoadId \/ CreateId \/ SyncTmp \/ WriteFails \/ RenameId \/ SyncDir \/ ProcessDies \/ PowerLost

IdentitySpec == IdentityInit /\ [][IdentityNext]_identityVars

-----------------------------------------------------------------------------
\* Once LoadOrCreate has returned an identifier, every later call returns the
\* same one, across deaths of its callers and losses of power (identity.go:26-49,
\* atomicfile.go:27-70).  The exception: when the sync of the directory fails, or
\* the process dies before it, the file is returned without having been synced.
IdentityIsStable == changed => orphaned
=============================================================================
