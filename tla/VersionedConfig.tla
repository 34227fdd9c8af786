-------------------------- MODULE VersionedConfig --------------------------
(***************************************************************************)
(* What the configuration store promises                                   *)
(* (src/services/internal/configmgr/schema.go:5-7, 63; store.go:68, 111):  *)
(* the configuration in force changes by whole, valid configurations, each *)
(* with the next version number, and a rollback to a version puts the      *)
(* configuration of that version in force again.                           *)
(***************************************************************************)
EXTENDS Integers, Sequences

CONSTANTS
    ValidContent,   \* configurations that Validate accepts
    Default         \* the configuration in force before any change

VARIABLES
    log,     \* log[i] is the content of version i + 1; version 1 is the default
    current, \* the configuration in force, with its version
    cause    \* why the last version came into force

versionedVars == <<log, current, cause>>

VersionedInit ==
    /\ log = <<>>
    /\ current = Default
    /\ cause = [op |-> "default", of |-> 1]

InForce(c) ==
    /\ log' = Append(log, c)
    /\ current' = [version |-> Len(log) + 2, content |-> c]

Put(c) ==
    /\ InForce(c)
    /\ cause' = [op |-> "apply", of |-> c]

Restore(v) ==
    /\ v - 1 \in DOMAIN log
    /\ InForce(log[v - 1])
    /\ cause' = [op |-> "rollback", of |-> v]

VersionedNext ==
    \/ \E c \in ValidContent : Put(c)
    \/ \E i \in DOMAIN log : Restore(i + 1)

VersionedSpec == VersionedInit /\ [][VersionedNext]_versionedVars
=============================================================================
