---------------------------- MODULE ConfigStore ----------------------------
(***************************************************************************)
(* The configuration store (src/services/internal/configmgr/store.go,      *)
(* schema.go).  Apply and RollbackTo hold the store's mutex throughout, so *)
(* one of them runs at a time, but each makes three changes on disk (the   *)
(* temporary file, the rename, the history line) and may fail at, or the   *)
(* process stop between, any two of them.                                  *)
(*                                                                         *)
(* A write cut short leaves a piece of a line without its newline          *)
(* (TornFile), with which the next line runs together (Merged);            *)
(* readHistory stops at the first line it cannot decode.  Power loss,      *)
(* after which the renamed file may be empty, is not modelled.             *)
(***************************************************************************)
EXTENDS Integers, Sequences

CONSTANTS
    ValidContent,    \* configurations Validate accepts
    InvalidContent,  \* configurations it rejects
    MaxVersion       \* bound on the versions of a behaviour

ASSUME MaxVersionIsNat == MaxVersion \in Nat

VARIABLES
    live,     \* nura.json: a configuration, or NoFile
    history,  \* the lines of history.jsonl
    op,       \* the change in progress, or NoOp
    applied,  \* history variable: the contents that have been in force
    cause     \* history variable: the operation that changed live last

configVars == <<live, history, op, applied, cause>>

NoFile == [version |-> 0, content |-> "absent"]
NoOp == [step |-> "none"]
TornFile == [version |-> 0, content |-> "torn"]
Merged == [version |-> 0, content |-> "merged"]
Entry == [version : 2..MaxVersion, content : ValidContent]

ConfigInit ==
    /\ live = NoFile
    /\ history = <<>>
    /\ op = NoOp
    /\ applied = <<>>
    /\ cause = [op |-> "default", of |-> 1]

\* loadLocked: without a file the default configuration, whose version is 1.
CurrentVersion == IF live = NoFile THEN 1 ELSE live.version

\* What readHistory returns: the entries before the first line that does not
\* decode, by their places.
Readable == {i \in DOMAIN history : \A j \in 1..i : history[j] \notin {TornFile, Merged}}

Begin(content, why) ==
    /\ op = NoOp
    /\ CurrentVersion < MaxVersion
    /\ op' = [step |-> "tmp", version |-> CurrentVersion + 1,
              content |-> content, why |-> why]
    /\ UNCHANGED <<live, history, applied, cause>>

-----------------------------------------------------------------------------
Validate(c) == c \in ValidContent

Apply(c) == Validate(c) /\ Begin(c, [op |-> "apply", of |-> c])

\* The first entry with the version is taken; an unknown version is an error.
MutRollbackTo(v) ==
    \E i \in Readable :
        /\ i = v - 1
        /\ Validate(history[i].content)
        /\ Begin(history[i].content, [op |-> "rollback", of |-> v])

RollbackTo(v) ==
    \E i \in Readable :
        /\ history[i].version = v
        /\ \A j \in 1..i - 1 : history[j].version # v
        /\ Validate(history[i].content)
        /\ Begin(history[i].content, [op |-> "rollback", of |-> v])

WriteTmp ==
    /\ op # NoOp /\ op.step = "tmp"
    /\ op' = [op EXCEPT !.step = "rename"]
    /\ UNCHANGED <<live, history, applied, cause>>

RenameTmp ==
    /\ op # NoOp /\ op.step = "rename"
    /\ live' = [version |-> op.version, content |-> op.content]
    /\ op' = [op EXCEPT !.step = "history"]
    /\ applied' = Append(applied, op.content)
    /\ cause' = op.why
    /\ UNCHANGED history

\* A plausible slip: the entry is given the version it was read from, or the
\* one the caller put in the configuration, instead of the new one.
MutAppendHistory ==
    /\ op # NoOp /\ op.step = "history"
    /\ history' = Append(history, [version |-> op.version - 1, content |-> op.content])
    /\ op' = NoOp
    /\ UNCHANGED <<live, applied, cause>>

\* After a torn line the new one is part of it.
EndsTorn == history # <<>> /\ history[Len(history)] = TornFile
AppendHistory ==
    /\ op # NoOp /\ op.step = "history"
    /\ history' = IF EndsTorn THEN [history EXCEPT ![Len(history)] = Merged]
                  ELSE Append(history, [version |-> op.version, content |-> op.content])
    /\ op' = NoOp
    /\ UNCHANGED <<live, applied, cause>>

\* The write of the history line is cut short, by an error or by a stop.
TearHistory ==
    /\ op # NoOp /\ op.step = "history"
    /\ history' = IF EndsTorn THEN history ELSE Append(history, TornFile)
    /\ op' = NoOp
    /\ UNCHANGED <<live, applied, cause>>

\* An error before the step takes effect, or a stop of the process: the
\* operation is over, and the temporary file, if any, is overwritten next time.
FailOrStop ==
    /\ op # NoOp
    /\ op' = NoOp
    /\ UNCHANGED <<live, history, applied, cause>>

ConfigNext ==
    \/ \E c \in ValidContent \cup InvalidContent : Apply(c)
    \/ \E v \in 2..MaxVersion : RollbackTo(v)
    \/ WriteTmp
    \/ RenameTmp
    \/ AppendHistory
    \/ TearHistory
    \/ FailOrStop

ConfigSpec == ConfigInit /\ [][ConfigNext]_configVars

-----------------------------------------------------------------------------
ConfigTypeOK ==
    /\ live \in Entry \cup {NoFile}
    /\ history \in Seq(Entry \cup {TornFile, Merged})
    /\ op # NoOp => op.step \in {"tmp", "rename", "history"} /\ op.version \in 2..MaxVersion

\* Whatever failed or was torn on the way, an entry that History returns holds
\* the configuration that was in force under its version, and versions go up:
\* RollbackTo never finds one version twice (store.go:105-143, 170-193).
HistoryIsFaithful ==
    \A i \in Readable :
        /\ history[i].version - 1 \in DOMAIN applied
        /\ history[i].content = applied[history[i].version - 1]
        /\ \A j \in 1..i - 1 : history[j].version < history[i].version

\* The store implements the versioned configuration: each rename puts one
\* valid configuration in force under the next version, and a rollback the one
\* its version had, although entries may be missing from the history.
Abstract == INSTANCE VersionedConfig WITH log <- applied, current <- live, Default <- NoFile
ImplementsVersionedConfig == Abstract!VersionedSpec

\* schema.go:5-6: "Each successful apply is appended to the history log".
SuccessIsRecorded ==
    [][AppendHistory
       => \E i \in Readable' : history'[i].version = op.version]_configVars
=============================================================================
