---------------------------- MODULE SystemUpdate ----------------------------
(***************************************************************************)
(* A/B system updates: services/internal/update (transaction.go and        *)
(* recovery.go), the nuractl commands "update" and "history" that call it, *)
(* and CheckRecovery at boot.  Everything a power loss leaves is in the    *)
(* disk variables; the files are written by rename, so that each write is  *)
(* one step, and power may fail between any two of them.                   *)
(*                                                                         *)
(* An image is the number of the transaction that brought it; the factory  *)
(* image is 0.  mismatched holds the transactions whose image does not     *)
(* have the SHA-256 the caller gave.                                       *)
(***************************************************************************)
EXTENDS VersionHistory

CONSTANTS Cli,         \* nuractl processes
          MaxTx,       \* bound on transactions
          MaxEntries,  \* the cap of the history
          MayClear     \* an operator may delete tx.json by hand

ASSUME UpdateConfig ==
    /\ MaxTx \in Nat \ {0}
    /\ MaxEntries \in Nat \ {0}
    /\ MayClear \in BOOLEAN

Slots == {"a", "b"}
TxIds == 1 .. MaxTx
NoImage == MaxTx + 1
Other(s) == IF s = "a" THEN "b" ELSE "a"

VARIABLES
    slot,        \* disk: the active-slot file
    image,       \* disk: what each rootfs-<slot>.ext4 holds
    tx,          \* disk: tx.json
    staged,      \* disk: transactions with a staged image
    history,     \* disk: history.json
    booted,      \* the slot the system runs from
    recovered,   \* CheckRecovery has run since boot
    cli,         \* the nuractl processes
    next,        \* the number of the next transaction
    mismatched,  \* transactions with a wrong SHA-256
    was,         \* for each transaction, the image that was active before it
    overlapped   \* transactions that ran while another did

vars == <<slot, image, tx, staged, history, booted, recovered, cli, next,
          mismatched, was, overlapped>>
disk == <<slot, image, tx, staged, history>>
run == <<booted, recovered, next, mismatched, was, overlapped>>

NoTx == [state |-> "none", id |-> 0, target |-> "a", health |-> "none"]
InProgress == {"staging", "verifying"}
Idle == [pc |-> "idle", id |-> 0, active |-> "a", delta |-> FALSE, hist |-> <<>>]

Init ==
    /\ slot = "a" /\ booted = "a" /\ recovered = TRUE
    /\ image = [s \in Slots |-> IF s = "a" THEN 0 ELSE NoImage]
    /\ tx = NoTx /\ staged = {} /\ history = <<>>
    /\ cli = [p \in Cli |-> Idle]
    /\ next = 1 /\ mismatched = {}
    /\ was = [i \in TxIds |-> NoImage] /\ overlapped = {}

At(p, pc) == cli[p].pc = pc
Goto(p, pc) == cli' = [cli EXCEPT ![p].pc = pc]
Ends(p) == cli' = [cli EXCEPT ![p] = Idle]
Target(p) == Other(cli[p].active)
\* saveTx of the record process p holds.
Saved(p, state, health) ==
    [state |-> state, id |-> cli[p].id, target |-> Target(p), health |-> health]
\* abortTx: the staged image and its directory go, the record stays.
Aborted(rec) ==
    /\ staged' = staged \ {rec.id}
    /\ tx' = [rec EXCEPT !.state = "aborted"]
-----------------------------------------------------------------------------
(* Apply, run by "nuractl update apply" and, through ApplyDelta, by        *)
(* "nuractl update delta-apply".                                           *)

\* A new command finds no transaction record.
ApplyBegin(p) ==
    /\ recovered /\ At(p, "idle")
    /\ next <= MaxTx
    /\ tx.state = "none"
    /\ next' = next + 1
    /\ \E bad, delta \in BOOLEAN :
         /\ ~(bad /\ delta)  \* delta.Apply has checked its result itself
         /\ mismatched' = IF bad THEN mismatched \cup {next} ELSE mismatched
         /\ cli' = [cli EXCEPT ![p] = [Idle EXCEPT !.pc = "slot", !.id = next, !.delta = delta]]
    /\ LET others == {cli[q].id : q \in Cli} \ {0}
       IN overlapped' = overlapped \cup others \cup (IF others = {} THEN {} ELSE {next})
    /\ UNCHANGED <<disk, booted, recovered, was>>

\* ErrTxExists: the command ends; the number it would have had is skipped.
ApplyRefused(p) ==
    /\ recovered /\ At(p, "idle")
    /\ next <= MaxTx
    /\ tx.state # "none"
    /\ next' = next + 1
    /\ UNCHANGED <<disk, booted, recovered, mismatched, was, overlapped, cli>>

ReadSlot(p) ==
    /\ At(p, "slot")
    /\ cli' = [cli EXCEPT ![p].pc = "begin", ![p].active = slot]
    /\ was' = [was EXCEPT ![cli[p].id] = image[slot]]
    /\ UNCHANGED <<disk, booted, recovered, next, mismatched, overlapped>>

BeginTx(p) ==
    /\ At(p, "begin")
    /\ tx' = Saved(p, "staging", "none")
    /\ Goto(p, "stage")
    /\ UNCHANGED <<slot, image, staged, history, run>>

StageImage(p) ==
    /\ At(p, "stage")
    /\ staged' = staged \cup {cli[p].id}
    /\ Goto(p, "verify")
    /\ UNCHANGED <<slot, image, tx, history, run>>

\* The copy of the image fails.
StageFails(p) ==
    /\ At(p, "stage")
    /\ Aborted(Saved(p, "staging", "none"))
    /\ Ends(p)
    /\ UNCHANGED <<slot, image, history, run>>

MutVerifyAcceptsAll(p) ==
    /\ At(p, "verify")
    /\ tx' = Saved(p, "verifying", "none")
    /\ Goto(p, "snapshot")
    /\ UNCHANGED <<slot, image, staged, history, run>>

\* The state is saved before the digests are compared.
Verify(p) ==
    /\ At(p, "verify")
    /\ tx' = Saved(p, "verifying", "none")
    /\ Goto(p, IF cli[p].id \in mismatched THEN "reject" ELSE "snapshot")
    /\ UNCHANGED <<slot, image, staged, history, run>>

Reject(p) ==
    /\ At(p, "reject")
    /\ Aborted(Saved(p, "verifying", "none"))
    /\ Ends(p)
    /\ UNCHANGED <<slot, image, history, run>>

Snapshot(p) ==
    /\ At(p, "snapshot")
    /\ tx' = Saved(p, "verifying", cli[p].active)
    /\ Goto(p, "replace")
    /\ UNCHANGED <<slot, image, staged, history, run>>

\* atomicReplace renames the staged image over the inactive slot's.
Replace(p) ==
    /\ At(p, "replace")
    /\ cli[p].id \in staged
    /\ image' = [image EXCEPT ![Target(p)] = cli[p].id]
    /\ Goto(p, "flip")
    /\ UNCHANGED <<slot, tx, staged, history, run>>

\* The rename fails, for one because an abort deleted the staged image.
ReplaceFails(p) ==
    /\ At(p, "replace")
    /\ Aborted(Saved(p, "verifying", cli[p].active))
    /\ Ends(p)
    /\ UNCHANGED <<slot, image, history, run>>

Flip(p) ==
    /\ At(p, "flip")
    /\ slot' = Target(p)
    /\ Goto(p, "commit")
    /\ UNCHANGED <<image, tx, staged, history, run>>

\* The slot file cannot be written: the record is left as it is.
FlipFails(p) ==
    /\ At(p, "flip")
    /\ Ends(p)
    /\ UNCHANGED <<disk, run>>

CommitTx(p) ==
    /\ At(p, "commit")
    /\ tx' = Saved(p, "committed", cli[p].active)
    /\ Goto(p, "clean")
    /\ UNCHANGED <<slot, image, staged, history, run>>

\* RemoveAll of the staging directory; only "apply" goes on to the history.
CleanUp(p) ==
    /\ At(p, "clean")
    /\ staged' = staged \ {cli[p].id}
    /\ IF cli[p].delta THEN Ends(p) ELSE Goto(p, "load")
    /\ UNCHANGED <<slot, image, tx, history, run>>

\* Store.Add: load, append and prune, save.
LoadHistory(p) ==
    /\ At(p, "load")
    /\ cli' = [cli EXCEPT ![p].pc = "save",
                          ![p].hist = Added(history,
                              [id |-> cli[p].id, slot |-> Target(p), good |-> FALSE],
                              MaxEntries)]
    /\ UNCHANGED <<disk, run>>

SaveHistory(p) ==
    /\ At(p, "save")
    /\ history' = cli[p].hist
    /\ Ends(p)
    /\ UNCHANGED <<slot, image, tx, staged, run>>

ApplyStep(p) ==
    \/ ReadSlot(p) \/ BeginTx(p) \/ StageImage(p) \/ StageFails(p)
    \/ Verify(p) \/ Reject(p) \/ Snapshot(p) \/ Replace(p) \/ ReplaceFails(p)
    \/ Flip(p) \/ FlipFails(p) \/ CommitTx(p) \/ CleanUp(p)
    \/ LoadHistory(p) \/ SaveHistory(p)
-----------------------------------------------------------------------------
(* The other commands.                                                     *)

\* "update abort", whatever state the record is in.
Abort(p) ==
    /\ recovered /\ At(p, "idle")
    /\ tx.state # "none"
    /\ Aborted(tx)
    /\ UNCHANGED <<slot, image, history, run, cli>>

MutRollbackToTarget(p) ==
    /\ recovered /\ At(p, "idle")
    /\ tx.state = "committed" /\ tx.health # "none"
    /\ slot' = tx.target
    /\ UNCHANGED <<image, tx, staged, history, run, cli>>

\* "update rollback": RollbackLastUpdate.
RollbackLastUpdate(p) ==
    /\ recovered /\ At(p, "idle")
    /\ tx.state = "committed" /\ tx.health # "none"
    /\ slot' = tx.health
    /\ UNCHANGED <<image, tx, staged, history, run, cli>>

\* "history mark-good": load, mark, save.
LoadMarked(p) ==
    /\ recovered /\ At(p, "idle")
    /\ \E i \in TxIds :
         /\ Has(history, i)
         /\ cli' = [cli EXCEPT ![p] =
                        [Idle EXCEPT !.pc = "save", !.hist = MarkedGood(history, i)]]
    /\ UNCHANGED <<disk, run>>

\* "history prune" with some cap.
LoadPruned(p) ==
    /\ recovered /\ At(p, "idle")
    /\ \E max \in 1 .. MaxEntries :
         cli' = [cli EXCEPT ![p] =
                    [Idle EXCEPT !.pc = "save", !.hist = Prune(history, max)]]
    /\ UNCHANGED <<disk, run>>

\* "history rollback": RollbackTo writes the slot, then adds an entry whose
\* own number is new (here 0: no command names it).
HistoryRollback(p) ==
    /\ recovered /\ At(p, "idle")
    /\ \E i \in TxIds :
         /\ Has(history, i)
         /\ slot' = Entry(history, i).slot
         /\ cli' = [cli EXCEPT ![p] = [Idle EXCEPT !.pc = "loadback",
                                          !.active = Other(Entry(history, i).slot)]]
    /\ UNCHANGED <<image, tx, staged, history, run>>

LoadRollback(p) ==
    /\ At(p, "loadback")
    /\ cli' = [cli EXCEPT ![p].pc = "save",
                          ![p].hist = Added(history,
                              [id |-> 0, slot |-> Target(p), good |-> FALSE], MaxEntries)]
    /\ UNCHANGED <<disk, run>>
-----------------------------------------------------------------------------
(* The world.                                                              *)

\* Power fails, or the system reboots: processes are gone, the files stay,
\* and the boot script starts the active slot.
Reboot ==
    /\ cli' = [p \in Cli |-> Idle]
    /\ booted' = slot
    /\ recovered' = FALSE
    /\ UNCHANGED <<disk, next, mismatched, was, overlapped>>

\* CheckRecovery, as nura-manager starts.
CheckRecovery ==
    /\ ~recovered
    /\ recovered' = TRUE
    /\ IF tx.state \in InProgress THEN Aborted(tx) ELSE UNCHANGED <<tx, staged>>
    /\ UNCHANGED <<slot, image, history, booted, cli, next, mismatched, was,
                   overlapped>>

ClearRecord ==
    /\ MayClear
    /\ tx.state \in {"committed", "aborted"}
    /\ tx' = NoTx
    /\ UNCHANGED <<slot, image, staged, history, run, cli>>

Next ==
    \/ \E p \in Cli :
         \/ ApplyBegin(p) \/ ApplyRefused(p) \/ ApplyStep(p)
         \/ Abort(p) \/ RollbackLastUpdate(p)
         \/ LoadMarked(p) \/ LoadPruned(p) \/ HistoryRollback(p) \/ LoadRollback(p)
    \/ Reboot \/ CheckRecovery \/ ClearRecord

Spec == Init /\ [][Next]_vars
-----------------------------------------------------------------------------
Pcs == {"idle", "slot", "begin", "stage", "verify", "reject", "snapshot", "replace",
        "flip", "commit", "clean", "load", "save", "loadback"}
Entries == [id : 0 .. MaxTx, slot : Slots, good : BOOLEAN]

\* The history keeps to its cap, the record and the files to their forms.
TypeOK ==
    /\ slot \in Slots /\ booted \in Slots /\ recovered \in BOOLEAN
    /\ image \in [Slots -> 0 .. MaxTx + 1]
    /\ tx \in [state : {"none", "staging", "verifying", "committed", "aborted"},
               id : 0 .. MaxTx, target : Slots, health : Slots \cup {"none"}]
    /\ staged \subseteq TxIds /\ mismatched \subseteq TxIds /\ overlapped \subseteq TxIds
    /\ Len(history) <= MaxEntries
    /\ \A i \in DOMAIN history : history[i] \in Entries
    /\ \A p \in Cli : cli[p].pc \in Pcs /\ cli[p].id \in 0 .. MaxTx /\ cli[p].active \in Slots
    /\ next \in 1 .. MaxTx + 1
    /\ was \in [TxIds -> 0 .. MaxTx + 1]

\* docs/updates.md: "Verify before committing".  Whatever commands overlap and
\* wherever power fails, the active slot holds an image, and one that passed
\* its SHA-256 check.
ActiveIsVerified == image[slot] # NoImage /\ image[slot] \notin mismatched

\* CheckRecovery: an update that was interrupted while staging does not stay
\* in progress: once the boot check has run, a record in state staging belongs
\* to a command that is still at work.
NoOrphanStaging ==
    recovered /\ tx.state = "staging" => \E p \in Cli : cli[p].id = tx.id

\* The two together: whatever overlaps and wherever power fails, the machine has
\* a verified image to run and no update that nobody will finish.
UpdatesAreSound == ActiveIsVerified /\ NoOrphanStaging

\* RollbackLastUpdate "reverts the active slot to the pre-update slot": the
\* image that becomes active is the one that was before the update, unless two
\* updates overlapped (Apply's test for tx.json does not keep them apart).
RollbackRestores ==
    [][(\E p \in Cli : RollbackLastUpdate(p)) /\ tx.id \notin overlapped
         => image'[slot'] = was[tx.id]]_vars

\* docs/updates.md: "stable known-good markers survive": what a command is
\* about to save has the same latest known-good entry as what it read, or the
\* one it has just marked; LatestKnownGood is never pruned away.
LatestGoodKept ==
    [][\A p \in Cli : cli[p].pc # "save" /\ cli'[p].pc = "save" =>
         LET old == LatestKnownGood(history)
             new == LatestKnownGood(cli'[p].hist)
         IN old # 0 => new # 0 /\ (cli[p].pc # "idle" => cli'[p].hist[new] = history[old])]_vars

\* docs/updates.md: "If anything fails before the commit, the running slot is
\* untouched": the image of the slot the system runs from is not replaced.
RunningUntouched == [][image'[booted] = image[booted]]_vars

\* ErrTxExists "is returned when a transaction is already in progress".
RefusedOnlyInProgress ==
    [][(\E p \in Cli : ApplyRefused(p)) => tx.state \in InProgress]_vars

\* CheckRecovery: "The active slot was NOT changed, so the system is still on
\* the pre-update slot": a transaction it aborts has not flipped the slot.
AbortedIsNotActive ==
    [][CheckRecovery /\ tx.state \in InProgress => slot # tx.target]_vars

\* Abort "cancels the current in-progress transaction": the update does not
\* become active after "update abort" marked it aborted.
AbortIsFinal ==
    [][tx.state = "aborted" => ~(slot' # slot /\ \E p \in Cli : cli[p].id = tx.id /\ Flip(p))]_vars

\* docs/updates.md: "enables rollback to any prior state": a rollback to the
\* entry of an update makes that update's image active.
HistoryRestores ==
    [][\A p \in Cli : cli[p].pc = "idle" /\ cli'[p].pc = "loadback"
         => \E i \in TxIds : Has(history, i) /\ image'[slot'] = i]_vars

\* docs/updates.md: "Every successful update (full image or delta) appends an
\* entry": no command of its own process ends after a commit without one.
CommitIsRecorded ==
    [][\A p \in Cli : cli[p].pc \in {"clean", "save"} /\ cli[p].id # 0 /\ cli'[p] = Idle
                      /\ recovered'
         => Has(history', cli[p].id)]_vars
=============================================================================
