---------------------------- MODULE UpdaterEngine ----------------------------
(***************************************************************************)
(* The updater's transaction engine (src-tauri/src/updater_engine): what an *)
(* install, a recovery and a health commit leave on the disk when the       *)
(* process may die, or an operation fail, at any point of any of them.      *)
(*                                                                          *)
(* A file operation is one step with two outcomes, done or cut short: the   *)
(* Rust calls behind it (std::fs::write truncates, remove_dir_all and       *)
(* copy_dir_all go file by file) are not atomic.  Whether the cut was an    *)
(* error, which every caller passes up with `?`, or the end of the process  *)
(* is the same to the disk: no call is running afterwards.                  *)
(*                                                                          *)
(* The caller is external (nothing in src/ calls the engine yet) and does   *)
(* what its comments say: run_recovery at a start that finds a state.json,  *)
(* commit_health from the new version, run_install after a settled          *)
(* transaction.  RetryFirst lets it install again before the recovery.      *)
(***************************************************************************)
EXTENDS Naturals

CONSTANTS
  Versions,      \* what a whole bundle can contain
  Absent,        \* there is nothing at the path
  Partial,       \* a bundle only part of which is there
  Missing,       \* no state.json
  Torn,          \* a state.json that does not parse
  NoPath,        \* backup_path: None
  Faults,        \* the fault points of run_install that are armed
  RetryFirst     \* the caller may run_install again before run_recovery

VARIABLES
  current,       \* the bundle at current_path
  staged,        \* the bundles at staged/<version>
  backup,        \* the bundles at backup/<version>
  file,          \* updater/state.json
  tx,            \* the UpdateState in the memory of the running call
  pc             \* what the running call does next; "none" when none runs

vars == <<current, staged, backup, file, tx, pc>>

\* The phases state.json can hold; RollingBack only reaches the journal.
Phases == {"idle", "downloading", "downloaded", "verifying", "verified", "staging",
           "backing_up", "installing", "pending_health", "committed",
           "recovery_required", "rolled_back", "failed_safe"}

Content == Versions \cup {Absent, Partial}

\* The fields of UpdateState that anything reads back.
UpdateState == [phase : Phases, from : Versions, to : Versions,
                backup : Versions \cup {NoPath}, committed : BOOLEAN]

ASSUME UpdaterAssumption ==
  /\ {Absent, Partial, NoPath} \cap Versions = {}
  /\ Absent # Partial
  /\ Missing \notin UpdateState /\ Torn \notin UpdateState
  /\ RetryFirst \in BOOLEAN

Readable == file \in UpdateState

\* The phases in which run_recovery has nothing to do.
Settled == {"idle", "committed", "rolled_back", "failed_safe"}

Init ==
  /\ current \in Versions
  /\ staged = [v \in Versions |-> Absent]
  /\ backup = [v \in Versions |-> Absent]
  /\ file = Missing
  /\ tx = Missing
  /\ pc = "none"

-----------------------------------------------------------------------------
(* The file operations.                                                     *)

\* write_state: state.json is s, or the write is cut and it is torn.
WriteState(s, next) ==
  \/ file' = s /\ tx' = (IF next = "none" THEN Missing ELSE s) /\ pc' = next
  \/ file' = Torn /\ tx' = Missing /\ pc' = "none"

\* persist_phase: the journal line is write-only and not modelled.
PersistPhase(p, next) == WriteState([tx EXCEPT !.phase = p], next)

\* remove_dir_all on a path that holds c: what is there now, and what runs next.
Removed(c, left, next) ==
  \/ left = Absent /\ pc' = next /\ UNCHANGED tx
  \/ c # Absent /\ left = Partial /\ pc' = "none" /\ tx' = Missing

\* copy_dir_all: the target has what the source has, or the copy was cut.
Copied(source, target, next) ==
  \/ source # Absent /\ target = source /\ pc' = next /\ UNCHANGED tx
  \/ target = Partial /\ pc' = "none" /\ tx' = Missing

-----------------------------------------------------------------------------
(* run_install.                                                             *)

\* UpdaterTransaction::new.
NewTransaction(from, to) ==
  [phase |-> "idle", from |-> from, to |-> to, backup |-> NoPath, committed |-> FALSE]

\* The caller's version is the one it runs from: the current bundle, or the
\* version that was replaced when its own install has just failed.
MayInstall(v) ==
  \/ /\ file = Missing \/ (Readable /\ file.phase \in Settled)
     /\ v = current
  \/ RetryFirst /\ Readable /\ file.phase \notin Settled /\ v = file.from

BeginInstall(from, to) ==
  /\ pc = "none"
  /\ MayInstall(from)
  /\ to # from
  /\ WriteState(NewTransaction(from, to), "prepare")
  /\ UNCHANGED <<current, staged, backup>>

\* Download, verify, extract: phase after phase, in the transaction's directory.
PhaseAfter == [idle |-> "downloading", downloading |-> "downloaded",
               downloaded |-> "verifying", verifying |-> "verified",
               verified |-> "staging"]

Prepare ==
  /\ pc = "prepare"
  /\ PersistPhase(PhaseAfter[tx.phase], IF tx.phase = "verified" THEN "stage" ELSE "prepare")
  /\ UNCHANGED <<current, staged, backup>>

\* The archive's hash does not match.
HashMismatch ==
  /\ pc = "prepare"
  /\ tx.phase = "verifying"
  /\ PersistPhase("recovery_required", "none")
  /\ UNCHANGED <<current, staged, backup>>

\* The extracted bundle is copied to staged/<to_version>.
Stage ==
  /\ pc = "stage"
  /\ \E c \in Content :
       /\ Copied(tx.to, c, "stage_note")
       /\ staged' = [staged EXCEPT ![tx.to] = c]
  /\ UNCHANGED <<current, backup, file>>

StageNote ==
  /\ pc = "stage_note"
  /\ WriteState(tx, "backup_begin")
  /\ UNCHANGED <<current, staged, backup>>

\* Mutant: backup_path is recorded with the phase, before there is a backup.
BackupPromised ==
  /\ pc = "backup_begin"
  /\ WriteState([tx EXCEPT !.phase = "backing_up", !.backup = tx.from], "backup_clear")
  /\ UNCHANGED <<current, staged, backup>>

BackupBegin ==
  /\ pc = "backup_begin"
  /\ PersistPhase("backing_up", "backup_clear")
  /\ UNCHANGED <<current, staged, backup>>

\* What an earlier transaction from the same version left is removed.
BackupClear ==
  /\ pc = "backup_clear"
  /\ \E c \in Content :
       /\ Removed(backup[tx.from], c, "backup_copy")
       /\ backup' = [backup EXCEPT ![tx.from] = c]
  /\ UNCHANGED <<current, staged, file>>

BackupCopy ==
  /\ pc = "backup_copy"
  /\ \E c \in Content :
       /\ Copied(current, c, "backup_note")
       /\ backup' = [backup EXCEPT ![tx.from] = c]
  /\ UNCHANGED <<current, staged, file>>

BackupNote ==
  /\ pc = "backup_note"
  /\ WriteState([tx EXCEPT !.backup = tx.from], "swap_begin")
  /\ UNCHANGED <<current, staged, backup>>

SwapBegin ==
  /\ pc = "swap_begin"
  /\ PersistPhase("installing", "swap_clear")
  /\ UNCHANGED <<current, staged, backup>>

SwapClear ==
  /\ pc = "swap_clear"
  /\ \E c \in Content : Removed(current, c, "swap_copy") /\ current' = c
  /\ UNCHANGED <<staged, backup, file>>

SwapCopy ==
  /\ pc = "swap_copy"
  /\ \E c \in Content : Copied(staged[tx.to], c, "swap_note") /\ current' = c
  /\ UNCHANGED <<staged, backup, file>>

SwapNote ==
  /\ pc = "swap_note"
  /\ WriteState(tx, "finish")
  /\ UNCHANGED <<current, staged, backup>>

Finish ==
  /\ pc = "finish"
  /\ PersistPhase("pending_health", "none")
  /\ UNCHANGED <<current, staged, backup>>

\* Where each fault point lies: the operation it precedes.
PointsAt(at, phase) ==
  CASE at = "prepare" /\ phase = "idle" -> {"download.before"}
    [] at = "prepare" /\ phase = "downloading" -> {"download.mid", "download.after"}
    [] at = "prepare" /\ phase = "verified" -> {"extract.before", "extract.mid", "extract.after"}
    [] at = "backup_begin" -> {"backup.before"}
    [] at = "backup_clear" -> {"backup.mid"}
    [] at = "backup_copy" -> {"backup.after"}
    [] at = "swap_begin" -> {"swap.before"}
    [] at = "swap_copy" -> {"swap.after"}
    [] OTHER -> {}

\* fire: an armed point records RecoveryRequired and aborts the install.
Fire ==
  /\ pc # "none"
  /\ PointsAt(pc, tx.phase) \cap Faults # {}
  /\ PersistPhase("recovery_required", "none")
  /\ UNCHANGED <<current, staged, backup>>

-----------------------------------------------------------------------------
(* run_recovery.                                                            *)

HasBackup(s) == s.backup # NoPath /\ backup[s.backup] # Absent

\* Mutant: any phase but the settled ones of an install is undone.
RollbackCommitted ==
  /\ pc = "none"
  /\ Readable /\ file.phase \notin {"idle", "rolled_back", "failed_safe"}
  /\ HasBackup(file)
  /\ tx' = file
  /\ pc' = "undo_clear"
  /\ UNCHANGED <<current, staged, backup, file>>

\* A recorded backup that exists is put back ...
BeginRollback ==
  /\ pc = "none"
  /\ Readable /\ file.phase \notin Settled
  /\ HasBackup(file)
  /\ tx' = file
  /\ pc' = "undo_clear"
  /\ UNCHANGED <<current, staged, backup, file>>

\* ... without one, what is at current_path is declared safe.
FailSafe ==
  /\ pc = "none"
  /\ Readable /\ file.phase \notin Settled
  /\ ~HasBackup(file)
  /\ current # Absent
  /\ WriteState([file EXCEPT !.phase = "failed_safe"], "none")
  /\ UNCHANGED <<current, staged, backup>>

\* Mutant: the outcome is recorded before the copy.
UndoNotedFirst ==
  /\ pc = "undo_clear"
  /\ \E c \in Content : Removed(current, c, "undo_copy") /\ current' = c
  /\ file' = [tx EXCEPT !.phase = "rolled_back"]
  /\ UNCHANGED <<staged, backup>>

UndoClear ==
  /\ pc = "undo_clear"
  /\ \E c \in Content : Removed(current, c, "undo_copy") /\ current' = c
  /\ UNCHANGED <<staged, backup, file>>

UndoCopy ==
  /\ pc = "undo_copy"
  /\ \E c \in Content : Copied(backup[tx.backup], c, "undo_note") /\ current' = c
  /\ UNCHANGED <<staged, backup, file>>

\* Mutant: what is recorded is the phase the journal has.
UndoUnnoted ==
  /\ pc = "undo_note"
  /\ WriteState([tx EXCEPT !.phase = "rolling_back"], "none")
  /\ UNCHANGED <<current, staged, backup>>

UndoNote ==
  /\ pc = "undo_note"
  /\ WriteState([tx EXCEPT !.phase = "rolled_back", !.committed = FALSE], "none")
  /\ UNCHANGED <<current, staged, backup>>

-----------------------------------------------------------------------------
(* commit_health, called by the new version once it is up.                  *)

CommitHealth ==
  /\ pc = "none"
  /\ Readable /\ file.phase = "pending_health"
  /\ current = file.to
  /\ WriteState([file EXCEPT !.phase = "committed", !.committed = TRUE], "none")
  /\ UNCHANGED <<current, staged, backup>>

\* Between two operations the process dies, or one of them failed at once.
Crash ==
  /\ pc # "none"
  /\ pc' = "none"
  /\ tx' = Missing
  /\ UNCHANGED <<current, staged, backup, file>>

-----------------------------------------------------------------------------
Install ==
  \/ \E from, to \in Versions : BeginInstall(from, to)
  \/ Prepare \/ HashMismatch \/ Stage \/ StageNote
  \/ BackupBegin \/ BackupClear \/ BackupCopy \/ BackupNote
  \/ SwapBegin \/ SwapClear \/ SwapCopy \/ SwapNote \/ Finish \/ Fire

Recovery == BeginRollback \/ FailSafe \/ UndoClear \/ UndoCopy \/ UndoNote

Next == Install \/ Recovery \/ CommitHealth \/ Crash

Spec == Init /\ [][Next]_vars

\* The caller runs run_recovery at every start that finds an interrupted
\* transaction, a call that is running goes on, and neither the disk nor the
\* user strikes at the same step of the recovery for ever.  Nothing is assumed
\* of installs or of the health commit.
Fairness ==
  /\ WF_vars(BeginRollback) /\ WF_vars(FailSafe)
  /\ WF_vars(Install /\ pc # "none")
  /\ SF_vars(UndoClear /\ pc' = "undo_copy")
  /\ SF_vars(UndoCopy /\ pc' = "undo_note")
  /\ SF_vars(UndoNote)

FairSpec == Spec /\ Fairness

-----------------------------------------------------------------------------
(* Properties.                                                              *)

Backed(s) == s.backup = s.from /\ backup[s.from] = s.from

TypeOK ==
  /\ current \in Content
  /\ staged \in [Versions -> Content]
  /\ backup \in [Versions -> Content]
  /\ file \in UpdateState \cup {Missing, Torn}
  /\ tx \in UpdateState \cup {Missing}
  /\ pc \in {"none", "prepare", "stage", "stage_note", "backup_begin", "backup_clear",
             "backup_copy", "backup_note", "swap_begin", "swap_clear", "swap_copy",
             "swap_note", "finish", "undo_clear", "undo_copy", "undo_note"}

\* The positions of run_install before the current bundle is touched, those
\* from which it is replaced, and those of the rollback.
PreSwap == {"prepare", "stage", "stage_note", "backup_begin", "backup_clear",
            "backup_copy", "backup_note", "swap_begin"}
Swapping == {"swap_clear", "swap_copy", "swap_note", "finish"}
Undoing == {"undo_clear", "undo_copy", "undo_note"}

\* A version's directory holds that version, whole or not: copies never mix.
CopiesAreOfTheirVersion ==
  \A v \in Versions : {staged[v], backup[v]} \subseteq {v, Absent, Partial}

\* A running call and the disk agree on the transaction.
MemoryIsOnDisk == IF pc = "none" THEN tx = Missing ELSE Readable /\ tx = file

\* What each position of run_install and run_recovery can rely on.
Position ==
  /\ pc = "prepare" => tx.phase \in DOMAIN PhaseAfter
  /\ pc \in {"stage", "stage_note", "backup_begin"} => tx.phase = "staging"
  /\ pc \in {"backup_clear", "backup_copy", "backup_note", "swap_begin"} => tx.phase = "backing_up"
  /\ pc \in Swapping => tx.phase = "installing"
  /\ pc \in Undoing => tx.phase \notin Settled
  /\ pc \in PreSwap \ {"swap_begin"} => tx.backup = NoPath
  /\ pc \in PreSwap => current = tx.from
  /\ pc \in {"stage_note", "backup_begin", "backup_clear", "backup_copy", "backup_note",
            "swap_begin", "swap_clear", "swap_copy"} => staged[tx.to] = tx.to
  /\ pc = "backup_note" => backup[tx.from] = tx.from
  /\ pc \in {"swap_begin"} \cup Swapping \cup Undoing => Backed(tx)
  /\ pc \in {"swap_note", "finish"} => current = tx.to
  /\ pc = "undo_note" => current = tx.from

\* What state.json says holds of the disk, whether or not anything runs.
RecordIsTrue ==
  /\ ~Readable => current \in Versions
  /\ Readable =>
       /\ file.phase \notin Settled =>
            Backed(file) \/ (file.backup = NoPath /\ current = file.from)
       /\ file.phase \in {"idle", "rolled_back", "failed_safe"} => current = file.from
       /\ file.phase = "committed" => current = file.to

\* The inductive invariant of the engine, under the caller's contract and
\* without a fault between the removal of the bundle and its replacement.
UInv == TypeOK /\ CopiesAreOfTheirVersion /\ MemoryIsOnDisk /\ Position /\ RecordIsTrue

\* "Recovery never leaves the machine without a complete bundle": whatever was
\* cut short, and however often, the current bundle is whole or state.json can
\* be read and leads run_recovery to a backup that is.
NeverStranded ==
  \/ current \in Versions
  \/ Readable /\ file.phase \notin Settled /\ Backed(file)

\* What state.json says of a transaction that is over is what is installed: the
\* new version once it has committed, the one it came from after a rollback or a
\* safe failure, whatever happened in between.
OutcomeIsInstalled ==
  Readable =>
    /\ file.phase = "committed" => current = file.to
    /\ file.phase \in {"rolled_back", "failed_safe"} => current = file.from

\* Intent is on the disk before the irreversible step: the current bundle is
\* only touched while state.json can be read, is not settled and names a whole
\* copy of the version it came from.
RecordedBeforeTouched ==
  [][current' # current => Readable /\ file.phase \notin Settled /\ Backed(file)]_vars

\* An interrupted transaction is settled in the end, by a recovery that may
\* itself be interrupted and run again, or its record is lost.
InterruptedIsSettled ==
  (Readable /\ file.phase \notin Settled) ~> (file = Torn \/ (Readable /\ file.phase \in Settled))
=============================================================================
