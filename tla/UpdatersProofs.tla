---------------------------- MODULE UpdatersProofs ----------------------------
(***************************************************************************)
(* The two updaters.  The engine never strands the machine, for every set  *)
(* of versions and every set of armed fault points that lie outside the    *)
(* swap; the swap of the updater that ships keeps a whole bundle, for any  *)
(* releases, wherever the process is killed and whichever step fails.      *)
(***************************************************************************)
EXTENDS UpdaterEngine, ProductionUpdate, TLAPS

-----------------------------------------------------------------------------
(* UpdaterEngine.                                                           *)

\* The caller settles a transaction before it starts the next, and no fault is
\* injected between the removal of the current bundle and its replacement.
Contract == ~RetryFirst /\ "swap.after" \notin Faults

LEMMA InitUInv == Init => UInv
BY UpdaterAssumption
   DEF Init, UInv, TypeOK, CopiesAreOfTheirVersion, MemoryIsOnDisk, Position, RecordIsTrue,
       Readable, Content, PreSwap, Swapping, Undoing

\* The end of a call: nothing runs, the disk is as the record says.
LEMMA CallEnds ==
  ASSUME TypeOK', CopiesAreOfTheirVersion', pc' = "none", tx' = Missing, RecordIsTrue'
  PROVE  UInv'
BY DEF UInv, MemoryIsOnDisk, Position, PreSwap, Swapping, Undoing

\* A write of state.json that is cut while the current bundle is whole.
LEMMA TornWrite ==
  ASSUME UInv, current \in Versions, UNCHANGED <<current, staged, backup>>,
         file' = Torn, tx' = Missing, pc' = "none"
  PROVE  UInv'
<1>1. TypeOK'
  BY DEF UInv, TypeOK
<1>2. CopiesAreOfTheirVersion'
  BY DEF UInv, CopiesAreOfTheirVersion
<1>3. RecordIsTrue'
  BY UpdaterAssumption DEF RecordIsTrue, Readable
<1>4. QED
  BY <1>1, <1>2, <1>3, CallEnds

\* A step that ends the call and leaves state.json and the copies as they are.
LEMMA CrashStep ==
  ASSUME UInv, Crash
  PROVE  UInv'
<1>1. TypeOK'
  BY DEF Crash, UInv, TypeOK
<1>2. CopiesAreOfTheirVersion'
  BY DEF Crash, UInv, CopiesAreOfTheirVersion
<1>3. RecordIsTrue'
  BY DEF Crash, UInv, RecordIsTrue, Readable, Backed
<1>4. QED
  BY <1>1, <1>2, <1>3, CallEnds DEF Crash

LEMMA BeginInstallStep ==
  ASSUME UInv, Contract, NEW from \in Versions, NEW to \in Versions, BeginInstall(from, to)
  PROVE  UInv'
<1> DEFINE s == NewTransaction(from, to)
<1>1. current = from
  BY DEF BeginInstall, MayInstall, Contract
<1>2. s \in UpdateState
  BY DEF NewTransaction, UpdateState, Phases
<1>3. CASE file' = s /\ tx' = s /\ pc' = "prepare"
  <2>1. s.phase = "idle" /\ s.backup = NoPath /\ s.from = from
    BY DEF NewTransaction
  <2>2. TypeOK'
    BY <1>2, <1>3 DEF BeginInstall, UInv, TypeOK
  <2>3. CopiesAreOfTheirVersion'
    BY DEF BeginInstall, UInv, CopiesAreOfTheirVersion
  <2>4. MemoryIsOnDisk'
    BY <1>2, <1>3 DEF MemoryIsOnDisk, Readable
  <2>5. Position'
    BY <1>1, <1>3, <2>1 DEF BeginInstall, Position, PreSwap, Swapping, Undoing, PhaseAfter
  <2>6. RecordIsTrue'
    BY <1>1, <1>2, <1>3, <2>1 DEF BeginInstall, RecordIsTrue, Readable, Settled
  <2>7. QED
    BY <2>2, <2>3, <2>4, <2>5, <2>6 DEF UInv
<1>4. CASE file' = Torn /\ tx' = Missing /\ pc' = "none"
  BY <1>1, <1>4, TornWrite DEF BeginInstall
<1>5. QED
  BY <1>3, <1>4 DEF BeginInstall, WriteState

\* What a position of a running call knows of its transaction.
LEMMA RunningTx ==
  ASSUME UInv, pc # "none"
  PROVE  /\ tx \in UpdateState /\ tx = file /\ Readable
         /\ tx.phase \in Phases /\ tx.from \in Versions /\ tx.to \in Versions
         /\ tx.backup \in Versions \cup {NoPath}
BY DEF UInv, MemoryIsOnDisk, Readable, UpdateState

\* run_install before the swap records a phase: the next position relies on no
\* more than the last one established.
LEMMA PrepareStep ==
  ASSUME UInv, Prepare
  PROVE  UInv'
<1> DEFINE s == [tx EXCEPT !.phase = PhaseAfter[tx.phase]]
<1> DEFINE next == IF tx.phase = "verified" THEN "stage" ELSE "prepare"
<1>1. pc = "prepare" /\ tx.phase \in DOMAIN PhaseAfter /\ current = tx.from /\ tx.backup = NoPath
  BY DEF Prepare, UInv, Position, PreSwap
<1>2. tx \in UpdateState /\ tx = file /\ tx.from \in Versions
  BY <1>1, RunningTx
<1>3. s \in UpdateState /\ s.from = tx.from /\ s.backup = NoPath /\ s.phase = PhaseAfter[tx.phase]
  BY <1>1, <1>2 DEF UpdateState, PhaseAfter, Phases
<1>4. CASE file' = s /\ tx' = s /\ pc' = next
  <2>1. /\ s.phase \notin Settled
        /\ next = "stage" => s.phase = "staging"
        /\ next = "prepare" => s.phase \in DOMAIN PhaseAfter
    BY <1>1, <1>3 DEF PhaseAfter, Settled
  <2>2. TypeOK'
    BY <1>3, <1>4 DEF Prepare, UInv, TypeOK
  <2>3. CopiesAreOfTheirVersion'
    BY DEF Prepare, UInv, CopiesAreOfTheirVersion
  <2>4. MemoryIsOnDisk'
    BY <1>3, <1>4 DEF MemoryIsOnDisk, Readable
  <2>5. Position'
    BY <1>1, <1>3, <1>4, <2>1 DEF Prepare, Position, PreSwap, Swapping, Undoing
  <2>6. RecordIsTrue'
    BY <1>1, <1>3, <1>4, <2>1 DEF Prepare, RecordIsTrue, Readable, Settled
  <2>7. QED
    BY <2>2, <2>3, <2>4, <2>5, <2>6 DEF UInv
<1>5. CASE file' = Torn /\ tx' = Missing /\ pc' = "none"
  BY <1>1, <1>2, <1>5, TornWrite DEF Prepare
<1>6. QED
  BY <1>4, <1>5 DEF Prepare, PersistPhase, WriteState

\* A call that ends by recording phase p while the bundle it came from is in
\* place: RecoveryRequired before the swap.
LEMMA GivenUp ==
  ASSUME UInv, pc \in PreSwap, PersistPhase("recovery_required", "none"),
         UNCHANGED <<current, staged, backup>>
  PROVE  UInv'
<1> DEFINE s == [tx EXCEPT !.phase = "recovery_required"]
<1>1. current = tx.from /\ (tx.backup = NoPath \/ Backed(tx))
  BY DEF UInv, Position, PreSwap
<1>2. tx \in UpdateState /\ tx.from \in Versions
  BY RunningTx DEF PreSwap
<1>3. /\ s \in UpdateState /\ s.from = tx.from /\ s.backup = tx.backup
      /\ s.phase = "recovery_required"
  BY <1>2 DEF UpdateState, Phases
<1>4. CASE file' = s /\ tx' = Missing /\ pc' = "none"
  <2>1. TypeOK'
    BY <1>3, <1>4 DEF UInv, TypeOK
  <2>2. CopiesAreOfTheirVersion'
    BY DEF UInv, CopiesAreOfTheirVersion
  <2>3. RecordIsTrue'
    BY <1>1, <1>3, <1>4 DEF RecordIsTrue, Readable, Settled, Backed
  <2>4. QED
    BY <1>4, <2>1, <2>2, <2>3, CallEnds
<1>5. CASE file' = Torn /\ tx' = Missing /\ pc' = "none"
  BY <1>1, <1>2, <1>5, TornWrite
<1>6. QED
  BY <1>4, <1>5 DEF PersistPhase, WriteState

LEMMA MismatchStep ==
  ASSUME UInv, HashMismatch
  PROVE  UInv'
BY GivenUp DEF HashMismatch, PreSwap

\* Outside the swap a fault point finds the old bundle in place.
LEMMA FireStep ==
  ASSUME UInv, Contract, Fire
  PROVE  UInv'
<1>1. pc \in PreSwap \/ pc = "swap_copy"
  <2>1. PointsAt(pc, tx.phase) # {}
    BY DEF Fire
  <2>2. QED
    BY <2>1 DEF PointsAt, PreSwap
<1>2. pc # "swap_copy"
  <2>1. SUFFICES ASSUME pc = "swap_copy" PROVE FALSE
    OBVIOUS
  <2>2. PointsAt(pc, tx.phase) = {"swap.after"}
    BY <2>1 DEF PointsAt
  <2>3. QED
    BY <2>2 DEF Fire, Contract
<1>3. QED
  BY <1>1, <1>2, GivenUp DEF Fire

\* Copying the new bundle to staged/ touches nothing a recovery needs.
LEMMA StageStep ==
  ASSUME UInv, Stage
  PROVE  UInv'
<1> PICK c \in Content : /\ Copied(tx.to, c, "stage_note")
                         /\ staged' = [staged EXCEPT ![tx.to] = c]
  BY DEF Stage
<1>1. /\ pc = "stage" /\ tx.phase = "staging" /\ current = tx.from /\ tx.backup = NoPath
      /\ UNCHANGED <<current, backup, file>>
  BY DEF Stage, UInv, Position, PreSwap
<1>2. tx \in UpdateState /\ tx = file /\ tx.from \in Versions /\ tx.to \in Versions /\ Readable
  BY <1>1, RunningTx
<1>3. c \in {tx.to, Partial}
  BY DEF Copied
<1>4. CopiesAreOfTheirVersion'
  BY <1>1, <1>2, <1>3 DEF UInv, TypeOK, CopiesAreOfTheirVersion
<1>5. staged' \in [Versions -> Content]
  BY DEF UInv, TypeOK
<1>6. RecordIsTrue'
  BY <1>1, <1>2 DEF UInv, RecordIsTrue, Readable, Backed
<1>7. CASE c = tx.to /\ pc' = "stage_note" /\ UNCHANGED tx
  <2>1. TypeOK'
    BY <1>1, <1>5, <1>7 DEF UInv, TypeOK
  <2>2. MemoryIsOnDisk'
    BY <1>1, <1>2, <1>7 DEF MemoryIsOnDisk, Readable
  <2>3. staged'[tx.to] = tx.to
    BY <1>2, <1>7 DEF UInv, TypeOK
  <2>4. Position'
    BY <1>1, <1>7, <2>3 DEF Position, PreSwap, Swapping, Undoing
  <2>5. QED
    BY <1>4, <1>6, <2>1, <2>2, <2>4 DEF UInv
<1>8. CASE c = Partial /\ pc' = "none" /\ tx' = Missing
  <2>1. TypeOK'
    BY <1>1, <1>5, <1>8 DEF UInv, TypeOK
  <2>2. QED
    BY <1>4, <1>6, <1>8, <2>1, CallEnds
<1>9. QED
  BY <1>7, <1>8 DEF Copied

LEMMA StageNoteStep ==
  ASSUME UInv, StageNote
  PROVE  UInv'
<1>1. /\ pc = "stage_note" /\ tx.phase = "staging" /\ current = tx.from /\ tx.backup = NoPath
      /\ staged[tx.to] = tx.to
  BY DEF StageNote, UInv, Position, PreSwap
<1>2. tx \in UpdateState /\ tx = file /\ tx.from \in Versions
  BY <1>1, RunningTx
<1>3. CASE file' = tx /\ tx' = tx /\ pc' = "backup_begin"
  <2>1. TypeOK'
    BY <1>2, <1>3 DEF StageNote, UInv, TypeOK
  <2>2. CopiesAreOfTheirVersion'
    BY DEF StageNote, UInv, CopiesAreOfTheirVersion
  <2>3. MemoryIsOnDisk'
    BY <1>2, <1>3 DEF MemoryIsOnDisk, Readable
  <2>4. Position'
    BY <1>1, <1>3 DEF StageNote, Position, PreSwap, Swapping, Undoing
  <2>5. RecordIsTrue'
    BY <1>1, <1>2, <1>3 DEF StageNote, RecordIsTrue, Readable, Settled
  <2>6. QED
    BY <2>1, <2>2, <2>3, <2>4, <2>5 DEF UInv
<1>4. CASE file' = Torn /\ tx' = Missing /\ pc' = "none"
  BY <1>1, <1>2, <1>4, TornWrite DEF StageNote
<1>5. QED
  BY <1>3, <1>4 DEF StageNote, WriteState

\* The backup is announced while the old bundle is in place and not recorded yet.
LEMMA BackupBeginStep ==
  ASSUME UInv, BackupBegin
  PROVE  UInv'
<1> DEFINE s == [tx EXCEPT !.phase = "backing_up"]
<1>1. /\ pc = "backup_begin" /\ current = tx.from /\ tx.backup = NoPath
      /\ staged[tx.to] = tx.to
  BY DEF BackupBegin, UInv, Position, PreSwap, Swapping, Undoing
<1>2. tx \in UpdateState /\ tx = file /\ tx.from \in Versions /\ tx.to \in Versions
  BY <1>1, RunningTx
<1>3. s \in UpdateState /\ s.from = tx.from /\ s.to = tx.to /\ s.backup = NoPath /\ s.phase = "backing_up"
  BY <1>1, <1>2 DEF UpdateState, Phases
<1>4. CASE file' = s /\ tx' = s /\ pc' = "backup_clear"
  <2>1. TypeOK'
    BY <1>3, <1>4 DEF BackupBegin, UInv, TypeOK
  <2>2. CopiesAreOfTheirVersion'
    BY DEF BackupBegin, UInv, CopiesAreOfTheirVersion
  <2>3. MemoryIsOnDisk'
    BY <1>3, <1>4 DEF MemoryIsOnDisk, Readable
  <2>4. Position'
    BY <1>1, <1>2, <1>3, <1>4 DEF BackupBegin, Position, PreSwap, Swapping, Undoing, Backed
  <2>5. RecordIsTrue'
    BY <1>1, <1>2, <1>3, <1>4 DEF BackupBegin, RecordIsTrue, Readable, Settled, Backed
  <2>6. QED
    BY <2>1, <2>2, <2>3, <2>4, <2>5 DEF UInv
<1>5. CASE file' = Torn /\ tx' = Missing /\ pc' = "none"
  BY <1>1, <1>2, <1>5, TornWrite DEF BackupBegin
<1>6. QED
  BY <1>4, <1>5 DEF BackupBegin, PersistPhase, WriteState

\* backup_path is recorded once the copy is whole.
LEMMA BackupNoteStep ==
  ASSUME UInv, BackupNote
  PROVE  UInv'
<1> DEFINE s == [tx EXCEPT !.backup = tx.from]
<1>1. /\ pc = "backup_note" /\ tx.phase = "backing_up" /\ current = tx.from
      /\ staged[tx.to] = tx.to /\ backup[tx.from] = tx.from
  BY DEF BackupNote, UInv, Position, PreSwap, Swapping, Undoing
<1>2. tx \in UpdateState /\ tx = file /\ tx.from \in Versions /\ tx.to \in Versions
  BY <1>1, RunningTx
<1>3. s \in UpdateState /\ s.from = tx.from /\ s.to = tx.to /\ s.backup = tx.from /\ s.phase = "backing_up"
  BY <1>1, <1>2 DEF UpdateState, Phases
<1>4. CASE file' = s /\ tx' = s /\ pc' = "swap_begin"
  <2>1. TypeOK'
    BY <1>3, <1>4 DEF BackupNote, UInv, TypeOK
  <2>2. CopiesAreOfTheirVersion'
    BY DEF BackupNote, UInv, CopiesAreOfTheirVersion
  <2>3. MemoryIsOnDisk'
    BY <1>3, <1>4 DEF MemoryIsOnDisk, Readable
  <2>4. Position'
    BY <1>1, <1>2, <1>3, <1>4 DEF BackupNote, Position, PreSwap, Swapping, Undoing, Backed
  <2>5. RecordIsTrue'
    BY <1>1, <1>2, <1>3, <1>4 DEF BackupNote, RecordIsTrue, Readable, Settled, Backed
  <2>6. QED
    BY <2>1, <2>2, <2>3, <2>4, <2>5 DEF UInv
<1>5. CASE file' = Torn /\ tx' = Missing /\ pc' = "none"
  BY <1>1, <1>2, <1>5, TornWrite DEF BackupNote
<1>6. QED
  BY <1>4, <1>5 DEF BackupNote, PersistPhase, WriteState

\* The swap is announced with the backup recorded.
LEMMA SwapBeginStep ==
  ASSUME UInv, SwapBegin
  PROVE  UInv'
<1> DEFINE s == [tx EXCEPT !.phase = "installing"]
<1>1. /\ pc = "swap_begin" /\ current = tx.from /\ Backed(tx)
      /\ staged[tx.to] = tx.to
  BY DEF SwapBegin, UInv, Position, PreSwap, Swapping, Undoing
<1>2. tx \in UpdateState /\ tx = file /\ tx.from \in Versions /\ tx.to \in Versions
  BY <1>1, RunningTx
<1>3. s \in UpdateState /\ s.from = tx.from /\ s.to = tx.to /\ s.backup = tx.backup /\ s.phase = "installing"
  BY <1>1, <1>2 DEF UpdateState, Phases
<1>4. CASE file' = s /\ tx' = s /\ pc' = "swap_clear"
  <2>1. TypeOK'
    BY <1>3, <1>4 DEF SwapBegin, UInv, TypeOK
  <2>2. CopiesAreOfTheirVersion'
    BY DEF SwapBegin, UInv, CopiesAreOfTheirVersion
  <2>3. MemoryIsOnDisk'
    BY <1>3, <1>4 DEF MemoryIsOnDisk, Readable
  <2>4. Position'
    BY <1>1, <1>2, <1>3, <1>4 DEF SwapBegin, Position, PreSwap, Swapping, Undoing, Backed
  <2>5. RecordIsTrue'
    BY <1>1, <1>2, <1>3, <1>4 DEF SwapBegin, RecordIsTrue, Readable, Settled, Backed
  <2>6. QED
    BY <2>1, <2>2, <2>3, <2>4, <2>5 DEF UInv
<1>5. CASE file' = Torn /\ tx' = Missing /\ pc' = "none"
  BY <1>1, <1>2, <1>5, TornWrite DEF SwapBegin
<1>6. QED
  BY <1>4, <1>5 DEF SwapBegin, PersistPhase, WriteState

\* The state is written once more when the new bundle is in place.
LEMMA SwapNoteStep ==
  ASSUME UInv, SwapNote
  PROVE  UInv'
<1> DEFINE s == tx
<1>1. /\ pc = "swap_note" /\ tx.phase = "installing" /\ current = tx.to /\ Backed(tx)
  BY DEF SwapNote, UInv, Position, PreSwap, Swapping, Undoing
<1>2. tx \in UpdateState /\ tx = file /\ tx.from \in Versions /\ tx.to \in Versions
  BY <1>1, RunningTx
<1>3. s \in UpdateState /\ s.from = tx.from /\ s.to = tx.to /\ s.backup = tx.backup /\ s.phase = "installing"
  BY <1>1, <1>2 DEF UpdateState, Phases
<1>4. CASE file' = s /\ tx' = s /\ pc' = "finish"
  <2>1. TypeOK'
    BY <1>3, <1>4 DEF SwapNote, UInv, TypeOK
  <2>2. CopiesAreOfTheirVersion'
    BY DEF SwapNote, UInv, CopiesAreOfTheirVersion
  <2>3. MemoryIsOnDisk'
    BY <1>3, <1>4 DEF MemoryIsOnDisk, Readable
  <2>4. Position'
    BY <1>1, <1>2, <1>3, <1>4 DEF SwapNote, Position, PreSwap, Swapping, Undoing, Backed
  <2>5. RecordIsTrue'
    BY <1>1, <1>2, <1>3, <1>4 DEF SwapNote, RecordIsTrue, Readable, Settled, Backed
  <2>6. QED
    BY <2>1, <2>2, <2>3, <2>4, <2>5 DEF UInv
<1>5. CASE file' = Torn /\ tx' = Missing /\ pc' = "none"
  BY <1>1, <1>2, <1>5, TornWrite DEF SwapNote
<1>6. QED
  BY <1>4, <1>5 DEF SwapNote, PersistPhase, WriteState

\* The new bundle waits for its health commit, with the backup recorded.
LEMMA FinishStep ==
  ASSUME UInv, Finish
  PROVE  UInv'
<1> DEFINE s == [tx EXCEPT !.phase = "pending_health"]
<1>1. pc = "finish" /\ current = tx.to /\ Backed(tx)
  BY UpdaterAssumption DEF Finish, UInv, TypeOK, Position, PreSwap, Swapping, Undoing, RecordIsTrue, HasBackup, Readable, Settled, Backed
<1>2. tx \in UpdateState /\ tx.from \in Versions /\ tx.to \in Versions
  BY <1>1, RunningTx DEF Finish, Readable, UpdateState
<1>3. s \in UpdateState /\ s.from = tx.from /\ s.to = tx.to /\ s.backup = tx.backup /\ s.phase = "pending_health"
  BY <1>1, <1>2 DEF UpdateState, Phases
<1>4. CASE file' = s /\ tx' = Missing /\ pc' = "none"
  <2>1. TypeOK'
    BY <1>3, <1>4 DEF Finish, UInv, TypeOK
  <2>2. CopiesAreOfTheirVersion'
    BY DEF Finish, UInv, CopiesAreOfTheirVersion
  <2>3. RecordIsTrue'
    BY <1>1, <1>2, <1>3, <1>4 DEF Finish, RecordIsTrue, Readable, Settled, Backed
  <2>4. QED
    BY <1>4, <2>1, <2>2, <2>3, CallEnds
<1>5. CASE file' = Torn /\ tx' = Missing /\ pc' = "none"
  BY <1>1, <1>2, <1>5, TornWrite DEF Finish
<1>6. QED
  BY <1>4, <1>5 DEF Finish, PersistPhase, WriteState

\* RolledBack is recorded when the old bundle is back.
LEMMA UndoNoteStep ==
  ASSUME UInv, UndoNote
  PROVE  UInv'
<1> DEFINE s == [tx EXCEPT !.phase = "rolled_back", !.committed = FALSE]
<1>1. pc = "undo_note" /\ current = tx.from /\ Backed(tx)
  BY UpdaterAssumption DEF UndoNote, UInv, TypeOK, Position, PreSwap, Swapping, Undoing, RecordIsTrue, HasBackup, Readable, Settled, Backed
<1>2. tx \in UpdateState /\ tx.from \in Versions /\ tx.to \in Versions
  BY <1>1, RunningTx DEF UndoNote, Readable, UpdateState
<1>3. s \in UpdateState /\ s.from = tx.from /\ s.to = tx.to /\ s.backup = tx.backup /\ s.phase = "rolled_back"
  BY <1>1, <1>2 DEF UpdateState, Phases
<1>4. CASE file' = s /\ tx' = Missing /\ pc' = "none"
  <2>1. TypeOK'
    BY <1>3, <1>4 DEF UndoNote, UInv, TypeOK
  <2>2. CopiesAreOfTheirVersion'
    BY DEF UndoNote, UInv, CopiesAreOfTheirVersion
  <2>3. RecordIsTrue'
    BY <1>1, <1>2, <1>3, <1>4 DEF UndoNote, RecordIsTrue, Readable, Settled, Backed
  <2>4. QED
    BY <1>4, <2>1, <2>2, <2>3, CallEnds
<1>5. CASE file' = Torn /\ tx' = Missing /\ pc' = "none"
  BY <1>1, <1>2, <1>5, TornWrite DEF UndoNote
<1>6. QED
  BY <1>4, <1>5 DEF UndoNote, PersistPhase, WriteState

\* Without a backup on record the old bundle was never touched.
LEMMA FailSafeStep ==
  ASSUME UInv, FailSafe
  PROVE  UInv'
<1> DEFINE s == [file EXCEPT !.phase = "failed_safe"]
<1>1. file.backup = NoPath /\ current = file.from
  <2>1. file \in UpdateState /\ file.from \in Versions
    BY DEF FailSafe, Readable, UpdateState
  <2>2. ~Backed(file)
    BY <2>1, UpdaterAssumption DEF FailSafe, HasBackup, Backed
  <2>3. QED
    BY <2>1, <2>2 DEF FailSafe, UInv, RecordIsTrue
<1>2. file \in UpdateState /\ file.from \in Versions /\ file.to \in Versions
  BY <1>1, UpdaterAssumption DEF FailSafe, Readable, UpdateState
<1>3. s \in UpdateState /\ s.from = file.from /\ s.to = file.to /\ s.phase = "failed_safe"
  BY <1>1, <1>2 DEF UpdateState, Phases
<1>4. CASE file' = s /\ tx' = Missing /\ pc' = "none"
  <2>1. TypeOK'
    BY <1>3, <1>4 DEF FailSafe, UInv, TypeOK
  <2>2. CopiesAreOfTheirVersion'
    BY DEF FailSafe, UInv, CopiesAreOfTheirVersion
  <2>3. RecordIsTrue'
    BY <1>1, <1>2, <1>3, <1>4 DEF FailSafe, RecordIsTrue, Readable, Settled, Backed
  <2>4. QED
    BY <1>4, <2>1, <2>2, <2>3, CallEnds
<1>5. CASE file' = Torn /\ tx' = Missing /\ pc' = "none"
  BY <1>1, <1>2, <1>5, TornWrite DEF FailSafe
<1>6. QED
  BY <1>4, <1>5 DEF FailSafe, PersistPhase, WriteState

\* The new version commits itself.
LEMMA CommitStep ==
  ASSUME UInv, CommitHealth
  PROVE  UInv'
<1> DEFINE s == [file EXCEPT !.phase = "committed", !.committed = TRUE]
<1>1. current = file.to
  BY UpdaterAssumption DEF CommitHealth, UInv, TypeOK, Position, PreSwap, Swapping, Undoing, RecordIsTrue, HasBackup, Readable, Settled, Backed
<1>2. file \in UpdateState /\ file.from \in Versions /\ file.to \in Versions
  BY <1>1, UpdaterAssumption DEF CommitHealth, Readable, UpdateState
<1>3. s \in UpdateState /\ s.from = file.from /\ s.to = file.to /\ s.phase = "committed"
  BY <1>1, <1>2 DEF UpdateState, Phases
<1>4. CASE file' = s /\ tx' = Missing /\ pc' = "none"
  <2>1. TypeOK'
    BY <1>3, <1>4 DEF CommitHealth, UInv, TypeOK
  <2>2. CopiesAreOfTheirVersion'
    BY DEF CommitHealth, UInv, CopiesAreOfTheirVersion
  <2>3. RecordIsTrue'
    BY <1>1, <1>2, <1>3, <1>4 DEF CommitHealth, RecordIsTrue, Readable, Settled, Backed
  <2>4. QED
    BY <1>4, <2>1, <2>2, <2>3, CallEnds
<1>5. CASE file' = Torn /\ tx' = Missing /\ pc' = "none"
  BY <1>1, <1>2, <1>5, TornWrite DEF CommitHealth
<1>6. QED
  BY <1>4, <1>5 DEF CommitHealth, PersistPhase, WriteState

\* The old bundle goes once the backup is on record.
LEMMA SwapClearStep ==
  ASSUME UInv, SwapClear
  PROVE  UInv'
<1> PICK c \in Content : Removed(current, c, "swap_copy") /\ current' = c
  BY DEF SwapClear
<1>1. /\ pc = "swap_clear" /\ tx.phase = "installing" /\ Backed(tx)
      /\ staged[tx.to] = tx.to
  BY DEF SwapClear, UInv, Position, PreSwap, Swapping, Undoing
<1>2. /\ tx \in UpdateState /\ tx = file /\ tx.from \in Versions /\ tx.to \in Versions
      /\ Readable
  BY <1>1, RunningTx
<1>3. CopiesAreOfTheirVersion'
  BY DEF SwapClear, UInv, CopiesAreOfTheirVersion
<1>4. RecordIsTrue'
  BY <1>1, <1>2 DEF SwapClear, RecordIsTrue, Readable, Backed, Settled
<1>5. CASE c = Absent /\ pc' = "swap_copy" /\ UNCHANGED tx
  <2>1. TypeOK'
    BY <1>5 DEF SwapClear, UInv, TypeOK
  <2>2. MemoryIsOnDisk'
    BY <1>1, <1>2, <1>5 DEF SwapClear, MemoryIsOnDisk, Readable
  <2>3. Position'
    BY <1>1, <1>2, <1>5 DEF SwapClear, Position, PreSwap, Swapping, Undoing, Backed
  <2>4. QED
    BY <1>3, <1>4, <2>1, <2>2, <2>3 DEF UInv
<1>6. CASE c = Partial /\ pc' = "none" /\ tx' = Missing
  <2>1. TypeOK'
    BY <1>6 DEF SwapClear, UInv, TypeOK
  <2>2. QED
    BY <1>3, <1>4, <1>6, <2>1, CallEnds
<1>7. QED
  BY <1>1, <1>2, <1>5, <1>6 DEF Removed

\* The staged bundle takes its place.
LEMMA SwapCopyStep ==
  ASSUME UInv, SwapCopy
  PROVE  UInv'
<1> PICK c \in Content : Copied(staged[tx.to], c, "swap_note") /\ current' = c
  BY DEF SwapCopy
<1>1. /\ pc = "swap_copy" /\ tx.phase = "installing" /\ Backed(tx)
      /\ staged[tx.to] = tx.to
  BY DEF SwapCopy, UInv, Position, PreSwap, Swapping, Undoing
<1>2. /\ tx \in UpdateState /\ tx = file /\ tx.from \in Versions /\ tx.to \in Versions
      /\ Readable
  BY <1>1, RunningTx
<1>3. CopiesAreOfTheirVersion'
  BY DEF SwapCopy, UInv, CopiesAreOfTheirVersion
<1>4. RecordIsTrue'
  BY <1>1, <1>2 DEF SwapCopy, RecordIsTrue, Readable, Backed, Settled
<1>5. CASE c = tx.to /\ pc' = "swap_note" /\ UNCHANGED tx
  <2>1. TypeOK'
    BY <1>5 DEF SwapCopy, UInv, TypeOK
  <2>2. MemoryIsOnDisk'
    BY <1>1, <1>2, <1>5 DEF SwapCopy, MemoryIsOnDisk, Readable
  <2>3. Position'
    BY <1>1, <1>2, <1>5 DEF SwapCopy, Position, PreSwap, Swapping, Undoing, Backed
  <2>4. QED
    BY <1>3, <1>4, <2>1, <2>2, <2>3 DEF UInv
<1>6. CASE c = Partial /\ pc' = "none" /\ tx' = Missing
  <2>1. TypeOK'
    BY <1>6 DEF SwapCopy, UInv, TypeOK
  <2>2. QED
    BY <1>3, <1>4, <1>6, <2>1, CallEnds
<1>7. QED
  BY <1>1, <1>2, <1>5, <1>6 DEF Copied

\* A rollback removes what is there ...
LEMMA UndoClearStep ==
  ASSUME UInv, UndoClear
  PROVE  UInv'
<1> PICK c \in Content : Removed(current, c, "undo_copy") /\ current' = c
  BY DEF UndoClear
<1>1. pc = "undo_clear" /\ tx.phase \notin Settled /\ Backed(tx)
  BY DEF UndoClear, UInv, Position, PreSwap, Swapping, Undoing
<1>2. /\ tx \in UpdateState /\ tx = file /\ tx.from \in Versions /\ tx.to \in Versions
      /\ Readable
  BY <1>1, RunningTx
<1>3. CopiesAreOfTheirVersion'
  BY DEF UndoClear, UInv, CopiesAreOfTheirVersion
<1>4. RecordIsTrue'
  BY <1>1, <1>2 DEF UndoClear, RecordIsTrue, Readable, Backed, Settled
<1>5. CASE c = Absent /\ pc' = "undo_copy" /\ UNCHANGED tx
  <2>1. TypeOK'
    BY <1>5 DEF UndoClear, UInv, TypeOK
  <2>2. MemoryIsOnDisk'
    BY <1>1, <1>2, <1>5 DEF UndoClear, MemoryIsOnDisk, Readable
  <2>3. Position'
    BY <1>1, <1>2, <1>5 DEF UndoClear, Position, PreSwap, Swapping, Undoing, Backed
  <2>4. QED
    BY <1>3, <1>4, <2>1, <2>2, <2>3 DEF UInv
<1>6. CASE c = Partial /\ pc' = "none" /\ tx' = Missing
  <2>1. TypeOK'
    BY <1>6 DEF UndoClear, UInv, TypeOK
  <2>2. QED
    BY <1>3, <1>4, <1>6, <2>1, CallEnds
<1>7. QED
  BY <1>1, <1>2, <1>5, <1>6 DEF Removed

\* ... and puts the backup back.
LEMMA UndoCopyStep ==
  ASSUME UInv, UndoCopy
  PROVE  UInv'
<1> PICK c \in Content : Copied(backup[tx.backup], c, "undo_note") /\ current' = c
  BY DEF UndoCopy
<1>1. pc = "undo_copy" /\ tx.phase \notin Settled /\ Backed(tx)
  BY DEF UndoCopy, UInv, Position, PreSwap, Swapping, Undoing
<1>2. /\ tx \in UpdateState /\ tx = file /\ tx.from \in Versions /\ tx.to \in Versions
      /\ Readable
  BY <1>1, RunningTx
<1>3. CopiesAreOfTheirVersion'
  BY DEF UndoCopy, UInv, CopiesAreOfTheirVersion
<1>4. RecordIsTrue'
  BY <1>1, <1>2 DEF UndoCopy, RecordIsTrue, Readable, Backed, Settled
<1>5. CASE c = tx.from /\ pc' = "undo_note" /\ UNCHANGED tx
  <2>1. TypeOK'
    BY <1>5 DEF UndoCopy, UInv, TypeOK
  <2>2. MemoryIsOnDisk'
    BY <1>1, <1>2, <1>5 DEF UndoCopy, MemoryIsOnDisk, Readable
  <2>3. Position'
    BY <1>1, <1>2, <1>5 DEF UndoCopy, Position, PreSwap, Swapping, Undoing, Backed
  <2>4. QED
    BY <1>3, <1>4, <2>1, <2>2, <2>3 DEF UInv
<1>6. CASE c = Partial /\ pc' = "none" /\ tx' = Missing
  <2>1. TypeOK'
    BY <1>6 DEF UndoCopy, UInv, TypeOK
  <2>2. QED
    BY <1>3, <1>4, <1>6, <2>1, CallEnds
<1>7. QED
  BY <1>1, <1>2, <1>5, <1>6 DEF Copied, Backed

\* An earlier backup of the version goes: it is not on record.
LEMMA BackupClearStep ==
  ASSUME UInv, BackupClear
  PROVE  UInv'
<1> PICK c \in Content : /\ Removed(backup[tx.from], c, "backup_copy")
                         /\ backup' = [backup EXCEPT ![tx.from] = c]
  BY DEF BackupClear
<1>1. /\ pc = "backup_clear" /\ tx.phase = "backing_up" /\ current = tx.from
      /\ tx.backup = NoPath /\ staged[tx.to] = tx.to
  BY DEF BackupClear, UInv, Position, PreSwap, Swapping, Undoing
<1>2. /\ tx \in UpdateState /\ tx = file /\ tx.from \in Versions /\ tx.to \in Versions
      /\ Readable
  BY <1>1, RunningTx
<1>3. c \in {tx.from, Absent, Partial}
  BY <1>1 DEF Removed
<1>4. CopiesAreOfTheirVersion'
  BY <1>2, <1>3 DEF BackupClear, UInv, TypeOK, CopiesAreOfTheirVersion
<1>5. RecordIsTrue'
  BY <1>1, <1>2 DEF BackupClear, RecordIsTrue, Readable, Settled
<1>6. backup' \in [Versions -> Content]
  BY DEF UInv, TypeOK
<1>7. CASE c = Absent /\ pc' = "backup_copy" /\ UNCHANGED tx
  <2>1. TypeOK'
    BY <1>6, <1>7 DEF BackupClear, UInv, TypeOK
  <2>2. MemoryIsOnDisk'
    BY <1>1, <1>2, <1>7 DEF BackupClear, MemoryIsOnDisk, Readable
  <2>3. backup'[tx.from] = c
    BY <1>2 DEF UInv, TypeOK
  <2>4. Position'
    BY <1>1, <1>2, <1>7, <2>3 DEF BackupClear, Position, PreSwap, Swapping, Undoing
  <2>5. QED
    BY <1>4, <1>5, <2>1, <2>2, <2>4 DEF UInv
<1>8. CASE c = Partial /\ pc' = "none" /\ tx' = Missing
  <2>1. TypeOK'
    BY <1>6, <1>8 DEF BackupClear, UInv, TypeOK
  <2>2. QED
    BY <1>4, <1>5, <1>8, <2>1, CallEnds
<1>9. QED
  BY <1>1, <1>7, <1>8 DEF Removed

\* The old bundle is copied while it is still in place.
LEMMA BackupCopyStep ==
  ASSUME UInv, BackupCopy
  PROVE  UInv'
<1> PICK c \in Content : /\ Copied(current, c, "backup_note")
                         /\ backup' = [backup EXCEPT ![tx.from] = c]
  BY DEF BackupCopy
<1>1. /\ pc = "backup_copy" /\ tx.phase = "backing_up" /\ current = tx.from
      /\ tx.backup = NoPath /\ staged[tx.to] = tx.to
  BY DEF BackupCopy, UInv, Position, PreSwap, Swapping, Undoing
<1>2. /\ tx \in UpdateState /\ tx = file /\ tx.from \in Versions /\ tx.to \in Versions
      /\ Readable
  BY <1>1, RunningTx
<1>3. c \in {tx.from, Absent, Partial}
  BY <1>1 DEF Copied
<1>4. CopiesAreOfTheirVersion'
  BY <1>2, <1>3 DEF BackupCopy, UInv, TypeOK, CopiesAreOfTheirVersion
<1>5. RecordIsTrue'
  BY <1>1, <1>2 DEF BackupCopy, RecordIsTrue, Readable, Settled
<1>6. backup' \in [Versions -> Content]
  BY DEF UInv, TypeOK
<1>7. CASE c = tx.from /\ pc' = "backup_note" /\ UNCHANGED tx
  <2>1. TypeOK'
    BY <1>6, <1>7 DEF BackupCopy, UInv, TypeOK
  <2>2. MemoryIsOnDisk'
    BY <1>1, <1>2, <1>7 DEF BackupCopy, MemoryIsOnDisk, Readable
  <2>3. backup'[tx.from] = c
    BY <1>2 DEF UInv, TypeOK
  <2>4. Position'
    BY <1>1, <1>2, <1>7, <2>3 DEF BackupCopy, Position, PreSwap, Swapping, Undoing
  <2>5. QED
    BY <1>4, <1>5, <2>1, <2>2, <2>4 DEF UInv
<1>8. CASE c = Partial /\ pc' = "none" /\ tx' = Missing
  <2>1. TypeOK'
    BY <1>6, <1>8 DEF BackupCopy, UInv, TypeOK
  <2>2. QED
    BY <1>4, <1>5, <1>8, <2>1, CallEnds
<1>9. QED
  BY <1>1, <1>7, <1>8 DEF Copied

\* A recovery reads a record that names a whole backup.
LEMMA BeginRollbackStep ==
  ASSUME UInv, BeginRollback
  PROVE  UInv'
<1>1. Readable /\ file \in UpdateState /\ file.phase \notin Settled
  BY DEF BeginRollback, Readable
<1>2. Backed(file)
  BY <1>1 DEF BeginRollback, HasBackup, UInv, RecordIsTrue
<1>3. TypeOK'
  BY <1>1 DEF BeginRollback, UInv, TypeOK
<1>4. CopiesAreOfTheirVersion'
  BY DEF BeginRollback, UInv, CopiesAreOfTheirVersion
<1>5. MemoryIsOnDisk'
  BY <1>1 DEF BeginRollback, MemoryIsOnDisk, Readable
<1>6. Position'
  BY <1>1, <1>2 DEF BeginRollback, Position, PreSwap, Swapping, Undoing, Backed
<1>7. RecordIsTrue'
  BY DEF BeginRollback, UInv, RecordIsTrue, Readable, Backed
<1>8. QED
  BY <1>3, <1>4, <1>5, <1>6, <1>7 DEF UInv

LEMMA NextStep ==
  ASSUME UInv, Contract, [Next]_vars
  PROVE  UInv'
<1>1. CASE Install
  BY <1>1, BeginInstallStep, PrepareStep, MismatchStep, StageStep, StageNoteStep,
     BackupBeginStep, BackupClearStep, BackupCopyStep, BackupNoteStep, SwapBeginStep,
     SwapClearStep, SwapCopyStep, SwapNoteStep, FinishStep, FireStep DEF Install
<1>2. CASE Recovery
  BY <1>2, BeginRollbackStep, FailSafeStep, UndoClearStep, UndoCopyStep, UndoNoteStep
     DEF Recovery
<1>3. CASE CommitHealth
  BY <1>3, CommitStep
<1>4. CASE Crash
  BY <1>4, CrashStep
<1>5. CASE UNCHANGED vars
  BY <1>5 DEF vars, UInv, TypeOK, CopiesAreOfTheirVersion, MemoryIsOnDisk, Position,
     RecordIsTrue, Readable, Backed
<1>6. QED
  BY <1>1, <1>2, <1>3, <1>4, <1>5 DEF Next

-----------------------------------------------------------------------------
\* The invariant of the engine holds for every set of versions.
THEOREM UInvariance == ASSUME Contract PROVE Spec => []UInv
<1>1. UInv /\ [Next]_vars => UInv'
  BY NextStep
<1>2. QED
  BY InitUInv, <1>1, PTL DEF Spec

\* Bundles, record and the running call keep their types.
THEOREM UTypeCorrect == ASSUME Contract PROVE Spec => []TypeOK
<1>1. UInv => TypeOK
  BY DEF UInv
<1>2. QED
  BY UInvariance, <1>1, PTL

\* However often installs and recoveries are cut short, the current bundle is
\* whole or the record leads to a backup that is.
THEOREM NeverLeftStranded == ASSUME Contract PROVE Spec => []NeverStranded
<1>1. UInv => NeverStranded
  <2>1. SUFFICES ASSUME UInv, current \notin Versions
                 PROVE  Readable /\ file.phase \notin Settled /\ Backed(file)
    BY DEF NeverStranded
  <2>2. Readable /\ file \in UpdateState /\ file.from \in Versions /\ file.to \in Versions
    BY <2>1 DEF UInv, RecordIsTrue, Readable, UpdateState
  <2>3. QED
    BY <2>1, <2>2 DEF UInv, RecordIsTrue, Settled
<1>2. QED
  BY UInvariance, <1>1, PTL

\* A settled record tells which version is installed.
THEOREM OutcomeHolds == ASSUME Contract PROVE Spec => []OutcomeIsInstalled
<1>1. UInv => OutcomeIsInstalled
  BY DEF UInv, RecordIsTrue, OutcomeIsInstalled
<1>2. QED
  BY UInvariance, <1>1, PTL

\* The current bundle is touched only under a record that names its backup.
THEOREM RecordPrecedesTouch == ASSUME Contract PROVE Spec => RecordedBeforeTouched
<1>1. UInv /\ [Next]_vars =>
        [current' # current => Readable /\ file.phase \notin Settled /\ Backed(file)]_vars
  <2>1. SUFFICES ASSUME UInv, Next, current' # current
                 PROVE  Readable /\ file.phase \notin Settled /\ Backed(file)
    OBVIOUS
  <2>2. SwapClear \/ SwapCopy \/ UndoClear \/ UndoCopy
    BY <2>1 DEF Next, Install, Recovery, BeginInstall, Prepare, HashMismatch, Stage, StageNote,
       BackupBegin, BackupClear, BackupCopy, BackupNote, SwapBegin, SwapNote, Finish, Fire,
       BeginRollback, FailSafe, UndoNote, CommitHealth, Crash
  <2>3. pc \in Swapping \cup Undoing
    BY <2>2 DEF SwapClear, SwapCopy, UndoClear, UndoCopy, Swapping, Undoing
  <2>4. Backed(tx) /\ tx.phase \notin Settled
    BY <2>1, <2>3 DEF UInv, Position, Settled
  <2>5. QED
    BY <2>1, <2>3, <2>4, RunningTx DEF Swapping, Undoing
<1>2. QED
  BY UInvariance, <1>1, PTL DEF Spec, RecordedBeforeTouched

-----------------------------------------------------------------------------
(* ProductionUpdate.                                                        *)

Before == {"idle", "checking", "latest", "no-release", "available",
           "download", "extract", "locate", "away"}

\* The running process: its bundle is at its path until it is renamed away,
\* and beside it until the new one is in.
Running ==
  /\ proc.at # "down" => proc.ver \in Releases
  /\ proc.at \in Before => app = proc.ver
  /\ proc.at \in {"in", "undo"} => proc.ver \in backups
  /\ proc.at = "relaunch" => app \in Releases

\* What was extracted is whole until it is moved in.
Extracts == proc.at \in {"locate", "away", "in"} => new = proc.offer

\* An offer that can be installed is newer than what runs.
Offered ==
  proc.at \in {"available"} \cup Steps /\ proc.offer # NONE => Newer(proc.ver, proc.offer)

\* The inductive invariant.
UpdateInv == ProductionTypeOK /\ AppIsWhole /\ LastCopyKept /\ Running /\ Extracts /\ Offered

-----------------------------------------------------------------------------

LEMMA InitHolds == ProductionInit => UpdateInv
BY UpdateAssumption DEF ProductionInit, UpdateInv, ProductionTypeOK, AppIsWhole, LastCopyKept, Running, Extracts, Offered,
   Down, Bundles, FooterPhases, Steps, Before

\* GitHub, the user, and the end of the process.
LEMMA OutsideKeeps ==
  ASSUME UpdateInv, Publish \/ Launch \/ Killed \/ Check \/ ClickInstall
  PROVE  UpdateInv'
<1>1. CASE Publish
  BY <1>1 DEF Publish, UpdateInv, ProductionTypeOK, AppIsWhole, LastCopyKept, Running, Extracts, Offered
<1>2. CASE Launch \/ Killed
  <2>1. proc' \in [ver : Releases \cup {NONE}, at : FooterPhases \cup Steps \cup {"down"},
                   offer : Releases \cup {NONE}]
        /\ proc'.at \in {"down", "idle"} /\ (proc'.at = "idle" => proc'.ver = app /\ app \in Releases)
    <3>1. CASE Launch
      <4>1. app \in Releases /\ proc' = [ver |-> app, at |-> "idle", offer |-> NONE]
        BY <3>1 DEF Launch, Down
      <4>2. QED
        BY <4>1 DEF FooterPhases
    <3>2. CASE Killed
      BY <3>2 DEF Killed, Down
    <3>3. QED
      BY <1>2, <3>1, <3>2
  <2>2. UNCHANGED <<latest, app, backups, new, tar>>
    BY <1>2 DEF Launch, Killed
  <2>3. QED
    BY <2>1, <2>2 DEF UpdateInv, ProductionTypeOK, AppIsWhole, LastCopyKept, Running, Extracts, Offered,
       Steps, Before
<1>3. CASE Check
  BY <1>3 DEF Check, Goes, UpdateInv, ProductionTypeOK, AppIsWhole, LastCopyKept, Running, Extracts, Offered,
     FooterPhases, Steps, Before
<1>4. CASE ClickInstall
  BY <1>4 DEF ClickInstall, Installable, Goes, UpdateInv, ProductionTypeOK, AppIsWhole, LastCopyKept, Running,
     Extracts, Offered, FooterPhases, Steps, Before, Bundles
<1>5. QED
  BY <1>1, <1>2, <1>3, <1>4

\* The answer of the check and the steps of an install that leave the bundles alone.
LEMMA PreparesKeeps ==
  ASSUME UpdateInv,
         \/ CheckAnswers \/ CheckFails \/ Download \/ DownloadFails \/ Extract \/ ExtractFails
         \/ Locate \/ LocateFails \/ AwayFails \/ MoveInFails
  PROVE  UpdateInv'
<1>1. CASE CheckAnswers
  <2>1. PICK asset \in {latest, NONE} :
          proc' = [proc EXCEPT
            !.offer = asset,
            !.at = IF latest = NONE THEN "no-release"
                   ELSE IF Newer(proc.ver, latest) THEN "available" ELSE "latest"]
    BY <1>1 DEF CheckAnswers
  <2>2. /\ proc'.ver = proc.ver /\ proc'.offer = asset /\ proc.at = "checking"
        /\ proc'.at \in {"no-release", "available", "latest"}
        /\ proc'.at = "available" => Newer(proc.ver, latest)
        /\ proc' \in [ver : Releases \cup {NONE}, at : FooterPhases \cup Steps \cup {"down"},
                      offer : Releases \cup {NONE}]
        /\ UNCHANGED <<latest, app, backups, new, tar>>
    BY <1>1, <2>1 DEF CheckAnswers, UpdateInv, ProductionTypeOK, FooterPhases
  <2>3. QED
    BY <2>2 DEF UpdateInv, ProductionTypeOK, AppIsWhole, LastCopyKept, Running, Extracts, Offered, Steps, Before
<1>2. CASE CheckFails \/ DownloadFails \/ LocateFails \/ AwayFails \/ MoveInFails \/ Locate
  BY <1>2 DEF CheckFails, DownloadFails, LocateFails, AwayFails, MoveInFails, Locate, Fails, Goes,
     UpdateInv, ProductionTypeOK, AppIsWhole, LastCopyKept, Running, Extracts, Offered, FooterPhases, Steps, Before
<1>3. CASE Download
  BY <1>3 DEF Download, Goes, UpdateInv, ProductionTypeOK, AppIsWhole, LastCopyKept, Running, Extracts,
     Offered, Steps, Before
<1>4. CASE Extract
  BY <1>4 DEF Extract, Extracted, Goes, UpdateInv, ProductionTypeOK, AppIsWhole, LastCopyKept, Running,
     Extracts, Offered, Steps, Before, Bundles
<1>5. CASE ExtractFails
  BY <1>5 DEF ExtractFails, Fails, Goes, UpdateInv, ProductionTypeOK, AppIsWhole, LastCopyKept, Running,
     Extracts, Offered, FooterPhases, Steps, Before, Bundles
<1>6. QED
  BY <1>1, <1>2, <1>3, <1>4, <1>5

\* The two renames, the rollback and the removal of the backup.
LEMMA SwapKeeps ==
  ASSUME UpdateInv, Away \/ MoveIn \/ Undo \/ Relaunch
  PROVE  UpdateInv'
<1>1. CASE Away
  BY <1>1, UpdateAssumption DEF Away, Goes, UpdateInv, ProductionTypeOK, AppIsWhole, LastCopyKept, Running,
     Extracts, Offered, Steps, Before, Bundles
<1>2. CASE MoveIn
  <2>1. new \in Releases
    BY <1>2 DEF MoveIn, Goes, UpdateInv, ProductionTypeOK, Extracts, Steps
  <2>2. QED
    BY <1>2, <2>1, UpdateAssumption DEF MoveIn, Goes, UpdateInv, ProductionTypeOK, AppIsWhole, LastCopyKept,
       Running, Extracts, Offered, Steps, Before, Bundles
<1>3. CASE Undo
  <2>1. /\ proc.at = "undo" /\ proc.ver \in Releases /\ proc.ver \in backups
        /\ proc' = [proc EXCEPT !.at = "error"]
    BY <1>3 DEF Undo, Fails, Goes, UpdateInv, Running
  <2>2. app' \in Releases \/ (app' = app /\ backups' = backups)
    BY <1>3, <2>1 DEF Undo, Undone, Back
  <2>3. backups' \subseteq Bundles /\ app' \in Bundles /\ app' # HalfBundle
    BY <1>3, <2>1, <2>2, UpdateAssumption DEF Undo, Undone, Back, UpdateInv, ProductionTypeOK, AppIsWhole, Bundles
  <2>4. QED
    BY <1>3, <2>1, <2>2, <2>3 DEF Undo, UpdateInv, ProductionTypeOK, AppIsWhole, LastCopyKept, Running,
       Extracts, Offered, FooterPhases, Steps, Before
<1>4. CASE Relaunch
  <2>1. app \in Releases /\ app' = app /\ proc' = Down /\ UNCHANGED <<latest, new, tar>>
    BY <1>4 DEF Relaunch, UpdateInv, Running
  <2>2. backups' \subseteq Bundles
    BY <1>4 DEF Relaunch, UpdateInv, ProductionTypeOK, Running, Bundles
  <2>3. QED
    BY <2>1, <2>2 DEF UpdateInv, ProductionTypeOK, AppIsWhole, LastCopyKept, Running, Extracts, Offered,
       Down, Steps, Before
<1>5. QED
  BY <1>1, <1>2, <1>3, <1>4

LEMMA NextKeeps == UpdateInv /\ [ProductionNext]_productionVars => UpdateInv'
<1>1. ASSUME UpdateInv, UNCHANGED productionVars PROVE UpdateInv'
  BY <1>1 DEF productionVars, UpdateInv, ProductionTypeOK, AppIsWhole, LastCopyKept, Running, Extracts, Offered
<1>2. QED
  BY <1>1, OutsideKeeps, PreparesKeeps, SwapKeeps DEF ProductionNext, Updates

-----------------------------------------------------------------------------

\* The invariant of every behaviour.
THEOREM UpdateInvariance == ProductionSpec => []UpdateInv
BY InitHolds, NextKeeps, PTL DEF ProductionSpec

\* Bundles, archive and process keep their types.
THEOREM UpdateTypeCorrect == ProductionSpec => []ProductionTypeOK
<1>1. UpdateInv => ProductionTypeOK
  BY DEF UpdateInv
<1>2. QED
  BY <1>1, UpdateInvariance, PTL

\* Whatever is cut short, killed or fails, a whole bundle is on the disk and no
\* half one at the application's path.
THEOREM BundleIsKept == ProductionSpec => []BundleKept
<1>1. UpdateInv => BundleKept
  BY DEF UpdateInv, BundleKept
<1>2. QED
  BY <1>1, UpdateInvariance, PTL

\* If the numbers of the releases order them as they are meant to be, what is
\* moved in is later than what ran.
THEOREM NoDowngrade ==
  ASSUME \A a, b \in Releases : Newer(a, b) => Rank[b] > Rank[a]
  PROVE  ProductionSpec => NeverOlder
<1> DEFINE Later == MoveIn => Rank[app'] > Rank[proc.ver]
<1>1. ASSUME UpdateInv, [ProductionNext]_productionVars PROVE [Later]_productionVars
  <2> SUFFICES ASSUME MoveIn PROVE Rank[app'] > Rank[proc.ver]
    OBVIOUS
  <2>1. /\ app' = proc.offer /\ proc.offer \in Releases /\ proc.ver \in Releases
        /\ Newer(proc.ver, proc.offer)
    BY <1>1 DEF MoveIn, Goes, UpdateInv, ProductionTypeOK, Running, Extracts, Offered, Steps
  <2>2. QED
    BY <2>1
<1>2. ProductionSpec => [][Later]_productionVars
  BY <1>1, UpdateInvariance, PTL DEF ProductionSpec
<1>3. QED
  BY <1>2 DEF NeverOlder
=============================================================================
