-------------------------- MODULE VaultIngestProofs --------------------------
(***************************************************************************)
(* Proofs about the Vault ingest: for any set of uploads of one digest and *)
(* any number of attempts and faults, no bytes are lost, no two processes  *)
(* work on one path and nothing committed is undone.                       *)
(***************************************************************************)
EXTENDS VaultIngest, TLAPS

\* Handler states in which the attempt still acts for its upload.
Active == {"starting", "verify", "prepare", "publish", "published", "reuse", "reject"}

\* Only uploads being ingested have an active handler.
ActiveIsOpen ==
    \A u \in Uploads :
        handler[u] \in Active => upload[u] \in {"PROCESSING", "COMMIT_PREPARED"}

\* The staging file is there for as long as an attempt may need it.
StagedWhileNeeded ==
    \A u \in Uploads : upload[u] \notin Finished \cup {"CANCELLED"} => u \in staged

\* A finished upload has a committed object, and that has its file.
StoredWhenCommitted ==
    /\ \A u \in Uploads : upload[u] \in Finished => object = "COMMITTED"
    /\ object = "COMMITTED" => stored

\* A live process has a RUNNING row, and one without proof an unclosed row; a dead
\* owner has no process; a process that publishes has a registered object.
ProcessHasRow ==
    \A u \in Uploads :
        /\ child[u] \in {"idle", "publishing"} => work[u] = "RUNNING"
        /\ handler[u] = "starting" => work[u] = "PREPARED"
        /\ child[u] = "unproved" => work[u] \in {"PREPARED", "RUNNING"}
        /\ handler[u] = "lost" => child[u] = "gone"
        /\ child[u] = "publishing" => object # "NONE"

\* Cleanup only ever follows the exit of the finished WORK execution.
CleanerAfterWork ==
    \A u \in Uploads :
        cleaner[u] # "NONE" => upload[u] \in Finished /\ work[u] = "EXITED"

\* A maintenance execution keeps its right to its target until it is completed.
MaintenanceIsBound ==
    /\ orphan = "ACTIVE" => object = "NONE"
    /\ maint # "NONE" /\ target = "ORPHAN" => orphan = "ACTIVE"
    /\ maint = "CUT" /\ target = "ORPHAN" => retired
    /\ maint # "NONE" /\ target \in Uploads =>
          upload[target] = "CANCELLED" /\ work[target] \in WorkClosed

\* A STAGING object has one owner, and only a committed one has a variant.
OwnersAgree ==
    /\ \A u \in Uploads : owns[u] => object # "NONE"
    /\ \A u, v \in Uploads : object = "STAGING" /\ owns[u] /\ owns[v] => u = v
    /\ object # "COMMITTED" => variant = NoRecording

\* What a handler has prepared is still so when it goes on.
PreparedHolds ==
    \A u \in Uploads :
        /\ handler[u] \in {"publish", "published"} => owns[u] /\ object = "STAGING"
        /\ handler[u] = "published" => stored
        /\ handler[u] = "reuse" => owns[u] /\ object = "COMMITTED"

\* A queued job has an attempt left, a claimed one has used one.
AttemptsCounted ==
    \A u \in Uploads :
        /\ job[u] = "QUEUED" => tries[u] < MaxAttempts
        /\ job[u] \in {"CLAIMED", "WORKING"} => tries[u] > 0

IInv ==
    /\ TypeOK
    /\ AttemptsCounted
    /\ ActiveIsOpen
    /\ StagedWhileNeeded
    /\ StoredWhenCommitted
    /\ ProcessHasRow
    /\ CleanerAfterWork
    /\ MaintenanceIsBound
    /\ OwnersAgree
    /\ PreparedHolds

(***************************************************************************)
(* The inductive step, one actor at a time.                                *)
(***************************************************************************)
\* The job and its attempt, up to the digest decision.
LEMMA AttemptStep ==
    ASSUME IInv, NEW u \in Uploads,
           Claim(u) \/ Defer(u) \/ DeferRetained(u) \/ NothingToDo(u) \/
           PrepareWork(u) \/ StartWork(u) \/ SpawnFails(u) \/ Verify(u) \/
           VerifyRejects(u) \/ Cancel(u)
    PROVE  IInv'
<1> USE VaultAssumption
    DEF IInv, TypeOK, AttemptsCounted, ActiveIsOpen, StagedWhileNeeded, StoredWhenCommitted,
           ProcessHasRow, CleanerAfterWork, MaintenanceIsBound, OwnersAgree, PreparedHolds,
           intake, execution, registry, disk, cleaning, retirement,
           Finished, Terminal, JobEnded, Returned, WorkClosed, Live, RowClosed, RowStates,
           Active, Occupied
<1>1. CASE Claim(u)
  BY <1>1, SMT DEF Claim
<1>2. CASE Defer(u)
  BY <1>2, SMT DEF Defer, YieldJob
<1>3. CASE NothingToDo(u)
  BY <1>3, SMT DEF NothingToDo
<1>4. CASE PrepareWork(u)
  BY <1>4, SMT DEF PrepareWork, upload_has_unclosed_writer, UnclosedWork,
         UnclosedCleaner, ReturnsWith
<1>5. CASE StartWork(u)
  BY <1>5, SMT DEF StartWork, ReturnsWith
<1>6. CASE Verify(u)
  BY <1>6, SMT DEF Verify, ReturnsWith
<1>7. CASE VerifyRejects(u)
  BY <1>7, SMT DEF VerifyRejects, ReturnsWith
<1>8. CASE Cancel(u)
  BY <1>8, SMT DEF Cancel, upload_has_unclosed_writer, UnclosedWork,
         UnclosedCleaner
<1>9. CASE DeferRetained(u)
  BY <1>9, SMT DEF DeferRetained, YieldJob
<1>10. CASE SpawnFails(u)
  BY <1>10, SMT DEF SpawnFails, ReturnsWith
<1> QED
  BY <1>1, <1>2, <1>3, <1>4, <1>5, <1>6, <1>7, <1>8, <1>9, <1>10

\* The decision under the digest lock, the publication and the finalization.
LEMMA DecisionStep ==
    ASSUME IInv, NEW u \in Uploads,
           PrepareWaits(u) \/ PreparePublication(u) \/ PrepareReuse(u) \/
           PrepareConflict(u) \/ Publish(u) \/ PublishRejects(u) \/ Reject(u) \/
           FinalizePublished(u) \/ FinalizeReused(u) \/ FinalizeConflict(u)
    PROVE  IInv'
<1> USE VaultAssumption
    DEF IInv, TypeOK, AttemptsCounted, ActiveIsOpen, StagedWhileNeeded, StoredWhenCommitted,
           ProcessHasRow, CleanerAfterWork, MaintenanceIsBound, OwnersAgree, PreparedHolds,
           intake, execution, registry, disk, cleaning, retirement,
           Finished, Terminal, JobEnded, Returned, WorkClosed, Live, RowClosed, RowStates,
           Active, Occupied
<1>1. CASE PrepareWaits(u)
  BY <1>1, SMT DEF PrepareWaits, ReturnsWith, Fenced
<1>2. CASE PreparePublication(u)
  BY <1>2, SMT DEF PreparePublication, ReturnsWith, Fenced,
         require_cas_unclaimed
<1>3. CASE PrepareReuse(u)
  BY <1>3, SMT DEF PrepareReuse, ReturnsWith, Fenced, require_cas_unclaimed
<1>4. CASE PrepareConflict(u)
  BY <1>4, SMT DEF PrepareConflict, ReturnsWith, Fenced
<1>5. CASE Publish(u)
  BY <1>5, SMT DEF Publish, ReturnsWith
<1>6. CASE Reject(u)
  BY <1>6, SMT DEF Reject, ReturnsWith, Fenced, Detach
<1>7. CASE FinalizePublished(u)
  <2>1. RecordingOf[u] \in Recordings
    OBVIOUS
  <2> QED
    BY <1>7, <2>1, SMT DEF FinalizePublished, ReturnsWith, Fenced
<1>8. CASE FinalizeReused(u)
  BY <1>8, SMT DEF FinalizeReused, ReturnsWith, Fenced
<1>9. CASE FinalizeConflict(u)
  BY <1>9, SMT DEF FinalizeConflict, ReturnsWith, Fenced, Detach
<1>10. CASE PublishRejects(u)
  BY <1>10, SMT DEF PublishRejects, ReturnsWith
<1> QED
  BY <1>1, <1>2, <1>3, <1>4, <1>5, <1>6, <1>7, <1>8, <1>9, <1>10

\* How an execution ends: exit and its acknowledgement, settlement, lost leases, crashes.
LEMMA EndingStep ==
    ASSUME IInv, NEW u \in Uploads,
           GiveUp(u) \/ ChildExits(u) \/ ExitUnproved(u) \/ ConfirmExit(u) \/ SettleJob(u) \/
           LeaseExpires(u) \/ CrashWork(u)
    PROVE  IInv'
<1> USE VaultAssumption
    DEF IInv, TypeOK, AttemptsCounted, ActiveIsOpen, StagedWhileNeeded, StoredWhenCommitted,
           ProcessHasRow, CleanerAfterWork, MaintenanceIsBound, OwnersAgree, PreparedHolds,
           intake, execution, registry, disk, cleaning, retirement,
           Finished, Terminal, JobEnded, Returned, WorkClosed, Live, RowClosed, RowStates,
           Active, Occupied
<1>1. CASE GiveUp(u)
  BY <1>1, SMT DEF GiveUp, ReturnsWith, UnclosedWork
<1>2. CASE ChildExits(u)
  BY <1>2, SMT DEF ChildExits
<1>3. CASE ConfirmExit(u)
  BY <1>3, SMT DEF ConfirmExit, UnclosedWork
<1>4. CASE SettleJob(u)
  BY <1>4, SMT DEF SettleJob, AfterFailure, UnclosedWork
<1>5. CASE LeaseExpires(u)
  BY <1>5, SMT DEF LeaseExpires, AfterFailure
<1>6. CASE CrashWork(u)
  BY <1>6, SMT DEF CrashWork, ReturnsWith, UnclosedWork
<1>7. CASE ExitUnproved(u)
  BY <1>7, SMT DEF ExitUnproved
<1> QED
  BY <1>1, <1>2, <1>3, <1>4, <1>5, <1>6, <1>7

\* Cleanup of the staging entry: CleanerAfterWork is what it rests on.
LEMMA CleaningStep ==
    ASSUME IInv, NEW u \in Uploads,
           PrepareCleanup(u) \/ StartCleanup(u) \/ UnlinkStaging(u) \/
           FailCleanup(u) \/ ConfirmCleanup(u) \/ CompleteCleanup(u)
    PROVE  IInv'
<1> USE VaultAssumption
    DEF IInv, TypeOK, AttemptsCounted, ActiveIsOpen, StagedWhileNeeded, StoredWhenCommitted,
           ProcessHasRow, CleanerAfterWork, MaintenanceIsBound, OwnersAgree, PreparedHolds,
           intake, execution, registry, disk, cleaning, retirement,
           Finished, Terminal, JobEnded, Returned, WorkClosed, Live, RowClosed, RowStates,
           Active, Occupied
<1>1. CASE PrepareCleanup(u)
  BY <1>1, SMT DEF PrepareCleanup, CleanupTarget
<1>2. CASE StartCleanup(u)
  BY <1>2, SMT DEF StartCleanup
<1>3. CASE UnlinkStaging(u)
  BY <1>3, SMT DEF UnlinkStaging
<1>4. CASE FailCleanup(u)
  BY <1>4, SMT DEF FailCleanup
<1>5. CASE ConfirmCleanup(u)
  BY <1>5, SMT DEF ConfirmCleanup
<1>6. CASE CompleteCleanup(u)
  BY <1>6, SMT DEF CompleteCleanup
<1> QED
  BY <1>1, <1>2, <1>3, <1>4, <1>5, <1>6

\* Reconciliation: the claim, not the observation, is what protects the file.
LEMMA RetiringStep ==
    ASSUME IInv,
           ObserveOrphan \/ ClaimOrphan \/ PrepareRetirement \/
           (\E u \in Uploads : PrepareDiscard(u)) \/
           (\E u \in Uploads : CompleteDiscard(u)) \/ StartMaintenance \/
           LinkToQuarantine \/ UnlinkRetired \/ FailMaintenance \/
           ConfirmMaintenance \/ CompleteRetirement
    PROVE  IInv'
<1> USE VaultAssumption
    DEF IInv, TypeOK, AttemptsCounted, ActiveIsOpen, StagedWhileNeeded, StoredWhenCommitted,
           ProcessHasRow, CleanerAfterWork, MaintenanceIsBound, OwnersAgree, PreparedHolds,
           intake, execution, registry, disk, cleaning, retirement,
           Finished, Terminal, JobEnded, Returned, WorkClosed, Live, RowClosed, RowStates,
           Active, Occupied
<1>1. CASE ObserveOrphan
  BY <1>1, SMT DEF ObserveOrphan
<1>2. CASE ClaimOrphan
  BY <1>2, SMT DEF ClaimOrphan, object_key_is_registered
<1>3. CASE PrepareRetirement
  BY <1>3, SMT DEF PrepareRetirement
<1>4. CASE \E u \in Uploads : PrepareDiscard(u)
  BY <1>4, SMT DEF PrepareDiscard, upload_has_unclosed_writer, UnclosedWork,
         UnclosedCleaner
<1>5. CASE \E u \in Uploads : CompleteDiscard(u)
  BY <1>5, SMT DEF CompleteDiscard
<1>6. CASE StartMaintenance
  BY <1>6, SMT DEF StartMaintenance
<1>7. CASE LinkToQuarantine
  BY <1>7, SMT DEF LinkToQuarantine
<1>8. CASE UnlinkRetired
  BY <1>8, SMT DEF UnlinkRetired
<1>9. CASE FailMaintenance
  BY <1>9, SMT DEF FailMaintenance
<1>10. CASE ConfirmMaintenance
  BY <1>10, SMT DEF ConfirmMaintenance
<1>11. CASE CompleteRetirement
  BY <1>11, SMT DEF CompleteRetirement
<1> QED
  BY <1>1, <1>2, <1>3, <1>4, <1>5, <1>6, <1>7, <1>8, <1>9, <1>10, <1>11

\* The library withdraws a variant; the operator closes every row of an empty host.
LEMMA HostStep ==
    ASSUME IInv, WithdrawVariant \/ OfflineDrain
    PROVE  IInv'
<1> USE VaultAssumption
    DEF IInv, TypeOK, AttemptsCounted, ActiveIsOpen, StagedWhileNeeded, StoredWhenCommitted,
           ProcessHasRow, CleanerAfterWork, MaintenanceIsBound, OwnersAgree, PreparedHolds,
           intake, execution, registry, disk, cleaning, retirement,
           Finished, Terminal, JobEnded, Returned, WorkClosed, Live, RowClosed, RowStates,
           Active, Occupied
<1>1. CASE WithdrawVariant
  BY <1>1, SMT DEF WithdrawVariant
<1>2. CASE OfflineDrain
  BY <1>2, SMT DEF OfflineDrain, UnclosedWork, UnclosedCleaner, UnclosedMaintenance
<1> QED
  BY <1>1, <1>2

LEMMA Initially ==
    ASSUME Init
    PROVE  IInv
<1> USE DEF Init
<1>1. TypeOK
  <2>1. 0 \in 0..MaxAttempts /\ 0 \in 0..MaxFaults
    BY VaultAssumption
  <2> QED
    BY <2>1, Zenon
    DEF TypeOK, Terminal, Finished, JobEnded, Returned, WorkClosed, Occupied, RowStates,
        RowClosed
<1>2. AttemptsCounted
  <2>1. \A u \in Uploads : tries[u] = 0 /\ job[u] = "QUEUED"
    OBVIOUS
  <2>2. 0 < MaxAttempts
    BY VaultAssumption
  <2> HIDE DEF Init
  <2> QED
    BY <2>1, <2>2 DEF AttemptsCounted
<1>3. ActiveIsOpen /\ StagedWhileNeeded /\ StoredWhenCommitted
  BY DEF ActiveIsOpen, StagedWhileNeeded, StoredWhenCommitted, Active, Finished
<1>4. ProcessHasRow /\ CleanerAfterWork /\ MaintenanceIsBound
  BY VaultAssumption DEF ProcessHasRow, CleanerAfterWork, MaintenanceIsBound
<1>5. OwnersAgree /\ PreparedHolds
  BY DEF OwnersAgree, PreparedHolds
<1> QED
  BY <1>1, <1>2, <1>3, <1>4, <1>5 DEF IInv

LEMMA Inductive ==
    ASSUME IInv, [Next]_vars
    PROVE  IInv'
<1>1. CASE \E u \in Uploads : IngestStep(u)
  BY <1>1, AttemptStep, DecisionStep, EndingStep, Zenon DEF IngestStep
<1>2. CASE \E u \in Uploads : CleanupStep(u)
  BY <1>2, CleaningStep, Zenon DEF CleanupStep
<1>3. CASE MaintenanceStep
  BY <1>3, RetiringStep, Zenon DEF MaintenanceStep
<1>4. CASE WithdrawVariant \/ OfflineDrain
  BY <1>4, HostStep
<1>5. CASE UNCHANGED vars
  BY <1>5
  DEF vars, IInv, TypeOK, AttemptsCounted, ActiveIsOpen, StagedWhileNeeded,
      StoredWhenCommitted, ProcessHasRow, CleanerAfterWork, MaintenanceIsBound,
      OwnersAgree, PreparedHolds, UnclosedWork
<1> QED
  BY <1>1, <1>2, <1>3, <1>4, <1>5 DEF Next

(***************************************************************************)
(* What follows.                                                           *)
(***************************************************************************)

\* The invariant of every behaviour, with or without the fairness of FairSpec.
THEOREM Invariant == Spec => []IInv
<1>1. Init => IInv
  BY Initially
<1>2. IInv /\ [Next]_vars => IInv'
  BY Inductive
<1> QED
  BY <1>1, <1>2, PTL DEF Spec

\* Every row, process, file and claim stays in its domain: in particular no
\* deferral takes an attempt below zero and no claim spends more than MaxAttempts.
THEOREM Typed == Spec => []TypeOK
<1>1. IInv => TypeOK
  BY DEF IInv
<1> QED
  BY <1>1, Invariant, PTL

\* No interleaving of attempts, cleanups, retirements and crashes loses bytes: an
\* upload that may be retried has its staging file, a finished one its stored file.
THEOREM BytesAreKept == Spec => []BytesKept
<1>1. IInv => BytesKept
  BY DEF IInv, StagedWhileNeeded, StoredWhenCommitted, BytesKept
<1> QED
  BY <1>1, Invariant, PTL

\* No path has two processes that change it, whatever became of the leases: the
\* WORK row outlives the lease, and a retirement holds the digest's claim.
THEOREM OneWriterPerPath == Spec => []OneWriter
<1>1. IInv => OneWriter
  BY VaultAssumption, SMT
  DEF IInv, TypeOK, ProcessHasRow, CleanerAfterWork, MaintenanceIsBound, OneWriter,
      Live, WorkClosed, Occupied
<1> QED
  BY <1>1, Invariant, PTL

\* What one step may never undo.
NothingUndone ==
    /\ object = "COMMITTED" => object' = "COMMITTED" /\ stored'
    /\ \A u \in Uploads : upload[u] \in Finished => upload'[u] = upload[u]
    /\ variant # NoRecording => variant' \in {variant, Withdrawn}
    /\ \A u \in Uploads :
          upload[u] # "REUSED" /\ upload'[u] = "REUSED" => variant' # Withdrawn
    /\ stored => stored' \/ retired'

LEMMA RowsStay ==
    ASSUME UNCHANGED <<upload, registry, stored>>, IInv
    PROVE  NothingUndone
BY DEF NothingUndone, IInv, StoredWhenCommitted, registry

\* The steps that write a row of the digest or of an upload.
LEMMA WritersUndoNothing ==
    ASSUME IInv, NEW u \in Uploads,
           PrepareWork(u) \/ PreparePublication(u) \/ PrepareReuse(u) \/ Reject(u) \/
           FinalizePublished(u) \/ FinalizeReused(u) \/ FinalizeConflict(u) \/ Cancel(u)
    PROVE  NothingUndone
<1> USE VaultAssumption
    DEF IInv, TypeOK, ActiveIsOpen, StoredWhenCommitted, OwnersAgree, PreparedHolds,
            Active, Finished, Terminal, NothingUndone, registry, disk
<1>1. CASE PrepareWork(u)
  BY <1>1, SMT DEF PrepareWork
<1>2. CASE PreparePublication(u)
  BY <1>2, SMT DEF PreparePublication
<1>3. CASE PrepareReuse(u)
  BY <1>3, SMT DEF PrepareReuse
<1>4. CASE Reject(u)
  BY <1>4, SMT DEF Reject, Detach
<1>5. CASE FinalizePublished(u)
  BY <1>5, SMT DEF FinalizePublished
<1>6. CASE FinalizeReused(u)
  BY <1>6, SMT DEF FinalizeReused
<1>7. CASE FinalizeConflict(u)
  BY <1>7, SMT DEF FinalizeConflict, Detach
<1>8. CASE Cancel(u)
  BY <1>8, SMT DEF Cancel
<1> QED
  BY <1>1, <1>2, <1>3, <1>4, <1>5, <1>6, <1>7, <1>8

\* A publication adds the file; a retirement takes it, from an unregistered digest.
LEMMA FilesAreMoved ==
    ASSUME IInv, UnlinkRetired \/ \E u \in Uploads : Publish(u)
    PROVE  NothingUndone
<1>1. CASE \E u \in Uploads : Publish(u)
  BY <1>1, Zenon DEF NothingUndone, Publish, registry
<1>2. CASE UnlinkRetired /\ target = "ORPHAN"
  BY <1>2 DEF NothingUndone, UnlinkRetired, IInv, MaintenanceIsBound, registry
<1>3. CASE UnlinkRetired /\ target # "ORPHAN"
  BY <1>3, RowsStay DEF UnlinkRetired, IInv, TypeOK
<1> QED
  BY <1>1, <1>2, <1>3

LEMMA StepsUndoNothing ==
    ASSUME IInv, [Next]_vars
    PROVE  NothingUndone
<1>1. CASE \E u \in Uploads : IngestStep(u)
  <2> PICK u \in Uploads : IngestStep(u)
    BY <1>1
  <2>1. CASE Claim(u) \/ Defer(u) \/ DeferRetained(u) \/ NothingToDo(u) \/ StartWork(u)
             \/ SpawnFails(u) \/ Verify(u) \/ VerifyRejects(u) \/ PrepareWaits(u)
             \/ PrepareConflict(u)
    BY <2>1, RowsStay
    DEF Claim, Defer, DeferRetained, NothingToDo, StartWork, SpawnFails, Verify,
        VerifyRejects, PrepareWaits, PrepareConflict, disk
  <2>2. CASE PublishRejects(u) \/ GiveUp(u) \/ ChildExits(u) \/ ExitUnproved(u)
             \/ ConfirmExit(u) \/ SettleJob(u) \/ LeaseExpires(u) \/ CrashWork(u)
    BY <2>2, RowsStay
    DEF PublishRejects, GiveUp, ChildExits, ExitUnproved, ConfirmExit, SettleJob,
        LeaseExpires, CrashWork, disk
  <2>3. CASE Publish(u)
    BY <2>3, FilesAreMoved
  <2> QED
    BY <2>1, <2>2, <2>3, WritersUndoNothing, Zenon DEF IngestStep
<1>2. CASE \E u \in Uploads : CleanupStep(u)
  BY <1>2, RowsStay
  DEF CleanupStep, PrepareCleanup, StartCleanup, UnlinkStaging, FailCleanup,
      ConfirmCleanup, CompleteCleanup, disk
<1>3. CASE MaintenanceStep
  <2>1. CASE UnlinkRetired
    BY <2>1, FilesAreMoved
  <2>2. CASE ~UnlinkRetired
    BY <1>3, <2>2, RowsStay
    DEF MaintenanceStep, ObserveOrphan, ClaimOrphan, PrepareRetirement, PrepareDiscard,
        CompleteDiscard, StartMaintenance, LinkToQuarantine, FailMaintenance,
        ConfirmMaintenance, CompleteRetirement, disk
  <2> QED
    BY <2>1, <2>2
<1>4. CASE WithdrawVariant
  BY <1>4
  DEF WithdrawVariant, NothingUndone, IInv, StoredWhenCommitted, disk
<1>5. CASE OfflineDrain \/ UNCHANGED vars
  BY <1>5, RowsStay DEF OfflineDrain, vars, disk, registry
<1> QED
  BY <1>1, <1>2, <1>3, <1>4, <1>5 DEF Next

\* No late attempt, conflicting upload or reconciler takes a publication back: the
\* committed row, its file and its recording stay, finished uploads stay finished, and
\* none ends as a reuse of a variant that was withdrawn in the meantime.
THEOREM PublicationIsFinal == Spec => CommittedForGood
<1>1. IInv /\ [Next]_vars =>
        [ /\ object = "COMMITTED" => object' = "COMMITTED" /\ stored'
          /\ \A u \in Uploads : upload[u] \in Finished => upload'[u] = upload[u]
          /\ variant # NoRecording => variant' \in {variant, Withdrawn}
          /\ \A u \in Uploads :
                upload[u] # "REUSED" /\ upload'[u] = "REUSED" => variant' # Withdrawn
          /\ stored => stored' \/ retired' ]_vars
  BY StepsUndoNothing DEF NothingUndone
<1> QED
  BY <1>1, Invariant, PTL DEF Spec, CommittedForGood

=============================================================================
