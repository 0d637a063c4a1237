----------------------------- MODULE VaultIngest -----------------------------
(***************************************************************************)
(* The Vault's ingest of sealed uploads that carry the same bytes: the     *)
(* fenced job, the registered WORK execution and its contained child, the  *)
(* publication of the staged file into the content-addressed store, the    *)
(* cleanup of the staging entry afterwards, and the reconciler that        *)
(* retires a stored file nobody has registered.                            *)
(*                                                                         *)
(* All uploads hash to one digest, so there is at most one VaultObject row *)
(* and one file under objects/.  The LOCAL_FILESYSTEM replica row follows  *)
(* the object row in every transaction (STAGING/COPYING, COMMITTED/        *)
(* AVAILABLE, QUARANTINED/QUARANTINED) and is not a variable of its own.   *)
(* A job's lease is known to exactly one attempt: CLAIMED is an attempt    *)
(* without an execution, WORKING the attempt of the latest execution.      *)
(* Nothing in the program requests the cancellation of an ingest job       *)
(* (request_cancel_for_owner is called for import, scan and acquisition    *)
(* jobs), so the branches for a cancelled attempt are left out.            *)
(***************************************************************************)
EXTENDS Integers

CONSTANTS
    Uploads,        \* sealed upload sessions, all of the same bytes
    Recordings,     \* the recordings they may be attached to
    RecordingOf,    \* target_recording_id of each upload
    NoRecording,    \* no audio variant row
    Withdrawn,      \* the variant row is there but no longer eligible
    MaxAttempts,    \* max_attempts of a vault.ingest job
    MaxFaults       \* bound: crashes, lost leases, I/O failures, bad files

ASSUME VaultAssumption ==
    /\ RecordingOf \in [Uploads -> Recordings]
    /\ NoRecording \notin Recordings
    /\ Withdrawn \notin Recordings \cup {NoRecording}
    /\ "ORPHAN" \notin Uploads /\ "NONE" \notin Uploads
    /\ MaxAttempts \in Nat \ {0}
    /\ MaxFaults \in Nat

VARIABLES
    upload,     \* upload_sessions.state
    owns,       \* upload_sessions.vault_object_id names the object
    job,        \* the upload's vault.ingest job
    tries,      \* attempts that count against max_attempts
    work,       \* ingest_executions: the latest row of the upload
    handler,    \* where that execution's handler thread is
    child,      \* its contained process
    object,     \* vault_objects.commit_status of the digest
    variant,    \* the recording of the object's audio variant
    staged,     \* uploads whose file is still under staging/
    stored,     \* the file objects/<digest> exists
    retired,    \* the file was linked into quarantine/
    claim,      \* cleanup claim of the upload's staging entry
    cleaner,    \* ingest_cleanup_executions of the upload and its child
    orphan,     \* the reconciler's view and claim of the digest
    target,     \* what the maintenance singleton works on
    maint,      \* its row and child
    faults

vars == <<upload, owns, job, tries, work, handler, child, object, variant,
          staged, stored, retired, claim, cleaner, orphan, target, maint, faults>>

intake     == <<job, tries>>
execution  == <<work, handler, child>>
registry   == <<object, variant>>
disk       == <<staged, stored, retired>>
cleaning   == <<claim, cleaner>>
retirement == <<orphan, target, maint>>

Finished   == {"COMMITTED", "REUSED"}
Terminal   == Finished \cup {"QUARANTINED", "CANCELLED"}
JobEnded   == {"SUCCEEDED", "FAILED"}
Returned   == {"ok", "retry", "terminal"}
WorkClosed == {"NONE", "EXITED", "NOT_STARTED", "SUPERVISED"}
\* A child that may have processes: those of "unproved" cannot be accounted for.
Occupied   == {"idle", "publishing", "unproved"}
\* States of a maintenance or cleanup row together with its process: LIVE and
\* CUT have a running child, LOST is an unclosed row that no proof will close: its
\* owner is dead, or keeps a child whose exit it cannot prove.
Live       == {"LIVE", "CUT"}
RowClosed  == {"NONE", "CLOSED"}
RowStates  == RowClosed \cup Live \cup {"PREPARED", "CLEANED", "FAILED", "LOST"}

TypeOK ==
    /\ upload \in [Uploads -> Terminal \cup {"SEALED", "PROCESSING", "COMMIT_PREPARED"}]
    /\ owns \in [Uploads -> BOOLEAN]
    /\ job \in [Uploads -> JobEnded \cup {"QUEUED", "CLAIMED", "WORKING"}]
    /\ tries \in [Uploads -> 0..MaxAttempts]
    /\ work \in [Uploads -> WorkClosed \cup {"PREPARED", "RUNNING"}]
    /\ handler \in [Uploads -> Returned \cup
                      {"idle", "starting", "verify", "prepare", "publish",
                       "published", "reuse", "reject", "lost"}]
    /\ child \in [Uploads -> Occupied \cup {"none", "gone"}]
    /\ object \in {"NONE", "STAGING", "COMMITTED", "QUARANTINED"}
    /\ variant \in Recordings \cup {NoRecording, Withdrawn}
    /\ staged \in SUBSET Uploads
    /\ stored \in BOOLEAN /\ retired \in BOOLEAN
    /\ claim \in [Uploads -> {"NONE", "PENDING", "DONE"}]
    /\ cleaner \in [Uploads -> RowStates]
    /\ orphan \in {"NONE", "SEEN", "ACTIVE"}
    /\ target \in Uploads \cup {"NONE", "ORPHAN"}
    /\ maint \in RowStates
    /\ faults \in 0..MaxFaults

\* Sealed uploads with their queued jobs.  A file without a row is what an
\* object store restored beside an older database holds.
Init ==
    /\ upload = [u \in Uploads |-> "SEALED"]
    /\ owns = [u \in Uploads |-> FALSE]
    /\ job = [u \in Uploads |-> "QUEUED"]
    /\ tries = [u \in Uploads |-> 0]
    /\ work = [u \in Uploads |-> "NONE"]
    /\ handler = [u \in Uploads |-> "idle"]
    /\ child = [u \in Uploads |-> "none"]
    /\ object = "NONE" /\ variant = NoRecording
    /\ staged = Uploads /\ stored \in BOOLEAN /\ retired = FALSE
    /\ claim = [u \in Uploads |-> "NONE"]
    /\ cleaner = [u \in Uploads |-> "NONE"]
    /\ orphan = "NONE" /\ target = "NONE" /\ maint = "NONE"
    /\ faults = 0

-----------------------------------------------------------------------------
(* Guards shared by the transactions.                                      *)

UnclosedWork(u) == work[u] \notin WorkClosed
UnclosedCleaner(u) == cleaner[u] \notin RowClosed
UnclosedMaintenance == maint \notin RowClosed

\* require_upload_writer without an expected execution.
upload_has_unclosed_writer(u) == UnclosedWork(u) \/ UnclosedCleaner(u)

\* The job fence and the execution row still belong to this attempt.
Fenced(u) == job[u] = "WORKING" /\ work[u] = "RUNNING"

require_cas_unclaimed == orphan # "ACTIVE"

\* Mutant: an object that is being published does not protect its file.
OnlyCommittedIsRegistered == object = "COMMITTED"

object_key_is_registered == object # "NONE"

\* Mutant: the attempt limit is not applied.
RetriesForEver(u) == "QUEUED"

AfterFailure(u) == IF tries[u] = MaxAttempts THEN "FAILED" ELSE "QUEUED"

ReturnsWith(u, outcome) == handler' = [handler EXCEPT ![u] = outcome]

-----------------------------------------------------------------------------
(* The job and its attempt.                                                *)

Claim(u) ==
    /\ job[u] = "QUEUED"
    /\ job' = [job EXCEPT ![u] = "CLAIMED"]
    /\ tries' = [tries EXCEPT ![u] = @ + 1]
    /\ UNCHANGED <<upload, owns, execution, registry, disk, cleaning, retirement, faults>>

\* The job goes back to the queue, and the attempt is not counted.
YieldJob(u) ==
    /\ job' = [job EXCEPT ![u] = "QUEUED"]
    /\ tries' = [tries EXCEPT ![u] = @ - 1]

\* A retained writer: of this upload, or of anything else when it holds the worker's
\* one coordinator entry or the last place of the internal I/O budget.
Defer(u) ==
    /\ job[u] = "CLAIMED"
    /\ upload[u] \notin Terminal
    /\ (\E v \in Uploads : upload_has_unclosed_writer(v)) \/ UnclosedMaintenance
    /\ YieldJob(u)
    /\ UNCHANGED <<upload, owns, execution, registry, disk, cleaning, retirement, faults>>

\* ingest_io_deadline_expired: the attempt returns before its own writer has drained,
\* which is certain when the exit of that writer cannot be proved.
DeferRetained(u) ==
    /\ job[u] = "WORKING"
    /\ handler[u] \in Returned /\ UnclosedWork(u)
    /\ child[u] # "unproved" => faults < MaxFaults
    /\ faults' = IF child[u] = "unproved" THEN faults ELSE faults + 1
    /\ YieldJob(u)
    /\ UNCHANGED <<upload, owns, execution, registry, disk, cleaning, retirement>>

\* plan() returns no ticket for an upload that has ended.
NothingToDo(u) ==
    /\ job[u] = "CLAIMED"
    /\ upload[u] \in Terminal
    /\ job' = [job EXCEPT ![u] = "SUCCEEDED"]
    /\ UNCHANGED <<upload, owns, tries, execution, registry, disk, cleaning, retirement, faults>>

PrepareWork(u) ==
    /\ job[u] = "CLAIMED"
    /\ upload[u] \notin Terminal
    /\ ~upload_has_unclosed_writer(u)
    /\ upload' = [upload EXCEPT ![u] = IF @ = "SEALED" THEN "PROCESSING" ELSE @]
    /\ work' = [work EXCEPT ![u] = "PREPARED"]
    /\ job' = [job EXCEPT ![u] = "WORKING"]
    /\ child' = [child EXCEPT ![u] = "none"]
    /\ ReturnsWith(u, "starting")
    /\ UNCHANGED <<owns, tries, registry, disk, cleaning, retirement, faults>>

StartWork(u) ==
    /\ handler[u] = "starting"
    /\ job[u] = "WORKING"
    /\ work' = [work EXCEPT ![u] = "RUNNING"]
    /\ child' = [child EXCEPT ![u] = "idle"]
    /\ ReturnsWith(u, "verify")
    /\ UNCHANGED <<upload, owns, intake, registry, disk, cleaning, retirement, faults>>

\* Popen raised after it may have created a process, or HELLO named another one:
\* nothing has started, and nothing can be proved to have ended.
SpawnFails(u) ==
    /\ handler[u] = "starting"
    /\ faults < MaxFaults
    /\ faults' = faults + 1
    /\ child' = [child EXCEPT ![u] = "unproved"]
    /\ ReturnsWith(u, "retry")
    /\ UNCHANGED <<upload, owns, intake, work, registry, disk, cleaning, retirement>>

\* The child hashes and analyses the staged file.
Verify(u) ==
    /\ handler[u] = "verify"
    /\ u \in staged
    /\ ReturnsWith(u, "prepare")
    /\ UNCHANGED <<upload, owns, intake, work, child, registry, disk, cleaning, retirement, faults>>

\* Not the declared bytes, not decodable audio, or no safe regular file.
VerifyRejects(u) ==
    /\ handler[u] = "verify"
    /\ u \in staged => faults < MaxFaults
    /\ faults' = IF u \in staged THEN faults + 1 ELSE faults
    /\ ReturnsWith(u, "reject")
    /\ UNCHANGED <<upload, owns, intake, work, child, registry, disk, cleaning, retirement>>

-----------------------------------------------------------------------------
(* prepare_commit: the decision under the digest lock.                     *)

\* An active orphan claim holds the digest, or another upload is publishing.
PrepareWaits(u) ==
    /\ handler[u] = "prepare" /\ Fenced(u)
    /\ ~require_cas_unclaimed \/ (object = "STAGING" /\ ~owns[u])
    /\ ReturnsWith(u, "retry")
    /\ UNCHANGED <<upload, owns, intake, work, child, registry, disk, cleaning, retirement, faults>>

\* A new object row, or the row this upload registered in an earlier attempt.
PreparePublication(u) ==
    /\ handler[u] = "prepare" /\ Fenced(u)
    /\ require_cas_unclaimed
    /\ object = "NONE" \/ (object = "STAGING" /\ owns[u])
    /\ object' = "STAGING"
    /\ owns' = [owns EXCEPT ![u] = TRUE]
    /\ upload' = [upload EXCEPT ![u] = "COMMIT_PREPARED"]
    /\ child' = [child EXCEPT ![u] = "publishing"]
    /\ ReturnsWith(u, "publish")
    /\ UNCHANGED <<intake, work, variant, disk, cleaning, retirement, faults>>

PrepareReuse(u) ==
    /\ handler[u] = "prepare" /\ Fenced(u)
    /\ require_cas_unclaimed
    /\ object = "COMMITTED" /\ variant = RecordingOf[u]
    /\ owns' = [owns EXCEPT ![u] = TRUE]
    /\ upload' = [upload EXCEPT ![u] = "COMMIT_PREPARED"]
    /\ ReturnsWith(u, "reuse")
    /\ UNCHANGED <<intake, work, child, registry, disk, cleaning, retirement, faults>>

PrepareConflict(u) ==
    /\ handler[u] = "prepare" /\ Fenced(u)
    /\ require_cas_unclaimed
    /\ \/ object = "QUARANTINED"
       \/ object = "COMMITTED" /\ variant # RecordingOf[u]
    /\ ReturnsWith(u, "reject")
    /\ UNCHANGED <<upload, owns, intake, work, child, registry, disk, cleaning, retirement, faults>>

\* commit_staging in the child: a hard link, whoever holds the lease by now.
Publish(u) ==
    /\ child[u] = "publishing"
    /\ stored' = TRUE
    /\ child' = [child EXCEPT ![u] = "idle"]
    /\ ReturnsWith(u, IF handler[u] = "publish" THEN "published" ELSE handler[u])
    /\ UNCHANGED <<upload, owns, intake, work, registry, staged, retired, cleaning, retirement, faults>>

\* Another file under the digest, staged bytes that have changed, or an unsafe path.
PublishRejects(u) ==
    /\ child[u] = "publishing" /\ handler[u] = "publish"
    /\ faults < MaxFaults
    /\ faults' = faults + 1
    /\ child' = [child EXCEPT ![u] = "idle"]
    /\ ReturnsWith(u, "reject")
    /\ UNCHANGED <<upload, owns, intake, work, registry, disk, cleaning, retirement>>

\* Mutant: quarantine takes the object along whatever its status.
DetachesCommitted(u) ==
    /\ object' = IF owns[u] THEN "QUARANTINED" ELSE object
    /\ owns' = [owns EXCEPT ![u] = FALSE]
    /\ upload' = [upload EXCEPT ![u] = "QUARANTINED"]

\* Quarantine detaches the upload; an object that is not committed goes with it.
Detach(u) ==
    /\ object' = IF owns[u] /\ object # "COMMITTED" THEN "QUARANTINED" ELSE object
    /\ owns' = [owns EXCEPT ![u] = FALSE]
    /\ upload' = [upload EXCEPT ![u] = "QUARANTINED"]

Reject(u) ==
    /\ handler[u] = "reject" /\ Fenced(u)
    /\ Detach(u)
    /\ ReturnsWith(u, "terminal")
    /\ UNCHANGED <<intake, work, child, variant, disk, cleaning, retirement, faults>>

FinalizePublished(u) ==
    /\ handler[u] = "published" /\ Fenced(u)
    /\ object' = "COMMITTED"
    /\ variant' = RecordingOf[u]
    /\ upload' = [upload EXCEPT ![u] = "COMMITTED"]
    /\ claim' = [claim EXCEPT ![u] = "PENDING"]
    /\ ReturnsWith(u, "ok")
    /\ UNCHANGED <<owns, intake, work, child, disk, cleaner, retirement, faults>>

\* Mutant: the finalization trusts the decision of prepare_commit.
FinalizesWhatWasPrepared(u) ==
    /\ handler[u] = "reuse" /\ Fenced(u)
    /\ upload' = [upload EXCEPT ![u] = "REUSED"]
    /\ claim' = [claim EXCEPT ![u] = "PENDING"]
    /\ ReturnsWith(u, "ok")
    /\ UNCHANGED <<owns, intake, work, child, registry, disk, cleaner, retirement, faults>>

FinalizeReused(u) ==
    /\ handler[u] = "reuse" /\ Fenced(u)
    /\ variant = RecordingOf[u]
    /\ upload' = [upload EXCEPT ![u] = "REUSED"]
    /\ claim' = [claim EXCEPT ![u] = "PENDING"]
    /\ ReturnsWith(u, "ok")
    /\ UNCHANGED <<owns, intake, work, child, registry, disk, cleaner, retirement, faults>>

\* The variant stopped being eligible between the two transactions.
FinalizeConflict(u) ==
    /\ handler[u] = "reuse" /\ Fenced(u)
    /\ variant # RecordingOf[u]
    /\ Detach(u)
    /\ ReturnsWith(u, "terminal")
    /\ UNCHANGED <<intake, work, child, variant, disk, cleaning, retirement, faults>>

-----------------------------------------------------------------------------
(* How an execution ends.                                                  *)

\* A lost fence, a passed I/O deadline, a storage error or a lost reply, also
\* the reply of a finalization that has committed.
GiveUp(u) ==
    /\ \/ handler[u] \notin Returned \cup {"idle", "lost"}
       \/ handler[u] = "ok" /\ UnclosedWork(u)
    /\ job[u] = "WORKING" => faults < MaxFaults
    /\ faults' = IF job[u] = "WORKING" THEN faults + 1 ELSE faults
    /\ ReturnsWith(u, "retry")
    /\ UNCHANGED <<upload, owns, intake, work, child, registry, disk, cleaning, retirement>>

\* FINISH, or the stop request of a handler that has failed.
ChildExits(u) ==
    /\ handler[u] \in Returned
    /\ child[u] \in {"idle", "publishing"}
    /\ child' = [child EXCEPT ![u] = "gone"]
    /\ UNCHANGED <<upload, owns, intake, work, handler, registry, disk, cleaning, retirement, faults>>

\* The tree cannot be sealed: what is left in it may run on, the handler's own
\* process does not.
ExitUnproved(u) ==
    /\ handler[u] \in Returned
    /\ child[u] = "idle"
    /\ faults < MaxFaults
    /\ faults' = faults + 1
    /\ child' = [child EXCEPT ![u] = "unproved"]
    /\ UNCHANGED <<upload, owns, intake, work, handler, registry, disk, cleaning, retirement>>

\* Mutant: the row is closed when the handler returns, before the process exits.
ConfirmsWithoutExit(u) ==
    /\ handler[u] \in Returned
    /\ UnclosedWork(u)
    /\ work' = [work EXCEPT ![u] = IF @ = "PREPARED" THEN "NOT_STARTED" ELSE "EXITED"]
    /\ UNCHANGED <<upload, owns, intake, handler, child, registry, disk, cleaning, retirement, faults>>

\* Mutant: the acknowledgement needs the job's lease.
ConfirmsOnlyWithLease(u) ==
    /\ handler[u] \in Returned
    /\ child[u] \in {"none", "gone"}
    /\ UnclosedWork(u)
    /\ job[u] = "WORKING"
    /\ work' = [work EXCEPT ![u] = IF @ = "PREPARED" THEN "NOT_STARTED" ELSE "EXITED"]
    /\ UNCHANGED <<upload, owns, intake, handler, child, registry, disk, cleaning, retirement, faults>>

\* The acknowledgement carries no fence: exit is a fact whoever holds the job.  The
\* drain asks for the proof again and again, for ever if there is none.
ConfirmExit(u) ==
    /\ handler[u] \in Returned
    /\ child[u] \in {"none", "gone"}
    /\ UnclosedWork(u)
    /\ work' = [work EXCEPT ![u] = IF @ = "PREPARED" THEN "NOT_STARTED" ELSE "EXITED"]
    /\ UNCHANGED <<upload, owns, intake, handler, child, registry, disk, cleaning, retirement, faults>>

\* complete / retry / fail of the job by its own attempt, which waits for the drain.
SettleJob(u) ==
    /\ job[u] = "WORKING"
    /\ handler[u] \in Returned
    /\ ~UnclosedWork(u)
    /\ job' = [job EXCEPT ![u] = CASE handler[u] = "ok" -> "SUCCEEDED"
                                   [] handler[u] = "terminal" -> "FAILED"
                                   [] OTHER -> AfterFailure(u)]
    /\ UNCHANGED <<upload, owns, tries, execution, registry, disk, cleaning, retirement, faults>>

\* Recovery of an expired lease; the old attempt may still be at work.  A stopping
\* worker, and one that finds the blocking entry gone, spend the attempt likewise.
LeaseExpires(u) ==
    /\ job[u] \in {"CLAIMED", "WORKING"}
    /\ (job[u] = "WORKING" /\ handler[u] = "lost") \/ faults < MaxFaults
    /\ faults' = IF job[u] = "WORKING" /\ handler[u] = "lost" THEN faults ELSE faults + 1
    /\ job' = [job EXCEPT ![u] = AfterFailure(u)]
    /\ UNCHANGED <<upload, owns, tries, execution, registry, disk, cleaning, retirement>>

\* The worker dies with its contained process tree; its row stays open.
CrashWork(u) ==
    /\ UnclosedWork(u) /\ handler[u] # "lost"
    /\ faults < MaxFaults
    /\ faults' = faults + 1
    /\ child' = [child EXCEPT ![u] = "gone"]
    /\ ReturnsWith(u, "lost")
    /\ UNCHANGED <<upload, owns, intake, work, registry, disk, cleaning, retirement>>

-----------------------------------------------------------------------------
(* The owner and the library.                                              *)

Cancel(u) ==
    /\ upload[u] = "SEALED"
    /\ ~upload_has_unclosed_writer(u)
    /\ upload' = [upload EXCEPT ![u] = "CANCELLED"]
    /\ claim' = [claim EXCEPT ![u] = "PENDING"]
    /\ UNCHANGED <<owns, intake, execution, registry, disk, cleaner, retirement, faults>>

\* The variant is deleted, or its recording deleted or redirected.
WithdrawVariant ==
    /\ variant \in Recordings
    /\ faults < MaxFaults
    /\ faults' = faults + 1
    /\ variant' = Withdrawn
    /\ UNCHANGED <<upload, owns, intake, execution, object, disk, cleaning, retirement>>

-----------------------------------------------------------------------------
(* Cleanup of a finished upload's staging entry.                           *)

\* WORK has exited and the bytes are committed under the digest.
CleanupTarget(u) ==
    /\ claim[u] = "PENDING"
    /\ upload[u] \in Finished
    /\ work[u] = "EXITED"
    /\ object = "COMMITTED"

PrepareCleanup(u) ==
    /\ CleanupTarget(u)
    /\ ~UnclosedWork(u) /\ cleaner[u] = "NONE"
    /\ cleaner' = [cleaner EXCEPT ![u] = "PREPARED"]
    /\ UNCHANGED <<upload, owns, intake, execution, registry, disk, claim, retirement, faults>>

StartCleanup(u) ==
    /\ cleaner[u] = "PREPARED"
    /\ CleanupTarget(u)
    /\ cleaner' = [cleaner EXCEPT ![u] = "LIVE"]
    /\ UNCHANGED <<upload, owns, intake, execution, registry, disk, claim, retirement, faults>>

\* cleanup_finalized verifies the stored object before it unlinks the entry.
UnlinkStaging(u) ==
    /\ cleaner[u] = "LIVE"
    /\ stored
    /\ staged' = staged \ {u}
    /\ cleaner' = [cleaner EXCEPT ![u] = "CLEANED"]
    /\ UNCHANGED <<upload, owns, intake, execution, registry, stored, retired, claim, retirement, faults>>

\* A failed child, a dead owner, or an owner that died before completing.
FailCleanup(u) ==
    /\ cleaner[u] \notin {"NONE", "FAILED", "LOST"}
    /\ faults < MaxFaults
    /\ faults' = faults + 1
    /\ \E s \in IF cleaner[u] = "CLOSED" THEN {"NONE"} ELSE {"FAILED", "LOST"} :
          cleaner' = [cleaner EXCEPT ![u] = s]
    /\ UNCHANGED <<upload, owns, intake, execution, registry, disk, claim, retirement>>

ConfirmCleanup(u) ==
    /\ cleaner[u] \in {"CLEANED", "FAILED"}
    /\ cleaner' = [cleaner EXCEPT ![u] = IF @ = "CLEANED" THEN "CLOSED" ELSE "NONE"]
    /\ UNCHANGED <<upload, owns, intake, execution, registry, disk, claim, retirement, faults>>

CompleteCleanup(u) ==
    /\ cleaner[u] = "CLOSED"
    /\ CleanupTarget(u)
    /\ claim' = [claim EXCEPT ![u] = "DONE"]
    /\ UNCHANGED <<upload, owns, intake, execution, registry, disk, cleaner, retirement, faults>>

-----------------------------------------------------------------------------
(* Reconciliation: one maintenance execution at a time.                    *)

\* The scan's observation, read without the digest lock.
ObserveOrphan ==
    /\ orphan = "NONE"
    /\ stored /\ ~object_key_is_registered
    /\ orphan' = "SEEN"
    /\ UNCHANGED <<upload, owns, intake, execution, registry, disk, cleaning, target, maint, faults>>

ClaimOrphan ==
    /\ orphan = "SEEN"
    /\ orphan' = IF object_key_is_registered THEN "NONE" ELSE "ACTIVE"
    /\ UNCHANGED <<upload, owns, intake, execution, registry, disk, cleaning, target, maint, faults>>

PrepareRetirement ==
    /\ maint = "NONE"
    /\ orphan = "ACTIVE"
    /\ ~object_key_is_registered
    /\ target' = "ORPHAN" /\ maint' = "PREPARED"
    /\ UNCHANGED <<upload, owns, intake, execution, registry, disk, cleaning, orphan, faults>>

\* require_cleanup_target: the staging of a cancelled upload without a writer.
PrepareDiscard(u) ==
    /\ maint = "NONE"
    /\ upload[u] = "CANCELLED" /\ claim[u] = "PENDING"
    /\ ~upload_has_unclosed_writer(u)
    /\ target' = u /\ maint' = "PREPARED"
    /\ UNCHANGED <<upload, owns, intake, execution, registry, disk, cleaning, orphan, faults>>

StartMaintenance ==
    /\ maint = "PREPARED"
    /\ maint' = "LIVE"
    /\ UNCHANGED <<upload, owns, intake, execution, registry, disk, cleaning, orphan, target, faults>>

\* _retire_file: link into quarantine/ first; a replay finds the link there.
LinkToQuarantine ==
    /\ maint = "LIVE"
    /\ target = "ORPHAN" => stored \/ retired
    /\ retired' = (retired \/ target = "ORPHAN")
    /\ maint' = "CUT"
    /\ UNCHANGED <<upload, owns, intake, execution, registry, staged, stored, cleaning, orphan, target, faults>>

UnlinkRetired ==
    /\ maint = "CUT"
    /\ stored' = (stored /\ target # "ORPHAN")
    /\ staged' = staged \ {target}
    /\ maint' = "CLEANED"
    /\ UNCHANGED <<upload, owns, intake, execution, registry, retired, cleaning, orphan, target, faults>>

FailMaintenance ==
    /\ maint \notin {"NONE", "FAILED", "LOST"}
    /\ faults < MaxFaults
    /\ faults' = faults + 1
    /\ maint' \in IF maint = "CLOSED" THEN {"NONE"} ELSE {"FAILED", "LOST"}
    /\ UNCHANGED <<upload, owns, intake, execution, registry, disk, cleaning, orphan, target>>

ConfirmMaintenance ==
    /\ maint \in {"CLEANED", "FAILED"}
    /\ maint' = IF maint = "CLEANED" THEN "CLOSED" ELSE "NONE"
    /\ UNCHANGED <<upload, owns, intake, execution, registry, disk, cleaning, orphan, target, faults>>

CompleteRetirement ==
    /\ maint = "CLOSED" /\ target = "ORPHAN"
    /\ orphan = "ACTIVE" /\ ~object_key_is_registered
    /\ orphan' = "NONE"
    /\ target' = "NONE" /\ maint' = "NONE"
    /\ UNCHANGED <<upload, owns, intake, execution, registry, disk, cleaning, faults>>

CompleteDiscard(u) ==
    /\ maint = "CLOSED" /\ target = u
    /\ upload[u] = "CANCELLED" /\ ~upload_has_unclosed_writer(u)
    /\ claim' = [claim EXCEPT ![u] = "DONE"]
    /\ target' = "NONE" /\ maint' = "NONE"
    /\ UNCHANGED <<upload, owns, intake, execution, registry, disk, cleaner, orphan, faults>>

\* Offline, with the host proved empty, an operator closes every open row at once.
OfflineDrain ==
    /\ \A u \in Uploads :
          /\ UnclosedWork(u) => handler[u] = "lost"
          /\ UnclosedCleaner(u) => cleaner[u] = "LOST"
    /\ UnclosedMaintenance => maint = "LOST"
    /\ (\E u \in Uploads : upload_has_unclosed_writer(u)) \/ UnclosedMaintenance
    /\ work' = [u \in Uploads |-> IF UnclosedWork(u) THEN "SUPERVISED" ELSE work[u]]
    /\ cleaner' = [u \in Uploads |-> IF UnclosedCleaner(u) THEN "NONE" ELSE cleaner[u]]
    /\ maint' = IF UnclosedMaintenance THEN "NONE" ELSE maint
    /\ UNCHANGED <<upload, owns, intake, handler, child, registry, disk, claim, orphan, target, faults>>

-----------------------------------------------------------------------------

IngestStep(u) ==
    \/ Claim(u) \/ Defer(u) \/ DeferRetained(u) \/ NothingToDo(u) \/ PrepareWork(u)
    \/ StartWork(u) \/ SpawnFails(u) \/ PublishRejects(u) \/ ExitUnproved(u)
    \/ Verify(u) \/ VerifyRejects(u) \/ PrepareWaits(u) \/ PreparePublication(u) \/ PrepareReuse(u)
    \/ PrepareConflict(u) \/ Publish(u) \/ Reject(u) \/ FinalizePublished(u)
    \/ FinalizeReused(u) \/ FinalizeConflict(u) \/ GiveUp(u) \/ ChildExits(u)
    \/ ConfirmExit(u) \/ SettleJob(u) \/ LeaseExpires(u) \/ CrashWork(u) \/ Cancel(u)

CleanupStep(u) ==
    \/ PrepareCleanup(u) \/ StartCleanup(u) \/ UnlinkStaging(u) \/ FailCleanup(u)
    \/ ConfirmCleanup(u) \/ CompleteCleanup(u)

MaintenanceStep ==
    \/ ObserveOrphan \/ ClaimOrphan \/ PrepareRetirement
    \/ (\E u \in Uploads : PrepareDiscard(u) \/ CompleteDiscard(u))
    \/ StartMaintenance \/ LinkToQuarantine \/ UnlinkRetired \/ FailMaintenance
    \/ ConfirmMaintenance \/ CompleteRetirement

Next ==
    \/ \E u \in Uploads : IngestStep(u) \/ CleanupStep(u)
    \/ MaintenanceStep
    \/ WithdrawVariant
    \/ OfflineDrain

Spec == Init /\ [][Next]_vars

\* The worker loop claims, yields and recovers jobs; the execution's threads carry
\* it to its acknowledged exit; the cleanup drain and the reconciler do their
\* part.  Nothing is assumed of faults, cancellation, withdrawal or the operator.
WorkerStep(u) ==
    \/ child[u] = "unproved" /\ DeferRetained(u)
    \/ Claim(u) \/ Defer(u) \/ NothingToDo(u) \/ PrepareWork(u)
    \/ handler[u] = "lost" /\ LeaseExpires(u)

ExecutionStep(u) ==
    \/ StartWork(u) \/ Verify(u) \/ (u \notin staged /\ VerifyRejects(u))
    \/ PrepareWaits(u) \/ PreparePublication(u) \/ PrepareReuse(u) \/ PrepareConflict(u)
    \/ Publish(u) \/ Reject(u) \/ FinalizePublished(u) \/ FinalizeReused(u)
    \/ FinalizeConflict(u) \/ (job[u] # "WORKING" /\ GiveUp(u))
    \/ ChildExits(u) \/ ConfirmExit(u) \/ SettleJob(u)

CleanupProgress(u) ==
    \/ PrepareCleanup(u) \/ StartCleanup(u) \/ UnlinkStaging(u)
    \/ ConfirmCleanup(u) \/ CompleteCleanup(u)

Fairness ==
    /\ \A u \in Uploads :
          WF_vars(WorkerStep(u)) /\ WF_vars(ExecutionStep(u)) /\ WF_vars(CleanupProgress(u))
    /\ WF_vars(MaintenanceStep)

FairSpec == Spec /\ Fairness

-----------------------------------------------------------------------------
(* Properties.                                                             *)

\* No interleaving of ingest, cleanup and reconciliation loses bytes: an upload
\* that may still be retried or examined has its staging file, and a finished
\* one has the stored file and a COMMITTED row.  _target, cleanup_finalized and
\* object_key_is_registered are what keep it.
BytesKept ==
    \A u \in Uploads :
        /\ upload[u] \notin Finished \cup {"CANCELLED"} => u \in staged
        /\ upload[u] \in Finished => stored /\ object = "COMMITTED"

\* Two processes never change one path: no cleanup or discard beside a WORK child of
\* the upload that may live, no retirement of the stored file beside a child that
\* publishes it -- whatever became of the leases.
OneWriter ==
    /\ \A u \in Uploads :
          child[u] \in Occupied =>
              cleaner[u] \notin Live /\ (maint \in Live => target # u)
    /\ maint \in Live /\ target = "ORPHAN" =>
          object = "NONE" /\ \A u \in Uploads : child[u] # "publishing"

\* A late attempt, a conflict of another upload or a reconciler never undoes a
\* publication: the committed object, its file and its recording stay, finished
\* uploads stay finished, and a stored file leaves only for quarantine/.  Nor does an
\* upload end as REUSED on a recording withdrawn since its prepare_commit.
CommittedForGood ==
    [][ /\ object = "COMMITTED" => object' = "COMMITTED" /\ stored'
        /\ \A u \in Uploads : upload[u] \in Finished => upload'[u] = upload[u]
        /\ variant # NoRecording => variant' \in {variant, Withdrawn}
        /\ \A u \in Uploads :
              upload[u] # "REUSED" /\ upload'[u] = "REUSED" => variant' # Withdrawn
        /\ stored => stored' \/ retired' ]_vars

\* An unclosed row nobody is going to close: only the operator can.
Retained ==
    \/ \E u \in Uploads :
          \/ UnclosedWork(u) /\ (child[u] = "unproved" \/ handler[u] = "lost")
          \/ cleaner[u] = "LOST"
    \/ maint = "LOST"

\* Once faults stop, every ingest job ends although retained writers defer it, and
\* every cleanup claim is carried out, unless a row stays retained: its uploads wait
\* for the operator, with all others if it holds the only worker or the whole budget.
\* A WORK row closed offline keeps its claim pending: _target demands PROCESS_EXIT.
UploadsSettle ==
    \/ <>[]Retained
    \/ <>[](\A u \in Uploads :
              /\ job[u] \in JobEnded
              /\ claim[u] = "PENDING" => work[u] = "SUPERVISED")

=============================================================================
