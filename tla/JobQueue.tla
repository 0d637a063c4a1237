------------------------------ MODULE JobQueue ------------------------------
(***************************************************************************)
(* The durable job queue of the server: the rows of jobs.job and           *)
(* jobs.job_attempt, the fenced operations PostgresJobRepository performs  *)
(* on them, and the worker processes (JobWorker, JobExecutionContext and   *)
(* _HeartbeatMonitor) that call these operations.                          *)
(*                                                                         *)
(* Every repository operation runs in one transaction under the row lock   *)
(* of the job, so it is one action.  What interleaves are the transactions *)
(* of several workers, of a worker's main thread and of its heartbeat      *)
(* thread, and the owner's requests.                                       *)
(*                                                                         *)
(* TIME.  A deadline is kept as the time left until it, and Tick counts    *)
(* all of them down together.  PostgreSQL's now() is the start of the      *)
(* transaction, which may precede its commit by the wait for a lock or a   *)
(* slow statement: an operation sees the clock d ticks late, with d at     *)
(* most MaxLag, and a deadline counts down to -MaxLag, after which it is   *)
(* past for every operation.                                               *)
(*                                                                         *)
(* A definition introduced by "Mutant:" is its successor with one bug put  *)
(* in; the mutation runs use it in its place and must find a violation.    *)
(***************************************************************************)
EXTENDS Integers, Sequences, FiniteSets

CONSTANTS
    Jobs, Workers,
    NoJob, NoWorker,     \* NULL in the columns that hold a job or a worker
    RequireSuccess,      \* [Jobs -> SUBSET Jobs], dependency rows by policy
    RequireTerminal,
    EnqueueDelays,       \* how far ahead a caller may set scheduled_at
    MaxAttempts,         \* RetryPolicy.max_attempts
    RetryDelays,         \* the delays RetryPolicy.delay_for may return
    LeaseInterval,       \* JobWorkerSettings.lease_interval
    RecoveryBatch,       \* JobWorkerSettings.recovery_batch_size
    MaxLag,              \* bound: how old a transaction's now() may be
    MaxResourceWaits,    \* bound: how often one job waits for a resource
    MaxLate              \* bound: heartbeat statements left in flight

ASSUME JobQueueAssumption ==
    /\ NoJob \notin Jobs /\ NoWorker \notin Workers
    /\ RequireSuccess \in [Jobs -> SUBSET Jobs]
    /\ RequireTerminal \in [Jobs -> SUBSET Jobs]
    /\ EnqueueDelays \subseteq Nat
    /\ MaxAttempts \in Nat \ {0}
    /\ RetryDelays \subseteq Nat /\ RetryDelays # {}
    /\ LeaseInterval \in Nat \ {0}
    /\ RecoveryBatch \in Nat \ {0}
    /\ MaxLag \in Nat /\ MaxResourceWaits \in Nat /\ MaxLate \in Nat

VARIABLES
    job,        \* [Jobs -> JobRow], jobs.job
    attempts,   \* [Jobs -> Seq(AttemptRow)], jobs.job_attempt by attempt_no
    proc,       \* [Workers -> Process], the worker processes
    late        \* the heartbeats a stopped monitor left in flight

vars == <<job, attempts, proc, late>>

Claimable == {"QUEUED", "RETRY_WAIT"}
Terminal == {"COMPLETED", "FAILED", "CANCELLED"}
JobState == {"ABSENT", "RUNNING"} \cup Claimable \cup Terminal

JobAttemptOutcome == {"SUCCESS", "RETRYABLE_ERROR", "TERMINAL_ERROR",
                      "LEASE_EXPIRED", "RESOURCE_WAIT", "CANCELLED"}

JobRow == [state : JobState,
           due_in : Int,                    \* scheduled_at
           attempt_count : Nat,
           lease_owner : Workers \cup {NoWorker},
           lease_left : Int,                \* lease_deadline
           cancel_requested : BOOLEAN,
           resource_wait_count : Nat,
           resource_waiting : BOOLEAN,
           resource_wake : BOOLEAN,         \* resource_wake_until IS NOT NULL
           checkpoint : Nat]                \* the attempt that saved it, or 0

AttemptRow == [worker : Workers, outcome : JobAttemptOutcome \cup {"OPEN"}]

LeaseFence == [job : Jobs, worker : Workers, attempt : Nat]

\* What the worker will call when the handler and the heartbeat have ended.
Closing == {"COMPLETE", "FAIL_RETRYABLE", "FAIL_TERMINAL", "ACK_CANCEL"}

Process == [phase : {"IDLE", "POLLING", "EXECUTING"} \cup Closing,
            job : Jobs \cup {NoJob},
            attempt : Nat,
            cancel : BOOLEAN,     \* JobExecutionContext._cancel_requested
            lost : BOOLEAN,       \* JobExecutionContext._lease_lost
            failed : BOOLEAN]     \* _HeartbeatMonitor.failure is set

TypeOK == /\ job \in [Jobs -> JobRow]
          /\ attempts \in [Jobs -> Seq(AttemptRow)]
          /\ proc \in [Workers -> Process]
          /\ late \subseteq LeaseFence

AbsentRow == [state |-> "ABSENT", due_in |-> 0, attempt_count |-> 0,
              lease_owner |-> NoWorker, lease_left |-> 0,
              cancel_requested |-> FALSE, resource_wait_count |-> 0,
              resource_waiting |-> FALSE, resource_wake |-> FALSE,
              checkpoint |-> 0]

IdleProcess == [phase |-> "IDLE", job |-> NoJob, attempt |-> 0,
                cancel |-> FALSE, lost |-> FALSE, failed |-> FALSE]

Assigned(j, n) == [phase |-> "EXECUTING", job |-> j, attempt |-> n,
                   cancel |-> FALSE, lost |-> FALSE, failed |-> FALSE]

Init == /\ job = [j \in Jobs |-> AbsentRow]
        /\ attempts = [j \in Jobs |-> << >>]
        /\ proc = [w \in Workers |-> IdleProcess]
        /\ late = {}
-----------------------------------------------------------------------------
Lags == 0..MaxLag

Fence(w) == [job |-> proc[w].job, worker |-> w, attempt |-> proc[w].attempt]

\* The WHERE clause every fenced statement repeats.
Fenced(f) == /\ job[f.job].state = "RUNNING"
             /\ job[f.job].lease_owner = f.worker
             /\ job[f.job].attempt_count = f.attempt

\* Mutant: any lease that has not expired will do.
LiveByDeadline(f, d) == job[f.job].state = "RUNNING" /\ job[f.job].lease_left + d > 0

\* _LOCK_ACTIVE_LEASE: the lease is the caller's and has not expired.
Live(f, d) == Fenced(f) /\ job[f.job].lease_left + d > 0

\* _CLOSE_ATTEMPT finds the row it is to close.
AttemptOpen(f) == /\ f.attempt \in 1..Len(attempts[f.job])
                  /\ attempts[f.job][f.attempt].worker = f.worker
                  /\ attempts[f.job][f.attempt].outcome = "OPEN"

\* _SET_JOB_STATE.
Settled(row, state, delay) ==
    [row EXCEPT !.state = state,
                !.resource_waiting = FALSE, !.resource_wake = FALSE,
                !.due_in = IF state = "RETRY_WAIT" THEN delay ELSE @,
                !.lease_owner = NoWorker, !.lease_left = 0]

\* Mutant: a wait costs a try.
DeferredAtCost(row, delay) ==
    [Settled(row, "RETRY_WAIT", delay) EXCEPT !.resource_waiting = TRUE]

\* The row left behind by an attempt that only waited for a resource.
Deferred(row, delay) ==
    [Settled(row, "RETRY_WAIT", delay)
        EXCEPT !.resource_wait_count = @ + 1, !.resource_waiting = TRUE]

\* The rows an enqueue, a claim, a wake hint and a cancellation leave behind.
Enqueued(row, due) == [row EXCEPT !.state = "QUEUED", !.due_in = due]

\* Mutant: the claim does not count the attempt.
ClaimedUncounted(row, w, lease) ==
    [row EXCEPT !.state = "RUNNING",
                !.resource_waiting = FALSE, !.resource_wake = FALSE,
                !.lease_owner = w, !.lease_left = lease]

Claimed(row, w, lease) ==
    [row EXCEPT !.state = "RUNNING",
                !.resource_waiting = FALSE, !.resource_wake = FALSE,
                !.lease_owner = w, !.lease_left = lease,
                !.attempt_count = @ + 1]

Woken(row) == [row EXCEPT !.resource_wake = TRUE, !.due_in = 0]

Cancelled(row) ==
    [row EXCEPT !.state = "CANCELLED",
                !.resource_waiting = FALSE, !.resource_wake = FALSE,
                !.cancel_requested = TRUE]

\* _finish: close the attempt, then move the job, under one row lock.
Finish(f, outcome, row) ==
    /\ AttemptOpen(f)
    /\ attempts' = [attempts EXCEPT ![f.job][f.attempt].outcome = outcome]
    /\ job' = [job EXCEPT ![f.job] = row]

RetryAttempt(row) == row.attempt_count - row.resource_wait_count

Met(j) == /\ \A p \in RequireSuccess[j] : job[p].state = "COMPLETED"
          /\ \A p \in RequireTerminal[j] : job[p].state \in Terminal
-----------------------------------------------------------------------------
(***************************************************************************)
(* The callers of the queue: enqueue, the owner's cancellation, and the    *)
(* admission scheduler's hint that a waiting job should run now.           *)
(***************************************************************************)

\* A repeated enqueue finds the row of its idempotency key and changes nothing.
Enqueue(j) ==
    /\ job[j].state = "ABSENT"
    /\ \E due \in {0 - d : d \in Lags} \cup EnqueueDelays :
          job' = [job EXCEPT ![j] = Enqueued(job[j], due)]
    /\ UNCHANGED <<attempts, proc, late>>

RequestRunningCancel(j) ==
    /\ job[j].state = "RUNNING"
    /\ job' = [job EXCEPT ![j].cancel_requested = TRUE]
    /\ UNCHANGED <<attempts, proc, late>>

CancelPendingJob(j) ==
    /\ job[j].state \in Claimable
    /\ job' = [job EXCEPT ![j] = Cancelled(job[j])]
    /\ UNCHANGED <<attempts, proc, late>>

RequestCancel(j) == RequestRunningCancel(j) \/ CancelPendingJob(j)

ResourceWake(j) ==
    /\ job[j].state = "RETRY_WAIT"
    /\ job[j].resource_waiting /\ ~job[j].resource_wake
    /\ job' = [job EXCEPT ![j] = Woken(job[j])]
    /\ UNCHANGED <<attempts, proc, late>>
-----------------------------------------------------------------------------
(***************************************************************************)
(* JobWorker.run_once: recover expired leases, then claim at most one job. *)
(***************************************************************************)

Expired(j, d) == job[j].state = "RUNNING" /\ job[j].lease_left + d <= 0

LeaseOf(j) == [job |-> j, worker |-> job[j].lease_owner,
               attempt |-> job[j].attempt_count]

\* Mutant: recovery ignores a recorded cancellation.
RecoveredUncancelled(j) ==
    IF ~AttemptOpen(LeaseOf(j)) THEN "FAILED"
    ELSE IF RetryAttempt(job[j]) >= MaxAttempts THEN "FAILED" ELSE "RETRY_WAIT"

\* The decision of recover_expired for one locked row.
RecoveredState(j) ==
    IF ~AttemptOpen(LeaseOf(j)) THEN "FAILED"
    ELSE IF job[j].cancel_requested THEN "CANCELLED"
    ELSE IF RetryAttempt(job[j]) >= MaxAttempts THEN "FAILED" ELSE "RETRY_WAIT"

\* S is the batch: SKIP LOCKED passes over rows other transactions hold.
RecoverBatch(S, d) ==
    \E delay \in [S -> RetryDelays] :
       /\ job' = [j \in Jobs |->
                    IF j \in S
                    THEN Settled(job[j], RecoveredState(j), delay[j] - d)
                    ELSE job[j]]
       /\ attempts' = [j \in Jobs |->
                    IF j \in S /\ AttemptOpen(LeaseOf(j))
                    THEN [attempts[j] EXCEPT ![job[j].attempt_count].outcome =
                            IF job[j].cancel_requested THEN "CANCELLED"
                                                       ELSE "LEASE_EXPIRED"]
                    ELSE attempts[j]]

RecoverExpired(w) ==
    /\ proc[w].phase = "IDLE"
    /\ \E d \in Lags : \E S \in SUBSET {j \in Jobs : Expired(j, d)} :
          Cardinality(S) <= RecoveryBatch /\ RecoverBatch(S, d)
    /\ proc' = [proc EXCEPT ![w].phase = "POLLING"]
    /\ UNCHANGED late

\* Mutant: the claim does not look at the prerequisites.
CandidateUnmet(j, d) == /\ job[j].state \in Claimable
                        /\ job[j].due_in + d <= 0
                        /\ ~job[j].cancel_requested

\* Mutant: a job that waits for a resource is claimed only when it was woken.
CandidateWoken(j, d) == /\ job[j].state \in Claimable
                        /\ job[j].due_in + d <= 0
                        /\ ~job[j].cancel_requested
                        /\ job[j].resource_waiting => job[j].resource_wake
                        /\ Met(j)

\* The candidates of _claim_sql.  Its ORDER BY prefers woken, then fresh, then
\* urgent jobs; under SKIP LOCKED any of them may be the first one unlocked.
Candidate(j, d) == /\ job[j].state \in Claimable
                   /\ job[j].due_in + d <= 0
                   /\ ~job[j].cancel_requested
                   /\ Met(j)

\* Mutant: a retry reopens the last row of the history.
Reopened(s, w) == IF s = << >> THEN Append(s, [worker |-> w, outcome |-> "OPEN"])
                  ELSE [s EXCEPT ![Len(s)] = [worker |-> w, outcome |-> "OPEN"]]

\* The attempt row a claim inserts.
Opened(s, w) == Append(s, [worker |-> w, outcome |-> "OPEN"])

Claim(w, j) ==
    /\ proc[w].phase = "POLLING"
    /\ \E d \in Lags :
          /\ Candidate(j, d)
          /\ job' = [job EXCEPT ![j] = Claimed(job[j], w, LeaseInterval - d)]
    /\ attempts' = [attempts EXCEPT ![j] = Opened(@, w)]
    /\ proc' = [proc EXCEPT ![w] = Assigned(j, job[j].attempt_count + 1)]
    /\ UNCHANGED late

\* No candidate, or other transactions hold the locks of all of them.
ClaimNothing(w) ==
    /\ proc[w].phase = "POLLING"
    /\ proc' = [proc EXCEPT ![w] = IdleProcess]
    /\ UNCHANGED <<job, attempts, late>>
-----------------------------------------------------------------------------
(***************************************************************************)
(* JobWorker._execute: the handler on the main thread, the heartbeat on a  *)
(* thread of its own, and safe points at which the handler sees what the   *)
(* heartbeat has learnt.                                                   *)
(***************************************************************************)
Executing(w) == proc[w].phase = "EXECUTING"

Ends(w) == proc' = [proc EXCEPT ![w] = IdleProcess]

Heartbeat(w) ==
    /\ Executing(w) /\ ~proc[w].failed
    /\ \E d \in Lags :
          IF Live(Fence(w), d)
          THEN /\ job' = [job EXCEPT ![proc[w].job].lease_left = LeaseInterval - d]
               /\ proc' = [proc EXCEPT ![w].cancel =
                              @ \/ job[proc[w].job].cancel_requested]
          ELSE /\ proc' = [proc EXCEPT ![w].lost = TRUE, ![w].failed = TRUE]
               /\ UNCHANGED job
    /\ UNCHANGED <<attempts, late>>

\* The statement raises (the database is away): the monitor thread ends.
HeartbeatFails(w) ==
    /\ Executing(w) /\ ~proc[w].failed
    /\ proc' = [proc EXCEPT ![w].failed = TRUE]
    /\ UNCHANGED <<job, attempts, late>>

\* The monitor stops.  Its last statement may outlive the join timeout.
StopMonitor(w) ==
    \/ UNCHANGED late
    \/ /\ ~proc[w].failed /\ Cardinality(late) < MaxLate
       /\ late' = late \cup {Fence(w)}

LateHeartbeat(f) ==
    /\ f \in late
    /\ late' = late \ {f}
    /\ \E d \in Lags :
          IF Live(f, d)
          THEN job' = [job EXCEPT ![f.job].lease_left = LeaseInterval - d]
          ELSE UNCHANGED job
    /\ UNCHANGED <<attempts, proc>>

\* raise_if_cancelled, at a safe point of the handler or after it returned.
StopsAtSafePoint(w) ==
    /\ Executing(w)
    /\ proc[w].lost \/ proc[w].cancel
    /\ StopMonitor(w)
    /\ IF proc[w].lost THEN Ends(w)
                       ELSE proc' = [proc EXCEPT ![w].phase = "ACK_CANCEL"]
    /\ UNCHANGED <<job, attempts>>

\* save_checkpoint, its two safe points included.
SaveCheckpoint(w) ==
    /\ Executing(w) /\ ~proc[w].lost /\ ~proc[w].cancel
    /\ \E d \in Lags :
          IF ~Live(Fence(w), d)
          THEN Ends(w) /\ StopMonitor(w) /\ UNCHANGED job
          ELSE /\ job' = [job EXCEPT ![proc[w].job].checkpoint = proc[w].attempt]
               /\ IF job[proc[w].job].cancel_requested
                  THEN /\ proc' = [proc EXCEPT ![w].phase = "ACK_CANCEL"]
                       /\ StopMonitor(w)
                  ELSE UNCHANGED <<proc, late>>
    /\ UNCHANGED attempts

\* defer_for_resource when the admission is WAITING.  An admission that is
\* granted or must be rechecked returns to the handler and changes nothing.
\* The deadline is compared with clock_timestamp(): there is no lag.
DeferForResource(w) ==
    LET f == Fence(w)
        row == job[f.job]
    IN  /\ Executing(w) /\ ~proc[w].lost /\ ~proc[w].cancel
        /\ \/ ~Live(f, 0) /\ UNCHANGED <<job, attempts>>
           \/ /\ Live(f, 0) /\ row.cancel_requested
              /\ Finish(f, "CANCELLED", Settled(row, "CANCELLED", 0))
           \/ /\ Live(f, 0) /\ ~row.cancel_requested
              /\ row.resource_wait_count < MaxResourceWaits
              /\ \E delay \in RetryDelays, d \in Lags :
                    Finish(f, "RESOURCE_WAIT", Deferred(row, delay - d))
        /\ Ends(w) /\ StopMonitor(w)

\* The handler returns and neither flag is up; a monitor that failed or did
\* not stop in time makes the worker give the lease up without completing.
HandlerReturns(w) ==
    /\ Executing(w) /\ ~proc[w].lost /\ ~proc[w].cancel
    /\ StopMonitor(w)
    /\ IF proc[w].failed \/ late' # late
       THEN Ends(w)
       ELSE proc' = [proc EXCEPT ![w].phase = "COMPLETE"]
    /\ UNCHANGED <<job, attempts>>

\* RetryableJobError; or TerminalJobError and every unclassified exception.
HandlerRaises(w) ==
    /\ Executing(w)
    /\ StopMonitor(w)
    /\ \E phase \in {"FAIL_RETRYABLE", "FAIL_TERMINAL"} :
          proc' = [proc EXCEPT ![w].phase = phase]
    /\ UNCHANGED <<job, attempts>>

\* complete, fail_retryable, fail_terminal and acknowledge_cancel: a lost lease
\* changes nothing, a pending cancellation wins over every other verdict.
CloseJob(w) ==
    LET f == Fence(w)
        row == job[f.job]
        phase == proc[w].phase
    IN  /\ phase \in Closing
        /\ \E d \in Lags :
           \/ /\ ~Live(f, d) \/ (phase = "ACK_CANCEL" /\ ~row.cancel_requested)
              /\ UNCHANGED <<job, attempts>>
           \/ /\ Live(f, d) /\ row.cancel_requested
              /\ Finish(f, "CANCELLED", Settled(row, "CANCELLED", 0))
           \/ /\ Live(f, d) /\ ~row.cancel_requested /\ phase = "COMPLETE"
              /\ Finish(f, "SUCCESS", Settled(row, "COMPLETED", 0))
           \/ /\ Live(f, d) /\ ~row.cancel_requested /\ phase = "FAIL_TERMINAL"
              /\ Finish(f, "TERMINAL_ERROR", Settled(row, "FAILED", 0))
           \/ /\ Live(f, d) /\ ~row.cancel_requested /\ phase = "FAIL_RETRYABLE"
              /\ RetryAttempt(row) >= MaxAttempts
              /\ Finish(f, "RETRYABLE_ERROR", Settled(row, "FAILED", 0))
           \/ /\ Live(f, d) /\ ~row.cancel_requested /\ phase = "FAIL_RETRYABLE"
              /\ RetryAttempt(row) < MaxAttempts
              /\ \E delay \in RetryDelays :
                    Finish(f, "RETRYABLE_ERROR", Settled(row, "RETRY_WAIT", delay - d))
        /\ Ends(w)
        /\ UNCHANGED late

\* The process dies and restarts, perhaps with the same configured worker_id.
Crash(w) ==
    /\ proc[w].phase # "IDLE"
    /\ Ends(w)
    /\ UNCHANGED <<job, attempts, late>>
-----------------------------------------------------------------------------
CountDown(n) == IF n > -MaxLag THEN n - 1 ELSE n

Tick ==
    /\ job' = [j \in Jobs |->
                 [job[j] EXCEPT
                    !.lease_left = IF job[j].state = "RUNNING" THEN CountDown(@) ELSE @,
                    !.due_in = IF job[j].state \in Claimable THEN CountDown(@) ELSE @]]
    /\ UNCHANGED <<attempts, proc, late>>

Worker(w) == \/ RecoverExpired(w) \/ (\E j \in Jobs : Claim(w, j)) \/ ClaimNothing(w)
             \/ Heartbeat(w) \/ HeartbeatFails(w)
             \/ StopsAtSafePoint(w) \/ SaveCheckpoint(w) \/ DeferForResource(w)
             \/ HandlerReturns(w) \/ HandlerRaises(w) \/ CloseJob(w) \/ Crash(w)

Caller(j) == Enqueue(j) \/ RequestCancel(j) \/ ResourceWake(j)

Next == \/ \E j \in Jobs : Caller(j)
        \/ \E w \in Workers : Worker(w)
        \/ \E f \in late : LateHeartbeat(f)
        \/ Tick

Spec == Init /\ [][Next]_vars
-----------------------------------------------------------------------------
(***************************************************************************)
(* Safety.                                                                 *)
(***************************************************************************)

\* jobs.job and jobs.job_attempt agree: there is one attempt row per claim, and
\* the only open one is the last, held by the lease owner, while the job runs.
\* claim appends it, _finish and recover_expired close it.
OneOpenAttempt ==
    \A j \in Jobs :
       /\ Len(attempts[j]) = job[j].attempt_count
       /\ \A n \in 1..Len(attempts[j]) :
             attempts[j][n].outcome = "OPEN"
                <=> (job[j].state = "RUNNING" /\ n = job[j].attempt_count)
       /\ job[j].state = "RUNNING" =>
             /\ job[j].attempt_count > 0
             /\ attempts[j][job[j].attempt_count].worker = job[j].lease_owner

\* A recorded cancellation is never stranded on a job nobody would pick up: the
\* job still runs under a lease (and will be closed or recovered as CANCELLED),
\* or it is CANCELLED.  claim skips rows with cancel_requested_at, so a row sent
\* back to RETRY_WAIT with the mark would stay there for ever.
CancelIsNotStranded ==
    \A j \in Jobs : job[j].cancel_requested => job[j].state \in {"RUNNING", "CANCELLED"}

\* Failures, crashes and lease expiries together use at most max_attempts tries,
\* however often the job was sent back to wait for a resource in between, and a
\* job that may be claimed again has a try left (_retry_attempt_no).
RetryBudget ==
    \A j \in Jobs :
       /\ job[j].resource_wait_count <= job[j].attempt_count
       /\ RetryAttempt(job[j]) <= MaxAttempts
       /\ job[j].state = "RUNNING" => RetryAttempt(job[j]) > 0
       /\ job[j].state \in Claimable => RetryAttempt(job[j]) < MaxAttempts

\* The CHECK constraints of jobs.job on the lease and the wait columns: a step
\* that broke one would abort its transaction and leave the job unfinished.
RowChecks ==
    \A j \in Jobs :
       /\ job[j].resource_waiting => job[j].state = "RETRY_WAIT"
       /\ job[j].resource_wake => job[j].resource_waiting
       /\ job[j].lease_owner # NoWorker <=> job[j].state = "RUNNING"

\* A job that was ever started had its prerequisites satisfied, and they still
\* are: REQUIRE_SUCCESS on a COMPLETED job, REQUIRE_TERMINAL on a finished one.
StartedAfterPrerequisites ==
    \A j \in Jobs : job[j].attempt_count > 0 => Met(j)

\* A process works on a job exactly between its claim and its last call.
Engaged(w) == proc[w].phase \in {"EXECUTING"} \cup Closing

EngagedOnJob == \A w \in Workers : /\ Engaged(w) => proc[w].job \in Jobs
                                   /\ ~Engaged(w) => proc[w].job = NoJob

Untouched == \A j \in Jobs : job[j].state = "ABSENT" =>
                job[j].attempt_count = 0 /\ job[j].resource_wait_count = 0

CheckpointByAttempt == \A j \in Jobs : job[j].checkpoint <= job[j].attempt_count

\* The inductive invariant: the tables, the fences and the retry budget agree in
\* every state, whichever transaction commits next.
IInv == /\ TypeOK /\ EngagedOnJob /\ Untouched /\ CheckpointByAttempt
        /\ OneOpenAttempt /\ CancelIsNotStranded /\ RetryBudget /\ RowChecks
        /\ StartedAfterPrerequisites

\* History is immutable: a closed attempt keeps its worker and its outcome, so no
\* late worker closes an attempt a second time or reopens it (_CLOSE_ATTEMPT).
AttemptsAreFinal ==
    [][\A j \in Jobs : \A n \in 1..Len(attempts[j]) :
          attempts[j][n].outcome # "OPEN" =>
             n <= Len(attempts'[j]) /\ attempts'[j][n] = attempts[j][n]]_vars

\* The attempt f stands for is over: it was recovered after a pause, or closed by
\* an earlier call.
Stale(f) == ~AttemptOpen(f)

\* The statements a worker issues on behalf of its attempt.
Calls(w) == Heartbeat(w) \/ SaveCheckpoint(w) \/ DeferForResource(w) \/ CloseJob(w)

\* A worker whose attempt is over changes neither table with any statement it can
\* still issue, its heartbeats and checkpoints included, and neither does a
\* heartbeat that was left in flight: each carries the fence of its attempt.
StaleWorkerIsFenced ==
    [][/\ \A w \in Workers :
             Engaged(w) /\ Stale(Fence(w)) /\ Calls(w) => UNCHANGED <<job, attempts>>
       /\ \A f \in late : Stale(f) /\ LateHeartbeat(f) => UNCHANGED <<job, attempts>>]_vars

\* A checkpoint is never overwritten by the worker of an earlier attempt, so the
\* next attempt resumes from the latest progress (_SAVE_CHECKPOINT).
CheckpointsAdvance ==
    [][\A j \in Jobs : job'[j].checkpoint >= job[j].checkpoint]_vars
-----------------------------------------------------------------------------
(***************************************************************************)
(* Fairness and liveness.                                                  *)
(*                                                                         *)
(* The clock advances; a worker process runs its loop (run_forever) and    *)
(* its handlers return or raise.  Row locks last one transaction, so a     *)
(* poll that keeps finding claimable or expired rows does not collide with *)
(* another transaction every time: strong fairness of a successful claim   *)
(* and of a recovery that finds something.  Nothing forbids crashes,       *)
(* failed heartbeats or requests, and nothing makes a heartbeat happen.    *)
(***************************************************************************)
HandlerEnds(w) == HandlerReturns(w) \/ HandlerRaises(w) \/ StopsAtSafePoint(w)

Polls(w) == ClaimNothing(w) \/ \E j \in Jobs : Claim(w, j)

WorkerFairness(w) ==
    /\ WF_vars(RecoverExpired(w))
    /\ SF_vars(RecoverExpired(w) /\ job' # job)
    /\ WF_vars(Polls(w))
    /\ SF_vars(\E j \in Jobs : Claim(w, j))
    /\ WF_vars(HandlerEnds(w))
    /\ WF_vars(CloseJob(w))

Fairness == WF_vars(Tick) /\ \A w \in Workers : WorkerFairness(w)

FairSpec == Spec /\ Fairness

\* Every enqueued job whose prerequisites are satisfied ends, whatever crashes,
\* expired leases, retries and resource waits it meets on the way.
EveryJobEnds ==
    \A j \in Jobs :
       (job[j].state # "ABSENT" /\ Met(j)) ~> (job[j].state \in Terminal)

\* A cancellation recorded while the job runs takes effect, even if the worker
\* that should acknowledge it dies.
CancelTakesEffect ==
    \A j \in Jobs : job[j].cancel_requested ~> (job[j].state = "CANCELLED")
-----------------------------------------------------------------------------
(***************************************************************************)
(* The queue implements the life cycle it promises.                        *)
(***************************************************************************)
Lifecycle == INSTANCE JobLifecycle WITH
                state <- [j \in Jobs |-> job[j].state],
                cancelling <- [j \in Jobs |-> job[j].cancel_requested],
                tries <- [j \in Jobs |-> RetryAttempt(job[j])]

\* Seen through the state, the cancellation mark and the retry budget of its
\* rows, every step of the queue is a step of JobLifecycle or changes nothing.
ImplementsLifecycle == Lifecycle!Spec
=============================================================================
