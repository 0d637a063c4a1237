-------------------------- MODULE ResourceAdmission --------------------------
(***************************************************************************)
(* Admission of network operations (playbacks and transfers) to a limited  *)
(* capacity: the rows of account.resource_admission, the I/O permits and   *)
(* the process executions that draw on a grant, the scheduler that hands   *)
(* capacity out (advance), the jobs that wait for it, and the child        *)
(* processes that use it.                                                  *)
(*                                                                         *)
(* Every operation of ResourceAdmissionService takes one advisory lock, so *)
(* it is atomic against all others.  A handler that ends by calling        *)
(* advance leaves `advancing` TRUE: the lock is still held, no other       *)
(* handler and no tick of the clock can come between, and the grants are   *)
(* made one per step until the loop has nothing left to do.                *)
(*                                                                         *)
(* Deadlines are the time left until them.  now is read after the lock is  *)
(* taken (clock_timestamp), so an operation sees the current clock.        *)
(*                                                                         *)
(* A definition introduced by "Mutant:" is its successor with one bug put  *)
(* in; the mutation runs use it in its place and must find a violation.    *)
(***************************************************************************)
EXTENDS Integers, FiniteSets

CONSTANTS
    Ops,                 \* operation identities, one row each
    WorkerOps,           \* those a server job acquires (acquire_worker)
    Streams,             \* those whose executions only read (VAULT_STREAM)
    Users, Devices, NoDevice,
    Targets,             \* recordings, vault objects, upload or provider targets
    Permits,             \* bound: the permit rows that may exist at once
    UserOf, DeviceOf, KindOf, TargetOf,       \* columns fixed at acquisition
    GlobalLimit, AccountLimit, DeviceLimit,   \* [Kinds -> Nat]
    LeaseTTL, ReservationTTL, WaitingTTL, PermitTTL, HeartbeatTTL,
    MaxWaiting,          \* MAX_WAITING_PER_ACCOUNT
    JobLease,            \* lease_interval of the jobs
    Withdrawable,        \* operations whose session or target may go away
    MaxGrants,           \* bound: grants made, and demand that may still get one
    MaxAttempts          \* bound: claims of one job

Kinds == {"PLAYBACK", "TRANSFER"}

ASSUME ResourceAssumption ==
    /\ IsFiniteSet(Ops) /\ IsFiniteSet(Targets)
    /\ WorkerOps \subseteq Ops /\ Streams \subseteq Ops \ WorkerOps
    /\ Withdrawable \subseteq Ops
    /\ NoDevice \notin Devices
    /\ UserOf \in [Ops -> Users]
    /\ DeviceOf \in [Ops -> Devices \cup {NoDevice}]
    /\ KindOf \in [Ops -> Kinds]
    /\ TargetOf \in [Ops -> Targets]
    /\ GlobalLimit \in [Kinds -> Nat] /\ AccountLimit \in [Kinds -> Nat]
    /\ DeviceLimit \in [Kinds -> Nat]
    /\ \A t \in {LeaseTTL, ReservationTTL, WaitingTTL, PermitTTL, HeartbeatTTL, JobLease} :
          t \in Nat \ {0}
    /\ MaxWaiting \in Nat \ {0} /\ MaxGrants \in Nat /\ MaxAttempts \in Nat

VARIABLES
    op,               \* [Ops -> OpRow], account.resource_admission
    ahead,            \* [Ops -> SUBSET Ops], those with an earlier enqueued_at
    last_grant,       \* [Users -> [Kinds -> Nat]], resource_grant_cursor
    grant_sequence,   \* resource_quota_policy.grant_sequence
    permit,           \* [Permits -> PermitRow or NoPermit], permits with executions
    child,            \* [Permits -> ChildState], the retained child processes
    jobs,             \* [WorkerOps -> JobView], what admission reads of jobs.job
    revoked,          \* users whose authority was terminated
    withdrawn,        \* operations whose session expired or whose target is gone
    advancing         \* a handler holds the lock and runs advance

rows == <<op, ahead, last_grant, grant_sequence, permit>>
world == <<child, jobs, revoked, withdrawn>>
vars == <<op, ahead, last_grant, grant_sequence, permit, child, jobs, revoked,
          withdrawn, advancing>>

AdmissionState == {"ABSENT", "WAITING", "ACTIVE", "RELEASED", "EXPIRED"}

\* activation stands for activation_id together with generation: a grant makes a
\* fresh uuid and increments the generation, and fences compare both.
OpRow == [state : AdmissionState, activation : Nat,
          lease_left : Nat, claim_left : Nat, claimed : BOOLEAN,
          waiting_left : Nat,              \* unused (NULL) for worker operations
          attempt : Nat,                   \* job_attempt of the bound authority
          attached : SUBSET Targets]       \* current and next recording

AbsentOp == [state |-> "ABSENT", activation |-> 0, lease_left |-> 0, claim_left |-> 0,
             claimed |-> FALSE, waiting_left |-> 0, attempt |-> 0, attached |-> {}]

Unclosed == {"PREPARED", "RUNNING", "STOPPING", "ORPHANED"}

\* attempt is no column: it is the job claim in whose name the session that opened
\* the permit presents it (0 for a device's operation).
PermitRow == [op : Ops, activation : Nat, attempt : Nat, target : Targets, left : Nat,
              exec : Unclosed \cup {"NONE", "CLOSED"},  \* its execution, if any
              started : BOOLEAN,                        \* child_pid is recorded
              beat_left : Nat]                          \* until heartbeat_at is stale

NoPermit == [op |-> "none"]

\* RetainedVaultProcess: not spawned; sealed without a spawn; waiting for GO;
\* doing I/O; exited; LOST: whatever runs, its handle will never prove an exit.
ChildState == {"NONE", "SEALED", "SPAWNED", "WORKING", "EXITED", "LOST"}

JobView == [state : {"QUEUED", "RUNNING", "RETRY_WAIT", "ENDED"}, attempt : Nat,
            lease_left : Nat, waiting : BOOLEAN,
            wake : BOOLEAN, wake_left : Nat]      \* resource_wake_until

IdleJob == [state |-> "QUEUED", attempt |-> 0, lease_left |-> 0, waiting |-> FALSE,
            wake |-> FALSE, wake_left |-> 0]

Held(p) == permit[p] # NoPermit

TypeOK == /\ op \in [Ops -> OpRow]
          /\ ahead \in [Ops -> SUBSET Ops]
          /\ last_grant \in [Users -> [Kinds -> Nat]]
          /\ grant_sequence \in 0..MaxGrants
          /\ permit \in [Permits -> PermitRow \cup {NoPermit}]
          /\ child \in [Permits -> ChildState]
          /\ jobs \in [WorkerOps -> JobView]
          /\ revoked \subseteq Users /\ withdrawn \subseteq Ops
          /\ advancing \in BOOLEAN

Init == /\ op = [o \in Ops |-> AbsentOp]
        /\ ahead = [o \in Ops |-> {}]
        /\ last_grant = [u \in Users |-> [k \in Kinds |-> 0]]
        /\ grant_sequence = 0
        /\ permit = [p \in Permits |-> NoPermit]
        /\ child = [p \in Permits |-> "NONE"]
        /\ jobs = [o \in WorkerOps |-> IdleJob]
        /\ revoked = {} /\ withdrawn = {}
        /\ advancing = FALSE
-----------------------------------------------------------------------------
(***************************************************************************)
(* What the SQL predicates say of the rows.                                *)
(***************************************************************************)
PermitsOf(o) == {p \in Permits : Held(p) /\ permit[p].op = o}

ExecUnclosed(p) == Held(p) /\ permit[p].exec \in Unclosed

\* A permit that has not expired or whose execution is not closed.
LivePermits(o) == {p \in PermitsOf(o) : permit[p].left > 0 \/ ExecUnclosed(p)}

\* ResourceAdmission.active_at.
ActiveRow(row) == /\ row.state = "ACTIVE" /\ row.lease_left > 0
                  /\ row.claimed \/ row.claim_left > 0

\* Occupied capacity, shared by admission and the usage view.
Charged(o) == ActiveRow(op[o]) \/ LivePermits(o) # {}

ChargedOps(k) == {o \in Ops : KindOf[o] = k /\ Charged(o)}
AccountUse(u, k) == Cardinality({o \in ChargedOps(k) : UserOf[o] = u})
DeviceUse(d, k) == Cardinality({o \in ChargedOps(k) : DeviceOf[o] = d})

\* ResourceAdmission.expire: a worker's WAITING row has no deadline.
Expire(o, row) ==
    IF \/ row.state = "ACTIVE" /\ ~ActiveRow(row)
       \/ row.state = "WAITING" /\ o \notin WorkerOps /\ row.waiting_left = 0
    THEN [row EXCEPT !.state = "EXPIRED"] ELSE row

Waiting(o) == /\ op[o].state = "WAITING"
              /\ o \in WorkerOps \/ op[o].waiting_left > 0

WaitingCount(u, k) == Cardinality({o \in Ops : UserOf[o] = u /\ KindOf[o] = k /\ Waiting(o)})

\* The current job attempt owns a live lease (_require with execution=True).
JobRuns(o) == o \in WorkerOps => jobs[o].state = "RUNNING" /\ jobs[o].lease_left > 0

\* _authenticate: the account, the session and, for a worker, its job claim.
CanAct(o) == UserOf[o] \notin revoked /\ o \notin withdrawn /\ JobRuns(o)

Bound(o) == o \in WorkerOps => op[o].attempt = jobs[o].attempt

\* _owned: the caller's authority is the one the row is bound to.
Owned(o) == CanAct(o) /\ op[o].state # "ABSENT" /\ Bound(o)

\* Every handler that reaches advance returns its row and keeps the lock.
SaveAndAdvance(o, row) == op' = [op EXCEPT ![o] = row] /\ advancing' = TRUE

\* enqueued_at = now: o goes behind every row there is.
Enqueued(o) == [x \in Ops |-> IF x = o THEN {y \in Ops \ {o} : op[y].state # "ABSENT"}
                                       ELSE ahead[x] \ {o}]
-----------------------------------------------------------------------------
(***************************************************************************)
(* Acquire, poll, renew, release, cancel.                                  *)
(***************************************************************************)
Refreshed(o, row) ==
    IF row.state = "WAITING" /\ o \notin WorkerOps
    THEN [row EXCEPT !.waiting_left = WaitingTTL] ELSE row

\* Mutant: the next attempt keeps the grant of the one before it.
ReboundAlive(o, row) ==
    IF o \in WorkerOps THEN [row EXCEPT !.attempt = jobs[o].attempt] ELSE row

\* A later claim of the job cannot inherit the activation of an earlier one.
Rebound(o, row) ==
    IF o \in WorkerOps /\ row.attempt # jobs[o].attempt
    THEN [row EXCEPT !.attempt = jobs[o].attempt,
                     !.state = IF @ = "ACTIVE" THEN "EXPIRED" ELSE @]
    ELSE row

Acquire(o) ==
    LET row == Rebound(o, Expire(o, op[o]))
    IN  /\ ~advancing /\ CanAct(o)
        /\ row.state # "RELEASED"
        /\ \/ /\ row.state \in {"ABSENT", "EXPIRED"}
              /\ grant_sequence + Cardinality({x \in Ops : op[x].state = "WAITING"}) < MaxGrants
              /\ WaitingCount(UserOf[o], KindOf[o]) < MaxWaiting
              /\ ahead' = Enqueued(o)
              /\ SaveAndAdvance(o, Refreshed(o, [row EXCEPT !.state = "WAITING",
                                                            !.attached = {}]))
           \/ /\ row.state \in {"WAITING", "ACTIVE"}
              /\ SaveAndAdvance(o, Refreshed(o, row))
              /\ UNCHANGED ahead
        /\ UNCHANGED <<last_grant, grant_sequence, permit, world>>

Poll(o) ==
    /\ ~advancing /\ Owned(o)
    /\ SaveAndAdvance(o, Refreshed(o, Expire(o, op[o])))
    /\ UNCHANGED <<ahead, last_grant, grant_sequence, permit, world>>

\* The caller presents the fence of the current activation.
Renew(o) ==
    /\ ~advancing /\ Owned(o) /\ ActiveRow(op[o])
    /\ SaveAndAdvance(o, [op[o] EXCEPT !.claimed = TRUE, !.lease_left = LeaseTTL])
    /\ UNCHANGED <<ahead, last_grant, grant_sequence, permit, world>>

Release(o) ==
    /\ ~advancing /\ Owned(o)
    /\ op[o].activation # 0 /\ op[o].state # "WAITING"
    /\ SaveAndAdvance(o, [op[o] EXCEPT !.state = "RELEASED"])
    /\ UNCHANGED <<ahead, last_grant, grant_sequence, permit, world>>

CancelWaiting(o) ==
    /\ ~advancing /\ Owned(o)
    /\ op[o].state \in {"WAITING", "RELEASED"}
    /\ SaveAndAdvance(o, [op[o] EXCEPT !.state = "RELEASED"])
    /\ UNCHANGED <<ahead, last_grant, grant_sequence, permit, world>>

\* Mutant: what the playback still drains from is forgotten.
FitsIgnoringDrain(o, S) == Cardinality(S) <= 2

\* Outgoing recordings stay attached while their permits drain.
FitsPlayback(o, S) == Cardinality(S \cup {permit[p].target : p \in LivePermits(o)}) <= 2

\* Current and next recording of a playback.
Attach(o, S) ==
    /\ ~advancing /\ Owned(o) /\ ActiveRow(op[o]) /\ KindOf[o] = "PLAYBACK"
    /\ S # {}
    /\ FitsPlayback(o, S)
    /\ op' = [op EXCEPT ![o].attached = S]
    /\ UNCHANGED <<ahead, last_grant, grant_sequence, permit, advancing, world>>
-----------------------------------------------------------------------------
(***************************************************************************)
(* I/O permits and executions.                                             *)
(***************************************************************************)
MayTouch(o, t) == IF KindOf[o] = "PLAYBACK" THEN t \in op[o].attached ELSE t = TargetOf[o]

MaxPermits(o) == IF KindOf[o] = "PLAYBACK" THEN 3 ELSE 1

OpenIo(o, t, p) ==
    /\ ~advancing /\ Owned(o) /\ ActiveRow(op[o]) /\ MayTouch(o, t)
    /\ Cardinality(LivePermits(o)) < MaxPermits(o)
    /\ ~Held(p) /\ child[p] = "NONE"
    /\ op' = [op EXCEPT ![o].claimed = TRUE, ![o].lease_left = LeaseTTL]
    /\ permit' = [permit EXCEPT ![p] =
                    [op |-> o, activation |-> op[o].activation,
                     attempt |-> op[o].attempt, target |-> t,
                     left |-> PermitTTL, exec |-> "NONE", started |-> FALSE,
                     beat_left |-> 0]]
    /\ UNCHANGED <<ahead, last_grant, grant_sequence, advancing, world>>

\* The permit's holder still has the authority of the activation that opened it.
PermitValid(p) ==
    /\ Held(p) /\ permit[p].left > 0
    /\ Owned(permit[p].op) /\ ActiveRow(op[permit[p].op])
    /\ op[permit[p].op].activation = permit[p].activation
    /\ op[permit[p].op].attempt = permit[p].attempt
    /\ MayTouch(permit[p].op, permit[p].target)

SetPermit(p, row) ==
    /\ permit' = [permit EXCEPT ![p] = row]
    /\ UNCHANGED <<op, ahead, last_grant, grant_sequence, advancing, world>>

RenewIo(p) ==
    /\ ~advancing /\ PermitValid(p)
    /\ permit[p].exec \in {"NONE", "PREPARED", "RUNNING"}
    /\ SetPermit(p, [permit[p] EXCEPT !.left = PermitTTL])

\* renew_execution_io: the permit and the owner's heartbeat together.
RenewExecutionIo(p) ==
    /\ ~advancing /\ PermitValid(p)
    /\ permit[p].exec \in {"PREPARED", "RUNNING"}
    /\ SetPermit(p, [permit[p] EXCEPT !.left = PermitTTL, !.beat_left = HeartbeatTTL])

\* ExecutionKind: streams read, uploads and providers write.
ExecKind(o) == IF o \in Streams THEN "STREAM"
               ELSE IF o \in WorkerOps THEN "PROVIDER" ELSE "UPLOAD"

\* Mutant: only a process that reported its start is in the way.
BusyWhenRunning(p) ==
    /\ permit[p].op \notin Streams
    /\ \E q \in Permits : /\ Held(q) /\ permit[q].exec = "RUNNING"
                          /\ ExecKind(permit[q].op) = ExecKind(permit[p].op)
                          /\ permit[q].target = permit[p].target

\* Another unclosed execution of the kind works on the target.
Busy(p) == /\ permit[p].op \notin Streams
           /\ \E q \in Permits : /\ ExecUnclosed(q)
                                 /\ ExecKind(permit[q].op) = ExecKind(permit[p].op)
                                 /\ permit[q].target = permit[p].target

PrepareExecution(p) ==
    /\ ~advancing /\ PermitValid(p)
    /\ permit[p].exec = "NONE" /\ child[p] = "NONE" /\ ~Busy(p)
    /\ SetPermit(p, [permit[p] EXCEPT !.exec = "PREPARED", !.beat_left = HeartbeatTTL])

StartExecution(p) ==
    /\ ~advancing /\ PermitValid(p)
    /\ permit[p].exec = "PREPARED" /\ child[p] = "SPAWNED"
    /\ SetPermit(p, [permit[p] EXCEPT !.exec = "RUNNING", !.started = TRUE,
                                      !.beat_left = HeartbeatTTL])

HeartbeatExecution(p) ==
    /\ ~advancing /\ Held(p)
    /\ permit[p].exec \in {"PREPARED", "RUNNING"}
    /\ SetPermit(p, [permit[p] EXCEPT !.beat_left = HeartbeatTTL])

StopExecution(p) ==
    /\ ~advancing /\ Held(p)
    /\ permit[p].exec \in {"PREPARED", "RUNNING"}
    /\ SetPermit(p, [permit[p] EXCEPT !.exec = "STOPPING"])

\* Mutant: a process that never ran has no exit to prove.
ExitProofOfExit(p) == child[p] = "EXITED"

\* NOT_STARTED proof of a sealed child, or PROCESS_EXIT / SUPERVISOR_EXIT proof.
ExitProof(p) ==
    \/ child[p] = "SEALED" /\ permit[p].exec \in {"PREPARED", "STOPPING"}
    \/ child[p] = "EXITED"

ConfirmExecutionExit(p) ==
    /\ ~advancing /\ ExecUnclosed(p) /\ ExitProof(p)
    /\ SetPermit(p, [permit[p] EXCEPT !.exec = "CLOSED"])

\* The slot of a removed row may be used again once its child is over.
Freed(S) == child' = [p \in Permits |->
                        IF p \in S /\ child[p] \in {"SEALED", "EXITED"} THEN "NONE" ELSE child[p]]

CloseIo(p) ==
    /\ ~advancing /\ Held(p) /\ ~ExecUnclosed(p)
    /\ permit' = [permit EXCEPT ![p] = NoPermit]
    /\ Freed({p})
    /\ advancing' = TRUE
    /\ UNCHANGED <<op, ahead, last_grant, grant_sequence, jobs, revoked, withdrawn>>
-----------------------------------------------------------------------------
(***************************************************************************)
(* advance: the scheduler at the end of a handler, under the same lock.    *)
(***************************************************************************)
JobLives(o) == o \in WorkerOps => jobs[o].state # "ENDED"

\* require_intent: durable demand, whether or not its worker runs now.
IntentValid(o) == UserOf[o] \notin revoked /\ o \notin withdrawn /\ JobLives(o)

\* A job that can use a grant: it runs, or it sleeps until a grant is near.
Reachable(o) ==
    \/ jobs[o].state = "RUNNING" /\ jobs[o].lease_left > 0
    \/ /\ jobs[o].state = "RETRY_WAIT" /\ jobs[o].waiting
       /\ jobs[o].wake => jobs[o].wake_left > 0

\* Mutant: a process that has not exited does not hold the operation back.
DrainedOfPermits(o) == \A p \in PermitsOf(o) : permit[p].left = 0

\* Nothing of an earlier activation is left.
Drained(o) == LivePermits(o) = {}

WithinAccount(o) == AccountUse(UserOf[o], KindOf[o]) < AccountLimit[KindOf[o]]

\* Mutant: a device is not limited.
WithinAnyDevice(o) == TRUE

WithinDevice(o) == DeviceOf[o] # NoDevice =>
                      DeviceUse(DeviceOf[o], KindOf[o]) < DeviceLimit[KindOf[o]]

Eligible(o) == /\ Waiting(o)
               /\ UserOf[o] \notin revoked
               /\ o \in WorkerOps => Reachable(o)
               /\ Drained(o) /\ WithinAccount(o) /\ WithinDevice(o)

\* The account served longest ago first, then the oldest demand.
Before(a, b) ==
    LET Last(o) == last_grant[UserOf[o]][KindOf[o]]
    IN  \/ Last(a) < Last(b)
        \/ Last(a) = Last(b) /\ a \in ahead[b]

HasRoom(k) == Cardinality(ChargedOps(k)) < GlobalLimit[k]

\* o is the row the next pass of the loop for its kind selects.
Selected(o) ==
    /\ HasRoom(KindOf[o]) /\ Eligible(o)
    /\ \A x \in Ops \ {o} : KindOf[x] = KindOf[o] /\ Eligible(x) => Before(o, x)

\* The winner's job does not run under the bound attempt: it must claim first.
NeedsClaim(o) == /\ o \in WorkerOps /\ IntentValid(o)
                 /\ ~(jobs[o].state = "RUNNING" /\ Bound(o))

MayWake(o) == /\ Selected(o) /\ NeedsClaim(o)
              /\ jobs[o].state = "RETRY_WAIT" /\ jobs[o].waiting /\ ~jobs[o].wake

Progresses(o) == Selected(o) /\ (NeedsClaim(o) => MayWake(o))

\* PLAYBACK is scheduled before TRANSFER.
Turn(o) == /\ advancing
           /\ KindOf[o] = "TRANSFER" =>
                 \A x \in Ops : KindOf[x] = "PLAYBACK" => ~Progresses(x)

\* The hint gives no activation; younger demand waits behind it.
Wake(o) ==
    /\ Turn(o) /\ MayWake(o)
    /\ jobs' = [jobs EXCEPT ![o].wake = TRUE, ![o].wake_left = ReservationTTL]
    /\ UNCHANGED <<rows, child, revoked, withdrawn, advancing>>

\* The authority check waits for the job's row lock and then reads the clock
\* again: a lease that was live when the row was selected may be over.
MayLapse(o) == o \in WorkerOps /\ jobs[o].lease_left = 1

Drop(o) ==
    /\ Turn(o) /\ Selected(o) /\ ~NeedsClaim(o)
    /\ ~IntentValid(o) \/ MayLapse(o)
    /\ op' = [op EXCEPT ![o].state = "EXPIRED"]
    /\ UNCHANGED <<ahead, last_grant, grant_sequence, permit, advancing, world>>

\* Mutant: an expired permit is spent though its process runs.
SpentByDeadline(p) == Held(p) /\ permit[p].left = 0

SpentPermit(p) == Held(p) /\ permit[p].left = 0 /\ ~ExecUnclosed(p)

Grant(o) ==
    /\ Turn(o) /\ Selected(o) /\ ~NeedsClaim(o) /\ IntentValid(o)
    /\ permit' = [p \in Permits |-> IF p \in PermitsOf(o) /\ SpentPermit(p)
                                  THEN NoPermit ELSE permit[p]]
    /\ Freed({p \in PermitsOf(o) : SpentPermit(p)})
    /\ op' = [op EXCEPT ![o].state = "ACTIVE", ![o].activation = grant_sequence + 1,
                        ![o].lease_left = LeaseTTL, ![o].claim_left = ReservationTTL,
                        ![o].claimed = FALSE, ![o].waiting_left = 0]
    /\ grant_sequence' = grant_sequence + 1
    /\ last_grant' = [last_grant EXCEPT ![UserOf[o]][KindOf[o]] = grant_sequence + 1]
    /\ UNCHANGED <<ahead, jobs, revoked, withdrawn, advancing>>

AdvanceDone ==
    /\ advancing /\ \A o \in Ops : ~Progresses(o)
    /\ advancing' = FALSE
    /\ UNCHANGED <<rows, world>>
-----------------------------------------------------------------------------
(***************************************************************************)
(* The periodic sweep, and the withdrawal of authority.                    *)
(***************************************************************************)
\* Mutant: a state the execution's CHECK constraint does not know.
OrphanedAsExpired(row) ==
    IF row # NoPermit /\ row.exec \in Unclosed /\ row.beat_left = 0
    THEN [row EXCEPT !.exec = "EXPIRED"] ELSE row

\* orphan_stale.
Orphaned(row) ==
    IF row # NoPermit /\ row.exec \in Unclosed /\ row.beat_left = 0
    THEN [row EXCEPT !.exec = "ORPHANED"] ELSE row

\* S are the terminal rows older than the retention period.
Sweep(S) ==
    LET Cleaned(o) == IF o \in WorkerOps /\ op[o].state = "WAITING" /\ ~IntentValid(o)
                      THEN [op[o] EXCEPT !.state = "EXPIRED"] ELSE Expire(o, op[o])
    IN  /\ ~advancing
        /\ \A o \in S : /\ op[o].state \in {"RELEASED", "EXPIRED"}
                         /\ \A p \in PermitsOf(o) : SpentPermit(p)
        /\ op' = [o \in Ops |-> IF o \in S THEN AbsentOp ELSE Cleaned(o)]
        /\ ahead' = [o \in Ops |-> IF o \in S THEN {} ELSE ahead[o] \ S]
        /\ permit' = [p \in Permits |-> IF SpentPermit(p) THEN NoPermit ELSE Orphaned(permit[p])]
        /\ Freed({p \in Permits : SpentPermit(p)})
        /\ advancing' = TRUE
        /\ UNCHANGED <<last_grant, grant_sequence, jobs, revoked, withdrawn>>

\* terminate_resource_authority: grants and demand end, permits stay charged.
Revoke(u) ==
    /\ ~advancing /\ u \notin revoked
    /\ revoked' = revoked \cup {u}
    /\ op' = [o \in Ops |->
                 IF UserOf[o] = u /\ op[o].state \in {"ACTIVE", "WAITING"}
                 THEN [op[o] EXCEPT !.state = "EXPIRED"] ELSE op[o]]
    /\ UNCHANGED <<ahead, last_grant, grant_sequence, permit, child, jobs, withdrawn, advancing>>

\* A session expires or a target disappears; no row of admission changes.
Withdraw(o) ==
    /\ ~advancing /\ o \in Withdrawable \ withdrawn
    /\ withdrawn' = withdrawn \cup {o}
    /\ UNCHANGED <<rows, child, jobs, revoked, advancing>>
-----------------------------------------------------------------------------
(***************************************************************************)
(* The child that does the I/O, owned by the server process that opened    *)
(* the permit.  Its local deadline never outlasts the permit.              *)
(***************************************************************************)
ChildStep(p, from, to) ==
    /\ ~advancing /\ Held(p) /\ child[p] = from
    /\ child' = [child EXCEPT ![p] = to]
    /\ UNCHANGED <<rows, jobs, revoked, withdrawn, advancing>>

\* Never spawned, or the spawn failed before it was attempted.
Seal(p) == ChildStep(p, "NONE", "SEALED")

Spawn(p) == ChildStep(p, "NONE", "SPAWNED") /\ ExecUnclosed(p) /\ permit[p].left > 0

\* GO follows the reply to start_execution: the row may have moved on since.
Go(p) == /\ ChildStep(p, "SPAWNED", "WORKING")
         /\ permit[p].started /\ permit[p].left > 0

ChildExits(p) == ChildStep(p, "SPAWNED", "EXITED") \/ ChildStep(p, "WORKING", "EXITED")

\* exit_evidence answers None for good: Popen failed after the attempt was recorded,
\* HELLO named another process, the process tree cannot be sealed, or the server
\* process with the only handle is gone.  Something may run on.
HandleLost(p) ==
    /\ ExecUnclosed(p)
    /\ \E from \in ChildState \ {"LOST"} : ChildStep(p, from, "LOST")
-----------------------------------------------------------------------------
(***************************************************************************)
(* What admission sees of the job queue (module JobQueue has the rest).    *)
(***************************************************************************)
JobMoves(o, from, row) ==
    /\ ~advancing /\ jobs[o].state \in from
    /\ jobs' = [jobs EXCEPT ![o] = row]
    /\ UNCHANGED <<rows, child, revoked, withdrawn, advancing>>

JobClaim(o) ==
    /\ jobs[o].attempt < MaxAttempts
    /\ JobMoves(o, {"QUEUED", "RETRY_WAIT"},
                [IdleJob EXCEPT !.state = "RUNNING", !.attempt = jobs[o].attempt + 1,
                                !.lease_left = JobLease])

JobHeartbeat(o) == /\ jobs[o].lease_left > 0
                   /\ JobMoves(o, {"RUNNING"}, [jobs[o] EXCEPT !.lease_left = JobLease])

\* defer_for_resource, when the attempt's own admission is still WAITING.
JobDefer(o) ==
    /\ JobRuns(o) /\ Bound(o) /\ op[o].state = "WAITING"
    /\ JobMoves(o, {"RUNNING"}, [IdleJob EXCEPT !.state = "RETRY_WAIT",
                                  !.attempt = jobs[o].attempt, !.waiting = TRUE])

\* A retry, or the recovery of an expired lease.
JobBackoff(o) ==
    JobMoves(o, {"RUNNING"}, [IdleJob EXCEPT !.state = "RETRY_WAIT",
                                             !.attempt = jobs[o].attempt])

\* Completed, failed, or a cancellation is recorded.
JobEnds(o) ==
    JobMoves(o, {"QUEUED", "RUNNING", "RETRY_WAIT"},
             [IdleJob EXCEPT !.state = "ENDED", !.attempt = jobs[o].attempt])
-----------------------------------------------------------------------------
Less(n) == IF n > 0 THEN n - 1 ELSE 0

Tick ==
    /\ ~advancing
    /\ op' = [o \in Ops |-> [op[o] EXCEPT !.lease_left = Less(@), !.claim_left = Less(@),
                                          !.waiting_left = Less(@)]]
    /\ permit' = [p \in Permits |-> IF Held(p)
                    THEN [permit[p] EXCEPT !.left = Less(@), !.beat_left = Less(@)]
                    ELSE NoPermit]
    /\ jobs' = [o \in WorkerOps |-> [jobs[o] EXCEPT !.lease_left = Less(@),
                                                    !.wake_left = Less(@)]]
    /\ UNCHANGED <<ahead, last_grant, grant_sequence, child, revoked, withdrawn, advancing>>

Request(o) == \/ Acquire(o) \/ Poll(o) \/ Renew(o) \/ Release(o) \/ CancelWaiting(o)
              \/ \E S \in SUBSET Targets : Attach(o, S)
              \/ \E t \in Targets, p \in Permits : OpenIo(o, t, p)

Permitted(p) == \/ RenewIo(p) \/ RenewExecutionIo(p) \/ PrepareExecution(p)
                \/ StartExecution(p) \/ HeartbeatExecution(p) \/ StopExecution(p)
                \/ ConfirmExecutionExit(p) \/ CloseIo(p)

Child(p) == Seal(p) \/ Spawn(p) \/ Go(p) \/ ChildExits(p) \/ HandleLost(p)

Job(o) == \/ JobClaim(o) \/ JobHeartbeat(o) \/ JobDefer(o) \/ JobBackoff(o) \/ JobEnds(o)

Advance == AdvanceDone \/ \E o \in Ops : Wake(o) \/ Drop(o) \/ Grant(o)

Next == \/ \E o \in Ops : Request(o) \/ Withdraw(o)
        \/ \E p \in Permits : Permitted(p) \/ Child(p)
        \/ \E o \in WorkerOps : Job(o)
        \/ \E S \in SUBSET Ops : Sweep(S)
        \/ \E u \in Users : Revoke(u)
        \/ Advance
        \/ Tick

Spec == Init /\ [][Next]_vars
-----------------------------------------------------------------------------
(***************************************************************************)
(* Safety.                                                                 *)
(***************************************************************************)

\* Occupied capacity stays within every limit, whatever leases lapse, rebinds and
\* revocations leave permits and processes behind: advance charges a row for its
\* grant, its live permits and its unclosed executions (charged, _ELIGIBLE).
CapacityNeverExceeded ==
    \A k \in Kinds :
       /\ Cardinality(ChargedOps(k)) <= GlobalLimit[k]
       /\ \A u \in Users : AccountUse(u, k) <= AccountLimit[k]
       /\ \A d \in Devices : DeviceUse(d, k) <= DeviceLimit[k]

\* A new activation never overlaps the I/O of an earlier one: while an operation
\* is active, every live permit and every unclosed execution is of its own
\* activation ("The scheduler excludes unclosed executions before replacing this
\* fence").
ActivationsDoNotOverlap ==
    \A o \in Ops : op[o].state = "ACTIVE" =>
       \A p \in LivePermits(o) : permit[p].activation = op[o].activation

\* A process that exists or may exist is accounted for until its exit is proved:
\* its permit row is still there, its execution is not closed, and its operation is
\* charged.
ChildrenAreCharged ==
    \A p \in Permits : child[p] \in {"SPAWNED", "WORKING", "LOST"} =>
       ExecUnclosed(p) /\ Charged(permit[p].op)

\* At most one process at a time may write a target (the busy check of prepare), and
\* none beside one that nobody can show to have exited.
MayWrite(p) == child[p] \in {"WORKING", "LOST"}

OneWriterPerTarget ==
    \A p, q \in Permits :
       (/\ p # q /\ MayWrite(p) /\ MayWrite(q)
        /\ permit[p].op \notin Streams
        /\ ExecKind(permit[p].op) = ExecKind(permit[q].op))
          => permit[p].target # permit[q].target

\* A playback never holds more than two recordings, those it still drains from
\* before an attach, an expiry or a new activation included.
TwoRecordingsPerPlayback ==
    \A o \in Ops : KindOf[o] = "PLAYBACK" =>
       Cardinality(op[o].attached \cup {permit[p].target : p \in LivePermits(o)}) <= 2

\* The I/O of an earlier attempt of a job never runs beside a later one's grant: while
\* a worker's operation is active, every live permit and every unclosed execution was
\* opened by the attempt the row is bound to (acquire_worker: a later claim must not
\* inherit the activation).
AttemptsDoNotOverlap ==
    \A o \in WorkerOps : op[o].state = "ACTIVE" =>
       \A p \in LivePermits(o) : permit[p].attempt = op[o].attempt
-----------------------------------------------------------------------------
(***************************************************************************)
(* Liveness.  The clock advances, a handler that holds the lock finishes,  *)
(* and the control thread of each I/O session stops, reaps and confirms    *)
(* its child (_cleanup, retried every second).  PostgreSQL queues the      *)
(* waiters of the advisory lock, so a retry gets it sooner or later        *)
(* however often others take it in between: strong fairness.               *)
(***************************************************************************)
Fairness == /\ SF_vars(Tick) /\ WF_vars(Advance)
            /\ \A p \in Permits :
                  SF_vars(Seal(p) \/ ChildExits(p) \/ ConfirmExecutionExit(p))

FairSpec == Spec /\ Fairness

\* An execution nobody in the server can close: its handle is lost, or it was orphaned
\* before a spawn and confirm_exit refuses the NOT_STARTED proof.
Unprovable(o) == \E p \in PermitsOf(o) :
                    /\ ExecUnclosed(p)
                    /\ \/ child[p] = "LOST"
                       \/ child[p] = "SEALED" /\ permit[p].exec = "ORPHANED"

\* Capacity is not leaked: in whatever order the start record, the stop, the spawn,
\* the sweep and the deadlines come, an operation that was released or expired stops
\* being charged, unless the exit of one of its executions can never be proved: that
\* one keeps it charged for the operator.
SpentCapacityReturns ==
    \A o \in Ops :
       op[o].state \in {"RELEASED", "EXPIRED"} ~> (~Charged(o) \/ Unprovable(o))
=============================================================================
