--------------------------- MODULE JobQueueProofs ---------------------------
(***************************************************************************)
(* Theorems about the job queue for any jobs, workers, leases, lags and    *)
(* retry policies.                                                         *)
(*                                                                         *)
(* First the rows: RowMoves shows, action by action, that every step moves *)
(* each job's row and history in one of six ways.  What is left is the     *)
(* processes, the inductive invariant IInv, and what follows from it: the  *)
(* safety and action properties and the refinement of JobLifecycle.        *)
(***************************************************************************)
EXTENDS JobQueue, SequenceTheorems, TLAPS

(***************************************************************************)
(* The values the operations put into rows.                                *)
(***************************************************************************)
LEMMA DelayType == \A x \in RetryDelays : x \in Nat
BY JobQueueAssumption

LEMMA LagType == \A d \in Lags : d \in Nat
BY JobQueueAssumption DEF Lags

\* Closing an attempt in a history changes the outcome of that attempt only.
LEMMA CloseAttempt ==
    ASSUME NEW s \in Seq(AttemptRow), NEW n \in 1..Len(s), NEW o \in JobAttemptOutcome
    PROVE  LET t == [s EXCEPT ![n].outcome = o]
           IN  /\ t \in Seq(AttemptRow) /\ Len(t) = Len(s)
               /\ \A i \in 1..Len(s) : t[i] = IF i = n THEN [worker |-> s[n].worker, outcome |-> o]
                                                      ELSE s[i]
<1> DEFINE e == [s[n] EXCEPT !.outcome = o]
<1>1. s[n] \in AttemptRow
  BY ElementOfSeq
<1>2. e \in AttemptRow /\ e = [worker |-> s[n].worker, outcome |-> o]
  BY <1>1 DEF AttemptRow
<1>3. [s EXCEPT ![n].outcome = o] = [s EXCEPT ![n] = e]
  OBVIOUS
<1> HIDE DEF e
<1> QED
  BY <1>2, <1>3, ExceptSeq

LEMMA SettledRow ==
    ASSUME NEW row \in JobRow, NEW st \in JobState, NEW delay \in Int
    PROVE  LET r == Settled(row, st, delay)
           IN  /\ r \in JobRow
               /\ r.state = st /\ r.lease_owner = NoWorker
               /\ ~r.resource_waiting /\ ~r.resource_wake
               /\ r.attempt_count = row.attempt_count
               /\ r.cancel_requested = row.cancel_requested
               /\ r.resource_wait_count = row.resource_wait_count
               /\ r.checkpoint = row.checkpoint
<1>1. \A z \in Int :
        [row EXCEPT !.state = st, !.resource_waiting = FALSE, !.resource_wake = FALSE,
                    !.due_in = IF st = "RETRY_WAIT" THEN delay ELSE @,
                    !.lease_owner = NoWorker, !.lease_left = z] \in JobRow
  BY DEF JobRow
<1>2. 0 \in Int
  OBVIOUS
<1>3. Settled(row, st, delay) \in JobRow
  BY <1>1, <1>2, Zenon DEF Settled
<1> QED
  BY <1>3 DEF Settled, JobRow

LEMMA DeferredRow ==
    ASSUME NEW row \in JobRow, NEW delay \in Int
    PROVE  LET r == Deferred(row, delay)
           IN  /\ r \in JobRow
               /\ r.state = "RETRY_WAIT" /\ r.lease_owner = NoWorker
               /\ r.resource_waiting /\ ~r.resource_wake
               /\ r.attempt_count = row.attempt_count
               /\ r.cancel_requested = row.cancel_requested
               /\ r.resource_wait_count = row.resource_wait_count + 1
               /\ r.checkpoint = row.checkpoint
<1> DEFINE s == Settled(row, "RETRY_WAIT", delay)
<1>1. "RETRY_WAIT" \in JobState
  BY DEF JobState, Claimable
<1>2. /\ s \in JobRow /\ s.state = "RETRY_WAIT" /\ s.lease_owner = NoWorker
      /\ ~s.resource_wake /\ s.attempt_count = row.attempt_count
      /\ s.cancel_requested = row.cancel_requested
      /\ s.resource_wait_count = row.resource_wait_count
      /\ s.checkpoint = row.checkpoint
  BY <1>1, SettledRow
<1>3. Deferred(row, delay) =
        [s EXCEPT !.resource_wait_count = @ + 1, !.resource_waiting = TRUE]
  BY DEF Deferred
<1> HIDE DEF s
<1>4. \A n \in Nat : [s EXCEPT !.resource_wait_count = n, !.resource_waiting = TRUE] \in JobRow
  BY <1>2 DEF JobRow
<1>5. s.resource_wait_count + 1 \in Nat
  BY <1>2 DEF JobRow
<1>6. Deferred(row, delay) \in JobRow
  BY <1>3, <1>4, <1>5, Zenon
<1> QED
  BY <1>2, <1>3, <1>6 DEF JobRow

LEMMA EnqueuedRow ==
    ASSUME NEW row \in JobRow, NEW due \in Int
    PROVE  LET r == Enqueued(row, due)
           IN  /\ r \in JobRow /\ r.state = "QUEUED"
               /\ r.lease_owner = row.lease_owner
               /\ r.resource_waiting = row.resource_waiting
               /\ r.resource_wake = row.resource_wake
               /\ r.attempt_count = row.attempt_count
               /\ r.cancel_requested = row.cancel_requested
               /\ r.resource_wait_count = row.resource_wait_count
               /\ r.checkpoint = row.checkpoint
<1>1. \A st \in JobState, z \in Int : [row EXCEPT !.state = st, !.due_in = z] \in JobRow
  BY DEF JobRow
<1>2. "QUEUED" \in JobState
  BY DEF JobState, Claimable
<1>3. Enqueued(row, due) \in JobRow
  BY <1>1, <1>2, Zenon DEF Enqueued
<1> QED
  BY <1>3 DEF Enqueued, JobRow

LEMMA ClaimedRow ==
    ASSUME NEW row \in JobRow, NEW w \in Workers, NEW lease \in Int
    PROVE  LET r == Claimed(row, w, lease)
           IN  /\ r \in JobRow /\ r.state = "RUNNING" /\ r.lease_owner = w
               /\ ~r.resource_waiting /\ ~r.resource_wake
               /\ r.attempt_count = row.attempt_count + 1
               /\ r.cancel_requested = row.cancel_requested
               /\ r.resource_wait_count = row.resource_wait_count
               /\ r.checkpoint = row.checkpoint
<1>1. \A st \in JobState, n \in Nat :
        [row EXCEPT !.state = st, !.resource_waiting = FALSE, !.resource_wake = FALSE,
                    !.lease_owner = w, !.lease_left = lease, !.attempt_count = n] \in JobRow
  BY DEF JobRow
<1>2. "RUNNING" \in JobState /\ row.attempt_count + 1 \in Nat
  BY DEF JobState, JobRow
<1>3. Claimed(row, w, lease) \in JobRow
  BY <1>1, <1>2, Zenon DEF Claimed
<1> QED
  BY <1>3 DEF Claimed, JobRow

LEMMA WokenRow ==
    ASSUME NEW row \in JobRow
    PROVE  LET r == Woken(row)
           IN  /\ r \in JobRow /\ r.state = row.state /\ r.lease_owner = row.lease_owner
               /\ r.resource_waiting = row.resource_waiting /\ r.resource_wake
               /\ r.attempt_count = row.attempt_count
               /\ r.cancel_requested = row.cancel_requested
               /\ r.resource_wait_count = row.resource_wait_count
               /\ r.checkpoint = row.checkpoint
<1>1. \A z \in Int : [row EXCEPT !.resource_wake = TRUE, !.due_in = z] \in JobRow
  BY DEF JobRow
<1>2. 0 \in Int
  OBVIOUS
<1>3. Woken(row) \in JobRow
  BY <1>1, <1>2, Zenon DEF Woken
<1> QED
  BY <1>3 DEF Woken, JobRow

LEMMA CancelledRow ==
    ASSUME NEW row \in JobRow
    PROVE  LET r == Cancelled(row)
           IN  /\ r \in JobRow /\ r.state = "CANCELLED" /\ r.lease_owner = row.lease_owner
               /\ ~r.resource_waiting /\ ~r.resource_wake
               /\ r.attempt_count = row.attempt_count
               /\ r.cancel_requested
               /\ r.resource_wait_count = row.resource_wait_count
               /\ r.checkpoint = row.checkpoint
<1>1. \A st \in JobState :
        [row EXCEPT !.state = st, !.resource_waiting = FALSE, !.resource_wake = FALSE,
                    !.cancel_requested = TRUE] \in JobRow
  BY DEF JobRow
<1>2. "CANCELLED" \in JobState
  BY DEF JobState, Terminal
<1>3. Cancelled(row) \in JobRow
  BY <1>1, <1>2, Zenon DEF Cancelled
<1> QED
  BY <1>3 DEF Cancelled, JobRow
-----------------------------------------------------------------------------
(***************************************************************************)
(* The six moves of a job.                                                 *)
(***************************************************************************)
SameCounts(j) == /\ job'[j].attempt_count = job[j].attempt_count
                 /\ job'[j].resource_wait_count = job[j].resource_wait_count
                 /\ attempts'[j] = attempts[j]

SameState(j) == /\ job'[j].state = job[j].state
                /\ job'[j].lease_owner = job[j].lease_owner

SameWait(j) == /\ job'[j].resource_waiting = job[j].resource_waiting
               /\ job'[j].resource_wake = job[j].resource_wake

SameCancel(j) == job'[j].cancel_requested = job[j].cancel_requested

SameCheckpoint(j) == job'[j].checkpoint = job[j].checkpoint

NotWaiting(j) == ~job'[j].resource_waiting /\ ~job'[j].resource_wake

\* The lease, the schedule, the wake hint or the checkpoint may change.
Touches(j) ==
    /\ SameCounts(j) /\ SameState(j) /\ SameCancel(j)
    /\ job'[j].resource_waiting = job[j].resource_waiting
    /\ job'[j].resource_wake => job[j].resource_wake \/ job[j].resource_waiting
    /\ \/ SameCheckpoint(j)
       \/ job[j].state = "RUNNING" /\ job'[j].checkpoint = job[j].attempt_count

Queues(j) ==
    /\ job[j].state = "ABSENT" /\ job'[j].state = "QUEUED"
    /\ job'[j].lease_owner = job[j].lease_owner
    /\ SameCounts(j) /\ SameWait(j) /\ SameCancel(j) /\ SameCheckpoint(j)

Marks(j) ==
    /\ job[j].state = "RUNNING" /\ job'[j].cancel_requested
    /\ SameState(j) /\ SameCounts(j) /\ SameWait(j) /\ SameCheckpoint(j)

Drops(j) ==
    /\ job[j].state \in Claimable /\ job'[j].state = "CANCELLED"
    /\ job'[j].cancel_requested
    /\ job'[j].lease_owner = job[j].lease_owner
    /\ SameCounts(j) /\ NotWaiting(j) /\ SameCheckpoint(j)

Starts(j) ==
    /\ job[j].state \in Claimable /\ ~job[j].cancel_requested /\ Met(j)
    /\ job'[j].state = "RUNNING" /\ job'[j].lease_owner \in Workers
    /\ job'[j].attempt_count = job[j].attempt_count + 1
    /\ job'[j].resource_wait_count = job[j].resource_wait_count
    /\ attempts'[j] = Append(attempts[j], [worker |-> job'[j].lease_owner, outcome |-> "OPEN"])
    /\ NotWaiting(j) /\ SameCancel(j) /\ SameCheckpoint(j)

ClosesWith(j, o) ==
    /\ job[j].state = "RUNNING" /\ job'[j].state \in Terminal \cup {"RETRY_WAIT"}
    /\ job'[j].lease_owner = NoWorker /\ ~job'[j].resource_wake
    /\ job'[j].attempt_count = job[j].attempt_count
    /\ SameCancel(j) /\ SameCheckpoint(j)
    /\ job[j].cancel_requested <=> job'[j].state = "CANCELLED"
    /\ job[j].attempt_count \in 1..Len(attempts[j])
    /\ attempts'[j] = [attempts[j] EXCEPT ![job[j].attempt_count].outcome = o]
    /\ \/ /\ job'[j].resource_wait_count = job[j].resource_wait_count
          /\ ~job'[j].resource_waiting
          /\ job'[j].state = "RETRY_WAIT" => RetryAttempt(job[j]) < MaxAttempts
       \/ /\ job'[j].resource_wait_count = job[j].resource_wait_count + 1
          /\ job'[j].state = "RETRY_WAIT"

Closes(j) == \E o \in JobAttemptOutcome : ClosesWith(j, o)

Moves(j) == Touches(j) \/ Queues(j) \/ Marks(j) \/ Drops(j) \/ Starts(j) \/ Closes(j)

RowsTyped == job \in [Jobs -> JobRow] /\ attempts \in [Jobs -> Seq(AttemptRow)]

LEMMA Unmoved ==
    ASSUME NEW j \in Jobs, job'[j] = job[j], attempts'[j] = attempts[j]
    PROVE  Touches(j)
BY DEF Touches, SameCounts, SameState, SameCancel, SameCheckpoint

LEMMA AllUnmoved ==
    ASSUME TypeOK, UNCHANGED <<job, attempts>>
    PROVE  RowsTyped' /\ \A j \in Jobs : Moves(j)
BY Unmoved DEF TypeOK, RowsTyped, Moves

\* A statement that updates one row and no history moves only that job.
LEMMA OneRowMoves ==
    ASSUME TypeOK, NEW j \in Jobs, NEW row \in JobRow,
           job' = [job EXCEPT ![j] = row], UNCHANGED attempts
    PROVE  /\ RowsTyped' /\ job'[j] = row /\ attempts'[j] = attempts[j]
           /\ \A k \in Jobs \ {j} : Moves(k)
<1>1. RowsTyped' /\ job'[j] = row /\ attempts'[j] = attempts[j]
  BY DEF TypeOK, RowsTyped
<1>2. ASSUME NEW k \in Jobs \ {j} PROVE Moves(k)
  BY Unmoved DEF TypeOK, Moves
<1> QED
  BY <1>1, <1>2

LEMMA FinishMoves ==
    ASSUME TypeOK, OneOpenAttempt,
           NEW f \in LeaseFence, NEW o \in JobAttemptOutcome, NEW row \in JobRow,
           Fenced(f), Finish(f, o, row)
    PROVE  /\ RowsTyped' /\ job'[f.job] = row
           /\ job[f.job].state = "RUNNING"
           /\ job[f.job].attempt_count \in 1..Len(attempts[f.job])
           /\ attempts'[f.job] = [attempts[f.job] EXCEPT ![job[f.job].attempt_count].outcome = o]
           /\ \A k \in Jobs \ {f.job} : Moves(k)
<1> DEFINE j == f.job
           n == f.attempt
<1>1. j \in Jobs /\ n \in 1..Len(attempts[j])
  BY DEF LeaseFence, Finish, AttemptOpen
<1>2. job[j].state = "RUNNING" /\ job[j].attempt_count = n
  BY DEF Fenced
<1>3. attempts[j] \in Seq(AttemptRow)
  BY <1>1 DEF TypeOK
<1>4. [attempts[j] EXCEPT ![n].outcome = o] \in Seq(AttemptRow)
  BY <1>1, <1>3, CloseAttempt
<1>5. attempts' = [attempts EXCEPT ![j] = [attempts[j] EXCEPT ![n].outcome = o]]
  BY DEF Finish
<1>6. job' = [job EXCEPT ![j] = row]
  BY DEF Finish
<1> HIDE DEF j, n
<1>7. RowsTyped' /\ job'[j] = row /\ attempts'[j] = [attempts[j] EXCEPT ![n].outcome = o]
  BY <1>1, <1>4, <1>5, <1>6 DEF TypeOK, RowsTyped
<1>8. ASSUME NEW k \in Jobs \ {j} PROVE Moves(k)
  <2>1. job'[k] = job[k] /\ attempts'[k] = attempts[k]
    BY <1>1, <1>5, <1>6 DEF TypeOK
  <2> QED
    BY <2>1, Unmoved DEF Moves
<1> USE DEF j, n
<1> QED
  BY <1>1, <1>2, <1>7, <1>8
-----------------------------------------------------------------------------
(***************************************************************************)
(* Every action moves rows in these ways.                                  *)
(***************************************************************************)
SameRow(r, row) ==
    /\ r.state = row.state /\ r.attempt_count = row.attempt_count
    /\ r.lease_owner = row.lease_owner /\ r.cancel_requested = row.cancel_requested
    /\ r.resource_wait_count = row.resource_wait_count
    /\ r.resource_waiting = row.resource_waiting /\ r.resource_wake = row.resource_wake

LEMMA ClockedRow ==
    ASSUME NEW row \in JobRow, NEW x \in Int, NEW y \in Int
    PROVE  LET r == [row EXCEPT !.lease_left = x, !.due_in = y]
           IN  r \in JobRow /\ SameRow(r, row) /\ r.checkpoint = row.checkpoint
BY DEF JobRow, SameRow

LEMMA LeasedRow ==
    ASSUME NEW row \in JobRow, NEW x \in Int
    PROVE  LET r == [row EXCEPT !.lease_left = x]
           IN  r \in JobRow /\ SameRow(r, row) /\ r.checkpoint = row.checkpoint
BY DEF JobRow, SameRow

LEMMA CheckpointedRow ==
    ASSUME NEW row \in JobRow, NEW n \in Nat
    PROVE  LET r == [row EXCEPT !.checkpoint = n]
           IN  r \in JobRow /\ SameRow(r, row) /\ r.checkpoint = n
BY DEF JobRow, SameRow

LEMMA MarkedRow ==
    ASSUME NEW row \in JobRow
    PROVE  LET r == [row EXCEPT !.cancel_requested = TRUE]
           IN  /\ r \in JobRow /\ r.cancel_requested
               /\ r.state = row.state /\ r.attempt_count = row.attempt_count
               /\ r.lease_owner = row.lease_owner
               /\ r.resource_wait_count = row.resource_wait_count
               /\ r.resource_waiting = row.resource_waiting
               /\ r.resource_wake = row.resource_wake /\ r.checkpoint = row.checkpoint
BY DEF JobRow

LEMMA CallerMoves ==
    ASSUME TypeOK, NEW j \in Jobs, Caller(j)
    PROVE  RowsTyped' /\ \A k \in Jobs : Moves(k)
<1>0. job[j] \in JobRow
  BY DEF TypeOK
<1>1. CASE Enqueue(j)
  <2>1. PICK due \in Int : job' = [job EXCEPT ![j] = Enqueued(job[j], due)]
    <3>1. PICK due \in {0 - d : d \in Lags} \cup EnqueueDelays :
                 job' = [job EXCEPT ![j] = Enqueued(job[j], due)]
      BY <1>1 DEF Enqueue
    <3>2. due \in Int
      <4>1. CASE due \in EnqueueDelays
        BY <4>1, JobQueueAssumption
      <4>2. CASE due \in {0 - d : d \in Lags}
        BY <4>2, LagType
      <4> QED BY <4>1, <4>2
    <3> QED BY <3>1, <3>2, Zenon
  <2>2. job[j].state = "ABSENT" /\ UNCHANGED attempts
    BY <1>1 DEF Enqueue
  <2> DEFINE r == Enqueued(job[j], due)
  <2>3. /\ r \in JobRow /\ r.state = "QUEUED"
        /\ r.lease_owner = job[j].lease_owner
        /\ r.resource_waiting = job[j].resource_waiting
        /\ r.resource_wake = job[j].resource_wake
        /\ r.attempt_count = job[j].attempt_count
        /\ r.cancel_requested = job[j].cancel_requested
        /\ r.resource_wait_count = job[j].resource_wait_count
        /\ r.checkpoint = job[j].checkpoint
    BY <1>0, EnqueuedRow
  <2>4. job' = [job EXCEPT ![j] = r]
    BY <2>1
  <2> HIDE DEF r
  <2> QED
    BY <2>2, <2>3, <2>4, OneRowMoves
       DEF Moves, Queues, SameCounts, SameWait, SameCancel, SameCheckpoint
<1>2. CASE RequestRunningCancel(j)
  <2>1. job' = [job EXCEPT ![j] = [job[j] EXCEPT !.cancel_requested = TRUE]]
    BY <1>2 DEF RequestRunningCancel
  <2>2. job[j].state = "RUNNING" /\ UNCHANGED attempts
    BY <1>2 DEF RequestRunningCancel
  <2> DEFINE r == [job[j] EXCEPT !.cancel_requested = TRUE]
  <2>3. /\ r \in JobRow /\ r.cancel_requested
        /\ r.state = job[j].state /\ r.attempt_count = job[j].attempt_count
        /\ r.lease_owner = job[j].lease_owner
        /\ r.resource_wait_count = job[j].resource_wait_count
        /\ r.resource_waiting = job[j].resource_waiting
        /\ r.resource_wake = job[j].resource_wake /\ r.checkpoint = job[j].checkpoint
    BY <1>0, MarkedRow
  <2>4. job' = [job EXCEPT ![j] = r]
    BY <2>1
  <2> HIDE DEF r
  <2> QED
    BY <2>2, <2>3, <2>4, OneRowMoves
       DEF Moves, Marks, SameState, SameCounts, SameWait, SameCheckpoint
<1>3. CASE CancelPendingJob(j)
  <2>1. job' = [job EXCEPT ![j] = Cancelled(job[j])]
    BY <1>3 DEF CancelPendingJob
  <2>2. job[j].state \in Claimable /\ UNCHANGED attempts
    BY <1>3 DEF CancelPendingJob
  <2> DEFINE r == Cancelled(job[j])
  <2>3. /\ r \in JobRow /\ r.state = "CANCELLED"
        /\ r.lease_owner = job[j].lease_owner
        /\ ~r.resource_waiting /\ ~r.resource_wake
        /\ r.attempt_count = job[j].attempt_count
        /\ r.cancel_requested
        /\ r.resource_wait_count = job[j].resource_wait_count
        /\ r.checkpoint = job[j].checkpoint
    BY <1>0, CancelledRow
  <2>4. job' = [job EXCEPT ![j] = r]
    BY <2>1
  <2> HIDE DEF r
  <2> QED
    BY <2>2, <2>3, <2>4, OneRowMoves
       DEF Moves, Drops, SameCounts, NotWaiting, SameCheckpoint
<1>4. CASE ResourceWake(j)
  <2>1. job' = [job EXCEPT ![j] = Woken(job[j])]
    BY <1>4 DEF ResourceWake
  <2>2. job[j].resource_waiting /\ UNCHANGED attempts
    BY <1>4 DEF ResourceWake
  <2> DEFINE r == Woken(job[j])
  <2>3. /\ r \in JobRow /\ r.state = job[j].state /\ r.lease_owner = job[j].lease_owner
        /\ r.resource_waiting = job[j].resource_waiting
        /\ r.attempt_count = job[j].attempt_count
        /\ r.cancel_requested = job[j].cancel_requested
        /\ r.resource_wait_count = job[j].resource_wait_count
        /\ r.checkpoint = job[j].checkpoint
    BY <1>0, WokenRow
  <2>4. job' = [job EXCEPT ![j] = r]
    BY <2>1
  <2> HIDE DEF r
  <2> QED
    BY <2>2, <2>3, <2>4, OneRowMoves
       DEF Moves, Touches, SameState, SameCounts, SameCancel, SameCheckpoint
<1> QED
  BY <1>1, <1>2, <1>3, <1>4 DEF Caller, RequestCancel

\* A running job whose lease expired has its attempt open: recovery closes it.
LEMMA ExpiredIsOpen ==
    ASSUME TypeOK, OneOpenAttempt, NEW j \in Jobs, job[j].state = "RUNNING"
    PROVE  /\ AttemptOpen(LeaseOf(j)) /\ Fenced(LeaseOf(j))
           /\ job[j].attempt_count \in 1..Len(attempts[j])
BY DEF TypeOK, OneOpenAttempt, AttemptOpen, LeaseOf, Fenced, JobRow

LEMMA RecoverMoves ==
    ASSUME TypeOK, OneOpenAttempt, NEW d \in Lags,
           NEW S \in SUBSET {j \in Jobs : Expired(j, d)}, RecoverBatch(S, d)
    PROVE  RowsTyped' /\ \A k \in Jobs : Moves(k)
<1>1. PICK delay \in [S -> RetryDelays] : RecoverBatch(S, d)!(delay)
  BY DEF RecoverBatch
<1>2. ASSUME NEW j \in Jobs, j \notin S
      PROVE  job'[j] = job[j] /\ attempts'[j] = attempts[j]
  BY <1>1, <1>2
<1>3. ASSUME NEW j \in S
      PROVE  /\ job'[j] \in JobRow /\ attempts'[j] \in Seq(AttemptRow)
             /\ Closes(j)
  <2> DEFINE o == IF job[j].cancel_requested THEN "CANCELLED" ELSE "LEASE_EXPIRED"
             n == job[j].attempt_count
             st == RecoveredState(j)
  <2>1. /\ j \in Jobs /\ job[j] \in JobRow /\ attempts[j] \in Seq(AttemptRow)
        /\ job[j].state = "RUNNING"
    BY DEF TypeOK, Expired
  <2>2. AttemptOpen(LeaseOf(j)) /\ n \in 1..Len(attempts[j])
    BY <2>1, ExpiredIsOpen
  <2>3. o \in JobAttemptOutcome
    BY DEF JobAttemptOutcome
  <2>4. attempts'[j] = [attempts[j] EXCEPT ![n].outcome = o]
    BY <1>1, <2>1, <2>2
  <2>5. attempts'[j] \in Seq(AttemptRow)
    <3>1. [attempts[j] EXCEPT ![n].outcome = o] \in Seq(AttemptRow)
      <4> HIDE DEF o, n
      <4> QED
        BY <2>1, <2>2, <2>3, CloseAttempt
    <3> QED
      BY <2>4, <3>1
  <2>6. /\ st \in {"FAILED", "CANCELLED", "RETRY_WAIT"}
        /\ st = "CANCELLED" <=> job[j].cancel_requested
        /\ st = "RETRY_WAIT" => RetryAttempt(job[j]) < MaxAttempts
    BY <2>1, <2>2, JobQueueAssumption DEF RecoveredState, RetryAttempt, JobRow
  <2>7. st \in JobState /\ st \in Terminal \cup {"RETRY_WAIT"}
    BY <2>6 DEF JobState, Terminal, Claimable
  <2>8. delay[j] - d \in Int
    BY DelayType, LagType
  <2>9. job'[j] = Settled(job[j], st, delay[j] - d)
    BY <1>1, <2>1
  <2> HIDE DEF o, n, st
  <2>10. /\ job'[j] \in JobRow
         /\ job'[j].state = st /\ job'[j].lease_owner = NoWorker
         /\ ~job'[j].resource_waiting /\ ~job'[j].resource_wake
         /\ job'[j].attempt_count = job[j].attempt_count
         /\ job'[j].cancel_requested = job[j].cancel_requested
         /\ job'[j].resource_wait_count = job[j].resource_wait_count
         /\ job'[j].checkpoint = job[j].checkpoint
    <3> DEFINE dl == delay[j] - d
    <3>1. dl \in Int /\ job'[j] = Settled(job[j], st, dl)
      BY <2>8, <2>9
    <3> HIDE DEF dl
    <3> QED
      BY <2>1, <2>7, <3>1, SettledRow
  <2>11. ClosesWith(j, o)
    BY <2>1, <2>2, <2>4, <2>6, <2>7, <2>10 DEF ClosesWith, SameCancel, SameCheckpoint, n
  <2> QED
    BY <2>3, <2>5, <2>10, <2>11 DEF Closes
<1>4. RowsTyped'
  <2>1. \A j \in Jobs : job'[j] \in JobRow /\ attempts'[j] \in Seq(AttemptRow)
    BY <1>2, <1>3 DEF TypeOK
  <2>2. job' = [j \in Jobs |-> job'[j]] /\ attempts' = [j \in Jobs |-> attempts'[j]]
    BY <1>1
  <2> QED
    BY <2>1, <2>2 DEF RowsTyped
<1> QED
  BY <1>2, <1>3, <1>4, Unmoved DEF Moves

LEMMA ClaimMoves ==
    ASSUME TypeOK, NEW w \in Workers, NEW j \in Jobs, Claim(w, j)
    PROVE  RowsTyped' /\ \A k \in Jobs : Moves(k)
<1>1. PICK d \in Lags : /\ Candidate(j, d)
                        /\ job' = [job EXCEPT ![j] = Claimed(job[j], w, LeaseInterval - d)]
  BY DEF Claim
<1>2. job[j].state \in Claimable /\ ~job[j].cancel_requested /\ Met(j)
  BY <1>1 DEF Candidate
<1> DEFINE lease == LeaseInterval - d
           r == Claimed(job[j], w, lease)
           a == [worker |-> w, outcome |-> "OPEN"]
<1>3. /\ lease \in Int /\ job[j] \in JobRow
      /\ a \in AttemptRow /\ attempts[j] \in Seq(AttemptRow)
  <2>1. lease \in Int
    BY LagType, JobQueueAssumption
  <2>2. a \in AttemptRow
    BY DEF AttemptRow
  <2> QED
    BY <2>1, <2>2 DEF TypeOK
<1>4. job' = [job EXCEPT ![j] = r] /\ attempts' = [attempts EXCEPT ![j] = Append(attempts[j], a)]
  BY <1>1 DEF Claim, Opened
<1> HIDE DEF lease, a
<1>5. /\ r \in JobRow /\ r.state = "RUNNING" /\ r.lease_owner = w
      /\ ~r.resource_waiting /\ ~r.resource_wake
      /\ r.attempt_count = job[j].attempt_count + 1
      /\ r.cancel_requested = job[j].cancel_requested
      /\ r.resource_wait_count = job[j].resource_wait_count
      /\ r.checkpoint = job[j].checkpoint
  BY <1>3, ClaimedRow
<1> HIDE DEF r
<1>6. Append(attempts[j], a) \in Seq(AttemptRow)
  BY <1>3
<1>7. RowsTyped' /\ job'[j] = r /\ attempts'[j] = Append(attempts[j], a)
  BY <1>4, <1>5, <1>6 DEF TypeOK, RowsTyped
<1>8. \A k \in Jobs \ {j} : job'[k] = job[k] /\ attempts'[k] = attempts[k]
  BY <1>4 DEF TypeOK
<1>9. Starts(j)
  BY <1>2, <1>5, <1>7 DEF Starts, NotWaiting, SameCancel, SameCheckpoint, a
<1> QED
  BY <1>7, <1>8, <1>9, Unmoved DEF Moves

\* A heartbeat moves a deadline and nothing else.
LEMMA LeaseMoves ==
    ASSUME TypeOK, NEW j \in Jobs, NEW d \in Lags,
           job' = [job EXCEPT ![j].lease_left = LeaseInterval - d], UNCHANGED attempts
    PROVE  RowsTyped' /\ \A k \in Jobs : Moves(k)
<1> DEFINE lease == LeaseInterval - d
           r == [job[j] EXCEPT !.lease_left = lease]
<1>1. lease \in Int /\ job[j] \in JobRow
  BY LagType, JobQueueAssumption DEF TypeOK
<1>2. job' = [job EXCEPT ![j] = r]
  OBVIOUS
<1> HIDE DEF lease
<1>3. r \in JobRow /\ SameRow(r, job[j]) /\ r.checkpoint = job[j].checkpoint
  BY <1>1, LeasedRow
<1> HIDE DEF r
<1>4. /\ RowsTyped' /\ job'[j] = r /\ attempts'[j] = attempts[j]
      /\ \A k \in Jobs \ {j} : Moves(k)
  BY <1>2, <1>3, OneRowMoves
<1>5. Touches(j)
  BY <1>3, <1>4 DEF Touches, SameRow, SameCounts, SameState, SameCancel, SameCheckpoint
<1> QED
  BY <1>4, <1>5 DEF Moves

LEMMA HeartbeatMoves ==
    ASSUME TypeOK, EngagedOnJob, NEW w \in Workers, Heartbeat(w)
    PROVE  RowsTyped' /\ \A k \in Jobs : Moves(k)
<1>1. proc[w].job \in Jobs
  BY DEF EngagedOnJob, Engaged, Heartbeat, Executing
<1>2. UNCHANGED attempts
  BY DEF Heartbeat
<1>3. PICK d \in Lags :
        \/ job' = [job EXCEPT ![proc[w].job].lease_left = LeaseInterval - d]
        \/ UNCHANGED job
  BY DEF Heartbeat
<1> QED
  BY <1>1, <1>2, <1>3, LeaseMoves, AllUnmoved

LEMMA LateHeartbeatMoves ==
    ASSUME TypeOK, NEW f \in late, LateHeartbeat(f)
    PROVE  RowsTyped' /\ \A k \in Jobs : Moves(k)
<1>1. f.job \in Jobs
  BY DEF TypeOK, LeaseFence
<1>2. UNCHANGED attempts
  BY DEF LateHeartbeat
<1>3. PICK d \in Lags :
        \/ job' = [job EXCEPT ![f.job].lease_left = LeaseInterval - d]
        \/ UNCHANGED job
  BY DEF LateHeartbeat
<1> QED
  BY <1>1, <1>2, <1>3, LeaseMoves, AllUnmoved

LEMMA SaveCheckpointMoves ==
    ASSUME TypeOK, EngagedOnJob, NEW w \in Workers, SaveCheckpoint(w)
    PROVE  RowsTyped' /\ \A k \in Jobs : Moves(k)
<1> DEFINE j == proc[w].job
           n == proc[w].attempt
           r == [job[j] EXCEPT !.checkpoint = n]
<1>1. j \in Jobs
  BY DEF EngagedOnJob, Engaged, SaveCheckpoint, Executing
<1>2. n \in Nat /\ job[j] \in JobRow
  BY <1>1 DEF TypeOK, Process
<1>3. UNCHANGED attempts
  BY DEF SaveCheckpoint
<1>4. CASE UNCHANGED job
  BY <1>3, <1>4, AllUnmoved
<1>5. CASE \E d \in Lags : Live(Fence(w), d) /\ job' = [job EXCEPT ![proc[w].job].checkpoint = n]
  <2>1. job' = [job EXCEPT ![j] = r]
    BY <1>5
  <2>2. job[j].state = "RUNNING" /\ job[j].attempt_count = n
    BY <1>5 DEF Live, Fenced, Fence
  <2> HIDE DEF n
  <2>3. r \in JobRow /\ SameRow(r, job[j]) /\ r.checkpoint = n
    BY <1>2, CheckpointedRow
  <2> HIDE DEF r, j
  <2> QED
    BY <1>1, <1>3, <2>1, <2>2, <2>3, OneRowMoves
       DEF Moves, Touches, SameRow, SameCounts, SameState, SameCancel
<1> QED
  BY <1>4, <1>5 DEF SaveCheckpoint

\* _finish with a settled row: the caller's verdict, or the pending cancellation.
LEMMA FinishSettledMoves ==
    ASSUME TypeOK, OneOpenAttempt, NEW f \in LeaseFence, NEW o \in JobAttemptOutcome,
           NEW st \in Terminal \cup {"RETRY_WAIT"}, NEW delay \in Int, Fenced(f),
           job[f.job].cancel_requested <=> st = "CANCELLED",
           st = "RETRY_WAIT" => RetryAttempt(job[f.job]) < MaxAttempts,
           Finish(f, o, Settled(job[f.job], st, delay))
    PROVE  RowsTyped' /\ \A k \in Jobs : Moves(k)
<1> DEFINE j == f.job
           r == Settled(job[j], st, delay)
<1>1. j \in Jobs /\ job[j] \in JobRow
  BY DEF TypeOK, LeaseFence
<1>2. st \in JobState
  BY DEF JobState, Claimable
<1>3. /\ r \in JobRow /\ r.state = st /\ r.lease_owner = NoWorker
      /\ ~r.resource_waiting /\ ~r.resource_wake
      /\ r.attempt_count = job[j].attempt_count
      /\ r.cancel_requested = job[j].cancel_requested
      /\ r.resource_wait_count = job[j].resource_wait_count
      /\ r.checkpoint = job[j].checkpoint
  BY <1>1, <1>2, SettledRow
<1>4. Finish(f, o, r)
  OBVIOUS
<1> HIDE DEF r
<1>5. /\ RowsTyped' /\ job'[j] = r
      /\ job[j].state = "RUNNING"
      /\ job[j].attempt_count \in 1..Len(attempts[j])
      /\ attempts'[j] = [attempts[j] EXCEPT ![job[j].attempt_count].outcome = o]
      /\ \A k \in Jobs \ {j} : Moves(k)
  BY <1>3, <1>4, FinishMoves
<1>6. ClosesWith(j, o)
  BY <1>3, <1>5 DEF ClosesWith, SameCancel, SameCheckpoint
<1> QED
  BY <1>5, <1>6 DEF Closes, Moves

LEMMA FenceType ==
    ASSUME TypeOK, NEW w \in Workers, proc[w].job \in Jobs
    PROVE  Fence(w) \in LeaseFence
BY DEF TypeOK, Fence, LeaseFence, Process

LEMMA DeferMoves ==
    ASSUME TypeOK, OneOpenAttempt, EngagedOnJob, NEW w \in Workers, DeferForResource(w)
    PROVE  RowsTyped' /\ \A k \in Jobs : Moves(k)
<1> DEFINE f == Fence(w)
           j == f.job
<1>1. f \in LeaseFence /\ j \in Jobs /\ job[j] \in JobRow
  BY FenceType DEF EngagedOnJob, Engaged, DeferForResource, Executing, Fence, TypeOK
<1>2. CASE UNCHANGED <<job, attempts>>
  BY <1>2, AllUnmoved
<1>3. CASE /\ Live(f, 0) /\ job[j].cancel_requested
           /\ Finish(f, "CANCELLED", Settled(job[j], "CANCELLED", 0))
  <2>1. /\ "CANCELLED" \in JobAttemptOutcome
        /\ "CANCELLED" \in Terminal \cup {"RETRY_WAIT"}
    BY DEF JobAttemptOutcome, Terminal
  <2>2. Fenced(f)
    BY <1>3 DEF Live
  <2> HIDE DEF f
  <2> QED
    BY <1>1, <1>3, <2>1, <2>2, FinishSettledMoves
<1>4. CASE \E delay \in RetryDelays, d \in Lags :
             /\ Live(f, 0) /\ ~job[j].cancel_requested
             /\ Finish(f, "RESOURCE_WAIT", Deferred(job[j], delay - d))
  <2>1. PICK delay \in RetryDelays, d \in Lags :
             /\ Live(f, 0) /\ ~job[j].cancel_requested
             /\ Finish(f, "RESOURCE_WAIT", Deferred(job[j], delay - d))
    BY <1>4
  <2> DEFINE dl == delay - d
             r == Deferred(job[j], dl)
             o == "RESOURCE_WAIT"
  <2>2. dl \in Int
    BY DelayType, LagType
  <2>3. o \in JobAttemptOutcome
    BY DEF JobAttemptOutcome
  <2>4. Fenced(f) /\ Finish(f, o, r) /\ ~job[j].cancel_requested
    BY <2>1 DEF Live
  <2> HIDE DEF dl, f, o
  <2>5. /\ r \in JobRow
        /\ r.state = "RETRY_WAIT" /\ r.lease_owner = NoWorker
        /\ ~r.resource_wake
        /\ r.attempt_count = job[j].attempt_count
        /\ r.cancel_requested = job[j].cancel_requested
        /\ r.resource_wait_count = job[j].resource_wait_count + 1
        /\ r.checkpoint = job[j].checkpoint
    BY <1>1, <2>2, DeferredRow
  <2> HIDE DEF r
  <2>6. /\ RowsTyped' /\ job'[j] = r
        /\ job[j].state = "RUNNING"
        /\ job[j].attempt_count \in 1..Len(attempts[j])
        /\ attempts'[j] = [attempts[j] EXCEPT ![job[j].attempt_count].outcome = o]
        /\ \A k \in Jobs \ {j} : Moves(k)
    BY <1>1, <2>3, <2>4, <2>5, FinishMoves
  <2>7. ClosesWith(j, o)
    BY <2>4, <2>5, <2>6 DEF ClosesWith, SameCancel, SameCheckpoint
  <2> QED
    BY <2>3, <2>6, <2>7 DEF Closes, Moves
<1> QED
  BY <1>2, <1>3, <1>4 DEF DeferForResource

LEMMA CloseJobMoves ==
    ASSUME TypeOK, OneOpenAttempt, EngagedOnJob, NEW w \in Workers, CloseJob(w)
    PROVE  RowsTyped' /\ \A k \in Jobs : Moves(k)
<1> DEFINE f == Fence(w)
           row == job[f.job]
<1>1. f \in LeaseFence
  BY FenceType DEF EngagedOnJob, Engaged, CloseJob
<1>2. 0 \in Int
  OBVIOUS
<1>3. CASE UNCHANGED <<job, attempts>>
  BY <1>3, AllUnmoved
<1>4. ASSUME NEW d \in Lags, Live(f, d), NEW o \in JobAttemptOutcome,
             NEW st \in Terminal \cup {"RETRY_WAIT"}, NEW delay \in Int,
             row.cancel_requested <=> st = "CANCELLED",
             st = "RETRY_WAIT" => RetryAttempt(row) < MaxAttempts,
             Finish(f, o, Settled(row, st, delay))
      PROVE  RowsTyped' /\ \A k \in Jobs : Moves(k)
  <2>1. Fenced(f)
    BY <1>4 DEF Live
  <2> HIDE DEF f
  <2> QED
    BY <1>1, <1>4, <2>1, FinishSettledMoves
<1>5. /\ {"CANCELLED", "SUCCESS", "TERMINAL_ERROR", "RETRYABLE_ERROR"} \subseteq JobAttemptOutcome
      /\ {"CANCELLED", "COMPLETED", "FAILED", "RETRY_WAIT"} \subseteq Terminal \cup {"RETRY_WAIT"}
  BY DEF JobAttemptOutcome, Terminal
<1>6. ~(UNCHANGED <<job, attempts>>) => \E d \in Lags :
        /\ Live(f, d)
        /\ \/ /\ row.cancel_requested
              /\ Finish(f, "CANCELLED", Settled(row, "CANCELLED", 0))
           \/ /\ ~row.cancel_requested
              /\ Finish(f, "SUCCESS", Settled(row, "COMPLETED", 0))
           \/ /\ ~row.cancel_requested
              /\ Finish(f, "TERMINAL_ERROR", Settled(row, "FAILED", 0))
           \/ /\ ~row.cancel_requested
              /\ Finish(f, "RETRYABLE_ERROR", Settled(row, "FAILED", 0))
           \/ /\ ~row.cancel_requested
              /\ RetryAttempt(row) < MaxAttempts
              /\ \E delay \in RetryDelays :
                    Finish(f, "RETRYABLE_ERROR", Settled(row, "RETRY_WAIT", delay - d))
  BY Zenon DEF CloseJob
<1> HIDE DEF f, row
<1>7. \A delay \in RetryDelays, d \in Lags : delay - d \in Int
  BY DelayType, LagType
<1> QED
  BY <1>2, <1>3, <1>4, <1>5, <1>6, <1>7

LEMMA TickMoves ==
    ASSUME TypeOK, Tick
    PROVE  RowsTyped' /\ \A k \in Jobs : Moves(k)
<1>1. \A n \in Int : CountDown(n) \in Int
  BY DEF CountDown
<1>2. ASSUME NEW j \in Jobs
      PROVE  job'[j] \in JobRow /\ SameRow(job'[j], job[j]) /\ SameCheckpoint(j)
  <2> DEFINE x == IF job[j].state = "RUNNING" THEN CountDown(job[j].lease_left)
                                              ELSE job[j].lease_left
             y == IF job[j].state \in Claimable THEN CountDown(job[j].due_in)
                                                ELSE job[j].due_in
             r == [job[j] EXCEPT !.lease_left = x, !.due_in = y]
  <2>1. job[j] \in JobRow
    BY DEF TypeOK
  <2>2. x \in Int /\ y \in Int
    BY <1>1, <2>1 DEF JobRow
  <2>3. job'[j] = r
    BY <2>1 DEF Tick, JobRow
  <2> HIDE DEF x, y
  <2>4. r \in JobRow /\ SameRow(r, job[j]) /\ r.checkpoint = job[j].checkpoint
    BY <2>1, <2>2, ClockedRow
  <2> HIDE DEF r
  <2> QED
    BY <2>3, <2>4 DEF SameCheckpoint
<1>3. UNCHANGED attempts
  BY DEF Tick
<1>4. job' = [j \in Jobs |-> job'[j]]
  BY DEF Tick
<1>5. RowsTyped'
  BY <1>2, <1>3, <1>4 DEF RowsTyped, TypeOK
<1>6. ASSUME NEW j \in Jobs PROVE Touches(j)
  BY <1>2, <1>3 DEF Touches, SameRow, SameCounts, SameState, SameCancel
<1> QED
  BY <1>5, <1>6 DEF Moves

\* Every step of the queue moves every job in one of the six ways.
THEOREM RowMoves ==
    ASSUME TypeOK, OneOpenAttempt, EngagedOnJob, Next
    PROVE  RowsTyped' /\ \A k \in Jobs : Moves(k)
<1>1. CASE \E j \in Jobs : Caller(j)
  BY <1>1, CallerMoves
<1>2. ASSUME NEW w \in Workers, Worker(w)
      PROVE  RowsTyped' /\ \A k \in Jobs : Moves(k)
  <2>1. CASE RecoverExpired(w)
    BY <2>1, RecoverMoves DEF RecoverExpired
  <2>2. CASE \E j \in Jobs : Claim(w, j)
    BY <2>2, ClaimMoves
  <2>3. CASE Heartbeat(w)
    BY <2>3, HeartbeatMoves
  <2>4. CASE SaveCheckpoint(w)
    BY <2>4, SaveCheckpointMoves
  <2>5. CASE DeferForResource(w)
    BY <2>5, DeferMoves
  <2>6. CASE CloseJob(w)
    BY <2>6, CloseJobMoves
  <2>7. CASE \/ ClaimNothing(w) \/ HeartbeatFails(w) \/ StopsAtSafePoint(w)
             \/ HandlerReturns(w) \/ HandlerRaises(w) \/ Crash(w)
    BY <2>7, AllUnmoved DEF ClaimNothing, HeartbeatFails, StopsAtSafePoint,
                            HandlerReturns, HandlerRaises, Crash
  <2> QED
    BY <1>2, <2>1, <2>2, <2>3, <2>4, <2>5, <2>6, <2>7 DEF Worker
<1>3. CASE \E f \in late : LateHeartbeat(f)
  BY <1>3, LateHeartbeatMoves
<1>4. CASE Tick
  BY <1>4, TickMoves
<1> QED
  BY <1>1, <1>2, <1>3, <1>4 DEF Next

(***************************************************************************)
(* The processes.                                                          *)
(***************************************************************************)
ProcsTyped == proc \in [Workers -> Process] /\ late \subseteq LeaseFence

LEMMA ProcessValues ==
    /\ IdleProcess \in Process
    /\ \A j \in Jobs, n \in Nat : Assigned(j, n) \in Process
BY DEF IdleProcess, Assigned, Process

\* A process that a step replaces keeps the others, and EngagedOnJob, intact.
LEMMA OneProcess ==
    ASSUME TypeOK, EngagedOnJob, NEW w \in Workers, NEW p \in Process,
           proc' = [proc EXCEPT ![w] = p], late' \subseteq LeaseFence,
           p.phase \in {"EXECUTING"} \cup Closing => p.job \in Jobs,
           p.phase \notin {"EXECUTING"} \cup Closing => p.job = NoJob
    PROVE  ProcsTyped' /\ EngagedOnJob'
BY DEF TypeOK, ProcsTyped, EngagedOnJob, Engaged

LEMMA SameProcesses ==
    ASSUME TypeOK, EngagedOnJob, UNCHANGED proc, late' \subseteq LeaseFence
    PROVE  ProcsTyped' /\ EngagedOnJob'
BY DEF TypeOK, ProcsTyped, EngagedOnJob, Engaged

LEMMA EndsProcess ==
    ASSUME TypeOK, EngagedOnJob, NEW w \in Workers, Ends(w), late' \subseteq LeaseFence
    PROVE  ProcsTyped' /\ EngagedOnJob'
<1>1. /\ IdleProcess \in Process
      /\ IdleProcess.phase \notin {"EXECUTING"} \cup Closing
      /\ IdleProcess.job = NoJob
  BY ProcessValues DEF IdleProcess, Closing
<1>2. proc' = [proc EXCEPT ![w] = IdleProcess]
  BY DEF Ends
<1> QED
  BY <1>1, <1>2, OneProcess

LEMMA StopMonitorType ==
    ASSUME TypeOK, NEW w \in Workers, proc[w].job \in Jobs, StopMonitor(w)
    PROVE  late' \subseteq LeaseFence
BY FenceType DEF StopMonitor, TypeOK

\* A process that enters another phase, both with or both without a job.
LEMMA PhaseStep ==
    ASSUME TypeOK, EngagedOnJob, NEW w \in Workers, NEW phase \in Closing,
           Executing(w), proc' = [proc EXCEPT ![w].phase = phase],
           late' \subseteq LeaseFence
    PROVE  ProcsTyped' /\ EngagedOnJob'
<1> DEFINE p == [proc[w] EXCEPT !.phase = phase]
<1>1. proc[w] \in Process /\ proc[w].job \in Jobs
  BY DEF TypeOK, EngagedOnJob, Engaged, Executing
<1>2. p \in Process /\ p.phase = phase /\ p.job = proc[w].job
  BY <1>1 DEF Process
<1>3. proc' = [proc EXCEPT ![w] = p]
  OBVIOUS
<1> HIDE DEF p
<1> QED
  BY <1>1, <1>2, <1>3, OneProcess

\* The heartbeat thread raises flags: the process keeps its phase and its job.
LEMMA FlagStep ==
    ASSUME TypeOK, EngagedOnJob, NEW w \in Workers, NEW p \in Process,
           p.phase = proc[w].phase, p.job = proc[w].job,
           proc' = [proc EXCEPT ![w] = p], UNCHANGED late
    PROVE  ProcsTyped' /\ EngagedOnJob'
<1>1. late' \subseteq LeaseFence
  BY DEF TypeOK
<1> QED
  BY <1>1, OneProcess DEF EngagedOnJob, Engaged

LEMMA WorkerProcess ==
    ASSUME TypeOK, EngagedOnJob, NEW w \in Workers, Worker(w)
    PROVE  ProcsTyped' /\ EngagedOnJob'
<1> DEFINE Leaves == /\ Executing(w) /\ StopMonitor(w)
                     /\ \/ Ends(w)
                        \/ \E phase \in Closing : proc' = [proc EXCEPT ![w].phase = phase]
<1>0. proc[w] \in Process /\ late \subseteq LeaseFence
  BY DEF TypeOK
<1>1. CASE RecoverExpired(w)
  <2> DEFINE p == [proc[w] EXCEPT !.phase = "POLLING"]
  <2>1. proc[w].job = NoJob
    BY <1>1 DEF RecoverExpired, EngagedOnJob, Engaged, Closing
  <2>2. p \in Process /\ p.job = NoJob /\ p.phase \notin {"EXECUTING"} \cup Closing
    BY <1>0, <2>1 DEF Process, Closing
  <2>3. proc' = [proc EXCEPT ![w] = p] /\ late' \subseteq LeaseFence
    BY <1>0, <1>1 DEF RecoverExpired
  <2> HIDE DEF p
  <2> QED
    BY <2>2, <2>3, OneProcess, JobQueueAssumption
<1>2. CASE \E j \in Jobs : Claim(w, j)
  <2>1. PICK j \in Jobs : Claim(w, j)
    BY <1>2
  <2> DEFINE n == job[j].attempt_count + 1
             p == Assigned(j, n)
  <2>2. n \in Nat
    BY DEF TypeOK, JobRow
  <2>3. proc' = [proc EXCEPT ![w] = p] /\ late' \subseteq LeaseFence
    BY <1>0, <2>1 DEF Claim
  <2> HIDE DEF n
  <2>4. p \in Process /\ p.job = j /\ p.phase = "EXECUTING"
    BY <2>2, ProcessValues DEF Assigned
  <2> HIDE DEF p
  <2> QED
    BY <2>3, <2>4, OneProcess
<1>3. CASE ClaimNothing(w) \/ Crash(w)
  <2>1. Ends(w) /\ late' \subseteq LeaseFence
    BY <1>0, <1>3 DEF ClaimNothing, Crash, Ends
  <2> QED
    BY <2>1, EndsProcess
<1>4. CASE Heartbeat(w) \/ HeartbeatFails(w)
  <2>1. \A j \in Jobs : job[j].cancel_requested \in BOOLEAN
    BY DEF TypeOK, JobRow
  <2>2. proc[w].job \in Jobs
    BY <1>4 DEF Heartbeat, HeartbeatFails, Executing, EngagedOnJob, Engaged
  <2>3. \A c, l, x \in BOOLEAN :
          \A p \in {[proc[w] EXCEPT !.failed = x],
                    [proc[w] EXCEPT !.lost = l, !.failed = x],
                    [proc[w] EXCEPT !.cancel = c]} :
             p \in Process /\ p.phase = proc[w].phase /\ p.job = proc[w].job
    BY <1>0 DEF Process
  <2>4. UNCHANGED late
    BY <1>4 DEF Heartbeat, HeartbeatFails
  <2>5. CASE \E x \in BOOLEAN : proc' = [proc EXCEPT ![w] = [proc[w] EXCEPT !.failed = x]]
    BY <2>3, <2>4, <2>5, FlagStep
  <2>6. CASE \E l, x \in BOOLEAN :
                proc' = [proc EXCEPT ![w] = [proc[w] EXCEPT !.lost = l, !.failed = x]]
    BY <2>3, <2>4, <2>6, FlagStep
  <2>7. CASE \E c \in BOOLEAN : proc' = [proc EXCEPT ![w] = [proc[w] EXCEPT !.cancel = c]]
    BY <2>3, <2>4, <2>7, FlagStep
  <2>8. proc[w].cancel \in BOOLEAN
    BY <1>0 DEF Process
  <2> QED
    BY <1>4, <2>1, <2>2, <2>5, <2>6, <2>7, <2>8 DEF Heartbeat, HeartbeatFails
<1>5. CASE Leaves
  <2>1. late' \subseteq LeaseFence
    BY <1>5, StopMonitorType DEF EngagedOnJob, Engaged, Executing
  <2> QED
    BY <1>5, <2>1, EndsProcess, PhaseStep
<1>6. CASE UNCHANGED <<proc, late>>
  BY <1>0, <1>6, SameProcesses
<1>7. CASE CloseJob(w)
  BY <1>0, <1>7, EndsProcess DEF CloseJob
<1>8. SaveCheckpoint(w) => Leaves \/ UNCHANGED <<proc, late>>
  BY DEF SaveCheckpoint, Closing
<1>9. StopsAtSafePoint(w) \/ DeferForResource(w) \/ HandlerReturns(w) \/ HandlerRaises(w) => Leaves
  BY DEF StopsAtSafePoint, DeferForResource, HandlerReturns, HandlerRaises, Closing
<1> QED
  BY <1>1, <1>2, <1>3, <1>4, <1>5, <1>6, <1>7, <1>8, <1>9 DEF Worker

LEMMA ProcessStep ==
    ASSUME TypeOK, EngagedOnJob, Next
    PROVE  ProcsTyped' /\ EngagedOnJob'
<1>1. CASE \E j \in Jobs : Caller(j)
  BY <1>1, SameProcesses
     DEF Caller, Enqueue, RequestCancel, RequestRunningCancel, CancelPendingJob,
         ResourceWake, TypeOK
<1>2. CASE \E f \in late : LateHeartbeat(f)
  BY <1>2, SameProcesses DEF LateHeartbeat, TypeOK
<1>3. CASE Tick
  BY <1>3, SameProcesses DEF Tick, TypeOK
<1> QED
  BY <1>1, <1>2, <1>3, WorkerProcess DEF Next
-----------------------------------------------------------------------------
(***************************************************************************)
(* The inductive invariant.                                                *)
(***************************************************************************)
\* A finished job stays as it is: what a prerequisite satisfied, it satisfies.
LEMMA TerminalIsStable ==
    ASSUME NEW j \in Jobs, Moves(j), job[j].state \in Terminal
    PROVE  job'[j].state = job[j].state
BY DEF Moves, Touches, Queues, Marks, Drops, Starts, Closes, ClosesWith, SameState,
       Terminal, Claimable

LEMMA MetIsStable ==
    ASSUME \A k \in Jobs : Moves(k), NEW j \in Jobs, Met(j)
    PROVE  Met(j)'
<1>1. RequireSuccess[j] \subseteq Jobs /\ RequireTerminal[j] \subseteq Jobs
  BY JobQueueAssumption
<1>2. \A p \in Jobs : job[p].state \in Terminal => job'[p].state = job[p].state
  BY TerminalIsStable
<1>3. "COMPLETED" \in Terminal
  BY DEF Terminal
<1> QED
  BY <1>1, <1>2, <1>3 DEF Met

LEMMA PrerequisitesStep ==
    ASSUME IInv, \A k \in Jobs : Moves(k)
    PROVE  StartedAfterPrerequisites'
<1> SUFFICES ASSUME NEW j \in Jobs, job'[j].attempt_count > 0 PROVE Met(j)'
  BY DEF StartedAfterPrerequisites
<1>1. Met(j)
  <2>1. CASE Starts(j)
    BY <2>1 DEF Starts
  <2>2. CASE job'[j].attempt_count = job[j].attempt_count
    BY <2>2 DEF IInv, StartedAfterPrerequisites
  <2> QED
    BY <2>1, <2>2 DEF Moves, Touches, Queues, Marks, Drops, Closes, ClosesWith, SameCounts
<1> QED
  BY <1>1, MetIsStable

\* The parts of the invariant that concern one row, for that row.
RowInv(j) == /\ job[j].state = "ABSENT" =>
                   job[j].attempt_count = 0 /\ job[j].resource_wait_count = 0
             /\ job[j].checkpoint <= job[j].attempt_count
             /\ job[j].cancel_requested => job[j].state \in {"RUNNING", "CANCELLED"}
             /\ job[j].resource_wait_count <= job[j].attempt_count
             /\ RetryAttempt(job[j]) <= MaxAttempts
             /\ job[j].state = "RUNNING" => RetryAttempt(job[j]) > 0
             /\ job[j].state \in Claimable => RetryAttempt(job[j]) < MaxAttempts
             /\ job[j].resource_waiting => job[j].state = "RETRY_WAIT"
             /\ job[j].resource_wake => job[j].resource_waiting
             /\ job[j].lease_owner # NoWorker <=> job[j].state = "RUNNING"

LEMMA RowInvs ==
    (\A j \in Jobs : RowInv(j)) <=>
       /\ Untouched /\ CheckpointByAttempt /\ CancelIsNotStranded
       /\ RetryBudget /\ RowChecks
BY DEF RowInv, Untouched, CheckpointByAttempt, CancelIsNotStranded, RetryBudget, RowChecks

LEMMA RowInvStep ==
    ASSUME NEW j \in Jobs, job[j] \in JobRow, job'[j] \in JobRow, RowInv(j), Moves(j)
    PROVE  RowInv(j)'
<1> USE DEF RowInv, SameCounts, SameState, SameWait, SameCancel, SameCheckpoint, NotWaiting
<1>1. CASE Touches(j)
  BY <1>1 DEF Touches, JobRow, RetryAttempt
<1>2. CASE Queues(j)
  BY <1>2, JobQueueAssumption DEF Queues, JobRow, RetryAttempt, Claimable
<1>3. CASE Marks(j)
  BY <1>3 DEF Marks, JobRow, RetryAttempt, Claimable
<1>4. CASE Drops(j)
  BY <1>4 DEF Drops, JobRow, RetryAttempt, Claimable
<1>5. CASE Starts(j)
  BY <1>5, JobQueueAssumption DEF Starts, JobRow, RetryAttempt, Claimable
<1>6. CASE Closes(j)
  <2>1. PICK o \in JobAttemptOutcome : ClosesWith(j, o)
    BY <1>6 DEF Closes
  <2>2. /\ job[j].attempt_count \in Nat /\ job[j].resource_wait_count \in Nat
        /\ job'[j].resource_wait_count \in Nat /\ job[j].checkpoint \in Nat
        /\ MaxAttempts \in Nat
    BY JobQueueAssumption DEF JobRow
  <2>3. /\ job'[j].attempt_count = job[j].attempt_count
        /\ job'[j].checkpoint = job[j].checkpoint
        /\ RetryAttempt(job[j]) > 0 /\ RetryAttempt(job[j]) <= MaxAttempts
        /\ \/ /\ job'[j].resource_wait_count = job[j].resource_wait_count
              /\ job'[j].state = "RETRY_WAIT" => RetryAttempt(job[j]) < MaxAttempts
           \/ job'[j].resource_wait_count = job[j].resource_wait_count + 1
        /\ job'[j].state \in Terminal \cup {"RETRY_WAIT"}
    BY <2>1 DEF ClosesWith
  <2>4. /\ job'[j].resource_wait_count <= job'[j].attempt_count
        /\ RetryAttempt(job'[j]) <= MaxAttempts
        /\ job'[j].state \in Claimable => RetryAttempt(job'[j]) < MaxAttempts
    BY <2>2, <2>3 DEF RetryAttempt, Claimable, Terminal
  <2>5. /\ job'[j].state \notin {"ABSENT", "RUNNING"}
        /\ job'[j].cancel_requested => job'[j].state \in {"RUNNING", "CANCELLED"}
        /\ job'[j].resource_waiting => job'[j].state = "RETRY_WAIT"
        /\ job'[j].resource_wake => job'[j].resource_waiting
        /\ job'[j].lease_owner = NoWorker
    BY <2>1 DEF ClosesWith, Terminal
  <2> QED
    BY <2>2, <2>3, <2>4, <2>5
<1> QED
  BY <1>1, <1>2, <1>3, <1>4, <1>5, <1>6 DEF Moves

\* The history of one job agrees with its row.
HistoryInv(j) ==
    /\ Len(attempts[j]) = job[j].attempt_count
    /\ \A n \in 1..Len(attempts[j]) :
          attempts[j][n].outcome = "OPEN"
             <=> (job[j].state = "RUNNING" /\ n = job[j].attempt_count)
    /\ job[j].state = "RUNNING" =>
          /\ job[j].attempt_count > 0
          /\ attempts[j][job[j].attempt_count].worker = job[j].lease_owner

LEMMA HistoryInvStep ==
    ASSUME NEW j \in Jobs, job[j] \in JobRow, attempts[j] \in Seq(AttemptRow),
           HistoryInv(j), Moves(j)
    PROVE  HistoryInv(j)'
<1> USE DEF HistoryInv
<1>1. CASE Touches(j)
  BY <1>1 DEF Touches, SameCounts, SameState
<1>2. CASE Queues(j)
  BY <1>2 DEF Queues, SameCounts
<1>3. CASE Marks(j)
  BY <1>3 DEF Marks, SameCounts, SameState
<1>4. CASE Drops(j)
  BY <1>4 DEF Drops, SameCounts, Claimable
<1>5. CASE Starts(j)
  <2> DEFINE s == attempts[j]
             a == [worker |-> job'[j].lease_owner, outcome |-> "OPEN"]
  <2>1. attempts'[j] = Append(s, a) /\ a.outcome = "OPEN" /\ a.worker = job'[j].lease_owner
    BY <1>5 DEF Starts
  <2>2. a \in AttemptRow
    BY <1>5 DEF Starts, AttemptRow
  <2> HIDE DEF a
  <2>3. /\ Len(attempts'[j]) = Len(s) + 1 /\ attempts'[j][Len(s) + 1] = a
        /\ \A n \in 1..Len(s) : attempts'[j][n] = s[n]
    BY <2>1, <2>2
  <2>4. \A n \in 1..Len(s) : s[n].outcome # "OPEN"
    BY <1>5 DEF Starts, Claimable
  <2>5. /\ job'[j].state = "RUNNING" /\ job'[j].attempt_count = Len(s) + 1
        /\ Len(s) \in Nat
    BY <1>5 DEF Starts, JobRow
  <2> HIDE DEF s
  <2> QED
    BY <2>1, <2>3, <2>4, <2>5
<1>6. CASE Closes(j)
  <2>1. PICK o \in JobAttemptOutcome : ClosesWith(j, o)
    BY <1>6 DEF Closes
  <2> DEFINE s == attempts[j]
             n == job[j].attempt_count
  <2>2. n \in 1..Len(s) /\ attempts'[j] = [s EXCEPT ![n].outcome = o]
    BY <2>1 DEF ClosesWith
  <2>3. /\ Len(attempts'[j]) = Len(s)
        /\ \A i \in 1..Len(s) :
              attempts'[j][i] = IF i = n THEN [worker |-> s[n].worker, outcome |-> o] ELSE s[i]
    <3> HIDE DEF s, n
    <3> QED
      BY <2>2, CloseAttempt DEF s
  <2>4. o # "OPEN"
    BY DEF JobAttemptOutcome
  <2>5. /\ job'[j].state # "RUNNING" /\ job'[j].attempt_count = n
        /\ job[j].state = "RUNNING"
    BY <2>1 DEF ClosesWith, Terminal
  <2> QED
    BY <2>2, <2>3, <2>4, <2>5
<1> QED
  BY <1>1, <1>2, <1>3, <1>4, <1>5, <1>6 DEF Moves

LEMMA HistoryInvs == OneOpenAttempt <=> \A j \in Jobs : HistoryInv(j)
BY DEF OneOpenAttempt, HistoryInv

LEMMA InvInit == Init => IInv
<1> SUFFICES ASSUME Init PROVE IInv
  OBVIOUS
<1>1. AbsentRow \in JobRow
  BY DEF AbsentRow, JobRow, JobState
<1>2. \A j \in Jobs : job[j] = AbsentRow /\ attempts[j] = << >>
  BY DEF Init
<1>3. \A w \in Workers : proc[w] = IdleProcess
  BY DEF Init
<1>4. TypeOK
  <2>1. job \in [Jobs -> JobRow]
    BY <1>1 DEF Init
  <2>2. attempts \in [Jobs -> Seq(AttemptRow)]
    BY DEF Init
  <2>3. proc \in [Workers -> Process] /\ late \subseteq LeaseFence
    BY ProcessValues DEF Init
  <2> QED
    BY <2>1, <2>2, <2>3 DEF TypeOK
<1>5. EngagedOnJob
  BY <1>3 DEF EngagedOnJob, Engaged, IdleProcess, Closing
<1>6. \A j \in Jobs : RowInv(j)
  BY <1>2, JobQueueAssumption DEF RowInv, AbsentRow, RetryAttempt, Claimable
<1>7. \A j \in Jobs : HistoryInv(j)
  BY <1>2 DEF HistoryInv, AbsentRow
<1>8. StartedAfterPrerequisites
  BY <1>2 DEF StartedAfterPrerequisites, AbsentRow
<1> QED
  BY <1>4, <1>5, <1>6, <1>7, <1>8, RowInvs, HistoryInvs DEF IInv

LEMMA InvStep == IInv /\ [Next]_vars => IInv'
<1> SUFFICES ASSUME IInv, [Next]_vars PROVE IInv'
  OBVIOUS
<1>1. CASE Next
  <2>1. RowsTyped' /\ \A j \in Jobs : Moves(j)
    BY <1>1, RowMoves DEF IInv
  <2>2. ProcsTyped' /\ EngagedOnJob'
    BY <1>1, ProcessStep DEF IInv
  <2>3. TypeOK'
    BY <2>1, <2>2 DEF RowsTyped, ProcsTyped, TypeOK
  <2>4. \A j \in Jobs : RowInv(j)'
    BY <2>1, RowInvStep, RowInvs DEF IInv, TypeOK, RowsTyped
  <2>5. \A j \in Jobs : HistoryInv(j)'
    BY <2>1, HistoryInvStep, HistoryInvs DEF IInv, TypeOK
  <2>6. (/\ Untouched /\ CheckpointByAttempt /\ CancelIsNotStranded
         /\ RetryBudget /\ RowChecks)'
    BY <2>4 DEF RowInv, Untouched, CheckpointByAttempt, CancelIsNotStranded,
                RetryBudget, RowChecks
  <2>7. OneOpenAttempt'
    BY <2>5 DEF OneOpenAttempt, HistoryInv
  <2> QED
    BY <2>1, <2>2, <2>3, <2>6, <2>7, PrerequisitesStep DEF IInv
<1>2. CASE UNCHANGED vars
  BY <1>2 DEF vars, IInv, TypeOK, EngagedOnJob, Engaged, Untouched, CheckpointByAttempt,
              OneOpenAttempt, CancelIsNotStranded, RetryBudget, RowChecks,
              StartedAfterPrerequisites, Met
<1> QED
  BY <1>1, <1>2

\* The tables, the fences and the retry budget agree in every state of the queue.
THEOREM Invariant == Spec => []IInv
BY InvInit, InvStep, PTL DEF Spec

\* Every operation keeps the rows, the histories and the processes well typed.
THEOREM TypeCorrect == Spec => []TypeOK
<1>1. IInv => TypeOK
  BY DEF IInv
<1> QED
  BY <1>1, Invariant, PTL

\* One attempt row per claim, and at most the last one open, under the lease that
\* holds it: two workers never both own a job.
THEOREM AttemptsAgree == Spec => []OneOpenAttempt
<1>1. IInv => OneOpenAttempt
  BY DEF IInv
<1> QED
  BY <1>1, Invariant, PTL

\* However claim, recovery and deferral interleave, no job is tried more often
\* than max_attempts.
THEOREM BudgetHolds == Spec => []RetryBudget
<1>1. IInv => RetryBudget
  BY DEF IInv
<1> QED
  BY <1>1, Invariant, PTL

\* A recorded cancellation is on a job that runs or is cancelled, never on one
\* that every claim would skip.
THEOREM CancellationIsSeen == Spec => []CancelIsNotStranded
<1>1. IInv => CancelIsNotStranded
  BY DEF IInv
<1> QED
  BY <1>1, Invariant, PTL

\* No step breaks the CHECK constraints on the lease and wait columns.
THEOREM ChecksHold == Spec => []RowChecks
<1>1. IInv => RowChecks
  BY DEF IInv
<1> QED
  BY <1>1, Invariant, PTL

\* No job starts before what it depends on, and no prerequisite is taken back.
THEOREM PrerequisitesHold == Spec => []StartedAfterPrerequisites
<1>1. IInv => StartedAfterPrerequisites
  BY DEF IInv
<1> QED
  BY <1>1, Invariant, PTL
-----------------------------------------------------------------------------
(***************************************************************************)
(* What a step may never do.                                               *)
(***************************************************************************)
LEMMA StepMoves ==
    ASSUME IInv, [Next]_vars
    PROVE  \A j \in Jobs : Moves(j)
<1>1. CASE Next
  BY <1>1, RowMoves DEF IInv
<1>2. CASE UNCHANGED vars
  BY <1>2, AllUnmoved DEF vars, IInv
<1> QED
  BY <1>1, <1>2

LEMMA HistoryStep ==
    ASSUME IInv, NEW j \in Jobs, Moves(j),
           NEW n \in 1..Len(attempts[j]), attempts[j][n].outcome # "OPEN"
    PROVE  n <= Len(attempts'[j]) /\ attempts'[j][n] = attempts[j][n]
<1>1. attempts[j] \in Seq(AttemptRow)
  BY DEF IInv, TypeOK
<1>2. CASE attempts'[j] = attempts[j]
  BY <1>1, <1>2
<1>3. CASE Starts(j)
  BY <1>1, <1>3 DEF Starts
<1>4. CASE Closes(j)
  <2>1. PICK o \in JobAttemptOutcome : ClosesWith(j, o)
    BY <1>4 DEF Closes
  <2> DEFINE s == attempts[j]
             m == job[j].attempt_count
  <2>2. m \in 1..Len(s) /\ attempts'[j] = [s EXCEPT ![m].outcome = o]
    BY <2>1 DEF ClosesWith
  <2>3. n # m
    BY <2>1, <2>2 DEF ClosesWith, IInv, OneOpenAttempt
  <2> HIDE DEF m
  <2>4. Len(attempts'[j]) = Len(s) /\ attempts'[j][n] = s[n]
    <3> HIDE DEF s
    <3> QED
      BY <1>1, <2>2, <2>3, CloseAttempt DEF s
  <2> QED
    BY <1>1, <2>4
<1> QED
  BY <1>2, <1>3, <1>4 DEF Moves, Touches, Queues, Marks, Drops, SameCounts

\* A closed attempt is never closed again, reopened or reassigned: _CLOSE_ATTEMPT
\* of a late worker finds no open row.
THEOREM HistoryIsFinal == Spec => AttemptsAreFinal
<1>1. IInv /\ [Next]_vars =>
        [\A j \in Jobs : \A n \in 1..Len(attempts[j]) :
            attempts[j][n].outcome # "OPEN" =>
               n <= Len(attempts'[j]) /\ attempts'[j][n] = attempts[j][n]]_vars
  BY StepMoves, HistoryStep
<1> QED
  BY <1>1, Invariant, PTL DEF Spec, AttemptsAreFinal

\* A checkpoint comes from the attempt that holds the lease, so a resumed attempt
\* never reads progress older than what an earlier read saw.
THEOREM ProgressIsKept == Spec => CheckpointsAdvance
<1>1. ASSUME IInv, NEW j \in Jobs, Moves(j)
      PROVE  job'[j].checkpoint >= job[j].checkpoint
  <2>1. job[j].checkpoint \in Nat /\ job[j].checkpoint <= job[j].attempt_count
    BY <1>1 DEF IInv, TypeOK, JobRow, CheckpointByAttempt
  <2>2. \/ job'[j].checkpoint = job[j].checkpoint
        \/ job'[j].checkpoint = job[j].attempt_count
    BY <1>1 DEF Moves, Touches, Queues, Marks, Drops, Starts, Closes, ClosesWith,
                SameCheckpoint
  <2> QED
    BY <2>1, <2>2
<1>2. IInv /\ [Next]_vars => [\A j \in Jobs : job'[j].checkpoint >= job[j].checkpoint]_vars
  BY <1>1, StepMoves
<1> QED
  BY <1>2, Invariant, PTL DEF Spec, CheckpointsAdvance

\* No statement passes the fence of a closed attempt.
LEMMA StaleIsNotLive ==
    ASSUME IInv, NEW f \in LeaseFence, Stale(f), NEW d \in Lags
    PROVE  ~Live(f, d)
<1> SUFFICES ASSUME Fenced(f) PROVE FALSE
  BY DEF Live
<1>1. f.job \in Jobs /\ f.attempt \in Nat
  BY DEF LeaseFence
<1>2. /\ job[f.job].state = "RUNNING" /\ job[f.job].lease_owner = f.worker
      /\ job[f.job].attempt_count = f.attempt
  BY DEF Fenced
<1>3. f.attempt \in 1..Len(attempts[f.job])
  BY <1>1, <1>2 DEF IInv, TypeOK, JobRow, OneOpenAttempt
<1> QED
  BY <1>1, <1>2, <1>3 DEF IInv, OneOpenAttempt, Stale, AttemptOpen

\* The fence of a process that is engaged on a job.
LEMMA EngagedFence ==
    ASSUME IInv, NEW w \in Workers, Engaged(w)
    PROVE  Fence(w) \in LeaseFence
BY DEF IInv, TypeOK, Process, EngagedOnJob, Fence, LeaseFence

\* A worker whose attempt was taken from it moves neither table, nor does a
\* heartbeat it left in flight: heartbeats, checkpoints, deferrals and closings
\* all find the fence changed (_HEARTBEAT, _SAVE_CHECKPOINT, _LOCK_ACTIVE_LEASE).
THEOREM StaleIsFenced == Spec => StaleWorkerIsFenced
<1>1. ASSUME IInv, NEW w \in Workers, Engaged(w), Stale(Fence(w)), Calls(w)
      PROVE  UNCHANGED <<job, attempts>>
  <2>1. \A d \in Lags : ~Live(Fence(w), d)
    BY <1>1, StaleIsNotLive, EngagedFence
  <2>2. 0 \in Lags
    BY JobQueueAssumption DEF Lags
  <2>3. CASE Heartbeat(w)
    BY <2>1, <2>3 DEF Heartbeat
  <2>4. CASE SaveCheckpoint(w)
    BY <2>1, <2>4 DEF SaveCheckpoint
  <2>5. CASE DeferForResource(w)
    BY <2>1, <2>2, <2>5 DEF DeferForResource
  <2>6. CASE CloseJob(w)
    BY <2>1, <2>6 DEF CloseJob
  <2> QED
    BY <1>1, <2>3, <2>4, <2>5, <2>6 DEF Calls
<1>2. ASSUME IInv, NEW f \in late, Stale(f), LateHeartbeat(f)
      PROVE  UNCHANGED <<job, attempts>>
  <2>1. \A d \in Lags : ~Live(f, d)
    BY <1>2, StaleIsNotLive DEF IInv, TypeOK
  <2> QED BY <1>2, <2>1 DEF LateHeartbeat
<1>3. IInv /\ [Next]_vars =>
        [/\ \A w \in Workers :
               Engaged(w) /\ Stale(Fence(w)) /\ Calls(w) => UNCHANGED <<job, attempts>>
         /\ \A f \in late : Stale(f) /\ LateHeartbeat(f) => UNCHANGED <<job, attempts>>]_vars
  BY <1>1, <1>2
<1> QED
  BY <1>3, Invariant, PTL DEF Spec, StaleWorkerIsFenced
-----------------------------------------------------------------------------
(***************************************************************************)
(* The queue implements JobLifecycle.                                      *)
(***************************************************************************)
\* Whatever happens to the rows of one job is a step of its life cycle.
LEMMA JobRefines ==
    ASSUME IInv, NEW j \in Jobs, Moves(j), job'[j] \in JobRow
    PROVE  Lifecycle!JobStep(j) \/ Lifecycle!Stays(j)
<1> DEFINE Same == RetryAttempt(job'[j]) = RetryAttempt(job[j])
<1>1. /\ job[j] \in JobRow /\ RowInv(j)
      /\ job[j].attempt_count \in Nat /\ job[j].resource_wait_count \in Nat
  BY RowInvs DEF IInv, TypeOK, JobRow
<1> USE DEF Lifecycle!JobStep, Lifecycle!Stays, Lifecycle!Goes, Lifecycle!Keeps
<1>2. CASE Touches(j)
  <2>1. Lifecycle!Stays(j)
    BY <1>2 DEF Touches, SameCounts, SameState, SameCancel, RetryAttempt
  <2> QED
    BY <2>1
<1>3. CASE Queues(j)
  <2>1. Lifecycle!Submit(j)
    BY <1>3 DEF Queues, SameCounts, SameCancel, RetryAttempt, Lifecycle!Submit
  <2> QED
    BY <2>1
<1>4. CASE Marks(j)
  <2>1. Lifecycle!RequestCancel(j)
    BY <1>4 DEF Marks, SameState, SameCounts, RetryAttempt, Lifecycle!RequestCancel, JobRow
  <2> QED
    BY <2>1
<1>5. CASE Drops(j)
  <2>1. Lifecycle!Cancel(j)
    BY <1>5 DEF Drops, SameCounts, RetryAttempt, Lifecycle!Cancel, Lifecycle!Pending,
                Claimable, JobRow
  <2> QED
    BY <2>1
<1>6. CASE Starts(j)
  <2>1. Lifecycle!Start(j)
    BY <1>1, <1>6 DEF Starts, SameCancel, RetryAttempt, RowInv, Claimable,
                      Lifecycle!Start, Lifecycle!Pending
  <2> QED
    BY <2>1
<1>7. CASE Closes(j)
  <2>1. PICK o \in JobAttemptOutcome : ClosesWith(j, o)
    BY <1>7 DEF Closes
  <2>2. CASE job'[j].resource_wait_count = job[j].resource_wait_count + 1
             /\ job'[j].state = "RETRY_WAIT"
    <3>1. Lifecycle!Yield(j)
      BY <1>1, <2>1, <2>2 DEF ClosesWith, SameCancel, RetryAttempt, Lifecycle!Yield
    <3> QED
      BY <3>1
  <2>3. CASE /\ job'[j].resource_wait_count = job[j].resource_wait_count
             /\ job'[j].state = "RETRY_WAIT" => RetryAttempt(job[j]) < MaxAttempts
    <3>1. Same
      BY <2>1, <2>3 DEF ClosesWith, RetryAttempt
    <3>2. CASE job'[j].state = "CANCELLED"
      <4>1. Lifecycle!Cancel(j)
        BY <2>1, <3>1, <3>2 DEF ClosesWith, SameCancel, JobRow, Lifecycle!Cancel
      <4> QED
        BY <4>1
    <3>3. CASE job'[j].state = "RETRY_WAIT"
      <4>1. Lifecycle!Retry(j)
        BY <2>1, <2>3, <3>1, <3>3 DEF ClosesWith, SameCancel, Lifecycle!Retry
      <4> QED
        BY <4>1
    <3>4. CASE job'[j].state \in {"COMPLETED", "FAILED"}
      <4>1. Lifecycle!Finish(j)
        BY <2>1, <3>1, <3>4 DEF ClosesWith, SameCancel, Lifecycle!Finish
      <4> QED
        BY <4>1
    <3> QED
      BY <2>1, <3>2, <3>3, <3>4 DEF ClosesWith, Terminal
  <2> QED
    BY <2>1, <2>2, <2>3 DEF ClosesWith
<1> QED
  BY <1>2, <1>3, <1>4, <1>5, <1>6, <1>7 DEF Moves

LEMMA RefinesInit == Init => Lifecycle!Init
<1> SUFFICES ASSUME Init PROVE Lifecycle!Init
  OBVIOUS
<1>1. \A j \in Jobs : /\ job[j].state = "ABSENT" /\ job[j].cancel_requested = FALSE
                      /\ RetryAttempt(job[j]) = 0
  BY DEF Init, AbsentRow, RetryAttempt
<1> QED
  BY <1>1 DEF Lifecycle!Init

LEMMA RefinesStep ==
    IInv /\ IInv' /\ [Next]_vars => [Lifecycle!Next]_(Lifecycle!vars)
<1> SUFFICES ASSUME IInv, IInv', [Next]_vars PROVE [Lifecycle!Next]_(Lifecycle!vars)
  OBVIOUS
<1>1. \A j \in Jobs : job'[j] \in JobRow
  BY DEF IInv, TypeOK
<1>2. \A j \in Jobs : Lifecycle!JobStep(j) \/ Lifecycle!Stays(j)
  BY <1>1, StepMoves, JobRefines
<1>3. CASE \E j \in Jobs : Lifecycle!JobStep(j)
  <2>1. \A j \in Jobs : /\ job'[j].state \in Lifecycle!States
                        /\ job'[j].cancel_requested \in BOOLEAN
                        /\ RetryAttempt(job'[j]) \in Nat
    <3>1. \A j \in Jobs : job'[j].resource_wait_count <= job'[j].attempt_count
      BY DEF IInv, RetryBudget
    <3> QED
      BY <1>1, <3>1 DEF JobRow, JobState, Claimable, Terminal, RetryAttempt,
                        Lifecycle!States, Lifecycle!Pending, Lifecycle!Terminal
  <2> QED
    BY <1>2, <1>3, <2>1 DEF Lifecycle!Next
<1>4. CASE \A j \in Jobs : Lifecycle!Stays(j)
  BY <1>4 DEF Lifecycle!Stays, Lifecycle!Keeps, Lifecycle!vars
<1> QED
  BY <1>2, <1>3, <1>4

\* The queue, with its leases, heartbeats, crashes and lost workers, does to a
\* job only what JobLifecycle allows.
THEOREM Refinement == Spec => ImplementsLifecycle
BY RefinesInit, RefinesStep, Invariant, PTL DEF Spec, ImplementsLifecycle, Lifecycle!Spec
=============================================================================
