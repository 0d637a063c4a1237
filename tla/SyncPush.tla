------------------------------ MODULE SyncPush ------------------------------
(***************************************************************************)
(* Push of one device's offline journal: the rows of offline_journal_event *)
(* and the device checkpoint in Room, the sync runs that lease, send and   *)
(* settle them (SyncCoordinator; several workers start one), the requests  *)
(* under way, and the service's inbox with its own checkpoint.             *)
(*                                                                         *)
(* Every Room transaction and every event of a push request is one step;   *)
(* between them other runs, other requests, a lost answer or the end of    *)
(* the process may come.  The service goes on with a request whose sender  *)
(* has given up, so an older request can be served after a newer one.      *)
(*                                                                         *)
(* An event is its device sequence: event id, idempotency key and hash are *)
(* fixed with it.  A run stands for the lease token it draws; it is used   *)
(* again once no row and no request carries it.  Deadlines are flags: a    *)
(* row is due or not, a lease has run out or not.                          *)
(*                                                                         *)
(* A definition introduced by "Mutant:" is its successor with one bug put  *)
(* in; the mutation runs use it in its place and must find a violation.    *)
(***************************************************************************)
EXTENDS Naturals, Sequences, FiniteSets

CONSTANTS
    MaxEvents,           \* bound: events the device records
    Runs,                \* bound: lease tokens in use at once
    NoRun,
    BatchLimit,          \* PUSH_BATCH_LIMIT
    MaxAttempts,         \* MAX_ATTEMPTS
    SafetyWindow,        \* COMPACTION_SAFETY_WINDOW
    MaxFaults            \* bound: attempts that end without a result

ASSUME PushAssumption ==
    /\ MaxEvents \in Nat /\ BatchLimit \in Nat \ {0}
    /\ MaxAttempts \in Nat \ {0} /\ SafetyWindow \in Nat /\ MaxFaults \in Nat
    /\ NoRun \notin Runs

VARIABLES
    journal,             \* offline_journal_event, by device sequence
    deviceAcked,         \* sync_cursor.last_acked_device_sequence
    run,                 \* the sync runs of the device
    request,             \* the push request each run sent last
    inbox,               \* device_event_inbox: the terminal outcome, by sequence
    checkpoint,          \* device_sync_cursor.last_acked_device_sequence
    feed,                \* sync_event: the intents applied, in commit order
    faults               \* attempts that ended without a result so far

device == <<journal, deviceAcked, run, faults>>
service == <<inbox, checkpoint, feed>>
vars == <<journal, deviceAcked, run, faults, request, inbox, checkpoint, feed>>

Events == 1..MaxEvents
Outcomes == {"APPLIED", "CONFLICT", "REJECTED"}
Final == {"ACKED", "CONFLICT", "DEAD_LETTER"}

Row == [state : {"NONE", "PENDING", "SENDING", "DELETED"} \cup Final,
        attempts : 0..MaxAttempts,     \* attempt_count, saturating
        due : BOOLEAN,                 \* next_attempt_at_ms is past or null
        token : Runs \cup {NoRun},     \* lease_token
        expired : BOOLEAN]             \* lease_expires_at_ms is past

RunState ==
    [at : {"idle", "recovered", "selected", "sending", "pulling", "paging", "compacting",
           "deleting"},
     batch : SUBSET Events,            \* candidates, then the rows it leased
     seen : [Events -> 0..MaxAttempts],\* attempt_count when they were read
     acked : 0..MaxEvents]             \* the checkpoint its cursor copy holds

Request ==
    [state : {"closed", "open", "answered", "failed"},
     todo : SUBSET Events,
     acks : [Events -> Outcomes \cup {"NONE", "GAP"}]]

AbsentRow == [state |-> "NONE", attempts |-> 0, due |-> TRUE, token |-> NoRun, expired |-> FALSE]
IdleRun == [at |-> "idle", batch |-> {}, seen |-> [e \in Events |-> 0], acked |-> 0]
NoRequest == [state |-> "closed", todo |-> {}, acks |-> [e \in Events |-> "NONE"]]

Init ==
    /\ journal = [e \in Events |-> AbsentRow]
    /\ deviceAcked = 0
    /\ run = [r \in Runs |-> IdleRun]
    /\ request = [r \in Runs |-> NoRequest]
    /\ inbox = [e \in Events |-> "NONE"]
    /\ checkpoint = 0
    /\ feed = <<>>
    /\ faults = 0

TypeOK ==
    /\ journal \in [Events -> Row]
    /\ deviceAcked \in 0..MaxEvents
    /\ run \in [Runs -> RunState]
    /\ request \in [Runs -> Request]
    /\ inbox \in [Events -> Outcomes \cup {"NONE"}]
    /\ checkpoint \in 0..MaxEvents
    /\ feed \in Seq(Events)
    /\ faults \in 0..MaxFaults
-----------------------------------------------------------------------------
(* The device records an intent: next sequence, row and domain change in    *)
(* one transaction.                                                         *)

Record(e) ==
    /\ journal[e].state = "NONE"
    /\ \A d \in 1..(e - 1) : journal[d].state # "NONE"
    /\ journal' = [journal EXCEPT ![e].state = "PENDING"]
    /\ UNCHANGED <<deviceAcked, run, faults, request, service>>

-----------------------------------------------------------------------------
(* A sync run: recover, select, lease, send.                                *)

Holds(r, e) == journal[e].state = "SENDING" /\ journal[e].token = r

\* The token is unused: its request has ended and the rows that still carry it
\* are about to be recovered.
Fresh(r) ==
    /\ run[r].at = "idle"
    /\ request[r].state = "closed"
    /\ \A e \in Events : Holds(r, e) => journal[e].expired

Unleased(row) == [row EXCEPT !.state = "PENDING", !.token = NoRun, !.expired = FALSE]

RecoverExpiredLeases(r) ==
    /\ Fresh(r)
    /\ journal' = [e \in Events |->
          IF journal[e].state = "SENDING" /\ journal[e].expired
          THEN Unleased(journal[e]) ELSE journal[e]]
    /\ run' = [run EXCEPT ![r].at = "recovered"]
    /\ UNCHANGED <<deviceAcked, faults, request, service>>

Earliest(S, n) == {e \in S : Cardinality({d \in S : d < e}) < n}

\* Mutant: a row whose attempts are used up is not selected any more.
CandidatesWithBudget ==
    Earliest({e \in Events : /\ journal[e].state = "PENDING"
                             /\ journal[e].due
                             /\ journal[e].attempts < MaxAttempts}, BatchLimit)

Candidates == Earliest({e \in Events : journal[e].state = "PENDING" /\ journal[e].due}, BatchLimit)

\* An empty selection ends the push: the run goes on to pull.
NextPending(r) ==
    /\ run[r].at = "recovered"
    /\ run' = [run EXCEPT ![r] =
          IF Candidates = {} THEN [IdleRun EXCEPT !.at = "pulling"]
          ELSE [IdleRun EXCEPT !.at = "selected", !.batch = Candidates,
                  !.seen = [e \in Events |->
                     IF e \in Candidates THEN journal[e].attempts ELSE 0]]]
    /\ UNCHANGED <<journal, deviceAcked, faults, request, service>>

\* takeWhile: up to the first candidate that is not PENDING any more.
Leasable(batch) ==
    {e \in batch : \A d \in batch : d <= e => journal[d].state = "PENDING"}

Another(attempts) == IF attempts < MaxAttempts THEN attempts + 1 ELSE attempts

Leased(row, r) ==
    [row EXCEPT !.state = "SENDING", !.token = r, !.expired = FALSE,
                !.attempts = Another(row.attempts)]

Lease(r) ==
    /\ run[r].at = "selected"
    /\ LET leased == Leasable(run[r].batch) IN
         IF leased = {}
         THEN /\ run' = [run EXCEPT ![r] = [IdleRun EXCEPT !.at = "pulling"]]
              /\ UNCHANGED <<journal, request>>
         ELSE /\ run' = [run EXCEPT ![r].at = "sending", ![r].batch = leased]
              /\ journal' = [e \in Events |->
                    IF e \in leased THEN Leased(journal[e], r) ELSE journal[e]]
              /\ request' = [request EXCEPT ![r] =
                    [NoRequest EXCEPT !.state = "open", !.todo = leased]]
    /\ UNCHANGED <<deviceAcked, faults, service>>

-----------------------------------------------------------------------------
(* The service: one transaction per event, under the device's cursor lock.  *)

First(S) == CHOOSE e \in S : \A d \in S : e <= d
Contiguous(S) == \A d, e \in S : d..e \subseteq S

\* The answer waits for the run, unless the run has given up meanwhile.
Answered(r, rest, acks, state) ==
    request' = [request EXCEPT ![r] =
       IF rest # {} THEN [state |-> "open", todo |-> rest, acks |-> acks]
       ELSE IF run[r].at # "sending" THEN NoRequest
       ELSE [state |-> state, todo |-> {}, acks |-> acks]]

Ack(r, e, a) ==
    Answered(r, request[r].todo \ {e}, [request[r].acks EXCEPT ![e] = a], "answered")

Served(r, e) ==
    /\ request[r].state = "open"
    /\ Contiguous(request[r].todo)
    /\ e = First(request[r].todo)

\* The event is in the inbox: its stored acknowledgement is replayed.
PushDuplicate(r) ==
    \E e \in request[r].todo :
       /\ Served(r, e)
       /\ inbox[e] # "NONE"
       /\ Ack(r, e, inbox[e])
       /\ UNCHANGED <<device, service>>

\* Not the next sequence: DEVICE_SEQUENCE_GAP, to be retried.
PushGap(r) ==
    \E e \in request[r].todo :
       /\ Served(r, e)
       /\ inbox[e] = "NONE"
       /\ e # checkpoint + 1
       /\ Ack(r, e, "GAP")
       /\ UNCHANGED <<device, service>>

\* The next sequence: applied or refused for good, the checkpoint advances.
PushNew(r) ==
    \E e \in request[r].todo, o \in Outcomes :
       /\ Served(r, e)
       /\ inbox[e] = "NONE"
       /\ e = checkpoint + 1
       /\ inbox' = [inbox EXCEPT ![e] = o]
       /\ feed' = IF o = "APPLIED" THEN Append(feed, e) ELSE feed
       /\ checkpoint' = e
       /\ Ack(r, e, o)
       /\ UNCHANGED device

\* BATCH_SEQUENCE_NOT_ASCENDING, an error or a crash between two events, or
\* the request never arrives.
RequestFails(r) ==
    /\ request[r].state = "open"
    /\ Answered(r, {}, [e \in Events |-> "NONE"], "failed")
    /\ UNCHANGED <<device, service>>

Serve(r) == PushDuplicate(r) \/ PushGap(r) \/ PushNew(r) \/ RequestFails(r)
-----------------------------------------------------------------------------
(* The run settles its rows.  Only rows that still carry its token change.  *)

Closed(r) ==
    request' = [request EXCEPT ![r] = IF @.state = "open" THEN @ ELSE NoRequest]

Finished(row, state, due) ==
    [row EXCEPT !.state = state, !.due = due, !.token = NoRun, !.expired = FALSE]

\* SyncAttemptPolicy.afterRetry, on the attempts the run read before its lease.
Retried(row, seen) ==
    IF seen + 1 >= MaxAttempts THEN Finished(row, "DEAD_LETTER", TRUE)
    ELSE Finished(row, "PENDING", FALSE)

\* Mutant: the outcome is stored as the state.
SettledVerbatim(row, ack, seen) ==
    IF ack \in Outcomes THEN Finished(row, ack, TRUE) ELSE Retried(row, seen)

Settled(row, ack, seen) ==
    CASE ack = "APPLIED" -> Finished(row, "ACKED", TRUE)
      [] ack = "CONFLICT" -> Finished(row, "CONFLICT", TRUE)
      [] ack = "REJECTED" -> Finished(row, "DEAD_LETTER", TRUE)
      [] OTHER -> Retried(row, seen)

\* Mutant: the checkpoint follows the last acknowledged row.
AdvancesBlindly(r, e) ==
    /\ e \in run[r].batch
    /\ request[r].acks[e] = "APPLIED"
    /\ deviceAcked < e

\* advanceAck, after every row up to e has been settled in this transaction.
Advances(r, e) ==
    /\ e \in run[r].batch
    /\ request[r].acks[e] = "APPLIED"
    /\ deviceAcked < e
    /\ \A d \in 1..e : journal'[d].state \in Final \cup {"DELETED"}

Highest(S) == CHOOSE e \in S : \A d \in S : d <= e

\* ackPreflight may refuse an APPLIED answer that does not fit the local row (it
\* is bound to another server id): the event is retried, as after a gap.
\* A full batch is followed by another push (drawing a new token), at most
\* MAX_PUSH_DRAIN_BATCHES times; then the run pulls.
ApplyAnswer(r) ==
    /\ run[r].at = "sending"
    /\ request[r].state = "answered"
    /\ \E refused \in SUBSET {e \in run[r].batch : request[r].acks[e] = "APPLIED"} :
         /\ journal' = [e \in Events |->
               IF e \in run[r].batch /\ Holds(r, e)
               THEN Settled(journal[e], IF e \in refused THEN "GAP" ELSE request[r].acks[e],
                            run[r].seen[e])
               ELSE journal[e]]
         /\ deviceAcked' = Highest({deviceAcked} \cup {e \in Events \ refused : Advances(r, e)})
    /\ \E next \in {"pulling"} \cup
             (IF Cardinality(run[r].batch) = BatchLimit THEN {"idle"} ELSE {}) :
          run' = [run EXCEPT ![r] = [IdleRun EXCEPT !.at = next]]
    /\ Closed(r)
    /\ UNCHANGED <<faults, service>>

\* A failure, a timeout or a lost answer: every row it holds is retried later.
NetworkUnavailable(r) ==
    /\ run[r].at = "sending"
    /\ journal' = [e \in Events |->
          IF e \in run[r].batch /\ Holds(r, e)
          THEN Retried(journal[e], run[r].seen[e]) ELSE journal[e]]
    /\ run' = [run EXCEPT ![r] = IdleRun]
    /\ Closed(r)
    /\ UNCHANGED <<deviceAcked, faults, service>>

Fewer(attempts) == IF attempts > 0 THEN attempts - 1 ELSE 0

\* releaseForSession and releaseCancelledLease: the attempt does not count.
Release(r) ==
    /\ run[r].at = "sending"
    /\ faults < MaxFaults
    /\ faults' = faults + 1
    /\ journal' = [e \in Events |->
          IF Holds(r, e)
          THEN [Finished(journal[e], "PENDING", TRUE) EXCEPT !.attempts = Fewer(@)]
          ELSE journal[e]]
    /\ run' = [run EXCEPT ![r] = IdleRun]
    /\ Closed(r)
    /\ UNCHANGED <<deviceAcked, service>>

\* The process dies, or the run is cancelled and cannot release in time: its
\* rows stay SENDING.
Dies(r) ==
    /\ run[r].at # "idle"
    /\ faults < MaxFaults
    /\ faults' = faults + 1
    /\ run' = [run EXCEPT ![r] = IdleRun]
    /\ Closed(r)
    /\ UNCHANGED <<journal, deviceAcked, service>>
-----------------------------------------------------------------------------
(* The rest of a run: pull a page and write the cursor back, compact.       *)

RequireCursor(r) ==
    /\ run[r].at = "pulling"
    /\ run' = [run EXCEPT ![r].at = "paging", ![r].acked = deviceAcked]
    /\ UNCHANGED <<journal, deviceAcked, faults, request, service>>

\* The whole cursor row is written, with the checkpoint read before the call.
ApplyPage(r) ==
    /\ run[r].at = "paging"
    /\ deviceAcked' = run[r].acked
    /\ run' = [run EXCEPT ![r] = [IdleRun EXCEPT !.at = "compacting"]]
    /\ UNCHANGED <<journal, faults, request, service>>

\* No page, or an invalid cursor: the latter is written back as well.
PullFails(r) ==
    /\ run[r].at = "paging"
    /\ deviceAcked' \in {deviceAcked, run[r].acked}
    /\ run' = [run EXCEPT ![r] = IdleRun]
    /\ UNCHANGED <<journal, faults, request, service>>

\* compact reads the cursor before its transaction: another run may move it on, or
\* write it back, in between.
CompactThrough(r) ==
    /\ run[r].at = "compacting"
    /\ run' = [run EXCEPT ![r].at = "deleting", ![r].acked = deviceAcked]
    /\ UNCHANGED <<journal, deviceAcked, faults, request, service>>

\* Mutant: every decided row is deleted, whatever the checkpoint.
CompactDecided(r) ==
    /\ run[r].at = "deleting"
    /\ journal' = [e \in Events |->
          IF journal[e].state \in {"ACKED", "DEAD_LETTER"}
          THEN [AbsentRow EXCEPT !.state = "DELETED"] ELSE journal[e]]
    /\ run' = [run EXCEPT ![r] = IdleRun]
    /\ UNCHANGED <<deviceAcked, faults, request, service>>

Compact(r) ==
    /\ run[r].at = "deleting"
    /\ journal' = [e \in Events |->
          IF journal[e].state \in {"ACKED", "DEAD_LETTER"} /\ e + SafetyWindow <= run[r].acked
          THEN [AbsentRow EXCEPT !.state = "DELETED"] ELSE journal[e]]
    /\ run' = [run EXCEPT ![r] = IdleRun]
    /\ UNCHANGED <<deviceAcked, faults, request, service>>
-----------------------------------------------------------------------------
(* Time.                                                                    *)

BackoffElapses(e) ==
    /\ ~journal[e].due
    /\ journal' = [journal EXCEPT ![e].due = TRUE]
    /\ UNCHANGED <<deviceAcked, run, faults, request, service>>

\* A lease outlasts a call; that it runs out under a run that still waits is
\* a fault (the phone slept).
LeaseElapses(r) ==
    /\ \E e \in Events : Holds(r, e) /\ ~journal[e].expired
    /\ IF run[r].at = "sending"
       THEN faults < MaxFaults /\ faults' = faults + 1
       ELSE UNCHANGED faults
    /\ journal' = [e \in Events |->
          IF Holds(r, e) THEN [journal[e] EXCEPT !.expired = TRUE] ELSE journal[e]]
    /\ UNCHANGED <<deviceAcked, run, request, service>>
-----------------------------------------------------------------------------
RunStep(r) ==
    \/ RecoverExpiredLeases(r) \/ NextPending(r) \/ Lease(r)
    \/ ApplyAnswer(r) \/ NetworkUnavailable(r)
    \/ RequireCursor(r) \/ ApplyPage(r) \/ PullFails(r)
    \/ CompactThrough(r) \/ Compact(r)

Next ==
    \/ \E e \in Events : Record(e) \/ BackoffElapses(e)
    \/ \E r \in Runs : RunStep(r) \/ Serve(r) \/ Release(r) \/ Dies(r) \/ LeaseElapses(r)

Spec == Init /\ [][Next]_vars

\* Workers are scheduled again until a run completes; calls time out; clocks run.
Fairness ==
    /\ \A r \in Runs : WF_vars(RunStep(r)) /\ WF_vars(Serve(r)) /\ WF_vars(LeaseElapses(r))
    /\ \A e \in Events : WF_vars(BackoffElapses(e))

FairSpec == Spec /\ Fairness
-----------------------------------------------------------------------------
(* Properties.                                                              *)

\* A row says ACKED or CONFLICT only when the service recorded that outcome
\* (pushLeased, also after a lost answer, a replay or an expired lease).
AnswersAgree ==
    \A e \in Events :
       /\ journal[e].state = "ACKED" => inbox[e] = "APPLIED"
       /\ journal[e].state = "CONFLICT" => inbox[e] = "CONFLICT"

\* Every applied intent is published once, in the order in which the device
\* recorded it, whatever is sent again or served late (_push_one).
AppliedOnceInOrder ==
    /\ \A i, j \in 1..Len(feed) : i < j => feed[i] < feed[j]
    /\ \A e \in Events : inbox[e] = "APPLIED" <=> \E i \in 1..Len(feed) : feed[i] = e

\* The device's checkpoint never passes the service's nor a row that is still
\* to be sent, although runs write it back from old copies (advanceAck,
\* applyPage): compaction, which trusts it, deletes no unanswered intent.
DeviceBehindService ==
    /\ deviceAcked <= checkpoint
    /\ \A e \in 1..deviceAcked : journal[e].state \in Final \cup {"DELETED"}

\* The two ends of the push agree: what the device holds for an answer is one,
\* what was applied was applied once and in order, and the device's checkpoint
\* is behind the service's.
EndsAgree == AnswersAgree /\ AppliedOnceInOrder /\ DeviceBehindService

Contract == INSTANCE DeliveryContract WITH
    recorded <- Cardinality({e \in Events : journal[e].state # "NONE"}),
    classified <- inbox,
    told <- [e \in Events |->
       CASE journal[e].state = "ACKED" -> "APPLIED"
         [] journal[e].state = "CONFLICT" -> "CONFLICT"
         [] journal[e].state = "DEAD_LETTER" -> "GIVEN_UP"
         [] journal[e].state = "DELETED" -> "FORGOTTEN"
         [] OTHER -> "NONE"]

\* The push implements the delivery contract: in particular a decided row is
\* never sent again nor decided otherwise by a late run, and only answered
\* intents are deleted.
KeepsContract == Contract!Spec

\* Every recorded intent is decided, for good: retries, gaps and lost answers come
\* to an end (runForWorker with its retry policy).
Drains ==
    <>[](\A e \in Events : journal[e].state \notin {"PENDING", "SENDING"})
=============================================================================
