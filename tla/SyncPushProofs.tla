--------------------------- MODULE SyncPushProofs ---------------------------
(***************************************************************************)
(* Proofs about the push of the offline journal, for any number of events, *)
(* runs, attempts and faults and any batch limit: the two ends never       *)
(* disagree, and the push implements the delivery contract.                *)
(***************************************************************************)
EXTENDS SyncPush, FiniteSetTheorems, SequenceTheorems, WellFoundedInduction, TLAPS

(***************************************************************************)
(* Least and greatest elements, and prefixes of the events.                *)
(***************************************************************************)
LEMMA LeastExists ==
    ASSUME NEW S \in SUBSET Nat, S # {}
    PROVE  \E m \in S : \A n \in S : m <= n
<1> DEFINE R == OpToRel(<, Nat)
<1>1. IsWellFoundedOn(R, Nat)
  BY NatLessThanWellFounded
<1>2. \A m, n \in Nat : n < m => <<n, m>> \in R
  BY DEF OpToRel
<1> HIDE DEF R
<1>3. PICK m \in S : \A n \in S : ~ (<<n, m>> \in R)
  BY <1>1, WFMin
<1>4. \A n \in S : ~(n < m)
  BY <1>2, <1>3
<1> QED BY <1>4

\* What Highest returns of the sequences it is applied to.
LEMMA HighestIsGreatest ==
    ASSUME NEW S \in SUBSET (0..MaxEvents), S # {}
    PROVE  Highest(S) \in S /\ \A d \in S : d <= Highest(S)
<1>1. MaxEvents \in Nat
  BY PushAssumption
<1> DEFINE Gaps == {MaxEvents - n : n \in S}
<1>2. Gaps \in SUBSET Nat /\ Gaps # {}
  <2>1. \A n \in S : MaxEvents - n \in Nat
    BY <1>1
  <2>2. PICK n \in S : TRUE
    OBVIOUS
  <2>3. MaxEvents - n \in Gaps
    BY <2>2
  <2> QED BY <2>1, <2>3
<1>3. PICK g \in Gaps : \A n \in Gaps : g <= n
  <2> HIDE DEF Gaps
  <2> QED BY <1>2, LeastExists
<1>4. PICK m \in S : g = MaxEvents - m
  BY <1>3
<1>5. \A n \in S : n <= m
  <2> SUFFICES ASSUME NEW n \in S PROVE n <= m
    OBVIOUS
  <2>1. MaxEvents - n \in Gaps
    OBVIOUS
  <2>2. MaxEvents - m <= MaxEvents - n
    BY <1>3, <1>4, <2>1
  <2> QED BY <1>1, <2>2
<1> QED BY <1>5 DEF Highest

\* A set of events that holds every earlier event is 1..n.
LEMMA PrefixOfEvents ==
    ASSUME NEW S \in SUBSET Events, \A e \in S : \A d \in 1..(e - 1) : d \in S
    PROVE  /\ Cardinality(S) \in 0..MaxEvents
           /\ S = 1..Cardinality(S)
<1>1. MaxEvents \in Nat
  BY PushAssumption
<1> DEFINE Later == {n \in Nat : n > 0 /\ n \notin S}
<1>2. MaxEvents + 1 \in Later
  BY <1>1 DEF Events
<1>3. PICK m \in Later : \A n \in Later : m <= n
  <2>1. Later \in SUBSET Nat /\ Later # {}
    BY <1>2
  <2> HIDE DEF Later
  <2> QED BY <2>1, LeastExists
<1>4. S = 1..(m - 1)
  <2>1. ASSUME NEW e \in S PROVE e < m
    <3>1. e \in Nat /\ (m < e => m \in 1..(e - 1)) /\ m # e
      BY <1>1, <1>3 DEF Events
    <3> QED BY <1>3, <3>1
  <2>2. \A n \in 1..(m - 1) : n \in S
    BY <1>3
  <2>3. \A e \in S : e \in Nat /\ e > 0
    BY <1>1 DEF Events
  <2> HIDE DEF Later
  <2>4. m \in Nat
    BY <1>3 DEF Later
  <2>5. \A e \in S : e \in 1..(m - 1)
    BY <2>1, <2>3, <2>4
  <2> QED BY <2>2, <2>5
<1>5. m \in Nat /\ m > 0 /\ m - 1 <= MaxEvents
  BY <1>1, <1>2, <1>3
<1>6. Cardinality(S) = m - 1
  BY <1>4, <1>5, FS_Interval
<1> QED BY <1>1, <1>4, <1>5, <1>6

(***************************************************************************)
(* Rows.                                                                   *)
(***************************************************************************)
RowState == {"NONE", "PENDING", "SENDING", "DELETED"} \cup Final
Decided == Final \cup {"DELETED"}

\* What a row in state s tells the device of the service's answer.
Told(s) ==
    CASE s = "ACKED" -> "APPLIED"
      [] s = "CONFLICT" -> "CONFLICT"
      [] s = "DEAD_LETTER" -> "GIVEN_UP"
      [] s = "DELETED" -> "FORGOTTEN"
      [] OTHER -> "NONE"

LEMMA ToldStates ==
    /\ Told("ACKED") = "APPLIED" /\ Told("CONFLICT") = "CONFLICT"
    /\ Told("DEAD_LETTER") = "GIVEN_UP" /\ Told("DELETED") = "FORGOTTEN"
    /\ Told("NONE") = "NONE" /\ Told("PENDING") = "NONE" /\ Told("SENDING") = "NONE"
    /\ \A s \in RowState :
         /\ s \in Decided <=> Told(s) # "NONE"
         /\ Told(s) \in {"NONE", "APPLIED", "CONFLICT", "GIVEN_UP", "FORGOTTEN"}
BY SMT DEF Told, RowState, Decided, Final

LEMMA FinishedRow ==
    ASSUME NEW row \in Row, NEW s \in RowState, NEW due \in BOOLEAN
    PROVE  Finished(row, s, due) \in Row /\ Finished(row, s, due).state = s
<1>1. \A token \in Runs \cup {NoRun}, expired \in BOOLEAN :
        [row EXCEPT !.state = s, !.due = due, !.token = token, !.expired = expired] \in Row
  BY DEF Row, RowState
<1>2. Finished(row, s, due) \in Row
  BY <1>1 DEF Finished
<1>3. Finished(row, s, due).state = s
  BY SMT DEF Finished, Row
<1> QED BY <1>2, <1>3

LEMMA RetriedRow ==
    ASSUME NEW row \in Row, NEW seen
    PROVE  /\ Retried(row, seen) \in Row
           /\ Retried(row, seen).state \in {"PENDING", "DEAD_LETTER"}
<1>1. "PENDING" \in RowState /\ "DEAD_LETTER" \in RowState
  BY DEF RowState, Final
<1> QED BY <1>1, FinishedRow DEF Retried

\* The state a settled row takes follows the answer; only retries go back.
LEMMA SettledRow ==
    ASSUME NEW row \in Row, NEW seen, NEW ack \in Outcomes \cup {"NONE", "GAP"}
    PROVE  /\ Settled(row, ack, seen) \in Row
           /\ \/ Settled(row, ack, seen).state \in {"PENDING", "DEAD_LETTER"}
              \/ Settled(row, ack, seen).state = "ACKED" /\ ack = "APPLIED"
              \/ Settled(row, ack, seen).state = "CONFLICT" /\ ack = "CONFLICT"
<1>1. "ACKED" \in RowState /\ "CONFLICT" \in RowState /\ "DEAD_LETTER" \in RowState
  BY DEF RowState, Final
<1>2. CASE ack = "APPLIED"
  <2>1. Settled(row, ack, seen) = Finished(row, "ACKED", TRUE)
    BY <1>2 DEF Settled
  <2>2. Finished(row, "ACKED", TRUE) \in Row /\ Finished(row, "ACKED", TRUE).state = "ACKED"
    BY <1>1, FinishedRow
  <2> QED BY <1>2, <2>1, <2>2
<1>3. CASE ack = "CONFLICT"
  <2>1. Settled(row, ack, seen) = Finished(row, "CONFLICT", TRUE)
    BY <1>3 DEF Settled
  <2>2. Finished(row, "CONFLICT", TRUE) \in Row /\ Finished(row, "CONFLICT", TRUE).state = "CONFLICT"
    BY <1>1, FinishedRow
  <2> QED BY <1>3, <2>1, <2>2
<1>4. CASE ack = "REJECTED"
  <2>1. Settled(row, ack, seen) = Finished(row, "DEAD_LETTER", TRUE)
    BY <1>4 DEF Settled
  <2>2. Finished(row, "DEAD_LETTER", TRUE) \in Row /\ Finished(row, "DEAD_LETTER", TRUE).state = "DEAD_LETTER"
    BY <1>1, FinishedRow
  <2> QED BY <1>4, <2>1, <2>2
<1>5. CASE ack \in {"NONE", "GAP"}
  <2>1. Settled(row, ack, seen) = Retried(row, seen)
    BY <1>5 DEF Settled
  <2> QED BY <2>1, RetriedRow
<1> QED BY <1>2, <1>3, <1>4, <1>5 DEF Outcomes

LEMMA LeasedRow ==
    ASSUME NEW row \in Row, NEW r \in Runs
    PROVE  /\ Leased(row, r) \in Row /\ Leased(row, r).state = "SENDING"
           /\ Unleased(row) \in Row /\ Unleased(row).state = "PENDING"
<1>1. MaxAttempts \in Nat /\ row.attempts \in 0..MaxAttempts
  BY PushAssumption DEF Row
<1>2. Another(row.attempts) \in 0..MaxAttempts
  BY <1>1 DEF Another
<1>3. Leased(row, r) \in Row
  <2>1. \A st \in RowState, token \in Runs \cup {NoRun}, expired \in BOOLEAN, n \in 0..MaxAttempts :
          [row EXCEPT !.state = st, !.token = token, !.expired = expired, !.attempts = n] \in Row
    BY DEF Row, RowState
  <2>2. "SENDING" \in RowState
    BY DEF RowState
  <2> QED BY <1>2, <2>1, <2>2 DEF Leased
<1>4. Leased(row, r).state = "SENDING"
  BY SMT DEF Leased, Row
<1>5. Unleased(row) \in Row
  BY DEF Unleased, Row
<1>6. Unleased(row).state = "PENDING"
  BY SMT DEF Unleased, Row
<1> QED BY <1>3, <1>4, <1>5, <1>6

Freed(row) == [Finished(row, "PENDING", TRUE) EXCEPT !.attempts = Fewer(@)]

LEMMA FreedRow ==
    ASSUME NEW row \in Row
    PROVE  Freed(row) \in Row /\ Freed(row).state = "PENDING"
<1> DEFINE done == Finished(row, "PENDING", TRUE)
<1>1. done \in Row /\ done.state = "PENDING"
  BY FinishedRow DEF RowState
<1> HIDE DEF done
<1>2. Fewer(done.attempts) \in 0..MaxAttempts
  <2>1. done.attempts \in 0..MaxAttempts /\ MaxAttempts \in Nat
    BY <1>1, PushAssumption DEF Row
  <2> QED BY <2>1 DEF Fewer
<1>3. \A n \in 0..MaxAttempts : [done EXCEPT !.attempts = n] \in Row
  BY <1>1 DEF Row
<1>4. \A n : [done EXCEPT !.attempts = n].state = done.state
  BY <1>1, SMT DEF Row
<1>5. Freed(row) = [done EXCEPT !.attempts = Fewer(done.attempts)]
  BY DEF Freed, done
<1> QED BY <1>1, <1>2, <1>3, <1>4, <1>5

(***************************************************************************)
(* The invariant.                                                          *)
(***************************************************************************)
Recorded == {e \in Events : journal[e].state # "NONE"}

\* The events up to n are answered, and the device holds an answer to each.
Behind(n) == n <= checkpoint /\ \A e \in 1..n : journal[e].state \in Decided

\* A run works on recorded events, and the checkpoint it copied is no further
\* than the service's: it may be written back at any time.
RunOK(r) == run[r] \in RunState /\ run[r].batch \subseteq Recorded /\ Behind(run[r].acked)

\* A request carries recorded events, and its acknowledgements repeat the inbox.
RequestOK(r) ==
    /\ request[r] \in Request
    /\ request[r].todo \subseteq Recorded
    /\ \A e \in Events : request[r].acks[e] \in Outcomes => inbox[e] = request[r].acks[e]

IInv ==
    /\ TypeOK
    /\ \A e \in Recorded : \A d \in 1..(e - 1) : d \in Recorded
    /\ \A e \in Events : inbox[e] # "NONE" <=> e <= checkpoint
    /\ \A e \in Events : inbox[e] # "NONE" => e \in Recorded
    /\ \A r \in Runs : RunOK(r) /\ RequestOK(r)
    /\ Behind(deviceAcked)
    /\ AnswersAgree
    /\ AppliedOnceInOrder

(***************************************************************************)
(* A step of the device or of a request that leaves the inbox alone.       *)
(***************************************************************************)
RowKept(e) == /\ journal'[e] \in Row
              /\ journal'[e].state = "NONE" <=> journal[e].state = "NONE"
              /\ Told(journal'[e].state) = Told(journal[e].state)

RowLearns(e) == /\ journal'[e] \in Row
                /\ journal[e].state \notin {"NONE"} \cup Decided
                /\ journal'[e].state \in Decided
                /\ Told(journal'[e].state) \in Contract!Verdicts(e)

RowForgets(e) == /\ journal'[e] \in Row
                 /\ journal[e].state \in {"ACKED", "DEAD_LETTER"} /\ inbox[e] # "NONE"
                 /\ journal'[e].state = "DELETED"

RowsMove ==
    /\ journal' = [e \in Events |-> journal'[e]]
    /\ \/ \A e \in Events : RowKept(e) \/ RowLearns(e)
       \/ \A e \in Events : RowKept(e) \/ RowForgets(e)

DeviceStep ==
    /\ UNCHANGED service
    /\ RowsMove
    /\ run' = [r \in Runs |-> run'[r]] /\ request' = [r \in Runs |-> request'[r]]
    /\ \A r \in Runs : RunOK(r)' /\ RequestOK(r)'
    /\ deviceAcked' \in 0..MaxEvents /\ Behind(deviceAcked)'
    /\ faults' \in 0..MaxFaults

\* What a move leaves of the rows.
LEMMA MovedRows ==
    ASSUME IInv, RowsMove, NEW e \in Events
    PROVE  /\ journal[e] \in Row /\ journal'[e] \in Row
           /\ e \in Recorded' <=> e \in Recorded
           /\ journal[e].state \in Decided => journal'[e].state \in Decided
           /\ journal'[e].state = "ACKED" => inbox[e] = "APPLIED"
           /\ journal'[e].state = "CONFLICT" => inbox[e] = "CONFLICT"
<1>1. journal[e] \in Row /\ journal'[e] \in Row
  BY DEF IInv, TypeOK, RowsMove, RowKept, RowLearns, RowForgets
<1>2. journal[e].state \in RowState /\ journal'[e].state \in RowState
  BY <1>1 DEF Row, RowState
<1>3. /\ journal[e].state = "ACKED" => inbox[e] = "APPLIED"
      /\ journal[e].state = "CONFLICT" => inbox[e] = "CONFLICT"
  BY DEF IInv, AnswersAgree
<1>4. CASE RowKept(e)
  BY <1>1, <1>2, <1>3, <1>4, ToldStates DEF RowKept, Recorded, Decided, RowState, Final
<1>5. CASE RowLearns(e)
  BY <1>1, <1>2, <1>3, <1>5, ToldStates DEF RowLearns, Recorded, Decided, Final, Contract!Verdicts
<1>6. CASE RowForgets(e)
  BY <1>1, <1>2, <1>3, <1>6 DEF RowForgets, Recorded, Decided, Final
<1> QED BY <1>4, <1>5, <1>6 DEF RowsMove

LEMMA DeviceStepKeeps ==
    ASSUME IInv, DeviceStep
    PROVE  IInv'
<1>1. RowsMove /\ inbox' = inbox /\ checkpoint' = checkpoint /\ feed' = feed
  BY DEF DeviceStep, service
<1>2. Recorded' = Recorded
  BY <1>1, MovedRows DEF Recorded
<1>3. TypeOK'
  <2>1. journal' \in [Events -> Row]
    BY <1>1, MovedRows DEF RowsMove
  <2>2. run' \in [Runs -> RunState] /\ request' \in [Runs -> Request]
    BY DEF DeviceStep, RunOK, RequestOK
  <2> QED BY <1>1, <2>1, <2>2 DEF IInv, TypeOK, DeviceStep
<1>4. AnswersAgree'
  BY <1>1, MovedRows DEF AnswersAgree
<1>5. AppliedOnceInOrder'
  BY <1>1 DEF IInv, AppliedOnceInOrder
<1>6. \A r \in Runs : RunOK(r)' /\ RequestOK(r)'
  BY DEF DeviceStep
<1>7. Behind(deviceAcked)'
  BY DEF DeviceStep
<1> QED BY <1>1, <1>2, <1>3, <1>4, <1>5, <1>6, <1>7 DEF IInv

(***************************************************************************)
(* What every step leaves of the runs and the requests.                    *)
(***************************************************************************)
\* Nothing recorded, decided or answered is taken back.
Grows ==
    /\ Recorded \subseteq Recorded'
    /\ checkpoint <= checkpoint' /\ checkpoint' \in 0..MaxEvents
    /\ \A e \in Events : /\ journal[e].state \in Decided => journal'[e].state \in Decided
                         /\ inbox[e] # "NONE" => inbox'[e] = inbox[e]

LEMMA MoveGrows ==
    ASSUME IInv, RowsMove, UNCHANGED service PROVE Grows
BY MovedRows DEF Grows, Recorded, IInv, TypeOK, service

LEMMA BehindKept ==
    ASSUME IInv, Grows, NEW n \in 0..MaxEvents, Behind(n)
    PROVE  n <= checkpoint' /\ \A e \in 1..n : journal'[e].state \in Decided
<1>1. MaxEvents \in Nat /\ checkpoint \in Nat /\ checkpoint' \in Nat
  BY PushAssumption DEF IInv, TypeOK, Grows
<1>2. n <= checkpoint'
  BY <1>1 DEF Behind, Grows
<1>3. 1..n \subseteq Events
  BY <1>1 DEF Events
<1> QED BY <1>2, <1>3 DEF Behind, Grows

LEMMA ZeroIsBehind == ASSUME IInv PROVE 0 \in 0..MaxEvents /\ Behind(0)
<1>1. MaxEvents \in Nat /\ checkpoint \in Nat /\ 1..0 = {}
  BY PushAssumption DEF IInv, TypeOK
<1> QED BY <1>1 DEF Behind

\* One run moves, with a copy of a checkpoint that was behind.
LEMMA RunMoves ==
    ASSUME IInv, Grows, NEW r \in Runs, NEW w \in RunState,
           run' = [run EXCEPT ![r] = w],
           w.batch \subseteq Recorded, Behind(w.acked)
    PROVE  /\ run' = [x \in Runs |-> run'[x]]
           /\ \A x \in Runs : RunOK(x)'
<1>1. run' \in [Runs -> RunState] /\ run'[r] = w /\ \A x \in Runs \ {r} : run'[x] = run[x]
  BY DEF IInv, TypeOK
<1>2. ASSUME NEW x \in Runs
      PROVE  run'[x] \in RunState /\ run'[x].batch \subseteq Recorded /\ Behind(run'[x].acked)
  BY <1>1 DEF IInv, RunOK
<1>3. ASSUME NEW x \in Runs
      PROVE  /\ run'[x].acked <= checkpoint'
             /\ \A e \in 1..run'[x].acked : journal'[e].state \in Decided
  <2>1. run'[x].acked \in 0..MaxEvents
    BY <1>1 DEF RunState
  <2> QED BY <1>2, <2>1, BehindKept
<1> QED BY <1>1, <1>2, <1>3 DEF RunOK, Behind, Grows

\* A run that starts over, or goes on to the next phase.
LEMMA IdleRunMoves ==
    ASSUME IInv, Grows, NEW r \in Runs,
           NEW at \in {"idle", "pulling", "compacting"},
           run' = [run EXCEPT ![r] = [IdleRun EXCEPT !.at = at]]
    PROVE  /\ run' = [x \in Runs |-> run'[x]]
           /\ \A x \in Runs : RunOK(x)'
<1> DEFINE w == [IdleRun EXCEPT !.at = at]
<1>1. 0 \in 0..MaxAttempts /\ 0 \in 0..MaxEvents
  BY PushAssumption
<1>2. w \in RunState
  BY <1>1 DEF IdleRun, RunState
<1>3. w.batch = {} /\ w.acked = 0
  BY DEF IdleRun
<1> HIDE DEF w
<1>4. w.batch \subseteq Recorded /\ Behind(w.acked)
  BY <1>3, ZeroIsBehind
<1>5. run' = [run EXCEPT ![r] = w]
  BY DEF w
<1> QED BY <1>2, <1>4, <1>5, RunMoves

LEMMA RunsKept ==
    ASSUME IInv, Grows, run' = run
    PROVE  /\ run' = [x \in Runs |-> run'[x]]
           /\ \A x \in Runs : RunOK(x)'
<1>1. run = [x \in Runs |-> run[x]]
  BY DEF IInv, TypeOK
<1>2. ASSUME NEW x \in Runs
      PROVE  /\ run[x].acked <= checkpoint'
             /\ \A e \in 1..run[x].acked : journal'[e].state \in Decided
  <2>1. run[x].acked \in 0..MaxEvents /\ Behind(run[x].acked)
    BY DEF IInv, RunOK, RunState
  <2> QED BY <2>1, BehindKept
<1> QED BY <1>1, <1>2 DEF RunOK, Behind, Grows, IInv

\* One request moves; what it carries and says is true of the inbox.
LEMMA RequestMoves ==
    ASSUME IInv, Grows, NEW r \in Runs, NEW q \in Request,
           request' = [request EXCEPT ![r] = q], q.todo \subseteq Recorded,
           \A e \in Events : q.acks[e] \in Outcomes => inbox'[e] = q.acks[e]
    PROVE  /\ request' = [x \in Runs |-> request'[x]]
           /\ \A x \in Runs : RequestOK(x)'
<1>1. request' \in [Runs -> Request] /\ request'[r] = q
      /\ \A x \in Runs \ {r} : request'[x] = request[x]
  BY DEF IInv, TypeOK
<1>2. ASSUME NEW x \in Runs, x # r PROVE RequestOK(x)'
  <2>1. \A e \in Events : request[x].acks[e] \in Outcomes => inbox'[e] = request[x].acks[e]
    BY DEF IInv, RequestOK, Grows, Outcomes
  <2> QED BY <1>1, <1>2, <2>1 DEF IInv, RequestOK, Grows
<1>3. RequestOK(r)'
  BY <1>1 DEF RequestOK, Grows
<1> QED BY <1>1, <1>2, <1>3

LEMMA NoRequestType == NoRequest \in Request /\ NoRequest.todo = {} /\ \A e \in Events : NoRequest.acks[e] = "NONE"
BY DEF NoRequest, Request

LEMMA RequestsStay ==
    ASSUME IInv, Grows, request' = request
    PROVE  /\ request' = [x \in Runs |-> request'[x]]
           /\ \A x \in Runs : RequestOK(x)'
<1>1. request \in [Runs -> Request]
  BY DEF IInv, TypeOK
<1>2. \A x \in Runs, e \in Events :
        request[x].acks[e] \in Outcomes => inbox'[e] = request[x].acks[e]
  BY DEF IInv, RequestOK, Grows, Outcomes
<1> QED BY <1>1, <1>2 DEF IInv, RequestOK, Grows

LEMMA RequestsKept ==
    ASSUME IInv, Grows, request' = request \/ \E r \in Runs : Closed(r)
    PROVE  /\ request' = [x \in Runs |-> request'[x]]
           /\ \A x \in Runs : RequestOK(x)'
<1> SUFFICES ASSUME NEW r \in Runs, Closed(r)
             PROVE  request' = [x \in Runs |-> request'[x]] /\ \A x \in Runs : RequestOK(x)'
  BY RequestsStay
<1> DEFINE q == IF request[r].state = "open" THEN request[r] ELSE NoRequest
<1>1. request[r] \in Request /\ RequestOK(r)
  BY DEF IInv, TypeOK
<1>2. q \in Request /\ q.todo \subseteq Recorded
  BY <1>1, NoRequestType DEF RequestOK
<1>3. \A e \in Events : q.acks[e] \in Outcomes => inbox'[e] = q.acks[e]
  BY <1>1, NoRequestType DEF RequestOK, Outcomes, Grows
<1>4. request' = [request EXCEPT ![r] = q]
  BY DEF Closed, IInv, TypeOK
<1> HIDE DEF q
<1> QED BY <1>2, <1>3, <1>4, RequestMoves

LEMMA RowsStay == ASSUME IInv, journal' = journal PROVE RowsMove
BY DEF IInv, TypeOK, RowsMove, RowKept

LEMMA AckedKept ==
    ASSUME IInv, Grows, deviceAcked' = deviceAcked \/ \E r \in Runs : deviceAcked' = run[r].acked
    PROVE  deviceAcked' \in 0..MaxEvents /\ Behind(deviceAcked)'
<1>1. deviceAcked' \in 0..MaxEvents /\ Behind(deviceAcked')
  BY DEF IInv, TypeOK, RunOK, RunState
<1>2. deviceAcked' <= checkpoint' /\ \A e \in 1..deviceAcked' : journal'[e].state \in Decided
  BY <1>1, BehindKept
<1> QED BY <1>1, <1>2 DEF Behind

(***************************************************************************)
(* The steps of a run that leave the rows alone.                           *)
(***************************************************************************)
LEMMA CandidatesArePending ==
    \A e \in Candidates : e \in Recorded
BY DEF Candidates, Earliest, Recorded

LEMMA ScheduleSteps ==
    ASSUME IInv, NEW r \in Runs,
           NextPending(r) \/ RequireCursor(r) \/ CompactThrough(r) \/ ApplyPage(r)
           \/ PullFails(r) \/ Dies(r)
    PROVE  DeviceStep
<1>1. RowsMove /\ UNCHANGED service /\ journal' = journal
  <2>1. journal' = journal /\ UNCHANGED service
    BY DEF NextPending, RequireCursor, CompactThrough, ApplyPage, PullFails, Dies
  <2> QED BY <2>1, RowsStay
<1>2. Grows
  BY <1>1, MoveGrows
<1>3. run[r] \in RunState /\ RunOK(r) /\ deviceAcked \in 0..MaxEvents /\ Behind(deviceAcked)
  BY DEF IInv, TypeOK
<1>4. /\ run' = [x \in Runs |-> run'[x]]
      /\ \A x \in Runs : RunOK(x)'
  <2>1. CASE NextPending(r) /\ Candidates # {}
    <3> DEFINE counts == [e \in Events |-> IF e \in Candidates THEN journal[e].attempts ELSE 0]
               w == [IdleRun EXCEPT !.at = "selected", !.batch = Candidates, !.seen = counts]
    <3>1. MaxAttempts \in Nat /\ MaxEvents \in Nat
      BY PushAssumption
    <3>2. counts \in [Events -> 0..MaxAttempts]
      BY <3>1 DEF IInv, TypeOK, Row
    <3>3. Candidates \in SUBSET Events /\ Candidates \subseteq Recorded
      BY CandidatesArePending DEF Recorded
    <3> HIDE DEF counts
    <3>4. w \in RunState /\ w.batch = Candidates /\ w.acked = 0
      <4>1. IdleRun \in RunState
        BY <3>1, SMT DEF IdleRun, RunState
      <4>2. \A S \in SUBSET Events, c \in [Events -> 0..MaxAttempts] :
              [IdleRun EXCEPT !.at = "selected", !.batch = S, !.seen = c] \in RunState
        BY <4>1 DEF RunState
      <4>3. w \in RunState
        BY <3>2, <3>3, <4>2
      <4> QED BY <4>3, SMT DEF IdleRun
    <3>5. run' = [run EXCEPT ![r] = w]
      BY <2>1 DEF NextPending, counts
    <3> HIDE DEF w
    <3>6. w.batch \subseteq Recorded /\ Behind(w.acked)
      BY <3>3, <3>4, ZeroIsBehind
    <3> QED BY <1>2, <3>4, <3>5, <3>6, RunMoves
  <2>2. CASE NextPending(r) /\ Candidates = {}
    <3>1. run' = [run EXCEPT ![r] = [IdleRun EXCEPT !.at = "pulling"]]
      BY <2>2 DEF NextPending
    <3> QED BY <1>2, <3>1, IdleRunMoves
  <2>3. ASSUME NEW at \in {"paging", "deleting"},
               run' = [run EXCEPT ![r].at = at, ![r].acked = deviceAcked]
        PROVE  run' = [x \in Runs |-> run'[x]] /\ \A x \in Runs : RunOK(x)'
    <3> DEFINE w == [run[r] EXCEPT !.at = at, !.acked = deviceAcked]
    <3>1. w \in RunState
      <4>1. \A n \in 0..MaxEvents : [run[r] EXCEPT !.at = at, !.acked = n] \in RunState
        BY <1>3 DEF RunState
      <4> QED BY <1>3, <4>1
    <3>2. w.batch = run[r].batch /\ w.acked = deviceAcked
      BY <1>3, SMT DEF RunState
    <3>3. run' = [run EXCEPT ![r] = w]
      BY <2>3
    <3> HIDE DEF w
    <3>4. w.batch \subseteq Recorded /\ Behind(w.acked)
      BY <1>3, <3>2 DEF RunOK
    <3> QED BY <1>2, <3>1, <3>3, <3>4, RunMoves
  <2>4. CASE ApplyPage(r)
    <3>1. run' = [run EXCEPT ![r] = [IdleRun EXCEPT !.at = "compacting"]]
      BY <2>4 DEF ApplyPage
    <3> QED BY <1>2, <3>1, IdleRunMoves
  <2>5. CASE PullFails(r) \/ Dies(r)
    <3>1. IdleRun = [IdleRun EXCEPT !.at = "idle"]
      BY DEF IdleRun
    <3>2. run' = [run EXCEPT ![r] = [IdleRun EXCEPT !.at = "idle"]]
      BY <2>5, <3>1 DEF PullFails, Dies
    <3> QED BY <1>2, <3>2, IdleRunMoves
  <2>6. CASE RequireCursor(r) \/ CompactThrough(r)
    BY <2>3, <2>6 DEF RequireCursor, CompactThrough
  <2> QED BY <2>1, <2>2, <2>4, <2>5, <2>6
<1>5. /\ request' = [x \in Runs |-> request'[x]]
      /\ \A x \in Runs : RequestOK(x)'
  <2>1. request' = request \/ Closed(r)
    BY DEF NextPending, RequireCursor, CompactThrough, ApplyPage, PullFails, Dies
  <2> QED BY <1>2, <2>1, RequestsKept
<1>6. deviceAcked' \in 0..MaxEvents /\ Behind(deviceAcked)'
  <2>1. deviceAcked' = deviceAcked \/ deviceAcked' = run[r].acked
    BY DEF NextPending, RequireCursor, CompactThrough, ApplyPage, PullFails, Dies
  <2> QED BY <1>2, <2>1, AckedKept
<1>7. faults' \in 0..MaxFaults
  <2>1. MaxFaults \in Nat /\ faults \in 0..MaxFaults
    BY PushAssumption DEF IInv, TypeOK
  <2> QED BY <2>1 DEF NextPending, RequireCursor, CompactThrough, ApplyPage, PullFails, Dies
<1> QED BY <1>1, <1>4, <1>5, <1>6, <1>7 DEF DeviceStep

(***************************************************************************)
(* The steps that move rows.                                               *)
(***************************************************************************)
Underway == {"PENDING", "SENDING"}

\* A row under way stays so, or is decided by an answer or given up.
LEMMA RowMoves ==
    ASSUME NEW e \in Events, journal'[e] \in Row
    PROVE  /\ journal'[e] = journal[e] => RowKept(e)
           /\ journal[e].state \in Underway /\ journal'[e].state \in Underway => RowKept(e)
           /\ journal[e].state \in Underway /\ journal'[e].state = "DEAD_LETTER" => RowLearns(e)
           /\ journal[e].state \in Underway /\ journal'[e].state = "ACKED" /\ inbox[e] = "APPLIED"
                => RowLearns(e)
           /\ journal[e].state \in Underway /\ journal'[e].state = "CONFLICT" /\ inbox[e] = "CONFLICT"
                => RowLearns(e)
BY ToldStates DEF RowKept, RowLearns, Underway, Decided, Final, Contract!Verdicts

\* Only the rows change, and the faults are counted.
LEMMA RowsOnlyStep ==
    ASSUME IInv, RowsMove, request' = request \/ \E r \in Runs : Closed(r),
           run' = run \/ \E r \in Runs : run' = [run EXCEPT ![r] = IdleRun],
           UNCHANGED <<deviceAcked, service>>, faults' \in 0..MaxFaults
    PROVE  DeviceStep
<1>1. Grows /\ UNCHANGED service
  BY MoveGrows
<1>2. /\ run' = [x \in Runs |-> run'[x]]
      /\ \A x \in Runs : RunOK(x)'
  <2>1. IdleRun = [IdleRun EXCEPT !.at = "idle"]
    BY DEF IdleRun
  <2>2. ASSUME NEW r \in Runs, run' = [run EXCEPT ![r] = IdleRun]
        PROVE  run' = [x \in Runs |-> run'[x]] /\ \A x \in Runs : RunOK(x)'
    <3>1. run' = [run EXCEPT ![r] = [IdleRun EXCEPT !.at = "idle"]]
      BY <2>1, <2>2
    <3> QED BY <1>1, <3>1, IdleRunMoves
  <2> QED BY <1>1, <2>2, RunsKept
<1>3. /\ request' = [x \in Runs |-> request'[x]]
      /\ \A x \in Runs : RequestOK(x)'
  BY <1>1, RequestsKept
<1>4. deviceAcked' \in 0..MaxEvents /\ Behind(deviceAcked)'
  BY <1>1, AckedKept
<1> QED BY <1>1, <1>2, <1>3, <1>4 DEF DeviceStep

LEMMA RecoverStep ==
    ASSUME IInv, NEW r \in Runs, RecoverExpiredLeases(r)
    PROVE  DeviceStep
<1>1. journal' = [e \in Events |-> IF journal[e].state = "SENDING" /\ journal[e].expired
                                   THEN Unleased(journal[e]) ELSE journal[e]]
  BY DEF RecoverExpiredLeases
<1>2. RowsMove
  <2>1. ASSUME NEW e \in Events PROVE RowKept(e)
    <3>1. journal[e] \in Row
      BY DEF IInv, TypeOK
    <3>2. Unleased(journal[e]) \in Row /\ Unleased(journal[e]).state = "PENDING"
      BY <3>1, LeasedRow
    <3> QED BY <1>1, <3>1, <3>2, RowMoves DEF Underway
  <2> QED BY <1>1, <2>1 DEF RowsMove
<1>3. Grows /\ UNCHANGED service
  BY <1>2, MoveGrows DEF RecoverExpiredLeases
<1>4. /\ run' = [x \in Runs |-> run'[x]]
      /\ \A x \in Runs : RunOK(x)'
  <2> DEFINE w == [run[r] EXCEPT !.at = "recovered"]
  <2>1. run[r] \in RunState /\ RunOK(r)
    BY DEF IInv, TypeOK
  <2>2. w \in RunState /\ w.batch = run[r].batch /\ w.acked = run[r].acked
    BY <2>1, SMT DEF RunState
  <2>3. run' = [run EXCEPT ![r] = w]
    BY DEF RecoverExpiredLeases
  <2> HIDE DEF w
  <2>4. w.batch \subseteq Recorded /\ Behind(w.acked)
    BY <2>1, <2>2 DEF RunOK
  <2> QED BY <1>3, <2>2, <2>3, <2>4, RunMoves
<1>5. /\ request' = [x \in Runs |-> request'[x]]
      /\ \A x \in Runs : RequestOK(x)'
  BY <1>3, RequestsKept DEF RecoverExpiredLeases
<1>6. deviceAcked' \in 0..MaxEvents /\ Behind(deviceAcked)'
  BY <1>3, AckedKept DEF RecoverExpiredLeases
<1> QED BY <1>2, <1>3, <1>4, <1>5, <1>6 DEF DeviceStep, RecoverExpiredLeases, IInv, TypeOK

LEMMA LeaseStep ==
    ASSUME IInv, NEW r \in Runs, Lease(r)
    PROVE  DeviceStep
<1> DEFINE leased == Leasable(run[r].batch)
<1>1. run[r] \in RunState /\ RunOK(r)
  BY DEF IInv, TypeOK
<1>2. leased \in SUBSET Events /\ leased \subseteq Recorded
      /\ \A e \in leased : journal[e].state = "PENDING"
  <2>1. run[r].batch \subseteq Events /\ run[r].batch \subseteq Recorded
    BY <1>1 DEF RunOK, RunState
  <2>2. \A e \in Events : e <= e
    BY PushAssumption DEF Events
  <2> QED BY <2>1, <2>2 DEF Leasable
<1> HIDE DEF leased
<1>3. CASE leased = {}
  <2>1. /\ run' = [run EXCEPT ![r] = [IdleRun EXCEPT !.at = "pulling"]]
        /\ UNCHANGED <<journal, request, deviceAcked, faults, service>>
    BY <1>3 DEF Lease, leased
  <2>2. RowsMove /\ Grows
    BY <2>1, RowsStay, MoveGrows
  <2>3. /\ run' = [x \in Runs |-> run'[x]]
        /\ \A x \in Runs : RunOK(x)'
    BY <2>1, <2>2, IdleRunMoves
  <2>4. /\ request' = [x \in Runs |-> request'[x]]
        /\ \A x \in Runs : RequestOK(x)'
    BY <2>1, <2>2, RequestsKept
  <2>5. deviceAcked' \in 0..MaxEvents /\ Behind(deviceAcked)'
    BY <2>1, <2>2, AckedKept
  <2> QED BY <2>1, <2>2, <2>3, <2>4, <2>5 DEF DeviceStep, IInv, TypeOK
<1>4. CASE leased # {}
  <2> DEFINE w == [run[r] EXCEPT !.at = "sending", !.batch = leased]
             q == [NoRequest EXCEPT !.state = "open", !.todo = leased]
  <2>1. /\ run' = [run EXCEPT ![r] = w]
        /\ request' = [request EXCEPT ![r] = q]
        /\ journal' = [e \in Events |-> IF e \in leased THEN Leased(journal[e], r) ELSE journal[e]]
        /\ UNCHANGED <<deviceAcked, faults, service>>
    BY <1>4 DEF Lease, leased
  <2>2. RowsMove
    <3>1. ASSUME NEW e \in Events PROVE RowKept(e)
      <4>1. journal[e] \in Row
        BY DEF IInv, TypeOK
      <4>2. Leased(journal[e], r) \in Row /\ Leased(journal[e], r).state = "SENDING"
        BY <4>1, LeasedRow
      <4> QED BY <1>2, <2>1, <4>1, <4>2, RowMoves DEF Underway
    <3> QED BY <2>1, <3>1 DEF RowsMove
  <2>3. Grows
    BY <2>1, <2>2, MoveGrows
  <2>4. w \in RunState /\ w.batch = leased /\ w.acked = run[r].acked
    <3>1. \A S \in SUBSET Events : [run[r] EXCEPT !.at = "sending", !.batch = S] \in RunState
      BY <1>1 DEF RunState
    <3>2. w \in RunState
      BY <1>2, <3>1
    <3> QED BY <1>1, <3>2, SMT DEF RunState
  <2>5. q \in Request /\ q.todo = leased /\ \A e \in Events : q.acks[e] = "NONE"
    <3>1. \A S \in SUBSET Events : [NoRequest EXCEPT !.state = "open", !.todo = S] \in Request
      BY NoRequestType DEF Request
    <3>2. q \in Request
      BY <1>2, <3>1
    <3>3. q.todo = leased /\ q.acks = NoRequest.acks
      BY SMT DEF NoRequest
    <3> QED BY <3>2, <3>3, NoRequestType
  <2> HIDE DEF w, q
  <2>6. /\ run' = [x \in Runs |-> run'[x]]
        /\ \A x \in Runs : RunOK(x)'
    BY <1>1, <1>2, <2>1, <2>3, <2>4, RunMoves DEF RunOK
  <2>7. /\ request' = [x \in Runs |-> request'[x]]
        /\ \A x \in Runs : RequestOK(x)'
    <3>1. \A e \in Events : q.acks[e] \in Outcomes => inbox'[e] = q.acks[e]
      BY <2>5 DEF Outcomes
    <3> QED BY <1>2, <2>1, <2>3, <2>5, <3>1, RequestMoves
  <2>8. deviceAcked' \in 0..MaxEvents /\ Behind(deviceAcked)'
    BY <2>1, <2>3, AckedKept
  <2> QED BY <2>1, <2>2, <2>6, <2>7, <2>8 DEF DeviceStep, IInv, TypeOK
<1> QED BY <1>3, <1>4

LEMMA RowSteps ==
    ASSUME IInv,
           \/ \E r \in Runs : NetworkUnavailable(r) \/ Release(r) \/ Compact(r) \/ LeaseElapses(r)
           \/ \E e \in Events : BackoffElapses(e)
    PROVE  DeviceStep
<1>1. \A e \in Events : journal[e] \in Row
  BY DEF IInv, TypeOK
<1>2. faults \in 0..MaxFaults /\ MaxFaults \in Nat
  BY PushAssumption DEF IInv, TypeOK
<1>3. ASSUME NEW r \in Runs, NetworkUnavailable(r) PROVE DeviceStep
  <2>1. ASSUME NEW e \in Events PROVE RowKept(e) \/ RowLearns(e)
    <3>1. \/ journal'[e] = journal[e]
          \/ journal[e].state = "SENDING" /\ journal'[e] = Retried(journal[e], run[r].seen[e])
      <4>1. journal' = [d \in Events |-> IF d \in run[r].batch /\ Holds(r, d)
                                         THEN Retried(journal[d], run[r].seen[d]) ELSE journal[d]]
        BY <1>3 DEF NetworkUnavailable
      <4> QED BY <4>1 DEF Holds
    <3>2. /\ Retried(journal[e], run[r].seen[e]) \in Row
          /\ Retried(journal[e], run[r].seen[e]).state \in {"PENDING", "DEAD_LETTER"}
      BY <1>1, RetriedRow
    <3> QED BY <1>1, <3>1, <3>2, RowMoves DEF Underway
  <2>2. RowsMove
    BY <1>3, <2>1 DEF RowsMove, NetworkUnavailable
  <2> QED BY <1>2, <1>3, <2>2, RowsOnlyStep DEF NetworkUnavailable
<1>4. ASSUME NEW r \in Runs, Release(r) PROVE DeviceStep
  <2>1. journal' = [e \in Events |-> IF Holds(r, e) THEN Freed(journal[e]) ELSE journal[e]]
    BY <1>4 DEF Release, Freed
  <2>2. ASSUME NEW e \in Events PROVE RowKept(e)
    <3>1. Freed(journal[e]) \in Row /\ Freed(journal[e]).state = "PENDING"
      BY <1>1, FreedRow
    <3> QED BY <1>1, <2>1, <3>1, RowMoves DEF Holds, Underway
  <2>3. RowsMove
    BY <2>1, <2>2 DEF RowsMove
  <2>4. faults' \in 0..MaxFaults
    BY <1>2, <1>4 DEF Release
  <2> QED BY <1>4, <2>3, <2>4, RowsOnlyStep DEF Release
<1>5. ASSUME NEW r \in Runs, Compact(r) PROVE DeviceStep
  <2> DEFINE gone == [AbsentRow EXCEPT !.state = "DELETED"]
  <2>1. gone \in Row /\ gone.state = "DELETED"
    <3>1. 0 \in 0..MaxAttempts
      BY PushAssumption
    <3>2. AbsentRow \in Row
      BY <3>1 DEF AbsentRow, Row
    <3>3. \A row \in Row : /\ [row EXCEPT !.state = "DELETED"] \in Row
                           /\ [row EXCEPT !.state = "DELETED"].state = "DELETED"
      <4>1. \A row \in Row : [row EXCEPT !.state = "DELETED"] \in Row
        BY DEF Row
      <4>2. \A row \in Row : [row EXCEPT !.state = "DELETED"].state = "DELETED"
        BY SMT DEF Row
      <4> QED BY <4>1, <4>2
    <3> QED BY <3>2, <3>3
  <2>2. ASSUME NEW e \in Events PROVE RowKept(e) \/ RowForgets(e)
    <3>1. CASE journal[e].state \in {"ACKED", "DEAD_LETTER"} /\ e + SafetyWindow <= run[r].acked
      <4>1. journal'[e] = gone
        BY <1>5, <3>1 DEF Compact
      <4>2. e \in Nat /\ SafetyWindow \in Nat /\ run[r].acked \in Nat /\ checkpoint \in Nat
            /\ run[r].acked <= checkpoint
        BY PushAssumption DEF IInv, TypeOK, RunOK, RunState, Behind, Events
      <4>3. e <= checkpoint
        BY <3>1, <4>2
      <4>4. inbox[e] # "NONE"
        BY <4>3 DEF IInv
      <4> QED BY <2>1, <3>1, <4>1, <4>4 DEF RowForgets
    <3>2. CASE ~(journal[e].state \in {"ACKED", "DEAD_LETTER"} /\ e + SafetyWindow <= run[r].acked)
      <4>1. journal'[e] = journal[e]
        BY <1>5, <3>2 DEF Compact
      <4> QED BY <1>1, <4>1, RowMoves
    <3> QED BY <3>1, <3>2
  <2>3. RowsMove
    BY <1>5, <2>2 DEF RowsMove, Compact
  <2> QED BY <1>2, <1>5, <2>3, RowsOnlyStep DEF Compact
<1>6. ASSUME NEW r \in Runs, LeaseElapses(r) PROVE DeviceStep
  <2>1. ASSUME NEW e \in Events PROVE RowKept(e)
    <3>1. /\ [journal[e] EXCEPT !.expired = TRUE] \in Row
          /\ [journal[e] EXCEPT !.expired = TRUE].state = journal[e].state
      <4>1. \A row \in Row : [row EXCEPT !.expired = TRUE] \in Row
        BY DEF Row
      <4>2. \A row \in Row : [row EXCEPT !.expired = TRUE].state = row.state
        BY SMT DEF Row
      <4> QED BY <1>1, <4>1, <4>2
    <3>2. journal'[e] = journal[e] \/ journal'[e] = [journal[e] EXCEPT !.expired = TRUE]
      BY <1>6 DEF LeaseElapses
    <3> QED BY <1>1, <3>1, <3>2 DEF RowKept
  <2>2. RowsMove
    BY <1>6, <2>1 DEF RowsMove, LeaseElapses
  <2>3. faults' \in 0..MaxFaults
    BY <1>2, <1>6 DEF LeaseElapses
  <2> QED BY <1>6, <2>2, <2>3, RowsOnlyStep DEF LeaseElapses
<1>7. ASSUME NEW e \in Events, BackoffElapses(e) PROVE DeviceStep
  <2>1. journal' = [journal EXCEPT ![e] = [journal[e] EXCEPT !.due = TRUE]]
    BY <1>7 DEF BackoffElapses
  <2>2. ASSUME NEW d \in Events PROVE RowKept(d)
    <3>1. /\ [journal[d] EXCEPT !.due = TRUE] \in Row
          /\ [journal[d] EXCEPT !.due = TRUE].state = journal[d].state
      <4>1. \A row \in Row : [row EXCEPT !.due = TRUE] \in Row
        BY DEF Row
      <4>2. \A row \in Row : [row EXCEPT !.due = TRUE].state = row.state
        BY SMT DEF Row
      <4> QED BY <1>1, <4>1, <4>2
    <3>2. journal'[d] = journal[d] \/ journal'[d] = [journal[d] EXCEPT !.due = TRUE]
      BY <2>1 DEF IInv, TypeOK
    <3> QED BY <1>1, <3>1, <3>2 DEF RowKept
  <2>3. RowsMove
    BY <2>1, <2>2 DEF RowsMove, IInv, TypeOK
  <2> QED BY <1>2, <1>7, <2>3, RowsOnlyStep DEF BackoffElapses
<1> QED BY <1>3, <1>4, <1>5, <1>6, <1>7

\* The answer settles the rows the run still holds, and the checkpoint follows
\* the answered events only as far as every row is decided.
LEMMA ApplyAnswerStep ==
    ASSUME IInv, NEW r \in Runs, ApplyAnswer(r)
    PROVE  DeviceStep
<1> DEFINE acks == request[r].acks
<1>1. request[r] \in Request /\ \A e \in Events : acks[e] \in Outcomes => inbox[e] = acks[e]
  BY DEF IInv, TypeOK, RequestOK
<1>2. PICK refused \in SUBSET {e \in run[r].batch : acks[e] = "APPLIED"} :
        /\ journal' = [e \in Events |->
              IF e \in run[r].batch /\ Holds(r, e)
              THEN Settled(journal[e], IF e \in refused THEN "GAP" ELSE acks[e], run[r].seen[e])
              ELSE journal[e]]
        /\ deviceAcked' = Highest({deviceAcked} \cup {e \in Events \ refused : Advances(r, e)})
  BY DEF ApplyAnswer
<1>3. /\ \E next \in {"pulling", "idle"} : run' = [run EXCEPT ![r] = [IdleRun EXCEPT !.at = next]]
      /\ Closed(r) /\ UNCHANGED <<faults, service>>
  BY DEF ApplyAnswer
<1>4. ASSUME NEW e \in Events PROVE RowKept(e) \/ RowLearns(e)
  <2> DEFINE ack == IF e \in refused THEN "GAP" ELSE acks[e]
             s == Settled(journal[e], ack, run[r].seen[e])
  <2>1. journal[e] \in Row /\ ack \in Outcomes \cup {"NONE", "GAP"}
    BY <1>1 DEF IInv, TypeOK, Request
  <2>2. ack \in Outcomes => inbox[e] = ack
    BY <1>1 DEF Outcomes
  <2> HIDE DEF ack
  <2>3. /\ s \in Row
        /\ \/ s.state \in {"PENDING", "DEAD_LETTER"}
           \/ s.state = "ACKED" /\ ack = "APPLIED"
           \/ s.state = "CONFLICT" /\ ack = "CONFLICT"
    BY <2>1, SettledRow
  <2>4. \/ journal'[e] = journal[e]
        \/ journal[e].state = "SENDING" /\ journal'[e] = s
    BY <1>2 DEF Holds, ack
  <2> HIDE DEF s
  <2> QED BY <2>1, <2>2, <2>3, <2>4, RowMoves DEF Underway, Outcomes
<1>5. RowsMove
  BY <1>2, <1>4 DEF RowsMove
<1>6. Grows
  BY <1>3, <1>5, MoveGrows
<1>7. deviceAcked' \in 0..MaxEvents /\ Behind(deviceAcked)'
  <2> DEFINE S == {deviceAcked} \cup {e \in Events \ refused : Advances(r, e)}
  <2>1. S \in SUBSET (0..MaxEvents) /\ S # {}
    <3>1. \A e \in Events : e \in 0..MaxEvents
      BY PushAssumption DEF Events
    <3> QED BY <3>1 DEF IInv, TypeOK
  <2>2. deviceAcked' \in S
    <3> HIDE DEF S
    <3>1. Highest(S) \in S
      BY <2>1, HighestIsGreatest
    <3> QED BY <1>2, <3>1 DEF S
  <2>3. CASE deviceAcked' = deviceAcked
    BY <1>6, <2>3, AckedKept
  <2>4. CASE deviceAcked' \in Events /\ Advances(r, deviceAcked')
    <3>1. inbox[deviceAcked'] = "APPLIED" /\ \A d \in 1..deviceAcked' : journal'[d].state \in Decided
      BY <1>1, <2>4 DEF Advances, Decided, Outcomes
    <3>2. deviceAcked' <= checkpoint /\ checkpoint' = checkpoint
      BY <1>3, <2>4, <3>1 DEF IInv, service
    <3> QED BY <2>1, <2>2, <3>1, <3>2 DEF Behind
  <2> QED BY <2>2, <2>3, <2>4
<1>8. /\ run' = [x \in Runs |-> run'[x]]
      /\ \A x \in Runs : RunOK(x)'
  BY <1>3, <1>6, IdleRunMoves
<1>9. /\ request' = [x \in Runs |-> request'[x]]
      /\ \A x \in Runs : RequestOK(x)'
  BY <1>3, <1>6, RequestsKept
<1> QED BY <1>3, <1>5, <1>7, <1>8, <1>9 DEF DeviceStep, IInv, TypeOK

(***************************************************************************)
(* The service.                                                            *)
(***************************************************************************)
\* The request goes on with what is left, or ends with its answer.
LEMMA AnsweredMoves ==
    ASSUME IInv, Grows, NEW r \in Runs, NEW rest \in SUBSET request[r].todo,
           NEW acks \in [Events -> Outcomes \cup {"NONE", "GAP"}],
           NEW state \in {"answered", "failed"}, Answered(r, rest, acks, state),
           \A e \in Events : acks[e] \in Outcomes => inbox'[e] = acks[e]
    PROVE  /\ request' = [x \in Runs |-> request'[x]]
           /\ \A x \in Runs : RequestOK(x)'
<1>1. request[r].todo \subseteq Recorded /\ request[r].todo \subseteq Events
  BY DEF IInv, RequestOK, Request
<1>2. \A st \in {"open", "answered", "failed"}, S \in SUBSET Events :
        /\ [state |-> st, todo |-> S, acks |-> acks] \in Request
        /\ [state |-> st, todo |-> S, acks |-> acks].todo = S
        /\ [state |-> st, todo |-> S, acks |-> acks].acks = acks
  BY DEF Request
<1>3. CASE rest # {}
  <2> DEFINE q == [state |-> "open", todo |-> rest, acks |-> acks]
  <2>1. q \in Request /\ q.todo \subseteq Recorded /\ q.acks = acks
    BY <1>1, <1>2
  <2>2. request' = [request EXCEPT ![r] = q]
    BY <1>3 DEF Answered
  <2> HIDE DEF q
  <2> QED BY <2>1, <2>2, RequestMoves
<1>4. CASE rest = {} /\ run[r].at # "sending"
  <2>1. request' = [request EXCEPT ![r] = NoRequest]
    BY <1>4 DEF Answered
  <2> QED BY <2>1, NoRequestType, RequestMoves DEF Outcomes
<1>5. CASE rest = {} /\ run[r].at = "sending"
  <2> DEFINE q == [state |-> state, todo |-> {}, acks |-> acks]
  <2>1. q \in Request /\ q.todo \subseteq Recorded /\ q.acks = acks
    BY <1>2
  <2>2. request' = [request EXCEPT ![r] = q]
    BY <1>5 DEF Answered
  <2> HIDE DEF q
  <2> QED BY <2>1, <2>2, RequestMoves
<1> QED BY <1>3, <1>4, <1>5

LEMMA ServeSteps ==
    ASSUME IInv, NEW r \in Runs, PushDuplicate(r) \/ PushGap(r) \/ RequestFails(r)
    PROVE  DeviceStep
<1>1. UNCHANGED device /\ UNCHANGED service
  BY DEF PushDuplicate, PushGap, RequestFails
<1>2. RowsMove /\ Grows
  BY <1>1, RowsStay, MoveGrows DEF device
<1>3. /\ request[r].acks \in [Events -> Outcomes \cup {"NONE", "GAP"}]
      /\ request[r].todo \subseteq Events
      /\ \A e \in Events : request[r].acks[e] \in Outcomes => inbox[e] = request[r].acks[e]
  BY DEF IInv, RequestOK, Request
<1>4. /\ request' = [x \in Runs |-> request'[x]]
      /\ \A x \in Runs : RequestOK(x)'
  <2>1. CASE RequestFails(r)
    <3> DEFINE acks == [e \in Events |-> "NONE"]
    <3>1. acks \in [Events -> Outcomes \cup {"NONE", "GAP"}] /\ \A e \in Events : acks[e] \notin Outcomes
      BY DEF Outcomes
    <3>2. Answered(r, {}, acks, "failed")
      BY <2>1 DEF RequestFails
    <3> HIDE DEF acks
    <3> QED BY <1>2, <3>1, <3>2, AnsweredMoves
  <2>2. CASE PushDuplicate(r) \/ PushGap(r)
    <3>1. PICK e \in request[r].todo, a \in Outcomes \cup {"GAP"} :
            Ack(r, e, a) /\ (a \in Outcomes => inbox[e] = a)
      <4>1. \A e \in request[r].todo : inbox[e] \in Outcomes \cup {"NONE"}
        BY <1>3 DEF IInv, TypeOK
      <4> QED BY <2>2, <4>1 DEF PushDuplicate, PushGap, Outcomes
    <3> DEFINE acks == [request[r].acks EXCEPT ![e] = a]
    <3>2. /\ acks \in [Events -> Outcomes \cup {"NONE", "GAP"}]
          /\ \A d \in Events : acks[d] \in Outcomes => inbox[d] = acks[d]
      BY <1>3, <3>1
    <3>3. Answered(r, request[r].todo \ {e}, acks, "answered")
      BY <3>1 DEF Ack
    <3> HIDE DEF acks
    <3>4. \A d \in Events : acks[d] \in Outcomes => inbox'[d] = acks[d]
      BY <1>1, <3>2 DEF service
    <3> QED BY <1>2, <3>2, <3>3, <3>4, AnsweredMoves
  <2> QED BY <2>1, <2>2
<1>5. /\ run' = [x \in Runs |-> run'[x]]
      /\ \A x \in Runs : RunOK(x)'
  BY <1>1, <1>2, RunsKept DEF device
<1>6. deviceAcked' \in 0..MaxEvents /\ Behind(deviceAcked)'
  BY <1>1, <1>2, AckedKept DEF device
<1> QED BY <1>1, <1>2, <1>4, <1>5, <1>6 DEF DeviceStep, device, IInv, TypeOK

\* The next event is decided, and published behind all earlier ones if applied.
LEMMA AppliedNext ==
    ASSUME IInv, NEW e \in Events, NEW o \in Outcomes,
           inbox[e] = "NONE", e = checkpoint + 1,
           inbox' = [inbox EXCEPT ![e] = o],
           feed' = IF o = "APPLIED" THEN Append(feed, e) ELSE feed
    PROVE  AppliedOnceInOrder' /\ feed' \in Seq(Events)
<1>1. /\ feed \in Seq(Events) /\ Len(feed) \in Nat
      /\ inbox'[e] = o /\ \A d \in Events \ {e} : inbox'[d] = inbox[d]
  BY DEF IInv, TypeOK
<1>2. /\ \A i, j \in 1..Len(feed) : i < j => feed[i] < feed[j]
      /\ \A d \in Events : inbox[d] = "APPLIED" <=> \E i \in 1..Len(feed) : feed[i] = d
  BY DEF IInv, AppliedOnceInOrder
<1>3. \A i \in 1..Len(feed) : feed[i] \in Events /\ feed[i] # e /\ feed[i] < e
  <2> SUFFICES ASSUME NEW i \in 1..Len(feed) PROVE feed[i] \in Events /\ feed[i] # e /\ feed[i] < e
    OBVIOUS
  <2>1. feed[i] \in Events
    BY <1>1
  <2>2. inbox[feed[i]] = "APPLIED"
    BY <1>2, <2>1
  <2>3. feed[i] <= checkpoint
    BY <2>1, <2>2 DEF IInv
  <2>4. checkpoint \in Nat /\ feed[i] \in Nat
    BY <2>1, PushAssumption DEF IInv, TypeOK, Events
  <2> QED BY <2>1, <2>3, <2>4
<1>4. CASE o # "APPLIED"
  <2>1. feed' = feed
    BY <1>4
  <2>2. \A d \in Events : inbox'[d] = "APPLIED" <=> inbox[d] = "APPLIED"
    BY <1>1, <1>4
  <2> QED BY <1>1, <1>2, <2>1, <2>2 DEF AppliedOnceInOrder
<1>5. CASE o = "APPLIED"
  <2>1. /\ feed' \in Seq(Events) /\ Len(feed') = Len(feed) + 1
        /\ \A i \in 1..Len(feed) : feed'[i] = feed[i]
        /\ feed'[Len(feed) + 1] = e
    BY <1>1, <1>5, AppendProperties
  <2>2. \A i \in 1..Len(feed') : i \in 1..Len(feed) \/ i = Len(feed) + 1
    BY <1>1, <2>1
  <2>3. ASSUME NEW i \in 1..Len(feed'), NEW j \in 1..Len(feed'), i < j
        PROVE  feed'[i] < feed'[j]
    <3>1. i \in 1..Len(feed)
      BY <1>1, <2>1, <2>3
    <3> QED BY <1>2, <1>3, <2>1, <2>2, <2>3, <3>1
  <2>4. ASSUME NEW d \in Events
        PROVE  inbox'[d] = "APPLIED" <=> \E i \in 1..Len(feed') : feed'[i] = d
    <3>1. CASE d = e
      <4>1. Len(feed) + 1 \in 1..Len(feed')
        BY <1>1, <2>1
      <4> QED BY <1>1, <1>5, <2>1, <3>1, <4>1
    <3>2. CASE d # e
      <4>1. \A i \in 1..Len(feed) : i \in 1..Len(feed')
        BY <1>1, <2>1
      <4>2. inbox'[d] = "APPLIED" <=> \E i \in 1..Len(feed) : feed[i] = d
        BY <1>1, <1>2, <3>2
      <4> QED BY <2>1, <2>2, <3>2, <4>1, <4>2
    <3> QED BY <3>1, <3>2
  <2> QED BY <2>1, <2>3, <2>4 DEF AppliedOnceInOrder
<1> QED BY <1>4, <1>5

\* What serving the next event of a request does.
LEMMA PushNewDoes ==
    ASSUME IInv, NEW r \in Runs, PushNew(r)
    PROVE  \E e \in Recorded, o \in Outcomes :
             /\ inbox[e] = "NONE" /\ e = checkpoint + 1
             /\ inbox' = [inbox EXCEPT ![e] = o]
             /\ feed' = IF o = "APPLIED" THEN Append(feed, e) ELSE feed
             /\ checkpoint' = e
             /\ Ack(r, e, o) /\ e \in request[r].todo
             /\ UNCHANGED device
<1>1. request[r].todo \subseteq Recorded
  BY DEF IInv, RequestOK
<1>2. PICK e \in request[r].todo, o \in Outcomes :
        /\ inbox[e] = "NONE" /\ e = checkpoint + 1
        /\ inbox' = [inbox EXCEPT ![e] = o]
        /\ feed' = IF o = "APPLIED" THEN Append(feed, e) ELSE feed
        /\ checkpoint' = e
        /\ Ack(r, e, o)
        /\ UNCHANGED device
  BY DEF PushNew
<1> QED BY <1>1, <1>2

LEMMA PushNewStep ==
    ASSUME IInv, NEW r \in Runs, PushNew(r)
    PROVE  IInv'
<1>1. PICK e \in Recorded, o \in Outcomes :
        /\ inbox[e] = "NONE" /\ e = checkpoint + 1
        /\ inbox' = [inbox EXCEPT ![e] = o]
        /\ feed' = IF o = "APPLIED" THEN Append(feed, e) ELSE feed
        /\ checkpoint' = e
        /\ Ack(r, e, o) /\ e \in request[r].todo
        /\ UNCHANGED device
  BY PushNewDoes
<1>2. e \in Events /\ Recorded' = Recorded /\ UNCHANGED <<journal, deviceAcked, run, faults>>
  BY <1>1 DEF Recorded, device
<1>3. inbox'[e] = o /\ (\A d \in Events \ {e} : inbox'[d] = inbox[d])
      /\ inbox' \in [Events -> Outcomes \cup {"NONE"}]
  BY <1>1, <1>2 DEF IInv, TypeOK
<1>4. MaxEvents \in Nat /\ checkpoint \in 0..MaxEvents /\ e \in 1..MaxEvents
  BY <1>2, PushAssumption DEF IInv, TypeOK, Events
<1>5. Grows
  BY <1>1, <1>2, <1>3, <1>4 DEF Grows
<1>6. AppliedOnceInOrder' /\ feed' \in Seq(Events)
  BY <1>1, <1>2, AppliedNext
<1>7. /\ request' = [x \in Runs |-> request'[x]]
      /\ \A x \in Runs : RequestOK(x)'
  <2> DEFINE acks == [request[r].acks EXCEPT ![e] = o]
  <2>1. /\ request[r].acks \in [Events -> Outcomes \cup {"NONE", "GAP"}]
        /\ request[r].todo \subseteq Events
        /\ \A d \in Events : request[r].acks[d] \in Outcomes => inbox[d] = request[r].acks[d]
    BY DEF IInv, RequestOK, Request
  <2>2. acks \in [Events -> Outcomes \cup {"NONE", "GAP"}]
    BY <1>2, <2>1
  <2>3. \A d \in Events : acks[d] \in Outcomes => inbox'[d] = acks[d]
    BY <1>2, <1>3, <2>1
  <2>4. Answered(r, request[r].todo \ {e}, acks, "answered")
    BY <1>1 DEF Ack
  <2> HIDE DEF acks
  <2> QED BY <1>5, <2>2, <2>3, <2>4, AnsweredMoves
<1>8. \A x \in Runs : RunOK(x)'
  BY <1>2, <1>5, RunsKept
<1>9. deviceAcked' \in 0..MaxEvents /\ Behind(deviceAcked)'
  BY <1>2, <1>5, AckedKept
<1>10. TypeOK'
  BY <1>1, <1>2, <1>3, <1>4, <1>6, <1>7, <1>9 DEF IInv, TypeOK, RequestOK
<1>11. AnswersAgree'
  BY <1>1, <1>2, <1>3 DEF IInv, AnswersAgree
<1>12. \A d \in Events : inbox'[d] # "NONE" <=> d <= checkpoint'
  <2> SUFFICES ASSUME NEW d \in Events PROVE inbox'[d] # "NONE" <=> d <= checkpoint'
    OBVIOUS
  <2>1. CASE d = e
    BY <1>1, <1>3, <1>4, <2>1 DEF Outcomes
  <2>2. CASE d # e
    <3>1. d \in Nat /\ (inbox[d] # "NONE" <=> d <= checkpoint)
      BY DEF IInv, Events
    <3> QED BY <1>1, <1>3, <1>4, <2>2, <3>1
  <2> QED BY <2>1, <2>2
<1>13. \A d \in Events : inbox'[d] # "NONE" => d \in Recorded
  BY <1>1, <1>3 DEF IInv
<1> QED BY <1>2, <1>6, <1>7, <1>8, <1>9, <1>10, <1>11, <1>12, <1>13 DEF IInv

(***************************************************************************)
(* Recording, and the invariant.                                           *)
(***************************************************************************)
LEMMA RecordStep ==
    ASSUME IInv, NEW e \in Events, Record(e)
    PROVE  IInv' /\ Recorded' = Recorded \cup {e} /\ e \notin Recorded
<1>1. /\ journal[e].state = "NONE" /\ \A d \in 1..(e - 1) : journal[d].state # "NONE"
      /\ journal' = [journal EXCEPT ![e] = [journal[e] EXCEPT !.state = "PENDING"]]
      /\ UNCHANGED <<deviceAcked, run, faults, request, service>>
  BY DEF Record
<1>2. [journal[e] EXCEPT !.state = "PENDING"] \in Row
      /\ [journal[e] EXCEPT !.state = "PENDING"].state = "PENDING"
  <2>1. journal[e] \in Row
    BY DEF IInv, TypeOK
  <2>2. \A row \in Row : [row EXCEPT !.state = "PENDING"] \in Row
    BY DEF Row
  <2>3. \A row \in Row : [row EXCEPT !.state = "PENDING"].state = "PENDING"
    BY SMT DEF Row
  <2> QED BY <2>1, <2>2, <2>3
<1>3. /\ journal' \in [Events -> Row] /\ journal'[e].state = "PENDING"
      /\ \A d \in Events \ {e} : journal'[d] = journal[d]
  BY <1>1, <1>2 DEF IInv, TypeOK
<1>4. Recorded' = Recorded \cup {e} /\ e \notin Recorded
  BY <1>1, <1>3 DEF Recorded
<1>5. Grows
  BY <1>1, <1>3, <1>4 DEF Grows, IInv, TypeOK, service, Decided, Final
<1>6. \A x \in Runs : RunOK(x)' /\ RequestOK(x)'
  BY <1>1, <1>5, RunsKept, RequestsStay
<1>7. Behind(deviceAcked)'
  BY <1>1, <1>5, AckedKept
<1>8. TypeOK'
  BY <1>1, <1>3 DEF IInv, TypeOK, service
<1>9. AnswersAgree' /\ AppliedOnceInOrder'
  BY <1>1, <1>3 DEF IInv, AnswersAgree, AppliedOnceInOrder, service
<1>10. \A d \in Recorded' : \A c \in 1..(d - 1) : c \in Recorded'
  <2> SUFFICES ASSUME NEW d \in Recorded', NEW c \in 1..(d - 1) PROVE c \in Recorded'
    OBVIOUS
  <2>1. CASE d = e
    <3>1. c \in Events
      BY <2>1, PushAssumption DEF Events
    <3> QED BY <1>1, <1>4, <2>1, <3>1 DEF Recorded
  <2>2. CASE d \in Recorded
    BY <1>4, <2>2 DEF IInv
  <2> QED BY <1>4, <2>1, <2>2
<1> QED BY <1>1, <1>4, <1>6, <1>7, <1>8, <1>9, <1>10 DEF IInv, service

LEMMA InitIInv == Init => IInv
<1> SUFFICES ASSUME Init PROVE IInv
  OBVIOUS
<1>1. MaxEvents \in Nat /\ MaxAttempts \in Nat /\ MaxFaults \in Nat
  BY PushAssumption
<1>2. AbsentRow \in Row /\ AbsentRow.state = "NONE"
  <2>1. 0 \in 0..MaxAttempts
    BY <1>1
  <2> QED BY <2>1 DEF AbsentRow, Row
<1>3. IdleRun \in RunState /\ IdleRun.batch = {} /\ IdleRun.acked = 0
  <2>1. 0 \in 0..MaxAttempts /\ 0 \in 0..MaxEvents
    BY <1>1
  <2> QED BY <2>1 DEF IdleRun, RunState
<1>4. TypeOK
  BY <1>1, <1>2, <1>3, NoRequestType DEF Init, TypeOK
<1>5. Recorded = {} /\ \A e \in Events : journal[e].state = "NONE" /\ inbox[e] = "NONE"
  BY <1>2 DEF Init, Recorded
<1>6. Behind(0)
  BY <1>1 DEF Init, Behind
<1>7. \A r \in Runs : RunOK(r) /\ RequestOK(r)
  BY <1>3, <1>6, NoRequestType DEF Init, RunOK, RequestOK, Outcomes
<1>8. \A e \in Events : ~(e <= checkpoint)
  BY <1>1 DEF Init, Events
<1>9. AnswersAgree /\ AppliedOnceInOrder
  <2>1. feed = <<>> /\ Len(feed) = 0 /\ 1..0 = {}
    BY DEF Init
  <2> QED BY <1>5, <2>1 DEF AnswersAgree, AppliedOnceInOrder
<1> QED BY <1>4, <1>5, <1>6, <1>7, <1>8, <1>9 DEF IInv, Init

\* Every step is a step of the device and its requests, an event that is
\* recorded, or one that the service decides.
LEMMA StepKinds ==
    ASSUME IInv, [Next]_vars
    PROVE  \/ DeviceStep \/ UNCHANGED vars
           \/ \E e \in Events : Record(e)
           \/ \E r \in Runs : PushNew(r)
<1>1. ASSUME NEW r \in Runs, RunStep(r) PROVE DeviceStep
  BY <1>1, ScheduleSteps, RecoverStep, LeaseStep, RowSteps, ApplyAnswerStep DEF RunStep
<1>2. ASSUME NEW r \in Runs, Serve(r) PROVE DeviceStep \/ PushNew(r)
  BY <1>2, ServeSteps DEF Serve
<1>3. ASSUME NEW r \in Runs, Release(r) \/ Dies(r) \/ LeaseElapses(r) PROVE DeviceStep
  BY <1>3, ScheduleSteps, RowSteps
<1>4. ASSUME NEW e \in Events, BackoffElapses(e) PROVE DeviceStep
  BY <1>4, RowSteps
<1> QED BY <1>1, <1>2, <1>3, <1>4 DEF Next

LEMMA NextKeepsIInv == IInv /\ [Next]_vars => IInv'
<1> SUFFICES ASSUME IInv, [Next]_vars PROVE IInv'
  OBVIOUS
<1>1. CASE UNCHANGED vars
  <2>1. \A r \in Runs : RunOK(r)' /\ RequestOK(r)'
    BY <1>1 DEF vars, IInv, RunOK, RequestOK, Recorded, Behind
  <2>2. Behind(deviceAcked)' /\ Recorded' = Recorded
    BY <1>1 DEF vars, IInv, Behind, Recorded
  <2> QED BY <1>1, <2>1, <2>2 DEF vars, IInv, TypeOK, AnswersAgree, AppliedOnceInOrder
<1> QED BY <1>1, StepKinds, DeviceStepKeeps, RecordStep, PushNewStep

\* However runs overlap, retry and lose answers, every copy of a checkpoint stays
\* behind the service's and every request's acknowledgements repeat the inbox
\* (SyncEngine: pushLeased; SyncService.push).
THEOREM PushInvariant == Spec => []IInv
<1> QED BY InitIInv, NextKeepsIInv, PTL DEF Spec

\* Every variable keeps its type (the columns of offline_journal_event, the
\* cursors on both ends, the requests and their acknowledgements).
THEOREM PushTypes == Spec => []TypeOK
<1>1. IInv => TypeOK
  BY DEF IInv
<1> QED BY <1>1, PushInvariant, PTL

\* Whatever is sent again, served late, lost or written back from an old copy, the
\* phone and the service never disagree about an answer, an applied intent is
\* published once and in order, and no unanswered intent is behind the checkpoint.
THEOREM EndsAlwaysAgree == Spec => []EndsAgree
<1>1. IInv => EndsAgree
  <2>1. IInv => DeviceBehindService
    BY DEF IInv, Behind, DeviceBehindService, Decided
  <2> QED BY <2>1 DEF IInv, EndsAgree
<1> QED BY <1>1, PushInvariant, PTL

(***************************************************************************)
(* The push implements the delivery contract.                              *)
(***************************************************************************)
LEMMA RefinesInit == Init => Contract!Init
<1> SUFFICES ASSUME Init PROVE Contract!Init
  OBVIOUS
<1>1. \A e \in Events : journal[e].state = "NONE"
  BY DEF Init, AbsentRow
<1>2. {e \in Events : journal[e].state # "NONE"} = {}
  BY <1>1
<1>3. Cardinality({e \in Events : journal[e].state # "NONE"}) = 0
  BY <1>2, FS_EmptySet
<1>4. [e \in Events |-> Told(journal[e].state)] = [e \in Events |-> "NONE"]
  BY <1>1, ToldStates
<1> QED BY <1>3, <1>4 DEF Init, Contract!Init, Contract!Events, Events, Told

\* The recorded events are the first ones.
LEMMA RecordedPrefix ==
    ASSUME IInv
    PROVE  /\ Cardinality(Recorded) \in 0..MaxEvents
           /\ Recorded = 1..Cardinality(Recorded)
<1>1. Recorded \in SUBSET Events /\ \A e \in Recorded : \A d \in 1..(e - 1) : d \in Recorded
  BY DEF IInv, Recorded
<1> QED BY <1>1, PrefixOfEvents

\* A step of the device learns answers, forgets answered intents, or neither.
LEMMA DeviceRefines ==
    ASSUME IInv, DeviceStep
    PROVE  Contract!Learn \/ Contract!Forget
<1> DEFINE told == [e \in Events |-> Told(journal[e].state)]
           toldNext == [e \in Events |-> Told(journal'[e].state)]
<1>1. RowsMove /\ inbox' = inbox
  BY DEF DeviceStep, service
<1>2. Recorded' = Recorded
  BY <1>1, MovedRows DEF Recorded
<1>3. ASSUME NEW e \in Events
      PROVE  /\ journal[e].state \in RowState /\ journal'[e].state \in RowState
             /\ toldNext[e] \in {"NONE", "APPLIED", "CONFLICT", "GIVEN_UP", "FORGOTTEN"}
  <2>1. journal[e] \in Row /\ journal'[e] \in Row
    BY <1>1, MovedRows
  <2>2. journal[e].state \in RowState /\ journal'[e].state \in RowState
    BY <2>1 DEF Row, RowState
  <2> QED BY <2>2, ToldStates
<1>4. \A e \in Recorded : e <= Cardinality(Recorded)
  BY RecordedPrefix
<1>5. CASE \A e \in Events : RowKept(e) \/ RowLearns(e)
  <2>1. ASSUME NEW e \in Events
        PROVE  \/ toldNext[e] = told[e]
               \/ /\ e <= Cardinality(Recorded) /\ told[e] = "NONE"
                  /\ toldNext[e] \in Contract!Verdicts(e)
    <3>1. CASE RowKept(e)
      BY <3>1 DEF RowKept
    <3>2. CASE RowLearns(e)
      <4>1. e \in Recorded /\ toldNext[e] \in Contract!Verdicts(e)
        BY <3>2 DEF RowLearns, Recorded
      <4>2. told[e] = "NONE"
        BY <1>3, <3>2, ToldStates DEF RowLearns
      <4> QED BY <1>4, <4>1, <4>2
    <3> QED BY <1>5, <3>1, <3>2
  <2>2. toldNext \in [Events -> {"NONE", "APPLIED", "CONFLICT", "GIVEN_UP", "FORGOTTEN"}]
    BY <1>3
  <2>3. Contract!Learn
    BY <1>1, <1>2, <2>1, <2>2 DEF Contract!Learn, Contract!Events, Contract!Verdicts, Events, Told, Recorded
  <2> QED BY <2>3
<1>6. CASE \A e \in Events : RowKept(e) \/ RowForgets(e)
  <2> DEFINE S == {e \in Events : ~RowKept(e)}
  <2>1. \A e \in S : told[e] \in {"APPLIED", "GIVEN_UP"} /\ inbox[e] # "NONE"
                     /\ toldNext[e] = "FORGOTTEN"
    BY <1>6, ToldStates DEF RowForgets
  <2>2. toldNext = [e \in Events |-> IF e \in S THEN "FORGOTTEN" ELSE told[e]]
    BY <2>1 DEF RowKept
  <2>3. S \in SUBSET Events
    OBVIOUS
  <2> HIDE DEF S
  <2>4. Contract!Forget
    BY <1>1, <1>2, <2>1, <2>2, <2>3 DEF Contract!Forget, Contract!Events, Events, Told, Recorded
  <2> QED BY <2>4
<1> QED BY <1>1, <1>5, <1>6 DEF RowsMove

LEMMA RecordRefines ==
    ASSUME IInv, NEW e \in Events, Record(e)
    PROVE  Contract!Record
<1>1. IInv' /\ Recorded' = Recorded \cup {e} /\ e \notin Recorded /\ inbox' = inbox
  BY RecordStep DEF Record, service
<1>2. Cardinality(Recorded) \in 0..MaxEvents /\ Cardinality(Recorded') \in 0..MaxEvents
      /\ Cardinality(Recorded') = Cardinality(Recorded) + 1
  <2>1. IsFiniteSet(Events)
    BY PushAssumption, FS_Interval DEF Events
  <2>2. IsFiniteSet(Recorded) /\ IsFiniteSet(Recorded')
    BY <1>1, <2>1, FS_Subset DEF Recorded
  <2>3. Cardinality(Recorded') = Cardinality(Recorded) + 1
    BY <1>1, <2>2, FS_AddElement
  <2>4. Cardinality(Recorded) \in 0..MaxEvents
    BY RecordedPrefix
  <2>5. Cardinality(Recorded') \in 0..MaxEvents
    <3>1. Recorded' \in SUBSET Events /\ \A x \in Recorded' : \A d \in 1..(x - 1) : d \in Recorded'
      BY <1>1 DEF IInv, Recorded
    <3> QED BY <3>1, PrefixOfEvents
  <2> QED BY <2>3, <2>4, <2>5
<1>3. Cardinality(Recorded) < MaxEvents
  BY <1>2, PushAssumption
<1>4. [d \in Events |-> Told(journal'[d].state)] = [d \in Events |-> Told(journal[d].state)]
  <2>1. ASSUME NEW d \in Events PROVE Told(journal'[d].state) = Told(journal[d].state)
    <3>1. journal[d] \in Row
      BY DEF IInv, TypeOK
    <3>2. journal' = [journal EXCEPT ![e] = [journal[e] EXCEPT !.state = "PENDING"]]
      BY DEF Record
    <3>3. CASE d = e
      <4>1. journal'[d].state = "PENDING" /\ journal[d].state = "NONE"
        BY <3>1, <3>2, <3>3, SMT DEF IInv, TypeOK, Row, Record
      <4> QED BY <4>1, ToldStates
    <3>4. CASE d # e
      BY <3>2, <3>4 DEF IInv, TypeOK
    <3> QED BY <3>3, <3>4
  <2> QED BY <2>1
<1> QED BY <1>1, <1>2, <1>3, <1>4 DEF Contract!Record, Recorded, Told

LEMMA PushNewRefines ==
    ASSUME IInv, NEW r \in Runs, PushNew(r)
    PROVE  \E e \in Contract!Events : Contract!Classify(e)
<1>1. PICK e \in Recorded, o \in Outcomes :
        /\ inbox[e] = "NONE" /\ e = checkpoint + 1
        /\ inbox' = [inbox EXCEPT ![e] = o] /\ UNCHANGED device
  BY PushNewDoes
<1>2. e <= Cardinality(Recorded) /\ e \in Contract!Events
  BY RecordedPrefix DEF Recorded, Events, Contract!Events
<1>3. \A d \in 1..(e - 1) : inbox[d] # "NONE"
  <2>1. checkpoint \in 0..MaxEvents /\ MaxEvents \in Nat
    BY PushAssumption DEF IInv, TypeOK
  <2>2. \A d \in 1..(e - 1) : d \in Events /\ d <= checkpoint
    BY <1>1, <2>1 DEF Events
  <2> QED BY <2>2 DEF IInv
<1>4. journal' = journal
  BY <1>1 DEF device
<1>5. Contract!Classify(e)
  BY <1>1, <1>2, <1>3, <1>4 DEF Contract!Classify, Contract!Outcomes, Outcomes, Recorded
<1> QED BY <1>2, <1>5

LEMMA RefinesStep == IInv /\ [Next]_vars => [Contract!Next]_(Contract!vars)
<1> SUFFICES ASSUME IInv, [Next]_vars PROVE [Contract!Next]_(Contract!vars)
  OBVIOUS
<1>1. CASE UNCHANGED vars
  BY <1>1 DEF vars, Contract!vars
<1>2. CASE DeviceStep
  BY <1>2, DeviceRefines DEF Contract!Next
<1>3. ASSUME NEW e \in Events, Record(e) PROVE Contract!Next
  BY <1>3, RecordRefines DEF Contract!Next
<1>4. ASSUME NEW r \in Runs, PushNew(r) PROVE Contract!Next
  BY <1>4, PushNewRefines DEF Contract!Next
<1> QED BY <1>1, <1>2, <1>3, <1>4, StepKinds

\* With leases, retries, lost answers and late requests, the push does only what
\* the delivery contract allows: it classifies each intent once and in order, and
\* what the device was told is never replaced and only forgotten once answered.
THEOREM PushKeepsContract == Spec => KeepsContract
BY RefinesInit, RefinesStep, PushInvariant, PTL DEF Spec, KeepsContract, Contract!Spec
=============================================================================
