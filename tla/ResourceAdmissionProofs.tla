----------------------- MODULE ResourceAdmissionProofs -----------------------
(***************************************************************************)
(* Proofs about resource admission: for any operations, limits, permits,   *)
(* targets and deadlines, the capacity handed out stays within its limits, *)
(* whatever leases lapse and whatever processes they leave behind.         *)
(***************************************************************************)
EXTENDS ResourceAdmission, FiniteSetTheorems, TLAPS

(***************************************************************************)
(* Rows, and how an operation may move one.                                *)
(***************************************************************************)
Slot == PermitRow \cup {NoPermit}

LiveRow(row) == row # NoPermit /\ (row.left > 0 \/ row.exec \in Unclosed)
UnclosedRow(row) == row # NoPermit /\ row.exec \in Unclosed

\* Two rows speak of one grant to one attempt: two of an operation, two of a permit, or
\* one of each.
SameGrant(r, s) == r.activation = s.activation /\ r.attempt = s.attempt
USE DEF SameGrant

LEMMA NoPermitIsNoRow == \A row \in PermitRow : row # NoPermit
<1>1. SUFFICES ASSUME NEW row \in PermitRow PROVE row # NoPermit
  OBVIOUS
<1>2. DOMAIN row # {"op"}
  BY SMT DEF PermitRow
<1>3. DOMAIN NoPermit = {"op"}
  BY SMT DEF NoPermit
<1> QED BY <1>2, <1>3

\* s gives the operation nothing that r did not give it.
Shrinks(r, s) ==
    /\ s \in OpRow
    /\ s.state = "ACTIVE" => r.state = "ACTIVE" /\ SameGrant(r, s)
    /\ ActiveRow(s) => ActiveRow(r)
    /\ s.state = "WAITING" => r.state = "WAITING"
    /\ s.attached \subseteq r.attached

LEMMA ShrinksReflexive ==
    ASSUME NEW r \in OpRow PROVE Shrinks(r, r)
BY DEF Shrinks

LEMMA ShrinksTransitive ==
    ASSUME NEW r \in OpRow, NEW s, NEW t, Shrinks(r, s), Shrinks(s, t)
    PROVE  Shrinks(r, t)
BY DEF Shrinks

\* A row that is given no state in which it holds or wants capacity.
LEMMA EndedShrinks ==
    ASSUME NEW r \in OpRow, NEW st \in {"EXPIRED", "RELEASED"}
    PROVE  Shrinks(r, [r EXCEPT !.state = st])
BY SMT DEF Shrinks, OpRow, AdmissionState, ActiveRow

LEMMA ExpireShrinks ==
    ASSUME NEW r \in OpRow, NEW o PROVE Shrinks(r, Expire(o, r))
BY ShrinksReflexive, EndedShrinks DEF Expire

LEMMA RefreshedShrinks ==
    ASSUME NEW r \in OpRow, NEW o PROVE Shrinks(r, Refreshed(o, r))
<1>1. WaitingTTL \in Nat
  BY ResourceAssumption
<1>2. Shrinks(r, [r EXCEPT !.waiting_left = WaitingTTL])
  BY <1>1, SMT DEF Shrinks, OpRow, ActiveRow
<1> QED BY <1>2, ShrinksReflexive DEF Refreshed

LEMMA ReboundShrinks ==
    ASSUME NEW r \in OpRow, NEW o, jobs \in [WorkerOps -> JobView]
    PROVE  Shrinks(r, Rebound(o, r))
<1>1. CASE o \in WorkerOps /\ r.attempt # jobs[o].attempt
  <2>1. \A n \in Nat, st \in AdmissionState : [r EXCEPT !.attempt = n, !.state = st] \in OpRow
    BY DEF OpRow
  <2>2. jobs[o].attempt \in Nat
    BY <1>1 DEF JobView
  <2>3. (IF r.state = "ACTIVE" THEN "EXPIRED" ELSE r.state) \in AdmissionState
    BY DEF OpRow, AdmissionState
  <2>4. Rebound(o, r) \in OpRow
    BY <1>1, <2>1, <2>2, <2>3 DEF Rebound
  <2> QED BY <1>1, <2>4, SMT DEF Rebound, Shrinks, OpRow, ActiveRow
<1>2. CASE ~(o \in WorkerOps /\ r.attempt # jobs[o].attempt)
  BY <1>2, ShrinksReflexive DEF Rebound
<1> QED BY <1>1, <1>2

\* The lease of an active operation is extended.
LEMMA ExtendedShrinks ==
    ASSUME NEW r \in OpRow, ActiveRow(r)
    PROVE  Shrinks(r, [r EXCEPT !.claimed = TRUE, !.lease_left = LeaseTTL])
<1>1. LeaseTTL \in Nat
  BY ResourceAssumption
<1>2. \A c \in BOOLEAN, n \in Nat : [r EXCEPT !.claimed = c, !.lease_left = n] \in OpRow
  BY DEF OpRow
<1>3. [r EXCEPT !.claimed = TRUE, !.lease_left = LeaseTTL] \in OpRow
  BY <1>1, <1>2
<1> QED BY <1>3, SMT DEF Shrinks, OpRow, ActiveRow

LEMMA LessType == ASSUME NEW n \in Nat PROVE Less(n) \in Nat /\ Less(n) <= n
BY DEF Less

Ticked(r) == [r EXCEPT !.lease_left = Less(@), !.claim_left = Less(@), !.waiting_left = Less(@)]

LEMMA TickedShrinks ==
    ASSUME NEW r \in OpRow PROVE Shrinks(r, Ticked(r))
<1>1. \A a, b, c \in Nat : [r EXCEPT !.lease_left = a, !.claim_left = b, !.waiting_left = c] \in OpRow
  BY DEF OpRow
<1>2. /\ r.lease_left \in Nat /\ r.claim_left \in Nat /\ r.waiting_left \in Nat
      /\ Less(r.lease_left) \in Nat /\ Less(r.lease_left) <= r.lease_left
      /\ Less(r.claim_left) \in Nat /\ Less(r.claim_left) <= r.claim_left
      /\ Less(r.waiting_left) \in Nat
  BY LessType DEF OpRow
<1>3. Ticked(r) \in OpRow
  BY <1>1, <1>2 DEF Ticked
<1>4. /\ Ticked(r).lease_left = Less(r.lease_left) /\ Ticked(r).claim_left = Less(r.claim_left)
      /\ Ticked(r).state = r.state /\ Ticked(r).claimed = r.claimed
      /\ SameGrant(r, Ticked(r)) /\ Ticked(r).attached = r.attached
  BY SMT DEF Ticked, OpRow
<1> QED BY <1>2, <1>3, <1>4, SMT DEF Shrinks, ActiveRow

LEMMA AbsentShrinks ==
    ASSUME NEW r \in OpRow PROVE Shrinks(r, AbsentOp)
BY SMT DEF Shrinks, OpRow, AbsentOp, AdmissionState, ActiveRow

(***************************************************************************)
(* Permits, and how an operation may move one.                             *)
(***************************************************************************)
\* s keeps no one alive whom r did not keep alive, for the same grant.
Drains(r, s) ==
    /\ s \in Slot
    /\ LiveRow(s) => /\ LiveRow(r) /\ s.op = r.op
                     /\ SameGrant(r, s) /\ s.target = r.target
    /\ UnclosedRow(s) => UnclosedRow(r)

LEMMA DrainsReflexive ==
    ASSUME NEW r \in Slot PROVE Drains(r, r)
BY DEF Drains

LEMMA RemovedDrains ==
    ASSUME NEW r PROVE Drains(r, NoPermit)
BY DEF Drains, Slot, LiveRow, UnclosedRow

\* A row that was live, or whose execution was unclosed, if the new one is.
LEMMA WrittenDrains ==
    ASSUME NEW r \in PermitRow, NEW s \in PermitRow,
           s.op = r.op, SameGrant(r, s), s.target = r.target,
           LiveRow(s) => LiveRow(r), s.exec \in Unclosed => r.exec \in Unclosed
    PROVE  Drains(r, s)
BY NoPermitIsNoRow DEF Drains, Slot, UnclosedRow

LEMMA RenewedDrains ==
    ASSUME NEW r \in PermitRow, r.left > 0
    PROVE  /\ Drains(r, [r EXCEPT !.left = PermitTTL])
           /\ Drains(r, [r EXCEPT !.left = PermitTTL, !.beat_left = HeartbeatTTL])
           /\ [r EXCEPT !.left = PermitTTL, !.beat_left = HeartbeatTTL] # NoPermit
<1>1. PermitTTL \in Nat /\ HeartbeatTTL \in Nat
  BY ResourceAssumption
<1>2. \A n \in Nat : [r EXCEPT !.left = n] \in PermitRow
  BY DEF PermitRow
<1>3. \A n, b \in Nat : [r EXCEPT !.left = n, !.beat_left = b] \in PermitRow
  BY DEF PermitRow
<1>4. /\ [r EXCEPT !.left = PermitTTL] \in PermitRow
      /\ [r EXCEPT !.left = PermitTTL, !.beat_left = HeartbeatTTL] \in PermitRow
  BY <1>1, <1>2, <1>3
<1>5. LiveRow(r)
  BY NoPermitIsNoRow DEF LiveRow
<1>6. Drains(r, [r EXCEPT !.left = PermitTTL])
  <2> DEFINE s == [r EXCEPT !.left = PermitTTL]
  <2>1. s.op = r.op /\ SameGrant(r, s) /\ s.target = r.target /\ s.exec = r.exec
    BY SMT DEF PermitRow
  <2> QED BY <1>4, <1>5, <2>1, WrittenDrains
<1>7. Drains(r, [r EXCEPT !.left = PermitTTL, !.beat_left = HeartbeatTTL])
  <2> DEFINE s == [r EXCEPT !.left = PermitTTL, !.beat_left = HeartbeatTTL]
  <2>1. s.op = r.op /\ SameGrant(r, s) /\ s.target = r.target /\ s.exec = r.exec
    BY SMT DEF PermitRow
  <2> QED BY <1>4, <1>5, <2>1, WrittenDrains
<1> QED BY <1>4, <1>6, <1>7, NoPermitIsNoRow

\* An execution that is unclosed moves on, or is closed.
LEMMA ExecutedDrains ==
    ASSUME NEW r \in PermitRow, r.exec \in Unclosed
    PROVE  /\ Drains(r, [r EXCEPT !.beat_left = HeartbeatTTL])
           /\ Drains(r, [r EXCEPT !.exec = "RUNNING", !.started = TRUE,
                                  !.beat_left = HeartbeatTTL])
           /\ [r EXCEPT !.exec = "RUNNING", !.started = TRUE,
                        !.beat_left = HeartbeatTTL] # NoPermit
           /\ \A exec \in {"STOPPING", "ORPHANED", "CLOSED"} : Drains(r, [r EXCEPT !.exec = exec])
<1> DEFINE Exec == Unclosed \cup {"NONE", "CLOSED"}
<1>1. HeartbeatTTL \in Nat
  BY ResourceAssumption
<1>2. LiveRow(r)
  BY NoPermitIsNoRow DEF LiveRow
<1>3. Drains(r, [r EXCEPT !.beat_left = HeartbeatTTL])
  <2> DEFINE s == [r EXCEPT !.beat_left = HeartbeatTTL]
  <2>1. \A b \in Nat : [r EXCEPT !.beat_left = b] \in PermitRow
    BY DEF PermitRow
  <2>2. s.op = r.op /\ SameGrant(r, s) /\ s.target = r.target /\ s.exec = r.exec
    BY SMT DEF PermitRow
  <2>3. s \in PermitRow
    BY <1>1, <2>1
  <2> QED BY <1>2, <2>2, <2>3, WrittenDrains
<1>4. LET s == [r EXCEPT !.exec = "RUNNING", !.started = TRUE, !.beat_left = HeartbeatTTL]
      IN  Drains(r, s) /\ s # NoPermit
  <2> DEFINE s == [r EXCEPT !.exec = "RUNNING", !.started = TRUE, !.beat_left = HeartbeatTTL]
  <2>1. \A e \in Exec, w \in BOOLEAN, b \in Nat :
          [r EXCEPT !.exec = e, !.started = w, !.beat_left = b] \in PermitRow
    BY DEF PermitRow
  <2>2. s.op = r.op /\ SameGrant(r, s) /\ s.target = r.target
    BY SMT DEF PermitRow
  <2>3. "RUNNING" \in Exec
    BY DEF Unclosed
  <2>4. s \in PermitRow
    BY <1>1, <2>1, <2>3
  <2> QED BY <1>2, <2>2, <2>4, WrittenDrains, NoPermitIsNoRow
<1>5. ASSUME NEW exec \in {"STOPPING", "ORPHANED", "CLOSED"}
      PROVE  Drains(r, [r EXCEPT !.exec = exec])
  <2> DEFINE s == [r EXCEPT !.exec = exec]
  <2>1. \A e \in Exec : [r EXCEPT !.exec = e] \in PermitRow
    BY DEF PermitRow
  <2>2. s.op = r.op /\ SameGrant(r, s) /\ s.target = r.target
    BY SMT DEF PermitRow
  <2>3. exec \in Exec
    BY DEF Unclosed
  <2>4. s \in PermitRow
    BY <2>1, <2>3
  <2> QED BY <1>2, <2>2, <2>4, WrittenDrains
<1> QED BY <1>3, <1>4, <1>5

LEMMA OrphanedDrains ==
    ASSUME NEW r \in Slot PROVE Drains(r, Orphaned(r))
<1>1. CASE r # NoPermit /\ r.exec \in Unclosed /\ r.beat_left = 0
  BY <1>1, ExecutedDrains DEF Orphaned, Slot
<1>2. CASE ~(r # NoPermit /\ r.exec \in Unclosed /\ r.beat_left = 0)
  BY <1>2, DrainsReflexive DEF Orphaned
<1> QED BY <1>1, <1>2

LEMMA AgedDrains ==
    ASSUME NEW r \in PermitRow
    PROVE  Drains(r, [r EXCEPT !.left = Less(@), !.beat_left = Less(@)])
<1> DEFINE s == [r EXCEPT !.left = Less(@), !.beat_left = Less(@)]
<1>1. \A n, b \in Nat : [r EXCEPT !.left = n, !.beat_left = b] \in PermitRow
  BY DEF PermitRow
<1>2. /\ r.left \in Nat /\ Less(r.left) \in Nat /\ Less(r.left) <= r.left
      /\ Less(r.beat_left) \in Nat
  BY LessType DEF PermitRow
<1>3. s \in PermitRow
  BY <1>1, <1>2
<1>4. /\ s.op = r.op /\ SameGrant(r, s) /\ s.target = r.target
      /\ s.exec = r.exec /\ s.left = Less(r.left)
  BY SMT DEF PermitRow
<1>5. LiveRow(s) => LiveRow(r)
  BY <1>2, <1>4, NoPermitIsNoRow, SMT DEF LiveRow
<1> HIDE DEF s
<1>6. Drains(r, s)
  BY <1>3, <1>4, <1>5, WrittenDrains
<1> QED BY <1>6 DEF s

(***************************************************************************)
(* The invariant.                                                          *)
(***************************************************************************)
Demand == {o \in Ops : op[o].state = "WAITING"}

\* Demand is only accepted as long as the bound leaves it a grant.
GrantBudget == grant_sequence + Cardinality(Demand) <= MaxGrants

\* The rows alone already keep two writers of a kind apart, running or not.
ExecutionsExclude ==
    \A p, q \in Permits :
       (/\ p # q /\ UnclosedRow(permit[p]) /\ UnclosedRow(permit[q])
        /\ permit[p].op \notin Streams
        /\ ExecKind(permit[p].op) = ExecKind(permit[q].op))
          => permit[p].target # permit[q].target

\* A process lives only under an execution that is not closed.
ChildrenUnclosed ==
    \A p \in Permits : child[p] \in {"SPAWNED", "WORKING", "LOST"} => UnclosedRow(permit[p])

\* Whatever is live of an active operation is of its grant, opened by its attempt.
IoIsCurrent ==
    \A o \in Ops : op[o].state = "ACTIVE" =>
       \A p \in LivePermits(o) : SameGrant(permit[p], op[o])

IInv ==
    /\ TypeOK
    /\ GrantBudget
    /\ CapacityNeverExceeded
    /\ IoIsCurrent
    /\ ExecutionsExclude
    /\ ChildrenUnclosed
    /\ TwoRecordingsPerPlayback

LEMMA LiveOf ==
    ASSUME NEW o
    PROVE  /\ LivePermits(o) = {p \in Permits : LiveRow(permit[p]) /\ permit[p].op = o}
           /\ LivePermits(o)' = {p \in Permits : LiveRow(permit'[p]) /\ permit'[p].op = o}
BY DEF LivePermits, PermitsOf, Held, ExecUnclosed, LiveRow

LEMMA UnclosedOf ==
    \A p \in Permits : ExecUnclosed(p) <=> UnclosedRow(permit[p])
BY DEF ExecUnclosed, Held, UnclosedRow

\* What an operation holds: its attached recordings and those it drains from.
Draw(o) == op[o].attached \cup {permit[p].target : p \in LivePermits(o)}

LEMMA DrawFinite ==
    ASSUME TypeOK, NEW o \in Ops
    PROVE  Draw(o) \subseteq Targets /\ IsFiniteSet(Draw(o))
<1>1. op[o].attached \subseteq Targets
  BY DEF TypeOK, OpRow
<1>2. \A p \in LivePermits(o) : permit[p].target \in Targets
  BY LiveOf DEF TypeOK, PermitRow, LiveRow
<1>3. Draw(o) \subseteq Targets
  BY <1>1, <1>2 DEF Draw
<1> QED BY <1>3, ResourceAssumption, FS_Subset

\* No operation is newly charged: every limit still holds.
LEMMA CapacityKept ==
    ASSUME CapacityNeverExceeded, \A o \in Ops : Charged(o)' => Charged(o)
    PROVE  CapacityNeverExceeded'
<1>1. ASSUME NEW S, NEW T, S \subseteq T, T \subseteq Ops
      PROVE  /\ Cardinality(S) \in Nat /\ Cardinality(T) \in Nat
             /\ Cardinality(S) <= Cardinality(T)
  <2>1. IsFiniteSet(T)
    BY <1>1, ResourceAssumption, FS_Subset
  <2> QED BY <1>1, <2>1, FS_Subset, FS_CardinalityType
<1>2. SUFFICES ASSUME NEW k \in Kinds
      PROVE  /\ Cardinality(ChargedOps(k)') <= GlobalLimit[k]
             /\ \A u \in Users : AccountUse(u, k)' <= AccountLimit[k]
             /\ \A d \in Devices : DeviceUse(d, k)' <= DeviceLimit[k]
  BY DEF CapacityNeverExceeded
<1>3. GlobalLimit[k] \in Nat /\ AccountLimit[k] \in Nat /\ DeviceLimit[k] \in Nat
  BY ResourceAssumption
<1>4. ChargedOps(k)' \subseteq ChargedOps(k) /\ ChargedOps(k) \subseteq Ops
  BY DEF ChargedOps
<1>5. Cardinality(ChargedOps(k)') <= GlobalLimit[k]
  <2>1. Cardinality(ChargedOps(k)) <= GlobalLimit[k]
    BY DEF CapacityNeverExceeded
  <2>2. /\ Cardinality(ChargedOps(k)') \in Nat /\ Cardinality(ChargedOps(k)) \in Nat
        /\ Cardinality(ChargedOps(k)') <= Cardinality(ChargedOps(k))
    BY <1>1, <1>4
  <2> QED BY <1>3, <2>1, <2>2
<1>6. ASSUME NEW u \in Users PROVE AccountUse(u, k)' <= AccountLimit[k]
  <2> DEFINE S == {o \in ChargedOps(k) : UserOf[o] = u}
             T == {o \in ChargedOps(k)' : UserOf[o] = u}
  <2>1. AccountUse(u, k) = Cardinality(S) /\ AccountUse(u, k)' = Cardinality(T)
    BY DEF AccountUse
  <2>2. Cardinality(S) <= AccountLimit[k]
    BY <2>1 DEF CapacityNeverExceeded
  <2>3. T \subseteq S /\ S \subseteq Ops
    BY <1>4
  <2>4. Cardinality(T) \in Nat /\ Cardinality(S) \in Nat /\ Cardinality(T) <= Cardinality(S)
    BY <1>1, <2>3
  <2> QED BY <1>3, <2>1, <2>2, <2>4
<1>7. ASSUME NEW d \in Devices PROVE DeviceUse(d, k)' <= DeviceLimit[k]
  <2> DEFINE S == {o \in ChargedOps(k) : DeviceOf[o] = d}
             T == {o \in ChargedOps(k)' : DeviceOf[o] = d}
  <2>1. DeviceUse(d, k) = Cardinality(S) /\ DeviceUse(d, k)' = Cardinality(T)
    BY DEF DeviceUse
  <2>2. Cardinality(S) <= DeviceLimit[k]
    BY <2>1 DEF CapacityNeverExceeded
  <2>3. T \subseteq S /\ S \subseteq Ops
    BY <1>4
  <2>4. Cardinality(T) \in Nat /\ Cardinality(S) \in Nat /\ Cardinality(T) <= Cardinality(S)
    BY <1>1, <2>3
  <2> QED BY <1>3, <2>1, <2>2, <2>4
<1> QED BY <1>5, <1>6, <1>7

\* A smaller demand and no grant.
LEMMA BudgetKept ==
    ASSUME TypeOK, GrantBudget, grant_sequence' = grant_sequence, Demand' \subseteq Demand
    PROVE  GrantBudget'
<1>1. IsFiniteSet(Demand)
  BY ResourceAssumption, FS_Subset DEF Demand
<1>2. /\ Cardinality(Demand') <= Cardinality(Demand)
      /\ Cardinality(Demand') \in Nat /\ Cardinality(Demand) \in Nat
  BY <1>1, FS_Subset, FS_CardinalityType
<1>3. grant_sequence \in Nat /\ MaxGrants \in Nat
  BY ResourceAssumption DEF TypeOK
<1>4. grant_sequence + Cardinality(Demand) <= MaxGrants
  BY DEF GrantBudget
<1>5. grant_sequence' + Cardinality(Demand') <= MaxGrants
  BY <1>2, <1>3, <1>4
<1> QED BY <1>5 DEF GrantBudget

\* A playback that holds no other recordings than before.
LEMMA DrawKept ==
    ASSUME TypeOK, TwoRecordingsPerPlayback,
           \A o \in Ops : KindOf[o] = "PLAYBACK" => Draw(o)' \subseteq Draw(o)
    PROVE  TwoRecordingsPerPlayback'
<1> SUFFICES ASSUME NEW o \in Ops, KindOf[o] = "PLAYBACK"
             PROVE  Cardinality(Draw(o)') <= 2
  BY DEF TwoRecordingsPerPlayback, Draw
<1>1. Cardinality(Draw(o)) <= 2
  BY DEF TwoRecordingsPerPlayback, Draw
<1>2. /\ Cardinality(Draw(o)') <= Cardinality(Draw(o))
      /\ Cardinality(Draw(o)) \in Nat /\ Cardinality(Draw(o)') \in Nat
  BY DrawFinite, FS_Subset, FS_CardinalityType
<1> QED BY <1>1, <1>2

(***************************************************************************)
(* A step that gives nothing: rows shrink and permits drain.               *)
(***************************************************************************)
RowsShrink ==
    /\ op' = [o \in Ops |-> op'[o]] /\ \A o \in Ops : Shrinks(op[o], op'[o])
    /\ grant_sequence' = grant_sequence

PermitsDrain ==
    /\ permit' = [p \in Permits |-> permit'[p]]
    /\ \A p \in Permits : Drains(permit[p], permit'[p])

\* The other variables keep their types, and children their executions.
WorldOK ==
    /\ ahead \in [Ops -> SUBSET Ops]
    /\ last_grant \in [Users -> [Kinds -> Nat]]
    /\ child \in [Permits -> ChildState]
    /\ jobs \in [WorkerOps -> JobView]
    /\ revoked \subseteq Users /\ withdrawn \subseteq Ops
    /\ advancing \in BOOLEAN
    /\ ChildrenUnclosed

LEMMA GivingNothing ==
    ASSUME IInv, RowsShrink, PermitsDrain, WorldOK'
    PROVE  IInv'
<1> USE DEF IInv, RowsShrink, PermitsDrain
<1>1. TypeOK'
  BY DEF TypeOK, WorldOK, Shrinks, Drains, Slot
<1>2. GrantBudget'
  <2>1. Demand' \subseteq Demand
    BY DEF Demand, Shrinks
  <2> QED BY <2>1, BudgetKept
<1>3. \A o \in Ops : LivePermits(o)' \subseteq LivePermits(o)
  BY LiveOf DEF Drains
<1>4. CapacityNeverExceeded'
  <2>1. \A o \in Ops : Charged(o)' => Charged(o)
    BY <1>3 DEF Charged, Shrinks
  <2> QED BY <2>1, CapacityKept
<1>5. IoIsCurrent'
  <2> SUFFICES ASSUME NEW o \in Ops, op'[o].state = "ACTIVE", NEW p \in LivePermits(o)'
               PROVE  SameGrant(permit'[p], op'[o])
    BY DEF IoIsCurrent
  <2>1. op[o].state = "ACTIVE" /\ SameGrant(op[o], op'[o])
    BY DEF Shrinks
  <2>2. p \in LivePermits(o) /\ p \in Permits /\ LiveRow(permit'[p])
    BY <1>3, LiveOf
  <2>3. SameGrant(permit[p], permit'[p])
    BY <2>2 DEF Drains
  <2> QED BY <2>1, <2>2, <2>3 DEF IoIsCurrent
<1>6. ExecutionsExclude'
  <2>1. \A p \in Permits : UnclosedRow(permit'[p]) =>
          /\ UnclosedRow(permit[p]) /\ permit'[p].op = permit[p].op
          /\ permit'[p].target = permit[p].target
    BY DEF Drains, UnclosedRow, LiveRow
  <2> QED BY <2>1 DEF ExecutionsExclude, ExecKind
<1>7. TwoRecordingsPerPlayback'
  <2>1. ASSUME NEW o \in Ops PROVE Draw(o)' \subseteq Draw(o)
    <3>1. op'[o].attached \subseteq op[o].attached
      BY DEF Shrinks
    <3>2. \A p \in LivePermits(o)' :
            p \in LivePermits(o) /\ permit'[p].target = permit[p].target
      BY <1>3, LiveOf DEF Drains
    <3> QED BY <3>1, <3>2 DEF Draw
  <2> QED BY <2>1, DrawKept
<1> QED BY <1>1, <1>2, <1>4, <1>5, <1>6, <1>7 DEF WorldOK

\* Rows and permits that stay as they are.
LEMMA RowsKept == ASSUME TypeOK, op' = op, grant_sequence' = grant_sequence PROVE RowsShrink
BY ShrinksReflexive DEF RowsShrink, TypeOK

LEMMA PermitsKept == ASSUME TypeOK, permit' = permit PROVE PermitsDrain
BY DrainsReflexive DEF PermitsDrain, TypeOK, Slot

\* One row changes.
LEMMA OneRowShrinks ==
    ASSUME TypeOK, NEW o \in Ops, NEW s, op' = [op EXCEPT ![o] = s], Shrinks(op[o], s),
           grant_sequence' = grant_sequence
    PROVE  RowsShrink
BY ShrinksReflexive DEF RowsShrink, TypeOK

LEMMA OnePermitDrains ==
    ASSUME TypeOK, NEW p \in Permits, NEW s, permit' = [permit EXCEPT ![p] = s],
           Drains(permit[p], s)
    PROVE  PermitsDrain
BY DrainsReflexive DEF PermitsDrain, TypeOK, Slot

\* Nothing but the rows of operations, or of permits, changes.
LEMMA WorldKept ==
    ASSUME IInv, PermitsDrain,
           UNCHANGED <<ahead, last_grant, world>>, advancing' \in BOOLEAN,
           \A p \in Permits : child[p] \in {"SPAWNED", "WORKING", "LOST"} => UnclosedRow(permit'[p])
    PROVE  WorldOK'
BY DEF IInv, TypeOK, WorldOK, world, ChildrenUnclosed

(***************************************************************************)
(* Requests and the scheduler's refusals: one row shrinks.                 *)
(***************************************************************************)
LEMMA OneRowStep ==
    ASSUME IInv, NEW o \in Ops, NEW s, op' = [op EXCEPT ![o] = s], Shrinks(op[o], s),
           UNCHANGED <<ahead, last_grant, grant_sequence, permit, world>>,
           advancing' \in BOOLEAN
    PROVE  IInv'
<1>1. RowsShrink
  BY OneRowShrinks DEF IInv
<1>2. PermitsDrain
  BY PermitsKept DEF IInv
<1>3. WorldOK'
  BY <1>2, WorldKept DEF IInv, ChildrenUnclosed
<1> QED BY <1>1, <1>2, <1>3, GivingNothing

LEMMA RequestStep ==
    ASSUME IInv, NEW o \in Ops,
           Poll(o) \/ Renew(o) \/ Release(o) \/ CancelWaiting(o) \/ Drop(o)
    PROVE  IInv'
<1>1. op[o] \in OpRow
  BY DEF IInv, TypeOK
<1>2. CASE Poll(o)
  <2>1. Shrinks(op[o], Refreshed(o, Expire(o, op[o])))
    <3>1. Shrinks(op[o], Expire(o, op[o]))
      BY <1>1, ExpireShrinks
    <3>2. Shrinks(Expire(o, op[o]), Refreshed(o, Expire(o, op[o])))
      BY <3>1, RefreshedShrinks DEF Shrinks
    <3> QED BY <1>1, <3>1, <3>2, ShrinksTransitive
  <2> QED BY <1>2, <2>1, OneRowStep DEF Poll, SaveAndAdvance
<1>3. CASE Renew(o)
  BY <1>1, <1>3, ExtendedShrinks, OneRowStep DEF Renew, SaveAndAdvance
<1>4. CASE Release(o)
  BY <1>1, <1>4, EndedShrinks, OneRowStep DEF Release, SaveAndAdvance
<1>5. CASE CancelWaiting(o)
  BY <1>1, <1>5, EndedShrinks, OneRowStep DEF CancelWaiting, SaveAndAdvance
<1>6. CASE Drop(o)
  <2>1. op' = [op EXCEPT ![o] = [op[o] EXCEPT !.state = "EXPIRED"]]
    BY <1>6 DEF Drop
  <2> QED BY <1>1, <1>6, <2>1, EndedShrinks, OneRowStep DEF Drop, IInv, TypeOK
<1> QED BY <1>2, <1>3, <1>4, <1>5, <1>6

(***************************************************************************)
(* Permits and executions.                                                 *)
(***************************************************************************)
LEMMA OnePermitStep ==
    ASSUME IInv, NEW p \in Permits, NEW s, SetPermit(p, s), Drains(permit[p], s),
           child[p] \in {"SPAWNED", "WORKING", "LOST"} => UnclosedRow(s)
    PROVE  IInv'
<1>1. permit' = [permit EXCEPT ![p] = s] /\ UNCHANGED <<op, ahead, last_grant, grant_sequence, advancing, world>>
  BY DEF SetPermit
<1>2. RowsShrink
  BY <1>1, RowsKept DEF IInv
<1>3. PermitsDrain
  BY <1>1, OnePermitDrains DEF IInv
<1>4. WorldOK'
  BY <1>1, <1>3, WorldKept DEF IInv, TypeOK, ChildrenUnclosed
<1> QED BY <1>2, <1>3, <1>4, GivingNothing

LEMMA HeldRow ==
    ASSUME TypeOK, NEW p \in Permits, Held(p) PROVE permit[p] \in PermitRow
BY DEF TypeOK, Held

LEMMA PermittedStep ==
    ASSUME IInv, NEW p \in Permits,
           \/ RenewIo(p) \/ RenewExecutionIo(p) \/ StartExecution(p)
           \/ HeartbeatExecution(p) \/ StopExecution(p) \/ ConfirmExecutionExit(p)
    PROVE  IInv'
<1> DEFINE r == permit[p]
           alive == child[p] \in {"SPAWNED", "WORKING", "LOST"}
<1>1. r \in PermitRow
  BY HeldRow DEF IInv, RenewIo, RenewExecutionIo, StartExecution, HeartbeatExecution,
        StopExecution, ConfirmExecutionExit, PermitValid, ExecUnclosed
<1>2. alive => UnclosedRow(r)
  BY DEF IInv, ChildrenUnclosed
<1>3. CASE RenewIo(p)
  <2> DEFINE s == [r EXCEPT !.left = PermitTTL]
  <2>1. SetPermit(p, s) /\ Drains(r, s)
    BY <1>1, <1>3, RenewedDrains DEF RenewIo, PermitValid
  <2>2. s.exec = r.exec /\ s # NoPermit
    BY <1>1, SMT DEF PermitRow, NoPermit
  <2> QED BY <1>2, <2>1, <2>2, OnePermitStep DEF UnclosedRow
<1>4. CASE RenewExecutionIo(p)
  <2> DEFINE s == [r EXCEPT !.left = PermitTTL, !.beat_left = HeartbeatTTL]
  <2>1. SetPermit(p, s) /\ Drains(r, s) /\ s # NoPermit
    BY <1>1, <1>4, RenewedDrains DEF RenewExecutionIo, PermitValid
  <2>2. s.exec = r.exec
    BY <1>1, SMT DEF PermitRow
  <2> QED BY <1>2, <2>1, <2>2, OnePermitStep DEF UnclosedRow
<1>5. CASE StartExecution(p)
  <2> DEFINE s == [r EXCEPT !.exec = "RUNNING", !.started = TRUE, !.beat_left = HeartbeatTTL]
  <2>1. r.exec \in Unclosed
    BY <1>5 DEF StartExecution, Unclosed
  <2>2. SetPermit(p, s) /\ Drains(r, s) /\ s # NoPermit
    BY <1>1, <1>5, <2>1, ExecutedDrains DEF StartExecution
  <2>3. s.exec = "RUNNING"
    BY <1>1, SMT DEF PermitRow
  <2> QED BY <2>2, <2>3, OnePermitStep DEF UnclosedRow, Unclosed
<1>6. CASE HeartbeatExecution(p)
  <2> DEFINE s == [r EXCEPT !.beat_left = HeartbeatTTL]
  <2>1. r.exec \in Unclosed
    BY <1>6 DEF HeartbeatExecution, Unclosed
  <2>2. SetPermit(p, s) /\ Drains(r, s)
    BY <1>1, <1>6, <2>1, ExecutedDrains DEF HeartbeatExecution
  <2>3. s.exec = r.exec /\ s # NoPermit
    BY <1>1, SMT DEF PermitRow, NoPermit
  <2> QED BY <2>1, <2>2, <2>3, OnePermitStep DEF UnclosedRow
<1>7. CASE StopExecution(p)
  <2> DEFINE s == [r EXCEPT !.exec = "STOPPING"]
  <2>1. r.exec \in Unclosed
    BY <1>7 DEF StopExecution, Unclosed
  <2>2. SetPermit(p, s) /\ Drains(r, s)
    BY <1>1, <1>7, <2>1, ExecutedDrains DEF StopExecution
  <2>3. s.exec = "STOPPING" /\ s # NoPermit
    BY <1>1, SMT DEF PermitRow, NoPermit
  <2> QED BY <2>2, <2>3, OnePermitStep DEF UnclosedRow, Unclosed
<1>8. CASE ConfirmExecutionExit(p)
  <2> DEFINE s == [r EXCEPT !.exec = "CLOSED"]
  <2>1. SetPermit(p, s) /\ Drains(r, s)
    BY <1>1, <1>8, ExecutedDrains DEF ConfirmExecutionExit, ExecUnclosed
  <2>2. ~alive
    BY <1>8 DEF ConfirmExecutionExit, ExitProof
  <2> QED BY <2>1, <2>2, OnePermitStep
<1> QED BY <1>3, <1>4, <1>5, <1>6, <1>7, <1>8

\* The slots of removed rows are freed, and no other child is touched.
LEMMA FreedKeepsChildren ==
    ASSUME IInv, NEW S, Freed(S),
           \A p \in Permits : UnclosedRow(permit[p]) => UnclosedRow(permit'[p])
    PROVE  child' \in [Permits -> ChildState] /\ ChildrenUnclosed'
<1>1. \A p \in Permits : child'[p] = child[p] \/ child'[p] = "NONE"
  BY DEF Freed
<1>2. child' \in [Permits -> ChildState]
  <2>1. child' = [p \in Permits |-> child'[p]]
    BY DEF Freed
  <2> QED BY <1>1, <2>1 DEF IInv, TypeOK, ChildState
<1> QED BY <1>1, <1>2 DEF IInv, ChildrenUnclosed

LEMMA CloseIoStep ==
    ASSUME IInv, NEW p \in Permits, CloseIo(p)
    PROVE  IInv'
<1>1. permit' = [permit EXCEPT ![p] = NoPermit] /\ ~UnclosedRow(permit[p])
  BY UnclosedOf DEF CloseIo
<1>2. RowsShrink
  BY RowsKept DEF IInv, CloseIo
<1>3. PermitsDrain
  BY <1>1, RemovedDrains, OnePermitDrains DEF IInv
<1>4. \A q \in Permits : UnclosedRow(permit[q]) => UnclosedRow(permit'[q])
  BY <1>1 DEF IInv, TypeOK
<1>5. child' \in [Permits -> ChildState] /\ ChildrenUnclosed'
  BY <1>4, FreedKeepsChildren DEF CloseIo
<1>6. WorldOK'
  BY <1>5 DEF CloseIo, WorldOK, IInv, TypeOK
<1> QED BY <1>2, <1>3, <1>6, GivingNothing

LEMMA OrphanedUnclosed ==
    ASSUME NEW r \in Slot, UnclosedRow(r) PROVE UnclosedRow(Orphaned(r))
<1>1. r \in PermitRow
  BY DEF Slot, UnclosedRow
<1>2. /\ [r EXCEPT !.exec = "ORPHANED"] # NoPermit
      /\ [r EXCEPT !.exec = "ORPHANED"].exec = "ORPHANED"
  BY <1>1, SMT DEF PermitRow, NoPermit
<1> QED BY <1>2 DEF Orphaned, UnclosedRow, Unclosed

\* The row the sweep leaves of an operation it does not remove.
Cleaned(o) == IF o \in WorkerOps /\ op[o].state = "WAITING" /\ ~IntentValid(o)
              THEN [op[o] EXCEPT !.state = "EXPIRED"] ELSE Expire(o, op[o])

LEMMA SweepStep ==
    ASSUME IInv, NEW S \in SUBSET Ops, Sweep(S)
    PROVE  IInv'
<1>1. /\ op' = [o \in Ops |-> IF o \in S THEN AbsentOp ELSE Cleaned(o)]
      /\ permit' = [p \in Permits |-> IF SpentPermit(p) THEN NoPermit ELSE Orphaned(permit[p])]
      /\ ahead' = [o \in Ops |-> IF o \in S THEN {} ELSE ahead[o] \ S]
      /\ Freed({p \in Permits : SpentPermit(p)})
  BY DEF Sweep, Cleaned
<1>2. \A o \in Ops : op[o] \in OpRow
  BY DEF IInv, TypeOK
<1>3. \A p \in Permits : permit[p] \in Slot
  BY DEF IInv, TypeOK, Slot
<1>4. RowsShrink
  <2>1. ASSUME NEW o \in Ops PROVE Shrinks(op[o], op'[o])
    <3>1. Shrinks(op[o], Cleaned(o))
      BY <1>2, EndedShrinks, ExpireShrinks DEF Cleaned
    <3> QED BY <1>1, <1>2, <3>1, AbsentShrinks
  <2>2. op' = [o \in Ops |-> op'[o]]
    BY <1>1
  <2> QED BY <2>1, <2>2 DEF RowsShrink, Sweep
<1>5. PermitsDrain
  <2>1. \A p \in Permits : Drains(permit[p], permit'[p])
    BY <1>1, <1>3, RemovedDrains, OrphanedDrains
  <2>2. permit' = [p \in Permits |-> permit'[p]]
    BY <1>1
  <2> QED BY <2>1, <2>2 DEF PermitsDrain
<1>6. \A p \in Permits : UnclosedRow(permit[p]) => UnclosedRow(permit'[p])
  BY <1>1, <1>3, OrphanedUnclosed, UnclosedOf DEF SpentPermit
<1>7. child' \in [Permits -> ChildState] /\ ChildrenUnclosed'
  BY <1>1, <1>6, FreedKeepsChildren
<1>8. ahead' \in [Ops -> SUBSET Ops]
  BY <1>1 DEF IInv, TypeOK
<1>9. WorldOK'
  BY <1>7, <1>8 DEF Sweep, WorldOK, IInv, TypeOK
<1> QED BY <1>4, <1>5, <1>9, GivingNothing

(***************************************************************************)
(* Withdrawal of authority, the jobs, the children and the clock.          *)
(***************************************************************************)
\* Nothing but what admission observes changes.
LEMMA WorldStep ==
    ASSUME IInv, UNCHANGED rows, child' \in [Permits -> ChildState], ChildrenUnclosed',
           jobs' \in [WorkerOps -> JobView], revoked' \subseteq Users, withdrawn' \subseteq Ops,
           advancing' \in BOOLEAN
    PROVE  IInv'
<1>1. RowsShrink /\ PermitsDrain
  BY RowsKept, PermitsKept DEF IInv, rows
<1>2. WorldOK'
  BY DEF WorldOK, IInv, TypeOK, rows
<1> QED BY <1>1, <1>2, GivingNothing

LEMMA ChildrenKept ==
    ASSUME IInv, UNCHANGED <<permit, child>>
    PROVE  child' \in [Permits -> ChildState] /\ ChildrenUnclosed'
BY DEF IInv, TypeOK, ChildrenUnclosed

LEMMA RevokeStep ==
    ASSUME IInv, NEW u \in Users, Revoke(u)
    PROVE  IInv'
<1>1. op' = [o \in Ops |-> IF UserOf[o] = u /\ op[o].state \in {"ACTIVE", "WAITING"}
                            THEN [op[o] EXCEPT !.state = "EXPIRED"] ELSE op[o]]
  BY DEF Revoke
<1>2. \A o \in Ops : op[o] \in OpRow
  BY DEF IInv, TypeOK
<1>3. RowsShrink
  <2>1. \A o \in Ops : Shrinks(op[o], op'[o])
    BY <1>1, <1>2, EndedShrinks, ShrinksReflexive
  <2>2. op' = [o \in Ops |-> op'[o]]
    BY <1>1
  <2> QED BY <2>1, <2>2 DEF RowsShrink, Revoke
<1>4. PermitsDrain
  BY PermitsKept DEF IInv, Revoke
<1>5. child' \in [Permits -> ChildState] /\ ChildrenUnclosed'
  BY ChildrenKept DEF Revoke
<1>6. WorldOK'
  BY <1>5 DEF Revoke, WorldOK, IInv, TypeOK
<1> QED BY <1>3, <1>4, <1>6, GivingNothing

LEMMA WithdrawStep ==
    ASSUME IInv, NEW o \in Ops, Withdraw(o)
    PROVE  IInv'
<1>1. child' \in [Permits -> ChildState] /\ ChildrenUnclosed'
  BY ChildrenKept DEF Withdraw, rows
<1> QED BY <1>1, WorldStep DEF Withdraw, IInv, TypeOK

LEMMA JobTypes ==
    ASSUME jobs \in [WorkerOps -> JobView], NEW o \in WorkerOps
    PROVE  /\ jobs[o] \in JobView /\ ReservationTTL \in Nat
           /\ [jobs[o] EXCEPT !.wake = TRUE, !.wake_left = ReservationTTL] \in JobView
           /\ [jobs[o] EXCEPT !.lease_left = JobLease] \in JobView
           /\ [jobs[o] EXCEPT !.lease_left = Less(@), !.wake_left = Less(@)] \in JobView
           /\ \A n \in Nat : [IdleJob EXCEPT !.state = "RUNNING", !.attempt = n,
                                             !.lease_left = JobLease] \in JobView
           /\ [IdleJob EXCEPT !.state = "RETRY_WAIT", !.attempt = jobs[o].attempt,
                              !.waiting = TRUE] \in JobView
           /\ \A st \in {"RETRY_WAIT", "ENDED"} :
                [IdleJob EXCEPT !.state = st, !.attempt = jobs[o].attempt] \in JobView
<1>1. jobs[o] \in JobView /\ ReservationTTL \in Nat /\ JobLease \in Nat
  BY ResourceAssumption
<1>2. jobs[o].attempt \in Nat /\ Less(jobs[o].lease_left) \in Nat /\ Less(jobs[o].wake_left) \in Nat
  BY <1>1, LessType DEF JobView
<1>3. \A r \in JobView, w \in BOOLEAN, a, b \in Nat :
        /\ [r EXCEPT !.wake = w, !.wake_left = a] \in JobView
        /\ [r EXCEPT !.lease_left = a] \in JobView
        /\ [r EXCEPT !.lease_left = a, !.wake_left = b] \in JobView
  BY DEF JobView
<1>4. \A a, b \in Nat :
        /\ [IdleJob EXCEPT !.state = "RUNNING", !.attempt = a, !.lease_left = b] \in JobView
        /\ [IdleJob EXCEPT !.state = "RETRY_WAIT", !.attempt = a, !.waiting = TRUE] \in JobView
        /\ \A st \in {"RETRY_WAIT", "ENDED"} :
             [IdleJob EXCEPT !.state = st, !.attempt = a] \in JobView
  <2>1. IdleJob \in JobView
    BY SMT DEF JobView, IdleJob
  <2>2. \A r \in JobView, st \in {"QUEUED", "RUNNING", "RETRY_WAIT", "ENDED"},
           w \in BOOLEAN, a, b \in Nat :
          /\ [r EXCEPT !.state = st, !.attempt = a, !.lease_left = b] \in JobView
          /\ [r EXCEPT !.state = st, !.attempt = a, !.waiting = w] \in JobView
          /\ [r EXCEPT !.state = st, !.attempt = a] \in JobView
    BY DEF JobView
  <2> QED BY <2>1, <2>2
<1>5. /\ [jobs[o] EXCEPT !.wake = TRUE, !.wake_left = ReservationTTL] \in JobView
      /\ [jobs[o] EXCEPT !.lease_left = JobLease] \in JobView
      /\ [jobs[o] EXCEPT !.lease_left = Less(@), !.wake_left = Less(@)] \in JobView
  BY <1>1, <1>2, <1>3
<1> QED BY <1>1, <1>2, <1>4, <1>5

LEMMA JobStep ==
    ASSUME IInv, NEW o \in WorkerOps,
           Job(o) \/ Wake(o)
    PROVE  IInv'
<1>1. jobs \in [WorkerOps -> JobView]
  BY DEF IInv, TypeOK
<1>2. PICK row : /\ row \in JobView /\ jobs' = [jobs EXCEPT ![o] = row]
                 /\ UNCHANGED <<rows, child, revoked, withdrawn, advancing>>
  <2>1. CASE Wake(o)
    <3>1. jobs' = [jobs EXCEPT ![o] = [jobs[o] EXCEPT !.wake = TRUE, !.wake_left = ReservationTTL]]
      BY <2>1 DEF Wake
    <3> QED BY <1>1, <2>1, <3>1, JobTypes DEF Wake
  <2>2. CASE JobClaim(o)
    <3>1. jobs[o].attempt + 1 \in Nat
      BY <1>1 DEF JobView
    <3> QED BY <1>1, <2>2, <3>1, JobTypes DEF JobClaim, JobMoves
  <2>3. CASE JobHeartbeat(o)
    BY <1>1, <2>3, JobTypes DEF JobHeartbeat, JobMoves
  <2>4. CASE JobDefer(o)
    BY <1>1, <2>4, JobTypes DEF JobDefer, JobMoves
  <2>5. CASE JobBackoff(o)
    BY <1>1, <2>5, JobTypes DEF JobBackoff, JobMoves
  <2>6. CASE JobEnds(o)
    BY <1>1, <2>6, JobTypes DEF JobEnds, JobMoves
  <2> QED BY <2>1, <2>2, <2>3, <2>4, <2>5, <2>6 DEF Job
<1>3. jobs' \in [WorkerOps -> JobView]
  BY <1>1, <1>2
<1>4. child' \in [Permits -> ChildState] /\ ChildrenUnclosed'
  BY <1>2, ChildrenKept DEF rows
<1> QED BY <1>2, <1>3, <1>4, WorldStep DEF IInv, TypeOK

LEMMA ChildMoves ==
    ASSUME IInv, NEW p \in Permits, Child(p)
    PROVE  IInv'
<1>1. PICK to \in ChildState : ChildStep(p, child[p], to)
          /\ (to \in {"SPAWNED", "WORKING", "LOST"} => UnclosedRow(permit[p]))
  <2>1. CASE Seal(p)
    BY <2>1 DEF Seal, ChildStep, ChildState
  <2>2. CASE Spawn(p)
    BY <2>2, UnclosedOf DEF Spawn, ChildStep, ChildState
  <2>3. CASE Go(p)
    BY <2>3 DEF Go, ChildStep, ChildState, IInv, ChildrenUnclosed
  <2>4. CASE ChildExits(p)
    BY <2>4 DEF ChildExits, ChildStep, ChildState
  <2>5. CASE HandleLost(p)
    BY <2>5, UnclosedOf DEF HandleLost, ChildStep, ChildState
  <2> QED BY <2>1, <2>2, <2>3, <2>4, <2>5 DEF Child
<1>2. child' = [child EXCEPT ![p] = to] /\ UNCHANGED <<rows, jobs, revoked, withdrawn, advancing>>
  BY <1>1 DEF ChildStep
<1>3. child' \in [Permits -> ChildState]
  BY <1>2 DEF IInv, TypeOK
<1>4. ChildrenUnclosed'
  BY <1>1, <1>2 DEF IInv, TypeOK, ChildrenUnclosed, rows
<1> QED BY <1>2, <1>3, <1>4, WorldStep DEF IInv, TypeOK

LEMMA TickStep ==
    ASSUME IInv, Tick
    PROVE  IInv'
<1> DEFINE Aged(r) == [r EXCEPT !.left = Less(@), !.beat_left = Less(@)]
<1>1. /\ op' = [o \in Ops |-> Ticked(op[o])]
      /\ permit' = [p \in Permits |-> IF Held(p) THEN Aged(permit[p]) ELSE NoPermit]
  BY DEF Tick, Ticked
<1>2. RowsShrink
  <2>1. \A o \in Ops : Shrinks(op[o], op'[o])
    BY <1>1, TickedShrinks DEF IInv, TypeOK
  <2>2. op' = [o \in Ops |-> op'[o]]
    BY <1>1
  <2> QED BY <2>1, <2>2 DEF RowsShrink, Tick
<1>3. ASSUME NEW p \in Permits
      PROVE  /\ Drains(permit[p], permit'[p])
             /\ UnclosedRow(permit[p]) => UnclosedRow(permit'[p])
  <2>1. CASE Held(p)
    <3>1. permit[p] \in PermitRow
      BY <2>1, HeldRow DEF IInv
    <3>2. permit'[p] = Aged(permit[p])
      BY <1>1, <2>1
    <3>3. Aged(permit[p]).exec = permit[p].exec /\ DOMAIN Aged(permit[p]) = DOMAIN permit[p]
      BY <3>1, SMT DEF PermitRow
    <3>4. DOMAIN permit[p] # DOMAIN NoPermit
      BY <3>1, SMT DEF PermitRow, NoPermit
    <3>5. Aged(permit[p]) # NoPermit
      BY <3>3, <3>4
    <3> HIDE DEF Aged
    <3>6. Drains(permit[p], Aged(permit[p]))
      BY <3>1, AgedDrains DEF Aged
    <3> QED BY <3>2, <3>3, <3>5, <3>6 DEF UnclosedRow
  <2>2. CASE ~Held(p)
    <3>1. permit[p] = NoPermit /\ permit'[p] = NoPermit
      BY <1>1, <2>2 DEF Held
    <3> QED BY <3>1, RemovedDrains DEF UnclosedRow
  <2> QED BY <2>1, <2>2
<1>4. PermitsDrain
  BY <1>1, <1>3 DEF PermitsDrain
<1>5. jobs' \in [WorkerOps -> JobView]
  <2>1. jobs' = [o \in WorkerOps |-> [jobs[o] EXCEPT !.lease_left = Less(@), !.wake_left = Less(@)]]
    BY DEF Tick
  <2> QED BY <2>1, JobTypes DEF IInv, TypeOK
<1>6. ChildrenUnclosed'
  BY <1>3 DEF Tick, IInv, ChildrenUnclosed
<1>7. WorldOK'
  BY <1>5, <1>6 DEF Tick, WorldOK, IInv, TypeOK
<1> QED BY <1>2, <1>4, <1>7, GivingNothing

(***************************************************************************)
(* Steps that give something: fresh demand, recordings, permits,           *)
(* executions and grants.                                                  *)
(***************************************************************************)
\* New demand waits: it holds nothing but what its permits hold.
LEMMA FreshDemand ==
    ASSUME IInv, NEW o \in Ops, NEW s \in OpRow, s.state = "WAITING", s.attached = {},
           grant_sequence + Cardinality(Demand) < MaxGrants,
           op' = [op EXCEPT ![o] = s], ahead' = Enqueued(o), advancing' = TRUE,
           UNCHANGED <<last_grant, grant_sequence, permit, world>>
    PROVE  IInv'
<1>1. op' \in [Ops -> OpRow] /\ op'[o] = s /\ \A x \in Ops \ {o} : op'[x] = op[x]
  BY DEF IInv, TypeOK
<1>2. TypeOK'
  <2>1. ahead' \in [Ops -> SUBSET Ops]
    BY DEF Enqueued, IInv, TypeOK
  <2> QED BY <1>1, <2>1 DEF IInv, TypeOK, world
<1>3. GrantBudget'
  <2>1. Demand' = Demand \cup {o}
    BY <1>1 DEF Demand
  <2>2. IsFiniteSet(Demand)
    BY ResourceAssumption, FS_Subset DEF Demand
  <2>3. Cardinality(Demand) \in Nat /\ Cardinality(Demand') \in Nat
        /\ Cardinality(Demand') <= Cardinality(Demand) + 1
    <3>1. Cardinality(Demand) \in Nat
      BY <2>2, FS_CardinalityType
    <3>2. Cardinality(Demand \cup {o}) = IF o \in Demand THEN Cardinality(Demand)
                                                          ELSE Cardinality(Demand) + 1
      BY <2>2, FS_AddElement
    <3> QED BY <2>1, <3>1, <3>2
  <2>4. grant_sequence \in Nat /\ MaxGrants \in Nat /\ grant_sequence' = grant_sequence
    BY ResourceAssumption DEF IInv, TypeOK
  <2>5. grant_sequence' + Cardinality(Demand') <= MaxGrants
    BY <2>3, <2>4
  <2> QED BY <2>5 DEF GrantBudget
<1>4. \A x \in Ops : LivePermits(x)' = LivePermits(x)
  BY LiveOf
<1>5. CapacityNeverExceeded'
  <2>1. \A x \in Ops : Charged(x)' => Charged(x)
    BY <1>1, <1>4 DEF Charged, ActiveRow
  <2> QED BY <2>1, CapacityKept DEF IInv
<1>6. IoIsCurrent'
  BY <1>1, <1>4 DEF IInv, IoIsCurrent
<1>7. ExecutionsExclude'
  BY DEF IInv, ExecutionsExclude, ExecKind
<1>8. ChildrenUnclosed'
  BY DEF IInv, ChildrenUnclosed, world
<1>9. TwoRecordingsPerPlayback'
  <2>1. \A x \in Ops : Draw(x)' \subseteq Draw(x)
    BY <1>1, <1>4 DEF Draw
  <2> QED BY <2>1, DrawKept DEF IInv
<1> QED BY <1>2, <1>3, <1>5, <1>6, <1>7, <1>8, <1>9 DEF IInv

LEMMA AcquireStep ==
    ASSUME IInv, NEW o \in Ops, Acquire(o)
    PROVE  IInv'
<1> DEFINE row == Rebound(o, Expire(o, op[o]))
           fresh == [row EXCEPT !.state = "WAITING", !.attached = {}]
<1>1. Shrinks(op[o], row) /\ row \in OpRow
  <2>1. op[o] \in OpRow /\ jobs \in [WorkerOps -> JobView]
    BY DEF IInv, TypeOK
  <2>2. Shrinks(op[o], Expire(o, op[o])) /\ Expire(o, op[o]) \in OpRow
    BY <2>1, ExpireShrinks DEF Shrinks
  <2>3. Shrinks(Expire(o, op[o]), row)
    BY <2>1, <2>2, ReboundShrinks
  <2> QED BY <2>1, <2>2, <2>3, ShrinksTransitive DEF Shrinks
<1>2. CASE /\ row.state \in {"WAITING", "ACTIVE"}
           /\ SaveAndAdvance(o, Refreshed(o, row)) /\ UNCHANGED ahead
  <2>1. Shrinks(op[o], Refreshed(o, row))
    <3>1. Shrinks(row, Refreshed(o, row))
      BY <1>1, RefreshedShrinks
    <3>2. op[o] \in OpRow
      BY DEF IInv, TypeOK
    <3> QED BY <1>1, <3>1, <3>2, ShrinksTransitive
  <2>2. UNCHANGED <<ahead, last_grant, grant_sequence, permit, world>>
    BY <1>2 DEF Acquire
  <2> QED BY <1>2, <2>1, <2>2, OneRowStep DEF SaveAndAdvance
<1>3. CASE /\ grant_sequence + Cardinality(Demand) < MaxGrants
           /\ ahead' = Enqueued(o) /\ SaveAndAdvance(o, Refreshed(o, fresh))
  <2>1. \A n \in Nat, st \in AdmissionState, A \in SUBSET Targets :
          [row EXCEPT !.state = st, !.attached = A] \in OpRow
    BY <1>1 DEF OpRow
  <2>2. fresh \in OpRow
    BY <2>1 DEF AdmissionState
  <2>3. fresh.state = "WAITING" /\ fresh.attached = {}
    BY <1>1, SMT DEF OpRow
  <2> HIDE DEF fresh
  <2>4. WaitingTTL \in Nat
    BY ResourceAssumption
  <2>5. /\ Refreshed(o, fresh) \in OpRow
        /\ Refreshed(o, fresh).state = "WAITING" /\ Refreshed(o, fresh).attached = {}
    BY <2>2, <2>3, <2>4, SMT DEF Refreshed, OpRow
  <2>6. UNCHANGED <<last_grant, grant_sequence, permit, world>>
    BY DEF Acquire
  <2> QED BY <1>3, <2>5, <2>6, FreshDemand DEF SaveAndAdvance
<1> QED BY <1>2, <1>3 DEF Acquire, Demand

LEMMA AttachStep ==
    ASSUME IInv, NEW o \in Ops, NEW S \in SUBSET Targets, Attach(o, S)
    PROVE  IInv'
<1> DEFINE s == [op[o] EXCEPT !.attached = S]
<1>1. /\ s \in OpRow /\ s.attached = S /\ ActiveRow(s) = ActiveRow(op[o])
      /\ s.state = op[o].state /\ SameGrant(op[o], s)
  BY SMT DEF IInv, TypeOK, OpRow, ActiveRow
<1> HIDE DEF s
<1>2. op' = [op EXCEPT ![o] = s]
  BY DEF Attach, s
<1>3. UNCHANGED <<ahead, last_grant, grant_sequence, permit, advancing, world>> /\ FitsPlayback(o, S)
  BY DEF Attach
<1>4. op' \in [Ops -> OpRow] /\ op'[o] = s /\ \A x \in Ops \ {o} : op'[x] = op[x]
  BY <1>1, <1>2 DEF IInv, TypeOK
<1>5. TypeOK'
  BY <1>3, <1>4 DEF IInv, TypeOK, world
<1>6. GrantBudget'
  <2>1. Demand' \subseteq Demand
    BY <1>1, <1>4 DEF Demand
  <2> QED BY <1>3, <2>1, BudgetKept DEF IInv
<1>7. \A x \in Ops : LivePermits(x)' = LivePermits(x)
  BY <1>3, LiveOf
<1>8. CapacityNeverExceeded'
  <2>1. \A x \in Ops : Charged(x)' => Charged(x)
    BY <1>1, <1>4, <1>7 DEF Charged
  <2> QED BY <2>1, CapacityKept DEF IInv
<1>9. IoIsCurrent'
  BY <1>1, <1>3, <1>4, <1>7 DEF IInv, IoIsCurrent
<1>10. ExecutionsExclude' /\ ChildrenUnclosed'
  BY <1>3 DEF IInv, ExecutionsExclude, ExecKind, ChildrenUnclosed, world
<1>11. TwoRecordingsPerPlayback'
  <2>1. ASSUME NEW x \in Ops, KindOf[x] = "PLAYBACK" PROVE Cardinality(Draw(x)') <= 2
    <3>1. CASE x = o
      BY <1>1, <1>3, <1>4, <1>7, <3>1 DEF Draw, FitsPlayback
    <3>2. CASE x # o
      <4>1. Draw(x)' = Draw(x)
        BY <1>3, <1>4, <1>7, <3>2 DEF Draw
      <4> QED BY <2>1, <4>1 DEF IInv, TwoRecordingsPerPlayback, Draw
    <3> QED BY <3>1, <3>2
  <2> QED BY <2>1 DEF TwoRecordingsPerPlayback, Draw
<1> QED BY <1>5, <1>6, <1>8, <1>9, <1>10, <1>11 DEF IInv

\* A permit is opened by the activation that is live, on a recording it is attached to.
LEMMA OpenIoStep ==
    ASSUME IInv, NEW o \in Ops, NEW t \in Targets, NEW p \in Permits, OpenIo(o, t, p)
    PROVE  IInv'
<1> DEFINE s == [op[o] EXCEPT !.claimed = TRUE, !.lease_left = LeaseTTL]
           r == [op |-> o, activation |-> op[o].activation, attempt |-> op[o].attempt,
                 target |-> t, left |-> PermitTTL, exec |-> "NONE", started |-> FALSE, beat_left |-> 0]
<1>1. op[o] \in OpRow /\ ActiveRow(op[o]) /\ ~Held(p) /\ child[p] = "NONE" /\ MayTouch(o, t)
  BY DEF OpenIo, IInv, TypeOK
<1>2. Shrinks(op[o], s)
  BY <1>1, ExtendedShrinks
<1>3. r \in PermitRow /\ r.op = o /\ SameGrant(r, op[o]) /\ r.target = t
      /\ r.exec = "NONE"
  <2>1. PermitTTL \in Nat /\ op[o].activation \in Nat /\ op[o].attempt \in Nat
    BY <1>1, ResourceAssumption DEF OpRow
  <2> QED BY <2>1, SMT DEF PermitRow
<1>4. s.attached = op[o].attached
  BY <1>1, SMT DEF OpRow
<1>5. op' = [op EXCEPT ![o] = s] /\ permit' = [permit EXCEPT ![p] = r]
      /\ UNCHANGED <<ahead, last_grant, grant_sequence, advancing, world>>
  BY DEF OpenIo
<1> HIDE DEF s, r
<1>6. RowsShrink
  BY <1>2, <1>5, OneRowShrinks DEF IInv
<1>7. permit' \in [Permits -> Slot] /\ permit'[p] = r /\ \A q \in Permits \ {p} : permit'[q] = permit[q]
  BY <1>3, <1>5 DEF IInv, TypeOK, Slot
<1>8. op'[o] = s /\ \A x \in Ops \ {o} : op'[x] = op[x]
  BY <1>5 DEF IInv, TypeOK
<1>9. /\ \A x \in Ops \ {o} : LivePermits(x)' \subseteq LivePermits(x)
      /\ LivePermits(o)' \subseteq LivePermits(o) \cup {p}
  BY <1>3, <1>7, LiveOf
<1>10. TypeOK'
  BY <1>5, <1>6, <1>7 DEF IInv, TypeOK, RowsShrink, Shrinks, Slot, world
<1>11. GrantBudget'
  <2>1. Demand' \subseteq Demand
    BY <1>6 DEF Demand, RowsShrink, Shrinks
  <2> QED BY <1>5, <2>1, BudgetKept DEF IInv
<1>12. CapacityNeverExceeded'
  <2>1. \A x \in Ops : Charged(x)' => Charged(x)
    BY <1>1, <1>8, <1>9 DEF Charged
  <2> QED BY <2>1, CapacityKept DEF IInv
<1>13. IoIsCurrent'
  <2> SUFFICES ASSUME NEW x \in Ops, op'[x].state = "ACTIVE", NEW q \in LivePermits(x)'
               PROVE  SameGrant(permit'[q], op'[x])
    BY DEF IoIsCurrent
  <2>1. op[x].state = "ACTIVE" /\ SameGrant(op[x], op'[x])
    BY <1>6 DEF RowsShrink, Shrinks
  <2>2. q \in Permits
    BY LiveOf
  <2>3. CASE q = p
    <3>1. permit'[q].op = x
      BY LiveOf
    <3> QED BY <1>3, <1>7, <2>1, <2>3, <3>1
  <2>4. CASE q # p
    <3>1. q \in LivePermits(x) /\ permit'[q] = permit[q]
      BY <1>7, <1>9, <2>2, <2>4
    <3> QED BY <2>1, <3>1 DEF IInv, IoIsCurrent
  <2> QED BY <2>3, <2>4
<1>14. \A q \in Permits : UnclosedRow(permit'[q]) => q # p /\ permit'[q] = permit[q]
  BY <1>3, <1>7 DEF UnclosedRow, Unclosed
<1>15. ExecutionsExclude'
  BY <1>14 DEF IInv, ExecutionsExclude, ExecKind
<1>16. ChildrenUnclosed'
  BY <1>1, <1>5, <1>7 DEF IInv, ChildrenUnclosed, world
<1>17. TwoRecordingsPerPlayback'
  <2>1. ASSUME NEW x \in Ops, KindOf[x] = "PLAYBACK" PROVE Draw(x)' \subseteq Draw(x)
    <3>1. op'[x].attached \subseteq op[x].attached
      BY <1>6 DEF RowsShrink, Shrinks
    <3>2. ASSUME NEW q \in LivePermits(x)' PROVE permit'[q].target \in Draw(x)
      <4>1. CASE q = p
        <5>1. permit'[q].op = x
          BY LiveOf
        <5>2. x = o /\ permit'[q].target = t
          BY <1>3, <1>7, <4>1, <5>1
        <5> QED BY <1>1, <2>1, <5>2 DEF MayTouch, Draw
      <4>2. CASE q # p
        <5>1. q \in LivePermits(x) /\ permit'[q] = permit[q]
          BY <1>7, <1>9, <4>2, LiveOf
        <5> QED BY <5>1 DEF Draw
      <4> QED BY <4>1, <4>2
    <3> QED BY <3>1, <3>2 DEF Draw
  <2> QED BY <2>1, DrawKept DEF IInv
<1> QED BY <1>10, <1>11, <1>12, <1>13, <1>15, <1>16, <1>17 DEF IInv

\* An execution is prepared only where no unclosed one of the kind is in the way.
LEMMA PrepareExecutionStep ==
    ASSUME IInv, NEW p \in Permits, PrepareExecution(p)
    PROVE  IInv'
<1> DEFINE r == permit[p]
           s == [r EXCEPT !.exec = "PREPARED", !.beat_left = HeartbeatTTL]
<1>1. r \in PermitRow /\ r.left > 0 /\ LiveRow(r) /\ child[p] = "NONE" /\ ~Busy(p)
  BY HeldRow DEF IInv, PrepareExecution, PermitValid, Held, LiveRow
<1>2. s \in PermitRow /\ s.op = r.op /\ SameGrant(r, s) /\ s.target = r.target
  <2>1. HeartbeatTTL \in Nat
    BY ResourceAssumption
  <2>2. \A e \in Unclosed, b \in Nat : [r EXCEPT !.exec = e, !.beat_left = b] \in PermitRow
    BY <1>1 DEF PermitRow
  <2>3. s \in PermitRow
    BY <2>1, <2>2 DEF Unclosed
  <2>4. s.op = r.op /\ SameGrant(r, s) /\ s.target = r.target
    BY <1>1, SMT DEF PermitRow
  <2> QED BY <2>3, <2>4
<1>3. /\ permit' = [permit EXCEPT ![p] = s]
      /\ UNCHANGED <<op, ahead, last_grant, grant_sequence, advancing, world>>
  BY DEF PrepareExecution, SetPermit
<1> HIDE DEF s
<1>4. permit' \in [Permits -> Slot] /\ permit'[p] = s /\ \A q \in Permits \ {p} : permit'[q] = permit[q]
  BY <1>2, <1>3 DEF IInv, TypeOK, Slot
<1>5. \A q \in Permits :
        /\ permit'[q].op = permit[q].op /\ SameGrant(permit[q], permit'[q])
        /\ permit'[q].target = permit[q].target
        /\ LiveRow(permit'[q]) => LiveRow(permit[q])
  BY <1>1, <1>2, <1>4
<1>6. \A x \in Ops : LivePermits(x)' \subseteq LivePermits(x)
  BY <1>5, LiveOf
<1>7. TypeOK'
  BY <1>3, <1>4 DEF IInv, TypeOK, Slot, world
<1>8. GrantBudget'
  <2>1. Demand' \subseteq Demand
    BY <1>3 DEF Demand
  <2> QED BY <1>3, <2>1, BudgetKept DEF IInv
<1>9. CapacityNeverExceeded'
  <2>1. \A x \in Ops : Charged(x)' => Charged(x)
    BY <1>3, <1>6 DEF Charged
  <2> QED BY <2>1, CapacityKept DEF IInv
<1>10. IoIsCurrent'
  <2> SUFFICES ASSUME NEW x \in Ops, op[x].state = "ACTIVE", NEW q \in LivePermits(x)'
               PROVE  SameGrant(permit'[q], op[x])
    BY <1>3 DEF IoIsCurrent
  <2>1. q \in LivePermits(x) /\ SameGrant(permit[q], permit'[q])
    BY <1>5, <1>6, LiveOf
  <2> QED BY <2>1 DEF IInv, IoIsCurrent
<1>11. ExecutionsExclude'
  <2> SUFFICES ASSUME NEW a \in Permits, NEW b \in Permits, a # b,
                      UnclosedRow(permit'[a]), UnclosedRow(permit'[b]),
                      permit'[a].op \notin Streams,
                      ExecKind(permit'[a].op) = ExecKind(permit'[b].op)
               PROVE  permit'[a].target # permit'[b].target
    BY DEF ExecutionsExclude, ExecKind
  <2>1. permit[b].op \notin Streams
    <3>1. \A x, y : x \notin Streams /\ ExecKind(x) = ExecKind(y) => y \notin Streams
      BY DEF ExecKind
    <3> QED BY <1>5, <3>1
  <2>2. CASE a = p
    <3>1. UnclosedRow(permit[b])
      BY <1>4, <2>2
    <3> QED BY <1>1, <1>5, <2>2, <3>1, UnclosedOf DEF Busy
  <2>3. CASE b = p
    <3>1. UnclosedRow(permit[a])
      BY <1>4, <2>3
    <3> QED BY <1>1, <1>5, <2>1, <2>3, <3>1, UnclosedOf DEF Busy
  <2>4. CASE a # p /\ b # p
    BY <1>4, <2>4 DEF IInv, ExecutionsExclude
  <2> QED BY <2>2, <2>3, <2>4
<1>12. ChildrenUnclosed'
  BY <1>1, <1>3, <1>4 DEF IInv, ChildrenUnclosed, world
<1>13. TwoRecordingsPerPlayback'
  <2>1. \A x \in Ops : Draw(x)' \subseteq Draw(x)
    <3>1. \A x \in Ops : \A q \in LivePermits(x)' :
            q \in LivePermits(x) /\ permit'[q].target = permit[q].target
      BY <1>5, <1>6, LiveOf
    <3> QED BY <1>3, <3>1 DEF Draw
  <2> QED BY <2>1, DrawKept DEF IInv
<1> QED BY <1>7, <1>8, <1>9, <1>10, <1>11, <1>12, <1>13 DEF IInv

\* One operation is charged anew, and every limit had room for one more.
LEMMA OneMoreCharged ==
    ASSUME CapacityNeverExceeded, NEW o \in Ops,
           \A x \in Ops \ {o} : Charged(x)' => Charged(x),
           HasRoom(KindOf[o]), WithinAccount(o), WithinDevice(o)
    PROVE  CapacityNeverExceeded'
<1>1. ASSUME NEW S, NEW T, NEW n \in Nat, S \subseteq Ops, T \subseteq Ops,
             \/ T \subseteq S /\ Cardinality(S) <= n
             \/ T \subseteq S \cup {o} /\ Cardinality(S) < n
      PROVE  Cardinality(T) <= n
  <2>1. IsFiniteSet(S) /\ Cardinality(S) \in Nat
    BY <1>1, ResourceAssumption, FS_Subset, FS_CardinalityType
  <2>2. CASE T \subseteq S /\ Cardinality(S) <= n
    <3>1. Cardinality(T) \in Nat /\ Cardinality(T) <= Cardinality(S)
      BY <2>1, <2>2, FS_Subset, FS_CardinalityType
    <3> QED BY <2>1, <2>2, <3>1
  <2>3. CASE T \subseteq S \cup {o} /\ Cardinality(S) < n
    <3>1. IsFiniteSet(S \cup {o}) /\ Cardinality(S \cup {o}) \in Nat
      BY <2>1, FS_AddElement, FS_CardinalityType
    <3>2. Cardinality(S \cup {o}) <= Cardinality(S) + 1
      BY <2>1, FS_AddElement
    <3>3. Cardinality(T) \in Nat /\ Cardinality(T) <= Cardinality(S \cup {o})
      BY <2>3, <3>1, FS_Subset, FS_CardinalityType
    <3> QED BY <2>1, <2>3, <3>1, <3>2, <3>3
  <2> QED BY <1>1, <2>2, <2>3
<1>2. SUFFICES ASSUME NEW k \in Kinds
      PROVE  /\ Cardinality(ChargedOps(k)') <= GlobalLimit[k]
             /\ \A u \in Users : AccountUse(u, k)' <= AccountLimit[k]
             /\ \A d \in Devices : DeviceUse(d, k)' <= DeviceLimit[k]
  BY DEF CapacityNeverExceeded
<1>3. GlobalLimit[k] \in Nat /\ AccountLimit[k] \in Nat /\ DeviceLimit[k] \in Nat
  BY ResourceAssumption
<1>4. /\ ChargedOps(k)' \subseteq Ops /\ ChargedOps(k) \subseteq Ops
      /\ \A x \in ChargedOps(k)' : x \in ChargedOps(k) \/ (x = o /\ k = KindOf[o])
  BY DEF ChargedOps
<1>5. Cardinality(ChargedOps(k)') <= GlobalLimit[k]
  <2>1. Cardinality(ChargedOps(k)) <= GlobalLimit[k]
    BY DEF CapacityNeverExceeded
  <2>2. CASE k = KindOf[o]
    <3>1. Cardinality(ChargedOps(k)) < GlobalLimit[k]
      BY <2>2 DEF HasRoom
    <3>2. ChargedOps(k)' \subseteq ChargedOps(k) \cup {o}
      BY <1>4
    <3> QED BY <1>1, <1>3, <1>4, <3>1, <3>2
  <2>3. CASE k # KindOf[o]
    <3>1. ChargedOps(k)' \subseteq ChargedOps(k)
      BY <1>4, <2>3
    <3> QED BY <1>1, <1>3, <1>4, <2>1, <3>1
  <2> QED BY <2>2, <2>3
<1>6. ASSUME NEW u \in Users PROVE AccountUse(u, k)' <= AccountLimit[k]
  <2> DEFINE S == {x \in ChargedOps(k) : UserOf[x] = u}
             T == {x \in ChargedOps(k)' : UserOf[x] = u}
  <2>1. AccountUse(u, k) = Cardinality(S) /\ AccountUse(u, k)' = Cardinality(T)
    BY DEF AccountUse
  <2>2. Cardinality(S) <= AccountLimit[k] /\ S \subseteq Ops /\ T \subseteq Ops
    BY <1>4, <2>1 DEF CapacityNeverExceeded
  <2>3. CASE k = KindOf[o] /\ u = UserOf[o]
    <3>1. Cardinality(S) < AccountLimit[k]
      BY <2>1, <2>3 DEF WithinAccount
    <3>2. T \subseteq S \cup {o}
      BY <1>4
    <3> HIDE DEF S, T
    <3> QED BY <1>1, <1>3, <2>1, <2>2, <3>1, <3>2
  <2>4. CASE ~(k = KindOf[o] /\ u = UserOf[o])
    <3>1. T \subseteq S
      BY <1>4, <2>4
    <3> HIDE DEF S, T
    <3> QED BY <1>1, <1>3, <2>1, <2>2, <3>1
  <2> QED BY <2>3, <2>4
<1>7. ASSUME NEW d \in Devices PROVE DeviceUse(d, k)' <= DeviceLimit[k]
  <2> DEFINE S == {x \in ChargedOps(k) : DeviceOf[x] = d}
             T == {x \in ChargedOps(k)' : DeviceOf[x] = d}
  <2>1. DeviceUse(d, k) = Cardinality(S) /\ DeviceUse(d, k)' = Cardinality(T)
    BY DEF DeviceUse
  <2>2. Cardinality(S) <= DeviceLimit[k] /\ S \subseteq Ops /\ T \subseteq Ops
    BY <1>4, <2>1 DEF CapacityNeverExceeded
  <2>3. CASE k = KindOf[o] /\ d = DeviceOf[o]
    <3>1. Cardinality(S) < DeviceLimit[k]
      BY <2>1, <2>3, ResourceAssumption DEF WithinDevice
    <3>2. T \subseteq S \cup {o}
      BY <1>4
    <3> HIDE DEF S, T
    <3> QED BY <1>1, <1>3, <2>1, <2>2, <3>1, <3>2
  <2>4. CASE ~(k = KindOf[o] /\ d = DeviceOf[o])
    <3>1. T \subseteq S
      BY <1>4, <2>4
    <3> HIDE DEF S, T
    <3> QED BY <1>1, <1>3, <2>1, <2>2, <3>1
  <2> QED BY <2>3, <2>4
<1> QED BY <1>5, <1>6, <1>7

\* A grant goes to demand that waits, is drained, and fits every limit.
LEMMA GrantStep ==
    ASSUME IInv, NEW o \in Ops, Grant(o)
    PROVE  IInv'
<1> DEFINE s == [op[o] EXCEPT !.state = "ACTIVE", !.activation = grant_sequence + 1,
                              !.lease_left = LeaseTTL, !.claim_left = ReservationTTL,
                              !.claimed = FALSE, !.waiting_left = 0]
<1>1. /\ op[o].state = "WAITING" /\ LivePermits(o) = {}
      /\ HasRoom(KindOf[o]) /\ WithinAccount(o) /\ WithinDevice(o)
  BY DEF Grant, Selected, Eligible, Waiting, Drained
<1>2. /\ grant_sequence \in Nat /\ MaxGrants \in Nat
      /\ op \in [Ops -> OpRow] /\ permit \in [Permits -> Slot]
  BY ResourceAssumption DEF IInv, TypeOK, Slot
<1>3. s \in OpRow /\ s.state = "ACTIVE" /\ s.attached = op[o].attached
  <2>1. \A st \in AdmissionState, c \in BOOLEAN, a, x, y, w \in Nat :
          [op[o] EXCEPT !.state = st, !.activation = a, !.lease_left = x, !.claim_left = y,
                        !.claimed = c, !.waiting_left = w] \in OpRow
    BY <1>2 DEF OpRow
  <2>2. grant_sequence + 1 \in Nat /\ LeaseTTL \in Nat /\ ReservationTTL \in Nat
    BY <1>2, ResourceAssumption
  <2>3. s \in OpRow
    BY <2>1, <2>2 DEF AdmissionState
  <2>4. op[o] \in OpRow
    BY <1>2
  <2>5. s.state = "ACTIVE" /\ s.attached = op[o].attached
    BY <2>4, SMT DEF OpRow
  <2> QED BY <2>3, <2>5
<1>4. /\ op' = [op EXCEPT ![o] = s] /\ grant_sequence' = grant_sequence + 1
      /\ last_grant' = [last_grant EXCEPT ![UserOf[o]][KindOf[o]] = grant_sequence + 1]
      /\ permit' = [p \in Permits |-> IF p \in PermitsOf(o) /\ SpentPermit(p)
                                      THEN NoPermit ELSE permit[p]]
      /\ Freed({p \in PermitsOf(o) : SpentPermit(p)})
      /\ UNCHANGED <<ahead, jobs, revoked, withdrawn, advancing>>
  BY DEF Grant
<1> HIDE DEF s
<1>5. op' \in [Ops -> OpRow] /\ op'[o] = s /\ \A x \in Ops \ {o} : op'[x] = op[x]
  BY <1>2, <1>3, <1>4
<1>6. PermitsDrain
  <2>1. \A p \in Permits : Drains(permit[p], permit'[p])
    BY <1>2, <1>4, RemovedDrains, DrainsReflexive
  <2>2. permit' = [p \in Permits |-> permit'[p]]
    BY <1>4
  <2> QED BY <2>1, <2>2 DEF PermitsDrain
<1>7. /\ \A x \in Ops : LivePermits(x)' \subseteq LivePermits(x)
      /\ LivePermits(o)' = {}
  <2>1. \A x \in Ops : LivePermits(x)' \subseteq LivePermits(x)
    BY <1>6, LiveOf DEF PermitsDrain, Drains
  <2> QED BY <1>1, <2>1
<1>8. \A p \in Permits : UnclosedRow(permit'[p]) =>
        /\ UnclosedRow(permit[p]) /\ permit'[p].op = permit[p].op
        /\ permit'[p].target = permit[p].target
  BY <1>6 DEF PermitsDrain, Drains, UnclosedRow, LiveRow
<1>9. GrantBudget' /\ grant_sequence' \in 0..MaxGrants
  <2>1. Demand' = Demand \ {o} /\ o \in Demand
    BY <1>1, <1>3, <1>5 DEF Demand
  <2>2. IsFiniteSet(Demand)
    BY ResourceAssumption, FS_Subset DEF Demand
  <2>3. Cardinality(Demand) \in Nat /\ IsFiniteSet(Demand')
    BY <2>1, <2>2, FS_CardinalityType, FS_RemoveElement
  <2>4. Cardinality(Demand') = Cardinality(Demand) - 1
    BY <2>1, <2>2, FS_RemoveElement
  <2>5. Cardinality(Demand') \in Nat
    BY <2>3, FS_CardinalityType
  <2>6. grant_sequence + Cardinality(Demand) <= MaxGrants
    BY DEF IInv, GrantBudget
  <2>7. grant_sequence' + Cardinality(Demand') <= MaxGrants
    BY <1>2, <1>4, <2>3, <2>4, <2>6
  <2> QED BY <1>2, <1>4, <2>3, <2>4, <2>5, <2>6, <2>7 DEF GrantBudget
<1>10. child' \in [Permits -> ChildState] /\ ChildrenUnclosed'
  <2>1. \A p \in Permits : UnclosedRow(permit[p]) => UnclosedRow(permit'[p])
    BY <1>4, UnclosedOf DEF SpentPermit
  <2> QED BY <1>4, <2>1, FreedKeepsChildren
<1>11. TypeOK'
  <2>1. last_grant' \in [Users -> [Kinds -> Nat]]
    <3>1. UserOf[o] \in Users /\ KindOf[o] \in Kinds /\ last_grant \in [Users -> [Kinds -> Nat]]
      BY ResourceAssumption DEF IInv, TypeOK
    <3> QED BY <1>2, <1>4, <3>1
  <2>2. permit' \in [Permits -> PermitRow \cup {NoPermit}]
    BY <1>6 DEF PermitsDrain, Drains, Slot
  <2> QED BY <1>4, <1>5, <1>9, <1>10, <2>1, <2>2 DEF IInv, TypeOK
<1>12. CapacityNeverExceeded'
  <2>1. \A x \in Ops \ {o} : Charged(x)' => Charged(x)
    BY <1>5, <1>7 DEF Charged
  <2> QED BY <1>1, <2>1, OneMoreCharged DEF IInv
<1>13. IoIsCurrent'
  <2> SUFFICES ASSUME NEW x \in Ops, op'[x].state = "ACTIVE", NEW p \in LivePermits(x)'
               PROVE  SameGrant(permit'[p], op'[x])
    BY DEF IoIsCurrent
  <2>1. x # o /\ p \in LivePermits(x)
    BY <1>7
  <2>2. LiveRow(permit'[p]) /\ p \in Permits
    BY LiveOf
  <2>3. SameGrant(permit[p], permit'[p])
    BY <1>6, <2>2 DEF PermitsDrain, Drains
  <2> QED BY <1>5, <2>1, <2>3 DEF IInv, IoIsCurrent
<1>14. ExecutionsExclude'
  BY <1>8 DEF IInv, ExecutionsExclude, ExecKind
<1>15. TwoRecordingsPerPlayback'
  <2>1. ASSUME NEW x \in Ops PROVE Draw(x)' \subseteq Draw(x)
    <3>1. op'[x].attached = op[x].attached
      BY <1>3, <1>5
    <3>2. \A p \in LivePermits(x)' :
            p \in LivePermits(x) /\ permit'[p].target = permit[p].target
      BY <1>6, <1>7, LiveOf DEF PermitsDrain, Drains
    <3> QED BY <3>1, <3>2 DEF Draw
  <2> QED BY <2>1, DrawKept DEF IInv
<1> QED BY <1>9, <1>10, <1>11, <1>12, <1>13, <1>14, <1>15 DEF IInv

(***************************************************************************)
(* The invariant holds.                                                    *)
(***************************************************************************)
LEMMA InitIInv == Init => IInv
<1> SUFFICES ASSUME Init PROVE IInv
  OBVIOUS
<1>1. AbsentOp \in OpRow /\ AbsentOp.state = "ABSENT" /\ AbsentOp.attached = {}
  BY SMT DEF AbsentOp, OpRow, AdmissionState
<1>2. IdleJob \in JobView
  BY SMT DEF IdleJob, JobView
<1>3. TypeOK
  <2>1. /\ op \in [Ops -> OpRow] /\ ahead \in [Ops -> SUBSET Ops]
        /\ permit \in [Permits -> PermitRow \cup {NoPermit}]
        /\ child \in [Permits -> ChildState] /\ jobs \in [WorkerOps -> JobView]
    BY <1>1, <1>2 DEF Init, ChildState
  <2>2. last_grant \in [Users -> [Kinds -> Nat]]
    BY DEF Init
  <2>3. MaxGrants \in Nat
    BY ResourceAssumption
  <2>4. grant_sequence \in 0..MaxGrants
    BY <2>3 DEF Init
  <2>5. revoked \subseteq Users /\ withdrawn \subseteq Ops /\ advancing \in BOOLEAN
    BY DEF Init
  <2> QED BY <2>1, <2>2, <2>4, <2>5 DEF TypeOK
<1>4. \A o \in Ops : op[o].state = "ABSENT" /\ op[o].attached = {} /\ LivePermits(o) = {}
  BY <1>1, LiveOf DEF Init, LiveRow
<1>5. GrantBudget
  <2>1. Demand = {}
    BY <1>4 DEF Demand
  <2>2. Cardinality(Demand) = 0
    BY <2>1, FS_EmptySet
  <2> QED BY <2>2, ResourceAssumption DEF Init, GrantBudget
<1>6. CapacityNeverExceeded
  <2>1. \A k : ChargedOps(k) = {}
    BY <1>4 DEF ChargedOps, Charged, ActiveRow
  <2>2. \A k, u : AccountUse(u, k) = 0 /\ DeviceUse(u, k) = 0 /\ Cardinality(ChargedOps(k)) = 0
    BY <2>1, FS_EmptySet DEF AccountUse, DeviceUse
  <2>3. \A k \in Kinds : GlobalLimit[k] \in Nat /\ AccountLimit[k] \in Nat /\ DeviceLimit[k] \in Nat
    BY ResourceAssumption
  <2> QED BY <2>2, <2>3 DEF CapacityNeverExceeded
<1>7. \A p \in Permits : permit[p] = NoPermit /\ child[p] = "NONE"
  BY DEF Init
<1>8. ExecutionsExclude /\ ChildrenUnclosed /\ IoIsCurrent
  BY <1>4, <1>7 DEF ExecutionsExclude, UnclosedRow, ChildrenUnclosed, IoIsCurrent
<1>9. TwoRecordingsPerPlayback
  <2>1. \A o \in Ops : Draw(o) = {}
    BY <1>4 DEF Draw
  <2> QED BY <2>1, FS_EmptySet DEF TwoRecordingsPerPlayback, Draw
<1> QED BY <1>3, <1>5, <1>6, <1>8, <1>9 DEF IInv

LEMMA StutterStep == ASSUME IInv, UNCHANGED vars PROVE IInv'
<1>1. UNCHANGED rows /\ UNCHANGED <<permit, child, jobs, revoked, withdrawn, advancing>>
  BY DEF vars, rows
<1>2. child' \in [Permits -> ChildState] /\ ChildrenUnclosed'
  BY <1>1, ChildrenKept
<1> QED BY <1>1, <1>2, WorldStep DEF IInv, TypeOK

LEMMA NextKeepsIInv == IInv /\ [Next]_vars => IInv'
<1> SUFFICES ASSUME IInv, [Next]_vars PROVE IInv'
  OBVIOUS
<1>1. ASSUME NEW o \in Ops, Request(o) PROVE IInv'
  BY <1>1, AcquireStep, RequestStep, AttachStep, OpenIoStep DEF Request
<1>2. ASSUME NEW o \in Ops, Withdraw(o) PROVE IInv'
  BY <1>2, WithdrawStep
<1>3. ASSUME NEW p \in Permits, Permitted(p) PROVE IInv'
  BY <1>3, PermittedStep, PrepareExecutionStep, CloseIoStep DEF Permitted
<1>4. ASSUME NEW p \in Permits, Child(p) PROVE IInv'
  BY <1>4, ChildMoves
<1>5. ASSUME NEW o \in WorkerOps, Job(o) PROVE IInv'
  BY <1>5, JobStep
<1>6. ASSUME NEW S \in SUBSET Ops, Sweep(S) PROVE IInv'
  BY <1>6, SweepStep
<1>7. ASSUME NEW u \in Users, Revoke(u) PROVE IInv'
  BY <1>7, RevokeStep
<1>8. CASE AdvanceDone
  <2>1. UNCHANGED rows /\ UNCHANGED <<permit, child, jobs, revoked, withdrawn>> /\ advancing' = FALSE
    BY <1>8 DEF AdvanceDone, rows, world
  <2>2. child' \in [Permits -> ChildState] /\ ChildrenUnclosed'
    BY <2>1, ChildrenKept
  <2> QED BY <2>1, <2>2, WorldStep DEF IInv, TypeOK
<1>9. ASSUME NEW o \in Ops, Wake(o) \/ Drop(o) \/ Grant(o) PROVE IInv'
  <2>1. Wake(o) => o \in WorkerOps
    BY DEF Wake, MayWake, NeedsClaim
  <2> QED BY <1>9, <2>1, JobStep, RequestStep, GrantStep
<1>10. CASE Tick
  BY <1>10, TickStep
<1>11. CASE UNCHANGED vars
  BY <1>11, StutterStep
<1> QED BY <1>1, <1>2, <1>3, <1>4, <1>5, <1>6, <1>7, <1>8, <1>9, <1>10, <1>11 DEF Next, Advance

\* The inductive invariant: the properties below, the rows' exclusion of executions
\* whether or not their processes run, and the room the model's bound leaves demand.
THEOREM AdmissionInvariant == Spec => []IInv
<1> QED BY InitIInv, NextKeepsIInv, PTL DEF Spec

\* Every variable keeps its type (the columns of account.resource_admission, of the
\* permits and of the executions).
THEOREM AdmissionTypes == Spec => []TypeOK
<1>1. IInv => TypeOK
  BY DEF IInv
<1> QED BY <1>1, AdmissionInvariant, PTL

\* For any limits, no scheduling of grants, lapses, rebinds and revocations ever
\* charges more than the global, the account's or the device's limit.
THEOREM CapacityIsNeverExceeded == Spec => []CapacityNeverExceeded
<1>1. IInv => CapacityNeverExceeded
  BY DEF IInv
<1> QED BY <1>1, AdmissionInvariant, PTL

\* While an operation is active, whatever is live of it is of its own activation.
THEOREM ActivationsNeverOverlap == Spec => []ActivationsDoNotOverlap
<1>1. IInv => ActivationsDoNotOverlap
  BY DEF IInv, IoIsCurrent, SameGrant, ActivationsDoNotOverlap
<1> QED BY <1>1, AdmissionInvariant, PTL

\* While a worker's operation is active, whatever is live of it was opened by the job
\* attempt it is bound to: a claim cannot inherit the I/O of the one before it.
THEOREM AttemptsNeverOverlap == Spec => []AttemptsDoNotOverlap
<1>1. WorkerOps \subseteq Ops
  BY ResourceAssumption
<1>2. IInv => AttemptsDoNotOverlap
  BY <1>1 DEF IInv, IoIsCurrent, SameGrant, AttemptsDoNotOverlap
<1> QED BY <1>2, AdmissionInvariant, PTL

\* A playback holds at most two recordings, those it drains from included.
THEOREM TwoRecordingsAtMost == Spec => []TwoRecordingsPerPlayback
<1>1. IInv => TwoRecordingsPerPlayback
  BY DEF IInv
<1> QED BY <1>1, AdmissionInvariant, PTL

\* Until the exit of a process is proved its execution is open and its operation
\* charged, whatever became of the lease, the session and the account.
THEOREM ChildrenStayCharged == Spec => []ChildrenAreCharged
<1>1. IInv => ChildrenAreCharged
  <2> SUFFICES ASSUME IInv, NEW p \in Permits, child[p] \in {"SPAWNED", "WORKING", "LOST"}
               PROVE  ExecUnclosed(p) /\ Charged(permit[p].op)
    BY DEF ChildrenAreCharged
  <2>1. UnclosedRow(permit[p])
    BY DEF IInv, ChildrenUnclosed
  <2>2. p \in LivePermits(permit[p].op)
    BY <2>1, LiveOf DEF UnclosedRow, LiveRow
  <2> QED BY <2>1, <2>2, UnclosedOf DEF Charged
<1> QED BY <1>1, AdmissionInvariant, PTL

\* Two processes that write never work on one target at a time: the busy check of
\* prepare holds until the exit of the earlier one is proved.
THEOREM OneWriterAtATime == Spec => []OneWriterPerTarget
<1>1. IInv => OneWriterPerTarget
  BY DEF IInv, ChildrenUnclosed, ExecutionsExclude, OneWriterPerTarget, MayWrite
<1> QED BY <1>1, AdmissionInvariant, PTL
=============================================================================
