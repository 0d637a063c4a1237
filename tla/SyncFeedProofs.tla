--------------------------- MODULE SyncFeedProofs ---------------------------
(***************************************************************************)
(* Theorems about SyncFeed, for rows of any number and kind, and any       *)
(* changes, edits and runs.  The argument has two halves.                  *)
(*                                                                         *)
(* Sequences: the one publication that is open has drawn a sequence above  *)
(* everything committed, above everything a cursor, a page, a snapshot or  *)
(* the service's checkpoint stands for; so when it commits, nobody has     *)
(* passed it.                                                              *)
(*                                                                         *)
(* Versions: whatever version of a row is remembered anywhere - on the     *)
(* device, in an edit, a page or a snapshot - as one that was not deleted, *)
(* is behind the version of its deletion; so nothing is published for a    *)
(* deleted row, and a deletion has one event.                              *)
(***************************************************************************)
EXTENDS SyncFeed, FiniteSetTheorems, SequenceTheorems, WellFoundedInduction, TLAPS

(* Sequences *)

\* A sequence above which the open publication lies.
Below(m) == m \in 0..drawn /\ \A e \in open : m < e.seq

\* What was published with a sequence in S is on the device.
Applied(e) == e.seq \in known \/ e.seq <= covered
Caught(m) == Below(m) /\ \A e \in log : e.seq <= m => Applied(e)

LogOK ==
    /\ log \subseteq Event /\ open \subseteq Event /\ IsFiniteSet(log)
    /\ \A e \in log \cup open : e.seq <= drawn
    /\ \A e, d \in open : e = d
    /\ \A e \in open : \A d \in log : d.seq < e.seq

\* Numbers are drawn for the changes of others and for applied edits only.
AppliedEdits == {i \in DOMAIN edit : outcome[i] = "APPLIED"}
DrawnOK == drawn \in Nat /\ drawn <= MaxChanges + Cardinality(AppliedEdits)

MarksOK == Caught(cursor.seq) /\ Caught(pulled) /\ Below(covered)

(* Versions *)

\* Version v of row a was not its deletion.
Alive(a, v) ==
    /\ v <= row[a].version
    /\ row[a].value = Gone => v < row[a].version

RowsOK ==
    /\ row \in [Aggs -> Item]
    /\ \A a \in Aggs : row[a].version <= drawn /\ Alive(a, 0)
    /\ \A e \in log : e.value = Gone => row[e.agg].value = Gone
    /\ \A e \in log : e.value # Gone => Alive(e.agg, e.version)
    /\ \A e \in open :
          /\ row[e.agg].value # Gone /\ e.version = row[e.agg].version + 1 /\ e.version <= drawn
    /\ \A e, d \in log : e.agg = d.agg /\ e.value = Gone /\ d.value = Gone => e = d

\* A row that is not deleted here has a version it was not deleted with.
LocalOK ==
    /\ local \in [Aggs -> [version : Versions, value : Values, dirty : BOOLEAN]]
    /\ \A a \in Aggs : local[a].value # Gone => Alive(a, local[a].version)

EditsOK ==
    /\ edit \in Seq([agg : Aggs, base : Versions, value : Values]) /\ Len(edit) <= MaxEdits
    /\ outcome \in [Edits -> {"NONE", "APPLIED", "CONFLICT", "REJECTED"}]
    /\ told \subseteq DOMAIN edit
    /\ \A i \in Edits \ DOMAIN edit : outcome[i] = "NONE"
    /\ \A i \in DOMAIN edit :
          /\ edit[i].value = Gone => local[edit[i].agg].value = Gone
          /\ outcome[i] = "NONE" => Alive(edit[i].agg, edit[i].base)
          /\ outcome[i] = "APPLIED" =>
                /\ edit[i].base + 1 <= row[edit[i].agg].version
                /\ edit[i].value # Gone => Alive(edit[i].agg, edit[i].base + 1)

\* An item is a version of its row, and a live one unless it says otherwise.
ItemOK(a, item) == item \in Item /\ (item.value # Gone => Alive(a, item.version))

SnapType == [high : 0..MaxSeq, items : {<<>>} \cup [Aggs -> Item], live : BOOLEAN]

SnapOK(x) ==
    /\ x \in SnapType
    /\ Below(x.high)
    /\ x.items \in [Aggs -> Item] => \A a \in Aggs : ItemOK(a, x.items[a])

SnapsOK ==
    /\ snap \in [Snapshots -> SnapType]
    /\ \A n \in Snapshots : SnapOK(snap[n])
    /\ \A n \in Referenced \ {0} : snap[n].items \in [Aggs -> Item]

RunType == [at : {"idle", "pushing", "answered", "pulling", "page",
                  "bootstrapping", "snapshot"},
            edit : 0..MaxEdits, copy : Cursor, boot : Boot, page : Page]

\* A page holds whatever was published up to its end and is not applied.
PageOK(x) ==
    /\ Below(x.page.next) /\ x.page.events \subseteq log
    /\ x.at = "page" =>
          \A e \in log : e.seq <= x.page.next => e \in x.page.events \/ Applied(e)

RunOK(x) ==
    /\ x \in RunType
    /\ Caught(x.copy.seq) /\ PageOK(x)
    /\ x.at \in {"pushing", "answered"} => x.edit \in DOMAIN edit
    /\ x.page.snap # 0 => x.boot.snap \in {0, x.page.snap}
    /\ x.at # "snapshot" => x.page.snap = 0
    /\ x.at = "snapshot" => x.page.snap # 0 /\ ItemOK(x.page.agg, x.page.item)

RunsOK == run \in [Runs -> RunType] /\ \A r \in Runs : RunOK(run[r])

TombOK ==
    /\ tomb \in [Aggs -> {"none", "kept", "expired", "lapsed", "removed", "lost"}]
    /\ \A a \in Aggs : tomb[a] # "none" => \E e \in log : e.agg = a /\ e.value = Gone
    /\ \A a \in Aggs : tomb[a] \in {"removed", "lost"} =>
          \E e \in log : e.agg = a /\ e.value = Gone /\ Applied(e)

SpentType == [faults : 0..MaxFaults, resets : 0..MaxResets, overlaps : 0..MaxOverlaps]
ShownRow == [last : Versions, high : Versions]

DeviceOK ==
    /\ conflict \subseteq Aggs /\ known \subseteq Seqs
    /\ cursor \in Cursor /\ boot \in Boot /\ dead \subseteq told
    /\ spent \in SpentType /\ shown \in [Aggs -> ShownRow]

\* Only rows whose versions are checked are ever deleted.
KindsOK ==
    /\ scene \in Scenes
    /\ \A a \in Aggs : row[a].value = Gone => Is(a, "PLAYLIST")
    /\ \A e \in open : e.value = Gone => Is(e.agg, "PLAYLIST")
    /\ \A i \in DOMAIN edit : edit[i].value = Gone => Is(edit[i].agg, "PLAYLIST")

IInv ==
    /\ LogOK /\ DrawnOK /\ MarksOK /\ RowsOK /\ LocalOK /\ EditsOK
    /\ SnapsOK /\ RunsOK /\ TombOK /\ DeviceOK /\ KindsOK

(***************************************************************************)
(* Operators.                                                              *)
(***************************************************************************)
\* The constants' bounds are numbers.
LEMMA Bounds ==
    /\ Rows \in Nat \ {0} /\ PageLimit \in Nat \ {0} /\ IsFiniteSet(Runs)
    /\ MaxChanges \in Nat /\ MaxEdits \in Nat /\ MaxFaults \in Nat /\ MaxResets \in Nat
    /\ MaxOverlaps \in Nat /\ Scenes \subseteq Scene
    /\ MaxSeq \in Nat /\ None \in Nat /\ MaxSeq = MaxChanges + MaxEdits
    /\ None = MaxSeq + MaxEdits + 1
BY FeedAssumption DEF FeedAssumption, MaxSeq, None

\* A nonempty set of numbers has a least element, which Min returns.
LEMMA LeastNumber ==
    ASSUME NEW S \in SUBSET Nat, S # {}
    PROVE  Min(S) \in S /\ \A n \in S : Min(S) <= n
<1> DEFINE R == OpToRel(<, Nat)
<1>1. IsWellFoundedOn(R, Nat)
  BY NatLessThanWellFounded
<1>2. \A m, n \in Nat : n < m => <<n, m>> \in R
  BY DEF OpToRel
<1> HIDE DEF R
<1>3. PICK m \in S : \A n \in S : ~ (<<n, m>> \in R)
  BY <1>1, WFMin
<1>4. \A n \in S : ~(n < m)
  BY <1>2, <1>3
<1>5. \A n \in S : m <= n
  BY <1>4
<1> QED BY <1>5 DEF Min

\* A nonempty bounded set of numbers has a greatest element, which Max returns.
LEMMA GreatestNumber ==
    ASSUME NEW b \in Nat, NEW S \in SUBSET (0..b), S # {}
    PROVE  Max(S) \in S /\ \A n \in S : n <= Max(S)
<1> DEFINE Gaps == {b - n : n \in S}
<1>1. Gaps \in SUBSET Nat /\ Gaps # {}
  <2>1. \A n \in S : b - n \in Nat
    OBVIOUS
  <2>2. PICK n \in S : TRUE
    OBVIOUS
  <2>3. b - n \in Gaps
    BY <2>2
  <2> QED BY <2>1, <2>3
<1>2. PICK g \in Gaps : \A n \in Gaps : g <= n
  <2> HIDE DEF Gaps
  <2> QED BY <1>1, LeastNumber
<1>3. PICK m \in S : g = b - m
  BY <1>2
<1>4. \A n \in S : m >= n
  <2> SUFFICES ASSUME NEW n \in S PROVE m >= n
    OBVIOUS
  <2>1. b - n \in Gaps
    OBVIOUS
  <2>2. b - m <= b - n
    BY <1>2, <1>3, <2>1
  <2> QED BY <1>3, <2>2
<1>5. Max(S) \in S /\ \A n \in S : Max(S) >= n
  BY <1>4 DEF Max
<1> QED BY <1>5

\* The last of a nonempty set of events.
LEMMA LastOfEvents ==
    ASSUME NEW S, S # {}, \A e \in S : e.seq \in 0..MaxSeq
    PROVE  LastOf(S) \in S /\ \A e \in S : e.seq <= LastOf(S).seq
<1> DEFINE N == {e.seq : e \in S}
<1>1. N \in SUBSET (0..MaxSeq) /\ N # {}
  OBVIOUS
<1>2. Max(N) \in N /\ \A n \in N : n <= Max(N)
  <2> HIDE DEF N
  <2> QED BY <1>1, GreatestNumber, Bounds
<1>3. PICK e \in S : e.seq = Max(N)
  BY <1>2
<1>4. \A d \in S : d.seq <= e.seq
  <2> SUFFICES ASSUME NEW d \in S PROVE d.seq <= e.seq
    OBVIOUS
  <2>1. d.seq \in N
    OBVIOUS
  <2> QED BY <1>2, <1>3, <2>1
<1> QED BY <1>4 DEF LastOf

\* The earliest n of a set are a beginning of it.
LEMMA EarliestIsPrefix ==
    ASSUME NEW S, IsFiniteSet(S), \A e \in S : e.seq \in Nat, NEW n \in Nat,
           NEW e \in Earliest(S, n), NEW d \in S, d.seq <= e.seq
    PROVE  d \in Earliest(S, n)
<1> DEFINE D == {x \in S : x.seq < d.seq}
           E == {x \in S : x.seq < e.seq}
<1>1. e \in S /\ Cardinality(E) < n
  BY DEF Earliest
<1>2. D \subseteq E /\ IsFiniteSet(E)
  <2>1. IsFiniteSet(E)
    BY FS_Subset
  <2> QED BY <1>1, <2>1
<1> HIDE DEF D, E
<1>3. Cardinality(D) <= Cardinality(E) /\ IsFiniteSet(D)
  BY <1>2, FS_Subset
<1>4. Cardinality(D) \in Nat /\ Cardinality(E) \in Nat
  BY <1>2, <1>3, FS_CardinalityType
<1>5. Cardinality(D) < n
  BY <1>1, <1>3, <1>4
<1> QED BY <1>5 DEF Earliest, D

(***************************************************************************)
(* What every step keeps: nothing is lost, and what is published passes    *)
(* everything that was remembered.                                         *)
(***************************************************************************)
Grows ==
    /\ \A m : Below(m) => Below(m)'
    /\ \A e : Applied(e) => Applied(e)'
    /\ log \subseteq log'
    /\ \A m : Below(m) => \A e \in log' \ log : ~(e.seq <= m)
    /\ \A a \in Aggs : \A v \in Nat : Alive(a, v) => Alive(a, v)'
    /\ DOMAIN edit \subseteq DOMAIN edit'

LEMMA CaughtKept ==
    ASSUME Grows, NEW m, Caught(m)
    PROVE  Caught(m)'
BY DEF Grows, Caught

LEMMA ItemKept ==
    ASSUME Grows, NEW a \in Aggs, NEW item, ItemOK(a, item)
    PROVE  ItemOK(a, item)'
<1>1. item.version \in Nat
  BY Bounds DEF ItemOK, Item, Versions
<1> QED BY <1>1 DEF Grows, ItemOK

LEMMA SnapKept ==
    ASSUME Grows, NEW x, SnapOK(x)
    PROVE  SnapOK(x)'
<1>1. Below(x.high)'
  BY DEF SnapOK, Grows
<1>2. x.items \in [Aggs -> Item] => \A a \in Aggs : ItemOK(a, x.items[a])'
  BY ItemKept DEF SnapOK
<1> QED BY <1>1, <1>2 DEF SnapOK

LEMMA RunKept ==
    ASSUME Grows, NEW x, RunOK(x)
    PROVE  RunOK(x)'
<1>1. Caught(x.copy.seq)'
  BY CaughtKept DEF RunOK
<1>2. PageOK(x)'
  BY DEF RunOK, PageOK, Grows
<1>3. x.at \in {"pushing", "answered"} => x.edit \in DOMAIN edit'
  BY DEF RunOK, Grows
<1>4. x.at = "snapshot" => ItemOK(x.page.agg, x.page.item)'
  <2>1. x.page.agg \in Aggs
    BY DEF RunOK, RunType, Page
  <2> QED BY <2>1, ItemKept DEF RunOK
<1> QED BY <1>1, <1>2, <1>3, <1>4 DEF RunOK

\* A step that publishes nothing.
LEMMA NothingPublished ==
    ASSUME LogOK, UNCHANGED <<row, log, known, covered>>,
           drawn \in Nat, drawn' \in Nat, drawn <= drawn',
           \A e \in open' : e \in open \/ e.seq = drawn + 1, DOMAIN edit \subseteq DOMAIN edit'
    PROVE  Grows
<1>1. \A m : Below(m) => Below(m)'
  BY DEF Below
<1>2. \A e : Applied(e) => Applied(e)'
  BY DEF Applied
<1>3. \A a \in Aggs : \A v \in Nat : Alive(a, v) => Alive(a, v)'
  BY DEF Alive
<1> QED BY <1>1, <1>2, <1>3 DEF Grows

(***************************************************************************)
(* The service's publications.                                             *)
(***************************************************************************)
\* The journal is a function on an interval.
LEMMA EditRecords ==
    ASSUME EditsOK
    PROVE  /\ Len(edit) \in Nat /\ DOMAIN edit = 1..Len(edit) /\ DOMAIN edit \subseteq Edits
           /\ \A i \in DOMAIN edit : edit[i] \in [agg : Aggs, base : Versions, value : Values]
<1> DEFINE T == [agg : Aggs, base : Versions, value : Values]
<1>1. edit \in Seq(T) /\ Len(edit) <= MaxEdits
  BY DEF EditsOK
<1> HIDE DEF T
<1>2. Len(edit) \in Nat /\ DOMAIN edit = 1..Len(edit) /\ edit \in [1..Len(edit) -> T]
  BY <1>1, LenProperties
<1>3. DOMAIN edit \subseteq Edits
  BY <1>1, <1>2, Bounds DEF Edits
<1>4. \A i \in DOMAIN edit : edit[i] \in T
  BY <1>2
<1> QED BY <1>2, <1>3, <1>4 DEF T

LEMMA EditsAreFinite == IsFiniteSet(1..MaxEdits) /\ Cardinality(1..MaxEdits) = MaxEdits
BY Bounds, FS_Interval

\* How many numbers may have been drawn.
LEMMA DrawnBound ==
    ASSUME EditsOK, DrawnOK
    PROVE  IsFiniteSet(AppliedEdits) /\ Cardinality(AppliedEdits) \in Nat /\ drawn <= MaxSeq
<1>1. AppliedEdits \subseteq 1..MaxEdits
  <2>1. DOMAIN edit = 1..Len(edit) /\ Len(edit) \in Nat /\ Len(edit) <= MaxEdits
    BY LenProperties DEF EditsOK
  <2> QED BY <2>1, Bounds DEF AppliedEdits
<1>2. IsFiniteSet(1..MaxEdits) /\ Cardinality(1..MaxEdits) = MaxEdits
  BY Bounds, FS_Interval
<1>3. IsFiniteSet(AppliedEdits) /\ Cardinality(AppliedEdits) <= Cardinality(1..MaxEdits)
  BY <1>1, <1>2, FS_Subset
<1>4. Cardinality(AppliedEdits) \in Nat
  BY <1>3, FS_CardinalityType
<1> QED BY <1>2, <1>3, <1>4, Bounds DEF DrawnOK

\* The publication e of a live row: its number passes every mark.
LEMMA PublishStep ==
    ASSUME IInv, NEW e \in Event, Published(e), open' = {},
           row[e.agg].value # Gone, e.version = row[e.agg].version + 1,
           e.version <= drawn', e.seq <= drawn', drawn \in Nat, drawn' \in Nat, drawn <= drawn',
           \A m : Below(m) => m < e.seq,
           UNCHANGED <<scene, known, covered, edit>>, e.value = Gone => Is(e.agg, "PLAYLIST")
    PROVE  Grows /\ LogOK' /\ RowsOK' /\ TombOK' /\ KindsOK'
<1> USE DEF Event
<1>1. e.agg \in Aggs /\ e.seq \in Nat /\ e.version \in Versions /\ e.value \in Values
  BY Bounds DEF Seqs
<1>2. /\ row' \in [Aggs -> Item] /\ log' = log \cup {e}
      /\ row'[e.agg] = [version |-> e.version, value |-> e.value]
      /\ \A a \in Aggs \ {e.agg} : row'[a] = row[a]
  BY <1>1 DEF IInv, RowsOK, Published, Item
<1>3. \A a \in Aggs : row[a].version \in Nat
  BY Bounds DEF IInv, RowsOK, Item, Versions
<1>4. \A a \in Aggs : \A v \in Nat : Alive(a, v) => Alive(a, v)'
  <2> SUFFICES ASSUME NEW a \in Aggs, NEW v \in Nat, Alive(a, v) PROVE Alive(a, v)'
    OBVIOUS
  <2>1. CASE a = e.agg
    <3>1. row'[a].version = row[a].version + 1
      BY <1>2, <2>1
    <3> QED BY <1>3, <3>1 DEF Alive
  <2>2. CASE a # e.agg
    BY <1>2, <2>2 DEF Alive
  <2> QED BY <2>1, <2>2
<1>5. Grows
  <2>1. \A m : Below(m) => Below(m)'
    BY DEF Below
  <2>2. \A m : Below(m) => \A d \in log' \ log : ~(d.seq <= m)
    <3> SUFFICES ASSUME NEW m, Below(m), NEW d \in log' \ log PROVE ~(d.seq <= m)
      OBVIOUS
    <3>1. d = e /\ m < e.seq /\ m \in Nat
      BY <1>2 DEF Below
    <3> QED BY <1>1, <3>1
  <2>3. \A d : Applied(d) => Applied(d)'
    BY DEF Applied
  <2> QED BY <1>2, <1>4, <2>1, <2>2, <2>3 DEF Grows
<1>6. LogOK'
  <2>1. \A d \in log : d.seq <= drawn'
    <3> SUFFICES ASSUME NEW d \in log PROVE d.seq <= drawn'
      OBVIOUS
    <3>1. d.seq \in Nat /\ d.seq <= drawn
      BY Bounds DEF IInv, LogOK, Seqs
    <3> QED BY <3>1
  <2>2. IsFiniteSet(log')
    BY <1>2, FS_AddElement DEF IInv, LogOK
  <2> QED BY <1>2, <2>1, <2>2 DEF IInv, LogOK
<1>7. RowsOK'
  <2>1. \A a \in Aggs : row'[a].version <= drawn' /\ Alive(a, 0)'
    <3> SUFFICES ASSUME NEW a \in Aggs PROVE row'[a].version <= drawn' /\ Alive(a, 0)'
      OBVIOUS
    <3>1. row[a].version <= drawn /\ Alive(a, 0)
      BY DEF IInv, RowsOK
    <3>2. row'[a].version <= drawn'
      BY <1>2, <1>3, <3>1
    <3> QED BY <1>4, <3>1, <3>2
  <2>2. \A d \in log : d.value = Gone => d.agg # e.agg
    BY DEF IInv, RowsOK
  <2>3. \A d \in log' : d.value = Gone => row'[d.agg].value = Gone
    <3> SUFFICES ASSUME NEW d \in log', d.value = Gone PROVE row'[d.agg].value = Gone
      OBVIOUS
    <3>1. CASE d = e
      BY <1>2, <3>1
    <3>2. CASE d \in log
      <4>1. d.agg \in Aggs \ {e.agg}
        BY <2>2, <3>2 DEF IInv, LogOK
      <4> QED BY <1>2, <3>2, <4>1 DEF IInv, RowsOK
    <3> QED BY <1>2, <3>1, <3>2
  <2>4. \A d \in log' : d.value # Gone => Alive(d.agg, d.version)'
    <3> SUFFICES ASSUME NEW d \in log', d.value # Gone PROVE Alive(d.agg, d.version)'
      OBVIOUS
    <3>1. CASE d = e
      <4>1. row'[e.agg].version = e.version /\ row'[e.agg].value # Gone
        BY <1>2, <3>1
      <4>2. e.version \in Nat
        BY <1>1, Bounds DEF Versions
      <4> QED BY <3>1, <4>1, <4>2 DEF Alive
    <3>2. CASE d \in log
      <4>1. d.agg \in Aggs /\ d.version \in Nat
        BY <3>2, Bounds DEF IInv, LogOK, Versions
      <4>2. Alive(d.agg, d.version)
        BY <3>2 DEF IInv, RowsOK
      <4> QED BY <1>4, <4>1, <4>2
    <3> QED BY <1>2, <3>1, <3>2
  <2>5. \A d, f \in log' : d.agg = f.agg /\ d.value = Gone /\ f.value = Gone => d = f
    BY <1>2, <2>2 DEF IInv, RowsOK
  <2> QED BY <1>2, <2>1, <2>3, <2>4, <2>5 DEF RowsOK
<1>8. TombOK'
  <2>1. /\ tomb' \in [Aggs -> {"none", "kept", "expired", "lapsed", "removed", "lost"}]
        /\ \A a \in Aggs : tomb'[a] = tomb[a] \/ (tomb'[a] = "kept" /\ a = e.agg /\ e.value = Gone)
    BY <1>1 DEF IInv, TombOK, Published
  <2>2. \A a \in Aggs : tomb'[a] # "none" => \E d \in log' : d.agg = a /\ d.value = Gone
    BY <1>2, <2>1 DEF IInv, TombOK
  <2>3. \A a \in Aggs : tomb'[a] \in {"removed", "lost"} =>
          \E d \in log' : d.agg = a /\ d.value = Gone /\ Applied(d)'
    <3> SUFFICES ASSUME NEW a \in Aggs, tomb'[a] \in {"removed", "lost"}
                 PROVE  \E d \in log' : d.agg = a /\ d.value = Gone /\ Applied(d)'
      OBVIOUS
    <3>1. tomb[a] \in {"removed", "lost"}
      BY <2>1
    <3>2. PICK d \in log : d.agg = a /\ d.value = Gone /\ Applied(d)
      BY <3>1 DEF IInv, TombOK
    <3> QED BY <1>2, <1>5, <3>2 DEF Grows
  <2> QED BY <2>1, <2>2, <2>3 DEF TombOK
<1>9. KindsOK'
  <2>1. \A a \in Aggs : row'[a].value = Gone => Is(a, "PLAYLIST")
    <3> SUFFICES ASSUME NEW a \in Aggs, row'[a].value = Gone PROVE Is(a, "PLAYLIST")
      OBVIOUS
    <3>1. CASE a = e.agg
      BY <1>2, <3>1
    <3>2. CASE a # e.agg
      BY <1>2, <3>2 DEF IInv, KindsOK
    <3> QED BY <3>1, <3>2
  <2> QED BY <2>1 DEF IInv, KindsOK, Is
<1> QED BY <1>5, <1>6, <1>7, <1>8, <1>9

(***************************************************************************)
(* What a step leaves alone.                                               *)
(***************************************************************************)
\* A step of the runs and of the device's cursor.
LEMMA QuietStep ==
    ASSUME IInv,
           UNCHANGED <<scene, row, log, open, drawn, tomb, outcome, local, conflict, known, edit, told, dead, covered, shown>>,
           cursor' \in Cursor, Caught(cursor'.seq), Caught(pulled'), boot' \in Boot,
           spent' \in SpentType,
           snap' \in [Snapshots -> SnapType], \A n \in Snapshots : SnapOK(snap'[n]),
           \A n \in Referenced' \ {0} : snap'[n].items \in [Aggs -> Item],
           run' \in [Runs -> RunType], \A q \in Runs : RunOK(run'[q])
    PROVE  IInv'
<1>1. \A m : Below(m) <=> Below(m)'
  BY DEF Below
<1>2. \A e : Applied(e) <=> Applied(e)'
  BY DEF Applied
<1>3. \A m : Caught(m) => Caught(m)'
  BY <1>1, <1>2 DEF Caught
<1>4. \A a, v : Alive(a, v) <=> Alive(a, v)'
  BY DEF Alive
<1>5. \A a, item : ItemOK(a, item) => ItemOK(a, item)'
  BY <1>4 DEF ItemOK
<1>6. LogOK' /\ DrawnOK' /\ DeviceOK'
  BY DEF IInv, LogOK, DrawnOK, DeviceOK, AppliedEdits
<1>7. MarksOK'
  BY <1>1, <1>3 DEF IInv, MarksOK
<1>8. RowsOK'
  BY <1>4 DEF IInv, RowsOK
<1>9. LocalOK'
  BY <1>4 DEF IInv, LocalOK
<1>10. EditsOK'
  BY <1>4 DEF IInv, EditsOK
<1>11. SnapsOK'
  BY <1>1, <1>5 DEF SnapsOK, SnapOK
<1>12. RunsOK'
  <2> SUFFICES ASSUME NEW q \in Runs PROVE RunOK(run[q])'
    BY DEF RunsOK
  <2>1. RunOK(run'[q])
    OBVIOUS
  <2>2. Caught(run[q].copy.seq)'
    BY <1>1, <1>2, <2>1 DEF RunOK, Caught, Below, Applied
  <2>3. PageOK(run[q])'
    BY <1>1, <1>2, <2>1 DEF RunOK, PageOK, Below, Applied
  <2>4. run'[q].at = "snapshot" => ItemOK(run[q].page.agg, run[q].page.item)'
    BY <2>1 DEF RunOK, ItemOK, Alive
  <2> QED BY <2>1, <2>2, <2>3, <2>4 DEF RunOK
<1>13. TombOK'
  BY <1>2 DEF IInv, TombOK
<1>14. KindsOK'
  BY DEF IInv, KindsOK, Is
<1> QED BY <1>6, <1>7, <1>8, <1>9, <1>10, <1>11, <1>12, <1>13, <1>14 DEF IInv

\* A step of the service or of the device's rows: cursors and runs stay.
LEMMA MarksKept ==
    ASSUME IInv, Grows, UNCHANGED <<cursor, pulled, covered>>
    PROVE  MarksOK'
BY CaughtKept DEF IInv, MarksOK, Grows

LEMMA SnapsKept ==
    ASSUME IInv, Grows, snap' = snap, Referenced' \subseteq Referenced
    PROVE  SnapsOK'
BY SnapKept DEF IInv, SnapsOK

LEMMA RunsKept ==
    ASSUME IInv, Grows, run' \in [Runs -> RunType],
           \A q \in Runs : run'[q] = run[q] \/ RunOK(run[q])'
    PROVE  RunsOK'
<1> SUFFICES ASSUME NEW q \in Runs, run'[q] = run[q] PROVE RunOK(run[q])'
  BY DEF RunsOK
<1> DEFINE x == run[q]
<1>1. RunOK(x)
  BY DEF IInv, RunsOK
<1>2. \E y : y = x /\ RunOK(y)
  BY <1>1
<1>3. PICK y : y = x /\ RunOK(y)
  BY <1>2
<1>4. RunOK(y)'
  BY <1>3, RunKept
<1>5. run'[q] = y
  BY <1>3
<1> QED BY <1>4, <1>5 DEF RunOK, PageOK, Caught, Below, Applied, ItemOK, Alive

\* The local rows are unchanged, or adopt a live version.
LEMMA LocalKept ==
    ASSUME IInv, Grows, local' = local
    PROVE  LocalOK'
<1>1. \A a \in Aggs : local[a].version \in Nat
  BY Bounds DEF IInv, LocalOK, Versions
<1> QED BY <1>1 DEF IInv, LocalOK, Grows

\* The edits: what was deleted here stays so.
LEMMA EditsKept ==
    ASSUME IInv, Grows, UNCHANGED <<edit, outcome>>, told' \subseteq DOMAIN edit,
           \A a \in Aggs : row[a].version <= row'[a].version,
           \A a \in Aggs : row'[a].version \in Nat,
           \A a \in Aggs : local[a].value = Gone => local'[a].value = Gone
    PROVE  EditsOK'
<1>1. \A i \in DOMAIN edit : edit[i].agg \in Aggs /\ edit[i].base \in Nat
  <2>1. \A i \in DOMAIN edit : edit[i] \in [agg : Aggs, base : Versions, value : Values]
    BY EditRecords DEF IInv
  <2> QED BY <2>1, Bounds DEF Versions
<1>2. \A i \in DOMAIN edit :
          /\ edit[i].value = Gone => local'[edit[i].agg].value = Gone
          /\ outcome[i] = "NONE" => Alive(edit[i].agg, edit[i].base)'
  BY <1>1 DEF IInv, EditsOK, Grows
<1>3. \A i \in DOMAIN edit : outcome[i] = "APPLIED" =>
          /\ edit[i].base + 1 <= row'[edit[i].agg].version
          /\ edit[i].value # Gone => Alive(edit[i].agg, edit[i].base + 1)'
  <2> SUFFICES ASSUME NEW i \in DOMAIN edit, outcome[i] = "APPLIED"
               PROVE  /\ edit[i].base + 1 <= row'[edit[i].agg].version
                      /\ edit[i].value # Gone => Alive(edit[i].agg, edit[i].base + 1)'
    OBVIOUS
  <2>1. edit[i].agg \in Aggs /\ edit[i].base + 1 \in Nat
    BY <1>1
  <2>2. /\ edit[i].base + 1 <= row[edit[i].agg].version
        /\ edit[i].value # Gone => Alive(edit[i].agg, edit[i].base + 1)
    BY DEF IInv, EditsOK
  <2>3. row[edit[i].agg].version \in Nat
    BY <2>1, Bounds DEF IInv, RowsOK, Item, Versions
  <2>4. edit[i].base + 1 <= row'[edit[i].agg].version
    BY <2>1, <2>2, <2>3
  <2>5. edit[i].value # Gone => Alive(edit[i].agg, edit[i].base + 1)'
    BY <2>1, <2>2 DEF Grows
  <2> QED BY <2>4, <2>5
<1> QED BY <1>2, <1>3 DEF IInv, EditsOK

(***************************************************************************)
(* The steps of the service.                                               *)
(***************************************************************************)
LEMMA SceneTypes ==
    ASSUME IInv
    PROVE  /\ scene.changes \in 0..MaxChanges /\ scene.edits \in 0..MaxEdits
           /\ scene.faults \in 0..MaxFaults /\ scene.resets \in 0..MaxResets
           /\ scene.overlaps \in 0..MaxOverlaps
<1>1. scene \in Scene
  BY Bounds DEF IInv, KindsOK
<1> QED BY <1>1 DEF Scene

LEMMA BeginPublishKeepsIInv ==
    ASSUME IInv, NEW a \in Aggs, BeginPublish(a)
    PROVE  IInv'
<1>1. PICK v \in {drawn + 1} \cup Endings(a) :
          open' = open \cup {[seq |-> drawn + 1, agg |-> a,
                             version |-> row[a].version + 1, value |-> v]}
  BY DEF BeginPublish
<1> DEFINE e == [seq |-> drawn + 1, agg |-> a, version |-> row[a].version + 1, value |-> v]
<1>2. /\ open = {} /\ open' = {e} /\ row[a].value # Gone /\ drawn' = drawn + 1
      /\ UNCHANGED <<scene, row, log, tomb, pulled, snap, outcome, local, conflict, known, cursor,
                     boot, edit, told, dead, covered, shown, run, spent>>
  BY <1>1 DEF BeginPublish, OwnerLocked, device
<1>3. drawn < scene.changes + Cardinality(AppliedEdits)
  BY DEF BeginPublish, AppliedEdits
<1>4. /\ IsFiniteSet(AppliedEdits) /\ Cardinality(AppliedEdits) \in Nat
      /\ Cardinality(AppliedEdits) <= MaxEdits /\ drawn \in Nat
  <2>1. AppliedEdits \subseteq 1..MaxEdits
    BY EditRecords DEF IInv, AppliedEdits, Edits
  <2>2. IsFiniteSet(1..MaxEdits) /\ Cardinality(1..MaxEdits) = MaxEdits
    BY Bounds, FS_Interval
  <2>3. Cardinality(AppliedEdits) <= Cardinality(1..MaxEdits)
    BY <2>1, <2>2, FS_Subset
  <2> QED BY <2>2, <2>3, DrawnBound DEF IInv, DrawnOK
<1>5. drawn + 1 <= MaxSeq /\ drawn + 1 <= MaxChanges + Cardinality(AppliedEdits)
  BY <1>3, <1>4, Bounds, SceneTypes
<1>6. row[a].version \in Nat /\ row[a].version <= drawn
  BY Bounds DEF IInv, RowsOK, Item, Versions
<1>7. e \in Event
  <2>1. drawn + 1 \in Seqs /\ row[a].version + 1 \in Versions /\ v \in Values
    BY <1>4, <1>5, <1>6, Bounds DEF Seqs, Versions, Values, Gone, Endings
  <2> QED BY <2>1 DEF Event
<1>8. e.seq = drawn + 1 /\ e.agg = a /\ e.version = row[a].version + 1
  OBVIOUS
<1> HIDE DEF e
<1>9. Grows
  BY <1>2, <1>4, <1>8, NothingPublished DEF IInv
<1>10. LogOK'
  <2>1. \A d \in log : d.seq \in Nat /\ d.seq <= drawn
    BY Bounds DEF IInv, LogOK, Event, Seqs
  <2>2. \A d \in log : d.seq < drawn + 1 /\ d.seq <= drawn + 1
    BY <1>4, <2>1
  <2> QED BY <1>2, <1>4, <1>7, <1>8, <2>2 DEF IInv, LogOK
<1>11. DrawnOK'
  <2>1. drawn + 1 \in Nat /\ drawn + 1 <= MaxChanges + Cardinality(AppliedEdits)
    BY <1>4, <1>5
  <2> QED BY <1>2, <2>1 DEF DrawnOK, AppliedEdits
<1>12. RowsOK'
  <2>1. \A b \in Aggs : row[b].version <= drawn + 1
    BY <1>4, Bounds DEF IInv, RowsOK, Item, Versions
  <2>2. row[a].version + 1 <= drawn + 1
    BY <1>4, <1>6
  <2> QED BY <1>2, <1>8, <2>1, <2>2 DEF IInv, RowsOK, Alive
<1>13. SnapsOK'
  BY <1>2, <1>9, SnapsKept DEF Referenced
<1>14. RunsOK'
  BY <1>2, <1>9, RunsKept DEF IInv, RunsOK
<1>15. EditsOK'
  BY <1>2 DEF IInv, EditsOK, Alive
<1>16. LocalOK' /\ MarksOK'
  BY <1>2, <1>9, LocalKept, MarksKept
<1>17. TombOK' /\ DeviceOK'
  BY <1>2 DEF IInv, TombOK, DeviceOK, Applied
<1>18. KindsOK'
  <2>1. v = Gone => Is(a, "PLAYLIST")
    BY <1>4, Bounds DEF Endings, Gone
  <2>2. e.value = v
    BY DEF e
  <2> QED BY <1>2, <1>8, <2>1, <2>2 DEF IInv, KindsOK, Is
<1> QED BY <1>10, <1>11, <1>12, <1>13, <1>14, <1>15, <1>16, <1>17, <1>18 DEF IInv

LEMMA CommitKeepsIInv ==
    ASSUME IInv, NEW e \in open, Commit(e)
    PROVE  IInv'
<1>1. /\ Published(e) /\ open' = open \ {e}
      /\ UNCHANGED <<scene, drawn, pulled, snap, outcome, local, conflict, known, cursor,
                     boot, edit, told, dead, covered, shown, run, spent>>
  BY DEF Commit, device
<1>2. open' = {} /\ e \in Event
  BY <1>1 DEF IInv, LogOK
<1>3. Grows /\ LogOK' /\ RowsOK' /\ TombOK' /\ KindsOK'
  <2>1. /\ row[e.agg].value # Gone /\ e.version = row[e.agg].version + 1 /\ e.version <= drawn
        /\ e.value = Gone => Is(e.agg, "PLAYLIST")
    BY DEF IInv, RowsOK, KindsOK
  <2>2. e.seq <= drawn /\ drawn \in Nat /\ \A m : Below(m) => m < e.seq
    BY DEF IInv, LogOK, DrawnOK, Below
  <2> QED BY <1>1, <1>2, <2>1, <2>2, PublishStep
<1>4. \A b \in Aggs : row'[b].version \in Nat /\ row[b].version <= row'[b].version
  <2>1. \A b \in Aggs : row[b].version \in Nat /\ row'[b].version \in Nat
    BY <1>3, Bounds DEF IInv, RowsOK, Item, Versions
  <2>2. \A b \in Aggs : Alive(b, 0)
    BY DEF IInv, RowsOK
  <2>3. \A b \in Aggs : row'[b] = row[b] \/ row'[b].version = row[b].version + 1
    BY <1>1, <1>2 DEF IInv, RowsOK, Published
  <2> QED BY <2>1, <2>3
<1>5. SnapsOK'
  BY <1>1, <1>3, SnapsKept DEF Referenced
<1>6. RunsOK'
  BY <1>1, <1>3, RunsKept DEF IInv, RunsOK
<1>7. EditsOK'
  BY <1>1, <1>3, <1>4, EditsKept DEF IInv, EditsOK
<1>8. LocalOK' /\ MarksOK'
  BY <1>1, <1>3, LocalKept, MarksKept
<1>9. DrawnOK' /\ DeviceOK'
  BY <1>1 DEF IInv, DrawnOK, DeviceOK, AppliedEdits
<1> QED BY <1>3, <1>5, <1>6, <1>7, <1>8, <1>9 DEF IInv

LEMMA AbortKeepsIInv ==
    ASSUME IInv, NEW e \in open, Abort(e)
    PROVE  IInv'
<1>1. /\ open' = open \ {e}
      /\ UNCHANGED <<scene, row, log, drawn, tomb, pulled, snap, outcome, local, conflict, known, cursor,
                     boot, edit, told, dead, covered, shown, run, spent>>
  BY DEF Abort, device
<1>2. Grows
  BY <1>1, NothingPublished DEF IInv, DrawnOK
<1>3. LogOK' /\ DrawnOK' /\ RowsOK' /\ TombOK' /\ DeviceOK' /\ EditsOK' /\ KindsOK'
  <2>1. LogOK' /\ DrawnOK' /\ DeviceOK'
    BY <1>1 DEF IInv, LogOK, DrawnOK, DeviceOK, AppliedEdits
  <2>2. RowsOK'
    BY <1>1 DEF IInv, RowsOK, Alive
  <2>3. TombOK' /\ EditsOK'
    BY <1>1 DEF IInv, TombOK, EditsOK, Alive, Applied
  <2>4. KindsOK'
    BY <1>1 DEF IInv, KindsOK, Is
  <2> QED BY <2>1, <2>2, <2>3, <2>4
<1>4. SnapsOK' /\ RunsOK'
  BY <1>1, <1>2, SnapsKept, RunsKept DEF Referenced, IInv, RunsOK
<1>5. LocalOK' /\ MarksOK'
  BY <1>1, <1>2, LocalKept, MarksKept
<1> QED BY <1>3, <1>4, <1>5 DEF IInv

\* The sequence of a row's deletion is that of its one event.
LEMMA DeletionEvent ==
    ASSUME IInv, NEW a \in Aggs, NEW e \in log, e.agg = a, e.value = Gone
    PROVE  DeletedAt(a) = e.seq
<1>1. e.seq \in Seqs
  BY DEF IInv, LogOK, Event
<1>2. \A d \in log : d.agg = a /\ d.value = Gone => d = e
  BY DEF IInv, RowsOK
<1>3. \A s \in Seqs : (\E d \in log : d.agg = a /\ d.value = Gone /\ d.seq = s) <=> s = e.seq
  BY <1>2
<1> QED BY <1>1, <1>3 DEF DeletedAt

\* A step that changes one tombstone.
LEMMA TombKeepsIInv ==
    ASSUME IInv, TombOK',
           UNCHANGED <<scene, row, log, open, drawn, pulled, snap, outcome, local, conflict, known,
                       cursor, boot, edit, told, dead, covered, shown, run, spent>>
    PROVE  IInv'
<1>1. Grows
  BY NothingPublished DEF IInv, DrawnOK
<1>2. LogOK' /\ DrawnOK' /\ DeviceOK'
  BY DEF IInv, LogOK, DrawnOK, DeviceOK, AppliedEdits
<1>3. RowsOK' /\ EditsOK' /\ KindsOK'
  BY DEF IInv, RowsOK, EditsOK, KindsOK, Alive, Is
<1>4. SnapsOK' /\ RunsOK'
  BY <1>1, SnapsKept, RunsKept DEF Referenced, IInv, RunsOK
<1>5. LocalOK' /\ MarksOK'
  BY <1>1, LocalKept, MarksKept
<1> QED BY <1>2, <1>3, <1>4, <1>5 DEF IInv

LEMMA TombstoneExpiresKeepsIInv ==
    ASSUME IInv, NEW a \in Aggs, TombstoneExpires(a)
    PROVE  IInv'
<1>1. /\ tomb[a] = "kept"
      /\ tomb' = [tomb EXCEPT ![a] = IF pulled < DeletedAt(a) THEN "lapsed" ELSE "expired"]
      /\ UNCHANGED <<scene, row, log, open, drawn, pulled, snap, outcome, local, conflict, known,
                     cursor, boot, edit, told, dead, covered, shown, run, spent>>
  BY DEF TombstoneExpires, device
<1>2. tomb'[a] \in {"lapsed", "expired"} /\ \A b \in Aggs \ {a} : tomb'[b] = tomb[b]
  BY <1>1 DEF IInv, TombOK
<1>3. tomb' \in [Aggs -> {"none", "kept", "expired", "lapsed", "removed", "lost"}]
  BY <1>1 DEF IInv, TombOK
<1>4. \A b \in Aggs : tomb'[b] # "none" => \E e \in log : e.agg = b /\ e.value = Gone
  BY <1>1, <1>2 DEF IInv, TombOK
<1>5. \A b \in Aggs : tomb'[b] \in {"removed", "lost"} =>
         \E e \in log : e.agg = b /\ e.value = Gone /\ Applied(e)
  BY <1>2 DEF IInv, TombOK
<1>6. TombOK'
  BY <1>1, <1>3, <1>4, <1>5 DEF TombOK, Applied
<1> QED BY <1>1, <1>6, TombKeepsIInv

\* compact_tombstones: what lies behind the checkpoint is on the device.
LEMMA CompactTombstonesKeepsIInv ==
    ASSUME IInv, NEW a \in Aggs, CompactTombstones(a)
    PROVE  IInv'
<1>1. /\ tomb[a] \in {"expired", "lapsed"} /\ DeletedAt(a) <= pulled
      /\ tomb' = [tomb EXCEPT ![a] = IF @ = "lapsed" THEN "lost" ELSE "removed"]
      /\ UNCHANGED <<scene, row, log, open, drawn, pulled, snap, outcome, local, conflict, known,
                     cursor, boot, edit, told, dead, covered, shown, run, spent>>
  BY DEF CompactTombstones, device
<1>2. /\ \A b \in Aggs \ {a} : tomb'[b] = tomb[b]
      /\ tomb' \in [Aggs -> {"none", "kept", "expired", "lapsed", "removed", "lost"}]
  BY <1>1 DEF IInv, TombOK
<1>3. PICK d \in log : d.agg = a /\ d.value = Gone
  BY <1>1 DEF IInv, TombOK
<1>4. DeletedAt(a) = d.seq
  BY <1>3, DeletionEvent
<1>5. Applied(d)
  BY <1>1, <1>4 DEF IInv, MarksOK, Caught
<1>6. \A b \in Aggs : tomb'[b] # "none" => \E e \in log : e.agg = b /\ e.value = Gone
  BY <1>2, <1>3 DEF IInv, TombOK
<1>7. \A b \in Aggs : tomb'[b] \in {"removed", "lost"} =>
         \E e \in log : e.agg = b /\ e.value = Gone /\ Applied(e)
  BY <1>2, <1>3, <1>5 DEF IInv, TombOK
<1>8. TombOK'
  BY <1>1, <1>2, <1>6, <1>7 DEF TombOK, Applied
<1> QED BY <1>1, <1>8, TombKeepsIInv

(***************************************************************************)
(* The device's edits and their push.                                      *)
(***************************************************************************)
LEMMA EditKeepsIInv ==
    ASSUME IInv, NEW a \in Aggs, Edit(a)
    PROVE  IInv'
<1> DEFINE T == [agg : Aggs, base : Versions, value : Values]
           L == [version : Versions, value : Values, dirty : BOOLEAN]
<1>1. PICK v \in {MaxSeq + Len(edit) + 1} \cup (IF Is(a, "PLAYLIST") THEN {Gone} ELSE {}) :
         /\ edit' = Append(edit, [agg |-> a, base |-> local[a].version, value |-> v])
         /\ local' = [local EXCEPT ![a].value = v, ![a].dirty = TRUE]
  BY DEF Edit
<1> DEFINE new == [agg |-> a, base |-> local[a].version, value |-> v]
           n == Len(edit) + 1
<1>2. /\ Len(edit) < scene.edits /\ local[a].value # Gone
      /\ UNCHANGED <<scene, row, log, open, drawn, tomb, pulled, snap, outcome, conflict, known, cursor,
                     boot, told, dead, covered, shown, run, spent>>
  BY DEF Edit, Editable, service
<1>3. local \in [Aggs -> L] /\ Alive(a, local[a].version)
  BY <1>2 DEF IInv, LocalOK
<1>4. Len(edit) \in Nat /\ n \in Nat /\ n <= MaxEdits /\ n \in Edits
  BY <1>2, EditRecords, Bounds, SceneTypes DEF IInv, Edits
<1>5. v \in Values /\ local[a].version \in Versions
  BY <1>3, <1>4, Bounds DEF Values, Gone
<1>6. new \in T
  BY <1>5
<1>7. /\ edit' \in Seq(T) /\ Len(edit') = n /\ DOMAIN edit' = 1..n
      /\ \A i \in DOMAIN edit : edit'[i] = edit[i]
      /\ edit'[n] = new
  <2> HIDE DEF T, new
  <2>1. edit \in Seq(T)
    BY DEF IInv, EditsOK, T
  <2>2. edit' = Append(edit, new)
    BY <1>1 DEF new
  <2>3. edit' \in Seq(T) /\ Len(edit') = n
    BY <1>6, <2>1, <2>2, AppendProperties
  <2>4. \A i \in 1..Len(edit) : edit'[i] = edit[i]
    BY <1>6, <2>1, <2>2, AppendProperties
  <2>5. edit'[n] = new
    BY <1>6, <2>1, <2>2, AppendProperties
  <2>6. DOMAIN edit = 1..Len(edit) /\ DOMAIN edit' = 1..n
    BY <2>1, <2>3, LenProperties
  <2> QED BY <2>3, <2>4, <2>5, <2>6
<1>8. DOMAIN edit = 1..Len(edit)
  BY EditRecords DEF IInv
<1>9. DOMAIN edit' = DOMAIN edit \cup {n} /\ n \notin DOMAIN edit
  BY <1>4, <1>7, <1>8
<1>10. outcome[n] = "NONE"
  BY <1>4, <1>9 DEF IInv, EditsOK
<1>11. /\ local' \in [Aggs -> L] /\ local'[a].value = v /\ local'[a].version = local[a].version
       /\ \A b \in Aggs \ {a} : local'[b] = local[b]
  <2> DEFINE l == [local[a] EXCEPT !.value = v, !.dirty = TRUE]
  <2>1. local' = [local EXCEPT ![a] = l]
    BY <1>1, <1>3
  <2>2. l \in L /\ l.value = v /\ l.version = local[a].version
    BY <1>3, <1>5
  <2> HIDE DEF l, L
  <2> QED BY <1>3, <2>1, <2>2
<1>12. Grows
  BY <1>2, <1>9, NothingPublished DEF IInv, DrawnOK
<1>13. \A i \in DOMAIN edit : edit[i].value = Gone => edit[i].agg # a
  BY <1>2 DEF IInv, EditsOK
<1>14. EditsOK'
  <2>1. \A i \in DOMAIN edit :
          /\ edit[i].value = Gone => local'[edit[i].agg].value = Gone
          /\ outcome[i] = "NONE" => Alive(edit[i].agg, edit[i].base)
          /\ outcome[i] = "APPLIED" =>
                /\ edit[i].base + 1 <= row[edit[i].agg].version
                /\ edit[i].value # Gone => Alive(edit[i].agg, edit[i].base + 1)
    <3>1. \A i \in DOMAIN edit : edit[i].value = Gone => edit[i].agg \in Aggs \ {a}
      BY <1>13, EditRecords DEF IInv
    <3> QED BY <1>11, <3>1 DEF IInv, EditsOK
  <2>2. /\ new.value = Gone => local'[new.agg].value = Gone
        /\ Alive(new.agg, new.base)
    BY <1>3, <1>11
  <2> HIDE DEF new, n, T
  <2>3. \A i \in DOMAIN edit' :
          /\ edit'[i].value = Gone => local'[edit'[i].agg].value = Gone
          /\ outcome[i] = "NONE" => Alive(edit'[i].agg, edit'[i].base)
          /\ outcome[i] = "APPLIED" =>
                /\ edit'[i].base + 1 <= row[edit'[i].agg].version
                /\ edit'[i].value # Gone => Alive(edit'[i].agg, edit'[i].base + 1)
    <3> SUFFICES ASSUME NEW i \in DOMAIN edit'
                 PROVE  /\ edit'[i].value = Gone => local'[edit'[i].agg].value = Gone
                        /\ outcome[i] = "NONE" => Alive(edit'[i].agg, edit'[i].base)
                        /\ outcome[i] = "APPLIED" =>
                              /\ edit'[i].base + 1 <= row[edit'[i].agg].version
                              /\ edit'[i].value # Gone => Alive(edit'[i].agg, edit'[i].base + 1)
      OBVIOUS
    <3>1. CASE i = n
      <4>1. edit'[i] = new /\ outcome[i] = "NONE"
        BY <1>7, <1>10, <3>1
      <4> QED BY <2>2, <4>1
    <3>2. CASE i \in DOMAIN edit
      <4>1. edit'[i] = edit[i]
        BY <1>7, <3>2
      <4> QED BY <2>1, <3>2, <4>1
    <3> QED BY <1>9, <3>1, <3>2
  <2>4. edit' \in Seq([agg : Aggs, base : Versions, value : Values]) /\ Len(edit') <= MaxEdits
    BY <1>4, <1>7 DEF T
  <2>5. \A i \in Edits \ DOMAIN edit' : outcome[i] = "NONE"
    BY <1>9 DEF IInv, EditsOK
  <2>6. told' \subseteq DOMAIN edit' /\ outcome' \in [Edits -> {"NONE", "APPLIED", "CONFLICT", "REJECTED"}]
    BY <1>2, <1>9 DEF IInv, EditsOK
  <2> QED BY <1>2, <2>3, <2>4, <2>5, <2>6 DEF EditsOK, Alive
<1>15. LocalOK'
  <2>1. \A b \in Aggs : local'[b].value # Gone => Alive(b, local'[b].version)
    <3> SUFFICES ASSUME NEW b \in Aggs, local'[b].value # Gone PROVE Alive(b, local'[b].version)
      OBVIOUS
    <3>1. CASE b = a
      BY <1>3, <1>11, <3>1
    <3>2. CASE b # a
      BY <1>11, <3>2 DEF IInv, LocalOK
    <3> QED BY <3>1, <3>2
  <2> QED BY <1>2, <1>11, <2>1 DEF LocalOK, Alive
<1>16. DrawnOK'
  <2>1. AppliedEdits' = AppliedEdits
    BY <1>2, <1>9, <1>10 DEF AppliedEdits
  <2> QED BY <1>2, <2>1 DEF IInv, DrawnOK
<1>17. LogOK' /\ RowsOK' /\ TombOK' /\ DeviceOK'
  BY <1>2 DEF IInv, LogOK, RowsOK, TombOK, DeviceOK, Alive, Applied
<1>18. SnapsOK' /\ RunsOK' /\ MarksOK'
  BY <1>2, <1>12, SnapsKept, RunsKept, MarksKept DEF Referenced, IInv, RunsOK
<1>19. KindsOK'
  <2>1. v = Gone => Is(a, "PLAYLIST")
    BY <1>4, Bounds DEF Gone
  <2>2. new.value = v /\ new.agg = a
    OBVIOUS
  <2> HIDE DEF new, n, T
  <2>3. \A i \in DOMAIN edit' : edit'[i].value = Gone => Is(edit'[i].agg, "PLAYLIST")
    <3> SUFFICES ASSUME NEW i \in DOMAIN edit', edit'[i].value = Gone
                 PROVE  Is(edit'[i].agg, "PLAYLIST")
      OBVIOUS
    <3>1. CASE i = n
      BY <1>7, <2>1, <2>2, <3>1
    <3>2. CASE i \in DOMAIN edit
      BY <1>7, <3>2 DEF IInv, KindsOK
    <3> QED BY <1>9, <3>1, <3>2
  <2> QED BY <1>2, <2>3 DEF IInv, KindsOK, Is
<1> QED BY <1>14, <1>15, <1>16, <1>17, <1>18, <1>19 DEF IInv

(***************************************************************************)
(* The runs.                                                               *)
(***************************************************************************)
\* Nothing was published up to 0.
LEMMA ZeroIsCaught ==
    ASSUME IInv
    PROVE  Below(0) /\ Caught(0)
<1>1. \A e \in log \cup open : e.seq \in Nat /\ 0 < e.seq
  BY Bounds DEF IInv, LogOK, Event, Seqs
<1>2. Below(0)
  BY <1>1 DEF IInv, DrawnOK, Below
<1> QED BY <1>1, <1>2 DEF Caught

LEMMA MarkTypes ==
    ASSUME IInv, NEW m, Below(m)
    PROVE  m \in 0..MaxSeq /\ m \in Nat /\ m <= drawn
<1>1. drawn \in Nat /\ drawn <= MaxSeq
  BY DrawnBound DEF IInv, DrawnOK
<1> QED BY <1>1, Bounds DEF Below

LEMMA IdleTypes ==
    /\ NoCursor \in Cursor /\ NoBoot \in Boot /\ Absent \in Item
    /\ NoPage \in Page /\ Idle \in RunType
<1>1. 0 \in 0..MaxSeq /\ 1 \in Aggs /\ 0 \in Versions /\ None \in Values /\ 0 \in 0..MaxEdits
  BY Bounds DEF Aggs, Versions, Values
<1>2. NoCursor \in Cursor /\ NoBoot \in Boot /\ Absent \in Item
  BY <1>1 DEF NoCursor, Cursor, NoBoot, Boot, Absent, Item
<1>3. NoPage \in Page
  BY <1>1, <1>2 DEF NoPage, Page
<1> QED BY <1>1, <1>2, <1>3 DEF Idle, RunType

LEMMA IdleOK ==
    ASSUME IInv
    PROVE  RunOK(Idle)
<1>1. Idle.at = "idle" /\ Idle.copy.seq = 0 /\ Idle.page.next = 0 /\ Idle.page.events = {} /\ Idle.page.snap = 0
  BY DEF Idle, NoCursor, NoPage
<1>2. Caught(Idle.copy.seq) /\ PageOK(Idle)
  BY <1>1, ZeroIsCaught DEF PageOK
<1> QED BY <1>1, <1>2, IdleTypes DEF RunOK

\* A run moves from one stage to the next with what it has.
LEMMA StageMoves ==
    ASSUME IInv, NEW x, RunOK(x), x.at \in {"pushing", "pulling", "bootstrapping"},
           NEW s \in {"answered", "pushing", "pulling", "bootstrapping"},
           s \in {"answered", "pushing"} => x.at = "pushing"
    PROVE  RunOK([x EXCEPT !.at = s])
<1> DEFINE y == [x EXCEPT !.at = s]
<1>1. /\ y \in RunType /\ y.at = s /\ y.edit = x.edit /\ y.copy = x.copy
      /\ y.boot = x.boot /\ y.page = x.page
  BY DEF RunOK, RunType
<1>2. PageOK(y)
  BY <1>1 DEF RunOK, PageOK
<1> HIDE DEF y
<1> QED BY <1>1, <1>2 DEF RunOK, y

(* Pushing *)

LEMMA ServePushRuns ==
    ASSUME IInv, NEW r \in Runs, ServePush(r)
    PROVE  /\ run' \in [Runs -> RunType] /\ RunOK(run'[r])
           /\ \A q \in Runs \ {r} : run'[q] = run[q]
           /\ run'[r].boot = run[r].boot /\ run'[r].page = run[r].page
           /\ run[r].edit \in DOMAIN edit
<1>1. run[r].at = "pushing" /\ run' = [run EXCEPT ![r].at = "answered"]
  BY DEF ServePush
<1>2. run \in [Runs -> RunType] /\ RunOK(run[r])
  BY DEF IInv, RunsOK
<1> DEFINE x == [run[r] EXCEPT !.at = "answered"]
<1>3. run' = [run EXCEPT ![r] = x]
  BY <1>1, <1>2
<1>4. RunOK(x)
  BY <1>1, <1>2, StageMoves
<1>5. x \in RunType /\ x.boot = run[r].boot /\ x.page = run[r].page
  BY <1>2 DEF RunType
<1>6. run[r].edit \in DOMAIN edit
  BY <1>1, <1>2 DEF RunOK
<1> HIDE DEF x
<1> QED BY <1>2, <1>3, <1>4, <1>5, <1>6

\* The answer to an edit that was applied takes the next number and publishes.
LEMMA PushAppliedKeepsIInv ==
    ASSUME IInv, NEW r \in Runs, ServePush(r), NEW i, i = run[r].edit, outcome[i] = "NONE",
           NEW e, e = [seq |-> drawn + 1, agg |-> edit[i].agg,
                 version |-> row[edit[i].agg].version + 1, value |-> edit[i].value],
           OwnerLocked(e.agg), ~Stale(i),
           drawn' = drawn + 1, Published(e), outcome' = [outcome EXCEPT ![i] = "APPLIED"],
           UNCHANGED <<scene, open, pulled, snap, spent>>
    PROVE  IInv'
<1>1. UNCHANGED <<local, conflict, known, cursor, boot, edit, told, dead, covered, shown>>
  BY DEF ServePush, device
<1>2. /\ i \in DOMAIN edit /\ i \in Edits /\ edit[i] \in [agg : Aggs, base : Versions, value : Values]
      /\ open = {} /\ open' = {} /\ drawn \in Nat
  BY ServePushRuns, EditRecords DEF IInv, OwnerLocked, DrawnOK
<1>3. AppliedEdits' = AppliedEdits \cup {i} /\ i \notin AppliedEdits
  BY <1>1, <1>2 DEF IInv, EditsOK, AppliedEdits
<1>4. IsFiniteSet(AppliedEdits) /\ Cardinality(AppliedEdits) \in Nat
  BY DrawnBound DEF IInv
<1>5. Cardinality(AppliedEdits') = Cardinality(AppliedEdits) + 1 /\ IsFiniteSet(AppliedEdits')
  BY <1>3, <1>4, FS_AddElement
<1>6. DrawnOK'
  <2>1. drawn' \in Nat /\ drawn' <= MaxChanges + Cardinality(AppliedEdits')
    BY <1>2, <1>4, <1>5, Bounds DEF IInv, DrawnOK
  <2> QED BY <2>1 DEF DrawnOK
<1>7. drawn + 1 <= MaxSeq
  <2>1. AppliedEdits' \subseteq 1..MaxEdits
    BY <1>2, <1>3, EditRecords DEF IInv, AppliedEdits, Edits
  <2>2. IsFiniteSet(1..MaxEdits) /\ Cardinality(1..MaxEdits) = MaxEdits
    BY EditsAreFinite
  <2>3. Cardinality(AppliedEdits') <= Cardinality(1..MaxEdits)
    <3>1. PICK S : S = AppliedEdits'
      OBVIOUS
    <3>2. S \subseteq 1..MaxEdits
      BY <2>1, <3>1
    <3>3. Cardinality(S) <= Cardinality(1..MaxEdits)
      BY <2>2, <3>2, FS_Subset
    <3> QED BY <3>1, <3>3
  <2>4. drawn + 1 <= MaxChanges + Cardinality(AppliedEdits) + 1
    BY <1>2, <1>4, Bounds DEF IInv, DrawnOK
  <2> QED BY <1>2, <1>4, <1>5, <2>2, <2>3, <2>4, Bounds
<1>8. e.agg = edit[i].agg /\ e.agg \in Aggs /\ e.seq = drawn + 1 /\ e.version = row[e.agg].version + 1 /\ e.value = edit[i].value
  BY <1>2
<1>9. row[e.agg].version \in Nat /\ row[e.agg].version <= drawn
  BY <1>8, Bounds DEF IInv, RowsOK, Item, Versions
<1>10. e \in Event
  <2>1. drawn + 1 \in Seqs /\ row[e.agg].version + 1 \in Versions /\ edit[i].value \in Values
    BY <1>2, <1>7, <1>9, Bounds DEF Seqs, Versions
  <2> QED BY <1>8, <2>1 DEF Event
<1>11. row[e.agg].value # Gone /\ edit[i].base <= row[e.agg].version /\ edit[i].base \in Nat
  <2>1. Alive(e.agg, edit[i].base) /\ edit[i].base \in Nat
    BY <1>2, <1>8, Bounds DEF IInv, EditsOK, Versions
  <2>2. CASE Is(e.agg, "PREFERENCE")
    <3>1. ~Is(e.agg, "PLAYLIST")
      BY <2>2 DEF Is
    <3> QED BY <1>8, <2>1, <3>1 DEF IInv, KindsOK, Alive
  <2>3. CASE edit[i].base = row[e.agg].version
    <3>1. ~(edit[i].base < row[e.agg].version)
      BY <1>9, <2>3
    <3> QED BY <2>1, <3>1 DEF Alive
  <2> QED BY <1>8, <2>2, <2>3 DEF Stale
<1>12. Grows /\ LogOK' /\ RowsOK' /\ TombOK' /\ KindsOK'
  <2>1. e.version <= drawn' /\ e.seq <= drawn' /\ drawn' \in Nat /\ drawn <= drawn'
    BY <1>2, <1>8, <1>9
  <2>2. \A m : Below(m) => m < e.seq
    BY <1>2, <1>8 DEF Below
  <2>3. e.value = Gone => Is(e.agg, "PLAYLIST")
    BY <1>2, <1>8 DEF IInv, KindsOK
  <2> QED BY <1>1, <1>2, <1>8, <1>10, <1>11, <2>1, <2>2, <2>3, PublishStep
<1>13. row'[e.agg] = [version |-> e.version, value |-> e.value] /\ \A b \in Aggs \ {e.agg} : row'[b] = row[b]
  BY <1>8 DEF IInv, RowsOK, Published
<1>14. EditsOK'
  <2>1. \A b \in Aggs : row[b].version \in Nat /\ row'[b].version \in Nat
    BY <1>12, Bounds DEF IInv, RowsOK, Item, Versions
  <2>2. \A b \in Aggs : row[b].version <= row'[b].version
    <3> SUFFICES ASSUME NEW b \in Aggs PROVE row[b].version <= row'[b].version
      OBVIOUS
    <3>1. CASE b = e.agg
      BY <1>8, <1>13, <2>1, <3>1
    <3>2. CASE b # e.agg
      BY <1>13, <2>1, <3>2
    <3> QED BY <3>1, <3>2
  <2>3. \A j \in DOMAIN edit : edit[j].agg \in Aggs /\ edit[j].base \in Nat
    BY EditRecords, Bounds DEF IInv, Versions
  <2>4. \A j \in DOMAIN edit :
          /\ edit[j].value = Gone => local'[edit[j].agg].value = Gone
          /\ outcome'[j] = "NONE" => Alive(edit[j].agg, edit[j].base)'
    <3>1. \A j \in DOMAIN edit : outcome'[j] = "NONE" => outcome[j] = "NONE"
      BY <1>2, EditRecords DEF IInv, EditsOK
    <3>2. \A j \in DOMAIN edit : outcome[j] = "NONE" => Alive(edit[j].agg, edit[j].base)
      BY DEF IInv, EditsOK
    <3>3. \A j \in DOMAIN edit : outcome'[j] = "NONE" => Alive(edit[j].agg, edit[j].base)'
      <4> SUFFICES ASSUME NEW j \in DOMAIN edit, outcome'[j] = "NONE"
                   PROVE  Alive(edit[j].agg, edit[j].base)'
        OBVIOUS
      <4>1. PICK a \in Aggs, b \in Nat : a = edit[j].agg /\ b = edit[j].base
        BY <2>3
      <4>2. Alive(a, b)'
        BY <1>12, <3>1, <3>2, <4>1 DEF Grows
      <4> QED BY <1>1, <4>1, <4>2 DEF Alive
    <3>4. \A j \in DOMAIN edit : edit[j].value = Gone => local'[edit[j].agg].value = Gone
      BY <1>1 DEF IInv, EditsOK
    <3> QED BY <3>3, <3>4
  <2>5. \A j \in DOMAIN edit : outcome'[j] = "APPLIED" =>
          /\ edit[j].base + 1 <= row'[edit[j].agg].version
          /\ edit[j].value # Gone => Alive(edit[j].agg, edit[j].base + 1)'
    <3> SUFFICES ASSUME NEW j \in DOMAIN edit, outcome'[j] = "APPLIED"
                 PROVE  /\ edit[j].base + 1 <= row'[edit[j].agg].version
                        /\ edit[j].value # Gone => Alive(edit[j].agg, edit[j].base + 1)'
      OBVIOUS
    <3>1. CASE j = i
      <4>1. edit[j].base + 1 <= row'[edit[j].agg].version /\ edit[j].base \in Nat
        <5>1. row'[edit[j].agg].version = row[e.agg].version + 1
          BY <1>8, <1>13, <3>1
        <5> QED BY <1>9, <1>11, <3>1, <5>1
      <4>2. edit[j].value # Gone => row'[edit[j].agg].value # Gone
        BY <1>8, <1>13, <3>1
      <4>3. row'[edit[j].agg].version \in Nat
        BY <2>1, <2>3
      <4> QED BY <1>1, <4>1, <4>2, <4>3 DEF Alive
    <3>2. CASE j # i
      <4>1. outcome[j] = "APPLIED"
        BY <1>2, <3>2, EditRecords DEF IInv, EditsOK
      <4>2. edit[j].agg \in Aggs /\ edit[j].base + 1 \in Nat /\ edit[j].base \in Nat
        BY <2>3
      <4>3. /\ edit[j].base + 1 <= row[edit[j].agg].version
            /\ edit[j].value # Gone => Alive(edit[j].agg, edit[j].base + 1)
        BY <4>1 DEF IInv, EditsOK
      <4>4. edit[j].base + 1 <= row'[edit[j].agg].version
        BY <2>1, <2>2, <4>2, <4>3
      <4>5. edit[j].value # Gone => Alive(edit[j].agg, edit[j].base + 1)'
        BY <1>1, <1>12, <4>2, <4>3 DEF Grows
      <4> QED BY <4>4, <4>5
    <3> QED BY <3>1, <3>2
  <2>6. outcome' \in [Edits -> {"NONE", "APPLIED", "CONFLICT", "REJECTED"}] /\ \A j \in Edits \ DOMAIN edit : outcome'[j] = "NONE"
    BY <1>2 DEF IInv, EditsOK
  <2> QED BY <1>1, <2>4, <2>5, <2>6 DEF IInv, EditsOK
<1>15. RunsOK'
  <2>1. RunOK(run[r])'
    <3>1. PICK x : x = run'[r] /\ RunOK(x)
      BY ServePushRuns
    <3>2. RunOK(x)'
      BY <1>12, <3>1, RunKept
    <3> QED BY <3>1, <3>2 DEF RunOK, PageOK, Caught, Below, Applied, ItemOK, Alive
  <2> QED BY <1>12, <2>1, ServePushRuns, RunsKept
<1>16. SnapsOK'
  <2>1. Referenced' = Referenced
    <3>1. \A q \in Runs : run'[q].boot = run[q].boot /\ run'[q].page = run[q].page
      BY ServePushRuns
    <3> QED BY <1>1, <3>1 DEF Referenced
  <2> QED BY <1>12, <2>1, SnapsKept
<1>17. LocalOK' /\ MarksOK'
  BY <1>1, <1>12, LocalKept, MarksKept
<1>18. DeviceOK'
  BY <1>1 DEF IInv, DeviceOK
<1> QED BY <1>6, <1>12, <1>14, <1>15, <1>16, <1>17, <1>18 DEF IInv

\* A step that changes what one run holds, and possibly the checkpoint.
LEMMA RunMoves ==
    ASSUME IInv, NEW r \in Runs, NEW x, RunOK(x), run' = [run EXCEPT ![r] = x],
           {x.boot.snap, x.page.snap} \ {0} \subseteq Referenced, Caught(pulled'),
           spent' \in SpentType,
           UNCHANGED <<scene, row, log, open, drawn, tomb, snap, outcome, local, conflict, known, cursor,
                       boot, edit, told, dead, covered, shown>>
    PROVE  IInv'
<1>1. run \in [Runs -> RunType] /\ x \in RunType /\ \A q \in Runs : RunOK(run[q])
  BY DEF IInv, RunsOK, RunOK
<1>2. run' \in [Runs -> RunType] /\ run'[r] = x /\ \A q \in Runs \ {r} : run'[q] = run[q]
  BY <1>1
<1>3. \A q \in Runs : RunOK(run'[q])
  <2> SUFFICES ASSUME NEW q \in Runs PROVE RunOK(run'[q])
    OBVIOUS
  <2>1. CASE q = r
    BY <1>2, <2>1
  <2>2. CASE q # r
    BY <1>1, <1>2, <2>2
  <2> QED BY <2>1, <2>2
<1>4. Referenced' \ {0} \subseteq Referenced
  <2> SUFFICES ASSUME NEW n \in Referenced', n # 0 PROVE n \in Referenced
    OBVIOUS
  <2>1. CASE n = boot'.snap
    BY <2>1 DEF Referenced
  <2>2. CASE \E q \in Runs : n = run'[q].boot.snap \/ n = run'[q].page.snap
    <3>1. PICK q \in Runs : n = run'[q].boot.snap \/ n = run'[q].page.snap
      BY <2>2
    <3>2. CASE q = r
      BY <1>2, <3>1, <3>2
    <3>3. CASE q # r
      BY <1>2, <3>1, <3>3 DEF Referenced
    <3> QED BY <3>2, <3>3
  <2> QED BY <2>1, <2>2 DEF Referenced
<1>5. cursor \in Cursor /\ boot \in Boot /\ Caught(cursor.seq)
  BY DEF IInv, DeviceOK, MarksOK
<1>6. /\ snap \in [Snapshots -> SnapType] /\ \A n \in Snapshots : SnapOK(snap[n])
      /\ \A n \in Referenced' \ {0} : snap[n].items \in [Aggs -> Item]
  BY <1>4 DEF IInv, SnapsOK
<1> QED BY <1>2, <1>3, <1>5, <1>6, QuietStep

LEMMA DeviceTypes ==
    ASSUME IInv
    PROVE  /\ spent \in SpentType
           /\ cursor \in Cursor /\ boot \in Boot /\ run \in [Runs -> RunType]
           /\ Caught(cursor.seq) /\ Caught(pulled) /\ \A r \in Runs : RunOK(run[r])
           /\ cursor.seq \in 0..MaxSeq
BY DEF IInv, DeviceOK, MarksOK, RunsOK, Cursor

\* What is counted of faults, overlaps and resets stays within its bound.
LEMMA FaultTypes ==
    ASSUME IInv, Fault
    PROVE  spent' \in SpentType
BY DeviceTypes, SceneTypes, Bounds DEF Fault, SpentType

LEMMA BeginTypes ==
    ASSUME IInv, NEW r \in Runs, Begin(r)
    PROVE  spent' \in SpentType
BY DeviceTypes, SceneTypes, Bounds DEF Begin, SpentType

LEMMA LapsesTypes ==
    ASSUME IInv, Lapses
    PROVE  spent' \in SpentType
BY DeviceTypes, SceneTypes, Bounds DEF Lapses, SpentType

LEMMA ToIdle ==
    ASSUME IInv, NEW r \in Runs, run' = [run EXCEPT ![r] = Idle], Caught(pulled'),
           spent' \in SpentType,
           UNCHANGED <<scene, row, log, open, drawn, tomb, snap, outcome, local, conflict, known, cursor,
                       boot, edit, told, dead, covered, shown>>
    PROVE  IInv'
<1>1. Idle.boot.snap = 0 /\ Idle.page.snap = 0
  BY DEF Idle, NoBoot, NoPage
<1> QED BY <1>1, IdleOK, RunMoves

LEMMA DiesKeepsIInv ==
    ASSUME IInv, NEW r \in Runs, Dies(r)
    PROVE  IInv'
<1>1. /\ run' = [run EXCEPT ![r] = Idle] /\ Fault
      /\ UNCHANGED <<scene, row, log, open, drawn, tomb, pulled, snap, outcome, local, conflict, known, cursor,
                       boot, edit, told, dead, covered, shown>>
  BY DEF Dies, service, device
<1>2. spent' \in SpentType
  BY <1>1, FaultTypes
<1>3. Caught(pulled')
  BY <1>1, DeviceTypes
<1> QED BY <1>1, <1>2, <1>3, ToIdle

\* A page that cannot be applied changes nothing.
LEMMA FailsClosedKeepsIInv ==
    ASSUME IInv, NEW r \in Runs, FailsClosed(r)
    PROVE  IInv'
<1>1. /\ run' = [run EXCEPT ![r] = Idle]
      /\ UNCHANGED <<scene, row, log, open, drawn, tomb, pulled, snap, outcome, local, conflict, known,
                     cursor, boot, edit, told, dead, covered, shown, spent>>
  BY DEF FailsClosed, service, device
<1> QED BY <1>1, DeviceTypes, ToIdle

LEMMA StartPushKeepsIInv ==
    ASSUME IInv, NEW r \in Runs, StartPush(r)
    PROVE  IInv'
<1> DEFINE x == [Idle EXCEPT !.at = "pushing", !.edit = Min(Untold)]
<1>1. /\ run' = [run EXCEPT ![r] = x] /\ Untold # {}
      /\ UNCHANGED <<scene, row, log, open, drawn, tomb, pulled, snap, outcome, local, conflict, known, cursor,
                     boot, edit, told, dead, covered, shown>>
      /\ spent' \in SpentType
  BY BeginTypes DEF StartPush, service, device
<1>2. Min(Untold) \in DOMAIN edit /\ Min(Untold) \in 0..MaxEdits
  <2>1. Untold \in SUBSET Nat
    BY EditRecords DEF IInv, Untold
  <2>2. Min(Untold) \in Untold
    BY <1>1, <2>1, LeastNumber
  <2> QED BY <2>2, EditRecords DEF IInv, Untold, Edits
<1>3. /\ x \in RunType /\ x.at = "pushing" /\ x.edit = Min(Untold) /\ x.copy = Idle.copy
      /\ x.boot = Idle.boot /\ x.page = Idle.page
  BY <1>2, IdleTypes DEF RunType
<1>4. Idle.boot.snap = 0 /\ Idle.page.snap = 0 /\ RunOK(Idle)
  BY IdleOK DEF Idle, NoBoot, NoPage
<1> HIDE DEF x
<1>5. PageOK(x)
  BY <1>3, <1>4 DEF RunOK, PageOK
<1>6. RunOK(x)
  BY <1>2, <1>3, <1>4, <1>5 DEF RunOK
<1>7. {x.boot.snap, x.page.snap} \ {0} \subseteq Referenced
  BY <1>3, <1>4
<1> QED BY <1>1, <1>6, <1>7, RunMoves, DeviceTypes

LEMMA ServePushKeepsIInv ==
    ASSUME IInv, NEW r \in Runs, ServePush(r)
    PROVE  IInv'
<1>1. PICK i : i = run[r].edit
  OBVIOUS
<1>2. PICK e : e = [seq |-> drawn + 1, agg |-> edit[i].agg,
                 version |-> row[edit[i].agg].version + 1, value |-> edit[i].value]
  OBVIOUS
<1>3. e.agg = edit[i].agg
  BY <1>2
<1>4. i \in DOMAIN edit /\ UNCHANGED <<local, conflict, known, cursor, boot, edit, told, dead, covered, shown>>
  BY <1>1, ServePushRuns DEF ServePush, device
<1>5. \/ UNCHANGED <<scene, row, log, open, drawn, tomb, pulled, snap, outcome, spent>>
      \/ /\ outcome[i] = "NONE"
         /\ \E o \in {"CONFLICT", "REJECTED"} : outcome' = [outcome EXCEPT ![i] = o]
         /\ UNCHANGED <<scene, row, log, open, drawn, tomb, pulled, snap>>
         /\ spent' \in SpentType
      \/ /\ outcome[i] = "NONE"
         /\ OwnerLocked(e.agg)
         /\ ~Stale(i)
         /\ drawn' = drawn + 1
         /\ Published(e)
         /\ outcome' = [outcome EXCEPT ![i] = "APPLIED"]
         /\ UNCHANGED <<scene, open, pulled, snap, spent>>
  BY <1>1, <1>2, FaultTypes, DeviceTypes DEF ServePush, Decide, service
<1> DEFINE x == run'[r]
<1>6. /\ run' \in [Runs -> RunType] /\ RunOK(x) /\ \A q \in Runs \ {r} : run'[q] = run[q]
      /\ x.boot = run[r].boot /\ x.page = run[r].page
  BY ServePushRuns
<1>7. Referenced' = Referenced
  <2>1. \A q \in Runs : run'[q].boot = run[q].boot /\ run'[q].page = run[q].page
    BY <1>6
  <2> QED BY <1>4, <2>1 DEF Referenced
<1>8. \A q \in Runs : RunOK(run'[q])
  <2> SUFFICES ASSUME NEW q \in Runs, q # r PROVE RunOK(run'[q])
    BY <1>6
  <2> QED BY <1>6, DeviceTypes
<1>9. CASE UNCHANGED <<scene, row, log, open, drawn, tomb, pulled, snap, outcome, spent>>
  <2> HIDE DEF x
  <2>2. /\ snap' \in [Snapshots -> SnapType] /\ \A n \in Snapshots : SnapOK(snap'[n])
        /\ \A n \in Referenced' \ {0} : snap'[n].items \in [Aggs -> Item]
    BY <1>7, <1>9 DEF IInv, SnapsOK
  <2> QED BY <1>4, <1>6, <1>8, <1>9, <2>2, QuietStep, DeviceTypes
<1>10. CASE /\ outcome[i] = "NONE"
            /\ \E o \in {"CONFLICT", "REJECTED"} : outcome' = [outcome EXCEPT ![i] = o]
            /\ UNCHANGED <<scene, row, log, open, drawn, tomb, pulled, snap>>
            /\ spent' \in SpentType
  <2> HIDE DEF x
  <2>1. Grows
    BY <1>4, <1>10, NothingPublished DEF IInv, DrawnOK
  <2>2. EditsOK'
    <3>1. /\ outcome' \in [Edits -> {"NONE", "APPLIED", "CONFLICT", "REJECTED"}]
          /\ \A j \in Edits : outcome'[j] = outcome[j] \/ (j = i /\ outcome'[j] \in {"CONFLICT", "REJECTED"})
      BY <1>10 DEF IInv, EditsOK
    <3>2. DOMAIN edit \subseteq Edits
      BY EditRecords DEF IInv
    <3>3. \A j \in DOMAIN edit :
            /\ edit[j].value = Gone => local[edit[j].agg].value = Gone
            /\ outcome'[j] = "NONE" => Alive(edit[j].agg, edit[j].base)
            /\ outcome'[j] = "APPLIED" =>
                  /\ edit[j].base + 1 <= row[edit[j].agg].version
                  /\ edit[j].value # Gone => Alive(edit[j].agg, edit[j].base + 1)
      <4> SUFFICES ASSUME NEW j \in DOMAIN edit
          PROVE  /\ edit[j].value = Gone => local[edit[j].agg].value = Gone
                 /\ outcome'[j] = "NONE" => Alive(edit[j].agg, edit[j].base)
                 /\ outcome'[j] = "APPLIED" =>
                       /\ edit[j].base + 1 <= row[edit[j].agg].version
                       /\ edit[j].value # Gone => Alive(edit[j].agg, edit[j].base + 1)
        OBVIOUS
      <4>1. outcome'[j] \in {"NONE", "APPLIED"} => outcome[j] = outcome'[j]
        BY <3>1, <3>2
      <4> QED BY <4>1 DEF IInv, EditsOK
    <3>4. \A j \in Edits \ DOMAIN edit : outcome'[j] = "NONE"
      BY <1>4, <3>1 DEF IInv, EditsOK
    <3> QED BY <1>4, <1>10, <3>1, <3>3, <3>4 DEF IInv, EditsOK, Alive
  <2>3. DrawnOK'
    <3>1. AppliedEdits' = AppliedEdits
      BY <1>4, <1>10, EditRecords DEF IInv, EditsOK, AppliedEdits
    <3> QED BY <1>10, <3>1 DEF IInv, DrawnOK
  <2>4. LogOK' /\ RowsOK' /\ TombOK' /\ DeviceOK' /\ KindsOK'
    BY <1>4, <1>10 DEF IInv, LogOK, RowsOK, TombOK, DeviceOK, KindsOK, Alive, Applied, Is
  <2>5. RunsOK'
    <3>1. PICK y : y = run'[r] /\ RunOK(y)
      BY <1>6 DEF x
    <3>2. RunOK(y)'
      BY <2>1, <3>1, RunKept
    <3>3. RunOK(run[r])'
      BY <3>1, <3>2 DEF RunOK, PageOK, Caught, Below, Applied, ItemOK, Alive
    <3> QED BY <1>6, <2>1, <3>3, RunsKept
  <2>6. SnapsOK' /\ LocalOK' /\ MarksOK'
    BY <1>4, <1>7, <1>10, <2>1, SnapsKept, LocalKept, MarksKept
  <2> QED BY <2>2, <2>3, <2>4, <2>5, <2>6 DEF IInv
<1>11. CASE /\ outcome[i] = "NONE"
            /\ OwnerLocked(e.agg)
            /\ ~Stale(i)
            /\ drawn' = drawn + 1
            /\ Published(e)
            /\ outcome' = [outcome EXCEPT ![i] = "APPLIED"]
            /\ UNCHANGED <<scene, open, pulled, snap, spent>>
  BY <1>1, <1>2, <1>11, PushAppliedKeepsIInv
<1> QED BY <1>5, <1>9, <1>10, <1>11

\* The end of a push, with an answer or without one.
LEMMA PushEnds ==
    ASSUME IInv, NEW r \in Runs, ApplyAck(r) \/ GiveUp(r)
    PROVE  IInv'
<1> DEFINE L == [version : Versions, value : Values, dirty : BOOLEAN]
<1>1. PICK i, a : i = run[r].edit /\ a = edit[i].agg
  OBVIOUS
<1>2. /\ run[r].at \in {"pushing", "answered"}
      /\ told' = told \cup {i} /\ run' = [run EXCEPT ![r] = Idle]
      /\ \/ local' = local
         \/ /\ outcome[i] = "APPLIED"
            /\ local' = [local EXCEPT ![a].dirty = FALSE, ![a].version = edit[i].base + 1]
      /\ conflict' \in {conflict, conflict \cup {a}} /\ dead' \in {dead, dead \cup {i}}
      /\ UNCHANGED <<scene, row, log, open, drawn, tomb, pulled, snap, outcome, known, cursor, boot,
                     edit, covered, shown>>
      /\ spent' \in SpentType
  BY <1>1, FaultTypes, DeviceTypes DEF ApplyAck, GiveUp, service
<1>3. i \in DOMAIN edit
  BY <1>1, <1>2, DeviceTypes DEF RunOK
<1>4. a \in Aggs /\ edit[i].base \in Nat
  BY <1>1, <1>3, EditRecords, Bounds DEF IInv, Versions
<1>5. Grows
  BY <1>2, NothingPublished DEF IInv, DrawnOK
<1>6. local \in [Aggs -> L]
  BY DEF IInv, LocalOK
<1>7. LocalOK' /\ \A b \in Aggs : local[b].value = Gone => local'[b].value = Gone
  <2>1. CASE local' = local
    BY <1>5, <2>1, LocalKept
  <2>2. CASE /\ outcome[i] = "APPLIED"
             /\ local' = [local EXCEPT ![a].dirty = FALSE, ![a].version = edit[i].base + 1]
    <3> DEFINE l == [local[a] EXCEPT !.dirty = FALSE, !.version = edit[i].base + 1]
    <3>1. local' = [local EXCEPT ![a] = l]
      BY <1>4, <1>6, <2>2
    <3>2. /\ edit[i].base + 1 <= row[a].version
          /\ edit[i].value # Gone => Alive(a, edit[i].base + 1)
          /\ edit[i].value = Gone => local[a].value = Gone
      BY <1>1, <1>3, <2>2 DEF IInv, EditsOK
    <3>3. edit[i].base + 1 \in Versions
      <4>1. row[a].version \in 0..MaxSeq
        BY <1>4 DEF IInv, RowsOK, Item, Versions
      <4> QED BY <1>4, <3>2, <4>1, Bounds DEF Versions
    <3>4. l \in L /\ l.value = local[a].value /\ l.version = edit[i].base + 1
      <4>1. local[a] \in L
        BY <1>4, <1>6
      <4> QED BY <3>3, <4>1
    <3> HIDE DEF l, L
    <3>5. local' \in [Aggs -> L] /\ local'[a] = l /\ \A b \in Aggs \ {a} : local'[b] = local[b]
      BY <1>4, <1>6, <3>1, <3>4
    <3>6. \A b \in Aggs : local'[b].value # Gone => Alive(b, local'[b].version)
      <4> SUFFICES ASSUME NEW b \in Aggs, local'[b].value # Gone PROVE Alive(b, local'[b].version)
        OBVIOUS
      <4>1. CASE b = a
        BY <3>2, <3>4, <3>5, <4>1
      <4>2. CASE b # a
        BY <3>5, <4>2 DEF IInv, LocalOK
      <4> QED BY <4>1, <4>2
    <3>7. LocalOK'
      BY <1>2, <3>5, <3>6 DEF LocalOK, Alive, L
    <3>8. \A b \in Aggs : local[b].value = Gone => local'[b].value = Gone
      BY <3>4, <3>5
    <3> QED BY <3>7, <3>8
  <2> QED BY <1>2, <2>1, <2>2
<1>8. EditsOK'
  <2>1. told' \subseteq DOMAIN edit
    BY <1>2, <1>3 DEF IInv, EditsOK
  <2>2. \A b \in Aggs : row[b].version <= row'[b].version /\ row'[b].version \in Nat
    BY <1>2, Bounds DEF IInv, RowsOK, Item, Versions
  <2> QED BY <1>2, <1>5, <1>7, <2>1, <2>2, EditsKept
<1>9. LogOK' /\ DrawnOK' /\ RowsOK' /\ TombOK' /\ KindsOK'
  BY <1>2 DEF IInv, LogOK, DrawnOK, RowsOK, TombOK, KindsOK, Alive, Applied, AppliedEdits, Is
<1>10. DeviceOK'
  BY <1>2, <1>4 DEF IInv, DeviceOK
<1>11. RunsOK'
  <2>1. RunOK(run[r])'
    <3>1. RunOK(Idle)'
      BY <1>5, IdleOK, RunKept
    <3>2. run'[r] = Idle
      BY <1>2, DeviceTypes
    <3> QED BY <3>1, <3>2 DEF RunOK, PageOK, Caught, Below, Applied, ItemOK, Alive
  <2> QED BY <1>2, <1>5, <2>1, RunsKept, DeviceTypes, IdleTypes
<1>12. SnapsOK'
  <2>1. Idle.boot.snap = 0 /\ Idle.page.snap = 0
    BY DEF Idle, NoBoot, NoPage
  <2>2. \A q \in Runs : run'[q] = run[q] \/ run'[q] = Idle
    BY <1>2, DeviceTypes
  <2>3. Referenced' \ {0} \subseteq Referenced
    BY <1>2, <2>1, <2>2 DEF Referenced
  <2> QED BY <1>2, <1>5, <2>3, SnapKept DEF IInv, SnapsOK
<1>13. MarksOK'
  BY <1>2, <1>5, MarksKept
<1> QED BY <1>7, <1>8, <1>9, <1>10, <1>11, <1>12, <1>13 DEF IInv

(* Pulling *)

LEMMA StartPullKeepsIInv ==
    ASSUME IInv, NEW r \in Runs, StartPull(r)
    PROVE  IInv'
<1> DEFINE x == [Idle EXCEPT !.at = "pulling", !.copy = cursor]
<1>1. /\ run' = [run EXCEPT ![r] = x]
      /\ UNCHANGED <<scene, row, log, open, drawn, tomb, pulled, snap, outcome, local, conflict, known, cursor,
                     boot, edit, told, dead, covered, shown>>
      /\ spent' \in SpentType
  BY BeginTypes DEF StartPull, service, device
<1>2. x \in RunType /\ x.at = "pulling" /\ x.copy = cursor /\ x.boot = Idle.boot /\ x.page = Idle.page
  BY IdleTypes, DeviceTypes DEF RunType
<1>3. Idle.boot.snap = 0 /\ Idle.page.snap = 0 /\ RunOK(Idle)
  BY IdleOK DEF Idle, NoBoot, NoPage
<1> HIDE DEF x
<1>4. PageOK(x)
  BY <1>2, <1>3 DEF RunOK, PageOK
<1>5. RunOK(x)
  BY <1>2, <1>3, <1>4, DeviceTypes DEF RunOK
<1>6. {x.boot.snap, x.page.snap} \ {0} \subseteq Referenced
  BY <1>2, <1>3
<1> QED BY <1>1, <1>5, <1>6, RunMoves, DeviceTypes

After(m) == {e \in log : e.seq > m}

\* The events of an answer are all there is up to the cursor it ends with.
LEMMA PageIsComplete ==
    ASSUME IInv, NEW m, Caught(m), NEW E, E = Earliest(After(m), PageLimit),
           NEW next, E = {} => next = m, E # {} => next = LastOf(E).seq
    PROVE  /\ E \subseteq log /\ E \in SUBSET Event /\ next \in 0..MaxSeq /\ Below(next)
           /\ \A e \in log : e.seq <= next => e \in E \/ Applied(e)
<1> DEFINE S == After(m)
<1>1. m \in 0..MaxSeq /\ m \in Nat /\ Below(m)
  BY MarkTypes DEF Caught
<1>2. \A e \in log : e \in Event /\ e.seq \in Seqs /\ e.seq \in Nat /\ e.seq \in 0..MaxSeq
  BY Bounds DEF IInv, LogOK, Event, Seqs
<1>3. E \subseteq log /\ E \subseteq S /\ E \in SUBSET Event
  BY <1>2 DEF Earliest, After
<1>4. CASE E # {}
  <2>1. LastOf(E) \in E /\ \A e \in E : e.seq <= LastOf(E).seq
    BY <1>2, <1>3, <1>4, LastOfEvents
  <2>2. next = LastOf(E).seq /\ next \in 0..MaxSeq
    BY <1>2, <1>3, <1>4, <2>1
  <2>3. Below(next)
    <3>1. PICK d \in log : next = d.seq /\ d.seq \in Nat
      BY <1>2, <1>3, <2>1, <2>2
    <3>2. d.seq <= drawn /\ \A o \in open : d.seq < o.seq
      BY DEF IInv, LogOK
    <3>3. drawn \in Nat
      BY DEF IInv, DrawnOK
    <3>4. next \in 0..drawn /\ \A o \in open : next < o.seq
      BY <3>1, <3>2, <3>3
    <3> QED BY <3>4 DEF Below
  <2>4. \A e \in log : e.seq <= next => e \in E \/ Applied(e)
    <3> SUFFICES ASSUME NEW e \in log, e.seq <= next, e.seq > m PROVE e \in E
      BY <1>1, <1>2 DEF Caught
    <3>1. IsFiniteSet(S)
      BY FS_Subset DEF IInv, LogOK, After
    <3>2. e \in S /\ e.seq <= LastOf(E).seq /\ \A d \in S : d.seq \in Nat
      BY <1>2, <2>2 DEF After
    <3>3. E = Earliest(S, PageLimit)
      OBVIOUS
    <3> HIDE DEF S
    <3>4. PageLimit \in Nat
      BY Bounds
    <3> QED BY <2>1, <3>1, <3>2, <3>3, <3>4, EarliestIsPrefix
  <2> QED BY <1>3, <2>2, <2>3, <2>4
<1>5. CASE E = {}
  BY <1>1, <1>3, <1>5 DEF Caught
<1> QED BY <1>4, <1>5

LEMMA ServePullKeepsIInv ==
    ASSUME IInv, NEW r \in Runs, ServePull(r)
    PROVE  IInv'
<1>1. PICK E : E = Earliest({e \in log : e.seq > run[r].copy.seq}, PageLimit)
  OBVIOUS
<1>2. PICK next : next = IF E = {} THEN run[r].copy.seq ELSE LastOf(E).seq
  OBVIOUS
<1> DEFINE p == [NoPage EXCEPT !.next = next, !.events = E]
           x == [run[r] EXCEPT !.at = "page", !.page = p]
<1>3. /\ run[r].at = "pulling"
      /\ run' = [run EXCEPT ![r].at = "page", ![r].page = p]
      /\ pulled' = Max({pulled, run[r].copy.seq})
      /\ UNCHANGED <<scene, row, log, open, drawn, tomb, snap, outcome, local, conflict, known, cursor,
                     boot, edit, told, dead, covered, shown, spent>>
  BY <1>1, <1>2 DEF ServePull, device
<1>4. run \in [Runs -> RunType] /\ RunOK(run[r]) /\ run[r] \in RunType
  BY DeviceTypes
<1>5. run' = [run EXCEPT ![r] = x]
  BY <1>3, <1>4
<1>6. Caught(run[r].copy.seq)
  BY <1>4 DEF RunOK
<1>7. /\ E \subseteq log /\ E \in SUBSET Event /\ next \in 0..MaxSeq /\ Below(next)
      /\ \A e \in log : e.seq <= next => e \in E \/ Applied(e)
  <2>1. PICK m : m = run[r].copy.seq
    OBVIOUS
  <2>2. Caught(m) /\ E = Earliest(After(m), PageLimit)
    BY <1>1, <1>6, <2>1 DEF After
  <2>3. (E = {} => next = m) /\ (E # {} => next = LastOf(E).seq)
    BY <1>2, <2>1
  <2> HIDE DEF p, x
  <2> QED BY <2>2, <2>3, PageIsComplete
<1>8. p \in Page /\ p.next = next /\ p.events = E /\ p.snap = 0
  BY <1>7, IdleTypes DEF NoPage, Page
<1>9. x \in RunType /\ x.at = "page" /\ x.copy = run[r].copy /\ x.boot = run[r].boot /\ x.page = p
  BY <1>4, <1>8 DEF RunType
<1> HIDE DEF x, p
<1>10. PageOK(x)
  BY <1>7, <1>8, <1>9 DEF PageOK
<1>11. RunOK(x)
  BY <1>6, <1>8, <1>9, <1>10 DEF RunOK
<1>12. {x.boot.snap, x.page.snap} \ {0} \subseteq Referenced
  BY <1>8, <1>9 DEF Referenced
<1>13. Caught(pulled')
  <2>1. pulled \in 0..MaxSeq /\ run[r].copy.seq \in 0..MaxSeq
    BY <1>6, MarkTypes, DeviceTypes DEF Caught
  <2>2. Max({pulled, run[r].copy.seq}) \in {pulled, run[r].copy.seq}
    BY <2>1, GreatestNumber, Bounds
  <2> QED BY <1>3, <1>6, <2>2, DeviceTypes
<1> QED BY <1>3, <1>5, <1>11, <1>12, <1>13, RunMoves, DeviceTypes

(* Projections *)

LocalRow == [version : Versions, value : Values, dirty : BOOLEAN]

\* Events of row a that can be projected.
Projectable(a, S) ==
    \A e \in S : /\ e.seq \in 0..MaxSeq /\ e.version \in Versions /\ e.value \in Values
                 /\ e.value # Gone => Alive(a, e.version)

\* A row takes the last of the events, or stays; what is deleted stays deleted.
LEMMA ProjectedOK ==
    ASSUME IInv, NEW a \in Aggs, NEW S, Projectable(a, S)
    PROVE  /\ Projected(a, S) \in LocalRow
           /\ Projected(a, S).value # Gone => Alive(a, Projected(a, S).version)
           /\ local[a].value = Gone => Projected(a, S).value = Gone
<1>1. local[a] \in LocalRow /\ (local[a].value # Gone => Alive(a, local[a].version))
  BY DEF IInv, LocalOK, LocalRow
<1>2. CASE Refuses(a) \/ S = {}
  BY <1>1, <1>2 DEF Projected
<1>3. CASE ~Refuses(a) /\ S # {}
  <2>1. PICK last \in S : last = LastOf(S)
    BY <1>3, LastOfEvents DEF Projectable
  <2>2. /\ last.version \in Versions /\ last.value \in Values
        /\ last.value # Gone => Alive(a, last.version)
    BY <2>1 DEF Projectable
  <2>3. PICK v : v = CASE local[a].value = Gone -> Gone
                      [] local[a].value = None /\ \A e \in S : e.value = Gone -> None
                      [] LastOf(S).value = Gone -> Gone
                      [] OTHER -> Payload(a, LastOf(S).value)
    OBVIOUS
  <2>4. PICK n : n = IF last.value = Gone \/ Is(a, "PREFERENCE") THEN local[a].version ELSE last.version
    OBVIOUS
  <2>5. Projected(a, S) = [version |-> n, value |-> v, dirty |-> FALSE]
    BY <1>3, <2>1, <2>3, <2>4 DEF Projected
  <2>6. local[a].version \in Versions /\ local[a].value \in Values
    BY <1>1 DEF LocalRow
  <2>7. {Gone, None, Adopted} \subseteq Values
    BY Bounds DEF Values, Gone, Adopted
  <2>8. local[a].value = Gone => v = Gone
    BY <2>3
  <2>9. v \in Values
    <3>1. Payload(a, last.value) \in Values
      BY <2>2, <2>6, <2>7 DEF Payload
    <3>2. v \in {Gone, None, Payload(a, last.value)}
      BY <2>1, <2>3
    <3> QED BY <2>7, <3>1, <3>2
  <2>10. n \in Versions
    BY <2>2, <2>4, <2>6
  <2>11. v # Gone => Alive(a, n)
    BY <1>1, <2>2, <2>4, <2>8
  <2> QED BY <2>5, <2>8, <2>9, <2>10, <2>11 DEF LocalRow
<1> QED BY <1>2, <1>3

LEMMA ShownOK ==
    ASSUME IInv, NEW a \in Aggs, NEW S, Projectable(a, S)
    PROVE  Shown(a, S) \in ShownRow
<1>1. shown[a] \in ShownRow
  BY DEF IInv, DeviceOK
<1>2. CASE S = {}
  BY <1>1, <1>2 DEF Shown
<1>3. CASE S # {}
  <2>1. PICK v : v = LastOf(S).version
    OBVIOUS
  <2>2. v \in Versions
    BY <1>3, <2>1, LastOfEvents DEF Projectable
  <2>3. PICK h : h = shown[a].high
    OBVIOUS
  <2>4. h \in Versions
    BY <1>1, <2>3 DEF ShownRow
  <2>5. Max({h, v}) \in {h, v}
    <3>1. {h, v} \in SUBSET (0..MaxSeq) /\ {h, v} # {} /\ MaxSeq \in Nat
      BY <2>2, <2>4, Bounds DEF Versions
    <3> QED BY <3>1, GreatestNumber
  <2> QED BY <1>3, <2>1, <2>2, <2>3, <2>4, <2>5 DEF Shown, ShownRow
<1> QED BY <1>2, <1>3

\* A page or an item is projected onto the rows; the service does not move.
LEMMA ProjectionKeeps ==
    ASSUME IInv, UNCHANGED <<scene, row, log, open, drawn, tomb, pulled, snap, outcome, edit, told, dead, spent>>,
           known \subseteq known', known' \subseteq Seqs, conflict' \subseteq Aggs,
           covered' \in Nat, covered <= covered', Below(covered'),
           cursor' \in Cursor, boot' \in Boot,
           Below(cursor'.seq), \A e \in log : e.seq <= cursor'.seq => Applied(e)',
           NEW r \in Runs, run' = [run EXCEPT ![r] = Idle], boot'.snap \in Referenced \cup {0},
           local' \in [Aggs -> LocalRow], shown' \in [Aggs -> ShownRow],
           \A a \in Aggs : local'[a].value # Gone => Alive(a, local'[a].version),
           \A a \in Aggs : local[a].value = Gone => local'[a].value = Gone
    PROVE  IInv'
<1>1. \A m : Below(m) <=> Below(m)'
  BY DEF Below
<1>2. \A e : e \in log /\ Applied(e) => Applied(e)'
  <2> SUFFICES ASSUME NEW e, e \in log, Applied(e) PROVE Applied(e)'
    OBVIOUS
  <2>1. e.seq \in Nat /\ covered \in Nat
    BY MarkTypes, Bounds DEF IInv, MarksOK, LogOK, Event, Seqs
  <2> QED BY <2>1 DEF Applied
<1>3. \A a, v : Alive(a, v) <=> Alive(a, v)'
  BY DEF Alive
<1>4. \A m : Caught(m) => Caught(m)'
  BY <1>1, <1>2 DEF Caught
<1>5. \A x : RunOK(x) => RunOK(x)'
  <2> SUFFICES ASSUME NEW x, RunOK(x) PROVE RunOK(x)'
    OBVIOUS
  <2>1. PageOK(x)'
    BY <1>1, <1>2 DEF RunOK, PageOK
  <2>2. \A a, item : ItemOK(a, item) => ItemOK(a, item)'
    BY <1>3 DEF ItemOK
  <2> QED BY <1>4, <2>1, <2>2 DEF RunOK
<1>6. RunsOK'
  <2>1. run' \in [Runs -> RunType]
    BY IdleTypes, DeviceTypes
  <2>2. \A q \in Runs : \E x : x = run'[q] /\ RunOK(x)
    BY IdleOK, DeviceTypes
  <2>3. ASSUME NEW q \in Runs PROVE RunOK(run[q])'
    <3>1. PICK x : x = run'[q] /\ RunOK(x)
      BY <2>2
    <3>2. RunOK(x)'
      BY <1>5, <3>1
    <3> QED BY <3>1, <3>2 DEF RunOK, PageOK, Caught, Below, Applied, ItemOK, Alive
  <2> QED BY <2>1, <2>3 DEF RunsOK
<1>7. SnapsOK'
  <2>1. Referenced' \subseteq Referenced \cup {0}
    <3>1. Idle.boot.snap = 0 /\ Idle.page.snap = 0
      BY DEF Idle, NoBoot, NoPage
    <3>2. \A q \in Runs : run'[q] = run[q] \/ run'[q] = Idle
      BY DeviceTypes
    <3> QED BY <3>1, <3>2 DEF Referenced
  <2>2. \A x : SnapOK(x) => SnapOK(x)'
    BY <1>1, <1>3 DEF SnapOK, ItemOK
  <2> QED BY <2>1, <2>2 DEF IInv, SnapsOK
<1>8. LogOK' /\ DrawnOK' /\ RowsOK'
  BY DEF IInv, LogOK, DrawnOK, RowsOK, AppliedEdits, Alive
<1>9. EditsOK'
  <2>1. \A i \in DOMAIN edit : edit[i].value = Gone => local'[edit[i].agg].value = Gone
    <3>1. \A i \in DOMAIN edit : edit[i].agg \in Aggs
      BY EditRecords DEF IInv
    <3> QED BY <3>1 DEF IInv, EditsOK
  <2> QED BY <2>1 DEF IInv, EditsOK, Alive
<1>10. TombOK'
  BY <1>2 DEF IInv, TombOK
<1>11. LocalOK'
  BY <1>3 DEF LocalOK, LocalRow
<1>12. DeviceOK'
  BY DEF IInv, DeviceOK
<1>13. MarksOK'
  <2>1. Caught(cursor.seq)'
    <3>1. PICK m : m = cursor'.seq
      OBVIOUS
    <3>2. Below(m)' /\ \A e \in log' : e.seq <= m => Applied(e)'
      BY <1>1, <3>1
    <3> QED BY <3>1, <3>2 DEF Caught, Below
  <2>2. Caught(pulled)'
    <3>1. PICK m : m = pulled /\ Caught(m)
      BY DeviceTypes
    <3>2. Caught(m)' /\ m = pulled'
      BY <1>4, <3>1
    <3> QED BY <3>2 DEF Caught, Below, Applied
  <2>3. Below(covered)'
    <3>1. PICK m : m = covered' /\ Below(m)
      OBVIOUS
    <3>2. Below(m)'
      BY <1>1, <3>1
    <3> QED BY <3>1, <3>2 DEF Below
  <2> QED BY <2>1, <2>2, <2>3 DEF MarksOK
<1>14. KindsOK'
  BY DEF IInv, KindsOK, Is
<1> QED BY <1>6, <1>7, <1>8, <1>9, <1>10, <1>11, <1>12, <1>13, <1>14 DEF IInv

LEMMA ApplyPageKeepsIInv ==
    ASSUME IInv, NEW r \in Runs, ApplyPage(r)
    PROVE  IInv'
<1> DEFINE events == Fresh(run[r].page.events)
           next == run[r].page.next
<1>1. /\ run[r].at = "page"
      /\ local' = [a \in Aggs |-> Projected(a, OfRow(events, a))]
      /\ conflict' = conflict \cup Refused(events)
      /\ known' = known \cup {e.seq : e \in events}
      /\ shown' = [a \in Aggs |-> Shown(a, OfRow(events, a))]
      /\ cursor' = [run[r].copy EXCEPT !.seq = next, !.valid = TRUE]
      /\ run' = [run EXCEPT ![r] = Idle]
      /\ UNCHANGED <<scene, row, log, open, drawn, tomb, pulled, snap, outcome, boot, edit, told, dead, covered, spent>>
  BY DEF ApplyPage, service
<1>2. RunOK(run[r]) /\ PageOK(run[r]) /\ run[r] \in RunType
  BY DeviceTypes DEF RunOK
<1>3. /\ run[r].page.events \subseteq log /\ Below(next) /\ next \in 0..MaxSeq
      /\ \A e \in log : e.seq <= next => e \in run[r].page.events \/ Applied(e)
  BY <1>1, <1>2, MarkTypes DEF PageOK
<1>4. events \subseteq log /\ \A e \in run[r].page.events : e \in events \/ e.seq \in known
  BY <1>3 DEF Fresh
<1> HIDE DEF events
<1>5. \A e \in events : e.seq \in Seqs /\ e.seq \in 0..MaxSeq /\ e.version \in Versions /\ e.value \in Values
  BY <1>4, Bounds DEF IInv, LogOK, Event, Seqs
<1>6. known \subseteq known' /\ known' \subseteq Seqs /\ \A e \in events : e.seq \in known'
  BY <1>1, <1>5 DEF IInv, DeviceOK
<1>7. cursor' \in Cursor /\ cursor'.seq = next
  BY <1>1, <1>2, <1>3 DEF RunType, Cursor
<1>8. \A e \in log : e.seq <= next => Applied(e)'
  BY <1>1, <1>3, <1>4, <1>6 DEF Applied
<1>9. ASSUME NEW a \in Aggs
      PROVE  /\ local'[a] \in LocalRow
             /\ local'[a].value # Gone => Alive(a, local'[a].version)
             /\ local[a].value = Gone => local'[a].value = Gone
             /\ shown'[a] \in ShownRow
  <2>1. Projectable(a, OfRow(events, a))
    BY <1>4, <1>5 DEF Projectable, OfRow, IInv, RowsOK
  <2> QED BY <1>1, <2>1, ProjectedOK, ShownOK
<1>10. local' \in [Aggs -> LocalRow] /\ shown' \in [Aggs -> ShownRow]
  BY <1>1, <1>9
<1>11. conflict' \subseteq Aggs
  BY <1>1 DEF IInv, DeviceOK, Refused
<1>12. covered' \in Nat /\ covered <= covered' /\ Below(covered')
  <2>1. Below(covered)
    BY DEF IInv, MarksOK
  <2>2. covered \in Nat
    BY <2>1, MarkTypes
  <2> QED BY <1>1, <2>1, <2>2
<1>13. boot' \in Boot /\ boot'.snap \in Referenced
  BY <1>1, DeviceTypes DEF Referenced
<1> QED BY <1>1, <1>3, <1>6, <1>7, <1>8, <1>9, <1>10, <1>11, <1>12, <1>13, ProjectionKeeps

\* A step that resets or ages the device's cursor, or a snapshot.
LEMMA CursorMoves ==
    ASSUME IInv,
           UNCHANGED <<scene, row, log, open, drawn, tomb, pulled, outcome, local, conflict, known, edit, told, dead, covered, shown>>,
           cursor' \in Cursor, Caught(cursor'.seq), boot' \in {NoBoot, boot},
           spent' \in SpentType,
           snap' \in [Snapshots -> SnapType],
           \A n \in Snapshots : snap'[n].high = snap[n].high /\ snap'[n].items = snap[n].items,
           run' \in [Runs -> RunType], \A q \in Runs : RunOK(run'[q]),
           \A q \in Runs : \/ run'[q] = Idle
                           \/ run'[q].boot = run[q].boot /\ run'[q].page = run[q].page
    PROVE  IInv'
<1>1. boot' \in Boot /\ Caught(pulled')
  BY DeviceTypes, IdleTypes
<1>2. \A n \in Snapshots : SnapOK(snap'[n])
  BY DEF IInv, SnapsOK, SnapOK
<1>3. Referenced' \subseteq Referenced \cup {0}
  <2>1. Idle.boot.snap = 0 /\ Idle.page.snap = 0 /\ NoBoot.snap = 0
    BY DEF Idle, NoBoot, NoPage
  <2> QED BY <2>1 DEF Referenced
<1>4. Referenced \ {0} \subseteq Snapshots
  <2>1. boot.snap \in {0} \cup Snapshots
    BY DeviceTypes DEF Boot
  <2>2. \A q \in Runs : run[q].boot.snap \in {0} \cup Snapshots /\ run[q].page.snap \in {0} \cup Snapshots
    BY DeviceTypes DEF RunType, Boot, Page
  <2> QED BY <2>1, <2>2 DEF Referenced
<1>5. \A n \in Referenced' \ {0} : snap'[n].items \in [Aggs -> Item]
  BY <1>3, <1>4 DEF IInv, SnapsOK
<1> QED BY <1>1, <1>2, <1>5, QuietStep

LEMMA CursorInvalidKeepsIInv ==
    ASSUME IInv, NEW r \in Runs, CursorInvalid(r) \/ SnapshotInvalid(r)
    PROVE  IInv'
<1>1. /\ cursor' = [run[r].copy EXCEPT !.state = "RESET_REQUIRED"]
      /\ boot' = NoBoot /\ run' = [run EXCEPT ![r] = Idle]
      /\ UNCHANGED <<scene, row, log, open, drawn, tomb, pulled, snap, outcome, local, conflict, known,
                     edit, told, dead, covered, shown, spent>>
  BY DEF CursorInvalid, SnapshotInvalid, RestartSnapshot, service
<1>2. run \in [Runs -> RunType] /\ \A q \in Runs : RunOK(run[q])
  BY DeviceTypes
<1>3. run[r].copy \in Cursor /\ Caught(run[r].copy.seq)
  BY <1>2 DEF RunOK, RunType
<1>4. cursor' \in Cursor /\ cursor'.seq = run[r].copy.seq
  BY <1>1, <1>3 DEF Cursor
<1>5. \A q \in Runs : run'[q] = Idle \/ run'[q] = run[q]
  BY <1>1, <1>2
<1>6. run' \in [Runs -> RunType] /\ \A q \in Runs : RunOK(run'[q])
  BY <1>1, <1>2, <1>5, IdleOK, IdleTypes
<1>7. snap' \in [Snapshots -> SnapType]
  BY <1>1 DEF IInv, SnapsOK
<1> QED BY <1>1, <1>3, <1>4, <1>5, <1>6, <1>7, DeviceTypes, CursorMoves

LEMMA CursorLapsesKeepsIInv ==
    ASSUME IInv, CursorLapses
    PROVE  IInv'
<1>1. /\ cursor' = [cursor EXCEPT !.valid = FALSE]
      /\ run' = [r \in Runs |->
            IF run[r].at = "idle" THEN Idle ELSE [run[r] EXCEPT !.copy.valid = FALSE]]
      /\ UNCHANGED <<scene, row, log, open, drawn, tomb, pulled, snap, outcome, local, conflict, known, boot,
                     edit, told, dead, covered, shown>>
      /\ spent' \in SpentType
  BY LapsesTypes DEF CursorLapses, service
<1>2. cursor' \in Cursor /\ cursor'.seq = cursor.seq
  BY <1>1, DeviceTypes DEF Cursor
<1>3. ASSUME NEW r \in Runs
      PROVE  /\ run'[r] \in RunType /\ RunOK(run'[r])
             /\ run'[r] = Idle \/ (run'[r].boot = run[r].boot /\ run'[r].page = run[r].page)
  <2>1. CASE run[r].at = "idle"
    BY <1>1, <2>1, IdleOK, IdleTypes
  <2>2. CASE run[r].at # "idle"
    <3> DEFINE c == [run[r].copy EXCEPT !.valid = FALSE]
               x == [run[r] EXCEPT !.copy = c]
    <3>1. run[r] \in RunType /\ RunOK(run[r]) /\ run[r].copy \in Cursor
      BY DeviceTypes DEF RunType
    <3>2. run'[r] = x
      BY <1>1, <2>2, <3>1
    <3>3. c \in Cursor /\ c.seq = run[r].copy.seq
      BY <3>1 DEF Cursor
    <3>4. /\ x \in RunType /\ x.at = run[r].at /\ x.edit = run[r].edit /\ x.copy = c
          /\ x.boot = run[r].boot /\ x.page = run[r].page
      BY <3>1, <3>3 DEF RunType
    <3> HIDE DEF x, c
    <3>5. PageOK(x)
      BY <3>1, <3>4 DEF RunOK, PageOK
    <3>6. RunOK(x)
      BY <3>1, <3>3, <3>4, <3>5 DEF RunOK
    <3> QED BY <3>2, <3>4, <3>6
  <2> QED BY <2>1, <2>2
<1>4. run' \in [Runs -> RunType]
  BY <1>1, <1>3
<1>5. snap' \in [Snapshots -> SnapType]
  BY <1>1 DEF IInv, SnapsOK
<1> QED BY <1>1, <1>2, <1>3, <1>4, <1>5, DeviceTypes, CursorMoves

LEMMA RequestSnapshotKeepsIInv ==
    ASSUME IInv, RequestSnapshot
    PROVE  IInv'
<1>1. /\ cursor' = [cursor EXCEPT !.state = "RESET_REQUIRED"] /\ boot' = NoBoot
      /\ UNCHANGED <<scene, row, log, open, drawn, tomb, pulled, snap, outcome, local, conflict, known,
                     edit, told, dead, covered, shown, run>>
      /\ spent' \in SpentType
  BY LapsesTypes DEF RequestSnapshot, service
<1>2. cursor' \in Cursor /\ cursor'.seq = cursor.seq
  BY <1>1, DeviceTypes DEF Cursor
<1>3. snap' \in [Snapshots -> SnapType]
  BY <1>1 DEF IInv, SnapsOK
<1> QED BY <1>1, <1>2, <1>3, DeviceTypes, CursorMoves

LEMMA SnapshotLapsesKeepsIInv ==
    ASSUME IInv, NEW n \in Referenced \ {0}, SnapshotLapses(n)
    PROVE  IInv'
<1>1. /\ snap' = [snap EXCEPT ![n].live = FALSE]
      /\ UNCHANGED <<scene, row, log, open, drawn, tomb, pulled, outcome, local, conflict, known, cursor, boot,
                     edit, told, dead, covered, shown, run>>
      /\ spent' \in SpentType
  BY LapsesTypes DEF SnapshotLapses, device
<1>2. /\ snap' \in [Snapshots -> SnapType]
      /\ \A m \in Snapshots : snap'[m].high = snap[m].high /\ snap'[m].items = snap[m].items
  BY <1>1, Zenon DEF IInv, SnapsOK, SnapType
<1> QED BY <1>1, <1>2, DeviceTypes, CursorMoves

(* Bootstrap *)

LEMMA StartBootstrapKeepsIInv ==
    ASSUME IInv, NEW r \in Runs, StartBootstrap(r)
    PROVE  IInv'
<1> DEFINE x == [Idle EXCEPT !.at = "bootstrapping", !.copy = cursor, !.boot = boot]
<1>1. /\ run' = [run EXCEPT ![r] = x]
      /\ UNCHANGED <<scene, row, log, open, drawn, tomb, pulled, snap, outcome, local, conflict, known, cursor,
                     boot, edit, told, dead, covered, shown>>
      /\ spent' \in SpentType
  BY BeginTypes DEF StartBootstrap, service, device
<1>2. /\ x \in RunType /\ x.at = "bootstrapping" /\ x.copy = cursor
      /\ x.boot = boot /\ x.page = Idle.page
  BY IdleTypes, DeviceTypes DEF RunType
<1>3. Idle.page.snap = 0 /\ RunOK(Idle)
  BY IdleOK DEF Idle, NoPage
<1> HIDE DEF x
<1>4. PageOK(x)
  BY <1>2, <1>3 DEF RunOK, PageOK
<1>5. RunOK(x)
  BY <1>2, <1>3, <1>4, DeviceTypes DEF RunOK
<1>6. {x.boot.snap, x.page.snap} \ {0} \subseteq Referenced
  BY <1>2, <1>3 DEF Referenced
<1> QED BY <1>1, <1>5, <1>6, RunMoves, DeviceTypes

\* A run that gets a page of a snapshot.
LEMMA SnapshotPageOK ==
    ASSUME IInv, NEW x, RunOK(x), x.at = "bootstrapping",
           NEW n \in Snapshots, x.boot.snap \in {0, n},
           NEW a \in Aggs, NEW items \in [Aggs -> Item], ItemOK(a, items[a])
    PROVE  RunOK([x EXCEPT !.at = "snapshot", !.page = SnapshotPage(n, a, items)])
<1> DEFINE p == SnapshotPage(n, a, items)
           y == [x EXCEPT !.at = "snapshot", !.page = p]
<1>1. /\ p \in Page /\ p.next = 0 /\ p.events = {} /\ p.snap = n /\ p.agg = a /\ p.item = items[a]
  BY IdleTypes DEF SnapshotPage, Page, NoPage
<1> HIDE DEF p
<1>2. /\ y \in RunType /\ y.at = "snapshot" /\ y.copy = x.copy
      /\ y.boot = x.boot /\ y.page = p
  BY <1>1 DEF RunOK, RunType
<1> HIDE DEF y
<1>3. PageOK(y)
  BY <1>1, <1>2, ZeroIsCaught DEF PageOK
<1>4. n # 0
  BY DEF Snapshots
<1>5. RunOK(y)
  BY <1>1, <1>2, <1>3, <1>4 DEF RunOK
<1> QED BY <1>5 DEF y, p

LEMMA ReferencedTypes ==
    ASSUME IInv
    PROVE  Referenced \ {0} \subseteq Snapshots
<1>1. boot.snap \in {0} \cup Snapshots
  BY DeviceTypes DEF Boot
<1>2. \A q \in Runs : run[q].boot.snap \in {0} \cup Snapshots /\ run[q].page.snap \in {0} \cup Snapshots
  BY DeviceTypes DEF RunType, Boot, Page
<1> QED BY <1>1, <1>2 DEF Referenced

LEMMA ServeNextPageKeepsIInv ==
    ASSUME IInv, NEW r \in Runs, ServeNextPage(r)
    PROVE  IInv'
<1> DEFINE n == run[r].boot.snap
           a == run[r].boot.next
           x == [run[r] EXCEPT !.at = "snapshot", !.page = SnapshotPage(n, a, snap[n].items)]
<1>1. /\ run[r].at = "bootstrapping" /\ n # 0
      /\ run' = [run EXCEPT ![r].at = "snapshot", ![r].page = SnapshotPage(n, a, snap[n].items)]
      /\ UNCHANGED <<scene, row, log, open, drawn, tomb, pulled, snap, outcome, local, conflict, known, cursor,
                     boot, edit, told, dead, covered, shown, spent>>
  BY DEF ServeNextPage, service, device
<1>2. run \in [Runs -> RunType] /\ RunOK(run[r]) /\ run[r] \in RunType
  BY DeviceTypes
<1>3. run' = [run EXCEPT ![r] = x]
  BY <1>1, <1>2
<1>4. a \in Aggs /\ n \in Referenced \ {0} /\ n \in Snapshots
  BY <1>1, <1>2, ReferencedTypes DEF RunType, Boot, Referenced
<1>5. snap[n].items \in [Aggs -> Item] /\ ItemOK(a, snap[n].items[a])
  BY <1>4 DEF IInv, SnapsOK, SnapOK
<1>6. RunOK(x)
  <2>1. PICK k \in Snapshots, b \in Aggs, it \in [Aggs -> Item] :
           k = n /\ b = a /\ it = snap[n].items /\ ItemOK(b, it[b])
    BY <1>4, <1>5
  <2>2. RunOK([run[r] EXCEPT !.at = "snapshot", !.page = SnapshotPage(k, b, it)])
    BY <1>1, <1>2, <2>1, SnapshotPageOK
  <2> QED BY <2>1, <2>2
<1>7. x.boot.snap = n /\ x.page.snap = n
  BY <1>2 DEF RunType, SnapshotPage, NoPage
<1>8. {x.boot.snap, x.page.snap} \ {0} \subseteq Referenced
  BY <1>4, <1>7
<1> HIDE DEF x, n, a
<1> QED BY <1>1, <1>3, <1>6, <1>8, RunMoves, DeviceTypes

\* What a first page freezes: live versions, and nothing beyond the high water.
LEMMA SnapshotIsGood ==
    ASSUME IInv
    PROVE  /\ HighWater \in 0..MaxSeq /\ Below(HighWater)
           /\ Snapshot \in [Aggs -> Item] /\ \A a \in Aggs : ItemOK(a, Snapshot[a])
<1> DEFINE N == {0} \cup {e.seq : e \in log}
<1>1. drawn \in Nat /\ \A e \in log : e.seq \in 0..drawn
  BY Bounds DEF IInv, DrawnOK, LogOK, Event, Seqs
<1>2. N \in SUBSET (0..drawn) /\ N # {}
  BY <1>1
<1>3. Max(N) \in N
  <2> HIDE DEF N
  <2> QED BY <1>1, <1>2, GreatestNumber
<1>4. HighWater \in {0} \cup {e.seq : e \in log}
  BY <1>3 DEF HighWater
<1>5. Below(HighWater)
  <2>1. CASE HighWater = 0
    BY <2>1, ZeroIsCaught
  <2>2. CASE \E e \in log : HighWater = e.seq
    BY <1>1, <2>2 DEF IInv, LogOK, Below
  <2> QED BY <1>4, <2>1, <2>2
<1>6. HighWater \in 0..MaxSeq
  BY <1>5, MarkTypes
<1>7. ASSUME NEW a \in Aggs PROVE Snapshot[a] \in Item /\ ItemOK(a, Snapshot[a])
  <2>1. Absent \in Item /\ row[a] \in Item /\ Alive(a, 0)
    BY IdleTypes DEF IInv, RowsOK
  <2>2. Absent.version = 0
    BY DEF Absent
  <2>3. row[a].value # Gone => Alive(a, row[a].version)
    <3>1. row[a].version \in Nat
      BY <2>1, Bounds DEF Item, Versions
    <3> QED BY <3>1 DEF Alive
  <2>4. Snapshot[a] \in {row[a], Absent}
    BY DEF Snapshot
  <2> QED BY <2>1, <2>2, <2>3, <2>4 DEF ItemOK
<1>8. Snapshot \in [Aggs -> Item]
  BY <1>7 DEF Snapshot
<1> QED BY <1>5, <1>6, <1>7, <1>8

\* There are more snapshots than a run that starts one can find referred to:
\* this run refers to none, every other to one, and the device to one.
LEMMA FreeSnapshot ==
    ASSUME IInv, NEW r \in Runs, run[r].at = "bootstrapping", run[r].boot.snap = 0
    PROVE  Min(Snapshots \ Referenced) \in Snapshots \ Referenced
<1> DEFINE F == [q \in Runs |-> IF q = r THEN boot.snap
                                ELSE IF run[q].page.snap # 0 THEN run[q].page.snap
                                ELSE run[q].boot.snap]
           Used == {F[q] : q \in Runs}
<1>1. Referenced \ {0} \subseteq Used
  <2> SUFFICES ASSUME NEW n \in Referenced, n # 0 PROVE \E q \in Runs : F[q] = n
    OBVIOUS
  <2>1. CASE n = boot.snap
    BY <2>1
  <2>2. CASE \E q \in Runs : n = run[q].boot.snap \/ n = run[q].page.snap
    <3>1. PICK q \in Runs : n = run[q].boot.snap \/ n = run[q].page.snap
      BY <2>2
    <3>2. /\ run[r].page.snap = 0
          /\ run[q].page.snap # 0 => run[q].boot.snap \in {0, run[q].page.snap}
      BY DeviceTypes DEF RunOK
    <3>3. q # r
      BY <3>1, <3>2
    <3>4. n = IF run[q].page.snap # 0 THEN run[q].page.snap ELSE run[q].boot.snap
      BY <3>1, <3>2
    <3>5. F[q] = n
      BY <3>3, <3>4
    <3> QED BY <3>5
  <2> QED BY <2>1, <2>2 DEF Referenced
<1>2. F \in Surjection(Runs, Used)
  BY DEF Surjection
<1> HIDE DEF F
<1>3. IsFiniteSet(Used) /\ Cardinality(Used) <= Cardinality(Runs)
  <2>1. IsFiniteSet(Runs)
    BY Bounds
  <2> HIDE DEF Used
  <2> QED BY <1>2, <2>1, FS_Surjection
<1> HIDE DEF Used
<1>4. Cardinality(Runs) \in Nat /\ Cardinality(Used) \in Nat
  BY <1>3, Bounds, FS_CardinalityType
<1>5. Cardinality(Snapshots) = Cardinality(Runs) + 1
  <2>1. PICK k \in Nat : k = Cardinality(Runs)
    BY <1>4
  <2>2. 1 \in Int /\ k + 1 \in Int
    OBVIOUS
  <2>3. Cardinality(1..(k + 1)) = IF 1 > k + 1 THEN 0 ELSE (k + 1) - 1 + 1
    BY <2>2, FS_Interval
  <2>4. Cardinality(1..(k + 1)) = k + 1
    BY <2>3
  <2> QED BY <2>1, <2>4 DEF Snapshots
<1>6. Snapshots \ Referenced # {}
  <2> SUFFICES ASSUME Snapshots \subseteq Referenced PROVE FALSE
    OBVIOUS
  <2>1. 0 \notin Snapshots
    BY DEF Snapshots
  <2>2. Snapshots \subseteq Used
    BY <1>1, <2>1
  <2>3. Cardinality(Snapshots) <= Cardinality(Used)
    BY <1>3, <2>2, FS_Subset
  <2> QED BY <1>3, <1>4, <1>5, <2>3
<1>7. Snapshots \ Referenced \in SUBSET Nat
  BY <1>4 DEF Snapshots
<1> QED BY <1>6, <1>7, LeastNumber

LEMMA ServeFirstPageKeepsIInv ==
    ASSUME IInv, NEW r \in Runs, ServeFirstPage(r)
    PROVE  IInv'
<1> DEFINE new == [high |-> HighWater, items |-> Snapshot, live |-> TRUE]
<1>1. PICK n : n = Min(Snapshots \ Referenced)
  OBVIOUS
<1> DEFINE x == [run[r] EXCEPT !.at = "snapshot", !.page = SnapshotPage(n, 1, Snapshot)]
<1>2. /\ run[r].at = "bootstrapping" /\ run[r].boot.snap = 0
      /\ snap' = [m \in Snapshots |->
               CASE m = n -> new
                 [] m \in Referenced -> snap[m]
                 [] OTHER -> NoSnapshot]
      /\ run' = [run EXCEPT ![r].at = "snapshot", ![r].page = SnapshotPage(n, 1, Snapshot)]
      /\ UNCHANGED <<scene, row, log, open, drawn, tomb, pulled, outcome, local, conflict, known, cursor,
                     boot, edit, told, dead, covered, shown, spent>>
  BY <1>1 DEF ServeFirstPage, device
<1>3. n \in Snapshots \ Referenced
  BY <1>1, <1>2, FreeSnapshot
<1>4. run \in [Runs -> RunType] /\ RunOK(run[r]) /\ run[r] \in RunType
  BY DeviceTypes
<1>5. run' = [run EXCEPT ![r] = x]
  BY <1>2, <1>4
<1>6. /\ 1 \in Aggs /\ Snapshot \in [Aggs -> Item] /\ ItemOK(1, Snapshot[1])
      /\ \A a \in Aggs : ItemOK(a, Snapshot[a])
      /\ HighWater \in 0..MaxSeq /\ Below(HighWater)
  BY SnapshotIsGood, Bounds DEF Aggs
<1>7. RunOK(x)
  BY <1>2, <1>3, <1>4, <1>6, SnapshotPageOK
<1>8. x.boot.snap = 0 /\ x.page.snap = n /\ x \in RunType
  BY <1>2, <1>4, <1>7 DEF RunType, SnapshotPage, NoPage, RunOK
<1> HIDE DEF x
<1>9. new \in SnapType /\ SnapOK(new) /\ new.items \in [Aggs -> Item]
  <2>1. new \in SnapType
    BY <1>6 DEF SnapType
  <2>2. new.high = HighWater /\ new.items = Snapshot
    OBVIOUS
  <2> HIDE DEF new
  <2> QED BY <1>6, <2>1, <2>2 DEF SnapOK
<1>10. NoSnapshot \in SnapType /\ SnapOK(NoSnapshot)
  <2>1. NoSnapshot.high = 0 /\ NoSnapshot.items = <<>> /\ NoSnapshot \in SnapType
    BY Bounds DEF NoSnapshot, SnapType
  <2>2. ~(NoSnapshot.items \in [Aggs -> Item])
    <3>1. DOMAIN NoSnapshot.items = {}
      BY <2>1
    <3>2. 1 \in Aggs
      BY <1>6
    <3> QED BY <3>1, <3>2
  <2> QED BY <2>1, <2>2, ZeroIsCaught DEF SnapOK
<1> HIDE DEF new
<1>11. /\ snap'[n] = new
       /\ \A m \in Snapshots \ {n} : /\ m \in Referenced => snap'[m] = snap[m]
                                     /\ m \notin Referenced => snap'[m] = NoSnapshot
  BY <1>2, <1>3
<1>12. \A m \in Snapshots : snap'[m] \in SnapType /\ SnapOK(snap'[m])
  BY <1>9, <1>10, <1>11 DEF IInv, SnapsOK
<1>13. snap' \in [Snapshots -> SnapType]
  BY <1>2, <1>12
<1>14. run' \in [Runs -> RunType] /\ run'[r] = x /\ \A q \in Runs \ {r} : run'[q] = run[q]
  BY <1>4, <1>5, <1>8
<1>15. \A q \in Runs : RunOK(run'[q])
  <2> SUFFICES ASSUME NEW q \in Runs PROVE RunOK(run'[q])
    OBVIOUS
  <2>1. CASE q = r
    BY <1>7, <1>14, <2>1
  <2>2. CASE q # r
    BY <1>14, <2>2, DeviceTypes
  <2> QED BY <2>1, <2>2
<1>16. Referenced' \ {0} \subseteq Referenced \cup {n}
  <2> SUFFICES ASSUME NEW m \in Referenced', m # 0, m # n PROVE m \in Referenced
    OBVIOUS
  <2>1. CASE m = boot'.snap
    BY <1>2, <2>1 DEF Referenced
  <2>2. CASE \E q \in Runs : m = run'[q].boot.snap \/ m = run'[q].page.snap
    <3>1. PICK q \in Runs : m = run'[q].boot.snap \/ m = run'[q].page.snap
      BY <2>2
    <3>2. q # r
      BY <1>8, <1>14, <3>1
    <3> QED BY <1>14, <3>1, <3>2 DEF Referenced
  <2> QED BY <2>1, <2>2 DEF Referenced
<1>17. \A m \in Referenced' \ {0} : snap'[m].items \in [Aggs -> Item]
  <2> SUFFICES ASSUME NEW m \in Referenced' \ {0} PROVE snap'[m].items \in [Aggs -> Item]
    OBVIOUS
  <2>1. CASE m = n
    BY <1>9, <1>11, <2>1
  <2>2. CASE m # n
    <3>1. m \in Referenced /\ m \in Snapshots
      BY <1>16, <2>2, ReferencedTypes
    <3> QED BY <1>11, <2>2, <3>1 DEF IInv, SnapsOK
  <2> QED BY <2>1, <2>2
<1>18. cursor' \in Cursor /\ Caught(cursor'.seq) /\ Caught(pulled') /\ boot' \in Boot
       /\ spent' \in SpentType
  BY <1>2, DeviceTypes
<1> QED BY <1>2, <1>12, <1>13, <1>14, <1>15, <1>17, <1>18, QuietStep

LEMMA ApplySnapshotPageKeepsIInv ==
    ASSUME IInv, NEW r \in Runs, ApplySnapshotPage(r)
    PROVE  IInv'
<1>1. PICK p : p = run[r].page
  OBVIOUS
<1>2. PICK items : items = Brought(p)
  OBVIOUS
<1>3. PICK high : high = snap[p.snap].high
  OBVIOUS
<1>4. /\ run[r].at = "snapshot"
      /\ local' = [local EXCEPT ![p.agg] = Projected(p.agg, items)]
      /\ shown' = [shown EXCEPT ![p.agg] = Shown(p.agg, items)]
      /\ conflict' = conflict \cup Refused(items)
      /\ boot' = [snap |-> p.snap, next |-> NextOrdinal(p.agg)]
      /\ \/ /\ cursor' = [seq |-> Cutover(high), valid |-> TRUE, state |-> "READY"]
            /\ covered' = Max({covered, high})
         \/ /\ cursor' = [run[r].copy EXCEPT !.state = "BOOTSTRAPPING"]
            /\ covered' = covered
      /\ run' = [run EXCEPT ![r] = Idle]
      /\ UNCHANGED <<scene, row, log, open, drawn, tomb, pulled, snap, outcome, known, edit, told, dead, spent>>
  BY <1>1, <1>2, <1>3 DEF ApplySnapshotPage, service
<1>5. RunOK(run[r]) /\ run[r] \in RunType
  BY DeviceTypes
<1>6. /\ p \in Page /\ p.agg \in Aggs /\ p.item \in Item /\ p.snap # 0
      /\ p.snap \in Snapshots /\ p.snap \in Referenced /\ ItemOK(p.agg, p.item)
  BY <1>1, <1>4, <1>5 DEF RunOK, RunType, Page, Referenced
<1>7. Below(high) /\ high \in 0..MaxSeq /\ high \in Nat
  BY <1>3, <1>6, MarkTypes DEF IInv, SnapsOK, SnapOK
<1>8. Below(covered) /\ covered \in 0..MaxSeq /\ covered \in Nat
  BY MarkTypes DEF IInv, MarksOK
<1>9. /\ Max({covered, high}) \in {covered, high}
      /\ covered <= Max({covered, high}) /\ high <= Max({covered, high})
  <2>1. MaxSeq \in Nat /\ {covered, high} \in SUBSET (0..MaxSeq) /\ {covered, high} # {}
    BY <1>7, <1>8, Bounds
  <2>2. \A n \in {covered, high} : n <= Max({covered, high})
    BY <2>1, GreatestNumber
  <2>3. Max({covered, high}) \in {covered, high}
    BY <2>1, GreatestNumber
  <2> QED BY <2>2, <2>3
<1>10. covered' \in Nat /\ covered <= covered' /\ Below(covered')
  <2>1. CASE covered' = Max({covered, high})
    BY <1>7, <1>8, <1>9, <2>1
  <2>2. CASE covered' = covered
    BY <1>8, <2>2
  <2> QED BY <1>4, <2>1, <2>2
<1>11. /\ cursor' \in Cursor /\ Below(cursor'.seq)
       /\ \A e \in log : e.seq <= cursor'.seq => Applied(e)'
  <2>1. CASE /\ cursor' = [seq |-> Cutover(high), valid |-> TRUE, state |-> "READY"]
             /\ covered' = Max({covered, high})
    <3>1. cursor' \in Cursor /\ cursor'.seq = high
      BY <1>7, <2>1 DEF Cursor, Cutover
    <3>2. \A e \in log : e.seq \in Nat
      BY Bounds DEF IInv, LogOK, Event, Seqs
    <3>3. covered' \in Nat /\ high <= covered'
      BY <1>9, <1>10, <2>1
    <3>4. \A e \in log : e.seq <= high => e.seq <= covered'
      BY <1>7, <3>2, <3>3
    <3> QED BY <1>7, <3>1, <3>4 DEF Applied
  <2>2. CASE /\ cursor' = [run[r].copy EXCEPT !.state = "BOOTSTRAPPING"]
             /\ covered' = covered
    <3>1. cursor' \in Cursor /\ cursor'.seq = run[r].copy.seq
      BY <1>5, <2>2 DEF RunType, Cursor
    <3>2. Caught(run[r].copy.seq)
      BY <1>5 DEF RunOK
    <3> QED BY <1>4, <2>2, <3>1, <3>2 DEF Caught, Applied
  <2> QED BY <1>4, <2>1, <2>2
<1>12. PICK b \in Aggs : b = p.agg
  BY <1>6
<1>13. Projectable(b, items)
  <2>1. items \subseteq {[seq |-> 0, agg |-> p.agg, version |-> p.item.version, value |-> p.item.value]}
    BY <1>2, <1>6 DEF Brought
  <2>2. 0 \in 0..MaxSeq /\ p.item.version \in Versions /\ p.item.value \in Values
    BY <1>6, Bounds DEF Item
  <2> QED BY <1>6, <1>12, <2>1, <2>2 DEF ItemOK, Projectable
<1>14. PICK l, h : l = Projected(b, items) /\ h = Shown(b, items)
  OBVIOUS
<1>15. /\ l \in LocalRow /\ (l.value # Gone => Alive(p.agg, l.version))
       /\ local[p.agg].value = Gone => l.value = Gone
       /\ h \in ShownRow
  BY <1>12, <1>13, <1>14, ProjectedOK, ShownOK
<1>16. local \in [Aggs -> LocalRow] /\ local' = [local EXCEPT ![p.agg] = l]
  BY <1>4, <1>6, <1>12, <1>14 DEF IInv, LocalOK, LocalRow
<1>17. local' \in [Aggs -> LocalRow] /\ local'[p.agg] = l /\ \A a \in Aggs \ {p.agg} : local'[a] = local[a]
  BY <1>6, <1>15, <1>16
<1>18. \A a \in Aggs : local'[a].value # Gone => Alive(a, local'[a].version)
  <2> SUFFICES ASSUME NEW a \in Aggs, local'[a].value # Gone PROVE Alive(a, local'[a].version)
    OBVIOUS
  <2>1. CASE a = p.agg
    BY <1>15, <1>17, <2>1
  <2>2. CASE a # p.agg
    BY <1>17, <2>2 DEF IInv, LocalOK
  <2> QED BY <2>1, <2>2
<1>19. \A a \in Aggs : local[a].value = Gone => local'[a].value = Gone
  BY <1>15, <1>17
<1>20. boot' \in Boot /\ boot'.snap = p.snap
  <2>1. NextOrdinal(p.agg) \in Aggs
    <3>1. p.agg \in Nat /\ 1 <= p.agg /\ p.agg <= Rows /\ Rows \in Nat
      BY <1>6, Bounds DEF Aggs
    <3> QED BY <3>1 DEF NextOrdinal, Aggs
  <2> QED BY <1>4, <1>6, <2>1 DEF Boot
<1>21. conflict' \subseteq Aggs
  BY <1>4 DEF IInv, DeviceOK, Refused
<1>22. known \subseteq known' /\ known' \subseteq Seqs
  BY <1>4 DEF IInv, DeviceOK
<1>23. boot'.snap \in Referenced \cup {0}
  BY <1>6, <1>20
<1>24. shown' \in [Aggs -> ShownRow]
  BY <1>4, <1>6, <1>12, <1>14, <1>15 DEF IInv, DeviceOK
<1> QED BY <1>4, <1>10, <1>11, <1>17, <1>18, <1>19, <1>20, <1>21, <1>22, <1>23, <1>24, ProjectionKeeps

(***************************************************************************)
(* The theorems.                                                           *)
(***************************************************************************)
LEMMA InitIInv ==
    ASSUME Init
    PROVE  IInv
<1>1. /\ row = [a \in Aggs |-> Absent] /\ log = {} /\ open = {} /\ drawn = 0
      /\ tomb = [a \in Aggs |-> "none"] /\ pulled = 0
      /\ snap = [n \in Snapshots |-> NoSnapshot] /\ outcome = [i \in Edits |-> "NONE"]
      /\ local = [a \in Aggs |-> [version |-> 0, value |-> None, dirty |-> FALSE]]
      /\ conflict = {} /\ known = {} /\ cursor = NoCursor /\ boot = NoBoot
      /\ edit = <<>> /\ told = {} /\ run = [r \in Runs |-> Idle]
      /\ spent = [faults |-> 0, resets |-> 0, overlaps |-> 0] /\ covered = 0
      /\ scene \in Scenes /\ dead = {} /\ shown = [a \in Aggs |-> [last |-> 0, high |-> 0]]
  BY DEF Init
<1>2. 0 \in Versions /\ None \in Values /\ None # Gone /\ 0 \in 0..MaxFaults /\ 0 \in 0..MaxResets
      /\ 0 \in 0..MaxOverlaps /\ 1 \in Aggs
  BY Bounds DEF Versions, Values, Gone, Aggs
<1>3. Below(0) /\ Caught(0)
  BY <1>1 DEF Below, Caught
<1>4. \A a \in Aggs : Alive(a, 0)
  <2>1. \A a \in Aggs : row[a].version = 0 /\ row[a].value # Gone
    BY <1>1, <1>2 DEF Absent
  <2> QED BY <2>1 DEF Alive
<1>5. DOMAIN edit = {} /\ Len(edit) = 0
  BY <1>1
<1>6. LogOK
  BY <1>1, FS_EmptySet DEF LogOK
<1>7. DrawnOK
  <2>1. AppliedEdits = {}
    BY <1>5 DEF AppliedEdits
  <2>2. Cardinality(AppliedEdits) = 0
    BY <2>1, FS_EmptySet
  <2> QED BY <1>1, <2>2, Bounds DEF DrawnOK
<1>8. MarksOK
  BY <1>1, <1>3 DEF MarksOK, NoCursor
<1>9. RowsOK
  <2>1. row \in [Aggs -> Item]
    BY <1>1, IdleTypes
  <2>2. \A a \in Aggs : row[a].version <= drawn
    BY <1>1 DEF Absent
  <2> QED BY <1>1, <1>4, <2>1, <2>2 DEF RowsOK
<1>10. LocalOK
  <2>1. local \in [Aggs -> [version : Versions, value : Values, dirty : BOOLEAN]]
    BY <1>1, <1>2
  <2>2. \A a \in Aggs : local[a].version = 0
    BY <1>1
  <2> QED BY <1>4, <2>1, <2>2 DEF LocalOK
<1>11. EditsOK
  <2>1. edit \in Seq([agg : Aggs, base : Versions, value : Values]) /\ Len(edit) <= MaxEdits
    BY <1>1, <1>5, Bounds, EmptySeq
  <2> QED BY <1>1, <1>5, <2>1 DEF EditsOK
<1>12. SnapsOK
  <2>1. NoSnapshot.high = 0 /\ NoSnapshot.items = <<>> /\ NoSnapshot \in SnapType
    BY Bounds DEF NoSnapshot, SnapType
  <2>2. ~(NoSnapshot.items \in [Aggs -> Item])
    <3>1. DOMAIN NoSnapshot.items = {}
      BY <2>1
    <3> QED BY <1>2, <3>1
  <2>3. SnapOK(NoSnapshot)
    BY <1>3, <2>1, <2>2 DEF SnapOK
  <2>4. Referenced \subseteq {0}
    <3>1. Idle.boot.snap = 0 /\ Idle.page.snap = 0 /\ NoBoot.snap = 0
      BY DEF Idle, NoBoot, NoPage
    <3> QED BY <1>1, <3>1 DEF Referenced
  <2> QED BY <1>1, <2>1, <2>3, <2>4 DEF SnapsOK
<1>13. RunsOK
  <2>1. Idle.at = "idle" /\ Idle.copy.seq = 0 /\ Idle.page.next = 0 /\ Idle.page.events = {} /\ Idle.page.snap = 0
    BY DEF Idle, NoCursor, NoPage
  <2>2. PageOK(Idle)
    BY <1>3, <2>1 DEF PageOK
  <2>3. RunOK(Idle)
    BY <1>3, <2>1, <2>2, IdleTypes DEF RunOK
  <2> QED BY <1>1, <2>3, IdleTypes DEF RunsOK
<1>14. TombOK
  BY <1>1 DEF TombOK
<1>15. DeviceOK
  BY <1>1, <1>2, IdleTypes DEF DeviceOK, SpentType, ShownRow
<1>16. KindsOK
  <2>1. \A a \in Aggs : row[a].value # Gone
    BY <1>1, <1>2 DEF Absent
  <2> QED BY <1>1, <1>5, <2>1 DEF KindsOK
<1> QED BY <1>6, <1>7, <1>8, <1>9, <1>10, <1>11, <1>12, <1>13, <1>14, <1>15, <1>16 DEF IInv

LEMMA RunStepKeepsIInv ==
    ASSUME IInv, NEW r \in Runs, RunStep(r)
    PROVE  IInv'
<1>1. CASE StartPush(r)
  BY <1>1, StartPushKeepsIInv
<1>2. CASE ServePush(r)
  BY <1>2, ServePushKeepsIInv
<1>3. CASE ApplyAck(r) \/ GiveUp(r)
  BY <1>3, PushEnds
<1>4. CASE StartPull(r)
  BY <1>4, StartPullKeepsIInv
<1>5. CASE ServePull(r)
  BY <1>5, ServePullKeepsIInv
<1>6. CASE ApplyPage(r)
  BY <1>6, ApplyPageKeepsIInv
<1>7. CASE CursorInvalid(r) \/ SnapshotInvalid(r)
  BY <1>7, CursorInvalidKeepsIInv
<1>8. CASE StartBootstrap(r)
  BY <1>8, StartBootstrapKeepsIInv
<1>9. CASE ServeFirstPage(r)
  BY <1>9, ServeFirstPageKeepsIInv
<1>10. CASE ServeNextPage(r)
  BY <1>10, ServeNextPageKeepsIInv
<1>11. CASE ApplySnapshotPage(r)
  BY <1>11, ApplySnapshotPageKeepsIInv
<1>12. CASE FailsClosed(r)
  BY <1>12, FailsClosedKeepsIInv
<1> QED BY <1>1, <1>2, <1>3, <1>4, <1>5, <1>6, <1>7, <1>8, <1>9, <1>10, <1>11, <1>12 DEF RunStep

LEMMA NextKeepsIInv ==
    ASSUME IInv, [Next]_vars
    PROVE  IInv'
<1>1. CASE \E a \in Aggs : BeginPublish(a) \/ TombstoneExpires(a) \/ CompactTombstones(a) \/ Edit(a)
  BY <1>1, BeginPublishKeepsIInv, TombstoneExpiresKeepsIInv, CompactTombstonesKeepsIInv, EditKeepsIInv
<1>2. CASE \E e \in open : Commit(e) \/ Abort(e)
  BY <1>2, CommitKeepsIInv, AbortKeepsIInv
<1>3. CASE CursorLapses \/ RequestSnapshot
  BY <1>3, CursorLapsesKeepsIInv, RequestSnapshotKeepsIInv
<1>4. CASE \E n \in Referenced \ {0} : SnapshotLapses(n)
  BY <1>4, SnapshotLapsesKeepsIInv
<1>5. CASE \E r \in Runs : RunStep(r) \/ Dies(r)
  BY <1>5, RunStepKeepsIInv, DiesKeepsIInv
<1>6. CASE UNCHANGED vars
  <2>1. TombOK'
    BY <1>6 DEF vars, IInv, TombOK, Applied
  <2> QED BY <1>6, <2>1, TombKeepsIInv DEF vars
<1> QED BY <1>1, <1>2, <1>3, <1>4, <1>5, <1>6 DEF Next

\* The inductive invariant of the feed: publications commit above every mark
\* (_acquire_sync_owner_publish_lock), and what is remembered of a row is behind
\* its deletion.
THEOREM FeedInvariant == Spec => []IInv
<1>1. Init => IInv
  BY InitIInv
<1>2. IInv /\ [Next]_vars => IInv'
  BY NextKeepsIInv
<1> QED BY <1>1, <1>2, PTL DEF Spec

\* Rows, events, snapshots, cursors and the runs with their pages always have
\* their types; no sequence, version or snapshot number runs out of range.
THEOREM FeedTypes == Spec => []TypeOK
<1>1. ASSUME IInv PROVE TypeOK
  <2>1. \A n \in Snapshots : /\ snap[n].high \in 0..MaxSeq /\ snap[n].live \in BOOLEAN
                             /\ snap[n].items = <<>> \/ snap[n].items \in [Aggs -> Item]
    <3>1. \A n \in Snapshots : snap[n] \in SnapType
      BY <1>1 DEF IInv, SnapsOK
    <3> QED BY <3>1 DEF SnapType
  <2>2. /\ drawn \in 0..MaxSeq /\ pulled \in 0..MaxSeq /\ covered \in 0..MaxSeq
    <3>1. drawn \in Nat /\ drawn <= MaxSeq /\ MaxSeq \in Nat
      BY <1>1, DrawnBound, Bounds DEF IInv, DrawnOK
    <3>2. Below(pulled) /\ Below(covered)
      BY <1>1 DEF IInv, MarksOK, Caught
    <3> QED BY <1>1, <3>1, <3>2, MarkTypes
  <2>3. Len(edit) <= MaxEdits /\ \A i \in DOMAIN edit : edit[i] \in [agg : Aggs, base : Versions, value : Values]
    BY <1>1, EditRecords DEF IInv, EditsOK
  <2>4. /\ row \in [Aggs -> Item] /\ log \subseteq Event /\ open \subseteq Event
        /\ tomb \in [Aggs -> {"none", "kept", "expired", "lapsed", "removed", "lost"}]
        /\ outcome \in [Edits -> {"NONE", "APPLIED", "CONFLICT", "REJECTED"}]
        /\ local \in [Aggs -> [version : Versions, value : Values, dirty : BOOLEAN]]
        /\ conflict \subseteq Aggs /\ known \subseteq Seqs
        /\ cursor \in Cursor /\ boot \in Boot /\ told \subseteq DOMAIN edit
        /\ spent \in [faults : 0..MaxFaults, resets : 0..MaxResets, overlaps : 0..MaxOverlaps]
        /\ dead \subseteq told /\ shown \in [Aggs -> [last : Versions, high : Versions]]
        /\ scene \in Scenes
    BY <1>1 DEF IInv, RowsOK, LogOK, TombOK, EditsOK, LocalOK, DeviceOK, KindsOK, SpentType, ShownRow
  <2>5. run \in [Runs -> [at : {"idle", "pushing", "answered", "pulling", "page",
                               "bootstrapping", "snapshot"},
                         edit : 0..MaxEdits, copy : Cursor, boot : Boot, page : Page]]
    BY <1>1 DEF IInv, RunsOK, RunType
  <2> QED BY <2>1, <2>2, <2>3, <2>4, <2>5 DEF TypeOK
<1> QED BY <1>1, FeedInvariant, PTL

\* For any number of concurrent runs: a cursor never steps over a publication,
\* whether it commits late, behind a page, a snapshot or a lost answer (pull).
THEOREM NothingIsSkipped == Spec => []NothingSkipped
<1>1. ASSUME IInv PROVE NothingSkipped
  BY <1>1 DEF IInv, MarksOK, Caught, Applied, NothingSkipped
<1> QED BY <1>1, FeedInvariant, PTL

\* compact_tombstones removes no tombstone whose deletion is not on the device.
THEOREM CompactionWaitsForReceipt == Spec => []CompactedAfterReceipt
<1>1. ASSUME IInv PROVE CompactedAfterReceipt
  <2> SUFFICES ASSUME NEW a \in Aggs, tomb[a] \in {"removed", "lost"}
               PROVE  DeletedAt(a) \in known \/ DeletedAt(a) <= covered
    BY DEF CompactedAfterReceipt
  <2>1. PICK e \in log : e.agg = a /\ e.value = Gone /\ Applied(e)
    BY <1>1 DEF IInv, TombOK
  <2>2. DeletedAt(a) = e.seq
    BY <1>1, <2>1, DeletionEvent
  <2> QED BY <2>1, <2>2 DEF Applied
<1> QED BY <1>1, FeedInvariant, PTL
=============================================================================
