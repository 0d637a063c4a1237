------------------------------ MODULE SyncFeed ------------------------------
(***************************************************************************)
(* The way back: how changes of an owner's library reach one device.  The  *)
(* service publishes sync_event rows, answers pulls from an opaque cursor  *)
(* and bootstraps from a frozen snapshot; it keeps tombstones and compacts *)
(* them.  The device applies pages and moves its cursor (SyncCoordinator), *)
(* while its own edits, decided by the push (module SyncPush), come back   *)
(* as an acknowledgement and as an event.                                  *)
(*                                                                         *)
(* A row's payload is a number: the server sequence of the publication, or *)
(* MaxSeq + i for the device's edit i.  Pages of a snapshot hold one row.  *)
(* The edits are of rows that have a server id already, and the push sends *)
(* one at a time; a batch of them is no different to the feed.             *)
(*                                                                         *)
(* What the device does with an event depends on the kind of its row:      *)
(*   PLAYLIST       user track refs, playlists and their entries: versions *)
(*                  are checked, payloads are projected;                   *)
(*   LIBRARY_ENTRY  the payload is ignored, and with it a removal, which   *)
(*                  is an upsert of removed_at;                            *)
(*   PREFERENCE     not versioned, projected over a DIRTY row too, in no   *)
(*                  snapshot;                                              *)
(*   UNKNOWN        this client cannot project it: a type or a schema      *)
(*                  version it does not know, or a preference that names a *)
(*                  track ref by another device's local id.                *)
(*                                                                         *)
(* A definition introduced by "Mutant:" is its successor with one bug put  *)
(* in; the mutation runs use it in its place and must find a violation.    *)
(***************************************************************************)
EXTENDS Naturals, Sequences, FiniteSets, FiniteSetsExt

CONSTANTS
    Rows,                \* number of aggregates, in the order of a snapshot
    MaxChanges,          \* bound: publications of others, rolled back ones too
    MaxEdits,            \* bound: edits of the device
    PageLimit,           \* limit of a pull
    Runs,                \* sync runs of the device at one time
    MaxFaults,           \* bound: runs without a result, edits refused or given up
    MaxResets,           \* bound: cursors and snapshots that expire or are asked for
    MaxOverlaps,         \* bound: runs that begin while another is under way
    Scenes               \* what the rows may be, each with bounds of its own

Aggs == 1..Rows
Kinds == {"PLAYLIST", "LIBRARY_ENTRY", "PREFERENCE", "UNKNOWN"}
Scene == [kind : [Aggs -> Kinds], changes : 0..MaxChanges, edits : 0..MaxEdits,
          faults : 0..MaxFaults, resets : 0..MaxResets, overlaps : 0..MaxOverlaps]

ASSUME FeedAssumption ==
    /\ Rows \in Nat \ {0} /\ PageLimit \in Nat \ {0} /\ IsFiniteSet(Runs)
    /\ {MaxChanges, MaxEdits, MaxFaults, MaxResets, MaxOverlaps} \subseteq Nat
    /\ Scenes \subseteq Scene

VARIABLES
    scene,               \* the kinds of the rows, and the bounds; never changes
    row,                 \* the owner's rows on the service
    log,                 \* sync_event, committed
    open,                \* publications that have drawn a sequence, not committed
    drawn,               \* the last sequence drawn
    tomb,                \* tombstone, by aggregate
    pulled,              \* device_sync_cursor.last_pulled_server_sequence
    snap,                \* bootstrap_session with its items
    outcome,             \* terminal acknowledgement of each edit
    local,               \* the rows in Room
    conflict,            \* aggregates with an open sync_conflict
    known,               \* applied_server_event
    cursor,              \* sync_cursor: opaqueCursor and bootstrapState
    boot,                \* sync_bootstrap_state
    edit,                \* the device's journal, as SyncPush delivers it
    told,                \* edits that are decided: nothing is sent of them any more
    dead,                \* those of them in DEAD_LETTER
    run,                 \* the sync runs
    spent,               \* faults, resets and overlaps so far
    covered,             \* history: the highest snapshot applied to its end
    shown                \* history: last and highest version of a row in what was applied

service == <<scene, row, log, open, drawn, tomb, pulled, snap, outcome>>
device == <<local, conflict, known, cursor, boot, edit, told, dead, covered, shown>>
vars == <<scene, row, log, open, drawn, tomb, pulled, snap, outcome, local, conflict,
          known, cursor, boot, edit, told, dead, run, spent, covered, shown>>

MaxSeq == MaxChanges + MaxEdits
Seqs == 1..MaxSeq
Edits == 1..MaxEdits
Snapshots == 1..(Cardinality(Runs) + 1)     \* those a run or the device refers to
Gone == 0                                   \* value of a deleted row
None == MaxSeq + MaxEdits + 1               \* value of a row that never existed
Values == 0..None
Versions == 0..MaxSeq

Event == [seq : Seqs, agg : Aggs, version : Versions, value : Values]
Item == [version : Versions, value : Values]
Absent == [version |-> 0, value |-> None]   \* also: nothing in the snapshot
Cursor == [seq : 0..MaxSeq, valid : BOOLEAN,       \* a token is good for an hour
           state : {"RESET_REQUIRED", "BOOTSTRAPPING", "READY"}]
NoCursor == [seq |-> 0, valid |-> TRUE, state |-> "RESET_REQUIRED"]
Boot == [snap : {0} \cup Snapshots, next : Aggs] \* snap 0: no snapshot
NoSnapshot == [high |-> 0, items |-> <<>>, live |-> FALSE]
NoBoot == [snap |-> 0, next |-> 1]

Page == [next : 0..MaxSeq, events : SUBSET Event, snap : {0} \cup Snapshots,
         agg : Aggs, item : Item]
NoPage == [next |-> 0, events |-> {}, snap |-> 0, agg |-> 1, item |-> Absent]

Idle == [at |-> "idle", edit |-> 0, copy |-> NoCursor,
         boot |-> NoBoot, page |-> NoPage]

Is(a, kind) == scene.kind[a] = kind

Init ==
    /\ scene \in Scenes
    /\ row = [a \in Aggs |-> Absent]
    /\ log = {} /\ open = {} /\ drawn = 0
    /\ tomb = [a \in Aggs |-> "none"]
    /\ pulled = 0
    /\ snap = [n \in Snapshots |-> NoSnapshot]
    /\ outcome = [i \in Edits |-> "NONE"]
    /\ local = [a \in Aggs |-> [version |-> 0, value |-> None, dirty |-> FALSE]]
    /\ conflict = {} /\ known = {}
    /\ cursor = NoCursor
    /\ boot = NoBoot
    /\ edit = <<>> /\ told = {} /\ dead = {}
    /\ run = [r \in Runs |-> Idle]
    /\ spent = [faults |-> 0, resets |-> 0, overlaps |-> 0]
    /\ covered = 0
    /\ shown = [a \in Aggs |-> [last |-> 0, high |-> 0]]

TypeOK ==
    /\ scene \in Scenes
    /\ row \in [Aggs -> Item]
    /\ log \subseteq Event /\ open \subseteq Event /\ drawn \in 0..MaxSeq
    /\ tomb \in [Aggs -> {"none", "kept", "expired", "lapsed", "removed", "lost"}]
    /\ pulled \in 0..MaxSeq
    /\ \A n \in Snapshots :
          /\ snap[n].high \in 0..MaxSeq /\ snap[n].live \in BOOLEAN
          /\ snap[n].items = <<>> \/ snap[n].items \in [Aggs -> Item]
    /\ outcome \in [Edits -> {"NONE", "APPLIED", "CONFLICT", "REJECTED"}]
    /\ local \in [Aggs -> [version : Versions, value : Values, dirty : BOOLEAN]]
    /\ conflict \subseteq Aggs /\ known \subseteq Seqs
    /\ cursor \in Cursor /\ boot \in Boot
    /\ Len(edit) <= MaxEdits
    /\ \A i \in DOMAIN edit :
          edit[i] \in [agg : Aggs, base : Versions, value : Values]
    /\ told \subseteq DOMAIN edit /\ dead \subseteq told
    /\ run \in [Runs -> [at : {"idle", "pushing", "answered", "pulling", "page",
                               "bootstrapping", "snapshot"},
                         edit : 0..MaxEdits, copy : Cursor, boot : Boot, page : Page]]
    /\ spent \in [faults : 0..MaxFaults, resets : 0..MaxResets, overlaps : 0..MaxOverlaps]
    /\ covered \in 0..MaxSeq
    /\ shown \in [Aggs -> [last : Versions, high : Versions]]
-----------------------------------------------------------------------------
(* The service: publications, under the owner's lock.                       *)

\* Mutant: publications are not serialized (a row still has its row lock).
OwnerUnlocked(a) == \A e \in open : e.agg # a

\* pg_advisory_xact_lock of the owner: until the other transaction has ended.
OwnerLocked(a) == open = {}

\* What an existing row may become without a payload: deleted, or (None) a
\* library entry removed by an upsert, which a snapshot leaves out.
Endings(a) ==
    CASE row[a] = Absent -> {}
      [] Is(a, "PLAYLIST") -> {Gone}
      [] Is(a, "LIBRARY_ENTRY") -> {None}
      [] OTHER -> {}

\* Another device, an import or the catalogue changes or deletes a row.  The
\* sequence is drawn when the event is inserted, and seen once it commits.
BeginPublish(a) ==
    /\ drawn < scene.changes + Cardinality({i \in DOMAIN edit : outcome[i] = "APPLIED"})
    /\ OwnerLocked(a)
    /\ row[a].value # Gone
    /\ \E v \in {drawn + 1} \cup Endings(a) :
          open' = open \cup {[seq |-> drawn + 1, agg |-> a,
                             version |-> row[a].version + 1, value |-> v]}
    /\ drawn' = drawn + 1
    /\ UNCHANGED <<scene, row, log, tomb, pulled, snap, outcome, device, run, spent>>

\* A deletion leaves a tombstone with its retention.
Published(e) ==
    /\ row' = [row EXCEPT ![e.agg] = [version |-> e.version, value |-> e.value]]
    /\ log' = log \cup {e}
    /\ tomb' = IF e.value = Gone THEN [tomb EXCEPT ![e.agg] = "kept"] ELSE tomb

Commit(e) ==
    /\ Published(e)
    /\ open' = open \ {e}
    /\ UNCHANGED <<scene, drawn, pulled, snap, outcome, device, run, spent>>

\* The transaction rolls back: its sequence is never used.
Abort(e) ==
    /\ open' = open \ {e}
    /\ UNCHANGED <<scene, row, log, drawn, tomb, pulled, snap, outcome, device, run, spent>>

DeletedAt(a) == CHOOSE s \in Seqs : \E e \in log : e.agg = a /\ e.value = Gone /\ e.seq = s

\* retain_until passes; "lapsed" if the device has not been there yet.
TombstoneExpires(a) ==
    /\ tomb[a] = "kept"
    /\ tomb' = [tomb EXCEPT ![a] = IF pulled < DeletedAt(a) THEN "lapsed" ELSE "expired"]
    /\ UNCHANGED <<scene, row, log, open, drawn, pulled, snap, outcome, device, run, spent>>

CompactTombstones(a) ==
    /\ tomb[a] \in {"expired", "lapsed"}
    /\ DeletedAt(a) <= pulled
    /\ tomb' = [tomb EXCEPT ![a] = IF @ = "lapsed" THEN "lost" ELSE "removed"]
    /\ UNCHANGED <<scene, row, log, open, drawn, pulled, snap, outcome, device, run, spent>>
-----------------------------------------------------------------------------
(* The device edits a row, which becomes DIRTY; the edit keeps the version  *)
(* the row had.                                                             *)

\* A preference can be set where there was none.  The device's own removals of
\* library entries are left out.
Editable(a) ==
    \/ local[a].value \notin {Gone, None} /\ ~Is(a, "UNKNOWN")
    \/ Is(a, "PREFERENCE") /\ local[a].value # Gone

Edit(a) ==
    /\ Len(edit) < scene.edits
    /\ Editable(a)
    /\ \E v \in {MaxSeq + Len(edit) + 1} \cup (IF Is(a, "PLAYLIST") THEN {Gone} ELSE {}) :
         /\ edit' = Append(edit, [agg |-> a, base |-> local[a].version, value |-> v])
         /\ local' = [local EXCEPT ![a].value = v, ![a].dirty = TRUE]
    /\ UNCHANGED <<service, conflict, known, cursor, boot, told, dead, covered, shown, run, spent>>
-----------------------------------------------------------------------------
(* Runs.  Two are under way when WorkManager replaces one that has not      *)
(* stopped, or when the periodic one and the one of an edit meet.           *)

Begin(r) ==
    /\ run[r].at = "idle"
    /\ IF \A q \in Runs : run[q].at = "idle"
       THEN UNCHANGED spent
       ELSE /\ spent.overlaps < scene.overlaps
            /\ spent' = [spent EXCEPT !.overlaps = @ + 1]

Fault ==
    /\ spent.faults < scene.faults
    /\ spent' = [spent EXCEPT !.faults = @ + 1]

(* A run pushes what is pending.                                            *)

Untold == DOMAIN edit \ told

StartPush(r) ==
    /\ Begin(r)
    /\ Untold # {}
    /\ \A q \in Runs : run[q].edit = 0
    /\ run' = [run EXCEPT ![r] = [Idle EXCEPT !.at = "pushing", !.edit = Min(Untold)]]
    /\ UNCHANGED <<service, device>>

\* DEVICE_SEQUENCE_GAP: the service still waits for an edit before this one.
Gap(i) == \E j \in 1..(i - 1) : outcome[j] = "NONE"

\* _require_version: the row has moved on; a preference has no version.
Stale(i) ==
    /\ ~Is(edit[i].agg, "PREFERENCE")
    /\ edit[i].base # row[edit[i].agg].version

\* The first answer to an edit: its projection is applied and published, in
\* conflict, or rejected; the outcome is kept.
Decide(i) ==
    LET e == [seq |-> drawn + 1, agg |-> edit[i].agg,
              version |-> row[edit[i].agg].version + 1, value |-> edit[i].value] IN
    /\ outcome[i] = "NONE"
    /\ ~Gap(i)
    /\ OwnerLocked(e.agg)
    /\ \/ /\ Stale(i)
          /\ outcome' = [outcome EXCEPT ![i] = "CONFLICT"]
          /\ UNCHANGED <<scene, row, log, open, drawn, tomb, pulled, snap, spent>>
       \/ /\ Fault
          /\ outcome' = [outcome EXCEPT ![i] = "REJECTED"]
          /\ UNCHANGED <<scene, row, log, open, drawn, tomb, pulled, snap>>
       \/ /\ ~Stale(i)
          /\ drawn' = drawn + 1
          /\ Published(e)
          /\ outcome' = [outcome EXCEPT ![i] = "APPLIED"]
          /\ UNCHANGED <<scene, open, pulled, snap, spent>>

\* A duplicate gets its stored answer.
ServePush(r) ==
    /\ run[r].at = "pushing"
    /\ \/ Decide(run[r].edit)
       \/ outcome[run[r].edit] # "NONE" /\ UNCHANGED <<service, spent>>
    /\ run' = [run EXCEPT ![r].at = "answered"]
    /\ UNCHANGED device

\* applyAckProjection: the row takes the version it got and is CLEAN, whatever
\* edit came after (a preference is left alone).  A conflict leaves it DIRTY and
\* is shown; a rejected edit is a dead letter, and its row DIRTY without one.
ApplyAck(r) ==
    /\ run[r].at = "answered"
    /\ LET i == run[r].edit
           a == edit[i].agg IN
       /\ told' = told \cup {i}
       /\ local' = IF outcome[i] = "APPLIED" /\ ~Is(a, "PREFERENCE")
                   THEN [local EXCEPT ![a].dirty = FALSE, ![a].version = edit[i].base + 1]
                   ELSE local
       /\ conflict' = IF outcome[i] = "CONFLICT" THEN conflict \cup {a} ELSE conflict
       /\ dead' = IF outcome[i] = "REJECTED" THEN dead \cup {i} ELSE dead
    /\ run' = [run EXCEPT ![r] = Idle]
    /\ UNCHANGED <<service, known, cursor, boot, edit, covered, shown, spent>>

\* The last attempt ends without a usable answer, or with one more gap.
GiveUp(r) ==
    /\ run[r].at \in {"pushing", "answered"}
    /\ IF run[r].at = "pushing" /\ Gap(run[r].edit) THEN UNCHANGED spent ELSE Fault
    /\ told' = told \cup {run[r].edit}
    /\ dead' = dead \cup {run[r].edit}
    /\ run' = [run EXCEPT ![r] = Idle]
    /\ UNCHANGED <<service, local, conflict, known, cursor, boot, edit, covered, shown>>
-----------------------------------------------------------------------------
(* A run pulls from the cursor it read.                                     *)

StartPull(r) ==
    /\ Begin(r)
    /\ cursor.state = "READY"
    /\ run' = [run EXCEPT ![r] = [Idle EXCEPT !.at = "pulling", !.copy = cursor]]
    /\ UNCHANGED <<service, device>>

\* The earliest n of a set of events.
Earliest(S, n) == {e \in S : Cardinality({d \in S : d.seq < e.seq}) < n}
LastOf(S) == CHOOSE e \in S : \A d \in S : d.seq <= e.seq

\* Mutant: the response counts as received.
ServePullAsReceived(r) ==
    /\ run[r].at = "pulling"
    /\ run[r].copy.valid
    /\ LET events == Earliest({e \in log : e.seq > run[r].copy.seq}, PageLimit)
           next == IF events = {} THEN run[r].copy.seq ELSE LastOf(events).seq IN
         /\ run' = [run EXCEPT ![r].at = "page",
                      ![r].page = [NoPage EXCEPT !.next = next, !.events = events]]
         /\ pulled' = Max({pulled, next})
    /\ UNCHANGED <<scene, row, log, open, drawn, tomb, snap, outcome, device, spent>>

\* The next page of what is committed; the checkpoint is the cursor that came.
ServePull(r) ==
    /\ run[r].at = "pulling"
    /\ run[r].copy.valid
    /\ LET events == Earliest({e \in log : e.seq > run[r].copy.seq}, PageLimit)
           next == IF events = {} THEN run[r].copy.seq ELSE LastOf(events).seq IN
         /\ run' = [run EXCEPT ![r].at = "page",
                      ![r].page = [NoPage EXCEPT !.next = next, !.events = events]]
         /\ pulled' = Max({pulled, run[r].copy.seq})
    /\ UNCHANGED <<scene, row, log, open, drawn, tomb, snap, outcome, device, spent>>

\* isProjectionSupported, and applyProjection has what it needs.
Supported(a) == ~Is(a, "UNKNOWN")

\* A DIRTY row takes no event; a preference is overwritten.
Refuses(a) == local[a].dirty /\ ~Is(a, "PREFERENCE")

Adopted == 1                                \* the value a library entry is adopted with

\* applyPayloadProjection: the payload of a library entry is not looked at.
Payload(a, v) ==
    CASE ~Is(a, "LIBRARY_ENTRY") -> v
      [] local[a].value = None -> Adopted
      [] OTHER -> local[a].value

\* What a row becomes under projections: a DIRTY row keeps its value (and a
\* conflict is opened), a deleted one stays deleted, an absent one is adopted
\* but never for a deletion alone.  The last one decides.
Projected(a, S) ==
    LET l == local[a] IN
    IF Refuses(a) \/ S = {} THEN l
    ELSE [version |-> IF LastOf(S).value = Gone \/ Is(a, "PREFERENCE") THEN l.version
                      ELSE LastOf(S).version,
          value |-> CASE l.value = Gone -> Gone
                      [] l.value = None /\ \A e \in S : e.value = Gone -> None
                      [] LastOf(S).value = Gone -> Gone
                      [] OTHER -> Payload(a, LastOf(S).value),
          dirty |-> FALSE]

\* History: what was applied of a row, and the newest that ever was.
Shown(a, S) ==
    IF S = {} THEN shown[a]
    ELSE [last |-> LastOf(S).version, high |-> Max({shown[a].high, LastOf(S).version})]

\* isServerEventKnown
Fresh(events) == {e \in events : e.seq \notin known}

OfRow(events, a) == {e \in events : e.agg = a}

\* The rows that take none of these events and get a conflict instead.
Refused(events) == {a \in Aggs : Refuses(a) /\ OfRow(events, a) # {}}

\* What a page brings, as events: of a snapshot, the version of its row.
Brought(page) ==
    IF page.snap = 0 THEN page.events
    ELSE IF page.item = Absent THEN {}
    ELSE {[seq |-> 0, agg |-> page.agg, version |-> page.item.version, value |-> page.item.value]}

\* Fails closed: a page is applied as a whole, or not at all.
CanApply(page) == \A e \in Brought(page) : Supported(e.agg)

\* UPGRADE_REQUIRED, or PROJECTION_INCOMPLETE: the cursor stays where it was.
FailsClosed(r) ==
    /\ run[r].at \in {"page", "snapshot"}
    /\ ~CanApply(run[r].page)
    /\ run' = [run EXCEPT ![r] = Idle]
    /\ UNCHANGED <<service, device, spent>>

\* applyPage: projections, marks and the whole cursor row in one transaction.
ApplyPage(r) ==
    /\ run[r].at = "page"
    /\ CanApply(run[r].page)
    /\ LET events == Fresh(run[r].page.events) IN
         /\ local' = [a \in Aggs |-> Projected(a, OfRow(events, a))]
         /\ conflict' = conflict \cup Refused(events)
         /\ known' = known \cup {e.seq : e \in events}
         /\ shown' = [a \in Aggs |-> Shown(a, OfRow(events, a))]
    /\ cursor' = [run[r].copy EXCEPT !.seq = run[r].page.next, !.valid = TRUE]
    /\ run' = [run EXCEPT ![r] = Idle]
    /\ UNCHANGED <<service, boot, edit, told, dead, covered, spent>>

\* CURSOR_INVALID: start again from a snapshot.
CursorInvalid(r) ==
    /\ run[r].at = "pulling"
    /\ ~run[r].copy.valid
    /\ cursor' = [run[r].copy EXCEPT !.state = "RESET_REQUIRED"]
    /\ boot' = NoBoot
    /\ run' = [run EXCEPT ![r] = Idle]
    /\ UNCHANGED <<service, local, conflict, known, edit, told, dead, covered, shown, spent>>
-----------------------------------------------------------------------------
(* A run bootstraps: the first page or the next one of its snapshot.        *)

StartBootstrap(r) ==
    /\ Begin(r)
    /\ cursor.state # "READY"
    /\ run' = [run EXCEPT ![r] = [Idle EXCEPT !.at = "bootstrapping", !.copy = cursor, !.boot = boot]]
    /\ UNCHANGED <<service, device>>

\* _bootstrap_projections: live rows, and tombstones still to be retained; no
\* preferences.
Listed(a) ==
    CASE Is(a, "PREFERENCE") -> FALSE
      [] row[a].value = Gone -> tomb[a] = "kept"
      [] OTHER -> row[a].value # None

Snapshot == [a \in Aggs |-> IF Listed(a) THEN row[a] ELSE Absent]

HighWater == Max({0} \cup {e.seq : e \in log})

SnapshotPage(n, a, items) ==
    [NoPage EXCEPT !.snap = n, !.agg = a, !.item = items[a]]

Referenced == {boot.snap} \cup {run[r].boot.snap : r \in Runs} \cup {run[r].page.snap : r \in Runs}

\* The first page freezes rows and high water in one database snapshot.
ServeFirstPage(r) ==
    /\ run[r].at = "bootstrapping"
    /\ run[r].boot.snap = 0
    /\ LET n == Min(Snapshots \ Referenced) IN
         /\ snap' = [m \in Snapshots |->
               CASE m = n -> [high |-> HighWater, items |-> Snapshot, live |-> TRUE]
                 [] m \in Referenced -> snap[m]
                 [] OTHER -> NoSnapshot]
         /\ run' = [run EXCEPT ![r].at = "snapshot", ![r].page = SnapshotPage(n, 1, Snapshot)]
    /\ UNCHANGED <<scene, row, log, open, drawn, tomb, pulled, outcome, device, spent>>

ServeNextPage(r) ==
    /\ run[r].at = "bootstrapping"
    /\ run[r].boot.snap # 0
    /\ snap[run[r].boot.snap].live
    /\ run' = [run EXCEPT ![r].at = "snapshot", ![r].page =
          SnapshotPage(run[r].boot.snap, run[r].boot.next, snap[run[r].boot.snap].items)]
    /\ UNCHANGED <<service, device, spent>>

\* Mutant: the feed goes on from what was published when the last page came.
CutoverToLatest(high) == HighWater

\* snapshot_cursor, taken over with the last page.
Cutover(high) == high

\* Mutant: the last page has a successor too.
NextOrdinalPastEnd(a) == a + 1

NextOrdinal(a) == IF a = Rows THEN 1 ELSE a + 1

ApplySnapshotPage(r) ==
    /\ run[r].at = "snapshot"
    /\ CanApply(run[r].page)
    /\ LET p == run[r].page
           last == p.agg = Rows
           items == Brought(p) IN
         /\ local' = [local EXCEPT ![p.agg] = Projected(p.agg, items)]
         /\ conflict' = conflict \cup Refused(items)
         /\ shown' = [shown EXCEPT ![p.agg] = Shown(p.agg, items)]
         /\ boot' = [snap |-> p.snap, next |-> NextOrdinal(p.agg)]
         /\ cursor' = IF last THEN [seq |-> Cutover(snap[p.snap].high), valid |-> TRUE, state |-> "READY"]
                      ELSE [run[r].copy EXCEPT !.state = "BOOTSTRAPPING"]
         /\ covered' = IF last THEN Max({covered, snap[p.snap].high}) ELSE covered
    /\ run' = [run EXCEPT ![r] = Idle]
    /\ UNCHANGED <<service, known, edit, told, dead, spent>>

\* Mutant: the invalid snapshot is tried again.
ResumeSnapshot(r) == boot' = boot

\* BOOTSTRAP_SNAPSHOT_INVALID: the next run takes a new one, from its first page.
RestartSnapshot(r) == boot' = NoBoot

SnapshotInvalid(r) ==
    /\ run[r].at = "bootstrapping"
    /\ run[r].boot.snap # 0
    /\ ~snap[run[r].boot.snap].live
    /\ RestartSnapshot(r)
    /\ cursor' = [run[r].copy EXCEPT !.state = "RESET_REQUIRED"]
    /\ run' = [run EXCEPT ![r] = Idle]
    /\ UNCHANGED <<service, local, conflict, known, edit, told, dead, covered, shown, spent>>

Lapses == spent.resets < scene.resets /\ spent' = [spent EXCEPT !.resets = @ + 1]

\* An hour passes: the token the device holds, or a snapshot, is refused.
CursorLapses ==
    /\ Lapses
    /\ cursor.valid /\ cursor.state = "READY"
    /\ cursor' = [cursor EXCEPT !.valid = FALSE]
    /\ run' = [r \in Runs |->
          IF run[r].at = "idle" THEN Idle ELSE [run[r] EXCEPT !.copy.valid = FALSE]]
    /\ UNCHANGED <<service, local, conflict, known, boot, edit, told, dead, covered, shown>>

\* requestFullSnapshot, at any moment of a run.
RequestSnapshot ==
    /\ Lapses
    /\ cursor.state = "READY"
    /\ cursor' = [cursor EXCEPT !.state = "RESET_REQUIRED"]
    /\ boot' = NoBoot
    /\ UNCHANGED <<service, local, conflict, known, edit, told, dead, run, covered, shown>>

SnapshotLapses(n) ==
    /\ Lapses
    /\ snap[n].live
    /\ snap' = [snap EXCEPT ![n].live = FALSE]
    /\ UNCHANGED <<scene, row, log, open, drawn, tomb, pulled, outcome, device, run>>

\* The answer is lost or the process dies: nothing of it was applied.
Dies(r) ==
    /\ run[r].at # "idle"
    /\ Fault
    /\ run' = [run EXCEPT ![r] = Idle]
    /\ UNCHANGED <<service, device>>
-----------------------------------------------------------------------------
RunStep(r) ==
    \/ StartPush(r) \/ ServePush(r) \/ ApplyAck(r) \/ GiveUp(r)
    \/ StartPull(r) \/ ServePull(r) \/ ApplyPage(r) \/ CursorInvalid(r) \/ FailsClosed(r)
    \/ StartBootstrap(r) \/ ServeFirstPage(r) \/ ServeNextPage(r)
    \/ ApplySnapshotPage(r) \/ SnapshotInvalid(r)

Next ==
    \/ \E a \in Aggs : BeginPublish(a) \/ TombstoneExpires(a) \/ CompactTombstones(a) \/ Edit(a)
    \/ \E e \in open : Commit(e) \/ Abort(e)
    \/ CursorLapses \/ RequestSnapshot
    \/ \E n \in Referenced \ {0} : SnapshotLapses(n)
    \/ \E r \in Runs : RunStep(r) \/ Dies(r)

Spec == Init /\ [][Next]_vars

\* Workers are scheduled until the device is in step; transactions end.
Fairness ==
    /\ \A r \in Runs : WF_vars(RunStep(r))
    /\ WF_vars(\E e \in open : Commit(e) \/ Abort(e))

FairSpec == Spec /\ Fairness
-----------------------------------------------------------------------------
(* Properties.                                                              *)

\* A cursor never steps over a publication: whatever committed up to it was
\* applied, or was part of a snapshot applied to its end (pull, with the lock of
\* _acquire_sync_owner_publish_lock, against sequences drawn before the commit).
NothingSkipped ==
    \A e \in log : e.seq <= cursor.seq => e.seq \in known \/ e.seq <= covered

\* compact_tombstones removes a tombstone only when the device has the deletion,
\* in the feed or with a snapshot: an answer that was sent is not one that came.
CompactedAfterReceipt ==
    \A a \in Aggs : tomb[a] \in {"removed", "lost"} => DeletedAt(a) \in known \/ DeletedAt(a) <= covered

InStep == cursor.state = "READY" /\ \A e \in log : e.seq <= cursor.seq

\* The row is what the service has; a deleted one may have never existed here.
\* Of a library entry only that it is there.
Same(a) ==
    IF Is(a, "LIBRARY_ENTRY") THEN row[a].value = None \/ local[a].value # None
    ELSE \/ local[a].value = row[a].value
         \/ row[a].value = Gone /\ local[a].value = None

\* Why a row may differ for good, in a way the device knows of: a conflict is
\* open for it, or one of its edits is in DEAD_LETTER.
Flagged(a) == a \in conflict \/ \E i \in dead : edit[i].agg = a

\* Why it may differ without the device knowing: it was deleted and the
\* retention was over before the device came; it is a preference, last set
\* under a snapshot; or of two runs the one with the older page came last.
Missed(a) ==
    \/ tomb[a] \in {"lapsed", "lost"}
    \/ Is(a, "PREFERENCE") /\ \E e \in OfRow(log, a) : e.seq <= covered /\ e.seq \notin known
    \/ shown[a].last < shown[a].high

\* In step with the feed, with nothing left to push, the device shows what the
\* service has in every row that is neither flagged nor missed (applyEvents,
\* applyAckProjection, bootstrap).
Converges ==
    (InStep /\ Untold = {}) => \A a \in Aggs : Same(a) \/ Flagged(a) \/ Missed(a)

\* The service has published what this client cannot project.
Blocked == \E a \in Aggs : ~Supported(a) /\ row[a] # Absent

\* The device gets in step again after whatever it missed - expired cursors,
\* expired snapshots, lost answers, runs that overlap - unless it needs an
\* upgrade (runForWorker, applyPage, bootstrap).
CatchesUp == <>[](InStep \/ Blocked)
=============================================================================
