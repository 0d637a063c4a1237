# A TLA+ verification project for AutPlay

AutPlay is a self-hosted music service: an Android application that works
offline, a PostgreSQL-backed server with a durable job queue, a vault of audio
files, shared playback rooms, pairing and recovery of accounts, and a GPU worker.
The specifications here model the parts whose correctness depends on the order
of transactions, on leases and single-use secrets, on what survives a crash, and
on messages that are lost, repeated or overtaken.

Paths below are relative to the repository; `server/` abbreviates
`server/src/autplay/`, `android/` abbreviates
`apps/android/src/main/kotlin/app/autplay/`.

## 1. Inventory

| Part | State | Operations | What is hard |
|---|---|---|---|
| **Job queue** `server/adapters/postgresql/jobs_runtime.py`, `server/application/job_worker.py` | `jobs.job`, `jobs.job_attempt`, `jobs.job_dependency`; a worker process holds a fence and two flags | enqueue, claim, heartbeat, checkpoint, complete, fail, defer for a resource, cancel, acknowledge, recover expired leases | leases against a clock read at transaction start, stale workers, heartbeat thread against main thread, cancellation against completion, retry budget |
| **Resource admission** `server/application/resource_admission.py`, `server/adapters/postgresql/resource_*.py` | `resource_admission`, grant cursors, I/O permits, executions, policy | acquire, poll, renew, release, cancel, attach, open/renew/close I/O, prepare/start/stop/confirm an execution, advance (scheduler), sweep, revoke | capacity that stays occupied after its grant ended, rebinding to a later job attempt, draining, orphaned processes, fairness |
| **Vault I/O children** `server/runtime/vault_io.py`, `server/adapters/filesystem/vault_process.py` | retained child processes with local deadlines | spawn, GO, stop, prove exit | start replies that arrive late, lost processes |
| **Vault uploads and ingest** `server/application/vault_ingest.py`, `server/adapters/postgresql/vault_runtime.py`, `ingest_execution.py`, `ingest_cleanup.py`, `server/adapters/filesystem/vault.py`, `server/runtime/ingest_io.py` | upload sessions, content-addressed objects, variants, executions, cleanup claims, the files under `staging/`, `objects/`, `quarantine/` | verify, prepare, publish, finalize, reject, give up, confirm an exit, clean up | a writer that outlives its attempt, a crash between a file operation and its row, two uploads of the same bytes |
| **Vault reconciliation** `server/application/vault_reconciliation.py`, `server/adapters/postgresql/orphan_object_retirement.py`, `provider_maintenance.py` | orphan observations and claims, the maintenance singleton | observe, claim, quarantine, discard, complete | an object registered after it was seen unregistered |
| **Sync server** `server/application/sync.py` | per-device inbox and checkpoint, event journal with server sequence, tombstones, bootstrap snapshots, opaque cursors | push, pull, acknowledge, publish, bootstrap, compact | duplicates, gaps, overlapping publications, compaction against slow devices |
| **Sync on Android** `android/application/sync/SyncEngine.kt`, `android/data/local/dao/Daos.kt` | journal, projected rows, cursor, bootstrap state, conflicts | record an intent, push with retries, apply pages and snapshots | lost answers, dead letters, stale cursor copies, edits against pulled pages |
| **Sessions** `server/application/profile_pairing.py` (rotation), `server/application/auth.py`, `android/data/security/RefreshingSessionCredentials.kt`, `M5SessionRotation.kt` | session families, rotation receipts; credential envelope and settings checkpoint | rotate (two protocols), log out, log out all, revoke | single-use secrets against lost answers, two stores written one after the other, concurrent callers |
| **Wave rooms** `server/adapters/postgresql/wave.py`, `android/application/wave/WaveCoordinator.kt`, `android/playback/AutPlayPlaybackService.kt` | room row, members, commands, preflight and timing reports; the phone's projection and player | create, join, poll, command, start, transfer, leave, close, expire | lost hosts, delayed requests, overtaken snapshots, a start that must be common |
| **Guest rooms** `server/application/guest_room.py`, `android/application/guestroom/` | invitations, guest sessions | redeem, poll, report, leave, revoke | access that ends at the right moments |
| **Pairing** `server/application/profile_pairing.py`, `self_device_pairing.py` | ceremonies, device admissions | initiate, prove, approve, complete | two sides, lost completions |
| **Recovery and deletion** `server/application/account_recovery.py`, `account_deletion.py` | tickets, deletion ledger | export, redeem, delete, replay after restore | restore of an old backup |
| **Discovery, internet music, metadata, imports** | acquisition attempts, provider data | jobs of the queue above | mostly parsing and ranking |
| **Recommendations, Sona, GPU worker** | packs, models, features | batch computation | numeric |
| **Social, public access, portable accounts, backup, web admin** | relations, invitations, documents | request handlers | authorization |
| **Android playback and offline repositories** | queue, media session, downloads | user commands, callbacks | callbacks against persistence |

How the parts interact. HTTP handlers enqueue jobs; workers claim them under a
lease and call admission with the fence of their attempt; a waiting admission
makes the worker give the attempt back (`defer_for_resource`), and the admission
scheduler wakes the job when its turn comes; a granted operation opens permits,
under which the server process runs a child that does the I/O. A sealed upload
becomes a `vault.ingest` job; its handler registers an execution, its child moves
the file, and the reconciler looks after files and rows that no ingest will
settle. A phone records its edits in a journal, pushes them, and pulls what others
published; every request carries an access token that a session family renews. A
phone in a Wave room polls a snapshot of the room and tells the server what it can
play; the web socket prompts polls, and while it is idle the server marks the phone present
and looks after the host as a poll would.

`PROJECT.json` lists every part with its status, and under `hazards` what is hard
to test in the code, at its line, with the properties that cover it.

### What makes each modelled part correct

* *Job queue*: exactly one open attempt per running job; a stale worker can change
  nothing; cancellation is never lost; at most `max_attempts` tries; history is
  immutable; prerequisites are respected; every job ends and every cancellation
  takes effect; all of it a refinement of a life cycle without leases or workers.
* *Admission*: occupied capacity is within every limit, processes included;
  activations of one operation do not overlap; one writer per target; a playback
  holds two recordings; the I/O of one attempt of a job never runs beside the grant of
  the next; capacity returns.
* *Vault*: the bytes an upload needs are where the code will look for them; no two
  processes work on one path, whatever became of their leases; nothing committed is
  undone; every job and every cleanup ends once faults stop.
* *Sync, push*: every intent of a device is applied at most once and in the order
  in which it was recorded; the device believes only what the service stored; its
  checkpoint, by which rows are deleted, is never ahead of the service's; every
  intent is decided in the end; all of it a refinement of a delivery contract
  without leases, requests or retries.
* *Sync, pull*: a cursor steps over no publication; a tombstone goes only after the
  device has the deletion; a device in step shows what the service has, in every row that
  it has not flagged itself and outside three named cases (section 7); and it gets in step
  again after whatever it missed, unless the feed holds what it cannot project.
* *Sessions*: the phone always has, in one of its stores, what it needs to go on;
  its own concurrency, deaths and late requests never cost it its grant, nor do a bound
  phone's repeated ones; an ended family stays ended; a bound phone uses its grant again
  and again without its user.
* *Wave*: an obeyed host request was made in the room as it is; a lost host is
  replaced; a start waits for every participant who is there; the two records of
  the playback state agree; the phones come to play what the room plays, unless their
  player was stopped behind the coordinator's back (section 7).

## 2. Plan

1. `JobLifecycle`, `JobQueue` and its proofs — done.
2. `ResourceAdmission` with executions and children, and its proofs — done.
3. Synchronisation: `DeliveryContract` and `SyncPush` (the journal to the inbox) and
   `SyncFeed` (the feed, snapshots and tombstones back to a device), and their proofs — done.
4. `DeviceSessions`: both rotation protocols with the phone's two stores, and its proofs —
   done.
5. `VaultIngest` and its proofs: ingest, cleanup, reconciliation — done.
6. `WaveRoom` and its proofs: a room, its members and guests and their phones — done.
7. Next: the pairing ceremony (two sides and an idempotent completion); the deletion
   ledger across a restore; the composition of the job queue and admission
   (`defer_for_resource`, wake hint, rebinding) for the liveness of waiting jobs;
   several devices of one owner in `SyncFeed`.
8. Proofs: every safety property that a passing run checks is proved, except `Converges` of
   `SyncFeed`; liveness is out of the prover's reach. Next: `Converges` with overlapping runs,
   row by row, from what every page and every snapshot on its way will make of the row. A new
   module's properties come with its proofs.

## 3. Modules

| Module | What it is |
|---|---|
| `JobLifecycle` | abstract specification: states, cancellation and tries of each job |
| `JobQueue` | the tables, the workers, their properties and the refinement mapping |
| `JobQueueProofs` | how each action moves one row, the inductive invariant and the theorems |
| `MCJobQueue` | constants for TLC |
| `ResourceAdmission` | rows, permits, executions, children, the scheduler, properties |
| `ResourceAdmissionProofs` | its inductive invariant and the theorems |
| `MCResourceAdmission` | constants for TLC |
| `VaultIngest` | uploads of one digest, their jobs, executions, children and files, the cleanup and the reconciler, properties |
| `VaultIngestProofs` | its inductive invariant and the theorems |
| `MCVaultIngest` | constants for TLC |
| `DeliveryContract` | abstract specification: intents recorded, answered and learned |
| `SyncPush` | a device's journal, its sync runs, their requests, the service's inbox, properties and the refinement mapping |
| `SyncPushProofs` | its inductive invariant, the refinement and the theorems |
| `SyncFeed` | publications, pulls, bootstrap snapshots, tombstones and the rows of one device |
| `SyncFeedProofs` | its inductive invariant and the theorems |
| `MCSyncFeed` | the scenes for TLC: what the rows are and how much happens to them |
| `DeviceSessions` | one device's session family: rotation from the phone's stores to the service's rows |
| `DeviceSessionsProofs` | its inductive invariant and the theorems |
| `WaveRoom` | one room, its members and guests, and the phones that follow it |
| `WaveRoomProofs` | its inductive invariant and the theorems |
| `MCWaveRoom` | constants for TLC |

`PROJECT.json` maps every definition to the lines it models. Definitions that a
comment introduces with "Mutant:" are deliberately wrong versions of the
definition below them: substituting one must break the property it is paired
with, which shows that the property observes the code.

### JobQueue

`job` and `attempts` are the two tables, by job; `proc` is one worker process per
worker name: its phase, its fence and the two flags of `JobExecutionContext`;
`late` holds the heartbeat statements whose monitor was already given up.
A repository operation is one transaction under the job's row lock and so one
action. A worker's life is `RecoverExpired`, then `Claim` or `ClaimNothing`, then
the handler: `Heartbeat`, `SaveCheckpoint`, `DeferForResource`, and its end
(`HandlerReturns`, `HandlerRaises`, `StopsAtSafePoint`), then `CloseJob`. `Crash`
may happen anywhere; the restarted process may have the same worker id
(`entrypoints/worker_cpu.py` allows a configured one).

Time: a deadline is the time left until it, `Tick` counts all of them down.
PostgreSQL's `now()` is the start of the transaction, so each operation sees the
clock up to `MaxLag` late; only `defer_for_resource` reads `clock_timestamp()` and
sees it exactly. A job is enqueued due at once or for one of the moments in
`EnqueueDelays`.

Abstracted: job types, payloads, priorities (any claimable job may be first, as
SKIP LOCKED makes possible), progress counters, error documents. `PAUSED` is in
the type but no code sets it.

### ResourceAdmission

`op` is one row per operation, `ahead` those that an operation has before
it by `enqueued_at`, `permit` the
permits with their execution, `child` the retained processes, `jobs` the part of
`jobs.job` that admission reads. All service calls take one advisory lock, so
each is atomic; the grants that a call's trailing `advance` makes are separate
steps during which the lock is still held (`advancing`): nothing else can happen
in between, and `AdvanceDone` is enabled only when the loop has nothing left.

A child whose exit can never be proved is `LOST`: its Popen raised after the attempt was
recorded, HELLO named another process, its process tree cannot be sealed, or the server
process that held the only handle died. It may run on, so it counts as one that does.

`activation` stands for `activation_id` and `generation` together; `attempt` of a permit is
the job claim its session presents with every call. `Withdraw`
stands for whatever makes the authority check fail without touching admission
rows (session expiry, a deleted target). `MayLapse` models the one clock that is
read after a lock wait.

Abstracted: request digests, target look-ups, the caps of 64 grants and 128 swept
rows, receipts, and the local deadline object, of which only the guarantee is kept
that a child is not started or released to work after its permit ran out.

### SyncPush

Below, `SyncEngine.kt` and `Daos.kt` are the Android sources under
`apps/android/src/main/kotlin/app/autplay/`.

`journal` is `offline_journal_event` in Room and `deviceAcked` the
`last_acked_device_sequence` of its `sync_cursor`; `inbox`, `checkpoint` and `feed`
are the service's `device_event_inbox`, its own cursor and the published
`sync_event` rows of this device. `run` is where each execution of
`SyncCoordinator.runForWorker` stands, `request` the push request it sent.
`SyncWorker`, `PhoneVaultUploadWorker` and `InternetMusicWorker` each start a
coordinator, so two runs at once are normal operation.

A run is `RecoverExpiredLeases`, `NextPending`, `Lease` (three Room transactions of
their own in the code), then the call; `ApplyAnswer`, `NetworkUnavailable` or
`Release` settle the rows that still carry its token; then it pulls one page
(`RequireCursor`, `ApplyPage` or `PullFails`) and finishes with `CompactThrough` and
`Compact`, the cursor read and the deletion, which is a transaction of its own. The
service handles a request one event per transaction: `PushDuplicate`, `PushGap` or
`PushNew`; `RequestFails` is an error between two of them or a request that never
arrives. A run that gives up (`NetworkUnavailable`) leaves its request open: the
service may still serve it, after newer ones.

Refinement. `recorded` is the number of rows ever written, `classified` the inbox,
and `told` reads a row's state: ACKED and CONFLICT are the service's answers,
DEAD_LETTER is "given up", a deleted row is "forgotten". Leases, attempts, requests
and checkpoints disappear.

Abstracted: an event is its device sequence, and what it does to its aggregate is a
choice of outcome; a run stands for the token it draws, which it draws again only
when nothing carries the old one; deadlines are flags (a row is due, a lease has run
out); attempt counts saturate at `MaxAttempts`, beyond which the code does not tell
them apart; of the pull, only the cursor row it writes back is kept. Not in this
module: `sync_conflict` rows, the projection of answers on domain rows, the reset of
a lost binding (`recoverUnboundJournal`), and `JOURNAL_RESET_REQUIRED`, which only
releases the rows.

### SyncFeed

`row`, `log`, `tomb`, `pulled` and `snap` are the service's rows, `sync_event`,
tombstones, `device_sync_cursor` and bootstrap sessions; `local`, `conflict`, `known`,
`cursor` and `boot` are the Room tables of the device; `edit`, `outcome` and `told`
are what is left of the push, which `SyncPush` models: an edit is decided once, its
acknowledgement is applied, and its event comes back with the feed.

A publication draws its sequence in `BeginPublish` and commits or rolls back later;
`OwnerLocked` is the advisory lock that `_acquire_sync_owner_publish_lock` takes, for
publishers and for the pull alike. A run pushes (`StartPush`, `ServePush`, then `ApplyAck`,
or `GiveUp` when the last attempt ends without a usable answer), then pulls (`StartPull`,
`ServePull`, `ApplyPage`) or, when the cursor state asks for it, bootstraps
(`StartBootstrap`, `ServeFirstPage`, `ServeNextPage`, `ApplySnapshotPage`). Every step of
the device is one Room transaction; what it read before the network call stays in
`run[r].copy`. Two runs may be under way (`WorkManager` replaces a worker that has not
stopped, or the periodic one meets the one of an edit), each with an old copy, an old page
or a snapshot of its own. `CursorLapses` and `SnapshotLapses` are the tokens' time limits,
`RequestSnapshot` the reset a user or an initializer asks for, `Dies` a run that ends
without a result.

What a row is decides what the device does with its events (`scene.kind`). A PLAYLIST
stands for everything that is versioned and projected: user track refs, playlists and
their entries. Of a LIBRARY_ENTRY the payload is not looked at, and a removal is an upsert
like any other (`Payload`). A PREFERENCE has no version, is projected over a DIRTY row and
is in no snapshot (`Refuses`, `Listed`). UNKNOWN is what this client cannot project: a page
that holds it is not applied at all and the cursor stays (`FailsClosed`). An edit is
applied, conflicts (a `sync_conflict` row is opened) or is rejected; a rejected or given-up
one is in DEAD_LETTER (`dead`) and leaves its row DIRTY.

`covered` and `shown` are history: the highest snapshot that was applied to its end, and the
last and the highest version of each row among all that was applied.

Abstracted: an aggregate is one of `Rows`, in the order of a snapshot, and its
payload a number that tells publications and edits apart; a snapshot page holds one
row; an edit is of a row that has a server id and never removes a library entry; fields, dependency order between tables,
redirects and the resolution of a conflict by the user are left out.

### DeviceSessions

`session`, `receipt`, `revoked` and `expired` are the service's rows of one family;
`envelope` and `checkpoint` the two stores of the phone, the encrypted credential
file and the settings' binding, which it writes one after the other; `call` the
coroutines that use the credentials, `gate` the mutex they rotate under; `sent` and
`reply` the requests under way. `mode` chooses the protocol: LEGACY (the service draws
the next secret, a spent one ends every session of the device) or V2 (the phone
chooses and stores the next secret before it sends, and a receipt makes the request
repeatable).

A request is found (`seen`) before the locks are taken and judged again under them,
so a logout may commit in between. `AnswerLost`, `SendFails` and `Dies` cut a
rotation off in each of its gaps; `ServiceStep` may still serve a request nobody
waits for. `SentAgain` is the HTTP client: no client sets `retryOnConnectionFailure`
(`HttpClientPolicy.kt` takes away redirects only), so OkHttp repeats a request by itself
when its connection fails, whether or not the service had it. Logout of the current session authenticates in one transaction and revokes
in another, as the code does.

Abstracted: signatures, audit rows and the receipts of lifecycle commands; an access
token is known by the session it names, and a request names the device and generation of
its envelope's session, so the service's branch for others is left out. Of two copies of a
request that differ in nothing the model keeps one.

### VaultIngest

All uploads carry the same bytes, so there is one object row and one file under
`objects/`; uploads with other digests share nothing with them. `upload`, `owns`,
`job` and `tries` are rows of the intake, `work`, `handler` and `child` the upload's
execution with its thread and its contained process, `object` and `variant` the
registry, `staged`, `stored` and `retired` the files, `claim` and `cleaner` the
cleanup of a staging entry, `orphan`, `target` and `maint` the reconciler.

The order of a publication is the code's: `Verify` (under no lock), `PreparePublication`,
`PrepareReuse` or `PrepareConflict` in the first transaction, `Publish` on the disk,
`Finalize...` in the second. A lease may lapse at each point (`LeaseExpires`) while
the child goes on; `Claim` and `Defer` then meet the retained writer. The attempt itself
waits for the drain of its child (`ConfirmExit` before `SettleJob`), until the I/O
deadline sends it away with its writer unclosed (`DeferRetained`). The drain may wait
for ever: no exit can be proved of a child whose `Popen` raised or whose HELLO named
another process (`SpawnFails`), nor of a tree that cannot be sealed (`ExitUnproved`).
Its child is `unproved` and counts as one that may be at work. A maintenance or cleanup
row whose process is alive is `LIVE`, and `CUT` when its owner was told to stop; `LOST`
is an unclosed row whose owner died or has no proof. Such rows are `Retained`: only
`OfflineDrain`, run by an operator with the host empty, may close them. A worker's
coordinator holds one entry and the internal I/O budget is shared, so a row of one upload may
defer the other's job (`Defer`); the limit itself is not modelled.

Abstracted: planning and preparing of a maintenance run are one step; the replica row
follows the object row; crashes are per actor; a stopping worker's attempt is counted
like a lapsed lease. Nothing in the program requests the cancellation of an ingest *job*
(`request_cancel_for_owner` is called for imports, scans and acquisitions), so the
branches of `defer` and of the worker for one are left out; an owner cancels the *upload*.
Not in this module: the chunked upload
before the seal, source-authorized uploads, the capacity check, objects whose file is
missing (`ORPHAN_MISSING`), and streaming.

### WaveRoom

`room` is the row of `wave.room` with the newest playback command, `seat` the members
and guest sessions, `report` the preflight and timing rows, `phone` the coordinator's
state, projection and player of each phone. `polling`, `answers` and `asks` are what is
under way: polls between their two transactions, snapshots, and host requests.

A poll of a device is modelled by two steps: the first marks it present (`Poll`), the second
looks after the host (`RecoverHost`) and reads the snapshot (`Answer`); a guest's is
one. The idle web socket makes the service take the same two steps without an answer that
the phone applies (`wave_http.py:421-423, 449-450`): `Answer` with `heard` false. The phone
discards an overtaken snapshot (`Discard`), suspends an orphaned room,
or follows an open one (`Follow`): it stores the projection, prepares the entry,
reports, and tells its player, unless it joins anew in the meantime (`REJOIN`). `Refused` is
a report that fails. `Unauthorised` is an access token that is refused while the device is a
member; `Forbidden` a membership that ended. A host's request
carries the version and the sequence of the view it was made from; the epoch it was
made in is kept for the properties only, and so is `strayed`: the phone has gone back to a
snapshot of an older epoch, which is applied whenever it arrives, and has not yet come up to
the clock it last reported. `PresenceLapses`, `ReadyLapses`, `GraceEnds`
and `LeaseEnds` are the time windows (30 s presence, 15 s readiness, the grace period, the player's lease), `Drifts` a
player that gives up the beat, `Disappear` and `Return` a phone out of reach, or one whose
attempts to rejoin are used up. `StopsUnnoticed` is a player that stops without telling the
coordinator: it had not got the prepared entry when the anchor came
(`AutPlayPlaybackService.kt:1062-1063`), or lost it to another queue (`1095-1097`). `muted` is
a history variable too: the phone was stopped in such a way, or by an entry prepared for an
older epoch, while the start it follows still counts as applied.

Abstracted: positions, drift and clock estimates (a clock report is good for the
command it names), SEEK (only moves the sequence, as PAUSE does), prefetch, invitations
and rate limits, receipts of repeated requests, cleanup. When a room ends, the
reports and requests that can do nothing any more are put away with it. Users act while
`room.seq < MaxCommands`; what the service does by itself is not bounded.

## 4. Runs

| Run | Question | Bounds |
|---|---|---|
| `JobQueue` | safety and refinement under every interleaving | 1 job, due at once or 1 later, 2 workers, 2 tries, lease 2, clock 1 late, 1 resource wait, 1 late heartbeat |
| `JobQueueDeps` | prerequisites; every job ends, cancellation takes effect | 2 jobs (the second needs the success of the first), 1 worker that crashes at will, batch 2, 2 tries, 1 resource wait |
| `AdmissionUploads` | one writer, no overlap of activations, accounting of children, lost ones included; capacity returns | 2 uploads, 1 target, room for both, 2 permits, 2 grants |
| `AdmissionDevice` | the device limit; two recordings per playback | 2 playbacks of one device, which may play one; 3 recordings, 1 permit, 2 grants |
| `AdmissionWorkers` | I/O and grants of successive attempts of a job; rebinding, waiting jobs, withdrawal | 1 job and 1 upload of one account, 1 slot, permits as long as a lease |
| `SyncPush` | safety, refinement and progress with two runs at once | 2 events, 2 runs, batch 2, 2 attempts, no compaction window, 1 fault |
| `SyncFeed` | no gap, no lost deletion, convergence, catching up | 2 rows, 2 runs; nine scenes, each with its kinds of rows and up to 2 publications of others, 2 edits, 1 fault, 1 reset, 2 overlaps |
| `DeviceSessions` | both protocols under every interleaving | 2 callers, 3 rotations, 2 faults |
| `VaultIngest` | bytes, paths and commitments; settling | 2 uploads for one recording, 2 attempts, 2 faults |
| `WaveRoom` | election, convergence of the phones | 2 devices, 2 entries queued at first, the requests skip and start, sequence 4, 2 snapshots of a member under way, 1 fault |
| `WaveGuests` | the start gate, requests past a transfer, and the two records of playback | 2 devices and a guest, 2 participants at a time, all requests, sequence 3, 2 snapshots of a member under way, no faults |
| `WaveGuestOut` | expected violation, see section 7 | 1 device and a guest, no faults |

Why the bounds suffice to be interesting. One job is the unit of locking, so the
interleavings of the queue are between transactions on one row (two workers give
a stale one and a current one, and the attempt numbers tell further ones apart);
several jobs matter only for dependencies and recovery batches, which
`JobQueueDeps` has. The policy REQUIRE_TERMINAL is not in these instances; the proof of
`PrerequisitesHold` covers both policies. With two grants every operation meets the
I/O of its own earlier activation; in `AdmissionWorkers` a permit is as long as a lease, so a permit opened in the
middle of one outlives it. For the push, two events give order, gap and overtaking, and
two runs give a late answer for rows another run holds by now; two attempts, for eight
in the code, let rows both be retried and run out; a window of 0, for 100, lets
compaction reach the rows. For the feed, two publications can be open at once and
commit in either order if the lock lets them, and two edits meet them; one reset
makes a second bootstrap; one overlap is enough for a page or a snapshot to be overtaken by
another run's, two for one run to be overtaken twice. The scenes (`MCSyncFeed`) share the
bounds out, because all of them at once are out of reach: edits with faults, resets with
faults, overlapping runs with and without edits, and the kinds of rows that are treated
differently, alone and beside a playlist. For the sessions, two callers
race for one secret, and two faults cut off a rotation and its repetition. For the
vault, two uploads of the same bytes are publisher and re-user, and two faults give a
lost writer and a lost cleanup. For the rooms, a fault (an absence, a lost answer, a
missing source or clock, drift, a silent stop) meets every state a skip and a start
reach, and elections go on when the users' sequence is used up, so a snapshot of an older
epoch that shows the entry before the skip can arrive in a playing room; the other requests
meet the delays in `WaveGuests`, without faults except that the answer to a leave may not
arrive; in
`WaveGuests` sequence 3 leaves the users two commands, so a start can follow a change that
makes reports stale, and two
snapshots of a member under way let one overtake the other across a change of host.

A fault of the push is a run that dies, releases its rows, or loses its lease while it
waits; lost answers, failed requests and late service are not bounded. Symmetry is used
over workers, permits and (for playbacks) recordings, never in a run with a
liveness property. The account limit never binds in these runs: it is counted as the
device limit is, by account instead of device, and `CapacityNeverExceeded` states all
three. State constraints are not used: bounds are guards, named `Max...` and marked
`bound` in the constants.

Deadlock is checked in the runs of the queue, admission and sync. In the queue and in
admission `Tick` is always possible, or the clock moves again when the scheduler has
finished, so the check says that no handler leaves the lock held; in sync a run can
always take its next step. It is not checked where the system really stops: a family
that ended, uploads that are settled, a room that is closed.

## 5. Fairness

*Job queue.* The clock ticks; a worker runs its loop (`run_forever`), its handlers
end, and it makes its final call: weak fairness. Claiming and recovering are
strongly fair: under SKIP LOCKED a poll may pass over a row that another
transaction holds, but a transaction is short, so a loop that polls for ever does
not collide each time. Nothing forbids crashes, failed heartbeats, or requests,
and nothing makes a heartbeat happen. `EveryJobEnds` needs no assumption on
crashes because every crash costs one of finitely many tries. The number of
resource waits is bounded in the model (`MaxResourceWaits`); in the code a job may
wait as often as the resource is taken, so the property says that a job ends once
it is no longer sent back to wait.

*Admission.* The clock ticks, `advance` finishes, and the control thread of an
I/O session stops and reaps its child and confirms its exit (`_cleanup`, repeated every
second), as long as the handle can prove one.
PostgreSQL queues the waiters of an advisory lock, so a call that is retried gets
the lock although others take it in between: strong fairness, for the steps of a session's
thread taken together. Clients need not do
anything.

*Sync.* WorkManager runs a worker that ended with `Result.retry()` again, and
`runForWorker` asks for that as long as a row is pending or leased (the comment above
`PUSH_DRAIN_PENDING` in `SyncEngine.kt`), so a run's own steps are weakly fair. In
`SyncPush` the service handles or fails a request it has; leases and back-off run out. Neither an
answer nor its being in time is assumed: with every request failing, a row is decided
by its attempts. A death or a release gives an attempt back or costs none, so their
number is bounded (`MaxFaults`), in the code as in the model the only way to postpone
a decision for ever. In `SyncFeed` the steps of each run are weakly fair - the run as a
whole, so it may choose to push, pull or bootstrap as the code does - and an open
publication commits or rolls back: transactions end. A run that fails closed asks for
another one and meets the same page again, so `CatchesUp` excepts an owner who has
published what this client cannot project (`Blocked`).

*Sessions.* A coroutine that holds the mutex or wants a token goes on, and a request
somebody waits for is served or fails; lost answers, failed sends, the HTTP client's
repeats and deaths are bounded. Nothing is assumed of other users of the account.

*Vault.* The worker loop claims, defers and recovers; an execution's threads carry it
to its acknowledged exit; the cleanup drain and the reconciler, which run
periodically, take their steps. Each is weakly fair; neither cancellation, withdrawal,
any fault nor the operator's offline drain is, so `UploadsSettle` excepts behaviours in
which a row stays `Retained` for ever: then its upload waits, and every other one
too if the row holds the only worker or the whole budget.

*Wave.* A phone that is in a room polls every ten seconds and applies the answer; that
polls are answered is strongly fair, because the unanswered steps of the web socket come in
between; what becomes of a phone that is out of reach or out of the room is taken together
(`PhoneGivesUp`); a presence window and a grace period that nobody renews pass; a player's
lease that is not renewed ends. The rest are weakly fair. Users, returns, expiry, drift and the loss of a
source are not, so the room may also stay as it is for ever.

## 6. Proofs

`JobQueueProofs` proves, for every value of the constants that satisfies
`JobQueueAssumption`:

| Theorem | Statement |
|---|---|
| `Invariant` | `Spec => []IInv` |
| `TypeCorrect`, `AttemptsAgree`, `BudgetHolds`, `CancellationIsSeen`, `ChecksHold`, `PrerequisitesHold` | the safety invariants |
| `HistoryIsFinal`, `ProgressIsKept`, `StaleIsFenced` | the action properties |
| `Refinement` | `Spec => ImplementsLifecycle` |

The argument. None of the invariants is inductive alone: that a job which may be
claimed has a try left (`RetryBudget`) depends on every closing operation having
found its attempt open, which is `OneOpenAttempt`; that depends on the row's lease
columns (`RowChecks`) and on rows not yet enqueued being untouched (`Untouched`);
that a cancellation is not stranded depends on claims skipping marked rows; and
prerequisites stay met because terminal states are never left. `IInv` is their
conjunction with the process table's agreement (`EngagedOnJob`) and
`CheckpointByAttempt`; the run `JobQueue` checks it with TLC.

All operations but `RecoverExpired` and `Tick` change at most one row, and only in
one of a few ways. The first half of `JobQueueProofs` names these ways (`RowMoves`),
proves that each action is one of them or leaves the tables alone, and that a move
preserves the per-row invariants and is a step of the life cycle; the second half puts
the actions together, so the invariant is argued once per kind of move and not once
per action and conjunct. The action properties follow from the same moves and
`IInv`.

`VaultIngestProofs` proves, under `VaultAssumption`, for any set of uploads of one
digest and any numbers of attempts and faults:

| Theorem | Statement |
|---|---|
| `Invariant` | `Spec => []IInv` |
| `Typed`, `BytesAreKept`, `OneWriterPerPath` | the safety invariants of the run |
| `PublicationIsFinal` | `Spec => CommittedForGood` |

The argument. That bytes are kept is not inductive: a cleanup unlinks a staging file
because the claim names a finished upload, and a finished upload has its stored file
because a handler finalizes only what it has published, which in turn needs that
nobody retires the stored file in between. So `IInv` adds, besides types and attempt
counts: which handlers still act for an open upload (`ActiveIsOpen`), that a live
process has a RUNNING row (`ProcessHasRow`), that cleanup follows the acknowledged exit
(`CleanerAfterWork`), that the reconciler keeps its claim on its target
(`MaintenanceIsBound`), that a STAGING object has one owner (`OwnersAgree`) and that
what a handler prepared still holds when it goes on (`PreparedHolds`). The lemmas take
the actions in groups: attempts, decisions, endings, cleaning, retiring, and what the
host does as a whole. The action property follows from `IInv` and three lemmas about
which rows and files each group may touch.

`WaveRoomProofs` proves, under `WaveAssumption`, for any number of phones, queue
entries, commands, polls under way and faults:

| Theorem | Statement |
|---|---|
| `Invariance` | `Spec => []IInv` |
| `PlaybackAgreement` | `Spec => []PlaybackAgrees` |
| `HostRequestsAreCurrent` | `Spec => HostActsOnWhatItSaw` |
| `TypesHold`, `WaveTypes` | `Spec => []Types`, `Spec => []TypeOK` |
| `KeepingHolds` | `Spec => []Keeping` |
| `StartsAreUnanimous` | `Spec => StartIsUnanimous` |

The argument. A host's request does not carry the epoch, so the service compares the
sequence; that is enough only because every change of host takes a sequence of its own
(`HandOverMoves`) and because nothing on the way or on a phone claims another epoch for
the room's present sequence (`SeqStandsForEpoch`): a delayed answer may put a phone back
to an old view, but an old view has an old sequence. `PlaybackAgrees` is inductive with
the shape of the row. The row's changes are treated once (`Moves`: the sequence and epoch
stay, or the sequence goes up); each action then only has to show that what it stores or
sends was there before or is known of the row (`Carries`).

`TypeOK` says that the room's intent is for an entry its queue has. That is inductive only
with `Types`: a room is never empty, so the entry taken for the present one is one; and a
request to start names an entry of the version it carries, because only a phone with a view
is a host and the version is compared when the request arrives.

A start requires that the host's and every present participant's clock report is for the room's sequence.
That says something of its phone only through `Keeping`: among the snapshots a phone has
and those on their way to it, a later epoch means a later sequence; and unless it strayed,
its view is not behind its report. Each action does one of three things to what a phone
knows (`Stays`, `Leaves`, `Takes`), and three lemmas on constants
(`KeepsWhatStays` and its fellows) preserve `Keeping` through them; and only a request that
passed the gate makes a row start to play (`StartsNothing`).

`ResourceAdmissionProofs` proves, under `ResourceAssumption` (which asks for finitely many
operations and targets), for any limits, permits and deadlines:

| Theorem | Statement |
|---|---|
| `AdmissionInvariant` | `Spec => []IInv` |
| `AdmissionTypes` | `Spec => []TypeOK` |
| `CapacityIsNeverExceeded`, `ActivationsNeverOverlap`, `AttemptsNeverOverlap`, `TwoRecordingsAtMost` | capacity, activations, attempts and recordings |
| `ChildrenStayCharged`, `OneWriterAtATime` | what the retained processes do |

The argument. Whatever a call, the sweep, a lapse or the clock does to a row, it gives the
operation nothing that it did not have (`Shrinks`) and keeps no permit alive that was not
(`Drains`); so what is occupied only shrinks, and the capacity, the activations and the
recordings need looking at in three places only: a grant, which has checked the limits; a
permit that is opened; and an execution that starts. A permit belongs to the activation and
the attempt it was opened in (`SameGrant`), so a later grant meets the I/O of an earlier one
still occupying, and a claim that rebinds an operation has to take its grant away. That one
process writes per target rests on the rows (`ExecutionsExclude`), and a process on its row
(`ChildrenUnclosed`); a process whose row was closed early would break both. `GrantBudget`,
which ties waiting demand to the bound on grants, is what keeps the counters in their types.

`SyncPushProofs` proves, under `PushAssumption`, for any number of events, runs, attempts
and faults and any batch limit:

| Theorem | Statement |
|---|---|
| `PushInvariant`, `PushTypes` | `Spec => []IInv`, `Spec => []TypeOK` |
| `EndsAlwaysAgree` | `Spec => []EndsAgree` |
| `PushKeepsContract` | `Spec => KeepsContract`, the refinement |

The argument. A run copies the cursor before it sends, pulls with that copy, and writes it
back later, when other runs may have moved it; a request may be served long after its run
gave it up. So `IInv` says of every copy of a checkpoint, in the table or in a run, that it
is not ahead of the service's and that the device holds an answer to everything up to it
(`Behind`), and of every request, open or not, that its acknowledgements repeat the inbox.
The inbox is a prefix of the recorded events, which is what the service's gap decision keeps.
Each step of the device then either changes no promise of the contract, or is one of its
steps; an event served twice is found in the inbox and stutters.

`DeviceSessionsProofs` proves, under `SessionsAssumption`, for any number of callers,
rotations and faults:

| Theorem | Statement |
|---|---|
| `FamilyInvariant`, `SessionTypes` | `Spec => []IInv`, `Spec => []TypeOK` |
| `PhoneCanAlwaysContinue` | `Spec => []PhoneCanContinue` |
| `RotationNeverCostsTheGrant` | `Spec => RotationKeepsGrant` |
| `EndedFamilyStaysEnded` | `Spec => EndedStaysEnded` |

The argument. That the phone can go on depends on the newest row having the secret that one
of its stores holds or has pending. `IInv` ties the rows (their generations count up, only
the newest can be live), the requests that were ever sent or are on receipt (which rotation
of which row each stands for: a bound rotation has one request however often it is sent),
the envelope (it holds the newest row, or the one before with the rotation that made the
newest still pending) and the caller inside the mutexes (what its step relies on). The two
protocols promise different things and parts of `IInv` are stated by mode: an unbound
request that was never repeated is the only one to name the newest row, and what the HTTP
client repeated is refused once its row has a successor; a bound one may be repeated, after
a crash too, and its receipt answers it. `RotationKeepsGrant` therefore exempts exactly the
unbound requests that the HTTP client has sent more than once (section 7).

`SyncFeedProofs` proves, under `FeedAssumption` (which asks for finitely many runs, so that
a free snapshot can be drawn), for any number of rows, changes, edits and concurrent runs:

| Theorem | Statement |
|---|---|
| `FeedInvariant`, `FeedTypes` | `Spec => []IInv`, `Spec => []TypeOK` |
| `NothingIsSkipped` | `Spec => []NothingSkipped` |
| `CompactionWaitsForReceipt` | `Spec => []CompactedAfterReceipt` |

The argument has two halves. Sequences: the owner lock leaves at most one publication open,
and it has drawn a sequence above everything committed and above everything a cursor, a
page, a snapshot, a run's stale copy or the service's checkpoint stands for (`Below`); so
when it commits, nobody has passed it, and every mark keeps its promise that what was
published up to it is on the device (`Caught`). Versions: whatever version of a row is
remembered anywhere as one that was not deleted is behind the version of its deletion
(`Alive`); so nothing is published for a deleted row, a deletion has one event, and a
tombstone that goes was applied. `DrawnOK` keeps the numbers in their bounds. The theorems
hold for any kinds of rows, and for runs that overlap or bootstrap at the same time: a page
applied late is a page whose promise is kept (`Caught`), though its rows may be old.

Model-checked only. All liveness, which is out of the prover's reach: `EveryJobEnds`,
`CancelTakesEffect`, `SpentCapacityReturns`, `Drains`, `CatchesUp`, `StaysConnected`,
`UploadsSettle`, `HostReplaced`, `PhonesConverge`. And `Converges` of `SyncFeed`, which is
checked with two runs. Every other invariant and action property of the passing runs is
proved, for every value of the constants that the named assumptions admit.

## 7. Findings

`WaveGuestOut`: `docs/adr/ADR-043-s1d-guest-room-capability-runtime.md:28-29` says what
terminates a guest's access: "Expiry, revocation, leave, room close or room epoch
change". A guest's phone reports what it can play for the queue its snapshot showed. If
the host's queue edit gets to the service first, the report is refused with
`room_changed`, the code that also answers a change of epoch, and the phone drops its
bearers and leaves; the session on the service stays ACTIVE and keeps its place. The run
exhibits this in eight states.

Further divergences and surprises met while modelling, not checked by a run of their own:

* *Demand of a living job* (`resource_admission.py:331`). The admission contract
  (`docs/design/AutPlay_Resource_Admission_Contract_v1.md:94-99`) says that a waiting
  worker keeps its place until its authority or its job ends. The scheduler checks the
  authority by locking the job's row and reading the clock again; if the lease ends in
  that moment, the row becomes EXPIRED although the job lives, and the next acquisition
  gives the demand a new age. The step is in `Drop` with `MayLapse`.
* *A gap that is never filled* (`SyncEngine.kt:720`). `AutPlay_Sync_Protocol_v1.md:211-213`
  says that after a gap the client must resend the missing event first. An event whose
  attempts all failed in the network becomes DEAD_LETTER and is never selected again,
  while the service goes on waiting for its sequence: every later event is answered with
  a gap until it is a dead letter as well. `Drains` therefore says that an intent is
  decided, not that it is delivered.
* *Dead letters are compacted* (`Daos.kt:596`). `AutPlay_Android_Room_Schema_v1.md:646`
  says that a DEAD_LETTER is not deleted silently. Compaction deletes it together with
  ACKED rows once the checkpoint is far enough past it; `KeepsContract` shows that at
  least no row without an answer of the service goes.
* *Unprovable exits* (`resource_execution.py`, `vault_process.py:417-420`, `433-439`). An
  execution whose child was never spawned and which the sweep has orphaned cannot be
  closed, because `confirm_exit` accepts NOT_STARTED only from PREPARED or STOPPING; nor can
  one whose handle was lost. Their capacity stays charged for an operator.
  `SpentCapacityReturns` exempts exactly these (`Unprovable`), and says that every other
  order of stop, spawn, start, sweep and deadline is one the cleanup gets out of.
* *An older page applied last* (`SyncEngine.kt:234-277, 313, 349`).
  `AutPlay_Sync_Protocol_v1.md:287-290` calls the replay of a page idempotent. Of two runs
  the one with the older page, or the older snapshot, may come last: the events of a feed
  are known by then and skipped, but those of a snapshot carry no sequence, and a page is
  skipped only where its events came in the feed and not in a snapshot. The row falls back
  to the older value while the cursor is in step, until it changes again. `Converges` exempts
  exactly such rows (`shown.last < shown.high`).
* *Edits that are rejected or given up* (`SyncEngine.kt:213-214, 715-726`) become a
  DEAD_LETTER and nothing else: the row keeps the edit's value, stays DIRTY, takes no event
  any more (each opens a conflict instead), and before the next one nothing says that it
  differs. `Converges` counts it as `Flagged` by the dead letter.
* *A second edit hidden by the first one's acknowledgement* (`SyncEngine.kt:505`). The
  acknowledgement marks the row CLEAN although a newer edit of it is still in the journal;
  the first edit's own event is then projected over the newer value. The user's newer edit
  is not shown until it is decided, and it still carries the base version from before the
  first one, so it is decided as a conflict. `Converges` speaks of an empty journal only.
* *Library entries and preferences.* The payload of a library entry is ignored when it is
  applied (`SyncEngine.kt:611-642`), and with it a removal that another device published as
  an upsert: the entry stays on this one, while a snapshot leaves it out. A preference is
  overwritten while a newer one is unsent (`655-661`), it is in no snapshot, and one that
  names its track by another device's local id makes the whole page fail
  (PROJECTION_INCOMPLETE), again and again. `Same`, `Missed` and `Blocked` state these.
* *A feed that needs an upgrade* (`SyncEngine.kt:279-288, 253-259`) stops at the first page
  with an event this client does not know, the bootstrap too: nothing after it is applied
  until the application is updated, as `AutPlay_Sync_Protocol_v1.md:292-295` wants.
  `CatchesUp` excepts it.
* *A requested snapshot that is not taken* (`SyncEngine.kt:266-273, 291`). A run that began
  before `requestFullSnapshot` writes back the READY of its own copy, or cuts over to the
  snapshot it had begun, over the RESET_REQUIRED. The feed loses nothing by it
  (`NothingSkipped`, `CatchesUp`), but the snapshot that was asked for is not taken.
* *A tombstone whose retention is over* (`sync.py:1834-1836`) is not part of a snapshot, so
  a device that bootstraps later keeps the row; `Converges` exempts it, as the protocol
  does (303-308).
* *An unbound rotation repeated by the HTTP client.* `RefreshingSessionCredentials.kt:149`
  says that the durable pending marker prevents token replay, but the marker guards the
  phone's own repetition only. When the connection of `POST /auth/refresh` fails after the
  service had the request, OkHttp sends it again within the same call, the service finds a
  spent generation and ends every session of the device. `SentAgain` is the step;
  `RotationKeepsGrant` exempts such a request. A bound rotation has its receipt and needs no
  exemption.
* *Logging out a session that was just rotated.* The V2 command revokes exactly the session
  it names; if that was rotated in between, the successor stays live while the phone clears
  its only copy of the secret. The contract wants the exact session to be revoked;
  `PhoneCanContinue` exempts a phone that disconnected itself. A legacy rotation whose
  answer is lost leaves the phone asking its user to connect again.
* *A writer without an exit proof* (`ingest_io.py:296-326`). The drain of an ingest whose
  child cannot be shown to have ended never returns, and it keeps the coordinator's only
  entry. Every ingest job this worker claims is deferred every two seconds without spending
  an attempt, until the worker is stopped and an operator runs the offline drain; so
  `UploadsSettle` has its exception `Retained`.
* *An ingest that runs out of attempts* leaves its upload in PROCESSING or
  COMMIT_PREPARED, and its STAGING object makes every other upload of the same bytes
  wait; an object row that was quarantined makes them CONFLICT. Nothing settles such rows,
  so `UploadsSettle` speaks of jobs and cleanups. A cleanup claim of an execution that was
  closed offline stays pending, because the cleanup demands an exit that was acknowledged;
  a job that gives up after its publication was finalized can be FAILED beside a COMMITTED
  upload.
* *A room nobody polls* never becomes ORPHANED, because hosts are looked after only by
  polls, whose first transaction marks the caller present; the exception is a last
  member that leaves between the two transactions of its poll.
* *A snapshot of an older epoch* is applied over a newer one: the overtaking test compares
  sequences within one epoch only (`WaveCoordinator.kt:460-461`), whereas
  `docs/adr/ADR-026-p13-wave-room-clock-and-recovery.md` and the Wave protocol say that older duplicates are ignored. So a
  phone that was counted ready may have gone back when the room starts, and snapshots of its
  own epoch that are newer than the older one, but not than what it reported, may come after
  it: with three under way a phone back in its epoch is still behind its clock.
  `StartIsUnanimous` exempts exactly that, by `strayed`.
* *A start that counts as applied is not made good.* A phone whose player lost its start
  without the coordinator knowing keeps the sequence in `appliedPlaybackSequence`, and every
  later snapshot only renews an anchor (`WaveCoordinator.kt:561-564`), which starts nothing
  (`AutPlayPlaybackService.kt:1070`). That happens when a snapshot of an older epoch
  prepares another entry, when a request is answered with 401 or 403 and the player is paused
  (`302-307`, also of a member whose token has just expired), and when the player drops the
  anchor silently (`1062-1063`, `1095-1097`). The phone then stays silent in a playing room
  until the next command, although `ADR-026-p13-wave-room-clock-and-recovery.md:59` has phones
  "rejoin from a snapshot and catch up". `PhonesConverge` exempts exactly such phones, by
  `muted`; it requires convergence of a phone that lost the beat and said so, or missed a
  start for want of a source or clock.
* *Smaller ones in the rooms.* The PAUSE of an orphaned room names no entry; a guest of an
  older epoch holds the start back until its presence lapses; a creator who handed over and
  left cannot join again; an election does not ask whether a device was revoked, a transfer
  does; a leave whose answer was lost is answered with 403 from then on and the phone stays in
  the room; a guest whose first snapshot is lost stays ACTIVE without a heartbeat until it
  expires; after a SKIP whose report fails the host's START names the entry shown before.

## 8. Not modelled

Everything marked `not_modelled` in `PROJECT.json`, with its reason there. Within
the modelled parts: SQL isolation is taken as the row and advisory locks provide
it; clock steps backwards are not considered; the database does not lose
committed transactions. What each module leaves out of the part it models is named at
the end of its description in section 3.
