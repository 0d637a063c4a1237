--------------------------- MODULE WaveRoomProofs ---------------------------
(***************************************************************************)
(* Proofs about the Wave room: for any number of phones, entries, commands *)
(* and faults, the row and its newest playback command agree, the sequence *)
(* a host's request carries stands for the epoch it was made in, and a     *)
(* room starts with every phone at the command it starts from.             *)
(***************************************************************************)
EXTENDS WaveRoom, TLAPS

\* What the proofs need to know of the types.
RoomFields == {"state", "host", "epoch", "version", "seq", "playback", "lost", "command"}
IsRoom(r) == DOMAIN r = RoomFields /\ r.seq \in Nat \ {0}

Shape ==
    /\ IsRoom(room)
    /\ DOMAIN phone = Phones /\ \A p \in Phones : "view" \in DOMAIN phone[p]
    /\ DOMAIN answers = Phones

\* PlaybackAgrees, of any row.
Agrees(r) ==
    /\ r.playback = "PLAYING" <=> r.command.kind = "PLAY"
    /\ r.playback = "PLAYING" => r.state = "OPEN"

\* x, a view or a request, was taken from the row when it was at x.seq.
KnownBy(r, x) ==
    /\ x.seq \in Nat /\ x.seq <= r.seq
    /\ x.seq = r.seq => x.epoch = r.epoch

\* Whatever travels or is stored carries a sequence that stands for its epoch.
SeqStandsForEpoch ==
    /\ \A p \in Phones : KnownBy(room, phone[p].view)
    /\ \A p \in Phones : \A s \in answers[p] : KnownBy(room, s)
    /\ \A a \in asks : KnownBy(room, a)

IInv == Shape /\ PlaybackAgrees /\ SeqStandsForEpoch

\* A change of the row keeps sequence and epoch, or moves the sequence.
Moves(r, s) ==
    /\ IsRoom(s) /\ Agrees(s)
    /\ \/ s.seq = r.seq /\ s.epoch = r.epoch
       \/ s.seq = r.seq + 1

(***************************************************************************)
(* The row.                                                                *)
(***************************************************************************)
\* A command moves the sequence, and replaces the intent if it is one.
LEMMA AppendMoves ==
    ASSUME NEW r, IsRoom(r), NEW kind, NEW entry
    PROVE  LET a == AppendCommand(r, kind, entry) IN
           /\ IsRoom(a) /\ a.seq = r.seq + 1 /\ a.epoch = r.epoch
           /\ a.state = r.state /\ a.playback = r.playback
           /\ a.command.kind = IF kind \in PlaybackKinds THEN kind ELSE r.command.kind
<1> DEFINE a == AppendCommand(r, kind, entry)
           c == [seq |-> r.seq + 1, kind |-> kind, entry |-> entry]
<1>1. /\ DOMAIN a = RoomFields /\ a.seq = r.seq + 1 /\ a.epoch = r.epoch
      /\ a.state = r.state /\ a.playback = r.playback
      /\ a.command = IF kind \in PlaybackKinds THEN c ELSE r.command
  BY SMT DEF AppendCommand, IsRoom, RoomFields
<1>2. c.kind = kind
  OBVIOUS
<1> QED BY <1>1, <1>2, SMT DEF IsRoom

\* A command that sets neither the intent nor the playback state.
LEMMA KeepMoves ==
    ASSUME NEW r, IsRoom(r), Agrees(r), NEW kind \in {"LEAVE", "TRANSFER"}
    PROVE  Moves(r, AppendCommand(r, kind, NoEntry))
<1>1. kind \notin PlaybackKinds
  BY DEF PlaybackKinds
<1> QED BY <1>1, AppendMoves DEF Moves, Agrees

\* A change of host is a command of its own, so it moves the sequence.
LEMMA HandOverMoves ==
    ASSUME NEW r, IsRoom(r), Agrees(r), NEW d
    PROVE  Moves(r, HandOver(r, d))
<1> DEFINE a == AppendCommand(r, "TRANSFER", NoEntry)
<1>1. /\ IsRoom(a) /\ a.seq = r.seq + 1 /\ a.playback = r.playback
      /\ a.command.kind = r.command.kind
  <2>1. "TRANSFER" \notin PlaybackKinds
    BY DEF PlaybackKinds
  <2> QED BY <2>1, AppendMoves
<1>2. HandOver(r, d) =
        [a EXCEPT !.host = d, !.epoch = @ + 1, !.lost = "NO", !.state = "OPEN"]
  BY DEF HandOver
<1> HIDE DEF a
<1>3. /\ DOMAIN HandOver(r, d) = RoomFields /\ HandOver(r, d).seq = a.seq
      /\ HandOver(r, d).playback = a.playback /\ HandOver(r, d).command = a.command
      /\ HandOver(r, d).state = "OPEN"
  BY <1>1, <1>2, SMT DEF IsRoom, RoomFields
<1> QED BY <1>1, <1>3, SMT DEF Moves, Agrees, IsRoom

\* The end of a room, and its suspension, pause it.
LEMMA EndedMoves ==
    ASSUME IInv, NEW kind \in {"PAUSE", "CLOSE", "EXPIRE"}, NEW state
    PROVE  Moves(room, Ended(kind, state)) /\ Ended(kind, state).state = state
<1> DEFINE a == AppendCommand(room, kind, NoEntry)
<1>1. IsRoom(a) /\ a.seq = room.seq + 1 /\ a.command.kind = kind
  <2>1. kind \in PlaybackKinds
    BY DEF PlaybackKinds
  <2> QED BY <2>1, AppendMoves DEF IInv, Shape
<1>2. Ended(kind, state) = [a EXCEPT !.state = state, !.playback = "PAUSED"]
  BY DEF Ended
<1> HIDE DEF a
<1>3. /\ DOMAIN Ended(kind, state) = RoomFields /\ Ended(kind, state).seq = a.seq
      /\ Ended(kind, state).playback = "PAUSED" /\ Ended(kind, state).command = a.command
      /\ Ended(kind, state).state = state
  BY <1>1, <1>2, SMT DEF IsRoom, RoomFields
<1>4. kind # "PLAY"
  OBVIOUS
<1> QED BY <1>1, <1>3, <1>4, SMT DEF Moves, Agrees, IsRoom

\* Looking after the host, case by case.
LEMMA RecoverMoves ==
    ASSUME IInv, Live, RecoverHost
    PROVE  Moves(room, room')
<1>1. IsRoom(room) /\ Agrees(room)
  BY DEF IInv, Shape, PlaybackAgrees, Agrees
<1>2. Moves(room, room)
  BY <1>1 DEF Moves
<1>3. \A d : Moves(room, HandOver(room, d))
  BY <1>1, HandOverMoves
<1>4. Moves(room, [room EXCEPT !.lost = "GRACE"])
  BY <1>1, SMT DEF Moves, IsRoom, RoomFields, Agrees
<1>5. Moves(room, Ended("PAUSE", "ORPHANED"))
  BY EndedMoves
<1> QED BY <1>2, <1>3, <1>4, <1>5 DEF RecoverHost

\* A request that is obeyed finds the room open.
LEMMA ObeyMoves ==
    ASSUME IInv, NEW a, Obeyed(a)
    PROVE  Moves(room, Obey(a))
<1>1. IsRoom(room) /\ Agrees(room) /\ room.state = "OPEN"
  BY DEF IInv, Shape, PlaybackAgrees, Agrees, Obeyed, IsHost
<1>2. ASSUME NEW kind \in {"PAUSE", "SKIP", "START_ABORTED"}, NEW entry
      PROVE  Moves(room, [AppendCommand(room, kind, entry) EXCEPT !.playback = "PAUSED"])
  <2> DEFINE b == AppendCommand(room, kind, entry)
  <2>1. kind \in PlaybackKinds /\ kind # "PLAY"
    BY DEF PlaybackKinds
  <2>2. IsRoom(b) /\ b.seq = room.seq + 1 /\ b.command.kind # "PLAY"
    BY <1>1, <2>1, AppendMoves
  <2> HIDE DEF b
  <2>3. Moves(room, [b EXCEPT !.playback = "PAUSED"])
    BY <2>2, SMT DEF Moves, Agrees, IsRoom, RoomFields
  <2> QED BY <2>3 DEF b
<1>3. ASSUME NEW entry
      PROVE  Moves(room, [AppendCommand(room, "PLAY", entry) EXCEPT !.playback = "PLAYING"])
  <2> DEFINE b == AppendCommand(room, "PLAY", entry)
  <2>1. IsRoom(b) /\ b.seq = room.seq + 1 /\ b.command.kind = "PLAY" /\ b.state = "OPEN"
    BY <1>1, AppendMoves DEF PlaybackKinds
  <2> HIDE DEF b
  <2>2. Moves(room, [b EXCEPT !.playback = "PLAYING"])
    BY <2>1, SMT DEF Moves, Agrees, IsRoom, RoomFields
  <2> QED BY <2>2 DEF b
<1>4. Moves(room, [AppendCommand(room, "QUEUE", NoEntry) EXCEPT !.version = @ + 1])
  <2> DEFINE b == AppendCommand(room, "QUEUE", NoEntry)
  <2>1. "QUEUE" \notin PlaybackKinds
    BY DEF PlaybackKinds
  <2>2. /\ IsRoom(b) /\ b.seq = room.seq + 1 /\ b.playback = room.playback
        /\ b.command.kind = room.command.kind /\ b.state = room.state
    BY <1>1, <2>1, AppendMoves
  <2> HIDE DEF b
  <2>3. Moves(room, [b EXCEPT !.version = @ + 1])
    BY <1>1, <2>2, SMT DEF Moves, Agrees, IsRoom, RoomFields
  <2> QED BY <2>3 DEF b
<1>5. CASE a.kind = "QUEUE"
  BY <1>4, <1>5 DEF Obey
<1>6. CASE a.kind = "PAUSE"
  BY <1>2, <1>6 DEF Obey
<1>7. CASE a.kind = "SKIP"
  BY <1>2, <1>7 DEF Obey
<1>8. CASE a.kind = "START" /\ StartGate(a.entry)
  BY <1>3, <1>8 DEF Obey
<1>9. CASE a.kind \notin {"QUEUE", "PAUSE", "SKIP"} /\ ~(a.kind = "START" /\ StartGate(a.entry))
  BY <1>2, <1>9 DEF Obey
<1> QED BY <1>5, <1>6, <1>7, <1>8, <1>9

\* What was known of the row stays known of it as it moves on.
LEMMA StaysKnown ==
    ASSUME NEW r, IsRoom(r), NEW s, Moves(r, s), NEW x, KnownBy(r, x)
    PROVE  KnownBy(s, x)
BY SMT DEF KnownBy, Moves, IsRoom

\* A snapshot is known of the row it is taken from.
LEMMA ViewIsKnown ==
    ASSUME NEW r, IsRoom(r)
    PROVE  KnownBy(r, View(r))
BY SMT DEF KnownBy, View, IsRoom

\* A phone that is out knows nothing newer than the row.
LEMMA NoViewIsKnown ==
    ASSUME NEW r, IsRoom(r)
    PROVE  KnownBy(r, Out.view)
<1>1. Out.view = NoView /\ NoView.seq = 0
  BY DEF Out, NoView
<1> QED BY <1>1, SMT DEF KnownBy, IsRoom

(***************************************************************************)
(* A step in general: the row moves, and whatever is stored or sent in it  *)
(* was stored or sent before, or is known.                                 *)
(***************************************************************************)
Carries ==
    /\ Moves(room, room') \/ room' = room
    /\ DOMAIN phone' = Phones /\ DOMAIN answers' = Phones
    /\ \A p \in Phones :
          /\ "view" \in DOMAIN phone'[p]
          /\ phone'[p].view = phone[p].view \/ KnownBy(room', phone'[p].view)
    /\ \A p \in Phones : \A s \in answers'[p] : s \in answers[p] \/ KnownBy(room', s)
    /\ \A a \in asks' : a \in asks \/ KnownBy(room', a)

LEMMA StepKeepsIInv ==
    ASSUME IInv, Carries
    PROVE  IInv'
<1>1. IsRoom(room) /\ Moves(room, room)
  BY DEF IInv, Shape, Moves, PlaybackAgrees, Agrees
<1>2. Moves(room, room')
  BY <1>1 DEF Carries
<1>3. Shape' /\ PlaybackAgrees'
  BY <1>2 DEF Shape, PlaybackAgrees, Moves, Agrees, Carries
<1>4. \A x : KnownBy(room, x) => KnownBy(room', x)
  BY <1>1, <1>2, StaysKnown
<1>5. \A p \in Phones : KnownBy(room', phone'[p].view)
  BY <1>4 DEF IInv, SeqStandsForEpoch, Carries
<1>6. \A p \in Phones : \A s \in answers'[p] : KnownBy(room', s)
  BY <1>4 DEF IInv, SeqStandsForEpoch, Carries
<1>7. \A a \in asks' : KnownBy(room', a)
  BY <1>4 DEF IInv, SeqStandsForEpoch, Carries
<1> QED BY <1>3, <1>5, <1>6, <1>7 DEF IInv, SeqStandsForEpoch

\* Polls and their answers: an answer is a snapshot of the row it leaves.
LEMMA PollStep ==
    ASSUME IInv, NEW p \in Phones,
           \/ Poll(p) \/ GuestPoll(p) \/ Join(p) \/ Redeem(p)
           \/ \E heard \in BOOLEAN : Answer(p, heard)
    PROVE  Carries
<1> USE DEF Carries, IInv, Shape
<1>1. CASE Poll(p)
  BY <1>1 DEF Poll
<1>2. ASSUME NEW heard \in BOOLEAN, Answer(p, heard) PROVE Carries
  <2>1. Moves(room, room') \/ room' = room
    BY <1>2, RecoverMoves DEF Answer
  <2>2. IsRoom(room')
    BY <2>1 DEF Moves
  <2>3. KnownBy(room', View(room'))
    BY <2>2, ViewIsKnown
  <2> QED BY <1>2, <2>1, <2>3 DEF Answer
<1>3. CASE GuestPoll(p)
  BY <1>3, ViewIsKnown DEF GuestPoll
<1>4. CASE Join(p)
  BY <1>4, ViewIsKnown DEF Join
<1>5. CASE Redeem(p)
  BY <1>5, ViewIsKnown DEF Redeem
<1> QED BY <1>1, <1>2, <1>3, <1>4, <1>5

LEMMA PausedViews ==
    ASSUME NEW ph, "view" \in DOMAIN ph
    PROVE  "view" \in DOMAIN Paused(ph) /\ Paused(ph).view = ph.view
BY SMT DEF Paused

\* What a phone makes of a snapshot leaves it with that snapshot as its view.
LEMMA PreparedViews ==
    ASSUME NEW p, NEW s, NEW sourced, "view" \in DOMAIN phone[p]
    PROVE  "view" \in DOMAIN Prepared(p, s, sourced) /\ Prepared(p, s, sourced).view = s
<1> DEFINE e == IF sourced THEN Selected(s) ELSE phone[p].prepared
           b == Strays(p, s)
           h == IF e = phone[p].prepared THEN phone[p] ELSE Paused(phone[p])
<1>1. Prepared(p, s, sourced) = [h EXCEPT !.view = s, !.prepared = e, !.strayed = b]
  BY Zenon DEF Prepared
<1>2. "view" \in DOMAIN h
  BY PausedViews
<1> HIDE DEF e, b, h
<1> QED BY <1>1, <1>2, SMT

LEMMA PlayedViews ==
    ASSUME NEW ph, "view" \in DOMAIN ph, NEW c, NEW trouble
    PROVE  /\ "view" \in DOMAIN Played(ph, c, trouble)
           /\ Played(ph, c, trouble).view = ph.view
BY SMT DEF Played, Silenced

\* A snapshot on the phone becomes its view, whatever else happens.
LEMMA ApplyStep ==
    ASSUME IInv, NEW p \in Phones, NEW s \in answers[p], NEW trouble,
           Discard(p, s) \/ Suspend(p, s) \/ Refused(p, s) \/ Follow(p, s, trouble)
    PROVE  Carries
<1> USE DEF Carries, IInv, Shape
<1>1. KnownBy(room, s)
  BY DEF SeqStandsForEpoch
<1>2. CASE Discard(p, s)
  BY <1>2 DEF Discard, Arrived, service
<1>3. CASE Suspend(p, s)
  <2>1. phone' = [phone EXCEPT ![p].view = s, ![p].audio = 0, ![p].applied = 0,
                               ![p].degraded = FALSE, ![p].muted = FALSE,
                               ![p].strayed = Strays(p, s)]
    BY <1>3 DEF Suspend
  <2>2. /\ DOMAIN phone' = Phones
        /\ \A q \in Phones : "view" \in DOMAIN phone'[q]
              /\ phone'[q].view = IF q = p THEN s ELSE phone[q].view
    BY <2>1, SMT
  <2> QED BY <1>1, <1>3, <2>2 DEF Suspend, Arrived, service
<1>4. CASE Refused(p, s)
  <2>1. room' = room /\ asks' = asks
    BY <1>4 DEF Refused, service
  <2>2. CASE Dropped(p)
    BY <1>1, <2>1, <2>2, NoViewIsKnown DEF Dropped, Out
  <2>3. CASE ~Dropped(p)
    <3> DEFINE ph == Prepared(p, s, TRUE)
    <3>1. "view" \in DOMAIN ph /\ ph.view = s
      BY PreparedViews
    <3>2. answers' = [answers EXCEPT ![p] = @ \ {s}]
      BY <1>4, <2>3 DEF Refused
    <3>3. phone' = [phone EXCEPT ![p] =
                       IF p \in Devices /\ ~Joined(p) THEN Paused(ph) ELSE ph]
      BY <1>4, <2>3 DEF Refused
    <3> HIDE DEF ph
    <3>4. /\ DOMAIN phone' = Phones
          /\ \A q \in Phones : "view" \in DOMAIN phone'[q]
                /\ phone'[q].view = IF q = p THEN s ELSE phone[q].view
      BY <3>1, <3>3, PausedViews
    <3> QED BY <1>1, <2>1, <3>2, <3>4
  <2> QED BY <2>2, <2>3
<1>5. CASE Follow(p, s, trouble)
  <2> DEFINE ph == Played(Prepared(p, s, trouble # "SOURCE"), s.command, trouble)
  <2>1. "view" \in DOMAIN ph /\ ph.view = s
    BY PreparedViews, PlayedViews
  <2> DEFINE h == [ph EXCEPT !.in = TRUE, !.isHost = (s.host = p), !.entry = Selected(s)]
             g == Prepared(p, s, TRUE)
  <2>2. phone' = [phone EXCEPT ![p] = IF trouble = "REJOIN" THEN g ELSE h]
    BY <1>5 DEF Follow
  <2>4. "view" \in DOMAIN g /\ g.view = s
    BY PreparedViews
  <2> HIDE DEF ph, g
  <2>5. "view" \in DOMAIN h /\ h.view = s
    BY <2>1, SMT
  <2> HIDE DEF h
  <2>3. /\ DOMAIN phone' = Phones
        /\ \A q \in Phones : "view" \in DOMAIN phone'[q]
              /\ phone'[q].view = IF q = p THEN s ELSE phone[q].view
    BY <2>2, <2>4, <2>5
  <2> QED BY <1>1, <1>5, <2>3 DEF Follow, Arrived
<1> QED BY <1>2, <1>3, <1>4, <1>5

\* Phones that are told, or decide, to leave or to be silent.
LEMMA LeavingStep ==
    ASSUME IInv, NEW p \in Phones, NEW b \in BOOLEAN,
           \/ Gone(p) \/ Forbidden(p) \/ Unauthorised(p)
           \/ Leave(p, b) \/ GuestLeave(p, b) \/ Close(p)
    PROVE  Carries
<1> USE DEF Carries, IInv, Shape
<1>1. "view" \in DOMAIN Out
  BY DEF Out
<1>2. CASE Gone(p)
  BY <1>1, <1>2, NoViewIsKnown DEF Gone, Dropped, service
<1>3. CASE Forbidden(p) \/ Unauthorised(p)
  <2>1. phone' = [phone EXCEPT ![p] = Paused(phone[p])]
    BY <1>3 DEF Forbidden, Unauthorised
  <2>2. /\ DOMAIN phone' = Phones
        /\ \A q \in Phones : "view" \in DOMAIN phone'[q] /\ phone'[q].view = phone[q].view
    BY <2>1, PausedViews
  <2> QED BY <1>3, <2>2 DEF Forbidden, Unauthorised, service
<1>4. CASE Leave(p, b)
  <2>1. Moves(room, room')
    BY <1>4, EndedMoves, KeepMoves DEF Leave, PlaybackAgrees, Agrees
  <2>2. KnownBy(room', Out.view)
    BY <2>1, NoViewIsKnown DEF Moves
  <2>3. asks' \subseteq asks
    BY <1>4 DEF Leave, PutAway
  <2>4. DOMAIN answers' = Phones /\ \A q \in Phones : answers'[q] \subseteq answers[q]
    BY <1>4 DEF Leave, NoAnswers
  <2>5. phone' = phone \/ phone' = [phone EXCEPT ![p] = Out]
    BY <1>4 DEF Leave
  <2> QED BY <1>1, <2>1, <2>2, <2>3, <2>4, <2>5
<1>5. CASE GuestLeave(p, b)
  BY <1>1, <1>5, NoViewIsKnown DEF GuestLeave, Dropped
<1>6. CASE Close(p)
  <2>1. Moves(room, room')
    BY <1>6, EndedMoves DEF Close
  <2>2. KnownBy(room', Out.view)
    BY <2>1, NoViewIsKnown DEF Moves
  <2> QED BY <1>1, <1>6, <2>1, <2>2 DEF Close, PutAway, NoAnswers
<1> QED BY <1>2, <1>3, <1>4, <1>5, <1>6

\* What the host asks carries the sequence and epoch of its phone's view.
LEMMA AskStep ==
    ASSUME IInv, NEW p \in Phones, NEW kind, HostAsks(p, kind)
    PROVE  Carries
<1>1. Request(p, kind).seq = phone[p].view.seq /\ Request(p, kind).epoch = phone[p].view.epoch
  BY DEF Request
<1>2. KnownBy(room, Request(p, kind))
  BY <1>1 DEF IInv, SeqStandsForEpoch, KnownBy
<1> QED BY <1>2 DEF HostAsks, Carries, IInv, Shape

\* Requests that arrive, and a change of host.
LEMMA HostStep ==
    ASSUME IInv, \/ \E a \in asks : Deliver(a)
                 \/ \E p \in Devices, t \in Devices : Transfer(p, t)
    PROVE  Carries
<1> USE DEF Carries, IInv, Shape
<1>1. ASSUME NEW a \in asks, Deliver(a) PROVE Carries
  BY <1>1, ObeyMoves DEF Deliver
<1>2. ASSUME NEW p \in Devices, NEW t \in Devices, Transfer(p, t) PROVE Carries
  BY <1>2, HandOverMoves DEF Transfer, PlaybackAgrees, Agrees
<1> QED BY <1>1, <1>2

\* Time, distance, and players that stop by themselves.
LEMMA TimeStep ==
    ASSUME IInv, NEW p \in Phones,
           \/ Expire \/ GraceEnds \/ GuestEnds(p) \/ Disappear(p) \/ Return(p)
           \/ PresenceLapses(p) \/ ReadyLapses(p)
           \/ LeaseEnds(p) \/ Drifts(p) \/ StopsUnnoticed(p)
    PROVE  Carries
<1> USE DEF Carries, IInv, Shape
<1>1. CASE Expire
  BY <1>1, EndedMoves DEF Expire, PutAway, NoAnswers
<1>2. CASE GraceEnds
  <2>1. Moves(room, [room EXCEPT !.lost = "OVER"])
    BY SMT DEF Moves, IsRoom, RoomFields, Agrees, PlaybackAgrees
  <2> QED BY <1>2, <2>1 DEF GraceEnds
<1>3. CASE GuestEnds(p) \/ Return(p) \/ PresenceLapses(p) \/ ReadyLapses(p)
  BY <1>3 DEF GuestEnds, Return, PresenceLapses, ReadyLapses, service
<1>4. CASE Disappear(p)
  BY <1>4 DEF Disappear, service
<1>5. CASE LeaseEnds(p) \/ Drifts(p)
  <2>1. phone' = [phone EXCEPT ![p].audio = 0, ![p].degraded = TRUE]
    BY <1>5 DEF LeaseEnds, Drifts, StopsItself
  <2>2. /\ DOMAIN phone' = Phones
        /\ \A q \in Phones : "view" \in DOMAIN phone'[q] /\ phone'[q].view = phone[q].view
    BY <2>1, SMT
  <2> QED BY <1>5, <2>2 DEF LeaseEnds, Drifts, StopsItself, service
<1>6. CASE StopsUnnoticed(p)
  <2>1. phone' = [phone EXCEPT ![p] = Paused(phone[p])]
    BY <1>6 DEF StopsUnnoticed
  <2>2. /\ DOMAIN phone' = Phones
        /\ \A q \in Phones : "view" \in DOMAIN phone'[q] /\ phone'[q].view = phone[q].view
    BY <2>1, PausedViews
  <2> QED BY <1>6, <2>2 DEF StopsUnnoticed, service
<1> QED BY <1>1, <1>2, <1>3, <1>4, <1>5, <1>6

(***************************************************************************)
(* The theorems.                                                           *)
(***************************************************************************)
LEMMA InitIInv == Init => IInv
<1> SUFFICES ASSUME Init PROVE IInv
  OBVIOUS
<1>1. /\ DOMAIN room = RoomFields /\ room.seq = Queued /\ room.epoch = 1
      /\ room.playback = "IDLE" /\ room.command.kind = "NONE"
  BY SMT DEF Init, Created, RoomFields, NoCommand
<1>2. IsRoom(room) /\ PlaybackAgrees
  BY <1>1, WaveAssumption, SMT DEF IsRoom, PlaybackAgrees
<1>3. /\ DOMAIN phone = Phones /\ DOMAIN answers = Phones /\ asks = {}
      /\ \A p \in Phones : answers[p] = {}
  BY DEF Init
<1>4. ASSUME NEW p \in Phones
      PROVE  "view" \in DOMAIN phone[p] /\ KnownBy(room, phone[p].view)
  <2>1. CASE p = Creator
    <3>1. phone[p] = [Out EXCEPT !.in = TRUE, !.view = View(Created),
                                 !.isHost = TRUE, !.entry = 1]
      BY <2>1 DEF Init
    <3>2. "view" \in DOMAIN Out
      BY DEF Out
    <3>3. "view" \in DOMAIN phone[p] /\ phone[p].view = View(Created)
      BY <3>1, <3>2, SMT
    <3> QED BY <1>2, <3>3, ViewIsKnown DEF Init
  <2>2. CASE p # Creator
    <3>1. phone[p] = Out
      BY <2>2 DEF Init
    <3> QED BY <1>2, <3>1, NoViewIsKnown DEF Out
  <2> QED BY <2>1, <2>2
<1> QED BY <1>2, <1>3, <1>4 DEF IInv, Shape, SeqStandsForEpoch

LEMMA NextKeepsIInv == IInv /\ [Next]_vars => IInv'
<1> SUFFICES ASSUME IInv, [Next]_vars PROVE IInv'
  OBVIOUS
<1>1. CASE Next
  <2>1. \A p \in Devices : p \in Phones
    BY DEF Phones
  <2>2. \A g \in Guests : g \in Phones
    BY DEF Phones
  <2>3. ASSUME NEW p \in Devices,
               \/ Poll(p) \/ Forbidden(p) \/ Unauthorised(p) \/ Join(p) \/ Close(p)
               \/ \E heard \in BOOLEAN : Answer(p, heard)
        PROVE  Carries
    BY <2>1, <2>3, PollStep, LeavingStep
  <2>4. ASSUME NEW p \in Devices, NEW kind, HostAsks(p, kind)
        PROVE  Carries
    BY <2>1, <2>4, AskStep
  <2>5. ASSUME NEW p \in Devices, NEW left \in BOOLEAN, Leave(p, left)
        PROVE  Carries
    BY <2>1, <2>5, LeavingStep
  <2>6. ASSUME NEW g \in Guests, GuestPoll(g) \/ Redeem(g) \/ GuestEnds(g)
        PROVE  Carries
    BY <2>2, <2>6, PollStep, TimeStep
  <2>7. ASSUME NEW g \in Guests, NEW heard \in BOOLEAN, GuestLeave(g, heard)
        PROVE  Carries
    BY <2>2, <2>7, LeavingStep
  <2>8. ASSUME NEW p \in Phones,
               Gone(p) \/ Disappear(p) \/ Return(p) \/ PresenceLapses(p) \/ ReadyLapses(p)
               \/ LeaseEnds(p) \/ Drifts(p) \/ StopsUnnoticed(p)
        PROVE  Carries
    BY <2>8, LeavingStep, TimeStep
  <2>9. ASSUME NEW p \in Phones, Apply(p)
        PROVE  Carries
    BY <2>9, ApplyStep DEF Apply
  <2>10. ASSUME NEW p \in Phones, NEW s \in answers[p], NEW trouble, Follow(p, s, trouble)
         PROVE  Carries
    BY <2>10, ApplyStep
  <2>11. ASSUME Expire \/ GraceEnds
         PROVE  Carries
    BY <2>1, <2>11, WaveAssumption, TimeStep
  <2>12. Carries
    BY <1>1, <2>3, <2>4, <2>5, <2>6, <2>7, <2>8, <2>9, <2>10, <2>11, HostStep DEF Next
  <2> QED BY <2>12, StepKeepsIInv
<1>2. CASE UNCHANGED vars
  BY <1>2 DEF vars, IInv, Shape, PlaybackAgrees, SeqStandsForEpoch
<1> QED BY <1>1, <1>2

\* The invariant that carries the others: the row and its newest command
\* agree, and no view or request has an epoch its sequence does not stand for.
THEOREM Invariance == Spec => []IInv
BY InitIInv, NextKeepsIInv, PTL DEF Spec

\* The row plays exactly when its newest playback command is a PLAY, and
\* only while it is open.
THEOREM PlaybackAgreement == Spec => []PlaybackAgrees
<1>1. IInv => PlaybackAgrees
  BY DEF IInv
<1> QED BY <1>1, Invariance, PTL

\* A request is taken out only by its delivery, or put away with the room.
LEMMA TakenByDelivery ==
    ASSUME IInv, Next, NEW a \in asks, a \notin asks', room'.state = "OPEN"
    PROVE  Deliver(a)
<1>1. /\ Ended("CLOSE", "CLOSED").state = "CLOSED"
      /\ Ended("EXPIRE", "EXPIRED").state = "EXPIRED"
  BY EndedMoves
<1>2. \A p \in Devices :
        /\ ~(Poll(p) \/ Forbidden(p) \/ Unauthorised(p) \/ Join(p))
        /\ \A heard : ~Answer(p, heard)
        /\ \A kind : ~HostAsks(p, kind)
        /\ \A t : ~Transfer(p, t)
  BY DEF Poll, Answer, Forbidden, Unauthorised, Join, HostAsks, Transfer, service
<1>3. \A p \in Devices : ~Close(p) /\ \A left : ~Leave(p, left)
  BY <1>1 DEF Close, Leave
<1>4. \A g \in Guests :
        /\ ~(GuestPoll(g) \/ Redeem(g) \/ GuestEnds(g))
        /\ \A heard : ~GuestLeave(g, heard)
  BY DEF GuestPoll, Redeem, GuestEnds, GuestLeave
<1>5. \A p \in Phones : \A s, trouble :
        ~(Discard(p, s) \/ Suspend(p, s) \/ Refused(p, s) \/ Follow(p, s, trouble))
  <2> TAKE p \in Phones
  <2> TAKE s, trouble
  <2>1. ~Discard(p, s) /\ ~Suspend(p, s)
    BY DEF Discard, Suspend
  <2>2. ~Refused(p, s)
    BY DEF Refused
  <2>3. ~Follow(p, s, trouble)
    BY Zenon DEF Follow
  <2> QED BY <2>1, <2>2, <2>3
<1>6. \A p \in Phones : ~Apply(p)
  BY <1>5 DEF Apply
<1>7. \A p \in Phones :
        ~(Gone(p) \/ Disappear(p) \/ Return(p) \/ PresenceLapses(p) \/ ReadyLapses(p)
          \/ LeaseEnds(p) \/ Drifts(p) \/ StopsUnnoticed(p))
  BY DEF Gone, Disappear, Return, PresenceLapses, ReadyLapses, LeaseEnds, Drifts,
         StopsItself, StopsUnnoticed, service
<1>8. ~Expire /\ ~GraceEnds
  BY <1>1 DEF Expire, GraceEnds
<1>9. PICK b \in asks : Deliver(b)
  BY <1>2, <1>3, <1>4, <1>5, <1>6, <1>7, <1>8 DEF Next
<1>10. b = a
  BY <1>9 DEF Deliver
<1> QED BY <1>9, <1>10

\* A host's request that changes the room was made in the room's present
\* epoch, although only its sequence and queue version are compared: a change
\* of host always moves the sequence.
THEOREM HostRequestsAreCurrent == Spec => HostActsOnWhatItSaw
<1>1. ASSUME IInv, [Next]_vars, NEW a \in asks \ asks',
             room' # room, room'.state = "OPEN"
      PROVE  a.epoch = room.epoch
  <2>1. Next
    BY <1>1 DEF vars
  <2>2. Deliver(a)
    BY <1>1, <2>1, TakenByDelivery
  <2>3. a.seq = room.seq
    BY <1>1, <2>2 DEF Deliver, Obeyed
  <2>4. KnownBy(room, a)
    BY <1>1 DEF IInv, SeqStandsForEpoch
  <2> QED BY <2>3, <2>4 DEF KnownBy
<1>2. IInv /\ [Next]_vars =>
        [\A a \in asks \ asks' : room' # room /\ room'.state = "OPEN" =>
            a.epoch = room.epoch]_vars
  BY <1>1
<1> QED BY <1>2, Invariance, PTL DEF Spec, HostActsOnWhatItSaw

(***************************************************************************)
(* The types.  A room has at least one entry, so whatever is taken for the *)
(* present entry is one; a host's phone has a view, and so do its requests.*)
(***************************************************************************)
Views == {s \in Snapshot : s.version >= 2}
RoomFit(r) == r \in Room /\ r.version >= 2 /\ r.command.entry <= Length(r)
PhoneFit(ph) == /\ ph \in Phone /\ ph.view \in Views \cup {NoView}
                /\ ph.isHost => ph.view \in Views
AskFit(a) == /\ a \in Ask /\ a.version >= 2
             /\ a.kind = "START" => a.entry \in 1..(a.version - 1)

Types ==
    /\ RoomFit(room)
    /\ seat \in [Phones -> Seat]
    /\ arrivals \in Seq(Devices) /\ report \in [Phones -> Report]
    /\ phone \in [Phones -> Phone] /\ \A p \in Phones : PhoneFit(phone[p])
    /\ polling \subseteq Devices
    /\ answers \in [Phones -> SUBSET Views] /\ \A a \in asks : AskFit(a)
    /\ away \subseteq Phones /\ faults \in 0..MaxFaults

LEMMA Bounds == /\ MaxEntries \in Nat /\ 1 \in Entries /\ Entries \subseteq Nat
                /\ MaxFaults \in Nat
<1>1. MaxEntries \in Nat /\ MaxFaults \in Nat /\ Queued \in 1..MaxEntries
  BY WaveAssumption
<1> QED BY <1>1, SMT DEF Entries

(* What an update of a record leaves a record of its kind. *)
AppendedAs(r, n, c) == [r EXCEPT !.seq = n, !.command = c]

LEMMA RoomAppended ==
    ASSUME NEW r \in Room, NEW n \in Nat, NEW c \in Command
    PROVE  /\ AppendedAs(r, n, c) \in Room
           /\ AppendedAs(r, n, c).version = r.version
           /\ AppendedAs(r, n, c).command = c
           /\ AppendedAs(r, n, c).host = r.host
           /\ AppendedAs(r, n, c).epoch = r.epoch
           /\ AppendedAs(r, n, c).state = r.state
<1> DEFINE x == [r EXCEPT !.seq = n, !.command = c]
<1>1. x \in Room
  BY Zenon DEF Room
<1>2. x.version = r.version /\ x.command = c /\ x.host = r.host /\ x.epoch = r.epoch /\ x.state = r.state
  BY Zenon DEF Room
<1> QED BY <1>1, <1>2 DEF AppendedAs

HandedOverAs(r, d, n) == [r EXCEPT !.host = d, !.epoch = n, !.lost = "NO", !.state = "OPEN"]

LEMMA RoomHandedOver ==
    ASSUME NEW r \in Room, NEW d \in Devices, NEW n \in Nat \ {0}
    PROVE  /\ HandedOverAs(r, d, n) \in Room
           /\ HandedOverAs(r, d, n).version = r.version
           /\ HandedOverAs(r, d, n).command = r.command
           /\ HandedOverAs(r, d, n).state = "OPEN"
<1> DEFINE x == [r EXCEPT !.host = d, !.epoch = n, !.lost = "NO", !.state = "OPEN"]
<1>1. x \in Room
  BY Zenon DEF Room
<1>2. x.version = r.version /\ x.command = r.command /\ x.state = "OPEN"
  BY Zenon DEF Room
<1> QED BY <1>1, <1>2 DEF HandedOverAs

LostAs(r, l) == [r EXCEPT !.lost = l]

LEMMA RoomLost ==
    ASSUME NEW r \in Room, NEW l \in {"NO", "GRACE", "OVER"}
    PROVE  /\ LostAs(r, l) \in Room
           /\ LostAs(r, l).version = r.version
           /\ LostAs(r, l).command = r.command
           /\ LostAs(r, l).state = r.state
<1> DEFINE x == [r EXCEPT !.lost = l]
<1>1. x \in Room
  BY Zenon DEF Room
<1>2. x.version = r.version /\ x.command = r.command /\ x.state = r.state
  BY Zenon DEF Room
<1> QED BY <1>1, <1>2 DEF LostAs

PlayingAs(r, p) == [r EXCEPT !.playback = p]

LEMMA RoomPlays ==
    ASSUME NEW r \in Room, NEW p \in {"IDLE", "PLAYING", "PAUSED"}
    PROVE  /\ PlayingAs(r, p) \in Room
           /\ PlayingAs(r, p).version = r.version
           /\ PlayingAs(r, p).command = r.command
<1> DEFINE x == [r EXCEPT !.playback = p]
<1>1. x \in Room
  BY Zenon DEF Room
<1>2. x.version = r.version /\ x.command = r.command
  BY Zenon DEF Room
<1> QED BY <1>1, <1>2 DEF PlayingAs

EndedAs(r, o) == [r EXCEPT !.state = o, !.playback = "PAUSED"]

LEMMA RoomEnded ==
    ASSUME NEW r \in Room, NEW o \in {"OPEN", "ORPHANED", "CLOSED", "EXPIRED"}
    PROVE  /\ EndedAs(r, o) \in Room
           /\ EndedAs(r, o).version = r.version
           /\ EndedAs(r, o).command = r.command
           /\ EndedAs(r, o).state = o
<1> DEFINE x == [r EXCEPT !.state = o, !.playback = "PAUSED"]
<1>1. x \in Room
  BY Zenon DEF Room
<1>2. x.version = r.version /\ x.command = r.command /\ x.state = o
  BY Zenon DEF Room
<1> QED BY <1>1, <1>2 DEF EndedAs

QueuedAs(r, v) == [r EXCEPT !.version = v]

LEMMA RoomQueued ==
    ASSUME NEW r \in Room, NEW v \in 1..(MaxEntries + 1)
    PROVE  /\ QueuedAs(r, v) \in Room
           /\ QueuedAs(r, v).version = v
           /\ QueuedAs(r, v).command = r.command
<1> DEFINE x == [r EXCEPT !.version = v]
<1>1. x \in Room
  BY Zenon DEF Room
<1>2. x.version = v /\ x.command = r.command
  BY Zenon DEF Room
<1> QED BY <1>1, <1>2 DEF QueuedAs

PreparedAs(h, v, e, b) == [h EXCEPT !.view = v, !.prepared = e, !.strayed = b]

LEMMA PhonePrepared ==
    ASSUME NEW h \in Phone, NEW v \in Snapshot, NEW e \in Entries \cup {NoEntry},
           NEW b \in BOOLEAN
    PROVE  /\ PreparedAs(h, v, e, b) \in Phone
           /\ PreparedAs(h, v, e, b).view = v
           /\ PreparedAs(h, v, e, b).isHost = h.isHost
           /\ PreparedAs(h, v, e, b).in = h.in
           /\ PreparedAs(h, v, e, b).strayed = b
<1> DEFINE x == [h EXCEPT !.view = v, !.prepared = e, !.strayed = b]
<1>1. x \in Phone
  BY Zenon DEF Phone
<1>2. x.view = v /\ x.isHost = h.isHost /\ x.in = h.in /\ x.strayed = b
  BY Zenon DEF Phone
<1> QED BY <1>1, <1>2 DEF PreparedAs

SuspendedAs(h, v, b) ==
    [h EXCEPT !.view = v, !.audio = 0, !.applied = 0, !.degraded = FALSE, !.muted = FALSE,
              !.strayed = b]

LEMMA PhoneSuspended ==
    ASSUME NEW h \in Phone, NEW v \in Snapshot, NEW b \in BOOLEAN
    PROVE  /\ SuspendedAs(h, v, b) \in Phone /\ SuspendedAs(h, v, b).view = v
           /\ SuspendedAs(h, v, b).isHost = h.isHost /\ SuspendedAs(h, v, b).in = h.in
           /\ SuspendedAs(h, v, b).strayed = b
<1> DEFINE x == [h EXCEPT !.view = v, !.audio = 0, !.applied = 0, !.degraded = FALSE,
                          !.muted = FALSE, !.strayed = b]
<1>1. 0 \in Nat /\ FALSE \in BOOLEAN
  BY SMT
<1>2. x \in Phone
  BY <1>1, Zenon DEF Phone
<1>3. x.view = v /\ x.isHost = h.isHost /\ x.in = h.in /\ x.strayed = b
  BY Zenon DEF Phone
<1> QED BY <1>2, <1>3 DEF SuspendedAs

PlayedAs(h, n, m) == [h EXCEPT !.audio = n, !.applied = m, !.degraded = FALSE, !.muted = FALSE]

LEMMA PhonePlays ==
    ASSUME NEW h \in Phone, NEW n \in Nat, NEW m \in Nat
    PROVE  /\ PlayedAs(h, n, m) \in Phone /\ PlayedAs(h, n, m).view = h.view
           /\ PlayedAs(h, n, m).isHost = h.isHost /\ PlayedAs(h, n, m).in = h.in
           /\ PlayedAs(h, n, m).strayed = h.strayed
<1> DEFINE x == [h EXCEPT !.audio = n, !.applied = m, !.degraded = FALSE, !.muted = FALSE]
<1>1. x \in Phone
  BY Zenon DEF Phone
<1>2. x.view = h.view /\ x.isHost = h.isHost /\ x.in = h.in /\ x.strayed = h.strayed
  BY Zenon DEF Phone
<1> QED BY <1>1, <1>2 DEF PlayedAs

StoppedAs(h, b) == [h EXCEPT !.audio = 0, !.degraded = b]

LEMMA PhoneStops ==
    ASSUME NEW h \in Phone, NEW b \in BOOLEAN
    PROVE  /\ StoppedAs(h, b) \in Phone /\ StoppedAs(h, b).view = h.view
           /\ StoppedAs(h, b).isHost = h.isHost /\ StoppedAs(h, b).in = h.in
           /\ StoppedAs(h, b).strayed = h.strayed
<1> DEFINE x == [h EXCEPT !.audio = 0, !.degraded = b]
<1>1. 0 \in Nat
  BY SMT
<1>2. x \in Phone
  BY <1>1, Zenon DEF Phone
<1>3. x.view = h.view /\ x.isHost = h.isHost /\ x.in = h.in /\ x.strayed = h.strayed
  BY Zenon DEF Phone
<1> QED BY <1>2, <1>3 DEF StoppedAs

LEMMA PhonePauses ==
    ASSUME NEW h \in Phone
    PROVE  /\ Paused(h) \in Phone /\ Paused(h).view = h.view
           /\ Paused(h).isHost = h.isHost /\ Paused(h).in = h.in
           /\ Paused(h).strayed = h.strayed
<1> DEFINE b == h.muted \/ h.audio # 0 \/ h.degraded
           x == [h EXCEPT !.audio = 0, !.degraded = FALSE, !.muted = b]
<1>1. 0 \in Nat /\ FALSE \in BOOLEAN
  BY SMT
<1>2. b \in BOOLEAN
  OBVIOUS
<1>3. Paused(h) = x
  BY Zenon DEF Paused
<1> HIDE DEF b
<1>4. x \in Phone
  BY <1>1, <1>2, Zenon DEF Phone
<1>5. x.view = h.view /\ x.isHost = h.isHost /\ x.in = h.in /\ x.strayed = h.strayed
  BY Zenon DEF Phone
<1> QED BY <1>3, <1>4, <1>5

FollowsAs(h, b, e) == [h EXCEPT !.in = TRUE, !.isHost = b, !.entry = e]

LEMMA PhoneFollows ==
    ASSUME NEW h \in Phone, NEW b \in BOOLEAN, NEW e \in Entries \cup {NoEntry}
    PROVE  /\ FollowsAs(h, b, e) \in Phone /\ FollowsAs(h, b, e).view = h.view
           /\ FollowsAs(h, b, e).isHost = b /\ FollowsAs(h, b, e).in
           /\ FollowsAs(h, b, e).strayed = h.strayed
<1> DEFINE x == [h EXCEPT !.in = TRUE, !.isHost = b, !.entry = e]
<1>1. x \in Phone
  BY Zenon DEF Phone
<1>2. x.view = h.view /\ x.isHost = b /\ x.in /\ x.strayed = h.strayed
  BY Zenon DEF Phone
<1> QED BY <1>1, <1>2 DEF FollowsAs

LEMMA SeatUpdates ==
    \A x \in Seat, h \in BOOLEAN :
        /\ [x EXCEPT !.here = h] \in Seat
        /\ \A st \in {"NONE", "JOINED", "LEFT", "ENDED"} :
              [x EXCEPT !.status = st, !.here = h] \in Seat
BY Zenon DEF Seat

\* A command replaces the intent by one whose entry the queue has.
LEMMA AppendFits ==
    ASSUME NEW r, RoomFit(r), NEW kind, NEW entry \in Entries \cup {NoEntry},
           entry <= Length(r)
    PROVE  /\ RoomFit(AppendCommand(r, kind, entry))
           /\ AppendCommand(r, kind, entry).version = r.version
           /\ AppendCommand(r, kind, entry).host = r.host
           /\ AppendCommand(r, kind, entry).epoch = r.epoch
<1> DEFINE c == IF kind \in PlaybackKinds
                THEN [seq |-> r.seq + 1, kind |-> kind, entry |-> entry] ELSE r.command
<1>1. AppendCommand(r, kind, entry) = [r EXCEPT !.seq = @ + 1, !.command = c]
  BY DEF AppendCommand
<1>2. r \in Room /\ r.version >= 2 /\ r.command.entry <= Length(r) /\ r.seq \in Nat
      /\ r.command \in Command
  BY DEF RoomFit, Room
<1>3. ASSUME kind \in PlaybackKinds
      PROVE  /\ [seq |-> r.seq + 1, kind |-> kind, entry |-> entry] \in Command
             /\ [seq |-> r.seq + 1, kind |-> kind, entry |-> entry].entry = entry
  BY <1>2, <1>3, SMT DEF Command
<1>4. c \in Command /\ c.entry <= Length(r)
  BY <1>2, <1>3
<1> HIDE DEF c
<1>5. r.seq + 1 \in Nat
  BY <1>2, SMT
<1> DEFINE x == AppendedAs(r, r.seq + 1, c)
<1>6. /\ x \in Room /\ x.version = r.version /\ x.command = c
      /\ x.host = r.host /\ x.epoch = r.epoch /\ x.state = r.state
  BY <1>2, <1>4, <1>5, RoomAppended
<1> HIDE DEF x
<1>7. x.version >= 2 /\ x.command.entry <= Length(x)
  BY <1>2, <1>4, <1>6 DEF Length
<1>8. AppendCommand(r, kind, entry) = x
  BY <1>1 DEF x, AppendedAs
<1> QED BY <1>6, <1>7, <1>8, Zenon DEF RoomFit

LEMMA HandOverFits ==
    ASSUME NEW r, RoomFit(r), NEW d \in Devices
    PROVE  RoomFit(HandOver(r, d)) /\ HandOver(r, d).state = "OPEN"
<1> DEFINE a == AppendCommand(r, "TRANSFER", NoEntry)
           x == HandedOverAs(a, d, a.epoch + 1)
<1>1. NoEntry \in Entries \cup {NoEntry} /\ NoEntry <= Length(r)
  BY SMT DEF NoEntry, Length, RoomFit, Room
<1>2. RoomFit(a)
  BY <1>1, AppendFits
<1>3. HandOver(r, d) = x
  BY DEF HandOver, HandedOverAs
<1> HIDE DEF a
<1>4. a \in Room /\ a.epoch + 1 \in Nat \ {0}
  BY <1>2, SMT DEF RoomFit, Room
<1>5. x \in Room /\ x.version = a.version /\ x.command = a.command /\ x.state = "OPEN"
  BY <1>4, RoomHandedOver
<1> HIDE DEF x
<1> QED BY <1>2, <1>3, <1>5 DEF RoomFit, Length

LEMMA EndedFits ==
    ASSUME RoomFit(room), NEW kind, NEW state \in {"ORPHANED", "CLOSED", "EXPIRED"}
    PROVE  RoomFit(Ended(kind, state)) /\ Ended(kind, state).state = state
<1> DEFINE a == AppendCommand(room, kind, NoEntry)
           x == EndedAs(a, state)
<1>1. NoEntry \in Entries \cup {NoEntry} /\ NoEntry <= Length(room)
  BY SMT DEF NoEntry, Length, RoomFit, Room
<1>2. RoomFit(a)
  BY <1>1, AppendFits
<1>3. Ended(kind, state) = x
  BY DEF Ended, EndedAs
<1> HIDE DEF a
<1>4. state \in {"OPEN", "ORPHANED", "CLOSED", "EXPIRED"} /\ a \in Room
  BY <1>2 DEF RoomFit
<1>5. x \in Room /\ x.version = a.version /\ x.command = a.command /\ x.state = state
  BY <1>4, RoomEnded
<1> HIDE DEF x
<1> QED BY <1>2, <1>3, <1>5 DEF RoomFit, Length

\* Looking after the host leaves a room that still has snapshots.
LEMMA RecoverFits ==
    ASSUME Types, Live, RecoverHost
    PROVE  RoomFit(room') /\ room'.state \in {"OPEN", "ORPHANED"}
<1>1. RoomFit(room) /\ room \in Room /\ room.host \in Devices
      /\ room.state \in {"OPEN", "ORPHANED"}
  BY DEF Types, RoomFit, Room, Live
<1>2. CASE room' = room
  BY <1>1, <1>2
<1>3. ASSUME NEW d \in Devices, room' = HandOver(room, d)
      PROVE  RoomFit(room') /\ room'.state \in {"OPEN", "ORPHANED"}
  BY <1>1, <1>3, HandOverFits
<1>4. CASE room' = [room EXCEPT !.lost = "GRACE"]
  <2> DEFINE x == LostAs(room, "GRACE")
  <2>1. x \in Room /\ x.version = room.version /\ x.command = room.command
        /\ x.state = room.state
    BY <1>1, RoomLost
  <2> HIDE DEF x
  <2>2. room' = x
    BY <1>4 DEF x, LostAs
  <2> QED BY <1>1, <2>1, <2>2 DEF RoomFit, Length
<1>5. CASE room' = Ended("PAUSE", "ORPHANED")
  BY <1>1, <1>5, EndedFits
<1>6. \A i \in Candidates : arrivals[i] \in Devices
  BY DEF Types, Candidates
<1> QED BY <1>1, <1>2, <1>3, <1>4, <1>5, <1>6 DEF RecoverHost

LEMMA CurrentFits ==
    ASSUME RoomFit(room)
    PROVE  /\ Current \in Entries /\ Current <= Length(room)
           /\ HasNext => Current + 1 \in Entries /\ Current + 1 <= Length(room)
<1>1. room.version \in 2..(MaxEntries + 1) /\ MaxEntries \in Nat
  BY Bounds, SMT DEF RoomFit, Room
<1>2. Current \in 1..Length(room)
  BY <1>1, SMT DEF Current, Length
<1> QED BY <1>1, <1>2, SMT DEF Entries, Length, HasNext

\* A request is for an entry the queue has; a skip needs a next one.
LEMMA ObeyFits ==
    ASSUME Types, NEW a \in asks, Obeyed(a), Possible(a)
    PROVE  RoomFit(Obey(a))
<1>1. RoomFit(room) /\ room \in Room /\ a \in Ask /\ a.version = room.version
      /\ (a.kind = "START" => a.entry \in 1..(a.version - 1))
  BY DEF Types, RoomFit, AskFit, Obeyed
<1>2. ASSUME NEW kind, NEW entry \in Entries \cup {NoEntry}, entry <= Length(room),
             NEW p \in {"PAUSED", "PLAYING"},
             Obey(a) = [AppendCommand(room, kind, entry) EXCEPT !.playback = p]
      PROVE  RoomFit(Obey(a))
  <2> DEFINE b == AppendCommand(room, kind, entry)
             x == PlayingAs(b, p)
  <2>1. RoomFit(b)
    BY <1>1, <1>2, AppendFits
  <2> HIDE DEF b
  <2>2. x \in Room /\ x.version = b.version /\ x.command = b.command
    BY <2>1, RoomPlays DEF RoomFit
  <2> HIDE DEF x
  <2>3. RoomFit(x)
    BY <2>1, <2>2 DEF RoomFit, Length
  <2> QED BY <1>2, <2>3 DEF x, b, PlayingAs
<1>3. CASE a.kind = "QUEUE"
  <2> DEFINE b == AppendCommand(room, "QUEUE", NoEntry)
             x == QueuedAs(b, b.version + 1)
  <2>1. NoEntry \in Entries \cup {NoEntry} /\ NoEntry <= Length(room)
    BY <1>1, SMT DEF NoEntry, Length, RoomFit, Room
  <2>2. RoomFit(b) /\ b.version = room.version
    BY <1>1, <2>1, AppendFits
  <2>3. Length(room) < MaxEntries
    BY <1>3 DEF Possible
  <2> HIDE DEF b
  <2>4. b.version + 1 \in 1..(MaxEntries + 1)
    BY <2>2, <2>3, Bounds, SMT DEF RoomFit, Room, Length
  <2>5. x \in Room /\ x.version = b.version + 1 /\ x.command = b.command
    BY <2>2, <2>4, RoomQueued DEF RoomFit
  <2> HIDE DEF x
  <2>6. b.command.entry \in Nat
    <3>1. b.command \in Command
      BY <2>2 DEF RoomFit, Room
    <3>2. Entries \cup {NoEntry} \subseteq Nat
      BY Bounds, SMT DEF NoEntry
    <3> QED BY <3>1, <3>2 DEF Command
  <2>7. RoomFit(x)
    <3>1. b.version \in Nat /\ b.version >= 2 /\ b.command.entry <= b.version - 1
      BY <2>2, Bounds, SMT DEF RoomFit, Room, Length
    <3>2. x.version >= 2 /\ x.command.entry <= x.version - 1
      BY <2>5, <2>6, <3>1, SMT
    <3> QED BY <2>5, <3>2 DEF RoomFit, Length
  <2>8. Obey(a) = x
    BY <1>3 DEF Obey, x, b, QueuedAs
  <2> QED BY <2>7, <2>8
<1>4. CASE a.kind = "PAUSE"
  <2>1. Obey(a) = [AppendCommand(room, "PAUSE", Current) EXCEPT !.playback = "PAUSED"]
    BY <1>4 DEF Obey
  <2> QED BY <1>1, <1>2, <2>1, CurrentFits
<1>5. CASE a.kind = "SKIP"
  <2>1. Obey(a) = [AppendCommand(room, "SKIP", Current + 1) EXCEPT !.playback = "PAUSED"]
    BY <1>5 DEF Obey
  <2>2. Current + 1 \in Entries /\ Current + 1 <= Length(room)
    BY <1>1, <1>5, CurrentFits DEF Possible
  <2> QED BY <1>2, <2>1, <2>2
<1>6. CASE a.kind = "START"
  <2>1. a.entry \in Entries /\ a.entry <= Length(room)
    BY <1>1, <1>6, Bounds, SMT DEF Entries, Length, Room
  <2>2. \/ Obey(a) = [AppendCommand(room, "PLAY", a.entry) EXCEPT !.playback = "PLAYING"]
        \/ Obey(a) = [AppendCommand(room, "START_ABORTED", a.entry) EXCEPT !.playback = "PAUSED"]
    BY <1>6 DEF Obey
  <2> QED BY <1>2, <2>1, <2>2
<1> QED BY <1>1, <1>3, <1>4, <1>5, <1>6 DEF Ask, Requests

LEMMA ViewFits ==
    ASSUME NEW r, RoomFit(r), r.state \in {"OPEN", "ORPHANED"}
    PROVE  View(r) \in Views
<1>1. View(r) \in Snapshot
  BY Zenon DEF RoomFit, Room, Snapshot, View
<1>2. View(r).version = r.version
  BY Zenon DEF View
<1> QED BY <1>1, <1>2 DEF Views, RoomFit

LEMMA OutFits == PhoneFit(Out) /\ Out.in = FALSE /\ Out.view = NoView
<1>1. 0 \in Nat /\ NoEntry \in Entries \cup {NoEntry} /\ NoView \in Snapshot \cup {NoView}
  BY SMT
<1>2. Out \in Phone
  BY <1>1, Zenon DEF Out, Phone
<1>3. Out.view = NoView /\ Out.isHost = FALSE /\ Out.in = FALSE
  BY Zenon DEF Out
<1> QED BY <1>2, <1>3 DEF PhoneFit

LEMMA NoReportFits == NoReport \in Report /\ NotReady \in [Entries -> 0..(MaxEntries + 1)]
<1>1. 0 \in 0..(MaxEntries + 1) /\ 0 \in Nat
  BY Bounds, SMT
<1>2. NotReady \in [Entries -> 0..(MaxEntries + 1)]
  BY <1>1 DEF NotReady
<1> QED BY <1>1, <1>2, Zenon DEF NoReport, Report

LEMMA SelectedFits ==
    ASSUME NEW s \in Views
    PROVE  Selected(s) \in Entries
<1>1. s.version \in 2..(MaxEntries + 1)
  BY Bounds, SMT DEF Views, Snapshot
<1> QED BY <1>1, Bounds, SMT DEF Selected, Length, Entries

\* The phone takes over the snapshot; whether it is host it learns later.
LEMMA PreparedFits ==
    ASSUME NEW p, PhoneFit(phone[p]), NEW s \in Views, NEW sourced
    PROVE  LET x == Prepared(p, s, sourced) IN
           /\ PhoneFit(x) /\ x.view = s
           /\ x.in <=> phone[p].in
           /\ x.strayed <=> Strays(p, s)
<1> DEFINE e == IF sourced THEN Selected(s) ELSE phone[p].prepared
           b == Strays(p, s)
           h == IF e = phone[p].prepared THEN phone[p] ELSE Paused(phone[p])
           x == PreparedAs(h, s, e, b)
<1>1. Prepared(p, s, sourced) = x
  BY Zenon DEF Prepared, PreparedAs
<1>2. phone[p] \in Phone /\ s \in Snapshot
  BY DEF PhoneFit, Views
<1>3. e \in Entries \cup {NoEntry}
  BY <1>2, SelectedFits DEF Phone
<1>4. /\ h \in Phone /\ h.isHost = phone[p].isHost /\ h.in = phone[p].in
  BY <1>2, PhonePauses
<1>5. b \in BOOLEAN
  BY DEF Strays
<1> HIDE DEF e, b, h
<1>6. /\ x \in Phone /\ x.view = s
      /\ x.isHost = phone[p].isHost /\ x.in = phone[p].in /\ x.strayed = b
  BY <1>2, <1>3, <1>4, <1>5, PhonePrepared
<1> HIDE DEF x
<1>7. PhoneFit(x)
  BY <1>6 DEF PhoneFit
<1> QED BY <1>1, <1>6, <1>7 DEF b

\* The player touches neither the view nor the standing of the phone.
LEMMA PlayedFits ==
    ASSUME NEW ph, PhoneFit(ph), NEW c \in Command, NEW trouble
    PROVE  LET x == Played(ph, c, trouble) IN
           /\ PhoneFit(x) /\ x.view = ph.view /\ x.in = ph.in
           /\ x.isHost = ph.isHost /\ x.strayed = ph.strayed
<1>1. ph \in Phone /\ c.seq \in Nat /\ 0 \in Nat
  BY SMT DEF PhoneFit, Command
<1>2. ASSUME NEW n \in Nat, NEW m \in Nat
      PROVE  /\ PhoneFit(PlayedAs(ph, n, m)) /\ PlayedAs(ph, n, m).view = ph.view
             /\ PlayedAs(ph, n, m).in = ph.in /\ PlayedAs(ph, n, m).isHost = ph.isHost
             /\ PlayedAs(ph, n, m).strayed = ph.strayed
  <2> DEFINE y == PlayedAs(ph, n, m)
  <2>1. /\ y \in Phone /\ y.view = ph.view /\ y.isHost = ph.isHost /\ y.in = ph.in
        /\ y.strayed = ph.strayed
    BY <1>1, PhonePlays
  <2> HIDE DEF y
  <2>2. PhoneFit(y)
    BY <2>1 DEF PhoneFit
  <2> QED BY <2>1, <2>2 DEF y
<1>3. \/ Played(ph, c, trouble) = ph
      \/ Played(ph, c, trouble) = PlayedAs(ph, 0, 0)
      \/ Played(ph, c, trouble) = PlayedAs(ph, 0, c.seq)
      \/ Played(ph, c, trouble) = PlayedAs(ph, c.seq, c.seq)
  <2>1. /\ Silenced(ph, 0) = PlayedAs(ph, 0, 0)
        /\ Silenced(ph, c.seq) = PlayedAs(ph, 0, c.seq)
    BY DEF Silenced, PlayedAs
  <2>2. \/ Played(ph, c, trouble) = ph
        \/ Played(ph, c, trouble) = Silenced(ph, 0)
        \/ Played(ph, c, trouble) = Silenced(ph, c.seq)
        \/ Played(ph, c, trouble) = PlayedAs(ph, c.seq, c.seq)
    BY SMT DEF Played, PlayedAs
  <2> QED BY <2>1, <2>2
<1> QED BY <1>1, <1>2, <1>3

(***************************************************************************)
(* The types, step by step.                                                *)
(***************************************************************************)
LEMMA PhonePut ==
    ASSUME Types, NEW p \in Phones, NEW h, PhoneFit(h), phone' = [phone EXCEPT ![p] = h]
    PROVE  phone' \in [Phones -> Phone] /\ \A q \in Phones : PhoneFit(phone'[q])
BY DEF Types, PhoneFit

LEMMA MarkedFits ==
    ASSUME Types, NEW p
    PROVE  MarkedHere(p) \in [Phones -> Seat]
<1>1. \A x \in Seat : [x EXCEPT !.here = TRUE] \in Seat
  BY SeatUpdates
<1>2. MarkedHere(p) = [seat EXCEPT ![p] = [seat[p] EXCEPT !.here = TRUE]]
  BY DEF MarkedHere
<1> QED BY <1>1, <1>2 DEF Types

LEMMA UnseatedFits ==
    ASSUME Types, NEW p, NEW st \in {"LEFT", "ENDED"}
    PROVE  [seat EXCEPT ![p].status = st, ![p].here = FALSE] \in [Phones -> Seat]
<1>1. \A x \in Seat : [x EXCEPT !.status = st, !.here = FALSE] \in Seat
  BY SeatUpdates
<1>2. [seat EXCEPT ![p].status = st, ![p].here = FALSE] =
        [seat EXCEPT ![p] = [seat[p] EXCEPT !.status = st, !.here = FALSE]]
  BY DEF Types
<1> QED BY <1>1, <1>2 DEF Types

LEMMA GuestsOutFits ==
    ASSUME NEW s \in [Phones -> Seat]
    PROVE  GuestsOut(s) \in [Phones -> Seat]
<1>1. \A x \in Seat : [x EXCEPT !.status = "ENDED", !.here = FALSE] \in Seat
  BY SeatUpdates
<1> QED BY <1>1 DEF GuestsOut

LEMMA PollTypes ==
    ASSUME Types, NEW p \in Phones,
           \/ p \in Devices /\ (Poll(p) \/ Join(p))
           \/ \E heard \in BOOLEAN : Answer(p, heard)
           \/ GuestPoll(p) \/ Redeem(p)
    PROVE  Types'
<1> USE DEF Types
<1>1. CASE Poll(p) /\ p \in Devices
  BY <1>1, MarkedFits DEF Poll
<1>2. ASSUME NEW heard \in BOOLEAN, Answer(p, heard) PROVE Types'
  <2>1. RoomFit(room') /\ (Live => room'.state \in {"OPEN", "ORPHANED"})
    BY <1>2, RecoverFits DEF Answer
  <2>2. Live => View(room') \in Views
    BY <2>1, ViewFits
  <2>3. answers' \in [Phones -> SUBSET Views]
    BY <1>2, <2>2 DEF Answer
  <2>4. seat' \in [Phones -> Seat]
    BY <1>2, MarkedFits DEF Answer
  <2>5. polling' \subseteq Devices
    BY <1>2 DEF Answer
  <2>6. UNCHANGED <<arrivals, report, phone, asks, away, faults>>
    BY <1>2, Zenon DEF Answer
  <2> QED BY <2>1, <2>3, <2>4, <2>5, <2>6
<1>3. CASE GuestPoll(p)
  <2>1. View(room) \in Views
    BY <1>3, ViewFits DEF GuestPoll, Admitted
  <2> QED BY <1>3, <2>1, MarkedFits DEF GuestPoll
<1>4. CASE Join(p) /\ p \in Devices
  <2>1. View(room) \in Views
    BY <1>4, ViewFits DEF Join
  <2>2. seat' \in [Phones -> Seat]
    <3>1. \A x \in Seat : [x EXCEPT !.status = "JOINED", !.here = TRUE] \in Seat
      BY SeatUpdates
    <3>2. seat' = [seat EXCEPT ![p] = [seat[p] EXCEPT !.status = "JOINED", !.here = TRUE]]
      BY <1>4 DEF Join
    <3> QED BY <3>1, <3>2
  <2>3. arrivals' \in Seq(Devices)
    BY <1>4 DEF Join
  <2>4. answers' \in [Phones -> SUBSET Views]
    BY <1>4, <2>1 DEF Join
  <2>5. UNCHANGED <<room, report, phone, polling, asks, away, faults>>
    BY <1>4, Zenon DEF Join
  <2> QED BY <2>2, <2>3, <2>4, <2>5
<1>5. CASE Redeem(p)
  <2>1. View(room) \in Views
    BY <1>5, ViewFits DEF Redeem
  <2>2. [status |-> "JOINED", here |-> TRUE, epoch |-> room.epoch] \in Seat
    BY Zenon DEF Seat, RoomFit, Room
  <2> QED BY <1>5, <2>1, <2>2 DEF Redeem
<1> QED BY <1>1, <1>2, <1>3, <1>4, <1>5

\* What is put away with a room is put away for every phone.
LEMMA PutAwayTypes ==
    ASSUME NEW s \in [Phones -> Seat], PutAway(s)
    PROVE  /\ seat' \in [Phones -> Seat] /\ report' \in [Phones -> Report]
           /\ asks' = {} /\ polling' = {}
BY GuestsOutFits, NoReportFits DEF PutAway

LEMMA FaultTypes == Types /\ Fault => faults' \in 0..MaxFaults
BY Bounds, SMT DEF Types, Fault

\* A snapshot on the phone.
LEMMA ApplyTypes ==
    ASSUME Types, NEW p \in Phones, NEW s \in answers[p], NEW trouble,
           Discard(p, s) \/ Suspend(p, s) \/ Refused(p, s) \/ Follow(p, s, trouble)
    PROVE  Types'
<1>1. s \in Views /\ s \in Snapshot /\ PhoneFit(phone[p]) /\ phone[p] \in Phone
  BY DEF Types, Views, PhoneFit
<1>2. [answers EXCEPT ![p] = @ \ {s}] \in [Phones -> SUBSET Views]
  BY DEF Types
<1>3. Strays(p, s) \in BOOLEAN
  BY DEF Strays
<1>4. CASE Discard(p, s)
  BY <1>2, <1>4 DEF Discard, Arrived, service, Types
<1>5. CASE Suspend(p, s)
  <2> DEFINE x == SuspendedAs(phone[p], s, Strays(p, s))
  <2>1. phone' = [phone EXCEPT ![p] = x]
    BY <1>5 DEF Suspend, SuspendedAs
  <2>2. /\ x \in Phone /\ x.view = s /\ x.isHost = phone[p].isHost
    BY <1>1, <1>3, PhoneSuspended
  <2> HIDE DEF x
  <2>3. PhoneFit(x)
    BY <1>1, <2>2 DEF PhoneFit
  <2>4. phone' \in [Phones -> Phone] /\ \A q \in Phones : PhoneFit(phone'[q])
    BY <2>1, <2>3, PhonePut
  <2> QED BY <1>2, <1>5, <2>4 DEF Suspend, Arrived, service, Types
<1>6. CASE Refused(p, s)
  <2>1. UNCHANGED <<room, seat, arrivals, report, polling, asks, away>>
    BY <1>6 DEF Refused, service
  <2>2. faults' \in 0..MaxFaults
    BY <1>6, FaultTypes DEF Refused, Types
  <2>3. CASE Dropped(p)
    <3>1. phone' \in [Phones -> Phone] /\ \A q \in Phones : PhoneFit(phone'[q])
      BY <2>3, OutFits, PhonePut DEF Dropped
    <3>2. answers' \in [Phones -> SUBSET Views]
      BY <2>3 DEF Dropped, Types
    <3> QED BY <2>1, <2>2, <3>1, <3>2 DEF Types
  <2>4. CASE ~Dropped(p)
    <3> DEFINE x == Prepared(p, s, TRUE)
               y == Paused(x)
    <3>1. PhoneFit(x) /\ x \in Phone
      BY <1>1, PreparedFits DEF PhoneFit
    <3>2. answers' = [answers EXCEPT ![p] = @ \ {s}]
      BY <1>6, <2>4 DEF Refused
    <3>3. phone' = [phone EXCEPT ![p] = x] \/ phone' = [phone EXCEPT ![p] = y]
      BY <1>6, <2>4 DEF Refused
    <3> HIDE DEF x
    <3>4. y \in Phone /\ y.view = x.view /\ y.isHost = x.isHost
      BY <3>1, PhonePauses
    <3> HIDE DEF y
    <3>5. PhoneFit(y)
      BY <3>1, <3>4 DEF PhoneFit
    <3>6. phone' \in [Phones -> Phone] /\ \A q \in Phones : PhoneFit(phone'[q])
      BY <3>1, <3>3, <3>5, PhonePut
    <3> QED BY <1>2, <2>1, <2>2, <3>2, <3>6 DEF Types
  <2> QED BY <2>3, <2>4
<1>7. CASE Follow(p, s, trouble)
  <2> DEFINE r == Prepared(p, s, trouble # "SOURCE")
             x == Played(r, s.command, trouble)
             h == (s.host = p)
             y == FollowsAs(x, h, Selected(s))
  <2>1. UNCHANGED <<room, arrivals, polling, asks, away>>
    BY <1>7, Zenon DEF Follow
  <2>2. faults' \in 0..MaxFaults
    BY <1>7, FaultTypes DEF Follow, Types
  <2>3. seat' \in [Phones -> Seat]
    BY <1>7, MarkedFits, Zenon DEF Follow
  <2>4. answers' \in [Phones -> SUBSET Views]
    BY <1>2, <1>7 DEF Follow, Arrived
  <2>5. s.command \in Command
    BY <1>1 DEF Snapshot
  <2>6. PhoneFit(r) /\ r.view = s
    BY <1>1, PreparedFits
  <2>7. phone' = [phone EXCEPT ![p] = IF trouble = "REJOIN" THEN Prepared(p, s, TRUE) ELSE y]
    BY <1>7 DEF Follow, FollowsAs
  <2> HIDE DEF r
  <2>8. PhoneFit(x) /\ x.view = s /\ x \in Phone
    BY <2>5, <2>6, PlayedFits DEF PhoneFit
  <2> HIDE DEF x
  <2>9. Selected(s) \in Entries \cup {NoEntry} /\ h \in BOOLEAN
    BY <1>1, SelectedFits
  <2> HIDE DEF h
  <2>10. y \in Phone /\ y.view = x.view /\ y.isHost = h
    BY <2>8, <2>9, PhoneFollows
  <2> HIDE DEF y
  <2>11. PhoneFit(y)
    BY <1>1, <2>8, <2>10 DEF PhoneFit
  <2>12. phone' \in [Phones -> Phone] /\ \A q \in Phones : PhoneFit(phone'[q])
    <3>1. PhoneFit(Prepared(p, s, TRUE))
      BY <1>1, PreparedFits
    <3> QED BY <2>7, <2>11, <3>1, PhonePut
  <2>13. report' \in [Phones -> Report]
    <3> DEFINE ready == [e \in Entries |->
                           CASE e = Selected(s) -> IF trouble = "SOURCE" THEN 0 ELSE s.version
                             [] e > Selected(s) -> 0
                             [] OTHER -> report[p].ready[e]]
               clock == IF trouble = "CLOCK" \/ report[p].clock > s.seq
                        THEN report[p].clock ELSE s.seq
    <3>1. report' = [report EXCEPT ![p] = [ready |-> ready, clock |-> clock]]
      BY <1>7 DEF Follow
    <3>2. /\ report[p] \in Report /\ s.seq \in Nat /\ s.version \in 0..(MaxEntries + 1)
          /\ Selected(s) \in Nat
      <4>1. report[p] \in Report
        BY DEF Types
      <4>2. s.seq \in Nat /\ s.version \in 0..(MaxEntries + 1)
        BY <1>1, Bounds, SMT DEF Snapshot
      <4>3. Selected(s) \in Nat
        BY <1>1, SelectedFits, Bounds
      <4> QED BY <4>1, <4>2, <4>3
    <3>3. /\ report[p].clock \in Nat /\ report[p].ready \in [Entries -> 0..(MaxEntries + 1)]
          /\ 0 \in 0..(MaxEntries + 1)
      BY <3>2, Bounds, SMT DEF Report
    <3>4. clock \in Nat
      BY <3>2, <3>3
    <3>5. ready \in [Entries -> 0..(MaxEntries + 1)]
      <4> SUFFICES ASSUME NEW e \in Entries PROVE ready[e] \in 0..(MaxEntries + 1)
        BY DEF ready
      <4> QED BY <3>2, <3>3, Bounds, SMT
    <3> HIDE DEF ready, clock
    <3>6. [ready |-> ready, clock |-> clock] \in Report
      BY <3>4, <3>5, Zenon DEF Report
    <3> QED BY <3>1, <3>6 DEF Types
  <2> QED BY <2>1, <2>2, <2>3, <2>4, <2>12, <2>13 DEF Types
<1> QED BY <1>4, <1>5, <1>6, <1>7

LEMMA LeavingTypes ==
    ASSUME Types, NEW p \in Phones, NEW b \in BOOLEAN,
           \/ Gone(p) \/ Forbidden(p) \/ Unauthorised(p)
           \/ Leave(p, b) \/ GuestLeave(p, b) \/ Close(p)
    PROVE  Types'
<1>1. RoomFit(room) /\ PhoneFit(phone[p]) /\ phone[p] \in Phone
  BY DEF Types, PhoneFit
<1>2. CASE Gone(p)
  <2>1. phone' \in [Phones -> Phone] /\ \A q \in Phones : PhoneFit(phone'[q])
    BY <1>2, OutFits, PhonePut DEF Gone, Dropped
  <2> QED BY <1>2, <2>1 DEF Gone, Dropped, service, Types
<1>3. CASE Forbidden(p) \/ Unauthorised(p)
  <2>1. phone' = [phone EXCEPT ![p] = Paused(phone[p])]
    BY <1>3 DEF Forbidden, Unauthorised
  <2>2. PhoneFit(Paused(phone[p]))
    BY <1>1, PhonePauses DEF PhoneFit
  <2>3. phone' \in [Phones -> Phone] /\ \A q \in Phones : PhoneFit(phone'[q])
    BY <2>1, <2>2, PhonePut
  <2>4. faults' \in 0..MaxFaults
    BY <1>3, FaultTypes DEF Forbidden, Unauthorised, Types
  <2> QED BY <1>3, <2>3, <2>4 DEF Forbidden, Unauthorised, service, Types
<1>4. CASE Leave(p, b)
  <2> DEFINE seats == [seat EXCEPT ![p].status = "LEFT", ![p].here = FALSE]
  <2>1. seats \in [Phones -> Seat]
    BY UnseatedFits
  <2>2. \/ room' = Ended("CLOSE", "CLOSED") /\ PutAway(seats)
        \/ /\ room' = AppendCommand(room, "LEAVE", NoEntry) /\ seat' = seats
           /\ UNCHANGED <<report, polling, asks>>
    BY <1>4 DEF Leave
  <2> HIDE DEF seats
  <2>3. NoEntry \in Entries \cup {NoEntry} /\ NoEntry <= Length(room)
    BY <1>1, SMT DEF NoEntry, Length, RoomFit, Room
  <2>4. RoomFit(room')
    BY <1>1, <2>2, <2>3, EndedFits, AppendFits
  <2>5. /\ seat' \in [Phones -> Seat] /\ report' \in [Phones -> Report]
        /\ polling' \subseteq Devices /\ asks' \subseteq asks
    BY <2>1, <2>2, PutAwayTypes DEF Types
  <2>6. phone' \in [Phones -> Phone] /\ \A q \in Phones : PhoneFit(phone'[q])
    <3>1. phone' = phone \/ phone' = [phone EXCEPT ![p] = Out]
      BY <1>4 DEF Leave
    <3> QED BY <3>1, OutFits, PhonePut DEF Types
  <2>7. answers' \in [Phones -> SUBSET Views]
    BY <1>4 DEF Leave, NoAnswers, Types
  <2>8. faults' \in 0..MaxFaults
    BY <1>4 DEF Leave, Types
  <2>9. UNCHANGED <<arrivals, away>>
    BY <1>4, Zenon DEF Leave
  <2> QED BY <2>4, <2>5, <2>6, <2>7, <2>8, <2>9 DEF Types
<1>5. CASE GuestLeave(p, b)
  <2>1. phone' \in [Phones -> Phone] /\ \A q \in Phones : PhoneFit(phone'[q])
    BY <1>5, OutFits, PhonePut DEF GuestLeave, Dropped
  <2>2. answers' \in [Phones -> SUBSET Views]
    BY <1>5 DEF GuestLeave, Dropped, Types
  <2>3. seat' \in [Phones -> Seat]
    BY <1>5, UnseatedFits DEF GuestLeave, Types
  <2>4. faults' \in 0..MaxFaults
    BY <1>5, FaultTypes DEF GuestLeave, Types
  <2>5. UNCHANGED <<room, arrivals, report, polling, asks, away>>
    BY <1>5, Zenon DEF GuestLeave
  <2> QED BY <2>1, <2>2, <2>3, <2>4, <2>5 DEF Types
<1>6. CASE Close(p)
  <2>1. RoomFit(room')
    BY <1>1, <1>6, EndedFits DEF Close
  <2>2. /\ seat' \in [Phones -> Seat] /\ report' \in [Phones -> Report]
        /\ asks' = {} /\ polling' = {}
    BY <1>6, MarkedFits, PutAwayTypes DEF Close
  <2>3. phone' \in [Phones -> Phone] /\ \A q \in Phones : PhoneFit(phone'[q])
    BY <1>6, OutFits, PhonePut DEF Close
  <2>4. answers' \in [Phones -> SUBSET Views]
    BY <1>6 DEF Close, NoAnswers
  <2> QED BY <1>6, <2>1, <2>2, <2>3, <2>4 DEF Close, Types
<1> QED BY <1>2, <1>3, <1>4, <1>5, <1>6

\* A host's phone has a view, so its request is for an entry of the queue.
LEMMA AskTypes ==
    ASSUME Types, NEW p \in Phones, NEW kind \in Requests,
           HostAsks(p, kind)
    PROVE  Types'
<1> DEFINE a == Request(p, kind)
<1>1. /\ PhoneFit(phone[p]) /\ phone[p] \in Phone /\ phone[p].view \in Views
      /\ phone[p].view \in Snapshot /\ p \in Devices /\ phone[p].isHost
  BY DEF Types, PhoneFit, HostAsks, Views
<1>2. phone[p].view.version \in 2..(MaxEntries + 1)
  BY <1>1, Bounds, SMT DEF Views, Snapshot
<1>3. phone[p].view.seq \in Nat /\ phone[p].view.epoch \in Nat
  BY <1>1, SMT DEF Snapshot
<1>4. /\ a.kind = kind /\ a.from = p /\ a.version = phone[p].view.version
      /\ a.entry = IF kind # "START" THEN NoEntry
                   ELSE IF phone[p].entry \in 1..Length(phone[p].view) THEN phone[p].entry
                   ELSE 1
  BY DEF Request
<1>5. a.entry \in Entries \cup {NoEntry}
  BY <1>1, <1>4, Bounds DEF Phone
<1>6. kind = "START" => a.entry \in 1..(a.version - 1)
  BY <1>2, <1>4, SMT DEF Length
<1>7. a \in Ask
  <2>1. PICK e \in Entries \cup {NoEntry} :
          a = [kind |-> kind, from |-> p, seq |-> phone[p].view.seq,
               version |-> phone[p].view.version, entry |-> e, epoch |-> phone[p].view.epoch]
    BY <1>4, <1>5 DEF Request
  <2>2. phone[p].view.version \in 1..(MaxEntries + 1)
    BY <1>2, Bounds, SMT
  <2>3. \A k \in Requests, f \in Devices, n \in Nat,
           v \in 1..(MaxEntries + 1), en \in Entries \cup {NoEntry}, ep \in Nat :
          [kind |-> k, from |-> f, seq |-> n, version |-> v, entry |-> en, epoch |-> ep] \in Ask
    BY Zenon DEF Ask
  <2> HIDE DEF a
  <2> QED BY <1>1, <1>3, <2>1, <2>2, <2>3
<1>8. AskFit(a)
  BY <1>2, <1>4, <1>6, <1>7, Bounds, SMT DEF AskFit
<1>9. asks' = asks \cup {a}
  BY DEF HostAsks
<1> HIDE DEF a
<1>10. report' \in [Phones -> Report]
  <2>1. \A x \in Report : \A n \in Nat : [x EXCEPT !.clock = n] \in Report
    BY Zenon DEF Report
  <2>2. report' = report
        \/ report' = [report EXCEPT ![p] = [report[p] EXCEPT !.clock = phone[p].view.seq]]
    BY DEF HostAsks
  <2> QED BY <1>3, <2>1, <2>2 DEF Types
<1>11. UNCHANGED <<room, seat, arrivals, phone, polling, answers, away, faults>>
  BY Zenon DEF HostAsks
<1> QED BY <1>8, <1>9, <1>10, <1>11 DEF Types

LEMMA HostTypes ==
    ASSUME Types, \/ \E a \in asks : Deliver(a)
                  \/ \E p \in Devices, t \in Devices : Transfer(p, t)
    PROVE  Types'
<1>1. ASSUME NEW a \in asks, Deliver(a) PROVE Types'
  BY <1>1, ObeyFits, MarkedFits DEF Deliver, Types
<1>2. ASSUME NEW p \in Devices, NEW t \in Devices, Transfer(p, t) PROVE Types'
  BY <1>2, HandOverFits, MarkedFits DEF Transfer, Types
<1> QED BY <1>1, <1>2

LEMMA TimeTypes ==
    ASSUME Types, NEW p \in Phones,
           \/ Expire \/ GraceEnds \/ GuestEnds(p) \/ Disappear(p) \/ Return(p)
           \/ PresenceLapses(p) \/ ReadyLapses(p)
           \/ LeaseEnds(p) \/ Drifts(p) \/ StopsUnnoticed(p)
    PROVE  Types'
<1>1. RoomFit(room) /\ PhoneFit(phone[p]) /\ phone[p] \in Phone
  BY DEF Types, PhoneFit
<1>2. CASE Expire
  <2>1. RoomFit(room')
    BY <1>1, <1>2, EndedFits DEF Expire
  <2>2. /\ seat' \in [Phones -> Seat] /\ report' \in [Phones -> Report]
        /\ asks' = {} /\ polling' = {}
    BY <1>2, PutAwayTypes DEF Expire, Types
  <2>3. answers' \in [Phones -> SUBSET Views]
    BY <1>2 DEF Expire, NoAnswers
  <2> QED BY <1>2, <2>1, <2>2, <2>3 DEF Expire, Types
<1>3. CASE GraceEnds
  <2> DEFINE x == LostAs(room, "OVER")
  <2>1. x \in Room /\ x.version = room.version /\ x.command = room.command
    BY <1>1, RoomLost DEF RoomFit
  <2>2. room' = x
    BY <1>3 DEF GraceEnds, LostAs
  <2> HIDE DEF x
  <2>3. RoomFit(room')
    BY <1>1, <2>1, <2>2 DEF RoomFit, Length
  <2> QED BY <1>3, <2>3 DEF GraceEnds, Types
<1>4. CASE GuestEnds(p)
  BY <1>4, UnseatedFits DEF GuestEnds, Types
<1>5. CASE Return(p)
  BY <1>5 DEF Return, service, Types
<1>6. CASE PresenceLapses(p)
  <2>1. \A x \in Seat : [x EXCEPT !.here = FALSE] \in Seat
    BY SeatUpdates
  <2>2. seat' = [seat EXCEPT ![p] = [seat[p] EXCEPT !.here = FALSE]]
    BY <1>6 DEF PresenceLapses
  <2>3. seat' \in [Phones -> Seat]
    BY <2>1, <2>2 DEF Types
  <2> QED BY <1>6, <2>3 DEF PresenceLapses, Types
<1>7. CASE ReadyLapses(p)
  <2>1. \A x \in Report : [x EXCEPT !.ready = NotReady] \in Report
    BY NoReportFits, Zenon DEF Report
  <2>2. report' = [report EXCEPT ![p] = [report[p] EXCEPT !.ready = NotReady]]
    BY <1>7 DEF ReadyLapses
  <2>3. report' \in [Phones -> Report]
    BY <2>1, <2>2 DEF Types
  <2> QED BY <1>7, <2>3 DEF ReadyLapses, Types
<1>8. CASE Disappear(p)
  <2>1. faults' \in 0..MaxFaults
    BY <1>8, FaultTypes DEF Disappear
  <2> QED BY <1>8, <2>1 DEF Disappear, CanSend, service, Types
<1>9. CASE LeaseEnds(p) \/ Drifts(p)
  <2> DEFINE y == StoppedAs(phone[p], TRUE)
  <2>1. phone' = [phone EXCEPT ![p] = y]
    BY <1>9 DEF LeaseEnds, Drifts, StopsItself, StoppedAs
  <2>2. y \in Phone /\ y.view = phone[p].view /\ y.isHost = phone[p].isHost
    BY <1>1, PhoneStops
  <2> HIDE DEF y
  <2>3. PhoneFit(y)
    BY <1>1, <2>2 DEF PhoneFit
  <2>4. phone' \in [Phones -> Phone] /\ \A q \in Phones : PhoneFit(phone'[q])
    BY <2>1, <2>3, PhonePut
  <2>5. faults' \in 0..MaxFaults
    BY <1>9, FaultTypes DEF LeaseEnds, Drifts, Types
  <2> QED BY <1>9, <2>4, <2>5 DEF LeaseEnds, Drifts, StopsItself, service, Types
<1>10. CASE StopsUnnoticed(p)
  <2>1. phone' = [phone EXCEPT ![p] = Paused(phone[p])]
    BY <1>10 DEF StopsUnnoticed
  <2>2. PhoneFit(Paused(phone[p]))
    BY <1>1, PhonePauses DEF PhoneFit
  <2>3. phone' \in [Phones -> Phone] /\ \A q \in Phones : PhoneFit(phone'[q])
    BY <2>1, <2>2, PhonePut
  <2>4. faults' \in 0..MaxFaults
    BY <1>10, FaultTypes DEF StopsUnnoticed
  <2> QED BY <1>10, <2>3, <2>4 DEF StopsUnnoticed, service, Types
<1> QED BY <1>2, <1>3, <1>4, <1>5, <1>6, <1>7, <1>8, <1>9, <1>10

LEMMA InitTypes == Init => Types
<1> SUFFICES ASSUME Init PROVE Types
  OBVIOUS
<1>1. Queued \in Nat /\ 1 <= Queued /\ Queued <= MaxEntries /\ Queued + 1 \in 1..(MaxEntries + 1)
  BY WaveAssumption, Bounds, SMT
<1>2. NoCommand \in Command /\ NoCommand.entry = 0
  <2>1. 0 \in Nat /\ NoEntry = 0
    BY SMT DEF NoEntry
  <2> QED BY <2>1, Zenon DEF NoCommand, Command
<1>3. /\ Created.version = Queued + 1 /\ Created.command = NoCommand
      /\ Created.state = "OPEN"
  BY Zenon DEF Created
<1>4. Created \in Room
  <2>1. 1 \in Nat \ {0} /\ Creator \in Devices
    BY WaveAssumption, SMT
  <2> QED BY <1>1, <1>2, <2>1, Zenon DEF Created, Room
<1>5. RoomFit(Created)
  BY <1>1, <1>2, <1>3, <1>4, SMT DEF RoomFit, Length
<1>6. RoomFit(room)
  BY <1>5 DEF Init
<1>7. seat \in [Phones -> Seat]
  <2>1. 0 \in Nat
    BY SMT
  <2>2. \A st \in {"NONE", "JOINED", "LEFT", "ENDED"}, h \in BOOLEAN :
          [status |-> st, here |-> h, epoch |-> 0] \in Seat
    BY <2>1, Zenon DEF Seat
  <2>3. \A p \in Phones : [status |-> IF p = Creator THEN "JOINED" ELSE "NONE",
                           here |-> p = Creator, epoch |-> 0] \in Seat
    BY <2>2
  <2> QED BY <2>3 DEF Init
<1>8. arrivals \in Seq(Devices)
  BY WaveAssumption DEF Init
<1>9. report \in [Phones -> Report]
  BY NoReportFits DEF Init
<1>10. ASSUME NEW p \in Phones PROVE PhoneFit(phone[p])
  <2> DEFINE x == [Out EXCEPT !.in = TRUE, !.view = View(Created), !.isHost = TRUE, !.entry = 1]
  <2>1. phone[p] = IF p = Creator THEN x ELSE Out
    BY DEF Init
  <2>2. View(Created) \in Views /\ View(Created) \in Snapshot
    BY <1>3, <1>5, ViewFits DEF Views
  <2>3. 1 \in Entries \cup {NoEntry} /\ Out \in Phone
    BY Bounds, OutFits DEF PhoneFit
  <2>4. x.view = View(Created)
    BY <2>3, Zenon DEF Phone
  <2>5. x \in Phone
    BY <2>2, <2>3, Zenon DEF Phone
  <2> HIDE DEF x
  <2>6. PhoneFit(x)
    BY <2>2, <2>4, <2>5 DEF PhoneFit
  <2> QED BY <2>1, <2>6, OutFits
<1>11. phone \in [Phones -> Phone]
  <2>1. DOMAIN phone = Phones /\ phone = [p \in Phones |-> phone[p]]
    BY DEF Init
  <2> QED BY <1>10, <2>1 DEF PhoneFit
<1>12. /\ polling = {} /\ answers \in [Phones -> SUBSET Views] /\ asks = {}
       /\ away = {} /\ faults \in 0..MaxFaults
  BY Bounds, SMT DEF Init
<1> QED BY <1>6, <1>7, <1>8, <1>9, <1>10, <1>11, <1>12 DEF Types

LEMMA NextKeepsTypes == Types /\ [Next]_vars => Types'
<1> SUFFICES ASSUME Types, [Next]_vars PROVE Types'
  OBVIOUS
<1>1. CASE Next
  <2>1. \A p \in Devices : p \in Phones
    BY DEF Phones
  <2>2. \A g \in Guests : g \in Phones
    BY DEF Phones
  <2>3. ASSUME NEW p \in Devices,
               \/ Poll(p) \/ Forbidden(p) \/ Unauthorised(p) \/ Join(p) \/ Close(p)
               \/ \E heard \in BOOLEAN : Answer(p, heard)
        PROVE  Types'
    <3>1. TRUE \in BOOLEAN
      OBVIOUS
    <3> QED BY <2>1, <2>3, <3>1, PollTypes, LeavingTypes
  <2>4. ASSUME NEW p \in Devices, NEW kind \in Requests,
               HostAsks(p, kind)
        PROVE  Types'
    BY <2>1, <2>4, AskTypes
  <2>5. ASSUME NEW p \in Devices, NEW left \in BOOLEAN, Leave(p, left)
        PROVE  Types'
    BY <2>1, <2>5, LeavingTypes
  <2>6. ASSUME NEW g \in Guests, GuestPoll(g) \/ Redeem(g) \/ GuestEnds(g)
        PROVE  Types'
    BY <2>2, <2>6, PollTypes, TimeTypes
  <2>7. ASSUME NEW g \in Guests, NEW heard \in BOOLEAN, GuestLeave(g, heard)
        PROVE  Types'
    BY <2>2, <2>7, LeavingTypes
  <2>8. ASSUME NEW p \in Phones,
               Gone(p) \/ Disappear(p) \/ Return(p) \/ PresenceLapses(p) \/ ReadyLapses(p)
               \/ LeaseEnds(p) \/ Drifts(p) \/ StopsUnnoticed(p)
        PROVE  Types'
    <3>1. TRUE \in BOOLEAN
      OBVIOUS
    <3> QED BY <2>8, <3>1, LeavingTypes, TimeTypes
  <2>9. ASSUME NEW p \in Phones, Apply(p)
        PROVE  Types'
    BY <2>9, ApplyTypes DEF Apply
  <2>10. ASSUME NEW p \in Phones, NEW s \in answers[p], NEW trouble, Follow(p, s, trouble)
         PROVE  Types'
    BY <2>10, ApplyTypes
  <2>11. ASSUME Expire \/ GraceEnds
         PROVE  Types'
    BY <2>1, <2>11, WaveAssumption, TimeTypes
  <2> QED BY <1>1, <2>3, <2>4, <2>5, <2>6, <2>7, <2>8, <2>9, <2>10, <2>11, HostTypes DEF Next
<1>2. CASE UNCHANGED vars
  BY <1>2 DEF vars, Types, PhoneFit, AskFit, RoomFit
<1> QED BY <1>1, <1>2

\* The types of the room, with what they rest on: a room is never empty.
THEOREM TypesHold == Spec => []Types
BY InitTypes, NextKeepsTypes, PTL DEF Spec

\* Every record keeps its form, and the intent of a room is for an entry of its
\* queue: no skip and no delayed start goes past the end.
THEOREM WaveTypes == Spec => []TypeOK
<1>1. Types => TypeOK
  <2> SUFFICES ASSUME Types PROVE TypeOK
    OBVIOUS
  <2>1. Views \subseteq Snapshot
    BY DEF Views
  <2>2. answers \in [Phones -> SUBSET Snapshot]
    BY <2>1 DEF Types
  <2>3. asks \subseteq Ask
    BY DEF Types, AskFit
  <2> QED BY <2>2, <2>3 DEF Types, TypeOK, RoomFit
<1> QED BY <1>1, TypesHold, PTL

(***************************************************************************)
(* The unanimous start.  What is kept of every phone, whatever the order   *)
(* its snapshots arrive in: sequences do not decrease over the epochs it   *)
(* knows, and unless it strayed it is not behind the clock it reported.    *)
(***************************************************************************)
Keeps(r, h, an, c) ==
    /\ \A x \in an \cup {h.view} : /\ x.seq \in Nat /\ x.epoch \in Nat
                                   /\ x.seq <= r.seq /\ x.epoch <= r.epoch
    /\ \A x, y \in an \cup {h.view} : x.epoch < y.epoch => x.seq <= y.seq
    /\ c \in Nat /\ c <= r.seq
    /\ h.in /\ ~h.strayed => c <= h.view.seq
    /\ ~h.in => \A x \in an : c <= x.seq

Keeping == \A p \in Phones : Keeps(room, phone[p], answers[p], report[p].clock)

Sound == IInv /\ Types /\ Keeping

Grows(r, s) == /\ r.seq \in Nat /\ s.seq \in Nat /\ r.seq <= s.seq
               /\ r.epoch \in Nat /\ s.epoch \in Nat /\ r.epoch <= s.epoch

\* The intent is kept, or replaced by one that starts nothing.
StartsNothing(r, s) == s.command = r.command \/ s.command.kind # "PLAY"

\* The three things a step may do to what a phone knows: no more than let a
\* snapshot of the row go to it or a host report the clock of its view ...
Stays(q) ==
    /\ phone'[q].view = phone[q].view
    /\ phone'[q].in <=> phone[q].in
    /\ phone'[q].strayed <=> phone[q].strayed
    /\ answers'[q] \subseteq answers[q] \cup {View(room')}
    /\ \/ report'[q].clock = report[q].clock
       \/ report'[q].clock = 0
       \/ /\ phone[q].in /\ report[q].clock < phone[q].view.seq
          /\ report'[q].clock = phone[q].view.seq

\* ... put it out of the room ...
Leaves(q) ==
    /\ phone'[q] = Out /\ answers'[q] = {}
    /\ report'[q].clock = report[q].clock \/ report'[q].clock = 0

\* ... or let it take a snapshot over.
Takes(q) == \E s \in answers[q] :
    /\ ~Overtaken(q, s)
    /\ phone'[q].view = s
    /\ phone'[q].strayed <=> Strays(q, s)
    /\ phone[q].in => phone'[q].in
    /\ answers'[q] = answers[q] \ {s}
    /\ \/ report'[q].clock = report[q].clock
       \/ phone'[q].in /\ report'[q].clock = s.seq /\ report[q].clock <= s.seq

LEMMA KeepsWhatStays ==
    ASSUME NEW r, NEW s, Grows(r, s), NEW h, NEW an, NEW c, Keeps(r, h, an, c),
           NEW h2, h2.view = h.view, h2.in <=> h.in, h2.strayed <=> h.strayed,
           NEW v, v.seq = s.seq, v.epoch = s.epoch,
           NEW an2, an2 \subseteq an \cup {v},
           NEW d, d = c \/ d = 0 \/ (h.in /\ c < h.view.seq /\ d = h.view.seq)
    PROVE  Keeps(s, h2, an2, d)
<1>1. \A x \in an2 \cup {h2.view} : x \in an \cup {h.view} \/ x = v
  OBVIOUS
<1>2. \A x \in an2 \cup {h2.view} : /\ x.seq \in Nat /\ x.epoch \in Nat
                                    /\ x.seq <= s.seq /\ x.epoch <= s.epoch
  BY <1>1, SMT DEF Keeps, Grows
<1>3. \A x, y \in an2 \cup {h2.view} : x.epoch < y.epoch => x.seq <= y.seq
  <2> TAKE x, y \in an2 \cup {h2.view}
  <2>1. CASE y = v
    BY <1>2, <2>1, SMT
  <2>2. CASE x = v /\ y # v
    <3>1. y \in an \cup {h.view}
      BY <1>1, <2>2
    <3>2. y.epoch <= r.epoch /\ y.epoch \in Nat
      BY <3>1 DEF Keeps
    <3> QED BY <2>2, <3>2, SMT DEF Grows
  <2>3. CASE x # v /\ y # v
    <3>1. x \in an \cup {h.view} /\ y \in an \cup {h.view}
      BY <1>1, <2>3
    <3> QED BY <3>1 DEF Keeps
  <2> QED BY <2>1, <2>2, <2>3
<1>4. h.view.seq \in Nat /\ h.view.seq <= r.seq /\ c \in Nat /\ c <= r.seq
  BY DEF Keeps
<1>5. d \in Nat /\ d <= s.seq
  BY <1>4, SMT DEF Grows
<1>6. h2.in /\ ~h2.strayed => d <= h2.view.seq
  <2>1. h.in /\ ~h.strayed => c <= h.view.seq
    BY DEF Keeps
  <2> QED BY <1>4, <2>1, SMT
<1>7. ~h2.in => \A x \in an2 : d <= x.seq
  <2> SUFFICES ASSUME ~h2.in, NEW x \in an2 PROVE d <= x.seq
    OBVIOUS
  <2>1. d = c \/ d = 0
    OBVIOUS
  <2>2. CASE x = v
    BY <1>5, <2>2, SMT
  <2>3. CASE x # v
    <3>1. x \in an
      BY <2>3
    <3>2. c <= x.seq /\ x.seq \in Nat
      BY <3>1 DEF Keeps
    <3> QED BY <2>1, <3>2, SMT
  <2> QED BY <2>2, <2>3
<1> QED BY <1>2, <1>3, <1>5, <1>6, <1>7 DEF Keeps

LEMMA KeepsWhatLeaves ==
    ASSUME NEW r, NEW s, Grows(r, s), NEW h, NEW an, NEW c, Keeps(r, h, an, c),
           NEW d, d = c \/ d = 0
    PROVE  Keeps(s, Out, {}, d)
<1>1. Out.in = FALSE /\ Out.view = NoView
  BY Zenon DEF Out
<1>2. NoView.seq = 0 /\ NoView.epoch = 0
  BY Zenon DEF NoView
<1>3. c \in Nat /\ c <= r.seq
  BY DEF Keeps
<1>4. d \in Nat /\ d <= s.seq
  BY <1>3, SMT DEF Grows
<1>5. \A x \in {} \cup {Out.view} : x = NoView
  BY <1>1
<1>6. \A x \in {} \cup {Out.view} : /\ x.seq \in Nat /\ x.epoch \in Nat
                                    /\ x.seq <= s.seq /\ x.epoch <= s.epoch
  BY <1>2, <1>5, SMT DEF Grows
<1>7. \A x, y \in {} \cup {Out.view} : x.epoch < y.epoch => x.seq <= y.seq
  BY <1>2, <1>5, SMT
<1> QED BY <1>1, <1>4, <1>6, <1>7 DEF Keeps

\* Past the snapshots of its epoch, a phone goes forward; those of another
\* take it forward too, unless the epoch is older.
LEMMA KeepsWhatTakes ==
    ASSUME NEW r, r.seq \in Nat, NEW h, NEW an, NEW c, Keeps(r, h, an, c),
           NEW s \in an, ~(h.in /\ h.view.epoch = s.epoch /\ s.seq < h.view.seq),
           NEW h2, h2.view = s, h.in => h2.in,
           h2.strayed <=> (s.epoch < h.view.epoch \/ (h.strayed /\ s.seq < c)),
           NEW d, d = c \/ (h2.in /\ d = s.seq /\ c <= s.seq)
    PROVE  Keeps(r, h2, an \ {s}, d)
<1>1. (an \ {s}) \cup {h2.view} \subseteq an \cup {h.view}
  OBVIOUS
<1>2. /\ \A x \in (an \ {s}) \cup {h2.view} : /\ x.seq \in Nat /\ x.epoch \in Nat
                                              /\ x.seq <= r.seq /\ x.epoch <= r.epoch
      /\ \A x, y \in (an \ {s}) \cup {h2.view} : x.epoch < y.epoch => x.seq <= y.seq
  BY <1>1 DEF Keeps
<1>3. /\ s.seq \in Nat /\ s.epoch \in Nat /\ s.seq <= r.seq
      /\ h.view.seq \in Nat /\ h.view.epoch \in Nat
      /\ h.view.epoch < s.epoch => h.view.seq <= s.seq
      /\ c \in Nat /\ c <= r.seq
  BY DEF Keeps
<1>4. d \in Nat /\ d <= r.seq
  BY <1>3
<1>5. h2.in /\ ~h2.strayed => d <= h2.view.seq
  <2> SUFFICES ASSUME h2.in, ~h2.strayed PROVE c <= s.seq
    BY <1>3, SMT
  <2>0. ~(s.epoch < h.view.epoch) /\ ~(h.strayed /\ s.seq < c)
    BY Zenon
  <2>1. CASE ~h.in
    BY <2>1 DEF Keeps
  <2>2. CASE h.in /\ h.strayed
    BY <1>3, <2>0, <2>2, SMT
  <2>3. CASE h.in /\ ~h.strayed
    <3>1. c <= h.view.seq
      BY <2>3 DEF Keeps
    <3> QED BY <1>3, <2>0, <2>3, <3>1, SMT
  <2> QED BY <2>1, <2>2, <2>3
<1>6. ~h2.in => \A x \in an \ {s} : d <= x.seq
  BY DEF Keeps
<1> QED BY <1>2, <1>4, <1>5, <1>6 DEF Keeps

\* What a step does to a phone keeps what is kept of it.
Goes ==
    /\ Grows(room, room')
    /\ \A q \in Phones : Stays(q) \/ Leaves(q) \/ (Takes(q) /\ room' = room)

LEMMA StepKeeps ==
    ASSUME Keeping, Goes
    PROVE  Keeping'
<1> SUFFICES ASSUME NEW q \in Phones
             PROVE  Keeps(room', phone'[q], answers'[q], report'[q].clock)
  BY DEF Keeping
<1>1. Keeps(room, phone[q], answers[q], report[q].clock) /\ Grows(room, room')
  BY DEF Keeping, Goes
<1>2. CASE Stays(q)
  <2>1. View(room').seq = room'.seq /\ View(room').epoch = room'.epoch
    BY Zenon DEF View
  <2> QED BY <1>1, <1>2, <2>1, KeepsWhatStays DEF Stays
<1>3. CASE Leaves(q)
  BY <1>1, <1>3, KeepsWhatLeaves DEF Leaves
<1>4. CASE Takes(q) /\ room' = room
  <2>1. PICK s \in answers[q] :
          /\ ~Overtaken(q, s)
          /\ phone'[q].view = s
          /\ phone'[q].strayed <=> Strays(q, s)
          /\ phone[q].in => phone'[q].in
          /\ answers'[q] = answers[q] \ {s}
          /\ \/ report'[q].clock = report[q].clock
             \/ phone'[q].in /\ report'[q].clock = s.seq /\ report[q].clock <= s.seq
    BY <1>4 DEF Takes
  <2>2. ~(phone[q].in /\ phone[q].view.epoch = s.epoch /\ s.seq < phone[q].view.seq)
    BY <2>1 DEF Overtaken
  <2>3. phone'[q].strayed <=> (s.epoch < phone[q].view.epoch
                               \/ (phone[q].strayed /\ s.seq < report[q].clock))
    BY <2>1 DEF Strays
  <2>4. room.seq \in Nat
    BY <1>1 DEF Grows
  <2>5. Keeps(room, phone'[q], answers[q] \ {s}, report'[q].clock)
    BY <1>1, <2>1, <2>2, <2>3, <2>4, KeepsWhatTakes
  <2> QED BY <1>4, <2>1, <2>5
<1> QED BY <1>2, <1>3, <1>4 DEF Goes

(***************************************************************************)
(* The row grows, and only a start that passed the gate starts anything.   *)
(***************************************************************************)
LEMMA AppendGrows ==
    ASSUME NEW r, IsRoom(r), r.epoch \in Nat, NEW kind, NEW entry
    PROVE  /\ Grows(r, AppendCommand(r, kind, entry))
           /\ kind # "PLAY" => StartsNothing(r, AppendCommand(r, kind, entry))
           /\ IsRoom(AppendCommand(r, kind, entry))
<1> DEFINE a == AppendCommand(r, kind, entry)
           c == [seq |-> r.seq + 1, kind |-> kind, entry |-> entry]
<1>1. /\ DOMAIN a = RoomFields /\ a.seq = r.seq + 1 /\ a.epoch = r.epoch
      /\ a.command = IF kind \in PlaybackKinds THEN c ELSE r.command
  BY SMT DEF AppendCommand, IsRoom, RoomFields
<1>2. c.kind = kind
  OBVIOUS
<1> HIDE DEF a, c
<1>3. Grows(r, a)
  BY <1>1, SMT DEF Grows, IsRoom
<1>4. kind # "PLAY" => StartsNothing(r, a)
  BY <1>1, <1>2 DEF StartsNothing
<1>5. IsRoom(a)
  BY <1>1, SMT DEF IsRoom
<1> QED BY <1>3, <1>4, <1>5 DEF a

LEMMA HandOverGrows ==
    ASSUME NEW r, IsRoom(r), r.epoch \in Nat, NEW d
    PROVE  Grows(r, HandOver(r, d)) /\ StartsNothing(r, HandOver(r, d))
<1> DEFINE a == AppendCommand(r, "TRANSFER", NoEntry)
<1>1. Grows(r, a) /\ StartsNothing(r, a) /\ IsRoom(a)
  BY AppendGrows
<1>2. HandOver(r, d) =
        [a EXCEPT !.host = d, !.epoch = @ + 1, !.lost = "NO", !.state = "OPEN"]
  BY DEF HandOver
<1> HIDE DEF a
<1>3. /\ HandOver(r, d).seq = a.seq /\ HandOver(r, d).epoch = a.epoch + 1
      /\ HandOver(r, d).command = a.command
  BY <1>1, <1>2, SMT DEF IsRoom, RoomFields
<1> QED BY <1>1, <1>3, SMT DEF Grows, StartsNothing

LEMMA EndedGrows ==
    ASSUME IsRoom(room), room.epoch \in Nat, NEW kind \in {"PAUSE", "CLOSE", "EXPIRE"}, NEW state
    PROVE  Grows(room, Ended(kind, state)) /\ StartsNothing(room, Ended(kind, state))
<1> DEFINE a == AppendCommand(room, kind, NoEntry)
<1>1. Grows(room, a) /\ StartsNothing(room, a) /\ IsRoom(a)
  BY AppendGrows
<1>2. Ended(kind, state) = [a EXCEPT !.state = state, !.playback = "PAUSED"]
  BY DEF Ended
<1> HIDE DEF a
<1>3. /\ Ended(kind, state).seq = a.seq /\ Ended(kind, state).epoch = a.epoch
      /\ Ended(kind, state).command = a.command
  BY <1>1, <1>2, SMT DEF IsRoom, RoomFields
<1> QED BY <1>1, <1>3, SMT DEF Grows, StartsNothing

LEMMA SameGrows ==
    ASSUME NEW r, r.seq \in Nat, r.epoch \in Nat
    PROVE  Grows(r, r) /\ StartsNothing(r, r)
BY SMT DEF Grows, StartsNothing

LEMMA SoundRoom ==
    Sound => IsRoom(room) /\ room.epoch \in Nat /\ room.seq \in Nat
<1>1. Sound => IsRoom(room) /\ room \in Room
  BY DEF Sound, IInv, Shape, Types, RoomFit
<1> QED BY <1>1, SMT DEF IsRoom, Room

LEMMA LostGrows ==
    ASSUME Sound, NEW l
    PROVE  Grows(room, [room EXCEPT !.lost = l]) /\ StartsNothing(room, [room EXCEPT !.lost = l])
<1> DEFINE x == [room EXCEPT !.lost = l]
<1>1. IsRoom(room) /\ room.epoch \in Nat
  BY SoundRoom
<1>2. x.seq = room.seq /\ x.epoch = room.epoch /\ x.command = room.command
  BY <1>1, SMT DEF IsRoom, RoomFields
<1> HIDE DEF x
<1>3. Grows(room, x) /\ StartsNothing(room, x)
  BY <1>1, <1>2, SMT DEF Grows, StartsNothing, IsRoom
<1> QED BY <1>3 DEF x

LEMMA RecoverGrows ==
    ASSUME Sound, RecoverHost
    PROVE  Grows(room, room') /\ StartsNothing(room, room')
<1>1. IsRoom(room) /\ room.epoch \in Nat /\ room.seq \in Nat
  BY SoundRoom
<1>2. \A d : Grows(room, HandOver(room, d)) /\ StartsNothing(room, HandOver(room, d))
  BY <1>1, HandOverGrows
<1>3. Grows(room, room) /\ StartsNothing(room, room)
  BY <1>1, SameGrows
<1>4. /\ Grows(room, Ended("PAUSE", "ORPHANED"))
      /\ StartsNothing(room, Ended("PAUSE", "ORPHANED"))
  BY <1>1, EndedGrows
<1>5. /\ Grows(room, [room EXCEPT !.lost = "GRACE"])
      /\ StartsNothing(room, [room EXCEPT !.lost = "GRACE"])
  BY LostGrows
<1> QED BY <1>2, <1>3, <1>4, <1>5 DEF RecoverHost

\* Of what is obeyed, only a start that passed the gate plays.
LEMMA ObeyGrows ==
    ASSUME Sound, NEW a
    PROVE  /\ Grows(room, Obey(a))
           /\ StartsNothing(room, Obey(a)) \/ StartGate(a.entry)
<1>1. IsRoom(room) /\ room.epoch \in Nat
  BY SoundRoom
<1>2. ASSUME NEW kind, NEW entry, NEW p
      PROVE  LET x == [AppendCommand(room, kind, entry) EXCEPT !.playback = p] IN
             Grows(room, x) /\ (kind # "PLAY" => StartsNothing(room, x))
  <2> DEFINE b == AppendCommand(room, kind, entry)
             x == [b EXCEPT !.playback = p]
  <2>1. /\ Grows(room, b) /\ (kind # "PLAY" => StartsNothing(room, b)) /\ IsRoom(b)
    BY <1>1, AppendGrows
  <2> HIDE DEF b
  <2>2. x.seq = b.seq /\ x.epoch = b.epoch /\ x.command = b.command
    BY <2>1, SMT DEF IsRoom, RoomFields
  <2> HIDE DEF x
  <2>3. Grows(room, x) /\ (kind # "PLAY" => StartsNothing(room, x))
    BY <2>1, <2>2, SMT DEF Grows, StartsNothing
  <2> QED BY <2>3 DEF x, b
<1>3. LET x == [AppendCommand(room, "QUEUE", NoEntry) EXCEPT !.version = @ + 1] IN
      Grows(room, x) /\ StartsNothing(room, x)
  <2> DEFINE b == AppendCommand(room, "QUEUE", NoEntry)
             x == [b EXCEPT !.version = @ + 1]
  <2>1. Grows(room, b) /\ StartsNothing(room, b) /\ IsRoom(b)
    BY <1>1, AppendGrows
  <2> HIDE DEF b
  <2>2. x.seq = b.seq /\ x.epoch = b.epoch /\ x.command = b.command
    BY <2>1, SMT DEF IsRoom, RoomFields
  <2> HIDE DEF x
  <2>3. Grows(room, x) /\ StartsNothing(room, x)
    BY <2>1, <2>2, SMT DEF Grows, StartsNothing
  <2> QED BY <2>3 DEF x, b
<1>4. CASE a.kind = "QUEUE"
  BY <1>3, <1>4 DEF Obey
<1>5. CASE a.kind = "PAUSE"
  BY <1>2, <1>5 DEF Obey
<1>6. CASE a.kind = "SKIP"
  BY <1>2, <1>6 DEF Obey
<1>7. CASE a.kind = "START" /\ StartGate(a.entry)
  BY <1>2, <1>7 DEF Obey
<1>8. CASE a.kind \notin {"QUEUE", "PAUSE", "SKIP"} /\ ~(a.kind = "START" /\ StartGate(a.entry))
  BY <1>2, <1>8 DEF Obey
<1> QED BY <1>4, <1>5, <1>6, <1>7, <1>8

(***************************************************************************)
(* The steps of the room, and what each does to what the phones know.      *)
(***************************************************************************)
\* A step that starts nothing.
Tame == Goes /\ StartsNothing(room, room')

LEMMA OnlySent ==
    ASSUME NEW q \in Phones, phone'[q] = phone[q], report'[q].clock = report[q].clock,
           answers'[q] \subseteq answers[q] \cup {View(room')}
    PROVE  Stays(q)
BY DEF Stays

LEMMA PollTame ==
    ASSUME Sound, NEW p \in Phones,
           \/ Poll(p) \/ GuestPoll(p) \/ Join(p) \/ Redeem(p)
           \/ \E heard \in BOOLEAN : Answer(p, heard)
    PROVE  Tame
<1>1. Grows(room, room) /\ StartsNothing(room, room)
  BY SoundRoom, SameGrows
<1>2. Grows(room, room') /\ StartsNothing(room, room')
  <2>1. ASSUME NEW heard \in BOOLEAN, Answer(p, heard)
        PROVE  Grows(room, room') /\ StartsNothing(room, room')
    BY <1>1, <2>1, RecoverGrows DEF Answer
  <2>2. CASE Poll(p) \/ GuestPoll(p) \/ Join(p) \/ Redeem(p)
    BY <1>1, <2>2 DEF Poll, GuestPoll, Join, Redeem
  <2> QED BY <2>1, <2>2
<1>3. DOMAIN answers = Phones
  BY DEF Sound, Types
<1>4. ASSUME NEW q \in Phones PROVE answers'[q] \subseteq answers[q] \cup {View(room')}
  <2>1. CASE Poll(p)
    BY <2>1 DEF Poll
  <2>2. ASSUME NEW heard \in BOOLEAN, Answer(p, heard)
        PROVE  answers'[q] \subseteq answers[q] \cup {View(room')}
    BY <1>3, <2>2 DEF Answer
  <2>3. CASE GuestPoll(p)
    BY <1>3, <2>3 DEF GuestPoll
  <2>4. CASE Join(p)
    BY <1>3, <2>4 DEF Join
  <2>5. CASE Redeem(p)
    BY <1>3, <2>5 DEF Redeem
  <2> QED BY <2>1, <2>2, <2>3, <2>4, <2>5
<1>5. phone' = phone /\ report' = report
  BY DEF Poll, Answer, GuestPoll, Join, Redeem
<1>6. \A q \in Phones : Stays(q)
  BY <1>4, <1>5, OnlySent
<1> QED BY <1>2, <1>6 DEF Tame, Goes

LEMMA ApplyTame ==
    ASSUME Sound, NEW p \in Phones, NEW s \in answers[p], NEW trouble,
           Discard(p, s) \/ Suspend(p, s) \/ Refused(p, s) \/ Follow(p, s, trouble)
    PROVE  Tame
<1>1. room' = room
  <2>1. Discard(p, s) \/ Suspend(p, s) \/ Refused(p, s) => room' = room
    BY DEF Discard, Suspend, Refused, service
  <2>2. Follow(p, s, trouble) => room' = room
    BY Zenon DEF Follow
  <2> QED BY <2>1, <2>2
<1>2. Grows(room, room') /\ StartsNothing(room, room')
  BY <1>1, SoundRoom, SameGrows
<1>3. /\ DOMAIN answers = Phones /\ DOMAIN phone = Phones /\ DOMAIN report = Phones
      /\ PhoneFit(phone[p]) /\ phone[p] \in Phone /\ s \in Views /\ s \in Snapshot
      /\ report[p] \in Report /\ report[p].clock \in Nat
  BY DEF Sound, Types, PhoneFit, Views, Report
<1>4. Strays(p, s) \in BOOLEAN
  BY DEF Strays
<1>5. ASSUME NEW h, phone' = [phone EXCEPT ![p] = h], h.view = s, h.strayed <=> Strays(p, s),
             phone[p].in => h.in, answers' = [answers EXCEPT ![p] = @ \ {s}],
             ~Overtaken(p, s),
             \A q \in Phones : q # p => report'[q].clock = report[q].clock,
             \/ report'[p].clock = report[p].clock
             \/ h.in /\ report'[p].clock = s.seq /\ report[p].clock <= s.seq
      PROVE  Tame
  <2>1. phone'[p] = h /\ answers'[p] = answers[p] \ {s}
    BY <1>3, <1>5
  <2>2. Takes(p)
    BY <1>5, <2>1 DEF Takes
  <2>3. ASSUME NEW q \in Phones, q # p PROVE Stays(q)
    <3>1. phone'[q] = phone[q] /\ answers'[q] = answers[q]
      BY <1>3, <1>5, <2>3
    <3> QED BY <1>5, <2>3, <3>1, OnlySent
  <2> QED BY <1>1, <1>2, <2>2, <2>3 DEF Tame, Goes
<1>6. CASE Discard(p, s)
  <2>1. phone' = phone /\ report' = report /\ answers' = [answers EXCEPT ![p] = @ \ {s}]
    BY <1>6 DEF Discard, Arrived, service
  <2>2. \A q \in Phones : answers'[q] \subseteq answers[q] \cup {View(room')}
    BY <1>3, <2>1
  <2>3. \A q \in Phones : Stays(q)
    BY <2>1, <2>2, OnlySent
  <2> QED BY <1>2, <2>3 DEF Tame, Goes
<1>7. CASE Suspend(p, s)
  <2> DEFINE x == SuspendedAs(phone[p], s, Strays(p, s))
  <2>1. phone' = [phone EXCEPT ![p] = x]
    BY <1>7 DEF Suspend, SuspendedAs
  <2>2. x.view = s /\ (x.strayed <=> Strays(p, s)) /\ (x.in <=> phone[p].in)
    BY <1>3, <1>4, PhoneSuspended
  <2>3. report' = report /\ answers' = [answers EXCEPT ![p] = @ \ {s}] /\ ~Overtaken(p, s)
    BY <1>7 DEF Suspend, Arrived, service
  <2> HIDE DEF x
  <2> QED BY <1>5, <2>1, <2>2, <2>3
<1>8. CASE Refused(p, s)
  <2>1. report' = report /\ ~Overtaken(p, s)
    BY <1>8 DEF Refused, service
  <2>2. CASE Dropped(p)
    <3>1. phone'[p] = Out /\ answers'[p] = {}
      BY <1>3, <2>2 DEF Dropped
    <3>2. Leaves(p)
      BY <2>1, <3>1 DEF Leaves
    <3>3. ASSUME NEW q \in Phones, q # p PROVE Stays(q)
      <4>1. phone'[q] = phone[q] /\ answers'[q] = answers[q]
        BY <1>3, <2>2, <3>3 DEF Dropped
      <4> QED BY <2>1, <4>1, OnlySent
    <3> QED BY <1>2, <3>2, <3>3 DEF Tame, Goes
  <2>3. CASE ~Dropped(p)
    <3> DEFINE x == Prepared(p, s, TRUE)
               y == Paused(x)
    <3>0. PhoneFit(phone[p]) /\ s \in Views
      BY <1>3
    <3>1. /\ PhoneFit(x) /\ x.view = s
          /\ x.in <=> phone[p].in
          /\ x.strayed <=> Strays(p, s)
      BY <3>0, PreparedFits
    <3>2. answers' = [answers EXCEPT ![p] = @ \ {s}]
      BY <1>8, <2>3 DEF Refused
    <3>3. phone' = [phone EXCEPT ![p] = x] \/ phone' = [phone EXCEPT ![p] = y]
      BY <1>8, <2>3 DEF Refused
    <3> HIDE DEF x
    <3>4. x \in Phone
      BY <3>1 DEF PhoneFit
    <3>5. y.view = x.view /\ (y.in <=> x.in) /\ (y.strayed <=> x.strayed)
      BY <3>4, PhonePauses
    <3>6. y.view = s /\ (y.in <=> phone[p].in) /\ (y.strayed <=> Strays(p, s))
      BY <3>1, <3>5
    <3> HIDE DEF y
    <3> QED BY <1>5, <2>1, <3>1, <3>2, <3>3, <3>6
  <2> QED BY <2>2, <2>3
<1>9. CASE Follow(p, s, trouble)
  <2> DEFINE r == Prepared(p, s, trouble # "SOURCE")
             x == Played(r, s.command, trouble)
             h == (s.host = p)
             y == FollowsAs(x, h, Selected(s))
  <2>1. s.command \in Command /\ s.seq \in Nat
    BY <1>3 DEF Snapshot
  <2>2. PhoneFit(r) /\ r.view = s /\ (r.strayed <=> Strays(p, s))
    BY <1>3, PreparedFits
  <2> DEFINE g == Prepared(p, s, TRUE)
             z == IF trouble = "REJOIN" THEN g ELSE y
  <2>3. phone' = [phone EXCEPT ![p] = z] /\ (trouble = "REJOIN" => phone[p].in)
    BY <1>9 DEF Follow, FollowsAs
  <2>11. g.view = s /\ (g.strayed <=> Strays(p, s)) /\ (g.in <=> phone[p].in)
    BY <1>3, PreparedFits
  <2> HIDE DEF r, g
  <2>4. PhoneFit(x) /\ x.view = s /\ x \in Phone /\ (x.strayed <=> Strays(p, s))
    BY <2>1, <2>2, PlayedFits DEF PhoneFit
  <2> HIDE DEF x
  <2>5. Selected(s) \in Entries \cup {NoEntry} /\ h \in BOOLEAN
    BY <1>3, SelectedFits
  <2> HIDE DEF h
  <2>6. y.view = x.view /\ y.in /\ (y.strayed <=> x.strayed)
    <3>1. x \in Phone
      BY <2>4
    <3> QED BY <2>5, <3>1, PhoneFollows
  <2> HIDE DEF y
  <2>7. answers' = [answers EXCEPT ![p] = @ \ {s}] /\ ~Overtaken(p, s)
    BY <1>9 DEF Follow, Arrived
  <2> DEFINE ready == [e \in Entries |->
                         CASE e = Selected(s) -> IF trouble = "SOURCE" THEN 0 ELSE s.version
                           [] e > Selected(s) -> 0
                           [] OTHER -> report[p].ready[e]]
             clock == IF trouble = "CLOCK" \/ report[p].clock > s.seq
                      THEN report[p].clock ELSE s.seq
  <2>8. report' = [report EXCEPT ![p] = [ready |-> ready, clock |-> clock]]
    BY <1>9 DEF Follow
  <2>9. clock = report[p].clock \/ (clock = s.seq /\ report[p].clock <= s.seq)
    BY <1>3, <2>1, SMT
  <2> HIDE DEF ready, clock
  <2>10. /\ report'[p].clock = clock
         /\ \A q \in Phones : q # p => report'[q].clock = report[q].clock
    BY <1>3, <2>8
  <2>12. z.view = s /\ (z.strayed <=> Strays(p, s)) /\ z.in
    BY <2>3, <2>4, <2>6, <2>11
  <2> HIDE DEF z
  <2> QED BY <1>5, <2>3, <2>7, <2>9, <2>10, <2>12
<1> QED BY <1>6, <1>7, <1>8, <1>9

\* Nothing but answers, and the clocks of a room that ends, is taken away.
LEMMA OnlyTaken ==
    ASSUME NEW q \in Phones, phone'[q] = phone[q], answers'[q] \subseteq answers[q],
           report'[q].clock = report[q].clock \/ report'[q].clock = 0
    PROVE  Stays(q)
BY DEF Stays

LEMMA PutAwayClocks ==
    ASSUME NEW s, PutAway(s), NEW q \in Phones
    PROVE  report'[q].clock = 0
<1>1. NoReport.clock = 0
  BY Zenon DEF NoReport
<1> QED BY <1>1 DEF PutAway

LEMMA StoppedStays ==
    ASSUME Sound, NEW p \in Phones, NEW y,
           y = Paused(phone[p]) \/ y = StoppedAs(phone[p], TRUE),
           phone' = [phone EXCEPT ![p] = y], answers' = answers, report' = report
    PROVE  \A q \in Phones : Stays(q)
<1>1. phone[p] \in Phone /\ DOMAIN phone = Phones
  BY DEF Sound, Types, PhoneFit
<1>2. /\ y.view = phone[p].view
      /\ y.in <=> phone[p].in
      /\ y.strayed <=> phone[p].strayed
  BY <1>1, PhoneStops, PhonePauses
<1>3. phone' = [phone EXCEPT ![p] = y]
  OBVIOUS
<1>4. phone'[p] = y
  BY <1>1, <1>3
<1>5. Stays(p)
  BY <1>2, <1>4 DEF Stays
<1>6. ASSUME NEW q \in Phones, q # p PROVE Stays(q)
  <2>1. phone'[q] = phone[q]
    BY <1>1, <1>3, <1>6
  <2> QED BY <2>1, OnlyTaken
<1> QED BY <1>5, <1>6

LEMMA LeavingTame ==
    ASSUME Sound, NEW p \in Phones, NEW b \in BOOLEAN,
           \/ Gone(p) \/ Forbidden(p) \/ Unauthorised(p)
           \/ Leave(p, b) \/ GuestLeave(p, b) \/ Close(p)
    PROVE  Tame
<1>1. IsRoom(room) /\ room.epoch \in Nat /\ Grows(room, room) /\ StartsNothing(room, room)
  BY SoundRoom, SameGrows
<1>2. DOMAIN answers = Phones /\ DOMAIN phone = Phones
  BY DEF Sound, Types
<1>3. Grows(room, room') /\ StartsNothing(room, room')
  <2>1. CASE Leave(p, b)
    BY <1>1, <2>1, EndedGrows, AppendGrows DEF Leave
  <2>2. CASE Close(p)
    BY <1>1, <2>2, EndedGrows DEF Close
  <2>3. CASE Gone(p) \/ Forbidden(p) \/ Unauthorised(p) \/ GuestLeave(p, b)
    BY <1>1, <2>3 DEF Gone, Forbidden, Unauthorised, GuestLeave, service
  <2> QED BY <2>1, <2>2, <2>3
<1>4. ASSUME phone' = [phone EXCEPT ![p] = Out], answers'[p] = {},
             \A q \in Phones : answers'[q] \subseteq answers[q],
             \A q \in Phones : report'[q].clock = report[q].clock \/ report'[q].clock = 0
      PROVE  \A q \in Phones : Stays(q) \/ Leaves(q)
  <2> TAKE q \in Phones
  <2>1. CASE q = p
    BY <1>2, <1>4, <2>1 DEF Leaves
  <2>2. CASE q # p
    <3>1. phone'[q] = phone[q]
      BY <1>2, <1>4, <2>2
    <3> QED BY <1>4, <3>1, OnlyTaken
  <2> QED BY <2>1, <2>2
<1>5. CASE Gone(p) \/ GuestLeave(p, b)
  <2>1. Dropped(p) /\ report' = report
    BY <1>5 DEF Gone, GuestLeave, service
  <2>2. phone' = [phone EXCEPT ![p] = Out] /\ answers'[p] = {}
        /\ \A q \in Phones : answers'[q] \subseteq answers[q]
    BY <1>2, <2>1 DEF Dropped
  <2> QED BY <1>3, <1>4, <2>1, <2>2 DEF Tame, Goes
<1>6. CASE Forbidden(p) \/ Unauthorised(p)
  <2>1. phone' = [phone EXCEPT ![p] = Paused(phone[p])]
        /\ answers' = answers /\ report' = report
    BY <1>6 DEF Forbidden, Unauthorised, service
  <2>2. \A q \in Phones : Stays(q)
    BY <2>1, StoppedStays
  <2> QED BY <1>3, <2>2 DEF Tame, Goes
<1>7. CASE Leave(p, b)
  <2>1. \A q \in Phones : answers'[q] \subseteq answers[q]
    BY <1>2, <1>7 DEF Leave, NoAnswers
  <2>2. \A q \in Phones : report'[q].clock = report[q].clock \/ report'[q].clock = 0
    <3>1. report' = report \/ \E seats : PutAway(seats)
      BY <1>7 DEF Leave
    <3> QED BY <3>1, PutAwayClocks
  <2>3. CASE b
    <3>1. phone' = [phone EXCEPT ![p] = Out]
      BY <1>7, <2>3 DEF Leave
    <3>2. answers'[p] = {}
      BY <1>2, <1>7, <2>3 DEF Leave, NoAnswers
    <3> QED BY <1>3, <1>4, <2>1, <2>2, <3>1, <3>2 DEF Tame, Goes
  <2>4. CASE ~b
    <3>1. phone' = phone
      BY <1>7, <2>4 DEF Leave
    <3>2. \A q \in Phones : Stays(q)
      BY <2>1, <2>2, <3>1, OnlyTaken
    <3> QED BY <1>3, <3>2 DEF Tame, Goes
  <2> QED BY <2>3, <2>4
<1>8. CASE Close(p)
  <2>1. phone' = [phone EXCEPT ![p] = Out] /\ answers' = NoAnswers /\ PutAway(MarkedHere(p))
    BY <1>8 DEF Close
  <2>2. \A q \in Phones : answers'[q] = {}
    BY <2>1 DEF NoAnswers
  <2>3. \A q \in Phones : report'[q].clock = 0
    BY <2>1, PutAwayClocks
  <2> QED BY <1>3, <1>4, <2>1, <2>2, <2>3 DEF Tame, Goes
<1> QED BY <1>5, <1>6, <1>7, <1>8

\* A host that starts reports the clock of its view, if it is not behind it.
LEMMA AskTame ==
    ASSUME Sound, NEW p \in Phones, NEW kind, HostAsks(p, kind)
    PROVE  Tame
<1>1. room' = room /\ phone' = phone /\ answers' = answers
  BY DEF HostAsks
<1>2. Grows(room, room') /\ StartsNothing(room, room')
  BY <1>1, SoundRoom, SameGrows
<1>3. /\ DOMAIN report = Phones /\ report[p] \in Report /\ phone[p].in
  BY DEF Sound, Types, HostAsks, CanSend
<1>4. ASSUME NEW q \in Phones PROVE Stays(q)
  <2>1. CASE report'[q].clock = report[q].clock
    BY <1>1, <2>1, OnlySent
  <2>2. CASE report'[q].clock # report[q].clock
    <3>1. /\ report' = [report EXCEPT ![p].clock = phone[p].view.seq]
          /\ report[p].clock < phone[p].view.seq
      BY <2>2 DEF HostAsks
    <3>2. q = p
      BY <1>3, <2>2, <3>1
    <3>3. "clock" \in DOMAIN report[p]
      BY <1>3 DEF Report
    <3>4. report'[p].clock = phone[p].view.seq
      BY <1>3, <3>1, <3>3
    <3> QED BY <1>1, <1>3, <3>1, <3>2, <3>4 DEF Stays
  <2> QED BY <2>1, <2>2
<1> QED BY <1>2, <1>4 DEF Tame, Goes

LEMMA DeliverGoes ==
    ASSUME Sound, NEW a \in asks, Deliver(a)
    PROVE  Goes /\ (StartsNothing(room, room') \/ StartGate(a.entry))
<1>1. Grows(room, room) /\ StartsNothing(room, room)
  BY SoundRoom, SameGrows
<1>2. room' = room \/ room' = Obey(a)
  BY DEF Deliver
<1>3. phone' = phone /\ answers' = answers /\ report' = report
  BY DEF Deliver
<1>4. \A q \in Phones : Stays(q)
  BY <1>3, OnlySent
<1>5. Grows(room, room') /\ (StartsNothing(room, room') \/ StartGate(a.entry))
  BY <1>1, <1>2, ObeyGrows
<1> QED BY <1>4, <1>5 DEF Goes

LEMMA TransferTame ==
    ASSUME Sound, NEW p \in Devices, NEW t \in Devices, Transfer(p, t)
    PROVE  Tame
<1>1. Grows(room, room') /\ StartsNothing(room, room')
  BY SoundRoom, HandOverGrows DEF Transfer
<1>2. phone' = phone /\ answers' = answers /\ report' = report
  BY DEF Transfer
<1>3. \A q \in Phones : Stays(q)
  BY <1>2, OnlySent
<1> QED BY <1>1, <1>3 DEF Tame, Goes

LEMMA TimeTame ==
    ASSUME Sound, NEW p \in Phones,
           \/ Expire \/ GraceEnds \/ GuestEnds(p) \/ Disappear(p) \/ Return(p)
           \/ PresenceLapses(p) \/ ReadyLapses(p)
           \/ LeaseEnds(p) \/ Drifts(p) \/ StopsUnnoticed(p)
    PROVE  Tame
<1>1. IsRoom(room) /\ room.epoch \in Nat /\ Grows(room, room) /\ StartsNothing(room, room)
  BY SoundRoom, SameGrows
<1>2. DOMAIN answers = Phones /\ DOMAIN report = Phones /\ report[p] \in Report
  BY DEF Sound, Types
<1>3. CASE Expire
  <2>1. Grows(room, room') /\ StartsNothing(room, room')
    BY <1>1, <1>3, EndedGrows DEF Expire
  <2>2. phone' = phone /\ answers' = NoAnswers /\ PutAway(seat)
    BY <1>3 DEF Expire
  <2>3. \A q \in Phones : answers'[q] = {} /\ report'[q].clock = 0
    BY <2>2, PutAwayClocks DEF NoAnswers
  <2>4. \A q \in Phones : Stays(q)
    BY <2>2, <2>3, OnlyTaken
  <2> QED BY <2>1, <2>4 DEF Tame, Goes
<1>4. CASE GraceEnds
  <2>1. Grows(room, room') /\ StartsNothing(room, room')
    BY <1>4, LostGrows DEF GraceEnds
  <2>2. phone' = phone /\ answers' = answers /\ report' = report
    BY <1>4 DEF GraceEnds
  <2>3. \A q \in Phones : Stays(q)
    BY <2>2, OnlyTaken
  <2> QED BY <2>1, <2>3 DEF Tame, Goes
<1>5. CASE GuestEnds(p) \/ Return(p) \/ PresenceLapses(p) \/ Disappear(p)
  <2>1. /\ room' = room /\ phone' = phone /\ report' = report
        /\ answers' = answers \/ answers' = [answers EXCEPT ![p] = {}]
    BY <1>5 DEF GuestEnds, Return, PresenceLapses, Disappear, service
  <2>2. \A q \in Phones : answers'[q] \subseteq answers[q]
    BY <1>2, <2>1
  <2>3. \A q \in Phones : Stays(q)
    BY <2>1, <2>2, OnlyTaken
  <2> QED BY <1>1, <2>1, <2>3 DEF Tame, Goes
<1>6. CASE ReadyLapses(p)
  <2>1. /\ room' = room /\ phone' = phone /\ answers' = answers
        /\ report' = [report EXCEPT ![p].ready = NotReady]
    BY <1>6 DEF ReadyLapses
  <2>2. [report[p] EXCEPT !.ready = NotReady].clock = report[p].clock
    BY <1>2, Zenon DEF Report
  <2>3. \A q \in Phones : report'[q].clock = report[q].clock
    BY <1>2, <2>1, <2>2
  <2>4. \A q \in Phones : Stays(q)
    BY <2>1, <2>3, OnlyTaken
  <2> QED BY <1>1, <2>1, <2>4 DEF Tame, Goes
<1>7. CASE LeaseEnds(p) \/ Drifts(p)
  <2>1. /\ phone' = [phone EXCEPT ![p] = StoppedAs(phone[p], TRUE)]
        /\ room' = room /\ answers' = answers /\ report' = report
    BY <1>7 DEF LeaseEnds, Drifts, StopsItself, StoppedAs, service
  <2>2. \A q \in Phones : Stays(q)
    BY <2>1, StoppedStays
  <2> QED BY <1>1, <2>1, <2>2 DEF Tame, Goes
<1>8. CASE StopsUnnoticed(p)
  <2>1. /\ phone' = [phone EXCEPT ![p] = Paused(phone[p])]
        /\ room' = room /\ answers' = answers /\ report' = report
    BY <1>8 DEF StopsUnnoticed, service
  <2>2. \A q \in Phones : Stays(q)
    BY <2>1, StoppedStays
  <2> QED BY <1>1, <2>1, <2>2 DEF Tame, Goes
<1> QED BY <1>3, <1>4, <1>5, <1>6, <1>7, <1>8

LEMMA NextGoes ==
    ASSUME Sound, Next
    PROVE  Tame \/ \E a \in asks : Deliver(a)
<1>1. \A p \in Devices : p \in Phones
  BY DEF Phones
<1>2. \A g \in Guests : g \in Phones
  BY DEF Phones
<1>3. TRUE \in BOOLEAN
  OBVIOUS
<1>4. ASSUME NEW p \in Devices,
             \/ Poll(p) \/ Forbidden(p) \/ Unauthorised(p) \/ Join(p) \/ Close(p)
             \/ \E heard \in BOOLEAN : Answer(p, heard)
      PROVE  Tame
  BY <1>1, <1>3, <1>4, PollTame, LeavingTame
<1>5. ASSUME NEW p \in Devices, NEW kind, HostAsks(p, kind)
      PROVE  Tame
  BY <1>1, <1>5, AskTame
<1>6. ASSUME NEW p \in Devices, NEW left \in BOOLEAN, Leave(p, left)
      PROVE  Tame
  BY <1>1, <1>6, LeavingTame
<1>7. ASSUME NEW g \in Guests, GuestPoll(g) \/ Redeem(g) \/ GuestEnds(g)
      PROVE  Tame
  BY <1>2, <1>7, PollTame, TimeTame
<1>8. ASSUME NEW g \in Guests, NEW heard \in BOOLEAN, GuestLeave(g, heard)
      PROVE  Tame
  BY <1>2, <1>8, LeavingTame
<1>9. ASSUME NEW p \in Phones,
             Gone(p) \/ Disappear(p) \/ Return(p) \/ PresenceLapses(p) \/ ReadyLapses(p)
             \/ LeaseEnds(p) \/ Drifts(p) \/ StopsUnnoticed(p)
      PROVE  Tame
  BY <1>3, <1>9, LeavingTame, TimeTame
<1>10. ASSUME NEW p \in Phones, Apply(p)
       PROVE  Tame
  BY <1>10, ApplyTame DEF Apply
<1>11. ASSUME NEW p \in Phones, NEW s \in answers[p], NEW trouble, Follow(p, s, trouble)
       PROVE  Tame
  BY <1>11, ApplyTame
<1>12. ASSUME Expire \/ GraceEnds
       PROVE  Tame
  BY <1>1, <1>12, WaveAssumption, TimeTame
<1>13. ASSUME NEW p \in Devices, NEW t \in Devices, Transfer(p, t)
       PROVE  Tame
  BY <1>13, TransferTame
<1> QED BY <1>4, <1>5, <1>6, <1>7, <1>8, <1>9, <1>10, <1>11, <1>12, <1>13 DEF Next

LEMMA InitKeeping == Init => Keeping
<1> SUFFICES ASSUME Init, NEW p \in Phones
             PROVE  Keeps(room, phone[p], answers[p], report[p].clock)
  BY DEF Keeping
<1>1. room.seq = Queued /\ room.epoch = 1 /\ Queued \in Nat
  BY WaveAssumption, SMT DEF Init, Created
<1>2. answers[p] = {} /\ report[p].clock = 0
  <2>1. NoReport.clock = 0
    BY Zenon DEF NoReport
  <2> QED BY <2>1 DEF Init
<1>3. \/ phone[p].view = View(Created)
      \/ phone[p].view = NoView
  <2>1. Out.view = NoView /\ "view" \in DOMAIN Out
    BY DEF Out
  <2>2. CASE p = Creator
    <3>1. phone[p] = [Out EXCEPT !.in = TRUE, !.view = View(Created),
                                 !.isHost = TRUE, !.entry = 1]
      BY <2>2 DEF Init
    <3> QED BY <2>1, <3>1, SMT
  <2>3. CASE p # Creator
    BY <2>1, <2>3 DEF Init
  <2> QED BY <2>2, <2>3
<1>4. /\ View(Created).seq = Queued /\ View(Created).epoch = 1
      /\ NoView.seq = 0 /\ NoView.epoch = 0
  BY SMT DEF View, Created, NoView
<1>5. /\ phone[p].view.seq \in Nat /\ phone[p].view.epoch \in Nat
      /\ phone[p].view.seq <= room.seq /\ phone[p].view.epoch <= room.epoch
  BY <1>1, <1>3, <1>4, SMT
<1> HIDE DEF Init
<1>6. \A x \in answers[p] \cup {phone[p].view} : x = phone[p].view
  BY <1>2
<1>7. \A x \in answers[p] : FALSE
  BY <1>2
<1> QED BY <1>1, <1>2, <1>5, <1>6, <1>7, SMT DEF Keeps

\* What is kept of every phone.
THEOREM KeepingHolds == Spec => []Keeping
<1>1. Sound /\ [Next]_vars => Keeping'
  <2> SUFFICES ASSUME Sound, [Next]_vars PROVE Keeping'
    OBVIOUS
  <2>1. CASE Next
    <3>1. Goes
      BY <2>1, NextGoes, DeliverGoes DEF Tame
    <3> QED BY <3>1, StepKeeps DEF Sound
  <2>2. CASE UNCHANGED vars
    <3>1. room' = room /\ phone' = phone /\ answers' = answers /\ report' = report
      BY <2>2 DEF vars
    <3> QED BY <3>1 DEF Sound, Keeping
  <2> QED BY <2>1, <2>2
<1>2. Sound /\ [Next]_vars => Sound'
  BY <1>1, NextKeepsIInv, NextKeepsTypes DEF Sound
<1>3. Init => Sound
  BY InitIInv, InitTypes, InitKeeping DEF Sound
<1>4. Sound => Keeping
  BY DEF Sound
<1> QED BY <1>2, <1>3, <1>4, PTL DEF Spec

\* A room starts to play with every present phone that is in it at the command
\* it starts from, whatever order the snapshots came in; only one that took a
\* snapshot of an older epoch may have fallen behind since it reported.
THEOREM StartsAreUnanimous == Spec => StartIsUnanimous
<1>1. ASSUME Sound, [Next]_vars, room'.command.kind = "PLAY", room'.command # room.command,
             NEW p \in Phones, Counted(p), phone[p].in, ~phone[p].strayed
      PROVE  phone[p].view.seq = room.seq
  <2>1. Next
    BY <1>1 DEF vars
  <2>2. ~StartsNothing(room, room')
    BY <1>1 DEF StartsNothing
  <2>3. PICK a \in asks : Deliver(a)
    BY <1>1, <2>1, <2>2, NextGoes DEF Tame
  <2>4. StartGate(a.entry)
    BY <1>1, <2>2, <2>3, DeliverGoes
  <2>5. report[p].clock = room.seq
    BY <1>1, <2>4 DEF StartGate
  <2>6. Keeps(room, phone[p], answers[p], report[p].clock)
    BY <1>1 DEF Sound, Keeping
  <2>7. /\ report[p].clock <= phone[p].view.seq /\ phone[p].view.seq <= room.seq
        /\ phone[p].view.seq \in Nat
    BY <1>1, <2>6 DEF Keeps
  <2>8. room.seq \in Nat
    BY <1>1, SoundRoom
  <2> QED BY <2>5, <2>7, <2>8, SMT
<1>2. Sound /\ [Next]_vars =>
        [room'.command.kind = "PLAY" /\ room'.command # room.command =>
            \A p \in Phones : Counted(p) /\ phone[p].in =>
                phone[p].view.seq = room.seq \/ phone[p].strayed]_vars
  BY <1>1
<1>3. IInv /\ Types /\ Keeping => Sound
  BY DEF Sound
<1> QED BY <1>2, <1>3, Invariance, TypesHold, KeepingHolds, PTL DEF Spec, StartIsUnanimous
=============================================================================
