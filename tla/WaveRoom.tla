------------------------------ MODULE WaveRoom ------------------------------
(***************************************************************************)
(* One Wave room: the service's room row with its members and guests, and  *)
(* the phones that follow it.                                              *)
(*                                                                         *)
(* Every mutation of the room is one transaction under the row lock, and   *)
(* appends one command.  A phone polls: the service marks it present, then *)
(* looks after a lost host, then answers with a snapshot, which the phone  *)
(* applies to its projection, its reports and its player.  An idle web     *)
(* socket makes the service take the same steps without an answer for the  *)
(* phone.  Requests of a host and answers to a phone may be delayed,       *)
(* overtaken and lost.                                                     *)
(*                                                                         *)
(* A queue entry is its position, and the queue only grows, so its length  *)
(* follows from its version.  A playing phone is known by the sequence of  *)
(* the PLAY it follows; positions, drift and clock arithmetic are left     *)
(* out.  The presence, grace and readiness windows are flags that lapse.   *)
(*                                                                         *)
(* A definition introduced by "Mutant:" is its successor with one bug put  *)
(* in; the mutation runs use it in its place and must find a violation.    *)
(***************************************************************************)
EXTENDS Naturals, FiniteSets, Sequences

Requests == {"QUEUE", "PAUSE", "SKIP", "START"}

CONSTANTS
    Devices,             \* devices of accounts; all but the creator's are invited
    Creator,
    Guests,              \* phones with a guest document
    MaxParticipants,     \* 8 in the code
    Queued,              \* entries queued before the others arrive
    MaxEntries,          \* bound: entries ever queued (100 in the code)
    MaxCommands,         \* bound: sequence up to which users act
    Asked,               \* bound: what the users do
    MaxFlight,           \* bound, by phone: polls of it under way
    MaxFaults            \* bound: lost answers, missing sources, absences

ASSUME WaveAssumption ==
    /\ Creator \in Devices /\ Guests \cap Devices = {}
    /\ MaxParticipants \in Nat \ {0} /\ Queued \in 1..MaxEntries
    /\ {MaxEntries, MaxCommands, MaxFaults} \subseteq Nat
    /\ Asked \subseteq Requests \cup {"TRANSFER", "LEAVE", "CLOSE"}
    /\ MaxFlight \in [Devices \cup Guests -> Nat]

VARIABLES
    room,                \* row of wave.room and its last playback command
    seat,                \* wave.member and social.guest_session
    arrivals,            \* members in order of joined_at
    report,              \* preflight and timing rows of a participant
    phone,               \* the phone's coordinator, projection and player
    polling,             \* phones between the transactions of their poll
    answers,             \* snapshots on their way to a phone
    asks,                \* host requests on their way to the service
    away,                \* phones out of reach
    faults               \* faults so far

vars == <<room, seat, arrivals, report, phone, polling, answers, asks, away, faults>>
service == <<room, seat, arrivals, report>>

Phones == Devices \cup Guests
Entries == 1..MaxEntries
NoEntry == 0

(* Mutant: the end of a room is not a playback command. *)
KindsWithoutExpire == {"PLAY", "PAUSE", "SKIP", "START_ABORTED", "CLOSE"}

PlaybackKinds == {"PLAY", "PAUSE", "SKIP", "START_ABORTED", "CLOSE", "EXPIRE"}
Command == [seq : Nat, kind : PlaybackKinds \cup {"NONE"}, entry : Entries \cup {NoEntry}]
NoCommand == [seq |-> 0, kind |-> "NONE", entry |-> NoEntry]

Room == [state : {"OPEN", "ORPHANED", "CLOSED", "EXPIRED"}, host : Devices,
         epoch : Nat \ {0}, version : 1..(MaxEntries + 1), seq : Nat,
         playback : {"IDLE", "PLAYING", "PAUSED"},
         lost : {"NO", "GRACE", "OVER"}, command : Command]
Snapshot == [state : {"OPEN", "ORPHANED"}, host : Devices, epoch : Nat \ {0},
             version : 1..(MaxEntries + 1), seq : Nat, command : Command]
NoView == [state |-> "NONE", host |-> Creator, epoch |-> 0, version |-> 1,
           seq |-> 0, command |-> NoCommand]
Seat == [status : {"NONE", "JOINED", "LEFT", "ENDED"}, here : BOOLEAN, epoch : Nat]
Report == [ready : [Entries -> 0..(MaxEntries + 1)], clock : Nat]
Phone == [in : BOOLEAN, view : Snapshot \cup {NoView}, isHost : BOOLEAN,
          entry : Entries \cup {NoEntry}, prepared : Entries \cup {NoEntry},
          applied : Nat, audio : Nat, degraded : BOOLEAN,
          strayed : BOOLEAN,     \* history: back at an older epoch
          muted : BOOLEAN]       \* history: stopped, its start still counted as applied
Ask == [kind : Requests, from : Devices, seq : Nat,
        version : 1..(MaxEntries + 1), entry : Entries \cup {NoEntry},
        epoch : Nat]     \* epoch: of the view it was made from, not sent

NotReady == [e \in Entries |-> 0]
NoReport == [ready |-> NotReady, clock |-> 0]
Out == [in |-> FALSE, view |-> NoView, isHost |-> FALSE, entry |-> NoEntry,
        prepared |-> NoEntry, applied |-> 0, audio |-> 0, degraded |-> FALSE,
        strayed |-> FALSE, muted |-> FALSE]

View(r) == [state |-> r.state, host |-> r.host, epoch |-> r.epoch,
            version |-> r.version, seq |-> r.seq, command |-> r.command]

-----------------------------------------------------------------------------
(* The room row and its commands *)

Created == [state |-> "OPEN", host |-> Creator, epoch |-> 1,
            version |-> Queued + 1, seq |-> Queued, playback |-> "IDLE",
            lost |-> "NO", command |-> NoCommand]

Live == room.state \in {"OPEN", "ORPHANED"}
Length(r) == r.version - 1
Joined(p) == seat[p].status = "JOINED"
Present(p) == Joined(p) /\ seat[p].here
Participants == {p \in Phones : Joined(p)}

(* One command at the next sequence; only a playback command replaces the *)
(* playback intent a snapshot carries.                                     *)
AppendCommand(r, kind, entry) ==
    [r EXCEPT !.seq = @ + 1,
              !.command = IF kind \in PlaybackKinds
                          THEN [seq |-> r.seq + 1, kind |-> kind, entry |-> entry]
                          ELSE @]

HandOver(r, d) ==
    [AppendCommand(r, "TRANSFER", NoEntry) EXCEPT
        !.host = d, !.epoch = @ + 1, !.lost = "NO", !.state = "OPEN"]

Ended(kind, state) ==
    [AppendCommand(room, kind, NoEntry) EXCEPT !.state = state, !.playback = "PAUSED"]

Candidates == {i \in DOMAIN arrivals : Present(arrivals[i])}

(* Mutant: host_lost_at is written anew by every poll. *)
GraceStartsOver(r) == FALSE

GraceOver(r) == r.lost = "OVER"

(* What every poll of a device does about a lost host. *)
RecoverHost ==
    \/ /\ Present(room.host)
       /\ room' = IF room.lost # "NO" \/ room.state = "ORPHANED"
                  THEN HandOver(room, room.host) ELSE room
    \/ /\ ~Present(room.host) /\ ~GraceOver(room)
       /\ room' = [room EXCEPT !.lost = "GRACE"]
    \/ /\ ~Present(room.host) /\ GraceOver(room)
       /\ \E i \in Candidates : /\ \A j \in Candidates : i <= j
                                /\ room' = HandOver(room, arrivals[i])
    \/ /\ ~Present(room.host) /\ GraceOver(room) /\ Candidates = {}
       /\ room' = IF room.state = "ORPHANED" THEN room ELSE Ended("PAUSE", "ORPHANED")

IsHost(d) == /\ Live /\ Joined(d) /\ room.host = d
             /\ room.lost = "NO" /\ room.state = "OPEN"

(* A guest's session counts only for the epoch it was issued in. *)
Admitted(g) == Joined(g) /\ room.state = "OPEN" /\ seat[g].epoch = room.epoch

(* The trigger on wave.room ends the guests of a room that ends. *)
GuestsOut(s) == [p \in Phones |->
    IF p \in Guests /\ s[p].status = "JOINED"
    THEN [s[p] EXCEPT !.status = "ENDED", !.here = FALSE] ELSE s[p]]

(* The reports, requests and answers of a room that ended do nothing any   *)
(* more, and are put away with it: requests are refused, and a phone that  *)
(* gets a snapshot of it cannot report.                                    *)
PutAway(seats) ==
    /\ seat' = GuestsOut(seats) /\ report' = [p \in Phones |-> NoReport]
    /\ asks' = {} /\ polling' = {}
NoAnswers == [p \in Phones |-> {}]

MarkedHere(p) == [seat EXCEPT ![p].here = TRUE]

Free == Cardinality(Participants) < MaxParticipants

(* The request to start marks the host present before it asks the gate. *)
Counted(p) == Present(p) \/ p = room.host

(* Mutant: the readiness of the entry is enough. *)
StartGateWithoutClock(e) == \A p \in Phones :
    Counted(p) => report[p].ready[e] = room.version

(* Every present participant has the entry ready at this queue version, *)
(* and a clock report for the command being started from.               *)
StartGate(e) == \A p \in Phones : Counted(p) =>
    /\ report[p].ready[e] = room.version
    /\ report[p].clock = room.seq

-----------------------------------------------------------------------------
(* The room on the service at work *)

TypeOK ==
    /\ room \in Room /\ room.command.entry <= Length(room)
    /\ seat \in [Phones -> Seat]
    /\ arrivals \in Seq(Devices) /\ report \in [Phones -> Report]
    /\ phone \in [Phones -> Phone] /\ polling \subseteq Devices
    /\ answers \in [Phones -> SUBSET Snapshot] /\ asks \subseteq Ask
    /\ away \subseteq Phones /\ faults \in 0..MaxFaults

Init ==
    /\ room = Created
    /\ seat = [p \in Phones |-> [status |-> IF p = Creator THEN "JOINED" ELSE "NONE",
                                 here |-> p = Creator, epoch |-> 0]]
    /\ arrivals = <<Creator>>
    /\ report = [p \in Phones |-> NoReport]
    /\ phone = [p \in Phones |->
           IF p = Creator THEN [Out EXCEPT !.in = TRUE, !.view = View(Created),
                                           !.isHost = TRUE, !.entry = 1]
           ELSE Out]
    /\ polling = {} /\ answers = [p \in Phones |-> {}] /\ asks = {}
    /\ away = {} /\ faults = 0

CanSend(p) == p \notin away /\ phone[p].in
Fault == faults < MaxFaults /\ faults' = faults + 1
MayCommand == room.seq < MaxCommands

(* A snapshot request: the first transaction marks the caller present. *)
Poll(p) ==
    /\ CanSend(p) /\ p \in Devices \ polling
    /\ Cardinality(answers[p]) < MaxFlight[p]
    /\ Live /\ Joined(p)
    /\ seat' = MarkedHere(p) /\ polling' = polling \cup {p}
    /\ UNCHANGED <<room, arrivals, report, phone, answers, asks, away, faults>>

(* The next two look after the host and read the snapshot.  The phone does *)
(* not hear of one that its web socket caused, or whose answer is lost.    *)
Answer(p, heard) ==
    /\ p \in polling /\ polling' = polling \ {p}
    /\ IF Live THEN RecoverHost ELSE UNCHANGED room
    /\ LET answered == Live /\ Joined(p) IN
       /\ heard => answered /\ CanSend(p)
       /\ answers' = IF heard THEN [answers EXCEPT ![p] = @ \cup {View(room')}] ELSE answers
       /\ seat' = IF answered THEN MarkedHere(p) ELSE seat
    /\ UNCHANGED <<arrivals, report, phone, asks, away, faults>>

(* A guest's snapshot is one transaction and looks after no host. *)
GuestPoll(g) ==
    /\ CanSend(g) /\ g \in Guests /\ Admitted(g)
    /\ Cardinality(answers[g]) < MaxFlight[g]
    /\ seat' = MarkedHere(g)
    /\ answers' = [answers EXCEPT ![g] = @ \cup {View(room)}]
    /\ UNCHANGED <<room, arrivals, report, phone, polling, asks, away, faults>>

Dropped(p) == /\ phone' = [phone EXCEPT ![p] = Out]
              /\ answers' = [answers EXCEPT ![p] = {}]

(* The room is over, or, for a guest, the access to it: the phone is out. *)
Gone(p) ==
    /\ CanSend(p) /\ Dropped(p)
    /\ ~Live \/ (p \in Guests /\ ~Admitted(p))
    /\ UNCHANGED <<service, polling, asks, away, faults>>

(* The player is paused, and neither the start it follows nor that it had  *)
(* given up is remembered.                                                 *)
Paused(ph) == [ph EXCEPT !.audio = 0, !.degraded = FALSE,
                         !.muted = @ \/ ph.audio # 0 \/ ph.degraded]

(* A device whose membership ended is only told that it may not; one that  *)
(* is a member hears the same when its access token is refused.            *)
Forbidden(p) ==
    /\ CanSend(p) /\ p \in Devices /\ Live /\ ~Joined(p)
    /\ phone' = [phone EXCEPT ![p] = Paused(@)]
    /\ UNCHANGED <<service, polling, answers, asks, away, faults>>
Unauthorised(p) ==
    /\ CanSend(p) /\ p \in Devices /\ Live /\ Joined(p) /\ Fault
    /\ phone' = [phone EXCEPT ![p] = Paused(@)]
    /\ UNCHANGED <<service, polling, answers, asks, away>>

Join(d) ==
    /\ d \in Devices \ (away \cup polling) /\ ~phone[d].in /\ answers[d] = {}
    /\ room.state = "OPEN" /\ (Joined(d) \/ (d # Creator /\ Free))
    /\ seat' = [seat EXCEPT ![d].status = "JOINED", ![d].here = TRUE]
    /\ arrivals' = IF \E i \in DOMAIN arrivals : arrivals[i] = d THEN arrivals
                   ELSE Append(arrivals, d)
    /\ answers' = [answers EXCEPT ![d] = {View(room)}]
    /\ UNCHANGED <<room, report, phone, polling, asks, away, faults>>

(* A document the host issued is redeemed, and the first snapshot fetched. *)
Redeem(g) ==
    /\ g \in Guests \ away /\ seat[g].status = "NONE"
    /\ room.state = "OPEN" /\ Free
    /\ seat' = [seat EXCEPT ![g] = [status |-> "JOINED", here |-> TRUE, epoch |-> room.epoch]]
    /\ answers' = [answers EXCEPT ![g] = {View(room)}]
    /\ UNCHANGED <<room, arrivals, report, phone, polling, asks, away, faults>>

(* The invitation expires or its host revokes it. *)
GuestEnds(g) ==
    /\ g \in Guests /\ Joined(g)
    /\ seat' = [seat EXCEPT ![g].status = "ENDED", ![g].here = FALSE]
    /\ UNCHANGED <<room, arrivals, report, phone, polling, answers, asks, away, faults>>

-----------------------------------------------------------------------------
(* A snapshot on the phone *)

Selected(s) == IF s.command.entry \in 1..Length(s) THEN s.command.entry ELSE 1

Overtaken(p, s) == /\ phone[p].in /\ phone[p].view.epoch = s.epoch
                   /\ s.seq < phone[p].view.seq

Arrived(p, s) == /\ p \notin away /\ s \in answers[p]
                 /\ answers' = [answers EXCEPT ![p] = @ \ {s}]

Discard(p, s) ==
    /\ Arrived(p, s) /\ Overtaken(p, s)
    /\ UNCHANGED <<service, phone, polling, asks, away, faults>>

(* Snapshots are compared within an epoch only: one of an older epoch is   *)
(* applied whenever it comes, and the phone is astray until one comes that *)
(* is not older than what it last reported a clock for.                    *)
Strays(p, s) == \/ s.epoch < phone[p].view.epoch
                \/ phone[p].strayed /\ s.seq < report[p].clock

Suspend(p, s) ==
    /\ Arrived(p, s) /\ ~Overtaken(p, s) /\ s.state = "ORPHANED"
    /\ phone' = [phone EXCEPT ![p].view = s, ![p].audio = 0, ![p].applied = 0,
                              ![p].degraded = FALSE, ![p].muted = FALSE,
                              ![p].strayed = Strays(p, s)]
    /\ UNCHANGED <<service, polling, asks, away, faults>>

(* The queue the snapshot shows is the one availability is reported for. *)
Reportable(p, s) == /\ room.state = "OPEN" /\ s.version = room.version
                    /\ IF p \in Guests THEN Admitted(p) ELSE Joined(p)

(* The projection is stored and the entry prepared before anything is      *)
(* sent.  Another entry than the prepared one replaces it in the player.   *)
Prepared(p, s, sourced) ==
    LET e == IF sourced THEN Selected(s) ELSE phone[p].prepared IN
    [IF e = phone[p].prepared THEN phone[p] ELSE Paused(phone[p]) EXCEPT
        !.view = s, !.prepared = e, !.strayed = Strays(p, s)]

(* The report is refused, or lost: the phone stays with what it stored.  A *)
(* refused guest takes it for the end of its access.                       *)
Refused(p, s) ==
    /\ p \notin away /\ s \in answers[p]
    /\ ~Overtaken(p, s) /\ s.state = "OPEN"
    /\ \/ Reportable(p, s) /\ Fault
       \/ ~Reportable(p, s) /\ UNCHANGED faults
    /\ IF ~phone[p].in \/ (p \in Guests /\ ~Reportable(p, s)) THEN Dropped(p)
       ELSE /\ phone' = [phone EXCEPT ![p] =
                  IF p \in Devices /\ ~Joined(p)
                  THEN Paused(Prepared(p, s, TRUE))
                  ELSE Prepared(p, s, TRUE)]
            /\ answers' = [answers EXCEPT ![p] = @ \ {s}]
    /\ UNCHANGED <<service, polling, asks, away>>

Silenced(ph, applied) == [ph EXCEPT !.audio = 0, !.applied = applied,
                                    !.degraded = FALSE, !.muted = FALSE]

(* Mutant: a player that lost the beat is taken for one that keeps it. *)
NeverGaveUp(ph) == FALSE

GaveUp(ph) == ph.degraded

(* What the player does with the room's playback intent. *)
Played(ph, c, trouble) ==
    CASE c.kind = "PLAY" /\ trouble = "SOURCE" -> Silenced(ph, 0)
      [] c.kind # "PLAY" /\ c.seq > ph.applied -> Silenced(ph, c.seq)
      [] c.kind = "PLAY" /\ trouble = "NONE" /\ c.seq > ph.applied ->
            [ph EXCEPT !.audio = c.seq, !.applied = c.seq, !.degraded = FALSE, !.muted = FALSE]
      [] c.kind = "PLAY" /\ c.seq <= ph.applied /\ trouble # "SOURCE"
            /\ (trouble = "CLOCK" \/ GaveUp(ph)) -> Silenced(ph, 0)
      [] OTHER -> ph

(* trouble: the entry has no source, the clock is not reported, or the     *)
(* phone joins anew before it gets to its player.                          *)
Follow(p, s, trouble) ==
    /\ trouble = "REJOIN" => phone[p].in
    /\ Arrived(p, s) /\ ~Overtaken(p, s) /\ s.state = "OPEN" /\ Reportable(p, s)
    /\ IF trouble = "NONE" THEN UNCHANGED faults ELSE Fault
    /\ LET sel == Selected(s) IN
       /\ seat' = MarkedHere(p)
       /\ report' = [report EXCEPT ![p] =
              [ready |-> [e \in Entries |->
                   CASE e = sel -> IF trouble = "SOURCE" THEN 0 ELSE s.version
                     [] e > sel -> 0
                     [] OTHER -> @.ready[e]],
               clock |-> IF trouble = "CLOCK" \/ @.clock > s.seq THEN @.clock ELSE s.seq]]
       /\ phone' = [phone EXCEPT ![p] =
              IF trouble = "REJOIN" THEN Prepared(p, s, TRUE)
              ELSE [Played(Prepared(p, s, trouble # "SOURCE"), s.command, trouble) EXCEPT
                       !.in = TRUE, !.isHost = (s.host = p), !.entry = sel]]
    /\ UNCHANGED <<room, arrivals, polling, asks, away>>

Apply(p) == \E s \in answers[p] :
    Discard(p, s) \/ Suspend(p, s) \/ Refused(p, s) \/ Follow(p, s, "NONE")

-----------------------------------------------------------------------------
(* What the users ask *)

Request(p, kind) ==
    [kind |-> kind, from |-> p, seq |-> phone[p].view.seq, version |-> phone[p].view.version,
     entry |-> IF kind # "START" THEN NoEntry
               ELSE IF phone[p].entry \in 1..Length(phone[p].view) THEN phone[p].entry ELSE 1,
     epoch |-> phone[p].view.epoch]

(* A host's request carries the sequence and queue version its phone knows. *)
HostAsks(p, kind) ==
    /\ CanSend(p) /\ p \in Devices /\ phone[p].isHost /\ MayCommand
    /\ \A a \in asks : a.from # p
    /\ asks' = asks \cup {Request(p, kind)}
    /\ report' = IF kind = "START" /\ Joined(p) /\ report[p].clock < phone[p].view.seq
                 THEN [report EXCEPT ![p].clock = phone[p].view.seq] ELSE report
    /\ UNCHANGED <<room, seat, arrivals, phone, polling, answers, away, faults>>

(* Mutant: only the queue is compared. *)
ObeyedByVersion(a) == IsHost(a.from) /\ a.version = room.version

Obeyed(a) == IsHost(a.from) /\ a.version = room.version /\ a.seq = room.seq

Current == IF room.command.entry \in 1..Length(room) THEN room.command.entry ELSE 1

Obey(a) ==
    CASE a.kind = "QUEUE" -> [AppendCommand(room, "QUEUE", NoEntry) EXCEPT !.version = @ + 1]
      [] a.kind = "PAUSE" ->
            [AppendCommand(room, "PAUSE", Current) EXCEPT !.playback = "PAUSED"]
      [] a.kind = "SKIP" ->
            [AppendCommand(room, "SKIP", Current + 1) EXCEPT !.playback = "PAUSED"]
      [] a.kind = "START" /\ StartGate(a.entry) ->
            [AppendCommand(room, "PLAY", a.entry) EXCEPT !.playback = "PLAYING"]
      [] OTHER ->
            [AppendCommand(room, "START_ABORTED", a.entry) EXCEPT !.playback = "PAUSED"]

(* Mutant: one past the end of the queue. *)
SkipsPastTheEnd == Current <= Length(room)

HasNext == Current < Length(room)

Possible(a) == /\ a.kind = "SKIP" => HasNext
               /\ a.kind = "QUEUE" => Length(room) < MaxEntries

Deliver(a) ==
    /\ a \in asks /\ asks' = asks \ {a}
    /\ IF Obeyed(a) /\ Possible(a) THEN room' = Obey(a) /\ seat' = MarkedHere(a.from)
       ELSE UNCHANGED <<room, seat>>
    /\ UNCHANGED <<arrivals, report, phone, polling, answers, away, faults>>

Transfer(p, t) ==
    /\ "TRANSFER" \in Asked /\ MayCommand
    /\ CanSend(p) /\ phone[p].isHost /\ IsHost(p)
    /\ t \in Devices \ {p} /\ Present(t)
    /\ room' = HandOver(room, t) /\ seat' = MarkedHere(p)
    /\ UNCHANGED <<arrivals, report, phone, polling, answers, asks, away, faults>>

(* left: the answer to the leave reached the phone. *)
Leave(p, left) ==
    /\ "LEAVE" \in Asked /\ MayCommand
    /\ CanSend(p) /\ p \in Devices /\ Live /\ Joined(p)
    /\ room.host = p => Participants \cap Devices = {p}
    /\ LET seats == [seat EXCEPT ![p].status = "LEFT", ![p].here = FALSE] IN
       IF room.host = p
       THEN room' = Ended("CLOSE", "CLOSED") /\ PutAway(seats)
       ELSE /\ room' = AppendCommand(room, "LEAVE", NoEntry) /\ seat' = seats
            /\ UNCHANGED <<report, polling, asks>>
    /\ phone' = IF left THEN [phone EXCEPT ![p] = Out] ELSE phone
    /\ answers' = IF room.host = p THEN NoAnswers
                  ELSE IF left THEN [answers EXCEPT ![p] = {}] ELSE answers
    /\ UNCHANGED <<arrivals, away, faults>>

(* A guest's phone is out whether or not the service has heard. *)
GuestLeave(g, heard) ==
    /\ CanSend(g) /\ g \in Guests /\ Dropped(g)
    /\ IF heard /\ Admitted(g)
       THEN seat' = [seat EXCEPT ![g].status = "LEFT", ![g].here = FALSE] /\ UNCHANGED faults
       ELSE UNCHANGED seat /\ IF heard THEN UNCHANGED faults ELSE Fault
    /\ UNCHANGED <<room, arrivals, report, polling, asks, away>>

Close(p) ==
    /\ "CLOSE" \in Asked
    /\ CanSend(p) /\ phone[p].isHost /\ IsHost(p)
    /\ room' = Ended("CLOSE", "CLOSED") /\ PutAway(MarkedHere(p))
    /\ phone' = [phone EXCEPT ![p] = Out] /\ answers' = NoAnswers
    /\ UNCHANGED <<arrivals, away, faults>>

-----------------------------------------------------------------------------
(* Time and distance *)

(* Six hours have passed; every request ends such rooms first. *)
Expire ==
    /\ Live /\ room' = Ended("EXPIRE", "EXPIRED") /\ PutAway(seat) /\ answers' = NoAnswers
    /\ UNCHANGED <<arrivals, phone, away, faults>>

(* Out of reach, or done with trying to rejoin. *)
Disappear(p) ==
    /\ Fault /\ CanSend(p) /\ away' = away \cup {p}
    /\ answers' = [answers EXCEPT ![p] = {}]
    /\ UNCHANGED <<service, phone, polling, asks>>

Return(p) ==
    /\ p \in away /\ away' = away \ {p}
    /\ UNCHANGED <<service, phone, polling, answers, asks, faults>>

(* Thirty seconds without a request. *)
PresenceLapses(p) ==
    /\ Joined(p) /\ seat[p].here
    /\ p \in away \/ (~phone[p].in /\ answers[p] = {})
    /\ seat' = [seat EXCEPT ![p].here = FALSE]
    /\ UNCHANGED <<room, arrivals, report, phone, polling, answers, asks, away, faults>>

GraceEnds ==
    /\ Live /\ room.lost = "GRACE" /\ room' = [room EXCEPT !.lost = "OVER"]
    /\ UNCHANGED <<seat, arrivals, report, phone, polling, answers, asks, away, faults>>

(* A readiness report is good for fifteen seconds; a phone that polls keeps *)
(* renewing it.                                                            *)
ReadyLapses(p) ==
    /\ ~CanSend(p) /\ report[p].ready # NotReady
    /\ report' = [report EXCEPT ![p].ready = NotReady]
    /\ UNCHANGED <<room, seat, arrivals, phone, polling, answers, asks, away, faults>>

(* The player stops by itself: its lease ran out, or it lost the beat. *)
StopsItself(p) ==
    /\ phone[p].audio # 0
    /\ phone' = [phone EXCEPT ![p].audio = 0, ![p].degraded = TRUE]
    /\ UNCHANGED <<service, polling, answers, asks, away>>
LeaseEnds(p) == p \in away /\ StopsItself(p) /\ UNCHANGED faults
Drifts(p) == p \notin away /\ StopsItself(p) /\ Fault

(* Another queue takes the player over, or it has not got the prepared     *)
(* entry when its start comes: nothing tells the coordinator.              *)
StopsUnnoticed(p) ==
    /\ phone[p].audio # 0 /\ Fault
    /\ phone' = [phone EXCEPT ![p] = Paused(@)]
    /\ UNCHANGED <<service, polling, answers, asks, away>>

Next ==
    \/ \E p \in Devices :
          \/ Poll(p) \/ Forbidden(p) \/ Unauthorised(p) \/ Join(p) \/ Close(p)
          \/ \E heard \in BOOLEAN : Answer(p, heard)
          \/ \E kind \in Requests \cap Asked : HostAsks(p, kind)
          \/ \E left \in BOOLEAN : Leave(p, left)
          \/ \E t \in Devices : Transfer(p, t)
    \/ \E g \in Guests :
          \/ GuestPoll(g) \/ Redeem(g) \/ GuestEnds(g)
          \/ \E heard \in BOOLEAN : GuestLeave(g, heard)
    \/ \E p \in Phones :
          \/ Gone(p) \/ Apply(p)
          \/ \E s \in answers[p], trouble \in {"SOURCE", "CLOCK", "REJOIN"} : Follow(p, s, trouble)
          \/ Disappear(p) \/ Return(p) \/ PresenceLapses(p) \/ ReadyLapses(p)
          \/ LeaseEnds(p) \/ Drifts(p) \/ StopsUnnoticed(p)
    \/ \E a \in asks : Deliver(a)
    \/ Expire \/ GraceEnds

Spec == Init /\ [][Next]_vars

(* What becomes of a phone that is out of reach or out of the room. *)
PhoneGivesUp(p) == \/ Gone(p) \/ PresenceLapses(p) \/ LeaseEnds(p)
                   \/ p \in Devices /\ Forbidden(p)

(* A phone in the room polls every ten seconds, and what the web socket    *)
(* causes does not keep those polls from being answered; the phone applies *)
(* what it gets; the windows pass.                                         *)
Fairness ==
    /\ \A p \in Devices : WF_vars(Poll(p)) /\ SF_vars(Answer(p, TRUE))
    /\ \A g \in Guests : WF_vars(GuestPoll(g))
    /\ \A p \in Phones : WF_vars(Apply(p)) /\ WF_vars(PhoneGivesUp(p))
    /\ WF_vars(GraceEnds)

FairSpec == Spec /\ Fairness

-----------------------------------------------------------------------------
(* Properties *)

(* The playback state of the room row and the newest playback command,     *)
(* written by different statements and read by different clients, agree,   *)
(* and only an open room plays.                                            *)
PlaybackAgrees ==
    /\ room.playback = "PLAYING" <=> room.command.kind = "PLAY"
    /\ room.playback = "PLAYING" => room.state = "OPEN"

(* A host's request that is obeyed was made in the room's present epoch:   *)
(* one delayed past a change of host, even past the return of its own      *)
(* sender after an absence, changes nothing.  The epoch is not sent; the   *)
(* sequence has to stand for it.                                           *)
HostActsOnWhatItSaw == [][
    \A a \in asks \ asks' : room' # room /\ room'.state = "OPEN" =>
        a.epoch = room.epoch]_vars

(* When a room starts to play, the phone of every participant it counts as *)
(* present has applied the command it starts from.  One thing can take     *)
(* that back in between: a snapshot of an older epoch, which is applied    *)
(* whenever it arrives, and those of its own epoch that follow it.         *)
StartIsUnanimous == [][
    room'.command.kind = "PLAY" /\ room'.command # room.command =>
        \A p \in Phones : Counted(p) /\ phone[p].in =>
            phone[p].view.seq = room.seq \/ phone[p].strayed]_vars

Headless == /\ Live /\ (room.host \in away \/ ~phone[room.host].in)
            /\ \E d \in Devices \ {room.host} : Joined(d) /\ phone[d].in /\ d \notin away

(* A room whose host is gone does not stay without one while another       *)
(* member's phone is there.                                                *)
HostReplaced == []<>~Headless

Audible(p) == /\ phone[p].in /\ p \notin away /\ Joined(p)
              /\ Live /\ room.playback = "PLAYING"

(* Once users and faults rest, the phones follow the room: those in a      *)
(* playing room all play its last start, and every other phone is silent.  *)
(* What takes a start from a player behind the coordinator's back is never *)
(* made good: such a phone stays silent until the next command.            *)
PhonesConverge == <>[](\A p \in Phones :
    phone[p].audio = IF Audible(p) /\ ~phone[p].muted THEN room.command.seq ELSE 0)

(* ADR-043: expiry, revocation, leave, room close or a change of the room's *)
(* epoch ends a guest's access; nothing else is to.                         *)
GuestOutOnlyWhenEnded == [][\A g \in Guests :
    phone[g].in /\ ~phone'[g].in => ~Admitted(g) \/ seat'[g] # seat[g]]_vars
=============================================================================
