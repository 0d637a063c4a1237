------------------------ MODULE DeviceSessionsProofs ------------------------
(***************************************************************************)
(* Theorems about DeviceSessions, for any number of callers, rotations and *)
(* faults.  The inductive invariant ties four things together: the rows of *)
(* the family (each is the generation after the one before, and only the   *)
(* newest can be live), the requests that are still under way or on        *)
(* receipt (which rotation of which row they stand for), the envelope      *)
(* (which row it holds and which request it has pending) and the caller    *)
(* inside the mutexes (what it is waiting for).  An unbound and a bound    *)
(* family keep different promises, so some parts are stated by mode.       *)
(***************************************************************************)
EXTENDS DeviceSessions, SequenceTheorems, TLAPS

Newest == Len(session)
LastRow == session[Newest]

\* The rows: their generations count up, their secrets never repeat, and only
\* the newest can be live, and not on a revoked device.
RowsOK ==
    /\ session \in Seq(Row) /\ Newest >= 1
    /\ \A i \in 1..Newest :
          /\ session[i].generation = i - 1
          /\ i - 1 <= session[i].secret /\ session[i].secret <= prepared
          /\ mode = "LEGACY" => session[i].secret = i - 1
          /\ session[i].live => i = Newest /\ ~revoked

\* A request of an earlier or present rotation, of a row that exists.
Genuine(q) ==
    /\ q \in Request
    /\ q.parent <= Newest /\ q.current = session[q.parent].secret
    /\ mode = "V2" => q.rotation <= prepared /\ q.next = q.rotation /\ q.current < q.next

Made ==
    {p.request : p \in sent} \cup {r.request : r \in receipt}
    \cup (IF envelope.pending THEN {envelope.request} ELSE {})

\* A bound rotation has one request, however often it is sent.
OneRequestEach ==
    mode = "V2" => \A x, y \in Made : x.rotation = y.rotation => x = y

\* Whatever can still be exchanged is the rotation the envelope has pending.
PostsOK ==
    /\ sent \subseteq Post
    /\ \A p \in sent :
          /\ Genuine(p.request)
          /\ p.open => reply = Waiting /\ \E c \in Callers : call[c].at = "waits"
          /\ p.open => envelope.pending /\ (mode = "V2" => p.request = envelope.request)
          /\ mode = "V2" /\ Connected /\ p.request.parent = Newest =>
                envelope.pending /\ p.request = envelope.request
    /\ \A p, q \in sent : p.open /\ q.open => p = q

ReceiptsOK ==
    /\ receipt \subseteq Receipt /\ (mode = "LEGACY" => receipt = {})
    /\ \A r \in receipt :
          /\ Genuine(r.request)
          /\ r.successor = r.request.parent + 1 /\ r.successor <= Newest
          /\ session[r.successor].secret = r.request.next

\* The envelope holds the newest row, or the one before with the rotation that
\* made the newest still pending.
EnvelopeOK ==
    /\ envelope \in Envelope
    /\ Connected =>
          /\ envelope.session <= Newest
          /\ envelope.secret = session[envelope.session].secret
          /\ mode = "V2" =>
                \/ envelope.session = Newest
                \/ /\ envelope.session + 1 = Newest /\ envelope.pending
                   /\ LastRow.secret = prepared
          /\ mode = "LEGACY" /\ ~envelope.pending => envelope.session = Newest
    /\ envelope.pending => Connected
    /\ mode = "V2" /\ envelope.pending =>
          /\ envelope.request = [rotation |-> prepared, parent |-> envelope.session,
                                 current |-> envelope.secret, next |-> prepared]
          /\ envelope.secret < prepared

\* An unbound rotation is sent once, unless the HTTP client repeats it.  A copy
\* that was never repeated names the newest row, and is the only one to do so.
UnboundOK ==
    mode = "LEGACY" =>
        /\ Connected
        /\ envelope.pending => envelope.session <= prepared
        /\ \A p \in sent :
              /\ p.request.parent = Newest => envelope.pending /\ envelope.session = Newest
              /\ ~p.again => p.request.parent = Newest
        /\ \A p, q \in sent : ~p.again /\ q.request.parent = Newest => p = q
        /\ \A c \in Callers : call[c].at = "ready" =>
              envelope.session = Newest /\ \A p \in sent : p.request.parent # Newest

\* An answer nobody has taken yet is the newest row, and somebody waits for it.
ReplyOK ==
    /\ reply \in Replies
    /\ reply # Waiting => \E c \in Callers : call[c].at = "waits"
    /\ reply \in SessionIds =>
          reply = Newest /\ envelope.pending /\ reply = envelope.session + 1

CheckpointOK ==
    /\ checkpoint \in {0} \cup SessionIds
    /\ mode = "V2" /\ Connected => checkpoint # 0 /\ checkpoint <= envelope.session

\* One caller is inside the mutexes, with what its step needs.
CallsOK ==
    /\ call \in [Callers -> Call]
    /\ gate \in Callers \cup {NoCaller}
    /\ \A c \in Callers :
          /\ Holding(c) <=> gate = c
          /\ call[c].at \in {"ready", "waits"} => envelope.pending
          /\ call[c].at = "stored" => mode = "V2" /\ Connected
          /\ call[c].at = "clears" => ~Connected
          /\ call[c].at \in {"leaves", "left", "clears"} => mode = "V2"

CountsOK ==
    /\ mode \in {"LEGACY", "V2"} /\ revoked \in BOOLEAN /\ expired \in BOOLEAN
    /\ prepared \in 0..MaxRotations /\ faults \in 0..MaxFaults

IInv ==
    /\ CountsOK /\ RowsOK /\ PostsOK /\ ReceiptsOK /\ OneRequestEach
    /\ EnvelopeOK /\ UnboundOK /\ ReplyOK /\ CheckpointOK /\ CallsOK

(***************************************************************************)
(* Rows and requests.                                                      *)
(***************************************************************************)
USE SessionsAssumption

\* The rows of a sequence are the values of its positions.
LEMMA RowsAreSeq ==
    ASSUME NEW n \in Nat, NEW f, f = [i \in 1..n |-> f[i]], \A i \in 1..n : f[i] \in Row
    PROVE  f \in Seq(Row) /\ Len(f) = n
<1>1. f \in [1..n -> Row]
  OBVIOUS
<1> QED BY <1>1, SeqDef, LenProperties, ElementOfSeq

LEMMA RowTyped ==
    ASSUME RowsOK, CountsOK, NEW i \in 1..Newest
    PROVE  /\ Newest \in Nat /\ session[i] \in Row /\ DOMAIN session = 1..Newest
           /\ Newest <= prepared + 1 /\ Newest \in SessionIds /\ i \in SessionIds
<1>1. Newest \in Nat /\ session[i] \in Row /\ DOMAIN session = 1..Newest
  BY ElementOfSeq, LenProperties DEF RowsOK, Newest
<1>2. Newest - 1 <= session[Newest].secret /\ session[Newest].secret <= prepared
  BY <1>1 DEF RowsOK
<1>3. session[Newest] \in Row /\ session[Newest].secret \in Nat
  <2>1. Newest \in 1..Newest
    BY <1>1 DEF RowsOK
  <2>2. session[Newest] \in Row
    BY <2>1, ElementOfSeq DEF RowsOK, Newest
  <2> QED BY <2>2 DEF Row, Secrets
<1>4. Newest <= prepared + 1 /\ Newest <= MaxRotations + 1 /\ Newest >= 1
  BY <1>1, <1>2, <1>3 DEF CountsOK, RowsOK
<1> QED BY <1>1, <1>4 DEF SessionIds

\* Rows are only added, and keep their secrets.
Grows ==
    /\ Newest \in Nat /\ Newest' \in Nat /\ Newest <= Newest'
    /\ \A i \in 1..Newest : session'[i].secret = session[i].secret

LEMMA GenuineStays ==
    ASSUME Grows, NEW q, Genuine(q), mode' = mode,
           prepared \in Nat, prepared' \in Nat, prepared <= prepared'
    PROVE  Genuine(q)'
<1>1. q.parent \in 1..Newest /\ q.rotation \in Nat
  BY DEF Genuine, Request, SessionIds, Rotations, Grows
<1> QED BY <1>1 DEF Genuine, Grows

\* Revoking sessions changes nothing else of their rows.
LEMMA RevokedRows ==
    ASSUME RowsOK, CountsOK, NEW S
    PROVE  /\ Revoke(S) \in Seq(Row) /\ Len(Revoke(S)) = Newest
           /\ \A i \in 1..Newest :
                 /\ Revoke(S)[i].secret = session[i].secret
                 /\ Revoke(S)[i].generation = session[i].generation
                 /\ Revoke(S)[i].live = (session[i].live /\ i \notin S)
<1>1. Newest \in Nat /\ DOMAIN session = 1..Newest /\ \A i \in 1..Newest : session[i] \in Row
  BY RowTyped, LenProperties, ElementOfSeq DEF RowsOK, Newest
<1>2. \A r \in Row : \A b \in BOOLEAN : [r EXCEPT !.live = b] \in Row
  BY DEF Row
<1>3. ASSUME NEW i \in 1..Newest
      PROVE  /\ Revoke(S)[i] = [session[i] EXCEPT !.live = @ /\ i \notin S]
             /\ Revoke(S)[i] \in Row
  <2>1. Revoke(S)[i] = [session[i] EXCEPT !.live = @ /\ i \notin S]
    BY <1>1 DEF Revoke
  <2>2. session[i].live \in BOOLEAN
    BY <1>1 DEF Row
  <2>3. [session[i] EXCEPT !.live = session[i].live /\ i \notin S] \in Row
    BY <1>1, <1>2, <2>2
  <2> QED BY <2>1, <2>3
<1>4. Revoke(S) = [i \in 1..Newest |-> Revoke(S)[i]]
  BY <1>1 DEF Revoke
<1>5. Revoke(S) \in Seq(Row) /\ Len(Revoke(S)) = Newest
  BY <1>1, <1>3, <1>4, RowsAreSeq
<1>6. ASSUME NEW i \in 1..Newest
      PROVE  /\ Revoke(S)[i].secret = session[i].secret
             /\ Revoke(S)[i].generation = session[i].generation
             /\ Revoke(S)[i].live = (session[i].live /\ i \notin S)
  <2>1. \A r \in Row : \A b : /\ [r EXCEPT !.live = b].secret = r.secret
                            /\ [r EXCEPT !.live = b].generation = r.generation
                            /\ [r EXCEPT !.live = b].live = b
    BY DEF Row
  <2>2. session[i] \in Row
    BY <1>1
  <2>3. LET r == [session[i] EXCEPT !.live = session[i].live /\ i \notin S] IN
           /\ r.secret = session[i].secret /\ r.generation = session[i].generation
           /\ r.live = (session[i].live /\ i \notin S)
    BY <2>1, <2>2, Zenon
  <2> QED BY <1>3, <2>3, Zenon
<1> QED BY <1>5, <1>6

\* A request names its parent by its secret as surely as by its number.
LEMMA ParentOf ==
    ASSUME RowsOK, CountsOK, NEW q, Genuine(q)
    PROVE  Parent(q) = q.parent /\ q.parent \in 1..Newest
<1>1. Newest \in Nat /\ DOMAIN session = 1..Newest
  BY LenProperties DEF RowsOK, Newest
<1>2. q.parent \in 1..Newest
  BY <1>1 DEF Genuine, Request, SessionIds
<1>3. CASE mode = "LEGACY"
  <2>1. \A i \in DOMAIN session : session[i].secret = q.current <=> i = q.parent
    BY <1>1, <1>2, <1>3 DEF RowsOK, Genuine
  <2>2. \A i : i \in DOMAIN session /\ session[i].secret = q.current <=> i = q.parent
    BY <1>1, <1>2, <2>1
  <2>3. (CHOOSE i : i \in DOMAIN session /\ session[i].secret = q.current) = q.parent
    BY <2>2
  <2> QED BY <1>2, <1>3, <2>3 DEF Parent
<1>4. CASE mode # "LEGACY"
  BY <1>2, <1>4 DEF Parent
<1> QED BY <1>3, <1>4

\* The rows as they were, or with some sessions revoked.
LEMMA RowsStay ==
    ASSUME RowsOK, CountsOK, mode' = mode, prepared' = prepared,
           \/ session' = session /\ revoked' = revoked
           \/ revoked' = revoked /\ \E S : session' = Revoke(S)
           \/ session' = Revoke(AllOfDevice)
    PROVE  RowsOK' /\ Grows /\ Newest' = Newest
<1>1. Newest \in Nat /\ DOMAIN session = 1..Newest
  BY LenProperties DEF RowsOK, Newest
<1>2. CASE session' = session /\ revoked' = revoked
  <2>1. Newest' = Newest
    BY <1>2 DEF Newest
  <2>2. RowsOK'
    BY <1>2, <2>1, Zenon DEF RowsOK
  <2> QED BY <1>1, <1>2, <2>1, <2>2 DEF Grows
<1>3. ASSUME NEW S, session' = Revoke(S), revoked' = revoked \/ S = AllOfDevice
      PROVE  RowsOK' /\ Grows /\ Newest' = Newest
  <2>1. /\ session' \in Seq(Row) /\ Newest' = Newest
        /\ \A i \in 1..Newest :
              /\ session'[i].secret = session[i].secret
              /\ session'[i].generation = session[i].generation
              /\ session'[i].live = (session[i].live /\ i \notin S)
    BY <1>3, RevokedRows DEF Newest
  <2>2. Grows
    BY <1>1, <2>1 DEF Grows
  <2>3. ASSUME NEW i \in 1..Newest
        PROVE  session'[i].live => i = Newest /\ ~revoked'
    <3>1. CASE S = AllOfDevice
      <4>1. i \in S
        BY <1>1, <3>1 DEF AllOfDevice
      <4> QED BY <2>1, <4>1, Zenon
    <3>2. CASE revoked' = revoked
      <4>1. session[i].live => i = Newest /\ ~revoked
        BY DEF RowsOK
      <4>2. session'[i].live = (session[i].live /\ i \notin S)
        BY <2>1
      <4> QED BY <3>2, <4>1, <4>2, Zenon
    <3> QED BY <1>3, <3>1, <3>2
  <2>4. \A i \in 1..Newest :
           /\ session'[i].generation = i - 1
           /\ i - 1 <= session'[i].secret /\ session'[i].secret <= prepared'
           /\ mode' = "LEGACY" => session'[i].secret = i - 1
    BY <2>1 DEF RowsOK
  <2>5. Newest' >= 1
    BY <2>1 DEF RowsOK
  <2> QED BY <2>1, <2>2, <2>3, <2>4, <2>5 DEF RowsOK
<1> QED BY <1>2, <1>3

\* The row of a rotation: its parent, the newest row, is revoked and followed
\* by a live one with the next secret.
LEMMA RotatedRows ==
    ASSUME RowsOK, CountsOK, NEW p, Genuine(p.request), session[p.request.parent].live,
           mode = "LEGACY" => Newest <= prepared
    PROVE  /\ p.request.parent = Newest
           /\ Rotated(p) \in Seq(Row) /\ Len(Rotated(p)) = Newest + 1
           /\ \A i \in 1..Newest :
                 /\ Rotated(p)[i].secret = session[i].secret
                 /\ Rotated(p)[i].generation = session[i].generation
                 /\ Rotated(p)[i].live = FALSE
           /\ Rotated(p)[Newest + 1].secret = IF mode = "LEGACY" THEN Newest ELSE p.request.next
           /\ Rotated(p)[Newest + 1].generation = Newest
           /\ Rotated(p)[Newest + 1].live = TRUE
<1> DEFINE old == Revoke({p.request.parent})
           new == Successor(p)
<1>1. Parent(p.request) = p.request.parent /\ p.request.parent \in 1..Newest
  BY ParentOf
<1>2. p.request.parent = Newest
  BY <1>1 DEF RowsOK
<1>3. Newest \in Nat /\ DOMAIN session = 1..Newest /\ Newest <= prepared + 1
  BY <1>1, RowTyped
<1>4. session[Newest].generation = Newest - 1
  BY <1>1, <1>2 DEF RowsOK
<1>5. /\ new.secret = IF mode = "LEGACY" THEN Newest ELSE p.request.next
      /\ new.generation = Newest
      /\ new.live = TRUE
  BY <1>1, <1>2, <1>3, <1>4, SMT DEF Successor, Newest
<1>6. p.request.next \in Secrets /\ Newest \in Secrets
  <2>1. p.request.next \in Secrets
    BY DEF Genuine, Request
  <2>2. CASE mode = "LEGACY"
    BY <1>3, <2>1, <2>2 DEF CountsOK, Secrets
  <2>3. CASE mode # "LEGACY"
    <3>1. mode = "V2"
      BY <2>3 DEF CountsOK
    <3>2. p.request.current = session[Newest].secret /\ p.request.current < p.request.next
      BY <1>2, <3>1 DEF Genuine
    <3>3. Newest - 1 <= session[Newest].secret
      BY <1>1, <1>2 DEF RowsOK
    <3>4. p.request.current \in Nat /\ p.request.next \in Nat
      BY DEF Genuine, Request, Secrets
    <3> QED BY <1>3, <2>1, <3>2, <3>3, <3>4 DEF Secrets
  <2> QED BY <2>1, <2>2, <2>3
<1>7. new \in Row
  <2>1. session[Parent(p.request)].generation + 1 = Newest
    BY <1>1, <1>2, <1>3, <1>4
  <2>2. new = [secret |-> IF mode = "LEGACY" THEN Newest ELSE p.request.next,
               generation |-> session[Parent(p.request)].generation + 1, live |-> TRUE]
    BY DEF Successor, Newest
  <2>3. new = [secret |-> IF mode = "LEGACY" THEN Newest ELSE p.request.next,
               generation |-> Newest, live |-> TRUE]
    BY <2>1, <2>2
  <2>4. \A a, b \in Secrets : [secret |-> a, generation |-> b, live |-> TRUE] \in Row
    BY Zenon DEF Row
  <2>5. (IF mode = "LEGACY" THEN Newest ELSE p.request.next) \in Secrets
    BY <1>6
  <2> QED BY <1>6, <2>3, <2>4, <2>5, Zenon
<1>8. /\ old \in Seq(Row) /\ Len(old) = Newest
      /\ \A i \in 1..Newest :
            /\ old[i].secret = session[i].secret
            /\ old[i].generation = session[i].generation
            /\ old[i].live = (session[i].live /\ i \notin {p.request.parent})
  BY RevokedRows
<1>9. Rotated(p) = Append(old, new)
  BY <1>1 DEF Rotated
<1> HIDE DEF old, new
<1>10. /\ Rotated(p) \in Seq(Row) /\ Len(Rotated(p)) = Newest + 1
       /\ \A i \in 1..Newest : Rotated(p)[i] = old[i]
       /\ Rotated(p)[Newest + 1] = new
  BY <1>3, <1>7, <1>8, <1>9, AppendProperties
<1>11. \A i \in 1..Newest : session[i].live => i = p.request.parent
  BY <1>2 DEF RowsOK
<1>12. ASSUME NEW i \in 1..Newest
       PROVE  old[i].live = FALSE
  BY <1>8, <1>11
<1> QED BY <1>2, <1>5, <1>8, <1>10, <1>12

(***************************************************************************)
(* Steps that leave the phone's envelope and the number of rows alone.     *)
(***************************************************************************)
SameEnvelope ==
    /\ envelope' \in Envelope
    /\ envelope'.session = envelope.session /\ envelope'.secret = envelope.secret
    /\ envelope'.pending = envelope.pending /\ envelope'.request = envelope.request

\* Requests are looked up, answered or given up, never made; callers do not
\* start to send an unbound one.
Quiet ==
    /\ mode' = mode /\ prepared' = prepared /\ SameEnvelope
    /\ RowsOK' /\ Grows /\ Newest' = Newest
    /\ receipt' \subseteq receipt
    /\ sent' \subseteq Post
    /\ \A p \in sent' :
          /\ \E q \in sent : /\ p.request = q.request /\ p.again = q.again
                            /\ (p.open => q.open)
          /\ p.open => reply' = reply
    /\ \A p, q \in sent' : p.open /\ q.open => p = q
    /\ mode = "LEGACY" =>
          \A p, q \in sent' : ~p.again /\ q.request.parent = Newest => p = q
    /\ \A p \in sent' : p.open =>
          \A c \in Callers : call[c].at = "waits" => call'[c].at = "waits"
    /\ \A c \in Callers : mode = "LEGACY" /\ call'[c].at = "ready" => call[c].at = "ready"

LEMMA QuietStep ==
    ASSUME IInv, Quiet, CountsOK', ReplyOK', CheckpointOK', CallsOK'
    PROVE  IInv'
<1>1. prepared \in Nat
  BY DEF IInv, CountsOK
<1>2. \A q : Genuine(q) => Genuine(q)'
  BY <1>1, GenuineStays DEF Quiet
<1>3. PostsOK'
  <2>1. ASSUME NEW p \in sent'
        PROVE  /\ Genuine(p.request)'
               /\ p.open => reply' = Waiting /\ \E c \in Callers : call'[c].at = "waits"
               /\ p.open => envelope'.pending /\ (mode' = "V2" => p.request = envelope'.request)
               /\ mode' = "V2" /\ Connected' /\ p.request.parent = Newest' =>
                     envelope'.pending /\ p.request = envelope'.request
    <3>1. PICK q \in sent : p.request = q.request /\ (p.open => q.open)
      BY DEF Quiet
    <3>2. Genuine(p.request)'
      BY <1>2, <3>1 DEF IInv, PostsOK
    <3>3. p.open => reply' = Waiting /\ \E c \in Callers : call'[c].at = "waits"
      BY <3>1 DEF IInv, PostsOK, Quiet
    <3>4. p.open => envelope'.pending /\ (mode' = "V2" => p.request = envelope'.request)
      BY <3>1 DEF IInv, PostsOK, Quiet, SameEnvelope
    <3>6. mode' = "V2" /\ Connected' /\ p.request.parent = Newest' =>
                     envelope'.pending /\ p.request = envelope'.request
      BY <3>1 DEF IInv, PostsOK, Quiet, SameEnvelope, Connected
    <3> QED BY <3>2, <3>3, <3>4, <3>6
  <2> QED BY <2>1 DEF PostsOK, Quiet
<1>4. ReceiptsOK'
  <2>1. ASSUME NEW r \in receipt'
        PROVE  /\ Genuine(r.request)'
               /\ r.successor = r.request.parent + 1 /\ r.successor <= Newest'
               /\ session'[r.successor].secret = r.request.next
    <3>1. r \in receipt /\ r \in Receipt
      BY DEF IInv, ReceiptsOK, Quiet
    <3>2. r.successor \in 1..Newest
      BY <3>1 DEF IInv, ReceiptsOK, Receipt, SessionIds, Quiet, Grows
    <3> QED BY <1>2, <3>1, <3>2 DEF IInv, ReceiptsOK, Quiet, Grows
  <2> QED BY <2>1 DEF ReceiptsOK, IInv, Quiet
<1>5. OneRequestEach'
  <2>1. \A x \in Made' : x \in Made
    BY DEF Made, Quiet, SameEnvelope
  <2> QED BY <2>1 DEF OneRequestEach, IInv, Quiet
<1>6. EnvelopeOK'
  <2>1. Newest \in Nat /\ (Newest >= 1 => session'[Newest].secret = session[Newest].secret)
    BY DEF Quiet, Grows
  <2>2. Newest >= 1
    BY DEF IInv, RowsOK
  <2>3. Connected' <=> Connected
    BY DEF Connected, Quiet, SameEnvelope
  <2>4. Connected => envelope.session \in 1..Newest
    BY <2>1 DEF Connected, IInv, EnvelopeOK, Envelope, SessionIds
  <2>5. Connected => session'[envelope.session].secret = session[envelope.session].secret
    BY <2>4 DEF Quiet, Grows
  <2> QED BY <2>1, <2>2, <2>3, <2>5 DEF EnvelopeOK, IInv, Quiet, SameEnvelope, LastRow
<1>7. UnboundOK'
  <2> SUFFICES ASSUME mode = "LEGACY"
               PROVE  UnboundOK'
    BY DEF Quiet, UnboundOK
  <2>1. \A p \in sent' :
           /\ p.request.parent = Newest => envelope.pending /\ envelope.session = Newest
           /\ ~p.again => p.request.parent = Newest
    BY DEF Quiet, IInv, UnboundOK
  <2>2. \A c \in Callers : call'[c].at = "ready" =>
           envelope.session = Newest /\ \A p \in sent' : p.request.parent # Newest
    BY DEF Quiet, IInv, UnboundOK
  <2>3. Connected' /\ (envelope.pending => envelope.session <= prepared)
    BY DEF Quiet, IInv, UnboundOK, SameEnvelope, Connected
  <2> QED BY <2>1, <2>2, <2>3 DEF UnboundOK, Quiet, SameEnvelope
<1>8. RowsOK'
  BY DEF Quiet
<1> QED BY <1>3, <1>4, <1>5, <1>6, <1>7, <1>8 DEF IInv

\* A caller's phase is all that a move changes of the callers.
LEMMA MovedCall ==
    ASSUME CallsOK, NEW c \in Callers, NEW at \in Phases, NEW s \in {0} \cup SessionIds,
           Moves(c, at, s)
    PROVE  /\ call' \in [Callers -> Call]
           /\ \A d \in Callers : call'[d].at = IF d = c THEN at ELSE call[d].at
<1>1. [at |-> at, session |-> s] \in Call
  BY DEF Call
<1>2. call' = [call EXCEPT ![c] = [at |-> at, session |-> s]]
  BY DEF Moves
<1>3. call \in [Callers -> Call]
  BY DEF CallsOK
<1>4. \A d \in Callers : call'[d] = IF d = c THEN [at |-> at, session |-> s] ELSE call[d]
  BY <1>2, <1>3
<1> QED BY <1>1, <1>2, <1>3, <1>4

\* A caller whose request is not under way moves on; the service is not asked.
LEMMA QuietCall ==
    ASSUME IInv, NEW c \in Callers, NEW at \in Phases,
           UNCHANGED <<mode, session, receipt, revoked, sent, envelope, prepared>>,
           \A d \in Callers : call'[d].at = IF d = c THEN at ELSE call[d].at,
           call[c].at # "waits" \/ reply # Waiting,
           reply' \in {reply, Waiting},
           at # "ready" \/ mode = "V2"
    PROVE  Quiet
<1>1. RowsOK' /\ Grows /\ Newest' = Newest
  BY RowsStay DEF IInv
<1>2. SameEnvelope
  BY DEF SameEnvelope, IInv, EnvelopeOK
<1>3. \A p \in sent : p.open => reply' = reply /\ call[c].at # "waits"
  BY DEF IInv, PostsOK
<1>4. mode = "LEGACY" =>
         \A p, q \in sent : ~p.again /\ q.request.parent = Newest => p = q
  BY DEF IInv, UnboundOK
<1>5. \A p, q \in sent : p.open /\ q.open => p = q
  BY DEF IInv, PostsOK
<1>8. sent' \subseteq Post
  BY DEF IInv, PostsOK
<1>9. \A p \in sent' : /\ \E q \in sent : /\ p.request = q.request /\ p.again = q.again
                                         /\ (p.open => q.open)
                       /\ p.open => reply' = reply
  BY <1>3
<1>10. \A p \in sent' : p.open =>
          \A d \in Callers : call[d].at = "waits" => call'[d].at = "waits"
  BY <1>3
<1>11. \A d \in Callers : mode = "LEGACY" /\ call'[d].at = "ready" => call[d].at = "ready"
  OBVIOUS
<1>12. sent' = sent /\ mode' = mode /\ prepared' = prepared /\ receipt' \subseteq receipt
  OBVIOUS
<1> QED BY <1>1, <1>2, <1>4, <1>5, <1>8, <1>9, <1>10, <1>11, <1>12 DEF Quiet

\* The token is used, rejected or asked for; nothing is rotated.
LEMMA UseStep ==
    ASSUME IInv, NEW c \in Callers,
           Access(c) \/ RequestEnds(c) \/ Rejected(c) \/ UseRotated(c) \/ NeedsUser(c)
    PROVE  IInv'
<1> USE DEF IInv
<1>1. envelope.session \in {0} \cup SessionIds /\ call[c].session \in {0} \cup SessionIds
  BY DEF EnvelopeOK, Envelope, CallsOK, Call
<1>2. /\ call[c].at \in {"idle", "uses", "wants"}
      /\ UNCHANGED <<mode, session, receipt, revoked, expired, sent, reply, envelope, gate,
                     prepared, faults>>
  BY DEF Access, RequestEnds, Rejected, UseRotated, NeedsUser
<1>3. \E at \in {"idle", "uses", "wants"} : \E s \in {0} \cup SessionIds : Moves(c, at, s)
  <2>1. CASE Access(c)
    BY <1>1, <2>1 DEF Access
  <2>2. CASE RequestEnds(c) \/ NeedsUser(c)
    <3>1. Moves(c, "idle", 0)
      BY <2>2 DEF RequestEnds, NeedsUser
    <3> QED BY <3>1
  <2>3. CASE Rejected(c)
    <3>1. Moves(c, "wants", call[c].session)
      BY <2>3 DEF Rejected
    <3> QED BY <1>1, <3>1
  <2>4. CASE UseRotated(c)
    <3>1. Moves(c, "uses", envelope.session)
      BY <2>4 DEF UseRotated
    <3> QED BY <1>1, <3>1
  <2> QED BY <2>1, <2>2, <2>3, <2>4
<1>4. PICK at \in {"idle", "uses", "wants"} :
         /\ call' \in [Callers -> Call]
         /\ \A d \in Callers : call'[d].at = IF d = c THEN at ELSE call[d].at
  BY <1>3, MovedCall DEF Phases
<1>5. Quiet
  <2>1. at \in Phases /\ at # "ready" /\ call[c].at # "waits" /\ reply' \in {reply, Waiting}
    BY <1>2 DEF Phases
  <2>2. UNCHANGED <<mode, session, receipt, revoked, sent, envelope, prepared>>
    BY <1>2
  <2> QED BY <1>4, <2>1, <2>2, QuietCall
<1>6. CallsOK'
  BY <1>2, <1>4 DEF CallsOK, Holding, Connected
<1>7. CheckpointOK'
  <2>1. CASE Access(c)
    BY <2>1 DEF Access, CheckpointOK, EnvelopeOK, Envelope, Connected, SessionIds
  <2>2. CASE ~Access(c)
    BY <2>2 DEF RequestEnds, Rejected, UseRotated, NeedsUser, CheckpointOK, Connected
  <2> QED BY <2>1, <2>2
<1>8. CountsOK'
  BY <1>2 DEF CountsOK
<1>9. ReplyOK'
  <2>1. reply # Waiting => \E d \in Callers : call'[d].at = "waits"
    BY <1>2, <1>4 DEF ReplyOK
  <2> QED BY <1>2, <2>1 DEF ReplyOK, Newest
<1> QED BY <1>5, <1>6, <1>7, <1>8, <1>9, QuietStep

\* A bound profile logs out, or its pending request is taken up again.
LEMMA LeaveStep ==
    ASSUME IInv, NEW c \in Callers,
           LogoutAuthenticated(c) \/ LogoutUnknown(c) \/ Resume(c)
    PROVE  IInv'
<1> USE DEF IInv
<1>1. envelope.session \in {0} \cup SessionIds
  BY DEF EnvelopeOK, Envelope
<1>2. /\ call[c].at \in {"idle", "wants", "left"}
      /\ UNCHANGED <<mode, session, receipt, revoked, expired, sent, reply, envelope,
                     checkpoint, prepared>>
  BY DEF LogoutAuthenticated, LogoutUnknown, Resume
<1>3. CountsOK'
  BY <1>2 DEF LogoutAuthenticated, LogoutUnknown, Resume, CountsOK, Fault
<1>4. CheckpointOK'
  BY <1>2 DEF CheckpointOK, Connected
<1>5. mode = "V2"
  BY DEF LogoutAuthenticated, LogoutUnknown, Resume, CallsOK
<1>6. ASSUME NEW at \in {"idle", "leaves", "ready"}, NEW s \in {0} \cup SessionIds,
             Moves(c, at, s)
      PROVE  /\ call' \in [Callers -> Call]
             /\ \A d \in Callers : call'[d].at = IF d = c THEN at ELSE call[d].at
             /\ Quiet /\ ReplyOK'
  <2>1. at \in Phases
    BY DEF Phases
  <2>2. /\ call' \in [Callers -> Call]
        /\ \A d \in Callers : call'[d].at = IF d = c THEN at ELSE call[d].at
    BY <1>6, <2>1, MovedCall
  <2>3. call[c].at # "waits" /\ reply' \in {reply, Waiting}
    BY <1>2
  <2>4. UNCHANGED <<mode, session, receipt, revoked, sent, envelope, prepared>>
    BY <1>2
  <2>5. Quiet
    BY <1>5, <2>1, <2>2, <2>3, <2>4, QuietCall
  <2>6. reply # Waiting => \E d \in Callers : call'[d].at = "waits"
    BY <2>2, <2>3 DEF ReplyOK
  <2> QED BY <1>2, <2>2, <2>5, <2>6 DEF ReplyOK, Newest
<1>7. CASE LogoutAuthenticated(c)
  <2>1. Moves(c, "leaves", envelope.session) /\ gate' = gate /\ call[c].at = "idle"
    BY <1>7 DEF LogoutAuthenticated
  <2>2. Quiet /\ ReplyOK' /\ call' \in [Callers -> Call]
        /\ \A d \in Callers : call'[d].at = IF d = c THEN "leaves" ELSE call[d].at
    BY <1>1, <1>6, <2>1
  <2>3. CallsOK'
    BY <1>2, <1>5, <2>1, <2>2 DEF CallsOK, Holding, Connected
  <2> QED BY <1>3, <1>4, <2>2, <2>3, QuietStep
<1>8. CASE LogoutUnknown(c)
  <2>1. Moves(c, "idle", 0) /\ gate' = gate /\ call[c].at = "left"
    BY <1>8 DEF LogoutUnknown
  <2>2. Quiet /\ ReplyOK' /\ call' \in [Callers -> Call]
        /\ \A d \in Callers : call'[d].at = IF d = c THEN "idle" ELSE call[d].at
    BY <1>6, <2>1
  <2>3. CallsOK'
    BY <1>2, <1>5, <2>1, <2>2 DEF CallsOK, Holding, Connected
  <2> QED BY <1>3, <1>4, <2>2, <2>3, QuietStep
<1>9. CASE Resume(c)
  <2>1. Moves(c, "ready", envelope.session) /\ gate = NoCaller /\ gate' = c
        /\ envelope.pending
    BY <1>9 DEF Resume
  <2>2. Quiet /\ ReplyOK' /\ call' \in [Callers -> Call]
        /\ \A d \in Callers : call'[d].at = IF d = c THEN "ready" ELSE call[d].at
    BY <1>1, <1>6, <2>1
  <2>3. \A d \in Callers : ~Holding(d)
    BY <2>1 DEF CallsOK, SessionsAssumption
  <2>4. CallsOK'
    BY <1>2, <1>5, <2>1, <2>2, <2>3 DEF CallsOK, Holding, Connected
  <2> QED BY <1>3, <1>4, <2>2, <2>4, QuietStep
<1> QED BY <1>7, <1>8, <1>9

\* The mutexes are let go after the checkpoint, the clearing, or a refusal.
LEMMA ReleaseStep ==
    ASSUME IInv, NEW c \in Callers,
           StoreCheckpoint(c) \/ ClearBinding(c) \/ RotationFails(c)
    PROVE  IInv'
<1> USE DEF IInv
<1>1. /\ call[c].at \in {"stored", "clears", "waits"} /\ gate' = NoCaller
      /\ UNCHANGED <<mode, session, receipt, revoked, expired, sent, envelope, prepared, faults>>
  BY DEF StoreCheckpoint, ClearBinding, RotationFails, Released
<1>2. gate = c /\ \A d \in Callers : d # c => ~Holding(d)
  BY <1>1 DEF CallsOK, Holding
<1>3. reply' \in {reply, Waiting}
  BY DEF StoreCheckpoint, ClearBinding, RotationFails
<1>4. reply' = Waiting
  <2>1. CASE RotationFails(c)
    BY <2>1 DEF RotationFails
  <2>2. CASE ~RotationFails(c)
    <3>1. call[c].at \in {"stored", "clears"} /\ reply' = reply
      BY <2>2 DEF StoreCheckpoint, ClearBinding
    <3>2. \A d \in Callers : call[d].at # "waits"
      BY <1>2, <3>1 DEF Holding
    <3> QED BY <3>1, <3>2 DEF ReplyOK
  <2> QED BY <2>1, <2>2
<1>5. Moves(c, "idle", 0) \/ Moves(c, "uses", envelope.session)
  BY DEF StoreCheckpoint, ClearBinding, RotationFails
<1>6. PICK at \in {"idle", "uses"} :
         /\ call' \in [Callers -> Call]
         /\ \A d \in Callers : call'[d].at = IF d = c THEN at ELSE call[d].at
  <2>1. "idle" \in Phases /\ "uses" \in Phases /\ envelope.session \in {0} \cup SessionIds
    BY DEF Phases, EnvelopeOK, Envelope
  <2>2. CASE Moves(c, "idle", 0)
    BY <2>1, <2>2, MovedCall
  <2>3. CASE Moves(c, "uses", envelope.session)
    BY <2>1, <2>3, MovedCall
  <2> QED BY <1>5, <2>2, <2>3
<1>7. Quiet
  <2>1. call[c].at # "waits" \/ reply # Waiting
    BY DEF StoreCheckpoint, ClearBinding, RotationFails, Refused, Failed, Waiting,
           SessionsAssumption
  <2>2. at \in Phases /\ (at # "ready" \/ mode = "V2")
    BY DEF Phases
  <2>3. UNCHANGED <<mode, session, receipt, revoked, sent, envelope, prepared>>
    BY <1>1
  <2> QED BY <1>3, <1>6, <2>1, <2>2, <2>3, QuietCall
<1>8. CallsOK'
  BY <1>1, <1>2, <1>6 DEF CallsOK, Holding, Connected, SessionsAssumption
<1>9. ReplyOK'
  <2>1. Waiting \notin SessionIds
    BY DEF Waiting, SessionIds, SessionsAssumption
  <2> QED BY <1>4, <2>1 DEF ReplyOK, Replies
<1>10. CheckpointOK'
  <2>1. CASE StoreCheckpoint(c)
    <3>1. Connected
      BY <1>1, <2>1 DEF CallsOK, StoreCheckpoint
    <3> QED BY <1>1, <2>1, <3>1
            DEF StoreCheckpoint, CheckpointOK, EnvelopeOK, Envelope, Connected, SessionIds
  <2>2. CASE ClearBinding(c)
    <3>1. ~Connected
      BY <2>2 DEF CallsOK, ClearBinding
    <3> QED BY <1>1, <2>2, <3>1 DEF ClearBinding, CheckpointOK, Connected
  <2>3. CASE RotationFails(c)
    BY <2>3 DEF RotationFails, CheckpointOK, Connected
  <2> QED BY <2>1, <2>2, <2>3
<1>11. CountsOK'
  BY <1>1 DEF CountsOK
<1> QED BY <1>7, <1>8, <1>9, <1>10, <1>11, QuietStep

\* Requests given up keep what they ask for; nobody waits for them.
LEMMA AbandonedPosts ==
    ASSUME IInv
    PROVE  /\ Abandoned \subseteq Post
           /\ \A p \in Abandoned :
                 ~p.open /\ \E q \in sent : p.request = q.request /\ p.again = q.again
           /\ mode = "LEGACY" =>
                 \A p, q \in Abandoned : ~p.again /\ q.request.parent = Newest => p = q
<1>1. sent \subseteq Post
  BY DEF IInv, PostsOK
<1>2. ASSUME NEW q \in Post
      PROVE  /\ [q EXCEPT !.open = FALSE] \in Post
             /\ [q EXCEPT !.open = FALSE].open = FALSE
             /\ [q EXCEPT !.open = FALSE].request = q.request
             /\ [q EXCEPT !.open = FALSE].again = q.again
  <2>1. \A x \in Post : [x EXCEPT !.open = FALSE] \in Post
    BY Zenon DEF Post
  <2>2. /\ [q EXCEPT !.open = FALSE].open = FALSE
        /\ [q EXCEPT !.open = FALSE].request = q.request
        /\ [q EXCEPT !.open = FALSE].again = q.again
    BY Zenon DEF Post
  <2> QED BY <2>1, <2>2
<1>3. mode = "LEGACY" =>
         \A p, q \in sent : ~p.again /\ q.request.parent = Newest => p = q
  BY DEF IInv, UnboundOK
<1> DEFINE cut(q) == [q EXCEPT !.open = FALSE]
<1>4. Abandoned = {cut(q) : q \in sent}
  BY DEF Abandoned
<1>5. \A q \in sent : /\ cut(q) \in Post /\ cut(q).open = FALSE
                      /\ cut(q).request = q.request /\ cut(q).again = q.again
  BY <1>1, <1>2
<1> HIDE DEF cut
<1> QED BY <1>3, <1>4, <1>5

\* A call is cut off, or all of them with the process.
LEMMA CutStep ==
    ASSUME IInv, Dies \/ \E c \in Callers : AnswerLost(c)
    PROVE  IInv'
<1> USE DEF IInv
<1>1. /\ sent' = Abandoned /\ reply' = Waiting /\ gate' = NoCaller
      /\ UNCHANGED <<mode, session, receipt, revoked, expired, envelope, checkpoint, prepared>>
      /\ Fault
  BY DEF Dies, AnswerLost, Released
<1>2. call' \in [Callers -> Call] /\ \A d \in Callers : call'[d].at = "idle" \/
         (call'[d].at = call[d].at /\ ~Holding(d))
  <2>1. CASE Dies
    <3>1. call' = [c \in Callers |-> Idle]
      BY <2>1 DEF Dies
    <3>2. Idle \in Call /\ Idle.at = "idle"
      BY DEF Idle, Call, Phases
    <3> QED BY <3>1, <3>2
  <2>2. ASSUME NEW c \in Callers, AnswerLost(c)
        PROVE  call' \in [Callers -> Call] /\ \A d \in Callers : call'[d].at = "idle" \/
                  (call'[d].at = call[d].at /\ ~Holding(d))
    <3>1. "idle" \in Phases /\ Moves(c, "idle", 0) /\ call[c].at = "waits"
      BY <2>2 DEF Phases, AnswerLost
    <3>2. /\ call' \in [Callers -> Call]
          /\ \A d \in Callers : call'[d].at = IF d = c THEN "idle" ELSE call[d].at
      BY <3>1, MovedCall
    <3>3. \A d \in Callers : d # c => ~Holding(d)
      BY <3>1 DEF CallsOK, Holding
    <3> QED BY <3>2, <3>3
  <2> QED BY <2>1, <2>2
<1>3. Quiet
  <2>1. RowsOK' /\ Grows /\ Newest' = Newest
    BY <1>1, RowsStay
  <2>2. SameEnvelope
    BY <1>1 DEF SameEnvelope, EnvelopeOK
  <2>3. Waiting \notin SessionIds
    BY DEF Waiting, SessionIds, SessionsAssumption
  <2>4. \A d \in Callers : call'[d].at = "ready" => call[d].at = "ready"
    BY <1>2
  <2> QED BY <1>1, <2>1, <2>2, <2>3, <2>4, AbandonedPosts DEF Quiet
<1>4. CallsOK'
  <2>1. \A d \in Callers : ~Holding(d)'
    BY <1>2 DEF Holding
  <2> QED BY <1>1, <1>2, <2>1 DEF CallsOK, Connected, Holding, SessionsAssumption
<1>5. ReplyOK'
  <2>1. Waiting \notin SessionIds
    BY DEF Waiting, SessionIds, SessionsAssumption
  <2> QED BY <1>1, <2>1 DEF ReplyOK, Replies
<1>6. CheckpointOK'
  BY <1>1 DEF CheckpointOK, Connected
<1>7. CountsOK'
  BY <1>1 DEF CountsOK, Fault, SessionsAssumption
<1> QED BY <1>3, <1>4, <1>5, <1>6, <1>7, QuietStep

\* What is under way at the service stays as it was, but for one request that
\* was looked up or has been answered.
Handled(p) ==
    /\ sent' \subseteq Post /\ p \in sent
    /\ \A x \in sent' : \/ x \in sent
                        \/ x.request = p.request /\ x.open = p.open /\ x.again = p.again
    /\ p \notin sent' \/ sent' \subseteq sent
    /\ \A x, y \in sent' : x \notin sent /\ y \notin sent => x = y
    /\ reply' = reply \/ (p.open /\ sent' = sent \ {p} /\ reply' \in Replies \ {Waiting})

\* The service changes nothing of the phone, revokes sessions at most, and
\* adds no row; an answer it gives is for the request it has handled.
LEMMA ServiceQuiet ==
    ASSUME IInv, mode' = mode,
           UNCHANGED <<envelope, checkpoint, gate, call, prepared>>,
           expired' \in BOOLEAN, faults' \in 0..MaxFaults,
           \/ session' = session /\ revoked' = revoked
           \/ revoked' = revoked /\ \E S : session' = Revoke(S)
           \/ session' = Revoke(AllOfDevice) /\ revoked' \in BOOLEAN,
           receipt' \subseteq receipt,
           (sent' = sent /\ reply' = reply) \/ \E p \in sent : Handled(p),
           reply' = reply \/ reply' \notin SessionIds
             \/ (reply' = Newest /\ mode = "V2" /\ envelope.pending /\ reply' = envelope.session + 1)
    PROVE  IInv'
<1> USE DEF IInv
<1>1. RowsOK' /\ Grows /\ Newest' = Newest
  BY RowsStay
<1>2. SameEnvelope
  BY DEF SameEnvelope, EnvelopeOK
<1>3. CountsOK'
  BY DEF CountsOK
<1>4. CheckpointOK'
  BY DEF CheckpointOK, Connected
<1>5. CallsOK'
  BY DEF CallsOK, Holding, Connected
<1>6. /\ reply' = reply \/ (reply' \in Replies /\ \E c \in Callers : call[c].at = "waits")
      /\ reply' \in Replies
  BY DEF ReplyOK, Handled, PostsOK
<1>7. ReplyOK'
  BY <1>1, <1>6 DEF ReplyOK
<1>8. Quiet
  <2>1. CASE sent' = sent /\ reply' = reply
    BY <1>1, <1>2, <2>1 DEF Quiet, PostsOK, UnboundOK
  <2>2. ASSUME NEW p \in sent, Handled(p)
        PROVE  Quiet
    <3>1. sent' \subseteq Post
      BY <2>2 DEF Handled
    <3>2. ASSUME NEW x \in sent'
          PROVE  /\ \E q \in sent : /\ x.request = q.request /\ x.again = q.again
                                   /\ (x.open => q.open)
                 /\ x.open => reply' = reply
      <4>1. \E q \in sent : x.request = q.request /\ x.again = q.again /\ (x.open => q.open)
        BY <2>2 DEF Handled
      <4>2. CASE x.open /\ reply' # reply
        <5>1. p.open /\ sent' = sent \ {p}
          BY <2>2, <4>2 DEF Handled
        <5>2. x \in sent /\ x # p
          BY <5>1
        <5> QED BY <4>2, <5>1, <5>2 DEF PostsOK
      <4> QED BY <4>1, <4>2
    <3>3. ASSUME NEW x \in sent', NEW y \in sent', x.open, y.open
          PROVE  x = y
      <4>1. CASE x \in sent /\ y \in sent
        BY <3>3, <4>1 DEF PostsOK
      <4>2. CASE x \notin sent /\ y \notin sent
        BY <2>2, <4>2 DEF Handled
      <4>3. CASE x \in sent /\ y \notin sent
        <5>1. p.open /\ p \notin sent'
          BY <2>2, <3>3, <4>3 DEF Handled
        <5> QED BY <3>3, <4>3, <5>1 DEF PostsOK
      <4>4. CASE x \notin sent /\ y \in sent
        <5>1. p.open /\ p \notin sent'
          BY <2>2, <3>3, <4>4 DEF Handled
        <5> QED BY <3>3, <4>4, <5>1 DEF PostsOK
      <4> QED BY <4>1, <4>2, <4>3, <4>4
    <3>4. ASSUME mode = "LEGACY", NEW x \in sent', NEW y \in sent',
                 ~x.again, y.request.parent = Newest
          PROVE  x = y
      <4>1. \A u, v \in sent : ~u.again /\ v.request.parent = Newest => u = v
        BY <3>4 DEF UnboundOK
      <4>2. CASE x \in sent /\ y \in sent
        BY <3>4, <4>1, <4>2
      <4>3. CASE x \notin sent /\ y \notin sent
        BY <2>2, <4>3 DEF Handled
      <4>4. CASE x \in sent /\ y \notin sent
        <5>1. p \notin sent' /\ p.request.parent = Newest /\ p \in sent
          BY <2>2, <3>4, <4>4 DEF Handled
        <5> QED BY <3>4, <4>1, <4>4, <5>1
      <4>5. CASE x \notin sent /\ y \in sent
        <5>1. p \notin sent' /\ ~p.again /\ p \in sent
          BY <2>2, <3>4, <4>5 DEF Handled
        <5> QED BY <3>4, <4>1, <4>5, <5>1
      <4> QED BY <4>2, <4>3, <4>4, <4>5
    <3> QED BY <1>1, <1>2, <3>1, <3>2, <3>3, <3>4 DEF Quiet
  <2> QED BY <2>1, <2>2
<1> QED BY <1>3, <1>4, <1>5, <1>7, <1>8, QuietStep

LEMMA ReplyKinds ==
    /\ Refused \in Replies \ {Waiting} /\ Refused \notin SessionIds
    /\ Failed \in Replies \ {Waiting} /\ Failed \notin SessionIds
    /\ SessionIds \subseteq Replies \ {Waiting}
BY DEF Refused, Failed, Waiting, Replies, SessionIds, SessionsAssumption

LEMMA AnsweredHandled ==
    ASSUME IInv, NEW p \in sent, NEW a \in Replies \ {Waiting}, Answered(p, a)
    PROVE  Handled(p)
BY DEF Answered, Handled, IInv, PostsOK

\* What others do to the family, and what befalls it.
LEMMA OthersStep ==
    ASSUME IInv,
           \/ LogoutAll \/ RevokeDevice \/ FamilyExpires \/ CleanReceipts
           \/ \E p \in sent : ServiceFails(p) \/ Discover(p)
    PROVE  IInv'
<1>1. CountsOK
  BY DEF IInv
<1>2. CASE LogoutAll \/ RevokeDevice \/ FamilyExpires \/ CleanReceipts
  BY <1>1, <1>2, ServiceQuiet DEF LogoutAll, RevokeDevice, FamilyExpires, CleanReceipts, CountsOK
<1>3. ASSUME NEW p \in sent, ServiceFails(p)
      PROVE  IInv'
  <2>1. Handled(p) /\ (reply' = reply \/ reply' \notin SessionIds)
    BY <1>3, ReplyKinds, AnsweredHandled DEF ServiceFails, Answered
  <2>2. faults' \in 0..MaxFaults
    BY <1>1, <1>3 DEF ServiceFails, CountsOK, SessionsAssumption
  <2> QED BY <1>1, <1>3, <2>1, <2>2, ServiceQuiet DEF ServiceFails, CountsOK
<1>4. ASSUME NEW p \in sent, Discover(p)
      PROVE  IInv'
  <2>1. p \in Post /\ p.seen = "not yet"
    BY <1>4 DEF IInv, PostsOK, Discover
  <2>2. PICK n \in {"live", "dead"} : sent' = (sent \ {p}) \cup {[p EXCEPT !.seen = n]}
    BY <1>4 DEF Discover
  <2>3. \A x \in Post : \A m \in {"live", "dead"} : [x EXCEPT !.seen = m] \in Post
    BY Zenon DEF Post
  <2>4. \A x \in Post : \A m \in {"live", "dead"} :
           /\ [x EXCEPT !.seen = m].request = x.request
           /\ [x EXCEPT !.seen = m].open = x.open
           /\ [x EXCEPT !.seen = m].again = x.again
           /\ [x EXCEPT !.seen = m].seen = m
    BY Zenon DEF Post
  <2> DEFINE q == [p EXCEPT !.seen = n]
  <2>5. /\ q \in Post /\ q.request = p.request /\ q.open = p.open /\ q.seen = n
        /\ q.again = p.again
    BY <2>1, <2>3, <2>4, Zenon
  <2>6. sent' = (sent \ {p}) \cup {q}
    BY <2>2
  <2> HIDE DEF q
  <2>7. q # p
    BY <2>1, <2>5
  <2>8. Handled(p)
    <3>1. reply' = reply
      BY <1>4 DEF Discover
    <3> QED BY <2>5, <2>6, <2>7, <3>1 DEF Handled, IInv, PostsOK
  <2> QED BY <1>1, <1>4, <2>8, ServiceQuiet DEF Discover, CountsOK
<1> QED BY <1>2, <1>3, <1>4

\* The one thing the service does that adds a row.
Rotates(p) ==
    /\ session[p.request.parent].live /\ ~revoked
    /\ session' = Rotated(p) /\ Answered(p, Newest + 1)
    /\ receipt' = IF mode = "V2"
                  THEN receipt \cup {[request |-> p.request, successor |-> Newest + 1]}
                  ELSE receipt
    /\ UNCHANGED <<mode, revoked, expired, envelope, checkpoint, gate, call, prepared, faults>>

\* A refusal, a logout by a replay, and an answer from a receipt.
LEMMA NoRotationStep ==
    ASSUME IInv, NEW p \in sent, Serve(p), ~Rotates(p)
    PROVE  IInv'
<1>1. CountsOK /\ Genuine(p.request) /\ Parent(p.request) = p.request.parent
  BY ParentOf DEF IInv, PostsOK
<1>2. CASE Discover(p)
  BY <1>2, OthersStep
<1>3. CASE RotateLegacy(p)
  <2>1. /\ \E S : session' = Revoke(S)
        /\ Answered(p, Refused)
    BY <1>1, <1>3 DEF RotateLegacy, Rotates, Exchangeable, Newest
  <2>2. Handled(p) /\ (reply' = reply \/ reply' \notin SessionIds)
    BY <2>1, ReplyKinds, AnsweredHandled DEF Answered
  <2>3. /\ UNCHANGED <<mode, receipt, revoked, expired, envelope, checkpoint, gate, call,
                       prepared, faults>>
        /\ expired' \in BOOLEAN /\ faults' \in 0..MaxFaults
    BY <1>1, <1>3 DEF RotateLegacy, CountsOK
  <2> QED BY <2>1, <2>2, <2>3, ServiceQuiet
<1>4. CASE RotateBound(p)
  <2>1. /\ UNCHANGED <<mode, expired, envelope, checkpoint, gate, call, prepared, faults>>
        /\ mode = "V2" /\ expired' \in BOOLEAN /\ faults' \in 0..MaxFaults
    BY <1>1, <1>4 DEF RotateBound, CountsOK
  <2>2. ASSUME Answered(p, Refused), receipt' = receipt,
               \/ session' = session /\ revoked' = revoked
               \/ session' = Revoke(AllOfDevice) /\ revoked' = TRUE
        PROVE  IInv'
    <3>1. Handled(p) /\ (reply' = reply \/ reply' \notin SessionIds)
      BY <2>2, ReplyKinds, AnsweredHandled DEF Answered
    <3>2. receipt' \subseteq receipt
      BY <2>2
    <3> QED BY <2>1, <2>2, <3>1, <3>2, ServiceQuiet
  <2>3. ASSUME NEW r \in Spent(p.request), r.request = p.request,
               Answered(p, r.successor), Authorized(r.successor),
               UNCHANGED <<session, revoked, receipt>>
        PROVE  IInv'
    <3>1. /\ r.successor = p.request.parent + 1 /\ r.successor <= Newest
          /\ r.successor \in SessionIds
      BY <2>3 DEF Spent, IInv, ReceiptsOK, Receipt
    <3>2. r.successor \in 1..Newest
      BY <3>1 DEF SessionIds, IInv, RowsOK, Newest
    <3>3. r.successor = Newest
      BY <2>3, <3>2 DEF Authorized, IInv, RowsOK
    <3>4. Handled(p)
      BY <2>3, <3>1, ReplyKinds, AnsweredHandled
    <3>5. \/ reply' = reply
          \/ reply' = Newest /\ mode = "V2" /\ envelope.pending /\ reply' = envelope.session + 1
      <4>1. CASE p.open
        <5>1. envelope.pending /\ p.request = envelope.request
          BY <2>1, <4>1 DEF IInv, PostsOK
        <5>2. envelope.request.parent = envelope.session
          BY <2>1, <5>1 DEF IInv, EnvelopeOK
        <5> QED BY <2>1, <2>3, <3>1, <3>3, <4>1, <5>1, <5>2 DEF Answered
      <4>2. CASE ~p.open
        BY <2>3, <4>2 DEF Answered
      <4> QED BY <4>1, <4>2
    <3> QED BY <2>1, <2>3, <3>4, <3>5, ServiceQuiet
  <2>4. ~(/\ Exchangeable(p) /\ ~revoked
          /\ session' = Rotated(p) /\ Answered(p, Len(session) + 1)
          /\ receipt' = receipt \cup {[request |-> p.request, successor |-> Len(session) + 1]}
          /\ revoked' = revoked)
    BY <1>1, <2>1 DEF Rotates, Exchangeable, Newest
  <2>5. CASE \E r \in Spent(p.request) :
               /\ r.request # p.request
               /\ session' = Revoke(AllOfDevice) /\ revoked' = TRUE
               /\ Answered(p, Refused) /\ receipt' = receipt
    BY <2>2, <2>5
  <2>6. CASE \E r \in Spent(p.request) :
               /\ r.request = p.request
               /\ Answered(p, IF Authorized(r.successor) THEN r.successor ELSE Refused)
               /\ UNCHANGED <<session, revoked, receipt>>
    BY <2>2, <2>3, <2>6
  <2>7. CASE Answered(p, Refused) /\ UNCHANGED <<session, receipt, revoked>>
    BY <2>2, <2>7
  <2> QED BY <1>4, <2>4, <2>5, <2>6, <2>7 DEF RotateBound
<1> QED BY <1>2, <1>3, <1>4 DEF Serve

\* A request that is still exchangeable names the newest row.
LEMMA LiveParent ==
    ASSUME IInv, NEW p \in sent, session[p.request.parent].live
    PROVE  p.request.parent = Newest /\ (mode = "LEGACY" => Newest <= prepared)
<1>1. p.request.parent \in 1..Newest
  BY ParentOf DEF IInv, PostsOK
<1> QED BY <1>1 DEF IInv, RowsOK, UnboundOK

\* A rotation: the newest row, which the request names, gets its successor.
LEMMA RotationStep ==
    ASSUME IInv, NEW p \in sent, Rotates(p)
    PROVE  IInv'
<1> USE DEF IInv
<1>1. /\ Genuine(p.request) /\ (mode = "LEGACY" => Newest <= prepared)
      /\ session[p.request.parent].live /\ ~revoked
      /\ UNCHANGED <<mode, revoked, expired, envelope, checkpoint, gate, call, prepared, faults>>
  BY LiveParent DEF PostsOK, Rotates
<1>2. /\ p.request.parent = Newest
      /\ session' \in Seq(Row) /\ Newest' = Newest + 1
      /\ \A i \in 1..Newest :
            /\ session'[i].secret = session[i].secret
            /\ session'[i].generation = session[i].generation
            /\ session'[i].live = FALSE
      /\ session'[Newest + 1].secret = IF mode = "LEGACY" THEN Newest ELSE p.request.next
      /\ session'[Newest + 1].generation = Newest
  BY <1>1, RotatedRows DEF Rotates, Newest
<1>3. /\ Newest \in Nat /\ Newest >= 1 /\ prepared \in Nat /\ Newest \in 1..Newest
      /\ mode \in {"LEGACY", "V2"}
  BY LenProperties DEF RowsOK, Newest, CountsOK
<1>4. Grows
  BY <1>2, <1>3 DEF Grows
<1>5. \A q : Genuine(q) => Genuine(q)'
  BY <1>1, <1>3, <1>4, GenuineStays
<1>6. mode = "V2" => /\ p.request.next <= prepared /\ Newest <= p.request.next
                     /\ p.request.next \in Nat
  <2>1. p.request.current \in Nat /\ p.request.next \in Nat
    BY <1>1 DEF Genuine, Request, Secrets
  <2>2. Newest - 1 <= session[Newest].secret
    BY <1>3 DEF RowsOK
  <2> QED BY <1>1, <1>2, <1>3, <2>1, <2>2 DEF Genuine
<1>7. RowsOK'
  <2>1. ASSUME NEW i \in 1..(Newest + 1)
        PROVE  /\ session'[i].generation = i - 1
               /\ i - 1 <= session'[i].secret /\ session'[i].secret <= prepared
               /\ mode = "LEGACY" => session'[i].secret = i - 1
    <3>1. CASE i \in 1..Newest
      BY <1>2, <3>1 DEF RowsOK
    <3>2. CASE i = Newest + 1
      BY <1>1, <1>2, <1>3, <1>6, <3>2
    <3> QED BY <1>3, <3>1, <3>2
  <2>2. ASSUME NEW i \in 1..(Newest + 1), session'[i].live
        PROVE  i = Newest + 1
    <3>1. i \notin 1..Newest
      BY <1>2, <2>2, Zenon
    <3> QED BY <1>3, <3>1
  <2> QED BY <1>1, <1>2, <1>3, <2>1, <2>2 DEF RowsOK
<1>8. CountsOK' /\ CheckpointOK' /\ CallsOK'
  BY <1>1 DEF CountsOK, CheckpointOK, CallsOK, Holding, Connected
<1>9. sent' = sent \ {p} /\ reply' = IF p.open THEN Newest + 1 ELSE reply
  BY DEF Rotates, Answered
<1>10. Newest + 1 \in SessionIds
  <2>1. Newest <= prepared
    BY <1>1, <1>3, <1>6
  <2> QED BY <1>3, <2>1 DEF CountsOK, SessionIds, SessionsAssumption
<1>11. mode = "LEGACY" => /\ \A x \in sent' : x.again
                          /\ envelope.pending /\ envelope.session = Newest
                          /\ \A c \in Callers : call[c].at # "ready"
  BY <1>2, <1>9 DEF UnboundOK
<1>12. PostsOK'
  <2>1. ASSUME NEW x \in sent'
        PROVE  /\ Genuine(x.request)'
               /\ x.open => reply' = Waiting /\ \E c \in Callers : call'[c].at = "waits"
               /\ x.open => envelope'.pending /\ (mode' = "V2" => x.request = envelope'.request)
               /\ mode' = "V2" /\ Connected' /\ x.request.parent = Newest' =>
                     envelope'.pending /\ x.request = envelope'.request
    <3>1. x \in sent /\ x # p /\ Genuine(x.request)'
      BY <1>5, <1>9 DEF PostsOK
    <3>2. x.open => reply' = Waiting /\ \E c \in Callers : call'[c].at = "waits"
      BY <1>1, <1>9, <3>1 DEF PostsOK
    <3>3. x.open => envelope'.pending /\ (mode' = "V2" => x.request = envelope'.request)
      BY <1>1, <3>1 DEF PostsOK
    <3>5. x.request.parent \in Nat /\ x.request.parent <= Newest
      BY <3>1 DEF PostsOK, Genuine, Request, SessionIds
    <3>6. x.request.parent # Newest'
      BY <1>2, <1>3, <3>5
    <3> QED BY <1>1, <3>1, <3>2, <3>3, <3>6
  <2> QED BY <1>9, <2>1 DEF PostsOK
<1>13. ReceiptsOK'
  <2> DEFINE new == [request |-> p.request, successor |-> Newest + 1]
  <2>1. new \in Receipt /\ new.request = p.request /\ new.successor = Newest + 1
    BY <1>1, <1>10 DEF Receipt, Genuine
  <2>2. receipt' = IF mode = "V2" THEN receipt \cup {new} ELSE receipt
    BY DEF Rotates
  <2> HIDE DEF new
  <2>3. receipt' \subseteq Receipt /\ (mode = "LEGACY" => receipt' = {})
    BY <2>1, <2>2 DEF ReceiptsOK
  <2>4. ASSUME NEW r \in receipt'
        PROVE  /\ Genuine(r.request)'
               /\ r.successor = r.request.parent + 1 /\ r.successor <= Newest'
               /\ session'[r.successor].secret = r.request.next
    <3>1. CASE r \in receipt
      <4>1. r.successor \in 1..Newest
        BY <3>1 DEF ReceiptsOK, Receipt, SessionIds
      <4> QED BY <1>2, <1>3, <1>5, <3>1, <4>1 DEF ReceiptsOK
    <3>2. CASE r = new /\ mode = "V2"
      BY <1>1, <1>2, <1>3, <1>5, <2>1, <3>2
    <3> QED BY <2>2, <3>1, <3>2
  <2> QED BY <1>1, <2>3, <2>4 DEF ReceiptsOK
<1>14. OneRequestEach'
  <2>1. \A r \in receipt' : r \in receipt \/ r.request = p.request
    BY DEF Rotates
  <2>2. \A x \in Made' : x \in Made
    BY <1>1, <1>9, <2>1 DEF Made
  <2> QED BY <1>1, <2>2 DEF OneRequestEach
<1>15. EnvelopeOK'
  <2>1. Connected' <=> Connected
    BY <1>1 DEF Connected
  <2>2. Connected => envelope.session \in 1..Newest
    BY <1>3 DEF Connected, EnvelopeOK, Envelope, SessionIds
  <2>3. mode = "V2" /\ Connected =>
           envelope.pending /\ envelope.session = Newest /\ p.request.next = prepared
    BY <1>2 DEF PostsOK, EnvelopeOK
  <2>4. mode = "LEGACY" => envelope.pending
    BY <1>11
  <2>5. Connected => /\ envelope.session <= Newest + 1
                     /\ envelope.secret = session'[envelope.session].secret
    BY <1>2, <1>3, <2>2 DEF EnvelopeOK
  <2>6. mode = "V2" /\ Connected => session'[Newest + 1].secret = prepared
    BY <1>2, <2>3
  <2> QED BY <1>1, <1>2, <2>1, <2>3, <2>4, <2>5, <2>6 DEF EnvelopeOK, LastRow
<1>16. UnboundOK'
  <2>1. \A x \in sent' : x.request.parent \in Nat /\ x.request.parent <= Newest
    BY <1>9 DEF PostsOK, Genuine, Request, SessionIds
  <2>2. \A x \in sent' : x.request.parent # Newest'
    BY <1>2, <1>3, <2>1
  <2> QED BY <1>1, <1>11, <2>2 DEF UnboundOK, Connected
<1>17. ReplyOK'
  <2>1. CASE p.open
    <3>1. reply' = Newest + 1
      BY <1>9, <2>1
    <3>2. \E c \in Callers : call'[c].at = "waits"
      BY <1>1, <2>1 DEF PostsOK
    <3>3. envelope.pending /\ Newest = envelope.session
      BY <1>2, <1>3, <1>11, <2>1 DEF PostsOK, EnvelopeOK
    <3> QED BY <1>1, <1>2, <1>10, <3>1, <3>2, <3>3, ReplyKinds DEF ReplyOK
  <2>2. CASE ~p.open
    <3>1. reply' = reply
      BY <1>9, <2>2
    <3>2. reply \notin SessionIds
      <4>1. CASE mode = "LEGACY"
        BY <1>3, <1>11, <4>1 DEF ReplyOK
      <4>2. CASE mode = "V2"
        <5>1. ASSUME reply \in SessionIds
              PROVE  FALSE
          <6>1. envelope.pending /\ Newest = envelope.session + 1 /\ Connected
            BY <4>2, <5>1 DEF ReplyOK, EnvelopeOK
          <6>2. p.request = envelope.request
            BY <1>2, <4>2, <6>1 DEF PostsOK
          <6>3. envelope.request.parent = envelope.session
            BY <4>2, <6>1 DEF EnvelopeOK
          <6> QED BY <1>2, <1>3, <6>1, <6>2, <6>3 DEF Envelope, EnvelopeOK, SessionIds
        <5> QED BY <5>1
      <4> QED BY <1>3, <4>1, <4>2
    <3> QED BY <1>1, <3>1, <3>2 DEF ReplyOK
  <2> QED BY <2>1, <2>2
<1> QED BY <1>7, <1>8, <1>12, <1>13, <1>14, <1>15, <1>16, <1>17

\* The access token nears its end.
LEMMA AgeStep ==
    ASSUME IInv, TokenAges
    PROVE  IInv'
<1> USE DEF IInv
<1>1. /\ envelope' = [envelope EXCEPT !.fresh = FALSE] /\ envelope \in Envelope
      /\ UNCHANGED <<mode, session, receipt, revoked, expired, sent, reply,
                     checkpoint, gate, call, prepared, faults>>
  BY DEF TokenAges, EnvelopeOK
<1>2. SameEnvelope
  <2>1. envelope' \in Envelope
    BY <1>1, Zenon DEF Envelope
  <2>2. /\ envelope'.session = envelope.session /\ envelope'.secret = envelope.secret
        /\ envelope'.pending = envelope.pending /\ envelope'.request = envelope.request
    BY <1>1, Zenon DEF Envelope
  <2> QED BY <2>1, <2>2 DEF SameEnvelope
<1>3. RowsOK' /\ Grows /\ Newest' = Newest
  BY <1>1, RowsStay
<1>4. Quiet
  BY <1>1, <1>2, <1>3 DEF Quiet, PostsOK, UnboundOK
<1>5. CallsOK' /\ ReplyOK' /\ CheckpointOK' /\ CountsOK'
  BY <1>1, <1>2, <1>3
     DEF CallsOK, ReplyOK, CheckpointOK, CountsOK, Holding, Connected, SameEnvelope
<1> QED BY <1>4, <1>5, QuietStep

\* The logout of the current session arrives.
LEMMA LogoutStep ==
    ASSUME IInv, NEW c \in Callers, LogoutCurrent(c)
    PROVE  IInv'
<1> USE DEF IInv
<1>1. /\ call[c].at = "leaves" /\ session' = Revoke({call[c].session})
      /\ Moves(c, "left", call[c].session)
      /\ UNCHANGED <<mode, receipt, revoked, expired, sent, reply,
                     envelope, checkpoint, gate, prepared, faults>>
  BY DEF LogoutCurrent
<1>2. /\ call' \in [Callers -> Call]
      /\ \A d \in Callers : call'[d].at = IF d = c THEN "left" ELSE call[d].at
  <2>1. "left" \in Phases /\ call[c].session \in {0} \cup SessionIds
    BY DEF Phases, CallsOK, Call
  <2> QED BY <1>1, <2>1, MovedCall
<1>3. SameEnvelope
  BY <1>1 DEF SameEnvelope, EnvelopeOK
<1>4. RowsOK' /\ Grows /\ Newest' = Newest
  BY <1>1, RowsStay
<1>5. Quiet
  BY <1>1, <1>2, <1>3, <1>4 DEF Quiet, PostsOK, UnboundOK
<1>6. CallsOK'
  BY <1>1, <1>2 DEF CallsOK, Holding, Connected
<1>7. ReplyOK'
  <2>1. reply # Waiting => \E d \in Callers : call'[d].at = "waits"
    BY <1>1, <1>2 DEF ReplyOK
  <2> QED BY <1>1, <1>4, <2>1 DEF ReplyOK
<1>8. CheckpointOK' /\ CountsOK'
  BY <1>1 DEF CheckpointOK, CountsOK, Connected
<1> QED BY <1>5, <1>6, <1>7, <1>8, QuietStep

(***************************************************************************)
(* Steps of the caller inside the mutexes that write the envelope or send. *)
(***************************************************************************)
\* The caller that takes the mutexes, or has them, is alone with them.
LEMMA Alone ==
    ASSUME CallsOK, NEW c \in Callers, Holding(c) \/ gate = NoCaller,
           NEW d \in Callers, d # c
    PROVE  ~Holding(d) /\ call[d].at \notin {"ready", "waits", "stored", "clears"}
BY DEF CallsOK, Holding, SessionsAssumption

\* Without a caller that waits, no request is open and no reply is pending.
LEMMA NobodyWaits ==
    ASSUME IInv, \A d \in Callers : call[d].at # "waits"
    PROVE  reply = Waiting /\ \A p \in sent : ~p.open
BY DEF IInv, ReplyOK, PostsOK

\* The envelope is cleared: nothing is pending any more.
LEMMA ClearStep ==
    ASSUME IInv, NEW c \in Callers, ClearCredentials(c)
    PROVE  IInv'
<1> USE DEF IInv
<1>1. /\ call[c].at = "left" /\ gate = NoCaller /\ gate' = c
      /\ envelope' = NoEnvelope /\ Moves(c, "clears", 0) /\ mode = "V2"
      /\ UNCHANGED <<mode, session, receipt, revoked, expired, sent, reply,
                     checkpoint, prepared, faults>>
  BY DEF ClearCredentials, CallsOK
<1>2. /\ call' \in [Callers -> Call]
      /\ \A d \in Callers : call'[d].at = IF d = c THEN "clears" ELSE call[d].at
  <2>1. "clears" \in Phases
    BY DEF Phases
  <2> QED BY <1>1, <2>1, MovedCall
<1>3. \A d \in Callers : ~Holding(d)
  BY <1>1 DEF CallsOK, SessionsAssumption
<1>4. reply = Waiting /\ \A p \in sent : ~p.open
  BY <1>3, NobodyWaits DEF Holding
<1>5. /\ envelope' \in Envelope /\ envelope'.session = 0 /\ ~Connected'
      /\ ~envelope'.pending
  BY <1>1 DEF NoEnvelope, Envelope, Connected, Secrets, SessionsAssumption
<1>6. RowsOK' /\ Grows /\ Newest' = Newest
  BY <1>1, RowsStay
<1>7. \A q : Genuine(q)' <=> Genuine(q)
  BY <1>1 DEF Genuine, Newest
<1>8. PostsOK'
  BY <1>1, <1>4, <1>5, <1>7 DEF PostsOK
<1>9. ReceiptsOK'
  BY <1>1, <1>6, <1>7 DEF ReceiptsOK
<1>10. OneRequestEach'
  <2>1. \A x \in Made' : x \in Made
    BY <1>1, <1>5 DEF Made
  <2> QED BY <1>1, <2>1 DEF OneRequestEach
<1>11. EnvelopeOK'
  BY <1>5 DEF EnvelopeOK
<1>12. UnboundOK'
  BY <1>1 DEF UnboundOK
<1>13. ReplyOK'
  <2>1. Waiting \notin SessionIds
    BY ReplyKinds
  <2> QED BY <1>1, <1>4, <2>1 DEF ReplyOK
<1>14. CheckpointOK' /\ CountsOK'
  BY <1>1, <1>5 DEF CheckpointOK, CountsOK
<1>15. CallsOK'
  BY <1>1, <1>2, <1>3, <1>5 DEF CallsOK, Holding, SessionsAssumption
<1> QED BY <1>6, <1>8, <1>9, <1>10, <1>11, <1>12, <1>13, <1>14, <1>15

\* The request of a rotation that is begun.
LEMMA NewRequestTyped ==
    ASSUME IInv, Connected, NEW n \in Rotations
    PROVE  NewRequest(n) \in Request
BY DEF IInv, EnvelopeOK, Envelope, Connected, NewRequest, Request, Rotations, Secrets

LEMMA PrepareStep ==
    ASSUME IInv, NEW c \in Callers, Prepare(c)
    PROVE  IInv'
<1> USE DEF IInv
<1>1. /\ call[c].at = "wants" /\ gate = NoCaller /\ gate' = c /\ Connected /\ ~envelope.pending
      /\ prepared < MaxRotations /\ prepared' = prepared + 1
      /\ UNCHANGED <<mode, session, receipt, revoked, expired, sent, reply, checkpoint, faults>>
  BY DEF Prepare
<1>2. /\ call' \in [Callers -> Call]
      /\ \A d \in Callers : call'[d].at = IF d = c THEN "ready" ELSE call[d].at
  <2>1. "ready" \in Phases /\ envelope.session \in {0} \cup SessionIds
    BY DEF Phases, EnvelopeOK, Envelope
  <2>2. Moves(c, "ready", envelope.session)
    BY DEF Prepare
  <2> QED BY <2>1, <2>2, MovedCall
<1>3. \A d \in Callers : ~Holding(d)
  BY <1>1 DEF CallsOK, SessionsAssumption
<1>4. reply = Waiting /\ \A p \in sent : ~p.open
  BY <1>3, NobodyWaits DEF Holding
<1>5. /\ prepared \in Nat /\ prepared + 1 \in Rotations /\ prepared + 1 \in 0..MaxRotations
      /\ mode \in {"LEGACY", "V2"}
  BY <1>1 DEF CountsOK, Rotations, SessionsAssumption
<1>6. NewRequest(prepared + 1) \in Request
  BY <1>1, <1>5, NewRequestTyped
<1>7. /\ envelope' \in Envelope /\ envelope'.pending
      /\ envelope'.session = envelope.session /\ envelope'.secret = envelope.secret
      /\ mode = "V2" => envelope'.request = NewRequest(prepared + 1)
  <2> DEFINE q == NewRequest(prepared + 1)
  <2>1. envelope \in Envelope
    BY DEF EnvelopeOK
  <2>2. CASE mode = "V2"
    <3>1. envelope' = [[envelope EXCEPT !.request = q] EXCEPT !.pending = TRUE]
      BY <2>2 DEF Prepare, Persisted
    <3> HIDE DEF q
    <3>2. \A e \in Envelope : \A r \in Request :
             /\ [[e EXCEPT !.request = r] EXCEPT !.pending = TRUE] \in Envelope
             /\ [[e EXCEPT !.request = r] EXCEPT !.pending = TRUE].pending
             /\ [[e EXCEPT !.request = r] EXCEPT !.pending = TRUE].session = e.session
             /\ [[e EXCEPT !.request = r] EXCEPT !.pending = TRUE].secret = e.secret
             /\ [[e EXCEPT !.request = r] EXCEPT !.pending = TRUE].request = r
      BY Zenon DEF Envelope
    <3> QED BY <1>6, <2>1, <3>1, <3>2, Zenon DEF q
  <2>3. CASE mode # "V2"
    <3>1. envelope' = [envelope EXCEPT !.pending = TRUE]
      BY <2>3 DEF Prepare, Persisted
    <3>2. \A e \in Envelope :
             /\ [e EXCEPT !.pending = TRUE] \in Envelope
             /\ [e EXCEPT !.pending = TRUE].pending
             /\ [e EXCEPT !.pending = TRUE].session = e.session
             /\ [e EXCEPT !.pending = TRUE].secret = e.secret
      BY Zenon DEF Envelope
    <3> QED BY <2>1, <2>3, <3>1, <3>2, Zenon
  <2> QED BY <2>2, <2>3
<1>8. Connected'
  BY <1>1, <1>7 DEF Connected
<1>9. /\ Newest \in Nat /\ Newest' = Newest /\ session' = session
      /\ envelope.session \in 1..Newest
  BY <1>1, LenProperties DEF RowsOK, Newest, EnvelopeOK, Envelope, Connected, SessionIds
<1>10. envelope.session = Newest
  BY <1>1, <1>5 DEF EnvelopeOK
<1>11. Grows /\ \A q : Genuine(q) => Genuine(q)'
  <2>1. Grows
    BY <1>9 DEF Grows
  <2> QED BY <1>1, <1>5, <2>1, GenuineStays
<1>12. RowsOK'
  <2>1. ASSUME NEW i \in 1..Newest
        PROVE  /\ session'[i].generation = i - 1
               /\ i - 1 <= session'[i].secret /\ session'[i].secret <= prepared'
               /\ mode' = "LEGACY" => session'[i].secret = i - 1
    <3>1. session[i] \in Row
      BY <1>9, ElementOfSeq DEF RowsOK, Newest
    <3>2. session[i].secret \in Nat
      BY <3>1 DEF Row, Secrets
    <3> QED BY <1>1, <1>5, <3>2 DEF RowsOK
  <2>2. \A i \in 1..Newest : session'[i].live => i = Newest /\ ~revoked'
    BY <1>1, <1>9, Zenon DEF RowsOK
  <2>3. session' \in Seq(Row) /\ Newest' >= 1
    BY <1>9 DEF RowsOK
  <2> QED BY <1>9, <2>1, <2>2, <2>3 DEF RowsOK
<1>13. envelope.secret <= prepared /\ envelope.secret \in Nat
  BY <1>1, <1>9 DEF EnvelopeOK, RowsOK, Envelope, Secrets
<1>14. PostsOK'
  <2>1. \A p \in sent : mode = "V2" => p.request.parent # Newest
    BY <1>1 DEF PostsOK
  <2> QED BY <1>1, <1>4, <1>5, <1>9, <1>11, <2>1 DEF PostsOK
<1>15. ReceiptsOK'
  BY <1>1, <1>9, <1>11 DEF ReceiptsOK
<1>16. OneRequestEach'
  <2>1. CASE mode = "V2"
    <3>1. \A x \in Made' : x = NewRequest(prepared + 1)
                          \/ (x \in Made /\ x.rotation <= prepared /\ x.rotation \in Nat)
      BY <1>1, <1>7, <2>1 DEF Made, PostsOK, ReceiptsOK, Genuine, Request, Rotations
    <3>2. NewRequest(prepared + 1).rotation = prepared + 1
      BY DEF NewRequest
    <3> QED BY <1>1, <1>5, <2>1, <3>1, <3>2 DEF OneRequestEach
  <2>2. CASE mode = "LEGACY"
    BY <1>1, <2>2 DEF OneRequestEach
  <2> QED BY <1>5, <2>1, <2>2
<1>17. EnvelopeOK'
  BY <1>1, <1>5, <1>7, <1>8, <1>9, <1>10, <1>13 DEF EnvelopeOK, NewRequest
<1>18. UnboundOK'
  <2>1. CASE mode = "LEGACY"
    <3>1. \A p \in sent : p.request.parent # Newest /\ p.again
      BY <1>1, <2>1 DEF UnboundOK
    <3>2. Newest <= prepared + 1
      <4>1. Newest - 1 <= session[Newest].secret /\ session[Newest].secret <= prepared
        BY <1>9, <1>10 DEF RowsOK
      <4> QED BY <1>5, <1>9, <1>10, <1>13, <4>1 DEF EnvelopeOK, Connected
    <3> QED BY <1>1, <1>7, <1>8, <1>9, <1>10, <2>1, <3>1, <3>2 DEF UnboundOK
  <2>2. CASE mode # "LEGACY"
    BY <1>1, <2>2 DEF UnboundOK
  <2> QED BY <2>1, <2>2
<1>19. ReplyOK'
  <2>1. Waiting \notin SessionIds
    BY ReplyKinds
  <2> QED BY <1>1, <1>4, <2>1 DEF ReplyOK
<1>20. CheckpointOK' /\ CountsOK'
  BY <1>1, <1>5, <1>7, <1>8 DEF CheckpointOK, CountsOK
<1>21. CallsOK'
  BY <1>1, <1>2, <1>3, <1>7, <1>8 DEF CallsOK, Holding, SessionsAssumption
<1> QED BY <1>12, <1>14, <1>15, <1>16, <1>17, <1>18, <1>19, <1>20, <1>21

\* What is sent is genuine: the pending request, or the secret of the envelope.
LEMMA RequestOfGenuine ==
    ASSUME IInv, NEW c \in Callers, call[c].at \in {"ready", "waits"}
    PROVE  /\ Genuine(RequestOf) /\ Connected /\ envelope.pending
           /\ mode = "V2" => RequestOf = envelope.request
           /\ mode = "LEGACY" => RequestOf.parent = envelope.session
<1> USE DEF IInv
<1>1. Connected /\ envelope.pending /\ mode \in {"LEGACY", "V2"}
  BY DEF CallsOK, EnvelopeOK, CountsOK
<1>2. /\ Newest \in Nat /\ Newest >= 1 /\ envelope.session \in SessionIds
      /\ envelope.session <= Newest /\ envelope.secret = session[envelope.session].secret
      /\ envelope.secret \in Secrets
  BY <1>1, LenProperties DEF EnvelopeOK, Envelope, Connected, RowsOK, Newest
<1>3. CASE mode = "V2"
  <2>1. /\ RequestOf = [rotation |-> prepared, parent |-> envelope.session,
                        current |-> envelope.secret, next |-> prepared]
        /\ envelope.secret < prepared /\ RequestOf = envelope.request
    BY <1>1, <1>3 DEF RequestOf, EnvelopeOK
  <2>2. prepared \in Rotations /\ prepared \in Secrets
    BY <1>2, <2>1 DEF CountsOK, Rotations, Secrets, SessionsAssumption
  <2> QED BY <1>1, <1>2, <1>3, <2>1, <2>2 DEF Genuine, Request, Rotations
<1>4. CASE mode = "LEGACY"
  <2>1. RequestOf = [rotation |-> prepared, parent |-> envelope.session,
                     current |-> envelope.secret, next |-> 0]
    BY <1>4 DEF RequestOf, NewRequest
  <2>2. envelope.session <= prepared
    BY <1>1, <1>4 DEF UnboundOK
  <2>3. prepared \in Rotations /\ 0 \in Secrets
    BY <1>2, <2>2 DEF CountsOK, Rotations, Secrets, SessionIds, SessionsAssumption
  <2>4. RequestOf \in Request
    BY <1>2, <2>1, <2>3 DEF Request
  <2> QED BY <1>1, <1>2, <1>4, <2>1, <2>4 DEF Genuine
<1> QED BY <1>1, <1>3, <1>4

\* The request goes out, or goes out again: only the last copy is waited for.
LEMMA SentStep ==
    ASSUME IInv, NEW c \in Callers, call[c].at \in {"ready", "waits"}, NEW q,
           q \in Post, q.request = RequestOf, q.open,
           \A d \in Callers : d # c => call[d].at \notin {"ready", "waits", "stored", "clears"},
           q \in sent', sent' \subseteq Post,
           \A p \in sent' : p = q \/ (~p.open /\ \E x \in sent : p.request = x.request),
           mode = "LEGACY" =>
               \/ \A p \in sent' : p.again
               \/ sent' = sent \cup {q} /\ call[c].at = "ready",
           reply' = Waiting, faults' \in 0..MaxFaults,
           call' \in [Callers -> Call],
           \A d \in Callers : call'[d].at = IF d = c THEN "waits" ELSE call[d].at,
           UNCHANGED <<mode, session, receipt, revoked, expired,
                       envelope, checkpoint, gate, prepared>>
    PROVE  IInv'
<1> USE DEF IInv
<1>5. /\ Genuine(RequestOf) /\ Connected /\ envelope.pending
      /\ mode = "V2" => RequestOf = envelope.request
      /\ mode = "LEGACY" => RequestOf.parent = envelope.session
  BY RequestOfGenuine
<1>7. \A x : Genuine(x)' <=> Genuine(x)
  BY DEF Genuine, Newest
<1>8. Newest' = Newest /\ (Connected' <=> Connected)
  BY DEF Newest, Connected
<1>9. PostsOK'
  <2>1. \E d \in Callers : call'[d].at = "waits"
    OBVIOUS
  <2>2. ASSUME NEW p \in sent'
        PROVE  /\ Genuine(p.request)
               /\ p.open => p = q
               /\ mode = "V2" /\ p.request.parent = Newest => p.request = envelope.request
    <3>1. CASE p = q
      BY <1>5, <3>1
    <3>2. CASE p # q
      <4>1. PICK x \in sent : ~p.open /\ p.request = x.request
        BY <3>2
      <4> QED BY <1>5, <4>1 DEF PostsOK
    <3> QED BY <3>1, <3>2
  <2> QED BY <1>5, <1>7, <1>8, <2>1, <2>2 DEF PostsOK
<1>10. RowsOK' /\ ReceiptsOK' /\ EnvelopeOK' /\ CheckpointOK' /\ CountsOK'
  <2>1. RowsOK'
    BY <1>8, Zenon DEF RowsOK
  <2>2. ReceiptsOK'
    BY <1>7, <1>8 DEF ReceiptsOK
  <2>3. EnvelopeOK' /\ CheckpointOK' /\ CountsOK'
    BY <1>8 DEF EnvelopeOK, CheckpointOK, CountsOK, LastRow
  <2> QED BY <2>1, <2>2, <2>3
<1>11. OneRequestEach'
  <2>1. CASE mode = "V2"
    <3>1. \A x \in Made' : x \in Made
      BY <1>5, <2>1 DEF Made
    <3> QED BY <2>1, <3>1 DEF OneRequestEach
  <2>2. CASE mode # "V2"
    BY <2>2 DEF OneRequestEach
  <2> QED BY <2>1, <2>2
<1>12. ReplyOK'
  <2>1. Waiting \notin SessionIds /\ Waiting \in Replies
    BY ReplyKinds DEF Replies
  <2> QED BY <2>1 DEF ReplyOK
<1>13. UnboundOK'
  <2>1. CASE mode = "LEGACY"
    <3>1. \A p \in sent' : p.request.parent = Newest => envelope.session = Newest
      BY <1>5, <2>1 DEF UnboundOK
    <3>2. \A d \in Callers : call'[d].at # "ready"
      OBVIOUS
    <3>3. CASE \A p \in sent' : p.again
      BY <1>5, <1>8, <2>1, <3>1, <3>2, <3>3 DEF UnboundOK
    <3>4. CASE sent' = sent \cup {q} /\ call[c].at = "ready"
      <4>1. \A p \in sent : p.request.parent # Newest /\ p.again
        BY <2>1, <3>4 DEF UnboundOK
      <4>2. envelope.session = Newest
        BY <2>1, <3>4 DEF UnboundOK
      <4>3. \A p \in sent' : ~p.again \/ p.request.parent = Newest => p = q
        BY <3>4, <4>1
      <4> QED BY <1>5, <1>8, <2>1, <3>1, <3>2, <4>1, <4>2, <4>3 DEF UnboundOK
    <3> QED BY <2>1, <3>3, <3>4
  <2>2. CASE mode # "LEGACY"
    BY <2>2 DEF UnboundOK
  <2> QED BY <2>1, <2>2
<1>14. CallsOK'
  BY <1>5, <1>8 DEF CallsOK, Holding
<1> QED BY <1>9, <1>10, <1>11, <1>12, <1>13, <1>14

LEMMA SendStep ==
    ASSUME IInv, NEW c \in Callers, Send(c)
    PROVE  IInv'
<1> DEFINE q == [request |-> RequestOf, open |-> TRUE, seen |-> "not yet", again |-> FALSE]
<1>1. /\ call[c].at = "ready" /\ sent' = sent \cup {q} /\ reply' = Waiting
      /\ UNCHANGED <<mode, session, receipt, revoked, expired,
                     envelope, checkpoint, gate, prepared, faults>>
  BY DEF Send
<1>2. /\ call' \in [Callers -> Call]
      /\ \A d \in Callers : call'[d].at = IF d = c THEN "waits" ELSE call[d].at
  <2>1. "waits" \in Phases /\ call[c].session \in {0} \cup SessionIds
    BY DEF Phases, IInv, CallsOK, Call
  <2>2. Moves(c, "waits", call[c].session)
    BY DEF Send
  <2> QED BY <2>1, <2>2, MovedCall DEF IInv
<1>3. \A d \in Callers : d # c => call[d].at \notin {"ready", "waits", "stored", "clears"}
  BY <1>1, Alone DEF Holding, IInv
<1>4. \A p \in sent : ~p.open
  BY <1>1, <1>3, NobodyWaits
<1>5. q \in Post /\ q.request = RequestOf /\ q.open
  BY <1>1, RequestOfGenuine DEF Post, Genuine
<1> HIDE DEF q
<1>6. faults' \in 0..MaxFaults /\ sent \subseteq Post
  BY <1>1 DEF IInv, CountsOK, PostsOK
<1>7. /\ q \in sent' /\ sent' \subseteq Post
      /\ \A p \in sent' : p = q \/ (~p.open /\ \E x \in sent : p.request = x.request)
  BY <1>1, <1>4, <1>5, <1>6
<1> QED BY <1>1, <1>2, <1>3, <1>5, <1>6, <1>7, SentStep

\* The HTTP client repeats the request: every copy is marked.
LEMMA SentAgainStep ==
    ASSUME IInv, NEW c \in Callers, SentAgain(c)
    PROVE  IInv'
<1> DEFINE q == [request |-> RequestOf, open |-> TRUE, seen |-> "not yet", again |-> TRUE]
           mark(p) == [p EXCEPT !.again = TRUE]
<1>1. /\ call[c].at = "waits" /\ sent' = {mark(p) : p \in Abandoned} \cup {q}
      /\ reply' = Waiting /\ Fault
      /\ UNCHANGED <<mode, session, receipt, revoked, expired,
                     envelope, checkpoint, gate, call, prepared>>
  BY DEF SentAgain
<1>2. /\ call' \in [Callers -> Call]
      /\ \A d \in Callers : call'[d].at = IF d = c THEN "waits" ELSE call[d].at
  BY <1>1 DEF IInv, CallsOK
<1>3. \A d \in Callers : d # c => call[d].at \notin {"ready", "waits", "stored", "clears"}
  BY <1>1, Alone DEF Holding, IInv
<1>4. q \in Post /\ q.request = RequestOf /\ q.open /\ q.again
  BY <1>1, RequestOfGenuine DEF Post, Genuine
<1>5. /\ Abandoned \subseteq Post
      /\ \A p \in Abandoned : ~p.open /\ \E x \in sent : p.request = x.request
  BY AbandonedPosts
<1>6. \A p \in Post : /\ mark(p) \in Post /\ mark(p).open = p.open
                      /\ mark(p).request = p.request /\ mark(p).again
  <2>1. \A p \in Post : [p EXCEPT !.again = TRUE] \in Post
    BY Zenon DEF Post
  <2>2. \A p \in Post : /\ [p EXCEPT !.again = TRUE].open = p.open
                        /\ [p EXCEPT !.again = TRUE].request = p.request
                        /\ [p EXCEPT !.again = TRUE].again = TRUE
    BY Zenon DEF Post
  <2> QED BY <2>1, <2>2
<1> HIDE DEF q, mark
<1>7. /\ q \in sent' /\ sent' \subseteq Post
      /\ \A p \in sent' : p = q \/ (~p.open /\ \E x \in sent : p.request = x.request)
      /\ \A p \in sent' : p.again
  <2>1. \A p \in sent' : p = q \/ \E y \in Abandoned : p = mark(y)
    BY <1>1
  <2> QED BY <1>1, <1>4, <1>5, <1>6, <2>1
<1>8. faults' \in 0..MaxFaults
  BY <1>1 DEF Fault, IInv, CountsOK, SessionsAssumption
<1> QED BY <1>1, <1>2, <1>3, <1>4, <1>7, <1>8, SentStep

\* An unbound rotation that was not sent is taken back; a bound one stays.
LEMMA SendFailsStep ==
    ASSUME IInv, NEW c \in Callers, SendFails(c)
    PROVE  IInv'
<1> USE DEF IInv
<1>1. /\ call[c].at = "ready" /\ gate' = NoCaller
      /\ UNCHANGED <<mode, session, receipt, revoked, expired, sent, reply, checkpoint>>
      /\ envelope' = AfterNoSend
      /\ prepared' = IF mode = "V2" THEN prepared ELSE prepared - 1
      /\ Fault
  BY DEF SendFails, Released
<1>2. /\ call' \in [Callers -> Call]
      /\ \A d \in Callers : call'[d].at = IF d = c THEN "idle" ELSE call[d].at
  <2>1. "idle" \in Phases
    BY DEF Phases
  <2>2. Moves(c, "idle", 0)
    BY DEF SendFails
  <2> QED BY <2>1, <2>2, MovedCall
<1>3. \A d \in Callers : d # c => ~Holding(d)
  BY <1>1, Alone DEF Holding
<1>4. \A d \in Callers : call[d].at # "waits"
  BY <1>1, <1>3 DEF Holding
<1>5. reply = Waiting
  BY <1>4, NobodyWaits
<1>6. faults' \in 0..MaxFaults
  BY <1>1 DEF Fault, CountsOK, SessionsAssumption
<1>7. ReplyOK'
  <2>1. Waiting \notin SessionIds
    BY ReplyKinds
  <2> QED BY <1>1, <1>5, <2>1 DEF ReplyOK
<1>8. CASE mode = "V2"
  <2>1. UNCHANGED <<envelope, prepared>>
    BY <1>1, <1>8 DEF AfterNoSend
  <2>2. Quiet
    <3>1. "idle" \in Phases
      BY DEF Phases
    <3>2. call[c].at # "waits" /\ reply' \in {reply, Waiting}
      BY <1>1
    <3> QED BY <1>1, <1>2, <2>1, <3>1, <3>2, QuietCall
  <2>3. CallsOK'
    BY <1>1, <1>2, <1>3, <2>1 DEF CallsOK, Holding, Connected, SessionsAssumption
  <2>4. CheckpointOK' /\ CountsOK'
    BY <1>1, <1>6, <2>1 DEF CheckpointOK, CountsOK, Connected
  <2> QED BY <1>7, <2>2, <2>3, <2>4, QuietStep
<1>9. CASE mode = "LEGACY"
  <2>1. /\ envelope' = [envelope EXCEPT !.pending = FALSE] /\ envelope \in Envelope
        /\ prepared' = prepared - 1
    BY <1>1, <1>9 DEF AfterNoSend, EnvelopeOK
  <2>2. /\ receipt = {} /\ envelope.session = Newest /\ Newest <= prepared
        /\ Connected /\ \A p \in sent : ~p.open /\ p.request.parent # Newest /\ p.again
    BY <1>1, <1>4, <1>9, NobodyWaits DEF UnboundOK, ReceiptsOK, CallsOK
  <2>3. /\ envelope' \in Envelope /\ ~envelope'.pending
        /\ envelope'.session = envelope.session /\ envelope'.secret = envelope.secret
    BY <2>1, Zenon DEF Envelope
  <2>4. Newest' = Newest /\ Newest \in Nat /\ Newest >= 1 /\ Connected'
    BY <1>1, <2>2, <2>3, LenProperties DEF Newest, RowsOK, Connected
  <2>5. prepared \in Nat /\ prepared' \in 0..MaxRotations
    BY <2>1, <2>2, <2>4 DEF CountsOK, SessionsAssumption
  <2>6. RowsOK'
    <3>1. ASSUME NEW i \in 1..Newest
          PROVE  /\ session'[i].generation = i - 1 /\ i - 1 <= session'[i].secret
                 /\ session'[i].secret <= prepared' /\ session'[i].secret = i - 1
      BY <1>1, <1>9, <2>1, <2>2, <2>4, <2>5 DEF RowsOK
    <3>2. \A i \in 1..Newest : session'[i].live => i = Newest /\ ~revoked'
      BY <1>1, Zenon DEF RowsOK
    <3>3. session' \in Seq(Row)
      BY <1>1 DEF RowsOK
    <3> QED BY <2>4, <3>1, <3>2, <3>3 DEF RowsOK
  <2>7. PostsOK' /\ ReceiptsOK' /\ OneRequestEach'
    <3>1. \A x : Genuine(x) => Genuine(x)'
      BY <1>1, <1>9 DEF Genuine, Newest
    <3> QED BY <1>1, <1>9, <2>2, <3>1 DEF PostsOK, ReceiptsOK, OneRequestEach
  <2>8. EnvelopeOK'
    BY <1>1, <1>9, <2>2, <2>3, <2>4 DEF EnvelopeOK
  <2>9. \A d \in Callers : ~Holding(d)'
    BY <1>2, <1>3 DEF Holding
  <2>10. UnboundOK'
    BY <1>1, <2>2, <2>3, <2>4, <2>9 DEF UnboundOK, Holding
  <2>11. CheckpointOK' /\ CountsOK'
    BY <1>1, <1>6, <1>9, <2>5 DEF CheckpointOK, CountsOK
  <2>12. CallsOK'
    BY <1>1, <1>2, <2>4, <2>9 DEF CallsOK, Holding, SessionsAssumption
  <2> QED BY <1>7, <2>6, <2>7, <2>8, <2>10, <2>11, <2>12
<1>10. mode \in {"LEGACY", "V2"}
  BY DEF CountsOK
<1> QED BY <1>8, <1>9, <1>10

\* The successor is stored: whatever is still under way is behind it.
LEMMA StoreStep ==
    ASSUME IInv, NEW c \in Callers, StoreEnvelope(c)
    PROVE  IInv'
<1> USE DEF IInv
<1>1. /\ call[c].at = "waits" /\ reply \in SessionIds /\ reply' = Waiting
      /\ envelope' = [session |-> reply, secret |-> session[reply].secret,
                      fresh |-> TRUE, pending |-> FALSE, request |-> NoRequest]
      /\ UNCHANGED <<mode, session, receipt, revoked, expired, sent,
                     checkpoint, prepared, faults>>
      /\ mode \in {"LEGACY", "V2"}
  BY DEF StoreEnvelope, CountsOK
<1>2. /\ reply = Newest /\ reply \in Nat /\ reply >= 1
      /\ reply = envelope.session + 1 /\ Connected /\ envelope.pending
  BY <1>1 DEF ReplyOK, SessionIds, EnvelopeOK
<1>3. /\ Newest' = Newest /\ session' = session
      /\ \A x : Genuine(x)' <=> Genuine(x)
  BY <1>1 DEF Newest, Genuine
<1>4. session[reply] \in Row
  <2>1. session \in Seq(Row) /\ reply \in 1..Len(session)
    BY <1>2 DEF RowsOK, Newest
  <2> QED BY <2>1, ElementOfSeq
<1>5. /\ envelope' \in Envelope /\ ~envelope'.pending /\ Connected'
      /\ envelope'.session = Newest /\ envelope'.secret = session[Newest].secret
  BY <1>1, <1>2, <1>4 DEF Envelope, Connected, Row
<1>6. \A d \in Callers : d # c => ~Holding(d)
  BY <1>1, Alone DEF Holding
<1>7. Waiting \notin SessionIds /\ Waiting \in Replies
  BY ReplyKinds DEF Replies
<1>8. \A p \in sent : ~p.open /\ p.request.parent # Newest
  <2> SUFFICES ASSUME NEW p \in sent
               PROVE  ~p.open /\ p.request.parent # Newest
    OBVIOUS
  <2>1. ~p.open
    BY <1>1, <1>7 DEF PostsOK
  <2>3. envelope.session # Newest
    BY <1>2 DEF EnvelopeOK, Envelope, SessionIds
  <2>4. mode = "LEGACY" => p.request.parent # Newest
    BY <2>3 DEF UnboundOK
  <2>2. ASSUME mode = "V2", p.request.parent = Newest
        PROVE  FALSE
    <3>1. p.request = envelope.request /\ envelope.request.parent = envelope.session
      BY <1>2, <2>2 DEF PostsOK, EnvelopeOK
    <3>2. envelope.session \in Nat
      BY DEF EnvelopeOK, Envelope, SessionIds
    <3> QED BY <1>2, <2>2, <3>1, <3>2
  <2> QED BY <1>1, <2>1, <2>2, <2>4
<1>9. mode = "LEGACY" => \A p \in sent : p.again
  BY <1>8 DEF UnboundOK
<1>10. RowsOK' /\ ReceiptsOK' /\ CountsOK'
  <2>1. RowsOK'
    BY <1>1, <1>3, Zenon DEF RowsOK
  <2> QED BY <1>1, <1>3, <2>1 DEF ReceiptsOK, CountsOK
<1>11. PostsOK'
  BY <1>1, <1>3, <1>8, <1>9 DEF PostsOK
<1>12. OneRequestEach'
  <2>1. \A x \in Made' : x \in Made
    BY <1>1, <1>5 DEF Made
  <2> QED BY <1>1, <2>1 DEF OneRequestEach
<1>13. EnvelopeOK'
  <2>1. Newest <= Newest
    BY <1>2
  <2> QED BY <1>3, <1>5, <2>1 DEF EnvelopeOK
<1>14. \E at \in {"stored", "uses"} :
          /\ call' \in [Callers -> Call]
          /\ \A d \in Callers : call'[d].at = IF d = c THEN at ELSE call[d].at
          /\ IF mode = "V2" THEN at = "stored" /\ gate' = gate
             ELSE at = "uses" /\ gate' = NoCaller
  <2>1. "stored" \in Phases /\ "uses" \in Phases /\ reply \in {0} \cup SessionIds
    BY <1>1 DEF Phases
  <2>2. CASE mode = "V2"
    <3>1. Moves(c, "stored", reply) /\ gate' = gate
      BY <2>2 DEF StoreEnvelope
    <3> QED BY <2>1, <2>2, <3>1, MovedCall
  <2>3. CASE mode # "V2"
    <3>1. Moves(c, "uses", reply) /\ gate' = NoCaller
      BY <2>3 DEF StoreEnvelope, Released
    <3> QED BY <2>1, <2>3, <3>1, MovedCall
  <2> QED BY <2>2, <2>3
<1>15. PICK at \in {"stored", "uses"} :
          /\ call' \in [Callers -> Call]
          /\ \A d \in Callers : call'[d].at = IF d = c THEN at ELSE call[d].at
          /\ IF mode = "V2" THEN at = "stored" /\ gate' = gate
             ELSE at = "uses" /\ gate' = NoCaller
  BY <1>14
<1>16. gate = c
  BY <1>1 DEF CallsOK, Holding
<1>17. CallsOK'
  BY <1>1, <1>5, <1>6, <1>15, <1>16 DEF CallsOK, Holding, SessionsAssumption
<1>18. UnboundOK'
  <2>1. \A d \in Callers : call'[d].at # "ready"
    BY <1>6, <1>15 DEF Holding
  <2> QED BY <1>1, <1>3, <1>5, <1>8, <1>9, <2>1 DEF UnboundOK
<1>19. ReplyOK'
  BY <1>1, <1>7 DEF ReplyOK
<1>20. CheckpointOK'
  <2>1. CASE mode = "V2"
    <3>1. checkpoint # 0 /\ checkpoint <= envelope.session /\ checkpoint \in Nat
      BY <1>2, <2>1 DEF CheckpointOK, SessionIds
    <3>2. envelope.session \in Nat
      BY DEF EnvelopeOK, Envelope, SessionIds
    <3> QED BY <1>1, <1>2, <1>5, <2>1, <3>1, <3>2 DEF CheckpointOK
  <2>2. CASE mode # "V2"
    BY <1>1, <2>2 DEF CheckpointOK
  <2> QED BY <2>1, <2>2
<1> QED BY <1>10, <1>11, <1>12, <1>13, <1>17, <1>18, <1>19, <1>20

(***************************************************************************)
(* The theorems.                                                           *)
(***************************************************************************)
LEMMA OneRow ==
    ASSUME NEW r \in Row
    PROVE  <<r>> \in Seq(Row) /\ Len(<<r>>) = 1 /\ <<r>>[1] = r
OBVIOUS

LEMMA InitIInv == Init => IInv
<1> SUFFICES ASSUME Init PROVE IInv
  OBVIOUS
<1> USE DEF Init, SessionsAssumption
<1> DEFINE first == [secret |-> 0, generation |-> 0, live |-> TRUE]
<1>1. session = <<first>> /\ first \in Row
  BY DEF Row, Secrets
<1>2. /\ first.secret = 0 /\ first.generation = 0
  OBVIOUS
<1> HIDE DEF first
<1>3. session \in Seq(Row) /\ Newest = 1 /\ session[1] = first
  <2>1. <<first>> \in Seq(Row) /\ Len(<<first>>) = 1 /\ <<first>>[1] = first
    BY <1>1, OneRow
  <2> QED BY <1>1, <2>1, Zenon DEF Newest
<1>4. CountsOK
  <2>1. revoked \in BOOLEAN /\ expired \in BOOLEAN /\ mode \in {"LEGACY", "V2"}
    BY Zenon
  <2>2. prepared \in 0..MaxRotations /\ faults \in 0..MaxFaults
    BY SMT
  <2> QED BY <2>1, <2>2 DEF CountsOK
<1>5. RowsOK
  <2>1. \A i \in 1..Newest : i = 1
    BY <1>3
  <2>2. prepared = 0 /\ ~revoked
    BY Zenon
  <2>3. 1 - 1 = 0 /\ 0 <= 0 /\ 1 >= 1
    OBVIOUS
  <2> QED BY <1>2, <1>3, <2>1, <2>2, <2>3, Zenon DEF RowsOK
<1>6. PostsOK /\ ReceiptsOK
  BY DEF PostsOK, ReceiptsOK
<1>7. OneRequestEach
  BY DEF OneRequestEach, Made
<1>8. envelope.session = 1 /\ envelope.secret = 0 /\ ~envelope.pending /\ Connected
      /\ envelope \in Envelope
  BY DEF Envelope, Connected, SessionIds, Secrets
<1>9. EnvelopeOK
  <2>1. envelope.session = Newest /\ envelope.secret = session[envelope.session].secret
    BY <1>2, <1>3, <1>8
  <2>2. 1 <= 1
    OBVIOUS
  <2> QED BY <1>3, <1>8, <2>1, <2>2 DEF EnvelopeOK
<1>10. \A c \in Callers : call[c].at = "idle" /\ call[c] \in Call
  BY DEF Idle, Call, Phases
<1>11. UnboundOK /\ ReplyOK
  <2>1. reply = Waiting /\ Waiting \notin SessionIds /\ Waiting \in Replies /\ sent = {}
    BY ReplyKinds DEF Replies
  <2> QED BY <1>8, <1>10, <2>1 DEF UnboundOK, ReplyOK
<1>12. CheckpointOK
  BY <1>8 DEF CheckpointOK, SessionIds
<1>13. CallsOK
  BY <1>10 DEF CallsOK, Holding
<1> QED BY <1>4, <1>5, <1>6, <1>7, <1>9, <1>11, <1>12, <1>13 DEF IInv

LEMMA NextKeepsIInv == IInv /\ [Next]_vars => IInv'
<1> SUFFICES ASSUME IInv, [Next]_vars PROVE IInv'
  OBVIOUS
<1>1. ASSUME NEW c \in Callers, CallerStep(c) \/ CallerChance(c)
      PROVE  IInv'
  BY <1>1, UseStep, LeaveStep, ReleaseStep, CutStep, LogoutStep, ClearStep, PrepareStep,
     SendStep, SentAgainStep, SendFailsStep, StoreStep DEF CallerStep, CallerChance
<1>2. ASSUME NEW p \in sent, Serve(p)
      PROVE  IInv'
  BY <1>2, RotationStep, NoRotationStep
<1>3. ASSUME \/ TokenAges \/ Dies \/ LogoutAll \/ RevokeDevice \/ FamilyExpires \/ CleanReceipts
             \/ \E p \in sent : ServiceFails(p)
      PROVE  IInv'
  BY <1>3, AgeStep, CutStep, OthersStep
<1>4. CASE UNCHANGED vars
  <2>1. RowsOK'
    BY <1>4, Zenon DEF vars, IInv, RowsOK, Newest
  <2>2. Newest' = Newest /\ (\A x : Genuine(x)' <=> Genuine(x)) /\ Made' = Made
        /\ (Connected' <=> Connected) /\ LastRow' = LastRow
    BY <1>4 DEF vars, Newest, Genuine, Made, Connected, LastRow
  <2>3. CountsOK' /\ PostsOK' /\ ReceiptsOK' /\ OneRequestEach'
    BY <1>4, <2>2 DEF vars, IInv, CountsOK, PostsOK, ReceiptsOK, OneRequestEach
  <2>4. EnvelopeOK' /\ UnboundOK' /\ ReplyOK' /\ CheckpointOK' /\ CallsOK'
    BY <1>4, <2>2 DEF vars, IInv, EnvelopeOK, UnboundOK, ReplyOK, CheckpointOK, CallsOK, Holding
  <2> QED BY <2>1, <2>3, <2>4 DEF IInv
<1> QED BY <1>1, <1>2, <1>3, <1>4 DEF Next, ServiceStep

\* Rows, requests under way, receipts, envelope and callers always fit together
\* as described above.
THEOREM FamilyInvariant == Spec => []IInv
BY InitIInv, NextKeepsIInv, PTL DEF Spec

\* The state keeps its types: no more rows than rotations were begun, and the
\* mutexes are held by exactly the caller that is between taking and releasing
\* them.
THEOREM SessionTypes == Spec => []TypeOK
<1>1. IInv => TypeOK
  <2> SUFFICES ASSUME IInv PROVE TypeOK
    OBVIOUS
  <2>1. Newest \in 1..Newest
    BY LenProperties DEF IInv, RowsOK, Newest
  <2>2. Len(session) \in SessionIds
    BY <2>1, RowTyped DEF IInv, Newest
  <2> QED BY <2>2 DEF TypeOK, IInv, CountsOK, RowsOK, PostsOK, ReceiptsOK, EnvelopeOK, ReplyOK,
                      CheckpointOK, CallsOK
<1> QED BY <1>1, FamilyInvariant, PTL

\* Whatever crash, lost answer or repetition came between, a connected phone
\* holds, or has pending, the secret of the one live session, and a checkpoint
\* that the envelope may be stored over.
THEOREM PhoneCanAlwaysContinue == Spec => []PhoneCanContinue
<1>1. IInv => PhoneCanContinue
  <2> SUFFICES ASSUME IInv PROVE PhoneCanContinue
    OBVIOUS
  <2> USE DEF IInv
  <2>1. /\ Newest \in Nat /\ DOMAIN session = 1..Newest
        /\ mode \in {"LEGACY", "V2"}
    BY LenProperties DEF RowsOK, Newest, CountsOK
  <2>2. OneLiveSession
    BY <2>1 DEF OneLiveSession, RowsOK
  <2>3. ASSUME NEW i \in DOMAIN session, session[i].live, Connected
        PROVE  \/ session[i].secret = envelope.secret
               \/ envelope.pending /\ mode = "LEGACY"
               \/ envelope.pending /\ envelope.request.next = session[i].secret
    <3>1. i = Newest
      BY <2>1, <2>3 DEF RowsOK
    <3>2. CASE envelope.session = Newest
      BY <2>3, <3>1, <3>2 DEF EnvelopeOK
    <3>3. CASE envelope.session # Newest /\ mode = "V2"
      BY <2>3, <3>1, <3>3 DEF EnvelopeOK, LastRow
    <3>4. CASE envelope.session # Newest /\ mode = "LEGACY"
      BY <2>3, <3>4 DEF EnvelopeOK
    <3> QED BY <2>1, <3>2, <3>3, <3>4
  <2>4. ASSUME mode = "V2", Connected
        PROVE  Accepts(envelope.session)
    <3>1. /\ checkpoint \in 1..Newest /\ envelope.session \in 1..Newest
          /\ checkpoint <= envelope.session
      BY <2>1, <2>4 DEF CheckpointOK, EnvelopeOK, Envelope, Connected, SessionIds
    <3>2. /\ session[checkpoint].generation = checkpoint - 1
          /\ session[envelope.session].generation = envelope.session - 1
      BY <3>1 DEF RowsOK
    <3> QED BY <2>1, <3>1, <3>2 DEF Accepts
  <2> QED BY <2>2, <2>3, <2>4 DEF PhoneCanContinue, SecretIsKept, CheckpointFollows
<1> QED BY <1>1, FamilyInvariant, PTL

\* A live session is the newest, and so is the parent of a request that is
\* still exchangeable.
LEMMA LiveIsNewest ==
    ASSUME IInv
    PROVE  /\ DOMAIN session = 1..Newest /\ Newest \in 1..Newest
           /\ HasLive => session[Newest].live /\ ~revoked
<1>1. DOMAIN session = 1..Newest /\ Newest \in 1..Newest
  BY LenProperties DEF IInv, RowsOK, Newest
<1> QED BY <1>1 DEF IInv, RowsOK, HasLive

LEMMA RotatesLive ==
    ASSUME IInv, NEW p \in sent, session[p.request.parent].live, session' = Rotated(p)
    PROVE  HasLive'
<1>1. Genuine(p.request) /\ (mode = "LEGACY" => Newest <= prepared)
  BY LiveParent DEF IInv, PostsOK
<1>2. /\ session' \in Seq(Row) /\ Len(session') = Newest + 1
      /\ session'[Newest + 1].live = TRUE /\ Newest \in Nat
  BY <1>1, RotatedRows, LenProperties DEF IInv, RowsOK, Newest
<1>3. Newest + 1 \in DOMAIN session'
  BY <1>2, LenProperties
<1> QED BY <1>2, <1>3, Zenon DEF HasLive

\* The service never takes the phone's own requests, late or resumed as they may
\* come, for a replay: serving one leaves a live session where one was.  A bound
\* request may be served any number of times; an unbound one that the HTTP client
\* has repeated is exempt.
THEOREM RotationNeverCostsTheGrant == Spec => RotationKeepsGrant
<1>1. ASSUME IInv, HasLive, ~expired, NEW p \in sent, Serve(p), mode = "V2" \/ ~p.again
      PROVE  HasLive'
  <2>1. /\ session[Newest].live /\ ~revoked /\ Genuine(p.request)
        /\ Parent(p.request) = p.request.parent
    BY <1>1, LiveIsNewest, ParentOf DEF IInv, PostsOK
  <2>2. CASE session' = session
    BY <1>1, <2>2 DEF HasLive
  <2>3. CASE RotateLegacy(p)
    <3>1. p.request.parent = Newest
      <4>1. mode = "LEGACY"
        BY <2>3 DEF RotateLegacy
      <4> QED BY <1>1, <4>1 DEF IInv, UnboundOK
    <3>2. session' = Rotated(p)
      BY <1>1, <2>1, <2>3, <3>1 DEF RotateLegacy
    <3> QED BY <1>1, <2>1, <3>1, <3>2, RotatesLive
  <2>4. CASE RotateBound(p) /\ session' # session
    <3>1. \A r \in Spent(p.request) : r.request = p.request
      <4>1. mode = "V2"
        BY <2>4 DEF RotateBound
      <4>2. p.request \in Made /\ \A r \in receipt : r.request \in Made
        BY DEF Made
      <4> QED BY <1>1, <4>1, <4>2 DEF Spent, IInv, OneRequestEach
    <3>2. Exchangeable(p) /\ session' = Rotated(p)
      BY <2>4, <3>1 DEF RotateBound
    <3> QED BY <1>1, <2>1, <3>2, RotatesLive DEF Exchangeable
  <2> QED BY <1>1, <2>2, <2>3, <2>4 DEF Serve, Discover
<1>2. IInv /\ [Next]_vars =>
        [\A p \in sent :
            HasLive /\ ~expired /\ Serve(p) /\ (mode = "V2" \/ ~p.again) => HasLive']_vars
  BY <1>1
<1> QED BY <1>2, FamilyInvariant, PTL DEF Spec, RotationKeepsGrant

\* Only a live session is exchanged, and revoking makes none live.
LEMMA NoneRevives ==
    ASSUME IInv, Next, ~HasLive
    PROVE  ~HasLive'
<1>1. DOMAIN session = 1..Newest /\ Newest \in 1..Newest
  BY LiveIsNewest
<1>2. \A i \in 1..Newest : ~session[i].live
  BY <1>1 DEF HasLive
<1>3. ASSUME NEW S, session' = Revoke(S)
      PROVE  ~HasLive'
  <2>1. /\ session' \in Seq(Row) /\ Len(session') = Newest
        /\ \A i \in 1..Newest : session'[i].live = (session[i].live /\ i \notin S)
    BY <1>3, RevokedRows DEF IInv
  <2>2. DOMAIN session' = 1..Newest
    BY <2>1, LenProperties
  <2> QED BY <1>2, <2>1, <2>2, Zenon DEF HasLive
<1>4. CASE session' = session
  BY <1>4 DEF HasLive
<1>5. ASSUME NEW c \in Callers, CallerStep(c) \/ CallerChance(c)
      PROVE  ~HasLive'
  <2>1. CASE LogoutCurrent(c)
    BY <1>3, <2>1 DEF LogoutCurrent
  <2>2. CASE ~LogoutCurrent(c)
    BY <1>4, <1>5, <2>2
       DEF CallerStep, CallerChance, Access, RequestEnds, UseRotated, NeedsUser, Prepare, Resume,
           Send, RotationFails, StoreEnvelope, StoreCheckpoint, ClearCredentials, ClearBinding,
           Rejected, SendFails, SentAgain, AnswerLost, LogoutAuthenticated, LogoutUnknown
  <2> QED BY <2>1, <2>2
<1>6. ASSUME NEW p \in sent, Serve(p)
      PROVE  ~HasLive'
  <2>1. /\ Parent(p.request) \in 1..Newest
    BY ParentOf DEF IInv, PostsOK
  <2>2. ~Exchangeable(p)
    BY <1>2, <2>1 DEF Exchangeable
  <2>3. session' = session \/ \E S : session' = Revoke(S)
    BY <1>6, <2>2 DEF Serve, Discover, RotateLegacy, RotateBound
  <2> QED BY <1>3, <1>4, <2>3
<1>7. CASE \/ TokenAges \/ Dies \/ LogoutAll \/ RevokeDevice \/ FamilyExpires \/ CleanReceipts
           \/ \E p \in sent : ServiceFails(p)
  BY <1>3, <1>4, <1>7
     DEF TokenAges, Dies, LogoutAll, RevokeDevice, FamilyExpires, CleanReceipts, ServiceFails
<1> QED BY <1>5, <1>6, <1>7 DEF Next, ServiceStep

\* A family whose sessions were all ended stays so: no rotation that was under
\* way, and no request repeated, brings one back.
THEOREM EndedFamilyStaysEnded == Spec => EndedStaysEnded
<1>1. IInv /\ [Next]_vars => [~HasLive => ~HasLive']_vars
  BY NoneRevives
<1> QED BY <1>1, FamilyInvariant, PTL DEF Spec, EndedStaysEnded
=============================================================================
