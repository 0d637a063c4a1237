--------------------------- MODULE DeviceSessions ---------------------------
(***************************************************************************)
(* One device's session family: rotation of its refresh secret, from the   *)
(* phone's credential envelope to the service's session rows.              *)
(*                                                                         *)
(* A LEGACY family rotates with POST /auth/refresh: the service draws the  *)
(* next secret, and a spent one ends every session of the device.  A V2    *)
(* family rotates with a signed request whose next secret the phone chose  *)
(* and stored before sending; the service keeps a receipt, so the same     *)
(* request may be repeated.  Callers are coroutines of the phone that want *)
(* an access token; others of the account log out and revoke.              *)
(*                                                                         *)
(* An access token is known by the session it names.  Signatures, audit    *)
(* rows and receipts of lifecycle commands are left out; every request has *)
(* the device, key and server instance of its family and the generation of *)
(* the session it names, so the branches for others are not there.         *)
(*                                                                         *)
(* A definition introduced by "Mutant:" is its successor with one bug put  *)
(* in; the mutation runs use it in its place and must find a violation.    *)
(***************************************************************************)
EXTENDS Naturals, Sequences

CONSTANTS
    Callers,             \* coroutines that use the profile's credentials
    NoCaller,
    MaxRotations,        \* bound: rotations the phone begins
    MaxFaults            \* bound: lost answers, failed sends, repeats by the
                         \* HTTP client, cancellations, deaths

ASSUME SessionsAssumption ==
    /\ NoCaller \notin Callers
    /\ MaxRotations \in Nat /\ MaxFaults \in Nat

VARIABLES
    mode,                \* session_mode of the family
    session,             \* user_session rows of the family, in order of creation
    receipt,             \* session_rotation_receipt
    revoked,             \* device.revoked_at is set
    expired,             \* the family's absolute expiry has passed
    sent,                \* rotation requests under way
    reply,               \* answer to the request somebody waits for
    envelope,            \* the phone's SessionCredentialEnvelope
    checkpoint,          \* session and generation in the settings' m5Binding
    gate,                \* holder of the profile mutex and BindingAuthorityWriteGate
    call,                \* the callers
    prepared,            \* rotations begun so far
    faults               \* faults so far

service == <<session, receipt, revoked, expired>>
durable == <<envelope, checkpoint, prepared>>
vars == <<mode, session, receipt, revoked, expired, sent, reply,
          envelope, checkpoint, gate, call, prepared, faults>>

Secrets == 0..MaxRotations              \* 0: that of the first session
Rotations == 1..MaxRotations
SessionIds == 1..(MaxRotations + 1)

Row == [secret : Secrets, generation : Secrets, live : BOOLEAN]
Request == [rotation : Rotations, parent : SessionIds,
            current : Secrets, next : Secrets]
NoRequest == [rotation |-> 0, parent |-> 0, current |-> 0, next |-> 0]
Receipt == [request : Request, successor : SessionIds]

\* session 0: no envelope, the profile is not connected.  fresh: the access
\* token is not within REFRESH_SKEW_SECONDS of its end.
Envelope == [session : {0} \cup SessionIds, secret : Secrets, fresh : BOOLEAN,
             pending : BOOLEAN, request : Request \cup {NoRequest}]
NoEnvelope == [session |-> 0, secret |-> 0, fresh |-> FALSE,
               pending |-> FALSE, request |-> NoRequest]

\* seen: the parent's row was live when the request was looked up.  open: its
\* caller still waits for the answer.  again: the HTTP client has sent this
\* request, or another after it, more than once.
Post == [request : Request, open : BOOLEAN, seen : {"not yet", "live", "dead"},
         again : BOOLEAN]

Phases == {"idle", "uses", "wants", "ready", "waits", "stored", "leaves", "left", "clears"}
Call == [at : Phases, session : {0} \cup SessionIds]
Idle == [at |-> "idle", session |-> 0]

Refused == 0                              \* reply: any definite refusal
Failed == MaxRotations + 2                \* reply: 429 or 5xx, nothing done
Waiting == MaxRotations + 3               \* no reply yet
Replies == {Refused, Failed, Waiting} \cup SessionIds

Init ==
    /\ mode \in {"LEGACY", "V2"}
    /\ session = <<[secret |-> 0, generation |-> 0, live |-> TRUE]>>
    /\ receipt = {} /\ revoked = FALSE /\ expired = FALSE
    /\ sent = {} /\ reply = Waiting
    /\ envelope = [session |-> 1, secret |-> 0, fresh |-> TRUE,
                   pending |-> FALSE, request |-> NoRequest]
    /\ checkpoint = IF mode = "V2" THEN 1 ELSE 0
    /\ gate = NoCaller
    /\ call = [c \in Callers |-> Idle]
    /\ prepared = 0 /\ faults = 0

-----------------------------------------------------------------------------
(* The service.                                                            *)

HasLive == \E i \in DOMAIN session : session[i].live

\* authenticate_access: every gate is read again for each request.
Authorized(i) == session[i].live /\ ~expired /\ ~revoked

\* The rows with the sessions of S revoked.
Revoke(S) ==
    [i \in DOMAIN session |-> [session[i] EXCEPT !.live = @ /\ i \notin S]]

AllOfDevice == DOMAIN session

\* Mutant: a receipt counts as long as its parent does.
SpentOfLive(q) == {r \in receipt : r.request.rotation = q.rotation /\ session[q.parent].live}

\* The receipts of the rotation a request repeats.
Spent(q) == {r \in receipt : r.request.rotation = q.rotation}

\* The session a request names: by the digest of its secret, or as the parent
\* in the request.
Parent(q) ==
    IF mode = "LEGACY"
    THEN CHOOSE i \in DOMAIN session : session[i].secret = q.current
    ELSE q.parent

\* Mutant: judged by what was read before the locks were taken.
ExchangeableAsSeen(p) == p.seen = "live" /\ ~expired

\* A session may be exchanged for its successor once.
Exchangeable(p) == session[Parent(p.request)].live /\ ~expired

Successor(p) ==
    LET i == Parent(p.request)
    IN [secret |-> IF mode = "LEGACY" THEN Len(session) ELSE p.request.next,
        generation |-> session[i].generation + 1,
        live |-> TRUE]

\* Revoke the parent, insert the successor.
Rotated(p) ==
    Append(Revoke({Parent(p.request)}), Successor(p))

\* The answer reaches the caller if it still waits.
Answered(p, answer) ==
    /\ sent' = sent \ {p}
    /\ reply' = IF p.open THEN answer ELSE reply

\* The row is looked up in a statement of its own, before any lock.
Discover(p) ==
    /\ p.seen = "not yet"
    /\ LET row == session[Parent(p.request)]
       IN sent' = (sent \ {p}) \cup
              {[p EXCEPT !.seen = IF row.live THEN "live" ELSE "dead"]}
    /\ UNCHANGED <<mode, session, receipt, revoked, expired, reply,
                   envelope, checkpoint, gate, call, prepared, faults>>

\* AuthService.rotate_refresh under the account, device and session locks.
RotateLegacy(p) ==
    /\ mode = "LEGACY" /\ p.seen # "not yet"
    /\ LET i == Parent(p.request)
       IN \/ /\ ~session[i].live                     \* a spent generation
             /\ session' = Revoke(AllOfDevice)
             /\ Answered(p, Refused)
          \/ /\ session[i].live /\ (expired \/ revoked)
             /\ session' = Revoke({i})
             /\ Answered(p, Refused)
          \/ /\ Exchangeable(p) /\ ~revoked
             /\ session' = Rotated(p)
             /\ Answered(p, Len(session) + 1)
    /\ UNCHANGED <<mode, receipt, revoked, expired,
                   envelope, checkpoint, gate, call, prepared, faults>>

\* ProfilePairingService.rotate under the same locks: a known rotation is
\* answered from its receipt, a changed one revokes the device.
RotateBound(p) ==
    /\ mode = "V2" /\ p.seen # "not yet"
    /\ \/ \E r \in Spent(p.request) :
             \/ /\ r.request # p.request
                /\ session' = Revoke(AllOfDevice) /\ revoked' = TRUE
                /\ Answered(p, Refused)
             \/ /\ r.request = p.request
                /\ Answered(p, IF Authorized(r.successor) THEN r.successor ELSE Refused)
                /\ UNCHANGED <<session, revoked>>
          /\ UNCHANGED receipt
       \/ /\ Spent(p.request) = {}
          /\ \/ /\ \/ ~Exchangeable(p) \/ revoked
                   \/ session[p.request.parent].secret # p.request.current
                /\ Answered(p, Refused)
                /\ UNCHANGED <<session, receipt>>
             \/ /\ Exchangeable(p) /\ ~revoked
                /\ session[p.request.parent].secret = p.request.current
                /\ session' = Rotated(p)
                /\ receipt' = receipt \cup
                       {[request |-> p.request, successor |-> Len(session) + 1]}
                /\ Answered(p, Len(session) + 1)
          /\ UNCHANGED revoked
    /\ UNCHANGED <<mode, expired, envelope, checkpoint, gate, call, prepared, faults>>

\* The service fails before it commits anything (429 or 5xx).
ServiceFails(p) ==
    /\ faults < MaxFaults /\ faults' = faults + 1
    /\ Answered(p, Failed)
    /\ UNCHANGED <<mode, session, receipt, revoked, expired,
                   envelope, checkpoint, gate, call, prepared>>

Serve(p) == Discover(p) \/ RotateLegacy(p) \/ RotateBound(p)

\* Another device of the account logs all sessions out, or revokes this device.
LogoutAll ==
    /\ HasLive
    /\ session' = Revoke(AllOfDevice)
    /\ UNCHANGED <<mode, receipt, revoked, expired, sent, reply,
                   envelope, checkpoint, gate, call, prepared, faults>>

RevokeDevice ==
    /\ ~revoked
    /\ revoked' = TRUE
    /\ session' = Revoke(AllOfDevice)
    /\ UNCHANGED <<mode, receipt, expired, sent, reply,
                   envelope, checkpoint, gate, call, prepared, faults>>

\* All generations keep the expiry of the first.
FamilyExpires ==
    /\ ~expired
    /\ expired' = TRUE
    /\ UNCHANGED <<mode, session, receipt, revoked, sent, reply,
                   envelope, checkpoint, gate, call, prepared, faults>>

\* cleanup_expired_pairing_receipts: receipts outlive the family's expiry.
CleanReceipts ==
    /\ expired /\ receipt # {}
    /\ receipt' = {}
    /\ UNCHANGED <<mode, session, revoked, expired, sent, reply,
                   envelope, checkpoint, gate, call, prepared, faults>>

-----------------------------------------------------------------------------
(* The phone.                                                              *)

Connected == envelope.session # 0

\* Mutant: a path that returns without unlocking.
StillHeld == UNCHANGED gate

\* The mutexes are let go.
Released == gate' = NoCaller

Moves(c, at, s) == call' = [call EXCEPT ![c] = [at |-> at, session |-> s]]

\* persistSuccessor refuses to take the checkpoint back.
Accepts(s) ==
    /\ checkpoint # 0
    /\ checkpoint = s \/ session[s].generation > session[checkpoint].generation

Fault == faults < MaxFaults /\ faults' = faults + 1

\* RefreshingSessionCredentials.access: a bound profile first brings the
\* checkpoint up to the envelope; an unbound one with a rotation pending
\* needs the user.
Access(c) ==
    /\ call[c].at = "idle" /\ Connected
    /\ \/ /\ mode = "V2" /\ gate = NoCaller /\ Accepts(envelope.session)
          /\ checkpoint' = envelope.session
       \/ /\ mode = "LEGACY" /\ ~envelope.pending
          /\ UNCHANGED checkpoint
    /\ Moves(c, IF envelope.fresh /\ ~envelope.pending THEN "uses" ELSE "wants",
             envelope.session)
    /\ UNCHANGED <<mode, session, receipt, revoked, expired, sent, reply,
                   envelope, gate, prepared, faults>>

\* A protected request succeeds, or the caller gives up after a second 401.
RequestEnds(c) ==
    /\ call[c].at = "uses"
    /\ Moves(c, "idle", 0)
    /\ UNCHANGED <<mode, session, receipt, revoked, expired, sent, reply,
                   envelope, checkpoint, gate, prepared, faults>>

\* 401: the session is not authorized, or the token is over by the service's
\* clock; refreshAfterRejection follows.
Rejected(c) ==
    /\ call[c].at = "uses" /\ prepared < MaxRotations
    /\ Moves(c, "wants", call[c].session)
    /\ UNCHANGED <<mode, session, receipt, revoked, expired, sent, reply,
                   envelope, checkpoint, gate, prepared, faults>>

TokenAges ==
    /\ Connected /\ envelope.fresh /\ prepared < MaxRotations
    /\ envelope' = [envelope EXCEPT !.fresh = FALSE]
    /\ UNCHANGED <<mode, session, receipt, revoked, expired, sent, reply,
                   checkpoint, gate, call, prepared, faults>>

\* Under the mutexes: another caller has rotated meanwhile.
Superseded(c) ==
    envelope.session # call[c].session /\ envelope.fresh /\ ~envelope.pending

UseRotated(c) ==
    /\ call[c].at = "wants" /\ gate = NoCaller /\ Superseded(c)
    /\ Moves(c, "uses", envelope.session)
    /\ UNCHANGED <<mode, session, receipt, revoked, expired, sent, reply,
                   envelope, checkpoint, gate, prepared, faults>>

\* SessionRequiredException: no envelope, or an unbound rotation whose outcome
\* is not known, which must not be repeated.
NeedsUser(c) ==
    /\ call[c].at = "wants" /\ gate = NoCaller
    /\ ~Connected \/ (mode = "LEGACY" /\ envelope.pending)
    /\ Moves(c, "idle", 0)
    /\ UNCHANGED <<mode, session, receipt, revoked, expired, sent, reply,
                   envelope, checkpoint, gate, prepared, faults>>

\* The request of rotation n.  A secret is drawn with its rotation.
NewRequest(n) ==
    [rotation |-> n, parent |-> envelope.session,
     current |-> envelope.secret, next |-> n]

\* Mutant: only a bound rotation is marked, as the unbound one has no request.
PersistedBound(e) == [e EXCEPT !.pending = (mode = "V2")]

\* What is stored before the request is sent.
Persisted(e) == [e EXCEPT !.pending = TRUE]

Prepare(c) ==
    /\ call[c].at = "wants" /\ gate = NoCaller
    /\ Connected /\ ~Superseded(c) /\ ~envelope.pending
    /\ prepared < MaxRotations /\ prepared' = prepared + 1
    /\ gate' = c
    /\ envelope' = Persisted(IF mode = "V2"
                             THEN [envelope EXCEPT !.request = NewRequest(prepared + 1)]
                             ELSE envelope)
    /\ Moves(c, "ready", envelope.session)
    /\ UNCHANGED <<mode, session, receipt, revoked, expired, sent, reply,
                   checkpoint, faults>>

\* The pending request of a bound profile is sent again as it was.
Resume(c) ==
    /\ call[c].at = "wants" /\ gate = NoCaller
    /\ mode = "V2" /\ envelope.pending
    /\ gate' = c
    /\ Moves(c, "ready", envelope.session)
    /\ UNCHANGED <<mode, session, receipt, revoked, expired, sent, reply,
                   envelope, checkpoint, prepared, faults>>

\* An unbound rotation sends the envelope's secret.
RequestOf ==
    IF mode = "V2" THEN envelope.request
    ELSE [NewRequest(prepared) EXCEPT !.next = 0]

Send(c) ==
    /\ call[c].at = "ready"
    /\ sent' = sent \cup {[request |-> RequestOf, open |-> TRUE, seen |-> "not yet",
                           again |-> FALSE]}
    /\ reply' = Waiting
    /\ Moves(c, "waits", call[c].session)
    /\ UNCHANGED <<mode, session, receipt, revoked, expired,
                   envelope, checkpoint, gate, prepared, faults>>

\* Mutant: every envelope is put back.
PutBack == [envelope EXCEPT !.pending = FALSE]

\* The envelope after a request that was positively not sent: an unbound one is
\* put back, a bound rotation stays pending, for it may have been sent before.
AfterNoSend == IF mode = "V2" THEN envelope ELSE [envelope EXCEPT !.pending = FALSE]

\* beforeRequest fails.
SendFails(c) ==
    /\ call[c].at = "ready" /\ Fault
    /\ Released
    /\ Moves(c, "idle", 0)
    /\ envelope' = AfterNoSend
    /\ prepared' = IF mode = "V2" THEN prepared ELSE prepared - 1
    /\ UNCHANGED <<mode, session, receipt, revoked, expired, sent, reply, checkpoint>>

\* The requests, none of whose answers is waited for any more.
Abandoned == {[p EXCEPT !.open = FALSE] : p \in sent}

\* The HTTP client keeps its retryOnConnectionFailure: when the connection fails
\* it sends the request once more, whether or not the service had it before.
SentAgain(c) ==
    /\ call[c].at = "waits" /\ Fault
    /\ sent' = {[p EXCEPT !.again = TRUE] : p \in Abandoned} \cup
                  {[request |-> RequestOf, open |-> TRUE, seen |-> "not yet",
                    again |-> TRUE]}
    /\ reply' = Waiting
    /\ UNCHANGED <<mode, session, receipt, revoked, expired,
                   envelope, checkpoint, gate, call, prepared>>

\* The call times out or is cancelled, or its answer is lost: whatever the
\* service does with the request, the phone will not hear of it.
AnswerLost(c) ==
    /\ call[c].at = "waits" /\ Fault
    /\ sent' = Abandoned /\ reply' = Waiting
    /\ Released
    /\ Moves(c, "idle", 0)
    /\ UNCHANGED <<mode, session, receipt, revoked, expired,
                   envelope, checkpoint, prepared>>

\* A refusal or an error leaves the rotation pending.
RotationFails(c) ==
    /\ call[c].at = "waits" /\ reply \in {Refused, Failed}
    /\ reply' = Waiting
    /\ Released
    /\ Moves(c, "idle", 0)
    /\ UNCHANGED <<mode, session, receipt, revoked, expired, sent,
                   envelope, checkpoint, prepared, faults>>

\* The envelope is written first, the checkpoint in the settings afterwards.
StoreEnvelope(c) ==
    /\ call[c].at = "waits" /\ reply \in SessionIds
    /\ envelope' = [session |-> reply, secret |-> session[reply].secret,
                    fresh |-> TRUE, pending |-> FALSE, request |-> NoRequest]
    /\ reply' = Waiting
    /\ IF mode = "V2" THEN Moves(c, "stored", reply) /\ UNCHANGED gate
       ELSE Moves(c, "uses", reply) /\ Released
    /\ UNCHANGED <<mode, session, receipt, revoked, expired, sent,
                   checkpoint, prepared, faults>>

StoreCheckpoint(c) ==
    /\ call[c].at = "stored"
    /\ Released
    /\ IF Accepts(envelope.session)
       THEN checkpoint' = envelope.session /\ Moves(c, "uses", envelope.session)
       ELSE UNCHANGED checkpoint /\ Moves(c, "idle", 0)
    /\ UNCHANGED <<mode, session, receipt, revoked, expired, sent, reply,
                   envelope, prepared, faults>>

\* "Log out this session": the request is authenticated in one transaction and
\* executed in the next.
LogoutAuthenticated(c) ==
    /\ mode = "V2" /\ call[c].at = "idle" /\ Connected
    /\ Authorized(envelope.session)
    /\ Moves(c, "leaves", envelope.session)
    /\ UNCHANGED <<mode, session, receipt, revoked, expired, sent, reply,
                   envelope, checkpoint, gate, prepared, faults>>

\* A session revoked meanwhile counts as logged out, rotated or not.
LogoutCurrent(c) ==
    /\ call[c].at = "leaves"
    /\ session' = Revoke({call[c].session})
    /\ Moves(c, "left", call[c].session)
    /\ UNCHANGED <<mode, receipt, revoked, expired, sent, reply,
                   envelope, checkpoint, gate, prepared, faults>>

\* REMOTE_OUTCOME_UNKNOWN: nothing is cleared.
LogoutUnknown(c) ==
    /\ call[c].at = "left" /\ Fault
    /\ Moves(c, "idle", 0)
    /\ UNCHANGED <<mode, session, receipt, revoked, expired, sent, reply,
                   envelope, checkpoint, gate, prepared>>

ClearCredentials(c) ==
    /\ call[c].at = "left" /\ gate = NoCaller
    /\ gate' = c
    /\ envelope' = NoEnvelope
    /\ Moves(c, "clears", 0)
    /\ UNCHANGED <<mode, session, receipt, revoked, expired, sent, reply,
                   checkpoint, prepared, faults>>

ClearBinding(c) ==
    /\ call[c].at = "clears"
    /\ Released
    /\ checkpoint' = 0
    /\ Moves(c, "idle", 0)
    /\ UNCHANGED <<mode, session, receipt, revoked, expired, sent, reply,
                   envelope, prepared, faults>>

\* The process dies: envelope and settings are what is left.
Dies ==
    /\ \E c \in Callers : call[c] # Idle
    /\ Fault
    /\ call' = [c \in Callers |-> Idle]
    /\ Released
    /\ sent' = Abandoned /\ reply' = Waiting
    /\ UNCHANGED <<mode, session, receipt, revoked, expired,
                   envelope, checkpoint, prepared>>

-----------------------------------------------------------------------------

CallerStep(c) ==
    \/ Access(c) \/ RequestEnds(c) \/ UseRotated(c) \/ NeedsUser(c)
    \/ Prepare(c) \/ Resume(c) \/ Send(c) \/ RotationFails(c)
    \/ StoreEnvelope(c) \/ StoreCheckpoint(c)
    \/ LogoutCurrent(c) \/ ClearCredentials(c) \/ ClearBinding(c)

\* What may happen to a call but need not.
CallerChance(c) ==
    \/ Rejected(c) \/ SendFails(c) \/ SentAgain(c) \/ AnswerLost(c)
    \/ LogoutAuthenticated(c) \/ LogoutUnknown(c)

ServiceStep == \E p \in sent : Serve(p)

Next ==
    \/ \E c \in Callers : CallerStep(c) \/ CallerChance(c)
    \/ TokenAges \/ Dies
    \/ ServiceStep \/ (\E p \in sent : ServiceFails(p))
    \/ LogoutAll \/ RevokeDevice \/ FamilyExpires \/ CleanReceipts

Spec == Init /\ [][Next]_vars

\* The phone's coroutines run on, and a request somebody waits for is served.
Fairness ==
    /\ WF_vars(\E c \in Callers : CallerStep(c))
    /\ WF_vars(\E p \in sent : p.open /\ Serve(p))

FairSpec == Spec /\ Fairness

-----------------------------------------------------------------------------

\* The callers between taking the mutexes and letting them go.
Holding(c) == call[c].at \in {"ready", "waits", "stored", "clears"}

TypeOK ==
    /\ mode \in {"LEGACY", "V2"}
    /\ session \in Seq(Row) /\ Len(session) \in SessionIds
    /\ receipt \subseteq Receipt
    /\ revoked \in BOOLEAN /\ expired \in BOOLEAN
    /\ sent \subseteq Post
    /\ reply \in Replies
    /\ envelope \in Envelope
    /\ checkpoint \in {0} \cup SessionIds
    /\ gate \in Callers \cup {NoCaller} /\ \A c \in Callers : Holding(c) <=> gate = c
    /\ call \in [Callers -> Call]
    /\ prepared \in 0..MaxRotations
    /\ faults \in 0..MaxFaults

\* The live session's secret is not lost in a crash or with an answer: the
\* phone holds it, or has stored it as the successor of a pending rotation.  An
\* unbound phone at least knows that it may not know it.
SecretIsKept ==
    \A i \in DOMAIN session :
        session[i].live /\ Connected =>
            \/ session[i].secret = envelope.secret
            \/ envelope.pending /\ mode = "LEGACY"
            \/ envelope.pending /\ envelope.request.next = session[i].secret

\* The two stores the phone writes one after the other never disagree in the
\* direction that would lock it out.
CheckpointFollows == mode = "V2" /\ Connected => Accepts(envelope.session)

\* A rotation ends the session it continues: a family never branches.
OneLiveSession == \A i, k \in DOMAIN session : session[i].live /\ session[k].live => i = k

\* Whatever was lost in between, a connected phone has what it needs to go on:
\* the secret of the one live session of its family, and a checkpoint to match.
PhoneCanContinue == SecretIsKept /\ CheckpointFollows /\ OneLiveSession

\* Rotation never takes the phone's own traffic for a replay: concurrent
\* callers, deaths, resumed rotations and late requests do not cost a device its
\* grant.  A bound one may even have its requests repeated by the HTTP client;
\* an unbound one that is so repeated presents a spent generation.
RotationKeepsGrant ==
    [][\A p \in sent :
          HasLive /\ ~expired /\ Serve(p) /\ (mode = "V2" \/ ~p.again) => HasLive']_vars

\* A logout of all sessions or a revocation is final: no rotation that was
\* under way brings a session of the family back.
EndedStaysEnded == [][~HasLive => ~HasLive']_vars

\* As long as the grant lasts, a bound phone gets to use it again and again,
\* without its user.
Ended == ~HasLive \/ expired \/ revoked \/ ~Connected
StaysConnected ==
    mode = "V2" =>
        <>[]Ended \/ []<>(\E c \in Callers : call[c].at = "uses" /\ Authorized(call[c].session))
=============================================================================
