---------------------------- MODULE CallRegistry ----------------------------
(***************************************************************************)
(* The broker's list of calls (internal/app/events/callregistry.go) and    *)
(* everyone who writes to it: the callbacks a session gives to its call    *)
(* managers (wireCall), the goroutines that fetch the peer's photo, and    *)
(* the HTTP handlers that start, accept, reject and end calls.             *)
(*                                                                         *)
(* A manager calls OnStateChange with its own lock held, so the steps of   *)
(* a call wait for each other; the broker's lock is held for one read or   *)
(* one write only, so everything else may come between GetCall and the     *)
(* UpsertCall that follows it.                                             *)
(***************************************************************************)
EXTENDS CallState, FiniteSets

CONSTANTS
    Calls,       \* call ids, a bound on the calls considered
    Operators,   \* client ids of operators
    NoOwner,     \* no client id: the owner is nil
    Requests,    \* HTTP requests that may be under way at a time
    NoCall,
    NoRecord     \* no entry in b.calls, no row in the store

ASSUME RegistryAssumption ==
    NoOwner \notin Operators /\ NoCall \notin Calls

VARIABLES
    state,    \* the call's StateData.State; "nil" before it exists, "gone" when it could
              \* not be placed and was forgotten
    calls,    \* b.calls
    history,  \* the rows of the record store: the owner of each
    shown,    \* calls that were in a broadcast call list
    emit,     \* the manager's goroutine inside OnStateChange
    offer,    \* HandleCallOffer: about to run OnIncoming, or its emitState
    ended,    \* a goroutine is about to run OnEnded
    photo,    \* the goroutine of fetchPeerPhoto
    req       \* the HTTP requests

vars == <<state, calls, history, shown, emit, offer, ended, photo, req>>

Statuses == {"starting", "ringing", "connected", "reconnecting"}

Owners == Operators \cup {NoOwner}

CallRecord == [owner : Owners, status : Statuses, photo : BOOLEAN]

ASSUME NoRecordAssumption == NoRecord \notin CallRecord \cup Owners

\* at    outside, before GetCall, before UpsertCall
\* seen  what GetCall returned
Emission == [at : {"no", "get", "put"}, first : BOOLEAN, seen : CallRecord \cup {NoRecord}]

Quiet == [at |-> "no", first |-> FALSE, seen |-> NoRecord]

Request ==
    [at : {"idle", "create", "query", "upsert", "claim", "accept", "end"}, by : Owners,
     call : Calls \cup {NoCall}, group : BOOLEAN]

Idle == [at |-> "idle", by |-> NoOwner, call |-> NoCall, group |-> FALSE]

TypeOK ==
    /\ state \in [Calls -> CallStates \cup {"nil", "gone"}]
    /\ calls \in [Calls -> CallRecord \cup {NoRecord}]
    /\ history \in [Calls -> Owners \cup {NoRecord}]
    /\ shown \subseteq Calls
    /\ emit \in [Calls -> Emission]
    /\ offer \in [Calls -> {"no", "incoming", "emit"}]
    /\ ended \subseteq Calls
    /\ photo \in [Calls -> [at : {"no", "fetch", "put"}, seen : CallRecord \cup {NoRecord}]]
    /\ req \in [Requests -> Request]

Init ==
    /\ state = [c \in Calls |-> "nil"]
    /\ calls = [c \in Calls |-> NoRecord]
    /\ history = [c \in Calls |-> NoRecord]
    /\ shown = {}
    /\ emit = [c \in Calls |-> Quiet]
    /\ offer = [c \in Calls |-> "no"]
    /\ ended = {}
    /\ photo = [c \in Calls |-> [at |-> "no", seen |-> NoRecord]]
    /\ req = [r \in Requests |-> Idle]

-----------------------------------------------------------------------------
(* The broker.                                                             *)

UpsertCall(c, rec) ==
    /\ calls' = [calls EXCEPT ![c] = rec]
    /\ shown' = shown \cup {c}
    /\ UNCHANGED history

\* Mutant: only claimed calls are kept in the history.
EndCall_ClaimedOnly(c) ==
    /\ calls' = [calls EXCEPT ![c] = NoRecord]
    /\ history' = IF calls[c] # NoRecord /\ calls[c].owner # NoOwner /\ history[c] = NoRecord
                  THEN [history EXCEPT ![c] = calls[c].owner]
                  ELSE history
    /\ UNCHANGED shown

\* A second row for the same call is ignored by the store.  The store is taken to
\* accept the first one.
EndCall(c) ==
    /\ calls' = [calls EXCEPT ![c] = NoRecord]
    /\ history' = IF calls[c] # NoRecord /\ history[c] = NoRecord
                  THEN [history EXCEPT ![c] = calls[c].owner]
                  ELSE history
    /\ UNCHANGED shown

registry == <<calls, history, shown>>

\* The calls OwnerActiveCall may return.
OwnerActiveCall(o) ==
    {c \in Calls : o # NoOwner /\ calls[c] # NoRecord /\ calls[c].owner = o}

\* SetOwner returns true.
MayClaim(c, o) ==
    \/ o = NoOwner
    \/ calls[c] # NoRecord /\ calls[c].owner \in {NoOwner, o}

SetOwner(c, o) ==
    calls' = IF o = NoOwner THEN calls ELSE [calls EXCEPT ![c].owner = o]

-----------------------------------------------------------------------------
(* The callbacks of a call manager.                                        *)

Info(c) == [state |-> state[c]]

Live(c) == state[c] # "gone" /\ IsLive(Info(c))

\* Nobody holds the manager's lock.
Free(c) == emit[c].at = "no"

MapStatus(s) ==
    CASE s = "active" -> "connected"
      [] s = "reconnecting" -> "reconnecting"
      [] s = "initiating" -> "starting"
      [] OTHER -> "ringing"

\* emitState: of an ended call the record is removed at once.
EmitState(c, first) ==
    IF state'[c] = "ended"
    THEN EndCall(c) /\ UNCHANGED emit
    ELSE /\ emit' = [emit EXCEPT ![c] = [Quiet EXCEPT !.at = "get", !.first = first]]
         /\ UNCHANGED registry

EmitGet(c) ==
    /\ emit[c].at = "get"
    /\ emit' = [emit EXCEPT ![c].at = "put", ![c].seen = calls[c]]
    /\ UNCHANGED <<state, registry, offer, ended, photo, req>>

EmitPut(c) ==
    /\ emit[c].at = "put"
    /\ LET seen == emit[c].seen IN
       UpsertCall(c, [owner  |-> IF seen = NoRecord THEN NoOwner ELSE seen.owner,
                      status |-> MapStatus(state[c]),
                      photo  |-> seen # NoRecord /\ seen.photo])
    /\ emit' = [emit EXCEPT ![c] = Quiet]
    /\ UNCHANGED <<state, offer, ended, photo, req>>

\* What the peer, the relays and the operator's hold do to a call.  HandleCallAccept
\* and Resume report the state also when it stays as it is.
Progress(c) ==
    /\ Live(c) /\ Free(c)
    /\ \E t \in {"remote_accepted", "media_connected", "media_lost", "media_restored",
                 "hold", "resume"} :
        /\ Valid(Info(c), t) \/ t \in {"remote_accepted", "resume"}
        /\ t = "media_lost" => state[c] = "active"
        /\ state' = [state EXCEPT ![c] = IF Valid(Info(c), t) THEN Target(Info(c), t) ELSE @]
    /\ EmitState(c, FALSE)
    /\ UNCHANGED <<offer, ended, photo, req>>

\* CallManager.EndCall or HandleCallTerminate; OnEnded follows without the lock.
Terminated(c) ==
    /\ Live(c) /\ Free(c)
    /\ state' = [state EXCEPT ![c] = "ended"]
    /\ EmitState(c, FALSE)
    /\ ended' = ended \cup {c}

\* The peer hangs up, the watchdog, the operator's leg or the session ends the call.
Terminate(c) ==
    /\ Terminated(c)
    /\ UNCHANGED <<offer, photo, req>>

OnEnded(c) ==
    /\ c \in ended
    /\ ended' = ended \ {c}
    /\ EndCall(c)
    /\ UNCHANGED <<state, emit, offer, photo, req>>

\* HandleCallOffer.
Offer(c) ==
    /\ state[c] = "nil"
    /\ state' = [state EXCEPT ![c] = "incoming_ringing"]
    /\ offer' = [offer EXCEPT ![c] = "incoming"]
    /\ UNCHANGED <<registry, emit, ended, photo, req>>

OnIncoming(c) ==
    /\ offer[c] = "incoming"
    /\ offer' = [offer EXCEPT ![c] = "emit"]
    /\ UpsertCall(c, [owner |-> NoOwner, status |-> "ringing", photo |-> FALSE])
    /\ photo' = [photo EXCEPT ![c].at = "fetch"]
    /\ UNCHANGED <<state, emit, ended, req>>

OfferEmit(c) ==
    /\ offer[c] = "emit" /\ Free(c)
    /\ offer' = [offer EXCEPT ![c] = "no"]
    /\ UNCHANGED state
    /\ EmitState(c, FALSE)
    /\ UNCHANGED <<ended, photo, req>>

\* fetchPeerPhoto and SetCallPhoto: no picture, or no record, or the record is read.
PhotoGet(c) ==
    /\ photo[c].at = "fetch"
    /\ \/ photo' = [photo EXCEPT ![c].at = "no"]
       \/ /\ calls[c] # NoRecord /\ ~calls[c].photo
          /\ photo' = [photo EXCEPT ![c] = [at |-> "put", seen |-> calls[c]]]
    /\ UNCHANGED <<state, registry, emit, offer, ended, req>>

PhotoPut(c) ==
    /\ photo[c].at = "put"
    /\ UpsertCall(c, [photo[c].seen EXCEPT !.photo = TRUE])
    /\ photo' = [photo EXCEPT ![c] = [at |-> "no", seen |-> NoRecord]]
    /\ UNCHANGED <<state, emit, offer, ended, req>>

-----------------------------------------------------------------------------
(* The HTTP handlers.                                                      *)

Goto(r, at) == req' = [req EXCEPT ![r].at = at]

Done(r) == req' = [req EXCEPT ![r] = Idle]

\* doStartCall, handleStartGroupCall: the latter does not ask whether the operator has
\* a call already.
StartCheck(r, o, group) ==
    /\ req[r].at = "idle"
    /\ group \/ OwnerActiveCall(o) = {}
    /\ req' = [req EXCEPT ![r] = [Idle EXCEPT !.at = "create", !.by = o, !.group = group]]
    /\ UNCHANGED <<state, registry, emit, offer, ended, photo>>

\* Client.StartCall makes the manager and waits for the answer to the offer.
StartCreate(r, c) ==
    /\ req[r].at = "create"
    /\ state[c] = "nil"
    /\ state' = [state EXCEPT ![c] = "initiating"]
    /\ req' = [req EXCEPT ![r].at = "query", ![r].call = c]
    /\ UNCHANGED <<registry, emit, offer, ended, photo>>

\* No connection, or Query fails and the call is forgotten; Session.StartCall may try
\* once more with another call.
StartFails(r) ==
    /\ req[r].at \in {"create", "query"}
    /\ state' = IF req[r].at = "query"
                THEN [state EXCEPT ![req[r].call] = IF @ = "ended" THEN @ ELSE "gone"]
                ELSE state
    /\ Done(r) \/ req' = [req EXCEPT ![r].at = "create", ![r].call = NoCall]
    /\ UNCHANGED <<registry, emit, offer, ended, photo>>

OfferSent(r) ==
    LET c == req[r].call IN
    /\ req[r].at = "query" /\ Free(c)
    /\ state' = [state EXCEPT ![c] = IF Valid(Info(c), "offer_sent") THEN "ringing" ELSE @]
    /\ EmitState(c, TRUE)
    /\ Goto(r, "upsert")
    /\ UNCHANGED <<offer, ended, photo>>

\* The handler writes the record again, with its owner.
StartUpsert(r) ==
    LET c == req[r].call IN
    /\ req[r].at = "upsert" /\ ~emit[c].first
    /\ UpsertCall(c, [owner |-> req[r].by, status |-> "ringing", photo |-> FALSE])
    /\ photo' = IF req[r].group THEN photo ELSE [photo EXCEPT ![c].at = "fetch"]
    /\ Done(r)
    /\ UNCHANGED <<state, emit, offer, ended>>

\* doAccept: which call OwnerActiveCall returns, of several, is a matter of chance.
AcceptCheck(r, o, c) ==
    /\ req[r].at = "idle" /\ Live(c)
    /\ OwnerActiveCall(o) = {} \/ c \in OwnerActiveCall(o)
    /\ req' = [req EXCEPT ![r] = [Idle EXCEPT !.at = "claim", !.by = o, !.call = c]]
    /\ UNCHANGED <<state, registry, emit, offer, ended, photo>>

AcceptClaim(r) ==
    LET c == req[r].call o == req[r].by IN
    /\ req[r].at = "claim"
    /\ IF MayClaim(c, o)
       THEN SetOwner(c, o) /\ Goto(r, "accept")
       ELSE UNCHANGED calls /\ Done(r)
    /\ UNCHANGED <<state, history, shown, emit, offer, ended, photo>>

AcceptCall(r) ==
    LET c == req[r].call IN
    /\ req[r].at = "accept" /\ Free(c)
    /\ IF Valid(Info(c), "local_accepted")
       THEN state' = [state EXCEPT ![c] = "connecting"] /\ EmitState(c, FALSE)
       ELSE UNCHANGED <<state, registry, emit>>
    /\ Done(r)
    /\ UNCHANGED <<offer, ended, photo>>

\* Mutant: the error of RejectCall is not looked at.
MayReject_Any(c) == state[c] # "nil"

\* RejectCall returns no InvalidTransition: the call is ringing here, or it is not
\* known to the session any more.
MayReject(c) == state[c] \in {"ended", "gone"} \/ Valid(Info(c), "local_rejected")

\* doReject; the call may have ended before.  OnEnded is not called.
RejectCall(r, c) ==
    /\ req[r].at = "idle"
    /\ MayReject(c) /\ Free(c)
    /\ IF Valid(Info(c), "local_rejected")
       THEN state' = [state EXCEPT ![c] = "ended"] /\ EmitState(c, FALSE)
       ELSE UNCHANGED <<state, registry, emit>>
    /\ req' = [req EXCEPT ![r] = [Idle EXCEPT !.at = "end", !.call = c]]
    /\ UNCHANGED <<offer, ended, photo>>

\* doEndCall.
EndCallRequest(r, c) ==
    /\ req[r].at = "idle"
    /\ \/ Terminated(c)
       \/ state[c] \in {"ended", "gone"} /\ UNCHANGED <<state, registry, emit, ended>>
    /\ req' = [req EXCEPT ![r] = [Idle EXCEPT !.at = "end", !.call = c]]
    /\ UNCHANGED <<offer, photo>>

\* Both end with the broker's EndCall.
RequestEnds(r) ==
    /\ req[r].at = "end"
    /\ EndCall(req[r].call)
    /\ Done(r)
    /\ UNCHANGED <<state, emit, offer, ended, photo>>

-----------------------------------------------------------------------------
Manager(c) ==
    EmitGet(c) \/ EmitPut(c) \/ Progress(c) \/ Terminate(c) \/ OnEnded(c)
        \/ Offer(c) \/ OnIncoming(c) \/ OfferEmit(c) \/ PhotoGet(c) \/ PhotoPut(c)

Handler(r) ==
    \/ \E o \in Owners : \E group \in BOOLEAN : StartCheck(r, o, group)
    \/ \E c \in Calls :
        \/ StartCreate(r, c) \/ RejectCall(r, c) \/ EndCallRequest(r, c)
        \/ \E o \in Owners : AcceptCheck(r, o, c)
    \/ StartFails(r) \/ OfferSent(r) \/ StartUpsert(r) \/ AcceptClaim(r) \/ AcceptCall(r)
    \/ RequestEnds(r)

Next == (\E c \in Calls : Manager(c)) \/ (\E r \in Requests : Handler(r))

Spec == Init /\ [][Next]_vars

-----------------------------------------------------------------------------
(* Properties.                                                             *)

\* A call that is going on is in the list, once the callbacks that announce it have
\* run: no handler, late callback or stale copy takes it out.
LiveIsListed ==
    \A c \in Calls :
        Live(c) /\ state[c] # "initiating" /\ offer[c] # "incoming" /\ Free(c)
            => calls[c] # NoRecord

\* A call that operators have seen in the list is in the list or in the history: none
\* disappears without a trace, in whichever order its ends are reported.
NoneLost == \A c \in shown : calls[c] # NoRecord \/ history[c] # NoRecord

\* Nothing is under way for the call.
Settled(c) ==
    /\ Free(c) /\ offer[c] = "no" /\ c \notin ended /\ photo[c].at = "no"
    /\ \A r \in Requests : req[r].call # c

\* A call that has ended is not in the list, and does not keep its operator from other
\* calls.
EndedNotListed ==
    \A c \in Calls : state[c] = "ended" /\ Settled(c) => calls[c] = NoRecord
=============================================================================
