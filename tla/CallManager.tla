----------------------------- MODULE CallManager -----------------------------
(***************************************************************************)
(* One call of a session: call.CallManager with the goroutines that run    *)
(* through it (internal/voip/call), the registration in call.Client, the   *)
(* part of the session's OnStateChange callback that unregisters an ended  *)
(* call, the audio extension's send loop, and the relay transport seen     *)
(* through the RelayTransport interface.                                   *)
(*                                                                         *)
(* Every action is one critical section of m.mu, or one call between two   *)
(* of them.  The threads and their program counters:                       *)
(*   sc    Client.StartCall / the caller of HandleOffer                    *)
(*   ack   the goroutine StartCall spawns for HandleCallAck                *)
(*   ev    the session's event handler: one inbound stanza at a time       *)
(*   acc   an HTTP request inside AcceptCall                               *)
(*   td    whoever runs EndCall or RejectCall (at most one passes)         *)
(*   wd, tick   the watchdog goroutine and the tick it is executing        *)
(*   redial     a goroutine about to run connectRelays                     *)
(*   drain      Session.teardownAllCalls                                   *)
(***************************************************************************)
EXTENDS CallState, Naturals

CONSTANTS
    Devices,        \* the peer's devices
    NoDevice,       \* the empty JID
    PeerJid,        \* the call's base peer, before a device has answered
    NoSrtp,         \* m.srtp == nil
    Directions,     \* the directions of the calls considered
    OfferRelays,    \* relay lists an inbound offer may carry
    HoldStates,     \* call states in which an operator asks for hold
    Stanzas         \* the kinds of inbound stanzas considered

RelayLists == {"none", "undialable", "dialable"}

ASSUME DevicesAssumption == NoDevice \notin Devices /\ PeerJid \notin Devices

ASSUME EnvironmentAssumption ==
    /\ Directions \subseteq {"outgoing", "incoming"}
    /\ OfferRelays \subseteq RelayLists
    /\ HoldStates \subseteq Source.hold
    /\ Stanzas \subseteq {"accept", "terminate", "transport", "latency"}

SrtpKeys == [peer : Devices \cup {PeerJid}, key : {"call", "peer"}]

ASSUME SrtpAssumption == NoSrtp \notin SrtpKeys

VARIABLES
    dir,         \* call.Direction
    call,        \* m.currentCall's StateData
    key,         \* call.EncryptionKey != nil
    eps,         \* call.RelayData.Endpoints
    registered,  \* the call is in Client.calls
    acceptedBy,  \* m.acceptedByJid
    rungOff,     \* devices that were sent accepted_elsewhere
    srtp,        \* m.srtp: whose receive key, and which call key it is from
    ext,         \* m.extAttached; the audio extension's send loop and detached
    rtcp,        \* m.rtcpTxStop != nil
    path,        \* the relay manager's connections: none, dialing, open
    everOpen,    \* some relay connection has opened
    quiet,       \* m.lastMediaRecv: never, recent, stale
    holdActive,  \* m.holdActive
    obsEnds,     \* calls of observer.End; m.observerEnded is obsEnds > 0
    sc, ack, ev, acc, td, redial, wd, tick, drain

callVars == <<dir, call, key, eps, registered>>
peerVars == <<acceptedBy, rungOff>>
mediaVars == <<srtp, ext, rtcp, path, everOpen, quiet>>
threads == <<sc, ack, ev, acc, td, redial, wd, tick, drain>>
vars == <<callVars, peerVars, mediaVars, holdActive, obsEnds, threads>>

Idle == [op |-> "idle", dev |-> NoDevice, key |-> "none"]

EvOps ==
    {"idle", "offer", "offer_emit", "offer_watch", "accept", "accept_rekey",
     "accept_main", "accept_active", "accept_dial", "accept_done", "transport",
     "transport_store", "transport_dial", "latency", "terminate",
     "term_cleanup", "term_detach", "term_relay"}

Events == [op : EvOps, dev : Devices \cup {NoDevice}, key : {"none", "same", "other"}]

Extension == [attached : BOOLEAN, loop : BOOLEAN, detached : BOOLEAN]

TypeOK ==
    /\ dir \in {"outgoing", "incoming"}
    /\ call \in CallInfo
    /\ key \in BOOLEAN
    /\ eps \in RelayLists
    /\ registered \in BOOLEAN
    /\ acceptedBy \in Devices \cup {NoDevice}
    /\ rungOff \in SUBSET Devices
    /\ srtp \in SrtpKeys \cup {NoSrtp}
    /\ ext \in Extension
    /\ rtcp \in BOOLEAN
    /\ path \in {"none", "dialing", "open"}
    /\ everOpen \in BOOLEAN
    /\ quiet \in {"never", "recent", "stale"}
    /\ holdActive \in BOOLEAN
    /\ obsEnds \in 0..2
    /\ sc \in {"idle", "created", "building", "query", "watch", "done", "failed"}
    /\ ack \in {"none", "pending", "dial"}
    /\ ev \in Events
    /\ acc \in {"idle", "media", "dial"}
    /\ td \in {"idle", "cleanup", "detach", "relay"}
    /\ redial \in BOOLEAN
    /\ wd \in BOOLEAN
    /\ tick \in {"none", "lost", "retry", "retry_due", "drop", "drop_due", "due"}
    /\ drain \in {"no", "end", "done"}

Init ==
    /\ dir \in Directions
    /\ call = NilCall /\ key = FALSE /\ eps = "none" /\ registered = FALSE
    /\ acceptedBy = NoDevice /\ rungOff = {}
    /\ srtp = NoSrtp /\ ext = [attached |-> FALSE, loop |-> FALSE, detached |-> FALSE]
    /\ rtcp = FALSE /\ path = "none" /\ everOpen = FALSE /\ quiet = "never"
    /\ holdActive = FALSE /\ obsEnds = 0
    /\ sc = "idle" /\ ack = "none" /\ ev = Idle /\ acc = "idle" /\ td = "idle"
    /\ redial = FALSE /\ wd = FALSE /\ tick = "none" /\ drain = "no"

-----------------------------------------------------------------------------
(* Building blocks.                                                        *)

\* emitState: OnStateChange(ended) removes the call from Client.calls.
Emitted(c) == registered /\ ~IsEnded(c)

\* The state changes by t, errors discarded, and the session is told.
Transit(t) ==
    /\ call' = ApplyTransition(call, t)
    /\ registered' = Emitted(call')

\* ensureExtensionsAttachedLocked with Audio.Attach: attaching starts the send
\* loop whether or not the extension was detached before.
Attached(e) == IF e.attached THEN e ELSE [e EXCEPT !.attached = TRUE, !.loop = TRUE]

\* Audio.Detach: only the first one does anything.
Detached(e) == IF e.detached THEN e ELSE [e EXCEPT !.detached = TRUE, !.loop = FALSE]

\* initSrtpKeysLocked, keyed for the given peer device.
InitSrtpKeys(dev) ==
    IF key
    THEN srtp' = [peer |-> dev, key |-> "call"] /\ ext' = Attached(ext)
    ELSE UNCHANGED <<srtp, ext>>

\* Mutant: the keys are always derived for the base peer.
SrtpPeer_Base == PeerJid

\* The device initSrtpKeysLocked derives the receive key for.
SrtpPeer == IF acceptedBy = NoDevice THEN PeerJid ELSE acceptedBy

\* TransitionMediaConnected followed by maybeStartRtcpTxLocked.
MediaConnected ==
    /\ Transit("media_connected")
    /\ rtcp' = (rtcp \/ (Valid(call, "media_connected") /\ srtp # NoSrtp))

\* connectRelays on endpoints l: buildRelayConfigs drops what cannot be dialed.
Dial(l) == path' = IF l = "dialable" /\ path = "none" THEN "dialing" ELSE path

HasConnection == path = "open"

\* cleanupMedia's critical section.
CleanupLocked ==
    /\ srtp' = NoSrtp
    /\ ext' = [ext EXCEPT !.attached = FALSE]
    /\ rtcp' = FALSE
    /\ quiet' = "never"
    /\ wd' = FALSE
    /\ obsEnds' = IF obsEnds = 0 THEN 1 ELSE obsEnds

\* EndCall's critical section: an ended call is left alone.
EndCallLocked ==
    /\ IsLive(call)
    /\ Transit("terminated")
    /\ td' = "cleanup"

-----------------------------------------------------------------------------
(* Placing a call: Client.StartCall, CallManager.StartCall.                *)

CreateOutgoing ==
    /\ dir = "outgoing" /\ sc = "idle"
    /\ registered' = TRUE /\ sc' = "created"
    /\ UNCHANGED <<dir, call, key, eps, peerVars, mediaVars, holdActive, obsEnds,
                   ack, ev, acc, td, redial, wd, tick, drain>>

StartCall ==
    /\ dir = "outgoing" /\ sc = "created"
    /\ ~IsLive(call)
    /\ call' = NewOutgoingCall /\ key' = TRUE /\ sc' = "building"
    /\ UNCHANGED <<dir, eps, registered, peerVars, mediaVars, holdActive, obsEnds,
                   ack, ev, acc, td, redial, wd, tick, drain>>

\* BuildOfferStanza succeeded and the offer goes out with Query.
SendOffer ==
    /\ sc = "building" /\ sc' = "query"
    /\ UNCHANGED <<callVars, peerVars, mediaVars, holdActive, obsEnds,
                   ack, ev, acc, td, redial, wd, tick, drain>>

\* BuildOfferStanza or Query failed: Client.StartCall forgets the call.
StartFailed ==
    /\ sc \in {"building", "query"}
    /\ sc' = "failed" /\ registered' = FALSE
    /\ UNCHANGED <<dir, call, key, eps, peerVars, mediaVars, holdActive, obsEnds,
                   ack, ev, acc, td, redial, wd, tick, drain>>

\* Query returned, with or without an ack node.
OfferSent ==
    /\ sc = "query" /\ sc' = "watch"
    /\ Transit("offer_sent")
    /\ ack' \in {"none", "pending"}
    /\ UNCHANGED <<dir, key, eps, peerVars, mediaVars, holdActive, obsEnds,
                   ev, acc, td, redial, wd, tick, drain>>

StartWatchdog ==
    /\ sc = "watch" /\ sc' = "done" /\ wd' = TRUE
    /\ UNCHANGED <<callVars, peerVars, mediaVars, holdActive, obsEnds,
                   ack, ev, acc, td, redial, tick, drain>>

\* The call is not asked whether it ended meanwhile.
HandleCallAck ==
    /\ ack = "pending"
    /\ \E l \in RelayLists, participants \in BOOLEAN :
        IF l = "none"
        THEN ack' = "none" /\ UNCHANGED <<eps, srtp, ext>>
        ELSE /\ eps' = l
             /\ IF participants THEN InitSrtpKeys(SrtpPeer) ELSE UNCHANGED <<srtp, ext>>
             /\ ack' = IF l = "dialable" THEN "dial" ELSE "none"
    /\ UNCHANGED <<dir, call, key, registered, peerVars, rtcp, path, everOpen, quiet,
                   holdActive, obsEnds, sc, ev, acc, td, redial, wd, tick, drain>>

AckDial ==
    /\ ack = "dial" /\ ack' = "none"
    /\ Dial("dialable")
    /\ UNCHANGED <<callVars, peerVars, srtp, ext, rtcp, everOpen, quiet, holdActive,
                   obsEnds, sc, ev, acc, td, redial, wd, tick, drain>>

-----------------------------------------------------------------------------
(* Receiving a call: Client.HandleOffer, CallManager.HandleCallOffer, on   *)
(* the event thread; AcceptCall and RejectCall from an HTTP request.       *)

HandleOffer ==
    /\ dir = "incoming" /\ sc = "idle" /\ ev.op = "idle"
    /\ registered' = TRUE /\ sc' = "done"
    /\ ev' = [ev EXCEPT !.op = "offer"]
    /\ UNCHANGED <<dir, call, key, eps, peerVars, mediaVars, holdActive, obsEnds,
                   ack, acc, td, redial, wd, tick, drain>>

HandleCallOffer ==
    /\ ev.op = "offer" /\ ev' = [ev EXCEPT !.op = "offer_emit"]
    /\ call' = NewIncomingCall
    /\ key' \in BOOLEAN
    /\ eps' \in OfferRelays
    /\ UNCHANGED <<dir, registered, peerVars, mediaVars, holdActive, obsEnds,
                   sc, ack, acc, td, redial, wd, tick, drain>>

OfferEmit ==
    /\ ev.op = "offer_emit" /\ ev' = [ev EXCEPT !.op = "offer_watch"]
    /\ registered' = Emitted(call)
    /\ UNCHANGED <<dir, call, key, eps, peerVars, mediaVars, holdActive, obsEnds,
                   sc, ack, acc, td, redial, wd, tick, drain>>

OfferWatchdog ==
    /\ ev.op = "offer_watch" /\ ev' = Idle
    /\ wd' = TRUE
    /\ UNCHANGED <<callVars, peerVars, mediaVars, holdActive, obsEnds,
                   sc, ack, acc, td, redial, tick, drain>>

\* Mutant: the media of an accepted call is left for a transport message.
AcceptCall_NoMedia ==
    /\ registered /\ call.state = "incoming_ringing" /\ acc = "idle"
    /\ Transit("local_accepted")
    /\ UNCHANGED <<dir, key, eps, peerVars, mediaVars, holdActive, obsEnds, threads>>

\* relayData is read before the accept stanza is sent.
AcceptCall ==
    /\ registered /\ call.state = "incoming_ringing" /\ acc = "idle"
    /\ Transit("local_accepted")
    /\ acc' = IF eps = "none" THEN "idle" ELSE "media"
    /\ UNCHANGED <<dir, key, eps, peerVars, mediaVars, holdActive, obsEnds,
                   sc, ack, ev, td, redial, wd, tick, drain>>

SetupIncomingMedia ==
    /\ acc = "media"
    /\ InitSrtpKeys(SrtpPeer)
    /\ acc' = IF eps = "dialable" THEN "dial" ELSE "idle"
    /\ UNCHANGED <<callVars, peerVars, rtcp, path, everOpen, quiet, holdActive, obsEnds,
                   sc, ack, ev, td, redial, wd, tick, drain>>

AcceptDial ==
    /\ acc = "dial" /\ acc' = "idle"
    /\ Dial("dialable")
    /\ UNCHANGED <<callVars, peerVars, srtp, ext, rtcp, everOpen, quiet, holdActive,
                   obsEnds, sc, ack, ev, td, redial, wd, tick, drain>>

RejectCall ==
    /\ registered /\ Valid(call, "local_rejected") /\ td = "idle"
    /\ Transit("local_rejected")
    /\ td' = "cleanup"
    /\ UNCHANGED <<dir, key, eps, peerVars, mediaVars, holdActive, obsEnds,
                   sc, ack, ev, acc, redial, wd, tick, drain>>

-----------------------------------------------------------------------------
(* Ending a call.                                                          *)

\* Session.EndCall and Session.terminateCall.
EndCall ==
    /\ registered /\ EndCallLocked
    /\ UNCHANGED <<dir, key, eps, peerVars, mediaVars, holdActive, obsEnds,
                   sc, ack, ev, acc, redial, wd, tick, drain>>

\* teardownAllCalls: Client.Drain first, then EndCall on what it returned.
Drain ==
    /\ registered /\ drain = "no"
    /\ registered' = FALSE /\ drain' = "end"
    /\ UNCHANGED <<dir, call, key, eps, peerVars, mediaVars, holdActive, obsEnds,
                   sc, ack, ev, acc, td, redial, wd, tick>>

DrainEndCall ==
    /\ drain = "end" /\ drain' = "done"
    /\ IF IsLive(call) THEN EndCallLocked ELSE UNCHANGED <<call, registered, td>>
    /\ UNCHANGED <<dir, key, eps, peerVars, mediaVars, holdActive, obsEnds,
                   sc, ack, ev, acc, redial, wd, tick>>

\* cleanupMedia after EndCall or RejectCall: critical section, extensions, relay.
Cleanup ==
    /\ td = "cleanup" /\ td' = "detach"
    /\ CleanupLocked
    /\ UNCHANGED <<callVars, peerVars, path, everOpen, holdActive,
                   sc, ack, ev, acc, redial, tick, drain>>

Detach ==
    /\ td = "detach" /\ td' = "relay"
    /\ ext' = Detached(ext)
    /\ UNCHANGED <<callVars, peerVars, srtp, rtcp, path, everOpen, quiet, holdActive,
                   obsEnds, sc, ack, ev, acc, redial, wd, tick, drain>>

RelayCleanup ==
    /\ td = "relay" /\ td' = "idle"
    /\ path' = "none"
    /\ UNCHANGED <<callVars, peerVars, srtp, ext, rtcp, everOpen, quiet, holdActive,
                   obsEnds, sc, ack, ev, acc, redial, wd, tick, drain>>

-----------------------------------------------------------------------------
(* Hold and resume.  Resume keeps the manager it looked up before the      *)
(* browser leg was built, so it may find the call gone or ended.           *)

Hold ==
    /\ registered /\ call.state \in HoldStates
    /\ Transit("hold")
    /\ holdActive' = TRUE
    /\ UNCHANGED <<dir, key, eps, peerVars, mediaVars, obsEnds, threads>>

Resume ==
    /\ call.state # "nil"
    /\ Transit("resume")
    /\ holdActive' = FALSE
    /\ UNCHANGED <<dir, key, eps, peerVars, mediaVars, obsEnds, threads>>

-----------------------------------------------------------------------------
(* Inbound stanzas.  handleEvent runs one at a time; Client looks the call *)
(* up, and the handler may run after the call was ended by someone else.   *)

Dispatch(op, d) ==
    /\ ev.op = "idle" /\ registered /\ op \in Stanzas
    /\ ev' = [Idle EXCEPT !.op = op, !.dev = d]
    /\ UNCHANGED <<callVars, peerVars, mediaVars, holdActive, obsEnds,
                   sc, ack, acc, td, redial, wd, tick, drain>>

\* A peer device answers, retransmits its answer, or hangs up; relays arrive.
Receive ==
    \/ \E d \in Devices :
        /\ dir = "outgoing" /\ sc \in {"query", "watch", "done"}
        /\ Dispatch("accept", d)
    \/ \E d \in Devices \cup {NoDevice} : IsLive(call) /\ Dispatch("terminate", d)
    \/ IsLive(call) /\ Dispatch("transport", NoDevice)
    \/ IsLive(call) /\ Dispatch("latency", NoDevice)

\* First accept wins; a retry from the same device is let through.
MayAccept(d) == acceptedBy \in {NoDevice, d}

HandleCallAccept ==
    /\ ev.op = "accept"
    /\ ev' = IF MayAccept(ev.dev) THEN [ev EXCEPT !.op = "accept_rekey"] ELSE Idle
    /\ UNCHANGED <<callVars, peerVars, mediaVars, holdActive, obsEnds,
                   sc, ack, acc, td, redial, wd, tick, drain>>

\* The accept's call key was decrypted outside the lock.  "none" stands for a
\* key that is absent or undecryptable.
AcceptRekey ==
    /\ ev.op = "accept_rekey"
    /\ \E k \in {"none", "same", "other"} :
        /\ ev' = [ev EXCEPT !.op = "accept_main", !.key = k]
        /\ srtp' = IF k = "other" /\ IsLive(call) /\ key
                   THEN [peer |-> ev.dev, key |-> "peer"]
                   ELSE srtp
    /\ UNCHANGED <<callVars, peerVars, ext, rtcp, path, everOpen, quiet, holdActive,
                   obsEnds, sc, ack, acc, td, redial, wd, tick, drain>>

\* Mutant: the call is not looked at again after the decryption.
AcceptRecheck_None == TRUE

\* The second critical section, entered only if the call has not ended.
AcceptRecheck == ~IsEnded(call)

AcceptMain ==
    /\ ev.op = "accept_main"
    /\ IF AcceptRecheck
       THEN /\ Transit("remote_accepted")
            /\ acceptedBy' = ev.dev
            /\ rungOff' = IF acceptedBy = NoDevice THEN Devices \ {ev.dev} ELSE rungOff
            /\ InitSrtpKeys(ev.dev)
            /\ ev' = [ev EXCEPT !.op = IF HasConnection THEN "accept_active"
                                       ELSE IF eps = "dialable" THEN "accept_dial"
                                       ELSE "accept_done"]
       ELSE /\ ev' = Idle
            /\ UNCHANGED <<call, registered, peerVars, srtp, ext>>
    /\ UNCHANGED <<dir, key, eps, rtcp, path, everOpen, quiet, holdActive, obsEnds,
                   sc, ack, acc, td, redial, wd, tick, drain>>

\* After the stanzas: media is up already, or the relays are dialed.
AcceptActive ==
    /\ ev.op = "accept_active" /\ ev' = Idle
    /\ IF Valid(call, "media_connected")
       THEN MediaConnected
       ELSE UNCHANGED <<call, registered, rtcp>>
    /\ UNCHANGED <<dir, key, eps, peerVars, srtp, ext, path, everOpen, quiet,
                   holdActive, obsEnds, sc, ack, acc, td, redial, wd, tick, drain>>

AcceptDone ==
    /\ ev.op \in {"accept_dial", "accept_done"} /\ ev' = Idle
    /\ IF ev.op = "accept_dial" THEN Dial("dialable") ELSE UNCHANGED path
    /\ UNCHANGED <<callVars, peerVars, srtp, ext, rtcp, everOpen, quiet, holdActive,
                   obsEnds, sc, ack, acc, td, redial, wd, tick, drain>>

\* Relays are taken only while nothing is connected, and only if dialable.
HandleCallTransport ==
    /\ ev.op = "transport"
    /\ ev' \in {Idle} \cup
         (IF HasConnection THEN {} ELSE {[ev EXCEPT !.op = "transport_store"]})
    /\ UNCHANGED <<callVars, peerVars, mediaVars, holdActive, obsEnds,
                   sc, ack, acc, td, redial, wd, tick, drain>>

TransportStore ==
    /\ ev.op = "transport_store" /\ ev' = [ev EXCEPT !.op = "transport_dial"]
    /\ eps' = "dialable"
    /\ UNCHANGED <<dir, call, key, registered, peerVars, mediaVars, holdActive, obsEnds,
                   sc, ack, acc, td, redial, wd, tick, drain>>

TransportDial ==
    /\ ev.op = "transport_dial" /\ ev' = Idle
    /\ Dial("dialable")
    /\ UNCHANGED <<callVars, peerVars, srtp, ext, rtcp, everOpen, quiet, holdActive,
                   obsEnds, sc, ack, acc, td, redial, wd, tick, drain>>

\* Harvests relays if there are none; the echoed probes change no state.
HandleCallRelayLatency ==
    /\ ev.op = "latency" /\ ev' = Idle
    /\ eps' \in IF eps = "none" THEN RelayLists ELSE {eps}
    /\ UNCHANGED <<dir, call, key, registered, peerVars, mediaVars, holdActive, obsEnds,
                   sc, ack, acc, td, redial, wd, tick, drain>>

\* Once a device has answered only that device may end a live call; a stanza
\* that names no sender is let through.
MayTerminate(d) == acceptedBy \in {NoDevice, d} \/ d = NoDevice \/ IsEnded(call)

HandleCallTerminate ==
    /\ ev.op = "terminate"
    /\ IF MayTerminate(ev.dev)
       THEN Transit("terminated") /\ ev' = [ev EXCEPT !.op = "term_cleanup"]
       ELSE ev' = Idle /\ UNCHANGED <<call, registered>>
    /\ UNCHANGED <<dir, key, eps, peerVars, mediaVars, holdActive, obsEnds,
                   sc, ack, acc, td, redial, wd, tick, drain>>

TermCleanup ==
    /\ ev.op = "term_cleanup" /\ ev' = [ev EXCEPT !.op = "term_detach"]
    /\ CleanupLocked
    /\ UNCHANGED <<callVars, peerVars, path, everOpen, holdActive,
                   sc, ack, acc, td, redial, tick, drain>>

TermDetach ==
    /\ ev.op = "term_detach" /\ ev' = [ev EXCEPT !.op = "term_relay"]
    /\ ext' = Detached(ext)
    /\ UNCHANGED <<callVars, peerVars, srtp, rtcp, path, everOpen, quiet, holdActive,
                   obsEnds, sc, ack, acc, td, redial, wd, tick, drain>>

TermRelayCleanup ==
    /\ ev.op = "term_relay" /\ ev' = Idle
    /\ path' = "none"
    /\ UNCHANGED <<callVars, peerVars, srtp, ext, rtcp, everOpen, quiet, holdActive,
                   obsEnds, sc, ack, acc, td, redial, wd, tick, drain>>

-----------------------------------------------------------------------------
(* The relay transport.  Its callbacks run without its lock, so one may be *)
(* delivered arbitrarily late and out of order: after the first connection *)
(* has opened any of them may be under way.                                *)

RelayOpens ==
    /\ path = "dialing" /\ path' = "open" /\ everOpen' = TRUE
    /\ UNCHANGED <<callVars, peerVars, srtp, ext, rtcp, quiet, holdActive, obsEnds, threads>>

\* Dial timeout, ICE failure or a closed channel took the last connection.
RelayLost ==
    /\ path # "none" /\ path' = "none"
    /\ UNCHANGED <<callVars, peerVars, srtp, ext, rtcp, everOpen, quiet, holdActive,
                   obsEnds, threads>>

OnRelayConnected ==
    /\ everOpen /\ call.state = "connecting"
    /\ MediaConnected
    /\ UNCHANGED <<dir, key, eps, peerVars, srtp, ext, path, everOpen, quiet,
                   holdActive, obsEnds, threads>>

\* Mutant: relies on ApplyTransition alone, which also lets on_hold through.
OnRelayUnusable_AnyState ==
    /\ everOpen /\ Valid(call, "media_lost")
    /\ Transit("media_lost")
    /\ redial' = (redial \/ eps # "none")
    /\ UNCHANGED <<dir, key, eps, peerVars, mediaVars, holdActive, obsEnds,
                   sc, ack, ev, acc, td, wd, tick, drain>>

\* onRelayUsableChange(0).  With usable > 0 only subscriptions are resent.
OnRelayUnusable ==
    /\ everOpen /\ call.state = "active"
    /\ Transit("media_lost")
    /\ redial' = (redial \/ eps # "none")
    /\ UNCHANGED <<dir, key, eps, peerVars, mediaVars, holdActive, obsEnds,
                   sc, ack, ev, acc, td, wd, tick, drain>>

Redial ==
    /\ redial /\ redial' = FALSE
    /\ Dial(eps)
    /\ UNCHANGED <<callVars, peerVars, srtp, ext, rtcp, everOpen, quiet, holdActive,
                   obsEnds, sc, ack, ev, acc, td, wd, tick, drain>>

\* notePeerMedia: a packet of the peer arrives through some relay.
PeerMedia ==
    /\ everOpen /\ call.state # "nil"
    /\ quiet' = "recent"
    /\ IF call.state = "reconnecting"
       THEN Transit("media_restored")
       ELSE UNCHANGED <<call, registered>>
    /\ UNCHANGED <<dir, key, eps, peerVars, srtp, ext, rtcp, path, everOpen, holdActive,
                   obsEnds, threads>>

\* MediaInactivity passes without a packet.  It is longer (5 s) than the ticks
\* of the watchdog (1 s), the only reader, which sees it between two ticks.
MediaSilence ==
    /\ quiet = "recent" /\ tick = "none" /\ quiet' = "stale"
    /\ UNCHANGED <<callVars, peerVars, srtp, ext, rtcp, path, everOpen, holdActive,
                   obsEnds, threads>>

-----------------------------------------------------------------------------
(* The watchdog.  expireIfOverdue decides under the lock, releases it and  *)
(* acts on what it read.  Time is not counted: a deadline that exists may  *)
(* be found passed, or not, whenever the watchdog looks.                   *)

Inactive == call.state = "active" /\ quiet = "stale"

\* What a tick decides to do; overdue says whether the deadline has passed.
Decision(overdue) ==
    IF Inactive THEN "lost"
    ELSE IF call.state = "reconnecting" THEN (IF overdue THEN "retry_due" ELSE "retry")
    ELSE IF overdue THEN "due" ELSE "none"

ExpireRead(overdue) ==
    /\ wd /\ tick = "none" /\ IsLive(call)
    /\ overdue => HasDeadline(call)
    /\ tick' = Decision(overdue)
    /\ UNCHANGED <<callVars, peerVars, mediaVars, holdActive, obsEnds,
                   sc, ack, ev, acc, td, redial, wd, drain>>

\* Mutant: a tick does not return when the call has ended.
WatchdogExit_Never == FALSE /\ UNCHANGED vars

\* The watchdog finds the call ended and returns.
WatchdogExit ==
    /\ wd /\ tick = "none" /\ IsEnded(call) /\ wd' = FALSE
    /\ UNCHANGED <<callVars, peerVars, mediaVars, holdActive, obsEnds,
                   sc, ack, ev, acc, td, redial, tick, drain>>

ForceMediaLost ==
    /\ tick = "lost"
    /\ IF call.state = "active"
       THEN Transit("media_lost") /\ tick' = "drop"
       ELSE tick' = "none" /\ UNCHANGED <<call, registered>>
    /\ UNCHANGED <<dir, key, eps, peerVars, mediaVars, holdActive, obsEnds,
                   sc, ack, ev, acc, td, redial, wd, drain>>

\* Within redialRetryInterval of the last redial, or out of "reconnecting", or
\* without endpoints, nothing is dropped.
RetryReconnect ==
    /\ tick \in {"retry", "retry_due"}
    /\ \/ tick' = IF tick = "retry" THEN "none" ELSE "due"
       \/ /\ call.state = "reconnecting" /\ eps # "none"
          /\ tick' = IF tick = "retry" THEN "drop" ELSE "drop_due"
    /\ UNCHANGED <<callVars, peerVars, mediaVars, holdActive, obsEnds,
                   sc, ack, ev, acc, td, redial, wd, drain>>

DropConnections ==
    /\ tick \in {"drop", "drop_due"}
    /\ path' = "none"
    /\ redial' = (redial \/ eps # "none")
    /\ tick' = IF tick = "drop" THEN "none" ELSE "due"
    /\ UNCHANGED <<callVars, peerVars, srtp, ext, rtcp, everOpen, quiet, holdActive,
                   obsEnds, sc, ack, ev, acc, td, wd, drain>>

\* EndCall(timeout): the deadline is not checked again.
ExpireEndCall ==
    /\ tick = "due" /\ tick' = "none"
    /\ wd' = FALSE
    /\ IF IsLive(call) THEN EndCallLocked ELSE UNCHANGED <<call, registered, td>>
    /\ UNCHANGED <<dir, key, eps, peerVars, mediaVars, holdActive, obsEnds,
                   sc, ack, ev, acc, redial, drain>>

-----------------------------------------------------------------------------
StartThread == StartCall \/ SendOffer \/ StartFailed \/ OfferSent \/ StartWatchdog
AckThread == HandleCallAck \/ AckDial
OfferThread == HandleCallOffer \/ OfferEmit \/ OfferWatchdog
AcceptThread == HandleCallAccept \/ AcceptRekey \/ AcceptMain \/ AcceptActive \/ AcceptDone
TransportThread ==
    HandleCallTransport \/ TransportStore \/ TransportDial \/ HandleCallRelayLatency
TerminateThread == HandleCallTerminate \/ TermCleanup \/ TermDetach \/ TermRelayCleanup
EventThread == OfferThread \/ AcceptThread \/ TransportThread \/ TerminateThread
RequestThread == SetupIncomingMedia \/ AcceptDial
TeardownThread == Cleanup \/ Detach \/ RelayCleanup
Watchdog ==
    \/ \E overdue \in BOOLEAN : ExpireRead(overdue)
    \/ WatchdogExit \/ ForceMediaLost \/ RetryReconnect \/ DropConnections \/ ExpireEndCall
Operator == AcceptCall \/ RejectCall \/ EndCall \/ Drain \/ DrainEndCall \/ Hold \/ Resume
Relay ==
    \/ RelayOpens \/ RelayLost \/ OnRelayConnected \/ OnRelayUnusable \/ Redial
    \/ PeerMedia \/ MediaSilence

Next ==
    \/ CreateOutgoing \/ HandleOffer \/ StartThread \/ AckThread \/ Receive
    \/ EventThread \/ RequestThread \/ TeardownThread \/ Watchdog \/ Operator \/ Relay

\* Go runs every goroutine that can run; Query returns (15 s) and the ticker
\* keeps ticking.  Time passes: a deadline met infinitely often by the
\* watchdog is found passed some day, because CreatedAt, AcceptedAt and
\* ConnectedAt never move and a reconnecting phase either ends or expires.
Fairness ==
    /\ WF_vars(StartThread) /\ WF_vars(AckThread) /\ WF_vars(EventThread)
    /\ WF_vars(RequestThread) /\ WF_vars(TeardownThread) /\ WF_vars(DrainEndCall)
    /\ WF_vars(Redial) /\ WF_vars(Watchdog)
    /\ SF_vars(ExpireRead(TRUE) /\ tick' \in {"due", "retry_due"})

Spec == Init /\ [][Next]_vars

FairSpec == Spec /\ Fairness

-----------------------------------------------------------------------------
(* Properties.                                                             *)

\* A device that answered stays the answering device: a later accept of a
\* sibling, however it interleaves with the decryption of the first one's call
\* key, does not move acceptedByJid (HandleCallAccept, "First accept wins").
FirstAcceptWins == [][acceptedBy # NoDevice => acceptedBy' = acceptedBy]_vars

\* Once a device has answered, the receive key in use was derived for that
\* device, whatever late ack, retransmitted accept or rekey comes in between.
KeysFollowAnswerer ==
    acceptedBy # NoDevice /\ srtp # NoSrtp => srtp.peer = acceptedBy

\* accepted_elsewhere never goes to the device that answered, also when a
\* sibling's accept or a retry is handled after the fan-out.
AnswererNotRungOff == acceptedBy \notin rungOff

\* An ended call never comes back: not by StartCall returning from Query after
\* the call was terminated, not by late relay callbacks, media or resume.
EndedIsFinal == [][IsEnded(call) => IsEnded(call')]_vars

\* Hold music plays, and peer audio is withheld, exactly while a live call is on
\* hold: no relay failure, recovery or timeout leaves the two out of step.
HoldMatchesState == IsLive(call) => (holdActive <=> call.state = "on_hold")

\* No RTCP is sent any more once the call's media has been torn down, although
\* handlers that saw a live connection finish after the teardown.
RtcpStopsAtTeardown == obsEnds > 0 => ~rtcp

\* Telemetry hears of the end of a call once, although EndCall and an inbound
\* terminate may both run cleanupMedia.
EndReportedOnce == obsEnds <= 1

\* The call as AbstractCall sees it.
Phase ==
    CASE call.state = "nil" -> "none"
      [] call.state \in {"initiating", "ringing", "incoming_ringing"} -> "ringing"
      [] call.state = "connecting" -> "answered"
      [] call.state \in {"active", "on_hold", "reconnecting"} -> "talking"
      [] call.state = "ended" -> "ended"

Abstract ==
    INSTANCE AbstractCall WITH phase <- Phase, answerer <- acceptedBy, reports <- obsEnds

\* The manager with all its goroutines is a call as AbstractCall describes it: it begins
\* once and goes forward only, is answered by one device and only while it lives, also
\* when the accept was being decrypted as it ended, ends for good and is reported ended
\* once, not before (HandleCallAccept, ApplyTransition, cleanupMedia).
ImplementsCall == Abstract!Spec

\* In every state of a live call the watchdog has a deadline to enforce.
LiveHasDeadline == IsLive(call) => HasDeadline(call)

\* An active call that carries a call key has its SRTP contexts, unless
\* AcceptCall is still setting them up.
ActiveHasKeys == call.state = "active" /\ key /\ acc # "media" => srtp # NoSrtp

\* No goroutine is inside a handler of this call.
Quiescent ==
    /\ sc \in {"done", "failed"} /\ ack = "none" /\ ev = Idle /\ acc = "idle"
    /\ td = "idle" /\ ~redial /\ tick = "none" /\ drain # "end"

\* When everything that was under way for an ended call has finished, its SRTP
\* contexts, its relay connections and its audio send loop are gone.
EndedCallReleased ==
    IsEnded(call) /\ Quiescent => srtp = NoSrtp /\ path = "none" /\ ~ext.loop

\* Every call under a watchdog ends, whatever the peer and the relays do.
CallEnds == wd ~> IsEnded(call)

\* The end of every call is reported, and its watchdog goroutine stops, also when it was
\* started after the teardown that would have stopped it (cleanupMedia, runWatchdog).
EndSettles == IsEnded(call) ~> (obsEnds = 1 /\ ~wd)
=============================================================================
