---------------------------- MODULE VideoUpgrade ----------------------------
(***************************************************************************)
(* The streams of an outgoing call: which SSRCs the call manager derives   *)
(* (callmanager_video.go, callmanager_signaling.go, callmanager_media.go), *)
(* what it tells the relay manager, and the registrations by which the     *)
(* relay learns of them (sctprelay.go).  The peer is the WhatsApp client:  *)
(* it answers, sends audio and asks for video as it likes.                 *)
(*                                                                         *)
(* An SSRC is a hash of the call, a device and the medium, so the device   *)
(* stands for it.  Our own device never changes.                           *)
(***************************************************************************)
EXTENDS Integers, FiniteSets

CONSTANTS
    Devices,      \* the devices of the peer
    NoJid,        \* the empty string, and SSRC 0
    MaxTimers,    \* retransmissions due at a time, a bound: the code makes 4 per registration
    MaxInFlight   \* registrations built and not yet sent, a bound

ASSUME DevicesAssumption == NoJid \notin Devices

VARIABLES
    media,         \* call.MediaType
    acked,         \* the offer's ack has been handled
    peerDevice,    \* m.peerDeviceJid
    acceptedBy,    \* m.acceptedByJid
    audioPeer,     \* m.peerSsrcs
    actualPeer,    \* m.actualPeerSet
    videoSelf,     \* m.videoSelfSsrc is set
    videoPeer,     \* m.videoPeerSsrc
    camera,        \* m.videoEnabled
    shown,         \* the peer's video as last reported by OnPeerVideoState
    upgraded,      \* the two sides have agreed on video during the call
    streams,       \* streamSelfSsrcs and streamPeerSsrcs of the relay manager
    subscription,  \* its subscriptionSsrc
    link,          \* the connection to the relay: down, up, or over with the call
    timers,        \* retransmissions that are due
    inFlight,      \* lists read by a goroutine that has not sent them yet
    view           \* the streams of the last registration the relay has got

callVars == <<media, acked, peerDevice, acceptedBy, audioPeer, actualPeer, videoSelf, videoPeer,
              camera, shown, upgraded>>
relayVars == <<streams, subscription, link, timers, inFlight, view>>
videoVars == <<callVars, relayVars>>

Bare == "user"   \* the peer's JID without a device

Jids == Devices \cup {Bare, NoJid}

Streams == [self : BOOLEAN, peer : SUBSET (Devices \cup {Bare}), video : Jids]

NoStreams == [self |-> FALSE, peer |-> {}, video |-> NoJid]

ensureDeviceJid(j) == IF j = Bare THEN CHOOSE d \in Devices : TRUE ELSE j

\* The peer's device after deriveVideoSsrcsLocked(callID, own, given): the given one, the
\* remembered one, the one that has accepted.
Derived(given, remembered, accepted) ==
    IF given # NoJid THEN given
    ELSE IF remembered # NoJid THEN remembered
    ELSE IF accepted # NoJid THEN ensureDeviceJid(accepted)
    ELSE NoJid

\* streamSsrcsLocked after the step.
streamSsrcs == [self |-> videoSelf, peer |-> {audioPeer} \ {NoJid}, video |-> videoPeer]

\* applyStreamSsrcsLocked: the lists are set, and sendStunRegistration is run on an open
\* connection, all with the lock of the manager held.
Apply ==
    /\ streams' = streamSsrcs'
    /\ IF link = "up"
       THEN view' = streams' /\ timers' = MaxTimers
       ELSE UNCHANGED <<view, timers>>
    /\ UNCHANGED <<link, inFlight>>

\* StartCall.  The relays of the call are connected by connectRelays, later.
VideoInit ==
    /\ media \in {"audio", "video"}
    /\ peerDevice = (IF media = "video" THEN Bare ELSE NoJid)
    /\ videoSelf = (media = "video")
    /\ videoPeer = peerDevice
    /\ audioPeer = Bare
    /\ acked = FALSE /\ acceptedBy = NoJid /\ actualPeer = FALSE
    /\ camera = FALSE /\ shown = FALSE /\ upgraded = (media = "video")
    /\ streams = NoStreams /\ subscription = NoJid
    /\ link = "down" /\ timers = 0 /\ inFlight = {} /\ view = NoStreams

Live == link # "over"

-----------------------------------------------------------------------------
(* The call manager.                                                       *)

\* Mutant: the device is remembered for a later upgrade only.
Rederive_RememberOnly(d) ==
    /\ peerDevice' = IF d = NoJid THEN peerDevice ELSE d
    /\ UNCHANGED <<videoSelf, videoPeer>>

\* The device is remembered, and the video SSRCs of a video call are derived again.
Rederive(d) ==
    /\ peerDevice' = IF d = NoJid THEN peerDevice ELSE d
    /\ IF media = "video"
       THEN videoSelf' = TRUE /\ videoPeer' = peerDevice'
       ELSE UNCHANGED <<videoSelf, videoPeer>>

\* HandleCallAck with the participants of the call; d is firstPeerDevice.
HandleCallAck(d) ==
    /\ Live /\ ~acked
    /\ acked' = TRUE
    /\ audioPeer' = IF d = NoJid THEN audioPeer ELSE d
    /\ Rederive(d)
    /\ Apply
    /\ UNCHANGED <<media, acceptedBy, actualPeer, camera, shown, upgraded, subscription>>

\* The first device to accept is the peer; the accept of another one is ignored.
HandleCallAccept(d) ==
    /\ Live /\ acceptedBy \in {NoJid, d}
    /\ acceptedBy' = d
    /\ audioPeer' = d
    /\ Rederive(d)
    /\ subscription' = d
    /\ Apply
    /\ UNCHANGED <<media, acked, actualPeer, camera, shown, upgraded>>

\* onRelayData: the first audio packet decides what the peer's SSRC is.
PeerAudio(d) ==
    /\ link = "up" /\ ~actualPeer
    /\ actualPeer' = TRUE
    /\ audioPeer' = d
    /\ UNCHANGED <<media, acked, peerDevice, acceptedBy, videoSelf, videoPeer, camera,
                   shown, upgraded>>
    /\ IF audioPeer = d THEN UNCHANGED relayVars
                        ELSE Apply /\ UNCHANGED subscription

\* Derive the SSRCs of both sides unless one (or here, ours) is there.
Derive(missing) ==
    IF missing
    THEN /\ peerDevice' = Derived(peerDevice, peerDevice, acceptedBy)
         /\ videoSelf' = TRUE
         /\ videoPeer' = IF peerDevice' = NoJid THEN videoPeer ELSE peerDevice'
    ELSE UNCHANGED <<peerDevice, videoSelf, videoPeer>>

EnableLocalVideo ==
    /\ Live
    /\ Derive(~videoSelf)
    /\ camera' = TRUE
    /\ media' = "video"
    /\ UNCHANGED <<acked, acceptedBy, audioPeer, actualPeer, shown, upgraded, subscription>>
    /\ Apply

DisableLocalVideo ==
    /\ Live
    /\ camera' = FALSE
    /\ UNCHANGED <<media, acked, peerDevice, acceptedBy, audioPeer, actualPeer, videoSelf,
                   videoPeer, shown, upgraded, relayVars>>

Missing == videoPeer = NoJid \/ ~videoSelf

\* <video state=N>.  Every stanza gets its typed ACK first; a request is answered.
Upgrades == {1, 2, 3, 4, 11}
Stops == {0, 5, 6, 8}

HandleVideoState(n) ==
    /\ Live
    /\ UNCHANGED <<acked, acceptedBy, audioPeer, actualPeer, subscription>>
    /\ \/ /\ n \in Upgrades
          /\ Derive(Missing)
          /\ media' = "video" /\ shown' = TRUE /\ upgraded' = TRUE
          /\ Apply
          /\ UNCHANGED camera
       \/ /\ n \in Stops
          /\ shown' = FALSE
          /\ camera' = (camera /\ n \in {0, 6})
          /\ UNCHANGED <<media, peerDevice, videoSelf, videoPeer, upgraded, streams, link,
                         timers, inFlight, view>>

-----------------------------------------------------------------------------
(* The relay manager.                                                      *)

\* connectRelays, up to the first connection that opens, and its registration.
ConnectRelays ==
    /\ link = "down"
    /\ link' = "up"
    /\ streams' = streamSsrcs
    /\ subscription' = audioPeer
    /\ view' = streams' /\ timers' = MaxTimers
    /\ UNCHANGED <<callVars, inFlight>>

\* The connection fails.  The goroutines of its timers stop; one that has built its
\* registration does not get it sent.
Lost ==
    /\ link = "up"
    /\ link' = "down"
    /\ view' = NoStreams /\ timers' = 0 /\ inFlight' = {}
    /\ UNCHANGED <<callVars, streams, subscription>>

\* sendRegistration: streamSsrcsSnapshot, and later sendRaw.
Snapshot ==
    /\ link = "up" /\ Cardinality(inFlight) < MaxInFlight
    /\ inFlight' = inFlight \cup {streams}

\* A retransmission after 50, 150, 500 or 3000 ms.
Retransmit ==
    /\ timers > 0
    /\ Snapshot
    /\ timers' = timers - 1
    /\ UNCHANGED <<callVars, streams, subscription, link, view>>

\* Mutant: the keepalive sends pings only.
Refresh_PingOnly == link = "up" /\ UNCHANGED videoVars

\* startKeepalive registers again every registrationRefreshTicks pings.
Refresh ==
    /\ Snapshot
    /\ UNCHANGED <<callVars, streams, subscription, link, timers, view>>

sendRaw(s) ==
    /\ s \in inFlight
    /\ inFlight' = inFlight \ {s}
    /\ view' = s
    /\ UNCHANGED <<callVars, streams, subscription, link, timers>>

\* cleanupMedia.
EndCall ==
    /\ Live
    /\ link' = "over"
    /\ view' = NoStreams /\ timers' = 0 /\ inFlight' = {}
    /\ UNCHANGED <<callVars, streams, subscription>>

SendRegistration == \E s \in inFlight : sendRaw(s)

VideoNext ==
    \/ \E d \in Devices \cup {NoJid} : HandleCallAck(d)
    \/ \E d \in Devices : HandleCallAccept(d) \/ PeerAudio(d)
    \/ EnableLocalVideo \/ DisableLocalVideo
    \/ \E n \in Upgrades \cup Stops : HandleVideoState(n)
    \/ ConnectRelays \/ Lost \/ EndCall
    \/ Retransmit \/ Refresh \/ SendRegistration

VideoSpec == VideoInit /\ [][VideoNext]_videoVars

\* The goroutines run, and the tickers of the keepalive tick as long as the connection
\* is up.
VideoFairness == WF_videoVars(SendRegistration) /\ WF_videoVars(Refresh)

-----------------------------------------------------------------------------
(* Properties.                                                             *)

\* Once both sides have agreed on video, the peer's video is expected from the device
\* that is known as the peer, in whatever order the camera was switched on, the offer was
\* acknowledged, the peer answered and the stanzas came; and the relay manager of a
\* connected call has the streams of the call.
PeerVideoForwarded ==
    /\ upgraded /\ peerDevice # NoJid => videoPeer = peerDevice
    /\ link = "up" => streams = streamSsrcs

\* Registrations overtake each other, an old list may be sent last: in the end the relay
\* has the streams of the call.
RelayLearnsStreams == <>[](link = "up" => view = streams)
=============================================================================
