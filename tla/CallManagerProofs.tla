-------------------------- MODULE CallManagerProofs --------------------------
(***************************************************************************)
(* Theorems about CallManager, for any set of peer devices and any choice  *)
(* of the stanzas, relay lists and hold requests its environment makes.    *)
(***************************************************************************)
EXTENDS CallManager, TLAPS

\* What a transition may be named.
LEMMA TransitionNames ==
    Transitions = {"offer_sent", "offer_received", "remote_accepted",
        "local_accepted",
                   "remote_rejected", "local_rejected", "media_connected",
                       "media_lost",
                   "media_restored", "terminated", "hold", "resume"}
BY DEF Transitions, Source

\* ApplyTransition, on any call and for any transition, yields a call.
LEMMA ApplyTransitionType ==
    ASSUME NEW c \in CallInfo, NEW t \in Transitions
    PROVE  ApplyTransition(c, t) \in CallInfo
<1>1. Target(c, t) \in CallStates
  BY TransitionNames DEF Target, CallStates, CallInfo
<1> QED
  BY <1>1 DEF ApplyTransition, CallInfo


(* Type correctness.                                                       *)

\* The accept being handled was sent by one of the peer's devices.
AcceptNamesDevice ==
    ev.op \in {"accept", "accept_rekey", "accept_main"} => ev.dev \in Devices

\* A new manager is type correct.
LEMMA TypeInit == Init => TypeOK
<1> SUFFICES ASSUME Init PROVE TypeOK
  OBVIOUS
<1>1. call \in CallInfo
  BY DEF Init, CallInfo, CallStates, NilCall
<1>2. ev \in Events
  BY DEF Init, Events, Idle, EvOps
<1>3. /\ key \in BOOLEAN /\ registered \in BOOLEAN /\ rtcp \in BOOLEAN
      /\ everOpen \in BOOLEAN /\ holdActive \in BOOLEAN /\ redial \in BOOLEAN
      /\ wd \in BOOLEAN
  BY DEF Init
<1>4. ext \in Extension
  BY DEF Init, Extension
<1> QED
  BY <1>1, <1>2, <1>3, <1>4, EnvironmentAssumption DEF Init, TypeOK, RelayLists

\* Every handler, callback and tick preserves the types.
LEMMA TypeNext == TypeOK /\ AcceptNamesDevice /\ [Next]_vars => TypeOK'
<1> SUFFICES ASSUME TypeOK, AcceptNamesDevice, [Next]_vars PROVE TypeOK'
  OBVIOUS
<1>1. CASE CreateOutgoing
  BY <1>1 DEF CreateOutgoing, TypeOK, peerVars, mediaVars
<1>2. CASE HandleOffer
  BY <1>2 DEF HandleOffer, TypeOK, Events, EvOps, peerVars, mediaVars
<1>3. CASE StartCall
  <2>1. key' \in BOOLEAN
    BY <1>3 DEF StartCall, TypeOK
  <2>2. call' \in CallInfo
    BY <1>3 DEF StartCall, TypeOK, NewOutgoingCall, NilCall, CallInfo, CallStates
  <2> QED
    BY <1>3, <2>1, <2>2 DEF StartCall, TypeOK, peerVars, mediaVars
<1>4. CASE SendOffer
  BY <1>4 DEF SendOffer, TypeOK, callVars, peerVars, mediaVars
<1>5. CASE StartFailed
  <2>1. registered' \in BOOLEAN
    BY <1>5 DEF StartFailed, TypeOK
  <2> QED
    BY <1>5, <2>1 DEF StartFailed, TypeOK, peerVars, mediaVars
<1>6. CASE OfferSent
  BY ApplyTransitionType, TransitionNames, <1>6 DEF OfferSent, TypeOK, Transit,
     Emitted, peerVars, mediaVars
<1>7. CASE StartWatchdog
  BY <1>7 DEF StartWatchdog, TypeOK, callVars, peerVars, mediaVars
<1>8. CASE HandleCallAck
  <2>1. srtp' \in SrtpKeys \cup {NoSrtp}
    BY <1>8 DEF HandleCallAck, TypeOK, InitSrtpKeys, SrtpKeys, SrtpPeer
  <2>2. ext' \in Extension
    BY <1>8 DEF HandleCallAck, TypeOK, Extension, InitSrtpKeys, Attached
  <2> QED
    BY <1>8, <2>1, <2>2 DEF HandleCallAck, TypeOK, RelayLists, peerVars
<1>9. CASE AckDial
  BY <1>9 DEF AckDial, TypeOK, Dial, callVars, peerVars
<1>10. CASE Receive
  <2>1. ev' \in Events
    BY <1>10 DEF Receive, TypeOK, Dispatch, Idle, Events, EvOps
  <2>2. UNCHANGED <<callVars, peerVars, mediaVars, holdActive, obsEnds,
                    sc, ack, acc, td, redial, wd, tick, drain>>
    BY <1>10 DEF Receive, Dispatch
  <2> QED
    BY <2>1, <2>2 DEF TypeOK, callVars, peerVars, mediaVars
<1>11. CASE HandleCallOffer
  <2>1. key' \in BOOLEAN
    BY <1>11 DEF HandleCallOffer, TypeOK
  <2>2. call' \in CallInfo
    BY <1>11 DEF HandleCallOffer, TypeOK, NewIncomingCall, NilCall, CallInfo,
       CallStates
  <2>3. ev' \in Events
    BY <1>11 DEF HandleCallOffer, TypeOK, Events, EvOps
  <2> QED
    BY EnvironmentAssumption, <1>11, <2>1, <2>2, <2>3 DEF HandleCallOffer, TypeOK,
       RelayLists, peerVars, mediaVars
<1>12. CASE OfferEmit
  BY <1>12 DEF OfferEmit, TypeOK, Events, EvOps, Emitted, peerVars, mediaVars
<1>13. CASE OfferWatchdog
  BY <1>13 DEF OfferWatchdog, TypeOK, Events, EvOps, Idle, callVars, peerVars,
     mediaVars
<1>14. CASE HandleCallAccept
  BY <1>14 DEF HandleCallAccept, TypeOK, Events, EvOps, Idle, callVars, peerVars,
     mediaVars
<1>15. CASE AcceptRekey
  <2>1. srtp' \in SrtpKeys \cup {NoSrtp}
    BY <1>15 DEF AcceptRekey, TypeOK, SrtpKeys, AcceptNamesDevice
  <2>2. ev' \in Events
    BY <1>15 DEF AcceptRekey, TypeOK, Events, EvOps
  <2> QED
    BY <1>15, <2>1, <2>2 DEF AcceptRekey, TypeOK, callVars, peerVars
<1>16. CASE AcceptMain
  <2>1. registered' \in BOOLEAN
    BY <1>16 DEF AcceptMain, TypeOK, Transit, Emitted
  <2>2. call' \in CallInfo
    BY ApplyTransitionType, TransitionNames, <1>16 DEF AcceptMain, TypeOK, Transit
  <2>3. srtp' \in SrtpKeys \cup {NoSrtp}
    BY <1>16 DEF AcceptMain, TypeOK, InitSrtpKeys, SrtpKeys, AcceptNamesDevice
  <2>4. ext' \in Extension
    BY <1>16 DEF AcceptMain, TypeOK, Extension, InitSrtpKeys, Attached
  <2>5. ev' \in Events
    BY <1>16 DEF AcceptMain, TypeOK, Idle, Events, EvOps
  <2> QED
    BY <1>16, <2>1, <2>2, <2>3, <2>4, <2>5 DEF AcceptMain, TypeOK,
       AcceptNamesDevice, peerVars
<1>17. CASE AcceptActive
  <2>1. registered' \in BOOLEAN
    BY <1>17 DEF AcceptActive, TypeOK, MediaConnected, Transit, Emitted
  <2>2. rtcp' \in BOOLEAN
    BY <1>17 DEF AcceptActive, TypeOK, MediaConnected
  <2>3. call' \in CallInfo
    BY ApplyTransitionType, TransitionNames, <1>17 DEF AcceptActive, TypeOK,
       MediaConnected, Transit
  <2>4. ev' \in Events
    BY <1>17 DEF AcceptActive, TypeOK, Idle, Events, EvOps
  <2> QED
    BY <1>17, <2>1, <2>2, <2>3, <2>4 DEF AcceptActive, TypeOK, peerVars
<1>18. CASE AcceptDone
  BY <1>18 DEF AcceptDone, TypeOK, Events, EvOps, Dial, Idle, callVars, peerVars
<1>19. CASE HandleCallTransport
  BY <1>19 DEF HandleCallTransport, TypeOK, Events, EvOps, Idle, callVars,
     peerVars, mediaVars
<1>20. CASE TransportStore
  <2>1. ev' \in Events
    BY <1>20 DEF TransportStore, TypeOK, Events, EvOps
  <2> QED
    BY <1>20, <2>1 DEF TransportStore, TypeOK, RelayLists, peerVars, mediaVars
<1>21. CASE TransportDial
  BY <1>21 DEF TransportDial, TypeOK, Events, EvOps, Dial, Idle, callVars, peerVars
<1>22. CASE HandleCallRelayLatency
  BY <1>22 DEF HandleCallRelayLatency, TypeOK, Events, EvOps, Idle, RelayLists,
     peerVars, mediaVars
<1>23. CASE HandleCallTerminate
  <2>1. registered' \in BOOLEAN
    BY <1>23 DEF HandleCallTerminate, TypeOK, Transit, Emitted
  <2>2. call' \in CallInfo
    BY ApplyTransitionType, TransitionNames, <1>23 DEF HandleCallTerminate, TypeOK,
       Transit
  <2>3. ev' \in Events
    BY <1>23 DEF HandleCallTerminate, TypeOK, Idle, Events, EvOps
  <2> QED
    BY <1>23, <2>1, <2>2, <2>3 DEF HandleCallTerminate, TypeOK, peerVars, mediaVars
<1>24. CASE TermCleanup
  <2>1. rtcp' \in BOOLEAN
    BY <1>24 DEF TermCleanup, TypeOK, CleanupLocked
  <2>2. wd' \in BOOLEAN
    BY <1>24 DEF TermCleanup, TypeOK, CleanupLocked
  <2>3. srtp' \in SrtpKeys \cup {NoSrtp}
    BY <1>24 DEF TermCleanup, TypeOK, CleanupLocked, SrtpKeys
  <2>4. ext' \in Extension
    BY <1>24 DEF TermCleanup, TypeOK, Extension, CleanupLocked
  <2>5. ev' \in Events
    BY <1>24 DEF TermCleanup, TypeOK, Events, EvOps
  <2> QED
    BY <1>24, <2>1, <2>2, <2>3, <2>4, <2>5 DEF TermCleanup, TypeOK, CleanupLocked,
       callVars, peerVars
<1>25. CASE TermDetach
  <2>1. ext' \in Extension
    BY <1>25 DEF TermDetach, TypeOK, Extension, Detached
  <2>2. ev' \in Events
    BY <1>25 DEF TermDetach, TypeOK, Events, EvOps
  <2> QED
    BY <1>25, <2>1, <2>2 DEF TermDetach, TypeOK, callVars, peerVars
<1>26. CASE TermRelayCleanup
  BY <1>26 DEF TermRelayCleanup, TypeOK, Events, EvOps, Idle, callVars, peerVars
<1>27. CASE SetupIncomingMedia
  <2>1. srtp' \in SrtpKeys \cup {NoSrtp}
    BY <1>27 DEF SetupIncomingMedia, TypeOK, InitSrtpKeys, SrtpKeys, SrtpPeer
  <2>2. ext' \in Extension
    BY <1>27 DEF SetupIncomingMedia, TypeOK, Extension, InitSrtpKeys, Attached
  <2> QED
    BY <1>27, <2>1, <2>2 DEF SetupIncomingMedia, TypeOK, callVars, peerVars
<1>28. CASE AcceptDial
  BY <1>28 DEF AcceptDial, TypeOK, Dial, callVars, peerVars
<1>29. CASE Cleanup
  <2>1. rtcp' \in BOOLEAN
    BY <1>29 DEF Cleanup, TypeOK, CleanupLocked
  <2>2. wd' \in BOOLEAN
    BY <1>29 DEF Cleanup, TypeOK, CleanupLocked
  <2>3. srtp' \in SrtpKeys \cup {NoSrtp}
    BY <1>29 DEF Cleanup, TypeOK, CleanupLocked, SrtpKeys
  <2>4. ext' \in Extension
    BY <1>29 DEF Cleanup, TypeOK, Extension, CleanupLocked
  <2> QED
    BY <1>29, <2>1, <2>2, <2>3, <2>4 DEF Cleanup, TypeOK, CleanupLocked, callVars,
       peerVars
<1>30. CASE Detach
  <2>1. ext' \in Extension
    BY <1>30 DEF Detach, TypeOK, Extension, Detached
  <2> QED
    BY <1>30, <2>1 DEF Detach, TypeOK, callVars, peerVars
<1>31. CASE RelayCleanup
  BY <1>31 DEF RelayCleanup, TypeOK, callVars, peerVars
<1>32. CASE \E overdue \in BOOLEAN : ExpireRead(overdue)
  BY <1>32 DEF ExpireRead, TypeOK, Decision, Inactive, callVars, peerVars, mediaVars
<1>33. CASE WatchdogExit
  <2>1. wd' \in BOOLEAN
    BY <1>33 DEF WatchdogExit, TypeOK
  <2> QED
    BY <1>33, <2>1 DEF WatchdogExit, TypeOK, callVars, peerVars, mediaVars
<1>34. CASE ForceMediaLost
  <2>1. registered' \in BOOLEAN
    BY <1>34 DEF ForceMediaLost, TypeOK, Transit, Emitted
  <2>2. call' \in CallInfo
    BY ApplyTransitionType, TransitionNames, <1>34 DEF ForceMediaLost, TypeOK,
       Transit
  <2> QED
    BY <1>34, <2>1, <2>2 DEF ForceMediaLost, TypeOK, peerVars, mediaVars
<1>35. CASE RetryReconnect
  BY <1>35 DEF RetryReconnect, TypeOK, callVars, peerVars, mediaVars
<1>36. CASE DropConnections
  BY <1>36 DEF DropConnections, TypeOK, callVars, peerVars
<1>37. CASE ExpireEndCall
  <2>1. registered' \in BOOLEAN
    BY <1>37 DEF ExpireEndCall, TypeOK, EndCallLocked, Transit, Emitted
  <2>2. wd' \in BOOLEAN
    BY <1>37 DEF ExpireEndCall, TypeOK
  <2>3. call' \in CallInfo
    BY ApplyTransitionType, TransitionNames, <1>37 DEF ExpireEndCall, TypeOK,
       EndCallLocked, Transit
  <2> QED
    BY <1>37, <2>1, <2>2, <2>3 DEF ExpireEndCall, TypeOK, EndCallLocked, peerVars,
       mediaVars
<1>38. CASE AcceptCall
  BY ApplyTransitionType, TransitionNames, <1>38 DEF AcceptCall, TypeOK, Transit,
     Emitted, peerVars, mediaVars
<1>39. CASE RejectCall
  BY ApplyTransitionType, TransitionNames, <1>39 DEF RejectCall, TypeOK, Transit,
     Emitted, peerVars, mediaVars
<1>40. CASE EndCall
  BY ApplyTransitionType, TransitionNames, <1>40 DEF EndCall, TypeOK,
     EndCallLocked, Transit, Emitted, peerVars, mediaVars
<1>41. CASE Drain
  <2>1. registered' \in BOOLEAN
    BY <1>41 DEF Drain, TypeOK
  <2> QED
    BY <1>41, <2>1 DEF Drain, TypeOK, peerVars, mediaVars
<1>42. CASE DrainEndCall
  <2>1. registered' \in BOOLEAN
    BY <1>42 DEF DrainEndCall, TypeOK, EndCallLocked, Transit, Emitted
  <2>2. call' \in CallInfo
    BY ApplyTransitionType, TransitionNames, <1>42 DEF DrainEndCall, TypeOK,
       EndCallLocked, Transit
  <2> QED
    BY <1>42, <2>1, <2>2 DEF DrainEndCall, TypeOK, EndCallLocked, peerVars,
       mediaVars
<1>43. CASE Hold
  BY ApplyTransitionType, TransitionNames, <1>43 DEF Hold, TypeOK, Transit,
     Emitted, peerVars, mediaVars, threads
<1>44. CASE Resume
  <2>1. registered' \in BOOLEAN
    BY <1>44 DEF Resume, TypeOK, Transit, Emitted
  <2>2. holdActive' \in BOOLEAN
    BY <1>44 DEF Resume, TypeOK
  <2>3. call' \in CallInfo
    BY ApplyTransitionType, TransitionNames, <1>44 DEF Resume, TypeOK, Transit
  <2> QED
    BY <1>44, <2>1, <2>2, <2>3 DEF Resume, TypeOK, peerVars, mediaVars, threads
<1>45. CASE RelayOpens
  BY <1>45 DEF RelayOpens, TypeOK, callVars, peerVars, threads
<1>46. CASE RelayLost
  BY <1>46 DEF RelayLost, TypeOK, callVars, peerVars, threads
<1>47. CASE OnRelayConnected
  BY ApplyTransitionType, TransitionNames, <1>47 DEF OnRelayConnected, TypeOK,
     MediaConnected, Transit, Emitted, peerVars, threads
<1>48. CASE OnRelayUnusable
  BY ApplyTransitionType, TransitionNames, <1>48 DEF OnRelayUnusable, TypeOK,
     Transit, Emitted, peerVars, mediaVars
<1>49. CASE Redial
  <2>1. redial' \in BOOLEAN
    BY <1>49 DEF Redial, TypeOK
  <2> QED
    BY <1>49, <2>1 DEF Redial, TypeOK, Dial, callVars, peerVars
<1>50. CASE PeerMedia
  <2>1. registered' \in BOOLEAN
    BY <1>50 DEF PeerMedia, TypeOK, Transit, Emitted
  <2>2. call' \in CallInfo
    BY ApplyTransitionType, TransitionNames, <1>50 DEF PeerMedia, TypeOK, Transit
  <2> QED
    BY <1>50, <2>1, <2>2 DEF PeerMedia, TypeOK, peerVars, threads
<1>51. CASE MediaSilence
  BY <1>51 DEF MediaSilence, TypeOK, callVars, peerVars, threads
<1>52. CASE UNCHANGED vars
  BY <1>52 DEF TypeOK, vars, callVars, peerVars, mediaVars, threads
<1> QED
  BY <1>1, <1>2, <1>3, <1>4, <1>5, <1>6, <1>7, <1>8, <1>9, <1>10, <1>11, <1>12,
     <1>13, <1>14, <1>15, <1>16, <1>17, <1>18, <1>19, <1>20, <1>21, <1>22, <1>23,
     <1>24, <1>25, <1>26, <1>27, <1>28, <1>29, <1>30, <1>31, <1>32, <1>33, <1>34,
     <1>35, <1>36, <1>37, <1>38, <1>39, <1>40, <1>41, <1>42, <1>43, <1>44, <1>45,
     <1>46, <1>47, <1>48, <1>49, <1>50, <1>51, <1>52 DEF Next, StartThread,
     AckThread, EventThread, OfferThread, AcceptThread, TransportThread,
     TerminateThread, RequestThread, TeardownThread, Watchdog, Operator, Relay

-----------------------------------------------------------------------------
(* Control: which handlers may be under way in which state of the call.    *)

\* A call is created once, before anything that works on it, and whoever tears
\* its media down ended it first.
ControlInv ==
    /\ sc \in {"idle", "created"} => call.state = "nil"
    /\ dir = "outgoing" /\ sc \notin {"idle", "created"} => call.state # "nil"
    /\ dir = "incoming" => sc \in {"idle", "done"}
    /\ ev.op = "offer" => dir = "incoming" /\ sc = "done" /\ call.state = "nil"
    /\ ev.op \notin {"idle", "offer"} => call.state # "nil"
    /\ ack # "none" => call.state # "nil"
    /\ acc # "idle" => call.state # "nil"
    /\ td # "idle" => IsEnded(call)
    /\ ev.op \in {"term_cleanup", "term_detach", "term_relay"} => IsEnded(call)
    /\ obsEnds > 0 => IsEnded(call)

\* A transition neither creates a call nor revives one, and leaves no call ended
\* that it was not meant to end.
LEMMA ApplyTransitionEnds ==
    ASSUME NEW c \in CallInfo, NEW t \in Transitions
    PROVE  /\ c.state = "nil" <=> ApplyTransition(c, t).state = "nil"
           /\ IsEnded(c) => IsEnded(ApplyTransition(c, t))
           /\ c.state # "nil" /\ t = "terminated" => IsEnded(ApplyTransition(c, t))
           /\ Valid(c, t) /\ t = "local_rejected" => IsEnded(ApplyTransition(c, t))
<1>1. c.state \in CallStates \cup {"nil"}
  BY DEF CallInfo
<1>2. Target(c, t) \in CallStates
  BY TransitionNames DEF Target, CallStates
<1>3. IsEnded(c) => ~Valid(c, t)
  BY <1>1, TransitionNames DEF IsEnded, Valid, Source, CallStates
<1>4. c.state = "nil" => ~Valid(c, t)
  BY TransitionNames DEF Valid, Source, CallStates
<1>5. c.state \notin {"nil", "ended"} => Valid(c, "terminated")
  BY <1>1 DEF Valid, Source
<1> QED
  BY <1>1, <1>2, <1>3, <1>4, <1>5 DEF ApplyTransition, Target, IsEnded, CallStates

\* A step that changes the call only by a transition keeps what ControlInv says
\* of the call.
LEMMA TransitEnds ==
    ASSUME TypeOK, NEW t \in Transitions, Transit(t)
    PROVE  /\ call.state = "nil" <=> call'.state = "nil"
           /\ IsEnded(call) => IsEnded(call)'
           /\ call.state # "nil" /\ t = "terminated" => IsEnded(call)'
           /\ Valid(call, t) /\ t = "local_rejected" => IsEnded(call)'
BY ApplyTransitionEnds DEF TypeOK, Transit, IsEnded

\* Nothing is under way in a new manager.
LEMMA ControlInit == Init => ControlInv
BY DEF Init, ControlInv, NilCall, Idle, IsEnded

\* No handler runs on a call it should not see: every step preserves ControlInv.
LEMMA ControlNext == TypeOK /\ ControlInv /\ [Next]_vars => ControlInv'
<1> SUFFICES ASSUME TypeOK, ControlInv, [Next]_vars PROVE ControlInv'
  OBVIOUS
<1> USE DEF ControlInv, IsEnded
<1>1. CASE CreateOutgoing
  BY <1>1 DEF CreateOutgoing, peerVars, mediaVars, TypeOK
<1>2. CASE HandleOffer
  BY <1>2 DEF HandleOffer, peerVars, mediaVars, Events, TypeOK
<1>3. CASE StartCall
  BY <1>3 DEF StartCall, peerVars, mediaVars, NewOutgoingCall, NilCall, TypeOK
<1>4. CASE SendOffer
  BY <1>4 DEF SendOffer, callVars, peerVars, mediaVars, TypeOK
<1>5. CASE StartFailed
  BY <1>5 DEF StartFailed, peerVars, mediaVars, TypeOK
<1>6. CASE OfferSent
  BY TransitEnds, TransitionNames, <1>6 DEF OfferSent, peerVars, mediaVars, TypeOK
<1>7. CASE StartWatchdog
  BY <1>7 DEF StartWatchdog, callVars, peerVars, mediaVars, TypeOK
<1>8. CASE HandleCallAck
  BY <1>8 DEF HandleCallAck, peerVars, TypeOK
<1>9. CASE AckDial
  BY <1>9 DEF AckDial, callVars, peerVars, TypeOK
<1>10. CASE Receive
  BY <1>10 DEF Receive, Idle, callVars, peerVars, mediaVars, Dispatch, IsLive,
     TypeOK
<1>11. CASE HandleCallOffer
  BY <1>11 DEF HandleCallOffer, peerVars, mediaVars, NewIncomingCall, NilCall,
     Events, TypeOK
<1>12. CASE OfferEmit
  BY <1>12 DEF OfferEmit, peerVars, mediaVars, Events, TypeOK
<1>13. CASE OfferWatchdog
  BY <1>13 DEF OfferWatchdog, Idle, callVars, peerVars, mediaVars, Events, TypeOK
<1>14. CASE HandleCallAccept
  BY <1>14 DEF HandleCallAccept, Idle, callVars, peerVars, mediaVars, Events, TypeOK
<1>15. CASE AcceptRekey
  BY <1>15 DEF AcceptRekey, callVars, peerVars, Events, TypeOK
<1>16. CASE AcceptMain
  BY TransitEnds, TransitionNames, <1>16 DEF AcceptMain, Idle, peerVars, Events,
     TypeOK
<1>17. CASE AcceptActive
  BY TransitEnds, TransitionNames, <1>17 DEF AcceptActive, MediaConnected, Idle,
     peerVars, Events, TypeOK
<1>18. CASE AcceptDone
  BY <1>18 DEF AcceptDone, Idle, callVars, peerVars, Events, TypeOK
<1>19. CASE HandleCallTransport
  BY <1>19 DEF HandleCallTransport, Idle, callVars, peerVars, mediaVars, Events,
     TypeOK
<1>20. CASE TransportStore
  BY <1>20 DEF TransportStore, peerVars, mediaVars, Events, TypeOK
<1>21. CASE TransportDial
  BY <1>21 DEF TransportDial, Idle, callVars, peerVars, Events, TypeOK
<1>22. CASE HandleCallRelayLatency
  BY <1>22 DEF HandleCallRelayLatency, Idle, peerVars, mediaVars, Events, TypeOK
<1>23. CASE HandleCallTerminate
  BY TransitEnds, TransitionNames, <1>23 DEF HandleCallTerminate, Idle, peerVars,
     mediaVars, Events, TypeOK
<1>24. CASE TermCleanup
  BY <1>24 DEF TermCleanup, CleanupLocked, callVars, peerVars, Events, TypeOK
<1>25. CASE TermDetach
  BY <1>25 DEF TermDetach, callVars, peerVars, Events, TypeOK
<1>26. CASE TermRelayCleanup
  BY <1>26 DEF TermRelayCleanup, Idle, callVars, peerVars, Events, TypeOK
<1>27. CASE SetupIncomingMedia
  BY <1>27 DEF SetupIncomingMedia, callVars, peerVars, TypeOK
<1>28. CASE AcceptDial
  BY <1>28 DEF AcceptDial, callVars, peerVars, TypeOK
<1>29. CASE Cleanup
  BY <1>29 DEF Cleanup, CleanupLocked, callVars, peerVars, TypeOK
<1>30. CASE Detach
  BY <1>30 DEF Detach, callVars, peerVars, TypeOK
<1>31. CASE RelayCleanup
  BY <1>31 DEF RelayCleanup, callVars, peerVars, TypeOK
<1>32. CASE \E overdue \in BOOLEAN : ExpireRead(overdue)
  BY <1>32 DEF ExpireRead, callVars, peerVars, mediaVars, TypeOK
<1>33. CASE WatchdogExit
  BY <1>33 DEF WatchdogExit, callVars, peerVars, mediaVars, TypeOK
<1>34. CASE ForceMediaLost
  BY TransitEnds, TransitionNames, <1>34 DEF ForceMediaLost, peerVars, mediaVars,
     TypeOK
<1>35. CASE RetryReconnect
  BY <1>35 DEF RetryReconnect, callVars, peerVars, mediaVars, TypeOK
<1>36. CASE DropConnections
  BY <1>36 DEF DropConnections, callVars, peerVars, TypeOK
<1>37. CASE ExpireEndCall
  BY TransitEnds, TransitionNames, <1>37 DEF ExpireEndCall, EndCallLocked,
     peerVars, mediaVars, IsLive, TypeOK
<1>38. CASE AcceptCall
  BY TransitEnds, TransitionNames, <1>38 DEF AcceptCall, peerVars, mediaVars, TypeOK
<1>39. CASE RejectCall
  BY TransitEnds, TransitionNames, <1>39 DEF RejectCall, peerVars, mediaVars, TypeOK
<1>40. CASE EndCall
  BY TransitEnds, TransitionNames, <1>40 DEF EndCall, EndCallLocked, peerVars,
     mediaVars, IsLive, TypeOK
<1>41. CASE Drain
  BY <1>41 DEF Drain, peerVars, mediaVars, TypeOK
<1>42. CASE DrainEndCall
  BY TransitEnds, TransitionNames, <1>42 DEF DrainEndCall, EndCallLocked, peerVars,
     mediaVars, IsLive, TypeOK
<1>43. CASE Hold
  BY TransitEnds, TransitionNames, <1>43 DEF Hold, peerVars, mediaVars, threads,
     TypeOK
<1>44. CASE Resume
  BY TransitEnds, TransitionNames, <1>44 DEF Resume, peerVars, mediaVars, threads,
     TypeOK
<1>45. CASE RelayOpens
  BY <1>45 DEF RelayOpens, callVars, peerVars, threads, TypeOK
<1>46. CASE RelayLost
  BY <1>46 DEF RelayLost, callVars, peerVars, threads, TypeOK
<1>47. CASE OnRelayConnected
  BY TransitEnds, TransitionNames, <1>47 DEF OnRelayConnected, MediaConnected,
     peerVars, threads, TypeOK
<1>48. CASE OnRelayUnusable
  BY TransitEnds, TransitionNames, <1>48 DEF OnRelayUnusable, peerVars, mediaVars,
     TypeOK
<1>49. CASE Redial
  BY <1>49 DEF Redial, callVars, peerVars, TypeOK
<1>50. CASE PeerMedia
  BY TransitEnds, TransitionNames, <1>50 DEF PeerMedia, peerVars, threads, TypeOK
<1>51. CASE MediaSilence
  BY <1>51 DEF MediaSilence, callVars, peerVars, threads, TypeOK
<1>52. CASE UNCHANGED vars
  BY <1>52 DEF vars, callVars, peerVars, mediaVars, threads
<1> QED
  BY <1>1, <1>2, <1>3, <1>4, <1>5, <1>6, <1>7, <1>8, <1>9, <1>10, <1>11, <1>12,
     <1>13, <1>14, <1>15, <1>16, <1>17, <1>18, <1>19, <1>20, <1>21, <1>22, <1>23,
     <1>24, <1>25, <1>26, <1>27, <1>28, <1>29, <1>30, <1>31, <1>32, <1>33, <1>34,
     <1>35, <1>36, <1>37, <1>38, <1>39, <1>40, <1>41, <1>42, <1>43, <1>44, <1>45,
     <1>46, <1>47, <1>48, <1>49, <1>50, <1>51, <1>52 DEF Next, StartThread,
     AckThread, EventThread, OfferThread, AcceptThread, TransportThread,
     TerminateThread, RequestThread, TeardownThread, Watchdog, Operator, Relay

-----------------------------------------------------------------------------
(* The answering device.                                                   *)

\* While an accept is handled no other device can become the answering one: the
\* stanzas are handled one at a time.  This is what makes the check before the
\* decryption of the call key still hold after it.
AnswerInv ==
    /\ AcceptNamesDevice
    /\ ev.op \in {"accept_rekey", "accept_main"} => acceptedBy \in {NoDevice,
       ev.dev}
    /\ call.state = "nil" => srtp = NoSrtp
    /\ srtp # NoSrtp => key
    /\ KeysFollowAnswerer
    /\ AnswererNotRungOff

\* No device has answered a new call.
LEMMA AnswerInit == Init => AnswerInv
BY DEF Init, AnswerInv, AcceptNamesDevice, KeysFollowAnswerer, AnswererNotRungOff,
   Idle

\* The answering device and the keys stay together, step by step.
LEMMA AnswerNext ==
    TypeOK /\ ControlInv /\ AnswerInv /\ [Next]_vars => AnswerInv'
<1> SUFFICES ASSUME TypeOK, ControlInv, AnswerInv, [Next]_vars PROVE AnswerInv'
  OBVIOUS
<1> DEFINE Same ==
        /\ UNCHANGED <<acceptedBy, rungOff, srtp, key>>
        /\ call.state = "nil" <=> call'.state = "nil"
<1> USE DEF AnswerInv, AcceptNamesDevice, KeysFollowAnswerer, AnswererNotRungOff
\* Steps that leave the answering device, the keys and the event thread alone.
<1>1. Same /\ UNCHANGED ev => AnswerInv'
  OBVIOUS
<1>2. CASE \/ CreateOutgoing \/ SendOffer \/ StartFailed \/ OfferSent
           \/ StartWatchdog \/ AckDial \/ AcceptDial
  <2>1. Same /\ UNCHANGED ev
    BY <1>2, TransitEnds, TransitionNames DEF CreateOutgoing, SendOffer,
       StartFailed,
       OfferSent, StartWatchdog, AckDial, AcceptDial, callVars, peerVars, mediaVars
  <2> QED
    BY <2>1, <1>1
<1>3. CASE \/ AcceptCall \/ RejectCall \/ EndCall \/ Drain \/ DrainEndCall \/ Hold \/ Resume
  <2>1. Same /\ UNCHANGED ev
    BY <1>3, TransitEnds, TransitionNames DEF AcceptCall, RejectCall, EndCall,
       Drain,
       DrainEndCall, Hold, Resume, EndCallLocked, peerVars, mediaVars, threads
  <2> QED
    BY <2>1, <1>1
<1>4. CASE \/ RelayOpens \/ RelayLost \/ OnRelayConnected \/ OnRelayUnusable
           \/ Redial \/ PeerMedia \/ MediaSilence
  <2>1. Same /\ UNCHANGED ev
    BY <1>4, TransitEnds, TransitionNames DEF RelayOpens, RelayLost,
       OnRelayConnected,
       OnRelayUnusable, Redial, PeerMedia, MediaSilence, MediaConnected, callVars,
       peerVars, mediaVars, threads
  <2> QED
    BY <2>1, <1>1
<1>5. CASE Watchdog \/ Detach \/ RelayCleanup \/ UNCHANGED vars
  <2>1. Same /\ UNCHANGED ev
    BY <1>5, TransitEnds, TransitionNames DEF Watchdog, ExpireRead, WatchdogExit,
       ForceMediaLost, RetryReconnect, DropConnections, ExpireEndCall,
          EndCallLocked,
       Detach, RelayCleanup, vars, callVars, peerVars, mediaVars, threads
  <2> QED
    BY <2>1, <1>1
\* Steps of the event thread that leave the device and the keys alone.
<1>6. Same /\ ev'.op \notin {"accept", "accept_rekey", "accept_main"} => AnswerInv'
  OBVIOUS
<1>7. CASE HandleOffer \/ OfferEmit \/ OfferWatchdog \/ AcceptActive \/ AcceptDone
  <2>1. Same /\ ev'.op \notin {"accept", "accept_rekey", "accept_main"}
    BY <1>7, TransitEnds, TransitionNames DEF HandleOffer, OfferEmit, OfferWatchdog,
       AcceptActive, AcceptDone, MediaConnected, Idle, TypeOK, Events, callVars,
       peerVars, mediaVars
  <2> QED
    BY <2>1, <1>6
<1>8. CASE TransportThread
  <2>1. Same /\ ev'.op \notin {"accept", "accept_rekey", "accept_main"}
    BY <1>8 DEF TransportThread, HandleCallTransport, TransportStore, TransportDial,
       HandleCallRelayLatency, Idle, TypeOK, Events, callVars, peerVars, mediaVars
  <2> QED
    BY <2>1, <1>6
<1>9. CASE HandleCallTerminate \/ TermDetach \/ TermRelayCleanup
  <2>1. Same /\ ev'.op \notin {"accept", "accept_rekey", "accept_main"}
    BY <1>9, TransitEnds, TransitionNames DEF HandleCallTerminate, TermDetach,
       TermRelayCleanup, Idle, TypeOK, Events, callVars, peerVars, mediaVars
  <2> QED
    BY <2>1, <1>6
<1>10. CASE Receive
  <2>1. Same
    BY <1>10 DEF Receive, Dispatch, callVars, peerVars, mediaVars
  <2>2. /\ ev'.op \notin {"accept_rekey", "accept_main"}
        /\ ev'.op = "accept" => ev'.dev \in Devices
    BY <1>10 DEF Receive, Dispatch, Idle
  <2> QED
    BY <2>1, <2>2
<1>11. CASE HandleCallAccept
  <2>1. Same
    BY <1>11 DEF HandleCallAccept, callVars, peerVars, mediaVars
  <2>2. \/ ev'.op = "idle"
        \/ ev'.op = "accept_rekey" /\ ev'.dev = ev.dev /\ acceptedBy \in {NoDevice,
           ev.dev}
    BY <1>11 DEF HandleCallAccept, MayAccept, Idle, TypeOK, Events
  <2> QED
    BY <1>11, <2>1, <2>2 DEF HandleCallAccept
\* Steps that set or drop the keys, or create the call.
<1>12. CASE StartCall \/ HandleCallOffer
  BY <1>12 DEF StartCall, HandleCallOffer, ControlInv, NewOutgoingCall,
     NewIncomingCall,
     NilCall, TypeOK, Events, peerVars, mediaVars
<1>13. CASE HandleCallAck \/ SetupIncomingMedia
  <2>1. key => SrtpPeer \in {acceptedBy} \/ acceptedBy = NoDevice
    BY DEF SrtpPeer
  <2> QED
    BY <1>13, <2>1, SrtpAssumption DEF HandleCallAck, SetupIncomingMedia,
       InitSrtpKeys,
       ControlInv, TypeOK, callVars, peerVars
<1>14. CASE AcceptRekey
  BY <1>14, SrtpAssumption DEF AcceptRekey, IsLive, TypeOK, Events, SrtpKeys,
     callVars,
     peerVars
<1>15. CASE AcceptMain
  BY <1>15, TransitEnds, TransitionNames, DevicesAssumption, SrtpAssumption
     DEF AcceptMain, InitSrtpKeys, ControlInv, Idle, TypeOK, Events, peerVars
<1>16. CASE Cleanup \/ TermCleanup
  BY <1>16 DEF Cleanup, TermCleanup, CleanupLocked, TypeOK, Events, callVars,
     peerVars
<1> QED
  BY <1>2, <1>3, <1>4, <1>5, <1>7, <1>8, <1>9, <1>10, <1>11, <1>12, <1>13, <1>14,
     <1>15, <1>16
     DEF Next, StartThread, AckThread, EventThread, OfferThread, AcceptThread,
         TerminateThread, RequestThread, TeardownThread, Operator, Relay

-----------------------------------------------------------------------------
(* The call's state.                                                       *)

\* How a step may change the call, hold requests apart: not at all, by creating
\* it, or by one transition, which is media_lost only for an active call.
CallStep ==
    \/ UNCHANGED call
    \/ call.state = "nil" /\ call' \in {NewOutgoingCall, NewIncomingCall}
    \/ \E t \in Transitions \ {"hold", "resume"} :
        call' = ApplyTransition(call,
           t) /\ (t = "media_lost" => call.state = "active")

\* Every step is a hold request, a resume, or a CallStep that leaves hold alone.
LEMMA CallSteps ==
    TypeOK /\ ControlInv /\ [Next]_vars
        => Hold \/ Resume \/ (CallStep /\ UNCHANGED holdActive)
<1> SUFFICES ASSUME TypeOK, ControlInv, [Next]_vars, ~Hold, ~Resume
             PROVE  CallStep /\ UNCHANGED holdActive
  OBVIOUS
<1> USE DEF CallStep
<1>1. CASE StartThread \/ CreateOutgoing
  BY <1>1, TransitionNames DEF CreateOutgoing, StartThread, StartCall, SendOffer,
     StartFailed,
     OfferSent, StartWatchdog, Transit, ControlInv, callVars
<1>2. CASE AckThread \/ HandleOffer \/ Receive \/ OfferThread
  BY <1>2 DEF AckThread, HandleCallAck, AckDial, HandleOffer, Receive, Dispatch,
     OfferThread, HandleCallOffer, OfferEmit, OfferWatchdog, ControlInv, callVars
<1>3. CASE AcceptThread
  BY <1>3, TransitionNames DEF AcceptThread, HandleCallAccept, AcceptRekey,
     AcceptMain,
     AcceptActive, AcceptDone, MediaConnected, Transit, callVars
<1>4. CASE TransportThread
  BY <1>4 DEF TransportThread, HandleCallTransport, TransportStore, TransportDial,
     HandleCallRelayLatency, callVars
<1>5. CASE TerminateThread
  BY <1>5, TransitionNames DEF TerminateThread, HandleCallTerminate, TermCleanup,
     TermDetach, TermRelayCleanup, Transit, callVars
<1>6. CASE RequestThread \/ TeardownThread
  BY <1>6 DEF RequestThread, SetupIncomingMedia, AcceptDial, TeardownThread,
     Cleanup,
     Detach, RelayCleanup, callVars
<1>7. CASE Watchdog
  BY <1>7, TransitionNames DEF Watchdog, ExpireRead, WatchdogExit, ForceMediaLost,
     RetryReconnect, DropConnections, ExpireEndCall, EndCallLocked, Transit,
        callVars
<1>8. CASE Operator
  BY <1>8, TransitionNames DEF Operator, AcceptCall, RejectCall, EndCall, Drain,
     DrainEndCall, EndCallLocked, Transit
<1>9. CASE Relay
  BY <1>9, TransitionNames DEF Relay, RelayOpens, RelayLost, OnRelayConnected,
     OnRelayUnusable, Redial, PeerMedia, MediaSilence, MediaConnected, Transit,
        callVars
<1>10. CASE UNCHANGED vars
  BY <1>10 DEF vars, callVars
<1> QED
  BY <1>1, <1>2, <1>3, <1>4, <1>5, <1>6, <1>7, <1>8, <1>9, <1>10 DEF Next,
     EventThread

\* Hold music plays on no call that does not exist, and as HoldMatchesState says.
HoldInv == (call.state = "nil" => ~holdActive) /\ HoldMatchesState

\* A new call is not on hold.
LEMMA HoldInit == Init => HoldInv
BY DEF Init, HoldInv, HoldMatchesState, IsLive, NilCall

\* Every step keeps hold music and the on_hold state together.
LEMMA HoldNext == TypeOK /\ ControlInv /\ HoldInv /\ [Next]_vars => HoldInv'
<1> SUFFICES ASSUME TypeOK, ControlInv, HoldInv, [Next]_vars PROVE HoldInv'
  OBVIOUS
<1> USE DEF HoldInv, HoldMatchesState, IsLive
<1>1. CASE Hold
  <2>1. Valid(call, "hold")
    BY <1>1, EnvironmentAssumption DEF Hold, Valid
  <2>2. call'.state = "on_hold" /\ holdActive'
    BY <1>1, <2>1 DEF Hold, Transit, ApplyTransition, Target
  <2> QED
    BY <2>2
<1>2. CASE Resume
  <2>1. call'.state # "on_hold" /\ call'.state # "nil" /\ ~holdActive'
    BY <1>2 DEF Resume, Transit, ApplyTransition, Target, Valid, Source
  <2> QED
    BY <2>1
<1>3. CASE CallStep /\ UNCHANGED holdActive
  <2>1. CASE UNCHANGED call
    BY <1>3, <2>1
  <2>2. CASE call.state = "nil" /\ call' \in {NewOutgoingCall, NewIncomingCall}
    BY <1>3, <2>2 DEF NewOutgoingCall, NewIncomingCall, NilCall
  <2>3. ASSUME NEW t \in Transitions \ {"hold", "resume"},
               call' = ApplyTransition(call, t),
               t = "media_lost" => call.state = "active"
        PROVE  HoldInv'
    <3>1. ~Valid(call, t) => UNCHANGED call
      BY <2>3 DEF ApplyTransition
    <3>2. CASE Valid(call, t)
      <4>1. call'.state = Target(call, t)
        BY <2>3, <3>2 DEF ApplyTransition
      <4>2. call.state # "nil" /\ call.state # "ended"
        BY <3>2, TransitionNames DEF Valid, Source, CallStates
      <4>3. call'.state = "on_hold" <=> (call.state = "on_hold" /\ t # "terminated")
        BY <2>3, <3>2, <4>1, TransitionNames DEF Target, Valid, Source
      <4>4. t = "terminated" => call'.state = "ended"
        BY <4>1 DEF Target
      <4>5. call'.state # "nil"
        BY <4>1, TransitionNames DEF Target
      <4> QED
        BY <1>3, <4>2, <4>3, <4>4, <4>5
    <3> QED
      BY <1>3, <3>1, <3>2
  <2> QED
    BY <1>3, <2>1, <2>2, <2>3 DEF CallStep
<1> QED
  BY <1>1, <1>2, <1>3, CallSteps

\* The time stamps that phaseDeadline needs are set in the phases it needs them.
StampInv ==
    /\ call.state = "connecting" => call.acceptedAt
    /\ call.state = "reconnecting" => call.mediaLostAt
    /\ call.state \in {"active", "on_hold", "reconnecting"} => call.connectedAt

\* Every step sets the stamp of the phase it enters, if calls are put on hold only
\* while active.
LEMMA StampNext ==
    ASSUME HoldStates \subseteq {"active"}
    PROVE  TypeOK /\ ControlInv /\ StampInv /\ [Next]_vars => StampInv'
<1> SUFFICES ASSUME TypeOK, ControlInv, StampInv, [Next]_vars PROVE StampInv'
  OBVIOUS
<1>1. ASSUME NEW t \in Transitions, call' = ApplyTransition(call, t),
             t = "hold" => call.state = "active",
             t = "media_lost" => call.state = "active"
      PROVE  StampInv'
  <2>1. CASE ~Valid(call, t)
    BY <1>1, <2>1 DEF ApplyTransition, StampInv
  <2>2. CASE Valid(call, t)
    <3>1. /\ call'.state = Target(call, t)
          /\ call.acceptedAt \/ t \in {"remote_accepted",
             "local_accepted"} => call'.acceptedAt
          /\ call.connectedAt \/ t = "media_connected" => call'.connectedAt
          /\ t = "media_lost" \/ (call.mediaLostAt /\ t # "media_restored") => call'.mediaLostAt
      BY <1>1, <2>2 DEF ApplyTransition
    <3>2. call'.state = "connecting" => call'.acceptedAt
      BY <2>2, <3>1, TransitionNames DEF Target
    <3>3. call'.state = "reconnecting" => call'.mediaLostAt /\ call'.connectedAt
      BY <1>1, <2>2, <3>1, TransitionNames DEF StampInv, Target
    <3>4. call'.state \in {"active", "on_hold"} => call'.connectedAt
      BY <1>1, <2>2, <3>1, TransitionNames DEF StampInv, Target, Valid, Source
    <3> QED
      BY <3>2, <3>3, <3>4 DEF StampInv
  <2> QED
    BY <2>1, <2>2
<1>2. CASE Hold
  BY <1>1, <1>2, TransitionNames DEF Hold, Transit
<1>3. CASE Resume
  BY <1>1, <1>3, TransitionNames DEF Resume, Transit
<1>4. CASE CallStep
  BY <1>1, <1>4 DEF CallStep, StampInv, NewOutgoingCall, NewIncomingCall, NilCall
<1> QED
  BY <1>2, <1>3, <1>4, CallSteps

-----------------------------------------------------------------------------
(* Theorems.                                                               *)

\* The inductive invariant: what the four parts need of one another.
IndInv == TypeOK /\ ControlInv /\ AnswerInv /\ HoldInv

\* The invariant holds in every reachable state.
LEMMA Induction == Spec => []IndInv
<1>1. Init => IndInv
  BY TypeInit, ControlInit, AnswerInit, HoldInit DEF IndInv
<1>2. IndInv /\ [Next]_vars => IndInv'
  BY TypeNext, ControlNext, AnswerNext, HoldNext DEF IndInv, AnswerInv
<1> QED
  BY <1>1, <1>2, PTL DEF Spec

\* Every variable keeps its type, whatever the devices and the environment do.
THEOREM TypeCorrect == Spec => []TypeOK
BY Induction, PTL DEF IndInv

\* The receive key in use belongs to the device that answered, and that device is
\* never sent accepted_elsewhere (HandleCallAccept, HandleCallAck,
\* initSrtpKeysLocked), for any number of devices.
THEOREM AnswererKeys == Spec => [](KeysFollowAnswerer /\ AnswererNotRungOff)
<1>1. IndInv => KeysFollowAnswerer /\ AnswererNotRungOff
  BY DEF IndInv, AnswerInv
<1> QED
  BY <1>1, Induction, PTL

\* Only the second critical section of HandleCallAccept changes who answered.
LEMMA PeerSteps == [Next]_vars => AcceptMain \/ UNCHANGED peerVars
<1> SUFFICES ASSUME [Next]_vars, ~AcceptMain PROVE UNCHANGED peerVars
  OBVIOUS
<1>1. CASE CreateOutgoing \/ HandleOffer \/ StartThread \/ AckThread \/ Receive
  BY <1>1 DEF CreateOutgoing, HandleOffer, StartThread, StartCall, SendOffer,
     StartFailed, OfferSent, StartWatchdog, AckThread, HandleCallAck, AckDial, Receive,
     Dispatch, peerVars
<1>2. CASE OfferThread \/ TransportThread \/ TerminateThread
  BY <1>2 DEF OfferThread, HandleCallOffer, OfferEmit, OfferWatchdog, TransportThread,
     HandleCallTransport, TransportStore, TransportDial, HandleCallRelayLatency,
     TerminateThread, HandleCallTerminate, TermCleanup, TermDetach, TermRelayCleanup,
     peerVars
<1>3. CASE HandleCallAccept \/ AcceptRekey \/ AcceptActive \/ AcceptDone
  BY <1>3 DEF HandleCallAccept, AcceptRekey, AcceptActive, AcceptDone, peerVars
<1>4. CASE RequestThread \/ TeardownThread \/ Watchdog
  BY <1>4 DEF RequestThread, SetupIncomingMedia, AcceptDial, TeardownThread, Cleanup,
     Detach, RelayCleanup, Watchdog, ExpireRead, WatchdogExit, ForceMediaLost,
     RetryReconnect, DropConnections, ExpireEndCall, peerVars
<1>5. CASE Operator \/ Relay \/ UNCHANGED vars
  BY <1>5 DEF Operator, AcceptCall, RejectCall, EndCall, Drain, DrainEndCall, Hold,
     Resume, Relay, RelayOpens, RelayLost, OnRelayConnected, OnRelayUnusable, Redial,
     PeerMedia, MediaSilence, vars, peerVars
<1> QED
  BY <1>1, <1>2, <1>3, <1>4, <1>5 DEF Next, EventThread, AcceptThread

\* The first accept wins: acceptedByJid never moves (HandleCallAccept).
THEOREM AnswererStays == Spec => FirstAcceptWins
<1>1. IndInv /\ [Next]_vars => [acceptedBy # NoDevice => acceptedBy' = acceptedBy]_vars
  BY PeerSteps DEF IndInv, AnswerInv, AcceptMain, peerVars
<1> QED
  BY <1>1, Induction, PTL DEF Spec, FirstAcceptWins

\* An ended call stays ended (ApplyTransition and everyone who calls it).
THEOREM EndIsFinal == Spec => EndedIsFinal
<1>1. IndInv /\ [Next]_vars => [IsEnded(call) => IsEnded(call')]_vars
  <2> SUFFICES ASSUME IndInv, [Next]_vars, IsEnded(call) PROVE IsEnded(call')
    OBVIOUS
  <2>1. ASSUME NEW t \in Transitions, call' = ApplyTransition(call, t)
        PROVE  IsEnded(call')
    BY <2>1, ApplyTransitionEnds DEF IndInv, TypeOK
  <2>2. CASE Hold
    BY <2>1, <2>2, TransitionNames DEF Hold, Transit
  <2>3. CASE Resume
    BY <2>1, <2>3, TransitionNames DEF Resume, Transit
  <2>4. CASE CallStep
    BY <2>1, <2>4 DEF CallStep, IsEnded
  <2> QED
    BY <2>2, <2>3, <2>4, CallSteps DEF IndInv
<1> QED
  BY <1>1, Induction, PTL DEF Spec, EndedIsFinal

\* Hold music plays exactly while a live call is on hold (Hold, Resume,
\* onRelayUsableChange, forceMediaLost).
THEOREM HoldConsistent == Spec => []HoldMatchesState
<1>1. IndInv => HoldMatchesState
  BY DEF IndInv, HoldInv
<1> QED
  BY <1>1, Induction, PTL

\* Every live call has a deadline (phaseDeadline), provided nobody asks for hold
\* before the call is active.
THEOREM DeadlineExists ==
    ASSUME HoldStates \subseteq {"active"}
    PROVE  Spec => []LiveHasDeadline
<1>1. Init => StampInv
  BY DEF Init, StampInv, NilCall
<1>2. IndInv /\ StampInv /\ [Next]_vars => StampInv'
  BY StampNext DEF IndInv
<1>3. IndInv /\ StampInv => LiveHasDeadline
  BY DEF IndInv, TypeOK, CallInfo, CallStates, StampInv, LiveHasDeadline, IsLive,
     HasDeadline
<1> QED
  BY <1>1, <1>2, <1>3, Induction, PTL DEF Spec

\* After the teardown no RTCP loop runs, and the end is reported once
\* (cleanupMedia, maybeStartRtcpTxLocked).
THEOREM TeardownFinal == Spec => [](RtcpStopsAtTeardown /\ EndReportedOnce)
<1> DEFINE P == RtcpStopsAtTeardown /\ EndReportedOnce
<1>1. Init => P
  BY DEF Init, RtcpStopsAtTeardown, EndReportedOnce
<1>2. IndInv /\ P /\ [Next]_vars => P'
  <2> SUFFICES ASSUME IndInv, P, [Next]_vars PROVE P'
    OBVIOUS
  <2> USE DEF RtcpStopsAtTeardown, EndReportedOnce
  <2>1. CASE Cleanup \/ TermCleanup
    BY <2>1 DEF Cleanup, TermCleanup, CleanupLocked, IndInv, TypeOK
  <2>2. CASE AcceptActive \/ OnRelayConnected
    <3>1. Valid(call, "media_connected") => obsEnds = 0
      BY DEF IndInv, TypeOK, ControlInv, IsEnded, Valid, Source
    <3>2. UNCHANGED obsEnds /\ (rtcp' => rtcp \/ Valid(call, "media_connected"))
      BY <2>2 DEF AcceptActive, OnRelayConnected, MediaConnected
    <3> QED
      BY <3>1, <3>2
  <2>3. CASE CreateOutgoing \/ HandleOffer \/ StartThread \/ AckThread \/ Receive
    <3>1. UNCHANGED <<rtcp, obsEnds>>
      BY <2>3 DEF CreateOutgoing, HandleOffer, StartThread, StartCall, SendOffer,
         StartFailed, OfferSent, StartWatchdog, AckThread, HandleCallAck, AckDial,
         Receive, Dispatch, mediaVars
    <3> QED
      BY <3>1
  <2>4. CASE \/ OfferThread \/ TransportThread
             \/ HandleCallTerminate \/ TermDetach \/ TermRelayCleanup
    BY <2>4 DEF OfferThread, HandleCallOffer, OfferEmit, OfferWatchdog,
       TransportThread,
       HandleCallTransport, TransportStore, TransportDial, HandleCallRelayLatency,
       HandleCallTerminate, TermDetach, TermRelayCleanup, mediaVars
  <2>5. CASE HandleCallAccept \/ AcceptRekey \/ AcceptMain \/ AcceptDone
    BY <2>5 DEF HandleCallAccept, AcceptRekey, AcceptMain, AcceptDone, mediaVars
  <2>6. CASE RequestThread \/ Detach \/ RelayCleanup \/ Watchdog
    BY <2>6 DEF RequestThread, SetupIncomingMedia, AcceptDial, Detach, RelayCleanup,
       Watchdog, ExpireRead, WatchdogExit, ForceMediaLost, RetryReconnect,
       DropConnections, ExpireEndCall, mediaVars
  <2>7. CASE Operator \/ RelayOpens \/ RelayLost \/ OnRelayUnusable \/ Redial
             \/ PeerMedia \/ MediaSilence \/ UNCHANGED vars
    BY <2>7 DEF Operator, AcceptCall, RejectCall, EndCall, Drain, DrainEndCall,
       Hold,
       Resume, RelayOpens, RelayLost, OnRelayUnusable, Redial, PeerMedia,
          MediaSilence,
       vars, mediaVars
  <2> QED
    BY <2>1, <2>2, <2>3, <2>4, <2>5, <2>6, <2>7 DEF Next, EventThread, AcceptThread,
       TerminateThread, TeardownThread, Relay
<1> QED
  BY <1>1, <1>2, Induction, PTL DEF Spec

\* Only cleanupMedia counts the end.
LEMMA ReportSteps == [Next]_vars => Cleanup \/ TermCleanup \/ UNCHANGED obsEnds
<1> SUFFICES ASSUME [Next]_vars, ~Cleanup, ~TermCleanup PROVE UNCHANGED obsEnds
  OBVIOUS
<1>1. CASE CreateOutgoing \/ HandleOffer \/ StartThread \/ AckThread \/ Receive
  BY <1>1 DEF CreateOutgoing, HandleOffer, StartThread, StartCall, SendOffer,
     StartFailed, OfferSent, StartWatchdog, AckThread, HandleCallAck, AckDial, Receive,
     Dispatch
<1>2. CASE OfferThread \/ TransportThread \/ TerminateThread
  BY <1>2 DEF OfferThread, HandleCallOffer, OfferEmit, OfferWatchdog, TransportThread,
     HandleCallTransport, TransportStore, TransportDial, HandleCallRelayLatency,
     TerminateThread, HandleCallTerminate, TermDetach, TermRelayCleanup
<1>3. CASE AcceptThread
  BY <1>3 DEF AcceptThread, HandleCallAccept, AcceptRekey, AcceptMain, AcceptActive,
     AcceptDone
<1>4. CASE RequestThread \/ TeardownThread \/ Watchdog
  BY <1>4 DEF RequestThread, SetupIncomingMedia, AcceptDial, TeardownThread,
     Detach, RelayCleanup, Watchdog, ExpireRead, WatchdogExit, ForceMediaLost,
     RetryReconnect, DropConnections, ExpireEndCall
<1>5. CASE Operator \/ Relay \/ UNCHANGED vars
  BY <1>5 DEF Operator, AcceptCall, RejectCall, EndCall, Drain, DrainEndCall, Hold,
     Resume, Relay, RelayOpens, RelayLost, OnRelayConnected, OnRelayUnusable, Redial,
     PeerMedia, MediaSilence, vars
<1> QED
  BY <1>1, <1>2, <1>3, <1>4, <1>5 DEF Next, EventThread

\* A transition takes a call nowhere but to a later phase.
LEMMA PhaseOfTransition ==
    ASSUME TypeOK, NEW t \in Transitions, call' = ApplyTransition(call, t)
    PROVE  Phase' = Phase \/ Phase' \in Abstract!Later[Phase]
<1>1. call.state \in CallStates \cup {"nil"}
  BY DEF TypeOK, CallInfo
<1>2. CASE ~Valid(call, t)
  BY <1>2 DEF ApplyTransition, Phase
<1>3. CASE Valid(call, t)
  <2>1. call.state \in Source[t] /\ call'.state = Target(call, t)
    BY <1>3 DEF ApplyTransition, Valid
  <2>2. CASE t \in {"offer_sent", "offer_received"}
    BY <2>1, <2>2 DEF Source, Target, Phase
  <2>3. CASE t \in {"remote_accepted", "local_accepted"}
    BY <2>1, <2>3 DEF Source, Target, Phase, Abstract!Later
  <2>4. CASE t \in {"remote_rejected", "local_rejected"}
    BY <2>1, <2>4 DEF Source, Target, Phase, Abstract!Later
  <2>5. CASE t \in {"media_connected", "hold"}
    BY <2>1, <2>5 DEF Source, Target, Phase, Abstract!Later
  <2>6. CASE t \in {"media_lost", "media_restored", "resume"}
    BY <2>1, <2>6 DEF Source, Target, Phase
  <2>7. CASE t = "terminated"
    BY <2>1, <2>7, <1>1 DEF Source, Target, Phase, CallStates, Abstract!Later
  <2> QED
    BY <2>2, <2>3, <2>4, <2>5, <2>6, <2>7, TransitionNames
<1> QED
  BY <1>2, <1>3

\* No step takes the call back.
LEMMA PhaseSteps ==
    TypeOK /\ ControlInv /\ [Next]_vars => Phase' = Phase \/ Phase' \in Abstract!Later[Phase]
<1> SUFFICES ASSUME TypeOK, ControlInv, [Next]_vars
             PROVE  Phase' = Phase \/ Phase' \in Abstract!Later[Phase]
  OBVIOUS
<1>1. CASE Hold
  BY <1>1, PhaseOfTransition, TransitionNames DEF Hold, Transit
<1>2. CASE Resume
  BY <1>2, PhaseOfTransition, TransitionNames DEF Resume, Transit
<1>3. CASE CallStep
  <2>1. CASE UNCHANGED call
    BY <2>1 DEF Phase
  <2>2. CASE call.state = "nil" /\ call' \in {NewOutgoingCall, NewIncomingCall}
    BY <2>2 DEF Phase, NewOutgoingCall, NewIncomingCall, NilCall, Abstract!Later
  <2>3. CASE \E t \in Transitions : call' = ApplyTransition(call, t)
    BY <2>3, PhaseOfTransition
  <2> QED
    BY <1>3, <2>1, <2>2, <2>3 DEF CallStep
<1> QED
  BY <1>1, <1>2, <1>3, CallSteps

\* The manager implements AbstractCall, for any number of devices and any environment:
\* every step of its goroutines is a step of the abstract call or none
\* (HandleCallAccept, ApplyTransition, cleanupMedia).
THEOREM CallImplemented == Spec => ImplementsCall
<1>1. Init => Abstract!Init
  BY DEF Init, Abstract!Init, Phase, NilCall
<1>2. IndInv /\ [Next]_vars => [Abstract!Next]_Abstract!vars
  <2> SUFFICES ASSUME IndInv, [Next]_vars PROVE [Abstract!Next]_Abstract!vars
    OBVIOUS
  <2>0. Phase' = Phase \/ Phase' \in Abstract!Later[Phase]
    BY PhaseSteps DEF IndInv
  <2>1. CASE AcceptMain
    <3>1. UNCHANGED obsEnds
      BY <2>1 DEF AcceptMain
    <3>2. CASE UNCHANGED peerVars
      BY <2>0, <3>1, <3>2 DEF Abstract!Next, Abstract!Advance, Abstract!vars, peerVars
    <3>3. CASE ~UNCHANGED peerVars
      <4>1. /\ ev.op = "accept_main" /\ ~IsEnded(call)
            /\ call' = ApplyTransition(call, "remote_accepted")
            /\ acceptedBy' = ev.dev
            /\ rungOff' = IF acceptedBy = NoDevice THEN Devices \ {ev.dev} ELSE rungOff
        BY <2>1, <3>3 DEF AcceptMain, AcceptRecheck, Transit, peerVars
      <4>2. acceptedBy = NoDevice /\ ev.dev \in Devices
        BY <3>3, <4>1 DEF IndInv, AnswerInv, AcceptNamesDevice, peerVars
      <4>3. call.state \in CallStates \ {"ended"}
        BY <4>1 DEF IndInv, TypeOK, CallInfo, ControlInv, IsEnded
      <4>4. Phase \notin {"none", "ended"}
        BY <4>3 DEF Phase, CallStates
      <4>5. Phase' = Phase \/ (Phase = "ringing" /\ Phase' = "answered")
        BY <4>1 DEF ApplyTransition, Valid, Source, Target, Phase
      <4>6. Abstract!Answer(ev.dev)
        BY <3>1, <4>1, <4>2, <4>4, <4>5 DEF Abstract!Answer
      <4> QED
        BY <4>2, <4>6 DEF Abstract!Next
    <3> QED
      BY <3>2, <3>3
  <2>2. CASE Cleanup \/ TermCleanup
    <3>1. UNCHANGED <<call, peerVars>> /\ obsEnds' = IF obsEnds = 0 THEN 1 ELSE obsEnds
      BY <2>2 DEF Cleanup, TermCleanup, CleanupLocked, callVars
    <3>2. IsEnded(call)
      BY <2>2 DEF Cleanup, TermCleanup, IndInv, ControlInv
    <3>3. Phase' = Phase /\ Phase = "ended"
      BY <3>1, <3>2 DEF Phase, IsEnded
    <3> QED
      BY <3>1, <3>3 DEF Abstract!Next, Abstract!Report, Abstract!vars, peerVars
  <2>3. CASE UNCHANGED peerVars /\ UNCHANGED obsEnds
    BY <2>0, <2>3 DEF Abstract!Next, Abstract!Advance, Abstract!vars, peerVars
  <2> QED
    BY <2>1, <2>2, <2>3, PeerSteps, ReportSteps
<1> QED
  BY <1>1, <1>2, Induction, PTL DEF Spec, ImplementsCall, Abstract!Spec

-----------------------------------------------------------------------------
(* Keys before media.                                                      *)

\* The states of a call that has been answered and not ended.
Answered == {"connecting", "active", "on_hold", "reconnecting"}

\* A ringing call has relays to set its media up with, and an answered call that carries
\* a call key has its SRTP contexts, unless AcceptCall is still setting them up.
KeysInv ==
    /\ call.state = "incoming_ringing" => eps # "none"
    /\ call.state \in Answered /\ key /\ acc # "media" => srtp # NoSrtp

\* Steps that neither create, answer nor tear down the call.
PlainStep ==
    /\ UNCHANGED key
    /\ acc = "media" => acc' = "media"
    /\ srtp # NoSrtp => srtp' # NoSrtp
    /\ eps' = "none" => eps = "none"
    /\ \/ UNCHANGED call
       \/ \E t \in Transitions \ {"remote_accepted", "local_accepted", "offer_received"} :
            call' = ApplyTransition(call, t)

\* They keep the keys.
LEMMA PlainKeeps == TypeOK /\ KeysInv /\ PlainStep => KeysInv'
<1> SUFFICES ASSUME TypeOK, KeysInv, PlainStep PROVE KeysInv'
  OBVIOUS
<1>1. CASE UNCHANGED call
  BY <1>1 DEF KeysInv, PlainStep
<1>2. ASSUME NEW t \in Transitions \ {"remote_accepted", "local_accepted", "offer_received"},
             call' = ApplyTransition(call, t)
      PROVE  KeysInv'
  <2>1. CASE ~Valid(call, t)
    BY <1>1, <1>2, <2>1 DEF ApplyTransition
  <2>2. CASE Valid(call, t)
    <3>1. call'.state = Target(call, t)
      BY <1>2, <2>2 DEF ApplyTransition
    <3>2. call'.state # "incoming_ringing"
      BY <1>2, <3>1, TransitionNames DEF Target
    <3>3. call'.state \in Answered => call.state \in Answered
      BY <1>2, <2>2, <3>1, TransitionNames DEF Target, Valid, Source, Answered
    <3> QED
      BY <3>2, <3>3 DEF KeysInv, PlainStep
  <2> QED
    BY <2>1, <2>2
<1> QED
  BY <1>1, <1>2 DEF PlainStep

\* initSrtpKeysLocked derives keys if there is a call key, and never removes any.
LEMMA InitSrtpKeysDerives ==
    ASSUME NEW dev \in Devices \cup {PeerJid}, InitSrtpKeys(dev)
    PROVE  (key \/ srtp # NoSrtp) => srtp' # NoSrtp
<1>1. [peer |-> dev, key |-> "call"] \in SrtpKeys
  BY DEF SrtpKeys
<1> QED
  BY <1>1, SrtpAssumption DEF InitSrtpKeys

\* Every step keeps the keys, if every offer carries relays.
LEMMA KeysNext ==
    ASSUME "none" \notin OfferRelays
    PROVE  IndInv /\ KeysInv /\ [Next]_vars => KeysInv'
<1> SUFFICES ASSUME IndInv, KeysInv, [Next]_vars PROVE KeysInv'
  OBVIOUS
<1>0. TypeOK /\ ControlInv /\ AcceptNamesDevice /\ SrtpPeer \in Devices \cup {PeerJid}
  BY DEF IndInv, AnswerInv, TypeOK, SrtpPeer
<1>1. CASE StartCall
  BY <1>1 DEF StartCall, NewOutgoingCall, NilCall, KeysInv, Answered
<1>2. CASE HandleCallOffer
  BY <1>2 DEF HandleCallOffer, NewIncomingCall, NilCall, KeysInv, Answered
<1>3. CASE AcceptCall
  <2>1. call'.state = "connecting"
    BY <1>3 DEF AcceptCall, Transit, ApplyTransition, Valid, Source, Target
  <2>2. acc' = "media"
    BY <1>3 DEF AcceptCall, KeysInv
  <2> QED
    BY <2>1, <2>2 DEF KeysInv
<1>4. CASE SetupIncomingMedia
  <2>1. (key \/ srtp # NoSrtp) => srtp' # NoSrtp
    BY <1>0, <1>4, InitSrtpKeysDerives DEF SetupIncomingMedia
  <2> QED
    BY <1>4, <2>1 DEF SetupIncomingMedia, KeysInv, callVars
<1>5. CASE AcceptMain
  <2>1. CASE AcceptRecheck
    <3>1. (key \/ srtp # NoSrtp) => srtp' # NoSrtp
      BY <1>0, <1>5, <2>1, InitSrtpKeysDerives DEF AcceptMain, AcceptNamesDevice
    <3>2. call'.state = "incoming_ringing" => call.state = "incoming_ringing"
      BY <1>5, <2>1 DEF AcceptMain, Transit, ApplyTransition, Target
    <3> QED
      BY <1>5, <3>1, <3>2 DEF AcceptMain, KeysInv
  <2>2. CASE ~AcceptRecheck
    BY <1>5, <2>2 DEF AcceptMain, KeysInv
  <2> QED
    BY <2>1, <2>2
<1>6. CASE Cleanup \/ TermCleanup
  BY <1>0, <1>6 DEF Cleanup, TermCleanup, ControlInv, IsEnded, KeysInv, Answered, callVars
<1>7. CASE HandleCallAck
  <2>1. srtp # NoSrtp => srtp' # NoSrtp
    BY <1>0, <1>7, InitSrtpKeysDerives DEF HandleCallAck
  <2>2. PlainStep
    BY <1>7, <2>1 DEF HandleCallAck, PlainStep
  <2> QED
    BY <1>0, <2>2, PlainKeeps
<1>8. CASE AcceptRekey
  <2>1. [peer |-> ev.dev, key |-> "peer"] \in SrtpKeys
    BY <1>0, <1>8 DEF AcceptRekey, AcceptNamesDevice, SrtpKeys
  <2>2. PlainStep
    BY <1>8, <2>1, SrtpAssumption DEF AcceptRekey, PlainStep, callVars
  <2> QED
    BY <1>0, <2>2, PlainKeeps
<1>9. ASSUME ~StartCall, ~HandleCallOffer, ~AcceptCall, ~SetupIncomingMedia, ~AcceptMain,
             ~Cleanup, ~TermCleanup, ~HandleCallAck, ~AcceptRekey
      PROVE  PlainStep
  <2> USE TransitionNames DEF PlainStep
  <2>1. CASE CreateOutgoing \/ HandleOffer \/ StartThread \/ AckThread \/ Receive
    BY <1>9, <2>1 DEF CreateOutgoing, HandleOffer, StartThread, SendOffer, StartFailed,
       OfferSent, StartWatchdog, AckThread, AckDial, Receive, Dispatch, Transit,
       callVars, mediaVars
  <2>2. CASE OfferThread \/ TransportThread
    BY <1>9, <2>2 DEF OfferThread, OfferEmit, OfferWatchdog, TransportThread,
       HandleCallTransport, TransportStore, TransportDial, HandleCallRelayLatency,
       callVars, mediaVars
  <2>3. CASE AcceptThread \/ TerminateThread
    BY <1>9, <2>3 DEF AcceptThread, HandleCallAccept, AcceptActive, AcceptDone,
       TerminateThread, HandleCallTerminate, TermDetach, TermRelayCleanup,
       MediaConnected, Transit, callVars, mediaVars
  <2>4. CASE RequestThread \/ TeardownThread
    BY <1>9, <2>4 DEF RequestThread, AcceptDial, TeardownThread, Detach, RelayCleanup, callVars
  <2>5. CASE Watchdog
    BY <2>5 DEF Watchdog, ExpireRead, WatchdogExit, ForceMediaLost, RetryReconnect,
       DropConnections, ExpireEndCall, EndCallLocked, Transit, callVars, mediaVars
  <2>6. CASE Operator
    BY <1>9, <2>6 DEF Operator, RejectCall, EndCall, Drain, DrainEndCall, Hold, Resume,
       EndCallLocked, Transit, mediaVars, threads
  <2>7. CASE Relay
    BY <2>7 DEF Relay, RelayOpens, RelayLost, OnRelayConnected, OnRelayUnusable, Redial,
       PeerMedia, MediaSilence, MediaConnected, Transit, callVars, mediaVars, threads
  <2>8. CASE UNCHANGED vars
    BY <2>8 DEF vars, callVars, mediaVars, threads
  <2> QED
    BY <2>1, <2>2, <2>3, <2>4, <2>5, <2>6, <2>7, <2>8 DEF Next, EventThread
<1> QED
  BY <1>0, <1>1, <1>2, <1>3, <1>4, <1>5, <1>6, <1>7, <1>8, <1>9, PlainKeeps

\* No call is active without its SRTP contexts: the keys are there before the media is, on
\* whichever path the call was answered and its relays came in (AcceptCall,
\* setupIncomingMedia, HandleCallAccept, HandleCallAck), provided inbound offers carry
\* relays, which AcceptCall needs to set media up at all.
THEOREM KeysBeforeMedia ==
    ASSUME "none" \notin OfferRelays
    PROVE  Spec => []ActiveHasKeys
<1>1. Init => KeysInv
  BY DEF Init, KeysInv, NilCall, Answered
<1>2. KeysInv => ActiveHasKeys
  BY DEF KeysInv, ActiveHasKeys, Answered
<1> QED
  BY <1>1, <1>2, KeysNext, Induction, PTL DEF Spec

===============================================================================
