------------------------------ MODULE CallState ------------------------------
(***************************************************************************)
(* The state machine of one call: CallInfo, its phase time stamps and      *)
(* ApplyTransition (internal/voip/call/callstate.go), and the deadline the *)
(* watchdog derives from them (internal/voip/call/callmanager_timeout.go). *)
(*                                                                         *)
(* A time stamp is modelled by whether it is set: the code compares it     *)
(* with nil and adds a constant to it, nothing else.                       *)
(***************************************************************************)

CallStates ==
    {"initiating", "ringing", "incoming_ringing", "connecting", "active",
     "on_hold", "reconnecting", "ended"}

CallInfo ==
    [state : CallStates \cup {"nil"}, acceptedAt : BOOLEAN,
     connectedAt : BOOLEAN, mediaLostAt : BOOLEAN]

\* currentCall == nil: the manager exists, the call does not yet.
NilCall ==
    [state |-> "nil", acceptedAt |-> FALSE, connectedAt |-> FALSE,
     mediaLostAt |-> FALSE]

NewOutgoingCall == [NilCall EXCEPT !.state = "initiating"]

NewIncomingCall == [NilCall EXCEPT !.state = "incoming_ringing"]

IsEnded(c) == c.state = "ended"

\* A call object exists and has not ended.
IsLive(c) == c.state \notin {"nil", "ended"}

\* The states in which the code lets each transition through.
Source ==
    [offer_sent       |-> {"initiating"},
     offer_received   |-> {"initiating"},
     remote_accepted  |-> {"ringing"},
     local_accepted   |-> {"incoming_ringing"},
     remote_rejected  |-> {"ringing"},
     local_rejected   |-> {"incoming_ringing"},
     media_connected  |-> {"connecting", "on_hold"},
     media_lost       |-> {"active", "on_hold"},
     media_restored   |-> {"reconnecting"},
     terminated       |-> CallStates \ {"ended"},
     hold             |-> {"active", "connecting"},
     resume           |-> {"on_hold"}]

Transitions == DOMAIN Source

Valid(c, t) == c.state \in Source[t]

Target(c, t) ==
    CASE t = "offer_sent" -> "ringing"
      [] t = "offer_received" -> "incoming_ringing"
      [] t \in {"remote_accepted", "local_accepted"} -> "connecting"
      [] t \in {"remote_rejected", "local_rejected", "terminated"} -> "ended"
      [] t = "media_connected" ->
            IF c.state = "on_hold" THEN "on_hold" ELSE "active"
      [] t = "media_lost" -> "reconnecting"
      [] t \in {"media_restored", "resume"} -> "active"
      [] t = "hold" -> "on_hold"

\* Mutant: AcceptedAt is set for the calls we place only.
ApplyTransition_NoAcceptedAt(c, t) ==
    IF ~Valid(c, t)
    THEN c
    ELSE [state       |-> Target(c, t),
          acceptedAt  |-> c.acceptedAt \/ t = "remote_accepted",
          connectedAt |-> c.connectedAt \/ t = "media_connected",
          mediaLostAt |-> t = "media_lost" \/ (c.mediaLostAt /\ t # "media_restored")]

\* An invalid transition returns an error and changes nothing; callers that
\* discard the error use ApplyTransition alone, the others test Valid first.
ApplyTransition(c, t) ==
    IF ~Valid(c, t)
    THEN c
    ELSE [state       |-> Target(c, t),
          acceptedAt  |-> c.acceptedAt \/ t \in {"remote_accepted", "local_accepted"},
          connectedAt |-> c.connectedAt \/ t = "media_connected",
          mediaLostAt |-> t = "media_lost" \/ (c.mediaLostAt /\ t # "media_restored")]

\* Mutant: a reconnecting call is given unlimited time.
HasDeadline_NoGrace(c) ==
    \/ c.state \in {"initiating", "ringing", "incoming_ringing"}
    \/ c.state = "connecting" /\ c.acceptedAt
    \/ c.state \in {"active", "on_hold"} /\ c.connectedAt

\* phaseDeadline's second result: the call has a deadline in its current
\* state.  All the timeouts are positive in DefaultTimeouts.
HasDeadline(c) ==
    \/ c.state \in {"initiating", "ringing", "incoming_ringing"}
    \/ c.state = "connecting" /\ c.acceptedAt
    \/ c.state = "reconnecting" /\ c.mediaLostAt
    \/ c.state \in {"active", "on_hold"} /\ c.connectedAt
=============================================================================
