----------------------------- MODULE AbstractCall -----------------------------
(***************************************************************************)
(* What a call promises to the session, the peer and the telemetry,        *)
(* whatever its goroutines do: it begins once and only goes forward, one   *)
(* device of the peer answers it while it lives and every other device is  *)
(* rung off, it ends for good, and its end is reported once.               *)
(***************************************************************************)
EXTENDS Naturals

CONSTANTS
    Devices,    \* the peer's devices
    NoDevice    \* none of them

VARIABLES
    phase,      \* how far the call has come
    answerer,   \* the device that answered
    rungOff,    \* the devices told that another one did
    reports     \* how often the end was reported

vars == <<phase, answerer, rungOff, reports>>

Later ==
    [none     |-> {"ringing"},
     ringing  |-> {"answered", "ended"},
     answered |-> {"talking", "ended"},
     talking  |-> {"ended"},
     ended    |-> {}]

Init == phase = "none" /\ answerer = NoDevice /\ rungOff = {} /\ reports = 0

Advance ==
    /\ phase' \in Later[phase]
    /\ UNCHANGED <<answerer, rungOff, reports>>

\* An answer that comes before the call rings does not move it on.
Answer(d) ==
    /\ phase \notin {"none", "ended"} /\ answerer = NoDevice
    /\ answerer' = d /\ rungOff' = Devices \ {d}
    /\ phase' = phase \/ (phase = "ringing" /\ phase' = "answered")
    /\ UNCHANGED reports

Report ==
    /\ phase = "ended" /\ reports = 0 /\ reports' = 1
    /\ UNCHANGED <<phase, answerer, rungOff>>

Next == Advance \/ Report \/ \E d \in Devices : Answer(d)

Spec == Init /\ [][Next]_vars
=============================================================================
