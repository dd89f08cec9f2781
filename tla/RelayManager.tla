---------------------------- MODULE RelayManager ----------------------------
(***************************************************************************)
(* The relay transport of one call: SctpRelayManager with its connections, *)
(* the goroutines that dial, the callbacks of pion's peer connections and  *)
(* the calls the call manager makes (internal/voip/transport/sctprelay.go).*)
(*                                                                         *)
(* Every action is one critical section of m.mu, or what a goroutine does  *)
(* between two of them.  A connection outlives its entry in m.connections: *)
(* its callbacks name it by its id, the relay, or by pointer, as the code  *)
(* does.                                                                   *)
(***************************************************************************)
EXTENDS Naturals, FiniteSets

CONSTANTS
    Relays,         \* connection ids: ip:port#authTokenID
    Conns,          \* relayConnection objects, a bound on the dials considered
    NoConn,         \* no entry in m.connections
    Dialers,        \* goroutines that may be inside ConfigureRelays at a time
    MaxOpenRelays,
    MaxDialRelays

ASSUME ConnsAssumption == NoConn \notin Conns /\ IsFiniteSet(Conns)

ASSUME LimitsAssumption == MaxOpenRelays \in Nat /\ MaxDialRelays \in Nat

VARIABLES
    conns,       \* the connection objects
    map,         \* m.connections
    lastUsable,  \* m.lastUsable
    cfg,         \* the dialers inside ConfigureRelays
    report       \* some goroutine is about to run recomputeHealth

vars == <<conns, map, lastUsable, cfg, report>>

\* step   how far connectToRelay has come: "free" before the object exists
\* pc     the peer connection: not created, running, closed by teardown
\* torn   teardownOnce has run
\* tear   a goroutine is about to call teardown, and then to recompute or not
\* lose   a goroutine is about to close it as a connection over the cap
\* fired  the data channel's OnOpen and OnClose callbacks have run
Connection ==
    [id : Relays \cup {NoConn}, state : {"connecting", "open", "closed", "failed"},
     step : {"free", "insert", "new", "armed", "failed"},
     pc : {"none", "up", "down"}, degraded : BOOLEAN, torn : BOOLEAN,
     tear : {"no", "quiet", "report"}, lose : BOOLEAN,
     fired : SUBSET {"open", "close"}]

NewConn(r) ==
    [id |-> r, state |-> "connecting", step |-> "free", pc |-> "none",
     degraded |-> FALSE, torn |-> FALSE, tear |-> "no", lose |-> FALSE, fired |-> {}]

NotDialing == [on |-> FALSE, todo |-> {}, dialed |-> 0, mine |-> {}]

Registered == {map[r] : r \in Relays} \ {NoConn}

TypeOK ==
    /\ conns \in [Conns -> Connection]
    /\ map \in [Relays -> Conns \cup {NoConn}]
    /\ lastUsable \in 0..Cardinality(Conns)
    /\ cfg \in [Dialers -> [on : BOOLEAN, todo : SUBSET Relays, dialed : Nat,
                            mine : SUBSET Conns]]
    /\ report \in BOOLEAN

Init ==
    /\ conns = [c \in Conns |-> NewConn(NoConn)]
    /\ map = [r \in Relays |-> NoConn]
    /\ lastUsable = 0
    /\ cfg = [d \in Dialers |-> NotDialing]
    /\ report = FALSE

Open == {c \in Registered : conns[c].state = "open"}

Usable == {c \in Open : ~conns[c].degraded}

-----------------------------------------------------------------------------
(* Dialing.                                                                *)

\* ConfigureRelays is entered: len(m.connections) is read once.  The bound: there
\* are objects left for every dialer to dial all it may.
ConfigureRelays(d) ==
    /\ ~cfg[d].on
    /\ Cardinality({c \in Conns : conns[c].step = "free"})
        >= MaxDialRelays * Cardinality(Dialers)
    /\ \E todo \in SUBSET Relays \ {{}} :
        cfg' = [cfg EXCEPT ![d] = [on |-> TRUE, todo |-> todo,
                                   dialed |-> Cardinality(Registered), mine |-> {}]]
    /\ UNCHANGED <<conns, map, lastUsable, report>>

\* One turn of the loop: a relay without an entry gets a dialing goroutine.
DialNext(d, r) ==
    /\ cfg[d].on /\ r \in cfg[d].todo /\ cfg[d].dialed < MaxDialRelays
    /\ IF map[r] # NoConn
       THEN cfg' = [cfg EXCEPT ![d].todo = @ \ {r}] /\ UNCHANGED conns
       ELSE \E c \in Conns :
             /\ conns[c].step = "free"
             /\ conns' = [conns EXCEPT ![c] = [NewConn(r) EXCEPT !.step = "insert"]]
             /\ cfg' = [cfg EXCEPT ![d] = [on |-> TRUE, todo |-> cfg[d].todo \ {r},
                                           dialed |-> cfg[d].dialed + 1,
                                           mine |-> cfg[d].mine \cup {c}]]
    /\ UNCHANGED <<map, lastUsable, report>>

\* wg.Wait: every connectToRelay it started has returned.
ConfigureDone(d) ==
    /\ cfg[d].on
    /\ cfg[d].todo = {} \/ cfg[d].dialed >= MaxDialRelays
    /\ \A c \in cfg[d].mine : conns[c].step \in {"armed", "failed"}
    /\ cfg' = [cfg EXCEPT ![d] = NotDialing]
    /\ UNCHANGED <<conns, map, lastUsable, report>>

\* connectToRelay's first critical section.
Insert(c) ==
    /\ conns[c].step = "insert"
    /\ map' = [map EXCEPT ![conns[c].id] = c]
    /\ conns' = [conns EXCEPT ![c].step = "new"]
    /\ UNCHANGED <<lastUsable, cfg, report>>

\* The rest of connectToRelay: peer connection, data channel, both descriptions,
\* and the goroutine that waits for the dial timeout.
Connect(c) ==
    /\ conns[c].step = "new"
    /\ conns' = [conns EXCEPT ![c].step = "armed", ![c].pc = "up"]
    /\ UNCHANGED <<map, lastUsable, cfg, report>>

-----------------------------------------------------------------------------
(* The end of a connection.                                                *)

\* A connection leaves m.connections and will be torn down.  Its degraded flag is
\* not read any more and is forgotten.
Leaving(conn, state, how) ==
    [conn EXCEPT !.state = state, !.tear = how, !.degraded = FALSE]

\* failConnection: the entry of its id is deleted, whoever holds it.
FailConnection(c) ==
    IF conns[c].state = "failed"
    THEN UNCHANGED <<conns, map>>
    ELSE /\ conns' = [conns EXCEPT ![c] = Leaving(@, "failed", "report")]
         /\ map' = [map EXCEPT ![conns[c].id] = NoConn]

\* closeConnection: the connection that holds the id is closed, whoever asks.
CloseConnection(cs, r) ==
    IF map[r] = NoConn
    THEN conns' = cs /\ UNCHANGED map
    ELSE /\ conns' = [cs EXCEPT ![map[r]] = Leaving(@, "closed", "report")]
         /\ map' = [map EXCEPT ![r] = NoConn]

\* A step of connectToRelay returns an error, the first or a later one.
DialFails(c) ==
    /\ conns[c].step = "new"
    /\ \E pc \in {"none", "up"} :
        LET cs == [conns EXCEPT ![c].step = "failed", ![c].pc = pc] IN
        IF conns[c].state = "failed"
        THEN conns' = cs /\ UNCHANGED map
        ELSE /\ conns' = [cs EXCEPT ![c] = Leaving(@, "failed", "report")]
             /\ map' = [map EXCEPT ![conns[c].id] = NoConn]
    /\ UNCHANGED <<lastUsable, cfg, report>>

\* Mutant: the test of the state is the wrong way round.
DialTimeout_OfOpen(c) ==
    /\ conns[c].step = "armed" /\ conns[c].state = "open"
    /\ FailConnection(c)
    /\ UNCHANGED <<lastUsable, cfg, report>>

\* relayConnectionTimeout.  When stopCh is closed at the same time, select may
\* still take the timer.
DialTimeout(c) ==
    /\ conns[c].step = "armed" /\ conns[c].state = "connecting"
    /\ FailConnection(c)
    /\ UNCHANGED <<lastUsable, cfg, report>>

IceFailed(c) ==
    /\ conns[c].step = "armed" /\ conns[c].state # "failed"
    /\ FailConnection(c)
    /\ UNCHANGED <<lastUsable, cfg, report>>

\* teardown, once; what exists of the connection at that moment is closed.
Teardown(c) ==
    /\ conns[c].tear # "no"
    /\ report' = (report \/ conns[c].tear = "report")
    /\ conns' = [conns EXCEPT ![c].tear = "no", ![c].torn = TRUE,
                              ![c].pc = IF conns[c].pc = "up" /\ ~conns[c].torn
                                        THEN "down" ELSE @]
    /\ UNCHANGED <<map, lastUsable, cfg>>

\* The snapshot that DropConnections and Cleanup take of m.connections.
DropAll(how) ==
    /\ conns' = [c \in Conns |->
                    IF c \in Registered THEN Leaving(conns[c], conns[c].state, how)
                    ELSE conns[c]]
    /\ map' = [r \in Relays |-> NoConn]

\* The recomputation that follows the teardowns follows also when there are none.
DropConnections ==
    /\ DropAll("report")
    /\ report' = (report \/ Registered = {})
    /\ UNCHANGED <<lastUsable, cfg>>

\* Mutant: the count reported last survives.
Cleanup_KeepsCount ==
    /\ DropAll("quiet")
    /\ UNCHANGED <<lastUsable, cfg, report>>

Cleanup ==
    /\ DropAll("quiet")
    /\ lastUsable' = 0
    /\ UNCHANGED <<cfg, report>>

-----------------------------------------------------------------------------
(* Callbacks of the peer connection and its data channel.                  *)

\* Mutant: every connection that opens is kept.
MayOpen_Any == TRUE

\* countOpenLocked is below the cap.
MayOpen == Cardinality(Open) < MaxOpenRelays

OnOpen(c) ==
    /\ conns[c].step = "armed" /\ "open" \notin conns[c].fired
    /\ IF MayOpen
       THEN /\ conns' = [conns EXCEPT ![c].fired = @ \cup {"open"}, ![c].state = "open"]
            /\ report' = TRUE
       ELSE /\ conns' = [conns EXCEPT ![c].fired = @ \cup {"open"}, ![c].lose = TRUE]
            /\ UNCHANGED report
    /\ UNCHANGED <<map, lastUsable, cfg>>

\* The goroutine that closes a connection over the cap.
CloseLoser(c) ==
    /\ conns[c].lose
    /\ CloseConnection([conns EXCEPT ![c].lose = FALSE], conns[c].id)
    /\ UNCHANGED <<lastUsable, cfg, report>>

\* An open channel was closed, by us or by the relay.
OnClose(c) ==
    /\ "open" \in conns[c].fired /\ "close" \notin conns[c].fired
    /\ CloseConnection([conns EXCEPT ![c].fired = @ \cup {"close"}], conns[c].id)
    /\ UNCHANGED <<lastUsable, cfg, report>>

\* The flag of a connection that is not in m.connections is not kept.
IceDisconnected(c) ==
    /\ conns[c].pc # "none"
    /\ conns' = [conns EXCEPT ![c].degraded = (c \in Registered)]
    /\ report' = TRUE
    /\ UNCHANGED <<map, lastUsable, cfg>>

IceConnected(c) ==
    /\ conns[c].pc # "none"
    /\ conns' = [conns EXCEPT ![c].degraded = FALSE]
    /\ report' = TRUE
    /\ UNCHANGED <<map, lastUsable, cfg>>

\* recomputeHealth.  Several goroutines about to run it are one: the last one
\* sees what all of them changed.
RecomputeHealth ==
    /\ report /\ report' = FALSE
    /\ lastUsable' = Cardinality(Usable)
    /\ UNCHANGED <<conns, map, cfg>>

-----------------------------------------------------------------------------
Dialer(d) == ConfigureRelays(d) \/ (\E r \in Relays : DialNext(d, r)) \/ ConfigureDone(d)

ConnStep(c) ==
    \/ Insert(c) \/ Connect(c) \/ DialFails(c) \/ DialTimeout(c)
    \/ IceFailed(c) \/ Teardown(c) \/ OnOpen(c) \/ CloseLoser(c) \/ OnClose(c)
    \/ IceDisconnected(c) \/ IceConnected(c)

Next ==
    \/ \E d \in Dialers : Dialer(d)
    \/ \E c \in Conns : ConnStep(c)
    \/ DropConnections \/ Cleanup \/ RecomputeHealth

Spec == Init /\ [][Next]_vars

\* Every goroutine that can run does; time.After fires.
Fairness ==
    /\ \A d \in Dialers :
        WF_vars((\E r \in Relays : DialNext(d, r)) \/ ConfigureDone(d))
    /\ \A c \in Conns :
        WF_vars(Insert(c) \/ Connect(c) \/ DialFails(c))
    /\ \A c \in Conns : WF_vars(DialTimeout(c)) /\ WF_vars(Teardown(c))
    /\ WF_vars(RecomputeHealth)

FairSpec == Spec /\ Fairness

-----------------------------------------------------------------------------
(* Properties.                                                             *)

\* Media is sent over at most MaxOpenRelays relays, however many channels open at
\* the same time, while others are dropped, fail and are dialed again.
OpenCap == Cardinality(Open) <= MaxOpenRelays

\* When no goroutine is on its way to recomputeHealth, the count the call manager
\* was told last is the number of usable connections.
HealthSettled ==
    ~report /\ (\A c \in Conns : conns[c].tear # "report")
        => lastUsable = Cardinality(Usable)

\* A connection that is torn down has its peer connection closed.
TornDownIsClosed == \A c \in Conns : conns[c].torn => conns[c].pc # "up"

\* Dials end: every ConfigureRelays returns, whatever happens to the connections it dials,
\* and a dial that comes to nothing is given up, no connection that is still in
\* m.connections stays in "connecting".
DialsEnd ==
    /\ \A d \in Dialers : cfg[d].on ~> ~cfg[d].on
    /\ \A c \in Conns :
        (c \in Registered /\ conns[c].state = "connecting")
            ~> (c \notin Registered \/ conns[c].state # "connecting")
=============================================================================
