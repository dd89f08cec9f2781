-------------------------- MODULE RelayManagerProofs --------------------------
(***************************************************************************)
(* The cap on open relays, for any number of relays, connections, dialers  *)
(* and any caps; the count of usable relays, for one dialer at a time; and *)
(* the streams of a call that are registered with them.                    *)
(***************************************************************************)
EXTENDS RelayManager, VideoUpgrade, FiniteSetTheorems, TLAPS

\* A connection nothing has happened to yet.
Untouched(k) ==
    /\ k.state = "connecting" /\ k.pc = "none" /\ k.tear = "no"
    /\ k.lose = FALSE /\ k.fired = {}

\* What a connection must be when connectToRelay enters it into m.connections, and
\* what is in m.connections.
EntryInv ==
    /\ conns \in [Conns -> Connection]
    /\ map \in [Relays -> Conns \cup {NoConn}]
    /\ \A c \in Conns : conns[c].step # "free" => conns[c].id \in Relays
    /\ \A c \in Conns : conns[c].step \in {"free", "insert"} => Untouched(conns[c])
    /\ \A r \in Relays : map[r] # NoConn => conns[map[r]].step \notin {"free", "insert"}

\* A step that enters nothing into m.connections.
EntersNothing ==
    /\ map' \in [Relays -> Conns \cup {NoConn}]
    /\ \A r \in Relays : map'[r] \in {map[r], NoConn}

\* A connection after a step that does not open it: it keeps its id, it changes only
\* once connectToRelay has entered it, and it is not entered again.
Follows(k, old) ==
    /\ k \in Connection
    /\ k.id = old.id
    /\ k.state = "open" => old.state = "open"
    /\ k = old \/ {k.step, old.step} \cap {"free", "insert"} = {}

\* A step that opens no connection and enters none.
Calm ==
    /\ EntersNothing
    /\ conns' \in [Conns -> Connection]
    /\ \A c \in Conns : Follows(conns'[c], conns[c])

\* The connections in m.connections are connections, finitely many.
LEMMA RegisteredFinite ==
    ASSUME map \in [Relays -> Conns \cup {NoConn}]
    PROVE  Registered \subseteq Conns /\ IsFiniteSet(Registered) /\ IsFiniteSet(Open)
<1>1. Registered \subseteq Conns
  BY DEF Registered
<1>2. Open \subseteq Conns
  BY <1>1 DEF Open
<1> QED
  BY <1>1, <1>2, ConnsAssumption, FS_Subset

\* A connection that failConnection, closeConnection, DropConnections or Cleanup
\* takes out keeps its id and step and gets the state it is given.
LEMMA LeavingType ==
    ASSUME NEW k \in Connection, NEW s \in {"connecting", "open", "closed", "failed"},
           NEW how \in {"quiet", "report"}
    PROVE  /\ Leaving(k, s, how) \in Connection
           /\ Leaving(k, s, how).id = k.id
           /\ Leaving(k, s, how).step = k.step
           /\ Leaving(k, s, how).state = s
           /\ Leaving(k, s, how).tear = how
BY DEF Leaving, Connection

\* The initial state has no entries.
LEMMA EntryInit == Init => EntryInv
BY DEF Init, EntryInv, Untouched, Connection, NewConn

\* A calm step keeps the entries in order and opens nothing.
LEMMA CalmStep ==
    ASSUME EntryInv, Calm
    PROVE  EntryInv' /\ Open' \subseteq Open
<1>1. \A r \in Relays : map'[r] # NoConn => map'[r] = map[r] /\ map[r] \in Conns
  BY DEF EntryInv, Calm, EntersNothing
<1>2. EntryInv'
  BY <1>1 DEF EntryInv, Calm, Follows, EntersNothing
<1>3. Registered' \subseteq Registered /\ Registered \subseteq Conns
  BY <1>1 DEF EntryInv, Registered
<1>4. Open' \subseteq Open
  BY <1>3 DEF Open, Calm, Follows
<1> QED
  BY <1>2, <1>4

\* A step that touches one entered connection, does not open it and enters nothing
\* is calm.
LEMMA TouchIsCalm ==
    ASSUME EntryInv, EntersNothing, NEW c \in Conns, NEW k, Follows(k, conns[c]),
           conns' = [conns EXCEPT ![c] = k]
    PROVE  Calm
<1>1. \A x \in Conns : conns'[x] = IF x = c THEN k ELSE conns[x]
  BY DEF EntryInv
<1> QED
  BY <1>1 DEF EntryInv, Calm, Follows

\* m.connections is left alone, or loses one entry.
LEMMA Entries ==
    ASSUME EntryInv, NEW r, UNCHANGED map \/ map' = [map EXCEPT ![r] = NoConn]
    PROVE  EntersNothing
BY DEF EntryInv, EntersNothing

\* The deletions of failConnection and closeConnection, the first of them also where
\* connectToRelay gives up, are calm.
LEMMA FailIsCalm ==
    ASSUME EntryInv, NEW c \in Conns, FailConnection(c), conns[c].step = "armed"
    PROVE  Calm
<1>1. EntersNothing
  BY Entries DEF FailConnection
<1>2. CASE conns[c].state = "failed"
  BY <1>1, <1>2 DEF FailConnection, Calm, Follows, EntryInv
<1>3. CASE conns[c].state # "failed"
  <2>1. Follows(Leaving(conns[c], "failed", "report"), conns[c])
    BY LeavingType DEF Follows, EntryInv
  <2> QED
    BY <1>1, <1>3, <2>1, TouchIsCalm DEF FailConnection
<1> QED
  BY <1>2, <1>3

\* closeConnection, after its caller has changed the connection c it speaks for.
LEMMA CloseIsCalm ==
    ASSUME EntryInv, NEW c \in Conns, NEW r \in Relays, NEW k,
           Follows(k, conns[c]), CloseConnection([conns EXCEPT ![c] = k], r)
    PROVE  Calm
<1> DEFINE cs == [conns EXCEPT ![c] = k]
<1>1. EntersNothing
  BY Entries DEF CloseConnection
<1>2. CASE map[r] = NoConn
  BY <1>1, <1>2, TouchIsCalm DEF CloseConnection
<1>3. CASE map[r] # NoConn
  <2>1. map[r] \in Conns /\ conns[map[r]].step \notin {"free", "insert"}
    BY <1>3 DEF EntryInv
  <2>2. cs \in [Conns -> Connection]
    BY DEF EntryInv, Follows
  <2>3. \A x \in Conns : Follows(cs[x], conns[x])
    BY DEF EntryInv, Follows
  <2> HIDE DEF cs
  <2> DEFINE gone == Leaving(cs[map[r]], "closed", "report")
  <2>4. conns' = [cs EXCEPT ![map[r]] = gone]
    BY <1>3 DEF CloseConnection, cs
  <2>5. /\ gone \in Connection
        /\ gone.id = cs[map[r]].id
        /\ gone.step = cs[map[r]].step
        /\ gone.state = "closed"
    BY <2>1, <2>2, LeavingType
  <2> HIDE DEF gone
  <2>6. Follows(gone, conns[map[r]])
    BY <2>1, <2>3, <2>5 DEF Follows
  <2>7. \A x \in Conns : conns'[x] = IF x = map[r] THEN gone ELSE cs[x]
    BY <2>1, <2>2, <2>4
  <2> QED
    BY <1>1, <2>1, <2>2, <2>3, <2>4, <2>5, <2>6, <2>7 DEF Calm
<1> QED
  BY <1>2, <1>3

\* The snapshot of DropConnections and Cleanup is calm.
LEMMA DropIsCalm ==
    ASSUME EntryInv, NEW how \in {"quiet", "report"}, DropAll(how)
    PROVE  Calm
<1>1. EntersNothing
  BY DEF DropAll, EntersNothing
<1>2. ASSUME NEW c \in Conns
      PROVE  Follows(conns'[c], conns[c])
  <2>1. CASE c \in Registered
    <3>1. conns[c].step \notin {"free", "insert"}
      BY <2>1 DEF EntryInv, Registered
    <3>2. conns'[c] = Leaving(conns[c], conns[c].state, how)
      BY <2>1 DEF DropAll
    <3>3. conns[c].state \in {"connecting", "open", "closed", "failed"}
      BY DEF EntryInv, Connection
    <3> QED
      BY <3>1, <3>2, <3>3, LeavingType DEF EntryInv, Follows
  <2>2. CASE c \notin Registered
    BY <2>2 DEF DropAll, EntryInv, Follows
  <2> QED
    BY <2>1, <2>2
<1>3. conns' \in [Conns -> Connection]
  BY <1>2 DEF DropAll, Follows
<1> QED
  BY <1>1, <1>2, <1>3 DEF Calm

\* Every step of a connection but its entry and its opening is calm.
LEMMA ConnIsCalm ==
    ASSUME EntryInv, NEW c \in Conns, ConnStep(c), ~Insert(c), ~OnOpen(c)
    PROVE  Calm
<1> USE DEF EntryInv
<1>1. CASE Connect(c)
  <2> DEFINE k == [conns[c] EXCEPT !.step = "armed", !.pc = "up"]
  <2>1. Follows(k, conns[c])
    BY <1>1 DEF Connect, Follows, Connection
  <2>2. conns' = [conns EXCEPT ![c] = k]
    BY <1>1 DEF Connect
  <2> QED
    BY <1>1, <2>1, <2>2, TouchIsCalm, Entries DEF Connect
<1>2. CASE DialFails(c)
  <2>1. PICK pc \in {"none", "up"} :
          LET cs == [conns EXCEPT ![c].step = "failed", ![c].pc = pc] IN
          IF conns[c].state = "failed"
          THEN conns' = cs /\ UNCHANGED map
          ELSE /\ conns' = [cs EXCEPT ![c] = Leaving(@, "failed", "report")]
               /\ map' = [map EXCEPT ![conns[c].id] = NoConn]
    BY <1>2 DEF DialFails
  <2> DEFINE k == [conns[c] EXCEPT !.step = "failed", !.pc = pc]
             gone == Leaving(k, "failed", "report")
  <2>2. /\ k \in Connection
        /\ k.id = conns[c].id /\ k.step = "failed" /\ k.state = conns[c].state
    <3>1. conns[c] \in Connection
      OBVIOUS
    <3>2. \A o \in Connection : \A p \in {"none", "up"} :
            /\ [o EXCEPT !.step = "failed", !.pc = p] \in Connection
            /\ [o EXCEPT !.step = "failed", !.pc = p].id = o.id
            /\ [o EXCEPT !.step = "failed", !.pc = p].step = "failed"
            /\ [o EXCEPT !.step = "failed", !.pc = p].state = o.state
      BY DEF Connection
    <3> QED
      BY <3>1, <3>2
  <2>3. /\ gone \in Connection
        /\ gone.id = k.id /\ gone.step = k.step /\ gone.state = "failed"
    BY <2>2, LeavingType
  <2>4. \/ conns' = [conns EXCEPT ![c] = k]
        \/ conns' = [conns EXCEPT ![c] = gone]
    BY <2>1
  <2>5. EntersNothing
    BY <2>1, Entries
  <2> HIDE DEF k, gone
  <2>6. Follows(k, conns[c]) /\ Follows(gone, conns[c])
    BY <1>2, <2>2, <2>3 DEF DialFails, Follows
  <2> QED
    BY <2>4, <2>5, <2>6, TouchIsCalm
<1>3. CASE DialTimeout(c) \/ IceFailed(c)
  BY <1>3, FailIsCalm DEF DialTimeout, IceFailed
<1>4. CASE Teardown(c)
  <2> DEFINE k == [conns[c] EXCEPT !.tear = "no", !.torn = TRUE,
                     !.pc = IF conns[c].pc = "up" /\ ~conns[c].torn THEN "down" ELSE @]
  <2>1. k \in Connection /\ k.id = conns[c].id /\ k.step = conns[c].step
          /\ k.state = conns[c].state
    <3>1. conns[c] \in Connection
      OBVIOUS
    <3>2. k \in Connection
      BY <3>1 DEF Connection
    <3> QED
      BY <3>1 DEF Connection
  <2>2. conns' = [conns EXCEPT ![c] = k]
    BY <1>4 DEF Teardown
  <2> HIDE DEF k
  <2>3. Follows(k, conns[c])
    BY <1>4, <2>1 DEF Teardown, Follows, Untouched
  <2> QED
    BY <1>4, <2>2, <2>3, TouchIsCalm, Entries DEF Teardown
<1>5. CASE CloseLoser(c)
  <2> DEFINE k == [conns[c] EXCEPT !.lose = FALSE]
  <2>1. conns[c].step \notin {"free", "insert"}
    BY <1>5 DEF CloseLoser, Untouched
  <2>2. k \in Connection /\ k.id = conns[c].id /\ k.step = conns[c].step
          /\ k.state = conns[c].state
    <3>1. conns[c] \in Connection
      OBVIOUS
    <3> QED
      BY <3>1 DEF Connection
  <2>3. CloseConnection([conns EXCEPT ![c] = k], conns[c].id)
    BY <1>5 DEF CloseLoser
  <2> HIDE DEF k
  <2>4. Follows(k, conns[c]) /\ conns[c].id \in Relays
    BY <2>1, <2>2 DEF Follows
  <2> QED
    BY <2>3, <2>4, CloseIsCalm
<1>6. CASE OnClose(c)
  <2> DEFINE k == [conns[c] EXCEPT !.fired = @ \cup {"close"}]
  <2>1. conns[c].step \notin {"free", "insert"}
    BY <1>6 DEF OnClose, Untouched
  <2>2. k \in Connection /\ k.id = conns[c].id /\ k.step = conns[c].step
          /\ k.state = conns[c].state
    <3>1. conns[c] \in Connection
      OBVIOUS
    <3> QED
      BY <3>1 DEF Connection
  <2>3. CloseConnection([conns EXCEPT ![c] = k], conns[c].id)
    BY <1>6 DEF OnClose
  <2> HIDE DEF k
  <2>4. Follows(k, conns[c]) /\ conns[c].id \in Relays
    BY <2>1, <2>2 DEF Follows
  <2> QED
    BY <2>3, <2>4, CloseIsCalm
<1>7. CASE IceDisconnected(c)
  <2>0. PICK b \in BOOLEAN : conns' = [conns EXCEPT ![c].degraded = b]
    <3>1. conns' = [conns EXCEPT ![c].degraded = (c \in Registered)]
      BY <1>7 DEF IceDisconnected
    <3>2. (c \in Registered) = TRUE \/ (c \in Registered) = FALSE
      OBVIOUS
    <3>3. CASE (c \in Registered) = TRUE
      <4>1. conns' = [conns EXCEPT ![c].degraded = TRUE]
        BY <3>1, <3>3, Zenon
      <4> QED
        BY <4>1
    <3>4. CASE (c \in Registered) = FALSE
      <4>1. conns' = [conns EXCEPT ![c].degraded = FALSE]
        BY <3>1, <3>4, Zenon
      <4> QED
        BY <4>1
    <3> QED
      BY <3>2, <3>3, <3>4
  <2> DEFINE k == [conns[c] EXCEPT !.degraded = b]
  <2>1. conns[c].step \notin {"free", "insert"}
    BY <1>7 DEF IceDisconnected, Untouched
  <2>2. k \in Connection /\ k.id = conns[c].id /\ k.step = conns[c].step
          /\ k.state = conns[c].state
    <3>1. conns[c] \in Connection
      OBVIOUS
    <3> QED
      BY <3>1 DEF Connection
  <2>3. conns' = [conns EXCEPT ![c] = k] /\ UNCHANGED map
    BY <1>7, <2>0 DEF IceDisconnected
  <2> HIDE DEF k
  <2>4. Follows(k, conns[c])
    BY <2>1, <2>2 DEF Follows
  <2> QED
    BY <2>3, <2>4, TouchIsCalm, Entries
<1>8. CASE IceConnected(c)
  <2> DEFINE k == [conns[c] EXCEPT !.degraded = FALSE]
  <2>1. conns[c].step \notin {"free", "insert"}
    BY <1>8 DEF IceConnected, Untouched
  <2>2. k \in Connection /\ k.id = conns[c].id /\ k.step = conns[c].step
          /\ k.state = conns[c].state
    <3>1. conns[c] \in Connection
      OBVIOUS
    <3> QED
      BY <3>1 DEF Connection
  <2>3. conns' = [conns EXCEPT ![c] = k] /\ UNCHANGED map
    BY <1>8 DEF IceConnected
  <2> HIDE DEF k
  <2>4. Follows(k, conns[c])
    BY <2>1, <2>2 DEF Follows
  <2> QED
    BY <2>3, <2>4, TouchIsCalm, Entries
<1> QED
  BY <1>1, <1>2, <1>3, <1>4, <1>5, <1>6, <1>7, <1>8 DEF ConnStep

\* Every step keeps the entries in order, and opens nothing but the connection whose
\* OnOpen found the cap not reached.
LEMMA StepOpens ==
    ASSUME EntryInv, [Next]_vars
    PROVE  /\ EntryInv'
           /\ Open' \subseteq Open \/ \E c \in Conns : MayOpen /\ Open' \subseteq Open \cup {c}
<1> USE ConnsAssumption
<1>1. ASSUME NEW d \in Dialers, ConfigureRelays(d) \/ ConfigureDone(d)
      PROVE  Calm
  BY <1>1 DEF ConfigureRelays, ConfigureDone, EntryInv, Calm, EntersNothing, Follows
<1>2. ASSUME NEW d \in Dialers, NEW r \in Relays, DialNext(d, r)
      PROVE  EntryInv' /\ Open' \subseteq Open
  <2>1. CASE UNCHANGED conns
    <3>1. Calm
      BY <1>2, <2>1 DEF DialNext, EntryInv, Calm, EntersNothing, Follows
    <3> QED
      BY <3>1, CalmStep
  <2>2. CASE ~UNCHANGED conns
    <3> DEFINE k == [NewConn(r) EXCEPT !.step = "insert"]
    <3>1. PICK c \in Conns : conns[c].step = "free" /\ conns' = [conns EXCEPT ![c] = k]
      BY <1>2, <2>2 DEF DialNext
    <3>2. k \in Connection
      BY DEF NewConn, Connection
    <3>3. k.id = r /\ Untouched(k) /\ k.step = "insert"
      BY DEF NewConn, Untouched
    <3> HIDE DEF k
    <3>4. UNCHANGED map
      BY <1>2 DEF DialNext
    <3>5. \A x \in Conns : conns'[x] = IF x = c THEN k ELSE conns[x]
      BY <3>1 DEF EntryInv
    <3>6. c \notin Registered
      BY <3>1 DEF EntryInv, Registered
    <3>7. EntryInv'
      BY <3>1, <3>2, <3>3, <3>4, <3>5, <3>6 DEF EntryInv, Registered
    <3>8. Open' \subseteq Open
      BY <3>4, <3>5, <3>6, RegisteredFinite DEF Open, Registered, EntryInv
    <3> QED
      BY <3>7, <3>8
  <2> QED
    BY <2>1, <2>2
<1>3. ASSUME NEW c \in Conns, Insert(c)
      PROVE  EntryInv' /\ Open' \subseteq Open
  <2> DEFINE k == [conns[c] EXCEPT !.step = "new"]
  <2>1. conns[c] \in Connection /\ conns[c].id \in Relays /\ Untouched(conns[c])
    BY <1>3 DEF Insert, EntryInv
  <2>2. /\ k \in Connection
        /\ k.id = conns[c].id /\ k.step = "new" /\ k.state = "connecting"
    BY <2>1 DEF Connection, Untouched
  <2>3. conns' = [conns EXCEPT ![c] = k] /\ map' = [map EXCEPT ![conns[c].id] = c]
    BY <1>3 DEF Insert
  <2> HIDE DEF k
  <2>4. \A x \in Conns : conns'[x] = IF x = c THEN k ELSE conns[x]
    BY <2>3 DEF EntryInv
  <2>5. \A r \in Relays : map'[r] = IF r = conns[c].id THEN c ELSE map[r]
    BY <2>3 DEF EntryInv
  <2>6. conns' \in [Conns -> Connection] /\ map' \in [Relays -> Conns \cup {NoConn}]
    BY <2>1, <2>2, <2>3 DEF EntryInv
  <2>7. EntryInv'
    BY <2>1, <2>2, <2>4, <2>5, <2>6 DEF EntryInv
  <2>8. Registered' \subseteq Registered \cup {c} /\ Registered \subseteq Conns
    BY <2>5, RegisteredFinite DEF Registered, EntryInv
  <2>9. Open' \subseteq Open
    BY <2>2, <2>4, <2>8 DEF Open
  <2> QED
    BY <2>7, <2>9
<1>4. ASSUME NEW c \in Conns, OnOpen(c)
      PROVE  EntryInv' /\ (Open' \subseteq Open \/ (MayOpen /\ Open' \subseteq Open \cup {c}))
  <2> DEFINE opened == [conns[c] EXCEPT !.fired = @ \cup {"open"}, !.state = "open"]
             lost   == [conns[c] EXCEPT !.fired = @ \cup {"open"}, !.lose = TRUE]
  <2>1. conns[c] \in Connection /\ conns[c].step = "armed"
    BY <1>4 DEF OnOpen, EntryInv
  <2>2. opened \in Connection /\ opened.id = conns[c].id /\ opened.step = conns[c].step
    BY <2>1 DEF Connection
  <2>3. /\ lost \in Connection
        /\ lost.id = conns[c].id /\ lost.step = conns[c].step /\ lost.state = conns[c].state
    BY <2>1 DEF Connection
  <2>4. \/ MayOpen /\ conns' = [conns EXCEPT ![c] = opened]
        \/ conns' = [conns EXCEPT ![c] = lost]
    BY <1>4 DEF OnOpen
  <2>5. UNCHANGED map
    BY <1>4 DEF OnOpen
  <2> HIDE DEF opened, lost
  <2>6. CASE conns' = [conns EXCEPT ![c] = lost]
    <3>1. Follows(lost, conns[c])
      BY <2>1, <2>3 DEF Follows
    <3>2. Calm
      BY <2>5, <2>6, <3>1, TouchIsCalm, Entries
    <3> QED
      BY <3>2, CalmStep
  <2>7. CASE MayOpen /\ conns' = [conns EXCEPT ![c] = opened]
    <3>1. \A x \in Conns : conns'[x] = IF x = c THEN opened ELSE conns[x]
      BY <2>7 DEF EntryInv
    <3>2. EntryInv'
      BY <2>1, <2>2, <2>5, <2>7, <3>1 DEF EntryInv
    <3>3. Registered' = Registered /\ Registered \subseteq Conns
      BY <2>5, RegisteredFinite DEF Registered, EntryInv
    <3>4. Open' \subseteq Open \cup {c}
      BY <3>1, <3>3 DEF Open
    <3> QED
      BY <2>7, <3>2, <3>4
  <2> QED
    BY <2>4, <2>6, <2>7
<1>5. CASE DropConnections \/ Cleanup
  BY <1>5, DropIsCalm, CalmStep DEF DropConnections, Cleanup
<1>6. CASE RecomputeHealth \/ UNCHANGED vars
  <2>1. Calm
    BY <1>6 DEF RecomputeHealth, vars, EntryInv, Calm, EntersNothing, Follows
  <2> QED
    BY <2>1, CalmStep
<1>7. ASSUME NEW c \in Conns, ConnStep(c), ~Insert(c), ~OnOpen(c)
      PROVE  EntryInv' /\ Open' \subseteq Open
  BY <1>7, ConnIsCalm, CalmStep
<1> QED
  BY <1>1, <1>2, <1>3, <1>4, <1>5, <1>6, <1>7, CalmStep DEF Next, Dialer

\* Media never goes out over more than MaxOpenRelays relays: whatever order the data
\* channels open in, while connections fail, are dropped and are dialed again by
\* any number of goroutines, countOpenLocked's test keeps the cap.
THEOREM OpenCapHolds == Spec => []OpenCap
<1>1. Init => EntryInv /\ OpenCap
  <2> SUFFICES ASSUME Init PROVE OpenCap
    BY EntryInit
  <2>1. Open = {}
    BY DEF Init, Open, Registered
  <2>2. Cardinality(Open) = 0
    BY <2>1, FS_EmptySet
  <2> QED
    BY <2>2, LimitsAssumption DEF OpenCap
<1>2. EntryInv /\ OpenCap /\ [Next]_vars => EntryInv' /\ OpenCap'
  <2> SUFFICES ASSUME EntryInv, OpenCap, [Next]_vars PROVE EntryInv' /\ OpenCap'
    OBVIOUS
  <2>1. EntryInv'
    BY StepOpens
  <2>2. IsFiniteSet(Open) /\ Cardinality(Open) \in Nat
    BY RegisteredFinite, FS_CardinalityType DEF EntryInv
  <2>3. CASE Open' \subseteq Open
    <3>1. Cardinality(Open') \in Nat /\ Cardinality(Open') <= Cardinality(Open)
      BY <2>2, <2>3, FS_Subset, FS_CardinalityType
    <3> QED
      BY <2>1, <2>2, <3>1, LimitsAssumption DEF OpenCap
  <2>4. ASSUME NEW c \in Conns, MayOpen, Open' \subseteq Open \cup {c} PROVE OpenCap'
    <3>1. /\ IsFiniteSet(Open \cup {c})
          /\ Cardinality(Open \cup {c}) \in Nat
          /\ Cardinality(Open \cup {c}) <= Cardinality(Open) + 1
      <4>1. CASE c \in Open
        <5>1. Open \cup {c} = Open
          BY <4>1
        <5>2. IsFiniteSet(Open \cup {c}) /\ Cardinality(Open \cup {c}) = Cardinality(Open)
          BY <2>2, <5>1, Zenon
        <5> QED
          BY <2>2, <5>2
      <4>2. CASE c \notin Open
        <5>1. /\ IsFiniteSet(Open \cup {c})
              /\ Cardinality(Open \cup {c}) = Cardinality(Open) + 1
          BY <2>2, <4>2, FS_AddElement
        <5> QED
          BY <2>2, <5>1
      <4> QED
        BY <4>1, <4>2
    <3>2. Cardinality(Open') \in Nat /\ Cardinality(Open') <= Cardinality(Open \cup {c})
      BY <2>4, <3>1, FS_Subset, FS_CardinalityType
    <3>3. Cardinality(Open) < MaxOpenRelays
      BY <2>4 DEF MayOpen
    <3> QED
      BY <2>2, <3>1, <3>2, <3>3, LimitsAssumption DEF OpenCap
  <2> QED
    BY <2>1, <2>3, <2>4, StepOpens
<1> QED
  BY <1>1, <1>2, PTL DEF Spec

-----------------------------------------------------------------------------
(* The count of usable relays.                                             *)

\* Redials do not overlap: one goroutine at a time is inside ConfigureRelays.
OneDialer == \A d, e \in Dialers : d = e

CfgType ==
    cfg \in [Dialers -> [on : BOOLEAN, todo : SUBSET Relays, dialed : Nat,
                        mine : SUBSET Conns]]

\* A connection in m.connections is there under its id, and nobody is about to tear it
\* down.
RegInv ==
    \A r \in Relays : map[r] # NoConn => conns[map[r]].id = r /\ conns[map[r]].tear = "no"

\* A connection that is about to be entered overwrites none: its relay has no entry, no
\* other goroutine is about to enter that relay, and the dialer that waits for it is
\* done with the relay.
DialInv ==
    \A c \in Conns : conns[c].step = "insert" =>
        /\ map[conns[c].id] = NoConn
        /\ \A x \in Conns : conns[x].step = "insert" /\ conns[x].id = conns[c].id => x = c
        /\ \E d \in Dialers : c \in cfg[d].mine /\ cfg[d].on /\ conns[c].id \notin cfg[d].todo

HealthInv == EntryInv /\ CfgType /\ RegInv /\ DialInv /\ HealthSettled

\* A goroutine is on its way to recomputeHealth.
Pending == report \/ \E c \in Conns : conns[c].tear = "report"

\* A connection after a step that matters neither to the count nor to the entries.
Silent(k, old) ==
    /\ k.id = old.id /\ k.state = old.state /\ k.degraded = old.degraded
    /\ k.step = "insert" => old.step = "insert"
    /\ k.tear = "report" <=> old.tear = "report"
    /\ old.tear = "no" => k.tear = "no"

\* A step that takes entries out, or none, and leaves only connections that nobody is
\* about to tear down.
KeepsEntries ==
    /\ EntersNothing /\ UNCHANGED cfg
    /\ \A c \in Conns : /\ conns'[c].id = conns[c].id
                        /\ conns'[c].step = "insert" => conns[c].step = "insert"
    /\ \A r \in Relays : map'[r] # NoConn => conns'[map[r]].tear = "no"

LEMMA EntriesKept ==
    ASSUME HealthInv, KeepsEntries
    PROVE  CfgType' /\ RegInv' /\ DialInv'
<1>1. CfgType'
  BY DEF HealthInv, CfgType, KeepsEntries
<1>2. RegInv'
  BY DEF HealthInv, RegInv, KeepsEntries, EntersNothing, EntryInv
<1>3. ASSUME NEW c \in Conns, conns'[c].step = "insert"
      PROVE  map'[conns'[c].id] = NoConn
  <2>1. conns[c].step = "insert" /\ conns'[c].id = conns[c].id /\ conns[c].id \in Relays
    BY <1>3 DEF HealthInv, KeepsEntries, EntryInv
  <2> QED
    BY <2>1 DEF HealthInv, DialInv, KeepsEntries, EntersNothing
<1>4. DialInv'
  BY <1>3 DEF HealthInv, DialInv, KeepsEntries
<1> QED
  BY <1>1, <1>2, <1>4

\* A silent step of one connection keeps the entries and the count.
LEMMA SilentStep ==
    ASSUME HealthInv, NEW c \in Conns, NEW k, Silent(k, conns[c]),
           conns' = [conns EXCEPT ![c] = k], UNCHANGED <<map, lastUsable, cfg, report>>
    PROVE  CfgType' /\ RegInv' /\ DialInv' /\ HealthSettled'
<1>1. \A x \in Conns : conns'[x] = IF x = c THEN k ELSE conns[x]
  BY DEF HealthInv, EntryInv
<1>2. \A x \in Conns : Silent(conns'[x], conns[x])
  BY <1>1 DEF Silent
<1>3. EntersNothing
  BY Entries DEF HealthInv
<1>4. KeepsEntries
  <2>1. \A r \in Relays : map[r] # NoConn => map[r] \in Conns
    BY DEF HealthInv, EntryInv
  <2> QED
    BY <1>2, <1>3, <2>1 DEF KeepsEntries, Silent, HealthInv, RegInv
<1>5. Registered' = Registered /\ Registered \subseteq Conns
  BY RegisteredFinite DEF Registered, HealthInv, EntryInv
<1>6. Usable' = Usable
  BY <1>2, <1>5 DEF Usable, Open, Silent
<1>7. (\A x \in Conns : conns'[x].tear # "report") => \A x \in Conns : conns[x].tear # "report"
  BY <1>2 DEF Silent
<1>8. HealthSettled'
  BY <1>6, <1>7 DEF HealthInv, HealthSettled
<1> QED
  BY <1>4, <1>8, EntriesKept

\* A step after which somebody is on his way to recomputeHealth.
LEMMA ReportingStep ==
    ASSUME HealthInv, KeepsEntries, Pending'
    PROVE  CfgType' /\ RegInv' /\ DialInv' /\ HealthSettled'
BY EntriesKept DEF Pending, HealthSettled

\* failConnection and closeConnection take out the connection they mark.
LEMMA LeavingKeeps ==
    ASSUME HealthInv, NEW c \in Conns, NEW r \in Relays, NEW k \in Connection,
           NEW state \in {"closed", "failed"},
           k.id = conns[c].id, k.step = "insert" => conns[c].step = "insert",
           conns' = [conns EXCEPT ![c] = Leaving(k, state, "report")],
           map' = [map EXCEPT ![r] = NoConn], conns[c].id = r, UNCHANGED cfg
    PROVE  KeepsEntries /\ Pending'
<1> DEFINE gone == Leaving(k, state, "report")
<1>1. gone.id = k.id /\ gone.step = k.step /\ gone.tear = "report"
  BY LeavingType
<1> HIDE DEF gone
<1>2. \A x \in Conns : conns'[x] = IF x = c THEN gone ELSE conns[x]
  BY DEF HealthInv, EntryInv, gone
<1>3. EntersNothing
  BY Entries DEF HealthInv
<1>4. \A q \in Relays : map'[q] = IF q = r THEN NoConn ELSE map[q]
  BY DEF HealthInv, EntryInv
<1>5. \A q \in Relays : map'[q] # NoConn => conns'[map[q]].tear = "no"
  <2> SUFFICES ASSUME NEW q \in Relays, map'[q] # NoConn PROVE conns'[map[q]].tear = "no"
    OBVIOUS
  <2>1. map[q] # NoConn /\ q # r
    BY <1>4
  <2>2. map[q] \in Conns /\ conns[map[q]].id = q /\ conns[map[q]].tear = "no"
    BY <2>1 DEF HealthInv, RegInv, EntryInv
  <2>3. map[q] # c
    BY <2>1, <2>2
  <2> QED
    BY <1>2, <2>2, <2>3
<1>6. KeepsEntries
  BY <1>1, <1>2, <1>3, <1>5 DEF KeepsEntries
<1>7. conns'[c].tear = "report"
  BY <1>1, <1>2
<1> QED
  BY <1>6, <1>7 DEF Pending

LEMMA FailKeeps ==
    ASSUME HealthInv, NEW c \in Conns, conns[c].step = "armed", FailConnection(c),
           UNCHANGED <<lastUsable, cfg, report>>
    PROVE  CfgType' /\ RegInv' /\ DialInv' /\ HealthSettled'
<1>1. conns[c] \in Connection /\ conns[c].id \in Relays
  BY DEF HealthInv, EntryInv
<1>2. CASE conns[c].state = "failed"
  <2>1. conns' = [conns EXCEPT ![c] = conns[c]] /\ UNCHANGED map
    BY <1>2 DEF FailConnection, HealthInv, EntryInv
  <2>2. Silent(conns[c], conns[c])
    BY DEF Silent
  <2> QED
    BY <2>1, <2>2, SilentStep
<1>3. CASE conns[c].state # "failed"
  <2>1. KeepsEntries /\ Pending'
    <3>1. conns' = [conns EXCEPT ![c] = Leaving(conns[c], "failed", "report")]
      BY <1>3 DEF FailConnection
    <3>2. map' = [map EXCEPT ![conns[c].id] = NoConn]
      BY <1>3 DEF FailConnection
    <3> QED
      BY <1>1, <3>1, <3>2, LeavingKeeps
  <2> QED
    BY <2>1, ReportingStep
<1> QED
  BY <1>2, <1>3

\* closeConnection closes who holds the id, after its caller has changed c.
LEMMA CloseKeeps ==
    ASSUME HealthInv, NEW c \in Conns, NEW k \in Connection, Silent(k, conns[c]),
           conns[c].id \in Relays,
           CloseConnection([conns EXCEPT ![c] = k], conns[c].id),
           UNCHANGED <<lastUsable, cfg, report>>
    PROVE  CfgType' /\ RegInv' /\ DialInv' /\ HealthSettled'
<1> DEFINE rel == conns[c].id
           cs == [conns EXCEPT ![c] = k]
<1>1. CASE map[rel] = NoConn
  BY <1>1, SilentStep DEF CloseConnection
<1>2. CASE map[rel] # NoConn
  <2>1. /\ map[rel] \in Conns /\ conns[map[rel]].id = rel
        /\ \A q \in Relays : map[q] # NoConn => map[q] \in Conns
    BY <1>2 DEF HealthInv, RegInv, EntryInv
  <2>2. cs \in [Conns -> Connection] /\ \A x \in Conns : Silent(cs[x], conns[x])
    BY DEF HealthInv, EntryInv, Silent
  <2> DEFINE gone == Leaving(cs[map[rel]], "closed", "report")
  <2>3. conns' = [cs EXCEPT ![map[rel]] = gone] /\ map' = [map EXCEPT ![rel] = NoConn]
    BY <1>2 DEF CloseConnection
  <2> HIDE DEF cs
  <2>4. gone.id = cs[map[rel]].id /\ gone.step = cs[map[rel]].step /\ gone.tear = "report"
    BY <2>1, <2>2, LeavingType
  <2> HIDE DEF gone
  <2>5. \A x \in Conns : conns'[x] = IF x = map[rel] THEN gone ELSE cs[x]
    BY <2>1, <2>2, <2>3
  <2>6. \A q \in Relays : map'[q] = IF q = rel THEN NoConn ELSE map[q]
    BY <2>3 DEF HealthInv, EntryInv
  <2>7. EntersNothing
    BY <2>3, Entries DEF HealthInv
  <2>8. ASSUME NEW q \in Relays, map'[q] # NoConn PROVE conns'[map[q]].tear = "no"
    <3>1. q # rel /\ map[q] # NoConn
      BY <2>6, <2>8
    <3>2. map[q] \in Conns /\ conns[map[q]].id = q /\ conns[map[q]].tear = "no"
      BY <3>1, <2>1 DEF HealthInv, RegInv
    <3>3. map[q] # map[rel]
      BY <2>1, <3>1, <3>2
    <3> QED
      BY <2>2, <2>5, <3>2, <3>3 DEF Silent
  <2>9. \A x \in Conns :
          conns'[x].id = conns[x].id /\ (conns'[x].step = "insert" => conns[x].step = "insert")
    BY <2>1, <2>2, <2>4, <2>5 DEF Silent
  <2>10. KeepsEntries
    <3>1. UNCHANGED cfg
      OBVIOUS
    <3> QED
      BY <2>7, <2>8, <2>9, <3>1 DEF KeepsEntries
  <2>11. Pending'
    BY <2>1, <2>4, <2>5 DEF Pending
  <2> QED
    BY <2>10, <2>11, ReportingStep
<1> QED
  BY <1>1, <1>2

\* A step that leaves m.connections alone and may change whether a connection counts.
LEMMA CountKeeps ==
    ASSUME HealthInv, NEW c \in Conns, NEW k, k.id = conns[c].id, k.step = conns[c].step,
           conns[c].tear = "no" => k.tear = "no",
           conns' = [conns EXCEPT ![c] = k], report' = TRUE, UNCHANGED <<map, cfg>>
    PROVE  CfgType' /\ RegInv' /\ DialInv' /\ HealthSettled'
<1>1. \A x \in Conns : conns'[x] = IF x = c THEN k ELSE conns[x]
  BY DEF HealthInv, EntryInv
<1>2. EntersNothing
  BY Entries DEF HealthInv
<1>3. \A q \in Relays : map[q] # NoConn => map[q] \in Conns /\ conns[map[q]].tear = "no"
  BY DEF HealthInv, RegInv, EntryInv
<1>4. KeepsEntries
  BY <1>1, <1>2, <1>3 DEF KeepsEntries
<1> QED
  BY <1>4, ReportingStep DEF Pending

\* The dialer's own steps.  Two goroutines could choose the same relay; one does not.
LEMMA DialerKeeps ==
    ASSUME HealthInv, OneDialer, NEW d \in Dialers, Dialer(d)
    PROVE  CfgType' /\ RegInv' /\ DialInv' /\ HealthSettled'
<1> USE DEF HealthInv
<1>1. cfg[d] \in [on : BOOLEAN, todo : SUBSET Relays, dialed : Nat, mine : SUBSET Conns]
  BY DEF CfgType
<1>2. CASE ConfigureRelays(d)
  <2>1. PICK todo \in SUBSET Relays :
          cfg' = [cfg EXCEPT ![d] = [on |-> TRUE, todo |-> todo,
                                     dialed |-> Cardinality(Registered), mine |-> {}]]
    BY <1>2 DEF ConfigureRelays
  <2>2. UNCHANGED <<conns, map, lastUsable, report>> /\ ~cfg[d].on
    BY <1>2 DEF ConfigureRelays
  <2>3. Cardinality(Registered) \in Nat
    BY RegisteredFinite, FS_CardinalityType DEF EntryInv
  <2>4. CfgType'
    BY <2>1, <2>3 DEF CfgType
  <2>5. RegInv' /\ HealthSettled'
    BY <2>2 DEF RegInv, HealthSettled, Usable, Open, Registered
  <2>6. \A c \in Conns : conns[c].step # "insert"
    BY <2>2 DEF DialInv, OneDialer
  <2> QED
    BY <2>2, <2>4, <2>5, <2>6 DEF DialInv
<1>3. CASE ConfigureDone(d)
  <2>1. UNCHANGED <<conns, map, lastUsable, report>> /\ cfg' = [cfg EXCEPT ![d] = NotDialing]
    BY <1>3 DEF ConfigureDone
  <2>2. CfgType'
    BY <2>1 DEF CfgType, NotDialing
  <2>3. RegInv' /\ HealthSettled'
    BY <2>1 DEF RegInv, HealthSettled, Usable, Open, Registered
  <2>4. \A c \in Conns : conns[c].step # "insert"
    <3>1. \A c \in cfg[d].mine : conns[c].step # "insert"
      BY <1>3 DEF ConfigureDone
    <3> QED
      BY <3>1 DEF DialInv, OneDialer
  <2> QED
    BY <2>1, <2>2, <2>3, <2>4 DEF DialInv
<1>4. ASSUME NEW r \in Relays, DialNext(d, r)
      PROVE  CfgType' /\ RegInv' /\ DialInv' /\ HealthSettled'
  <2>1. /\ UNCHANGED <<map, lastUsable, report>> /\ cfg[d].on /\ r \in cfg[d].todo
    BY <1>4 DEF DialNext
  <2>2. CASE map[r] # NoConn
    <3> DEFINE g == [cfg[d] EXCEPT !.todo = @ \ {r}]
    <3>1. cfg' = [cfg EXCEPT ![d] = g] /\ UNCHANGED conns
      BY <1>4, <2>2 DEF DialNext
    <3>2. /\ g \in [on : BOOLEAN, todo : SUBSET Relays, dialed : Nat, mine : SUBSET Conns]
          /\ g.on = cfg[d].on /\ g.mine = cfg[d].mine /\ g.todo \subseteq cfg[d].todo
      BY <1>1
    <3> HIDE DEF g
    <3>3. CfgType'
      BY <3>1, <3>2 DEF CfgType
    <3>4. \A e \in Dialers : /\ cfg'[e].mine = cfg[e].mine /\ cfg'[e].on = cfg[e].on
                            /\ cfg'[e].todo \subseteq cfg[e].todo
      BY <3>1, <3>2 DEF CfgType
    <3>5. RegInv' /\ HealthSettled'
      BY <2>1, <3>1 DEF RegInv, HealthSettled, Usable, Open, Registered
    <3>6. DialInv'
      BY <2>1, <3>1, <3>4 DEF DialInv
    <3> QED
      BY <3>3, <3>5, <3>6
  <2>3. CASE map[r] = NoConn
    <3> DEFINE k == [NewConn(r) EXCEPT !.step = "insert"]
    <3>1. PICK c \in Conns :
            /\ conns[c].step = "free" /\ conns' = [conns EXCEPT ![c] = k]
            /\ cfg' = [cfg EXCEPT ![d] = [on |-> TRUE, todo |-> cfg[d].todo \ {r},
                                          dialed |-> cfg[d].dialed + 1,
                                          mine |-> cfg[d].mine \cup {c}]]
      BY <1>4, <2>3 DEF DialNext
    <3> DEFINE g == [on |-> TRUE, todo |-> cfg[d].todo \ {r}, dialed |-> cfg[d].dialed + 1,
                     mine |-> cfg[d].mine \cup {c}]
    <3>2. k.id = r /\ k.step = "insert" /\ k.tear = "no"
      BY DEF NewConn
    <3>3. /\ g \in [on : BOOLEAN, todo : SUBSET Relays, dialed : Nat, mine : SUBSET Conns]
          /\ g.on = TRUE /\ g.mine = cfg[d].mine \cup {c} /\ g.todo = cfg[d].todo \ {r}
      BY <1>1
    <3>4. cfg' = [cfg EXCEPT ![d] = g]
      BY <3>1
    <3> HIDE DEF k, g
    <3>5. \A x \in Conns : conns'[x] = IF x = c THEN k ELSE conns[x]
      BY <3>1 DEF EntryInv
    <3>6. \A e \in Dialers : e = d /\ cfg'[e] = g
      BY <3>4 DEF CfgType, OneDialer
    <3>7. CfgType'
      BY <3>3, <3>4 DEF CfgType
    <3>8. \A q \in Relays : map[q] # NoConn => map[q] \in Conns /\ map[q] # c
      BY <3>1 DEF EntryInv
    <3>9. RegInv'
      BY <2>1, <3>5, <3>8 DEF RegInv
    <3>10. \A x \in Conns : conns[x].step = "insert" =>
             /\ map[conns[x].id] = NoConn /\ x \in cfg[d].mine /\ conns[x].id \notin cfg[d].todo
             /\ conns[x].id # r
      BY <2>1 DEF DialInv, OneDialer
    <3>11. DialInv'
      <4> SUFFICES ASSUME NEW x \in Conns, conns'[x].step = "insert"
                   PROVE  /\ map'[conns'[x].id] = NoConn
                          /\ \A y \in Conns :
                                conns'[y].step = "insert" /\ conns'[y].id = conns'[x].id => y = x
                          /\ x \in cfg'[d].mine /\ cfg'[d].on /\ conns'[x].id \notin cfg'[d].todo
        BY DEF DialInv
      <4>1. cfg'[d] = g
        BY <3>6
      <4>2. CASE x = c
        BY <2>1, <2>3, <3>2, <3>3, <3>5, <3>10, <4>1, <4>2
      <4>3. CASE x # c
        <5>1. conns'[x] = conns[x] /\ conns[x].step = "insert"
          BY <3>5, <4>3
        <5>2. \A y \in Conns :
                conns'[y].step = "insert" /\ conns'[y].id = conns'[x].id => y = x
          BY <3>2, <3>5, <3>10, <5>1 DEF DialInv
        <5> QED
          BY <2>1, <3>3, <3>10, <4>1, <5>1, <5>2
      <4> QED
        BY <4>2, <4>3
    <3>12. HealthSettled'
      <4>1. c \notin Registered /\ Registered' = Registered /\ Registered \subseteq Conns
        BY <2>1, <3>8, RegisteredFinite DEF Registered, EntryInv
      <4>2. Usable' = Usable
        BY <3>5, <4>1 DEF Usable, Open
      <4>3. conns[c].tear # "report"
        BY <3>1 DEF EntryInv, Untouched
      <4> QED
        BY <2>1, <3>5, <4>2, <4>3 DEF HealthSettled
    <3> QED
      BY <3>7, <3>9, <3>11, <3>12
  <2> QED
    BY <2>2, <2>3
<1> QED
  BY <1>2, <1>3, <1>4 DEF Dialer

\* A connection is entered where there is no entry, and it is not open.
LEMMA InsertKeeps ==
    ASSUME HealthInv, NEW c \in Conns, Insert(c)
    PROVE  CfgType' /\ RegInv' /\ DialInv' /\ HealthSettled'
<1> USE DEF HealthInv
<1> DEFINE k == [conns[c] EXCEPT !.step = "new"]
           rel == conns[c].id
<1>1. /\ conns[c] \in Connection /\ rel \in Relays /\ Untouched(conns[c])
      /\ conns[c].step = "insert"
  BY DEF Insert, EntryInv
<1>2. /\ k.id = rel /\ k.step = "new" /\ k.state = "connecting" /\ k.tear = "no"
  BY <1>1 DEF Connection, Untouched
<1>3. /\ conns' = [conns EXCEPT ![c] = k] /\ map' = [map EXCEPT ![rel] = c]
      /\ UNCHANGED <<lastUsable, cfg, report>>
  BY DEF Insert
<1> HIDE DEF k
<1>4. \A x \in Conns : conns'[x] = IF x = c THEN k ELSE conns[x]
  BY <1>3 DEF EntryInv
<1>5. \A q \in Relays : map'[q] = IF q = rel THEN c ELSE map[q]
  BY <1>3 DEF EntryInv
<1>6. map[rel] = NoConn
  BY <1>1 DEF DialInv
<1>7. CfgType'
  BY <1>3 DEF CfgType
<1>8. \A q \in Relays : map[q] # NoConn => map[q] \in Conns /\ map[q] # c
  BY <1>1 DEF EntryInv
<1>9. RegInv'
  BY <1>1, <1>2, <1>4, <1>5, <1>8 DEF RegInv
<1>10. DialInv'
  <2>1. \A x \in Conns : conns'[x].step = "insert" =>
          x # c /\ conns'[x] = conns[x] /\ conns[x].step = "insert" /\ conns[x].id # rel
                /\ conns[x].id \in Relays
    BY <1>1, <1>2, <1>4 DEF DialInv, EntryInv
  <2> QED
    BY <1>3, <1>5, <2>1 DEF DialInv
<1>11. HealthSettled'
  <2>1. Registered \subseteq Conns /\ Registered' = Registered \cup {c}
    BY <1>1, <1>5, <1>6, <1>8, RegisteredFinite, ConnsAssumption DEF Registered, EntryInv
  <2>2. Usable' = Usable
    BY <1>1, <1>2, <1>4, <2>1 DEF Usable, Open, Untouched
  <2>3. conns[c].tear # "report"
    BY <1>1 DEF Untouched
  <2> QED
    BY <1>3, <1>4, <2>2, <2>3 DEF HealthSettled
<1> QED
  BY <1>7, <1>9, <1>10, <1>11

\* The rest of a connection's life: every change of what counts is followed by a report.
LEMMA ConnKeeps ==
    ASSUME HealthInv, NEW c \in Conns, ConnStep(c)
    PROVE  CfgType' /\ RegInv' /\ DialInv' /\ HealthSettled'
<1> DEFINE o == conns[c]
           Goal == CfgType' /\ RegInv' /\ DialInv' /\ HealthSettled'
<1>1. o \in Connection /\ (o.step # "free" => o.id \in Relays)
  BY DEF HealthInv, EntryInv
<1>2. o.step \in {"free", "insert"} => Untouched(o)
  BY DEF HealthInv, EntryInv
<1> HIDE DEF Goal
<1>3. CASE Connect(c)
  <2> DEFINE k == [o EXCEPT !.step = "armed", !.pc = "up"]
  <2>1. Silent(k, o)
    BY <1>1 DEF Silent, Connection
  <2>2. conns' = [conns EXCEPT ![c] = k] /\ UNCHANGED <<map, lastUsable, cfg, report>>
    BY <1>3 DEF Connect
  <2> HIDE DEF k
  <2> QED
    BY <2>1, <2>2, SilentStep DEF Goal
<1>4. CASE DialFails(c)
  <2>1. PICK pc \in {"none", "up"} :
          LET cs == [conns EXCEPT ![c].step = "failed", ![c].pc = pc] IN
          IF conns[c].state = "failed"
          THEN conns' = cs /\ UNCHANGED map
          ELSE /\ conns' = [cs EXCEPT ![c] = Leaving(@, "failed", "report")]
               /\ map' = [map EXCEPT ![conns[c].id] = NoConn]
    BY <1>4 DEF DialFails
  <2> DEFINE k == [o EXCEPT !.step = "failed", !.pc = pc]
  <2>2. k \in Connection /\ Silent(k, o) /\ k.step = "failed"
    <3>1. \A x \in Connection : \A p \in {"none", "up"} :
            /\ [x EXCEPT !.step = "failed", !.pc = p] \in Connection
            /\ Silent([x EXCEPT !.step = "failed", !.pc = p], x)
            /\ [x EXCEPT !.step = "failed", !.pc = p].step = "failed"
      BY DEF Connection, Silent
    <3> QED
      BY <1>1, <3>1
  <2>3. UNCHANGED <<lastUsable, cfg, report>> /\ o.id \in Relays
    BY <1>1, <1>4 DEF DialFails
  <2>4. CASE o.state = "failed"
    <3>1. conns' = [conns EXCEPT ![c] = k] /\ UNCHANGED map
      BY <2>1, <2>4
    <3> HIDE DEF k
    <3> QED
      BY <2>2, <2>3, <3>1, SilentStep DEF Goal
  <2>5. CASE o.state # "failed"
    <3>1. /\ conns' = [conns EXCEPT ![c] = Leaving(k, "failed", "report")]
          /\ map' = [map EXCEPT ![o.id] = NoConn]
      BY <2>1, <2>5
    <3>2. k.id = o.id /\ (k.step = "insert" => o.step = "insert")
      BY <2>2 DEF Silent
    <3> HIDE DEF k
    <3>3. KeepsEntries /\ Pending'
      BY <2>2, <2>3, <3>1, <3>2, LeavingKeeps
    <3> QED
      BY <3>3, ReportingStep DEF Goal
  <2> QED
    BY <2>4, <2>5
<1>5. CASE DialTimeout(c) \/ IceFailed(c)
  BY <1>5, FailKeeps DEF DialTimeout, IceFailed, Goal
<1>6. CASE Teardown(c)
  <2> DEFINE k == [o EXCEPT !.tear = "no", !.torn = TRUE,
                     !.pc = IF o.pc = "up" /\ ~o.torn THEN "down" ELSE @]
  <2>1. /\ k.id = o.id /\ k.step = o.step /\ k.tear = "no"
        /\ k.state = o.state /\ k.degraded = o.degraded
    BY <1>1 DEF Connection
  <2>2. conns' = [conns EXCEPT ![c] = k] /\ UNCHANGED <<map, lastUsable, cfg>>
    BY <1>6 DEF Teardown
  <2> HIDE DEF k
  <2>3. CASE o.tear = "report"
    <3>1. report' = TRUE
      BY <1>6, <2>3 DEF Teardown
    <3> QED
      BY <2>1, <2>2, <3>1, CountKeeps DEF Goal
  <2>4. CASE o.tear # "report"
    <3>1. report' = (report \/ FALSE)
      BY <1>6, <2>4, Zenon DEF Teardown
    <3>2. HealthSettled'
      <4>1. \A x \in Conns : conns'[x] = IF x = c THEN k ELSE conns[x]
        BY <2>2 DEF HealthInv, EntryInv
      <4>2. Registered' = Registered /\ Registered \subseteq Conns
        BY <2>2, RegisteredFinite DEF Registered, HealthInv, EntryInv
      <4>3. Usable' = Usable
        BY <2>1, <4>1, <4>2 DEF Usable, Open
      <4>4. ~report' => ~report
        BY <3>1
      <4>5. (\A x \in Conns : conns'[x].tear # "report")
              => \A x \in Conns : conns[x].tear # "report"
        BY <2>4, <4>1
      <4> QED
        BY <2>2, <4>3, <4>4, <4>5 DEF HealthInv, HealthSettled
    <3>3. KeepsEntries
      <4>1. \A x \in Conns : conns'[x] = IF x = c THEN k ELSE conns[x]
        BY <2>2 DEF HealthInv, EntryInv
      <4>2. EntersNothing
        BY <2>2, Entries DEF HealthInv
      <4>3. \A q \in Relays : map[q] # NoConn => map[q] \in Conns /\ conns[map[q]].tear = "no"
        BY DEF HealthInv, RegInv, EntryInv
      <4> QED
        BY <2>1, <2>2, <4>1, <4>2, <4>3 DEF KeepsEntries
    <3> QED
      BY <3>2, <3>3, EntriesKept DEF Goal
  <2> QED
    BY <2>3, <2>4
<1>7. CASE OnOpen(c)
  <2> DEFINE opened == [o EXCEPT !.fired = @ \cup {"open"}, !.state = "open"]
             lost   == [o EXCEPT !.fired = @ \cup {"open"}, !.lose = TRUE]
  <2>1. opened.id = o.id /\ opened.step = o.step /\ opened.tear = o.tear
    BY <1>1 DEF Connection
  <2>2. Silent(lost, o)
    BY <1>1 DEF Connection, Silent
  <2>3. \/ conns' = [conns EXCEPT ![c] = opened] /\ report' = TRUE
        \/ conns' = [conns EXCEPT ![c] = lost] /\ UNCHANGED report
    BY <1>7 DEF OnOpen
  <2>4. UNCHANGED <<map, lastUsable, cfg>>
    BY <1>7 DEF OnOpen
  <2> HIDE DEF opened, lost
  <2>5. CASE conns' = [conns EXCEPT ![c] = opened] /\ report' = TRUE
    BY <2>1, <2>4, <2>5, CountKeeps DEF Goal
  <2>6. CASE conns' = [conns EXCEPT ![c] = lost] /\ UNCHANGED report
    BY <2>2, <2>4, <2>6, SilentStep DEF Goal
  <2> QED
    BY <2>3, <2>5, <2>6
<1>8. CASE CloseLoser(c)
  <2> DEFINE k == [o EXCEPT !.lose = FALSE]
  <2>1. k \in Connection /\ Silent(k, o)
    BY <1>1 DEF Connection, Silent
  <2>2. CloseConnection([conns EXCEPT ![c] = k], conns[c].id)
    BY <1>8 DEF CloseLoser
  <2>3. o.id \in Relays
    BY <1>1, <1>2, <1>8 DEF CloseLoser, Untouched
  <2> HIDE DEF k
  <2> QED
    BY <1>8, <2>1, <2>2, <2>3, CloseKeeps DEF CloseLoser, Goal
<1>9. CASE OnClose(c)
  <2> DEFINE k == [o EXCEPT !.fired = @ \cup {"close"}]
  <2>1. k \in Connection /\ Silent(k, o)
    BY <1>1 DEF Connection, Silent
  <2>2. CloseConnection([conns EXCEPT ![c] = k], conns[c].id)
    BY <1>9 DEF OnClose
  <2>3. o.id \in Relays
    BY <1>1, <1>2, <1>9 DEF OnClose, Untouched
  <2> HIDE DEF k
  <2> QED
    BY <1>9, <2>1, <2>2, <2>3, CloseKeeps DEF OnClose, Goal
<1>10. CASE IceDisconnected(c) \/ IceConnected(c)
  <2>1. PICK b : conns' = [conns EXCEPT ![c].degraded = b]
    BY <1>10 DEF IceDisconnected, IceConnected
  <2> DEFINE k == [o EXCEPT !.degraded = b]
  <2>2. k.id = o.id /\ k.step = o.step /\ k.tear = o.tear
    BY <1>1 DEF Connection
  <2>3. conns' = [conns EXCEPT ![c] = k] /\ (report' = TRUE) /\ UNCHANGED <<map, cfg>>
    BY <1>10, <2>1 DEF IceDisconnected, IceConnected
  <2> HIDE DEF k
  <2> QED
    BY <2>2, <2>3, CountKeeps DEF Goal
<1>11. Goal
  BY <1>3, <1>4, <1>5, <1>6, <1>7, <1>8, <1>9, <1>10, InsertKeeps DEF ConnStep, Goal
<1> QED
  BY <1>11 DEF Goal

\* DropConnections is followed by a report, and Cleanup sets the count of an empty table.
LEMMA DropKeeps ==
    ASSUME HealthInv, DropConnections \/ Cleanup
    PROVE  CfgType' /\ RegInv' /\ DialInv' /\ HealthSettled'
<1>1. PICK how \in {"quiet", "report"} :
        DropAll(how) /\ (how = "quiet" => Cleanup) /\ (how = "report" => DropConnections)
  BY DEF DropConnections, Cleanup
<1>2. \A r \in Relays : map'[r] = NoConn
  BY <1>1 DEF DropAll
<1>3. ASSUME NEW c \in Conns
      PROVE  /\ conns'[c].id = conns[c].id /\ conns'[c].step = conns[c].step
             /\ c \in Registered => conns'[c].tear = how
  <2>1. conns[c] \in Connection
    BY DEF HealthInv, EntryInv
  <2>2. conns[c].state \in {"connecting", "open", "closed", "failed"}
    BY <2>1 DEF Connection
  <2>3. conns'[c] = IF c \in Registered THEN Leaving(conns[c], conns[c].state, how) ELSE conns[c]
    BY <1>1 DEF DropAll
  <2> QED
    BY <2>1, <2>2, <2>3, LeavingType
<1>4. EntersNothing
  BY <1>1 DEF DropAll, EntersNothing
<1>5. KeepsEntries
  BY <1>2, <1>3, <1>4 DEF KeepsEntries, DropConnections, Cleanup
<1>6. CASE how = "report"
  <2>1. Pending'
    <3>1. CASE Registered = {}
      BY <1>1, <1>6, <3>1 DEF DropConnections, Pending
    <3>2. CASE Registered # {}
      <4>1. PICK c \in Registered : c \in Conns
        BY <3>2, RegisteredFinite DEF HealthInv, EntryInv
      <4> QED
        BY <1>3, <1>6, <4>1 DEF Pending
    <3> QED
      BY <3>1, <3>2
  <2> QED
    BY <1>5, <2>1, ReportingStep
<1>7. CASE how = "quiet"
  <2>1. Usable' = {}
    BY <1>2 DEF Usable, Open, Registered
  <2>2. Cardinality(Usable') = 0
    BY <2>1, FS_EmptySet
  <2>3. lastUsable' = 0
    BY <1>1, <1>7 DEF Cleanup
  <2> QED
    BY <1>5, <2>2, <2>3, EntriesKept DEF HealthSettled
<1> QED
  BY <1>1, <1>6, <1>7

\* When no goroutine is on its way to recomputeHealth, the count reported last is the number
\* of usable relays: for any number of relays, connections and redials, as long as
\* redials do not overlap.  Two that do could enter one relay twice, and the entry
\* overwritten would leave the count without a report.
THEOREM HealthIsSettled ==
    ASSUME OneDialer PROVE Spec => []HealthSettled
<1>1. Init => HealthInv
  <2> SUFFICES ASSUME Init PROVE HealthInv
    OBVIOUS
  <2>1. EntryInv
    BY EntryInit
  <2>2. CfgType
    BY DEF Init, CfgType, NotDialing
  <2>3. RegInv /\ DialInv
    BY DEF Init, RegInv, DialInv, NewConn
  <2>4. Usable = {}
    BY DEF Init, Usable, Open, Registered
  <2>5. Cardinality(Usable) = 0
    BY <2>4, FS_EmptySet
  <2>6. HealthSettled
    BY <2>5 DEF Init, HealthSettled
  <2> QED
    BY <2>1, <2>2, <2>3, <2>6 DEF HealthInv
<1>2. HealthInv /\ [Next]_vars => HealthInv'
  <2> SUFFICES ASSUME HealthInv, [Next]_vars PROVE HealthInv'
    OBVIOUS
  <2>1. EntryInv'
    BY StepOpens DEF HealthInv
  <2>2. CASE RecomputeHealth
    <3>1. RegInv' /\ DialInv' /\ CfgType'
      BY <2>2 DEF RecomputeHealth, HealthInv, RegInv, DialInv, CfgType
    <3>2. Usable' = Usable
      BY <2>2 DEF RecomputeHealth, Usable, Open, Registered
    <3>3. HealthSettled'
      BY <2>2, <3>2 DEF RecomputeHealth, HealthSettled
    <3> QED
      BY <2>1, <3>1, <3>3 DEF HealthInv
  <2>3. CASE UNCHANGED vars
    <3>1. RegInv' /\ DialInv' /\ CfgType'
      BY <2>3 DEF vars, HealthInv, RegInv, DialInv, CfgType
    <3>2. HealthSettled'
      BY <2>3 DEF vars, HealthInv, HealthSettled, Usable, Open, Registered
    <3> QED
      BY <2>1, <3>1, <3>2 DEF HealthInv
  <2> QED
    BY <2>1, <2>2, <2>3, DialerKeeps, ConnKeeps, DropKeeps DEF Next, HealthInv
<1>3. HealthInv => HealthSettled
  BY DEF HealthInv
<1> QED
  BY <1>1, <1>2, <1>3, PTL DEF Spec

-----------------------------------------------------------------------------
(* The streams of a call.                                                  *)

\* The SSRCs of a video call are always those of the device that is remembered, those of an
\* audio call are not derived yet.
SsrcInv ==
    /\ media \in {"audio", "video"} /\ videoSelf \in BOOLEAN
    /\ media = "video" => videoSelf /\ videoPeer = peerDevice
    /\ media = "audio" => ~videoSelf /\ videoPeer = NoJid /\ ~upgraded
    /\ link = "up" => streams = streamSsrcs

LEMMA ApplyKeeps ==
    ASSUME Apply
    PROVE  link' = "up" => streams' = streamSsrcs'
BY DEF Apply

LEMMA DeriveKeeps ==
    ASSUME SsrcInv, NEW missing \in BOOLEAN, Derive(missing), missing \/ videoSelf
    PROVE  videoSelf' = TRUE /\ videoPeer' = peerDevice'
<1>1. CASE missing
  <2>1. /\ peerDevice' = Derived(peerDevice, peerDevice, acceptedBy) /\ videoSelf' = TRUE
        /\ videoPeer' = IF peerDevice' = NoJid THEN videoPeer ELSE peerDevice'
    BY <1>1 DEF Derive
  <2>2. peerDevice' = NoJid => peerDevice = NoJid
    BY <2>1 DEF Derived
  <2>3. peerDevice' = NoJid => videoPeer = NoJid
    BY <2>2 DEF SsrcInv
  <2> QED
    BY <2>1, <2>3
<1>2. CASE ~missing
  BY <1>2 DEF Derive, SsrcInv
<1> QED
  BY <1>1, <1>2

\* A video call expects the video of the device that is known as the peer, and a connected
\* call has its streams registered: for any number of devices, in whatever order camera,
\* ack, accept, audio and video stanzas come.
THEOREM VideoIsForwarded == VideoSpec => []PeerVideoForwarded
<1>1. VideoInit => SsrcInv
  BY DEF VideoInit, SsrcInv
<1>2. SsrcInv /\ [VideoNext]_videoVars => SsrcInv'
  <2> SUFFICES ASSUME SsrcInv, [VideoNext]_videoVars PROVE SsrcInv'
    OBVIOUS
  <2>1. ASSUME NEW d \in Devices \cup {NoJid}, HandleCallAck(d) PROVE SsrcInv'
    BY <2>1, ApplyKeeps DEF HandleCallAck, Rederive, SsrcInv
  <2>2. ASSUME NEW d \in Devices, HandleCallAccept(d) PROVE SsrcInv'
    BY <2>2, ApplyKeeps DEF HandleCallAccept, Rederive, SsrcInv
  <2>3. ASSUME NEW d \in Devices, PeerAudio(d) PROVE SsrcInv'
    <3>1. CASE audioPeer = d
      BY <2>3, <3>1 DEF PeerAudio, SsrcInv, relayVars, streamSsrcs
    <3>2. CASE audioPeer # d
      BY <2>3, <3>2, ApplyKeeps DEF PeerAudio, SsrcInv
    <3> QED
      BY <3>1, <3>2
  <2>4. CASE EnableLocalVideo
    <3>1. Derive(~videoSelf) /\ media' = "video" /\ Apply
      BY <2>4 DEF EnableLocalVideo
    <3>2. videoSelf' = TRUE /\ videoPeer' = peerDevice'
      BY <3>1, DeriveKeeps DEF SsrcInv
    <3> QED
      BY <3>1, <3>2, ApplyKeeps DEF SsrcInv
  <2>5. CASE DisableLocalVideo
    BY <2>5 DEF DisableLocalVideo, SsrcInv, relayVars, streamSsrcs
  <2>6. ASSUME NEW n \in Upgrades \cup Stops, HandleVideoState(n) PROVE SsrcInv'
    <3>1. CASE n \in Upgrades /\ Derive(Missing) /\ media' = "video" /\ Apply
      <4>1. Missing \in BOOLEAN /\ (Missing \/ videoSelf)
        BY DEF Missing, SsrcInv
      <4>2. videoSelf' = TRUE /\ videoPeer' = peerDevice'
        BY <3>1, <4>1, DeriveKeeps
      <4> QED
        BY <3>1, <4>2, ApplyKeeps DEF SsrcInv
    <3>2. CASE UNCHANGED <<media, audioPeer, peerDevice, videoSelf, videoPeer, upgraded, streams, link>>
      BY <3>2 DEF SsrcInv, streamSsrcs
    <3> QED
      BY <2>6, <3>1, <3>2 DEF HandleVideoState
  <2>7. CASE ConnectRelays
    BY <2>7 DEF ConnectRelays, SsrcInv, callVars, streamSsrcs
  <2>8. CASE Lost \/ EndCall
    BY <2>8 DEF Lost, EndCall, SsrcInv, callVars, streamSsrcs
  <2>9. CASE Retransmit \/ Refresh \/ SendRegistration
    BY <2>9 DEF Retransmit, Refresh, SendRegistration, sendRaw, SsrcInv, callVars, streamSsrcs
  <2>10. CASE UNCHANGED videoVars
    BY <2>10 DEF videoVars, callVars, relayVars, SsrcInv, streamSsrcs
  <2> QED
    BY <2>1, <2>2, <2>3, <2>4, <2>5, <2>6, <2>7, <2>8, <2>9, <2>10 DEF VideoNext
<1>3. SsrcInv => PeerVideoForwarded
  BY DEF SsrcInv, PeerVideoForwarded
<1> QED
  BY <1>1, <1>2, <1>3, PTL DEF VideoSpec
=============================================================================
