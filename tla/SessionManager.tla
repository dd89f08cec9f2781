--------------------------- MODULE SessionManager ---------------------------
(***************************************************************************)
(* The WhatsApp accounts of one server: the session manager and its        *)
(* requests (app/session/manager.go), the life of a session's client       *)
(* (session.go: pairing by QR code or by phone code, the events of         *)
(* whatsmeow), its reconnection for a new client version (waversion.go),   *)
(* the offers that come in, and what a restart finds in the database.      *)
(*                                                                         *)
(* A client is named by its device: a new client always gets a new device, *)
(* which whatsmeow stores when it is paired.  A request is the sequence of *)
(* steps it still has to run; the server may stop between any two.         *)
(***************************************************************************)
EXTENDS Integers, Sequences, FiniteSets

CONSTANTS
    Sessions,    \* session ids that are created
    Requests,    \* HTTP requests under way at a time
    MaxDevices,  \* devices handed out, a bound
    MaxRestarts  \* how often the server stops, a bound

ASSUME SessionsAssumption == MaxDevices \in Nat /\ MaxRestarts \in Nat

VARIABLES
    rows,      \* the sessions table: the device of the jid, 0 for no jid, -1 for no row
    devices,   \* the devices whatsmeow has stored: the paired ones
    restarts,  \* how often the server has stopped
    used,      \* devices handed out
    of,        \* the session each device was made for
    placed,    \* the session that placed the call
    todo,      \* rows the start of the server has still to restore
    live,      \* m.sessions
    client,    \* s.client
    sock,      \* the client s.calls sends with
    conn,      \* clients that are connected
    auth,      \* s.auth.State
    qr,        \* the QR channels and the goroutines that read them
    events,    \* clients whose Connected event is still to be handled
    req,       \* requests under way
    slot,      \* who holds waReconnectSlot: session, client, how far
    holders    \* sessions whose call.Client has the call

vars == <<rows, devices, restarts, used, of, placed, todo, live, client, sock, conn, auth, qr,
          events, req, slot, holders>>

server == <<restarts, todo>>
made == <<used, of>>
table == <<live, client, sock>>
line == <<conn, events>>
call == <<placed, holders>>

Devices == 1..MaxDevices
NoSession == "none"

ASSUME NoSessionAssumption == NoSession \notin Sessions

NoRequest == [s |-> NoSession, plan |-> <<>>]
NoSlot == [s |-> NoSession, c |-> 0, at |-> "free"]

AuthStates ==
    {"none", "connecting", "qr", "pair_code", "open", "logged_out", "replaced"}

TypeOK ==
    /\ rows \in [Sessions -> {-1} \cup Devices \cup {0}]
    /\ devices \subseteq Devices /\ conn \subseteq Devices /\ events \subseteq Devices
    /\ used \in 0..MaxDevices /\ restarts \in 0..MaxRestarts
    /\ of \in [Devices -> Sessions \cup {NoSession}]
    /\ todo \subseteq Sessions /\ live \subseteq Sessions /\ holders \subseteq Sessions
    /\ client \in [Sessions -> Devices \cup {0}] /\ sock \in [Sessions -> Devices \cup {0}]
    /\ auth \in [Sessions -> AuthStates]
    /\ qr \in [Devices -> {"no", "wait", "show", "success"}]
    /\ \A r \in Requests : req[r].s \in Sessions \cup {NoSession}
    /\ slot.s \in Sessions \cup {NoSession} /\ slot.c \in Devices \cup {0}
    /\ placed \in Sessions \cup {NoSession}

Init ==
    /\ rows = [s \in Sessions |-> -1] /\ devices = {} /\ restarts = 0 /\ used = 0
    /\ of = [d \in Devices |-> NoSession]
    /\ todo = {} /\ live = {} /\ conn = {} /\ holders = {} /\ placed = NoSession
    /\ client = [s \in Sessions |-> 0] /\ sock = [s \in Sessions |-> 0]
    /\ auth = [s \in Sessions |-> "none"]
    /\ qr = [d \in Devices |-> "no"] /\ events = {}
    /\ req = [r \in Requests |-> NoRequest]
    /\ slot = NoSlot

-----------------------------------------------------------------------------
(* Helpers of the actions.                                                 *)

\* Restore is over: the HTTP server listens.
Running == todo = {}

\* container.NewDevice, for session s.
NewDevice(s) ==
    /\ used < MaxDevices
    /\ used' = used + 1
    /\ of' = [of EXCEPT ![used + 1] = s]

\* IsPaired: Store.ID is set while the device is stored.
IsPaired(s) == client[s] \in devices

setAuth(s, a) == auth' = [auth EXCEPT ![s] = a]

\* newSession and register: the socket of the calls is made for this client.
NewSession(s, d) ==
    /\ live' = live \cup {s}
    /\ client' = [client EXCEPT ![s] = d]
    /\ sock' = [sock EXCEPT ![s] = d]

\* store.SetJID: of a row that is gone it changes nothing.
SetJID(s, d) == rows' = IF rows[s] = -1 THEN rows ELSE [rows EXCEPT ![s] = d]

\* teardownAllCalls, for the call: it is drained from the table and ended.
teardownAllCalls(s) == holders' = holders \ {s}

At(r, step) == req[r].plan # <<>> /\ Head(req[r].plan) = step

Done(r) ==
    req' = [req EXCEPT ![r] =
              IF Len(req[r].plan) = 1 THEN NoRequest
              ELSE [s |-> req[r].s, plan |-> Tail(req[r].plan)]]

GiveUp(r) == req' = [req EXCEPT ![r] = NoRequest]

-----------------------------------------------------------------------------
(* The requests.                                                           *)

Create == <<"insert", "register", "pairing">>
Delete == <<"logoutOrDrop", "unregister", "delete">>
Logout == <<"logout", "replace", "clearJID", "loggedOut">>
Pair == <<"logoutAndDrop", "replace", "pairing">>
PairPhone == <<"logoutAndDrop", "replace", "pairing", "code">>

\* All but Create look the session up first.  An account is served one request at a
\* time, and the id of a deleted account is not used for another.
Begin(r, s) ==
    /\ Running /\ req[r] = NoRequest /\ \A q \in Requests : req[q].s # s
    /\ \/ /\ rows[s] # -1 \/ \A d \in Devices : of[d] # s
          /\ req' = [req EXCEPT ![r] = [s |-> s, plan |-> Create]]
       \/ /\ s \in live
          /\ \E plan \in {Delete, Logout, Pair, PairPhone} :
                req' = [req EXCEPT ![r] = [s |-> s, plan |-> plan]]
    /\ UNCHANGED <<rows, devices, server, made, call, table, line, auth, qr, slot>>

\* The id is the table's primary key.
InsertFails(s) == rows[s] # -1

Insert(r) ==
    LET s == req[r].s IN
    /\ At(r, "insert")
    /\ IF InsertFails(s) THEN GiveUp(r) /\ UNCHANGED rows
                         ELSE Done(r) /\ rows' = [rows EXCEPT ![s] = 0]
    /\ UNCHANGED <<devices, server, made, call, table, line, auth, qr, slot>>

Register(r) ==
    LET s == req[r].s IN
    /\ At(r, "register")
    /\ NewDevice(s)
    /\ NewSession(s, used + 1)
    /\ setAuth(s, "connecting")
    /\ Done(r)
    /\ UNCHANGED <<rows, devices, server, call, line, qr, slot>>

\* startPairing: the channel is opened and read, or Connect fails; then Create and
\* Pair give up, and leave the session as it is.
StartPairing(r) ==
    LET s == req[r].s  d == client[req[r].s] IN
    /\ At(r, "pairing")
    /\ setAuth(s, "connecting")
    /\ \/ conn' = conn \cup {d} /\ qr' = [qr EXCEPT ![d] = "wait"] /\ Done(r)
       \/ GiveUp(r) /\ UNCHANGED <<conn, qr>>
    /\ UNCHANGED <<rows, devices, server, made, call, table, events, slot>>

\* client.Logout of a paired client: the phone forgets the device and whatsmeow
\* deletes it and disconnects, or it fails, and Delete deletes the device (Pair does
\* so always).  An unpaired client is disconnected by Delete.  Delete ends the calls.
LogoutClient(r, step) ==
    LET s == req[r].s  d == client[req[r].s] IN
    /\ At(r, step)
    /\ IF IsPaired(s)
       THEN \/ devices' = devices \ {d} /\ conn' = conn \ {d}
            \/ /\ devices' = IF step = "logout" THEN devices ELSE devices \ {d}
               /\ UNCHANGED conn
       ELSE /\ conn' = IF step = "logoutOrDrop" THEN conn \ {d} ELSE conn
            /\ UNCHANGED devices
    /\ IF step = "logoutOrDrop" THEN teardownAllCalls(s) ELSE UNCHANGED holders
    /\ Done(r)
    /\ UNCHANGED <<rows, server, made, placed, table, auth, qr, events, slot>>

Unregister(r) ==
    /\ At(r, "unregister")
    /\ live' = live \ {req[r].s}
    /\ Done(r)
    /\ UNCHANGED <<rows, devices, server, made, call, client, sock, line, auth, qr, slot>>

DeleteRow(r) ==
    /\ At(r, "delete")
    /\ rows' = [rows EXCEPT ![req[r].s] = -1]
    /\ Done(r)
    /\ UNCHANGED <<devices, server, made, call, table, line, auth, qr, slot>>

\* replaceClient: s.client is replaced, the calls keep the socket they have.
replaceClient(r) ==
    LET s == req[r].s IN
    /\ At(r, "replace")
    /\ NewDevice(s)
    /\ teardownAllCalls(s)
    /\ conn' = conn \ {client[s]}
    /\ client' = [client EXCEPT ![s] = used + 1]
    /\ Done(r)
    /\ UNCHANGED <<rows, devices, server, placed, live, sock, auth, qr, events, slot>>

\* Logout forgets the jid,
ClearJID(r) ==
    /\ At(r, "clearJID")
    /\ SetJID(req[r].s, 0)
    /\ Done(r)
    /\ UNCHANGED <<devices, server, made, call, table, line, auth, qr, slot>>

\* and shows the account as logged out.
ShowLoggedOut(r) ==
    /\ At(r, "loggedOut")
    /\ setAuth(req[r].s, "logged_out")
    /\ Done(r)
    /\ UNCHANGED <<rows, devices, server, made, call, table, line, qr, slot>>

\* startPhonePairing, after the connection: WhatsApp issues a code, or an error ends it.
PhoneCode(r) ==
    LET s == req[r].s IN
    /\ At(r, "code")
    /\ \/ client[s] \in conn \ devices /\ setAuth(s, "pair_code")
       \/ UNCHANGED auth
    /\ Done(r)
    /\ UNCHANGED <<rows, devices, server, made, call, table, line, qr, slot>>

-----------------------------------------------------------------------------
(* The goroutine that reads a QR channel.  The channel of a client that     *)
(* was replaced is read on, until it times out.                            *)

\* A code arrives; the goroutine asks pairingByCode, and shows the code afterwards.
QrCode(d) ==
    /\ qr[d] = "wait" /\ d \notin devices
    /\ auth[of[d]] # "pair_code"
    /\ qr' = [qr EXCEPT ![d] = "show"]
    /\ UNCHANGED <<rows, devices, server, made, call, table, line, auth, req, slot>>

QrShow(d) ==
    /\ qr[d] = "show"
    /\ setAuth(of[d], "qr")
    /\ qr' = [qr EXCEPT ![d] = "wait"]
    /\ UNCHANGED <<rows, devices, server, made, call, table, line, req, slot>>

\* No code was scanned in time: whatsmeow disconnects the client.
QrTimeout(d) ==
    /\ qr[d] = "wait" /\ d \notin devices
    /\ qr' = [qr EXCEPT ![d] = "no"]
    /\ conn' = conn \ {d}
    /\ setAuth(of[d], "logged_out")
    /\ UNCHANGED <<rows, devices, server, made, call, table, events, req, slot>>

\* Mutant: the account is shown open and its jid is not remembered.
SetOpen_NoJID(s) == setAuth(s, "open") /\ UNCHANGED rows

\* "success" and Connected: the jid of the session's client, which may be another one
\* by now, is remembered, and the account is open.
SetOpen(s) ==
    /\ IF IsPaired(s) THEN SetJID(s, client[s]) ELSE UNCHANGED rows
    /\ setAuth(s, "open")

QrSuccess(d) ==
    /\ qr[d] = "success"
    /\ qr' = [qr EXCEPT ![d] = "no"]
    /\ SetOpen(of[d])
    /\ UNCHANGED <<devices, server, made, call, table, line, req, slot>>

-----------------------------------------------------------------------------
(* The events of a client.                                                 *)

\* The phone links the device: whatsmeow stores it, tells the channel and connects
\* again, now as the account.
PairSuccess(d) ==
    /\ d \in conn \ devices /\ qr[d] = "wait"
    /\ devices' = devices \cup {d}
    /\ qr' = [qr EXCEPT ![d] = "success"]
    /\ events' = events \cup {d}
    /\ UNCHANGED <<rows, server, made, call, table, conn, auth, req, slot>>

Connected(d) ==
    /\ d \in events
    /\ events' = events \ {d}
    /\ SetOpen(of[d])
    /\ UNCHANGED <<devices, server, made, call, table, conn, qr, req, slot>>

\* Disconnected, StreamReplaced, and LoggedOut: the phone removed the device, and
\* whatsmeow deletes it.
ClientLost(d) ==
    /\ d \in conn \cap devices /\ d \notin events
    /\ conn' = conn \ {d}
    /\ \E a \in {"connecting", "replaced", "logged_out"} :
        /\ setAuth(of[d], a)
        /\ devices' = IF a = "logged_out" THEN devices \ {d} ELSE devices
    /\ UNCHANGED <<rows, server, made, call, table, qr, events, req, slot>>

\* whatsmeow reconnects a client that lost its connection.
AutoReconnect(d) ==
    /\ d \in devices \ conn /\ d = client[of[d]] /\ auth[of[d]] = "connecting"
    /\ slot.c # d
    /\ conn' = conn \cup {d}
    /\ events' = events \cup {d}
    /\ UNCHANGED <<rows, devices, server, made, call, table, auth, qr, req, slot>>

-----------------------------------------------------------------------------
(* Reconnecting for a new client version.                                  *)

\* NightlyWAVersionCheck has adopted a new version, at any time, and the account's turn
\* has come in queueReconnect: it is not in a call (else it is left for a later round),
\* and ReconnectForVersion finds it open and connected.
TakeSlot(s) ==
    /\ slot = NoSlot /\ s \in live \ holders
    /\ auth[s] = "open" /\ IsPaired(s) /\ client[s] \in conn
    /\ slot' = [s |-> s, c |-> client[s], at |-> "checked"]
    /\ UNCHANGED <<rows, devices, server, made, call, table, line, auth, qr, req>>

\* ReconnectForVersion disconnects the client it found.
DropForVersion ==
    /\ slot.at = "checked"
    /\ slot' = [slot EXCEPT !.at = "dropped"]
    /\ conn' = conn \ {slot.c} /\ events' = events \ {slot.c}
    /\ setAuth(slot.s, "connecting")
    /\ UNCHANGED <<rows, devices, server, made, call, table, qr, req>>

\* It connects, or fails; WaitOpen and the gap pass, and the slot is free.
ConnectForVersion ==
    /\ slot.at = "dropped"
    /\ slot' = NoSlot
    /\ \/ /\ conn' = conn \cup ({slot.c} \cap devices)
          /\ events' = events \cup ({slot.c} \cap devices)
       \/ UNCHANGED <<conn, events>>
    /\ UNCHANGED <<rows, devices, server, made, call, table, auth, qr, req>>

-----------------------------------------------------------------------------
(* A call between two accounts of this server.                             *)

\* Session.StartCall: the account is paired; a client that is not connected is
\* connected first.  The call is in the table before its offer is sent.
StartCall(s) ==
    /\ Running /\ placed = NoSession /\ s \in live /\ IsPaired(s)
    /\ client[s] \in conn
    /\ placed' = s
    /\ holders' = holders \cup {s}
    /\ UNCHANGED <<rows, devices, server, made, table, line, auth, qr, req, slot>>

\* Mutant: every offer is taken.
TakesOffer_Always(s) == TRUE

\* onIncomingOffer: no other session of the server has placed this call.
TakesOffer(s) == holders \ {s} = {}

\* HandleOffer ignores the offer of a call that the table has.
onIncomingOffer(s) ==
    /\ placed \notin {NoSession, s} /\ IsPaired(s) /\ client[s] \in conn
    /\ TakesOffer(s)
    /\ s \notin holders
    /\ holders' = holders \cup {s}
    /\ UNCHANGED <<rows, devices, server, made, placed, table, line, auth, qr, req, slot>>

CallEnds(s) ==
    /\ s \in holders
    /\ holders' = holders \ {s}
    /\ UNCHANGED <<rows, devices, server, made, placed, table, line, auth, qr, req, slot>>

-----------------------------------------------------------------------------
(* Stop and restart.                                                       *)

\* The server stops: what is not in the database is gone.
Stop ==
    /\ restarts < MaxRestarts
    /\ restarts' = restarts + 1
    /\ todo' = {s \in Sessions : rows[s] # -1}
    /\ live' = {} /\ conn' = {} /\ holders' = {} /\ events' = {}
    /\ client' = [s \in Sessions |-> 0] /\ sock' = [s \in Sessions |-> 0]
    /\ auth' = [s \in Sessions |-> "none"]
    /\ qr' = [d \in Devices |-> "no"]
    /\ req' = [r \in Requests |-> NoRequest]
    /\ slot' = NoSlot
    /\ UNCHANGED <<rows, devices, used, of, placed>>

\* Restore: the row has no jid, so the account is to be paired.
RestoreUnpaired(s) ==
    /\ s \in todo /\ rows[s] = 0
    /\ NewDevice(s)
    /\ NewSession(s, used + 1)
    /\ setAuth(s, "connecting")
    /\ \/ conn' = conn \cup {used + 1} /\ qr' = [qr EXCEPT ![used + 1] = "wait"]
       \/ UNCHANGED <<conn, qr>>
    /\ todo' = todo \ {s}
    /\ UNCHANGED <<rows, devices, restarts, call, events, req, slot>>

\* The row has a jid whose device is stored: the client connects, or fails to.
RestorePaired(s) ==
    /\ s \in todo /\ rows[s] \in devices
    /\ NewSession(s, rows[s])
    /\ setAuth(s, "connecting")
    /\ \/ conn' = conn \cup {rows[s]} /\ events' = events \cup {rows[s]}
       \/ UNCHANGED <<conn, events>>
    /\ todo' = todo \ {s}
    /\ UNCHANGED <<rows, devices, restarts, made, call, qr, req, slot>>

\* Mutant: the row is only passed over.
DroppedRow_Kept(s) == rows[s]

DroppedRow(s) == -1

\* The device is not stored: the row is dropped.
RestoreDropped(s) ==
    /\ s \in todo /\ rows[s] \notin devices \cup {0}
    /\ rows' = [rows EXCEPT ![s] = DroppedRow(s)]
    /\ todo' = todo \ {s}
    /\ UNCHANGED <<devices, restarts, made, call, table, line, auth, qr, req, slot>>

-----------------------------------------------------------------------------
Request(r) ==
    \/ \E s \in Sessions : Begin(r, s)
    \/ Insert(r) \/ Register(r) \/ StartPairing(r)
    \/ \E step \in {"logout", "logoutOrDrop", "logoutAndDrop"} : LogoutClient(r, step)
    \/ Unregister(r) \/ DeleteRow(r) \/ replaceClient(r) \/ ClearJID(r)
    \/ ShowLoggedOut(r) \/ PhoneCode(r)

Client(d) ==
    \/ QrCode(d) \/ QrShow(d) \/ QrTimeout(d) \/ QrSuccess(d)
    \/ PairSuccess(d) \/ Connected(d) \/ ClientLost(d) \/ AutoReconnect(d)

Session(s) ==
    \/ TakeSlot(s) \/ StartCall(s) \/ onIncomingOffer(s) \/ CallEnds(s)
    \/ RestoreUnpaired(s) \/ RestorePaired(s) \/ RestoreDropped(s)

Next ==
    \/ \E r \in Requests : Request(r)
    \/ \E d \in Devices : Client(d)
    \/ \E s \in Sessions : Session(s)
    \/ DropForVersion \/ ConnectForVersion
    \/ Stop

\* whatsmeow hands every event to the session's handler, and the goroutine of a QR
\* channel reads what is in it.
Fairness == \A d \in Devices : WF_vars(QrSuccess(d)) /\ WF_vars(Connected(d))

Spec == Init /\ [][Next]_vars /\ Fairness

-----------------------------------------------------------------------------
(* Properties.                                                             *)

Idle(s) == s \in live /\ \A r \in Requests : req[r].s # s

\* The table of accounts and the accounts that are served are the same whenever no
\* request on the account is under way, also after a stop in the middle of Create,
\* Delete or Logout and after Restore has dropped rows (Manager.Create, Delete,
\* Restore).
RowsMatchSessions ==
    Running => \A s \in Sessions : (\A r \in Requests : req[r].s # s) =>
                   (s \in live <=> rows[s] # -1)

\* A call between two accounts of this server is in the call table of one of them
\* only, however late the offer comes and whichever session is torn down or deleted
\* meanwhile (Session.onIncomingOffer, Manager.FindSessionByCall).
OneHolder == Cardinality(holders) <= 1

\* An account that stays paired and connected is remembered: its row gets the jid a
\* restart needs, whichever of the channel's "success" and the event Connected is
\* handled first and although either may come late (Session.startPairing, handleEvent).
Remembered ==
    \A s \in Sessions :
        (s \in live /\ IsPaired(s) /\ client[s] \in conn) ~>
            (rows[s] = client[s] \/ s \notin live \/ ~IsPaired(s) \/ client[s] \notin conn)

\* An account that is open and not being changed calls through the client it is
\* connected with, also after it was logged out and paired again (README.md:281).
CallsUseClient ==
    \A s \in Sessions :
        Idle(s) /\ auth[s] = "open" /\ IsPaired(s) => sock[s] = client[s]
=============================================================================
