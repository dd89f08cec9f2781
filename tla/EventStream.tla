----------------------------- MODULE EventStream -----------------------------
(***************************************************************************)
(* The broker's event stream (internal/app/events/broker.go): goroutines   *)
(* that change the list of calls and broadcast it, and browsers that       *)
(* subscribe, are given the list and then every event, and are dropped     *)
(* when their channel is full.                                             *)
(*                                                                         *)
(* Changes of the list are numbered; a call-list event carries the number  *)
(* of the last change it contains, any other event the number 0.           *)
(***************************************************************************)
EXTENDS Integers, Sequences

CONSTANTS
    Writers,     \* goroutines that broadcast
    Browsers,    \* SSE requests
    ChannelCap,  \* the capacity of a subscriber's channel, 32 in the code
    MaxChanges,  \* changes of the list of calls, a bound
    MaxVisits    \* how often a browser connects, a bound

VARIABLES
    changes,  \* changes made so far
    told,     \* the newest change whose broadcast is over
    writer,   \* what each goroutine has still to broadcast, and to whom
    sse,      \* the handler of each browser: steps still to run, channel, ...
    panicked  \* an event was sent on a closed channel

streamVars == <<changes, told, writer, sse, panicked>>

IdleWriter == [plan |-> <<>>, change |-> 0, ev |-> 0, sending |-> FALSE, left |-> {}]

NoStream ==
    [steps |-> <<>>, subscribed |-> FALSE, ch |-> <<>>, kicked |-> FALSE, closed |-> FALSE,
     seen |-> 0, visits |-> 0]

StreamInit ==
    /\ changes = 0 /\ told = 0 /\ panicked = FALSE
    /\ writer = [w \in Writers |-> IdleWriter]
    /\ sse = [b \in Browsers |-> NoStream]

\* b.mu is read-locked during a broadcast, so nobody subscribes or leaves meanwhile and
\* no call is changed.
Unlocked == \A w \in Writers : ~writer[w].sending

Latest(S) == CHOOSE n \in S : \A k \in S : k <= n

-----------------------------------------------------------------------------
(* The goroutines that broadcast.                                          *)

\* UpsertCall and EndCall change the list and then broadcast it and an event of the
\* call, in this order and in the other one.
ChangeCalls(w) ==
    /\ Unlocked /\ writer[w] = IdleWriter /\ changes < MaxChanges
    /\ changes' = changes + 1
    /\ \E plan \in {<<"list", "event">>, <<"event", "list">>} :
        writer' = [writer EXCEPT ![w] =
            [IdleWriter EXCEPT !.plan = plan, !.change = changes + 1]]
    /\ UNCHANGED <<told, sse, panicked>>

\* The Emit functions: one event that does not touch the list.
Emit(w) ==
    /\ writer[w] = IdleWriter
    /\ writer' = [writer EXCEPT ![w].plan = <<"event">>]
    /\ UNCHANGED <<changes, told, sse, panicked>>

\* broadcastCallList has read the list, under a lock of its own; broadcast locks.
StartList(w) ==
    /\ writer[w].plan # <<>> /\ Head(writer[w].plan) = "list" /\ writer[w].ev = 0
    /\ writer' = [writer EXCEPT ![w].ev = changes]
    /\ UNCHANGED <<changes, told, sse, panicked>>

Broadcast(w) ==
    /\ writer[w].plan # <<>> /\ ~writer[w].sending
    /\ Head(writer[w].plan) = "event" \/ writer[w].ev # 0
    /\ writer' = [writer EXCEPT ![w].sending = TRUE,
                                ![w].left = {b \in Browsers : sse[b].subscribed}]
    /\ UNCHANGED <<changes, told, sse, panicked>>

\* The subscriber is told to go, once.
Full(s) == [s EXCEPT !.kicked = TRUE]

Send(w, b) ==
    /\ b \in writer[w].left
    /\ writer' = [writer EXCEPT ![w].left = @ \ {b}]
    /\ LET s == sse[b] IN
       sse' = [sse EXCEPT ![b] = IF Len(s.ch) < ChannelCap
                                 THEN [s EXCEPT !.ch = Append(s.ch, writer[w].ev)]
                                 ELSE Full(s)]
    /\ panicked' = (panicked \/ sse[b].closed)
    /\ UNCHANGED <<changes, told>>

EndBroadcast(w) ==
    /\ writer[w].sending /\ writer[w].left = {}
    /\ LET g == writer[w] IN
       writer' = [writer EXCEPT ![w] =
                    IF Len(g.plan) = 1 THEN IdleWriter
                    ELSE [g EXCEPT !.plan = Tail(g.plan), !.sending = FALSE, !.ev = 0]]
    /\ told' = IF Head(writer[w].plan) = "list" THEN Latest({told, writer[w].change}) ELSE told
    /\ UNCHANGED <<changes, sse, panicked>>

-----------------------------------------------------------------------------
(* ServeSSE.                                                               *)

\* Mutant: the list is read before the browser is subscribed.
ServeSSE_ListFirst == <<"list", "subscribe", "loop", "delete", "close">>

ServeSSE == <<"subscribe", "list", "loop", "delete", "close">>

Doing(b, step) == sse[b].steps # <<>> /\ Head(sse[b].steps) = step

Step(b, s) == sse' = [sse EXCEPT ![b] = [s EXCEPT !.steps = Tail(@)]]

Visit(b) ==
    /\ sse[b].steps = <<>> /\ sse[b].visits < MaxVisits
    /\ sse' = [sse EXCEPT ![b] =
                [NoStream EXCEPT !.steps = ServeSSE, !.visits = sse[b].visits + 1]]
    /\ UNCHANGED <<changes, told, writer, panicked>>

subscribe(b) ==
    /\ Doing(b, "subscribe") /\ Unlocked
    /\ Step(b, [sse[b] EXCEPT !.subscribed = TRUE])
    /\ UNCHANGED <<changes, told, writer, panicked>>

\* The first call-list event.
FirstList(b) ==
    /\ Doing(b, "list")
    /\ Step(b, [sse[b] EXCEPT !.seen = changes])
    /\ UNCHANGED <<changes, told, writer, panicked>>

\* An event is written; seen is the newest list the browser got.
WriteEvent(b) ==
    /\ Doing(b, "loop") /\ sse[b].ch # <<>>
    /\ sse' = [sse EXCEPT ![b].ch = Tail(@), ![b].seen = Latest({@, Head(sse[b].ch)})]
    /\ UNCHANGED <<changes, told, writer, panicked>>

\* The browser is gone, a write fails, or the subscriber was told to go.
LeaveLoop(b) ==
    /\ Doing(b, "loop")
    /\ Step(b, sse[b])
    /\ UNCHANGED <<changes, told, writer, panicked>>

\* unsubscribe: the subscriber is removed,
DeleteSub(b) ==
    /\ Doing(b, "delete") /\ Unlocked
    /\ Step(b, [sse[b] EXCEPT !.subscribed = FALSE])
    /\ UNCHANGED <<changes, told, writer, panicked>>

\* and its channel closed.
CloseChannel(b) ==
    /\ Doing(b, "close")
    /\ Step(b, [sse[b] EXCEPT !.closed = TRUE])
    /\ UNCHANGED <<changes, told, writer, panicked>>

StreamNext ==
    \/ \E w \in Writers :
        \/ ChangeCalls(w) \/ Emit(w) \/ StartList(w) \/ Broadcast(w) \/ EndBroadcast(w)
        \/ \E b \in Browsers : Send(w, b)
    \/ \E b \in Browsers :
        \/ Visit(b) \/ subscribe(b) \/ FirstList(b) \/ WriteEvent(b) \/ LeaveLoop(b)
        \/ DeleteSub(b) \/ CloseChannel(b)

StreamSpec == StreamInit /\ [][StreamNext]_streamVars

-----------------------------------------------------------------------------
(* Properties.                                                             *)

\* A change of the calls whose broadcast is over reaches every browser that is being
\* served: it is in the list the browser got, or in one that waits in its channel, or the
\* browser is told to connect again, whenever it subscribed and however goroutines
\* overtake each other; and no event is sent on a channel that unsubscribe has closed,
\* which would stop the server (Broker.ServeSSE, unsubscribe, broadcast).
ChangesReachBrowsers ==
    /\ ~panicked
    /\ \A b \in Browsers :
        Doing(b, "loop") /\ ~sse[b].kicked =>
            \/ sse[b].seen >= told
            \/ \E i \in 1..Len(sse[b].ch) : sse[b].ch[i] >= told
=============================================================================
