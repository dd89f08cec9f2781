------------------------------ MODULE FrontProofs ------------------------------
(***************************************************************************)
(* The server's front: webhooks with queues and retries of any number,     *)
(* rate limits of any size, an event stream with any number of goroutines, *)
(* browsers and changes, and a history of any length.                      *)
(***************************************************************************)
EXTENDS EventStream, Webhooks, RateLimit, History, TLAPS

-----------------------------------------------------------------------------
(* The webhook dispatcher.                                                 *)

\* Events wait in the order in which they were made, none of them older than what the
\* receiver has, and the one being delivered is older than all that wait.
HookInv ==
    /\ events \in Nat /\ received \in Nat /\ queue \in Seq(Nat)
    /\ job \in [ev : Nat, attempt : Nat]
    /\ \A i \in 1..Len(queue) : received <= queue[i] /\ queue[i] <= events
    /\ \A i, j \in 1..Len(queue) : i < j => queue[i] < queue[j]
    /\ job # NoJob => /\ received <= job.ev /\ job.ev <= events
                      /\ \A i \in 1..Len(queue) : job.ev < queue[i]
    /\ received <= events
    /\ ordered = TRUE

\* An event is numbered after every event that waits.
LEMMA EnqueueKeeps == ASSUME HookInv, enqueue PROVE HookInv'
<1>1. CASE Len(queue) < QueueCap
  <2>1. queue' = Append(queue, events + 1) /\ events' = events + 1
    BY <1>1 DEF enqueue
  <2>2. /\ queue' \in Seq(Nat) /\ Len(queue') = Len(queue) + 1
        /\ \A i \in 1..Len(queue') : queue'[i] = IF i <= Len(queue) THEN queue[i] ELSE events + 1
    BY <2>1 DEF HookInv
  <2>3. Len(queue) \in Nat /\ \A i \in 1..Len(queue) : queue[i] \in Nat
    BY DEF HookInv
  <2>4. UNCHANGED <<job, received, ordered>>
    BY DEF enqueue
  <2> QED
    BY <2>1, <2>2, <2>3, <2>4 DEF HookInv, NoJob
<1>2. CASE ~(Len(queue) < QueueCap)
  BY <1>2 DEF enqueue, HookInv, NoJob
<1> QED
  BY <1>1, <1>2

\* The oldest event is taken out.
LEMMA RunKeeps == ASSUME HookInv, run PROVE HookInv'
<1>1. /\ queue' = Tail(queue) /\ job' = [ev |-> Head(queue), attempt |-> 0]
      /\ UNCHANGED <<events, received, ordered>>
  BY DEF run
<1>2. Len(queue) \in Nat /\ Len(queue) > 0 /\ Head(queue) = queue[1]
  BY DEF run, HookInv
<1>3. /\ queue' \in Seq(Nat) /\ Len(queue') = Len(queue) - 1
      /\ \A i \in 1..Len(queue') : queue'[i] = queue[i + 1]
  BY <1>1, <1>2 DEF HookInv
<1>4. /\ \A i \in 1..Len(queue) : queue[i] \in Nat
      /\ received <= queue[1] /\ queue[1] <= events
      /\ \A i \in 1..Len(queue') : queue[1] < queue'[i]
  <2>1. 1 \in 1..Len(queue)
    BY <1>2
  <2>2. ASSUME NEW i \in 1..Len(queue') PROVE queue[1] < queue'[i]
    <3>1. i + 1 \in 1..Len(queue) /\ 1 < i + 1
      BY <1>2, <1>3
    <3> QED
      BY <1>3, <2>1, <3>1 DEF HookInv
  <2> QED
    BY <2>1, <2>2 DEF HookInv
<1>5. job' \in [ev : Nat, attempt : Nat] /\ job'.ev = queue[1]
  BY <1>1, <1>2, <1>4
<1> QED
  BY <1>1, <1>2, <1>3, <1>4, <1>5 DEF HookInv

\* The event being delivered is still the oldest, however often it is posted.
LEMMA DeliverKeeps == ASSUME HookInv, deliver PROVE HookInv'
<1>1. job # NoJob /\ UNCHANGED <<queue, events>>
  BY DEF deliver, Retry
<1>2. received' \in {received, job.ev} /\ (ordered' = TRUE)
  BY <1>1 DEF deliver, Receive, HookInv
<1>3. job' \in [ev : Nat, attempt : Nat] /\ (job' = NoJob \/ job'.ev = job.ev)
  <2>1. job' = NoJob \/ job' = [job EXCEPT !.attempt = @ + 1]
    BY DEF deliver, Retry
  <2>2. job \in [ev : Nat, attempt : Nat]
    BY DEF HookInv
  <2> QED
    BY <2>1, <2>2 DEF NoJob
<1> QED
  BY <1>1, <1>2, <1>3 DEF HookInv

\* The receiver never gets an event after a later one: for queues of any capacity and any
\* number of attempts, with any answer of the receiver to each of them.
THEOREM HooksInOrder == HookSpec => []DeliveredInOrder
<1>1. HookInit => HookInv
  BY DEF HookInit, HookInv, NoJob
<1>2. HookInv /\ [HookNext]_hookVars => HookInv'
  <2> SUFFICES ASSUME HookInv, [HookNext]_hookVars PROVE HookInv'
    OBVIOUS
  <2>1. CASE UNCHANGED hookVars
    BY <2>1 DEF hookVars, HookInv, NoJob
  <2> QED
    BY <2>1, EnqueueKeeps, RunKeeps, DeliverKeeps DEF HookNext
<1>3. HookInv => DeliveredInOrder
  BY DEF HookInv, DeliveredInOrder
<1> QED
  BY <1>1, <1>2, <1>3, PTL DEF HookSpec

-----------------------------------------------------------------------------
(* The rate limiter.                                                       *)

\* The entry holds what the ideal limiter holds, an address without an entry has all its
\* tokens, and as many have come back as ticks have passed.
LimitInv ==
    /\ limit \in Limits /\ limit.burst \in Nat /\ limit.evict \in Nat
    /\ limit.burst <= limit.evict
    /\ idle \in Nat /\ ideal \in 0..limit.burst
    /\ tokens = ideal \/ (tokens = -1 /\ ideal = limit.burst)
    /\ ideal >= idle \/ ideal = limit.burst

\* Forgetting addresses gives nothing away, for every burst that is not larger than the
\* tokens that come back before an address is forgotten.
THEOREM ForgettingIsFree == LimitSpec => []PurgeGivesNothing
<1>1. LimitInit => LimitInv
  BY LimitsAssumption DEF LimitInit, LimitInv
<1>2. LimitInv /\ [LimitNext]_limitVars => LimitInv'
  <2> SUFFICES ASSUME LimitInv, [LimitNext]_limitVars PROVE LimitInv'
    OBVIOUS
  <2> USE DEF LimitInv
  <2>1. CASE Tick
    BY <2>1 DEF Tick, Refill
  <2>2. CASE allow
    BY <2>2 DEF allow, Found, Less
  <2>3. CASE purge
    BY <2>3 DEF purge, Evicts
  <2>4. CASE UNCHANGED limitVars
    BY <2>4 DEF limitVars
  <2> QED
    BY <2>1, <2>2, <2>3, <2>4 DEF LimitNext
<1>3. LimitInv => PurgeGivesNothing
  BY DEF LimitInv, PurgeGivesNothing, Found
<1> QED
  BY <1>1, <1>2, <1>3, PTL DEF LimitSpec

-----------------------------------------------------------------------------
(* The event stream.                                                       *)

\* The steps a browser's handler may have left, named after the next one.
AtSubscribe == <<"subscribe", "list", "loop", "delete", "close">>
AtList == <<"list", "loop", "delete", "close">>
AtLoop == <<"loop", "delete", "close">>
AtDelete == <<"delete", "close">>
AtClose == <<"close">>

Plans == {<<>>, <<"event">>, <<"list">>, <<"list", "event">>, <<"event", "list">>}

Stages == {<<>>, AtSubscribe, AtList, AtLoop, AtDelete, AtClose}

Goroutine ==
    [plan : Plans, change : Nat, ev : Nat, sending : BOOLEAN, left : SUBSET Browsers]

Handler ==
    [steps : Stages, subscribed : BOOLEAN, ch : Seq(Nat), kicked : BOOLEAN,
     closed : BOOLEAN, seen : Nat, visits : Nat]

StreamType ==
    /\ changes \in Nat /\ told \in Nat /\ told <= changes
    /\ writer \in [Writers -> Goroutine]
    /\ sse \in [Browsers -> Handler]

\* The browser has, or will read, a list with the change n.
Covered(s, n) == s.seen >= n \/ \E i \in 1..Len(s.ch) : s.ch[i] >= n

\* A browser is in the table of subscribers from its subscription to its removal, and its
\* channel is closed after that.
SubscriberInv ==
    \A b \in Browsers :
        /\ sse[b].subscribed <=> sse[b].steps \in {AtList, AtLoop, AtDelete}
        /\ sse[b].closed => sse[b].steps = <<>>

\* Whom a broadcast has still to serve is subscribed, and a list that is sent holds the
\* change of the goroutine that sends it.
WriterInv ==
    \A w \in Writers :
        /\ writer[w].change <= changes
        /\ \A b \in writer[w].left : writer[w].sending /\ sse[b].subscribed
        /\ writer[w].sending => writer[w].plan # <<>>
        /\ writer[w].plan # <<>> /\ Head(writer[w].plan) = "list" =>
            /\ writer[w].sending => writer[w].ev # 0
            /\ writer[w].ev # 0 => writer[w].ev >= writer[w].change

\* A served browser that was not told to go has the changes whose broadcast is over, and
\* that of a broadcast which has served it.
CoverInv ==
    \A b \in Browsers : sse[b].steps = AtLoop /\ ~sse[b].kicked =>
        /\ Covered(sse[b], told)
        /\ \A w \in Writers :
            writer[w].sending /\ Head(writer[w].plan) = "list" =>
                b \in writer[w].left \/ Covered(sse[b], writer[w].change)

StreamInv ==
    StreamType /\ SubscriberInv /\ WriterInv /\ CoverInv /\ (panicked = FALSE)

\* Latest is the maximum of two numbers.
LEMMA LatestIs ==
    ASSUME NEW a \in Nat, NEW b \in Nat
    PROVE  Latest({a, b}) = IF a >= b THEN a ELSE b
<1> DEFINE m == IF a >= b THEN a ELSE b
<1>1. m \in {a, b} /\ \A k \in {a, b} : k <= m
  OBVIOUS
<1>2. \A n \in {a, b} : (\A k \in {a, b} : k <= n) => n = m
  OBVIOUS
<1> QED
  BY <1>1, <1>2 DEF Latest

\* What the handler does next, and what it has left then.
LEMMA StageSteps ==
    ASSUME NEW t \in Stages
    PROVE  /\ t # <<>> /\ Head(t) = "subscribe" => t = AtSubscribe /\ Tail(t) = AtList
           /\ t # <<>> /\ Head(t) = "list" => t = AtList /\ Tail(t) = AtLoop
           /\ t # <<>> /\ Head(t) = "loop" => t = AtLoop /\ Tail(t) = AtDelete
           /\ t # <<>> /\ Head(t) = "delete" => t = AtDelete /\ Tail(t) = AtClose
           /\ t # <<>> /\ Head(t) = "close" => t = AtClose /\ Tail(t) = <<>>
<1>1. Tail(AtSubscribe) = AtList
  BY DEF AtSubscribe, AtList
<1>2. Tail(AtList) = AtLoop
  BY DEF AtList, AtLoop
<1>3. Tail(AtLoop) = AtDelete
  BY DEF AtLoop, AtDelete
<1>4. Tail(AtDelete) = AtClose
  BY DEF AtDelete, AtClose
<1>5. Tail(AtClose) = <<>>
  BY DEF AtClose
<1>6. /\ Head(AtSubscribe) = "subscribe" /\ Head(AtList) = "list" /\ Head(AtLoop) = "loop"
      /\ Head(AtDelete) = "delete" /\ Head(AtClose) = "close"
  BY DEF AtSubscribe, AtList, AtLoop, AtDelete, AtClose
<1> QED
  BY <1>1, <1>2, <1>3, <1>4, <1>5, <1>6 DEF Stages

\* The stages are different ones.
LEMMA StagesDiffer ==
    /\ AtSubscribe \notin {<<>>, AtList, AtLoop, AtDelete, AtClose}
    /\ AtList \notin {<<>>, AtLoop, AtDelete, AtClose}
    /\ AtLoop \notin {<<>>, AtDelete, AtClose}
    /\ AtDelete \notin {<<>>, AtClose}
    /\ AtClose # <<>>
    /\ ServeSSE = AtSubscribe
BY DEF AtSubscribe, AtList, AtLoop, AtDelete, AtClose, ServeSSE

\* What is left of a plan after its first event.
LEMMA PlanSteps ==
    ASSUME NEW p \in Plans, p # <<>>
    PROVE  /\ Head(p) \in {"list", "event"}
           /\ Len(p) # 1 => Tail(p) \in Plans /\ Tail(p) # <<>>
<1>1. Tail(<<"list", "event">>) = <<"event">> /\ Tail(<<"event", "list">>) = <<"list">>
  OBVIOUS
<1>2. Len(<<"list">>) = 1 /\ Len(<<"event">>) = 1
  OBVIOUS
<1>3. /\ Head(<<"list">>) = "list" /\ Head(<<"list", "event">>) = "list"
      /\ Head(<<"event">>) = "event" /\ Head(<<"event", "list">>) = "event"
  OBVIOUS
<1>4. <<"list">> # <<>> /\ <<"event">> # <<>>
  OBVIOUS
<1> QED
  BY <1>1, <1>2, <1>3, <1>4 DEF Plans

\* What a goroutine has to respect when it steps to the state k.
Orderly(k) ==
    /\ k.change <= changes
    /\ \A b \in k.left : k.sending /\ sse[b].subscribed
    /\ k.sending => k.plan # <<>>
    /\ k.plan # <<>> /\ Head(k.plan) = "list" =>
        /\ k.sending => k.ev # 0
        /\ k.ev # 0 => k.ev >= k.change
    /\ \A b \in Browsers :
        sse[b].steps = AtLoop /\ ~sse[b].kicked /\ k.sending /\ Head(k.plan) = "list" =>
            b \in k.left \/ Covered(sse[b], k.change)

\* A goroutine between two broadcasts.
Resting(k) == k.change <= changes' /\ k.left = {} /\ ~k.sending /\ k.ev = 0

\* A step that leaves the browsers alone, which have the changes that are told then.
BrowsersKeepUp ==
    /\ changes' \in Nat /\ changes <= changes' /\ told' \in Nat /\ told' <= changes'
    /\ UNCHANGED <<sse, panicked>>
    /\ \A b \in Browsers :
        sse[b].steps = AtLoop /\ ~sse[b].kicked => Covered(sse[b], told')

LEMMA KeepUp ==
    ASSUME StreamInv, UNCHANGED <<told, sse, panicked>>, changes' \in {changes, changes + 1}
    PROVE  BrowsersKeepUp
BY DEF BrowsersKeepUp, StreamInv, StreamType, CoverInv

\* A step of one goroutine that leaves the browsers alone.
LEMMA GoroutineStep ==
    ASSUME StreamInv, NEW w \in Writers, NEW k \in Goroutine,
           writer' = [writer EXCEPT ![w] = k], BrowsersKeepUp, Orderly(k) \/ Resting(k)
    PROVE  StreamInv'
<1> USE DEF BrowsersKeepUp, Resting
<1>1. \A v \in Writers : writer'[v] = IF v = w THEN k ELSE writer[v]
  BY DEF StreamInv, StreamType
<1>2. \A v \in Writers : writer[v].change \in Nat /\ writer[v].change <= changes
  BY DEF StreamInv, StreamType, WriterInv, Goroutine
<1>3. changes \in Nat /\ k.change \in Nat
  BY DEF StreamInv, StreamType, Goroutine
<1>4. StreamType'
  BY DEF StreamInv, StreamType
<1>5. SubscriberInv'
  BY DEF StreamInv, SubscriberInv
<1>6. WriterInv'
  BY <1>1, <1>2, <1>3 DEF StreamInv, WriterInv, Orderly
<1>7. CoverInv'
  BY <1>1 DEF StreamInv, CoverInv, Orderly, Covered
<1> QED
  BY <1>4, <1>5, <1>6, <1>7 DEF StreamInv

\* Goroutines begin with an empty plan's worth of nothing sent.
LEMMA ChangeKeeps ==
    ASSUME StreamInv, NEW w \in Writers, ChangeCalls(w) \/ Emit(w)
    PROVE  StreamInv'
<1>1. changes \in Nat /\ told \in Nat /\ told <= changes
  BY DEF StreamInv, StreamType
<1>2. /\ IdleWriter \in Goroutine /\ IdleWriter.left = {} /\ ~IdleWriter.sending
      /\ IdleWriter.ev = 0 /\ IdleWriter.change = 0
  BY DEF IdleWriter, Goroutine, Plans
<1>4. CASE ChangeCalls(w)
  <2>1. PICK plan \in {<<"list", "event">>, <<"event", "list">>} :
          writer' = [writer EXCEPT ![w] =
              [IdleWriter EXCEPT !.plan = plan, !.change = changes + 1]]
    BY <1>4 DEF ChangeCalls
  <2> DEFINE k == [writer[w] EXCEPT !.plan = plan, !.change = changes + 1]
  <2>2. plan \in Plans
    BY DEF Plans
  <2>3. changes' = changes + 1 /\ UNCHANGED <<told, sse, panicked>>
    BY <1>4 DEF ChangeCalls
  <2>4. /\ k \in Goroutine /\ k.left = {} /\ ~k.sending /\ k.ev = 0
        /\ k.change = changes + 1
    <3>1. changes + 1 \in Nat
      BY <1>1
    <3>2. writer[w] = IdleWriter
      BY <1>4 DEF ChangeCalls
    <3>3. writer[w] \in Goroutine
      BY <1>2, <3>2
    <3>4. /\ k \in Goroutine /\ k.left = writer[w].left /\ k.sending = writer[w].sending
          /\ k.ev = writer[w].ev /\ k.change = changes + 1
      BY <2>2, <3>1, <3>3 DEF Goroutine
    <3> QED
      BY <1>2, <3>2, <3>4
  <2> HIDE DEF k
  <2>5. Resting(k)
    BY <1>1, <2>3, <2>4 DEF Resting
  <2>6. writer' = [writer EXCEPT ![w] = k]
    BY <1>4, <2>1, Zenon DEF k, ChangeCalls
  <2>7. BrowsersKeepUp
    BY <1>1, <2>3, KeepUp
  <2> QED
    BY <2>4, <2>5, <2>6, <2>7, GoroutineStep
<1>5. CASE Emit(w)
  <2> DEFINE k == [writer[w] EXCEPT !.plan = <<"event">>]
  <2>1. writer' = [writer EXCEPT ![w] = k] /\ UNCHANGED <<changes, told, sse, panicked>>
    BY <1>5 DEF Emit
  <2>2. k \in Goroutine /\ k.left = {} /\ ~k.sending /\ k.ev = 0 /\ k.change = 0
    <3>1. writer[w] = IdleWriter /\ <<"event">> \in Plans
      BY <1>5 DEF Emit, Plans
    <3>2. \A g \in Goroutine : \A p \in Plans :
            LET h == [g EXCEPT !.plan = p] IN
            /\ h \in Goroutine
            /\ h.left = g.left /\ h.sending = g.sending /\ h.ev = g.ev /\ h.change = g.change
      BY DEF Goroutine
    <3> QED
      BY <1>2, <3>1, <3>2, Zenon
  <2> HIDE DEF k
  <2>4. Resting(k)
    BY <1>1, <2>1, <2>2 DEF Resting
  <2>3. BrowsersKeepUp
    BY <1>1, <2>1, KeepUp
  <2> QED
    BY <2>1, <2>2, <2>3, <2>4, GoroutineStep
<1> QED
  BY <1>4, <1>5

LEMMA StartListKeeps ==
    ASSUME StreamInv, NEW w \in Writers, StartList(w)
    PROVE  StreamInv'
<1> DEFINE k == [writer[w] EXCEPT !.ev = changes]
<1>1. changes \in Nat /\ told \in Nat /\ told <= changes
  BY DEF StreamInv, StreamType
<1>3. writer[w] \in Goroutine
  BY DEF StreamInv, StreamType
<1>4. /\ k \in Goroutine
      /\ k.plan = writer[w].plan /\ k.change = writer[w].change /\ k.left = writer[w].left
      /\ k.sending = writer[w].sending /\ k.ev = changes
  BY <1>1, <1>3 DEF Goroutine
<1>5. writer' = [writer EXCEPT ![w] = k] /\ UNCHANGED <<changes, told, sse, panicked>>
  BY DEF StartList
<1> HIDE DEF k
<1>6. ~writer[w].sending
  BY DEF StartList, StreamInv, WriterInv
<1>7. Orderly(k)
  BY <1>3, <1>4, <1>6 DEF Orderly, StreamInv, WriterInv, Goroutine
<1> QED
  BY <1>1, <1>4, <1>5, <1>7, KeepUp, GoroutineStep

LEMMA BroadcastKeeps ==
    ASSUME StreamInv, NEW w \in Writers, Broadcast(w)
    PROVE  StreamInv'
<1> DEFINE subs == {b \in Browsers : sse[b].subscribed}
           k == [writer[w] EXCEPT !.sending = TRUE, !.left = subs]
<1>1. changes \in Nat /\ told \in Nat /\ told <= changes
  BY DEF StreamInv, StreamType
<1>3. writer[w] \in Goroutine
  BY DEF StreamInv, StreamType
<1>4. /\ k \in Goroutine
      /\ k.plan = writer[w].plan /\ k.change = writer[w].change /\ k.left = subs
      /\ k.sending = TRUE /\ k.ev = writer[w].ev
  BY <1>3 DEF Goroutine
<1>5. writer' = [writer EXCEPT ![w] = k] /\ UNCHANGED <<changes, told, sse, panicked>>
  BY DEF Broadcast
<1> HIDE DEF k
<1>6. \A b \in Browsers : sse[b].steps = AtLoop => b \in subs
  BY DEF StreamInv, SubscriberInv
<1>7. writer[w].plan # <<>> /\ (Head(writer[w].plan) = "event" \/ writer[w].ev # 0)
  BY DEF Broadcast
<1>8. Orderly(k)
  BY <1>3, <1>4, <1>6, <1>7 DEF Orderly, StreamInv, WriterInv, Goroutine
<1> QED
  BY <1>1, <1>4, <1>5, <1>8, KeepUp, GoroutineStep

\* Every browser has been served, or is not in the loop, when the broadcast ends.
LEMMA EndBroadcastKeeps ==
    ASSUME StreamInv, NEW w \in Writers, EndBroadcast(w)
    PROVE  StreamInv'
<1> DEFINE k == IF Len(writer[w].plan) = 1 THEN IdleWriter
                ELSE [writer[w] EXCEPT !.plan = Tail(writer[w].plan), !.sending = FALSE, !.ev = 0]
<1>1. changes \in Nat /\ told \in Nat /\ told <= changes
  BY DEF StreamInv, StreamType
<1>2. writer[w] \in Goroutine /\ writer[w].plan # <<>> /\ writer[w].change <= changes
  BY DEF StreamInv, StreamType, EndBroadcast, WriterInv
<1>3. writer' = [writer EXCEPT ![w] = k] /\ UNCHANGED <<changes, sse, panicked>>
  BY DEF EndBroadcast
<1>4. /\ k \in Goroutine /\ k.left = {} /\ ~k.sending /\ k.ev = 0
      /\ k.change \in {0, writer[w].change}
  <2>1. writer[w].plan \in Plans /\ writer[w].left = {}
    BY <1>2 DEF Goroutine, EndBroadcast
  <2>2. CASE Len(writer[w].plan) = 1
    BY <2>2 DEF IdleWriter, Goroutine, Plans
  <2>3. CASE Len(writer[w].plan) # 1
    <3>1. Tail(writer[w].plan) \in Plans
      BY <1>2, <2>1, <2>3, PlanSteps
    <3> QED
      BY <1>2, <2>1, <2>3, <3>1 DEF Goroutine
  <2> QED
    BY <2>2, <2>3
<1> HIDE DEF k
<1>5. Resting(k)
  BY <1>1, <1>2, <1>3, <1>4 DEF Resting
<1>6. told' = told \/ (Head(writer[w].plan) = "list" /\ told' = writer[w].change)
  BY <1>1, <1>2, LatestIs DEF EndBroadcast, Goroutine
<1>7. told' \in Nat /\ told' <= changes
  BY <1>1, <1>2, <1>6 DEF Goroutine
<1>8. ASSUME NEW b \in Browsers, sse[b].steps = AtLoop, ~sse[b].kicked
      PROVE  Covered(sse[b], told')
  BY <1>6, <1>8 DEF EndBroadcast, StreamInv, CoverInv
<1>9. BrowsersKeepUp
  BY <1>1, <1>3, <1>7, <1>8 DEF BrowsersKeepUp
<1> QED
  BY <1>3, <1>4, <1>5, <1>9, GoroutineStep

\* A browser that is sent an event has it in its channel, or is told to go.
LEMMA SendKeeps ==
    ASSUME StreamInv, NEW w \in Writers, NEW b \in Browsers, Send(w, b)
    PROVE  StreamInv'
<1> DEFINE g == writer[w]
           s == sse[b]
           k == [g EXCEPT !.left = @ \ {b}]
           t == IF Len(s.ch) < ChannelCap THEN [s EXCEPT !.ch = Append(s.ch, g.ev)] ELSE Full(s)
<1>1. g \in Goroutine /\ s \in Handler /\ b \in g.left
  BY DEF StreamInv, StreamType, Send
<1>2. writer' = [writer EXCEPT ![w] = k] /\ sse' = [sse EXCEPT ![b] = t]
  BY DEF Send
<1>3. UNCHANGED <<changes, told>>
  BY DEF Send
<1>4. /\ k \in Goroutine /\ k.plan = g.plan /\ k.change = g.change /\ k.ev = g.ev
      /\ k.sending = g.sending /\ k.left = g.left \ {b}
  BY <1>1 DEF Goroutine
<1>5. /\ t \in Handler /\ t.steps = s.steps /\ t.subscribed = s.subscribed
      /\ t.closed = s.closed /\ t.seen = s.seen
      /\ t.kicked \/ (t.ch = Append(s.ch, g.ev) /\ t.kicked = s.kicked)
  <2>1. g.ev \in Nat
    BY <1>1 DEF Goroutine
  <2>2. Append(s.ch, g.ev) \in Seq(Nat)
    BY <1>1, <2>1 DEF Handler
  <2>3. CASE Len(s.ch) < ChannelCap
    BY <1>1, <2>2, <2>3 DEF Handler
  <2>4. CASE ~(Len(s.ch) < ChannelCap)
    BY <1>1, <2>4 DEF Handler, Full
  <2> QED
    BY <2>3, <2>4
<1> HIDE DEF k, t
<1>6. \A v \in Writers : writer'[v] = IF v = w THEN k ELSE writer[v]
  BY <1>2 DEF StreamInv, StreamType
<1>7. \A c \in Browsers : sse'[c] = IF c = b THEN t ELSE sse[c]
  BY <1>2 DEF StreamInv, StreamType
<1>8. StreamType'
  BY <1>2, <1>3, <1>4, <1>5 DEF StreamInv, StreamType
<1>9. s.subscribed /\ ~s.closed /\ g.sending
  BY <1>1, StagesDiffer DEF StreamInv, WriterInv, SubscriberInv
<1>10. SubscriberInv'
  BY <1>5, <1>7 DEF StreamInv, SubscriberInv
<1>11. WriterInv'
  <2>1. \A c \in Browsers : sse'[c].subscribed = sse[c].subscribed
    BY <1>5, <1>7
  <2>2. \A v \in Writers : writer'[v].left \subseteq writer[v].left
    BY <1>4, <1>6
  <2>3. \A v \in Writers : writer[v].left \subseteq Browsers
    BY DEF StreamInv, StreamType, Goroutine
  <2>4. \A v \in Writers : /\ writer'[v].plan = writer[v].plan
                           /\ writer'[v].change = writer[v].change
                           /\ writer'[v].ev = writer[v].ev
                           /\ writer'[v].sending = writer[v].sending
    BY <1>4, <1>6
  <2> QED
    BY <1>3, <2>1, <2>2, <2>3, <2>4 DEF StreamInv, WriterInv
<1>12. CoverInv'
  <2>1. ASSUME NEW c \in Browsers, c # b, sse'[c].steps = AtLoop, ~sse'[c].kicked
        PROVE  /\ Covered(sse'[c], told')
               /\ \A v \in Writers :
                    writer'[v].sending /\ Head(writer'[v].plan) = "list" =>
                        c \in writer'[v].left \/ Covered(sse'[c], writer'[v].change)
    BY <1>3, <1>4, <1>6, <1>7, <2>1 DEF StreamInv, CoverInv
  <2>2. ASSUME t.steps = AtLoop, ~t.kicked
        PROVE  /\ Covered(t, told)
               /\ \A v \in Writers :
                    writer'[v].sending /\ Head(writer'[v].plan) = "list" =>
                        b \in writer'[v].left \/ Covered(t, writer'[v].change)
    <3>1. t.ch = Append(s.ch, g.ev) /\ s.steps = AtLoop /\ ~s.kicked /\ s.ch \in Seq(Nat)
      BY <1>1, <1>5, <2>2 DEF Handler
    <3>2. g.ev \in Nat
      BY <1>1 DEF Goroutine
    <3>3. /\ Len(t.ch) = Len(s.ch) + 1 /\ Len(s.ch) \in Nat
          /\ \A i \in 1..Len(s.ch) : t.ch[i] = s.ch[i]
          /\ t.ch[Len(s.ch) + 1] = g.ev
      BY <3>1, <3>2
    <3>4. \A n : Covered(s, n) => Covered(t, n)
      BY <1>5, <3>3 DEF Covered
    <3>5. \A n : g.ev >= n => Covered(t, n)
      BY <3>3 DEF Covered
    <3>6. g.plan # <<>> /\ Head(g.plan) = "list" => g.ev >= g.change
      BY <1>9 DEF StreamInv, WriterInv
    <3>7. g.plan # <<>>
      BY <1>9 DEF StreamInv, WriterInv
    <3> QED
      BY <1>4, <1>6, <3>1, <3>4, <3>5, <3>6, <3>7 DEF StreamInv, CoverInv
  <2> QED
    BY <1>3, <1>7, <2>1, <2>2 DEF CoverInv
<1>13. panicked' = FALSE
  BY <1>9 DEF Send, StreamInv
<1> QED
  BY <1>8, <1>10, <1>11, <1>12, <1>13 DEF StreamInv

\* What the handler of a browser has to respect when it steps to the state s.
Served(b, s) ==
    /\ s.subscribed <=> s.steps \in {AtList, AtLoop, AtDelete}
    /\ s.closed => s.steps = <<>>
    /\ sse[b].subscribed => s.subscribed \/ Unlocked
    /\ s.steps = AtLoop /\ ~s.kicked =>
        \/ \A n \in Nat : n <= changes => Covered(s, n)
        \/ /\ sse[b].steps = AtLoop /\ ~sse[b].kicked
           /\ \A n \in Nat : Covered(sse[b], n) => Covered(s, n)

\* A step of one handler.
LEMMA HandlerStep ==
    ASSUME StreamInv, NEW b \in Browsers, NEW s \in Handler, Served(b, s),
           sse' = [sse EXCEPT ![b] = s], UNCHANGED <<changes, told, writer, panicked>>
    PROVE  StreamInv'
<1>1. \A c \in Browsers : sse'[c] = IF c = b THEN s ELSE sse[c]
  BY DEF StreamInv, StreamType
<1>2. StreamType'
  BY DEF StreamInv, StreamType
<1>3. SubscriberInv'
  BY <1>1 DEF StreamInv, SubscriberInv, Served
<1>4. WriterInv'
  <2>1. ASSUME NEW w \in Writers, NEW c \in writer[w].left
        PROVE  writer[w].sending /\ sse'[c].subscribed
    <3>1. c \in Browsers /\ writer[w].sending /\ sse[c].subscribed
      BY DEF StreamInv, StreamType, WriterInv, Goroutine
    <3>2. ~Unlocked
      BY <3>1 DEF Unlocked
    <3> QED
      BY <1>1, <3>1, <3>2 DEF Served
  <2> QED
    BY <2>1 DEF StreamInv, WriterInv
<1>5. CoverInv'
  <2>1. told \in Nat /\ told <= changes
    BY DEF StreamInv, StreamType
  <2>2. \A w \in Writers : writer[w].change \in Nat /\ writer[w].change <= changes
    BY DEF StreamInv, StreamType, Goroutine, WriterInv
  <2>3. ASSUME s.steps = AtLoop, ~s.kicked
        PROVE  /\ Covered(s, told)
               /\ \A w \in Writers :
                    writer[w].sending /\ Head(writer[w].plan) = "list" =>
                        b \in writer[w].left \/ Covered(s, writer[w].change)
    BY <2>1, <2>2, <2>3 DEF Served, StreamInv, CoverInv
  <2> QED
    BY <1>1, <2>3 DEF StreamInv, CoverInv
<1> QED
  BY <1>2, <1>3, <1>4, <1>5 DEF StreamInv

\* The browser connects, subscribes, is given the list, or is on its way out.
LEMMA ServeKeeps ==
    ASSUME StreamInv, NEW b \in Browsers,
           Visit(b) \/ subscribe(b) \/ FirstList(b) \/ LeaveLoop(b) \/ DeleteSub(b)
            \/ CloseChannel(b)
    PROVE  StreamInv'
<1> DEFINE s == sse[b]
<1>1. s \in Handler /\ changes \in Nat /\ s.steps \in Stages
  BY DEF StreamInv, StreamType, Handler
<1>2. /\ s.subscribed <=> s.steps \in {AtList, AtLoop, AtDelete}
      /\ s.closed => s.steps = <<>>
  BY DEF StreamInv, SubscriberInv
<1>3. {AtList, AtLoop, AtDelete, AtClose, <<>>} \subseteq Stages
  BY DEF Stages
<1>4. CASE Visit(b)
  <2>1. PICK h \in Handler : h = NoStream /\ ~h.subscribed /\ ~h.closed
    <3>1. NoStream \in Handler /\ ~NoStream.subscribed /\ ~NoStream.closed
      BY DEF NoStream, Handler, Stages
    <3> QED
      BY <3>1
  <2> DEFINE t == [h EXCEPT !.steps = ServeSSE, !.visits = s.visits + 1]
  <2>2. t \in Handler /\ t.steps = AtSubscribe /\ ~t.subscribed /\ ~t.closed
    <3>1. ServeSSE = AtSubscribe /\ AtSubscribe \in Stages
      BY StagesDiffer DEF Stages
    <3>2. s.visits + 1 \in Nat
      BY <1>1 DEF Handler
    <3> QED
      BY <2>1, <3>1, <3>2 DEF Handler
  <2>3. sse' = [sse EXCEPT ![b] = t] /\ s.steps = <<>>
    BY <1>4, <2>1, Zenon DEF Visit
  <2> HIDE DEF t
  <2>4. Served(b, t)
    BY <1>2, <2>2, <2>3, StagesDiffer DEF Served
  <2> QED
    BY <1>4, <2>2, <2>3, <2>4, HandlerStep DEF Visit
<1>5. CASE subscribe(b)
  <2> DEFINE t == [s EXCEPT !.subscribed = TRUE, !.steps = Tail(s.steps)]
  <2>1. s.steps = AtSubscribe /\ Tail(s.steps) = AtList
    BY <1>1, <1>5, StageSteps DEF subscribe, Doing
  <2>2. t \in Handler /\ t.steps = AtList /\ t.subscribed /\ t.closed = s.closed
    BY <1>1, <1>3, <2>1 DEF Handler
  <2>3. sse' = [sse EXCEPT ![b] = t]
    BY <1>5 DEF subscribe, Step
  <2> HIDE DEF t
  <2>4. Served(b, t)
    BY <1>2, <2>1, <2>2, StagesDiffer DEF Served
  <2> QED
    BY <1>5, <2>2, <2>3, <2>4, HandlerStep DEF subscribe
<1>6. CASE FirstList(b)
  <2> DEFINE t == [s EXCEPT !.seen = changes, !.steps = Tail(s.steps)]
  <2>1. s.steps = AtList /\ Tail(s.steps) = AtLoop
    BY <1>1, <1>6, StageSteps DEF FirstList, Doing
  <2>2. /\ t \in Handler /\ t.steps = AtLoop /\ t.subscribed = s.subscribed
        /\ t.closed = s.closed /\ t.seen = changes
    BY <1>1, <1>3, <2>1 DEF Handler
  <2>3. sse' = [sse EXCEPT ![b] = t]
    BY <1>6 DEF FirstList, Step
  <2> HIDE DEF t
  <2>4. \A n \in Nat : n <= changes => Covered(t, n)
    BY <1>1, <2>2 DEF Covered
  <2>5. Served(b, t)
    BY <1>2, <2>1, <2>2, <2>4, StagesDiffer DEF Served
  <2> QED
    BY <1>6, <2>2, <2>3, <2>5, HandlerStep DEF FirstList
<1>7. CASE LeaveLoop(b)
  <2> DEFINE t == [s EXCEPT !.steps = Tail(s.steps)]
  <2>1. s.steps = AtLoop /\ Tail(s.steps) = AtDelete
    BY <1>1, <1>7, StageSteps DEF LeaveLoop, Doing
  <2>2. t \in Handler /\ t.steps = AtDelete /\ t.subscribed = s.subscribed /\ t.closed = s.closed
    BY <1>1, <1>3, <2>1 DEF Handler
  <2>3. sse' = [sse EXCEPT ![b] = t]
    BY <1>7 DEF LeaveLoop, Step
  <2> HIDE DEF t
  <2>4. Served(b, t)
    BY <1>2, <2>1, <2>2, StagesDiffer DEF Served
  <2> QED
    BY <1>7, <2>2, <2>3, <2>4, HandlerStep DEF LeaveLoop
<1>8. CASE DeleteSub(b)
  <2> DEFINE t == [s EXCEPT !.subscribed = FALSE, !.steps = Tail(s.steps)]
  <2>1. s.steps = AtDelete /\ Tail(s.steps) = AtClose /\ Unlocked
    BY <1>1, <1>8, StageSteps DEF DeleteSub, Doing
  <2>2. t \in Handler /\ t.steps = AtClose /\ ~t.subscribed /\ t.closed = s.closed
    BY <1>1, <1>3, <2>1 DEF Handler
  <2>3. sse' = [sse EXCEPT ![b] = t]
    BY <1>8 DEF DeleteSub, Step
  <2> HIDE DEF t
  <2>4. Served(b, t)
    BY <1>2, <2>1, <2>2, StagesDiffer DEF Served
  <2> QED
    BY <1>8, <2>2, <2>3, <2>4, HandlerStep DEF DeleteSub
<1>9. CASE CloseChannel(b)
  <2> DEFINE t == [s EXCEPT !.closed = TRUE, !.steps = Tail(s.steps)]
  <2>1. s.steps = AtClose /\ Tail(s.steps) = <<>>
    BY <1>1, <1>9, StageSteps DEF CloseChannel, Doing
  <2>2. t \in Handler /\ t.steps = <<>> /\ t.subscribed = s.subscribed
    BY <1>1, <1>3, <2>1 DEF Handler
  <2>3. sse' = [sse EXCEPT ![b] = t]
    BY <1>9 DEF CloseChannel, Step
  <2> HIDE DEF t
  <2>4. Served(b, t)
    BY <1>2, <2>1, <2>2, StagesDiffer DEF Served
  <2> QED
    BY <1>9, <2>2, <2>3, <2>4, HandlerStep DEF CloseChannel
<1> QED
  BY <1>4, <1>5, <1>6, <1>7, <1>8, <1>9

\* What leaves the channel has been seen.
LEMMA WriteKeeps ==
    ASSUME StreamInv, NEW b \in Browsers, WriteEvent(b)
    PROVE  StreamInv'
<1> DEFINE s == sse[b]
           t == [s EXCEPT !.ch = Tail(s.ch), !.seen = Latest({s.seen, Head(s.ch)})]
<1>1. s \in Handler /\ s.ch \in Seq(Nat) /\ s.seen \in Nat /\ s.ch # <<>>
  BY DEF StreamInv, StreamType, Handler, WriteEvent
<1>2. Len(s.ch) \in Nat /\ Len(s.ch) > 0 /\ Head(s.ch) = s.ch[1] /\ Head(s.ch) \in Nat
  BY <1>1
<1>3. Latest({s.seen, Head(s.ch)}) = IF s.seen >= Head(s.ch) THEN s.seen ELSE Head(s.ch)
  BY <1>1, <1>2, LatestIs
<1>4. /\ Tail(s.ch) \in Seq(Nat) /\ Len(Tail(s.ch)) = Len(s.ch) - 1
      /\ \A i \in 1..(Len(s.ch) - 1) : Tail(s.ch)[i] = s.ch[i + 1]
  BY <1>1, <1>2
<1>5. /\ t \in Handler /\ t.steps = s.steps /\ t.subscribed = s.subscribed
      /\ t.closed = s.closed /\ t.kicked = s.kicked /\ t.ch = Tail(s.ch)
      /\ t.seen = Latest({s.seen, Head(s.ch)})
  BY <1>1, <1>2, <1>3, <1>4 DEF Handler
<1>6. sse' = [sse EXCEPT ![b] = t]
  BY DEF WriteEvent
<1> HIDE DEF t
<1>7. ASSUME NEW n \in Nat, Covered(s, n) PROVE Covered(t, n)
  <2>1. CASE s.seen >= n
    BY <1>1, <1>2, <1>3, <1>5, <2>1 DEF Covered
  <2>2. ASSUME NEW i \in 1..Len(s.ch), s.ch[i] >= n PROVE Covered(t, n)
    <3>1. CASE i = 1
      BY <1>1, <1>2, <1>3, <1>5, <2>2, <3>1 DEF Covered
    <3>2. CASE i # 1
      <4>1. i - 1 \in 1..Len(t.ch) /\ t.ch[i - 1] = s.ch[i]
        BY <1>2, <1>4, <1>5, <3>2
      <4> QED
        BY <2>2, <4>1 DEF Covered
    <3> QED
      BY <3>1, <3>2
  <2> QED
    BY <1>7, <2>1, <2>2 DEF Covered
<1>8. s.steps = AtLoop
  <2>1. s.steps \in Stages
    BY <1>1 DEF Handler
  <2> QED
    BY <2>1, StageSteps DEF WriteEvent, Doing
<1>9. Served(b, t)
  BY <1>5, <1>7, <1>8 DEF Served, StreamInv, SubscriberInv
<1> QED
  BY <1>5, <1>6, <1>9, HandlerStep DEF WriteEvent

\* A change of the calls whose broadcast is over reaches every browser that is served, and
\* no event is sent on a closed channel: for any number of goroutines, browsers and
\* changes, and channels of any capacity.
THEOREM StreamIsComplete == StreamSpec => []ChangesReachBrowsers
<1>1. StreamInit => StreamInv
  <2> SUFFICES ASSUME StreamInit PROVE StreamInv
    OBVIOUS
  <2>1. IdleWriter \in Goroutine /\ NoStream \in Handler
    BY DEF IdleWriter, NoStream, Goroutine, Handler, Plans, Stages
  <2>2. /\ IdleWriter.change = 0 /\ IdleWriter.left = {} /\ ~IdleWriter.sending
        /\ IdleWriter.plan = <<>>
    BY DEF IdleWriter
  <2>3. NoStream.steps = <<>> /\ ~NoStream.subscribed
    BY DEF NoStream
  <2>4. StreamType
    BY <2>1 DEF StreamInit, StreamType
  <2>5. SubscriberInv /\ CoverInv
    BY <2>3, StagesDiffer DEF StreamInit, SubscriberInv, CoverInv
  <2>6. WriterInv
    <3>1. \A w \in Writers : writer[w] = IdleWriter
      BY DEF StreamInit
    <3>2. changes = 0
      BY DEF StreamInit
    <3>3. ASSUME NEW w \in Writers
          PROVE  /\ writer[w].change = 0 /\ writer[w].left = {} /\ ~writer[w].sending
                 /\ writer[w].plan = <<>>
      BY <2>2, <3>1
    <3>4. \A w \in Writers : writer[w].change <= changes
      <4>1. 0 <= 0
        OBVIOUS
      <4> QED
        BY <3>2, <3>3, <4>1, Zenon
    <3> QED
      BY <3>3, <3>4, Zenon DEF WriterInv
  <2> QED
    BY <2>4, <2>5, <2>6 DEF StreamInv, StreamInit
<1>2. StreamInv /\ [StreamNext]_streamVars => StreamInv'
  <2> SUFFICES ASSUME StreamInv, [StreamNext]_streamVars PROVE StreamInv'
    OBVIOUS
  <2>1. CASE UNCHANGED streamVars
    BY <2>1 DEF streamVars, StreamInv, StreamType, SubscriberInv, WriterInv, CoverInv, Covered
  <2> QED
    BY <2>1, ChangeKeeps, StartListKeeps, BroadcastKeeps, EndBroadcastKeeps, SendKeeps,
       ServeKeeps, WriteKeeps DEF StreamNext
<1>3. StreamInv => ChangesReachBrowsers
  <2> SUFFICES ASSUME StreamInv, NEW b \in Browsers, Doing(b, "loop"), ~sse[b].kicked
               PROVE  Covered(sse[b], told)
    BY DEF StreamInv, ChangesReachBrowsers, Covered
  <2>1. sse[b].steps \in Stages
    BY DEF StreamInv, StreamType, Handler
  <2>2. sse[b].steps = AtLoop
    BY <2>1, StageSteps DEF Doing
  <2> QED
    BY <2>2 DEF StreamInv, CoverInv
<1> QED
  BY <1>1, <1>2, <1>3, PTL DEF StreamSpec

-----------------------------------------------------------------------------
(* The history, page by page.                                              *)

\* What has been read is in order and ends at the cursor; of the rows that were there when
\* reading began, those that still are have been read or come after the cursor.
HistoryInv ==
    /\ stored \subseteq recorded /\ base \subseteq recorded /\ recorded \subseteq Records
    /\ pages \in Seq(Records)
    /\ \A i, j \in 1..Len(pages) : i < j => Newer(pages[i], pages[j])
    /\ cursor \in Records \cup {First, Done}
    /\ cursor = First => pages = <<>>
    /\ cursor \in Records => Len(pages) # 0 /\ pages[Len(pages)] = cursor
    /\ \A r \in base \cap stored :
        r.session = Session => \/ cursor = First
                               \/ cursor \in Records /\ Before(r, cursor)
                               \/ \E i \in 1..Len(pages) : pages[i] = r

LEMMA NewerOrders ==
    /\ \A r, q, t \in Records : Newer(r, q) /\ Newer(q, t) => Newer(r, t)
    /\ \A r \in Records : ~Newer(r, r)
BY RecordsAssumption DEF Newer

\* A page: the rows read now, and where the next one begins.
LEMMA PageKeeps == ASSUME HistoryInv, HistoryRows PROVE HistoryInv'
<1> DEFINE match == {r \in stored : r.session = Session /\ (cursor = First \/ Before(r, cursor))}
<1>1. PICK recs \in List(Limit + 1, cursor) :
            IF Len(recs) > Limit
            THEN pages' = pages \o SubSeq(recs, 1, Limit) /\ cursor' = recs[Limit]
            ELSE pages' = pages \o recs /\ cursor' = Done
  BY DEF HistoryRows
<1>2. PICK n \in 0..(Limit + 1) : recs \in [1..n -> match]
  BY <1>1 DEF List
<1>3. /\ match \subseteq Records /\ match \subseteq stored
      /\ cursor # Done /\ UNCHANGED <<stored, recorded>>
      /\ base' = IF cursor = First THEN stored ELSE base
      /\ Limit \in Nat /\ Limit # 0
  BY RecordsAssumption DEF HistoryInv, HistoryRows
<1>4. /\ recs \in Seq(Records) /\ Len(recs) = n /\ \A i \in 1..n : recs[i] \in match
  BY <1>2, <1>3
<1>5. /\ \A i, j \in 1..n : i < j => Newer(recs[i], recs[j])
      /\ \A r \in match : \/ \E i \in 1..n : recs[i] = r
                          \/ n = Limit + 1 /\ \A i \in 1..n : Newer(recs[i], r)
  BY <1>1, <1>4 DEF List
<1>6. PICK p \in Seq(Records) :
            /\ pages' = pages \o p
            /\ Len(p) <= n /\ Len(p) \in Nat /\ \A i \in 1..Len(p) : p[i] = recs[i]
            /\ \/ n = Limit + 1 /\ Len(p) = Limit /\ cursor' = recs[Limit]
               \/ n <= Limit /\ Len(p) = n /\ cursor' = Done
  <2>1. CASE Len(recs) > Limit
    <3>1. n = Limit + 1 /\ 1..Limit \subseteq 1..n
      BY <1>2, <1>3, <1>4, <2>1
    <3>2. /\ SubSeq(recs, 1, Limit) \in Seq(Records) /\ Len(SubSeq(recs, 1, Limit)) = Limit
          /\ \A i \in 1..Limit : SubSeq(recs, 1, Limit)[i] = recs[i]
      BY <1>3, <1>4, <3>1
    <3>3. PICK p : p = SubSeq(recs, 1, Limit)
      OBVIOUS
    <3>4. p \in Seq(Records) /\ Len(p) = Limit /\ \A i \in 1..Limit : p[i] = recs[i]
      BY <3>2, <3>3
    <3>5. pages' = pages \o p /\ cursor' = recs[Limit]
      BY <1>1, <2>1, <3>3
    <3>6. Len(p) <= n /\ Len(p) \in Nat /\ \A i \in 1..Len(p) : p[i] = recs[i]
      BY <1>3, <3>1, <3>4
    <3> QED
      BY <3>1, <3>4, <3>5, <3>6
  <2>2. CASE ~(Len(recs) > Limit)
    BY <1>1, <1>3, <1>4, <2>2
  <2> QED
    BY <2>1, <2>2
<1> HIDE DEF match
<1>7. /\ pages' \in Seq(Records) /\ Len(pages') = Len(pages) + Len(p) /\ Len(pages) \in Nat
      /\ \A i \in 1..Len(pages) : pages'[i] = pages[i] /\ pages[i] \in Records
      /\ \A i \in 1..Len(p) : pages'[Len(pages) + i] = p[i]
  BY <1>6 DEF HistoryInv
<1>8. ASSUME NEW i \in 1..Len(pages), NEW j \in 1..Len(p) PROVE Newer(pages[i], p[j])
  <2>1. cursor \in Records
    BY <1>3, <1>7 DEF HistoryInv
  <2>2. p[j] \in match /\ p[j] \in Records
    BY <1>3, <1>4, <1>6
  <2>3. Newer(cursor, p[j])
    BY <2>1, <2>2, RecordsAssumption DEF match, Before
  <2>4. i = Len(pages) \/ i < Len(pages)
    BY <1>7
  <2>5. CASE i = Len(pages)
    BY <2>1, <2>3, <2>5 DEF HistoryInv
  <2>6. CASE i < Len(pages)
    <3>1. Newer(pages[i], cursor)
      <4>1. Len(pages) \in 1..Len(pages) /\ pages[Len(pages)] = cursor
        BY <1>7, <2>1, <2>6 DEF HistoryInv
      <4>2. Newer(pages[i], pages[Len(pages)])
        BY <2>6, <4>1 DEF HistoryInv
      <4> QED
        BY <4>1, <4>2
    <3> QED
      BY <1>7, <2>1, <2>2, <2>3, <3>1, NewerOrders
  <2> QED
    BY <2>4, <2>5, <2>6
<1>9. ASSUME NEW i \in 1..Len(pages'), NEW j \in 1..Len(pages'), i < j
      PROVE  Newer(pages'[i], pages'[j])
  <2>1. CASE j <= Len(pages)
    BY <1>7, <1>9, <2>1 DEF HistoryInv
  <2>2. CASE ~(j <= Len(pages))
    <3>1. PICK b \in 1..Len(p) : j = Len(pages) + b
      <4>1. j - Len(pages) \in 1..Len(p) /\ j = Len(pages) + (j - Len(pages))
        BY <1>6, <1>7, <2>2
      <4> QED
        BY <4>1
    <3>2. CASE i <= Len(pages)
      <4>1. i \in 1..Len(pages)
        BY <1>7, <3>2
      <4>2. pages'[i] = pages[i] /\ pages'[j] = p[b] /\ Newer(pages[i], p[b])
        BY <1>7, <1>8, <3>1, <4>1
      <4> QED
        BY <4>2
    <3>3. CASE ~(i <= Len(pages))
      <4>1. PICK a \in 1..Len(p) : i = Len(pages) + a
        <5>1. i - Len(pages) \in 1..Len(p) /\ i = Len(pages) + (i - Len(pages))
          BY <1>6, <1>7, <3>3
        <5> QED
          BY <5>1
      <4>2. a \in 1..n /\ b \in 1..n /\ a < b
        BY <1>6, <1>7, <1>9, <3>1, <4>1
      <4> QED
        BY <1>5, <1>6, <1>7, <3>1, <4>1, <4>2
    <3> QED
      BY <3>2, <3>3
  <2> QED
    BY <2>1, <2>2
<1>10. cursor' \in Records \cup {First, Done} /\ cursor' # First
  <2>1. CASE n = Limit + 1 /\ cursor' = recs[Limit]
    <3>1. Limit \in 1..n
      BY <1>3, <2>1
    <3>2. cursor' \in Records
      BY <1>3, <1>4, <2>1, <3>1
    <3> QED
      BY <3>2, RecordsAssumption
  <2>2. CASE cursor' = Done
    BY <2>2 DEF First, Done
  <2> QED
    BY <1>6, <2>1, <2>2
<1>11. ASSUME cursor' \in Records PROVE Len(pages') # 0 /\ pages'[Len(pages')] = cursor'
  <2>1. Len(p) = Limit /\ cursor' = recs[Limit]
    BY <1>6, <1>11, RecordsAssumption
  <2>2. Limit \in 1..Len(p)
    BY <1>3, <2>1
  <2> QED
    BY <1>3, <1>6, <1>7, <2>1, <2>2
<1>12. ASSUME NEW i \in 1..Len(p) PROVE \E k \in 1..Len(pages') : pages'[k] = p[i]
  <2>1. Len(pages) + i \in 1..Len(pages')
    BY <1>6, <1>7
  <2> QED
    BY <1>7, <2>1
<1>13. ASSUME NEW r \in base' \cap stored', r.session = Session
       PROVE  \/ cursor' \in Records /\ Before(r, cursor')
              \/ \E i \in 1..Len(pages') : pages'[i] = r
  <2>1. CASE \E i \in 1..Len(pages) : pages[i] = r
    <3>1. PICK i \in 1..Len(pages) : pages[i] = r
      BY <2>1
    <3>2. i \in 1..Len(pages')
      BY <1>6, <1>7
    <3> QED
      BY <1>7, <3>1, <3>2
  <2>2. CASE ~\E i \in 1..Len(pages) : pages[i] = r
    <3>1. r \in match
      BY <1>3, <1>13, <2>2 DEF HistoryInv, match
    <3>2. CASE n <= Limit
      <4>1. Len(p) = n /\ n # Limit + 1
        BY <1>3, <1>6, <3>2
      <4>2. PICK i \in 1..n : recs[i] = r
        BY <1>5, <3>1, <4>1
      <4> QED
        BY <1>6, <1>12, <4>1, <4>2
    <3>3. CASE n = Limit + 1
      <4>1. Len(p) = Limit /\ cursor' = recs[Limit] /\ Limit \in 1..n
        BY <1>3, <1>6, <3>3
      <4>2. cursor' \in Records
        BY <1>3, <1>4, <4>1
      <4>3. CASE \E i \in 1..n : recs[i] = r
        <5>1. PICK i \in 1..n : recs[i] = r
          BY <4>3
        <5>2. i \in 1..Limit \/ (i = n /\ Limit < i)
          BY <1>3, <3>3
        <5>3. CASE i \in 1..Limit
          BY <1>6, <1>12, <4>1, <5>1, <5>3
        <5>4. CASE i = n /\ Limit < i
          BY <1>5, <4>1, <4>2, <5>1, <5>4 DEF Before
        <5> QED
          BY <5>2, <5>3, <5>4
      <4>4. CASE \A i \in 1..n : Newer(recs[i], r)
        BY <4>1, <4>2, <4>4 DEF Before
      <4> QED
        BY <1>5, <3>1, <4>3, <4>4
    <3> QED
      BY <1>6, <3>2, <3>3
  <2> QED
    BY <2>1, <2>2
<1>14. stored' \subseteq recorded' /\ base' \subseteq recorded' /\ recorded' \subseteq Records
  BY <1>3 DEF HistoryInv
<1> QED
  BY <1>7, <1>9, <1>10, <1>11, <1>13, <1>14 DEF HistoryInv, Before

\* Reading page by page shows every call that stays recorded, and none twice: for pages
\* and histories of any size, however many calls are recorded and pruned meanwhile.
THEOREM PagingIsComplete == HistorySpec => []PagesAreComplete
<1>1. HistoryInit => HistoryInv
  <2> SUFFICES ASSUME HistoryInit PROVE HistoryInv
    OBVIOUS
  <2>1. pages \in Seq(Records) /\ Len(pages) = 0 /\ 1..0 = {} /\ pages = <<>>
    BY DEF HistoryInit
  <2>2. \A i, j \in 1..Len(pages) : i < j => Newer(pages[i], pages[j])
    BY <2>1
  <2>3. cursor = First /\ First \notin Records /\ stored = {} /\ base = {} /\ recorded = {}
    BY RecordsAssumption DEF HistoryInit
  <2> QED
    BY <2>1, <2>2, <2>3 DEF HistoryInv
<1>2. HistoryInv /\ [HistoryNext]_historyVars => HistoryInv'
  <2> SUFFICES ASSUME HistoryInv, [HistoryNext]_historyVars PROVE HistoryInv'
    OBVIOUS
  <2>1. ASSUME NEW r \in Records, Persist(r) PROVE HistoryInv'
    BY <2>1 DEF Persist, HistoryInv, Before, Newer
  <2>2. CASE Prune
    BY <2>2 DEF Prune, HistoryInv, Before, Newer
  <2>3. CASE UNCHANGED historyVars
    BY <2>3 DEF historyVars, HistoryInv, Before, Newer
  <2> QED
    BY <2>1, <2>2, <2>3, PageKeeps DEF HistoryNext
<1>3. HistoryInv => PagesAreComplete
  <2> SUFFICES ASSUME HistoryInv PROVE PagesAreComplete
    OBVIOUS
  <2>1. ASSUME NEW i \in 1..Len(pages), NEW j \in 1..Len(pages), pages[i].id = pages[j].id
        PROVE  i = j
    <3>1. pages[i] \in Records /\ pages[i] = pages[j]
      BY <2>1, RecordsAssumption DEF HistoryInv
    <3>2. ~(i < j) /\ ~(j < i)
      BY <3>1, NewerOrders DEF HistoryInv
    <3> QED
      BY <3>2
  <2>2. ASSUME cursor = Done, NEW r \in base \cap stored, r.session = Session
        PROVE  \E i \in 1..Len(pages) : pages[i] = r
    <3>1. cursor # First /\ cursor \notin Records
      BY <2>2, RecordsAssumption DEF First, Done
    <3> QED
      BY <2>2, <3>1 DEF HistoryInv
  <2> QED
    BY <2>1, <2>2 DEF PagesAreComplete
<1> QED
  BY <1>1, <1>2, <1>3, PTL DEF HistorySpec
================================================================================
