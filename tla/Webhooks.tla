------------------------------ MODULE Webhooks ------------------------------
(***************************************************************************)
(* The webhook dispatcher (internal/app/events/webhook.go): a queue, one   *)
(* goroutine that posts its events, and a receiver that may be down, or    *)
(* whose answer may be lost.                                               *)
(***************************************************************************)
EXTENDS Integers, Sequences

CONSTANTS
    QueueCap,    \* webhookQueueSize, 256 in the code
    MaxAttempts, \* webhookMaxAttempts, 3 in the code
    MaxEvents    \* events, a bound

VARIABLES
    events,   \* events made so far; they are numbered
    queue,    \* d.queue
    job,      \* the event being delivered and its attempts, or NoJob
    received, \* the newest event the receiver got
    ordered   \* it got no event after a newer one

hookVars == <<events, queue, job, received, ordered>>

NoJob == [ev |-> 0, attempt |-> 0]

HookInit == events = 0 /\ queue = <<>> /\ job = NoJob /\ received = 0 /\ ordered = TRUE

\* An event that does not fit is dropped.
enqueue ==
    /\ events < MaxEvents
    /\ events' = events + 1
    /\ queue' = IF Len(queue) < QueueCap THEN Append(queue, events + 1) ELSE queue
    /\ UNCHANGED <<job, received, ordered>>

run ==
    /\ job = NoJob /\ queue # <<>>
    /\ job' = [ev |-> Head(queue), attempt |-> 0]
    /\ queue' = Tail(queue)
    /\ UNCHANGED <<events, received, ordered>>

\* Mutant: an event that could not be delivered is put back into the queue.
Retry_Requeue == job' = NoJob /\ queue' = Append(queue, job.ev)

\* Mutant: there is no last attempt, the count starts again.
Retry_Forever ==
    /\ job' = [job EXCEPT !.attempt = (@ + 1) % MaxAttempts]
    /\ UNCHANGED queue

\* After the last attempt the event is given up; before, it is posted again, and the
\* events behind it wait.
Retry ==
    /\ job' = IF job.attempt + 1 = MaxAttempts THEN NoJob ELSE [job EXCEPT !.attempt = @ + 1]
    /\ UNCHANGED queue

Receive ==
    /\ received' = IF job.ev > received THEN job.ev ELSE received
    /\ ordered' = (ordered /\ job.ev >= received)

\* post: the receiver takes the event and says so, or its answer is lost or not 2xx, or it
\* is not reached.
deliver ==
    /\ job # NoJob
    /\ \/ Receive /\ job' = NoJob /\ UNCHANGED queue
       \/ Receive /\ Retry
       \/ UNCHANGED <<received, ordered>> /\ Retry
    /\ UNCHANGED events

HookNext == enqueue \/ run \/ deliver

HookSpec == HookInit /\ [][HookNext]_hookVars

\* The dispatcher's goroutine runs; every post has a timeout, and so has every pause.
HookFairness == WF_hookVars(run) /\ WF_hookVars(deliver)

-----------------------------------------------------------------------------
(* Properties.                                                             *)

\* The receiver never gets an event after a later one, although it may get one more than
\* once: retries hold up the queue (webhookDispatcher.run, deliver).
DeliveredInOrder == ordered

\* Every event leaves the queue and the dispatcher, also when the receiver is never
\* reached (webhookDispatcher.deliver).
HooksSettle ==
    \A e \in 1..MaxEvents :
        (\E i \in 1..Len(queue) : queue[i] = e) ~>
            (job.ev # e /\ \A i \in 1..Len(queue) : queue[i] # e)
=============================================================================
