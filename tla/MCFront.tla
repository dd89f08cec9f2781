------------------------------- MODULE MCFront -------------------------------
(* The parts of the server's front side by side: each behaviour runs one of  *)
(* them, chosen at the start, and leaves the others as they are.             *)
EXTENDS EventStream, Webhooks, History, RateLimit

VARIABLE part

vars == <<part, streamVars, hookVars, historyVars, limitVars>>

\* Six calls of two sessions; of session "a" two end in the same millisecond.
MCRecords ==
    {[id |-> n, session |-> IF n = 3 THEN "b" ELSE "a", ended |-> n \div 2] : n \in 1..6}

\* The login (0.1 requests a second, burst 5) and an API limit of one request a second
\* (burst 2), both forgotten after three minutes.
MCLimits == {[burst |-> 5, evict |-> 18], [burst |-> 2, evict |-> 180]}

Init ==
    /\ part \in {"stream", "hooks", "history", "limit"}
    /\ StreamInit /\ HookInit /\ HistoryInit /\ LimitInit
    /\ part # "limit" => limit.burst = 5

Next ==
    /\ UNCHANGED part
    /\ \/ part = "stream" /\ StreamNext /\ UNCHANGED <<hookVars, historyVars, limitVars>>
       \/ part = "hooks" /\ HookNext /\ UNCHANGED <<streamVars, historyVars, limitVars>>
       \/ part = "history" /\ HistoryNext /\ UNCHANGED <<streamVars, hookVars, limitVars>>
       \/ part = "limit" /\ LimitNext /\ UNCHANGED <<streamVars, hookVars, historyVars>>

Spec == Init /\ [][Next]_vars /\ HookFairness
=============================================================================
