------------------------------ MODULE RateLimit ------------------------------
(***************************************************************************)
(* The rate limiter of one client address (internal/app/ratelimit.go) and  *)
(* the janitor that forgets addresses that were not seen for a while.      *)
(* A tick is the time in which one token comes back.                       *)
(***************************************************************************)
EXTENDS Integers

CONSTANTS
    Limits   \* limiters: burst, and ticks after which an address is forgotten

\* An address is not forgotten before its tokens are all back: three minutes, against
\* bursts of two seconds' tokens and, at the login, of fifty seconds' (newIPRateLimiter,
\* loginRateBurst).  A limit set below one request in three minutes is left out.
ASSUME LimitsAssumption ==
    \A l \in Limits : l.burst \in Nat /\ l.evict \in Nat /\ l.burst <= l.evict

VARIABLES
    limit,   \* which limiter
    tokens,  \* of the address's entry, -1 when there is no entry
    idle,    \* ticks since lastSeen
    ideal    \* tokens of a limiter that is never forgotten

limitVars == <<limit, tokens, idle, ideal>>

LimitInit == limit \in Limits /\ tokens = -1 /\ idle = 0 /\ ideal = limit.burst

Refill(t) == IF t = -1 \/ t = limit.burst THEN t ELSE t + 1

Tick ==
    /\ idle <= limit.evict
    /\ tokens' = Refill(tokens) /\ ideal' = Refill(ideal)
    /\ idle' = idle + 1
    /\ UNCHANGED limit

\* The tokens a request finds: those of a new limiter, when there is no entry.
Found == IF tokens = -1 THEN limit.burst ELSE tokens

Less(t) == IF t = 0 THEN 0 ELSE t - 1

\* allow: the request takes a token, or is refused; the address was seen.
allow ==
    /\ tokens' = Less(Found) /\ ideal' = Less(ideal)
    /\ idle' = 0
    /\ UNCHANGED limit

\* Mutant: every entry may go.
Evicts_Any == TRUE

Evicts == idle > limit.evict

\* purge, from the janitor.
purge ==
    /\ tokens # -1 /\ Evicts
    /\ tokens' = -1
    /\ UNCHANGED <<limit, idle, ideal>>

LimitNext == Tick \/ allow \/ purge

LimitSpec == LimitInit /\ [][LimitNext]_limitVars

-----------------------------------------------------------------------------
(* Properties.                                                             *)

\* Forgetting an address gives it nothing: a request is answered as it would be if the
\* limiter kept every address for ever (ipRateLimiter.purge, rateLimitIdleEvict against
\* the bursts of newIPRateLimiter and of the login).
PurgeGivesNothing == Found = ideal
=============================================================================
