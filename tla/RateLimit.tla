------------------------------- MODULE RateLimit -------------------------------
(***************************************************************************)
(* The rate limiter of one rule and one client address: a Lua script counts*)
(* the requests of a window in a Redis key that expires with the window.   *)
(*                                                                         *)
(* Source: production_hardening.py (match_rate_limit_rule, RedisRateLimiter*)
(* and the middleware's dispatch); external: INCR, EXPIRE, TTL of Redis.   *)
(*                                                                         *)
(* A tick is a second.  The script is one step of Redis; the middleware    *)
(* lets a request through when Redis does not answer.                      *)
(***************************************************************************)
EXTENDS Naturals, Sequences, FiniteSets

CONSTANTS
    Limit,         \* rate_limit_*_requests
    Window,        \* rate_limit_window_seconds
    MaxTime,       \* bound: seconds
    MaxOutages     \* bound: requests while Redis does not answer

ASSUME RateAssumption ==
    /\ Limit \in Nat \ {0} /\ Window \in Nat \ {0}
    /\ MaxTime \in Nat /\ MaxOutages \in Nat

VARIABLES
    now,
    count, ttl,    \* the key; ttl = 0: no key
    admitted,      \* admitted[s]: requests let through until the end of second s
    outages,
    promise        \* end of the Retry-After of the last refusal

rateVars == <<now, count, ttl, admitted, outages, promise>>

RateTypeOK ==
    /\ now \in 0..MaxTime /\ ttl \in 0..Window
    /\ count \in Nat /\ (ttl = 0 <=> count = 0)
    /\ admitted \in [0..MaxTime -> Nat]
    /\ outages \in 0..MaxOutages /\ promise \in 0..(MaxTime + Window)

RateInit ==
    /\ now = 0 /\ count = 0 /\ ttl = 0
    /\ admitted = [s \in 0..MaxTime |-> 0]
    /\ outages = 0 /\ promise = 0

\* Anything but 429 goes on to call_next.
LetThrough ==
    admitted' = [s \in 0..MaxTime |-> IF s >= now THEN admitted[s] + 1 ELSE admitted[s]]

\* A second passes; the key is gone with its last one.
Tick ==
    /\ now < MaxTime
    /\ now' = now + 1
    /\ ttl' = IF ttl = 0 THEN 0 ELSE ttl - 1
    /\ count' = IF ttl <= 1 THEN 0 ELSE count
    /\ UNCHANGED <<admitted, outages, promise>>

\* Mutant: EXPIRE with every request that is let through.
RequestRenews ==
    /\ count <= Limit
    /\ LET n == count + 1
       IN  /\ count' = n
           /\ ttl' = IF n <= Limit THEN Window ELSE ttl
           /\ IF n <= Limit
              THEN LetThrough /\ UNCHANGED promise
              ELSE /\ promise' = now + Window
                   /\ UNCHANGED admitted
    /\ UNCHANGED <<now, outages>>

\* INCR, EXPIRE when it made the key, TTL; 429 with Retry-After above the limit.
Request ==
    /\ count <= Limit                    \* one refusal counts as any number
    /\ LET n == count + 1
           left == IF count = 0 THEN Window ELSE ttl
       IN  /\ count' = n /\ ttl' = left
           /\ IF n <= Limit
              THEN LetThrough /\ UNCHANGED promise
              ELSE /\ promise' = now + left
                   /\ UNCHANGED admitted
    /\ UNCHANGED <<now, outages>>

\* RedisError: no decision, the request goes through.
RequestUncounted ==
    /\ outages < MaxOutages /\ outages' = outages + 1
    /\ LetThrough
    /\ UNCHANGED <<now, count, ttl, promise>>

RateNext == Tick \/ Request \/ RequestUncounted

-----------------------------------------------------------------------------
\* In the seconds from s to t.
AdmittedFrom(s, t) == admitted[t] - (IF s = 0 THEN 0 ELSE admitted[s - 1])

\* Any Window seconds let at most two windows' worth through, and the client
\* that waits as long as Retry-After says finds its old window gone
\* (RedisRateLimiter.check, _RATE_LIMIT_SCRIPT).
RateIsLimited ==
    /\ \A s \in 0..now :
          LET t == IF s + Window - 1 < now THEN s + Window - 1 ELSE now
          IN  AdmittedFrom(s, t) <= 2 * Limit + outages
    /\ count > Limit => promise = now + ttl
=============================================================================
