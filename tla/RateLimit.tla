----------------------------- MODULE RateLimit -----------------------------
(***************************************************************************)
(* checkRateLimit, which every call goes through once it is authenticated: *)
(* a fixed window, counted in Redis under one key per tenant and action.   *)
(* The module models one action; different actions share nothing.          *)
(*                                                                         *)
(* INCR, EXPIRE and TTL are three commands.  The process may die between   *)
(* them, the key may expire between them, and ioredis sends a command      *)
(* again when the connection broke before the reply (db/redis.js sets no   *)
(* limit to that), whether it was executed or not.                         *)
(***************************************************************************)
EXTENDS Accounts

CONSTANT max   \* LIMITS[action].max

ASSUME LimitAssumption == max \in Nat \ {0} /\ IsFiniteSet(Calls)

VARIABLES counter,  \* the tenant's key: its value, whether it expires, how often it has
          call,     \* where each call is in checkRateLimit, and what INCR told it
          resent    \* the increments that were executed and sent again

limitVars == <<counter, call, resent>>

vars == <<accountVars, limitVars>>

Unchecked == [pc |-> "start", tenant |-> NoTenant, count |-> 0, window |-> 0]

Init ==
    /\ AccountsInit
    /\ counter = [t \in Tenants |-> [count |-> 0, ttl |-> FALSE, window |-> 0]]
    /\ call = [c \in Calls |-> Unchecked]
    /\ resent = {}

-----------------------------------------------------------------------------
\* Variant: DECR.
Decrement(t) == counter' = [counter EXCEPT ![t].count = @ - 1]

Increment(t) == counter' = [counter EXCEPT ![t].count = @ + 1]

\* Variants: the count is taken for that of the calls before this one, or the
\* last call is refused.
OneTooMany(n) == IF n > max + 1 THEN "ttl" ELSE "admitted"

OneTooFew(n) == IF n >= max THEN "ttl" ELSE "admitted"

\* Where the handler goes on after the reply of INCR, and after EXPIRE.
Limit(n) == IF n > max THEN "ttl" ELSE "admitted"

\* Variant: the first request of a window is not recognised.
NeverFirst(n) == FALSE

IsFirst(n) == n = 1

CanIncr(c, t) ==
    /\ req[c].pc = "work"
    /\ req[c].tenant = t
    /\ call[c].pc = "start"

Incr(c, t) ==
    /\ CanIncr(c, t)
    /\ LET n == counter[t].count + 1 IN
       call' = [call EXCEPT ![c] = [pc |-> IF IsFirst(n) THEN "expire" ELSE Limit(n),
                                    tenant |-> t, count |-> n, window |-> counter[t].window]]
    /\ Increment(t)
    /\ UNCHANGED <<accountVars, resent>>

\* Executed, but the reply is lost: the client library sends it again.  A call
\* does so once per window at most; that is a bound of the model.
IncrResent(c, t) ==
    /\ CanIncr(c, t)
    /\ [call |-> c, tenant |-> t, window |-> counter[t].window] \notin resent
    /\ resent' = resent \cup {[call |-> c, tenant |-> t, window |-> counter[t].window]}
    /\ Increment(t)
    /\ UNCHANGED <<accountVars, call>>

CallGoes(c, from, to) ==
    /\ call[c].pc = from
    /\ call' = [call EXCEPT ![c].pc = to]

SetExpiry(c) ==
    /\ CallGoes(c, "expire", Limit(call[c].count))
    /\ counter' = [counter EXCEPT ![call[c].tenant].ttl = TRUE]
    /\ UNCHANGED <<accountVars, resent>>

\* TTL only words the answer: 429 with the seconds that are left, or with a full
\* window if the key is gone or never expires.
ReadTtl(c) ==
    /\ CallGoes(c, "ttl", "limited")
    /\ UNCHANGED <<accountVars, counter, resent>>

\* The API process dies.
Die(c) ==
    /\ \E pc \in {"expire", "ttl"} : CallGoes(c, pc, "lost")
    /\ UNCHANGED <<accountVars, counter, resent>>

\* windowSecs have passed: Redis removes the key.
ExpireKey(t) ==
    /\ counter[t].ttl
    /\ counter' = [counter EXCEPT ![t] = [count |-> 0, ttl |-> FALSE, window |-> @.window + 1]]
    /\ UNCHANGED <<accountVars, call, resent>>

checkRateLimit(c) ==
    \/ \E t \in Tenants : Incr(c, t) \/ IncrResent(c, t)
    \/ SetExpiry(c) \/ ReadTtl(c) \/ Die(c)

Next ==
    \/ AccountsNext /\ UNCHANGED limitVars
    \/ \E c \in Calls : checkRateLimit(c)
    \/ \E t \in Tenants : ExpireKey(t)

Spec == Init /\ [][Next]_vars

-----------------------------------------------------------------------------
TypeOK ==
    /\ AccountsTypeOK
    /\ counter \in [Tenants -> [count : Nat, ttl : BOOLEAN, window : Nat]]
    /\ call \in [Calls -> [pc : {"start", "expire", "ttl", "admitted", "limited", "lost"},
                           tenant : Tenants \cup {NoTenant}, count : Nat, window : Nat]]
    /\ resent \subseteq [call : Calls, tenant : Tenants, window : Nat]

\* What was counted for a tenant during one life of its key.
Counted(t, w) == {c \in Calls : call[c].pc # "start" /\ call[c].tenant = t /\ call[c].window = w}

Resent(t, w) == {x \in resent : x.tenant = t /\ x.window = w}

Admitted(t, w) == {c \in Counted(t, w) : call[c].pc = "admitted"}

\* A tenant gets at most max calls through during one life of its counter, over
\* all of its keys and all API processes (rateLimit.js 14, 23).
WindowNeverOverfull ==
    \A t \in Tenants : \A w \in 0 .. counter[t].window : Cardinality(Admitted(t, w)) <= max

\* Whoever is refused shares the window with at least max other calls or
\* increments that were sent again: no tenant is limited by another's calls
\* (rateLimit.js 12, 23).
LimitedForAReason ==
    \A c \in Calls : call[c].pc \in {"ttl", "limited"} =>
        Cardinality(Counted(call[c].tenant, call[c].window))
            + Cardinality(Resent(call[c].tenant, call[c].window)) > max

\* Something kept the window from ending: the process that was to set the
\* lifetime died, or the increment that would have been told 1 was sent again.
NeverEnds(t) ==
    \/ Resent(t, counter[t].window) # {}
    \/ \E c \in Counted(t, counter[t].window) : call[c].pc = "lost" /\ call[c].count = 1

\* A counter without a lifetime has a call about to give it one, or the window
\* is one that was disturbed (rateLimit.js 16-21).
CounterExpires ==
    \A t \in Tenants :
        counter[t].count > 0 /\ ~counter[t].ttl =>
            \/ NeverEnds(t)
            \/ \E c \in Counted(t, counter[t].window) : call[c].pc = "expire"

\* A tenant that lost all keys stays out.
LockoutStays == [][LockoutIsFinal]_vars
=============================================================================
