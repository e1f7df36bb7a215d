------------------------------ MODULE Accounts ------------------------------
(***************************************************************************)
(* Tenants and their API keys: POST /tenants, POST and DELETE /api-keys,   *)
(* and the hook that authenticates every other request.                    *)
(*                                                                         *)
(* createTenant looks the address up, then inserts the tenant and its      *)
(* first key in one transaction.  revokeApiKey reads the key, tests it and *)
(* stamps it, in two statements of their own.  Neither takes a lock on     *)
(* what it read.                                                           *)
(*                                                                         *)
(* A tenant and its first key are named by the registration, another key   *)
(* by the request that creates it.                                         *)
(***************************************************************************)
EXTENDS Integers, FiniteSets

CONSTANTS Tenants,      \* the registrations clients may send
          EmailOf,      \* the address each of them gives
          Registered,   \* those that are over when we begin to look
          Creates,      \* the requests for a further key
          Revokes,      \* the requests to revoke a key
          Calls,        \* the requests that the rate limit guards
          NoKey, NoTenant,
          MaxActors     \* bound: how many of all these are sent

Keys == Tenants \cup Creates

Requests == Creates \cup Revokes \cup Calls

ASSUME AccountsAssumption ==
    /\ Registered \subseteq Tenants
    /\ \A s, t \in Registered : EmailOf[s] = EmailOf[t] => s = t
    /\ Creates \cap Tenants = {}
    /\ Creates \cap Revokes = {}
    /\ Calls \cap (Creates \cup Revokes) = {}
    /\ NoKey \notin Keys
    /\ NoTenant \notin Tenants

VARIABLES signup,    \* where each registration is; its answer when it is over
          tenants,   \* the committed rows of tenants
          key,       \* each row of api_keys: its revoked_at
          owner,     \* ... and its tenant_id
          req       \* each authenticated request

accountVars == <<signup, tenants, key, owner, req>>

\* via: the key it came with; target: the key to revoke; touch: last_used_at is
\* still to be written; seen: the revocations answered before it was let in.
Unsent == [pc |-> "start", via |-> NoKey, tenant |-> NoTenant, target |-> NoKey,
           touch |-> "none", seen |-> {}]

AccountsInit ==
    /\ signup = [s \in Tenants |-> IF s \in Registered THEN "done" ELSE "start"]
    /\ tenants = Registered
    /\ key = [k \in Keys |-> IF k \in Registered THEN "live" ELSE "none"]
    /\ owner = [k \in Keys |-> IF k \in Tenants THEN k ELSE NoTenant]
    /\ req = [r \in Requests |-> Unsent]

-----------------------------------------------------------------------------
(* createTenant                                                              *)

SameEmail(s) == {t \in Tenants \ {s} : EmailOf[t] = EmailOf[s]}

\* Bound: no more requests than that are sent.
Sent == {s \in Tenants \ Registered : signup[s] # "start"}
            \cup {r \in Requests : req[r].pc # "start"}

CanStart == Cardinality(Sent) < MaxActors

SignupGoes(s, from, to) ==
    /\ signup[s] = from
    /\ signup' = [signup EXCEPT ![s] = to]

LookupEmail(s) ==
    /\ CanStart
    /\ SignupGoes(s, "start", IF SameEmail(s) \cap tenants # {} THEN "taken" ELSE "tenant")
    /\ UNCHANGED <<tenants, key, owner, req>>

\* The unique index makes the second of two inserts wait for the first ...
InsertTenant(s) ==
    /\ SignupGoes(s, "tenant", "key")
    /\ \A t \in SameEmail(s) : t \notin tenants /\ signup[t] \notin {"key", "commit"}
    /\ UNCHANGED <<tenants, key, owner, req>>

\* ... and fail if that commits: P2002, which nobody catches.
InsertRefused(s) ==
    /\ SignupGoes(s, "tenant", "error")
    /\ SameEmail(s) \cap tenants # {}
    /\ UNCHANGED <<tenants, key, owner, req>>

\* Variant: two inserts without a transaction.
InsertKeyAlone(s) ==
    /\ SignupGoes(s, "key", "commit")
    /\ tenants' = tenants \cup {s}
    /\ UNCHANGED <<key, owner, req>>

InsertKey(s) ==
    /\ SignupGoes(s, "key", "commit")
    /\ UNCHANGED <<tenants, key, owner, req>>

\* COMMIT; if the answer is lost, nobody ever learns the raw key.
CommitSignup(s) ==
    /\ \E answer \in {"done", "error"} : SignupGoes(s, "commit", answer)
    /\ tenants' = tenants \cup {s}
    /\ key' = [key EXCEPT ![s] = "live"]
    /\ UNCHANGED <<owner, req>>

AbortSignup(s) ==
    /\ \E pc \in {"tenant", "key", "commit"} : SignupGoes(s, pc, "error")
    /\ UNCHANGED <<tenants, key, owner, req>>

createTenant(s) == \/ LookupEmail(s) \/ InsertTenant(s) \/ InsertRefused(s)
                   \/ InsertKey(s) \/ CommitSignup(s) \/ AbortSignup(s)

-----------------------------------------------------------------------------
(* authenticate                                                              *)

\* Somebody was told the raw key.
Told(k) == IF k \in Tenants THEN signup[k] = "done" ELSE req[k].pc = "done"

Revoked(v) == req[v].pc = "done"

ValidKey(k) == key[k] = "live"

Admit(r, k) ==
    /\ req[r].pc = "start"
    /\ Told(k)
    /\ CanStart
    /\ req' = [req EXCEPT ![r] =
                 IF ValidKey(k)
                 THEN [Unsent EXCEPT !.pc = "work", !.via = k, !.tenant = owner[k],
                                     !.touch = "due", !.seen = {v \in Revokes : Revoked(v)}]
                 ELSE [Unsent EXCEPT !.pc = "denied", !.via = k]]
    /\ UNCHANGED <<signup, tenants, key, owner>>

\* Variant: the row is written back as it was read.
TouchRow(r) ==
    /\ req[r].touch = "due"
    /\ req' = [req EXCEPT ![r].touch = "none"]
    /\ key' = [key EXCEPT ![req[r].via] = "live"]
    /\ UNCHANGED <<signup, tenants, owner>>

\* setImmediate: at any time from now on.  The date it writes is for display.
Touch(r) ==
    /\ req[r].touch = "due"
    /\ req' = [req EXCEPT ![r].touch = "none"]
    /\ UNCHANGED <<signup, tenants, key, owner>>

-----------------------------------------------------------------------------
(* createApiKey, revokeApiKey                                                *)

Answer(r, from, answer) ==
    /\ req[r].pc = from
    /\ req' = [req EXCEPT ![r].pc = answer]

\* One insert; its answer may be lost.
createApiKey(c) ==
    /\ \E answer \in {"done", "error"} : Answer(c, "work", answer)
    /\ key' = [key EXCEPT ![c] = "live"]
    /\ owner' = [owner EXCEPT ![c] = req[c].tenant]
    /\ UNCHANGED <<signup, tenants>>

\* A request that dies has done nothing.
Fail(r) ==
    /\ \E pc \in {"work", "stamp"} : Answer(r, pc, "error")
    /\ UNCHANGED <<signup, tenants, key, owner>>

\* Variant: looked up by id alone.
AnyTenant(v, k) == key[k] # "none"

Findable(v, k) == key[k] # "none" /\ owner[k] = req[v].tenant

\* Variant: revoked_at is not looked at.
NeverRevoked(k) == FALSE

AlreadyRevoked(k) == key[k] = "revoked"

FindKey(v, k) ==
    /\ req[v].pc = "work"
    /\ req' = [req EXCEPT ![v].target = k,
                          ![v].pc = IF ~Findable(v, k) THEN "notfound"
                                    ELSE IF AlreadyRevoked(k) THEN "conflict"
                                    ELSE "stamp"]
    /\ UNCHANGED <<signup, tenants, key, owner>>

\* UPDATE by id, whatever the row says by now.
StampKey(v) ==
    /\ \E answer \in {"done", "error"} : Answer(v, "stamp", answer)
    /\ key' = [key EXCEPT ![req[v].target] = "revoked"]
    /\ UNCHANGED <<signup, tenants, owner>>

AccountsNext ==
    \/ \E s \in Tenants : createTenant(s)
    \/ \E r \in Requests : Touch(r) \/ \E k \in Keys : Admit(r, k)
    \/ \E r \in Creates \cup Revokes : Fail(r)
    \/ \E c \in Creates : createApiKey(c)
    \/ \E v \in Revokes : StampKey(v) \/ \E k \in Keys : FindKey(v, k)

-----------------------------------------------------------------------------
AccountsTypeOK ==
    /\ signup \in [Tenants -> {"start", "tenant", "key", "commit", "done", "taken", "error"}]
    /\ tenants \subseteq Tenants
    /\ key \in [Keys -> {"none", "live", "revoked"}]
    /\ owner \in [Keys -> Tenants \cup {NoTenant}]
    /\ req \in [Requests -> [pc : {"start", "work", "denied", "stamp", "notfound",
                                   "conflict", "done", "error"},
                             via : Keys \cup {NoKey},
                             tenant : Tenants \cup {NoTenant},
                             target : Keys \cup {NoKey},
                             touch : {"due", "none"},
                             seen : SUBSET Revokes]]

\* However registrations interleave, fail or are repeated, an address has one
\* tenant, and a tenant has had a key from the start (tenantService.js 7-29).
TenantsAreSound ==
    \A s \in tenants : SameEmail(s) \cap tenants = {} /\ key[s] # "none"

\* Nobody revokes a key of another tenant, whatever id they name: the WHERE
\* clause is the only isolation (apiKeyService.js 41-45).
RevokedByItsTenant ==
    \A v \in Revokes :
        req[v].pc \in {"stamp", "done"} => owner[req[v].target] = req[v].tenant

\* Of two revocations of one key that are both answered with success, neither
\* began after the other was answered (apiKeyService.js 50-51).
SecondRevocationConflicts ==
    \A v, w \in Revokes :
        Revoked(v) /\ Revoked(w) /\ v \in req[w].seen => req[v].target # req[w].target

\* A tenant whose keys are all revoked, with no request left that was let in
\* before, never has a valid key again: late writes of last_used_at and requests
\* with old keys revive nothing (authenticate.js 16-27, 36-40).
LockedOut(t) ==
    /\ t \in tenants
    /\ \A k \in Keys : owner[k] = t => key[k] # "live"
    /\ \A c \in Creates : req[c].tenant = t => req[c].pc # "work"

LockoutIsFinal == \A t \in Tenants : LockedOut(t) => LockedOut(t)'
=============================================================================
