--------------------------- MODULE RateLimitProofs ---------------------------
(***************************************************************************)
(* Theorems about Accounts and RateLimit, for any number of registrations, *)
(* keys, requests and calls and any limit.                                 *)
(***************************************************************************)
EXTENDS RateLimit, FiniteSetTheorems, TLAPS

-----------------------------------------------------------------------------
(* Accounts                                                                  *)

\* A registration that is not over has no row; past its insert, no other of the
\* same address has one either.  The first key exists exactly when the tenant does.
SignupsAreSound ==
    \A s \in Tenants :
        /\ owner[s] = s
        /\ s \in tenants <=> key[s] # "none"
        /\ signup[s] \in {"start", "tenant", "key", "commit"} => s \notin tenants
        /\ signup[s] \in {"key", "commit"} =>
              /\ SameEmail(s) \cap tenants = {}
              /\ \A t \in SameEmail(s) : signup[t] \notin {"key", "commit"}

\* A key to be created does not exist; one to be revoked does, in its tenant.
KeysAreSound ==
    /\ \A c \in Creates : req[c].pc \in {"start", "work"} => key[c] = "none"
    /\ \A v \in Revokes : req[v].pc \in {"stamp", "done"} =>
           req[v].target \in Keys /\ key[req[v].target] # "none"

\* What was revoked once is revoked for good.
RevocationsAreDone ==
    \A w \in Revokes :
        /\ req[w].pc = "done" => key[req[w].target] = "revoked"
        /\ \A v \in req[w].seen : req[v].pc = "done"
        /\ req[w].pc \in {"stamp", "done"} =>
              \A v \in req[w].seen : req[v].target # req[w].target

AccountsInv ==
    /\ AccountsTypeOK
    /\ TenantsAreSound
    /\ SignupsAreSound
    /\ KeysAreSound
    /\ RevokedByItsTenant
    /\ RevocationsAreDone

LEMMA AccountsInvInit == AccountsInit => AccountsInv
<1> SUFFICES ASSUME AccountsInit PROVE AccountsInv
  OBVIOUS
<1> USE AccountsAssumption DEF AccountsInit, Unsent, Keys, Requests
<1>1. AccountsTypeOK
  BY DEF AccountsTypeOK
<1>2. TenantsAreSound
  BY DEF TenantsAreSound, SameEmail
<1>3. SignupsAreSound
  BY DEF SignupsAreSound
<1>4. KeysAreSound /\ RevokedByItsTenant /\ RevocationsAreDone
  BY DEF KeysAreSound, RevokedByItsTenant, RevocationsAreDone
<1> QED BY <1>1, <1>2, <1>3, <1>4 DEF AccountsInv

LEMMA AccountsTypeStep == AccountsTypeOK /\ AccountsNext => AccountsTypeOK'
<1> SUFFICES ASSUME AccountsTypeOK, AccountsNext PROVE AccountsTypeOK'
  OBVIOUS
<1> USE AccountsAssumption DEF AccountsTypeOK, Keys, Requests
<1>1. ASSUME NEW s \in Tenants, createTenant(s) PROVE AccountsTypeOK'
  BY <1>1 DEF createTenant, LookupEmail, InsertTenant, InsertRefused, InsertKey,
              CommitSignup, AbortSignup, SignupGoes
<1>2. ASSUME NEW r \in Requests, NEW k \in Keys, Admit(r, k) PROVE AccountsTypeOK'
  BY <1>2 DEF Admit, Unsent
<1>3. ASSUME NEW r \in Requests, Touch(r) PROVE AccountsTypeOK'
  BY <1>3 DEF Touch
<1>4. ASSUME NEW r \in Creates \cup Revokes, Fail(r) PROVE AccountsTypeOK'
  BY <1>4 DEF Fail, Answer
<1>5. ASSUME NEW c \in Creates, createApiKey(c) PROVE AccountsTypeOK'
  BY <1>5 DEF createApiKey, Answer
<1>6. ASSUME NEW v \in Revokes, NEW k \in Keys, FindKey(v, k) PROVE AccountsTypeOK'
  BY <1>6 DEF FindKey
<1>7. ASSUME NEW v \in Revokes, StampKey(v) PROVE AccountsTypeOK'
  <2>1. key' \in [Keys -> {"none", "live", "revoked"}]
    BY <1>7 DEF StampKey
  <2>2. req' = [req EXCEPT ![v].pc = "done"] \/ req' = [req EXCEPT ![v].pc = "error"]
    BY <1>7 DEF StampKey, Answer
  <2>3. v \in Requests
    OBVIOUS
  <2> QED BY <1>7, <2>1, <2>2, <2>3 DEF StampKey
<1> QED
  BY <1>1, <1>2, <1>3, <1>4, <1>5, <1>6, <1>7 DEF AccountsNext

\* Registrations: nobody else has the address, and only CommitSignup adds a row.
LEMMA AccountsInvSignup ==
    ASSUME AccountsInv, AccountsTypeOK', NEW s \in Tenants, createTenant(s)
    PROVE  AccountsInv'
<1> USE AccountsAssumption DEF AccountsInv, AccountsTypeOK, TenantsAreSound,
        SignupsAreSound, KeysAreSound, RevokedByItsTenant, RevocationsAreDone,
        SameEmail, SignupGoes, Keys, Requests
<1>1. CASE LookupEmail(s)
  BY <1>1 DEF LookupEmail
<1>2. CASE InsertTenant(s)
  <2>1. signup' = [signup EXCEPT ![s] = "key"]
    BY <1>2 DEF InsertTenant
  <2>2. UNCHANGED <<tenants, key, owner, req>>
    BY <1>2 DEF InsertTenant
  <2>3. \A u \in Tenants :
           signup'[u] \in {"start", "tenant", "key", "commit"} => u \notin tenants
    BY <1>2, <2>1 DEF InsertTenant
  <2>4. SignupsAreSound'
    <3> SUFFICES ASSUME NEW u \in Tenants, signup'[u] \in {"key", "commit"}
                 PROVE  /\ SameEmail(u) \cap tenants = {}
                        /\ \A t \in SameEmail(u) : signup'[t] \notin {"key", "commit"}
      BY <2>2, <2>3
    <3>1. CASE u = s
      BY <1>2, <2>1, <3>1 DEF InsertTenant
    <3>2. CASE u # s
      <4>1. signup[u] \in {"key", "commit"}
        BY <2>1, <3>2
      <4>2. u \notin SameEmail(s)
        BY <1>2, <4>1 DEF InsertTenant
      <4>3. s \notin SameEmail(u)
        BY <3>2, <4>2
      <4> QED BY <2>1, <4>1, <4>3
    <3> QED BY <3>1, <3>2
  <2> QED BY <2>2, <2>4
<1>3. CASE InsertRefused(s)
  BY <1>3 DEF InsertRefused
<1>4. CASE InsertKey(s)
  BY <1>4 DEF InsertKey
<1>5. CASE CommitSignup(s)
  BY <1>5 DEF CommitSignup
<1>6. CASE AbortSignup(s)
  BY <1>6 DEF AbortSignup
<1> QED BY <1>1, <1>2, <1>3, <1>4, <1>5, <1>6 DEF createTenant

\* Requests: a key is created once, and what a revocation finds stays.
LEMMA AccountsInvRequest ==
    ASSUME AccountsInv, AccountsTypeOK', AccountsNext,
           ~ \E s \in Tenants : createTenant(s)
    PROVE  AccountsInv'
<1> USE AccountsAssumption DEF AccountsInv, AccountsTypeOK, TenantsAreSound,
        SignupsAreSound, KeysAreSound, RevokedByItsTenant, RevocationsAreDone,
        SameEmail, Keys, Requests
<1>1. ASSUME NEW r \in Requests, NEW k \in Keys, Admit(r, k) PROVE AccountsInv'
  <2> USE DEF Admit, Unsent
  <2>1. UNCHANGED <<signup, tenants, key, owner>>
    BY <1>1
  <2>2. \A q \in Requests : q # r => req'[q] = req[q]
    BY <1>1
  <2>3. req[r].pc = "start" /\ req'[r].pc \in {"work", "denied"}
    BY <1>1
  <2>4. \A v \in req'[r].seen : v \in Revokes /\ req[v].pc = "done"
    BY <1>1 DEF Revoked
  <2> HIDE DEF Admit, Unsent
  <2>5. TenantsAreSound' /\ SignupsAreSound' /\ KeysAreSound' /\ RevokedByItsTenant'
    BY <2>1, <2>2, <2>3
  <2>6. RevocationsAreDone'
    BY <2>1, <2>2, <2>3, <2>4
  <2> QED BY <2>5, <2>6
<1>2. ASSUME NEW r \in Requests, Touch(r) PROVE AccountsInv'
  BY <1>2 DEF Touch
<1>3. ASSUME NEW r \in Creates \cup Revokes, Fail(r) PROVE AccountsInv'
  BY <1>3 DEF Fail, Answer
<1>4. ASSUME NEW c \in Creates, createApiKey(c) PROVE AccountsInv'
  BY <1>4 DEF createApiKey, Answer
<1>5. ASSUME NEW v \in Revokes, NEW k \in Keys, FindKey(v, k) PROVE AccountsInv'
  <2> USE DEF FindKey, Findable, AlreadyRevoked
  <2>1. UNCHANGED <<signup, tenants, key, owner>>
    BY <1>5
  <2>2. \A q \in Requests : q # v => req'[q] = req[q]
    BY <1>5
  <2>3. /\ req[v].pc = "work" /\ req'[v].seen = req[v].seen
        /\ req'[v].target = k /\ req'[v].tenant = req[v].tenant
        /\ req'[v].pc \in {"notfound", "conflict", "stamp"}
        /\ req'[v].pc = "stamp" =>
             key[k] # "none" /\ key[k] # "revoked" /\ owner[k] = req[v].tenant
    BY <1>5
  <2> HIDE DEF FindKey, Findable, AlreadyRevoked
  <2>4. TenantsAreSound' /\ SignupsAreSound' /\ KeysAreSound'
    BY <2>1, <2>2, <2>3
  <2>5. RevokedByItsTenant'
    BY <2>1, <2>2, <2>3
  <2>6. RevocationsAreDone'
    BY <2>1, <2>2, <2>3
  <2> QED BY <2>4, <2>5, <2>6
<1>6. ASSUME NEW v \in Revokes, StampKey(v) PROVE AccountsInv'
  BY <1>6 DEF StampKey, Answer
<1> QED BY <1>1, <1>2, <1>3, <1>4, <1>5, <1>6 DEF AccountsNext

LEMMA AccountsInvStep == AccountsInv /\ AccountsNext => AccountsInv'
<1> SUFFICES ASSUME AccountsInv, AccountsNext PROVE AccountsInv'
  OBVIOUS
<1>1. AccountsTypeOK'
  BY AccountsTypeStep DEF AccountsInv
<1>2. CASE \E s \in Tenants : createTenant(s)
  BY <1>1, <1>2, AccountsInvSignup
<1>3. CASE ~ \E s \in Tenants : createTenant(s)
  BY <1>1, <1>3, AccountsInvRequest
<1> QED BY <1>2, <1>3

\* A valid key comes from a registration or from a request that was let in.
LEMMA LockoutStep == AccountsInv /\ AccountsNext => LockoutIsFinal
<1> SUFFICES ASSUME AccountsInv, AccountsNext, NEW t \in Tenants, LockedOut(t)
             PROVE  LockedOut(t)'
  BY DEF LockoutIsFinal
<1> USE AccountsAssumption DEF AccountsInv, AccountsTypeOK, SignupsAreSound,
        LockedOut, Keys, Requests
<1>1. ASSUME NEW s \in Tenants, createTenant(s) PROVE LockedOut(t)'
  BY <1>1 DEF createTenant, LookupEmail, InsertTenant, InsertRefused, InsertKey,
              CommitSignup, AbortSignup, SignupGoes
<1>2. ASSUME NEW r \in Requests, NEW k \in Keys, Admit(r, k) PROVE LockedOut(t)'
  BY <1>2 DEF Admit, Unsent, ValidKey
<1>3. ASSUME NEW r \in Requests, Touch(r) PROVE LockedOut(t)'
  BY <1>3 DEF Touch
<1>4. ASSUME NEW r \in Creates \cup Revokes, Fail(r) PROVE LockedOut(t)'
  BY <1>4 DEF Fail, Answer
<1>5. ASSUME NEW c \in Creates, createApiKey(c) PROVE LockedOut(t)'
  BY <1>5 DEF createApiKey, Answer
<1>6. ASSUME NEW v \in Revokes, NEW k \in Keys, FindKey(v, k) PROVE LockedOut(t)'
  BY <1>6 DEF FindKey
<1>7. ASSUME NEW v \in Revokes, StampKey(v) PROVE LockedOut(t)'
  BY <1>7 DEF StampKey, Answer
<1> QED
  BY <1>1, <1>2, <1>3, <1>4, <1>5, <1>6, <1>7 DEF AccountsNext

-----------------------------------------------------------------------------
(* RateLimit                                                                 *)

CallCounted(c) == call[c].pc # "start"

\* What INCR told a call lies within what was counted; only who was told 1 is to
\* set the lifetime, only who was told at most max is let in.
CallsAreCounted ==
    \A c \in Calls : CallCounted(c) =>
        /\ call[c].tenant \in Tenants
        /\ call[c].count > 0
        /\ call[c].window <= counter[call[c].tenant].window
        /\ call[c].window = counter[call[c].tenant].window
              => call[c].count <= counter[call[c].tenant].count
        /\ call[c].pc = "expire" => call[c].count = 1
        /\ call[c].pc = "admitted" => call[c].count <= max

\* No two calls are told the same number.
CountsDiffer ==
    \A c, d \in Calls :
        /\ CallCounted(c) /\ CallCounted(d) /\ c # d
        /\ call[c].tenant = call[d].tenant /\ call[c].window = call[d].window
        => call[c].count # call[d].count

\* The counter is the number of increments in its window.
CounterIsExact ==
    /\ IsFiniteSet(resent)
    /\ \A x \in resent : x.window <= counter[x.tenant].window
    /\ \A t \in Tenants :
          counter[t].count = Cardinality(Counted(t, counter[t].window))
                                + Cardinality(Resent(t, counter[t].window))

LimitInv ==
    /\ TypeOK
    /\ CallsAreCounted
    /\ CountsDiffer
    /\ CounterExpires
    /\ CounterIsExact
    /\ LimitedForAReason

LEMMA CountedFinite ==
    ASSUME NEW t, NEW w
    PROVE  IsFiniteSet(Counted(t, w))
  BY LimitAssumption, FS_Subset DEF Counted

LEMMA ResentFinite ==
    ASSUME IsFiniteSet(resent), NEW t, NEW w
    PROVE  IsFiniteSet(Resent(t, w))
  BY FS_Subset DEF Resent

LEMMA LimitTypeStep == TypeOK /\ Next => TypeOK'
<1> SUFFICES ASSUME TypeOK, Next PROVE TypeOK'
  OBVIOUS
<1> USE DEF TypeOK
<1>1. CASE AccountsNext /\ UNCHANGED limitVars
  BY <1>1, AccountsTypeStep DEF limitVars
<1>2. ASSUME NEW c \in Calls, checkRateLimit(c) PROVE TypeOK'
  <2> AccountsTypeOK'
    BY <1>2 DEF checkRateLimit, Incr, IncrResent, SetExpiry, ReadTtl, Die, accountVars,
                AccountsTypeOK
  <2>1. ASSUME NEW t \in Tenants, Incr(c, t) PROVE TypeOK'
    BY <2>1 DEF Incr, Increment, Limit
  <2>2. ASSUME NEW t \in Tenants, IncrResent(c, t) PROVE TypeOK'
    BY <2>2 DEF IncrResent, Increment
  <2>3. CASE SetExpiry(c)
    BY <2>3 DEF SetExpiry, CallGoes, Limit
  <2>4. CASE ReadTtl(c) \/ Die(c)
    BY <2>4 DEF ReadTtl, Die, CallGoes
  <2> QED BY <1>2, <2>1, <2>2, <2>3, <2>4 DEF checkRateLimit
<1>3. ASSUME NEW t \in Tenants, ExpireKey(t) PROVE TypeOK'
  BY <1>3 DEF ExpireKey, accountVars, AccountsTypeOK
<1> QED BY <1>1, <1>2, <1>3 DEF Next

LEMMA LimitInvInit == Init => LimitInv
<1> SUFFICES ASSUME Init PROVE LimitInv
  OBVIOUS
<1> USE DEF Init
<1>1. TypeOK
  BY AccountsInvInit DEF TypeOK, AccountsInv, Unchecked
<1>2. CallsAreCounted /\ CountsDiffer /\ CounterExpires /\ LimitedForAReason
  BY DEF CallsAreCounted, CountsDiffer, CounterExpires, LimitedForAReason, CallCounted,
         Unchecked
<1>3. ASSUME NEW t, NEW w PROVE Counted(t, w) = {} /\ Resent(t, w) = {}
  BY DEF Counted, Resent, Unchecked
<1>4. CounterIsExact
  <2>1. IsFiniteSet({}) /\ Cardinality({}) = 0
    BY FS_EmptySet
  <2>2. ASSUME NEW t \in Tenants
        PROVE  counter[t].count = Cardinality(Counted(t, counter[t].window))
                                     + Cardinality(Resent(t, counter[t].window))
    <3>1. Counted(t, counter[t].window) = {} /\ Resent(t, counter[t].window) = {}
      BY <1>3
    <3>2. counter[t].count = 0
      OBVIOUS
    <3> HIDE DEF Init
    <3> QED BY <2>1, <3>1, <3>2
  <2> QED BY <2>1, <2>2 DEF CounterIsExact
<1> QED BY <1>1, <1>2, <1>4 DEF LimitInv

\* The steps of a call after INCR change no count.
LEMMA LimitInvRest ==
    ASSUME LimitInv, TypeOK', NEW c \in Calls, SetExpiry(c) \/ ReadTtl(c) \/ Die(c)
    PROVE  LimitInv'
<1> USE LimitAssumption DEF LimitInv, TypeOK
<1>1. /\ CallCounted(c)
      /\ \E pc \in {"admitted", "limited", "lost"} : call' = [call EXCEPT ![c].pc = pc]
      /\ call'[c].pc = "limited" => call[c].pc = "ttl"
      /\ call'[c].pc = "admitted" => call[c].count <= max
      /\ resent' = resent
  BY DEF SetExpiry, ReadTtl, Die, CallGoes, Limit, CallsAreCounted, CallCounted
<1>2. \A t \in Tenants : /\ counter'[t].count = counter[t].count
                         /\ counter'[t].window = counter[t].window
  BY DEF SetExpiry, ReadTtl, Die
<1>3. \A d \in Calls : /\ CallCounted(d)' <=> CallCounted(d)
                       /\ call'[d].tenant = call[d].tenant
                       /\ call'[d].count = call[d].count
                       /\ call'[d].window = call[d].window
                       /\ d # c => call'[d] = call[d]
  BY <1>1 DEF CallCounted
<1>4. ASSUME NEW t, NEW w PROVE Counted(t, w)' = Counted(t, w) /\ Resent(t, w)' = Resent(t, w)
  BY <1>1, <1>3 DEF Counted, Resent, CallCounted
<1>5. CallsAreCounted'
  <2> SUFFICES ASSUME NEW d \in Calls, CallCounted(d)
               PROVE  CallsAreCounted!(d)'
    BY <1>3 DEF CallsAreCounted
  <2> QED BY <1>1, <1>2, <1>3 DEF CallsAreCounted
<1>6. CountsDiffer'
  BY <1>3 DEF CountsDiffer
<1>7. CounterIsExact'
  BY <1>1, <1>2, <1>4 DEF CounterIsExact
<1>8. LimitedForAReason'
  BY <1>1, <1>3, <1>4 DEF LimitedForAReason
<1>9. CounterExpires'
  <2>1. CASE SetExpiry(c)
    BY <2>1, <1>2, <1>3, <1>4 DEF SetExpiry, CallGoes, CounterExpires, NeverEnds, Counted
  <2>2. CASE ReadTtl(c)
    BY <2>2, <1>3, <1>4 DEF ReadTtl, CallGoes, CounterExpires, NeverEnds
  <2>3. CASE Die(c)
    <3> SUFFICES ASSUME NEW t \in Tenants, counter[t].count > 0, ~counter[t].ttl, ~NeverEnds(t)'
                 PROVE  \E d \in Counted(t, counter[t].window) : call'[d].pc = "expire"
      BY <2>3, <1>4 DEF Die, CounterExpires
    <3>1. PICK d \in Counted(t, counter[t].window) : call[d].pc = "expire"
      BY <2>3, <1>3, <1>4 DEF Die, CallGoes, CounterExpires, NeverEnds
    <3>2. call[d].count = 1 /\ d \in Calls
      BY <3>1 DEF CallsAreCounted, CallCounted, Counted
    <3>3. d # c
      BY <2>3, <3>1, <3>2, <1>3, <1>4 DEF Die, CallGoes, NeverEnds
    <3> QED BY <3>1, <3>2, <3>3, <1>3
  <2> QED BY <2>1, <2>2, <2>3
<1> QED BY <1>5, <1>6, <1>7, <1>8, <1>9

\* An increment is one more call or one more that is sent again.
LEMMA LimitInvIncr ==
    ASSUME LimitInv, TypeOK', NEW c \in Calls, NEW t \in Tenants, Incr(c, t)
    PROVE  LimitInv'
<1> USE LimitAssumption DEF LimitInv, TypeOK
<1>0. PICK w \in Nat, n \in Nat : w = counter[t].window /\ n = counter[t].count + 1
  OBVIOUS
<1>1. /\ ~CallCounted(c)
      /\ call'[c] = [pc |-> IF n = 1 THEN "expire" ELSE Limit(n),
                     tenant |-> t, count |-> n, window |-> w]
      /\ \A d \in Calls : d # c => call'[d] = call[d]
      /\ resent' = resent
  BY <1>0 DEF Incr, CanIncr, CallCounted, IsFirst
<1>2. /\ counter'[t].count = n /\ counter'[t].window = w /\ counter'[t].ttl = counter[t].ttl
      /\ \A u \in Tenants : u # t => counter'[u] = counter[u]
      /\ \A u \in Tenants : counter'[u].window = counter[u].window
  BY <1>0 DEF Incr, Increment
<1>3. CallCounted(c)' /\ \A d \in Calls : d # c => (CallCounted(d)' <=> CallCounted(d))
  BY <1>1 DEF CallCounted, Limit
<1>4. ASSUME NEW u, NEW x
      PROVE  /\ Counted(u, x)' = IF u = t /\ x = w THEN Counted(u, x) \cup {c}
                                                  ELSE Counted(u, x)
             /\ Resent(u, x)' = Resent(u, x)
  BY <1>1, <1>3 DEF Counted, Resent, CallCounted
<1>5. CallsAreCounted'
  <2>1. ASSUME NEW d \in Calls, d # c, CallCounted(d)
        PROVE  /\ call'[d] = call[d]
               /\ call[d].tenant \in Tenants
               /\ call[d].window = counter'[call[d].tenant].window
                     => call[d].count <= counter'[call[d].tenant].count
    BY <1>0, <1>1, <1>2, <2>1 DEF CallsAreCounted
  <2>2. call'[c].pc = "expire" => n = 1
    BY <1>1 DEF Limit
  <2>3. call'[c].pc = "admitted" => n <= max
    BY <1>1 DEF Limit
  <2> QED BY <1>0, <1>1, <1>2, <1>3, <2>1, <2>2, <2>3 DEF CallsAreCounted
<1>6. CountsDiffer'
  BY <1>0, <1>1, <1>3 DEF CountsDiffer, CallsAreCounted
<1>7. /\ c \notin Counted(t, w)
      /\ Cardinality(Counted(t, w)) \in Nat
      /\ Cardinality(Counted(t, w) \cup {c}) = Cardinality(Counted(t, w)) + 1
      /\ Cardinality(Resent(t, w)) \in Nat
  <2>1. c \notin Counted(t, w)
    BY <1>1 DEF Counted, CallCounted
  <2> QED BY <2>1, CountedFinite, ResentFinite, FS_CardinalityType, FS_AddElement
             DEF CounterIsExact
<1>8. /\ Cardinality(Counted(t, w)') = Cardinality(Counted(t, w)) + 1
       /\ Cardinality(Resent(t, w)') = Cardinality(Resent(t, w))
  <2>1. Counted(t, w)' = Counted(t, w) \cup {c} /\ Resent(t, w)' = Resent(t, w)
    BY <1>4
  <2> QED BY <1>7, <2>1
<1>9. counter[t].count = Cardinality(Counted(t, w)) + Cardinality(Resent(t, w))
  BY <1>0 DEF CounterIsExact
<1>10. CounterIsExact'
  <2>1. n = Cardinality(Counted(t, w)') + Cardinality(Resent(t, w)')
    BY <1>0, <1>7, <1>8, <1>9
  <2> QED BY <1>1, <1>2, <1>4, <2>1 DEF CounterIsExact
<1>11. LimitedForAReason'
  <2>1. n = Cardinality(Counted(t, w)') + Cardinality(Resent(t, w)')
    BY <1>0, <1>7, <1>8, <1>9
  <2>2. call'[c].pc \in {"ttl", "limited"} => n > max
    BY <1>1 DEF Limit
  <2>3. ASSUME NEW d \in Calls, d # c, call[d].pc \in {"ttl", "limited"},
               NEW u, NEW x, u = call[d].tenant, x = call[d].window
        PROVE  Cardinality(Counted(u, x)') + Cardinality(Resent(u, x)') > max
    <3>1. Cardinality(Counted(u, x)) + Cardinality(Resent(u, x)) > max
      BY <2>3 DEF LimitedForAReason
    <3>2. CASE u = t /\ x = w
      BY <1>7, <1>8, <3>1, <3>2
    <3>3. CASE ~(u = t /\ x = w)
      BY <1>4, <3>1, <3>3
    <3> QED BY <3>2, <3>3
  <2> SUFFICES ASSUME NEW d \in Calls, call'[d].pc \in {"ttl", "limited"}
               PROVE  (Cardinality(Counted(call[d].tenant, call[d].window))
                         + Cardinality(Resent(call[d].tenant, call[d].window)) > max)'
    BY DEF LimitedForAReason
  <2>4. CASE d = c
    BY <1>1, <2>1, <2>2, <2>4
  <2>5. CASE d # c
    <3>1. PICK u, x : u = call[d].tenant /\ x = call[d].window
      OBVIOUS
    <3>2. call'[d].tenant = u /\ call'[d].window = x /\ call[d].pc \in {"ttl", "limited"}
      BY <1>1, <2>5, <3>1
    <3>3. Cardinality(Counted(u, x)') + Cardinality(Resent(u, x)') > max
      BY <2>3, <2>5, <3>1, <3>2
    <3> QED BY <3>2, <3>3
  <2> QED BY <2>4, <2>5
<1>12. CounterExpires'
  <2> SUFFICES ASSUME NEW u \in Tenants, counter'[u].count > 0, ~counter'[u].ttl,
                      ~NeverEnds(u)'
               PROVE  (\E d \in Counted(u, counter[u].window) : call[d].pc = "expire")'
    BY DEF CounterExpires
  <2>0. PICK x : x = counter[u].window
    OBVIOUS
  <2>1. CASE u = t /\ n = 1
    <3>1. c \in Counted(t, w)' /\ call'[c].pc = "expire" /\ counter'[t].window = w
      BY <1>1, <1>2, <1>4, <2>1
    <3> QED BY <2>1, <3>1
  <2>2. CASE ~(u = t /\ n = 1)
    <3>1. counter[u].count > 0 /\ ~counter[u].ttl
      BY <1>0, <1>2, <2>2
    <3>2. ~NeverEnds(u)
      BY <1>1, <1>2, <1>3 DEF NeverEnds, Counted, Resent, CallCounted
    <3>3. PICK d \in Counted(u, counter[u].window) : call[d].pc = "expire"
      BY <3>1, <3>2 DEF CounterExpires
    <3>4. d \in Calls /\ d # c
      BY <1>1, <3>3 DEF Counted, CallCounted
    <3>5. d \in Counted(u, x)' /\ call'[d].pc = "expire" /\ counter'[u].window = x
      BY <1>1, <1>2, <1>4, <2>0, <3>3, <3>4
    <3> QED BY <3>5
  <2> QED BY <2>1, <2>2
<1> QED BY <1>5, <1>6, <1>10, <1>11, <1>12

LEMMA LimitInvResent ==
    ASSUME LimitInv, TypeOK', NEW c \in Calls, NEW t \in Tenants, IncrResent(c, t)
    PROVE  LimitInv'
<1> USE LimitAssumption DEF LimitInv, TypeOK
<1>1. PICK w \in Nat, n \in Nat : w = counter[t].window /\ n = counter[t].count + 1
  OBVIOUS
<1>2. PICK x : x = [call |-> c, tenant |-> t, window |-> w]
  OBVIOUS
<1>3. x \notin resent /\ resent' = resent \cup {x} /\ call' = call
  BY <1>1, <1>2 DEF IncrResent
<1>4. /\ counter'[t].count = n /\ counter'[t].window = w
      /\ \A u \in Tenants : u # t => counter'[u] = counter[u]
      /\ \A u \in Tenants : counter'[u].window = counter[u].window
                           /\ counter'[u].count >= counter[u].count
  BY <1>1 DEF IncrResent, Increment
<1>5. ASSUME NEW u, NEW y
      PROVE  /\ Resent(u, y)' = IF u = t /\ y = w THEN Resent(u, y) \cup {x}
                                                 ELSE Resent(u, y)
             /\ Counted(u, y)' = Counted(u, y)
  BY <1>2, <1>3 DEF Counted, Resent
<1>6. CallsAreCounted'
  <2>1. ASSUME NEW d \in Calls, CallCounted(d)
        PROVE  /\ call[d].tenant \in Tenants
               /\ call[d].window <= counter'[call[d].tenant].window
               /\ call[d].window = counter'[call[d].tenant].window
                     => call[d].count <= counter'[call[d].tenant].count
    BY <1>4, <2>1 DEF CallsAreCounted
  <2> QED BY <1>3, <2>1 DEF CallsAreCounted, CallCounted
<1>7. CountsDiffer'
  BY <1>3 DEF CountsDiffer, CallCounted
<1>8. /\ Cardinality(Counted(t, w)) \in Nat
      /\ Cardinality(Resent(t, w)) \in Nat
      /\ Cardinality(Resent(t, w)') = Cardinality(Resent(t, w)) + 1
      /\ Cardinality(Counted(t, w)') = Cardinality(Counted(t, w))
  <2>1. x \notin Resent(t, w)
    BY <1>3 DEF Resent
  <2>2. Resent(t, w)' = Resent(t, w) \cup {x} /\ Counted(t, w)' = Counted(t, w)
    BY <1>5
  <2>3. IsFiniteSet(Resent(t, w)) /\ IsFiniteSet(Counted(t, w))
    BY CountedFinite, ResentFinite DEF CounterIsExact
  <2> QED BY <2>1, <2>2, <2>3, FS_CardinalityType, FS_AddElement
<1>9. counter[t].count = Cardinality(Counted(t, w)) + Cardinality(Resent(t, w))
  BY <1>1 DEF CounterIsExact
<1>10. CounterIsExact'
  <2>1. n = Cardinality(Counted(t, w)') + Cardinality(Resent(t, w)')
    BY <1>1, <1>8, <1>9
  <2>2. IsFiniteSet(resent')
    BY <1>3, FS_AddElement DEF CounterIsExact
  <2>3. \A y \in resent' : y.window <= counter'[y.tenant].window
    BY <1>1, <1>2, <1>3, <1>4 DEF CounterIsExact
  <2>4. ASSUME NEW u \in Tenants
        PROVE  (counter[u].count = Cardinality(Counted(u, counter[u].window))
                                      + Cardinality(Resent(u, counter[u].window)))'
    <3>1. CASE u = t
      BY <1>4, <2>1, <3>1
    <3>2. CASE u # t
      <4>1. PICK y : y = counter[u].window
        OBVIOUS
      <4>2. Counted(u, y)' = Counted(u, y) /\ Resent(u, y)' = Resent(u, y)
        BY <1>5, <3>2
      <4>3. counter[u].count = Cardinality(Counted(u, y)) + Cardinality(Resent(u, y))
        BY <4>1 DEF CounterIsExact
      <4> QED BY <1>4, <3>2, <4>1, <4>2, <4>3
    <3> QED BY <3>1, <3>2
  <2> QED BY <2>2, <2>3, <2>4 DEF CounterIsExact
<1>11. LimitedForAReason'
  <2> SUFFICES ASSUME NEW d \in Calls, call[d].pc \in {"ttl", "limited"}
               PROVE  (Cardinality(Counted(call[d].tenant, call[d].window))
                         + Cardinality(Resent(call[d].tenant, call[d].window)) > max)'
    BY <1>3 DEF LimitedForAReason
  <2>1. PICK u, y : u = call[d].tenant /\ y = call[d].window
    OBVIOUS
  <2>2. Cardinality(Counted(u, y)) + Cardinality(Resent(u, y)) > max
    BY <2>1 DEF LimitedForAReason
  <2>3. Cardinality(Counted(u, y)') + Cardinality(Resent(u, y)') > max
    <3>1. CASE u = t /\ y = w
      BY <1>8, <2>2, <3>1
    <3>2. CASE ~(u = t /\ y = w)
      BY <1>5, <2>2, <3>2
    <3> QED BY <3>1, <3>2
  <2> QED BY <1>3, <2>1, <2>3
<1>12. CounterExpires'
  <2> SUFFICES ASSUME NEW u \in Tenants, counter'[u].count > 0, ~counter'[u].ttl,
                      ~NeverEnds(u)'
               PROVE  (\E d \in Counted(u, counter[u].window) : call[d].pc = "expire")'
    BY DEF CounterExpires
  <2>1. u # t
    <3>1. x \in Resent(t, w)'
      BY <1>2, <1>3 DEF Resent
    <3> QED BY <1>4, <3>1 DEF NeverEnds
  <2>2. counter'[u] = counter[u]
    BY <1>4, <2>1
  <2>3. ~NeverEnds(u)
    BY <1>3, <2>2 DEF NeverEnds, Counted, Resent
  <2> QED BY <1>3, <2>2, <2>3 DEF CounterExpires, Counted
<1> QED BY <1>6, <1>7, <1>10, <1>11, <1>12

\* The next window is empty.
LEMMA LimitInvExpire ==
    ASSUME LimitInv, TypeOK', NEW t \in Tenants, ExpireKey(t)
    PROVE  LimitInv'
<1> USE LimitAssumption DEF LimitInv, TypeOK
<1>1. PICK w \in Nat, v \in Nat : w = counter[t].window /\ v = w + 1
  OBVIOUS
<1>2. /\ call' = call /\ resent' = resent
      /\ counter'[t].count = 0 /\ counter'[t].window = v
      /\ \A u \in Tenants : u # t => counter'[u] = counter[u]
      /\ \A u \in Tenants : counter'[u].window >= counter[u].window
  BY <1>1 DEF ExpireKey
<1>3. ASSUME NEW u, NEW y PROVE Counted(u, y)' = Counted(u, y) /\ Resent(u, y)' = Resent(u, y)
  BY <1>2 DEF Counted, Resent
<1>4. Counted(t, v) = {} /\ Resent(t, v) = {}
  BY <1>1 DEF Counted, Resent, CallsAreCounted, CallCounted, CounterIsExact
<1>5. CallsAreCounted'
  <2>1. ASSUME NEW d \in Calls, CallCounted(d)
        PROVE  /\ call[d].tenant \in Tenants
               /\ call[d].window <= counter'[call[d].tenant].window
               /\ call[d].window = counter'[call[d].tenant].window
                     => call[d].count <= counter'[call[d].tenant].count
    <3>1. CASE call[d].tenant = t
      BY <1>1, <1>2, <2>1, <3>1 DEF CallsAreCounted
    <3>2. CASE call[d].tenant # t
      BY <1>2, <2>1, <3>2 DEF CallsAreCounted
    <3> QED BY <3>1, <3>2
  <2> QED BY <1>2, <2>1 DEF CallsAreCounted, CallCounted
<1>6. CountsDiffer' /\ LimitedForAReason'
  BY <1>2 DEF CountsDiffer, CallCounted, LimitedForAReason, Counted, Resent
<1>7. CounterIsExact'
  <2>1. \A y \in resent' : y.window <= counter'[y.tenant].window
    BY <1>2 DEF CounterIsExact
  <2>2. ASSUME NEW u \in Tenants
        PROVE  (counter[u].count = Cardinality(Counted(u, counter[u].window))
                                      + Cardinality(Resent(u, counter[u].window)))'
    <3>1. CASE u = t
      <4>1. Counted(u, v)' = {} /\ Resent(u, v)' = {}
        BY <1>3, <1>4, <3>1
      <4>2. Cardinality({}) = 0
        BY FS_EmptySet
      <4>3. counter'[u].count = 0 /\ counter'[u].window = v
        BY <1>2, <3>1
      <4>4. Cardinality(Counted(u, v)') + Cardinality(Resent(u, v)') = 0
        BY <4>1, <4>2
      <4> QED BY <4>3, <4>4
    <3>2. CASE u # t
      <4>1. counter'[u] = counter[u]
        BY <1>2, <3>2
      <4> QED BY <1>2, <4>1 DEF CounterIsExact, Counted, Resent
    <3> QED BY <3>1, <3>2
  <2> QED BY <1>2, <2>1, <2>2 DEF CounterIsExact
<1>8. CounterExpires'
  BY <1>2 DEF CounterExpires, NeverEnds, Counted, Resent
<1> QED BY <1>5, <1>6, <1>7, <1>8

LEMMA LimitInvStep == LimitInv /\ [Next]_vars => LimitInv'
<1> SUFFICES ASSUME LimitInv, [Next]_vars PROVE LimitInv'
  OBVIOUS
<1>1. CASE Next
  <2>1. TypeOK'
    BY <1>1, LimitTypeStep DEF LimitInv
  <2>2. CASE UNCHANGED limitVars
    BY <2>1, <2>2 DEF limitVars, LimitInv, CallsAreCounted, CountsDiffer, CounterExpires,
       CounterIsExact, LimitedForAReason, CallCounted, Counted, Resent, NeverEnds
  <2>3. ASSUME NEW c \in Calls, checkRateLimit(c) PROVE LimitInv'
    BY <2>1, <2>3, LimitInvIncr, LimitInvResent, LimitInvRest DEF checkRateLimit
  <2>4. ASSUME NEW t \in Tenants, ExpireKey(t) PROVE LimitInv'
    BY <2>1, <2>4, LimitInvExpire
  <2> QED BY <1>1, <2>2, <2>3, <2>4 DEF Next
<1>2. CASE UNCHANGED vars
  BY <1>2 DEF vars, accountVars, limitVars, LimitInv, TypeOK, AccountsTypeOK,
     CallsAreCounted, CountsDiffer, CounterExpires, CounterIsExact, LimitedForAReason,
     CallCounted, Counted, Resent, NeverEnds
<1> QED BY <1>1, <1>2

\* The calls let in were told different numbers between 1 and max.
LEMMA WindowFromInv == LimitInv => WindowNeverOverfull
<1> SUFFICES ASSUME LimitInv, NEW t \in Tenants, NEW w \in 0 .. counter[t].window
             PROVE  Cardinality(Admitted(t, w)) <= max
  BY DEF WindowNeverOverfull
<1> DEFINE told == [c \in Admitted(t, w) |-> call[c].count]
<1>1. told \in Injection(Admitted(t, w), 1 .. max)
  <2>1. \A c \in Admitted(t, w) : call[c].count \in 1 .. max
    BY LimitAssumption DEF LimitInv, TypeOK, Admitted, Counted, CallsAreCounted, CallCounted
  <2>2. \A c, d \in Admitted(t, w) : call[c].count = call[d].count => c = d
    BY DEF LimitInv, Admitted, Counted, CountsDiffer, CallCounted
  <2> QED BY <2>1, <2>2 DEF Injection, IsInjective
<1>2. IsFiniteSet(1 .. max) /\ Cardinality(1 .. max) = max
  BY FS_Interval, LimitAssumption
<1> QED BY <1>1, <1>2, FS_Injection

LEMMA AccountsStep == AccountsInv /\ [Next]_vars => AccountsInv' /\ LockoutIsFinal
<1> SUFFICES ASSUME AccountsInv, [Next]_vars PROVE AccountsInv' /\ LockoutIsFinal
  OBVIOUS
<1>1. CASE AccountsNext
  BY <1>1, AccountsInvStep, LockoutStep
<1>2. CASE UNCHANGED accountVars
  BY <1>2 DEF accountVars, AccountsInv, AccountsTypeOK, TenantsAreSound, SignupsAreSound,
     KeysAreSound, RevokedByItsTenant, RevocationsAreDone, LockoutIsFinal, LockedOut
<1>3. AccountsNext \/ UNCHANGED accountVars
  BY DEF Next, checkRateLimit, Incr, IncrResent, SetExpiry, ReadTtl, Die, ExpireKey, vars
<1> QED BY <1>1, <1>2, <1>3

-----------------------------------------------------------------------------
(* The theorems                                                              *)

\* What holds of tenants, keys and counters between any two steps.
THEOREM AccessInvariant == Spec => [](AccountsInv /\ LimitInv)
<1>1. Init => AccountsInv /\ LimitInv
  BY AccountsInvInit, LimitInvInit DEF Init
<1>2. (AccountsInv /\ LimitInv) /\ [Next]_vars => (AccountsInv /\ LimitInv)'
  BY AccountsStep, LimitInvStep
<1> QED BY <1>1, <1>2, PTL DEF Spec

\* Every variable has its type (Accounts and RateLimit as a whole).
THEOREM AccessTypeOK == Spec => []TypeOK
<1>1. LimitInv => TypeOK
  BY DEF LimitInv
<1> QED BY <1>1, AccessInvariant, PTL

\* Registrations that overlap, fail or are repeated leave one tenant per
\* address, with a key (tenantService.js 7-29).
THEOREM RegistrationsAreSound == Spec => []TenantsAreSound
<1>1. AccountsInv => TenantsAreSound
  BY DEF AccountsInv
<1> QED BY <1>1, AccessInvariant, PTL

\* Only a tenant's own requests revoke its keys (apiKeyService.js 40-48).
THEOREM RevocationsStayInside == Spec => []RevokedByItsTenant
<1>1. AccountsInv => RevokedByItsTenant
  BY DEF AccountsInv
<1> QED BY <1>1, AccessInvariant, PTL

\* A revocation that began after another of the same key was answered fails
\* (apiKeyService.js 50-57).
THEOREM RevocationsConflict == Spec => []SecondRevocationConflicts
<1>1. AccountsInv => SecondRevocationConflicts
  BY DEF AccountsInv, RevocationsAreDone, SecondRevocationConflicts, Revoked
<1> QED BY <1>1, AccessInvariant, PTL

\* A tenant without a valid key, and without a request let in before, never gets
\* one again (authenticate.js 16-40).
THEOREM LockedOutForGood == Spec => LockoutStays
<1>1. AccountsInv /\ [Next]_vars => [LockoutIsFinal]_vars
  BY AccountsStep
<1> QED BY <1>1, AccessInvariant, PTL DEF Spec, LockoutStays

\* At most max calls of a tenant pass during one life of its counter, however
\* processes interleave, die or send INCR again (rateLimit.js 14-31).
THEOREM LimitHolds == Spec => []WindowNeverOverfull
  BY WindowFromInv, AccessInvariant, PTL

\* No call is refused that the tenant's own calls and resent increments do not
\* account for (rateLimit.js 12, 23).
THEOREM RefusalsAreCounted == Spec => []LimitedForAReason
<1>1. LimitInv => LimitedForAReason
  BY DEF LimitInv
<1> QED BY <1>1, AccessInvariant, PTL

\* Only a death between INCR and EXPIRE or a resent INCR leaves a counter that
\* never expires (rateLimit.js 16-21).
THEOREM CountersExpire == Spec => []CounterExpires
<1>1. LimitInv => CounterExpires
  BY DEF LimitInv
<1> QED BY <1>1, AccessInvariant, PTL
=============================================================================
