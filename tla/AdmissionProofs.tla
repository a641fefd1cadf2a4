--------------------------- MODULE AdmissionProofs ---------------------------
(***************************************************************************)
(* Proofs about what stands before the agents: Admission, for any number   *)
(* of requests and any limits, and CircuitBreaker, for any callers.        *)
(***************************************************************************)
EXTENDS Admission, CircuitBreaker, Integers, FiniteSetTheorems, TLAPS

-----------------------------------------------------------------------------
(* The inductive invariant.                                                *)

CheckPhases == {"trimming", "counting", "adding"}
Waiting  == [phase : {"idle", "done"} \cup CheckPhases, tenant : Tenants, at : 0..MaxTime]
Creating == [phase : {"creating"}, body : Kinds]

Types ==
    /\ setup \in Setups
    /\ now \in 0..MaxTime /\ boots \in 0..MaxBoots
    /\ users \subseteq Users /\ tokens \subseteq Tokens
    /\ windows \in [Tenants -> SUBSET Stamps]
    /\ admitted \in [Tenants -> SUBSET Stamps]
    /\ widest \in [Tenants -> Nat]
    /\ request \in [Requests -> Waiting \cup Creating]
    /\ slow \subseteq Tenants /\ raced \subseteq Emails

\* A second user with an e-mail, one that is there or one that is being
\* created, comes of an overlap.
Accounts ==
    /\ \A u, v \in users : u.email = v.email => u = v \/ u.email \in raced
    /\ \A r \in Requests : request[r].phase = "creating" =>
          /\ \A u \in users : u.email = request[r].body.email => u.email \in raced
          /\ \A q \in Requests :
                (/\ q # r /\ request[q].phase = "creating"
                 /\ request[q].body.email = request[r].body.email)
                => request[r].body.email \in raced
    /\ \A k \in tokens : \E u \in users : u.tenant = k.tenant

\* What was let through in the minute before i.
Live(t, i) == {s \in admitted[t] : s.at <= i /\ s.at + Minute > i}

Adding(t) == {q \in Requests : request[q].phase = "adding" /\ request[q].tenant = t}

Bound(t) == Limit + Max({0, widest[t] - 1})

\* The checks under way, of any tenant.
Checks(t) ==
    /\ IsFiniteSet(admitted[t]) /\ IsFiniteSet(windows[t])
    /\ Cardinality(Checking(t)) <= widest[t] /\ widest[t] <= Cardinality(Requests)
    /\ setup.limiter = "memory" => Checking(t) = {}

\* Of a tenant for which no check took time: a check has begun now, the window
\* has every request that was let through in the last minute, and there is room
\* for those that are about to be.
Punctual(t) ==
    /\ \A q \in Checking(t) : request[q].at = now
    /\ \A s \in admitted[t] : s.at <= now
    /\ Live(t, now) \subseteq windows[t]
    /\ Cardinality(Live(t, now)) + Cardinality(Adding(t)) <= Bound(t)
    /\ \A i \in 0..now : Cardinality(Live(t, i)) <= Bound(t)

IInv ==
    /\ Types
    /\ Accounts
    /\ \A t \in Tenants : Checks(t) /\ (t \notin slow => Punctual(t))

-----------------------------------------------------------------------------
(* Bounds and counts.                                                      *)

\* The greater of two numbers.
LEMMA MaxOfTwo ==
    ASSUME NEW a \in Int, NEW b \in Int
    PROVE  Max({a, b}) = IF a >= b THEN a ELSE b
BY DEF Max

\* More checks at once may let more through.
LEMMA BoundGrows ==
    ASSUME NEW v \in Nat, NEW w \in Nat, v <= w
    PROVE  /\ Limit + Max({0, v - 1}) \in Nat
           /\ Limit + Max({0, v - 1}) <= Limit + Max({0, w - 1})
           /\ Limit <= Limit + Max({0, v - 1})
           /\ v > 0 => Limit + v = Limit + Max({0, v - 1}) + 1
BY MaxOfTwo, AdmissionAssumption

\* There are as many checks as requests at most.
LEMMA ChecksAreFinite ==
    ASSUME NEW t
    PROVE  /\ IsFiniteSet(Checking(t)) /\ Cardinality(Checking(t)) \in Nat
           /\ IsFiniteSet(Adding(t)) /\ Cardinality(Adding(t)) \in Nat
           /\ Adding(t) \subseteq Checking(t)
           /\ Cardinality(Adding(t)) <= Cardinality(Checking(t))
<1>1. Checking(t) \subseteq Requests /\ Adding(t) \subseteq Checking(t) /\ IsFiniteSet(Requests)
      BY AdmissionAssumption DEF Checking, Adding
<1>2. IsFiniteSet(Checking(t))
      BY <1>1, FS_Subset
<1> QED BY <1>1, <1>2, FS_Subset, FS_CardinalityType

\* A smaller set has no more members.
LEMMA Fewer ==
    ASSUME NEW S, IsFiniteSet(S), NEW T, T \subseteq S
    PROVE  /\ IsFiniteSet(T) /\ Cardinality(T) \in Nat /\ Cardinality(S) \in Nat
           /\ Cardinality(T) <= Cardinality(S)
BY FS_Subset, FS_CardinalityType

\* One more member is one more at most.
LEMMA OneMore ==
    ASSUME NEW S, IsFiniteSet(S), NEW x, NEW T, T \subseteq S \cup {x}
    PROVE  /\ IsFiniteSet(T) /\ Cardinality(T) \in Nat /\ Cardinality(S) \in Nat
           /\ Cardinality(T) <= Cardinality(S) + 1
<1>1. Cardinality(S) \in Nat
      BY FS_CardinalityType
<1>2. /\ IsFiniteSet(S \cup {x})
      /\ Cardinality(S \cup {x}) = IF x \in S THEN Cardinality(S) ELSE Cardinality(S) + 1
      BY FS_AddElement
<1>3. IsFiniteSet(T) /\ Cardinality(T) \in Nat /\ Cardinality(T) <= Cardinality(S \cup {x})
      BY <1>2, Fewer
<1> QED BY <1>1, <1>2, <1>3

-----------------------------------------------------------------------------
(* Steps that are about one request only.                                  *)

\* A step of r that changes no other request.
Others(r) == \A q \in Requests \ {r} : request'[q] = request[q]

\* The end of a request.
LEMMA Ended ==
    ASSUME IInv, NEW r \in Requests, End(r)
    PROVE  /\ request' \in [Requests -> Waiting \cup Creating] /\ Others(r)
           /\ request'[r].phase = "done"
<1> DEFINE n == [Idle EXCEPT !.phase = "done"]
<1>1. n = [phase |-> "done", tenant |-> Local, at |-> 0]
      BY DEF Idle
<1>2. n \in Waiting
      BY <1>1, AdmissionAssumption DEF Waiting, Tenants
<1>3. request' = [request EXCEPT ![r] = n] /\ request \in [Requests -> Waiting \cup Creating]
      BY DEF End, IInv, Types
<1>4. n.phase = "done"
      BY <1>1
<1> HIDE DEF n
<1> QED BY <1>2, <1>3, <1>4 DEF Others

\* Nobody's e-mail is touched by a step that creates nobody.
LEMMA AccountsKept ==
    ASSUME IInv, NEW r \in Requests, Others(r), request'[r].phase # "creating",
           UNCHANGED <<users, tokens, raced>>
    PROVE  Accounts'
<1>1. Accounts
      BY DEF IInv
<1>2. \A u, v \in users : u.email = v.email => u = v \/ u.email \in raced
      BY <1>1 DEF Accounts
<1>3. \A k \in tokens : \E u \in users : u.tenant = k.tenant
      BY <1>1 DEF Accounts
<1>4. \A q \in Requests : request'[q].phase = "creating" => request'[q] = request[q]
      BY DEF Others
<1>5. ASSUME NEW p \in Requests, request'[p].phase = "creating"
      PROVE  /\ \A u \in users : u.email = request'[p].body.email => u.email \in raced
             /\ \A q \in Requests :
                   (/\ q # p /\ request'[q].phase = "creating"
                    /\ request'[q].body.email = request'[p].body.email)
                   => request'[p].body.email \in raced
      BY <1>1, <1>4, <1>5 DEF Accounts
<1> QED BY <1>2, <1>3, <1>5 DEF Accounts

\* The limits of a tenant are kept by a step that ends a check of it, or that
\* has nothing to do with it.
LEMMA TenantKept ==
    ASSUME IInv, NEW r \in Requests, Others(r), NEW t \in Tenants, r \notin Checking(t)',
           UNCHANGED <<setup, now, slow>>,
           windows'[t] = windows[t], admitted'[t] = admitted[t], widest'[t] = widest[t]
    PROVE  Checks(t)' /\ (t \notin slow' => Punctual(t)')
<1>1. /\ Checking(t)' \subseteq Checking(t) /\ Adding(t)' \subseteq Adding(t)
      /\ \A q \in Checking(t)' : request'[q] = request[q]
      BY DEF Others, Checking, Adding
<1>2. /\ Cardinality(Checking(t)') <= Cardinality(Checking(t)) /\ Cardinality(Checking(t)') \in Nat
      /\ Cardinality(Adding(t)') <= Cardinality(Adding(t)) /\ Cardinality(Adding(t)') \in Nat
      /\ Cardinality(Checking(t)) \in Nat /\ Cardinality(Adding(t)) \in Nat
      BY <1>1, ChecksAreFinite, Fewer
<1>3. widest[t] \in Nat /\ Cardinality(Requests) \in Nat
      BY AdmissionAssumption, FS_CardinalityType DEF IInv, Types
<1>4. Checks(t)'
  <2>1. Checks(t)
        BY DEF IInv
  <2>2. Cardinality(Checking(t)') <= widest[t]
        BY <1>2, <1>3, <2>1 DEF Checks
  <2> QED BY <1>1, <2>1, <2>2 DEF Checks
<1>5. ASSUME t \notin slow
      PROVE  Punctual(t)'
  <2>1. Punctual(t)
        BY <1>5 DEF IInv
  <2>2. \A i : Live(t, i)' = Live(t, i)
        BY DEF Live
  <2>3. Live(t, now)' = Live(t, now)
        BY DEF Live
  <2>4. Bound(t)' = Bound(t) /\ Bound(t) \in Nat
        BY <1>3, BoundGrows DEF Bound
  <2>5. Cardinality(Live(t, now)) \in Nat
        BY Fewer DEF Live, IInv, Checks
  <2>6. Cardinality(Live(t, now)') + Cardinality(Adding(t)') <= Bound(t)'
    <3>1. Cardinality(Live(t, now)) + Cardinality(Adding(t)) <= Bound(t)
          BY <2>1 DEF Punctual
    <3> QED BY <1>2, <2>3, <2>4, <2>5, <3>1
  <2>7. \A q \in Checking(t)' : request'[q].at = now'
        BY <1>1, <2>1 DEF Punctual
  <2>8. /\ \A s \in admitted'[t] : s.at <= now'
        /\ Live(t, now)' \subseteq windows'[t]
        BY <2>1, <2>3 DEF Punctual
  <2>9. \A i \in 0..now' : Cardinality(Live(t, i)') <= Bound(t)'
        BY <2>1, <2>2, <2>4 DEF Punctual
  <2> QED BY <2>6, <2>7, <2>8, <2>9 DEF Punctual
<1> QED BY <1>4, <1>5

\* The limits are kept by a step that checks nothing.
LEMMA LimitsKept ==
    ASSUME IInv, NEW r \in Requests, Others(r), request'[r].phase \notin CheckPhases,
           UNCHANGED <<setup, now, windows, admitted, widest, slow>>
    PROVE  \A t \in Tenants : Checks(t)' /\ (t \notin slow' => Punctual(t)')
<1>1. \A t : r \notin Checking(t)'
      BY DEF Checking, CheckPhases
<1> QED BY <1>1, TenantKept

-----------------------------------------------------------------------------
(* Accounts and tokens.                                                    *)

\* An e-mail is looked up.
LEMMA RegisterSound ==
    ASSUME IInv, NEW r \in Requests, NEW body \in Kinds, Register(r, body)
    PROVE  IInv'
<1>1. UNCHANGED <<setup, now, boots, users, tokens, windows, admitted, widest, slow>>
      BY DEF Register
<1>2. CASE Taken(body.email)
  <2>1. End(r) /\ raced' = raced
        BY <1>2 DEF Register
  <2>2. /\ request' \in [Requests -> Waiting \cup Creating] /\ Others(r)
        /\ request'[r].phase = "done"
        BY <2>1, Ended
  <2>3. Types'
        BY <1>1, <2>1, <2>2 DEF IInv, Types
  <2>4. Accounts'
        BY <1>1, <2>1, <2>2, AccountsKept
  <2>5. \A t \in Tenants : Checks(t)' /\ (t \notin slow' => Punctual(t)')
        BY <1>1, <2>2, LimitsKept DEF CheckPhases
  <2> QED BY <2>3, <2>4, <2>5 DEF IInv
<1>3. CASE ~Taken(body.email)
  <2> DEFINE n == [phase |-> "creating", body |-> body]
             racing == {e \in {body.email} : \E q \in Requests :
                               request[q].phase = "creating" /\ request[q].body.email = e}
  <2>1. /\ request' = [request EXCEPT ![r] = n] /\ raced' = raced \cup racing
        /\ \A u \in users : u.email # body.email
        BY <1>3 DEF Register, Taken, Named
  <2>2. n \in Creating /\ body.email \in Emails /\ n.phase = "creating" /\ n.body = body
        BY DEF Creating, Kinds
  <2> HIDE DEF n
  <2>3. request \in [Requests -> Waiting \cup Creating]
        BY DEF IInv, Types
  <2>4. /\ request' \in [Requests -> Waiting \cup Creating] /\ request'[r] = n /\ Others(r)
        BY <2>1, <2>2, <2>3 DEF Others
  <2>5. Types'
        BY <1>1, <2>1, <2>2, <2>4 DEF IInv, Types
  <2>6. Accounts'
    <3>1. Accounts
          BY DEF IInv
    <3>2. \A u, v \in users' : u.email = v.email => u = v \/ u.email \in raced'
          BY <1>1, <2>1, <3>1 DEF Accounts
    <3>3. \A k \in tokens' : \E u \in users' : u.tenant = k.tenant
          BY <1>1, <3>1 DEF Accounts
    <3>4. ASSUME NEW p \in Requests, request'[p].phase = "creating", NEW u \in users',
                 u.email = request'[p].body.email
          PROVE  u.email \in raced'
      <4>1. p # r
            BY <1>1, <2>1, <2>2, <2>4, <3>4
      <4>2. request'[p] = request[p]
            BY <2>4, <4>1 DEF Others
      <4> QED BY <1>1, <2>1, <3>1, <3>4, <4>2 DEF Accounts
    <3>5. ASSUME NEW p \in Requests, request'[p].phase = "creating", NEW q \in Requests, q # p,
                 request'[q].phase = "creating", request'[q].body.email = request'[p].body.email
          PROVE  request'[p].body.email \in raced'
      <4>1. CASE p # r /\ q # r
        <5>1. request'[p] = request[p] /\ request'[q] = request[q]
              BY <2>4, <4>1 DEF Others
        <5> QED BY <2>1, <3>1, <3>5, <5>1 DEF Accounts
      <4>2. CASE p = r
        <5>1. request'[q] = request[q] /\ request'[p].body = body
              BY <2>2, <2>4, <3>5, <4>2 DEF Others
        <5> QED BY <2>1, <3>5, <5>1
      <4>3. CASE q = r
        <5>1. request'[p] = request[p] /\ request'[q].body = body
              BY <2>2, <2>4, <3>5, <4>3 DEF Others
        <5> QED BY <2>1, <3>5, <5>1
      <4> QED BY <4>1, <4>2, <4>3
    <3> QED BY <3>2, <3>3, <3>4, <3>5 DEF Accounts
  <2>7. \A t \in Tenants : Checks(t)' /\ (t \notin slow' => Punctual(t)')
        BY <1>1, <2>2, <2>4, LimitsKept DEF CheckPhases
  <2> QED BY <2>5, <2>6, <2>7 DEF IInv
<1> QED BY <1>2, <1>3

\* The tokens of a pair are of its tenant.
LEMMA PairOf ==
    ASSUME IInv, NEW t \in Requests
    PROVE  TokenPair(t) \subseteq Tokens /\ \A k \in TokenPair(t) : k.tenant = t
<1>1. now \in Nat /\ now + Lifetime \in Nat /\ boots \in 0..MaxBoots /\ 0 \in 0..MaxBoots
      BY AdmissionAssumption DEF IInv, Types
<1> QED BY <1>1 DEF TokenPair, Tokens

\* A registration is committed.
LEMMA RegisteredSound ==
    ASSUME IInv, NEW r \in Requests, Registered(r)
    PROVE  IInv'
<1> DEFINE body == request[r].body
           new  == [tenant |-> r, email |-> body.email, password |-> body.password]
<1>1. /\ request[r].phase = "creating" /\ End(r)
      /\ users' = users \cup {new} /\ tokens' = tokens \cup TokenPair(r)
      /\ UNCHANGED <<setup, now, boots, windows, past>>
      BY DEF Registered
<1>2. /\ request' \in [Requests -> Waiting \cup Creating] /\ Others(r)
      /\ request'[r].phase = "done"
      BY <1>1, Ended
<1>3. body \in Kinds
  <2>1. request[r] \in Waiting \cup Creating
        BY DEF IInv, Types
  <2> QED BY <1>1, <2>1 DEF Waiting, Creating, CheckPhases
<1>4. new \in Users /\ new.email = body.email /\ new.tenant = r
      BY <1>3 DEF Users, Kinds
<1>5. TokenPair(r) \subseteq Tokens /\ \A k \in TokenPair(r) : k.tenant = r
      BY PairOf
<1> HIDE DEF new
<1>6. Types'
      BY <1>1, <1>2, <1>4, <1>5 DEF IInv, Types, past
<1>7. Accounts'
  <2>1. Accounts
        BY DEF IInv
  <2>2. raced' = raced
        BY <1>1 DEF past
  <2>3. \A u \in users : u.email = body.email => u.email \in raced
        BY <1>1, <2>1 DEF Accounts
  <2>4. \A u, v \in users' : u.email = v.email => u = v \/ u.email \in raced'
    <3>1. \A u, v \in users : u.email = v.email => u = v \/ u.email \in raced
          BY <2>1 DEF Accounts
    <3> QED BY <1>1, <1>4, <2>2, <2>3, <3>1
  <2>5. \A k \in tokens' : \E u \in users' : u.tenant = k.tenant
    <3>1. \A k \in tokens : \E u \in users : u.tenant = k.tenant
          BY <2>1 DEF Accounts
    <3> QED BY <1>1, <1>4, <1>5, <3>1
  <2>6. \A p \in Requests : request'[p].phase = "creating" => p # r /\ request'[p] = request[p]
        BY <1>2 DEF Others
  <2>7. ASSUME NEW p \in Requests, request'[p].phase = "creating"
        PROVE  \A u \in users' : u.email = request'[p].body.email => u.email \in raced'
    <3>1. \A u \in users : u.email = request[p].body.email => u.email \in raced
          BY <2>1, <2>6, <2>7 DEF Accounts
    <3>2. request[p].body.email = body.email => body.email \in raced
          BY <1>1, <2>1, <2>6, <2>7 DEF Accounts
    <3> QED BY <1>1, <1>4, <2>2, <2>6, <2>7, <3>1, <3>2
  <2>8. \A p \in Requests : request'[p].phase = "creating" =>
            \A q \in Requests :
                (/\ q # p /\ request'[q].phase = "creating"
                 /\ request'[q].body.email = request'[p].body.email)
                => request'[p].body.email \in raced'
        BY <2>1, <2>2, <2>6 DEF Accounts
  <2> QED BY <2>4, <2>5, <2>7, <2>8 DEF Accounts
<1>8. \A t \in Tenants : Checks(t)' /\ (t \notin slow' => Punctual(t)')
      BY <1>1, <1>2, LimitsKept DEF CheckPhases, past
<1> QED BY <1>6, <1>7, <1>8 DEF IInv

\* A login hands out tokens of a tenant that is there.
LEMMA LoginSound ==
    ASSUME IInv, NEW r \in Requests, NEW body \in Kinds, Login(r, body)
    PROVE  IInv'
<1> DEFINE in == {u \in Named(body.email) : Answer(u.email, body.password) = "token"}
           new == UNION {TokenPair(u.tenant) : u \in in}
<1>1. /\ End(r) /\ tokens' = tokens \cup new
      /\ UNCHANGED <<setup, now, boots, users, windows, past>>
      BY DEF Login
<1>2. /\ request' \in [Requests -> Waiting \cup Creating] /\ Others(r)
      /\ request'[r].phase = "done"
      BY <1>1, Ended
<1>3. new \subseteq Tokens /\ \A k \in new : \E u \in users : u.tenant = k.tenant
  <2>1. in \subseteq users /\ users \subseteq Users
        BY DEF Named, IInv, Types
  <2>2. ASSUME NEW k \in new
        PROVE  k \in Tokens /\ \E u \in users : u.tenant = k.tenant
    <3>1. PICK u \in in : k \in TokenPair(u.tenant)
          BY <2>2
    <3>2. u \in users /\ u.tenant \in Requests
          BY <2>1 DEF Users
    <3> HIDE DEF in, new
    <3> QED BY <3>1, <3>2, PairOf
  <2> QED BY <2>2
<1> HIDE DEF new
<1>4. Types'
      BY <1>1, <1>2, <1>3 DEF IInv, Types, past
<1>5. Accounts'
  <2>1. Accounts
        BY DEF IInv
  <2>2. \A u, v \in users' : u.email = v.email => u = v \/ u.email \in raced'
        BY <1>1, <2>1 DEF Accounts, past
  <2>3. \A k \in tokens' : \E u \in users' : u.tenant = k.tenant
        BY <1>1, <1>3, <2>1 DEF Accounts
  <2>4. \A p \in Requests : request'[p].phase = "creating" => request'[p] = request[p]
        BY <1>2 DEF Others
  <2>5. ASSUME NEW p \in Requests, request'[p].phase = "creating"
        PROVE  /\ \A u \in users' : u.email = request'[p].body.email => u.email \in raced'
               /\ \A q \in Requests :
                     (/\ q # p /\ request'[q].phase = "creating"
                      /\ request'[q].body.email = request'[p].body.email)
                     => request'[p].body.email \in raced'
        BY <1>1, <2>1, <2>4, <2>5 DEF Accounts, past
  <2> QED BY <2>2, <2>3, <2>5 DEF Accounts
<1>6. \A t \in Tenants : Checks(t)' /\ (t \notin slow' => Punctual(t)')
      BY <1>1, <1>2, LimitsKept DEF CheckPhases, past
<1> QED BY <1>4, <1>5, <1>6 DEF IInv

\* A step that ends a request and does nothing else.
LEMMA EndSound ==
    ASSUME IInv, NEW r \in Requests, End(r),
           UNCHANGED <<setup, now, boots, users, tokens, windows, past>>
    PROVE  IInv'
<1>1. /\ request' \in [Requests -> Waiting \cup Creating] /\ Others(r)
      /\ request'[r].phase = "done"
      BY Ended
<1>2. Types'
      BY <1>1 DEF IInv, Types, past
<1>3. Accounts'
      BY <1>1, AccountsKept DEF past
<1>4. \A t \in Tenants : Checks(t)' /\ (t \notin slow' => Punctual(t)')
      BY <1>1, LimitsKept DEF CheckPhases, past
<1> QED BY <1>2, <1>3, <1>4 DEF IInv

-----------------------------------------------------------------------------
(* The rate limit.                                                         *)

\* A check of r begins or goes on: it is still of its tenant and of its time.
LEMMA CheckGoesOn ==
    ASSUME IInv, NEW r \in Requests, NEW n \in Waiting, n.phase \in CheckPhases,
           request' = [request EXCEPT ![r] = n], UNCHANGED <<users, tokens, raced>>
    PROVE  /\ request' \in [Requests -> Waiting \cup Creating] /\ request'[r] = n
           /\ Others(r) /\ Accounts'
           /\ \A t : /\ Checking(t)' \subseteq Checking(t) \cup {r}
                     /\ t # n.tenant => r \notin Checking(t)'
<1>1. /\ request' \in [Requests -> Waiting \cup Creating] /\ request'[r] = n /\ Others(r)
      BY DEF IInv, Types, Others
<1>2. Accounts'
      BY <1>1, AccountsKept DEF CheckPhases
<1>3. ASSUME NEW t
      PROVE  /\ Checking(t)' \subseteq Checking(t) \cup {r}
             /\ t # n.tenant => r \notin Checking(t)'
      BY <1>1 DEF Checking, Others
<1> QED BY <1>1, <1>2, <1>3

\* A check of a tenant that is in time, with the numbers it needs.
LEMMA Counts ==
    ASSUME IInv, NEW t \in Tenants
    PROVE  /\ Checks(t) /\ (t \notin slow => Punctual(t))
           /\ widest[t] \in Nat /\ now \in 0..MaxTime /\ now \in Nat
           /\ \A i : IsFiniteSet(Live(t, i)) /\ Cardinality(Live(t, i)) \in Nat
           /\ \A at : IsFiniteSet(Recent(t, at)) /\ Cardinality(Recent(t, at)) \in Nat
           /\ Cardinality(windows[t]) \in Nat
           /\ Bound(t) \in Nat /\ Limit <= Bound(t)
           /\ widest[t] > 0 => Limit + widest[t] = Bound(t) + 1
<1>1. Checks(t) /\ (t \notin slow => Punctual(t))
      BY DEF IInv
<1>2. widest[t] \in Nat /\ now \in 0..MaxTime /\ now \in Nat
      BY AdmissionAssumption DEF IInv, Types
<1>3. \A i : Live(t, i) \subseteq admitted[t]
      BY DEF Live
<1>4. \A i : IsFiniteSet(Live(t, i)) /\ Cardinality(Live(t, i)) \in Nat
      BY <1>1, <1>3, Fewer DEF Checks
<1>5. \A at : Recent(t, at) \subseteq windows[t]
      BY DEF Recent
<1>6. \A at : IsFiniteSet(Recent(t, at)) /\ Cardinality(Recent(t, at)) \in Nat
      BY <1>1, <1>5, Fewer DEF Checks
<1>7. Cardinality(windows[t]) \in Nat
      BY <1>1, FS_CardinalityType DEF Checks
<1>8. /\ Bound(t) \in Nat /\ Limit <= Bound(t)
      /\ widest[t] > 0 => Limit + widest[t] = Bound(t) + 1
      BY <1>2, BoundGrows DEF Bound
<1> QED BY <1>1, <1>2, <1>4, <1>6, <1>7, <1>8

\* Nothing is let through: it is enough that the checks are in time, that the
\* window has what it must have, and that there is room.
LEMMA NothingAdmitted ==
    ASSUME IInv, NEW t \in Tenants, t \notin slow, UNCHANGED now, admitted'[t] = admitted[t],
           widest'[t] \in Nat, widest[t] <= widest'[t],
           \A q \in Checking(t)' : request'[q].at = now,
           Live(t, now) \subseteq windows'[t],
           Cardinality(Live(t, now)) + Cardinality(Adding(t)') <= Bound(t)'
    PROVE  Punctual(t)'
<1>1. /\ Punctual(t) /\ widest[t] \in Nat /\ now \in Nat /\ Bound(t) \in Nat
      /\ \A i : Cardinality(Live(t, i)) \in Nat
      BY Counts
<1>2. (\A i : Live(t, i)' = Live(t, i)) /\ Live(t, now)' = Live(t, now)
      BY DEF Live
<1>3. Bound(t)' \in Nat /\ Bound(t) <= Bound(t)'
      BY <1>1, BoundGrows DEF Bound
<1>4. \A i \in 0..now' : Cardinality(Live(t, i)') <= Bound(t)'
  <2>1. \A i \in 0..now : Cardinality(Live(t, i)) <= Bound(t)
        BY <1>1 DEF Punctual
  <2> QED BY <1>1, <1>2, <1>3, <2>1
<1>5. (\A s \in admitted'[t] : s.at <= now') /\ Live(t, now)' \subseteq windows'[t]
      BY <1>1, <1>2 DEF Punctual
<1> QED BY <1>2, <1>4, <1>5 DEF Punctual

\* A check begins.
LEMMA ChatSound ==
    ASSUME IInv, NEW r \in Requests, NEW t \in Tenants, Chat(r, t)
    PROVE  IInv'
<1>1. UNCHANGED <<setup, now, boots, users, tokens, windows, admitted, slow, raced>>
      /\ request[r].phase = "idle" /\ setup.limiter # "memory"
      BY DEF Chat, Begins
<1>2. CASE setup.limiter = "none"
  <2>1. End(r) /\ widest' = widest
        BY <1>2 DEF Chat
  <2> QED BY <1>1, <2>1, EndSound DEF past
<1>3. CASE setup.limiter # "none"
  <2> DEFINE n == [phase |-> "trimming", tenant |-> t, at |-> now]
             w == Max({widest[t], Cardinality(Checking(t)) + 1})
  <2>0. /\ widest \in [Tenants -> Nat] /\ now \in 0..MaxTime
        /\ Checks(t) /\ (t \notin slow => Punctual(t)) /\ Bound(t) \in Nat
        BY Counts DEF IInv, Types
  <2>1. request' = [request EXCEPT ![r] = n] /\ widest' = [widest EXCEPT ![t] = w]
        BY <1>3 DEF Chat
  <2>2. n \in Waiting /\ n.phase = "trimming" /\ n.tenant = t /\ n.at = now
        BY <2>0 DEF Waiting, CheckPhases
  <2> HIDE DEF n
  <2>3. /\ request' \in [Requests -> Waiting \cup Creating] /\ request'[r] = n
        /\ Others(r) /\ Accounts'
        /\ \A u : /\ Checking(u)' \subseteq Checking(u) \cup {r}
                  /\ u # n.tenant => r \notin Checking(u)'
        BY <1>1, <2>1, <2>2, CheckGoesOn DEF CheckPhases
  <2>4. /\ Cardinality(Checking(t)) \in Nat
        /\ Cardinality(Checking(t)') \in Nat
        /\ Cardinality(Checking(t)') <= Cardinality(Checking(t)) + 1
        BY <2>3, ChecksAreFinite, OneMore
  <2>5. /\ w \in Nat /\ widest[t] <= w /\ Cardinality(Checking(t)) + 1 <= w
        /\ w \in {widest[t], Cardinality(Checking(t)) + 1}
        BY <2>0, <2>4, MaxOfTwo
  <2>6. Cardinality(Checking(t)) + 1 <= Cardinality(Requests) /\ Cardinality(Requests) \in Nat
    <3>1. Checking(t) \subseteq Requests \ {r}
          BY <1>1 DEF Checking
    <3>2. /\ IsFiniteSet(Requests \ {r})
          /\ Cardinality(Requests \ {r}) = Cardinality(Requests) - 1
          BY AdmissionAssumption, FS_RemoveElement
    <3>3. Cardinality(Requests) \in Nat
          BY AdmissionAssumption, FS_CardinalityType
    <3>4. Cardinality(Checking(t)) <= Cardinality(Requests \ {r})
          BY <3>1, <3>2, Fewer
    <3> QED BY <2>4, <3>2, <3>3, <3>4
  <2> HIDE DEF w
  <2>7. Types'
        BY <1>1, <2>1, <2>3, <2>5 DEF IInv, Types
  <2>8. widest'[t] = w
        BY <2>0, <2>1
  <2>9. Checks(t)'
    <3>1. Cardinality(Checking(t)') <= w /\ w <= Cardinality(Requests)
          BY <2>0, <2>4, <2>5, <2>6 DEF Checks
    <3> QED BY <1>1, <2>0, <2>8, <3>1 DEF Checks
  <2>10. ASSUME t \notin slow
         PROVE  Punctual(t)'
    <3>1. Punctual(t)
          BY <2>0, <2>10
    <3>2. \A q \in Checking(t)' : request'[q].at = now
      <4>1. ASSUME NEW q \in Checking(t)', q # r
            PROVE  request'[q].at = now
        <5>1. q \in Requests /\ q \in Checking(t)
              BY <2>3, <4>1 DEF Checking
        <5>2. request[q].at = now /\ request'[q] = request[q]
              BY <2>3, <3>1, <4>1, <5>1 DEF Punctual, Others
        <5> QED BY <5>2
      <4> QED BY <1>1, <2>2, <2>3, <4>1
    <3>3. Cardinality(Live(t, now)) + Cardinality(Adding(t)') <= Bound(t)'
      <4>1. Adding(t)' \subseteq Adding(t)
            BY <2>2, <2>3 DEF Adding, Others
      <4>2. Cardinality(Adding(t)') <= Cardinality(Adding(t)) /\ Cardinality(Adding(t)') \in Nat
            /\ Cardinality(Adding(t)) \in Nat /\ Cardinality(Live(t, now)) \in Nat
            BY <4>1, ChecksAreFinite, Fewer, Counts
      <4>3. Cardinality(Live(t, now)) + Cardinality(Adding(t)) <= Bound(t)
            BY <3>1 DEF Punctual
      <4>4. Bound(t)' \in Nat /\ Bound(t) <= Bound(t)'
            BY <2>0, <2>5, <2>8, BoundGrows, Counts DEF Bound
      <4> QED BY <2>0, <4>2, <4>3, <4>4
    <3>4. Live(t, now) \subseteq windows'[t]
          BY <1>1, <3>1 DEF Punctual
    <3> QED BY <1>1, <2>5, <2>8, <2>10, <3>2, <3>3, <3>4, NothingAdmitted
  <2>11. ASSUME NEW u \in Tenants, u # t
         PROVE  Checks(u)' /\ (u \notin slow' => Punctual(u)')
    <3>1. widest'[u] = widest[u] /\ r \notin Checking(u)'
          BY <2>0, <2>1, <2>2, <2>3, <2>11
    <3> QED BY <1>1, <2>3, <3>1, TenantKept
  <2> QED BY <1>1, <2>3, <2>7, <2>9, <2>10, <2>11 DEF IInv
<1> QED BY <1>2, <1>3

\* A check of r goes on to its next phase: nothing is let through yet.
LEMMA NextPhase ==
    ASSUME IInv, NEW r \in Requests, NEW t, t = request[r].tenant,
           request[r].phase \in CheckPhases, NEW p \in CheckPhases,
           request' = [request EXCEPT ![r].phase = p],
           UNCHANGED <<setup, now, boots, users, tokens, past>>,
           NEW W, W \subseteq windows[t], windows' = [windows EXCEPT ![t] = W],
           t \notin slow /\ request[r].at = now => Live(t, now) \subseteq W,
           p # "adding" \/ Cardinality(W) < Limit
    PROVE  IInv'
<1> DEFINE n == [request[r] EXCEPT !.phase = p]
<1>1. /\ request[r] \in Waiting /\ t \in Tenants
      /\ request \in [Requests -> Waiting \cup Creating] /\ windows \in [Tenants -> SUBSET Stamps]
  <2>1. request[r] \in Waiting \cup Creating /\ request \in [Requests -> Waiting \cup Creating]
        BY DEF IInv, Types
  <2>2. request[r] \in Waiting
        BY <2>1 DEF Creating, CheckPhases
  <2> QED BY <2>1, <2>2 DEF Waiting, IInv, Types
<1>2. /\ n \in Waiting /\ n.phase = p /\ n.tenant = t /\ n.at = request[r].at
      /\ request' = [request EXCEPT ![r] = n]
      BY <1>1 DEF Waiting
<1> HIDE DEF n
<1>3. /\ request' \in [Requests -> Waiting \cup Creating] /\ request'[r] = n
      /\ Others(r) /\ Accounts'
      /\ \A u : /\ Checking(u)' \subseteq Checking(u) \cup {r}
                /\ u # n.tenant => r \notin Checking(u)'
      BY <1>2, CheckGoesOn DEF past
<1>4. r \in Checking(t)
      BY <1>1 DEF Checking, CheckPhases
<1>5. windows' \in [Tenants -> SUBSET Stamps] /\ windows'[t] = W
      BY <1>1
<1>6. Types'
      BY <1>3, <1>5 DEF IInv, Types, past
<1>7. /\ Checks(t) /\ (t \notin slow => Punctual(t))
      /\ widest[t] \in Nat /\ Bound(t) \in Nat /\ Limit <= Bound(t)
      /\ widest[t] > 0 => Limit + widest[t] = Bound(t) + 1
      /\ Cardinality(Live(t, now)) \in Nat
      BY <1>1, Counts
<1>8. /\ IsFiniteSet(W) /\ Cardinality(W) \in Nat
      /\ Cardinality(Checking(t)') <= widest[t] /\ Cardinality(Checking(t)') \in Nat
  <2>1. Checking(t)' \subseteq Checking(t)
        BY <1>3, <1>4
  <2>2. /\ Cardinality(Checking(t)') <= Cardinality(Checking(t)) /\ Cardinality(Checking(t)') \in Nat
        /\ Cardinality(Checking(t)) \in Nat
        BY <2>1, ChecksAreFinite, Fewer
  <2>3. IsFiniteSet(W) /\ Cardinality(W) \in Nat
        BY <1>7, Fewer DEF Checks
  <2>4. Cardinality(Checking(t)) <= widest[t]
        BY <1>7 DEF Checks
  <2> QED BY <1>7, <2>2, <2>3, <2>4
<1>9. Checks(t)'
  <2>1. setup.limiter # "memory"
        BY <1>4, <1>7 DEF Checks
  <2> QED BY <1>5, <1>7, <1>8, <2>1 DEF Checks, past
<1>10. ASSUME t \notin slow
       PROVE  Punctual(t)'
  <2>1. Punctual(t)
        BY <1>7, <1>10
  <2>2. request[r].at = now
        BY <1>4, <2>1 DEF Punctual
  <2>3. ASSUME NEW q \in Checking(t)'
        PROVE  request'[q].at = now
    <3>1. q \in Requests /\ q \in Checking(t)
          BY <1>3, <1>4, <2>3 DEF Checking
    <3>2. CASE q = r
          BY <1>2, <1>3, <2>2, <3>2
    <3>3. CASE q # r
          BY <1>3, <2>1, <3>1, <3>3 DEF Punctual, Others
    <3> QED BY <3>2, <3>3
  <2>4. Live(t, now) \subseteq W
        BY <1>10, <2>2
  <2>5. Bound(t)' = Bound(t)
        BY DEF Bound, past
  <2>6. Cardinality(Live(t, now)) + Cardinality(Adding(t)') <= Bound(t)
    <3>1. CASE p # "adding"
      <4>1. Adding(t)' \subseteq Adding(t)
            BY <1>2, <1>3, <3>1 DEF Adding, Others
      <4>2. Cardinality(Adding(t)') <= Cardinality(Adding(t)) /\ Cardinality(Adding(t)') \in Nat
            /\ Cardinality(Adding(t)) \in Nat
            BY <4>1, ChecksAreFinite, Fewer
      <4>3. Cardinality(Live(t, now)) + Cardinality(Adding(t)) <= Bound(t)
            BY <2>1 DEF Punctual
      <4> QED BY <1>7, <4>2, <4>3
    <3>2. CASE Cardinality(W) < Limit
      <4>1. Cardinality(Live(t, now)) <= Cardinality(W)
            BY <1>8, <2>4, Fewer
      <4>2. Adding(t)' \subseteq Checking(t)'
            BY DEF Adding, Checking
      <4>3. IsFiniteSet(Checking(t)')
            BY <1>3, <1>4, ChecksAreFinite, Fewer
      <4>4. Cardinality(Adding(t)') <= Cardinality(Checking(t)') /\ Cardinality(Adding(t)') \in Nat
            BY <4>2, <4>3, Fewer
      <4> QED BY <1>7, <1>8, <3>2, <4>1, <4>4, AdmissionAssumption
    <3> QED BY <3>1, <3>2
  <2>7. widest'[t] = widest[t] /\ admitted'[t] = admitted[t] /\ now' = now
        BY DEF past
  <2> QED BY <1>1, <1>5, <1>7, <1>10, <2>3, <2>4, <2>5, <2>6, <2>7, NothingAdmitted
<1>11. ASSUME NEW u \in Tenants, u # t
       PROVE  Checks(u)' /\ (u \notin slow' => Punctual(u)')
  <2>1. windows'[u] = windows[u] /\ r \notin Checking(u)'
        BY <1>1, <1>2, <1>3, <1>11
  <2> QED BY <1>3, <1>11, <2>1, TenantKept DEF past
<1> QED BY <1>3, <1>6, <1>9, <1>10, <1>11 DEF IInv, past

\* The window is trimmed: what is younger than a minute stays.
LEMMA TrimSound ==
    ASSUME IInv, NEW r \in Requests, Trim(r)
    PROVE  IInv'
<1>1. PICK t : t = request[r].tenant
      OBVIOUS
<1>2. PICK W : W = Recent(t, request[r].at)
      OBVIOUS
<1>3. /\ request[r].phase = "trimming" /\ windows' = [windows EXCEPT ![t] = W]
      /\ request' = [request EXCEPT ![r].phase = "counting"]
      /\ UNCHANGED <<setup, now, boots, users, tokens, past>>
      BY <1>1, <1>2 DEF Trim
<1>4. W \subseteq windows[t]
      BY <1>2 DEF Recent
<1>5. t \in Tenants
  <2>1. request[r] \in Waiting \cup Creating
        BY DEF IInv, Types
  <2> QED BY <1>1, <1>3, <2>1 DEF Waiting, Creating
<1>6. t \notin slow /\ request[r].at = now => Live(t, now) \subseteq W
      BY <1>2, <1>5, Counts DEF Punctual, Live, Recent
<1>7. PICK p : p = "counting"
      OBVIOUS
<1>8. /\ request[r].phase \in CheckPhases /\ p \in CheckPhases
      /\ p # "adding" \/ Cardinality(W) < Limit
      BY <1>3, <1>7 DEF CheckPhases
<1>9. /\ request' = [request EXCEPT ![r].phase = p]
      /\ UNCHANGED <<setup, now, boots, users, tokens, past>>
      /\ windows' = [windows EXCEPT ![t] = W]
      BY <1>3, <1>7
<1> QED BY <1>1, <1>4, <1>6, <1>8, <1>9, NextPhase

\* The window is counted: there is room, or the request is refused.
LEMMA CountSound ==
    ASSUME IInv, NEW r \in Requests, Count(r)
    PROVE  IInv'
<1>1. PICK t : t = request[r].tenant
      OBVIOUS
<1>2. /\ request[r].phase = "counting"
      /\ UNCHANGED <<setup, now, boots, users, tokens, windows, past>>
      BY DEF Count
<1>3. CASE Allowed(Cardinality(windows[t]))
  <2>1. request' = [request EXCEPT ![r].phase = "adding"]
        BY <1>1, <1>3 DEF Count
  <2>2. t \in Tenants /\ windows \in [Tenants -> SUBSET Stamps]
    <3>1. request[r] \in Waiting \cup Creating
          BY DEF IInv, Types
    <3> QED BY <1>1, <1>2, <3>1 DEF Waiting, Creating, IInv, Types
  <2>3. PICK W : W = windows[t]
        OBVIOUS
  <2>4. windows' = [windows EXCEPT ![t] = W]
        BY <1>2, <2>2, <2>3
  <2>5. t \notin slow => Live(t, now) \subseteq W
        BY <2>2, <2>3, Counts DEF Punctual
  <2>6. /\ W \subseteq windows[t] /\ Cardinality(W) < Limit
        /\ "adding" \in CheckPhases /\ request[r].phase \in CheckPhases
        BY <1>2, <1>3, <2>3 DEF Allowed, CheckPhases
  <2>7. UNCHANGED <<setup, now, boots, users, tokens, past>>
        BY <1>2
  <2> QED BY <1>1, <2>1, <2>4, <2>5, <2>6, <2>7, NextPhase
<1>4. CASE ~Allowed(Cardinality(windows[t]))
  <2>1. End(r)
        BY <1>1, <1>4 DEF Count
  <2> QED BY <1>2, <2>1, EndSound
<1> QED BY <1>3, <1>4

\* One request more is let through, of the tenant t and at this moment.
LEMMA OneAdmitted ==
    ASSUME IInv, NEW t \in Tenants, t \notin slow, UNCHANGED now, widest'[t] \in Nat,
           widest[t] <= widest'[t], NEW stamp, stamp.at = now,
           admitted'[t] = admitted[t] \cup {stamp},
           \A q \in Checking(t)' : request'[q].at = now,
           Live(t, now) \cup {stamp} \subseteq windows'[t],
           Cardinality(Live(t, now)) + 1 + Cardinality(Adding(t)') <= Bound(t)',
           Cardinality(Adding(t)') \in Nat
    PROVE  Punctual(t)'
<1>1. /\ Punctual(t) /\ widest[t] \in Nat /\ now \in Nat /\ Bound(t) \in Nat
      /\ \A i : Cardinality(Live(t, i)) \in Nat /\ IsFiniteSet(Live(t, i))
      BY Counts
<1>2. /\ Live(t, now)' \subseteq Live(t, now) \cup {stamp}
      /\ \A i \in Nat : i < now => Live(t, i)' \subseteq Live(t, i)
      BY <1>1 DEF Live
<1>3. /\ Cardinality(Live(t, now)') <= Cardinality(Live(t, now)) + 1
      /\ Cardinality(Live(t, now)') \in Nat
      BY <1>1, <1>2, OneMore
<1>4. Bound(t)' \in Nat /\ Bound(t) <= Bound(t)'
      BY <1>1, BoundGrows DEF Bound
<1>5. Cardinality(Live(t, now)') + Cardinality(Adding(t)') <= Bound(t)'
      BY <1>1, <1>3, <1>4
<1>6. ASSUME NEW i \in 0..now'
      PROVE  Cardinality(Live(t, i)') <= Bound(t)'
  <2>1. CASE i = now
    <3>1. Live(t, i)' = Live(t, now)'
          BY <2>1 DEF Live
    <3> QED BY <1>3, <1>4, <1>5, <3>1
  <2>2. CASE i < now
    <3>1. Cardinality(Live(t, i)') <= Cardinality(Live(t, i)) /\ Cardinality(Live(t, i)') \in Nat
      <4>1. i \in Nat
            BY <1>1, <2>2
      <4>2. Live(t, i)' \subseteq Live(t, i) /\ IsFiniteSet(Live(t, i))
            BY <1>1, <1>2, <2>2, <4>1
      <4> QED BY <4>2, Fewer
    <3>2. Cardinality(Live(t, i)) <= Bound(t) /\ Cardinality(Live(t, i)) \in Nat
          BY <1>1 DEF Punctual
    <3> QED BY <1>1, <1>4, <3>1, <3>2
  <2> QED BY <1>1, <2>1, <2>2
<1>7. (\A s \in admitted'[t] : s.at <= now') /\ Live(t, now)' \subseteq windows'[t]
      BY <1>1, <1>2 DEF Punctual
<1> QED BY <1>5, <1>6, <1>7 DEF Punctual

\* The request is let through.
LEMMA AddSound ==
    ASSUME IInv, NEW r \in Requests, Add(r)
    PROVE  IInv'
<1>1. PICK t : t = request[r].tenant
      OBVIOUS
<1>2. PICK stamp : stamp = [at |-> request[r].at, by |-> r]
      OBVIOUS
<1>3. /\ request[r].phase = "adding" /\ End(r)
      /\ windows' = [windows EXCEPT ![t] = windows[t] \cup {stamp}]
      /\ admitted' = [admitted EXCEPT ![t] = admitted[t] \cup {stamp}]
      /\ UNCHANGED <<setup, now, boots, users, tokens, widest, slow, raced>>
      BY <1>1, <1>2 DEF Add, Admit
<1>4. /\ t \in Tenants /\ stamp \in Stamps /\ stamp.at = request[r].at
      /\ windows \in [Tenants -> SUBSET Stamps] /\ admitted \in [Tenants -> SUBSET Stamps]
  <2>1. request[r] \in Waiting \cup Creating
        BY DEF IInv, Types
  <2> QED BY <1>1, <1>2, <1>3, <2>1 DEF Waiting, Creating, Stamps, IInv, Types
<1>5. /\ request' \in [Requests -> Waiting \cup Creating] /\ Others(r)
      /\ request'[r].phase = "done"
      BY <1>3, Ended
<1>6. Types'
      BY <1>3, <1>4, <1>5 DEF IInv, Types
<1>7. Accounts'
      BY <1>3, <1>5, AccountsKept
<1>8. r \in Checking(t) /\ r \in Adding(t)
      BY <1>1, <1>3 DEF Checking, Adding
<1>9. /\ Checks(t) /\ (t \notin slow => Punctual(t))
      /\ widest[t] \in Nat /\ Bound(t) \in Nat /\ Cardinality(Live(t, now)) \in Nat
      BY <1>4, Counts
<1>10. windows'[t] = windows[t] \cup {stamp} /\ admitted'[t] = admitted[t] \cup {stamp}
       BY <1>3, <1>4
<1>11. Checking(t)' \subseteq Checking(t) /\ Adding(t)' \subseteq Adding(t) \ {r}
       BY <1>5 DEF Checking, Adding, Others
<1>12. Checks(t)'
  <2>1. IsFiniteSet(windows'[t]) /\ IsFiniteSet(admitted'[t])
        BY <1>9, <1>10, OneMore DEF Checks
  <2>2. /\ Cardinality(Checking(t)') <= Cardinality(Checking(t)) /\ Cardinality(Checking(t)') \in Nat
        /\ Cardinality(Checking(t)) \in Nat
        BY <1>11, ChecksAreFinite, Fewer
  <2>3. Cardinality(Checking(t)') <= widest[t]
        BY <1>9, <2>2 DEF Checks
  <2> QED BY <1>3, <1>9, <1>11, <2>1, <2>3 DEF Checks
<1>13. ASSUME t \notin slow
       PROVE  Punctual(t)'
  <2>1. Punctual(t)
        BY <1>9, <1>13
  <2>2. stamp.at = now
        BY <1>4, <1>8, <2>1 DEF Punctual
  <2>3. ASSUME NEW q \in Checking(t)'
        PROVE  request'[q].at = now
    <3>1. q \in Requests /\ q \in Checking(t) /\ q # r
          BY <1>5, <1>11 DEF Checking
    <3> QED BY <1>5, <2>1, <3>1 DEF Punctual, Others
  <2>4. /\ Cardinality(Adding(t)') + 1 <= Cardinality(Adding(t)) /\ Cardinality(Adding(t)') \in Nat
        /\ Cardinality(Adding(t)) \in Nat
    <3>1. /\ IsFiniteSet(Adding(t) \ {r})
          /\ Cardinality(Adding(t) \ {r}) = Cardinality(Adding(t)) - 1
          BY <1>8, ChecksAreFinite, FS_RemoveElement
    <3>2. Cardinality(Adding(t)) \in Nat
          BY ChecksAreFinite
    <3>3. /\ Cardinality(Adding(t)') <= Cardinality(Adding(t) \ {r}) /\ Cardinality(Adding(t)') \in Nat
          BY <1>11, <3>1, Fewer
    <3> QED BY <3>1, <3>2, <3>3
  <2>5. Cardinality(Live(t, now)) + 1 + Cardinality(Adding(t)') <= Bound(t)
    <3>1. Cardinality(Live(t, now)) + Cardinality(Adding(t)) <= Bound(t)
          BY <2>1 DEF Punctual
    <3> QED BY <1>9, <2>4, <3>1
  <2>6. Bound(t)' = Bound(t) /\ widest'[t] = widest[t]
        BY <1>3 DEF Bound
  <2>7. Live(t, now) \cup {stamp} \subseteq windows'[t]
        BY <1>10, <2>1 DEF Punctual
  <2> QED BY <1>3, <1>4, <1>9, <1>10, <1>13, <2>2, <2>3, <2>4, <2>5, <2>6, <2>7, OneAdmitted
<1>14. ASSUME NEW u \in Tenants, u # t
       PROVE  Checks(u)' /\ (u \notin slow' => Punctual(u)')
  <2>1. windows'[u] = windows[u] /\ admitted'[u] = admitted[u] /\ r \notin Checking(u)'
        BY <1>3, <1>4, <1>5, <1>14 DEF Checking
  <2> QED BY <1>3, <1>5, <2>1, TenantKept
<1> QED BY <1>3, <1>6, <1>7, <1>12, <1>13, <1>14 DEF IInv

\* The limiter in memory: one step, and nobody else's check is under way.
LEMMA CheckInMemorySound ==
    ASSUME IInv, NEW r \in Requests, NEW t \in Tenants, CheckInMemory(r, t)
    PROVE  IInv'
<1>1. PICK stamp : stamp = [at |-> now, by |-> r]
      OBVIOUS
<1>2. PICK W : W = Recent(t, now)
      OBVIOUS
<1>3. PICK w : w = Max({widest[t], 1})
      OBVIOUS
<1>4. /\ setup.limiter = "memory" /\ End(r)
      /\ widest' = [widest EXCEPT ![t] = w]
      /\ UNCHANGED <<setup, now, boots, users, tokens, slow, raced>>
      BY <1>3 DEF CheckInMemory
<1>5. /\ windows \in [Tenants -> SUBSET Stamps] /\ admitted \in [Tenants -> SUBSET Stamps]
      /\ widest \in [Tenants -> Nat] /\ stamp \in Stamps /\ stamp.at = now
      BY <1>1 DEF IInv, Types, Stamps
<1>6. /\ Checks(t) /\ (t \notin slow => Punctual(t))
      /\ widest[t] \in Nat /\ Bound(t) \in Nat /\ Cardinality(Live(t, now)) \in Nat
      /\ IsFiniteSet(W) /\ Cardinality(W) \in Nat /\ now \in Nat
      BY <1>2, Counts
<1>7. w \in Nat /\ widest[t] <= w /\ w \in {widest[t], 1}
      BY <1>3, <1>6, MaxOfTwo
<1>8. /\ request' \in [Requests -> Waiting \cup Creating] /\ Others(r)
      /\ request'[r].phase = "done"
      BY <1>4, Ended
<1>9. W \subseteq windows[t] /\ W \subseteq Stamps /\ (t \notin slow => Live(t, now) \subseteq W)
      BY <1>2, <1>5, <1>6 DEF Recent, Live, Punctual
<1>10. /\ \/ /\ Allowed(Cardinality(W)) /\ windows' = [windows EXCEPT ![t] = W \cup {stamp}]
             /\ admitted' = [admitted EXCEPT ![t] = admitted[t] \cup {stamp}]
          \/ windows' = [windows EXCEPT ![t] = W] /\ admitted' = admitted
       BY <1>1, <1>2 DEF CheckInMemory
<1>11. Accounts'
       BY <1>4, <1>8, AccountsKept
<1>12. Types'
  <2>1. windows' \in [Tenants -> SUBSET Stamps] /\ admitted' \in [Tenants -> SUBSET Stamps]
        BY <1>5, <1>9, <1>10
  <2> QED BY <1>4, <1>5, <1>7, <1>8, <2>1 DEF IInv, Types
<1>13. widest'[t] = w
       BY <1>4, <1>5
<1>14. Checking(t)' = {} /\ Adding(t)' = {}
  <2>1. Checking(t) = {}
        BY <1>4, <1>6 DEF Checks
  <2>2. Checking(t)' = {}
        BY <1>8, <2>1 DEF Checking, Others
  <2> QED BY <2>2 DEF Checking, Adding
<1>15. Cardinality(Checking(t)') = 0 /\ Cardinality(Adding(t)') = 0
       BY <1>14, FS_EmptySet
<1>16. Checks(t)'
  <2>1. IsFiniteSet(windows'[t]) /\ IsFiniteSet(admitted'[t])
    <3>1. CASE windows'[t] = W /\ admitted'[t] = admitted[t]
          BY <1>6, <3>1 DEF Checks
    <3>2. CASE windows'[t] = W \cup {stamp} /\ admitted'[t] = admitted[t] \cup {stamp}
          BY <1>6, <3>2, OneMore DEF Checks
    <3> QED BY <1>5, <1>10, <3>1, <3>2
  <2>2. w <= Cardinality(Requests)
    <3>1. Cardinality(Requests) \in Nat /\ Cardinality(Requests) # 0
          BY AdmissionAssumption, FS_CardinalityType, FS_EmptySet
    <3>2. widest[t] <= Cardinality(Requests)
          BY <1>6 DEF Checks
    <3> QED BY <1>7, <3>1, <3>2
  <2> QED BY <1>7, <1>13, <1>14, <1>15, <2>1, <2>2 DEF Checks
<1>17. ASSUME t \notin slow
       PROVE  Punctual(t)'
  <2>1. Bound(t)' \in Nat /\ Bound(t) <= Bound(t)' /\ Limit <= Bound(t)'
        BY <1>6, <1>7, <1>13, BoundGrows DEF Bound
  <2>2. CASE windows'[t] = W /\ admitted'[t] = admitted[t]
    <3>1. Cardinality(Live(t, now)) <= Bound(t)
      <4>1. now \in 0..now
            BY <1>6
      <4> QED BY <1>6, <1>17, <4>1 DEF Punctual
    <3>2. Cardinality(Live(t, now)) + Cardinality(Adding(t)') <= Bound(t)'
          BY <1>6, <1>15, <2>1, <3>1
    <3>3. \A q \in Checking(t)' : request'[q].at = now
          BY <1>14
    <3>4. Live(t, now) \subseteq windows'[t]
          BY <1>9, <1>17, <2>2
    <3> QED BY <1>4, <1>7, <1>13, <1>17, <2>2, <3>2, <3>3, <3>4, NothingAdmitted
  <2>3. CASE /\ Allowed(Cardinality(W)) /\ windows'[t] = W \cup {stamp}
             /\ admitted'[t] = admitted[t] \cup {stamp}
    <3>1. Cardinality(Live(t, now)) <= Cardinality(W)
          BY <1>6, <1>9, <1>17, Fewer
    <3>2. Cardinality(Live(t, now)) + 1 + Cardinality(Adding(t)') <= Bound(t)'
          BY <1>6, <1>15, <2>1, <2>3, <3>1, AdmissionAssumption DEF Allowed
    <3>3. \A q \in Checking(t)' : request'[q].at = now
          BY <1>14
    <3>4. Live(t, now) \cup {stamp} \subseteq windows'[t]
          BY <1>9, <1>17, <2>3
    <3>5. Cardinality(Adding(t)') \in Nat
          BY <1>15
    <3> QED BY <1>4, <1>5, <1>7, <1>13, <1>17, <2>3, <3>2, <3>3, <3>4, <3>5, OneAdmitted
  <2> QED BY <1>5, <1>10, <2>2, <2>3
<1>18. ASSUME NEW u \in Tenants, u # t
       PROVE  Checks(u)' /\ (u \notin slow' => Punctual(u)')
  <2>1. /\ windows'[u] = windows[u] /\ admitted'[u] = admitted[u] /\ widest'[u] = widest[u]
        /\ r \notin Checking(u)'
        BY <1>4, <1>5, <1>8, <1>10, <1>18 DEF Checking
  <2> QED BY <1>4, <1>8, <2>1, TenantKept
<1> QED BY <1>4, <1>11, <1>12, <1>16, <1>17, <1>18 DEF IInv


-----------------------------------------------------------------------------
(* Time, and the process itself.                                           *)

\* Time passes: of a tenant that is still in time no check is under way, and
\* nothing in its window has got younger.
LEMMA TickSound ==
    ASSUME IInv, Tick
    PROVE  IInv'
<1>1. /\ now < MaxTime /\ now' = now + 1
      /\ slow' = slow \cup {t \in Tenants : Checking(t) # {}}
      /\ UNCHANGED <<setup, boots, users, tokens, windows, request, admitted, widest, raced>>
      BY DEF Tick
<1>2. Types'
      BY <1>1, AdmissionAssumption DEF IInv, Types
<1>3. Accounts'
      BY <1>1 DEF IInv, Accounts
<1>4. \A t : Checking(t)' = Checking(t) /\ Adding(t)' = Adding(t)
      BY <1>1 DEF Checking, Adding
<1>5. ASSUME NEW t \in Tenants
      PROVE  Checks(t)'
      BY <1>1, <1>4 DEF IInv, Checks
<1>6. ASSUME NEW t \in Tenants, t \notin slow'
      PROVE  Punctual(t)'
  <2>1. t \notin slow /\ Checking(t) = {}
        BY <1>1, <1>6
  <2>2. /\ Punctual(t) /\ now \in Nat /\ Bound(t) \in Nat
        /\ \A i : IsFiniteSet(Live(t, i)) /\ Cardinality(Live(t, i)) \in Nat
        BY <2>1, Counts
  <2>3. Bound(t)' = Bound(t) /\ \A i : Live(t, i)' = Live(t, i)
        BY <1>1 DEF Bound, Live
  <2>4. \A s \in admitted[t] : s \in Stamps /\ s.at <= now
        BY <2>2 DEF Punctual, IInv, Types
  <2>5. Live(t, now)' \subseteq Live(t, now)
        BY <1>1, <2>2, <2>4, AdmissionAssumption DEF Live, Stamps
  <2>6. Cardinality(Live(t, now)') <= Cardinality(Live(t, now)) /\ Cardinality(Live(t, now)') \in Nat
        BY <2>2, <2>5, Fewer
  <2>7. Cardinality(Live(t, now)) <= Bound(t) /\ \A i \in 0..now : Cardinality(Live(t, i)) <= Bound(t)
    <3>1. now \in 0..now
          BY <2>2
    <3> QED BY <2>2, <3>1 DEF Punctual
  <2>8. Adding(t)' = {} /\ Cardinality(Adding(t)') = 0
    <3>1. Adding(t) = {}
          BY <2>1 DEF Checking, Adding
    <3> QED BY <1>4, <3>1, FS_EmptySet
  <2>9. Cardinality(Live(t, now)') + Cardinality(Adding(t)') <= Bound(t)'
        BY <2>2, <2>3, <2>6, <2>7, <2>8
  <2>10. ASSUME NEW i \in 0..now'
         PROVE  Cardinality(Live(t, i)') <= Bound(t)'
    <3>1. CASE i \in 0..now
          BY <2>3, <2>7, <3>1
    <3>2. CASE i = now'
      <4>1. Live(t, i)' = Live(t, now)'
            BY <3>2 DEF Live
      <4> QED BY <2>2, <2>3, <2>6, <2>7, <4>1
    <3> QED BY <1>1, <2>2, <3>1, <3>2
  <2>11. \A q \in Checking(t)' : request'[q].at = now'
         BY <1>4, <2>1
  <2>12. /\ \A s \in admitted'[t] : s.at <= now'
         /\ Live(t, now)' \subseteq windows'[t]
    <3>1. \A s \in admitted[t] : s.at <= now + 1
          BY <2>2, <2>4, AdmissionAssumption DEF Stamps
    <3>2. Live(t, now) \subseteq windows[t]
          BY <2>2 DEF Punctual
    <3> QED BY <1>1, <2>5, <3>1, <3>2
  <2> QED BY <2>9, <2>10, <2>11, <2>12 DEF Punctual
<1> QED BY <1>2, <1>3, <1>5, <1>6 DEF IInv

\* The process restarts: no check is under way, and a limiter in memory has
\* forgotten everybody.
LEMMA RestartSound ==
    ASSUME IInv, Restart
    PROVE  IInv'
<1> DEFINE n == [Idle EXCEPT !.phase = "done"]
<1>1. /\ boots < MaxBoots /\ boots' = boots + 1
      /\ request' = [r \in Requests |-> IF request[r].phase = "idle" THEN request[r] ELSE n]
      /\ \/ windows' = [t \in Tenants |-> {}] /\ admitted' = [t \in Tenants |-> {}]
         \/ UNCHANGED <<windows, admitted>>
      /\ UNCHANGED <<setup, now, users, tokens, widest, slow, raced>>
      BY DEF Restart
<1>2. n \in Waiting /\ n.phase = "done"
  <2>1. n = [phase |-> "done", tenant |-> Local, at |-> 0]
        BY DEF Idle
  <2> QED BY <2>1, AdmissionAssumption DEF Waiting, Tenants
<1> HIDE DEF n
<1>3. /\ request' \in [Requests -> Waiting \cup Creating]
      /\ \A q \in Requests : request'[q].phase \in {"idle", "done"}
      BY <1>1, <1>2 DEF IInv, Types
<1>4. Types'
  <2>1. windows' \in [Tenants -> SUBSET Stamps] /\ admitted' \in [Tenants -> SUBSET Stamps]
        BY <1>1 DEF IInv, Types
  <2>2. boots' \in 0..MaxBoots
        BY <1>1, AdmissionAssumption DEF IInv, Types
  <2> QED BY <1>1, <1>3, <2>1, <2>2 DEF IInv, Types
<1>5. Accounts'
  <2>1. \A q \in Requests : request'[q].phase # "creating"
        BY <1>3
  <2>2. Accounts
        BY DEF IInv
  <2> QED BY <1>1, <2>1, <2>2 DEF Accounts
<1>6. ASSUME NEW t \in Tenants
      PROVE  /\ Checking(t)' = {} /\ Cardinality(Checking(t)') = 0
             /\ Adding(t)' = {} /\ Cardinality(Adding(t)') = 0
  <2>1. Checking(t)' = {}
        BY <1>3 DEF Checking
  <2>2. Adding(t)' = {}
        BY <1>3 DEF Adding
  <2> QED BY <2>1, <2>2, FS_EmptySet
<1>7. ASSUME NEW t \in Tenants
      PROVE  Checks(t)'
  <2>1. Checks(t) /\ widest[t] \in Nat
        BY Counts
  <2>2. IsFiniteSet(windows'[t]) /\ IsFiniteSet(admitted'[t])
        BY <1>1, <2>1, FS_EmptySet DEF Checks
  <2> QED BY <1>1, <1>6, <2>1, <2>2 DEF Checks
<1>8. ASSUME NEW t \in Tenants, t \notin slow'
      PROVE  Punctual(t)'
  <2>1. t \notin slow /\ UNCHANGED now /\ widest'[t] = widest[t]
        BY <1>1, <1>8
  <2>2. /\ Punctual(t) /\ now \in Nat /\ Bound(t) \in Nat /\ widest[t] \in Nat
        /\ \A i : Cardinality(Live(t, i)) \in Nat
        BY <2>1, Counts
  <2>3. Bound(t)' = Bound(t)
        BY <1>1 DEF Bound
  <2>4. CASE windows'[t] = {} /\ admitted'[t] = {}
    <3>1. (\A i : Live(t, i)' = {}) /\ Live(t, now)' = {}
          BY <2>4 DEF Live
    <3>2. Cardinality({}) = 0
          BY FS_EmptySet
    <3>3. Cardinality(Live(t, now)') + Cardinality(Adding(t)') <= Bound(t)'
          BY <1>6, <2>2, <2>3, <3>1, <3>2
    <3>4. \A i \in 0..now' : Cardinality(Live(t, i)') <= Bound(t)'
          BY <2>2, <2>3, <3>1, <3>2
    <3> QED BY <1>6, <2>4, <3>1, <3>3, <3>4 DEF Punctual
  <2>5. CASE windows' = windows /\ admitted' = admitted
    <3>1. Cardinality(Live(t, now)) <= Bound(t)
      <4>1. now \in 0..now
            BY <2>2
      <4> QED BY <2>2, <4>1 DEF Punctual
    <3>2. Cardinality(Live(t, now)) + Cardinality(Adding(t)') <= Bound(t)'
          BY <1>6, <2>2, <2>3, <3>1
    <3>3. \A q \in Checking(t)' : request'[q].at = now
          BY <1>6
    <3>4. Live(t, now) \subseteq windows'[t] /\ admitted'[t] = admitted[t]
          BY <2>2, <2>5 DEF Punctual
    <3>5. widest'[t] \in Nat /\ widest[t] <= widest'[t]
          BY <2>1, <2>2
    <3> QED BY <2>1, <3>2, <3>3, <3>4, <3>5, NothingAdmitted
  <2> QED BY <1>1, <2>4, <2>5
<1> QED BY <1>4, <1>5, <1>7, <1>8 DEF IInv

-----------------------------------------------------------------------------
(* The theorems.                                                           *)

LEMMA InitSound == Init => IInv
<1> SUFFICES ASSUME Init PROVE IInv
    OBVIOUS
<1>1. /\ setup \in Setups /\ now = 0 /\ boots = 0 /\ users = {} /\ tokens = {}
      /\ windows = [t \in Tenants |-> {}] /\ request = [r \in Requests |-> Idle]
      /\ admitted = [t \in Tenants |-> {}] /\ widest = [t \in Tenants |-> 0]
      /\ slow = {} /\ raced = {}
      BY DEF Init
<1>2. Idle \in Waiting /\ Idle.phase = "idle"
      BY AdmissionAssumption DEF Idle, Waiting, Tenants
<1>3. request \in [Requests -> Waiting \cup Creating] /\ \A r \in Requests : request[r].phase = "idle"
      BY <1>1, <1>2
<1>4. Types
      BY <1>1, <1>3, AdmissionAssumption DEF Types
<1>5. Accounts
      BY <1>1, <1>3 DEF Accounts
<1>6. ASSUME NEW t \in Tenants
      PROVE  Checks(t) /\ Punctual(t)
  <2>1. admitted[t] = {} /\ windows[t] = {} /\ widest[t] = 0
        BY <1>1
  <2>2. Checking(t) = {} /\ Adding(t) = {} /\ \A i : Live(t, i) = {}
        BY <1>3, <2>1 DEF Checking, Adding, Live
  <2>3. IsFiniteSet({}) /\ Cardinality({}) = 0 /\ Cardinality(Requests) \in Nat
        BY AdmissionAssumption, FS_EmptySet, FS_CardinalityType
  <2>4. Bound(t) \in Nat
        BY <2>1, BoundGrows DEF Bound
  <2>5. Checks(t)
        BY <2>1, <2>2, <2>3 DEF Checks
  <2>6. \A i : Cardinality(Live(t, i)) = 0
        BY <2>2, <2>3
  <2>7. Cardinality(Live(t, now)) + Cardinality(Adding(t)) <= Bound(t)
        BY <2>2, <2>3, <2>4, <2>6
  <2>8. \A i \in 0..now : Cardinality(Live(t, i)) <= Bound(t)
        BY <2>4, <2>6
  <2>9. Punctual(t)
        BY <2>1, <2>2, <2>7, <2>8 DEF Punctual
  <2> QED BY <2>5, <2>9
<1> QED BY <1>4, <1>5, <1>6 DEF IInv

LEMMA StepSound == IInv /\ [Next]_vars => IInv'
<1> SUFFICES ASSUME IInv, [Next]_vars PROVE IInv'
    OBVIOUS
<1>1. ASSUME NEW r \in Requests, NEW body \in Kinds, Register(r, body) \/ Login(r, body)
      PROVE  IInv'
      BY <1>1, RegisterSound, LoginSound
<1>2. ASSUME NEW r \in Requests, NEW t \in Tenants, Chat(r, t) \/ CheckInMemory(r, t)
      PROVE  IInv'
      BY <1>2, ChatSound, CheckInMemorySound
<1>3. ASSUME NEW r \in Requests, Registered(r) \/ Fail(r) \/ Trim(r) \/ Count(r) \/ Add(r)
      PROVE  IInv'
  <2>1. CASE Fail(r)
        BY <2>1, EndSound DEF Fail
  <2> QED BY <1>3, <2>1, RegisteredSound, TrimSound, CountSound, AddSound
<1>4. CASE Tick \/ Restart
      BY <1>4, TickSound, RestartSound
<1>5. CASE UNCHANGED vars
  <2>1. Types' /\ Accounts'
        BY <1>5 DEF IInv, Types, Accounts, vars, past
  <2>2. ASSUME NEW t \in Tenants
        PROVE  Checks(t)' /\ (t \notin slow' => Punctual(t)')
    <3>1. Checks(t) /\ (t \notin slow => Punctual(t))
          BY DEF IInv
    <3>2. Checking(t)' = Checking(t) /\ Adding(t)' = Adding(t) /\ Bound(t)' = Bound(t)
          BY <1>5 DEF Checking, Adding, Bound, vars, past
    <3>3. Live(t, now)' = Live(t, now) /\ \A i : Live(t, i)' = Live(t, i)
          BY <1>5 DEF Live, vars, past
    <3>4. Checks(t)'
          BY <1>5, <3>1, <3>2 DEF Checks, vars, past
    <3>5. t \notin slow => Punctual(t)'
          BY <1>5, <3>1, <3>2, <3>3 DEF Punctual, vars, past
    <3> QED BY <1>5, <3>4, <3>5 DEF vars, past
  <2> QED BY <2>1, <2>2 DEF IInv
<1> QED BY <1>1, <1>2, <1>3, <1>4, <1>5 DEF Next

THEOREM Invariance == Spec => []IInv
<1> QED BY InitSound, StepSound, PTL DEF Spec

\* Whoever registered can log in, and every token is of a registered tenant,
\* unless two registrations with the e-mail have overlapped (register and login
\* of the auth router).
THEOREM AccountsWork == Spec => []RegisteredCanLogIn
<1>1. IInv => RegisteredCanLogIn
  <2> SUFFICES ASSUME IInv PROVE RegisteredCanLogIn
      OBVIOUS
  <2>1. Types /\ Accounts /\ \A t \in Tenants : widest[t] <= Cardinality(Requests)
        BY DEF IInv, Checks
  <2>2. TypeOK
    <3>1. widest \in [Tenants -> 0..Cardinality(Requests)]
          BY <2>1, AdmissionAssumption, FS_CardinalityType DEF Types
    <3>2. ASSUME NEW r \in Requests
          PROVE  /\ request[r].phase \in Phases
                 /\ request[r].phase = "creating" => request[r].body \in Kinds
                 /\ request[r].phase \in {"trimming", "counting", "adding"} => request[r].tenant \in Tenants
      <4>1. request[r] \in Waiting \cup Creating
            BY <2>1 DEF Types
      <4> QED BY <4>1 DEF Waiting, Creating, CheckPhases, Phases
    <3> QED BY <2>1, <3>1, <3>2 DEF TypeOK, Types
  <2>3. ASSUME NEW u \in users, u.email \notin raced
        PROVE  Answer(u.email, u.password) = "token"
    <3>1. Named(u.email) = {u}
          BY <2>1, <2>3 DEF Named, Accounts
    <3>2. Cardinality(Named(u.email)) = 1
          BY <3>1, FS_Singleton
    <3> QED BY <3>1, <3>2 DEF Answer
  <2> QED BY <2>1, <2>2, <2>3 DEF RegisteredCanLogIn, Accounts
<1> QED BY <1>1, Invariance, PTL

\* No minute has more requests of a tenant let through than its limit and the
\* other checks that were under way at the same time (check_rate_limit,
\* RateLimiter.check), as long as no check of the tenant takes time.
THEOREM LimitsHold == Spec => []WithinLimit
<1>1. IInv => WithinLimit
  <2> SUFFICES ASSUME IInv, NEW t \in Tenants, t \notin slow, NEW i \in 0..MaxTime
               PROVE  Cardinality(Live(t, i)) <= Bound(t)
      BY DEF WithinLimit, Live, Bound
  <2>1. /\ Punctual(t) /\ now \in Nat /\ i \in Nat /\ Bound(t) \in Nat
        /\ \A k : IsFiniteSet(Live(t, k)) /\ Cardinality(Live(t, k)) \in Nat
        BY Counts, AdmissionAssumption
  <2>2. CASE i <= now
        BY <2>1, <2>2 DEF Punctual
  <2>3. CASE now < i
    <3>1. Live(t, i) \subseteq Live(t, now)
      <4>1. \A s \in admitted[t] : s \in Stamps /\ s.at <= now
            BY <2>1 DEF Punctual, IInv, Types
      <4> QED BY <2>1, <2>3, <4>1, AdmissionAssumption DEF Live, Stamps
    <3>2. Cardinality(Live(t, i)) <= Cardinality(Live(t, now))
          BY <2>1, <3>1, Fewer
    <3>3. Cardinality(Live(t, now)) <= Bound(t)
      <4>1. now \in 0..now
            BY <2>1
      <4> QED BY <2>1, <4>1 DEF Punctual
    <3> QED BY <2>1, <3>2, <3>3
  <2> QED BY <2>1, <2>2, <2>3
<1> QED BY <1>1, Invariance, PTL

-----------------------------------------------------------------------------
(* The circuit breaker, for every set of callers and every configuration   *)
(* that ConfigAssumption allows.                                           *)

\* The inductive invariant: what is counted while CLOSED is the current run
\* of failures, and while HALF_OPEN neither the successes recorded nor the
\* ones counted have reached the threshold.
BreakerCounts ==
    /\ state = "closed" => failure_count = failureRun /\ failureRun < FailureThreshold
    /\ state = "half_open" => success_count = probeRun /\ probeRun < SuccessThreshold

BreakerIInv == BreakerTypeOK /\ BreakerCounts

\* Bump stays within the cap, never decreases, and is a plain increment below it.
LEMMA BumpFacts ==
    ASSUME NEW n \in 0..CountCap
    PROVE  /\ Bump(n) \in 0..CountCap
           /\ Bump(n) >= n
           /\ n < CountCap => Bump(n) = n + 1
BY ConfigAssumption DEF Bump

LEMMA BreakerInitSound == BreakerInit => BreakerIInv
BY ConfigAssumption DEF BreakerInit, BreakerIInv, BreakerTypeOK, BreakerCounts

\* Every step keeps the state within its types.
LEMMA BreakerTypeStep == BreakerTypeOK /\ [BreakerNext]_breakerVars => BreakerTypeOK'
<1> SUFFICES ASSUME BreakerTypeOK, [BreakerNext]_breakerVars PROVE BreakerTypeOK'
    OBVIOUS
<1> USE DEF BreakerTypeOK
<1>1. ASSUME NEW c \in Callers, AdmitClosed(c) PROVE BreakerTypeOK'
      BY <1>1 DEF AdmitClosed, breaker, history
<1>2. ASSUME NEW c \in Callers, AdmitFirstProbe(c) PROVE BreakerTypeOK'
      BY <1>2, ConfigAssumption DEF AdmitFirstProbe, EnterHalfOpen
<1>3. ASSUME NEW c \in Callers, AdmitProbe(c) PROVE BreakerTypeOK'
      BY <1>3 DEF AdmitProbe, breaker, history
<1>4. ASSUME NEW c \in Callers, Reject(c) PROVE BreakerTypeOK'
      BY <1>4 DEF Reject, breaker, history
<1>5. ASSUME NEW c \in Callers, RecordSuccess(c) PROVE BreakerTypeOK'
      BY <1>5, BumpFacts, ConfigAssumption DEF RecordSuccess, CloseCircuit
<1>6. ASSUME NEW c \in Callers, RecordFailure(c) PROVE BreakerTypeOK'
      BY <1>6, BumpFacts, ConfigAssumption DEF RecordFailure, OpenCircuit
<1>7. ASSUME NEW c \in Callers, Cancelled(c) PROVE BreakerTypeOK'
      BY <1>7 DEF Cancelled, breaker, history
<1>8. CASE TimeoutElapses
      BY <1>8 DEF TimeoutElapses, history
<1>9. CASE ServiceChanges
      BY <1>9 DEF ServiceChanges, breaker, history
<1>10. CASE UNCHANGED breakerVars
      BY <1>10 DEF breakerVars, breaker, history
<1> QED BY <1>1, <1>2, <1>3, <1>4, <1>5, <1>6, <1>7, <1>8, <1>9, <1>10
        DEF BreakerNext, CanExecute

\* Every step keeps the counters in agreement with what was recorded.
LEMMA BreakerCountsStep == BreakerIInv /\ [BreakerNext]_breakerVars => BreakerCounts'
<1> SUFFICES ASSUME BreakerIInv, [BreakerNext]_breakerVars PROVE BreakerCounts'
    OBVIOUS
<1> USE DEF BreakerIInv, BreakerTypeOK, BreakerCounts
<1>1. ASSUME NEW c \in Callers, AdmitClosed(c) PROVE BreakerCounts'
      BY <1>1 DEF AdmitClosed, breaker, history
<1>2. ASSUME NEW c \in Callers, AdmitFirstProbe(c) PROVE BreakerCounts'
      BY <1>2, ConfigAssumption DEF AdmitFirstProbe, EnterHalfOpen
<1>3. ASSUME NEW c \in Callers, AdmitProbe(c) PROVE BreakerCounts'
      BY <1>3 DEF AdmitProbe, breaker, history
<1>4. ASSUME NEW c \in Callers, Reject(c) PROVE BreakerCounts'
      BY <1>4 DEF Reject, breaker, history
<1>5. ASSUME NEW c \in Callers, RecordSuccess(c) PROVE BreakerCounts'
  <2>1. CASE state = "half_open" /\ SuccessesSuffice
        BY <1>5, <2>1, ConfigAssumption DEF RecordSuccess, CloseCircuit
  <2>2. CASE state = "half_open" /\ ~SuccessesSuffice
        BY <1>5, <2>2, BumpFacts, ConfigAssumption DEF RecordSuccess, SuccessesSuffice
  <2>3. CASE state # "half_open"
        BY <1>5, <2>3, ConfigAssumption DEF RecordSuccess
  <2> QED BY <2>1, <2>2, <2>3
<1>6. ASSUME NEW c \in Callers, RecordFailure(c) PROVE BreakerCounts'
  <2>1. CASE state = "closed" /\ ~FailuresSuffice
        BY <1>6, <2>1, BumpFacts, ConfigAssumption DEF RecordFailure, FailuresSuffice
  <2>2. CASE (state = "closed" /\ FailuresSuffice) \/ state = "half_open"
        BY <1>6, <2>2 DEF RecordFailure, OpenCircuit
  <2>3. CASE state = "open"
        BY <1>6, <2>3 DEF RecordFailure
  <2> QED BY <2>1, <2>2, <2>3
<1>7. ASSUME NEW c \in Callers, Cancelled(c) PROVE BreakerCounts'
      BY <1>7 DEF Cancelled, breaker, history
<1>8. CASE TimeoutElapses
      BY <1>8 DEF TimeoutElapses, history
<1>9. CASE ServiceChanges
      BY <1>9 DEF ServiceChanges, breaker, history
<1>10. CASE UNCHANGED breakerVars
      BY <1>10 DEF breakerVars, breaker, history
<1> QED BY <1>1, <1>2, <1>3, <1>4, <1>5, <1>6, <1>7, <1>8, <1>9, <1>10
        DEF BreakerNext, CanExecute

LEMMA BreakerInvariance == BreakerSpec => []BreakerIInv
<1>1. BreakerIInv /\ [BreakerNext]_breakerVars => BreakerIInv'
      BY BreakerTypeStep, BreakerCountsStep DEF BreakerIInv
<1> QED BY BreakerInitSound, <1>1, PTL DEF BreakerSpec

\* The breaker's state never leaves its types, whatever the interleaving of
\* admissions, results, cancellations and timeouts.
THEOREM BreakerTypeCorrect == BreakerSpec => []BreakerTypeOK
BY BreakerInvariance, PTL DEF BreakerIInv

\* A breaker that is CLOSED has seen fewer than failure_threshold failures
\* since the last success, for any number of callers.
THEOREM ClosedIsSafe == BreakerSpec => []ClosedBelowThreshold
<1>1. BreakerIInv => ClosedBelowThreshold
      BY DEF BreakerIInv, BreakerCounts, ClosedBelowThreshold
<1> QED BY BreakerInvariance, <1>1, PTL

\* Exactly the condition DATABASE_CIRCUIT_BREAKER breaks: when
\* success_threshold is at most half_open_max_calls, can_execute never
\* rejects in HALF_OPEN.
THEOREM HalfOpenNeverStarves ==
    ASSUME SuccessThreshold <= HalfOpenMaxCalls
    PROVE  BreakerSpec => []HalfOpenAdmits
<1>1. BreakerIInv => HalfOpenAdmits
      BY ConfigAssumption DEF BreakerIInv, BreakerTypeOK, BreakerCounts, HalfOpenAdmits
<1> QED BY BreakerInvariance, <1>1, PTL

\* The breaker closes only out of HALF_OPEN and only after success_threshold
\* successes recorded since it entered HALF_OPEN.
THEOREM ClosingIsEarned == BreakerSpec => ClosesAfterProbes
<1>1. BreakerIInv /\ [BreakerNext]_breakerVars =>
        [state # "closed" /\ state' = "closed" =>
            state = "half_open" /\ probeRun' >= SuccessThreshold]_breakerVars
  <2> SUFFICES ASSUME BreakerIInv, BreakerNext, state # "closed", state' = "closed"
               PROVE  state = "half_open" /\ probeRun' >= SuccessThreshold
      BY DEF breakerVars, breaker
  <2>1. PICK c \in Callers : RecordSuccess(c)
        BY DEF BreakerNext, CanExecute, AdmitClosed, AdmitFirstProbe, EnterHalfOpen, AdmitProbe,
               Reject, RecordFailure, OpenCircuit, Cancelled, TimeoutElapses,
               ServiceChanges, breaker
  <2>2. state = "half_open" /\ SuccessesSuffice
        BY <2>1 DEF RecordSuccess
  <2>3. probeRun' = Bump(success_count)
        BY <2>1, <2>2 DEF RecordSuccess, BreakerIInv, BreakerCounts
  <2> QED BY <2>2, <2>3 DEF SuccessesSuffice
<1> QED BY BreakerInvariance, <1>1, PTL DEF BreakerSpec, ClosesAfterProbes
=============================================================================
