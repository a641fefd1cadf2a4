----------------------------- MODULE Admission ------------------------------
(***************************************************************************)
(* Who is let in: accounts (the auth router), tokens (jwt_auth) and the    *)
(* rate limit of the chat endpoint.                                        *)
(*                                                                         *)
(* A registration is a lookup and, some awaits later, a commit; the Redis  *)
(* limiter trims, counts and adds in separate commands; the limiter in     *)
(* memory does all three without an await.                                 *)
(***************************************************************************)
EXTENDS Naturals, FiniteSets, FiniteSetsExt

CONSTANTS Requests,   \* bound: the requests, numbered as they begin
          Emails, Passwords,
          Limit,      \* requests per minute, user.limits["rpm"]
          Minute,     \* the window
          Lifetime,   \* of an access token
          MaxTime,    \* bound: the clock
          MaxBoots,   \* bound: restarts of the process
          Setups,     \* bound: the environments
          Local       \* the tenant of requests without a token, ALLOW_ANON_LOCAL

ASSUME AdmissionAssumption ==
    /\ Requests \subseteq Nat /\ IsFiniteSet(Requests)
    /\ Limit \in Nat \ {0} /\ Minute \in Nat \ {0} /\ Lifetime \in Nat \ {0}
    /\ MaxTime \in Nat /\ MaxBoots \in Nat
    /\ Local \notin Requests
    /\ Setups \subseteq [limiter : {"redis", "memory", "none"}, secret_is_set : BOOLEAN, anonymous : BOOLEAN]

\* A tenant is named by the request that registered it.
Tenants == Requests \cup {Local}

VARIABLES
    setup,     \* the limiter, whether JWT_SECRET is set, and ALLOW_ANON_LOCAL (see Setups)
    now,
    boots,     \* restarts so far
    users,     \* the rows of users, each with its tenant and organization
    tokens,    \* the tokens that were handed out
    windows,   \* per tenant: the sorted set, or the list in memory
    request,   \* per request: where it is, and what it has read
    admitted,  \* history: per tenant: the stamps of the requests let through
    widest,    \* history: per tenant: the most checks under way at once
    slow,      \* history: tenants for which a check was under way while time passed
    raced      \* history: e-mails for which two registrations overlapped

past == <<admitted, widest, slow, raced>>
vars == <<setup, now, boots, users, tokens, windows, request, past>>

Users  == [tenant : Requests, email : Emails, password : Passwords]
Tokens == [type : {"access", "refresh"}, tenant : Requests, exp : Nat, boot : 0..MaxBoots]
Stamps == [at : 0..MaxTime, by : Requests]

Kinds == [kind : {"register", "login"}, email : Emails, password : Passwords]
Phases == {"idle", "creating", "trimming", "counting", "adding", "done"}
Idle == [phase |-> "idle", tenant |-> Local, at |-> 0]

TypeOK ==
    /\ setup \in Setups
    /\ now \in 0..MaxTime /\ boots \in 0..MaxBoots
    /\ users \subseteq Users /\ tokens \subseteq Tokens
    /\ windows \in [Tenants -> SUBSET Stamps]
    /\ admitted \in [Tenants -> SUBSET Stamps]
    /\ widest \in [Tenants -> 0..Cardinality(Requests)]
    /\ \A r \in Requests :
          /\ request[r].phase \in Phases
          /\ request[r].phase = "creating" => request[r].body \in Kinds
          /\ request[r].phase \in {"trimming", "counting", "adding"} => request[r].tenant \in Tenants
    /\ slow \subseteq Tenants /\ raced \subseteq Emails

Init ==
    /\ setup \in Setups
    /\ now = 0 /\ boots = 0
    /\ users = {} /\ tokens = {}
    /\ windows = [t \in Tenants |-> {}]
    /\ request = [r \in Requests |-> Idle]
    /\ admitted = [t \in Tenants |-> {}]
    /\ widest = [t \in Tenants |-> 0]
    /\ slow = {} /\ raced = {}

-----------------------------------------------------------------------------
(* Accounts.                                                               *)

Begins(r) ==
    /\ request[r].phase = "idle"
    /\ \A q \in Requests : q < r => request[q].phase # "idle"

End(r) == request' = [request EXCEPT ![r] = [Idle EXCEPT !.phase = "done"]]

Named(email) == {u \in users : u.email = email}

\* create_token_pair.  Without a JWT_SECRET each process signs with its own.
TokenPair(t) ==
    [type : {"access", "refresh"}, tenant : {t}, exp : {now + Lifetime},
     boot : {IF setup.secret_is_set THEN 0 ELSE boots}]

\* Mutant: a registration is not refused for a user who is there.
Taken_Never(email) == FALSE

\* A user with this e-mail, of whatever tenant; with two of them the lookup
\* itself raises, which ends the request just as well.
Taken(email) == Named(email) # {}

\* POST /auth/register, up to the hash of the password.
Register(r, body) ==
    /\ Begins(r) /\ body.kind = "register"
    /\ IF Taken(body.email) THEN End(r) /\ UNCHANGED raced
       ELSE /\ request' = [request EXCEPT ![r] = [phase |-> "creating", body |-> body]]
            /\ raced' = raced \cup {e \in {body.email} : \E q \in Requests :
                               request[q].phase = "creating" /\ request[q].body.email = e}
    /\ UNCHANGED <<setup, now, boots, users, tokens, windows, admitted, widest, slow>>

\* Its commit: a tenant, an organization and a user.  The e-mail is unique in
\* the tenant, and the tenant is new.
Registered(r) ==
    LET body == request[r].body IN
    /\ request[r].phase = "creating"
    /\ users' = users \cup {[tenant |-> r, email |-> body.email, password |-> body.password]}
    /\ tokens' = tokens \cup TokenPair(r)
    /\ End(r)
    /\ UNCHANGED <<setup, now, boots, windows, past>>

\* What POST /auth/login answers: one user, or an error.
Answer(email, password) ==
    IF Cardinality(Named(email)) = 1 /\ \E u \in Named(email) : u.password = password
    THEN "token" ELSE "error"

Login(r, body) ==
    /\ Begins(r) /\ body.kind = "login"
    /\ tokens' = tokens \cup
          UNION {TokenPair(u.tenant) : u \in {u \in Named(body.email) : Answer(u.email, body.password) = "token"}}
    /\ End(r)
    /\ UNCHANGED <<setup, now, boots, users, windows, past>>

\* The commit of a registration fails, or a command of Redis.
Fail(r) ==
    /\ request[r].phase \notin {"idle", "done"}
    /\ End(r)
    /\ UNCHANGED <<setup, now, boots, users, tokens, windows, past>>

-----------------------------------------------------------------------------
(* Tokens.                                                                 *)

\* decode_token: signed with the secret of this process, not expired, and an
\* access token, for a refresh token has no e-mail.
Accepts(token) ==
    /\ token.boot = IF setup.secret_is_set THEN 0 ELSE boots
    /\ now < token.exp
    /\ token.type = "access"

\* get_current_user_dep: the tenants that a request can be of.
Identities ==
    {token.tenant : token \in {k \in tokens : Accepts(k)}}
        \cup IF setup.anonymous THEN {Local} ELSE {}

-----------------------------------------------------------------------------
(* The rate limit.                                                         *)

\* Mutant: one more than the limit.
Allowed_OneMore(count) == count <= Limit

Allowed(count) == count < Limit

Checking(t) ==
    {q \in Requests : request[q].phase \in {"trimming", "counting", "adding"} /\ request[q].tenant = t}

\* What is left of a window: what is younger than a minute.
Recent(t, at) == {s \in windows[t] : s.at + Minute > at}

Admit(t, stamp) ==
    /\ windows' = [windows EXCEPT ![t] = @ \cup {stamp}]
    /\ admitted' = [admitted EXCEPT ![t] = @ \cup {stamp}]

\* POST /chat: the token, and check_rate_limit, which is skipped without Redis.
Chat(r, t) ==
    /\ Begins(r) /\ t \in Identities /\ setup.limiter # "memory"
    /\ IF setup.limiter = "none"
       THEN End(r) /\ UNCHANGED widest
       ELSE /\ request' = [request EXCEPT ![r] = [phase |-> "trimming", tenant |-> t, at |-> now]]
            /\ widest' = [widest EXCEPT ![t] = Max({@, Cardinality(Checking(t)) + 1})]
    /\ UNCHANGED <<setup, now, boots, users, tokens, windows, admitted, slow, raced>>

\* zremrangebyscore, with the time at which the check began.
Trim(r) ==
    LET t == request[r].tenant IN
    /\ request[r].phase = "trimming"
    /\ windows' = [windows EXCEPT ![t] = Recent(t, request[r].at)]
    /\ request' = [request EXCEPT ![r].phase = "counting"]
    /\ UNCHANGED <<setup, now, boots, users, tokens, past>>

\* zcard: the request is let through or answered with 429.
Count(r) ==
    /\ request[r].phase = "counting"
    /\ IF Allowed(Cardinality(windows[request[r].tenant]))
       THEN request' = [request EXCEPT ![r].phase = "adding"]
       ELSE End(r)
    /\ UNCHANGED <<setup, now, boots, users, tokens, windows, past>>

\* zadd, with the time at which the check began.
Add(r) ==
    /\ request[r].phase = "adding"
    /\ Admit(request[r].tenant, [at |-> request[r].at, by |-> r])
    /\ End(r)
    /\ UNCHANGED <<setup, now, boots, users, tokens, widest, slow, raced>>

\* RateLimiter.check, acquire and rate_limited with the limiter in memory: the
\* lock is always free, for its holder does not await.
CheckInMemory(r, t) ==
    /\ Begins(r) /\ t \in Identities /\ setup.limiter = "memory"
    /\ IF Allowed(Cardinality(Recent(t, now)))
       THEN /\ windows' = [windows EXCEPT ![t] = Recent(t, now) \cup {[at |-> now, by |-> r]}]
            /\ admitted' = [admitted EXCEPT ![t] = @ \cup {[at |-> now, by |-> r]}]
       ELSE /\ windows' = [windows EXCEPT ![t] = Recent(t, now)]
            /\ UNCHANGED admitted
    /\ widest' = [widest EXCEPT ![t] = Max({@, 1})]
    /\ End(r)
    /\ UNCHANGED <<setup, now, boots, users, tokens, slow, raced>>

-----------------------------------------------------------------------------
Tick ==
    /\ now < MaxTime
    /\ now' = now + 1
    /\ slow' = slow \cup {t \in Tenants : Checking(t) # {}}
    /\ UNCHANGED <<setup, boots, users, tokens, windows, request, admitted, widest, raced>>

\* The process restarts: requests under way are gone, and so are the windows in
\* memory; Redis keeps its own.
Restart ==
    /\ boots < MaxBoots
    /\ boots' = boots + 1
    /\ request' = [r \in Requests |-> IF request[r].phase = "idle" THEN request[r]
                                      ELSE [Idle EXCEPT !.phase = "done"]]
    /\ IF setup.limiter = "memory"
       THEN /\ windows' = [t \in Tenants |-> {}]
            /\ admitted' = [t \in Tenants |-> {}]
       ELSE UNCHANGED <<windows, admitted>>
    /\ UNCHANGED <<setup, now, users, tokens, widest, slow, raced>>

Next ==
    \/ \E r \in Requests, body \in Kinds : Register(r, body) \/ Login(r, body)
    \/ \E r \in Requests, t \in Tenants : Chat(r, t) \/ CheckInMemory(r, t)
    \/ \E r \in Requests : Registered(r) \/ Fail(r) \/ Trim(r) \/ Count(r) \/ Add(r)
    \/ Tick
    \/ Restart

Spec == Init /\ [][Next]_vars

-----------------------------------------------------------------------------
(* Properties.                                                             *)

\* A registration that was acknowledged can log in for ever after, and its
\* tokens are of its tenant; unless two registrations with this e-mail have
\* overlapped: then both users are there and neither can.
RegisteredCanLogIn ==
    /\ TypeOK
    /\ \A u \in users : Answer(u.email, u.password) = "token" \/ u.email \in raced
    /\ \A k \in tokens : \E u \in users : u.tenant = k.tenant

\* In a minute no more requests of a tenant are let through than its limit and
\* the other checks that were under way at the same time; unless a check takes
\* so long that time passes, for its entry is then older than it is.
WithinLimit ==
    \A t \in Tenants \ slow, i \in 0..MaxTime :
        Cardinality({s \in admitted[t] : s.at <= i /\ s.at + Minute > i})
            <= Limit + Max({0, widest[t] - 1})
=============================================================================
