------------------------ MODULE SessionContextProofs ------------------------
(***************************************************************************)
(* Proofs about SessionContext for any number of requests, any models and  *)
(* presets, on SQLite and on Postgres.                                     *)
(***************************************************************************)
EXTENDS SessionContext, SequenceTheorems, WellFoundedInduction, TLAPS

-----------------------------------------------------------------------------
(* The inductive invariant.                                                *)

\* What is stored of a secret: nothing, or what a request brought, encrypted at
\* most n times.
Stored(s, n) == s = NoSecret \/ (s.by \in Requests /\ s.layers \in 1..n)

SoundContext(ctx) == ctx \in Contexts /\ Stored(ctx.api_key, 1) /\ Stored(ctx.github, 2)

SoundConfig(cfg) ==
    /\ cfg \in Seq(Entries)
    /\ \A i \in DOMAIN cfg : Stored(cfg[i].key, 1)
    /\ \A i, j \in DOMAIN cfg : cfg[i].id = cfg[j].id => i = j

RequestRecord == [phase : {"idle", "exchanging", "loaded", "done"}, body : Kinds \cup {None},
                  context : Contexts, config : Seq(Entries), at : Nat]

\* What is in the row, or was when a request loaded it, at time at: the last
\* acknowledged value of f, unless that came later or was dropped.
Current(ctx, cfg, f, at) ==
    written[f] <= at => Field(ctx, cfg, f) = acked[f] \/ Overlapped(f, written[f])

\* What a request q has loaded; r is its number.
RequestSound(r, q) ==
    /\ SoundContext(q.context) /\ SoundConfig(q.config)
    /\ q.phase \in {"exchanging", "loaded"} => q.body \in Kinds
    /\ q.phase = "exchanging" => q.body.kind = "connect"
    /\ q.phase = "loaded" => /\ q.at <= commits
                             /\ \A f \in Fields : Current(q.context, q.config, f, q.at)
                             /\ q.body.kind = "memory" /\ is_postgres
                                   => lock = r /\ q.context = context

Types ==
    /\ is_postgres \in Databases
    /\ request \in [Requests -> RequestRecord]
    /\ lock \in Requests \cup {None}
    /\ commits \in Nat
    /\ written \in [Fields -> 0..commits]
    /\ DOMAIN acked = Fields

IInv ==
    /\ Types
    /\ SoundContext(context) /\ SoundConfig(config)
    /\ LostOnlyByOverlap
    /\ \A r \in Requests : RequestSound(r, request[r])

-----------------------------------------------------------------------------
(* The configurations of models.                                           *)

\* A set of natural numbers that is not empty has a least member.
LEMMA Least ==
    ASSUME NEW T, T \subseteq Nat, T # {}
    PROVE  Min(T) \in T
<1>1. PICK x \in T : \A y \in T : ~(<<y, x>> \in OpToRel(<, Nat))
      BY WFMin, NatLessThanWellFounded
<1>2. \A y \in T : ~(y < x)
      BY <1>1 DEF OpToRel
<1>3. \A y \in T : x <= y
      BY <1>2
<1> QED BY <1>3 DEF Min

\* The position that the handlers look for by id, 0 for none.
PositionOf(cfg, id) ==
    LET own == {j \in 1..Len(cfg) : cfg[j].id = id} IN IF own # {} THEN Min(own) ELSE 0

\* It is the position of an entry with that id, when there is one.
LEMMA Position ==
    ASSUME NEW cfg \in Seq(Entries), NEW id
    PROVE  \/ PositionOf(cfg, id) = 0 /\ \A j \in DOMAIN cfg : cfg[j].id # id
           \/ /\ PositionOf(cfg, id) \in DOMAIN cfg /\ PositionOf(cfg, id) # 0
              /\ cfg[PositionOf(cfg, id)].id = id
<1> DEFINE I == {j \in 1..Len(cfg) : cfg[j].id = id}
<1>1. PositionOf(cfg, id) = IF I # {} THEN Min(I) ELSE 0
      BY DEF PositionOf
<1>2. DOMAIN cfg = 1..Len(cfg) /\ I \subseteq Nat
      OBVIOUS
<1>3. I # {} => Min(I) \in I
      BY <1>2, Least
<1> QED BY <1>1, <1>2, <1>3

\* The key that is kept under an id: the one of its entry, or none.
LEMMA KeyOfIs ==
    ASSUME NEW cfg, SoundConfig(cfg), NEW id
    PROVE  /\ \A j \in DOMAIN cfg : cfg[j].id = id => KeyOf(cfg, id) = cfg[j].key
           /\ (\A j \in DOMAIN cfg : cfg[j].id # id) => KeyOf(cfg, id) = NoSecret
           /\ KeyOf(cfg, id) = NoSecret \/ \E j \in DOMAIN cfg : KeyOf(cfg, id) = cfg[j].key
<1>1. PICK i : i = PositionOf(cfg, id)
      OBVIOUS
<1>2. KeyOf(cfg, id) = IF i = 0 THEN NoSecret ELSE cfg[i].key
      BY <1>1 DEF KeyOf, PositionOf, SelectInSeq
<1>3. \/ i = 0 /\ \A j \in DOMAIN cfg : cfg[j].id # id
      \/ i \in DOMAIN cfg /\ cfg[i].id = id
      BY <1>1, Position DEF SoundConfig
<1>4. 0 \notin DOMAIN cfg
      BY DEF SoundConfig
<1> QED BY <1>2, <1>3, <1>4 DEF SoundConfig

\* Encrypting what a request brought gives something that may be stored.
LEMMA Encrypted ==
    ASSUME NEW r \in Requests
    PROVE  /\ encrypt_string(Plain(r)) \in Secrets /\ Stored(encrypt_string(Plain(r)), 1)
           /\ encrypt_string(encrypt_string(Plain(r))) \in Secrets
           /\ Stored(encrypt_string(encrypt_string(Plain(r))), 2)
           /\ NoSecret \in Secrets /\ \A n : Stored(NoSecret, n)
<1>1. encrypt_string(Plain(r)) = [by |-> r, layers |-> 1]
      BY ContextAssumption DEF encrypt_string, Plain, NoSecret
<1>2. encrypt_string(encrypt_string(Plain(r))) = [by |-> r, layers |-> 2]
      BY <1>1, ContextAssumption DEF encrypt_string, NoSecret
<1> QED BY <1>1, <1>2 DEF Secrets, Stored, NoSecret

\* The new list of configurations is a sound one, and what it says of other
\* models than the one of the request, or of that one without a new key, is
\* what it said.
LEMMA NewConfigSound ==
    ASSUME NEW r \in Requests, NEW b, NEW cfg, b = request[r].body, cfg = request[r].config,
           b \in [kind : {"byok"}, id : ModelIds, with_key : BOOLEAN], SoundConfig(cfg)
    PROVE  /\ SoundConfig(NewConfig(r))
           /\ \A id : id # b.id \/ ~b.with_key => KeyOf(NewConfig(r), id) = KeyOf(cfg, id)
<1> DEFINE k == SavedKey(r, b, cfg)
           e == [id |-> b.id, key |-> k]
<1>1. k \in Secrets /\ Stored(k, 1) /\ (~b.with_key => k = KeyOf(cfg, b.id))
  <2>1. CASE b.with_key
        BY <2>1, Encrypted DEF SavedKey
  <2>2. CASE ~b.with_key
    <3>1. k = KeyOf(cfg, b.id)
          BY <2>2 DEF SavedKey
    <3>2. CASE k = NoSecret
          BY <3>1, <3>2, Encrypted
    <3>3. CASE \E j \in DOMAIN cfg : k = cfg[j].key
      <4>1. PICK j \in DOMAIN cfg : k = cfg[j].key
            BY <3>3
      <4>2. cfg[j] \in Entries /\ Stored(cfg[j].key, 1)
            BY DEF SoundConfig
      <4> HIDE DEF k
      <4> QED BY <2>2, <3>1, <4>1, <4>2 DEF Entries
    <3> QED BY <3>1, <3>2, <3>3, KeyOfIs
  <2> QED BY <2>1, <2>2
<1> HIDE DEF k
<1>2. e \in Entries /\ e.id = b.id /\ e.key = k
      BY <1>1 DEF Entries
<1> HIDE DEF e
<1>3. PICK i : i = PositionOf(cfg, b.id)
      OBVIOUS
<1>4. NewConfig(r) = IF i = 0 THEN Append(cfg, e) ELSE [cfg EXCEPT ![i] = e]
      BY <1>3 DEF NewConfig, e, k, PositionOf, SelectInSeq
<1>5. \/ i = 0 /\ \A j \in DOMAIN cfg : cfg[j].id # b.id
      \/ i # 0 /\ i \in DOMAIN cfg /\ cfg[i].id = b.id
      BY <1>3, Position DEF SoundConfig
<1>6. PICK n : n = NewConfig(r)
      OBVIOUS
<1>7. cfg \in Seq(Entries) /\ DOMAIN cfg = 1..Len(cfg) /\ Len(cfg) \in Nat
      BY DEF SoundConfig
<1>8. CASE i = 0
  <2>1. /\ n = Append(cfg, e) /\ n \in Seq(Entries) /\ Len(n) = Len(cfg) + 1
        /\ DOMAIN n = 1..Len(cfg) + 1
        /\ n[Len(cfg) + 1] = e /\ \A j \in 1..Len(cfg) : n[j] = cfg[j]
        BY <1>2, <1>4, <1>6, <1>7, <1>8
  <2>2. SoundConfig(n)
    <3>1. \A j \in DOMAIN n : Stored(n[j].key, 1)
          BY <1>1, <1>2, <1>7, <2>1 DEF SoundConfig
    <3>2. ASSUME NEW j \in DOMAIN n, NEW l \in DOMAIN n, n[j].id = n[l].id
          PROVE  j = l
          BY <1>2, <1>5, <1>7, <1>8, <2>1, <3>2 DEF SoundConfig
    <3> QED BY <2>1, <3>1, <3>2 DEF SoundConfig
  <2>3. ASSUME NEW id, id # b.id \/ ~b.with_key
        PROVE  KeyOf(n, id) = KeyOf(cfg, id)
    <3>1. CASE \E j \in DOMAIN cfg : cfg[j].id = id
      <4>1. PICK j \in DOMAIN cfg : cfg[j].id = id
            BY <3>1
      <4>2. KeyOf(cfg, id) = cfg[j].key
            BY <4>1, KeyOfIs
      <4>3. j \in DOMAIN n /\ n[j] = cfg[j]
            BY <1>7, <2>1
      <4> QED BY <2>2, <4>1, <4>2, <4>3, KeyOfIs
    <3>2. CASE \A j \in DOMAIN cfg : cfg[j].id # id
      <4>1. KeyOf(cfg, id) = NoSecret
            BY <3>2, KeyOfIs
      <4>2. CASE id = b.id
        <5>1. n[Len(cfg) + 1].id = id /\ n[Len(cfg) + 1].key = k /\ Len(cfg) + 1 \in DOMAIN n
              BY <1>2, <1>7, <2>1, <4>2
        <5> QED BY <1>1, <2>2, <2>3, <4>1, <4>2, <5>1, KeyOfIs
      <4>3. CASE id # b.id
        <5>1. \A j \in DOMAIN n : n[j].id # id
              BY <1>2, <1>7, <2>1, <3>2, <4>3
        <5> QED BY <2>2, <4>1, <5>1, KeyOfIs
      <4> QED BY <4>2, <4>3
    <3> QED BY <3>1, <3>2
  <2> QED BY <1>6, <2>2, <2>3
<1>9. CASE i # 0
  <2>1. /\ n = [cfg EXCEPT ![i] = e] /\ n \in Seq(Entries) /\ DOMAIN n = DOMAIN cfg
        /\ n[i] = e /\ \A j \in DOMAIN cfg : j # i => n[j] = cfg[j]
        /\ i \in DOMAIN cfg /\ cfg[i].id = b.id
        BY <1>2, <1>4, <1>5, <1>6, <1>7, <1>9
  <2>2. \A j \in DOMAIN n : n[j].id = cfg[j].id
        BY <1>2, <2>1
  <2>3. SoundConfig(n)
    <3>1. \A j \in DOMAIN n : Stored(n[j].key, 1)
          BY <1>1, <1>2, <2>1 DEF SoundConfig
    <3> QED BY <2>1, <2>2, <3>1 DEF SoundConfig
  <2>4. ASSUME NEW id, id # b.id \/ ~b.with_key
        PROVE  KeyOf(n, id) = KeyOf(cfg, id)
    <3>1. CASE id = b.id
      <4>1. KeyOf(n, id) = k
            BY <1>2, <2>1, <2>3, <3>1, KeyOfIs
      <4> QED BY <1>1, <2>4, <3>1, <4>1
    <3>2. CASE id # b.id /\ \E j \in DOMAIN cfg : cfg[j].id = id
      <4>1. PICK j \in DOMAIN cfg : cfg[j].id = id
            BY <3>2
      <4>2. j \in DOMAIN n /\ n[j] = cfg[j]
            BY <2>1, <3>2, <4>1
      <4>3. KeyOf(n, id) = n[j].key
            BY <2>3, <4>1, <4>2, KeyOfIs
      <4>4. KeyOf(cfg, id) = cfg[j].key
            BY <4>1, KeyOfIs
      <4> QED BY <4>2, <4>3, <4>4
    <3>3. CASE \A j \in DOMAIN cfg : cfg[j].id # id
          BY <2>1, <2>2, <2>3, <3>3, KeyOfIs
    <3> QED BY <3>1, <3>2, <3>3
  <2> QED BY <1>6, <2>3, <2>4
<1> QED BY <1>8, <1>9

-----------------------------------------------------------------------------
(* The context of the session.                                             *)

\* The new context is a sound one, and only the request's own fields differ.
LEMMA NewContextSound ==
    ASSUME NEW r \in Requests, NEW b, NEW ctx, b = request[r].body, ctx = request[r].context,
           b \in Kinds, SoundContext(ctx)
    PROVE  /\ SoundContext(NewContext(r))
           /\ \A f \in ContextFields \ Own(r) : NewContext(r)[f] = ctx[f]
           /\ b.kind = "byok" => NewContext(r) = ctx
<1> DEFINE n == NewContext(r)
<1>0. /\ ctx \in Contexts /\ Stored(ctx.api_key, 1) /\ Stored(ctx.github, 2)
      /\ Stored(ctx.api_key, 1) => Stored(ctx.api_key, 2)
      BY DEF SoundContext, Stored
<1>1. /\ encrypt_string(Plain(r)) \in Secrets /\ Stored(encrypt_string(Plain(r)), 1)
      /\ Stored(encrypt_string(Plain(r)), 2)
      /\ encrypt_string(encrypt_string(Plain(r))) \in Secrets
      /\ Stored(encrypt_string(encrypt_string(Plain(r))), 2)
      /\ NoSecret \in Secrets /\ Stored(NoSecret, 1) /\ Stored(NoSecret, 2)
      BY Encrypted DEF Stored
<1>2. CASE b.kind = "config"
  <2>1. b.api_key \in BOOLEAN /\ b.github \in BOOLEAN
        BY <1>2 DEF Kinds
  <2>2. n = ConfigPatch(r, b, ctx)
        BY <1>2 DEF NewContext
  <2>3. Own(r) = {f \in {"api_key", "github"} : b[f]}
        BY <1>2 DEF Own
  <2>4. SoundContext(n)
        BY <1>0, <1>1, <2>1, <2>2 DEF ConfigPatch, SoundContext, Contexts
  <2>5. \A f \in ContextFields \ Own(r) : n[f] = ctx[f]
        BY <1>0, <2>1, <2>2, <2>3 DEF ConfigPatch, ContextFields, Contexts
  <2> QED BY <1>2, <2>4, <2>5
<1>3. CASE b.kind = "chat"
  <2>1. b.shadow \in BOOLEAN /\ b.model \in ModelIds \cup {None}
        BY <1>3 DEF Kinds
  <2>2. n = ChatPatch(b, ctx)
        BY <1>3 DEF NewContext
  <2>3. Own(r) = {"shadow_mode"} \cup IF b.model = None THEN {} ELSE {"active_model_id"}
        BY <1>3 DEF Own
  <2>4. SoundContext(n)
        BY <1>0, <2>1, <2>2 DEF ChatPatch, SoundContext, Contexts
  <2>5. \A f \in ContextFields \ Own(r) : n[f] = ctx[f]
        BY <1>0, <2>1, <2>2, <2>3 DEF ChatPatch, ContextFields, Contexts
  <2> QED BY <1>3, <2>4, <2>5
<1>4. CASE b.kind \in {"connect", "disconnect"}
  <2>1. \E s \in Secrets : n = [ctx EXCEPT !.github = s] /\ Stored(s, 2)
    <3>1. CASE b.kind = "connect"
          BY <1>1, <3>1 DEF NewContext, ConnectPatch, ExchangedToken
    <3>2. CASE b.kind = "disconnect"
          BY <1>1, <3>2 DEF NewContext
    <3> QED BY <1>4, <3>1, <3>2
  <2>2. Own(r) = {"github"}
        BY <1>4 DEF Own
  <2>3. SoundContext(n)
        BY <1>0, <2>1 DEF SoundContext, Contexts
  <2>4. \A f \in ContextFields \ Own(r) : n[f] = ctx[f]
        BY <1>0, <2>1, <2>2 DEF ContextFields, Contexts
  <2> QED BY <1>4, <2>3, <2>4
<1>5. CASE b.kind = "memory"
  <2>1. n = MemoryPatch(r, b, ctx)
        BY <1>5 DEF NewContext
  <2>2. Own(r) = {"agent_memory"}
        BY <1>5 DEF Own
  <2>3. SoundContext(n)
        BY <1>0, <2>1 DEF MemoryPatch, SoundContext, Contexts
  <2>4. \A f \in ContextFields \ Own(r) : n[f] = ctx[f]
        BY <1>0, <2>1, <2>2 DEF MemoryPatch, ContextFields, Contexts
  <2> QED BY <1>5, <2>3, <2>4
<1>6. CASE b.kind = "byok"
      BY <1>6 DEF NewContext
<1>7. b.kind \in {"config", "chat", "connect", "disconnect", "memory", "byok"}
      BY DEF Kinds
<1> QED BY <1>2, <1>3, <1>4, <1>5, <1>6, <1>7

\* What the commit of r leaves in the row: sound values, and of a field that is
\* not its own what was there or what r had loaded.
LEMMA WritesSound ==
    ASSUME IInv, NEW r \in Requests, request[r].phase = "loaded", Writes(r)
    PROVE  /\ SoundContext(context') /\ SoundConfig(config')
           /\ \A f \in Fields \ Own(r) :
                 Field(context', config', f) \in {Field(context, config, f),
                     Field(request[r].context, request[r].config, f)}
<1> DEFINE b == request[r].body
           ctx == request[r].context
           cfg == request[r].config
<1>1. /\ SoundContext(context) /\ SoundConfig(config)
      /\ SoundContext(ctx) /\ SoundConfig(cfg) /\ b \in Kinds
      BY DEF IInv, RequestSound
<1>2. /\ SoundContext(NewContext(r))
      /\ \A f \in ContextFields \ Own(r) : NewContext(r)[f] = ctx[f]
      BY <1>1, NewContextSound
<1>3. context' \in {context, NewContext(r)}
      BY DEF Writes
<1>4. CASE b.kind = "byok"
  <2>1. b \in [kind : {"byok"}, id : ModelIds, with_key : BOOLEAN]
        BY <1>1, <1>4 DEF Kinds
  <2>2. config' = NewConfig(r)
        BY <1>4 DEF Writes
  <2>3. /\ SoundConfig(NewConfig(r))
        /\ \A id : id # b.id \/ ~b.with_key => KeyOf(NewConfig(r), id) = KeyOf(cfg, id)
        BY <1>1, <2>1, NewConfigSound
  <2>4. Own(r) = IF b.with_key THEN {b.id} ELSE {}
        BY <1>4 DEF Own
  <2> QED BY <1>1, <1>2, <1>3, <2>2, <2>3, <2>4 DEF Field
<1>5. CASE b.kind # "byok"
  <2>1. config' = config
        BY <1>5 DEF Writes
  <2> QED BY <1>1, <1>2, <1>3, <2>1 DEF Field
<1> QED BY <1>4, <1>5

-----------------------------------------------------------------------------
(* Steps that leave the rows alone.                                        *)

\* The start of a session, and what a request that has ended keeps.
LEMMA BlankSound ==
    /\ SoundContext(Blank) /\ SoundConfig(<< >>)
    /\ \A r : RequestSound(r, NoRequest) /\ RequestSound(r, [NoRequest EXCEPT !.phase = "done"])
    /\ NoRequest \in RequestRecord /\ [NoRequest EXCEPT !.phase = "done"] \in RequestRecord
<1>1. SoundContext(Blank)
  <2>1. NoSecret \in Secrets
        BY DEF Secrets, NoSecret
  <2> QED BY <2>1 DEF SoundContext, Blank, Contexts, Stored
<1>2. SoundConfig(<< >>)
      BY DEF SoundConfig
<1>3. Blank \in Contexts
      BY <1>1 DEF SoundContext
<1>4. PICK n : n = [NoRequest EXCEPT !.phase = "done"]
      OBVIOUS
<1>5. /\ NoRequest.phase = "idle" /\ NoRequest.context = Blank /\ NoRequest.config = << >>
      /\ n = [phase |-> "done", body |-> None, context |-> Blank, config |-> << >>, at |-> 0]
      BY <1>4 DEF NoRequest
<1>6. n.phase = "done" /\ n.context = Blank /\ n.config = << >>
      BY <1>5
<1>7. \A r : RequestSound(r, NoRequest) /\ RequestSound(r, n)
      BY <1>1, <1>2, <1>5, <1>6 DEF RequestSound
<1>8. NoRequest \in RequestRecord /\ n \in RequestRecord
      BY <1>3, <1>5 DEF NoRequest, RequestRecord
<1> QED BY <1>1, <1>2, <1>4, <1>7, <1>8

\* What a request has loaded stays as good as it was while no row is written.
LEMMA OtherKept ==
    ASSUME IInv, NEW q \in Requests, UNCHANGED <<is_postgres, rows, past>>,
           request'[q] = request[q], lock = q => lock' = q
    PROVE  RequestSound(q, request[q])'
BY DEF IInv, RequestSound, Current, Overlapped, SoundContext, SoundConfig, rows, past

\* The row as it is loaded is current.
LEMMA LoadSound ==
    ASSUME IInv, NEW r \in Requests, NEW b \in Kinds, Load(r, b),
           UNCHANGED <<is_postgres, rows, past>>,
           b.kind = "memory" /\ is_postgres => lock' = r
    PROVE  request' \in [Requests -> RequestRecord] /\ RequestSound(r, request[r])'
<1> DEFINE n == [phase |-> "loaded", body |-> b, context |-> context, config |-> config, at |-> commits]
<1>1. request' = [request EXCEPT ![r] = n] /\ request \in [Requests -> RequestRecord]
      BY DEF Load, IInv, Types
<1>2. n \in RequestRecord
      BY DEF IInv, Types, SoundContext, SoundConfig, RequestRecord
<1>3. request'[r] = n /\ request' \in [Requests -> RequestRecord]
      BY <1>1, <1>2
<1>4. \A f \in Fields : Current(context, config, f, commits)
      BY DEF IInv, LostOnlyByOverlap, Current
<1>5. PICK m : m = n
      OBVIOUS
<1>6. RequestSound(r, m)'
  <2>1. m.phase = "loaded" /\ m.body = b /\ m.context = context /\ m.config = config /\ m.at = commits
        BY <1>5
  <2> QED BY <1>4, <2>1 DEF IInv, Types, RequestSound, Current, Overlapped, SoundContext, SoundConfig,
                            rows, past
<1>7. request'[r] = m
      BY <1>3, <1>5
<1> QED BY <1>3, <1>6, <1>7

\* A step of r that writes no row keeps the invariant, if r is left sound and
\* nobody's lock is taken away.
LEMMA QuietStep ==
    ASSUME IInv, NEW r \in Requests, UNCHANGED <<is_postgres, rows, past>>,
           request' \in [Requests -> RequestRecord],
           \A q \in Requests \ {r} : request'[q] = request[q],
           lock' \in Requests \cup {None}, lock \notin {None, r} => lock' = lock,
           RequestSound(r, request[r])'
    PROVE  IInv'
<1>1. Types'
      BY DEF IInv, Types, past
<1>2. SoundContext(context') /\ SoundConfig(config') /\ LostOnlyByOverlap'
      BY DEF IInv, LostOnlyByOverlap, Overlapped, rows, past
<1>3. ASSUME NEW q \in Requests
      PROVE  RequestSound(q, request[q])'
  <2>1. CASE q = r
        BY <2>1
  <2>2. CASE q # r
    <3>1. request'[q] = request[q] /\ (lock = q => lock' = q)
          BY <2>2, ContextAssumption
    <3> QED BY <3>1, OtherKept
  <2> QED BY <2>1, <2>2
<1> QED BY <1>1, <1>2, <1>3 DEF IInv, SoundContext, SoundConfig

\* A request begins.
LEMMA StartSound ==
    ASSUME IInv, NEW r \in Requests, NEW b \in Kinds, Start(r, b)
    PROVE  IInv'
<1>1. /\ request \in [Requests -> RequestRecord] /\ request[r] \in RequestRecord
      /\ lock \in Requests \cup {None}
      BY DEF IInv, Types
<1>2. /\ request[r].phase = "idle" /\ UNCHANGED <<is_postgres, rows, past>>
      /\ lock' \in Requests \cup {None} /\ (lock \notin {None, r} => lock' = lock)
      /\ b.kind = "memory" /\ is_postgres => lock' = r
      BY <1>1 DEF Start, Locks
<1>3. \A q \in Requests \ {r} : request'[q] = request[q]
      BY <1>1 DEF Start, Load
<1>4. CASE b.kind = "connect"
  <2>1. request' = [request EXCEPT ![r].phase = "exchanging", ![r].body = b]
        BY <1>4 DEF Start
  <2>2. /\ request' \in [Requests -> RequestRecord]
        /\ request'[r].phase = "exchanging" /\ request'[r].body = b
        /\ request'[r].context = request[r].context /\ request'[r].config = request[r].config
        BY <1>1, <2>1 DEF RequestRecord
  <2>3. RequestSound(r, request[r])'
    <3>1. SoundContext(request[r].context) /\ SoundConfig(request[r].config)
          BY DEF IInv, RequestSound
    <3> QED BY <1>4, <2>2, <3>1 DEF RequestSound, SoundContext, SoundConfig
  <2> QED BY <1>2, <1>3, <2>2, <2>3, QuietStep
<1>5. CASE b.kind # "connect"
  <2>1. Load(r, b)
        BY <1>5 DEF Start
  <2>2. request' \in [Requests -> RequestRecord] /\ RequestSound(r, request[r])'
        BY <1>2, <2>1, LoadSound
  <2> QED BY <1>2, <1>3, <2>2, QuietStep
<1> QED BY <1>4, <1>5

\* A request ends without having written.
LEMMA EndedSound ==
    ASSUME IInv, NEW r \in Requests, UNCHANGED <<is_postgres, rows, past>>,
           request' = [request EXCEPT ![r] = [NoRequest EXCEPT !.phase = "done"]],
           lock' = lock \/ (lock = r /\ lock' = None)
    PROVE  IInv'
<1> DEFINE n == [NoRequest EXCEPT !.phase = "done"]
<1>1. n \in RequestRecord /\ request \in [Requests -> RequestRecord]
      BY BlankSound DEF IInv, Types
<1>2. RequestSound(r, n)'
      BY DEF RequestSound, NoRequest, Blank, SoundContext, SoundConfig, Contexts, Stored, Secrets,
             NoSecret
<1> HIDE DEF n
<1>3. /\ request' \in [Requests -> RequestRecord] /\ request'[r] = n
      /\ \A q \in Requests \ {r} : request'[q] = request[q]
      BY <1>1 DEF n
<1>4. RequestSound(r, request[r])'
      BY <1>2, <1>3
<1>5. lock' \in Requests \cup {None}
      BY DEF IInv, Types
<1> QED BY <1>3, <1>4, <1>5, QuietStep

\* GitHub has answered.
LEMMA ExchangeSound ==
    ASSUME IInv, NEW r \in Requests, NEW exchanged \in BOOLEAN, NEW state \in ParsedStates,
           ExchangeReturns(r, exchanged, state)
    PROVE  IInv'
<1>1. /\ request[r].phase = "exchanging" /\ UNCHANGED <<is_postgres, rows, lock, past>>
      /\ request[r].body \in Kinds /\ request[r].body.kind = "connect"
      BY DEF ExchangeReturns, IInv, RequestSound
<1>2. CASE exchanged /\ state = "session"
  <2>1. Load(r, request[r].body)
        BY <1>2 DEF ExchangeReturns
  <2>2. request' \in [Requests -> RequestRecord] /\ RequestSound(r, request[r])'
        BY <1>1, <2>1, LoadSound
  <2>3. \A q \in Requests \ {r} : request'[q] = request[q]
        BY <2>1 DEF Load, IInv, Types
  <2>4. lock' \in Requests \cup {None}
        BY <1>1 DEF IInv, Types
  <2> QED BY <1>1, <2>2, <2>3, <2>4, QuietStep
<1>3. CASE ~(exchanged /\ state = "session")
  <2>1. request' = [request EXCEPT ![r] = [NoRequest EXCEPT !.phase = "done"]]
        BY <1>3 DEF ExchangeReturns
  <2> QED BY <1>1, <2>1, EndedSound
<1> QED BY <1>2, <1>3

-----------------------------------------------------------------------------
(* The commit.                                                             *)

\* What was lost stays accounted for, and what r drops was loaded too early or
\* had been lost before.
LEMMA CommitLoses ==
    ASSUME IInv, NEW r \in Requests, Commit(r)
    PROVE  /\ LostOnlyByOverlap'
           /\ \A f, w : Overlapped(f, w) => Overlapped(f, w)'
<1> DEFINE ctx == request[r].context
           cfg == request[r].config
           at == request[r].at
           Dropped == {f \in Fields \ Own(r) :
                          /\ Field(context, config, f) = acked[f]
                          /\ Field(context', config', f) # acked[f]}
<1>1. /\ request[r].phase = "loaded" /\ Writes(r)
      /\ acked' = [f \in Fields |-> IF f \in Own(r) THEN Field(context', config', f) ELSE acked[f]]
      /\ written' = [f \in Fields |-> IF f \in Own(r) THEN commits + 1 ELSE written[f]]
      /\ lost' = lost \cup {[field |-> f, loaded |-> at, written |-> written[f]] : f \in Dropped}
      BY DEF Commit
<1>2. /\ \A f \in Fields : Current(ctx, cfg, f, at)
      /\ written \in [Fields -> 0..commits] /\ commits \in Nat /\ at \in Nat
      /\ \A l \in lost : Overlapped(l.field, l.written)
      /\ \A f \in Fields : Field(context, config, f) # acked[f] => Overlapped(f, written[f])
      BY <1>1 DEF IInv, Types, RequestSound, LostOnlyByOverlap, RequestRecord
<1>3. \A f \in Fields \ Own(r) : Field(context', config', f) \in
          {Field(context, config, f), Field(ctx, cfg, f)}
      BY <1>1, WritesSound
<1>4. ASSUME NEW f, NEW w, Overlapped(f, w)
      PROVE  Overlapped(f, w)'
      BY <1>1, <1>4 DEF Overlapped
<1>5. ASSUME NEW f \in Dropped, NEW w, w = written[f]
      PROVE  Overlapped(f, w)'
  <2>1. CASE at < w
    <3> DEFINE l == [field |-> f, loaded |-> at, written |-> w]
    <3>1. l \in lost'
          BY <1>1, <1>5
    <3>2. l.field = f /\ l.written = w /\ l.loaded < w
          BY <2>1
    <3> HIDE DEF l
    <3> QED BY <3>1, <3>2 DEF Overlapped
  <2>2. CASE ~(at < w)
    <3>1. written[f] <= at
          BY <1>2, <1>5, <2>2
    <3>2. Field(ctx, cfg, f) # acked[f]
          BY <1>3
    <3>3. Overlapped(f, w)
          BY <1>2, <1>5, <3>1, <3>2 DEF Current
    <3> QED BY <1>4, <3>3
  <2> QED BY <2>1, <2>2
<1>6. ASSUME NEW l \in lost'
      PROVE  Overlapped(l.field, l.written)'
  <2>1. CASE l \in lost
        BY <1>2, <1>4, <2>1
  <2>2. CASE l \notin lost
    <3>1. PICK f \in Dropped : l = [field |-> f, loaded |-> at, written |-> written[f]]
          BY <1>1, <2>2
    <3>2. PICK w : w = written[f]
          OBVIOUS
    <3>3. l.field = f /\ l.written = w
          BY <3>1, <3>2
    <3>4. Overlapped(f, w)'
          BY <1>5, <3>2
    <3> QED BY <3>3, <3>4
  <2> QED BY <2>1, <2>2
<1>7. ASSUME NEW f \in Fields, Field(context', config', f) # acked'[f]
      PROVE  Overlapped(f, written[f])'
  <2>1. f \notin Own(r) /\ acked'[f] = acked[f] /\ written'[f] = written[f]
        BY <1>1, <1>7
  <2>2. PICK w : w = written[f]
        OBVIOUS
  <2>3. Overlapped(f, w)' \/ f \in Dropped
        BY <1>2, <1>4, <1>7, <2>1, <2>2
  <2>4. Overlapped(f, w)'
        BY <1>5, <2>2, <2>3
  <2> QED BY <2>1, <2>2, <2>4 DEF Overlapped
<1> QED BY <1>4, <1>6, <1>7 DEF LostOnlyByOverlap

\* The commit of r keeps the invariant: what the others have loaded is as good
\* as it was, unless r has written it, and then they came too early.
LEMMA CommitSound ==
    ASSUME IInv, NEW r \in Requests, Commit(r)
    PROVE  IInv'
<1> DEFINE n == [NoRequest EXCEPT !.phase = "done"]
<1>1. /\ request[r].phase = "loaded" /\ Writes(r) /\ is_postgres' = is_postgres
      /\ request[r].body.kind # "byok" => lock \in {None, r}
      /\ request' = [request EXCEPT ![r] = n] /\ lock' = IF lock = r THEN None ELSE lock
      /\ commits' = commits + 1
      /\ acked' = [f \in Fields |-> IF f \in Own(r) THEN Field(context', config', f) ELSE acked[f]]
      /\ written' = [f \in Fields |-> IF f \in Own(r) THEN commits + 1 ELSE written[f]]
      BY DEF Commit, Finish
<1>2. Types
      BY DEF IInv
<1>3. SoundContext(context') /\ SoundConfig(config')
      BY <1>1, WritesSound
<1>4. LostOnlyByOverlap' /\ \A f, w : Overlapped(f, w) => Overlapped(f, w)'
      BY CommitLoses
<1>5. Types'
  <2>1. n \in RequestRecord
        BY BlankSound
  <2> HIDE DEF n
  <2> QED BY <1>1, <1>2, <2>1 DEF Types
<1>6. RequestSound(r, request[r])'
  <2>1. request'[r] = n
        BY <1>1, <1>2 DEF Types
  <2>2. n.phase = "done" /\ n.context = Blank /\ n.config = << >>
        BY DEF NoRequest
  <2> HIDE DEF n
  <2>3. SoundContext(Blank) /\ SoundConfig(<< >>)
        BY BlankSound
  <2> QED BY <2>1, <2>2, <2>3 DEF RequestSound, SoundContext, SoundConfig
<1>7. ASSUME NEW q \in Requests, q # r
      PROVE  RequestSound(q, request[q])'
  <2>1. PICK m : m = request[q]
        OBVIOUS
  <2>2. request'[q] = m
        BY <1>1, <1>2, <1>7, <2>1 DEF Types
  <2>3. RequestSound(q, m)
        BY <2>1 DEF IInv
  <2>4. ASSUME m.phase = "loaded"
        PROVE  /\ m.at <= commits'
               /\ \A f \in Fields : Current(m.context, m.config, f, m.at)'
    <3>1. m.at <= commits /\ m.at \in Nat /\ commits \in Nat
          BY <1>2, <2>1, <2>3, <2>4 DEF RequestSound, Types, RequestRecord
    <3>2. ASSUME NEW f \in Fields, written'[f] <= m.at
          PROVE  Field(m.context, m.config, f) = acked'[f] \/ Overlapped(f, written[f])'
      <4>1. f \notin Own(r)
            BY <1>1, <3>1, <3>2
      <4>2. PICK w : w = written[f]
            OBVIOUS
      <4>3. written'[f] = w /\ acked'[f] = acked[f]
            BY <1>1, <4>1, <4>2
      <4>4. Field(m.context, m.config, f) = acked[f] \/ Overlapped(f, w)
            BY <2>3, <2>4, <3>2, <4>2, <4>3 DEF RequestSound, Current
      <4>5. Overlapped(f, w) => Overlapped(f, w)'
            BY <1>4
      <4> QED BY <4>3, <4>4, <4>5 DEF Overlapped
    <3> QED BY <1>1, <3>1, <3>2 DEF Current
  <2>5. ASSUME m.phase = "loaded", m.body.kind = "memory", is_postgres
        PROVE  lock' = q /\ m.context = context'
    <3>1. lock = q /\ m.context = context
          BY <2>3, <2>5 DEF RequestSound
    <3>2. lock # r /\ lock # None
          BY <1>7, <3>1, ContextAssumption
    <3>3. NewContext(r) = request[r].context
      <4>1. request[r].body.kind = "byok" /\ request[r].body \in Kinds /\ SoundContext(request[r].context)
            BY <1>1, <3>2 DEF IInv, RequestSound
      <4> QED BY <4>1, NewContextSound
    <3>4. context' = context
          BY <1>1, <3>3 DEF Writes
    <3> QED BY <1>1, <3>1, <3>2, <3>4
  <2>6. RequestSound(q, m)'
    <3>1. SoundContext(m.context)' /\ SoundConfig(m.config)'
          BY <2>3 DEF RequestSound, SoundContext, SoundConfig
    <3>2. /\ m.phase \in {"exchanging", "loaded"} => m.body \in Kinds
          /\ m.phase = "exchanging" => m.body.kind = "connect"
          BY <2>3 DEF RequestSound
    <3> QED BY <1>1, <2>4, <2>5, <3>1, <3>2 DEF RequestSound, Current
  <2> QED BY <2>2, <2>6
<1> QED BY <1>3, <1>4, <1>5, <1>6, <1>7 DEF IInv, SoundContext, SoundConfig

-----------------------------------------------------------------------------
(* The theorems.                                                           *)

\* The invariant holds at the start.
LEMMA InitSound == ASSUME Init PROVE IInv
<1>1. Types
      BY BlankSound, ContextAssumption DEF Init, Types
<1>2. LostOnlyByOverlap
      BY DEF Init, LostOnlyByOverlap
<1>3. SoundContext(context) /\ SoundConfig(config)
      BY BlankSound DEF Init
<1>4. \A r \in Requests : request[r] = NoRequest
      BY DEF Init
<1>5. \A r \in Requests : RequestSound(r, request[r])
      BY <1>4, BlankSound
<1> QED BY <1>1, <1>2, <1>3, <1>5 DEF IInv

\* Every step keeps it.
LEMMA StepSound == ASSUME IInv, [Next]_vars PROVE IInv'
<1>1. CASE UNCHANGED vars
  <2>1. UNCHANGED <<is_postgres, context, config, request, lock, acked, written, commits, lost>>
        BY <1>1 DEF vars, rows, past
  <2>2. Types' /\ LostOnlyByOverlap'
        BY <2>1 DEF IInv, Types, LostOnlyByOverlap, Overlapped
  <2>3. SoundContext(context)' /\ SoundConfig(config)'
        BY <2>1 DEF IInv, SoundContext, SoundConfig
  <2>4. ASSUME NEW q \in Requests
        PROVE  RequestSound(q, request[q])'
    <3>1. request'[q] = request[q] /\ (lock = q => lock' = q)
          BY <2>1
    <3> QED BY <2>1, <3>1, OtherKept DEF rows, past
  <2> QED BY <2>2, <2>3, <2>4 DEF IInv
<1>2. ASSUME NEW r \in Requests, RollBack(r)
      PROVE  IInv'
  <2>1. /\ UNCHANGED <<is_postgres, rows, past>>
        /\ request' = [request EXCEPT ![r] = [NoRequest EXCEPT !.phase = "done"]]
        /\ lock' = lock \/ (lock = r /\ lock' = None)
        BY <1>2 DEF RollBack, Finish
  <2> QED BY <2>1, EndedSound
<1> QED BY <1>1, <1>2, StartSound, ExchangeSound, CommitSound DEF Next, RequestStep

\* The invariant holds always.
LEMMA Invariance == Spec => []IInv
BY InitSound, StepSound, PTL DEF Spec

\* An acknowledged change of a session's settings or of a model's key is lost
\* only after a request that had loaded the row before it was committed and was
\* not about that field has overwritten it.
THEOREM NothingLostInOrder == Spec => []LostOnlyByOverlap
<1>1. IInv => LostOnlyByOverlap
      BY DEF IInv
<1> QED BY <1>1, Invariance, PTL

\* On Postgres update_agent_memory, which loads the row FOR UPDATE, changes no
\* other field of the context.
THEOREM MemoryIsSafe == Spec => MemoryLosesNothing
<1> DEFINE Kept == \A r \in Requests :
          (/\ is_postgres
           /\ request[r].phase = "loaded" /\ request[r].body.kind = "memory"
           /\ request'[r].phase = "done")
          => \A f \in ContextFields \ {"agent_memory"} : context'[f] = context[f]
<1>1. ASSUME IInv, [Next]_vars
      PROVE  [Kept]_vars
  <2>1. SUFFICES ASSUME Next, NEW r \in Requests, is_postgres,
                        request[r].phase = "loaded", request[r].body.kind = "memory",
                        request'[r].phase = "done"
                 PROVE  \A f \in ContextFields \ {"agent_memory"} : context'[f] = context[f]
        BY <1>1
  <2>2. request \in [Requests -> RequestRecord]
        BY <1>1 DEF IInv, Types
  <2>3. \A q \in Requests : RollBack(q) => context' = context
        BY DEF RollBack, rows
  <2>4. \A q \in Requests, b \in Kinds : Start(q, b) => context' = context
        BY DEF Start, rows
  <2>5. \A q \in Requests, x \in BOOLEAN, s \in ParsedStates : ExchangeReturns(q, x, s) => context' = context
        BY DEF ExchangeReturns, rows
  <2>6. ASSUME NEW q \in Requests, Commit(q)
        PROVE  \A f \in ContextFields \ {"agent_memory"} : context'[f] = context[f]
    <3>1. q = r
          BY <2>1, <2>2, <2>6 DEF Commit, Finish
    <3>2. /\ request[r].context = context /\ SoundContext(context) /\ request[r].body \in Kinds
          BY <1>1, <2>1 DEF IInv, RequestSound
    <3>3. Own(r) = {"agent_memory"}
          BY <2>1 DEF Own
    <3>4. \A f \in ContextFields \ Own(r) : NewContext(r)[f] = context[f]
          BY <3>2, NewContextSound
    <3>5. context' \in {context, NewContext(r)}
          BY <2>6, <3>1 DEF Commit, Writes
    <3> QED BY <3>3, <3>4, <3>5
  <2> QED BY <2>1, <2>3, <2>4, <2>5, <2>6 DEF Next, RequestStep
<1> QED BY <1>1, Invariance, PTL DEF Spec, MemoryLosesNothing

\* No secret is stored as it came.  A key is encrypted once: that of a BYOM entry
\* reaches the model as it was entered, that of the session a sub-agent.  A token
\* set by PATCH /config reaches git, one of POST /connect the list of repositories.
THEOREM SecretsStayReadable == Spec => []SecretsAreHandled
<1>1. ASSUME IInv PROVE TypeOK
  <2>1. \A r \in Requests : request[r] \in RequestRecord /\ RequestSound(r, request[r])
        BY <1>1 DEF IInv, Types
  <2>2. /\ is_postgres \in Databases /\ context \in Contexts /\ config \in Seq(Entries)
        /\ \A i, j \in DOMAIN config : config[i].id = config[j].id => i = j
        /\ lock \in Requests \cup {None} /\ written \in [Fields -> 0..commits]
        BY <1>1 DEF IInv, Types, SoundContext, SoundConfig
  <2>3. \A r \in Requests :
            /\ request[r].phase \in {"idle", "exchanging", "loaded", "done"}
            /\ request[r].phase \in {"exchanging", "loaded"} => request[r].body \in Kinds
            /\ request[r].context \in Contexts /\ request[r].config \in Seq(Entries)
        BY <2>1 DEF RequestRecord, RequestSound
  <2> QED BY <2>2, <2>3 DEF TypeOK
<1>2. ASSUME IInv PROVE SecretsAreEncrypted
  <2>1. /\ Stored(context.api_key, 1) /\ Stored(context.github, 2)
        /\ \A i \in DOMAIN config : Stored(config[i].key, 1)
        BY <1>2 DEF IInv, SoundContext, SoundConfig
  <2> QED BY <2>1 DEF SecretsAreEncrypted, Stored, NoSecret
<1>3. ASSUME IInv PROVE KeysAreUsable
  <2>1. /\ Stored(context.api_key, 1) /\ context.api_key \in Secrets
        /\ \A i \in DOMAIN config : Stored(config[i].key, 1) /\ config[i].key \in Secrets
    <3>1. Stored(context.api_key, 1) /\ context.api_key \in Secrets
          BY <1>3 DEF IInv, SoundContext, Contexts
    <3>2. \A i \in DOMAIN config : Stored(config[i].key, 1) /\ config[i] \in Entries
          BY <1>3 DEF IInv, SoundConfig
    <3>3. \A i \in DOMAIN config : config[i].key \in Secrets
          BY <3>2 DEF Entries
    <3> QED BY <3>1, <3>2, <3>3
  <2>2. \A s \in Secrets : Stored(s, 1) => resolve(s).layers = 0 /\ (s # NoSecret => decrypt_string(s).layers = 0)
        BY DEF Stored, resolve, decrypt_string, NoSecret, Secrets
  <2>3. Selected(context, config) = 0 \/ Selected(context, config) \in DOMAIN config
    <3>1. PICK i : i = PositionOf(config, context.active_model_id)
          OBVIOUS
    <3>2. config \in Seq(Entries)
          BY <1>3 DEF IInv, SoundConfig
    <3>3. i = 0 \/ i \in DOMAIN config
          BY <3>1, <3>2, Position
    <3> DEFINE K == {j \in 1..Len(config) : config[j].key # NoSecret}
               k == IF K # {} THEN Min(K) ELSE 0
    <3>4. k = 0 \/ k \in DOMAIN config
      <4>1. K \subseteq Nat /\ DOMAIN config = 1..Len(config)
            BY <3>2
      <4>2. K # {} => Min(K) \in K
            BY <4>1, Least
      <4> QED BY <4>1, <4>2
    <3>5. config # << >> => 1 \in DOMAIN config
          BY <3>2
    <3>6. Selected(context, config) =
             CASE config = << >> -> 0
               [] config # << >> /\ context.active_model_id = None -> 1
               [] context.active_model_id # None /\ i # 0 -> i
               [] OTHER -> k
          BY <3>1 DEF Selected, PositionOf, SelectInSeq
    <3> HIDE DEF k
    <3> QED BY <3>3, <3>4, <3>5, <3>6
  <2>4. LlmKey(context, config).layers = 0 \/ LlmKey(context, config) = context.api_key
    <3>1. Selected(context, config) # 0 => ByomKey(config[Selected(context, config)]).layers = 0
          BY <2>1, <2>2, <2>3 DEF ByomKey
    <3> QED BY <3>1 DEF LlmKey, EnvKey, NoSecret
  <2>5. \A s \in Secrets : Stored(s, 1) /\ s # NoSecret =>
           resolve(s) = Plain(s.by) /\ decrypt_string(s) = Plain(s.by)
        BY DEF Stored, resolve, decrypt_string, Plain, NoSecret, Secrets
  <2>6. context.api_key # NoSecret => SubAgentKey(context) = Plain(context.api_key.by)
        BY <2>1, <2>5 DEF SubAgentKey
  <2>7. \A i \in DOMAIN config :
           config[i].key # NoSecret => ByomKey(config[i]) = Plain(config[i].key.by)
        BY <2>1, <2>5 DEF ByomKey
  <2> QED BY <2>4, <2>6, <2>7 DEF KeysAreUsable
<1>4. ASSUME IInv PROVE TokenHasItsReaders
  <2>1. PICK s : s = context.github
        OBVIOUS
  <2>2. s \in Secrets
        BY <1>4, <2>1 DEF IInv, SoundContext, Contexts
  <2>3. PICK b, n : s = [by |-> b, layers |-> n] /\ s.by = b /\ s.layers = n
        BY <2>2 DEF Secrets
  <2>4. CASE n = 1
    <3>1. decrypt_string(s) = Plain(b)
          BY <2>3, <2>4 DEF decrypt_string, Plain
    <3> QED BY <2>1, <2>3, <2>4, <3>1 DEF TokenHasItsReaders, TokenForGit, ClonedWith, ShownToken
  <2>5. CASE n = 2
    <3> DEFINE once == [by |-> b, layers |-> 1]
    <3>1. resolve(s) = once /\ decrypt_string(once) = Plain(b)
          BY <2>3, <2>5 DEF decrypt_string, resolve, Plain
    <3> QED BY <2>1, <2>3, <2>5, <3>1 DEF TokenHasItsReaders, TokenForRepos
  <2>6. CASE n \notin {1, 2}
        BY <2>1, <2>3, <2>6 DEF TokenHasItsReaders
  <2> QED BY <2>4, <2>5, <2>6
<1> QED BY <1>1, <1>2, <1>3, <1>4, Invariance, PTL DEF SecretsAreHandled

=============================================================================
