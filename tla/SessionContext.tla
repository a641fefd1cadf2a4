--------------------------- MODULE SessionContext ---------------------------
(***************************************************************************)
(* The JSON columns that several handlers read, change and write back:     *)
(* sessions.context and tenants.config.  Each handler of the routers       *)
(* session_config, chat, github_auth and settings, and the tool that       *)
(* updates the agent's memory, loads the row, builds a new value in Python *)
(* and commits it; between the two others commit theirs.                   *)
(*                                                                         *)
(* A secret is known by the request that brought it and by the number of   *)
(* times it has been encrypted.                                            *)
(***************************************************************************)
EXTENDS Naturals, Sequences, FiniteSets, FiniteSetsExt, SequencesExt

CONSTANTS Requests,    \* bound: the requests, numbered as they begin
          ModelIds,    \* ids of BYOM configurations
          Presets,     \* ids with a preset of their own
          None, Env,
          Databases    \* bound: the values of _is_postgres

ASSUME ContextAssumption ==
    /\ Requests \subseteq Nat
    /\ Presets \subseteq ModelIds
    /\ None \notin Requests \cup ModelIds \cup {Env}
    /\ Env \notin Requests
    /\ Databases \subseteq BOOLEAN

ContextFields == {"shadow_mode", "active_model_id", "api_key", "github", "agent_memory"}

VARIABLES
    is_postgres,
    context,   \* the column of the one session
    config,    \* byom_configs of its tenant: a list of entries with id and key
    request,   \* per request: what it is, where it is, and the rows it has loaded
    lock,      \* None or the request whose SELECT ... FOR UPDATE holds the row
    acked,     \* history: per field: the value of the last acknowledged write
    written,   \* history: per field: when that was
    commits,   \* history: the commits so far
    lost       \* history: acknowledged values that a later commit has dropped

rows == <<context, config>>
past == <<acked, written, commits, lost>>
vars == <<is_postgres, rows, request, lock, past>>

\* Fernet.
Secrets  == [by : Requests \cup {None, Env}, layers : 0..2]
NoSecret == [by |-> None, layers |-> 0]
EnvKey   == [by |-> Env, layers |-> 0]

encrypt_string(s) == IF s = NoSecret THEN s ELSE [s EXCEPT !.layers = @ + 1]

\* What was never encrypted does not decrypt: an error in the log and "".
decrypt_string(s) == IF s.layers = 0 THEN NoSecret ELSE [s EXCEPT !.layers = @ - 1]

\* _resolve_secret, _resolve_token: what looks encrypted is decrypted, once.
resolve(s) == IF s.layers = 0 THEN s ELSE decrypt_string(s)

Plain(r) == [by |-> r, layers |-> 0]

\* The bodies of requests.  What else PATCH /config can set is as the api_key,
\* but not encrypted.
Kinds ==
    {b \in [kind : {"config"}, api_key : BOOLEAN, github : BOOLEAN] : b.api_key \/ b.github}
    \cup [kind : {"chat"}, shadow : BOOLEAN, model : ModelIds \cup {None}]
    \cup [kind : {"connect", "disconnect"}]
    \cup [kind : {"memory"}, append : BOOLEAN]
    \cup [kind : {"byok"}, id : ModelIds, with_key : BOOLEAN]

\* The fields that a lost update can lose: those of the session, and the keys.
Fields == ContextFields \cup ModelIds
KeyOf(cfg, id) ==
    LET own == SelectInSeq(cfg, LAMBDA e : e.id = id)
    IN IF own = 0 THEN NoSecret ELSE cfg[own].key
Field(ctx, cfg, f) == IF f \in ContextFields THEN ctx[f] ELSE KeyOf(cfg, f)

Blank == [shadow_mode |-> None, active_model_id |-> None, api_key |-> NoSecret,
          github |-> NoSecret, agent_memory |-> {}]
NoRequest == [phase |-> "idle", body |-> None, context |-> Blank, config |-> << >>, at |-> 0]

Contexts == [shadow_mode : BOOLEAN \cup {None}, active_model_id : ModelIds \cup {None},
             api_key : Secrets, github : Secrets, agent_memory : SUBSET Requests]
Entries  == [id : ModelIds, key : Secrets]

TypeOK ==
    /\ is_postgres \in Databases
    /\ context \in Contexts
    /\ config \in Seq(Entries)
    /\ \A i, j \in DOMAIN config : config[i].id = config[j].id => i = j
    /\ \A r \in Requests :
          /\ request[r].phase \in {"idle", "exchanging", "loaded", "done"}
          /\ request[r].phase \in {"exchanging", "loaded"} => request[r].body \in Kinds
          /\ request[r].context \in Contexts /\ request[r].config \in Seq(Entries)
    /\ lock \in Requests \cup {None}
    /\ written \in [Fields -> 0..commits]

Init ==
    /\ is_postgres \in Databases
    /\ context = Blank
    /\ config = << >>
    /\ request = [r \in Requests |-> NoRequest]
    /\ lock = None
    /\ acked = [f \in Fields |-> Field(Blank, << >>, f)]
    /\ written = [f \in Fields |-> 0]
    /\ commits = 0
    /\ lost = {}

-----------------------------------------------------------------------------
(* Loading.                                                                *)

\* Mutant: the row is read without FOR UPDATE.
Locks_Never(body) == FALSE

\* Only update_agent_memory asks for the lock, and only of Postgres.
Locks(body) == body.kind = "memory" /\ is_postgres

Load(r, body) ==
    request' = [request EXCEPT ![r] = [phase |-> "loaded", body |-> body, context |-> context,
                                       config |-> config, at |-> commits]]

\* A request arrives and loads its row: get_session_or_404 and the SELECTs of
\* the other handlers.  POST /github/connect has to do with GitHub first.
Start(r, body) ==
    /\ request[r].phase = "idle"
    /\ \A q \in Requests : q < r => request[q].phase # "idle"
    /\ Locks(body) => lock = None
    /\ lock' = IF Locks(body) THEN r ELSE lock
    /\ IF body.kind = "connect"
       THEN request' = [request EXCEPT ![r].phase = "exchanging", ![r].body = body]
       ELSE Load(r, body)
    /\ UNCHANGED <<is_postgres, rows, past>>

\* parse_signed_state refuses a state that is forged or older than ten minutes,
\* and a good one whose digest has the byte of the separator in it.
ParsedStates == {"session", "refused"}

\* exchange_code fails, or the state is refused, and the request ends; or the
\* row is loaded.
ExchangeReturns(r, exchanged, state) ==
    /\ request[r].phase = "exchanging"
    /\ IF exchanged /\ state = "session"
       THEN Load(r, request[r].body)
       ELSE request' = [request EXCEPT ![r] = [NoRequest EXCEPT !.phase = "done"]]
    /\ UNCHANGED <<is_postgres, rows, lock, past>>

-----------------------------------------------------------------------------
(* What each handler makes of the row it has loaded.                       *)

\* PATCH /config: a new api_key, a new token in the github entry.
ConfigPatch(r, b, ctx) ==
    [ctx EXCEPT !.api_key = IF b.api_key THEN encrypt_string(Plain(r)) ELSE @,
                !.github = IF b.github THEN encrypt_string(Plain(r)) ELSE @]

\* POST /chat.
ChatPatch(b, ctx) ==
    [ctx EXCEPT !.shadow_mode = b.shadow, !.active_model_id = IF b.model = None THEN @ ELSE b.model]

\* The access_token of the GitHubUser that exchange_code returns.
ExchangedToken(r) == encrypt_string(Plain(r))

\* Mutant: the context is built anew.
ConnectPatch_Anew(r, ctx) == [Blank EXCEPT !.github = encrypt_string(ExchangedToken(r))]

\* POST /github/connect: the token is encrypted already.
ConnectPatch(r, ctx) == [ctx EXCEPT !.github = encrypt_string(ExchangedToken(r))]

\* update_agent_memory: appended to what is there, or in its place.
MemoryPatch(r, b, ctx) ==
    [ctx EXCEPT !.agent_memory = IF b.append THEN @ \cup {r} ELSE {r}]

\* The body of r, applied to the context it has loaded.
NewContext(r) ==
    LET b   == request[r].body
        ctx == request[r].context
    IN CASE b.kind = "config"     -> ConfigPatch(r, b, ctx)
         [] b.kind = "chat"       -> ChatPatch(b, ctx)
         [] b.kind = "connect"    -> ConnectPatch(r, ctx)
         [] b.kind = "disconnect" -> [ctx EXCEPT !.github = NoSecret]
         [] b.kind = "memory"     -> MemoryPatch(r, b, ctx)
         [] b.kind = "byok"       -> ctx

\* Mutants: the entry is stored as it came, so that an empty key replaces one,
\* or as plain text.
SavedKey_AsGiven(r, b, cfg) == IF b.with_key THEN encrypt_string(Plain(r)) ELSE NoSecret
SavedKey_Plain(r, b, cfg) == IF b.with_key THEN Plain(r) ELSE KeyOf(cfg, b.id)

\* An empty key keeps the one there is.
SavedKey(r, b, cfg) == IF b.with_key THEN encrypt_string(Plain(r)) ELSE KeyOf(cfg, b.id)

\* Mutant: an entry that is there gets a second one.
NewConfig_Appends(r) ==
    LET b == request[r].body
        cfg == request[r].config
    IN Append(cfg, [id |-> b.id, key |-> SavedKey(r, b, cfg)])

\* POST /settings/byok: in the place of the entry with its id, or at the end.
NewConfig(r) ==
    LET b     == request[r].body
        cfg   == request[r].config
        i     == SelectInSeq(cfg, LAMBDA e : e.id = b.id)
        entry == [id |-> b.id, key |-> SavedKey(r, b, cfg)]
    IN IF i = 0 THEN Append(cfg, entry) ELSE [cfg EXCEPT ![i] = entry]

\* The fields that r is about: what it writes of the others it has only read.
Own(r) ==
    LET b == request[r].body IN
    CASE b.kind = "config"     -> {f \in {"api_key", "github"} : b[f]}
      [] b.kind = "chat"       -> {"shadow_mode"} \cup IF b.model = None THEN {} ELSE {"active_model_id"}
      [] b.kind \in {"connect", "disconnect"} -> {"github"}
      [] b.kind = "memory"     -> {"agent_memory"}
      [] b.kind = "byok"       -> IF b.with_key THEN {b.id} ELSE {}

-----------------------------------------------------------------------------
(* The end of a request.                                                   *)

\* The ORM writes the column when its value is another than the one loaded; the
\* config is flagged as modified in any case.
Writes(r) ==
    /\ context' = IF NewContext(r) = request[r].context THEN context ELSE NewContext(r)
    /\ config' = IF request[r].body.kind = "byok" THEN NewConfig(r) ELSE config

Finish(r) ==
    /\ request' = [request EXCEPT ![r] = [NoRequest EXCEPT !.phase = "done"]]
    /\ lock' = IF lock = r THEN None ELSE lock

\* On Postgres the UPDATE waits for the lock of another.
Commit(r) ==
    LET after(f) == Field(context', config', f)
        Dropped == {f \in Fields \ Own(r) : Field(context, config, f) = acked[f] /\ after(f) # acked[f]}
    IN
    /\ request[r].phase = "loaded"
    /\ request[r].body.kind # "byok" => lock \in {None, r}
    /\ Writes(r)
    /\ Finish(r)
    /\ commits' = commits + 1
    /\ acked' = [f \in Fields |-> IF f \in Own(r) THEN after(f) ELSE acked[f]]
    /\ written' = [f \in Fields |-> IF f \in Own(r) THEN commits + 1 ELSE written[f]]
    /\ lost' = lost \cup {[field |-> f, loaded |-> request[r].at, written |-> written[f]] : f \in Dropped}
    /\ UNCHANGED is_postgres

\* The commit fails or the call of the tool is cancelled: the transaction is
\* rolled back.
RollBack(r) ==
    /\ request[r].phase = "loaded"
    /\ Finish(r)
    /\ UNCHANGED <<is_postgres, rows, past>>

RequestStep(r) ==
    \/ \E exchanged \in BOOLEAN, state \in ParsedStates : ExchangeReturns(r, exchanged, state)
    \/ Commit(r) \/ RollBack(r)

Next ==
    \/ \E r \in Requests, body \in Kinds : Start(r, body)
    \/ \E r \in Requests : RequestStep(r)

Spec == Init /\ [][Next]_vars

-----------------------------------------------------------------------------
(* Readers.                                                                *)

\* Mutant: a BYOM key is handed over as it is stored.
ByomKey_AsStored(e) == e.key

ByomKey(e) == resolve(e.key)

\* load_session_llm_config: the entry that the session has asked for, or the
\* first; another with a key when there is no such entry; a preset; and the key
\* of the entry or preset, of the session as it is stored, or of the environment.
Selected(ctx, cfg) ==
    LET wanted == ctx.active_model_id
        own    == SelectInSeq(cfg, LAMBDA e : e.id = wanted)
    IN CASE cfg = << >>   -> 0
         [] cfg # << >> /\ wanted = None -> 1
         [] wanted # None /\ own # 0 -> own
         [] OTHER -> SelectInSeq(cfg, LAMBDA e : e.key # NoSecret)

LlmKey(ctx, cfg) ==
    LET i   == Selected(ctx, cfg)
        key == CASE i # 0 -> ByomKey(cfg[i])
                 [] i = 0 /\ ctx.active_model_id \in Presets -> EnvKey
                 [] OTHER -> NoSecret
    IN CASE key # NoSecret -> key
         [] key = NoSecret /\ ctx.api_key # NoSecret -> ctx.api_key
         [] OTHER -> EnvKey

\* The key of a sub-agent: delegate_task decrypts the one of the session.
SubAgentKey(ctx) == IF ctx.api_key = NoSecret THEN EnvKey ELSE decrypt_string(ctx.api_key)

\* Mutant: decrypted once.
TokenForRepos_Once(ctx) == resolve(ctx.github)

\* The token that GET /github/repos sends: _resolve_token, and once more in
\* list_repos of the client.
TokenForRepos(ctx) == decrypt_string(resolve(ctx.github))

\* What the clone makes of the token of its mount.
ClonedWith(s) == decrypt_string(s)

\* The token of the mount of add_workspace: encrypted when it is not.
TokenForGit(ctx) ==
    ClonedWith(IF ctx.github.layers = 0 THEN encrypt_string(ctx.github) ELSE ctx.github)

\* What GET /config shows the ends of.
ShownToken(ctx) == decrypt_string(ctx.github)

-----------------------------------------------------------------------------
(* Properties.                                                             *)

\* The value of f that was committed at w was dropped by a request that had
\* loaded the row before.
Overlapped(f, w) == \E l \in lost : l.field = f /\ l.written = w /\ l.loaded < w

\* An acknowledged change disappears only through a request that had loaded the
\* row before that change was committed, and was not about that field at all.
\* Such a request can also bring back what another had dropped, and a third drop
\* it again: every loss begins with an overlap.
LostOnlyByOverlap ==
    /\ \A l \in lost : Overlapped(l.field, l.written)
    /\ \A f \in Fields :
          Field(context, config, f) # acked[f] => Overlapped(f, written[f])

\* On Postgres an update of the agent's memory takes nothing of anybody's away:
\* what it writes is what it has locked.
MemoryLosesNothing ==
    [][\A r \in Requests :
          (/\ is_postgres
           /\ request[r].phase = "loaded" /\ request[r].body.kind = "memory"
           /\ request'[r].phase = "done")
          => \A f \in ContextFields \ {"agent_memory"} : context'[f] = context[f]]_vars

\* No secret is stored as it came, and no more than twice encrypted: twice only
\* a token that came from GitHub.
SecretsAreEncrypted ==
    /\ \A s \in {context.api_key, context.github} \cup {config[i].key : i \in DOMAIN config} :
          s # NoSecret => s.layers > 0
    /\ context.api_key.layers < 2 /\ \A i \in DOMAIN config : config[i].key.layers < 2

\* The key of a BYOM entry reaches the model as it was entered, whichever entry
\* load_session_llm_config selects, and the key of the session a sub-agent.
\* Where no entry has a key the model gets the session's own in whatever form
\* it is stored: SessionKeyIsUsed says what that form should be.
KeysAreUsable ==
    /\ \A i \in DOMAIN config :
          config[i].key # NoSecret => ByomKey(config[i]) = Plain(config[i].key.by)
    /\ LlmKey(context, config).layers = 0 \/ LlmKey(context, config) = context.api_key
    /\ context.api_key # NoSecret => SubAgentKey(context) = Plain(context.api_key.by)

\* A token has the readers of the way it came: one that PATCH /config has
\* encrypted, once, is the one that git sends and GET /config shows; one that
\* POST /connect has encrypted, twice, is the one that GET /repos sends.
TokenHasItsReaders ==
    LET token == Plain(context.github.by) IN
    /\ context.github.layers = 1 => TokenForGit(context) = token /\ ShownToken(context) = token
    /\ context.github.layers = 2 => TokenForRepos(context) = token

\* However requests overlap, no secret is stored as it came, and each can still
\* be read by those readers that undo as many encryptions as its writer made.
\* That every reader does is not said: the code does not keep the two
\* statements below, which no run lists.
SecretsAreHandled == TypeOK /\ SecretsAreEncrypted /\ KeysAreUsable /\ TokenHasItsReaders

\* "BYOK Resolution Order: 1. SessionModel.context": in a tenant without BYOM
\* entries the model gets the key that was entered for the session.
SessionKeyIsUsed ==
    (config = << >> /\ context.active_model_id = None /\ context.api_key # NoSecret)
        => LlmKey(context, config) = Plain(context.api_key.by)

\* "Click Connect GitHub, authorize the app, select a repository, browse files":
\* the token of a session that is connected is the one git sends when the
\* repository is added to its workspaces.
ConnectedTokenClones ==
    context.github # NoSecret => TokenForGit(context) = Plain(context.github.by)
=============================================================================
