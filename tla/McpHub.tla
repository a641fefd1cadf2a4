------------------------------- MODULE McpHub -------------------------------
(***************************************************************************)
(* The tool registry and those who write to it: discovery of the built-in  *)
(* tools (tools/registry.py), the hub of HTTP plugins (services/mcp) and   *)
(* the adapters of stdio servers (tools/stdio_adapter_registry.py); and    *)
(* the calls of plugins, with their rate limiter and circuit breaker.      *)
(*                                                                         *)
(* The event loop runs every handler of the registry without a break; a    *)
(* call waits for the multiplexer and for its endpoint, and works with the *)
(* plugin it found first, whatever has been registered since.              *)
(***************************************************************************)
EXTENDS Integers, Sequences, FiniteSets

CONSTANTS Tenants, Names, None,
          MaxCalls,       \* bound: calls of plugins
          Builtins,       \* the names of built-in tools; none is bash_execute
          StdioNames,     \* the names "mcp_<server>_<tool>"
          Servers,        \* the names of stdio servers
          Covered,        \* per server: the StdioNames that begin with "mcp_<server>_"
          Minute,         \* rate window and recovery time, in ticks
          MaxRegistrations,  \* registrations in a window (50 in the code)
          MaxExecutions,  \* calls of a plugin in a window (200 in the code)
          Threshold,      \* _circuit_break_threshold (5 in the code)
          MaxPlugins,     \* bound: registrations that succeed
          MaxTime,        \* bound: ticks, at most
          Scopes          \* bound: what takes part, and how long

Plugins == 1..MaxPlugins      \* the MCPProxyTool objects, in order of creation
Calls   == 1..MaxCalls        \* in order of their beginning

\* What the endpoints need to know of a definition: "malformed" fails
\* validate_plugin_definition, "other_host" only the check of allowed_hosts.
Definitions == {"good", "malformed", "other_host"}

ASSUME HubAssumption ==
    /\ Builtins \subseteq Names /\ StdioNames \subseteq Names
    /\ Builtins \cap StdioNames = {}
    /\ Covered \in [Servers -> SUBSET StdioNames]
    /\ {Minute, MaxRegistrations, MaxExecutions, Threshold} \subseteq Nat \ {0}
    /\ {MaxPlugins, MaxCalls, MaxTime} \subseteq Nat
    /\ None \notin Tenants \cup Nat
    /\ Scopes \subseteq [tenants : SUBSET Tenants, names : SUBSET Names, servers : SUBSET Servers,
                    calls : 0..MaxCalls, ticks : 0..MaxTime, definitions : SUBSET Definitions]

VARIABLES
    scope,           \* bound: the one of Scopes this behaviour is of
    now,
    discovered,      \* _discovered
    tools,           \* _tool_instances: who a name stands for
    plugins,         \* _plugins of the hub: None or the plugin of the name
    tenant_plugins,  \* _tenant_plugins of the hub
    adapters,        \* _adapters: per tenant, by name
    servers,         \* per tenant and stdio server: the tools it listed last, and
                     \* whether they have been mounted since it was last unmounted
    proxy,           \* the plugins made so far
    registrations,   \* _plugin_rate_limiter, per tenant
    executions,      \* _execution_rate_limiter, per name
    call,            \* per call: where it is
    contested,       \* history: names that two have claimed at the same time
    admitted,        \* history: per tenant: when registrations were let through
    outcome          \* history: per plugin: what its calls came to

registry == <<discovered, tools, plugins, tenant_plugins, adapters, servers, contested>>
limiters == <<registrations, executions, admitted>>
vars     == <<scope, now, registry, proxy, limiters, call, outcome>>

Nobody     == [kind |-> "none", owner |-> None]
Builtin    == [kind |-> "builtin", owner |-> None]
Stdio(t)   == [kind |-> "stdio", owner |-> t]
Plugin(p)  == [kind |-> "plugin", owner |-> p]
NoEntry    == [count |-> 0, first |-> -1, blocked |-> 0]
Entries(m) == [count : 0..m, first : -1..MaxTime, blocked : 0..MaxTime + Minute]

TypeOK ==
    /\ scope \in Scopes
    /\ now \in 0..MaxTime
    /\ discovered \in BOOLEAN
    /\ tools \in [Names -> {Nobody, Builtin} \cup {Stdio(t) : t \in Tenants} \cup {Plugin(p) : p \in Plugins}]
    /\ plugins \in [Names -> Plugins \cup {None}]
    /\ tenant_plugins \in [Tenants -> SUBSET Names]
    /\ adapters \in [Tenants -> SUBSET StdioNames]
    /\ servers \in [Tenants -> [Servers -> [tools : SUBSET StdioNames, up : BOOLEAN]]]
    /\ proxy \in Seq([name : Names, tenant : Tenants, status : {"active", "rate_limited"},
                      open : BOOLEAN, opened_at : 0..MaxTime, failures : 0..Cardinality(Calls),
                      calls : 0..Cardinality(Calls), failed : 0..Cardinality(Calls)])
    /\ Len(proxy) <= MaxPlugins
    /\ registrations \in [Tenants -> Entries(MaxRegistrations)]
    /\ executions \in [Names -> Entries(MaxExecutions)]
    /\ call \in [Calls -> [phase : {"idle", "routed", "posting", "done"},
                           plugin : Plugins \cup {None}]]
    /\ contested \subseteq Names
    /\ admitted \in [Tenants -> Seq(0..MaxTime)]
    /\ outcome \in [Plugins -> [posted : Nat, cancelled : Nat, run : Nat, tripped : -1..MaxTime]]

Init ==
    /\ scope \in Scopes
    /\ now = 0
    /\ discovered = FALSE
    /\ tools = [n \in Names |-> Nobody]
    /\ plugins = [n \in Names |-> None]
    /\ tenant_plugins = [t \in Tenants |-> {}]
    /\ adapters = [t \in Tenants |-> {}]
    /\ servers = [t \in Tenants |-> [s \in Servers |-> [tools |-> {}, up |-> FALSE]]]
    /\ proxy = << >>
    /\ registrations = [t \in Tenants |-> NoEntry]
    /\ executions = [n \in Names |-> NoEntry]
    /\ call = [c \in Calls |-> [phase |-> "idle", plugin |-> None]]
    /\ contested = {}
    /\ admitted = [t \in Tenants |-> << >>]
    /\ outcome = [p \in Plugins |-> [posted |-> 0, cancelled |-> 0, run |-> 0, tripped |-> -1]]

-----------------------------------------------------------------------------
(* The rate limiter, a window that starts with the first request after the *)
(* last one is over.                                                       *)

\* defaultdict(RateLimitEntry): an entry starts when it is first looked up.
Entry(e) == IF e = NoEntry THEN [count |-> 0, first |-> now, blocked |-> 0] ELSE e

\* Mutant: the end of the window is not recorded, only the counter is reset.
Windowed_NoStart(e) == IF now - e.first > Minute THEN [e EXCEPT !.count = 0] ELSE e

Windowed(e) == IF now - e.first > Minute THEN [e EXCEPT !.count = 0, !.first = now] ELSE e

\* Mutant: one more than the limit is let through.
Reached_OneMore(e, max) == e.count > max

Reached(e, max) == e.count >= max

\* check_rate_limit: one request too many blocks for a whole window.
RateLimit(entry, max) ==
    LET e == Entry(entry)
        w == Windowed(e)
    IN CASE now < e.blocked   -> [ok |-> FALSE, entry |-> e]
         [] now >= e.blocked /\ Reached(w, max) ->
                [ok |-> FALSE, entry |-> [w EXCEPT !.count = 0, !.blocked = now + Minute]]
         [] OTHER             -> [ok |-> TRUE, entry |-> [w EXCEPT !.count = @ + 1]]

-----------------------------------------------------------------------------
(* The tool registry and its writers.                                      *)

Listed(t, s) == servers[t][s].tools
Up(t, s)     == servers[t][s].up

\* Who wants the name n: its built-in tool, a plugin, and the stdio servers that
\* have listed it; one that is down for a restart still deletes what it listed.
Claimed(n) ==
    \/ n \in Builtins
    \/ plugins[n] # None
    \/ \E t \in Tenants, s \in Servers : n \in Listed(t, s)

\* Who else than the server s of the tenant t wants the name n.
ClaimedElse(n, t, s) ==
    \/ n \in Builtins
    \/ plugins[n] # None
    \/ \E k \in Tenants, r \in Servers : <<k, r>> # <<t, s>> /\ n \in Listed(k, r)

\* _discover_tools with its fallback: once, and only names that nobody has.
Discovery(tl) ==
    IF discovered THEN tl
    ELSE [n \in Names |-> IF n \in Builtins /\ tl[n] = Nobody THEN Builtin ELSE tl[n]]

\* Every reader of the registry discovers first: the brain, the context builder
\* and the catalogs; so does a call.
Discover ==
    /\ ~discovered
    /\ discovered' = TRUE
    /\ tools' = Discovery(tools)
    /\ UNCHANGED <<scope, now, plugins, tenant_plugins, adapters, servers, contested, proxy, limiters, call, outcome>>

ValidDefinition(d) == d # "malformed"
ValidEndpoint(d)   == d # "other_host"

\* Mutant: a name is free when this tenant does not have it.
NameFree_OwnOnly(n, t) == n \notin tenant_plugins[t]

NameFree(n, t) == plugins[n] = None

NewPlugin(n, t) ==
    [name |-> n, tenant |-> t, status |-> "active", open |-> FALSE, opened_at |-> 0,
     failures |-> 0, calls |-> 0, failed |-> 0]

\* POST /mcp/register.  A request counts against the limit although its host or
\* its name is then refused.  The new plugin takes the place of whatever the
\* registry has under its name.
Register(t, n, d) ==
    LET limit == RateLimit(registrations[t], MaxRegistrations)
        p     == Len(proxy) + 1
    IN
    /\ ValidDefinition(d)
    /\ registrations' = [registrations EXCEPT ![t] = limit.entry]
    /\ admitted' = IF limit.ok THEN [admitted EXCEPT ![t] = Append(@, now)] ELSE admitted
    /\ IF limit.ok /\ ValidEndpoint(d) /\ NameFree(n, t)
       THEN /\ p \in Plugins
            /\ proxy' = Append(proxy, NewPlugin(n, t))
            /\ plugins' = [plugins EXCEPT ![n] = p]
            /\ tenant_plugins' = [tenant_plugins EXCEPT ![t] = @ \cup {n}]
            /\ tools' = Discovery([tools EXCEPT ![n] = Plugin(p)])
            /\ discovered' = TRUE
            /\ contested' = IF Claimed(n) THEN contested \cup {n} ELSE contested
       ELSE UNCHANGED <<discovered, tools, plugins, tenant_plugins, contested, proxy>>
    /\ UNCHANGED <<scope, now, adapters, servers, executions, call, outcome>>

\* Mutant: the set of the tenant keeps the name.
Forget_KeepsName(t, n) == UNCHANGED tenant_plugins

Forget(t, n) == tenant_plugins' = [tenant_plugins EXCEPT ![t] = @ \ {n}]

\* DELETE /mcp/{plugin_name}, by the tenant that registered it: the name is
\* deleted from the registry, whoever it stands for by now.
Unregister(t, n) ==
    /\ plugins[n] # None
    /\ proxy[plugins[n]].tenant = t
    /\ plugins' = [plugins EXCEPT ![n] = None]
    /\ Forget(t, n)
    /\ tools' = [tools EXCEPT ![n] = Nobody]
    /\ UNCHANGED <<scope, now, discovered, adapters, servers, contested, proxy, limiters, call, outcome>>

\* register_adapters passes over a name that an adapter of the tenant has already,
\* and a new adapter reaches the registry only when its name is free there.
Registered(t, L) ==
    [n \in Names |-> IF n \in L \ adapters[t] /\ tools[n] = Nobody THEN Stdio(t) ELSE tools[n]]

\* _register_mcp_tools: a server of the tenant has listed the tools L.
MountTools(t, s, L) ==
    /\ ~Up(t, s)
    /\ adapters' = [adapters EXCEPT ![t] = @ \cup L]
    /\ tools' = Registered(t, L)
    /\ servers' = [servers EXCEPT ![t][s] = [tools |-> L, up |-> TRUE]]
    /\ contested' = contested \cup {n \in L : ClaimedElse(n, t, s)}
    /\ UNCHANGED <<scope, now, discovered, plugins, tenant_plugins, proxy, limiters, call, outcome>>

\* Mutant: the adapters are forgotten, their entries in the registry are not.
Withdraw_NotFromRegistry(L) == UNCHANGED tools

\* unregister_from_tool_registry, for each name of the list, whoever has it.
Withdraw(L) == tools' = [n \in Names |-> IF n \in L THEN Nobody ELSE tools[n]]

\* Mutant: the adapters that are left are those the server has listed.
WithoutAdapters_KeepsOwn(t, s) == adapters[t] \ (Covered[s] \ Listed(t, s))

\* unregister_adapters, by the prefix of the server's name.
WithoutAdapters(t, s) == adapters[t] \ Covered[s]

\* _unregister_mcp_tools, when the server ends, and before each of its restarts,
\* which keep the list; also when it has not listed anything.
UnmountTools(t, s, ends) ==
    /\ Withdraw(Listed(t, s))
    /\ adapters' = [adapters EXCEPT ![t] = WithoutAdapters(t, s)]
    /\ servers' = [servers EXCEPT ![t][s] =
                      [tools |-> IF ends THEN {} ELSE Listed(t, s), up |-> FALSE]]
    /\ UNCHANGED <<scope, now, discovered, plugins, tenant_plugins, contested, proxy, limiters, call, outcome>>

-----------------------------------------------------------------------------
(* Calls of plugins by the tool worker.                                    *)

Finish(c) == call' = [call EXCEPT ![c].phase = "done"]

\* get_tool_instance, and then the multiplexer of names that begin with mcp_.
Route(c, n) ==
    /\ call[c].phase = "idle"
    /\ \A d \in 1..c-1 : call[d].phase # "idle"
    /\ tools[n].kind = "plugin"
    /\ call' = [call EXCEPT ![c] = [phase |-> "routed", plugin |-> tools[n].owner]]
    /\ UNCHANGED <<scope, now, registry, proxy, limiters, outcome>>

Turn(c) ==
    proxy[call[c].plugin].name \in StdioNames =>
        \A d \in Calls : call[d].phase = "posting" =>
            proxy[call[d].plugin].name # proxy[call[c].plugin].name

\* _check_circuit_breaker: after the recovery time the circuit is closed.
Recovered(x) == x.open /\ now - x.opened_at > Minute

Checked(x) == IF Recovered(x) THEN [x EXCEPT !.open = FALSE, !.failures = 0] ELSE x

\* execute, once _check_circuit_breaker has left x of the plugin p: refused when
\* the circuit is open, when the limit of the name is reached, or when the payload
\* is too large.
Execute(c, fits, p, x, limit) ==
    IF x.open
    THEN Finish(c) /\ UNCHANGED <<proxy, executions, outcome>>
    ELSE /\ executions' = [executions EXCEPT ![x.name] = limit.entry]
         /\ proxy' = [proxy EXCEPT ![p] =
                        IF limit.ok THEN x ELSE [x EXCEPT !.status = "rate_limited"]]
         /\ IF limit.ok /\ fits
            THEN /\ call' = [call EXCEPT ![c].phase = "posting"]
                 /\ outcome' = [outcome EXCEPT ![p].posted = @ + 1]
            ELSE Finish(c) /\ UNCHANGED outcome

\* The call of a plugin, up to the request.
Admit(c, fits) ==
    LET p == call[c].plugin
        x == Checked(proxy[p])
    IN
    /\ call[c].phase = "routed"
    /\ Turn(c)
    /\ Execute(c, fits, p, x, RateLimit(executions[x.name], MaxExecutions))
    /\ UNCHANGED <<scope, now, registry, registrations, admitted>>

\* MCPToolMetrics.record_call
Record(x, ok) == [x EXCEPT !.calls = @ + 1, !.failed = IF ok THEN @ ELSE @ + 1]

\* _trip_circuit_breaker: a late failure opens the circuit anew.
Tripped(x) ==
    LET trips == x.failures + 1 >= Threshold
    IN [x EXCEPT !.failures = @ + 1, !.open = @ \/ trips, !.opened_at = IF trips THEN now ELSE @]

\* Mutants: a success closes the circuit; it does not end the run of failures.
Succeed_Closes(x) == [Record(x, TRUE) EXCEPT !.failures = 0, !.status = "active", !.open = FALSE]
Succeed_KeepsRun(x) == [Record(x, TRUE) EXCEPT !.status = "active"]

\* An answer: the run of failures is over, the circuit stays as it is.
Succeed(x) == [Record(x, TRUE) EXCEPT !.failures = 0, !.status = "active"]

\* Mutant: only the breaker hears of a failure.
Fail_NotRecorded(x) == Tripped(x)

\* A timeout, an HTTP error or any other exception.
Fail(x) == Record(Tripped(x), FALSE)

\* The end of execute.
Answered(c, ok) ==
    LET p == call[c].plugin
        x == IF ok THEN Succeed(proxy[p]) ELSE Fail(proxy[p])
    IN
    /\ call[c].phase = "posting"
    /\ proxy' = [proxy EXCEPT ![p] = x]
    /\ outcome' = [outcome EXCEPT ![p].run = IF ok THEN 0 ELSE @ + 1,
                                  ![p].tripped = IF ~ok /\ x.failures >= Threshold THEN now ELSE @]
    /\ Finish(c)
    /\ UNCHANGED <<scope, now, registry, limiters>>

\* The tool worker's limit of two minutes, which is shorter than the longest
\* timeout of a plugin: execute does not see it as a failure.
Cancelled(c) ==
    LET p == call[c].plugin IN
    /\ call[c].phase \in {"routed", "posting"}
    /\ Finish(c)
    /\ outcome' = IF call[c].phase = "posting"
                  THEN [outcome EXCEPT ![p].cancelled = @ + 1] ELSE outcome
    /\ UNCHANGED <<scope, now, registry, proxy, limiters>>

Tick ==
    /\ now < scope.ticks
    /\ now' = now + 1
    /\ UNCHANGED <<scope, registry, proxy, limiters, call, outcome>>

\* The endpoints of a tenant, and the coming and going of its stdio servers.
HubStep(t) ==
    \/ \E n \in scope.names :
          \/ \E d \in scope.definitions : Register(t, n, d)
          \/ Unregister(t, n)
    \/ \E s \in scope.servers :
          \/ \E L \in SUBSET (Covered[s] \cap scope.names) : MountTools(t, s, L)
          \/ \E ends \in BOOLEAN : UnmountTools(t, s, ends)

CallStep(c) ==
    \/ \E n \in scope.names : Route(c, n)
    \/ \E ok \in BOOLEAN : Admit(c, ok) \/ Answered(c, ok)
    \/ Cancelled(c)

Next ==
    \/ Discover \/ Tick
    \/ \E t \in scope.tenants : HubStep(t)
    \/ \E c \in 1..scope.calls : CallStep(c)

Spec == Init /\ [][Next]_vars

-----------------------------------------------------------------------------
(* What the endpoints show.                                                *)

\* GET /mcp/plugins
ListPlugins(t) == tenant_plugins[t]

\* GET /mcp/plugins/catalog: the names the registry has a plugin for.
Catalog == {n \in Names : Discovery(tools)[n].kind = "plugin"}

\* GET /mcp/dashboard: the status of each plugin the tenant has listed, with
\* "unknown" for one the hub does not have.
Dashboard(t) ==
    [n \in tenant_plugins[t] |-> IF plugins[n] = None THEN "unknown" ELSE proxy[plugins[n]].status]

\* GET /mcp/skills: built-in tools that a skill needs and the catalog lacks.
MissingTools == {n \in Builtins : Discovery(tools)[n] = Nobody}

-----------------------------------------------------------------------------
(* Properties.                                                             *)

\* What the hub, its index by tenant and the dashboard say of a plugin agree,
\* and the registry never stands for a plugin that the hub has forgotten.
HubAgrees ==
    /\ \A t \in Tenants :
          /\ ListPlugins(t) = {n \in Names : plugins[n] # None /\ proxy[plugins[n]].tenant = t}
          /\ \A n \in ListPlugins(t) : Dashboard(t)[n] # "unknown"
    /\ \A n \in Catalog : tools[n] = Plugin(plugins[n])

\* A name that only one has ever claimed at a time stands for its claimant: a
\* plugin, a tool of a running stdio server, a built-in tool.  With two claims
\* (a plugin named like a tool, two servers with a tool of the same full name, be
\* it "fs" with "local_x" and "fs_local" with "x") the end of either takes the
\* entry of the other away.
OneClaimantIsReachable ==
    \A n \in Names \ contested :
        /\ plugins[n] # None => tools[n] = Plugin(plugins[n])
        /\ \A t \in Tenants, s \in Servers : Up(t, s) /\ n \in Listed(t, s) => tools[n] = Stdio(t)
        /\ n \in Builtins => n \notin MissingTools
        /\ (/\ plugins[n] = None /\ n \notin Builtins
            /\ \A t \in Tenants, s \in Servers : Up(t, s) => n \notin Listed(t, s))
              => tools[n] = Nobody

\* Every adapter is one of a running server of its tenant, and those of a running
\* server are all there, but where the name of another server covers its names:
\* the end of "fs" takes the adapters of "fs_local" along.
AdaptersFollowServers ==
    \A t \in Tenants :
        /\ \A n \in adapters[t] : \E s \in Servers : Up(t, s) /\ n \in Listed(t, s)
        /\ \A s \in Servers : Up(t, s) =>
              \A n \in Listed(t, s) : n \in adapters[t] \/ \E r \in Servers \ {s} : n \in Covered[r]

\* The hub, its index, the registry, the catalog and the adapters agree on who a
\* name is.
RegistryAgrees == HubAgrees /\ OneClaimantIsReachable /\ AdaptersFollowServers

\* Every request sent for a plugin is in its metrics once, or is under way, or
\* was cancelled, also across an end and a new registration of its name.
CallsAccounted ==
    \A p \in 1..Len(proxy) :
        /\ outcome[p].posted = proxy[p].calls + outcome[p].cancelled
                               + Cardinality({c \in Calls : call[c].phase = "posting" /\ call[c].plugin = p})
        /\ outcome[p].run <= proxy[p].failed /\ proxy[p].failed <= proxy[p].calls

\* In no period of one window, its end included, are more than twice the
\* allowed registrations let through, the end of one window and the beginning
\* of the next: so many registrations later, more than a window is over.
AtMostTwiceTheLimit ==
    \A t \in Tenants : \A i \in 1..Len(admitted[t]) - 2 * MaxRegistrations :
        admitted[t][i + 2 * MaxRegistrations] - admitted[t][i] > Minute

\* The counters agree with what happened: metrics of calls, and the windows of
\* registrations.
CountersAgree == TypeOK /\ CallsAccounted /\ AtMostTwiceTheLimit

\* For the recovery time after the failure that opened a circuit no request is
\* sent, although answers to earlier requests still arrive.
QuietAfterTrip ==
    [][\A p \in Plugins : outcome'[p].posted > outcome[p].posted =>
          (outcome[p].tripped = -1 \/ now - outcome[p].tripped > Minute)]_vars

\* A circuit opens only at the end of a run of failures without a success.
TripsOnARun ==
    [][\A p \in 1..Len(proxy) :
          (~proxy[p].open /\ proxy'[p].open) => outcome'[p].run >= Threshold]_vars
\* A circuit opens on a run of failures, and then lets nothing through for its
\* recovery time.
CircuitHolds == QuietAfterTrip /\ TripsOnARun
=============================================================================
