----------------------------- MODULE McpHubProofs -----------------------------
(***************************************************************************)
(* Proofs about McpHub for any tenants, names, limits and bounds.          *)
(***************************************************************************)
EXTENDS McpHub, SequenceTheorems, FiniteSetTheorems, TLAPS

-----------------------------------------------------------------------------
(* The inductive invariant.                                                *)

Owners == {Nobody, Builtin} \cup {Stdio(t) : t \in Tenants} \cup {Plugin(p) : p \in Plugins}

ProxyRecord == [name : Names, tenant : Tenants, status : {"active", "rate_limited"},
                open : BOOLEAN, opened_at : Nat, failures : Nat, calls : Nat, failed : Nat]

OutcomeRecord == [posted : Nat, cancelled : Nat, run : Nat, tripped : Nat \cup {-1}]
NoOutcome     == [posted |-> 0, cancelled |-> 0, run |-> 0, tripped |-> -1]

RegistryTypes ==
    /\ discovered \in BOOLEAN
    /\ tools \in [Names -> Owners]
    /\ plugins \in [Names -> Plugins \cup {None}]
    /\ tenant_plugins \in [Tenants -> SUBSET Names]
    /\ adapters \in [Tenants -> SUBSET StdioNames]
    /\ servers \in [Tenants -> [Servers -> [tools : SUBSET StdioNames, up : BOOLEAN]]]
    /\ contested \subseteq Names

CallTypes ==
    /\ call \in [Calls -> [phase : {"idle", "routed", "posting", "done"},
                           plugin : Plugins \cup {None}]]
    /\ outcome \in [Plugins -> OutcomeRecord]

Types ==
    /\ scope \in Scopes
    /\ now \in Nat
    /\ proxy \in Seq(ProxyRecord) /\ Len(proxy) <= MaxPlugins
    /\ RegistryTypes
    /\ CallTypes

\* The hub and the calls know only plugins that were made, and of one that was
\* not made nothing has happened.
Made ==
    /\ \A n \in Names : plugins[n] # None => plugins[n] \in 1..Len(proxy)
    /\ \A c \in Calls : call[c].phase \in {"routed", "posting"} => call[c].plugin \in 1..Len(proxy)
    /\ \A p \in Plugins : p > Len(proxy) => outcome[p] = NoOutcome

\* The index by tenant is that of the hub, and the registry stands for no plugin
\* but the hub's.
Indexed ==
    /\ \A t \in Tenants, n \in Names :
          n \in tenant_plugins[t] <=> (plugins[n] # None /\ proxy[plugins[n]].tenant = t)
    /\ \A n \in Names : tools[n].kind = "plugin" => plugins[n] # None /\ tools[n] = Plugin(plugins[n])

\* A name that was never contested has one claimant, which the registry stands
\* for unless it is a server that is down; a built-in tool is there once discovery
\* is over.
Reachable(n) ==
    n \notin contested =>
        /\ plugins[n] # None =>
              /\ tools[n] = Plugin(plugins[n]) /\ n \notin Builtins
              /\ \A t \in Tenants, s \in Servers : n \notin Listed(t, s)
        /\ \A t \in Tenants, s \in Servers : n \in Listed(t, s) =>
              /\ tools[n] = IF Up(t, s) THEN Stdio(t) ELSE Nobody
              /\ n \notin Builtins
              /\ \A k \in Tenants, r \in Servers : n \in Listed(k, r) => k = t /\ r = s
        /\ n \in Builtins /\ discovered => tools[n] # Nobody
        /\ ~Claimed(n) => tools[n] = Nobody

\* A server's tools have its prefix, which is why its end leaves none behind.
ServersSound ==
    /\ \A t \in Tenants, s \in Servers : Listed(t, s) \subseteq Covered[s]
    /\ AdaptersFollowServers

\* A circuit counts failures of the run that is on; while it is open, and for
\* the recovery time after that, it knows when it was tripped.
Circuit(x, o) ==
    /\ x.failures <= o.run
    /\ x.open => o.tripped = x.opened_at
    /\ ~x.open => o.tripped = -1 \/ now - o.tripped > Minute

Posting(p) == {c \in Calls : call[c].phase = "posting" /\ call[c].plugin = p}

Counted(x, o, p) ==
    /\ o.posted = x.calls + o.cancelled + Cardinality(Posting(p))
    /\ o.run <= x.failed /\ x.failed <= x.calls

CallsSound == \A p \in 1..Len(proxy) : Circuit(proxy[p], outcome[p]) /\ Counted(proxy[p], outcome[p], p)

IInv ==
    /\ Types
    /\ Made
    /\ Indexed /\ \A n \in Names : Reachable(n)
    /\ ServersSound
    /\ CallsSound

-----------------------------------------------------------------------------
(* Owners, plugins and counts.                                             *)

\* What bounds what takes part.
LEMMA InScope ==
    ASSUME scope \in Scopes
    PROVE  /\ scope.tenants \subseteq Tenants /\ scope.names \subseteq Names
           /\ scope.servers \subseteq Servers /\ 1..scope.calls \subseteq Calls
<1>1. scope \in [tenants : SUBSET Tenants, names : SUBSET Names, servers : SUBSET Servers,
                 calls : 0..MaxCalls, ticks : 0..MaxTime, definitions : SUBSET Definitions] /\ MaxCalls \in Nat
      BY HubAssumption
<1> QED BY <1>1 DEF Calls

\* Owners of different kinds differ, and so do those of one kind.
LEMMA OwnersDiffer ==
    /\ Nobody # Builtin /\ Nobody \in Owners /\ Builtin \in Owners
    /\ Nobody.kind = "none" /\ Builtin.kind = "builtin"
    /\ \A p : Plugin(p) # Nobody /\ Plugin(p).kind = "plugin" /\ Plugin(p).owner = p
    /\ \A t : Stdio(t) # Nobody /\ Stdio(t).kind = "stdio" /\ Stdio(t).owner = t
    /\ \A o \in Owners : o.kind = "plugin" => o.owner \in Plugins /\ o = Plugin(o.owner)
BY DEF Owners, Nobody, Builtin, Stdio, Plugin

\* Discovery gives free names to built-in tools and takes none away.
LEMMA DiscoveryAdds ==
    ASSUME NEW tl \in [Names -> Owners], NEW d, d = Discovery(tl), discovered \in BOOLEAN
    PROVE  /\ d \in [Names -> Owners]
           /\ \A n \in Names :
                 \/ d[n] = tl[n] /\ (discovered \/ tl[n] # Nobody \/ n \notin Builtins)
                 \/ d[n] = Builtin /\ tl[n] = Nobody /\ n \in Builtins
<1>1. CASE discovered
      BY <1>1 DEF Discovery
<1>2. CASE ~discovered
      BY <1>2, OwnersDiffer DEF Discovery
<1> QED BY <1>1, <1>2

\* The plugins made are members of the sequence.
LEMMA MadeAre ==
    ASSUME IInv
    PROVE  /\ Len(proxy) \in Nat /\ 1..Len(proxy) \subseteq Plugins
           /\ \A p \in 1..Len(proxy) : proxy[p] \in ProxyRecord /\ outcome[p] \in OutcomeRecord
           /\ \A p \in Plugins : outcome[p] \in OutcomeRecord
           /\ now \in Nat /\ MaxPlugins \in Nat /\ MaxCalls \in Nat
           /\ Minute \in Nat \ {0} /\ Threshold \in Nat \ {0}
<1>1. proxy \in Seq(ProxyRecord) /\ Len(proxy) <= MaxPlugins /\ outcome \in [Plugins -> OutcomeRecord]
      /\ now \in Nat
      BY DEF IInv, Types, CallTypes
<1>2. MaxPlugins \in Nat /\ MaxCalls \in Nat /\ Minute \in Nat \ {0} /\ Threshold \in Nat \ {0}
      BY HubAssumption
<1>3. Len(proxy) \in Nat
      BY <1>1, LenProperties
<1>4. 1..Len(proxy) \subseteq Plugins
      BY <1>1, <1>2, <1>3 DEF Plugins
<1>5. \A p \in 1..Len(proxy) : proxy[p] \in ProxyRecord
      BY <1>1
<1> QED BY <1>1, <1>2, <1>3, <1>4, <1>5

\* There are finitely many calls.
LEMMA PostingFinite ==
    ASSUME MaxCalls \in Nat, NEW T, T \subseteq Calls
    PROVE  IsFiniteSet(T) /\ Cardinality(T) \in Nat
<1>1. IsFiniteSet(Calls)
      BY FS_Interval DEF Calls
<1> QED BY <1>1, FS_Subset, FS_CardinalityType

-----------------------------------------------------------------------------
(* Steps of the registry.                                                  *)

\* A name keeps its claimants, or discovery has given it to its built-in tool.
LEMMA ReachableElse ==
    ASSUME NEW m, Reachable(m), plugins'[m] = plugins[m],
           \A t \in Tenants, s \in Servers :
              /\ m \in Listed(t, s)' <=> m \in Listed(t, s)
              /\ m \in Listed(t, s) => Up(t, s)' = Up(t, s),
           m \in contested => m \in contested',
           \/ tools'[m] = tools[m] /\ (discovered' => discovered \/ tools[m] # Nobody \/ m \notin Builtins)
           \/ tools'[m] = Builtin /\ tools[m] = Nobody /\ m \in Builtins
    PROVE  Reachable(m)'
<1>1. Claimed(m)' <=> Claimed(m)
      BY DEF Claimed
<1>2. ASSUME m \notin contested', NEW t \in Tenants, NEW s \in Servers, m \in Listed(t, s)'
      PROVE  /\ tools'[m] = IF Up(t, s)' THEN Stdio(t) ELSE Nobody
             /\ m \notin Builtins
             /\ \A k \in Tenants, r \in Servers : m \in Listed(k, r)' => k = t /\ r = s
      BY <1>2 DEF Reachable
<1>3. ASSUME m \notin contested'
      PROVE  /\ plugins'[m] # None =>
                   /\ tools'[m] = Plugin(plugins'[m]) /\ m \notin Builtins
                   /\ \A t \in Tenants, s \in Servers : m \notin Listed(t, s)'
             /\ m \in Builtins /\ discovered' => tools'[m] # Nobody
             /\ ~Claimed(m)' => tools'[m] = Nobody
      BY <1>1, <1>3, OwnersDiffer DEF Reachable, Claimed
<1> QED BY <1>2, <1>3 DEF Reachable

\* The servers are left alone.
LEMMA ServersKept ==
    ASSUME ServersSound, UNCHANGED <<adapters, servers>>
    PROVE  ServersSound'
BY DEF ServersSound, AdaptersFollowServers, Up, Listed

\* The index and the registry still agree on a name that a step leaves alone.
LEMMA IndexedElse ==
    ASSUME IInv, NEW m \in Names, plugins'[m] = plugins[m],
           \A t \in Tenants : m \in tenant_plugins'[t] <=> m \in tenant_plugins[t],
           \A p \in 1..Len(proxy) : proxy'[p].tenant = proxy[p].tenant,
           tools'[m] = tools[m] \/ tools'[m] = Builtin
    PROVE  /\ \A t \in Tenants :
                 m \in tenant_plugins'[t] <=> (plugins'[m] # None /\ proxy'[plugins'[m]].tenant = t)
           /\ tools'[m].kind = "plugin" => plugins'[m] # None /\ tools'[m] = Plugin(plugins'[m])
BY OwnersDiffer DEF IInv, Indexed, Made

\* What is left alone of calls, while time passes.
LEMMA CallsKept ==
    ASSUME IInv, UNCHANGED <<proxy, call, outcome>>, now' \in Nat, now <= now'
    PROVE  /\ CallTypes' /\ CallsSound'
           /\ \A c \in Calls : call'[c].phase \in {"routed", "posting"} => call'[c].plugin \in 1..Len(proxy')
           /\ \A p \in Plugins : p > Len(proxy') => outcome'[p] = NoOutcome
<1>1. CallTypes'
      BY DEF IInv, Types, CallTypes
<1>2. CallsSound'
  <2> SUFFICES ASSUME NEW p \in 1..Len(proxy)
               PROVE  Circuit(proxy[p], outcome[p])' /\ Counted(proxy[p], outcome[p], p)'
      BY DEF CallsSound
  <2>1. Circuit(proxy[p], outcome[p]) /\ Counted(proxy[p], outcome[p], p)
        BY DEF IInv, CallsSound
  <2>2. outcome[p].tripped \in Nat \cup {-1} /\ Minute \in Nat /\ now \in Nat
        BY MadeAre DEF OutcomeRecord
  <2>3. Circuit(proxy[p], outcome[p])'
        BY <2>1, <2>2 DEF Circuit
  <2>4. Posting(p)' = Posting(p)
        BY DEF Posting
  <2> QED BY <2>1, <2>3, <2>4 DEF Counted
<1> QED BY <1>1, <1>2 DEF IInv, Made

\* The registry is left alone, and plugins keep their tenants.
LEMMA RegistryKept ==
    ASSUME IInv, UNCHANGED registry, Len(proxy') = Len(proxy),
           \A p \in 1..Len(proxy) : proxy'[p].tenant = proxy[p].tenant
    PROVE  /\ RegistryTypes' /\ Indexed' /\ ServersSound' /\ \A n \in Names : Reachable(n)'
           /\ \A n \in Names : plugins'[n] # None => plugins'[n] \in 1..Len(proxy')
<1>1. UNCHANGED <<discovered, tools, plugins, tenant_plugins, adapters, servers, contested>>
      BY DEF registry
<1>2. RegistryTypes'
      BY <1>1 DEF IInv, Types, RegistryTypes
<1>3. Indexed'
      BY <1>1, IndexedElse DEF Indexed
<1>4. \A n \in Names : Reachable(n)'
  <2> TAKE n \in Names
  <2>1. Reachable(n)
        BY DEF IInv
  <2>2. \A t \in Tenants, s \in Servers : Listed(t, s)' = Listed(t, s) /\ Up(t, s)' = Up(t, s)
        BY <1>1 DEF Listed, Up
  <2> QED BY <1>1, <2>1, <2>2, ReachableElse
<1>5. ServersSound'
      BY <1>1, ServersKept DEF IInv
<1> QED BY <1>1, <1>2, <1>3, <1>4, <1>5 DEF IInv, Made

\* A step of the registry that makes no plugin.
LEMMA RegistryStep ==
    ASSUME IInv, UNCHANGED <<scope, now, proxy, call, outcome>>, RegistryTypes',
           \A n \in Names : plugins'[n] # None => plugins'[n] \in 1..Len(proxy),
           Indexed', ServersSound', \A n \in Names : Reachable(n)'
    PROVE  IInv'
<1>1. /\ CallTypes' /\ CallsSound'
      /\ \A c \in Calls : call'[c].phase \in {"routed", "posting"} => call'[c].plugin \in 1..Len(proxy')
      /\ \A p \in Plugins : p > Len(proxy') => outcome'[p] = NoOutcome
      BY MadeAre, CallsKept
<1>2. Types'
      BY <1>1 DEF IInv, Types
<1>3. Made'
      BY <1>1 DEF Made
<1> QED BY <1>1, <1>2, <1>3 DEF IInv

LEMMA DiscoverSound ==
    ASSUME IInv, Discover
    PROVE  IInv'
<1>1. /\ discovered' = TRUE /\ tools' = Discovery(tools)
      /\ UNCHANGED <<scope, now, plugins, tenant_plugins, adapters, servers, contested, proxy, call, outcome>>
      BY DEF Discover
<1>2. /\ tools' \in [Names -> Owners]
      /\ \A n \in Names :
            \/ tools'[n] = tools[n] /\ (discovered \/ tools[n] # Nobody \/ n \notin Builtins)
            \/ tools'[n] = Builtin /\ tools[n] = Nobody /\ n \in Builtins
  <2>1. tools \in [Names -> Owners] /\ discovered \in BOOLEAN
        BY DEF IInv, Types, RegistryTypes
  <2> QED BY <1>1, <2>1, DiscoveryAdds
<1>3. RegistryTypes'
      BY <1>1, <1>2 DEF IInv, Types, RegistryTypes
<1>4. Indexed'
      BY <1>1, <1>2, IndexedElse DEF Indexed
<1>5. \A n \in Names : Reachable(n)'
  <2> TAKE n \in Names
  <2>1. Reachable(n)
        BY DEF IInv
  <2>2. \A t \in Tenants, s \in Servers : Listed(t, s)' = Listed(t, s) /\ Up(t, s)' = Up(t, s)
        BY <1>1 DEF Listed, Up
  <2> QED BY <1>1, <1>2, <2>1, <2>2, ReachableElse
<1>6. \A n \in Names : plugins'[n] # None => plugins'[n] \in 1..Len(proxy)
      BY <1>1 DEF IInv, Made
<1>7. ServersSound'
      BY <1>1, ServersKept DEF IInv
<1> QED BY <1>1, <1>3, <1>4, <1>5, <1>6, <1>7, RegistryStep

\* The end of a plugin, when the hub forgets it and the registry its name.
LEMMA UnregisterSound ==
    ASSUME IInv, NEW t \in Tenants, NEW n \in Names, Unregister(t, n)
    PROVE  IInv'
<1>1. /\ plugins[n] # None /\ proxy[plugins[n]].tenant = t
      /\ plugins' = [plugins EXCEPT ![n] = None] /\ tools' = [tools EXCEPT ![n] = Nobody]
      /\ tenant_plugins' = [tenant_plugins EXCEPT ![t] = @ \ {n}]
      /\ UNCHANGED <<scope, now, discovered, adapters, servers, contested, proxy, call, outcome>>
      BY DEF Unregister, Forget
<1>2. RegistryTypes
      BY DEF IInv, Types
<1>3. RegistryTypes'
      BY <1>1, <1>2, OwnersDiffer DEF RegistryTypes
<1>4. /\ plugins'[n] = None /\ tools'[n] = Nobody
      /\ \A m \in Names : m # n => plugins'[m] = plugins[m] /\ tools'[m] = tools[m]
      /\ \A k \in Tenants, m \in Names : m # n => (m \in tenant_plugins'[k] <=> m \in tenant_plugins[k])
      /\ \A k \in Tenants : n \notin tenant_plugins'[k]
  <2>1. \A k \in Tenants : n \in tenant_plugins[k] => k = t
        BY <1>1 DEF IInv, Indexed
  <2> QED BY <1>1, <1>2, <2>1 DEF RegistryTypes
<1>5. Indexed'
  <2>1. ASSUME NEW m \in Names
        PROVE  /\ \A k \in Tenants :
                     m \in tenant_plugins'[k] <=> (plugins'[m] # None /\ proxy'[plugins'[m]].tenant = k)
               /\ tools'[m].kind = "plugin" => plugins'[m] # None /\ tools'[m] = Plugin(plugins'[m])
    <3>1. CASE m = n
          BY <1>4, <3>1, OwnersDiffer
    <3>2. CASE m # n
          BY <1>1, <1>4, <3>2, IndexedElse
    <3> QED BY <3>1, <3>2
  <2> QED BY <2>1 DEF Indexed
<1>6. \A m \in Names : Reachable(m)'
  <2> TAKE m \in Names
  <2>1. Reachable(m)
        BY DEF IInv
  <2>2. \A k \in Tenants, s \in Servers : Listed(k, s)' = Listed(k, s) /\ Up(k, s)' = Up(k, s)
        BY <1>1 DEF Listed, Up
  <2>3. CASE m = n
        BY <1>1, <1>4, <2>1, <2>2, <2>3 DEF Reachable, Claimed
  <2>4. CASE m # n
        BY <1>1, <1>4, <2>1, <2>2, <2>4, ReachableElse
  <2> QED BY <2>3, <2>4
<1>7. \A m \in Names : plugins'[m] # None => plugins'[m] \in 1..Len(proxy)
      BY <1>4 DEF IInv, Made
<1>8. ServersSound'
      BY <1>1, ServersKept DEF IInv
<1> QED BY <1>1, <1>3, <1>5, <1>6, <1>7, <1>8, RegistryStep

\* What a step does to the list of one server.
LEMMA OneServer ==
    ASSUME NEW t \in Tenants, NEW s \in Servers, NEW x,
           servers \in [Tenants -> [Servers -> [tools : SUBSET StdioNames, up : BOOLEAN]]],
           servers' = [servers EXCEPT ![t][s] = x]
    PROVE  /\ Listed(t, s)' = x.tools /\ Up(t, s)' = x.up
           /\ \A k \in Tenants, r \in Servers : ~(k = t /\ r = s) =>
                 Listed(k, r)' = Listed(k, r) /\ Up(k, r)' = Up(k, r)
BY DEF Listed, Up

\* The index does not know of stdio servers.
LEMMA IndexedStdio ==
    ASSUME IInv, UNCHANGED <<plugins, tenant_plugins, proxy>>,
           \A m \in Names : tools'[m] = tools[m] \/ tools'[m] = Nobody \/ \E t \in Tenants : tools'[m] = Stdio(t)
    PROVE  Indexed'
<1>1. ASSUME NEW m \in Names
      PROVE  /\ \A k \in Tenants :
                   m \in tenant_plugins'[k] <=> (plugins'[m] # None /\ proxy'[plugins'[m]].tenant = k)
             /\ tools'[m].kind = "plugin" => plugins'[m] # None /\ tools'[m] = Plugin(plugins'[m])
  <2>1. CASE tools'[m] = tools[m]
        BY <2>1, IndexedElse
  <2>2. CASE tools'[m] # tools[m]
    <3>1. tools'[m].kind # "plugin"
          BY <2>2, OwnersDiffer
    <3> QED BY <3>1 DEF IInv, Indexed
  <2> QED BY <2>1, <2>2
<1> QED BY <1>1 DEF Indexed

\* A server has listed its tools.
LEMMA MountToolsSound ==
    ASSUME IInv, NEW t \in Tenants, NEW s \in Servers, NEW L, L \subseteq Covered[s], MountTools(t, s, L)
    PROVE  IInv'
<1>1. /\ ~Up(t, s) /\ adapters' = [adapters EXCEPT ![t] = @ \cup L]
      /\ tools' = [n \in Names |-> IF n \in L \ adapters[t] /\ tools[n] = Nobody THEN Stdio(t) ELSE tools[n]]
      /\ servers' = [servers EXCEPT ![t][s] = [tools |-> L, up |-> TRUE]]
      /\ contested' = contested \cup {n \in L : ClaimedElse(n, t, s)}
      /\ UNCHANGED <<scope, now, discovered, plugins, tenant_plugins, proxy, call, outcome>>
      BY DEF MountTools, Registered
<1>2. RegistryTypes
      BY DEF IInv, Types
<1>3. L \subseteq StdioNames /\ StdioNames \subseteq Names
      BY HubAssumption
<1>4. RegistryTypes'
  <2>1. tools' \in [Names -> Owners]
        BY <1>1, <1>2 DEF RegistryTypes, Owners
  <2>2. adapters' \in [Tenants -> SUBSET StdioNames] /\ contested' \subseteq Names
        BY <1>1, <1>2, <1>3 DEF RegistryTypes
  <2>3. servers' \in [Tenants -> [Servers -> [tools : SUBSET StdioNames, up : BOOLEAN]]]
        BY <1>1, <1>2, <1>3 DEF RegistryTypes
  <2> QED BY <1>1, <1>2, <2>1, <2>2, <2>3 DEF RegistryTypes
<1>5. /\ Listed(t, s)' = L /\ Up(t, s)' = TRUE
      /\ \A k \in Tenants, r \in Servers : ~(k = t /\ r = s) =>
            Listed(k, r)' = Listed(k, r) /\ Up(k, r)' = Up(k, r)
  <2>1. PICK x : x = [tools |-> L, up |-> TRUE]
        OBVIOUS
  <2>2. /\ Listed(t, s)' = x.tools /\ Up(t, s)' = x.up
        /\ \A k \in Tenants, r \in Servers : ~(k = t /\ r = s) =>
              Listed(k, r)' = Listed(k, r) /\ Up(k, r)' = Up(k, r)
        BY <1>1, <1>2, <2>1, OneServer DEF RegistryTypes
  <2> QED BY <2>1, <2>2
<1>6. /\ adapters'[t] = adapters[t] \cup L
      /\ \A k \in Tenants : k # t => adapters'[k] = adapters[k]
      BY <1>1, <1>2 DEF RegistryTypes
<1>7. Indexed'
      BY <1>1, IndexedStdio
<1>8. ServersSound'
  <2>1. ServersSound
        BY DEF IInv
  <2>2. \A k \in Tenants, r \in Servers : Listed(k, r)' \subseteq Covered[r]
        BY <1>5, <2>1 DEF ServersSound
  <2>3. ASSUME NEW k \in Tenants, NEW n \in adapters'[k]
        PROVE  \E r \in Servers : Up(k, r)' /\ n \in Listed(k, r)'
    <3>1. CASE k = t /\ n \in L
          BY <1>5, <3>1
    <3>2. CASE ~(k = t /\ n \in L)
      <4>1. n \in adapters[k]
            BY <1>6, <2>3, <3>2
      <4>2. PICK r \in Servers : Up(k, r) /\ n \in Listed(k, r)
            BY <2>1, <4>1 DEF ServersSound, AdaptersFollowServers
      <4>3. ~(k = t /\ r = s)
            BY <1>1, <4>2
      <4> QED BY <1>5, <4>2, <4>3
    <3> QED BY <3>1, <3>2
  <2>4. ASSUME NEW k \in Tenants, NEW r \in Servers, Up(k, r)', NEW n \in Listed(k, r)'
        PROVE  n \in adapters'[k] \/ \E q \in Servers \ {r} : n \in Covered[q]
    <3>1. CASE k = t /\ r = s
          BY <1>5, <1>6, <2>4, <3>1
    <3>2. CASE ~(k = t /\ r = s)
      <4>1. n \in adapters[k] \/ \E q \in Servers \ {r} : n \in Covered[q]
            BY <1>5, <2>1, <2>4, <3>2 DEF ServersSound, AdaptersFollowServers
      <4>2. n \in adapters[k] => n \in adapters'[k]
            BY <1>6
      <4> QED BY <4>1, <4>2
    <3> QED BY <3>1, <3>2
  <2> QED BY <2>2, <2>3, <2>4 DEF ServersSound, AdaptersFollowServers
<1>9. \A m \in Names : Reachable(m)'
  <2> TAKE m \in Names
  <2>1. Reachable(m) /\ tools'[m] = IF m \in L \ adapters[t] /\ tools[m] = Nobody THEN Stdio(t) ELSE tools[m]
        BY <1>1 DEF IInv
  <2>2. CASE m \in contested'
        BY <2>2 DEF Reachable
  <2>3. CASE m \notin contested' /\ m \in L
    <3>1. m \notin contested /\ ~ClaimedElse(m, t, s)
          BY <1>1, <2>3
    <3>2. /\ m \notin Builtins /\ plugins[m] = None
          /\ \A k \in Tenants, r \in Servers : m \in Listed(k, r) => k = t /\ r = s
          BY <3>1 DEF ClaimedElse
    <3>3. m \notin adapters[t]
      <4>1. m \in adapters[t] => \E r \in Servers : Up(t, r) /\ m \in Listed(t, r)
            BY DEF IInv, ServersSound, AdaptersFollowServers
      <4> QED BY <1>1, <3>2, <4>1
    <3>4. tools[m] = Nobody
      <4>1. CASE m \in Listed(t, s)
            BY <1>1, <2>1, <3>1, <4>1 DEF Reachable
      <4>2. CASE m \notin Listed(t, s)
        <5>1. ~Claimed(m)
              BY <3>2, <4>2 DEF Claimed
        <5> QED BY <2>1, <3>1, <5>1 DEF Reachable
      <4> QED BY <4>1, <4>2
    <3>5. tools'[m] = Stdio(t) /\ plugins'[m] = None
          BY <1>1, <2>1, <2>3, <3>2, <3>3, <3>4
    <3>6. \A k \in Tenants, r \in Servers : m \in Listed(k, r)' => k = t /\ r = s
          BY <1>5, <3>2
    <3>7. Claimed(m)'
          BY <1>5, <2>3 DEF Claimed
    <3> QED BY <1>5, <3>2, <3>5, <3>6, <3>7 DEF Reachable
  <2>4. CASE m \notin contested' /\ m \notin L
    <3>1. m \notin contested /\ tools'[m] = tools[m]
          BY <1>1, <2>1, <2>4
    <3>2. CASE m \in Listed(t, s)
      <4>1. /\ tools[m] = Nobody /\ m \notin Builtins /\ plugins[m] = None
            /\ \A k \in Tenants, r \in Servers : m \in Listed(k, r) => k = t /\ r = s
            BY <1>1, <2>1, <3>1, <3>2 DEF Reachable
      <4>2. \A k \in Tenants, r \in Servers : m \notin Listed(k, r)'
            BY <1>5, <2>4, <4>1
      <4> QED BY <1>1, <3>1, <4>1, <4>2 DEF Reachable
    <3>3. CASE m \notin Listed(t, s)
      <4>1. \A k \in Tenants, r \in Servers :
               /\ m \in Listed(k, r)' <=> m \in Listed(k, r)
               /\ m \in Listed(k, r) => Up(k, r)' = Up(k, r)
            BY <1>5, <2>4, <3>3
      <4> QED BY <1>1, <2>1, <3>1, <4>1, ReachableElse
    <3> QED BY <3>2, <3>3
  <2> QED BY <2>2, <2>3, <2>4
<1>10. \A m \in Names : plugins'[m] # None => plugins'[m] \in 1..Len(proxy)
       BY <1>1 DEF IInv, Made
<1> QED BY <1>1, <1>4, <1>7, <1>8, <1>9, <1>10, RegistryStep

\* The tools of a server are taken down.
LEMMA UnmountToolsSound ==
    ASSUME IInv, NEW t \in Tenants, NEW s \in Servers, NEW ends \in BOOLEAN, UnmountTools(t, s, ends)
    PROVE  IInv'
<1>0. PICK K : K = IF ends THEN {} ELSE Listed(t, s)
      OBVIOUS
<1>1. /\ adapters' = [adapters EXCEPT ![t] = adapters[t] \ Covered[s]]
      /\ tools' = [n \in Names |-> IF n \in Listed(t, s) THEN Nobody ELSE tools[n]]
      /\ servers' = [servers EXCEPT ![t][s] = [tools |-> K, up |-> FALSE]]
      /\ UNCHANGED <<scope, now, discovered, plugins, tenant_plugins, contested, proxy, call, outcome>>
      BY <1>0 DEF UnmountTools, Withdraw, WithoutAdapters
<1>2. RegistryTypes
      BY DEF IInv, Types
<1>3. Listed(t, s) \subseteq StdioNames /\ K \subseteq Listed(t, s)
      BY <1>0, <1>2 DEF RegistryTypes, Listed
<1>4. RegistryTypes'
  <2>1. tools' \in [Names -> Owners]
        BY <1>1, <1>2, OwnersDiffer DEF RegistryTypes
  <2>2. adapters' \in [Tenants -> SUBSET StdioNames]
        BY <1>1, <1>2 DEF RegistryTypes
  <2>3. servers' \in [Tenants -> [Servers -> [tools : SUBSET StdioNames, up : BOOLEAN]]]
        BY <1>1, <1>2, <1>3 DEF RegistryTypes
  <2> QED BY <1>1, <1>2, <2>1, <2>2, <2>3 DEF RegistryTypes
<1>5. /\ Listed(t, s)' = K /\ Up(t, s)' = FALSE
      /\ \A k \in Tenants, r \in Servers : ~(k = t /\ r = s) =>
            Listed(k, r)' = Listed(k, r) /\ Up(k, r)' = Up(k, r)
  <2>1. PICK x : x = [tools |-> K, up |-> FALSE]
        OBVIOUS
  <2>2. /\ Listed(t, s)' = x.tools /\ Up(t, s)' = x.up
        /\ \A k \in Tenants, r \in Servers : ~(k = t /\ r = s) =>
              Listed(k, r)' = Listed(k, r) /\ Up(k, r)' = Up(k, r)
        BY <1>1, <1>2, <2>1, OneServer DEF RegistryTypes
  <2> QED BY <2>1, <2>2
<1>6. /\ adapters'[t] = adapters[t] \ Covered[s]
      /\ \A k \in Tenants : k # t => adapters'[k] = adapters[k]
      BY <1>1, <1>2 DEF RegistryTypes
<1>7. Indexed'
      BY <1>1, IndexedStdio
<1>8. ServersSound'
  <2>1. ServersSound
        BY DEF IInv
  <2>2. \A k \in Tenants, r \in Servers : Listed(k, r)' \subseteq Covered[r]
        BY <1>3, <1>5, <2>1 DEF ServersSound
  <2>3. ASSUME NEW k \in Tenants, NEW n \in adapters'[k]
        PROVE  \E r \in Servers : Up(k, r)' /\ n \in Listed(k, r)'
    <3>1. n \in adapters[k] /\ (k = t => n \notin Covered[s])
          BY <1>6, <2>3
    <3>2. PICK r \in Servers : Up(k, r) /\ n \in Listed(k, r)
          BY <2>1, <3>1 DEF ServersSound, AdaptersFollowServers
    <3>3. n \in Covered[r]
          BY <2>1, <3>2 DEF ServersSound
    <3> QED BY <1>5, <3>1, <3>2, <3>3
  <2>4. ASSUME NEW k \in Tenants, NEW r \in Servers, Up(k, r)', NEW n \in Listed(k, r)'
        PROVE  n \in adapters'[k] \/ \E q \in Servers \ {r} : n \in Covered[q]
    <3>1. ~(k = t /\ r = s) /\ Up(k, r) /\ n \in Listed(k, r)
          BY <1>5, <2>4
    <3>2. n \in adapters[k] \/ \E q \in Servers \ {r} : n \in Covered[q]
          BY <2>1, <3>1 DEF ServersSound, AdaptersFollowServers
    <3>3. n \in adapters[k] => n \in adapters'[k] \/ (k = t /\ n \in Covered[s])
          BY <1>6
    <3> QED BY <3>1, <3>2, <3>3
  <2> QED BY <2>2, <2>3, <2>4 DEF ServersSound, AdaptersFollowServers
<1>9. \A m \in Names : Reachable(m)'
  <2> TAKE m \in Names
  <2>1. Reachable(m) /\ tools'[m] = IF m \in Listed(t, s) THEN Nobody ELSE tools[m]
        BY <1>1 DEF IInv
  <2>2. CASE m \in contested
        BY <1>1, <2>2 DEF Reachable
  <2>3. CASE m \notin contested /\ m \in Listed(t, s)
    <3>1. /\ m \notin Builtins /\ plugins[m] = None
          /\ \A k \in Tenants, r \in Servers : m \in Listed(k, r) => k = t /\ r = s
          BY <2>1, <2>3 DEF Reachable
    <3>2. tools'[m] = Nobody /\ plugins'[m] = None
          BY <1>1, <2>1, <2>3, <3>1
    <3>3. \A k \in Tenants, r \in Servers : m \in Listed(k, r)' => k = t /\ r = s
          BY <1>5, <3>1
    <3> QED BY <1>5, <3>1, <3>2, <3>3 DEF Reachable
  <2>4. CASE m \notin Listed(t, s)
    <3>1. \A k \in Tenants, r \in Servers :
             /\ m \in Listed(k, r)' <=> m \in Listed(k, r)
             /\ m \in Listed(k, r) => Up(k, r)' = Up(k, r)
          BY <1>3, <1>5, <2>4
    <3>2. tools'[m] = tools[m]
          BY <2>1, <2>4
    <3> QED BY <1>1, <2>1, <3>1, <3>2, ReachableElse
  <2> QED BY <2>2, <2>3, <2>4
<1>10. \A m \in Names : plugins'[m] # None => plugins'[m] \in 1..Len(proxy)
       BY <1>1 DEF IInv, Made
<1> QED BY <1>1, <1>4, <1>7, <1>8, <1>9, <1>10, RegistryStep

\* A registration, refused or of the name n, which no plugin has.
LEMMA RegisterSound ==
    ASSUME IInv, NEW t \in Tenants, NEW n \in Names, NEW d, Register(t, n, d)
    PROVE  IInv'
<1> PICK p : p = Len(proxy) + 1
    OBVIOUS
<1> PICK tl : tl = [tools EXCEPT ![n] = Plugin(p)]
    OBVIOUS
<1>1. /\ UNCHANGED <<scope, now, adapters, servers, call, outcome>>
      /\ \/ UNCHANGED <<discovered, tools, plugins, tenant_plugins, contested, proxy>>
         \/ /\ plugins[n] = None /\ p \in Plugins
            /\ proxy' = Append(proxy, NewPlugin(n, t))
            /\ plugins' = [plugins EXCEPT ![n] = p]
            /\ tenant_plugins' = [tenant_plugins EXCEPT ![t] = @ \cup {n}]
            /\ tools' = Discovery(tl)
            /\ discovered' = TRUE
            /\ contested' = IF Claimed(n) THEN contested \cup {n} ELSE contested
      BY DEF Register, NameFree
<1>2. CASE UNCHANGED <<discovered, tools, plugins, tenant_plugins, contested, proxy>>
  <2>1. UNCHANGED registry
        BY <1>1, <1>2 DEF registry
  <2>2. /\ RegistryTypes' /\ Indexed' /\ ServersSound' /\ \A m \in Names : Reachable(m)'
        /\ \A m \in Names : plugins'[m] # None => plugins'[m] \in 1..Len(proxy')
        BY <1>2, <2>1, RegistryKept
  <2> QED BY <1>1, <1>2, <2>2, RegistryStep
<1>3. CASE /\ plugins[n] = None /\ p \in Plugins
           /\ proxy' = Append(proxy, NewPlugin(n, t))
           /\ plugins' = [plugins EXCEPT ![n] = p]
           /\ tenant_plugins' = [tenant_plugins EXCEPT ![t] = @ \cup {n}]
           /\ tools' = Discovery(tl)
           /\ discovered' = TRUE
           /\ contested' = IF Claimed(n) THEN contested \cup {n} ELSE contested
  <2>1. RegistryTypes /\ CallTypes /\ proxy \in Seq(ProxyRecord) /\ Len(proxy) \in Nat
        BY MadeAre DEF IInv, Types
  <2>2. NewPlugin(n, t) \in ProxyRecord /\ NewPlugin(n, t).tenant = t
        BY DEF NewPlugin, ProxyRecord
  <2>3. /\ proxy' \in Seq(ProxyRecord) /\ Len(proxy') = p
        /\ \A q \in 1..Len(proxy) : proxy'[q] = proxy[q]
        /\ proxy'[p] = NewPlugin(n, t)
        BY <1>3, <2>1, <2>2, AppendProperties
  <2>4. p <= MaxPlugins /\ 1..p = 1..Len(proxy) \cup {p} /\ p \notin 1..Len(proxy)
        BY <1>3, <2>1, MadeAre DEF Plugins
  <2>5. tl \in [Names -> Owners] /\ tl[n] = Plugin(p) /\ \A m \in Names : m # n => tl[m] = tools[m]
        BY <1>3, <2>1 DEF RegistryTypes, Owners
  <2>6. /\ tools' \in [Names -> Owners] /\ tools'[n] = Plugin(p)
        /\ \A m \in Names : m # n =>
              \/ tools'[m] = tools[m] /\ (discovered \/ tools[m] # Nobody \/ m \notin Builtins)
              \/ tools'[m] = Builtin /\ tools[m] = Nobody /\ m \in Builtins
    <3>1. /\ tools' \in [Names -> Owners]
          /\ \A m \in Names :
                \/ tools'[m] = tl[m] /\ (discovered \/ tl[m] # Nobody \/ m \notin Builtins)
                \/ tools'[m] = Builtin /\ tl[m] = Nobody /\ m \in Builtins
      <4>1. tools' = Discovery(tl) /\ discovered \in BOOLEAN
            BY <1>3, <2>1 DEF RegistryTypes
      <4>2. tl \in [Names -> Owners]
            BY <2>5
      <4> QED BY <4>1, <4>2, DiscoveryAdds
    <3> QED BY <2>5, <3>1, OwnersDiffer
  <2>7. RegistryTypes'
        BY <1>1, <1>3, <2>1, <2>6 DEF RegistryTypes
  <2>8. /\ plugins'[n] = p /\ \A m \in Names : m # n => plugins'[m] = plugins[m]
        /\ \A k \in Tenants, m \in Names : m # n => (m \in tenant_plugins'[k] <=> m \in tenant_plugins[k])
        /\ \A k \in Tenants : n \in tenant_plugins'[k] <=> k = t
    <3>1. \A k \in Tenants : n \notin tenant_plugins[k]
          BY <1>3 DEF IInv, Indexed
    <3> QED BY <1>3, <2>1, <3>1 DEF RegistryTypes
  <2>9. Indexed'
    <3>1. ASSUME NEW m \in Names
          PROVE  /\ \A k \in Tenants :
                       m \in tenant_plugins'[k] <=> (plugins'[m] # None /\ proxy'[plugins'[m]].tenant = k)
                 /\ tools'[m].kind = "plugin" => plugins'[m] # None /\ tools'[m] = Plugin(plugins'[m])
      <4>1. CASE m # n
            BY <2>3, <2>6, <2>8, <4>1, IndexedElse
      <4>2. CASE m = n
        <5>1. p # None
              BY <2>1, HubAssumption
        <5> QED BY <2>2, <2>3, <2>6, <2>8, <4>2, <5>1
      <4> QED BY <4>1, <4>2
    <3> QED BY <3>1 DEF Indexed
  <2>10. \A m \in Names : Reachable(m)'
    <3> TAKE m \in Names
    <3>1. Reachable(m)
          BY DEF IInv
    <3>x. \A k \in Tenants, s \in Servers : Listed(k, s)' = Listed(k, s) /\ Up(k, s)' = Up(k, s)
          BY <1>1 DEF Listed, Up
    <3>2. CASE m = n /\ ~Claimed(n)
      <4>1. p # None
            BY <2>1, HubAssumption
      <4>2. n \notin Builtins /\ \A k \in Tenants, s \in Servers : n \notin Listed(k, s)'
            BY <3>2, <3>x DEF Claimed
      <4>3. plugins'[n] # None /\ Claimed(n)' /\ tools'[n] = Plugin(plugins'[n])
            BY <2>6, <2>8, <4>1 DEF Claimed
      <4> QED BY <3>2, <4>2, <4>3 DEF Reachable
    <3>3. CASE m = n /\ Claimed(n)
      <4>1. n \in contested'
            BY <1>3, <3>3
      <4> QED BY <3>3, <4>1 DEF Reachable
    <3>4. CASE m # n
      <4>1. m \in contested => m \in contested'
            BY <1>3
      <4>2. plugins'[m] = plugins[m]
            BY <2>8, <3>4
      <4>3. \/ tools'[m] = tools[m] /\ (discovered' => discovered \/ tools[m] # Nobody \/ m \notin Builtins)
            \/ tools'[m] = Builtin /\ tools[m] = Nobody /\ m \in Builtins
            BY <2>6, <3>4
      <4> QED BY ONLY <3>1, <3>x, <4>1, <4>2, <4>3, ReachableElse
    <3> QED BY <3>2, <3>3, <3>4
  <2>11. Made'
    <3>1. \A m \in Names : plugins'[m] # None => plugins'[m] \in 1..Len(proxy')
          BY <2>3, <2>4, <2>8 DEF IInv, Made
    <3> QED BY <1>1, <2>1, <2>3, <2>4, <3>1 DEF IInv, Made, Plugins
  <2>12. CallTypes'
         BY <1>1, <2>1 DEF CallTypes
  <2>13. CallsSound'
    <3>1. ASSUME NEW q \in 1..Len(proxy)
          PROVE  Circuit(proxy[q], outcome[q])' /\ Counted(proxy[q], outcome[q], q)'
      <4>1. Circuit(proxy[q], outcome[q]) /\ Counted(proxy[q], outcome[q], q)
            BY DEF IInv, CallsSound
      <4>2. proxy'[q] = proxy[q] /\ outcome'[q] = outcome[q] /\ now' = now /\ Posting(q)' = Posting(q)
            BY <1>1, <2>3 DEF Posting
      <4> QED BY <4>1, <4>2 DEF Circuit, Counted
    <3>2. Posting(p)' = {}
          BY <1>1, <2>4 DEF IInv, Made, Posting
    <3>3. outcome'[p] = NoOutcome
          BY <1>1, <1>3, <2>1 DEF IInv, Made, Plugins
    <3>4. Cardinality({}) = 0
          BY FS_EmptySet
    <3>5. Circuit(proxy[p], outcome[p])' /\ Counted(proxy[p], outcome[p], p)'
      <4>1. /\ proxy'[p].failures = 0 /\ proxy'[p].open = FALSE /\ proxy'[p].calls = 0 /\ proxy'[p].failed = 0
            BY <2>3 DEF NewPlugin
      <4>2. /\ outcome'[p].posted = 0 /\ outcome'[p].cancelled = 0 /\ outcome'[p].run = 0
            /\ outcome'[p].tripped = -1
            BY <3>3 DEF NoOutcome
      <4>3. Cardinality(Posting(p)') = 0
            BY <3>2, <3>4, Zenon
      <4> QED BY <4>1, <4>2, <4>3 DEF Circuit, Counted
    <3> QED BY <2>3, <2>4, <3>1, <3>5 DEF CallsSound
  <2>14. Types'
         BY <1>1, <2>3, <2>4, <2>7, <2>12 DEF IInv, Types
  <2>15. ServersSound'
         BY <1>1, ServersKept DEF IInv
  <2> QED BY <2>9, <2>10, <2>11, <2>13, <2>14, <2>15 DEF IInv
<1> QED BY <1>1, <1>2, <1>3

-----------------------------------------------------------------------------
(* Steps of calls.                                                         *)

\* What a step of one call does to the number of requests under way.
LEMMA PostingMoves ==
    ASSUME IInv, NEW k \in Calls, NEW p, p = call[k].plugin, NEW ph \in {"posting", "done"},
           call' = [call EXCEPT ![k].phase = ph]
    PROVE  /\ call' \in [Calls -> [phase : {"idle", "routed", "posting", "done"}, plugin : Plugins \cup {None}]]
           /\ call'[k].plugin = p /\ call'[k].phase = ph /\ \A c \in Calls : c # k => call'[c] = call[c]
           /\ Cardinality(Posting(p)) \in Nat /\ Cardinality(Posting(p)') \in Nat
           /\ call[k].phase # "posting" /\ ph = "posting" =>
                 Cardinality(Posting(p)') = Cardinality(Posting(p)) + 1
           /\ call[k].phase = "posting" /\ ph = "done" =>
                 Cardinality(Posting(p)) = Cardinality(Posting(p)') + 1
           /\ call[k].phase # "posting" /\ ph = "done" =>
                 Cardinality(Posting(p)') = Cardinality(Posting(p))
<1>1. /\ call \in [Calls -> [phase : {"idle", "routed", "posting", "done"}, plugin : Plugins \cup {None}]]
      /\ MaxCalls \in Nat
      BY HubAssumption DEF IInv, Types, CallTypes
<1>2. /\ call' \in [Calls -> [phase : {"idle", "routed", "posting", "done"}, plugin : Plugins \cup {None}]]
      /\ call'[k].plugin = p /\ call'[k].phase = ph /\ \A c \in Calls : c # k => call'[c] = call[c]
      BY <1>1
<1>3. PICK P : P = Posting(p)
      OBVIOUS
<1>4. PICK Q : Q = Posting(p)'
      OBVIOUS
<1>5. P \subseteq Calls /\ Q \subseteq Calls
      BY <1>3, <1>4 DEF Posting
<1>6. IsFiniteSet(P) /\ Cardinality(P) \in Nat /\ IsFiniteSet(Q) /\ Cardinality(Q) \in Nat
      BY <1>1, <1>5, PostingFinite
<1>7. call[k].phase # "posting" /\ ph = "posting" => Cardinality(Q) = Cardinality(P) + 1
  <2> SUFFICES ASSUME call[k].phase # "posting" /\ ph = "posting"
               PROVE  Cardinality(Q) = Cardinality(P) + 1
      OBVIOUS
  <2>1. Q = P \cup {k} /\ k \notin P
        BY <1>2, <1>3, <1>4 DEF Posting
  <2> QED BY <1>6, <2>1, FS_AddElement
<1>8. call[k].phase = "posting" /\ ph = "done" => Cardinality(P) = Cardinality(Q) + 1
  <2> SUFFICES ASSUME call[k].phase = "posting" /\ ph = "done"
               PROVE  Cardinality(P) = Cardinality(Q) + 1
      OBVIOUS
  <2>1. P = Q \cup {k} /\ k \notin Q
        BY <1>2, <1>3, <1>4 DEF Posting
  <2> QED BY <1>6, <2>1, FS_AddElement
<1>9. call[k].phase # "posting" /\ ph = "done" => Q = P
      BY <1>2, <1>3, <1>4 DEF Posting
<1> QED BY <1>2, <1>3, <1>4, <1>6, <1>7, <1>8, <1>9

\* A call in hand goes on; its plugin changes, and no other.
LEMMA CallStepSound ==
    ASSUME IInv, NEW k \in Calls, NEW p \in 1..Len(proxy), p = call[k].plugin,
           NEW ph \in {"posting", "done"}, call' = [call EXCEPT ![k].phase = ph],
           UNCHANGED <<scope, now, registry>>,
           proxy' \in Seq(ProxyRecord), Len(proxy') = Len(proxy),
           \A q \in 1..Len(proxy) : q # p => proxy'[q] = proxy[q],
           proxy'[p].tenant = proxy[p].tenant,
           outcome' \in [Plugins -> OutcomeRecord], \A q \in Plugins : q # p => outcome'[q] = outcome[q],
           Circuit(proxy[p], outcome[p])', Counted(proxy[p], outcome[p], p)'
    PROVE  IInv'
<1>1. /\ call' \in [Calls -> [phase : {"idle", "routed", "posting", "done"}, plugin : Plugins \cup {None}]]
      /\ call'[k].plugin = p /\ \A c \in Calls : c # k => call'[c] = call[c]
      BY DEF IInv, Types, CallTypes
<1>2. \A q \in 1..Len(proxy) : proxy'[q].tenant = proxy[q].tenant
      OBVIOUS
<1>3. /\ RegistryTypes' /\ Indexed' /\ ServersSound' /\ \A n \in Names : Reachable(n)'
      /\ \A n \in Names : plugins'[n] # None => plugins'[n] \in 1..Len(proxy')
      BY <1>2, RegistryKept
<1>4. Types'
      BY <1>1, <1>3 DEF IInv, Types, CallTypes
<1>5. Made'
  <2>1. \A q \in Plugins : q > Len(proxy) => q # p
        BY MadeAre
  <2> QED BY <1>1, <1>3, <2>1 DEF IInv, Made
<1>6. CallsSound'
  <2> SUFFICES ASSUME NEW q \in 1..Len(proxy), q # p
               PROVE  Circuit(proxy[q], outcome[q])' /\ Counted(proxy[q], outcome[q], q)'
      BY DEF CallsSound
  <2>1. Circuit(proxy[q], outcome[q]) /\ Counted(proxy[q], outcome[q], q)
        BY DEF IInv, CallsSound
  <2>2. Posting(q)' = Posting(q)
        BY <1>1 DEF Posting
  <2>3. proxy'[q] = proxy[q] /\ outcome'[q] = outcome[q] /\ now' = now
        BY MadeAre
  <2> QED BY <2>1, <2>2, <2>3 DEF Circuit, Counted
<1> QED BY <1>3, <1>4, <1>5, <1>6 DEF IInv

\* Where a plugin of the sequence is replaced.
LEMMA Replaced ==
    ASSUME NEW p \in 1..Len(proxy), proxy \in Seq(ProxyRecord), NEW x \in ProxyRecord,
           proxy' = [proxy EXCEPT ![p] = x]
    PROVE  /\ proxy' \in Seq(ProxyRecord) /\ Len(proxy') = Len(proxy) /\ proxy'[p] = x
           /\ \A q \in 1..Len(proxy) : q # p => proxy'[q] = proxy[q]
BY ExceptSeq

\* A call finds a plugin of the hub in the registry.
LEMMA RouteSound ==
    ASSUME IInv, NEW c \in Calls, NEW n \in Names, Route(c, n)
    PROVE  IInv'
<1> PICK p : p = tools[n].owner
    OBVIOUS
<1>1. /\ call[c].phase = "idle" /\ tools[n].kind = "plugin"
      /\ call' = [call EXCEPT ![c] = [phase |-> "routed", plugin |-> p]]
      /\ UNCHANGED <<scope, now, registry, proxy, outcome>>
      BY DEF Route
<1>2. p \in 1..Len(proxy)
  <2>1. plugins[n] # None /\ tools[n] = Plugin(plugins[n])
        BY <1>1 DEF IInv, Indexed
  <2>2. p = plugins[n]
        BY <2>1, OwnersDiffer
  <2> QED BY <2>1, <2>2 DEF IInv, Made
<1>3. /\ call \in [Calls -> [phase : {"idle", "routed", "posting", "done"}, plugin : Plugins \cup {None}]]
      /\ p \in Plugins
      BY <1>2, MadeAre DEF IInv, Types, CallTypes
<1>4. /\ call' \in [Calls -> [phase : {"idle", "routed", "posting", "done"}, plugin : Plugins \cup {None}]]
      /\ call'[c].phase = "routed" /\ call'[c].plugin = p /\ \A d \in Calls : d # c => call'[d] = call[d]
      BY <1>1, <1>3
<1>5. /\ RegistryTypes' /\ Indexed' /\ ServersSound' /\ \A m \in Names : Reachable(m)'
      /\ \A m \in Names : plugins'[m] # None => plugins'[m] \in 1..Len(proxy')
      BY <1>1, RegistryKept
<1>6. Types'
      BY <1>1, <1>4, <1>5 DEF IInv, Types, CallTypes
<1>7. Made'
      BY <1>1, <1>2, <1>4, <1>5 DEF IInv, Made
<1>8. CallsSound'
  <2> SUFFICES ASSUME NEW q \in 1..Len(proxy)
               PROVE  Circuit(proxy[q], outcome[q])' /\ Counted(proxy[q], outcome[q], q)'
      BY <1>1 DEF CallsSound
  <2>1. Circuit(proxy[q], outcome[q]) /\ Counted(proxy[q], outcome[q], q)
        BY DEF IInv, CallsSound
  <2>2. Posting(q)' = Posting(q)
        BY <1>1, <1>4 DEF Posting
  <2> QED BY <1>1, <2>1, <2>2 DEF Circuit, Counted
<1> QED BY <1>5, <1>6, <1>7, <1>8 DEF IInv
\* Nothing is posted while a circuit is open, and letting in opens none.
Quiet ==
    \A p \in Plugins : outcome'[p].posted > outcome[p].posted =>
        (outcome[p].tripped = -1 \/ now - outcome[p].tripped > Minute)

Trips ==
    \A p \in 1..Len(proxy) : (~proxy[p].open /\ proxy'[p].open) => outcome'[p].run >= Threshold

LEMMA AdmitSound ==
    ASSUME IInv, NEW c \in Calls, NEW fits \in BOOLEAN, Admit(c, fits)
    PROVE  IInv' /\ Quiet /\ Trips
<1>p. PICK p : p = call[c].plugin
    OBVIOUS
<1>x. PICK x : x = Checked(proxy[p])
    OBVIOUS
<1>l. PICK limit : limit = RateLimit(executions[x.name], MaxExecutions)
    OBVIOUS
<1>z. PICK z : z = IF limit.ok THEN x ELSE [x EXCEPT !.status = "rate_limited"]
    OBVIOUS
<1>1. /\ call[c].phase = "routed" /\ UNCHANGED <<scope, now, registry>>
      /\ IF x.open
         THEN Finish(c) /\ UNCHANGED <<proxy, outcome>>
         ELSE /\ proxy' = [proxy EXCEPT ![p] = z]
              /\ \/ /\ call' = [call EXCEPT ![c].phase = "posting"]
                    /\ outcome' = [outcome EXCEPT ![p].posted = @ + 1]
                 \/ Finish(c) /\ UNCHANGED outcome
  <2>1. /\ Execute(c, fits, p, x, limit)
        /\ call[c].phase = "routed" /\ UNCHANGED <<scope, now, registry>>
        BY <1>p, <1>x, <1>l DEF Admit
  <2> QED BY ONLY <2>1, <1>z DEF Execute
<1>2. p \in 1..Len(proxy)
      BY <1>1, <1>p DEF IInv, Made
<1>3. proxy[p] \in ProxyRecord /\ proxy \in Seq(ProxyRecord)
      BY <1>2, MadeAre DEF IInv, Types
<1>4. /\ x \in ProxyRecord /\ x.tenant = proxy[p].tenant
      /\ x.calls = proxy[p].calls /\ x.failed = proxy[p].failed
      /\ \/ x = proxy[p] /\ ~Recovered(proxy[p])
         \/ Recovered(proxy[p]) /\ x.open = FALSE /\ x.failures = 0
      BY <1>3, <1>x DEF Checked, ProxyRecord
<1>5. /\ z \in ProxyRecord /\ z.tenant = x.tenant /\ z.calls = x.calls /\ z.failed = x.failed
      /\ z.open = x.open /\ z.failures = x.failures /\ z.opened_at = x.opened_at
      BY <1>4, <1>z DEF ProxyRecord
<1>6. PICK ph \in {"posting", "done"} :
         /\ call' = [call EXCEPT ![c].phase = ph]
         /\ outcome' = IF ph = "posting" THEN [outcome EXCEPT ![p].posted = @ + 1] ELSE outcome
         /\ ph = "posting" => ~proxy[p].open \/ Recovered(proxy[p])
      BY <1>1, <1>4 DEF Finish
<1>7. /\ proxy' \in Seq(ProxyRecord) /\ Len(proxy') = Len(proxy)
      /\ \A q \in 1..Len(proxy) : q # p => proxy'[q] = proxy[q]
      /\ proxy'[p].tenant = proxy[p].tenant /\ proxy'[p].calls = proxy[p].calls
      /\ proxy'[p].failed = proxy[p].failed
      /\ \/ /\ proxy'[p].open = proxy[p].open /\ proxy'[p].failures = proxy[p].failures
            /\ proxy'[p].opened_at = proxy[p].opened_at
         \/ Recovered(proxy[p]) /\ proxy'[p].open = FALSE /\ proxy'[p].failures = 0
  <2>1. CASE x.open
    <3>1. proxy' = proxy
          BY <1>1, <2>1
    <3> QED BY <1>3, <3>1
  <2>2. CASE ~x.open
    <3>1. proxy' = [proxy EXCEPT ![p] = z]
          BY <1>1, <2>2
    <3>2. /\ proxy' \in Seq(ProxyRecord) /\ Len(proxy') = Len(proxy) /\ proxy'[p] = z
          /\ \A q \in 1..Len(proxy) : q # p => proxy'[q] = proxy[q]
          BY ONLY <1>2, <1>3, <1>5, <3>1, Replaced
    <3> QED BY <1>4, <1>5, <3>2
  <2> QED BY <2>1, <2>2
<1>8. /\ p \in Plugins /\ outcome[p] \in OutcomeRecord /\ proxy[p] \in ProxyRecord
      /\ outcome \in [Plugins -> OutcomeRecord] /\ now \in Nat /\ Minute \in Nat
      BY <1>1, <1>2, MadeAre DEF IInv, Types, CallTypes
<1>11. proxy[p].opened_at \in Nat /\ outcome[p].run \in Nat /\ outcome[p].posted \in Nat
      /\ outcome[p].tripped \in Nat \cup {-1} /\ proxy[p].calls \in Nat /\ outcome[p].cancelled \in Nat
      BY <1>8 DEF ProxyRecord, OutcomeRecord
<1>k. PICK k : k = IF ph = "posting" THEN 1 ELSE 0
    OBVIOUS
<1>9. /\ outcome' \in [Plugins -> OutcomeRecord] /\ \A q \in Plugins : q # p => outcome'[q] = outcome[q]
      /\ outcome'[p].posted = outcome[p].posted + k
      /\ outcome'[p].cancelled = outcome[p].cancelled /\ outcome'[p].run = outcome[p].run
      /\ outcome'[p].tripped = outcome[p].tripped
  <2>1. CASE ph = "posting"
    <3>n. PICK n : n = outcome[p].posted + 1
        OBVIOUS
    <3>o. PICK o : o = [outcome[p] EXCEPT !.posted = n]
        OBVIOUS
    <3>1. outcome' = [outcome EXCEPT ![p] = o]
          BY <1>6, <1>8, <2>1, <3>n, <3>o
    <3>2. n \in Nat
          BY <1>11, <3>n
    <3>3. /\ o \in OutcomeRecord /\ o.posted = n /\ o.cancelled = outcome[p].cancelled
          /\ o.run = outcome[p].run /\ o.tripped = outcome[p].tripped
          BY <1>8, <3>2, <3>o DEF OutcomeRecord
    <3>4. outcome' \in [Plugins -> OutcomeRecord] /\ outcome'[p] = o
          /\ \A q \in Plugins : q # p => outcome'[q] = outcome[q]
          BY ONLY <1>8, <3>1, <3>3
    <3>5. k = 1
          BY <1>k, <2>1
    <3> QED BY <3>3, <3>4, <3>5, <3>n
  <2>2. CASE ph # "posting"
    <3>1. outcome' = outcome /\ k = 0
          BY <1>6, <1>k, <2>2
    <3> QED BY <1>8, <1>11, <3>1
  <2> QED BY <2>1, <2>2
<1>10. Circuit(proxy[p], outcome[p]) /\ Counted(proxy[p], outcome[p], p)
      BY <1>1, <1>2 DEF IInv, CallsSound
<1>12. Circuit(proxy[p], outcome[p])'
  <2>1. now' = now
        BY <1>1
  <2>2. CASE /\ proxy'[p].open = proxy[p].open /\ proxy'[p].failures = proxy[p].failures
             /\ proxy'[p].opened_at = proxy[p].opened_at
        BY <1>9, <1>10, <2>1, <2>2 DEF Circuit
  <2>3. CASE Recovered(proxy[p]) /\ proxy'[p].open = FALSE /\ proxy'[p].failures = 0
    <3>1. proxy[p].open /\ now - proxy[p].opened_at > Minute
          BY <2>3 DEF Recovered
    <3>2. outcome'[p].tripped = proxy[p].opened_at
          BY <1>9, <1>10, <3>1 DEF Circuit
    <3>3. now' - outcome'[p].tripped > Minute
          BY <2>1, <3>1, <3>2
    <3>4. proxy'[p].failures <= outcome'[p].run
          BY <1>9, <1>11, <2>3
    <3> QED BY <2>3, <3>3, <3>4 DEF Circuit
  <2> QED BY <1>7, <2>2, <2>3
<1>13. Counted(proxy[p], outcome[p], p)'
  <2>1. /\ call' = [call EXCEPT ![c].phase = ph] /\ ph \in {"posting", "done"} /\ p = call[c].plugin
        /\ call[c].phase # "posting"
        BY <1>1, <1>6, <1>p
  <2>2. /\ Cardinality(Posting(p)) \in Nat
        /\ call[c].phase # "posting" /\ ph = "posting" =>
              Cardinality(Posting(p)') = Cardinality(Posting(p)) + 1
        /\ call[c].phase # "posting" /\ ph = "done" =>
              Cardinality(Posting(p)') = Cardinality(Posting(p))
        BY <2>1, PostingMoves
  <2>3. Cardinality(Posting(p)') = Cardinality(Posting(p)) + k /\ k \in Nat
    <3>1. CASE ph = "posting"
      <4>1. k = 1
            BY <1>k, <3>1
      <4> QED BY <2>1, <2>2, <3>1, <4>1
    <3>2. CASE ph = "done"
      <4>1. k = 0
            BY <1>k, <3>2
      <4> QED BY <2>1, <2>2, <3>2, <4>1
    <3> QED BY <2>1, <3>1, <3>2
  <2>4. /\ outcome[p].posted = proxy[p].calls + outcome[p].cancelled + Cardinality(Posting(p))
        /\ outcome[p].run <= proxy[p].failed /\ proxy[p].failed <= proxy[p].calls
        BY <1>10 DEF Counted
  <2>5. outcome[p].posted + k = proxy[p].calls + outcome[p].cancelled + Cardinality(Posting(p)')
        BY ONLY <1>11, <2>2, <2>3, <2>4
  <2>6. /\ outcome'[p].posted = proxy'[p].calls + outcome'[p].cancelled + Cardinality(Posting(p)')
        /\ outcome'[p].run <= proxy'[p].failed /\ proxy'[p].failed <= proxy'[p].calls
        BY <1>7, <1>9, <2>4, <2>5
  <2> QED BY <2>6 DEF Counted
<1>14. IInv'
  <2>1. call' = [call EXCEPT ![c].phase = ph] /\ p = call[c].plugin
        BY <1>6, <1>p
  <2>2. UNCHANGED <<scope, now, registry>>
        BY <1>1
  <2> QED BY <1>2, <1>7, <1>9, <1>12, <1>13, <2>1, <2>2, CallStepSound
<1>15. Quiet
  <2> SUFFICES ASSUME NEW q \in Plugins, outcome'[q].posted > outcome[q].posted
               PROVE  outcome[q].tripped = -1 \/ now - outcome[q].tripped > Minute
      BY DEF Quiet
  <2>0. outcome'[q].posted > outcome[q].posted
        OBVIOUS
  <2>1. q = p /\ ph = "posting"
    <3>1. outcome[q].posted \in Nat
          BY <1>8 DEF OutcomeRecord
    <3>2. outcome'[q].posted # outcome[q].posted
          BY ONLY <2>0, <3>1
    <3>3. q = p
          BY <1>9, <3>2
    <3>4. k # 0
          BY <1>9, <1>11, <3>2, <3>3
    <3> QED BY <1>k, <3>3, <3>4
  <2>2. ~proxy[p].open \/ Recovered(proxy[p])
        BY <1>6, <2>1
  <2> QED BY <1>10, <2>1, <2>2 DEF Circuit, Recovered
<1>16. Trips
       BY <1>7 DEF Trips
<1> QED BY <1>14, <1>15, <1>16

\* What an answer makes of its plugin, and what a failure does.
LEMMA SucceedDoes ==
    ASSUME NEW x \in ProxyRecord, NEW y, y = Succeed(x)
    PROVE  /\ y \in ProxyRecord /\ y.tenant = x.tenant /\ y.calls = x.calls + 1 /\ y.failed = x.failed
           /\ y.failures = 0 /\ y.open = x.open /\ y.opened_at = x.opened_at
<1> PICK k : k = x.calls + 1
    OBVIOUS
<1> PICK l : l = x.failed
    OBVIOUS
<1> PICK z : z = Record(x, TRUE)
    OBVIOUS
<1>1. k \in Nat /\ l \in Nat
      BY DEF ProxyRecord
<1>2. z = [x EXCEPT !.calls = k, !.failed = l]
      BY DEF Record
<1>3. /\ z \in ProxyRecord /\ z.tenant = x.tenant /\ z.calls = k /\ z.failed = l
      /\ z.open = x.open /\ z.opened_at = x.opened_at
      BY <1>1, <1>2 DEF ProxyRecord
<1>4. PICK v : v = [z EXCEPT !.failures = 0]
      OBVIOUS
<1>5. /\ v \in ProxyRecord /\ v.tenant = z.tenant /\ v.calls = z.calls /\ v.failed = z.failed
      /\ v.failures = 0 /\ v.open = z.open /\ v.opened_at = z.opened_at
      BY <1>3, <1>4 DEF ProxyRecord
<1>6. y = [v EXCEPT !.status = "active"]
      BY <1>3, <1>4 DEF Succeed, ProxyRecord
<1>7. /\ y \in ProxyRecord /\ y.tenant = v.tenant /\ y.calls = v.calls /\ y.failed = v.failed
      /\ y.failures = v.failures /\ y.open = v.open /\ y.opened_at = v.opened_at
      BY <1>5, <1>6 DEF ProxyRecord
<1> QED BY <1>3, <1>5, <1>7

LEMMA FailDoes ==
    ASSUME NEW x \in ProxyRecord, NEW y, y = Fail(x), now \in Nat, Threshold \in Nat
    PROVE  /\ y \in ProxyRecord /\ y.tenant = x.tenant /\ y.calls = x.calls + 1
           /\ y.failed = x.failed + 1 /\ y.failures = x.failures + 1
           /\ \/ y.open = x.open /\ y.opened_at = x.opened_at /\ y.failures < Threshold
              \/ y.failures >= Threshold /\ y.open = TRUE /\ y.opened_at = now
<1> PICK k : k = x.calls + 1
    OBVIOUS
<1> PICK l : l = x.failed + 1
    OBVIOUS
<1> PICK r : r = x.failures + 1
    OBVIOUS
<1> PICK z : z = Tripped(x)
    OBVIOUS
<1>1. k \in Nat /\ l \in Nat /\ r \in Nat
      BY DEF ProxyRecord
<1>2. z = [x EXCEPT !.failures = r, !.open = x.open \/ r >= Threshold,
                    !.opened_at = IF r >= Threshold THEN now ELSE x.opened_at]
      BY DEF Tripped
<1>3. y = [z EXCEPT !.calls = z.calls + 1, !.failed = z.failed + 1]
      BY DEF Fail, Record
<1>4. CASE r >= Threshold
  <2>1. z = [x EXCEPT !.failures = r, !.open = TRUE, !.opened_at = now]
        BY <1>2, <1>4
  <2>2. /\ z \in ProxyRecord /\ z.tenant = x.tenant /\ z.calls = x.calls /\ z.failed = x.failed
        /\ z.failures = r /\ z.open = TRUE /\ z.opened_at = now
        BY <1>1, <2>1 DEF ProxyRecord
  <2>3. y = [z EXCEPT !.calls = k, !.failed = l]
        BY <1>3, <2>2
  <2>4. /\ y \in ProxyRecord /\ y.tenant = z.tenant /\ y.calls = k /\ y.failed = l
        /\ y.failures = z.failures /\ y.open = z.open /\ y.opened_at = z.opened_at
        BY <1>1, <2>2, <2>3 DEF ProxyRecord
  <2> QED BY <1>4, <2>2, <2>4
<1>5. CASE r < Threshold
  <2>0. ~(r >= Threshold) /\ x.open \in BOOLEAN
        BY <1>1, <1>5 DEF ProxyRecord
  <2>5. (x.open \/ r >= Threshold) = x.open
        BY ONLY <2>0
  <2>6. (IF r >= Threshold THEN now ELSE x.opened_at) = x.opened_at
        BY ONLY <2>0
  <2>1. z = [x EXCEPT !.failures = r, !.open = x.open, !.opened_at = x.opened_at]
        BY <1>2, <2>5, <2>6
  <2>2. /\ z \in ProxyRecord /\ z.tenant = x.tenant /\ z.calls = x.calls /\ z.failed = x.failed
        /\ z.failures = r /\ z.open = x.open /\ z.opened_at = x.opened_at
        BY <1>1, <2>1 DEF ProxyRecord
  <2>3. y = [z EXCEPT !.calls = k, !.failed = l]
        BY <1>3, <2>2
  <2>4. /\ y \in ProxyRecord /\ y.tenant = z.tenant /\ y.calls = k /\ y.failed = l
        /\ y.failures = z.failures /\ y.open = z.open /\ y.opened_at = z.opened_at
        BY <1>1, <2>2, <2>3 DEF ProxyRecord
  <2> QED BY <1>5, <2>2, <2>4
<1>6. r >= Threshold \/ r < Threshold
      BY <1>1
<1> QED BY <1>4, <1>5, <1>6

\* The end of a request: the failure that completes a run trips the circuit.
LEMMA AnsweredSound ==
    ASSUME IInv, NEW c \in Calls, NEW ok \in BOOLEAN, Answered(c, ok)
    PROVE  IInv' /\ Quiet /\ Trips
<1>p. PICK p : p = call[c].plugin
    OBVIOUS
<1>x. PICK x : x = IF ok THEN Succeed(proxy[p]) ELSE Fail(proxy[p])
    OBVIOUS
<1>1. /\ call[c].phase = "posting" /\ proxy' = [proxy EXCEPT ![p] = x]
      /\ outcome' = [outcome EXCEPT ![p].run = IF ok THEN 0 ELSE @ + 1,
                                    ![p].tripped = IF ~ok /\ x.failures >= Threshold THEN now ELSE @]
      /\ call' = [call EXCEPT ![c].phase = "done"]
      /\ UNCHANGED <<scope, now, registry>>
      BY <1>p, <1>x DEF Answered, Finish
<1>2. p \in 1..Len(proxy)
      BY <1>1, <1>p DEF IInv, Made
<1>3. /\ proxy[p] \in ProxyRecord /\ proxy \in Seq(ProxyRecord) /\ p \in Plugins
      /\ outcome \in [Plugins -> OutcomeRecord] /\ outcome[p] \in OutcomeRecord
      /\ now \in Nat /\ Threshold \in Nat \ {0} /\ Minute \in Nat \ {0}
      BY <1>2, MadeAre DEF IInv, Types, CallTypes
<1>4. /\ proxy[p].opened_at \in Nat /\ proxy[p].failures \in Nat /\ proxy[p].calls \in Nat
      /\ proxy[p].failed \in Nat /\ proxy[p].open \in BOOLEAN
      /\ outcome[p].run \in Nat /\ outcome[p].posted \in Nat /\ outcome[p].cancelled \in Nat
      /\ outcome[p].tripped \in Nat \cup {-1}
      BY <1>3 DEF ProxyRecord, OutcomeRecord
<1>5. /\ x \in ProxyRecord /\ x.tenant = proxy[p].tenant
      /\ x.calls = proxy[p].calls + 1
      /\ x.failed = IF ok THEN proxy[p].failed ELSE proxy[p].failed + 1
      /\ x.failures = IF ok THEN 0 ELSE proxy[p].failures + 1
      /\ \/ x.open = proxy[p].open /\ x.opened_at = proxy[p].opened_at /\ (ok \/ x.failures < Threshold)
         \/ ~ok /\ x.failures >= Threshold /\ x.open = TRUE /\ x.opened_at = now
  <2>1. CASE ok
    <3>1. x = Succeed(proxy[p])
          BY <1>x, <2>1
    <3> QED BY <1>3, <2>1, <3>1, SucceedDoes
  <2>2. CASE ~ok
    <3>1. x = Fail(proxy[p]) /\ Threshold \in Nat
          BY <1>3, <1>x, <2>2
    <3> QED BY <1>3, <2>2, <3>1, FailDoes
  <2> QED BY <2>1, <2>2
<1>6. /\ proxy' \in Seq(ProxyRecord) /\ Len(proxy') = Len(proxy) /\ proxy'[p] = x
      /\ \A q \in 1..Len(proxy) : q # p => proxy'[q] = proxy[q]
  <2>1. proxy' = [proxy EXCEPT ![p] = x]
        BY <1>1
  <2> QED BY ONLY <1>2, <1>3, <1>5, <2>1, Replaced
<1>7. /\ outcome' \in [Plugins -> OutcomeRecord] /\ \A q \in Plugins : q # p => outcome'[q] = outcome[q]
      /\ outcome'[p].posted = outcome[p].posted /\ outcome'[p].cancelled = outcome[p].cancelled
      /\ outcome'[p].run = (IF ok THEN 0 ELSE outcome[p].run + 1)
      /\ outcome'[p].tripped = (IF ~ok /\ x.failures >= Threshold THEN now ELSE outcome[p].tripped)
  <2>r. PICK r : r = IF ok THEN 0 ELSE outcome[p].run + 1
      OBVIOUS
  <2>w. PICK w : w = IF ~ok /\ x.failures >= Threshold THEN now ELSE outcome[p].tripped
      OBVIOUS
  <2>o. PICK o : o = [outcome[p] EXCEPT !.run = r, !.tripped = w]
      OBVIOUS
  <2>1. outcome' = [outcome EXCEPT ![p] = o]
        BY <1>1, <1>3, <2>r, <2>w, <2>o
  <2>2. r \in Nat /\ w \in Nat \cup {-1}
    <3>1. r = 0 \/ r = outcome[p].run + 1
          BY <2>r
    <3>2. w = now \/ w = outcome[p].tripped
          BY <2>w
    <3> QED BY <1>3, <1>4, <3>1, <3>2
  <2>3. /\ o \in OutcomeRecord /\ o.posted = outcome[p].posted /\ o.cancelled = outcome[p].cancelled
        /\ o.run = r /\ o.tripped = w
        BY <1>3, <2>2, <2>o DEF OutcomeRecord
  <2>4. outcome' \in [Plugins -> OutcomeRecord] /\ outcome'[p] = o
        /\ \A q \in Plugins : q # p => outcome'[q] = outcome[q]
        BY ONLY <1>3, <2>1, <2>3
  <2> QED BY <2>3, <2>4, <2>r, <2>w
<1>8. Circuit(proxy[p], outcome[p]) /\ Counted(proxy[p], outcome[p], p)
      BY <1>2 DEF IInv, CallsSound
<1>9. Circuit(proxy[p], outcome[p])'
  <2>1. now' = now
        BY <1>1
  <2>2. CASE ok
    <3>1. /\ x.failures = 0 /\ outcome'[p].run = 0 /\ outcome'[p].tripped = outcome[p].tripped
          /\ x.open = proxy[p].open /\ x.opened_at = proxy[p].opened_at
          BY <1>5, <1>7, <2>2
    <3> QED BY <1>6, <1>8, <2>1, <3>1 DEF Circuit
  <2>3. CASE ~ok /\ ~(x.failures >= Threshold)
    <3>1. /\ x.failures = proxy[p].failures + 1 /\ outcome'[p].run = outcome[p].run + 1
          /\ outcome'[p].tripped = outcome[p].tripped
          BY <1>5, <1>7, <2>3
    <3>3. x.open = proxy[p].open /\ x.opened_at = proxy[p].opened_at
          BY <1>5, <2>3
    <3>2. x.failures <= outcome'[p].run
          BY <1>4, <1>8, <3>1 DEF Circuit
    <3> QED BY <1>6, <1>8, <2>1, <3>1, <3>2, <3>3 DEF Circuit
  <2>4. CASE ~ok /\ x.failures >= Threshold
    <3>1. /\ x.failures = proxy[p].failures + 1 /\ outcome'[p].run = outcome[p].run + 1
          /\ outcome'[p].tripped = now
          BY <1>5, <1>7, <2>4
    <3>2. x.failures <= outcome'[p].run
          BY <1>4, <1>8, <3>1 DEF Circuit
    <3>3. x.open = TRUE /\ x.opened_at = now
          BY <1>3, <1>4, <1>5, <2>4, <3>1
    <3> QED BY <1>6, <2>1, <3>1, <3>2, <3>3 DEF Circuit
  <2> QED BY <2>2, <2>3, <2>4
<1>10. Counted(proxy[p], outcome[p], p)'
  <2>1. /\ call' = [call EXCEPT ![c].phase = "done"] /\ p = call[c].plugin
        /\ "done" \in {"posting", "done"} /\ call[c].phase = "posting"
        BY <1>1, <1>p
  <2>2. /\ Cardinality(Posting(p)) \in Nat /\ Cardinality(Posting(p)') \in Nat
        /\ Cardinality(Posting(p)) = Cardinality(Posting(p)') + 1
        BY <2>1, PostingMoves
  <2>3. /\ x.calls = proxy[p].calls + 1
        /\ outcome'[p].posted = outcome[p].posted /\ outcome'[p].cancelled = outcome[p].cancelled
        BY <1>5, <1>7
  <2>4. outcome'[p].posted = x.calls + outcome'[p].cancelled + Cardinality(Posting(p)')
        BY <1>4, <1>8, <2>2, <2>3 DEF Counted
  <2>5. outcome'[p].run <= x.failed /\ x.failed <= x.calls
    <3>1. CASE ok
      <4>1. outcome'[p].run = 0 /\ x.failed = proxy[p].failed
            BY <1>5, <1>7, <3>1
      <4> QED BY <1>4, <1>8, <2>3, <4>1 DEF Counted
    <3>2. CASE ~ok
      <4>1. outcome'[p].run = outcome[p].run + 1 /\ x.failed = proxy[p].failed + 1
            BY <1>5, <1>7, <3>2
      <4> QED BY <1>4, <1>8, <2>3, <4>1 DEF Counted
    <3> QED BY <3>1, <3>2
  <2> QED BY <1>6, <2>4, <2>5 DEF Counted
<1>11. IInv'
  <2>1. proxy'[p].tenant = proxy[p].tenant
        BY <1>5, <1>6
  <2>2. /\ call' = [call EXCEPT ![c].phase = "done"] /\ "done" \in {"posting", "done"}
        /\ p = call[c].plugin /\ UNCHANGED <<scope, now, registry>>
        BY <1>1, <1>p
  <2> PICK ph : ph = "done"
      OBVIOUS
  <2>3. call' = [call EXCEPT ![c].phase = ph] /\ ph \in {"posting", "done"}
        BY <2>2
  <2> QED BY <1>2, <1>6, <1>7, <1>9, <1>10, <2>1, <2>2, <2>3, CallStepSound
<1>12. Quiet
  <2> SUFFICES ASSUME NEW q \in Plugins
               PROVE  outcome'[q].posted = outcome[q].posted /\ outcome[q].posted \in Nat
      BY DEF Quiet
  <2> QED BY <1>3, <1>7 DEF OutcomeRecord
<1>13. Trips
  <2> SUFFICES ASSUME NEW q \in 1..Len(proxy), ~proxy[q].open, proxy'[q].open
               PROVE  outcome'[q].run >= Threshold
      BY DEF Trips
  <2>1. q = p
        BY <1>6
  <2>2. ~ok /\ x.failures >= Threshold
        BY <1>5, <1>6, <2>1
  <2>3. x.failures = proxy[p].failures + 1 /\ outcome'[p].run = outcome[p].run + 1
        BY <1>5, <1>7, <2>2
  <2>4. proxy[p].failures <= outcome[p].run
        BY <1>8 DEF Circuit
  <2> QED BY <1>3, <1>4, <2>1, <2>2, <2>3, <2>4
<1> QED BY <1>11, <1>12, <1>13

\* A call that is cancelled is counted as such if its request was under way.
LEMMA CancelledSound ==
    ASSUME IInv, NEW c \in Calls, Cancelled(c)
    PROVE  IInv' /\ Quiet /\ Trips
<1> PICK p : p = call[c].plugin
    OBVIOUS
<1> PICK w : w = IF call[c].phase = "posting" THEN 1 ELSE 0
    OBVIOUS
<1>1. /\ call[c].phase \in {"routed", "posting"}
      /\ outcome' = IF call[c].phase = "posting" THEN [outcome EXCEPT ![p].cancelled = @ + 1] ELSE outcome
      /\ call' = [call EXCEPT ![c].phase = "done"]
      /\ UNCHANGED <<scope, now, registry, proxy>>
      BY DEF Cancelled, Finish
<1>2. p \in 1..Len(proxy)
      BY <1>1 DEF IInv, Made
<1>3. /\ proxy \in Seq(ProxyRecord) /\ p \in Plugins /\ proxy[p] \in ProxyRecord
      /\ outcome \in [Plugins -> OutcomeRecord] /\ outcome[p] \in OutcomeRecord
      BY <1>2, MadeAre DEF IInv, Types, CallTypes
<1>4. /\ proxy[p].calls \in Nat /\ outcome[p].posted \in Nat /\ outcome[p].cancelled \in Nat
      BY <1>3 DEF ProxyRecord, OutcomeRecord
<1>5. /\ outcome' \in [Plugins -> OutcomeRecord] /\ \A q \in Plugins : q # p => outcome'[q] = outcome[q]
      /\ outcome'[p].posted = outcome[p].posted
      /\ outcome'[p].cancelled = outcome[p].cancelled + w
      /\ outcome'[p].run = outcome[p].run /\ outcome'[p].tripped = outcome[p].tripped
  <2>1. CASE call[c].phase = "posting"
    <3> PICK k : k = outcome[p].cancelled + 1
        OBVIOUS
    <3> PICK o : o = [outcome[p] EXCEPT !.cancelled = k]
        OBVIOUS
    <3>1. outcome' = [outcome EXCEPT ![p] = o]
          BY <1>1, <1>3, <2>1
    <3>2. /\ o \in OutcomeRecord /\ o.posted = outcome[p].posted
          /\ o.cancelled = k
          /\ o.run = outcome[p].run /\ o.tripped = outcome[p].tripped
      <4>1. k \in Nat
            BY <1>4
      <4> QED BY <1>3, <4>1 DEF OutcomeRecord
    <3>3. outcome' \in [Plugins -> OutcomeRecord] /\ outcome'[p] = o
          /\ \A q \in Plugins : q # p => outcome'[q] = outcome[q]
          BY ONLY <1>3, <3>1, <3>2
    <3>4. w = 1
          BY <2>1
    <3> QED BY <3>2, <3>3, <3>4
  <2>2. CASE call[c].phase # "posting"
    <3>1. outcome' = outcome /\ w = 0
          BY <1>1, <2>2
    <3> QED BY <1>3, <1>4, <3>1
  <2> QED BY <2>1, <2>2
<1>6. Circuit(proxy[p], outcome[p]) /\ Counted(proxy[p], outcome[p], p)
      BY <1>2 DEF IInv, CallsSound
<1>7. Circuit(proxy[p], outcome[p])'
      BY <1>1, <1>5, <1>6 DEF Circuit
<1>8. Counted(proxy[p], outcome[p], p)'
  <2>1. /\ call' = [call EXCEPT ![c].phase = "done"] /\ p = call[c].plugin /\ "done" \in {"posting", "done"}
        BY <1>1
  <2>2. /\ Cardinality(Posting(p)) \in Nat /\ Cardinality(Posting(p)') \in Nat
        /\ call[c].phase = "posting" => Cardinality(Posting(p)) = Cardinality(Posting(p)') + 1
        /\ call[c].phase # "posting" => Cardinality(Posting(p)') = Cardinality(Posting(p))
        BY <2>1, PostingMoves
  <2>3. Cardinality(Posting(p)) = Cardinality(Posting(p)') + w /\ w \in Nat
    <3>1. CASE call[c].phase = "posting"
      <4>1. w = 1
            BY <3>1
      <4> QED BY <2>2, <3>1, <4>1
    <3>2. CASE call[c].phase # "posting"
      <4>1. w = 0
            BY <3>2
      <4> QED BY <2>2, <3>2, <4>1
    <3> QED BY <3>1, <3>2
  <2>4. /\ outcome[p].posted = proxy[p].calls + outcome[p].cancelled + Cardinality(Posting(p))
        /\ outcome[p].run <= proxy[p].failed /\ proxy[p].failed <= proxy[p].calls
        BY <1>6 DEF Counted
  <2>5. outcome[p].posted = proxy[p].calls + (outcome[p].cancelled + w) + Cardinality(Posting(p)')
        BY ONLY <1>4, <2>2, <2>3, <2>4
  <2>6. /\ outcome'[p].posted = proxy'[p].calls + outcome'[p].cancelled + Cardinality(Posting(p)')
        /\ outcome'[p].run <= proxy'[p].failed /\ proxy'[p].failed <= proxy'[p].calls
        BY <1>1, <1>5, <2>4, <2>5
  <2> QED BY <2>6 DEF Counted
<1>9. IInv'
  <2> PICK ph : ph = "done"
      OBVIOUS
  <2>1. /\ call' = [call EXCEPT ![c].phase = ph] /\ ph \in {"posting", "done"}
        /\ p = call[c].plugin /\ UNCHANGED <<scope, now, registry>>
        BY <1>1
  <2>2. /\ proxy' \in Seq(ProxyRecord) /\ Len(proxy') = Len(proxy)
        /\ \A q \in 1..Len(proxy) : q # p => proxy'[q] = proxy[q]
        /\ proxy'[p].tenant = proxy[p].tenant
        BY <1>1, <1>3
  <2> QED BY <1>2, <1>5, <1>7, <1>8, <2>1, <2>2, CallStepSound
<1>10. Quiet
  <2> SUFFICES ASSUME NEW q \in Plugins
               PROVE  outcome'[q].posted = outcome[q].posted /\ outcome[q].posted \in Nat
      BY DEF Quiet
  <2> QED BY <1>3, <1>5 DEF OutcomeRecord
<1>11. Trips
       BY <1>1 DEF Trips
<1> QED BY <1>9, <1>10, <1>11

\* Time closes no circuit and trips none.
LEMMA TickSound ==
    ASSUME IInv, Tick
    PROVE  IInv' /\ Quiet /\ Trips
<1>1. UNCHANGED <<scope, registry, proxy, call, outcome>> /\ now' = now + 1
      BY DEF Tick
<1>2. now \in Nat /\ now' \in Nat /\ now <= now'
      BY <1>1, MadeAre
<1>3. /\ CallTypes' /\ CallsSound'
      /\ \A c \in Calls : call'[c].phase \in {"routed", "posting"} => call'[c].plugin \in 1..Len(proxy')
      /\ \A p \in Plugins : p > Len(proxy') => outcome'[p] = NoOutcome
      BY <1>1, <1>2, CallsKept
<1>4. /\ RegistryTypes' /\ Indexed' /\ ServersSound' /\ \A n \in Names : Reachable(n)'
      /\ \A n \in Names : plugins'[n] # None => plugins'[n] \in 1..Len(proxy')
      BY <1>1, RegistryKept
<1>5. Types'
      BY <1>1, <1>2, <1>3, <1>4 DEF IInv, Types
<1>6. Made'
      BY <1>3, <1>4 DEF Made
<1>7. IInv'
      BY <1>3, <1>4, <1>5, <1>6 DEF IInv
<1>8. Quiet
  <2> SUFFICES ASSUME NEW p \in Plugins
               PROVE  outcome'[p].posted = outcome[p].posted /\ outcome[p].posted \in Nat
      BY DEF Quiet
  <2> QED BY <1>1, MadeAre DEF OutcomeRecord
<1>9. Trips
      BY <1>1 DEF Trips
<1> QED BY <1>7, <1>8, <1>9

\* A step of the registry or of the hub sends no request and opens no circuit.
LEMMA HubIsQuiet ==
    ASSUME IInv, UNCHANGED outcome, \A p \in 1..Len(proxy) : proxy'[p] = proxy[p]
    PROVE  Quiet /\ Trips
<1>1. Quiet
  <2> SUFFICES ASSUME NEW p \in Plugins
               PROVE  outcome'[p].posted = outcome[p].posted /\ outcome[p].posted \in Nat
      BY DEF Quiet
  <2> QED BY MadeAre DEF OutcomeRecord
<1>2. Trips
      BY DEF Trips
<1> QED BY <1>1, <1>2

\* Plugins that were made are not changed when another is registered.
LEMMA RegisterKeeps ==
    ASSUME IInv, NEW t \in Tenants, NEW n \in Names, NEW d, Register(t, n, d)
    PROVE  UNCHANGED outcome /\ \A p \in 1..Len(proxy) : proxy'[p] = proxy[p]
<1>1. /\ UNCHANGED outcome
      /\ proxy' = proxy \/ proxy' = Append(proxy, NewPlugin(n, t))
      BY DEF Register
<1>2. NewPlugin(n, t) \in ProxyRecord
      BY DEF NewPlugin, ProxyRecord
<1>3. proxy \in Seq(ProxyRecord)
      BY DEF IInv, Types
<1>4. CASE proxy' = Append(proxy, NewPlugin(n, t))
      BY <1>1, <1>2, <1>3, <1>4, AppendProperties
<1> QED BY <1>1, <1>4

\* With no plugin, no call and an empty registry the invariant holds.
LEMMA InitSound == Init => IInv
<1> SUFFICES ASSUME Init PROVE IInv
    OBVIOUS
<1>1. /\ scope \in Scopes /\ now = 0 /\ discovered = FALSE
      /\ tools = [n \in Names |-> Nobody] /\ plugins = [n \in Names |-> None]
      /\ tenant_plugins = [t \in Tenants |-> {}] /\ adapters = [t \in Tenants |-> {}]
      /\ servers = [t \in Tenants |-> [s \in Servers |-> [tools |-> {}, up |-> FALSE]]]
      /\ proxy = << >> /\ contested = {}
      /\ call = [c \in Calls |-> [phase |-> "idle", plugin |-> None]]
      /\ outcome = [p \in Plugins |-> NoOutcome]
      BY DEF Init, NoOutcome
<1>2. proxy \in Seq(ProxyRecord) /\ Len(proxy) = 0 /\ MaxPlugins \in Nat
      BY <1>1, HubAssumption, EmptySeq
<1>3. RegistryTypes
      BY <1>1, OwnersDiffer DEF RegistryTypes
<1>4. CallTypes
      BY <1>1 DEF CallTypes, OutcomeRecord, NoOutcome
<1>5. Types
      BY <1>1, <1>2, <1>3, <1>4 DEF Types
<1>6. Made
      BY <1>1 DEF Made
<1>7. Indexed
      BY <1>1, OwnersDiffer DEF Indexed
<1>8. \A t \in Tenants, s \in Servers : Listed(t, s) = {} /\ Up(t, s) = FALSE
      BY <1>1 DEF Listed, Up
<1>9. \A n \in Names : Reachable(n)
      BY <1>1, <1>8 DEF Reachable, Claimed
<1>10. ServersSound
       BY <1>1, <1>8 DEF ServersSound, AdaptersFollowServers
<1>11. CallsSound
       BY <1>2 DEF CallsSound
<1> QED BY <1>5, <1>6, <1>7, <1>9, <1>10, <1>11 DEF IInv

\* Every step of the hub, of a call or of time keeps the invariant.
LEMMA StepSound == IInv /\ Next => IInv' /\ Quiet /\ Trips
<1> SUFFICES ASSUME IInv, Next PROVE IInv' /\ Quiet /\ Trips
    OBVIOUS
<1>1. /\ scope.tenants \subseteq Tenants /\ scope.names \subseteq Names
      /\ scope.servers \subseteq Servers /\ 1..scope.calls \subseteq Calls
      BY InScope DEF IInv, Types
<1>2. CASE Discover
  <2>1. UNCHANGED outcome /\ \A p \in 1..Len(proxy) : proxy'[p] = proxy[p]
        BY <1>2 DEF Discover
  <2> QED BY <1>2, <2>1, DiscoverSound, HubIsQuiet
<1>3. CASE Tick
      BY <1>3, TickSound
<1>4. ASSUME NEW t \in scope.tenants, NEW n \in scope.names, NEW d, Register(t, n, d)
      PROVE  IInv' /\ Quiet /\ Trips
  <2>1. t \in Tenants /\ n \in Names
        BY <1>1
  <2> QED BY <1>4, <2>1, RegisterSound, RegisterKeeps, HubIsQuiet
<1>5. ASSUME NEW t \in scope.tenants, NEW n \in scope.names, Unregister(t, n)
      PROVE  IInv' /\ Quiet /\ Trips
  <2>1. UNCHANGED outcome /\ \A p \in 1..Len(proxy) : proxy'[p] = proxy[p]
        BY <1>5 DEF Unregister
  <2> QED BY <1>1, <1>5, <2>1, UnregisterSound, HubIsQuiet
<1>6. ASSUME NEW t \in scope.tenants, NEW s \in scope.servers, NEW L \in SUBSET (Covered[s] \cap scope.names),
             MountTools(t, s, L)
      PROVE  IInv' /\ Quiet /\ Trips
  <2>1. UNCHANGED outcome /\ \A p \in 1..Len(proxy) : proxy'[p] = proxy[p]
        BY <1>6 DEF MountTools
  <2>2. t \in Tenants /\ s \in Servers /\ L \subseteq Covered[s]
        BY <1>1, <1>6
  <2>3. IInv'
        BY <1>6, <2>2, MountToolsSound
  <2> QED BY <2>1, <2>3, HubIsQuiet
<1>7. ASSUME NEW t \in scope.tenants, NEW s \in scope.servers, NEW ends \in BOOLEAN, UnmountTools(t, s, ends)
      PROVE  IInv' /\ Quiet /\ Trips
  <2>1. UNCHANGED outcome /\ \A p \in 1..Len(proxy) : proxy'[p] = proxy[p]
        BY <1>7 DEF UnmountTools
  <2> QED BY <1>1, <1>7, <2>1, UnmountToolsSound, HubIsQuiet
<1>8. ASSUME NEW c \in 1..scope.calls, NEW n \in scope.names, Route(c, n)
      PROVE  IInv' /\ Quiet /\ Trips
  <2>1. UNCHANGED outcome /\ \A p \in 1..Len(proxy) : proxy'[p] = proxy[p]
        BY <1>8 DEF Route
  <2> QED BY <1>1, <1>8, <2>1, RouteSound, HubIsQuiet
<1>9. ASSUME NEW c \in 1..scope.calls, NEW ok \in BOOLEAN, Admit(c, ok)
      PROVE  IInv' /\ Quiet /\ Trips
      BY <1>1, <1>9, AdmitSound
<1>10. ASSUME NEW c \in 1..scope.calls, NEW ok \in BOOLEAN, Answered(c, ok)
       PROVE  IInv' /\ Quiet /\ Trips
       BY <1>1, <1>10, AnsweredSound
<1>11. ASSUME NEW c \in 1..scope.calls, Cancelled(c)
       PROVE  IInv' /\ Quiet /\ Trips
       BY <1>1, <1>11, CancelledSound
<1>12. ASSUME NEW t \in scope.tenants, HubStep(t)
       PROVE  IInv' /\ Quiet /\ Trips
       BY <1>4, <1>5, <1>6, <1>7, <1>12 DEF HubStep
<1>13. ASSUME NEW c \in 1..scope.calls, CallStep(c)
       PROVE  IInv' /\ Quiet /\ Trips
       BY <1>8, <1>9, <1>10, <1>11, <1>13 DEF CallStep
<1> QED BY <1>2, <1>3, <1>12, <1>13 DEF Next

\* A step that changes nothing keeps it.
LEMMA StutterSound == IInv /\ UNCHANGED vars => IInv' /\ Quiet /\ Trips
<1> SUFFICES ASSUME IInv, UNCHANGED vars PROVE IInv' /\ Quiet /\ Trips
    OBVIOUS
<1>1. UNCHANGED <<scope, now, registry, proxy, call, outcome>>
      BY DEF vars
<1>2. UNCHANGED <<discovered, tools, plugins, tenant_plugins, adapters, servers, contested>>
      BY <1>1 DEF registry
<1>3. IInv'
  <2>1. /\ RegistryTypes' /\ Indexed' /\ ServersSound' /\ \A n \in Names : Reachable(n)'
        /\ \A n \in Names : plugins'[n] # None => plugins'[n] \in 1..Len(proxy')
        BY <1>1, RegistryKept
  <2> QED BY <1>1, <2>1, RegistryStep
<1>4. Quiet /\ Trips
      BY <1>1, HubIsQuiet
<1> QED BY <1>3, <1>4

-----------------------------------------------------------------------------
(* The limits on registrations and calls.                                  *)

\* What an entry with the count k, a window that began at f and a block until b
\* has to do with the times a at which registrations were let through, when it
\* is t.  It counts the last k of them; those before are older than its window,
\* and those one more window of registrations before it are more than a window
\* ago for whoever comes next.
Window(k, f, b, a, t) ==
    /\ k <= Len(a) /\ f <= t
    /\ \A i \in 1..Len(a) : a[i] <= t
    /\ k = 0 => \A i \in 1..Len(a) : a[i] + Minute <= b /\ (a[i] <= f \/ f + Minute < b)
    /\ k > 0 => \A i \in 1..Len(a) - k : a[i] <= f /\ a[i] < t
    /\ \A i \in Len(a) - k + 1..Len(a) : a[i] <= f + Minute
    /\ \A i \in 1..Len(a) - k - MaxRegistrations : a[i] + Minute < t \/ a[i] + Minute < b
    /\ \A i \in 1..Len(a) - 2 * MaxRegistrations : a[i] + Minute < a[i + 2 * MaxRegistrations]

\* The same of an entry that has room for one more, of which no block is left.
Room(k, f, a, t) ==
    /\ k <= Len(a) /\ f <= t /\ t <= f + Minute
    /\ \A i \in 1..Len(a) - k : a[i] <= f /\ a[i] < t
    /\ \A i \in Len(a) - k + 1..Len(a) : a[i] <= f + Minute
    /\ \A i \in 1..Len(a) - k - MaxRegistrations : a[i] + Minute < t
    /\ \A i \in 1..Len(a) : a[i] <= t
    /\ \A i \in 1..Len(a) - 2 * MaxRegistrations : a[i] + Minute < a[i + 2 * MaxRegistrations]

\* What check_rate_limit answers, and what it leaves of the entry e, which is x
\* when it is looked up and w when its window is that of now.
Limiting(e, x, w, l, max) ==
    /\ x \in Entries(max) /\ w \in Entries(max) /\ l.entry \in Entries(max)
    /\ e # NoEntry => x = e
    /\ e = NoEntry => x = [count |-> 0, first |-> now, blocked |-> 0]
    /\ now - x.first > Minute => w = [x EXCEPT !.count = 0, !.first = now]
    /\ ~(now - x.first > Minute) => w = x
    /\ \/ ~l.ok /\ l.entry = x
       \/ /\ ~l.ok /\ now >= x.blocked /\ w.count >= max
          /\ l.entry = [w EXCEPT !.count = 0, !.blocked = now + Minute]
       \/ /\ l.ok /\ now >= x.blocked /\ w.count < max
          /\ l.entry = [w EXCEPT !.count = @ + 1]

LEMMA RateLimitDoes ==
    ASSUME NEW max \in Nat \ {0}, NEW e \in Entries(max), now \in 0..MaxTime,
           NEW x, x = Entry(e), NEW w, w = Windowed(x), NEW l, l = RateLimit(e, max)
    PROVE  Limiting(e, x, w, l, max)
<1>1. MaxTime \in Nat /\ Minute \in Nat \ {0}
      BY HubAssumption
<1>2. /\ x \in Entries(max)
      /\ e # NoEntry => x = e
      /\ e = NoEntry => x = [count |-> 0, first |-> now, blocked |-> 0]
  <2>1. CASE e = NoEntry
        BY <1>1, <2>1 DEF Entry, Entries
  <2>2. CASE e # NoEntry
        BY <2>2 DEF Entry
  <2> QED BY <2>1, <2>2
<1>3. /\ w \in Entries(max)
      /\ now - x.first > Minute => w = [x EXCEPT !.count = 0, !.first = now]
      /\ ~(now - x.first > Minute) => w = x
  <2>1. CASE now - x.first > Minute
    <3>1. w = [x EXCEPT !.count = 0, !.first = now]
          BY <2>1 DEF Windowed
    <3>2. 0 \in 0..max /\ now \in -1..MaxTime
          BY <1>1
    <3>3. w \in Entries(max)
          BY ONLY <1>2, <3>1, <3>2 DEF Entries
    <3> QED BY <2>1, <3>1, <3>3
  <2>2. CASE ~(now - x.first > Minute)
        BY <1>2, <2>2 DEF Windowed
  <2> QED BY <2>1, <2>2
<1>t. now \in Int /\ x.blocked \in Int /\ w.count \in Int /\ max \in Int
      BY <1>1, <1>2, <1>3 DEF Entries
<1>4. CASE now < x.blocked
  <2>1. ~(now >= x.blocked)
        BY ONLY <1>t, <1>4
  <2>2. l = [ok |-> FALSE, entry |-> x]
        BY <1>4, <2>1 DEF RateLimit
  <2>3. ~l.ok /\ l.entry = x
        BY ONLY <2>2
  <2>4. l.entry \in Entries(max)
        BY ONLY <1>2, <2>3
  <2> QED BY ONLY <1>2, <1>3, <2>3, <2>4 DEF Limiting
<1>5. CASE now >= x.blocked /\ w.count >= max
  <2>1. ~(now < x.blocked) /\ Reached(w, max)
        BY ONLY <1>t, <1>5 DEF Reached
  <2>2. l = [ok |-> FALSE, entry |-> [w EXCEPT !.count = 0, !.blocked = now + Minute]]
        BY <1>5, <2>1 DEF RateLimit
  <2>3. 0 \in 0..max /\ now + Minute \in 0..MaxTime + Minute
        BY <1>1
  <2>4. l.entry \in Entries(max)
        BY ONLY <1>3, <2>2, <2>3 DEF Entries
  <2>5. ~l.ok /\ l.entry = [w EXCEPT !.count = 0, !.blocked = now + Minute]
        BY ONLY <2>2
  <2> QED BY ONLY <1>2, <1>3, <1>5, <2>4, <2>5 DEF Limiting
<1>6. CASE now >= x.blocked /\ w.count < max
  <2>1. ~(now < x.blocked) /\ ~Reached(w, max) /\ w.count + 1 \in 0..max
        BY <1>t, <1>3, <1>6 DEF Reached, Entries
  <2>2. l = [ok |-> TRUE, entry |-> [w EXCEPT !.count = @ + 1]]
        BY <2>1 DEF RateLimit
  <2>3. l.entry \in Entries(max)
        BY ONLY <1>3, <2>1, <2>2 DEF Entries
  <2>4. l.ok /\ l.entry = [w EXCEPT !.count = @ + 1]
        BY ONLY <2>2
  <2> QED BY ONLY <1>2, <1>3, <1>6, <2>3, <2>4 DEF Limiting
<1> QED BY ONLY <1>t, <1>4, <1>5, <1>6

\* Time takes nothing from an entry.
LEMMA WindowAges ==
    ASSUME NEW k \in Nat, NEW f \in Int, NEW b \in Nat, NEW a \in Seq(0..MaxTime),
           NEW t \in Nat, NEW u \in Nat, t <= u, Window(k, f, b, a, t)
    PROVE  Window(k, f, b, a, u)
<1>1. MaxTime \in Nat /\ Minute \in Nat \ {0} /\ MaxRegistrations \in Nat \ {0}
      BY HubAssumption
<1>2. Len(a) \in Nat /\ \A j \in 1..Len(a) : a[j] \in Nat
      BY <1>1
<1>3. \A j \in 1..Len(a) : a[j] <= u
      BY <1>2 DEF Window
<1>4. k > 0 => \A j \in 1..Len(a) - k : a[j] <= f /\ a[j] < u
  <2> SUFFICES ASSUME k > 0, NEW j \in 1..Len(a) - k PROVE a[j] <= f /\ a[j] < u
      OBVIOUS
  <2>1. a[j] <= f /\ a[j] < t /\ a[j] \in Nat
        BY <1>2 DEF Window
  <2> QED BY <2>1
<1>5. \A j \in 1..Len(a) - k - MaxRegistrations : a[j] + Minute < u \/ a[j] + Minute < b
  <2> TAKE j \in 1..Len(a) - k - MaxRegistrations
  <2>1. a[j] + Minute < t \/ a[j] + Minute < b
        BY DEF Window
  <2>2. j \in 1..Len(a)
        BY ONLY <1>1, <1>2, k \in Nat, j \in 1..Len(a) - k - MaxRegistrations
  <2>x. PICK x \in Nat : x = a[j]
        BY <1>2, <2>2
  <2>3. x + Minute < t => x + Minute < u
        BY ONLY <1>1, t \in Nat, u \in Nat, t <= u, x \in Nat
  <2> QED BY ONLY <2>1, <2>x, <2>3
<1>6. f <= u
      BY DEF Window
<1> QED BY <1>3, <1>4, <1>5, <1>6 DEF Window

\* A request is refused, and blocks for a window from now on.
LEMMA WindowBlocks ==
    ASSUME NEW f \in Int, NEW b \in Nat, NEW a \in Seq(0..MaxTime), NEW t \in Nat,
           Window(MaxRegistrations, f, b, a, t)
    PROVE  Window(0, f, t + Minute, a, t)
<1>1. MaxTime \in Nat /\ Minute \in Nat \ {0} /\ MaxRegistrations \in Nat \ {0}
      BY HubAssumption
<1>n. PICK n \in Nat : n = Len(a)
      OBVIOUS
<1>2. \A i \in 1..n : a[i] \in Nat /\ a[i] <= t
      BY <1>1, <1>n DEF Window
<1>3. f <= t /\ \A i \in 1..n - MaxRegistrations : a[i] < t
      BY <1>1, <1>n DEF Window
<1>4. \A i \in 1..n : a[i] + Minute <= t + Minute /\ (a[i] <= f \/ f + Minute < t + Minute)
  <2> TAKE i \in 1..n
  <2>1. a[i] \in Nat /\ a[i] <= t
        BY <1>2
  <2> QED BY ONLY <1>1, <1>3, <2>1, f \in Int, t \in Nat
<1>5. \A i \in 1..n - 0 - MaxRegistrations : a[i] + Minute < t \/ a[i] + Minute < t + Minute
  <2> TAKE i \in 1..n - 0 - MaxRegistrations
  <2>1. i \in 1..n - MaxRegistrations /\ i \in 1..n
        BY ONLY <1>1, <1>n, i \in 1..n - 0 - MaxRegistrations
  <2>2. a[i] \in Nat /\ a[i] < t
        BY ONLY <1>2, <1>3, <2>1
  <2> QED BY ONLY <1>1, <2>2, t \in Nat
<1>6. \A i \in n - 0 + 1..n : a[i] <= f + Minute
      BY ONLY <1>n
<1>7. \A i \in 1..n - 2 * MaxRegistrations : a[i] + Minute < a[i + 2 * MaxRegistrations]
      BY <1>n DEF Window
<1>8. 0 <= n /\ f <= t /\ \A i \in 1..n : a[i] <= t
      BY ONLY <1>n, <1>2, <1>3
<1> QED BY ONLY <1>n, <1>4, <1>5, <1>6, <1>7, <1>8 DEF Window

\* A window is over: what was let through is older than it.
LEMMA WindowExpires ==
    ASSUME NEW k \in 0..MaxRegistrations, NEW f \in Int, NEW b \in Nat,
           NEW a \in Seq(0..MaxTime), NEW t \in Nat,
           Window(k, f, b, a, t), b <= t, t - f > Minute
    PROVE  Room(0, t, a, t)
<1>1. /\ MaxTime \in Nat /\ Minute \in Nat \ {0} /\ MaxRegistrations \in Nat \ {0}
      /\ k \in Nat /\ k <= MaxRegistrations /\ f \in Int /\ b \in Nat /\ t \in Nat
      /\ b <= t /\ t - f > Minute
      BY HubAssumption
<1>n. PICK n \in Nat : n = Len(a)
      OBVIOUS
<1>2. \A i \in 1..n : a[i] \in Nat
      BY <1>1, <1>n
<1>3. /\ k = 0 => \A i \in 1..n : a[i] + Minute <= b
      /\ k > 0 => \A i \in 1..n - k : a[i] <= f
      /\ \A i \in n - k + 1..n : a[i] <= f + Minute
      /\ \A i \in 1..n - k - MaxRegistrations : a[i] + Minute < t \/ a[i] + Minute < b
      BY <1>n DEF Window
<1>4. /\ \A i \in 1..n - 2 * MaxRegistrations : a[i] + Minute < a[i + 2 * MaxRegistrations]
      /\ \A i \in 1..n : a[i] <= t
      BY <1>n DEF Window
<1>5. \A i \in 1..n : a[i] < t
  <2> TAKE i \in 1..n
  <2>0. i \in 1..n /\ a[i] \in Nat
        BY <1>2
  <2>1. CASE k = 0
    <3>1. a[i] + Minute <= b
          BY ONLY <1>3, <2>0, <2>1
    <3> QED BY ONLY <1>1, <2>0, <3>1
  <2>2. CASE k > 0 /\ i \in 1..n - k
    <3>1. a[i] <= f
          BY ONLY <1>3, <2>2
    <3> QED BY ONLY <1>1, <2>0, <3>1
  <2>3. CASE i \in n - k + 1..n
    <3>1. a[i] <= f + Minute
          BY ONLY <1>3, <2>3
    <3> QED BY ONLY <1>1, <2>0, <3>1
  <2> QED BY ONLY <1>1, <1>n, <2>0, <2>1, <2>2, <2>3
<1>6. \A i \in 1..n - 0 - MaxRegistrations : a[i] + Minute < t
  <2> TAKE i \in 1..n - 0 - MaxRegistrations
  <2>0. i \in 1..n - MaxRegistrations /\ i \in 1..n - k /\ i \in 1..n
        BY ONLY <1>1, <1>n, i \in 1..n - 0 - MaxRegistrations
  <2>1. a[i] \in Nat
        BY ONLY <1>2, <2>0
  <2>2. CASE k = 0
    <3>1. a[i] + Minute < t \/ a[i] + Minute < b
          BY ONLY <1>3, <2>0, <2>2, <1>n, <1>1
    <3> QED BY ONLY <1>1, <2>1, <3>1
  <2>3. CASE k > 0
    <3>1. a[i] <= f
          BY ONLY <1>3, <2>0, <2>3
    <3> QED BY ONLY <1>1, <2>1, <3>1
  <2> QED BY ONLY <1>1, <2>2, <2>3
<1>7. \A i \in 1..n - 0 : a[i] <= t /\ a[i] < t
      BY ONLY <1>4, <1>5, <1>n
<1>8. (\A i \in n - 0 + 1..n : a[i] <= t + Minute) /\ 0 <= n /\ t <= t /\ t <= t + Minute
      BY ONLY <1>n, <1>1
<1> QED BY ONLY <1>n, <1>4, <1>6, <1>7, <1>8 DEF Room

\* A window goes on, and the entry is not full.
LEMMA WindowGoesOn ==
    ASSUME NEW k \in 0..MaxRegistrations, NEW f \in Int, NEW b \in Nat,
           NEW a \in Seq(0..MaxTime), NEW t \in Nat,
           Window(k, f, b, a, t), b <= t, t - f <= Minute
    PROVE  Room(k, f, a, t)
<1>1. /\ MaxTime \in Nat /\ Minute \in Nat \ {0} /\ MaxRegistrations \in Nat \ {0}
      /\ k \in Nat /\ f \in Int /\ b \in Nat /\ t \in Nat /\ b <= t /\ t - f <= Minute
      BY HubAssumption
<1>n. PICK n \in Nat : n = Len(a)
      OBVIOUS
<1>2. \A i \in 1..n : a[i] \in Nat
      BY <1>1, <1>n
<1>3. /\ k = 0 => \A i \in 1..n : a[i] + Minute <= b /\ (a[i] <= f \/ f + Minute < b)
      /\ k > 0 => \A i \in 1..n - k : a[i] <= f /\ a[i] < t
      /\ \A i \in 1..n - k - MaxRegistrations : a[i] + Minute < t \/ a[i] + Minute < b
      BY <1>n DEF Window
<1>4. /\ k <= n /\ f <= t /\ \A i \in n - k + 1..n : a[i] <= f + Minute
      /\ \A i \in 1..n - 2 * MaxRegistrations : a[i] + Minute < a[i + 2 * MaxRegistrations]
      /\ \A i \in 1..n : a[i] <= t
      BY <1>n DEF Window
<1>5. \A i \in 1..n - k : a[i] <= f /\ a[i] < t
  <2>1. CASE k = 0
    <3> TAKE i \in 1..n - k
    <3>1. i \in 1..n
          BY ONLY <1>n, <2>1, i \in 1..n - k
    <3>2. a[i] \in Nat /\ a[i] + Minute <= b /\ (a[i] <= f \/ f + Minute < b)
          BY ONLY <1>2, <1>3, <2>1, <3>1
    <3> QED BY ONLY <1>1, <3>2
  <2>2. CASE k > 0
        BY ONLY <1>3, <2>2
  <2> QED BY ONLY <1>1, <2>1, <2>2
<1>6. \A i \in 1..n - k - MaxRegistrations : a[i] + Minute < t
  <2> TAKE i \in 1..n - k - MaxRegistrations
  <2>1. i \in 1..n
        BY ONLY <1>1, <1>n, i \in 1..n - k - MaxRegistrations
  <2>2. a[i] \in Nat /\ (a[i] + Minute < t \/ a[i] + Minute < b)
        BY ONLY <1>2, <1>3, <2>1, i \in 1..n - k - MaxRegistrations
  <2> QED BY ONLY <1>1, <2>2
<1>7. t <= f + Minute
      BY ONLY <1>1
<1> QED BY ONLY <1>n, <1>4, <1>5, <1>6, <1>7 DEF Room

\* A registration is let through: the one 2 * MaxRegistrations before it is more
\* than a window ago.
LEMMA RoomForOne ==
    ASSUME NEW k \in Nat, NEW f \in Int, NEW b \in Nat, NEW a \in Seq(0..MaxTime),
           NEW t \in 0..MaxTime, Room(k, f, a, t), k < MaxRegistrations
    PROVE  Window(k + 1, f, b, Append(a, t), t)
<1>1. /\ MaxTime \in Nat /\ Minute \in Nat \ {0} /\ MaxRegistrations \in Nat \ {0}
      /\ k \in Nat /\ f \in Int /\ t \in Nat /\ k < MaxRegistrations
      BY HubAssumption
<1>n. PICK n \in Nat : n = Len(a)
      OBVIOUS
<1>p. PICK p : p = Append(a, t)
      OBVIOUS
<1>2. \A i \in 1..n : a[i] \in Nat
      BY <1>1, <1>n
<1>3. Len(p) = n + 1 /\ p[n + 1] = t /\ \A i \in 1..n : p[i] = a[i]
      BY <1>n, <1>p
<1>4. /\ k <= n /\ f <= t /\ t <= f + Minute
      /\ \A i \in 1..n - k : a[i] <= f /\ a[i] < t
      /\ \A i \in n - k + 1..n : a[i] <= f + Minute
      /\ \A i \in 1..n - k - MaxRegistrations : a[i] + Minute < t
      /\ \A i \in 1..n : a[i] <= t
      /\ \A i \in 1..n - 2 * MaxRegistrations : a[i] + Minute < a[i + 2 * MaxRegistrations]
      BY <1>n DEF Room
<1>5. k + 1 <= n + 1 /\ (k + 1 = 0 => FALSE)
      BY ONLY <1>1, <1>n, <1>4
<1>6. \A i \in 1..n + 1 : p[i] <= t
  <2> TAKE i \in 1..n + 1
  <2>1. CASE i = n + 1
        BY ONLY <1>1, <1>3, <2>1
  <2>2. CASE i \in 1..n
        BY ONLY <1>3, <1>4, <2>2
  <2> QED BY ONLY <1>n, <2>1, <2>2, i \in 1..n + 1
<1>7. \A i \in 1..(n + 1) - (k + 1) : p[i] <= f /\ p[i] < t
  <2> TAKE i \in 1..(n + 1) - (k + 1)
  <2>1. i \in 1..n - k /\ i \in 1..n
        BY ONLY <1>1, <1>n, i \in 1..(n + 1) - (k + 1)
  <2> QED BY ONLY <1>3, <1>4, <2>1
<1>8. \A i \in (n + 1) - (k + 1) + 1..n + 1 : p[i] <= f + Minute
  <2> TAKE i \in (n + 1) - (k + 1) + 1..n + 1
  <2>1. CASE i = n + 1
        BY ONLY <1>1, <1>3, <1>4, <2>1
  <2>2. CASE i # n + 1
    <3>1. i \in n - k + 1..n /\ i \in 1..n
          BY ONLY <1>1, <1>n, <1>4, <2>2, i \in (n + 1) - (k + 1) + 1..n + 1
    <3> QED BY ONLY <1>3, <1>4, <3>1
  <2> QED BY ONLY <2>1, <2>2
<1>9. \A i \in 1..(n + 1) - (k + 1) - MaxRegistrations : p[i] + Minute < t \/ p[i] + Minute < b
  <2> TAKE i \in 1..(n + 1) - (k + 1) - MaxRegistrations
  <2>1. i \in 1..n - k - MaxRegistrations /\ i \in 1..n
        BY ONLY <1>1, <1>n, i \in 1..(n + 1) - (k + 1) - MaxRegistrations
  <2> QED BY ONLY <1>3, <1>4, <2>1
<1>10. \A i \in 1..(n + 1) - 2 * MaxRegistrations : p[i] + Minute < p[i + 2 * MaxRegistrations]
  <2> TAKE i \in 1..(n + 1) - 2 * MaxRegistrations
  <2>1. CASE i + 2 * MaxRegistrations = n + 1
    <3>1. i \in 1..n - k - MaxRegistrations /\ i \in 1..n
          BY ONLY <1>1, <1>n, <2>1, i \in 1..(n + 1) - 2 * MaxRegistrations
    <3>2. p[i] + Minute < t
          BY ONLY <1>3, <1>4, <3>1
    <3> QED BY ONLY <1>3, <2>1, <3>2
  <2>2. CASE i + 2 * MaxRegistrations # n + 1
    <3>1. i \in 1..n - 2 * MaxRegistrations /\ i \in 1..n /\ i + 2 * MaxRegistrations \in 1..n
          BY ONLY <1>1, <1>n, <2>2, i \in 1..(n + 1) - 2 * MaxRegistrations
    <3> QED BY ONLY <1>3, <1>4, <3>1
  <2> QED BY ONLY <2>1, <2>2
<1>11. Window(k + 1, f, b, p, t)
       BY ONLY <1>3, <1>4, <1>5, <1>6, <1>7, <1>8, <1>9, <1>10 DEF Window
<1> QED BY ONLY <1>11, <1>p

\* What the limits on registrations and calls have let through, when it was
\* stamped, and how many requests were sent: the types of the counters, and what
\* bounds them.
Limited ==
    /\ now \in 0..MaxTime
    /\ registrations \in [Tenants -> Entries(MaxRegistrations)]
    /\ executions \in [Names -> Entries(MaxExecutions)]
    /\ admitted \in [Tenants -> Seq(0..MaxTime)]
    /\ \A t \in Tenants :
          /\ registrations[t] = NoEntry => admitted[t] = << >>
          /\ Window(registrations[t].count, registrations[t].first, registrations[t].blocked,
                    admitted[t], now)

Stamped ==
    /\ \A p \in 1..Len(proxy) : proxy[p].opened_at <= now
    /\ \A p \in Plugins : outcome[p].tripped <= now

\* Calls of a plugin for which a request was sent, or that ended before it.
Sent(p) == {c \in Calls : call[c].phase \in {"posting", "done"} /\ call[c].plugin = p}

SentOnce == \A p \in Plugins : outcome[p].posted <= Cardinality(Sent(p))

Bounds == Limited /\ Stamped /\ SentOnce

\* check_rate_limit for the registrations of a tenant.
LEMMA WindowSound ==
    ASSUME now \in 0..MaxTime, NEW e \in Entries(MaxRegistrations),
           NEW l, l = RateLimit(e, MaxRegistrations), NEW a \in Seq(0..MaxTime),
           e = NoEntry => a = << >>, Window(e.count, e.first, e.blocked, a, now)
    PROVE  /\ l.entry \in Entries(MaxRegistrations) /\ l.entry # NoEntry
           /\ l.ok => Window(l.entry.count, l.entry.first, l.entry.blocked, Append(a, now), now)
           /\ ~l.ok => Window(l.entry.count, l.entry.first, l.entry.blocked, a, now)
<1>1. /\ MaxTime \in Nat /\ Minute \in Nat \ {0} /\ MaxRegistrations \in Nat \ {0}
      /\ now \in Nat
      BY HubAssumption
<1>x. PICK x : x = Entry(e)
      OBVIOUS
<1>w. PICK w : w = Windowed(x)
      OBVIOUS
<1>2. /\ x \in Entries(MaxRegistrations) /\ w \in Entries(MaxRegistrations)
      /\ l.entry \in Entries(MaxRegistrations)
      /\ e # NoEntry => x = e
      /\ e = NoEntry => x = [count |-> 0, first |-> now, blocked |-> 0]
      /\ now - x.first > Minute => w = [x EXCEPT !.count = 0, !.first = now]
      /\ ~(now - x.first > Minute) => w = x
      /\ \/ ~l.ok /\ l.entry = x
         \/ /\ ~l.ok /\ now >= x.blocked /\ w.count >= MaxRegistrations
            /\ l.entry = [w EXCEPT !.count = 0, !.blocked = now + Minute]
         \/ /\ l.ok /\ now >= x.blocked /\ w.count < MaxRegistrations
            /\ l.entry = [w EXCEPT !.count = @ + 1]
  <2>1. Limiting(e, x, w, l, MaxRegistrations)
        BY <1>1, <1>x, <1>w, RateLimitDoes
  <2> QED BY ONLY <2>1 DEF Limiting
<1>3. /\ x.count \in Nat /\ x.count \in 0..MaxRegistrations /\ x.first \in Int /\ x.blocked \in Nat
      /\ w.count \in Nat /\ w.count \in 0..MaxRegistrations /\ w.first \in Int /\ w.blocked \in Nat
      BY ONLY <1>1, <1>2 DEF Entries
<1>4. Window(x.count, x.first, x.blocked, a, now) /\ x # NoEntry
  <2>1. CASE e = NoEntry
    <3>1. x.count = 0 /\ x.first = now /\ x.blocked = 0 /\ a = << >> /\ Len(a) = 0
          BY <1>2, <2>1
    <3>2. Window(0, now, 0, a, now)
          BY ONLY <1>1, <3>1 DEF Window
    <3> QED BY ONLY <1>1, <3>1, <3>2 DEF NoEntry
  <2>2. CASE e # NoEntry
        BY <1>2, <2>2
  <2> QED BY <2>1, <2>2
<1>5. CASE ~l.ok /\ l.entry = x
      BY <1>2, <1>4, <1>5
<1>6. CASE ~l.ok /\ now >= x.blocked /\ w.count >= MaxRegistrations
           /\ l.entry = [w EXCEPT !.count = 0, !.blocked = now + Minute]
  <2>1. w = x /\ x.count = MaxRegistrations
    <3>1. CASE now - x.first > Minute
      <4>1. w.count = 0
            BY ONLY <1>2, <3>1 DEF Entries
      <4> QED BY ONLY <1>1, <1>6, <4>1
    <3>2. CASE ~(now - x.first > Minute)
          BY ONLY <1>1, <1>2, <1>3, <1>6, <3>2
    <3> QED BY <3>1, <3>2
  <2>2. /\ l.entry.count = 0 /\ l.entry.first = x.first /\ l.entry.blocked = now + Minute
        BY ONLY <1>2, <1>6, <2>1 DEF Entries
  <2>3. Window(0, x.first, now + Minute, a, now)
        BY <1>1, <1>3, <1>4, <2>1, WindowBlocks
  <2>4. l.entry # NoEntry
        BY ONLY <1>1, <2>2 DEF NoEntry
  <2> QED BY <1>2, <1>6, <2>2, <2>3, <2>4
<1>7. CASE l.ok /\ now >= x.blocked /\ w.count < MaxRegistrations
           /\ l.entry = [w EXCEPT !.count = @ + 1]
  <2>1. Room(w.count, w.first, a, now)
    <3>1. CASE now - x.first > Minute
      <4>1. w.count = 0 /\ w.first = now
            BY ONLY <1>2, <3>1 DEF Entries
      <4>2. Room(0, now, a, now)
            BY <1>1, <1>3, <1>4, <1>7, <3>1, WindowExpires
      <4> QED BY <4>1, <4>2
    <3>2. CASE ~(now - x.first > Minute)
      <4>1. w = x /\ now - x.first <= Minute
            BY ONLY <1>1, <1>2, <1>3, <3>2
      <4>2. Room(x.count, x.first, a, now)
            BY <1>1, <1>3, <1>4, <1>7, <4>1, WindowGoesOn
      <4> QED BY <4>1, <4>2
    <3> QED BY <3>1, <3>2
  <2>2. l.entry.count = w.count + 1 /\ l.entry.first = w.first /\ l.entry.blocked = w.blocked
        BY ONLY <1>2, <1>7 DEF Entries
  <2>3. Window(w.count + 1, w.first, w.blocked, Append(a, now), now)
        BY <1>3, <1>7, <2>1, RoomForOne
  <2>4. l.entry # NoEntry
        BY ONLY <1>3, <2>2 DEF NoEntry
  <2> QED BY <1>2, <1>7, <2>2, <2>3, <2>4
<1> QED BY <1>2, <1>5, <1>6, <1>7

-----------------------------------------------------------------------------
(* What bounds the counters is kept by every step.                         *)

LEMMA InitBounds == Init => Bounds
<1> SUFFICES ASSUME Init PROVE Bounds
    OBVIOUS
<1>1. /\ now = 0 /\ proxy = << >> /\ Len(proxy) = 0
      /\ registrations = [t \in Tenants |-> NoEntry] /\ executions = [n \in Names |-> NoEntry]
      /\ admitted = [t \in Tenants |-> << >>] /\ outcome = [p \in Plugins |-> NoOutcome]
      BY EmptySeq DEF Init, NoOutcome
<1>2. /\ MaxTime \in Nat /\ Minute \in Nat \ {0} /\ MaxRegistrations \in Nat \ {0}
      /\ MaxExecutions \in Nat \ {0} /\ MaxCalls \in Nat
      BY HubAssumption
<1>3. /\ \A max \in Nat \ {0} : NoEntry \in Entries(max)
      /\ NoEntry.count = 0 /\ NoEntry.first = -1 /\ NoEntry.blocked = 0
      BY ONLY <1>2 DEF NoEntry, Entries
<1>4. PICK a : a = << >> /\ a \in Seq(0..MaxTime) /\ Len(a) = 0
      BY EmptySeq
<1>5. Window(0, -1, 0, a, 0)
      BY ONLY <1>2, <1>4 DEF Window
<1>6. Limited
  <2>1. registrations \in [Tenants -> Entries(MaxRegistrations)]
        BY ONLY <1>1, <1>2, <1>3
  <2>2. executions \in [Names -> Entries(MaxExecutions)]
        BY ONLY <1>1, <1>2, <1>3
  <2>3. admitted \in [Tenants -> Seq(0..MaxTime)]
        BY ONLY <1>1, <1>4
  <2> QED BY <1>1, <1>2, <1>3, <1>4, <1>5, <2>1, <2>2, <2>3 DEF Limited
<1>7. Stamped
      BY <1>1 DEF Stamped, NoOutcome
<1>8. SentOnce
  <2> SUFFICES ASSUME NEW p \in Plugins PROVE outcome[p].posted <= Cardinality(Sent(p))
      BY DEF SentOnce
  <2>1. Cardinality(Sent(p)) \in Nat
        BY <1>2, PostingFinite DEF Sent
  <2>2. outcome[p].posted = 0
        BY <1>1 DEF NoOutcome
  <2> QED BY <2>1, <2>2
<1> QED BY <1>6, <1>7, <1>8 DEF Bounds

\* The limiters are left alone.
LEMMA LimitersKept ==
    ASSUME Limited, UNCHANGED <<now, limiters>>
    PROVE  Limited'
BY DEF Limited, limiters

\* Calls go on, and none sends a request.
LEMMA SentGrows ==
    ASSUME IInv, SentOnce, \A p \in Plugins : outcome'[p].posted = outcome[p].posted,
           \A c \in Calls : call[c].phase \in {"posting", "done"} =>
               call'[c].phase \in {"posting", "done"} /\ call'[c].plugin = call[c].plugin
    PROVE  SentOnce'
<1> SUFFICES ASSUME NEW p \in Plugins PROVE outcome'[p].posted <= Cardinality(Sent(p)')
    BY DEF SentOnce
<1>1. Sent(p) \subseteq Sent(p)'
      BY DEF Sent
<1>2. Sent(p)' \subseteq Calls /\ Sent(p) \subseteq Calls /\ MaxCalls \in Nat
      BY MadeAre DEF Sent
<1>3. IsFiniteSet(Sent(p)') /\ Cardinality(Sent(p)') \in Nat /\ Cardinality(Sent(p)) \in Nat
      BY <1>2, PostingFinite
<1>4. Cardinality(Sent(p)) <= Cardinality(Sent(p)')
      BY ONLY <1>1, <1>3, FS_Subset
<1>5. outcome[p].posted <= Cardinality(Sent(p)) /\ outcome[p].posted \in Nat
      BY MadeAre DEF SentOnce, OutcomeRecord
<1>6. outcome'[p].posted = outcome[p].posted
      OBVIOUS
<1> QED BY ONLY <1>3, <1>4, <1>5, <1>6

\* A step of the registry that makes no plugin and asks no limiter.
LEMMA BoundsKept ==
    ASSUME IInv, Bounds, UNCHANGED <<now, limiters, proxy, call, outcome>>
    PROVE  Bounds'
<1>1. Limited'
      BY LimitersKept DEF Bounds
<1>2. Stamped'
      BY DEF Bounds, Stamped
<1>3. SentOnce'
      BY SentGrows DEF Bounds
<1> QED BY <1>1, <1>2, <1>3 DEF Bounds

\* A registration asks the limiter of its tenant, and no circuit is open yet.
LEMMA RegisterBounded ==
    ASSUME IInv, Bounds, NEW t \in Tenants, NEW n \in Names, NEW d, Register(t, n, d)
    PROVE  Bounds'
<1>l. PICK l : l = RateLimit(registrations[t], MaxRegistrations)
      OBVIOUS
<1>1. /\ registrations' = [registrations EXCEPT ![t] = l.entry]
      /\ admitted' = IF l.ok THEN [admitted EXCEPT ![t] = Append(@, now)] ELSE admitted
      /\ UNCHANGED <<now, executions, call, outcome>>
      /\ proxy' = proxy \/ proxy' = Append(proxy, NewPlugin(n, t))
      BY <1>l DEF Register
<1>2. /\ now \in 0..MaxTime
      /\ registrations \in [Tenants -> Entries(MaxRegistrations)]
      /\ executions \in [Names -> Entries(MaxExecutions)]
      /\ admitted \in [Tenants -> Seq(0..MaxTime)]
      BY DEF Bounds, Limited
<1>3. \A k \in Tenants :
         /\ registrations[k] = NoEntry => admitted[k] = << >>
         /\ Window(registrations[k].count, registrations[k].first, registrations[k].blocked,
                   admitted[k], now)
      BY DEF Bounds, Limited
<1>a. PICK a : a = IF l.ok THEN Append(admitted[t], now) ELSE admitted[t]
      OBVIOUS
<1>4. /\ l.entry \in Entries(MaxRegistrations) /\ l.entry # NoEntry
      /\ l.ok => Window(l.entry.count, l.entry.first, l.entry.blocked, Append(admitted[t], now), now)
      /\ ~l.ok => Window(l.entry.count, l.entry.first, l.entry.blocked, admitted[t], now)
  <2>e. PICK e \in Entries(MaxRegistrations) : e = registrations[t]
        BY <1>2
  <2>b. PICK b \in Seq(0..MaxTime) : b = admitted[t]
        BY <1>2
  <2>1. (e = NoEntry => b = << >>) /\ Window(e.count, e.first, e.blocked, b, now)
        BY <1>3, <2>e, <2>b
  <2>2. /\ l.entry \in Entries(MaxRegistrations) /\ l.entry # NoEntry
        /\ l.ok => Window(l.entry.count, l.entry.first, l.entry.blocked, Append(b, now), now)
        /\ ~l.ok => Window(l.entry.count, l.entry.first, l.entry.blocked, b, now)
        BY <1>2, <1>l, <2>e, <2>1, WindowSound
  <2> QED BY ONLY <2>2, <2>b
<1>5. /\ a \in Seq(0..MaxTime) /\ Window(l.entry.count, l.entry.first, l.entry.blocked, a, now)
      /\ admitted' = [admitted EXCEPT ![t] = a]
  <2>1. CASE l.ok
    <3>1. a = Append(admitted[t], now) /\ admitted' = [admitted EXCEPT ![t] = a]
          BY <1>1, <1>2, <1>a, <2>1
    <3>2. a \in Seq(0..MaxTime)
          BY <1>2, <3>1, AppendProperties
    <3> QED BY <1>4, <2>1, <3>1, <3>2
  <2>2. CASE ~l.ok
    <3>1. a = admitted[t] /\ admitted' = admitted
          BY <1>1, <1>a, <2>2
    <3>2. admitted' = [admitted EXCEPT ![t] = a] /\ a \in Seq(0..MaxTime)
          BY ONLY <1>2, <3>1
    <3> QED BY <1>4, <2>2, <3>1, <3>2
  <2> QED BY <2>1, <2>2
<1>6. Limited'
  <2>1. /\ registrations' \in [Tenants -> Entries(MaxRegistrations)] /\ registrations'[t] = l.entry
        /\ \A k \in Tenants : k # t => registrations'[k] = registrations[k]
        BY ONLY <1>1, <1>2, <1>4
  <2>2. /\ admitted' \in [Tenants -> Seq(0..MaxTime)] /\ admitted'[t] = a
        /\ \A k \in Tenants : k # t => admitted'[k] = admitted[k]
        BY ONLY <1>2, <1>5
  <2>3. ASSUME NEW k \in Tenants
        PROVE  /\ registrations'[k] = NoEntry => admitted'[k] = << >>
               /\ Window(registrations'[k].count, registrations'[k].first, registrations'[k].blocked,
                         admitted'[k], now)
    <3>1. CASE k = t
          BY ONLY <1>4, <1>5, <2>1, <2>2, <3>1
    <3>2. CASE k # t
          BY ONLY <1>3, <2>1, <2>2, <3>2, k \in Tenants
    <3> QED BY ONLY <3>1, <3>2
  <2>4. now' = now /\ executions' = executions
        BY <1>1
  <2> QED BY ONLY <1>2, <2>1, <2>2, <2>3, <2>4 DEF Limited
<1>7. Stamped'
  <2>1. /\ \A p \in 1..Len(proxy) : proxy[p].opened_at <= now
        /\ \A p \in Plugins : outcome[p].tripped <= now
        BY DEF Bounds, Stamped
  <2>2. CASE proxy' = proxy
        BY <1>1, <2>1, <2>2 DEF Stamped
  <2>3. CASE proxy' = Append(proxy, NewPlugin(n, t))
    <3>1. proxy \in Seq(ProxyRecord) /\ NewPlugin(n, t) \in ProxyRecord
          BY DEF IInv, Types, NewPlugin, ProxyRecord
    <3>2. /\ Len(proxy') = Len(proxy) + 1 /\ proxy'[Len(proxy) + 1] = NewPlugin(n, t)
          /\ \A p \in 1..Len(proxy) : proxy'[p] = proxy[p]
          BY ONLY <2>3, <3>1, AppendProperties
    <3>3. NewPlugin(n, t).opened_at <= now
          BY <1>2, HubAssumption DEF NewPlugin
    <3>4. ASSUME NEW p \in 1..Len(proxy') PROVE proxy'[p].opened_at <= now
      <4>1. p \in 1..Len(proxy) \/ p = Len(proxy) + 1
            BY <3>2, MadeAre
      <4>2. CASE p \in 1..Len(proxy)
            BY ONLY <2>1, <3>2, <4>2
      <4>3. CASE p = Len(proxy) + 1
            BY ONLY <3>2, <3>3, <4>3
      <4> QED BY <4>1, <4>2, <4>3
    <3> QED BY <1>1, <2>1, <3>4 DEF Stamped
  <2> QED BY <1>1, <2>2, <2>3
<1>8. SentOnce'
      BY <1>1, SentGrows DEF Bounds
<1> QED BY <1>6, <1>7, <1>8 DEF Bounds

\* A call finds its plugin.
LEMMA RouteBounded ==
    ASSUME IInv, Bounds, NEW c \in Calls, NEW n, Route(c, n)
    PROVE  Bounds'
<1>p. PICK p : p = tools[n].owner
      OBVIOUS
<1>1. /\ call[c].phase = "idle" /\ UNCHANGED <<now, proxy, limiters, outcome>>
      /\ call' = [call EXCEPT ![c] = [phase |-> "routed", plugin |-> p]]
      BY <1>p DEF Route
<1>2. \A k \in Calls : k # c => call'[k] = call[k]
      BY <1>1 DEF IInv, Types, CallTypes
<1>3. SentOnce'
      BY <1>1, <1>2, SentGrows DEF Bounds
<1>4. Limited'
      BY <1>1, LimitersKept DEF Bounds
<1>5. Stamped'
      BY <1>1 DEF Bounds, Stamped
<1> QED BY <1>3, <1>4, <1>5 DEF Bounds

\* A call is let in: the limiter of its name is asked, and perhaps a request sent.
LEMMA AdmitBounded ==
    ASSUME IInv, Bounds, NEW c \in Calls, NEW fits \in BOOLEAN, Admit(c, fits)
    PROVE  Bounds'
<1>p. PICK p : p = call[c].plugin
      OBVIOUS
<1>x. PICK x : x = Checked(proxy[p])
      OBVIOUS
<1>l. PICK l : l = RateLimit(executions[x.name], MaxExecutions)
      OBVIOUS
<1>z. PICK z : z = IF l.ok THEN x ELSE [x EXCEPT !.status = "rate_limited"]
      OBVIOUS
<1>1. /\ call[c].phase = "routed" /\ UNCHANGED <<now, registrations, admitted>>
      /\ \/ proxy' = proxy /\ executions' = executions
         \/ /\ proxy' = [proxy EXCEPT ![p] = z]
            /\ executions' = [executions EXCEPT ![x.name] = l.entry]
      /\ \/ /\ call' = [call EXCEPT ![c].phase = "posting"]
            /\ outcome' = [outcome EXCEPT ![p].posted = @ + 1]
         \/ call' = [call EXCEPT ![c].phase = "done"] /\ UNCHANGED outcome
  <2>1. /\ Execute(c, fits, p, x, l)
        /\ call[c].phase = "routed" /\ UNCHANGED <<now, registrations, admitted>>
        BY <1>p, <1>x, <1>l DEF Admit
  <2> QED BY ONLY <2>1, <1>z DEF Execute, Finish
<1>2. p \in 1..Len(proxy)
      BY <1>1, <1>p DEF IInv, Made
<1>3. /\ proxy[p] \in ProxyRecord /\ proxy \in Seq(ProxyRecord) /\ p \in Plugins
      /\ outcome \in [Plugins -> OutcomeRecord] /\ outcome[p] \in OutcomeRecord
      /\ call \in [Calls -> [phase : {"idle", "routed", "posting", "done"}, plugin : Plugins \cup {None}]]
      /\ now \in 0..MaxTime /\ executions \in [Names -> Entries(MaxExecutions)]
      BY <1>2, MadeAre DEF IInv, Types, CallTypes, Bounds, Limited
<1>4. x \in ProxyRecord /\ x.opened_at = proxy[p].opened_at /\ x.name \in Names
      BY <1>3, <1>x DEF Checked, ProxyRecord
<1>5. z \in ProxyRecord /\ z.opened_at = proxy[p].opened_at
      BY <1>4, <1>z DEF ProxyRecord
<1>6. Limited'
  <2>1. l.entry \in Entries(MaxExecutions)
    <3>e. PICK e \in Entries(MaxExecutions) : e = executions[x.name]
          BY <1>3, <1>4
    <3>x. PICK y : y = Entry(e)
          OBVIOUS
    <3>w. PICK w : w = Windowed(y)
          OBVIOUS
    <3>1. MaxExecutions \in Nat \ {0} /\ l = RateLimit(e, MaxExecutions)
          BY <1>l, <3>e, HubAssumption
    <3>2. Limiting(e, y, w, l, MaxExecutions)
          BY <1>3, <3>x, <3>w, <3>1, RateLimitDoes
    <3> QED BY ONLY <3>2 DEF Limiting
  <2>2. executions' \in [Names -> Entries(MaxExecutions)]
    <3>1. CASE executions' = executions
          BY <1>3, <3>1
    <3>2. CASE executions' = [executions EXCEPT ![x.name] = l.entry]
          BY ONLY <1>3, <2>1, <3>2
    <3> QED BY <1>1, <3>1, <3>2
  <2> QED BY <1>1, <2>2 DEF Bounds, Limited
<1>7. Stamped'
  <2>1. \A q \in 1..Len(proxy') : q \in 1..Len(proxy) /\ proxy'[q].opened_at = proxy[q].opened_at
    <3>1. CASE proxy' = proxy
          BY <3>1
    <3>2. CASE proxy' = [proxy EXCEPT ![p] = z]
      <4>1. /\ Len(proxy') = Len(proxy) /\ proxy'[p] = z
            /\ \A q \in 1..Len(proxy) : q # p => proxy'[q] = proxy[q]
            BY ONLY <1>2, <1>3, <1>5, <3>2, Replaced
      <4> QED BY ONLY <1>5, <4>1
    <3> QED BY <1>1, <3>1, <3>2
  <2>2. \A q \in Plugins : outcome'[q].tripped = outcome[q].tripped
    <3>1. CASE outcome' = [outcome EXCEPT ![p].posted = @ + 1]
      <4> TAKE q \in Plugins
      <4>1. outcome[q] \in OutcomeRecord
            BY <1>3
      <4> QED BY <1>3, <3>1, <4>1 DEF OutcomeRecord
    <3> QED BY <1>1, <3>1
  <2>3. /\ \A q \in 1..Len(proxy) : proxy[q].opened_at <= now
        /\ \A q \in Plugins : outcome[q].tripped <= now
        BY DEF Bounds, Stamped
  <2> QED BY <1>1, <2>1, <2>2, <2>3 DEF Stamped
<1>8. SentOnce'
  <2>1. CASE /\ call' = [call EXCEPT ![c].phase = "posting"]
             /\ outcome' = [outcome EXCEPT ![p].posted = @ + 1]
    <3> SUFFICES ASSUME NEW q \in Plugins PROVE outcome'[q].posted <= Cardinality(Sent(q)')
        BY DEF SentOnce
    <3>1. /\ call'[c].phase = "posting" /\ call'[c].plugin = p /\ call[c].plugin = p
          /\ \A k \in Calls : k # c => call'[k] = call[k]
          BY <1>3, <1>p, <2>1
    <3>S. PICK S : S = Sent(q)
          OBVIOUS
    <3>T. PICK T : T = Sent(q)'
          OBVIOUS
    <3>2. S \subseteq Calls /\ MaxCalls \in Nat
          BY <3>S, MadeAre DEF Sent
    <3>3. IsFiniteSet(S) /\ Cardinality(S) \in Nat
          BY <3>2, PostingFinite
    <3>4. outcome[q].posted <= Cardinality(S) /\ outcome[q].posted \in Nat
          BY <3>S, MadeAre DEF Bounds, SentOnce, OutcomeRecord
    <3>5. CASE q = p
      <4>1. T = S \cup {c} /\ c \notin S
            BY <1>1, <3>1, <3>5, <3>S, <3>T DEF Sent
      <4>2. Cardinality(T) = Cardinality(S) + 1
            BY <3>3, <4>1, FS_AddElement
      <4>3. outcome'[q].posted = outcome[q].posted + 1
            BY <1>3, <2>1, <3>5 DEF OutcomeRecord
      <4> QED BY ONLY <3>3, <3>4, <4>2, <4>3, <3>T
    <3>6. CASE q # p
      <4>1. T = S
            BY <1>1, <3>1, <3>6, <3>S, <3>T DEF Sent
      <4>2. outcome'[q] = outcome[q]
            BY <1>3, <2>1, <3>6
      <4> QED BY <3>4, <3>T, <4>1, <4>2
    <3> QED BY <3>5, <3>6
  <2>2. CASE call' = [call EXCEPT ![c].phase = "done"] /\ UNCHANGED outcome
    <3>1. \A k \in Calls : call'[k].plugin = call[k].plugin /\ (k # c => call'[k] = call[k])
          BY <1>3, <2>2
    <3>2. call'[c].phase = "done"
          BY <1>3, <2>2
    <3> QED BY <2>2, <3>1, <3>2, SentGrows DEF Bounds
  <2> QED BY <1>1, <2>1, <2>2
<1> QED BY <1>6, <1>7, <1>8 DEF Bounds

\* An answer stamps its circuit with the time it arrives at.
LEMMA AnsweredBounded ==
    ASSUME IInv, Bounds, NEW c \in Calls, NEW ok \in BOOLEAN, Answered(c, ok)
    PROVE  Bounds'
<1>p. PICK p : p = call[c].plugin
      OBVIOUS
<1>x. PICK x : x = IF ok THEN Succeed(proxy[p]) ELSE Fail(proxy[p])
      OBVIOUS
<1>o. PICK o : o = [outcome[p] EXCEPT !.run = IF ok THEN 0 ELSE @ + 1,
                                      !.tripped = IF ~ok /\ x.failures >= Threshold THEN now ELSE @]
      OBVIOUS
<1>1. /\ call[c].phase = "posting" /\ proxy' = [proxy EXCEPT ![p] = x]
      /\ outcome' = [outcome EXCEPT ![p].run = IF ok THEN 0 ELSE @ + 1,
                                    ![p].tripped = IF ~ok /\ x.failures >= Threshold THEN now ELSE @]
      /\ call' = [call EXCEPT ![c].phase = "done"]
      /\ UNCHANGED <<now, limiters>>
      BY <1>p, <1>x DEF Answered, Finish
<1>2. p \in 1..Len(proxy)
      BY <1>1, <1>p DEF IInv, Made
<1>3. /\ proxy[p] \in ProxyRecord /\ proxy \in Seq(ProxyRecord) /\ p \in Plugins
      /\ outcome \in [Plugins -> OutcomeRecord] /\ outcome[p] \in OutcomeRecord
      /\ call \in [Calls -> [phase : {"idle", "routed", "posting", "done"}, plugin : Plugins \cup {None}]]
      /\ now \in Nat /\ Threshold \in Nat
      BY <1>2, MadeAre DEF IInv, Types, CallTypes
<1>4. x \in ProxyRecord /\ (x.opened_at = proxy[p].opened_at \/ x.opened_at = now)
  <2>1. CASE ok
    <3>1. x = Succeed(proxy[p])
          BY <1>x, <2>1
    <3> QED BY <1>3, <3>1, SucceedDoes
  <2>2. CASE ~ok
    <3>1. x = Fail(proxy[p])
          BY <1>x, <2>2
    <3> QED BY <1>3, <3>1, FailDoes
  <2> QED BY <2>1, <2>2
<1>5. /\ o.posted = outcome[p].posted
      /\ o.tripped = outcome[p].tripped \/ o.tripped = now
      BY ONLY <1>3, <1>o DEF OutcomeRecord
<1>6. outcome' = [outcome EXCEPT ![p] = o]
      BY <1>1, <1>3, <1>o
<1>7. outcome'[p] = o /\ \A q \in Plugins : q # p => outcome'[q] = outcome[q]
      BY ONLY <1>3, <1>6
<1>8. Stamped'
  <2>1. /\ \A q \in 1..Len(proxy) : proxy[q].opened_at <= now
        /\ \A q \in Plugins : outcome[q].tripped <= now
        BY DEF Bounds, Stamped
  <2>2. /\ Len(proxy') = Len(proxy) /\ proxy'[p] = x
        /\ \A q \in 1..Len(proxy) : q # p => proxy'[q] = proxy[q]
        BY <1>1, <1>2, <1>3, <1>4, Replaced
  <2>3. x.opened_at <= now /\ o.tripped <= now
    <3>1. now <= now
          BY ONLY <1>3
    <3>2. proxy[p].opened_at <= now /\ outcome[p].tripped <= now
          BY ONLY <1>2, <1>3, <2>1
    <3> QED BY ONLY <1>4, <1>5, <3>1, <3>2
  <2>4. \A q \in 1..Len(proxy') : proxy'[q].opened_at <= now
        BY ONLY <2>1, <2>2, <2>3
  <2>5. \A q \in Plugins : outcome'[q].tripped <= now
        BY ONLY <1>7, <2>1, <2>3
  <2> QED BY <1>1, <2>4, <2>5 DEF Stamped
<1>9. SentOnce'
  <2>1. \A k \in Calls : call'[k].plugin = call[k].plugin /\ (k # c => call'[k] = call[k])
        BY <1>1, <1>3
  <2>2. call'[c].phase = "done"
        BY <1>1, <1>3
  <2>3. \A q \in Plugins : outcome'[q].posted = outcome[q].posted
        BY ONLY <1>5, <1>7
  <2> QED BY <2>1, <2>2, <2>3, SentGrows DEF Bounds
<1>10. Limited'
       BY <1>1, LimitersKept DEF Bounds
<1> QED BY <1>8, <1>9, <1>10 DEF Bounds

\* A call is given up.
LEMMA CancelledBounded ==
    ASSUME IInv, Bounds, NEW c \in Calls, Cancelled(c)
    PROVE  Bounds'
<1>p. PICK p : p = call[c].plugin
      OBVIOUS
<1>1. /\ call' = [call EXCEPT ![c].phase = "done"] /\ UNCHANGED <<now, limiters, proxy>>
      /\ outcome' = outcome \/ outcome' = [outcome EXCEPT ![p].cancelled = @ + 1]
      BY <1>p DEF Cancelled, Finish
<1>2. /\ outcome \in [Plugins -> OutcomeRecord]
      /\ call \in [Calls -> [phase : {"idle", "routed", "posting", "done"}, plugin : Plugins \cup {None}]]
      BY DEF IInv, Types, CallTypes
<1>3. \A q \in Plugins : /\ outcome'[q].posted = outcome[q].posted
                         /\ outcome'[q].tripped = outcome[q].tripped
  <2>1. CASE outcome' = [outcome EXCEPT ![p].cancelled = @ + 1]
    <3> TAKE q \in Plugins
    <3>1. outcome[q] \in OutcomeRecord
          BY <1>2
    <3> QED BY <1>2, <2>1, <3>1 DEF OutcomeRecord
  <2> QED BY <1>1, <2>1
<1>4. SentOnce'
  <2>1. \A k \in Calls : call'[k].plugin = call[k].plugin /\ (k # c => call'[k] = call[k])
        BY <1>1, <1>2
  <2>2. call'[c].phase = "done"
        BY <1>1, <1>2
  <2> QED BY <1>3, <2>1, <2>2, SentGrows DEF Bounds
<1>5. Stamped'
      BY <1>1, <1>3 DEF Bounds, Stamped
<1>6. Limited'
      BY <1>1, LimitersKept DEF Bounds
<1> QED BY <1>4, <1>5, <1>6 DEF Bounds

\* Time passes, no further than the bound.
LEMMA TickBounded ==
    ASSUME IInv, Bounds, Tick
    PROVE  Bounds'
<1>1. /\ UNCHANGED <<registrations, executions, admitted, proxy, call, outcome>>
      /\ now < scope.ticks /\ now' = now + 1
      BY DEF Tick, limiters
<1>2. /\ MaxTime \in Nat /\ now \in 0..MaxTime
      BY HubAssumption DEF Bounds, Limited
<1>3. scope.ticks \in 0..MaxTime
      BY HubAssumption DEF IInv, Types
<1>4. now' \in 0..MaxTime /\ now \in Nat /\ now' \in Nat /\ now <= now' /\ now \in Int
      BY ONLY <1>1, <1>2, <1>3
<1>5. Limited'
  <2>1. /\ registrations \in [Tenants -> Entries(MaxRegistrations)]
        /\ executions \in [Names -> Entries(MaxExecutions)]
        /\ admitted \in [Tenants -> Seq(0..MaxTime)]
        BY DEF Bounds, Limited
  <2>2. ASSUME NEW t \in Tenants
        PROVE  /\ registrations[t] = NoEntry => admitted[t] = << >>
               /\ Window(registrations[t].count, registrations[t].first, registrations[t].blocked,
                         admitted[t], now')
    <3>1. /\ registrations[t] = NoEntry => admitted[t] = << >>
          /\ Window(registrations[t].count, registrations[t].first, registrations[t].blocked,
                    admitted[t], now)
          BY DEF Bounds, Limited
    <3>e. PICK e \in Entries(MaxRegistrations) : e = registrations[t]
          BY <2>1
    <3>a. PICK a \in Seq(0..MaxTime) : a = admitted[t]
          BY <2>1
    <3>2. e.count \in Nat /\ e.first \in Int /\ e.blocked \in Nat
          BY HubAssumption DEF Entries
    <3>3. Window(e.count, e.first, e.blocked, a, now)
          BY ONLY <3>1, <3>e, <3>a
    <3>4. Window(e.count, e.first, e.blocked, a, now')
          BY <1>4, <3>2, <3>3, WindowAges
    <3> QED BY ONLY <3>1, <3>4, <3>e, <3>a
  <2> QED BY <1>1, <1>4, <2>1, <2>2 DEF Limited
<1>6. Stamped'
  <2>1. \A q \in 1..Len(proxy) : proxy[q].opened_at \in Nat /\ proxy[q].opened_at <= now
        BY MadeAre DEF Bounds, Stamped, ProxyRecord
  <2>2. \A q \in Plugins : outcome[q].tripped \in Nat \cup {-1} /\ outcome[q].tripped <= now
        BY MadeAre DEF Bounds, Stamped, OutcomeRecord
  <2>3. \A k \in Nat \cup {-1} : k <= now => k <= now'
        BY ONLY <1>1, <1>4
  <2>4. \A q \in 1..Len(proxy) : proxy[q].opened_at <= now'
        BY ONLY <2>1, <2>3
  <2>5. \A q \in Plugins : outcome[q].tripped <= now'
        BY ONLY <2>2, <2>3
  <2> QED BY <1>1, <2>4, <2>5 DEF Stamped
<1>7. SentOnce'
      BY <1>1, SentGrows DEF Bounds
<1> QED BY <1>5, <1>6, <1>7 DEF Bounds

\* Every step keeps what bounds the counters.
LEMMA BoundsStep == IInv /\ Bounds /\ [Next]_vars => Bounds'
<1> SUFFICES ASSUME IInv, Bounds, [Next]_vars PROVE Bounds'
    OBVIOUS
<1>1. /\ scope.tenants \subseteq Tenants /\ scope.names \subseteq Names
      /\ scope.servers \subseteq Servers /\ 1..scope.calls \subseteq Calls
      BY InScope DEF IInv, Types
<1>2. ASSUME UNCHANGED <<now, limiters, proxy, call, outcome>>
      PROVE  Bounds'
      BY <1>2, BoundsKept
<1>3. CASE Discover
      BY <1>2, <1>3 DEF Discover
<1>4. ASSUME NEW t \in scope.tenants, HubStep(t)
      PROVE  Bounds'
  <2>1. ASSUME NEW n \in scope.names, NEW d \in scope.definitions, Register(t, n, d)
        PROVE  Bounds'
    <3>1. t \in Tenants /\ n \in Names
          BY <1>1
    <3> QED BY <2>1, <3>1, RegisterBounded
  <2>2. ASSUME NEW n \in scope.names, Unregister(t, n)
        PROVE  Bounds'
        BY <1>2, <2>2 DEF Unregister
  <2>3. ASSUME NEW s \in scope.servers, NEW L, MountTools(t, s, L)
        PROVE  Bounds'
        BY <1>2, <2>3 DEF MountTools
  <2>4. ASSUME NEW s \in scope.servers, NEW ends, UnmountTools(t, s, ends)
        PROVE  Bounds'
        BY <1>2, <2>4 DEF UnmountTools
  <2> QED BY <1>4, <2>1, <2>2, <2>3, <2>4 DEF HubStep
<1>5. ASSUME NEW c \in 1..scope.calls, CallStep(c)
      PROVE  Bounds'
  <2>1. c \in Calls
        BY <1>1
  <2>2. ASSUME NEW n, Route(c, n)
        PROVE  Bounds'
        BY <2>1, <2>2, RouteBounded
  <2>3. ASSUME NEW ok \in BOOLEAN, Admit(c, ok)
        PROVE  Bounds'
        BY <2>1, <2>3, AdmitBounded
  <2>4. ASSUME NEW ok \in BOOLEAN, Answered(c, ok)
        PROVE  Bounds'
        BY <2>1, <2>4, AnsweredBounded
  <2>5. CASE Cancelled(c)
        BY <2>1, <2>5, CancelledBounded
  <2> QED BY <1>5, <2>2, <2>3, <2>4, <2>5 DEF CallStep
<1>6. CASE Tick
      BY <1>6, TickBounded
<1>7. CASE UNCHANGED vars
      BY <1>2, <1>7 DEF vars
<1> QED BY <1>3, <1>4, <1>5, <1>6, <1>7 DEF Next

\* A sequence is one of whatever its members are.
LEMMA SeqOf ==
    ASSUME NEW T, NEW s \in Seq(T), NEW S, \A i \in 1..Len(s) : s[i] \in S
    PROVE  s \in Seq(S)
<1>n. PICK n \in Nat : n = Len(s)
      BY LenProperties
<1>1. s \in [1..n -> T]
      BY <1>n, LenProperties
<1>2. s \in [1..n -> S]
      BY ONLY <1>n, <1>1, \A i \in 1..Len(s) : s[i] \in S
<1> QED BY ONLY <1>2, n \in Nat, SeqDef

\* The counters are no larger than the calls, the stamps no later than the time.
LEMMA BoundsTyped ==
    ASSUME IInv, Bounds
    PROVE  TypeOK
<1>1. /\ MaxTime \in Nat /\ MaxCalls \in Nat /\ now \in 0..MaxTime /\ now \in Nat
      BY HubAssumption DEF Bounds, Limited
<1>n. PICK N : N = Cardinality(Calls)
      OBVIOUS
<1>2. N \in Nat /\ IsFiniteSet(Calls)
      BY <1>1, <1>n, PostingFinite
<1>3. ASSUME NEW p \in 1..Len(proxy)
      PROVE  proxy[p] \in [name : Names, tenant : Tenants, status : {"active", "rate_limited"},
                           open : BOOLEAN, opened_at : 0..MaxTime, failures : 0..N,
                           calls : 0..N, failed : 0..N]
  <2>1. p \in Plugins /\ proxy[p] \in ProxyRecord /\ outcome[p] \in OutcomeRecord
        BY MadeAre
  <2>2. Cardinality(Sent(p)) \in Nat /\ Cardinality(Sent(p)) <= N
    <3>1. Sent(p) \subseteq Calls
          BY DEF Sent
    <3> QED BY <1>1, <1>2, <1>n, <3>1, PostingFinite, FS_Subset
  <2>3. Cardinality(Posting(p)) \in Nat
    <3>1. Posting(p) \subseteq Calls
          BY DEF Posting
    <3> QED BY <1>1, <3>1, PostingFinite
  <2>4. /\ outcome[p].posted = proxy[p].calls + outcome[p].cancelled + Cardinality(Posting(p))
        /\ outcome[p].run <= proxy[p].failed /\ proxy[p].failed <= proxy[p].calls
        /\ proxy[p].failures <= outcome[p].run
        BY DEF IInv, CallsSound, Counted, Circuit
  <2>5. outcome[p].posted <= Cardinality(Sent(p)) /\ proxy[p].opened_at <= now
        BY <2>1 DEF Bounds, SentOnce, Stamped
  <2>6. /\ proxy[p].calls \in Nat /\ proxy[p].failed \in Nat /\ proxy[p].failures \in Nat
        /\ proxy[p].opened_at \in Nat /\ outcome[p].run \in Nat /\ outcome[p].posted \in Nat
        /\ outcome[p].cancelled \in Nat
        BY ONLY <2>1 DEF ProxyRecord, OutcomeRecord
  <2>c. PICK calls \in Nat, failed \in Nat, failures \in Nat, opened \in Nat :
           /\ calls = proxy[p].calls /\ failed = proxy[p].failed
           /\ failures = proxy[p].failures /\ opened = proxy[p].opened_at
        BY ONLY <2>6
  <2>o. PICK posted \in Nat, cancelled \in Nat, run \in Nat :
           posted = outcome[p].posted /\ cancelled = outcome[p].cancelled /\ run = outcome[p].run
        BY ONLY <2>6
  <2>s. PICK sent \in Nat, posting \in Nat :
           sent = Cardinality(Sent(p)) /\ posting = Cardinality(Posting(p))
        BY ONLY <2>2, <2>3
  <2>7. /\ sent <= N /\ posted <= sent /\ posted = calls + cancelled + posting
        /\ run <= failed /\ failed <= calls /\ failures <= run /\ opened <= now
        BY ONLY <2>2, <2>4, <2>5, <2>c, <2>o, <2>s
  <2>8. calls <= N
        BY ONLY <1>2, <2>7, calls \in Nat, cancelled \in Nat, posting \in Nat, sent \in Nat
  <2>9. calls \in 0..N /\ failed \in 0..N /\ failures \in 0..N
        BY ONLY <1>2, <2>7, <2>8, calls \in Nat, failed \in Nat, failures \in Nat, run \in Nat
  <2>10. opened \in 0..MaxTime
         BY ONLY <1>1, <2>7, opened \in Nat
  <2> QED BY ONLY <2>1, <2>9, <2>10, <2>c DEF ProxyRecord
<1>4. proxy \in Seq([name : Names, tenant : Tenants, status : {"active", "rate_limited"},
                     open : BOOLEAN, opened_at : 0..MaxTime, failures : 0..N,
                     calls : 0..N, failed : 0..N])
  <2>1. proxy \in Seq(ProxyRecord) /\ Len(proxy) \in Nat
        BY MadeAre DEF IInv, Types
  <2>R. PICK R : R = [name : Names, tenant : Tenants, status : {"active", "rate_limited"},
                      open : BOOLEAN, opened_at : 0..MaxTime, failures : 0..N,
                      calls : 0..N, failed : 0..N]
        OBVIOUS
  <2>2. \A p \in 1..Len(proxy) : proxy[p] \in R
        BY ONLY <1>3, <2>R
  <2>3. proxy \in Seq(R)
        BY ONLY <2>1, <2>2, SeqOf
  <2> QED BY ONLY <2>3, <2>R
<1>5. outcome \in [Plugins -> [posted : Nat, cancelled : Nat, run : Nat, tripped : -1..MaxTime]]
  <2>1. ASSUME NEW p \in Plugins
        PROVE  outcome[p] \in [posted : Nat, cancelled : Nat, run : Nat, tripped : -1..MaxTime]
    <3>1. outcome[p] \in OutcomeRecord /\ outcome[p].tripped <= now
          BY MadeAre DEF Bounds, Stamped
    <3>2. outcome[p].tripped \in Nat \cup {-1}
          BY ONLY <3>1 DEF OutcomeRecord
    <3>3. outcome[p].tripped \in -1..MaxTime
          BY ONLY <1>1, <3>1, <3>2
    <3> QED BY ONLY <3>1, <3>3 DEF OutcomeRecord
  <2>2. outcome \in [Plugins -> OutcomeRecord]
        BY DEF IInv, Types, CallTypes
  <2> QED BY ONLY <2>1, <2>2
<1>6. /\ scope \in Scopes /\ Len(proxy) <= MaxPlugins
      /\ discovered \in BOOLEAN /\ plugins \in [Names -> Plugins \cup {None}]
      /\ tenant_plugins \in [Tenants -> SUBSET Names] /\ adapters \in [Tenants -> SUBSET StdioNames]
      /\ servers \in [Tenants -> [Servers -> [tools : SUBSET StdioNames, up : BOOLEAN]]]
      /\ contested \subseteq Names
      /\ call \in [Calls -> [phase : {"idle", "routed", "posting", "done"},
                             plugin : Plugins \cup {None}]]
      BY DEF IInv, Types, RegistryTypes, CallTypes
<1>7. tools \in [Names -> {Nobody, Builtin} \cup {Stdio(t) : t \in Tenants} \cup {Plugin(p) : p \in Plugins}]
      BY DEF IInv, Types, RegistryTypes, Owners
<1>8. /\ registrations \in [Tenants -> Entries(MaxRegistrations)]
      /\ executions \in [Names -> Entries(MaxExecutions)]
      /\ admitted \in [Tenants -> Seq(0..MaxTime)]
      BY DEF Bounds, Limited
<1> QED BY ONLY <1>1, <1>n, <1>4, <1>5, <1>6, <1>7, <1>8 DEF TypeOK

-----------------------------------------------------------------------------
(* The theorems.                                                           *)

\* Types, plugins that exist, an index that agrees and sound counters hold
\* through every interleaving of registrations, servers and calls.
THEOREM Invariance == Spec => []IInv
<1>1. IInv /\ [Next]_vars => IInv'
      BY StepSound, StutterSound
<1> QED BY <1>1, InitSound, PTL DEF Spec

\* The hub, its index by tenant, the dashboard and the catalog agree on a name,
\* a name that was never contested stands for its claimant, and adapters are those
\* of running servers, less what servers whose names cover theirs take along:
\* McpHub's endpoints and the registry they share with discovery and the stdio
\* servers.
THEOREM RegistrySpeaksTrue == Spec => []RegistryAgrees
<1>1. IInv => RegistryAgrees
  <2> SUFFICES ASSUME IInv PROVE RegistryAgrees
      OBVIOUS
  <2>1. PICK d : d = Discovery(tools)
        OBVIOUS
  <2>2. tools \in [Names -> Owners] /\ discovered \in BOOLEAN
        BY DEF IInv, Types, RegistryTypes
  <2>3. \A n \in Names :
           \/ d[n] = tools[n] /\ (discovered \/ tools[n] # Nobody \/ n \notin Builtins)
           \/ d[n] = Builtin /\ tools[n] = Nobody /\ n \in Builtins
        BY <2>1, <2>2, DiscoveryAdds
  <2>4. \A t \in Tenants : tenant_plugins[t] \subseteq Names
        BY DEF IInv, Types, RegistryTypes
  <2>5. ASSUME NEW t \in Tenants
        PROVE  /\ ListPlugins(t) = {n \in Names : plugins[n] # None /\ proxy[plugins[n]].tenant = t}
               /\ \A n \in ListPlugins(t) : Dashboard(t)[n] # "unknown"
    <3>1. ListPlugins(t) = {n \in Names : plugins[n] # None /\ proxy[plugins[n]].tenant = t}
          BY <2>4, <2>5 DEF IInv, Indexed, ListPlugins
    <3>2. ASSUME NEW n \in ListPlugins(t)
          PROVE  Dashboard(t)[n] # "unknown"
      <4>1. n \in Names /\ n \in tenant_plugins[t] /\ plugins[n] # None
            BY <3>1, <3>2 DEF ListPlugins
      <4>2. proxy[plugins[n]].status \in {"active", "rate_limited"}
            BY <4>1, MadeAre DEF IInv, Made, ProxyRecord
      <4>3. Dashboard(t)[n] = proxy[plugins[n]].status
            BY <4>1 DEF Dashboard
      <4> QED BY <4>2, <4>3
    <3> QED BY <3>1, <3>2
  <2>6. \A n \in Catalog : tools[n] = Plugin(plugins[n])
    <3>1. ASSUME NEW n \in Names, d[n].kind = "plugin"
          PROVE  tools[n] = Plugin(plugins[n])
          BY <2>3, <3>1, OwnersDiffer DEF IInv, Indexed
    <3> QED BY <2>1, <3>1 DEF Catalog
  <2>7. HubAgrees
        BY <2>5, <2>6 DEF HubAgrees
  <2>8. ASSUME NEW n \in Names \ contested
        PROVE  /\ plugins[n] # None => tools[n] = Plugin(plugins[n])
               /\ \A t \in Tenants, s \in Servers : Up(t, s) /\ n \in Listed(t, s) => tools[n] = Stdio(t)
               /\ n \in Builtins => n \notin MissingTools
               /\ (/\ plugins[n] = None /\ n \notin Builtins
                   /\ \A t \in Tenants, s \in Servers : Up(t, s) => n \notin Listed(t, s))
                     => tools[n] = Nobody
    <3>1. Reachable(n) /\ n \in Names
          BY DEF IInv
    <3>2. n \in Builtins => d[n] # Nobody
          BY <2>3, <3>1, OwnersDiffer DEF Reachable
    <3>3. n \in Builtins => n \notin MissingTools
          BY <2>1, <3>2 DEF MissingTools
    <3>4. ASSUME NEW t \in Tenants, NEW s \in Servers, n \in Listed(t, s)
          PROVE  tools[n] = IF Up(t, s) THEN Stdio(t) ELSE Nobody
          BY <3>1, <3>4 DEF Reachable
    <3>5. Claimed(n) \/ tools[n] = Nobody
          BY <3>1 DEF Reachable
    <3>6. plugins[n] # None => tools[n] = Plugin(plugins[n])
          BY <3>1 DEF Reachable
    <3> QED BY <3>3, <3>4, <3>5, <3>6 DEF Claimed
  <2>9. OneClaimantIsReachable
        BY <2>8 DEF OneClaimantIsReachable
  <2>10. AdaptersFollowServers
         BY DEF IInv, ServersSound
  <2> QED BY <2>7, <2>9, <2>10 DEF RegistryAgrees
<1> QED BY <1>1, Invariance, PTL

\* A circuit opens on a run of failures, and lets no request out for its
\* recovery time, whatever answers to earlier requests arrive meanwhile:
\* _trip_circuit_breaker and _check_circuit_breaker of MCPProxyTool.
THEOREM CircuitKeepsQuiet == Spec => CircuitHolds
<1>1. IInv /\ [Next]_vars => IInv' /\ Quiet /\ Trips
      BY StepSound, StutterSound
<1>2. Spec => QuietAfterTrip
      BY <1>1, Invariance, PTL DEF Spec, Quiet, QuietAfterTrip
<1>3. Spec => TripsOnARun
      BY <1>1, Invariance, PTL DEF Spec, Trips, TripsOnARun
<1> QED BY <1>2, <1>3 DEF CircuitHolds

\* The counters agree with what happened, whatever the limits: every request is
\* in the metrics of its plugin once, none is counted that was not sent, and no
\* window lets more than twice its limit of registrations through:
\* PluginRateLimiter.check_rate_limit and execute of MCPProxyTool.
THEOREM CountersAreTrue == Spec => []CountersAgree
<1>1. Spec => [](IInv /\ Bounds)
  <2>1. IInv /\ Bounds /\ [Next]_vars => (IInv /\ Bounds)'
        BY StepSound, StutterSound, BoundsStep
  <2> QED BY <2>1, InitSound, InitBounds, PTL DEF Spec
<1>2. IInv /\ Bounds => CountersAgree
  <2> SUFFICES ASSUME IInv, Bounds PROVE CountersAgree
      OBVIOUS
  <2>1. TypeOK
        BY BoundsTyped
  <2>2. CallsAccounted
        BY DEF IInv, CallsSound, Counted, Posting, CallsAccounted
  <2>3. AtMostTwiceTheLimit
    <3> SUFFICES ASSUME NEW t \in Tenants, NEW i \in 1..Len(admitted[t]) - 2 * MaxRegistrations
                 PROVE  admitted[t][i + 2 * MaxRegistrations] - admitted[t][i] > Minute
        BY DEF AtMostTwiceTheLimit
    <3>a. PICK a \in Seq(0..MaxTime) : a = admitted[t]
          BY DEF Bounds, Limited
    <3>n. PICK n \in Nat : n = Len(a)
          OBVIOUS
    <3>m. PICK m \in Nat : m = 2 * MaxRegistrations
          BY HubAssumption
    <3>1. /\ MaxTime \in Nat /\ Minute \in Nat
          BY HubAssumption
    <3>2. a[i] + Minute < a[i + m]
          BY <3>a, <3>m DEF Bounds, Limited, Window
    <3>3. i \in 1..n /\ i + m \in 1..n
          BY ONLY <3>a, <3>n, <3>m, i \in 1..Len(admitted[t]) - 2 * MaxRegistrations
    <3>4. PICK u \in Nat, v \in Nat : u = a[i] /\ v = a[i + m]
          BY ONLY <3>1, <3>3, <3>n, a \in Seq(0..MaxTime)
    <3>5. u + Minute < v
          BY ONLY <3>2, <3>4
    <3>6. v - u > Minute
          BY ONLY <3>1, <3>5, u \in Nat, v \in Nat
    <3> QED BY ONLY <3>4, <3>6, <3>a, <3>m
  <2> QED BY <2>1, <2>2, <2>3 DEF CountersAgree
<1> QED BY <1>1, <1>2, PTL
=============================================================================
