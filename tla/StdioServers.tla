---------------------------- MODULE StdioServers ----------------------------
(***************************************************************************)
(* StdioMCPManager (src/services/mcp/stdio_manager.py) and its three       *)
(* mixins for one tenant: registration, restart and removal of stdio MCP   *)
(* servers, tool execution with recovery, the health loop, and the file    *)
(* from which the servers are restored when the gateway boots.             *)
(*                                                                         *)
(* Nothing of the manager is under a lock.  Every request, the health loop *)
(* and the restore at boot are coroutines of one event loop; they act on   *)
(* the same server objects and interleave wherever they await: a process   *)
(* that is spawned and initialized, tools/list, a process that is being    *)
(* terminated, a tool call.  Each such place is a value of "at".           *)
(*                                                                         *)
(* server.process is never assigned by the code, so the branches that      *)
(* terminate it are dead and left out.  A process is its index in procs.   *)
(***************************************************************************)
EXTENDS Naturals, Sequences, FiniteSets

CONSTANTS Names,          \* server names of the tenant
          Covers,         \* per name those whose adapters begin with its prefix, mcp_{name}_
          Requests,       \* coroutines of REST requests and tool calls
          Health, Boot,   \* the health loop and restore_persisted_servers
          MaxRestarts,    \* _max_restart_attempts, the literal 5
          MaxServers,     \* bound on the server objects of a behaviour
          MaxProcesses,   \* bound on the processes of a behaviour
          MaxBoots,       \* bound on the restarts of the gateway
          MaxCancels      \* bound on the tool calls that are cancelled

ASSUME ServersAssumption ==
    /\ Covers \in [Names -> SUBSET Names] /\ \A n \in Names : n \in Covers[n]
    /\ Health # Boot /\ {Health, Boot} \cap Requests = {}
    /\ MaxRestarts \in Nat /\ MaxServers \in Nat /\ MaxProcesses \in Nat
    /\ MaxBoots \in Nat /\ MaxCancels \in Nat

VARIABLES
    objects,   \* every StdioMCPServer made: name, status, protocol, tools, restarts
    servers,   \* self._tenant_servers[tenant]: per name the index of its object, or 0
    dict,      \* which dict that is: it is replaced when it becomes empty
    procs,     \* per process whether it is alive
    adapters,  \* names whose adapters the tenant's adapter registry has
    tools,     \* names whose tools the global tool registry has
    saved,     \* stdio_servers.json; none for a file that holds no JSON
    job,       \* per coroutine: what it does, where it is and what it holds
    healthOn,  \* the health loop has been started
    boots,     \* restarts of the gateway
    cancels,   \* tool calls cancelled
    wanted,    \* history: names registered on request and not removed since
    overlap,   \* history: work was begun on an object that another coroutine was
               \* at work on, or that was registered no longer
    torn,      \* history: the last save has failed
    dropped,   \* history: names that a boot did not find, start or get to
    taken      \* history: names whose adapters went with those of another server

registry == <<objects, servers, dict>>
toolsets == <<adapters, tools, taken>>
file     == <<saved, torn>>
bounds   == <<boots, cancels>>
wishes   == <<wanted, dropped>>
serversVars == <<registry, procs, toolsets, file, job, healthOn, bounds, wishes, overlap>>

Coroutines == Requests \cup {Health, Boot}
Idle == [op |-> "none", at |-> "idle", obj |-> 0, proc |-> 0, dict |-> 0, todo |-> {}]

Statuses == {"starting", "running", "stopping", "error", "restarting"}
Ops      == {"none", "register", "unregister", "health", "recover", "retry"}
Places   == {"idle", "closing", "spawning", "listing", "calling", "between"}

ServersTypeOK ==
    /\ objects \in Seq([name : Names, status : Statuses, protocol : 0..MaxProcesses,
                        tools : BOOLEAN, restarts : 0..MaxRestarts])
    /\ servers \in [Names -> 0..Len(objects)]
    /\ dict \in Nat
    /\ procs \in Seq(BOOLEAN) /\ Len(procs) <= MaxProcesses
    /\ adapters \subseteq Names /\ tools \subseteq Names /\ taken \subseteq Names
    /\ saved \subseteq Names
    /\ job \in [Coroutines -> [op : Ops, at : Places, obj : 0..Len(objects), proc : 0..Len(procs),
                             dict : Nat, todo : SUBSET (Names \cup 1..Len(objects))]]
    /\ healthOn \in BOOLEAN /\ overlap \in BOOLEAN /\ torn \in BOOLEAN
    /\ boots \in 0..MaxBoots /\ cancels \in 0..MaxCancels
    /\ wanted \subseteq Names /\ dropped \subseteq Names

ServersInit ==
    /\ objects = << >>
    /\ servers = [n \in Names |-> 0]
    /\ dict = 0
    /\ procs = << >>
    /\ adapters = {} /\ tools = {} /\ taken = {}
    /\ saved = {} /\ torn = FALSE
    /\ job = [j \in Coroutines |-> Idle]
    /\ healthOn = FALSE
    /\ boots = 0 /\ cancels = 0
    /\ wanted = {} /\ dropped = {}
    /\ overlap = FALSE

Running(p) == p # 0 /\ procs[p]
Registered == {n \in Names : servers[n] # 0}
Busy(o)    == {j \in Coroutines : job[j].obj = o /\ job[j].at \in {"closing", "spawning", "listing"}}
NameOf(j)  == objects[job[j].obj].name

\* A request ends; the health loop and the restore go on with what is left.
EndOf(r)   == IF r.todo = {} THEN Idle ELSE [Idle EXCEPT !.at = "between", !.todo = r.todo]
Ends(j)    == job' = [job EXCEPT ![j] = EndOf(@)]

SetStatus(o, s) == objects' = [objects EXCEPT ![o].status = s]
Watch(o)   == overlap' = (overlap \/ Busy(o) # {} \/ servers[objects[o].name] # o)

-----------------------------------------------------------------------------
(* Parts of the handlers, without an await in them.                        *)

\* Mutant: the file is not written.
Save_Skipped == UNCHANGED file

\* _save_tenant_servers: opening the file empties it.  An error is logged and
\* no more, before (the old file is still there) or after that (what is there
\* is no JSON).
Save ==
    \/ saved' = {n \in Names : servers'[n] # 0} /\ torn' = FALSE
    \/ saved' \in {saved, {}} /\ torn' = TRUE

\* _register_mcp_tools: only adapters that are new reach the tool registry.
AddTools(n) ==
    /\ adapters' = adapters \cup {n}
    /\ tools' = IF n \in adapters THEN tools ELSE tools \cup {n}
    /\ taken' = taken \ {n}

\* unregister_adapters: every adapter goes that begins with the prefix.
RemoveAdapters(n) ==
    /\ adapters' = adapters \ Covers[n]
    /\ taken' = (taken \cup (adapters \cap Covers[n])) \ {n}

\* Mutant: the tool registry is forgotten.
RemoveTools_Partial(o) == RemoveAdapters(objects[o].name) /\ UNCHANGED tools

\* Mutant: the tool registry loses what the adapter registry loses.
RemoveTools_Covered(o) ==
    /\ RemoveAdapters(objects[o].name)
    /\ tools' = IF objects[o].tools THEN tools \ Covers[objects[o].name] ELSE tools

\* _unregister_mcp_tools: the tool registry loses what this object listed.
RemoveTools(o) ==
    /\ RemoveAdapters(objects[o].name)
    /\ tools' = IF objects[o].tools THEN tools \ {objects[o].name} ELSE tools

\* Mutant: the old process is not terminated.
BeginRestart_NoClose(j, o, op) ==
    /\ objects' = [objects EXCEPT ![o].status = "restarting",
                                  ![o].restarts = IF @ < MaxRestarts THEN @ + 1 ELSE @]
    /\ job' = [job EXCEPT ![j].op = op, ![j].obj = o, ![j].at = "spawning"]
    /\ RemoveTools(o)

\* _restart_server up to its first await: closing a live process waits for it.
\* restart_count is only ever compared with MaxRestarts and saturates there.
BeginRestart(j, o, op) ==
    /\ objects' = [objects EXCEPT ![o].status = "restarting",
                                  ![o].restarts = IF @ < MaxRestarts THEN @ + 1 ELSE @]
    /\ IF Running(objects[o].protocol)
       THEN /\ job' = [job EXCEPT ![j].op = op, ![j].obj = o, ![j].at = "closing",
                                  ![j].proc = objects[o].protocol]
            /\ UNCHANGED toolsets
       ELSE /\ job' = [job EXCEPT ![j].op = op, ![j].obj = o, ![j].at = "spawning"]
            /\ RemoveTools(o)

\* The end of unregister_server.  The entry is deleted by name, whatever
\* object is there by now; without one, KeyError ends the request.
RemoveEntry(j, o, held) ==
    /\ RemoveTools(o)
    /\ job' = [job EXCEPT ![j] = Idle]
    /\ IF held = dict /\ servers[objects[o].name] # 0
       THEN /\ servers' = [servers EXCEPT ![objects[o].name] = 0]
            /\ dict' = IF Registered = {objects[o].name} THEN dict + 1 ELSE dict
            /\ Save
       ELSE UNCHANGED <<servers, dict, file>>

-----------------------------------------------------------------------------
(* register_server and restore_persisted_servers                           *)

\* The name is free: the object is entered before anything is started.
Register(j, n) ==
    /\ servers[n] = 0
    /\ Len(objects) < MaxServers
    /\ objects' = Append(objects, [name |-> n, status |-> "starting", protocol |-> 0,
                                   tools |-> FALSE, restarts |-> 0])
    /\ servers' = [servers EXCEPT ![n] = Len(objects) + 1]
    /\ job' = [job EXCEPT ![j] = [op |-> "register", at |-> "spawning", obj |-> Len(objects) + 1,
                                  proc |-> 0, dict |-> dict, todo |-> @.todo \ {n}]]
    /\ UNCHANGED <<dict, procs, toolsets, file, healthOn, bounds, wishes, overlap>>

\* The gateway serves requests once the restore is over.
Serving(j) == j \in Requests /\ job[j].at = "idle" /\ job[Boot].at = "idle"

RegisterRequest(j, n) == Serving(j) /\ Register(j, n)

RestoreNext(n) == job[Boot].at = "between" /\ n \in job[Boot].todo /\ Register(Boot, n)

-----------------------------------------------------------------------------
(* _start_server, on behalf of a registration or of a restart              *)

\* initialize_server: the process runs and has answered initialize.
Spawned(j) ==
    /\ job[j].at = "spawning"
    /\ Len(procs) < MaxProcesses
    /\ procs' = Append(procs, TRUE)
    /\ objects' = [objects EXCEPT ![job[j].obj].protocol = Len(procs) + 1,
                                  ![job[j].obj].status = "running"]
    /\ job' = [job EXCEPT ![j].at = "listing", ![j].proc = Len(procs) + 1]
    /\ UNCHANGED <<servers, dict, toolsets, file, healthOn, bounds, wishes, overlap>>

\* What execute_tool does when its restart has ended: the first time it asks
\* for the status, the second time it calls without asking.
Continue(j, status) ==
    job' = [job EXCEPT ![j] =
        IF @.op = "retry" \/ (@.op = "recover" /\ status = "running")
        THEN [@ EXCEPT !.at = "calling", !.proc = objects[job[j].obj].protocol]
        ELSE EndOf(@)]

\* list_tools answers, and the tools are registered.
Listed(j) ==
    /\ job[j].at = "listing"
    /\ Running(job[j].proc)
    /\ objects' = [objects EXCEPT ![job[j].obj].tools = TRUE]
    /\ AddTools(NameOf(j))
    /\ Continue(j, objects[job[j].obj].status)
    /\ UNCHANGED <<servers, dict, procs, bounds, overlap>>
    /\ IF job[j].op = "register"
       THEN /\ Save
            /\ healthOn' = TRUE
            /\ wanted' = IF j \in Requests /\ servers[NameOf(j)] = job[j].obj
                         THEN wanted \cup {NameOf(j)} ELSE wanted
            /\ dropped' = dropped \ {NameOf(j)}
       ELSE UNCHANGED <<file, healthOn, wishes>>

\* Mutants: a failed start leaves the status as it is; a status nobody knows.
StartFailure_KeepsStatus(o) == UNCHANGED objects
StartFailure_Misspelt(o) == SetStatus(o, "failed")

StartFailure(o) == SetStatus(o, "error")

\* The process does not start (initialize_server then closes it), or tools/list
\* fails (nothing closes it).  A registration deletes its entry and saves
\* nothing; a restart swallows the exception.
StartFails(j) ==
    /\ job[j].at \in {"spawning", "listing"}
    /\ StartFailure(job[j].obj)
    /\ servers' = IF job[j].op = "register" /\ job[j].dict = dict
                  THEN [servers EXCEPT ![NameOf(j)] = 0] ELSE servers
    /\ Continue(j, "error")
    /\ dropped' = IF j = Boot THEN dropped \cup {NameOf(j)} ELSE dropped
    /\ UNCHANGED <<dict, procs, toolsets, file, healthOn, bounds, wanted, overlap>>

-----------------------------------------------------------------------------
(* unregister_server, and the end of a close()                             *)

Unregister(j, n) ==
    /\ Serving(j)
    /\ servers[n] # 0
    /\ LET o == servers[n] IN
         /\ SetStatus(o, "stopping")
         /\ Watch(o)
         /\ IF Running(objects[o].protocol)
            THEN /\ job' = [job EXCEPT ![j] = [op |-> "unregister", at |-> "closing", obj |-> o,
                                               proc |-> objects[o].protocol, dict |-> dict,
                                               todo |-> {}]]
                 /\ UNCHANGED <<servers, dict, toolsets, file>>
            ELSE RemoveEntry(j, o, dict)
    /\ wanted' = wanted \ {n}
    /\ UNCHANGED <<procs, healthOn, bounds, dropped>>

\* The process has ended, or was killed after five seconds.
CloseEnds(j) ==
    /\ job[j].at = "closing"
    /\ procs' = [procs EXCEPT ![job[j].proc] = FALSE]
    /\ IF job[j].op = "unregister"
       THEN RemoveEntry(j, job[j].obj, job[j].dict)
       ELSE /\ RemoveTools(job[j].obj)
            /\ job' = [job EXCEPT ![j].at = "spawning"]
            /\ UNCHANGED <<servers, dict, file>>
    /\ UNCHANGED <<objects, healthOn, bounds, wishes, overlap>>

-----------------------------------------------------------------------------
(* execute_tool                                                            *)

\* A server in ERROR is restarted first, whatever its restart budget.
Execute(j, n) ==
    /\ Serving(j)
    /\ servers[n] # 0
    /\ LET o == servers[n] IN
         \/ /\ objects[o].status = "error"
            /\ BeginRestart(j, o, "recover")
            /\ Watch(o)
         \/ /\ objects[o].status = "running"
            /\ job' = [job EXCEPT ![j] = [Idle EXCEPT !.op = "recover", !.at = "calling", !.obj = o,
                                                      !.proc = objects[o].protocol]]
            /\ UNCHANGED <<objects, toolsets, overlap>>
    /\ UNCHANGED <<servers, dict, procs, file, healthOn, bounds, wishes>>

\* A result, or an exception that is no MCPProtocolError.
CallEnds(j) ==
    /\ job[j].at = "calling"
    /\ Ends(j)
    /\ UNCHANGED <<registry, procs, toolsets, file, healthOn, bounds, wishes, overlap>>

\* MCPProtocolError - a broken pipe, a timeout, but also an error answer,
\* for MCPRequestError is one: restart and call again, once.
CallBreaks(j) ==
    /\ job[j].at = "calling"
    /\ IF job[j].op = "recover"
       THEN BeginRestart(j, job[j].obj, "retry") /\ Watch(job[j].obj)
       ELSE Ends(j) /\ UNCHANGED <<objects, toolsets, overlap>>
    /\ UNCHANGED <<servers, dict, procs, file, healthOn, bounds, wishes>>

\* The tool worker's wait_for cancels the call wherever it is.  No handler
\* catches CancelledError: a process that was being spawned lives on.
Cancel(j) ==
    /\ job[j].op \in {"recover", "retry"}
    /\ cancels < MaxCancels
    /\ cancels' = cancels + 1
    /\ job' = [job EXCEPT ![j] = Idle]
    /\ \/ /\ job[j].at = "closing"
          /\ procs' = [procs EXCEPT ![job[j].proc] = FALSE]
       \/ /\ job[j].at = "spawning"
          /\ Len(procs) < MaxProcesses
          /\ procs' = Append(procs, TRUE)
       \/ /\ job[j].at # "closing"
          /\ UNCHANGED procs
    /\ UNCHANGED <<registry, toolsets, file, healthOn, boots, wishes, overlap>>

-----------------------------------------------------------------------------
(* The health loop: _check_all_servers                                     *)

\* Mutant: only servers in ERROR are looked at.
Down_ErrorOnly(o) == objects[o].status = "error" /\ ~Running(objects[o].protocol)

Down(o) == objects[o].status \in {"running", "error"} /\ ~Running(objects[o].protocol)

\* One pass from the start, or from where a restart was awaited, up to the
\* next server that is restarted.  Those whose budget is spent stay in ERROR.
HealthCheck ==
    /\ healthOn
    /\ job[Health].at \in {"idle", "between"}
    /\ LET list == IF job[Health].at = "idle" THEN {servers[n] : n \in Registered}
                   ELSE job[Health].todo
           down == {o \in list : Down(o)}
           due  == {o \in down : objects[o].restarts < MaxRestarts}
       IN \/ /\ due = {}
             /\ down # {} \/ job[Health].at = "between"
             /\ objects' = [o \in 1..Len(objects) |->
                               IF o \in down THEN [objects[o] EXCEPT !.status = "error"] ELSE objects[o]]
             /\ job' = [job EXCEPT ![Health] = Idle]
             /\ UNCHANGED <<toolsets, overlap>>
          \/ \E o \in due :
             /\ \A x \in due : o <= x
             /\ objects' = [x \in 1..Len(objects) |->
                   IF x = o THEN [objects[x] EXCEPT !.status = "restarting", !.restarts = @ + 1]
                   ELSE IF x \in down /\ x < o THEN [objects[x] EXCEPT !.status = "error"] ELSE objects[x]]
             /\ RemoveTools(o)
             /\ Watch(o)
             /\ job' = [job EXCEPT ![Health] = [Idle EXCEPT !.op = "health", !.at = "spawning",
                                                   !.obj = o, !.todo = {x \in list : x > o}]]
    /\ UNCHANGED <<servers, dict, procs, file, healthOn, bounds, wishes>>

-----------------------------------------------------------------------------
(* The environment.                                                        *)

Crash(p) ==
    /\ procs[p]
    /\ procs' = [procs EXCEPT ![p] = FALSE]
    /\ UNCHANGED <<registry, toolsets, file, job, healthOn, bounds, wishes, overlap>>

\* The names the restore at boot has not started yet.
ToRestore == job[Boot].todo \cup (IF job[Boot].op = "register" THEN {NameOf(Boot)} ELSE {})

\* The gateway stops or crashes, with its subprocesses, and boots again.
Reboot ==
    /\ boots < MaxBoots
    /\ boots' = boots + 1
    /\ objects' = << >>
    /\ servers' = [n \in Names |-> 0]
    /\ dict' = 0
    /\ procs' = << >>
    /\ adapters' = {} /\ tools' = {} /\ taken' = {}
    /\ job' = [j \in Coroutines |-> IF j = Boot THEN EndOf([Idle EXCEPT !.todo = saved]) ELSE Idle]
    /\ healthOn' = FALSE
    /\ overlap' = FALSE /\ torn' = FALSE
    /\ dropped' = dropped \cup ToRestore \cup (IF torn \/ overlap THEN wanted \ saved ELSE {})
    /\ UNCHANGED <<saved, cancels, wanted>>

Step(j) == Spawned(j) \/ Listed(j) \/ StartFails(j) \/ CloseEnds(j) \/ CallEnds(j) \/ CallBreaks(j)

ServersNext ==
    \/ \E j \in Requests, n \in Names : RegisterRequest(j, n) \/ Unregister(j, n) \/ Execute(j, n)
    \/ \E n \in Names : RestoreNext(n)
    \/ \E j \in Coroutines : Step(j)
    \/ \E j \in Requests : Cancel(j)
    \/ HealthCheck
    \/ \E p \in 1..Len(procs) : Crash(p)
    \/ Reboot

ServersSpec == ServersInit /\ [][ServersNext]_serversVars

(* The health loop wakes up every 30 seconds, and everything a coroutine   *)
(* awaits ends: reads time out, close kills after five seconds, and no     *)
(* subprocess writes noise without end (StdioProtocol!NoiseEnds).          *)
ServersFairness == WF_serversVars(HealthCheck) /\ \A j \in Coroutines : WF_serversVars(Step(j))

ServersFairSpec == ServersSpec /\ ServersFairness

-----------------------------------------------------------------------------
(* Properties.                                                             *)

\* Work was only ever begun on registered servers that nobody else was at
\* work on, and no call was cancelled.
Calm == ~overlap /\ cancels = 0

\* A registered server is never left in a passing state: if it is STARTING,
\* RESTARTING or STOPPING some coroutine is at work on it, however restarts,
\* removals and the health loop overlap.  The health loop skips all three,
\* so a server left there would never recover.  (A cancelled call can.)
Attended ==
    cancels = 0 => \A n \in Registered :
        objects[servers[n]].status \in {"starting", "restarting", "stopping"} =>
            Busy(servers[n]) # {}

\* No process is leaked when operations do not overlap: a live process is
\* that of a registered server, or it is left from a registration whose
\* tools/list failed.
ProcessesAccounted ==
    Calm => \A p \in 1..Len(procs) : procs[p] =>
        \/ \E n \in Registered : objects[servers[n]].protocol = p
        \/ \E o \in 1..Len(objects) :
              objects[o].protocol = p /\ objects[o].status = "error" /\ o # servers[objects[o].name]

\* The tools the agent sees are those of the registered servers that have
\* started: a server that runs and is not being worked on has its tools in
\* the registry, and the registry has tools of registered servers only.  The
\* tenant's adapters are the same, but for those that were taken along when a
\* server ended or restarted whose name is a prefix of theirs.
ToolsMatchServers ==
    Calm => /\ tools \subseteq Registered
            /\ tools = adapters \cup taken /\ adapters \cap taken = {}
            /\ \A n \in Registered :
                  objects[servers[n]].status = "running" /\ Busy(servers[n]) = {} => n \in tools

\* Status, processes and tools of the servers agree, however registrations,
\* removals, restarts and the health loop overlap, each as far as it goes.
ServersAccounted == ServersTypeOK /\ Attended /\ ProcessesAccounted /\ ToolsMatchServers

\* A server that was registered, and not removed since, is in the file, over
\* any number of boots, unless the last save failed.  While it restores, a boot
\* still has to get to some; it drops those that do not start, those it is
\* stopped before, and those that a failed save has left out of the file.
WantedIsSaved == Calm /\ ~torn => wanted \subseteq saved \cup dropped \cup ToRestore

Lost(n)      == /\ n \in Registered
                /\ objects[servers[n]].status \in {"running", "error"}
                /\ ~Running(objects[servers[n]].protocol)
Recovered(n) == n \in Registered /\ Running(objects[servers[n]].protocol)
Exhausted(n) == Lost(n) /\ objects[servers[n]].restarts = MaxRestarts

\* Automatic recovery: a server whose process died is running again, or was
\* removed, or is down again with its restarts used up.
Recovers ==
    \A n \in Names : Lost(n) ~> Recovered(n) \/ n \notin Registered \/ Exhausted(n) \/ cancels > 0

\* stdio_lifecycle.py:179 "Restore all persisted servers across all tenants on
\* boot": no boot drops a server that was registered and never removed.
NothingForgotten == wanted \subseteq saved
=============================================================================
