# A TLA+ model of Project Kernel Runtime

The repository is a Python runtime for LLM agents: a FastAPI gateway accepts
chat messages, a *brain* worker calls the model, a *tool* worker executes the
tool calls the model asks for, and the two go round until the model answers.
This directory models the parts of it whose correctness depends on order,
concurrency and failure, checks them with TLC and proves results about them
with TLAPS. Source paths below are relative to `src/src/` of the repository.

## 1. Inventory

| Component | State it keeps | Operations | Talks to | What makes it correct |
|---|---|---|---|---|
| Circuit breaker `infrastructure/resilience/circuit_breaker.py` | state, two counters, time of the last failure | `can_execute`, `record_success`, `record_failure` | called around model and database calls | opens on a run of failures, closes on enough probes, never stuck |
| Durable broker `infrastructure/queue/redis_streams_broker/` | stream queues, channel queues, `_pending`, `_completed`, `_dlq` | `publish`, `subscribe`, `subscribe_channel` | everything | each message in one place, retried at most twice, settled in the end; channels in order |
| Agent loop `services/agent_loop/` | task iteration count, messages, approvals (database); the two queues | `process_task_event`, `process_tool_event` | broker, database, model, tools | never stops silently, one chain per task, histories complete, only authorised calls run |
| Chat and task endpoints `api/rest/routers/chat.py`, `tasks.py` | session context, approval status | send, dispatch, approve, history | broker, database | one decision per approval, shadow mode respected |
| Governance `services/governance/policy_engine.py` | none | `assert_action_allowed` | tool worker | asks before it allows |
| Stdio MCP protocol `services/mcp/stdio_protocol.py`, `stdio_writer.py` | request id, lock, pipes | `initialize`, `list_tools`, `call_tool`, `ping`, `close` | subprocess | the answer is that of the request as long as nobody left without one, the lock is released |
| Stdio MCP servers `services/mcp/stdio_{lifecycle,health,execution,spawner,manager}.py` | server table, server objects, tool registries, a JSON file | register, unregister, execute, restart, health check, restore | protocol, tool registry, file system | no leaked process, tools match servers, crashed servers recover, nothing persisted is lost |
| Message log `services/memory/context_builder.py`, `api/rest/routers/sessions.py` | messages with sequence numbers | `persist_message`, `build_llm_context`, history, create, fork | database | order, window and fork as described |
| Database sessions `infrastructure/db/session.py` | connections | session begin, commit, rollback | all handlers | isolation |
| Context manager `services/memory/context/` | cache, LRU order, dirty set, windows, one lock | load, add, summarize, checkpoint, flush, clear, evict | message log | what is accepted is cached or stored, or was lost in a known way |
| Session settings and secrets `api/rest/routers/{session_config,settings,github_auth}.py`, `services/agent_loop/brain/config_loader.py`, `tools/knowledge/memory_updater.py`, `infrastructure/security/crypto.py` | two JSON columns: the context of a session, the models of a tenant | patch, connect, remember, add and remove models | database, GitHub | no acknowledged change is undone by a request about something else; each secret is decrypted as often as it was encrypted |
| Virtual file system `infrastructure/storage/gvfs/`, `api/rest/routers/git_mount_*.py` | mount objects, stored changes, state file, clone | mount, unmount, read, write, delete, commit | git, disk | a write is not lost by remounts, crashes or commits; a commit has every loaded change that could be copied; the shared lock is released |
| Rate limiters `infrastructure/resilience/rate_limiter.py`, `services/mcp/mcp_rate_limiter.py` | windows, counters | check | endpoints, MCP hub | the limit holds |
| Authentication `api/rest/routers/auth.py`, `infrastructure/auth/jwt_auth.py` | users, the signing key | register, login, refresh, decode | database, every endpoint | who registered can log in; a token is of its tenant |
| MCP hub and proxy `services/mcp/mcp_*.py`, `tools/registry.py`, `tools/stdio_adapter_registry.py` | tool registry, plugin tables, windows, a circuit per plugin | discover, register, unregister, execute | rate limiter, HTTP endpoints | a name stands for who claimed it; metrics and circuit agree with the calls |
| Tool router, sandboxes, delegation `services/tool_execution/`, `infrastructure/sandbox/`, `tools/orchestration/` | a lock per MCP server, jobs, containers, processes, the git index | execute, cancel, delegate | cluster, operating system, git | one call at a time per server, what is left running has a known cause, reports that are true |
| Workspaces and folders `api/rest/routers/{workspace,folders,session_workspaces}.py` | rows and directories | create, clone, import, delete, upload | disk, GVFS | row and directory agree |
| Event streams `api/rest/routers/{task,state}_stream.py`, web UI | subscriptions | bridge | broker | the client learns the outcome |
| Billing, observability, other tools, semantic memory, deployment | - | - | - | not stateful in the sense of this project |

The hard behaviours: everything runs on one asyncio event loop, so coroutines
interleave at each `await` and there is hardly a lock in the code; handlers
publish before they commit; the broker retries handlers that are not
idempotent; tool calls are cancelled by `wait_for` and no handler expects
`CancelledError`; subprocesses die at any time; the gateway reboots and
restores part of its state from disk. `PROJECT.json` lists the hazards with
their lines and the properties aimed at them.

## 2. Modules

| Module | Models | Checked by |
|---|---|---|
| `CircuitBreaker` | one breaker and the callers that share it | `MCCircuitBreaker`: `breaker` |
| `MessageLifecycle` | abstract: what a durable stream promises of a message | refined by `LocalBroker` |
| `LocalBroker` | `LocalDurableBroker`, one topic | `MCLocalBroker`: `broker` |
| `AgentLoop` | endpoints, brain worker, tool worker, the two queues, the database | `MCAgentLoop`: `loop` |
| `StdioProtocol` | one `MCPStdioProtocol` and its subprocess | `MCStdioProtocol`: `stdio_protocol` |
| `StdioServers` | `StdioMCPManager` for one tenant | `MCStdioServers`: `stdio_servers` |
| `Gvfs` | `GitVirtualFileSystem` for one session, with its disk and git | `MCGvfs`: `gvfs` |
| `MessageLog` | the table of messages and the transactions that write it | with the next one |
| `ContextManager` | extends `MessageLog`: the context cache composed with all other writers of the table | `MCContextManager`: `conversation`, `conversation_turns` |
| `ToolSandbox` | router, multiplexer, executors, git tools and sub-agents | `MCToolSandbox`: `sandbox` |
| `McpHub` | tool registry with its three writers, plugins, their limiters and circuits | `MCMcpHub`: `plugins` |
| `SessionContext` | the JSON columns of a session and its tenant, with the secrets in them | `MCSessionContext`: `sessions` |
| `Admission` | registrations, logins, tokens and the limit on chats | `MCAdmission`: `admission` |
| `LocalBrokerProofs`, `ConversationProofs`, `StdioProofs`, `ToolSandboxProofs`, `SessionContextProofs`, `McpHubProofs`, `GvfsProofs`, `AdmissionProofs` | the theorems about the module each extends; `ConversationProofs` extends both `AgentLoop` and `ContextManager` (and so `MessageLog`), `AdmissionProofs` `CircuitBreaker` too, and `StdioProofs` both `StdioProtocol` and `StdioServers`, so that the second specification of each is called `ConversationSpec`, `BreakerSpec` and `ServersSpec`, and so on (section 4) | TLAPS |

**Atomicity.** A step of a model is what a coroutine does between two places
where it can really be suspended. A method under an `asyncio.Lock` without an
inner `await` is one step (`CircuitBreaker`); taking a message up to the call
of the callback is one step (`LocalBroker`); each model call, tool execution and
commit ends a step (`AgentLoop`); closing, spawning, listing and calling are
places (`StdioServers`); so are the opening and the closing of each file, and git
(`Gvfs`); a database transaction is its reading and its commit (`MessageLog`,
`SessionContext`, `Admission`), each command to Redis is a step (`Admission`), and
each phase of a tool call is one await (`ToolSandbox`, `McpHub`).

**State and actions.** Variables have the names of the attributes they stand
for; those marked *history* in the declarations exist only in the model and
are never read by a guard. Each action carries the name of the code's method
or of the event in it; `PROJECT.json` maps every definition to its lines.
Definitions whose name ends in `_Something` and that are announced as a
*Mutant* are plausible bugs: each property is shown to fail when one of them
replaces the definition it mutates.

### CircuitBreaker
`call[c]` is the place of a caller in `async_wrapper`. Results are recorded
after an `await`, so late results meet a breaker that has moved on. The clock is
reduced to the one comparison made with it; counters saturate above all
thresholds (`CountCap`), which changes no comparison.

### LocalBroker and MessageLifecycle
`holds[c]` is the message in the local variable of a consumer's coroutine.
`CancelConsumer` is the `CancelledError` branch: what the consumer held is in
`lost`. The abstract specification has a phase and a failure count per
message and no queue; `ImplementsLifecycle` is the refinement, with `phase`
computed from the broker's own sets.

### AgentLoop
The brain's open transaction is `brain.txn`: it becomes visible with `BrainCommits` and is
dropped by `BrainRaises` and `BrainCommitFails`. The order *publish, then commit* of the code is
the order of the steps. A handler that raises gives its message back to the broker (`PutBack`,
`Buried`: the broker's branch, composed here in the small). `dry_run` lives in the message,
which is why popping it survives a retry. `__approved__` is read from the arguments of the call,
whoever wrote it there: a call whose arguments the model itself filled in that way
(`Preapproved`) is not gated. Arguments that are valid JSON but no object (`NotObject`) raise
outside any `try` (`ToolBreaks`), and the broker retries the batch with the calls before it. The
histories `splits` and `broken` count what may begin a further chain of a task: a second request
of one reply, a second dispatch of one request, and such a batch. Sessions are assumed to have
connections of their own (PostgreSQL); with SQLite's `StaticPool` they share one, which is
listed as a hazard. The model's reply is any choice; calls are model values with the attributes
the code tells apart. Sessions are never deleted by the program, so the *session not found*
branches are unreachable and left out.

### StdioProtocol
`lock` is the queue of `asyncio.Lock`, head first. A line is an answer, any
other line with an id (a request of the server to its client, an error with `id: null`), a
notification or noise. Any line with an id ends the request: the ids are not compared.
The subprocess is external: it answers each request at most once, in any order, may write any
number of lines of the other kinds, and may die; a full pipe (`PipeLines`) blocks it.

### StdioServers
`objects` are the `StdioMCPServer` instances ever made; `servers` is the tenant's
dict, whose identity is `dict` since the code replaces it when it becomes empty
and coroutines hold on to the old one. `job[j]` is a coroutine: what it is doing,
at which `await` it is, and the object, process and dict in its local
variables. `Reboot` ends everything but the file. Adapters are removed by the prefix
`mcp_{server}_`, so the end of `fs` takes those of `fs_local` along (`Covers`, history `taken`), while
the tool registry loses only what the object has listed. `Save` truncates the file before it
writes and swallows errors: it may leave the old file or one without JSON (`torn`). `dropped` are
the names that a boot did not find, did not start or did not get to.

### Gvfs
One session. `objs` are `SessionMount` objects, of which `mounted` is the one in `_mounts`; a
request goes on with the object it took. `store` is the directory of changed files, `state` is
`vfs_state.json`, `tree` and `head` are the clone. Opening a file for writing truncates it
(`StoreOpens`, `SaveOpens`), closing it makes its bytes visible (`StoreCloses`, `SaveCloses`); a
read has its bytes in one step and assigns them in a later one (`LoadReads`, `LoadAssigns`). A
content's git object name and its truncated SHA-256 are different values, as they are in the
code, so writing the original content back counts as a modification. git is external: a clone
needs an empty directory, `git add -A` and `git commit` are one step that may always fail. Every
file operation may also raise (`FileRaises`, `CleanUpRaises`, bounded with the crashes by
`MaxMishaps`): a change whose store failed stays in memory (`failed`), and the next save lists
it. Of a commit, an error in copying a file (`ApplyFails`) or in `git add` (`GitCommitsStaged`)
is looked at by nobody: `missed` are the paths it leaves out. `git clone` holds the shared lock
and may never end (`CloneBegins`, `CloneEnds`). The events that the routers publish after a
write or a delete are those of `LocalBroker` and are left out, as are branches, `commit_sha`,
sizes and the text of diffs. `Crash` keeps the disk. `late` are the paths that others have
worked on while a commit went on: all of them if that was another commit, or a clone into the
same directory. `promised[p]` is the content of the last write of a path that nothing disturbed,
until it is written or deleted again.

### MessageLog and ContextManager
`rows` is the table of messages: a set of rows, each with its place `at` in the order of the
commits; `msg` stands for a content, which a fork copies. `BySequence` is what the database may
return for a query by ascending sequence. A *writer* is a transaction with one `persist_message`: on
PostgreSQL (`Postgres`) it locks the row of the session between reading the
maximum and its commit. `ForkSession` selects by sequence number as the code does;
a fork of a session with a workspace always raises, for `prepare_workspaces` reads
attributes of dicts, and is no step. `ContextManager` extends the log: it composes the cache
with every other writer of the table. `busy` is the holder of `_lock` and the place
it has reached, a *loader* reads the table without that lock and puts what it read
into the cache later. In the program only two read-only endpoints call the manager;
the module drives all its public operations. A flush looks each recent message up by its number, and
the query writes out what was added before it: of two messages with one number only the first
is added (`Missing`).

### ToolSandbox
`call[c]` is the coroutine of a tool call: its tool, the phase (one per await), the
backend that runs it and what it will return. `job[c]` is what the execution has
started outside; a call that ends while its job exists leaves it to nobody, and
`orphans` says why: among the reasons is that killing the process of the local executor leaves
what it has started (`"descendants"`), a child of the shell or, with `USE_DOCKER_SANDBOX`, the
container of the docker client. Output is cut at `MAX_OUTPUT_SIZE`, so the scan of `git_commit` may
miss what comes later (`scan.cut`); a commit is made before its push, which may fail
(`CommitMade`). `WorkerTimeout` is the `wait_for` of the tool worker, the only way a
call is cancelled. A sub-agent is a call with `delegate`: the tools it runs go through a
router of its own, without governance. `git_clone` always raises a `TypeError` (it
passes a dict for a `SandboxConfig`) and the workspace in Kubernetes is read-only: both are
modelled as what they return. Only that a staged change is risky is kept of a
repository, for `git_commit` refuses nothing else. `BashExecuteTool.execute`, which the
router bypasses, `git_read` and the E2B adapter, which nothing uses, are left out.

### McpHub
The registry has one entry per name and three writers: discovery (once), the hub of HTTP
plugins, the adapters of stdio servers. `proxy[p]` is the `MCPProxyTool` object, which a call
goes on using after its name has been taken by another. A server unmounts by prefix in the
adapters and by its list in the registry; `Servers` and `Covered` say which names of one server
begin like those of another. The list is kept over a restart, and a server that is registered
anew has none. The operations of one server do not overlap here; that is what `StdioServers` is
about. Time is in ticks of the length that matters (`Minute` is both the window and the recovery
time). `POST /mcp/execute` changes nothing (no entry of the catalog has an `endpoint_url`); a
plugin named `bash_execute` is registered but never executed; `cleanup_old_entries` and
`validate_capabilities` have no caller, and the dashboard counts a status `error` that is never
set. `scope` is a bound: either all that happens to the registry, or all that happens to calls.

### SessionContext
`request[r]` holds the rows a handler loaded; its commit writes the whole column, with
what it loaded in all the other fields. A secret is the request that brought it with the
number of encryptions around it; `resolve` is what `_resolve_secret` does to it. The
readers (`LlmKey`, `SubAgentKey`, `TokenForRepos`, `TokenForGit`) are operators: what they
would answer is known in every state. `lock` is the `SELECT ... FOR UPDATE` of the memory
tool, which other handlers do not ask for.

### Admission
Tenants are named by the request that registered them. A registration looks for the e-mail,
hashes and commits; a check of the Redis limiter trims, counts and adds in three
commands with a time taken before the first. `Chat` uses Redis or no limiter, as the
dependency does; the limiter in memory is driven through the facade, which has no
caller in the program (neither have the decorator, `TenantAuthMiddleware`, the tenant
context and API keys). `setup` is a bound: the environments that differ.

## 3. Runs

Passing runs. A property whose name is followed by names in brackets is their
conjunction, with the type invariant of the module where it says so; each conjunct
is defined and commented on its own, and the mutants of the property break them one by
one.

| Run | Instance | Shows |
|---|---|---|
| `breaker` | `SANDBOX_CIRCUIT_BREAKER` (5, 3, 3), where the two half-open limits meet, 3 callers | `BreakerTypeOK`, `ClosedBelowThreshold`, `HalfOpenAdmits`, `ClosesAfterProbes`, and under fairness `Recovers` |
| `broker` | 2 messages, 1 permanent and 1 cancellable consumer, 1 channel subscriber, 3 attempts | `Accounted` (types, `PendingIsUnfinished`, `DeadAfterMaxAttempts`), `OnePlace`, `ChannelInOrder`, the refinement `ImplementsLifecycle`, `Settles` |
| `loop` | 1 task, 3 iterations, 2 attempts. Either replies with free, gated, forbidden, unknown, dry-run and preapproved calls, two gated calls, and arguments that are no object, 1 user and 2 database errors; or 2 users who decide on one request at once, a batch that breaks and 1 database error; or 2 users and the two requests of one reply | `NeverForgotten`, `OneChain`, `ContextComplete`, `RunsAreAccounted` (types, `RunsAreAuthorised`, `RunsArePaidFor`, `IterationsBounded`), `Resolves`, `AnnouncedIsSaved` |
| `stdio_protocol` | 2 callers and the starter, 4 requests, cap of 2 lines, a pipe of 3 lines, lines of all kinds without a bound | `AnswersAccounted` (types, `AnsweredOnce`, `MatchedUnlessAbandoned`, `OutOfStep`), `Released` |
| `stdio_servers` | health loop, 2 restarts allowed. Either 1 name with 2 requests, 2 objects and 3 processes; the same with a cancelled call and 2 processes, or with 1 object and 3 processes; 1 request over a boot; or `fs` and `fs_local`, 1 request over 2 boots | `ServersAccounted` (types, `Attended`, `ProcessesAccounted`, `ToolsMatchServers`), `WantedIsSaved`, `Recovers` |
| `gvfs` | 2 repositories, 2 concurrent requests out of 4, a tracked and a new path, 2 contents, 1 crash or file operation that raises | `ReadYourWrites`, `StateIsSound` (types, `StateIsBacked`), `CommitTakesLoadedChanges`, `LockReleased` |
| `conversation` | 2 sessions, 1 transaction, 1 loader, 3 messages, 3 places in the table (those before the last are not reused), a cache of 1, 2 recent messages | `Numbered` (`ZeroUntilManaged`, `OrderedUnlessRaced`), `LlmSeesTheEnd`, `MessagesAccounted` (types, `CleanIsStored`, `AcceptedAccounted`, `WrittenOnce`), `ForkKeepsPrefix` |
| `sandbox` | 3 calls of one MCP server: a command or sub-agent, a git tool, an MCP tool; inside and outside of a cluster | `OneCallPerResource`, `ResultsAreReal` (types, `OrphansExplained`, `SuccessIsReal`, `CommitsAreScanned`), `LockGivenBack` |
| `plugins` | 2 tenants, a built-in and a stdio name, 2 plugins, 3 ticks, with a stdio server or without; or 1 tenant with the servers `fs` and `fs_local`; or 1 tenant and 4 calls (2 of them multiplexed) | `RegistryAgrees` (`HubAgrees`, `OneClaimantIsReachable`, `AdaptersFollowServers`), `CountersAgree` (types, `CallsAccounted`, `AtMostTwiceTheLimit`), `CircuitHolds` (`QuietAfterTrip`, `TripsOnARun`) |
| `sessions` | any 3 requests (settings, chat, connect, disconnect, memory, models), one model id with a preset and one without, PostgreSQL and SQLite | `LostOnlyByOverlap`, `SecretsAreHandled` (types, `SecretsAreEncrypted`, `KeysAreUsable`, `TokenHasItsReaders`), `MemoryLosesNothing` |
| `admission` | any 4 requests, 1 e-mail, 2 passwords, limit 1, 3 ticks, 1 restart, each limiter and none | `RegisteredCanLogIn`, `WithinLimit` |

One run shows a disagreement between the code and its documentation:

| Run | Property | What happens |
|---|---|---|
| `conversation_turns` | `LastTurns` | "Pulls the last N conversation turns": with more than `max_turns` messages the newest may be left out, for the query keeps the lowest numbers and all are 0 |

**Statements the code does not keep.** The modules also state these as definitions,
which no run lists. TLC finds the counterexample described in the instance of the
module's run, with the constants named in brackets. They are behaviour of the code, not
of a bound.

| Statement | Counterexample |
|---|---|
| `CircuitBreaker.HalfOpenAdmits` (`DATABASE_CIRCUIT_BREAKER`: 3, 5, 3) | five successes are needed and three calls admitted: HALF_OPEN for ever |
| `AgentLoop.RetriggerOnlyWhenDecided`, of `tool_worker.py:172` (run `loop`) | two gated calls in one reply: the loop goes on after the first decision |
| `AgentLoop.ApprovalIsTheUsers`, of `chat.py:169` (run `loop`) | a restricted call whose own arguments hold `__approved__` runs without a user having seen it |
| `AgentLoop.DryRunNeverRuns`, of `tool_worker.py:127` | retried after a failed save, a dry run is executed for real, for the flag was popped from the message |
| `AgentLoop.ShadowNeverRuns`, of the composer's "Shadow mode" (two tasks of the session) | a later message of the session switches shadow mode off for a task under way |
| `StdioProtocol.OwnResponse`, of `stdio_protocol.py:7` | after a cancelled call the next one reads its answer, for ids are not compared; a request of the server to its client has the same effect |
| `StdioProtocol.ReleasedWhateverItWrites`, of the timeout of a read and the cap on lines | noise without end: `read_line` skips it without counting and starts its timeout again |
| `StdioServers.NothingForgotten`, of `stdio_lifecycle.py:179` | a server that fails to start at boot is dropped from the file |
| `SessionContext.SessionKeyIsUsed`, of `config_loader.py:20` ("BYOK Resolution Order: 1. SessionModel.context") | in a tenant without BYOM entries the session's own key goes to the model as it is stored, encrypted (`config_loader.py:110`; delegation decrypts it) |
| `SessionContext.ConnectedTokenClones`, of `docs/README_GITHUB_INTEGRATION.md:74` ("Connect GitHub", authorize, select a repository, browse) | the token of the OAuth exchange is encrypted twice and git's reader decrypts once (`github_auth.py:89`) |

Found while modelling, and part of what the named definitions say: two overlapping registrations
with one e-mail lock both users out (`raced` in `RegisteredCanLogIn`); without `JWT_SECRET` all
tokens die at a restart (`Accepts`); a lost log of the scan, or a diff longer than
`MAX_OUTPUT_SIZE`, lets `git_commit` through (`CommitsAreScanned`); the end of a plugin takes
the registry entry of a built-in tool of its name away (`contested` in
`OneClaimantIsReachable`), and the end of `fs` the adapters of `fs_local`
(`AdaptersFollowServers`, `ToolsMatchServers`); arguments that are no object make the calls
before them run again with each attempt, until the batch is dead-lettered (`RunsArePaidFor`); a
failed save empties the file of servers (`WantedIsSaved`); a change whose store raised is listed
by the next save of the state (`StateIsBacked`), and a commit reports success without a file it
could not copy, and marks that file unchanged (`CommitTakesLoadedChanges`).

**Bounds.** Each literal of the code is a constant (`MaxAttempts`, `MaxIterations`, `LineCap`,
`MaxRestarts`), scaled down where the behaviour only depends on its being reached: the runs
reach every one of them. Bounds without a counterpart in the code (`MaxFaults`, `MaxRequests`,
`PipeLines`, `MaxServers`, `MaxProcesses`, `MaxBoots`, `MaxCancels`, `MaxMishaps`) limit how
often the environment acts; two database errors exhaust a message's attempts, three processes
allow a restart of a restart, and two callers are enough for every race between two coroutines.
The four requests of `gvfs` are enough for a mount, a write, and a commit or remount racing
another write; the theorems of section 4 are about any number of them. Three `Objects` are one
for the mount and one for each request: there is always an unused one. One mishap of `gvfs` is a
crash after any step, or one failing operation; what a second one does to another path or object
shows no more than the theorems, which allow any number. The instances of `loop` and
`stdio_servers` are a choice of scopes (`scope`, made once at the beginning), for one instance
with all of them is too large: a reply of every kind with one user, the second user with what
the race of two decisions needs; the overlaps, the cancellation and the boots of one server, and
two servers one of which has a prefix of the other's name, with a second boot after one that
dropped a server. A scope holds back what users, requests and the environment do; a user or a
coroutine that is held back leaves another one that fairness speaks of to do the same, or a
failure of the same step. `stdio_servers` has one more restart than has to fail: with a single
one `Exhausted` would excuse every server whose first restart failed. A pipe of three lines lets
an answer, a line that answers nothing and one more be under way together; the subprocess goes
on writing when they are read. `conversation` reaches eviction, a summary and both ways of
numbering with three messages. `sandbox` has a holder, a waiter and a third call that overtakes;
a sub-agent has one round (`MaxRounds`, 5 in the code), and rounds share no state but the job
they leave. `plugins` splits what happens to plugins, to the servers of a tenant, and to calls
(`Scopes`), for a call reads the registry once, when it begins, and servers know nothing of
plugins but the registry; four calls trip a circuit of threshold 2, let one answer come late and
one be new. Three requests of `sessions` are one that changes, one that overlaps it and one that
sees both. `admission` needs two overlapping registrations and two logins, or three chats that
pass a limit of 1 together. `Setups`, `Deployments` and `Databases` are chosen once, at the
beginning. Deadlock checking is off where the system may rightly come to rest.

**Fairness.** Weak fairness of a coroutine's steps stands for the event loop, which resumes
every coroutine that can go on, and that the `await` in question ends. Reads from a subprocess,
tool calls and the ends of processes have timeouts; a model call has that of its client library,
and its stream is assumed to end; commits and queries of the database, local file operations and
local git commands have none and are assumed to end, as is the draining of a pipe to a
subprocess. Where the code has no timeout and a remote party decides, nothing is assumed: `git
clone` may hang (`CloneEnds` has no fairness, and `LockReleased` says that this is the only way
to keep the lock), and noise may go on for ever (`Released` is conditional on `NoiseEnds`, as is
the fairness of `StdioServers`). `CircuitBreaker` needs strong fairness of successful calls (a
call that is admitted over and over is not cancelled each time) and callers that keep calling.
`AgentLoop` assumes that the user decides each approval request that is shown. `ToolSandbox`
assumes the worker's timer of 120 seconds, and that the asyncio lock wakes the first in line:
`LockGivenBack` rests on nothing that runs outside ever ending. The modules of conversations,
plugins, sessions and admission state safety only. No fairness is assumed of faults, crashes,
cancellations, requests or the subprocess.

**Qualified properties.** (A conjunct's name below is that of its definition.) Some properties
hold only as long as something did not happen, and say so: `OneChain` allows one more chain of a
task for each second request of a reply, second dispatch of a request, broken batch and database
error; `ContextComplete` speaks of tasks and times without any; `MatchedUnlessAbandoned` of
protocols no caller of which left without an answer of its own, be it by a timeout, a
cancellation or a line that answers nothing; `ProcessesAccounted` and `ToolsMatchServers` of
times when operations on one server did not overlap and no call was cancelled (`Calm`), the
latter with the adapters that a prefix took along (`taken`); `WantedIsSaved` also excepts the
time after a failed save, and the servers a boot has dropped (`dropped`), as `NothingForgotten`
does not; `Attended` and `Recovers` hold while no call was cancelled. In each case the
qualification is the hazard: without it TLC finds a counterexample, a real weakness of the code
- leaked processes, tools of removed servers, a server that stays RESTARTING for ever.
`ReadYourWrites` speaks of writes during which no other request of the session was under way: a
read that resumes late puts old bytes back, and of two saves the older may win. `StateIsBacked`
excepts paths that another request was about to store or whose store had failed when the state
was saved, and what an unfinished clean-up left. `CommitTakesLoadedChanges` speaks of changes
that were in memory and of files that could be copied and staged (`missed`): after a restart or
a remount the contents are loaded on demand, and a commit leaves out what was not read since,
yet `CommitMarks` marks it unchanged - so that an invariant "unchanged means in HEAD" is false
of the code in several ways (this one; a deletion that is committed and the same content written
again; a write between git's commit and the marking; a crash between the two).
`OrderedUnlessRaced` and `ForkKeepsPrefix` except sessions in which a row was numbered from a
maximum that had moved; `CleanIsStored` excepts contexts loaded before a clear ended, and
`AcceptedAccounted` names every way a message is lost (added to a session that is not cached,
evicted or replaced while dirty, skipped for a row with its number, cleared, in memory at a
crash). `LostOnlyByOverlap` says of every undone change that it was first dropped by a request
that had loaded the row before it; that request can also bring back what another had dropped,
for a third to drop again. `MemoryLosesNothing` needs PostgreSQL. `RegisteredCanLogIn` excepts
e-mails of overlapping registrations. `WithinLimit` allows as many requests beyond the limit as
checks overlapped, and excepts tenants with a check that lasted over a tick of the clock: its
entry is older than the moment it was let through.

## 4. Proofs

Every theorem holds for all values of the constants that satisfy the module's assumption, which
TLC evaluates in the module's run. An assumption says that bounds and thresholds are natural
numbers of the right sign, that sets of identifiers, rows and contexts do not contain the value
that stands for none of them (`NoTask`, `None`), that a server's prefix covers its own name
(`Covers`), and what else is named below. In each proof module `IInv` (`ServersInv`, ...) is the
inductive invariant (`InitSound`, `StepSound`, `Invariance`, or names like them); the step lemma
has one lemma or step per action and under it one step per conjunct the action can disturb.
`IInv` was checked by TLC, on the run's instance, before it was proved.

| Module | Theorem | States |
|---|---|---|
| `LocalBrokerProofs` | `BrokerAccounts`, `NothingLostNorDoubled`, `NoGapsInTheChannel`, `KeepsThePromise` | `Accounted`, `OnePlace`, `ChannelInOrder`, the refinement `ImplementsLifecycle` |
| `ConversationProofs` (about `AgentLoop`) | `RunsAccounted`, `LoopNeverStops` | `RunsAreAccounted`, `NeverForgotten` |
| `ConversationProofs` (about `MessageLog` and `ContextManager`) | `MessagesAreNumbered`, `ForksKeepThePrefix`, `AcceptedIsAccounted` | `Numbered`, `ForkKeepsPrefix`, `MessagesAccounted` |
| `StdioProofs` | `EveryAnswerOnce` | `AnswersAccounted` |
| `StdioProofs` (about `StdioServers`) | `ServersAreAccounted`, `WantedStaysSaved` | `ServersAccounted`, `WantedIsSaved` |
| `ToolSandboxProofs` | `MutualExclusion`, `ToolResultsAreReal` | `OneCallPerResource`, `ResultsAreReal` |
| `SessionContextProofs` | `NothingLostInOrder`, `MemoryIsSafe`, `SecretsStayReadable` | `LostOnlyByOverlap`, `MemoryLosesNothing`, `SecretsAreHandled` |
| `McpHubProofs` | `RegistrySpeaksTrue`, `CircuitKeepsQuiet`, `CountersAreTrue` | `RegistryAgrees`, `CircuitHolds`, `CountersAgree` |
| `GvfsProofs` | `WritesAreKept`, `StateStaysSound`, `CommitsAreComplete` | `ReadYourWrites`, `StateIsSound`, `CommitTakesLoadedChanges` |
| `AdmissionProofs` | `AccountsWork`, `LimitsHold` | `RegisteredCanLogIn`, `WithinLimit` |
| `AdmissionProofs` (about `CircuitBreaker`) | `BreakerTypeCorrect`, `ClosedIsSafe`, `HalfOpenNeverStarves`, `ClosingIsEarned` | `BreakerTypeOK`, `ClosedBelowThreshold`, `HalfOpenAdmits`, `ClosesAfterProbes` |

### The arguments

**CircuitBreaker.** `HalfOpenNeverStarves` needs `SuccessThreshold <= HalfOpenMaxCalls`, the
condition `DATABASE_CIRCUIT_BREAKER` breaks. `ClosedBelowThreshold` is inductive together
with types. The other two need that in HALF_OPEN the success count *is* the number of
successes recorded since the breaker entered it, and is below the threshold (`BreakerCounts`):
counts left over from CLOSED or OPEN must be known to be gone. `BumpFacts` gives what is
needed of the saturating increment.

**LocalBroker.** `OnePlace` counts places; `Apart` says the same without cardinalities (in
some place if accepted, in no two), which is what a step can be seen to keep, and
`Statuses` ties the status and the attempts of a message to its place: in the dead letters
exactly with `MaxAttempts` failures. The channel has an invariant of its own, `CInv`: for each
subscriber, what it has received, has in hand and has in its inbox is, concatenated, the
published log from its joining on. It rests on three facts about `\o`, `Append` and `Tail`.
`KeepsThePromise` shows step by step that the broker does a step of `MessageLifecycle` or
stutters, with `Statuses` giving the phase before and after.

**AgentLoop.** `NeverForgotten` and `RunsArePaidFor` are far from inductive. `Asking` bounds
how often a call was asked about: an unapproved batch holds a call that no other unapproved
batch holds, and has asked for it at most once per attempt, so that no more than
`MaxAttempts` requests exist - which is why every open one is in `Requested`. `Paid` counts,
with the runs of a call, those still to come: each queued batch that will execute it
(`Holders`) and the one in hand until it has (`InHand`); a call is due once, or once per
grant; a database error pays for one more, and so does each batch of its task that broke over
arguments that are no object (`Redone`). A call with an `__approved__` of its own counts as one that
needs no grant (`Gated`). `Kept` adds to `NeverForgotten` what becomes of a
paused batch: somebody can still decide, has denied, or its approval is queued.
`Iterations` counts the thought whose `iteration_count` is not committed yet. `RunsArePaidFor`
needs that the calls of one reply are distinct: the ids the model API gives them. This is
part of `LoopAssumption` since the proof failed without it.

**StdioProtocol.** The lock's queue holds each waiting coroutine once and the reader at its
head (`Serial`), so at most one request is being read for. Ids only grow and there are
enough for all who wait (`Numbers`), no two lines are answers to the same request
(`Distinct`), and as long as every caller left with an answer everything outstanding is being read
for (`InStep`): the next answer is then the reader's. A line with an id that answers nothing ends
the request it is taken for, which is one more way to leave without an answer. `OutOfStep` is
inductive with these: each abandoned request leaves at most one answer too many.

**StdioServers.** The invariant (`ServersInv`) says what a coroutine does and holds at each of
its places (`JobsInOrder`), that a name leads to an object of that name, and that a registration
or a removal whose object is still registered has the current dict (`Entered`). `Attended` rests
on `Pending`: who put a server into a passing state, or took it over, has not yet started its
process, so that `listing` does not count; this needs no absence of overlaps. The rest is about
*calm* behaviours. A coroutine at work has its server for itself and knows its process, which is
dead while the next one is spawned (`Undisturbed`): that is why the new process may take the
place of the old one. `Provided` - what is in the tool registry was listed by the object
registered under that name - makes `_unregister_mcp_tools`, which removes from the registry only
what its object has listed, remove enough; and the registry has the tenant's adapters and those
that went with a prefix of theirs (`Divided`), which no name collides with in the registry.
`Kept` makes `WantedIsSaved` inductive over boots: what is wanted is registered, or was dropped
by a boot or is still to be restored, and nobody is removing it, so that whatever saves next, if
it succeeds, saves it. `Frame` is what every step on a server that exists leaves alone; the
lemmas `EnteredKept`, `PendingKept`, ... are proved of it once, and each action shows that it is
within `Frame` and what it does to its own server. The proof found `ProcessesAccounted` weaker
than it need be: it also excused any process that a coroutine knew, which no reachable state
needs.

**ToolSandbox.** `OneCallPerResource` follows from `Locked`: a call in a resource's tool is the
one `holding` names. `ResultsAreReal` follows from `CallSound`, which says for every phase of a
call which tool and backend it can have (`WellPlaced`), what ways of losing a job it has behind
it (`Abandoned`), and what its result and the scan say of the command that ended (`Reported`,
`Scanned`): a commit is under way only after a scan that was clean, blind or cut off, and a job
that was pushed had been committed before. The proof showed that `CommitsAreScanned` was false
for a sub-agent with two commits, as the history of the first was held against the second; the
history `committed` now belongs to the tool that is running. No run had rounds enough for it.

**SessionContext.** Every request that has loaded the row knows the last acknowledged value of
each field, unless that came after it or was dropped (`Current`); the memory update holds the
lock and the row's very value. The proof showed the earlier form of `LostOnlyByOverlap`, in
which the *last* request to change the field was the one to have overlapped, to be false from
four requests on: one can bring back a dropped value and a later one drop it again. It now says
that every loss begins with an overlap.

**Admission.** `RegisteredCanLogIn` needs that a second registration of an e-mail, committed or
under way, is in `raced` (`Accounts`). For `WithinLimit`, of a tenant no check of which took
time: the window holds every request let through in the last minute, and there is room
for each that has counted and not added yet (`Punctual`), within the limit and the
number of checks that overlapped; the earlier minutes are kept, for they do not change any more.

**McpHub.** The hub, its index and the registry agree (`Indexed`), and of a name that was never
contested the invariant says what each possible owner knows (`Reachable`): a plugin's name is
nobody else's, a name that a server has listed is no built-in one and no other server's, and a
name without a claimant stands for nobody. It must say it of all owners at once, and of servers
that are down as well as up, for a registration replaces an entry, and the end of a plugin or of
a server removes it, without looking whose it is. `ServersSound` says that what a server lists
has its prefix, so that removal by prefix leaves none of its adapters behind, and takes along
only those of a server whose names it covers. `Circuit` ties a plugin to its history: the
failures it counts are of the run that is on, an open circuit has `opened_at` at the last trip,
and one that is closed was never tripped or has its recovery time behind it. It holds also when
late answers arrive while the circuit is open, and from that follows that nothing is posted
(`Quiet`) and nothing opens but on a run (`Trips`), step by step. `Counted` takes the requests
under way as a cardinality, which `PostingMoves` follows through each phase of a call; `Made`
says that no call and no name knows a plugin that does not exist yet. That nobody executes more
than twice the limit in a minute is `Bounds`: an entry of the limiter counts the last
registrations that were let through since its window began, the ones before them are older than
that window, and those that came one more limit earlier are more than a minute behind whoever
comes next (`Window`; `Room` says the same where the limiter would not block). `Stamped` and
`SentOnce` bound times and requests, which types the counters.

**Gvfs.** Every job is `WellPlaced`: its place says what it holds. `Homes` gives the directory
of each object in use, and says that an object being mounted is nobody else's. A promise begins
at the end of a write that had no company, so that is followed from its beginning (`Lone`): the
mount has what was asked for, then the buffer, the store and the snapshot. From there `Promise`
says what `ReadYourWrites` needs to be inductive: the path is live in *every* object that is in
use, in the state file unless that is torn, and in every snapshot on its way there, and no job
is about to store it or to assign to it other bytes than the promised ones (`Respects`); a write
that would break this takes the promise back when it begins. No clone goes on while something is
promised: there is a state file then, from which a mount restores. `Bare` - no content is ever
saved - makes a mount from the state file load from the store. `Backed` adds to `StateIsBacked`
the same of snapshots, and of objects that the content is stored, or on its way, or that storing
it has failed (`Unstored`): such a path is exposed by the next save. `Commits` says that a
commit that is alone has made the clone agree with its mount on every path it is done with, has
not missed and nobody touched since (`Agrees`), and that two commits at once make every path
late. What a step leaves of the other jobs is in one place (`Follows`, and the lemmas
`PromisesKept`, `BackedKept`, `CommitsKept`, ...). The proof showed `CommitTakesLoadedChanges`
to be false of a larger instance: while a commit copies files into a directory that has not been
cloned into, an unmount with clean-up and a new mount can clone there, and the clone brings back
a file that the commit had deleted. Such a clone now makes every path late (`Clone`), since it
is one more way to disturb a commit. It also showed that three `CASE` expressions of the model
had overlapping guards, where TLA+ allows any of the alternatives and TLC takes the first; they
say now which one is taken (`Source`, `Applied`).

**MessageLog and ContextManager.** A number is what ties a message in memory to its row, so the
invariant (`ConversationInv`) is about all the places a session's messages are in: the table,
the cached context, the contexts that are being loaded and what a flush is about to write
(`Entries`). In all of them a message has the same number (`OneNumber`), below the next one
(`Below`), and what a transaction is about to commit is in none of them (`Unseen`). The lists of
a context and of a flush ascend (`InOrder`), and what a flush holds has no row yet: that is why
nothing is written twice. A loaded context has its rows until a clear (`LoadedIsStored`), and
between the lookup of a flush and its commit each number of the context is in the table or in
the flush (`Covered`): so a context that was not touched meanwhile may be marked clean. A
transaction in a session the manager never wrote holds number 0 (`ZeroAhead`), one elsewhere no
number below the maximum it read (`Numbering`). `ForkKeepsPrefix` follows from
`OrderedUnlessRaced` and `ForkIs`, the lemma that a fork copies exactly the rows that it
selects, in an order by sequence. The table is a set of rows with places, and sets and
bijections stand for what the queries select: what `SelectSeq` returns would have to be proved
by induction.

### Only model-checked

- Liveness (`Recovers`, `Settles`, `Resolves`, `AnnouncedIsSaved`, `Released`, `LockReleased`,
  `LockGivenBack`): TLAPS does not reason about fairness and ENABLED.
- `OneChain` and `ContextComplete` of `AgentLoop`: checked in two instances with every way a
  second chain begins. A proof has to follow all chains of a task through both queues at once,
  with a request that is open, denied or dispatched as the end or the beginning of one.
- `LlmSeesTheEnd`: what the user is shown is flattened and sorted by operators that are recursive in
  the library, of which the provers know nothing. `LastTurns` is violated.

## 5. What is left

- `OneChain`: an invariant that counts, for every task, the chains that were begun (`splits`,
  `broken`, `faults`) against those that are in a queue, in hand, announced or at rest in a request.
- `LlmSeesTheEnd`, once sorting and concatenation have a definition the provers can use: that the
  recent messages of a context ascend is part of `InOrder`, and its windows need the same.

### Not modelled

- *Database sessions* on one SQLite connection: when the driver begins a transaction and
  what a rollback drops is not in the repository. All modules assume a connection per
  session, as with PostgreSQL.
- *Event streams*: an endpoint is `subscribe_channel` around a socket, and keeps no state.
  That a client that comes late misses `TASK_RESOLVED` follows from `LocalBroker`: a
  subscriber sees what is published after it joined.
- *Workspaces and folders*: one file operation and one commit per handler, with nothing
  read back; a failure between the two leaves a directory without a row. The listing
  shows all folders of the tenant, shared with the caller or not.
- The gateway's queues live in memory: a crash loses every task under way. This needs no
  model; the servers and mounts, which are persisted, have their restarts in
  `StdioServers` and `Gvfs`.
- The key file (`crypto.py:22`): one process with one key is modelled. Without
  `APP_SECRET_KEY` each process reads the file of its directory or makes one, so that two
  that start at once, or on two machines, cannot read each other's secrets.
- Billing only counts; a quota that is used up is one more reason of `BrainGivesUp`.
- The contents of messages, prompts and tool results, ranking in the semantic memory,
  observability, stateless tools, rendering in the UI, deployment manifests.
