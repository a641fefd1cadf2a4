----------------------------- MODULE ToolSandbox -----------------------------
(***************************************************************************)
(* Tool calls from the router to the sandboxes: services/tool_execution,   *)
(* infrastructure/sandbox, the git tools and the sub-agent that call them. *)
(* Each call is a coroutine of the tool worker, which cancels it after 120 *)
(* seconds; every phase of a call is one await.                            *)
(*                                                                         *)
(* job[c] is the Kubernetes job, container or process that the current     *)
(* execution of call c has started; the cluster and the operating system   *)
(* move it.  A call whose execution has ended leaves it behind when nobody *)
(* deletes or kills it.  What a command itself puts in the background is   *)
(* the command's own, and the job of an earlier tool of a sub-agent is not *)
(* followed any further.  Of the repository a session works on only the    *)
(* staged changes are kept, and whether one has a pattern git_commit       *)
(* refuses.                                                                *)
(*                                                                         *)
(* "local" is the local executor with and without USE_DOCKER_SANDBOX: then *)
(* the command is a container with a read-only workspace and the process   *)
(* the docker client, which takes away writes and adds no step.            *)
(***************************************************************************)
EXTENDS Naturals, Sequences, SequencesExt, FiniteSets

CONSTANTS Calls,
          Resources,     \* second part of the name of an MCP tool
          None,
          Deployments,   \* bound: the pairs of KUBERNETES_MODE and being in a cluster
          AllowAnonLocal,  \* ALLOW_ANON_LOCAL
          MaxRounds,     \* iterations of a sub-agent (5 in the code)
          ToolsOf        \* bound: the tools each call may be of

\* "direct" stands for the tools without a sandbox of their own.
Tools == {"bash_execute", "mcp", "direct", "git_write", "git_commit",
          "git_clone", "git_create_pr", "delegate_task"}

ASSUME SandboxAssumption ==
    /\ Deployments \subseteq BOOLEAN \X BOOLEAN
    /\ AllowAnonLocal \in BOOLEAN
    /\ MaxRounds \in Nat \ {0}
    /\ None \notin Calls \cup Resources
    /\ ToolsOf \in [Calls -> SUBSET Tools]

VARIABLES
    kubernetes_mode,   \* KUBERNETES_MODE
    in_cluster,        \* what get_sandbox_executor finds
    call,              \* per call: where it is
    waiters,           \* per resource: the calls in line, the holder first
    holding,           \* per resource: None or the call that holds the lock
    docker_available,  \* _docker_available of the router's SandboxAdapter
    job,               \* external: per call: what its execution has started;
                       \* "pushing" is a commit that is made, and pushed or not
    staged,            \* external: a change with a risky pattern is staged
    orphans,           \* history: per call: how executions left a job behind
    exited,            \* history: per call: how its last command ended
    scan,              \* history: per call: what its scan was about
    committed          \* history: per call: its last git_commit has committed one

config == <<kubernetes_mode, in_cluster>>
locks  == <<waiters, holding>>
git    == <<staged, scan, committed>>
vars   == <<config, call, locks, docker_available, job, git, orphans, exited>>

Phases == {"idle", "queued", "direct", "thinking", "checking", "creating", "podwait",
           "waiting", "logs", "cleanup", "process", "returned", "done"}
Results == {"none", "ok", "failed", "timeout", "error", "cancelled", "approval"}
Backends == {"none", "kubernetes", "local", "docker", "local_dev"}
JobStates == {"none", "running", "pushing", "succeeded", "failed"}
\* How a job is left behind: "timeout" is one that nobody killed at its time
\* limit, "descendants" is what outlived the process that was killed.
Reasons == {"cancelled", "delete_failed", "timeout", "descendants"}

TypeOK ==
    /\ kubernetes_mode \in BOOLEAN
    /\ in_cluster \in BOOLEAN
    /\ call \in [Calls -> [tool : Tools \cup {"none"}, delegate : BOOLEAN,
                           round : 0..MaxRounds, phase : Phases, resource : Resources \cup {None},
                           backend : Backends, step : 0..2, seen : BOOLEAN, result : Results]]
    /\ waiters \in [Resources -> Seq(Calls)]
    /\ holding \in [Resources -> Calls \cup {None}]
    /\ docker_available \in {"unknown", "yes", "no"}
    /\ job \in [Calls -> JobStates]
    /\ staged \in BOOLEAN
    /\ orphans \in [Calls -> SUBSET Reasons]
    /\ exited \in [Calls -> {"none", "ok", "bad"}]
    /\ scan \in [Calls -> [risky : BOOLEAN, blind : BOOLEAN, cut : BOOLEAN]]
    /\ committed \in [Calls -> BOOLEAN]

Init ==
    /\ \E d \in Deployments : kubernetes_mode = d[1] /\ in_cluster = d[2]
    /\ call = [c \in Calls |-> [tool |-> "none", delegate |-> FALSE, round |-> 0,
                 phase |-> "idle", resource |-> None, backend |-> "none", step |-> 0,
                 seen |-> FALSE, result |-> "none"]]
    /\ waiters = [r \in Resources |-> << >>]
    /\ holding = [r \in Resources |-> None]
    /\ docker_available = "unknown"
    /\ job = [c \in Calls |-> "none"]
    /\ staged = FALSE
    /\ orphans = [c \in Calls |-> {}]
    /\ exited = [c \in Calls |-> "none"]
    /\ scan = [c \in Calls |-> [risky |-> FALSE, blind |-> FALSE, cut |-> FALSE]]
    /\ committed = [c \in Calls |-> FALSE]

Move(c, p) == call' = [call EXCEPT ![c].phase = p]

\* A tool of call c is over: a sub-agent goes on, the call of a tool ends.
EndTool(c, res) ==
    call' = [call EXCEPT ![c].phase = IF call[c].delegate THEN "thinking" ELSE "done",
                         ![c].result = IF call[c].delegate THEN "none" ELSE res,
                         ![c].resource = None,
                         ![c].seen = FALSE]

-----------------------------------------------------------------------------
(* execute_tool and the multiplexer.                                       *)

\* _get_sandbox for bash_execute, get_sandbox_executor for the git tools.
Backend(t) ==
    IF t = "bash_execute" /\ ~kubernetes_mode THEN "docker"
    ELSE IF in_cluster THEN "kubernetes" ELSE "local"

\* The first phase of an execution on backend b.
FirstPhase(b) ==
    CASE b = "docker" -> "checking" [] b = "kubernetes" -> "creating" [] b = "local" -> "process"

\* git_clone passes a dict where the executors want a SandboxConfig: TypeError.
Enter(c, t, r, rec) ==
    LET b == Backend(t) IN
    CASE t = "mcp" -> [rec EXCEPT !.tool = t, !.phase = "queued", !.resource = r]
      [] t = "direct" -> [rec EXCEPT !.tool = t, !.phase = "direct"]
      [] t = "delegate_task" -> [rec EXCEPT !.tool = t, !.phase = "thinking", !.delegate = TRUE]
      [] t = "git_clone" -> [rec EXCEPT !.tool = t, !.phase = IF rec.delegate THEN "thinking" ELSE "done",
                                        !.result = "failed"]
      [] OTHER -> [rec EXCEPT !.tool = t, !.backend = b, !.phase = FirstPhase(b), !.step = 1]

\* A local executor starts the process at once.
EnterTool(c, t, r, rec) ==
    /\ call' = [call EXCEPT ![c] = Enter(c, t, r, rec)]
    /\ waiters' = IF t = "mcp" THEN [waiters EXCEPT ![r] = Append(@, c)] ELSE waiters
    /\ job' = [job EXCEPT ![c] = IF call'[c].phase = "process" THEN "running" ELSE "none"]
    /\ exited' = [exited EXCEPT ![c] = "none"]
    /\ committed' = [committed EXCEPT ![c] = FALSE]

Start(c, t, r) ==
    /\ call[c].phase = "idle"
    /\ EnterTool(c, t, r, call[c])
    /\ UNCHANGED <<config, holding, docker_available, staged, scan, orphans>>

\* asyncio.Lock: the first in line takes the lock when it is free.
Acquire(c) ==
    LET r == call[c].resource IN
    /\ call[c].phase = "queued"
    /\ holding[r] = None
    /\ Head(waiters[r]) = c
    /\ holding' = [holding EXCEPT ![r] = c]
    /\ Move(c, "direct")
    /\ UNCHANGED <<config, waiters, docker_available, job, git, orphans, exited>>

\* Mutants: the waiting is inside the try, so that a cancelled waiter releases
\* the lock of another; the release is not in a finally.
Release_AnyHolder(c) ==
    LET r == call[c].resource IN
    /\ waiters' = IF r = None THEN waiters
                  ELSE [waiters EXCEPT ![r] = SelectSeq(@, LAMBDA x : x # c /\ x # holding[r])]
    /\ holding' = IF r = None THEN holding ELSE [holding EXCEPT ![r] = None]
Release_OnSuccess(c) ==
    LET r == call[c].resource IN
    /\ waiters' = IF r = None \/ holding[r] = c THEN waiters
                  ELSE [waiters EXCEPT ![r] = SelectSeq(@, LAMBDA x : x # c)]
    /\ UNCHANGED holding

\* The end of c's wait for, or use of, its resource.
Release(c) ==
    LET r == call[c].resource IN
    /\ waiters' = IF r = None THEN waiters ELSE [waiters EXCEPT ![r] = RemoveFirst(@, c)]
    /\ holding' = IF r # None /\ holding[r] = c THEN [holding EXCEPT ![r] = None] ELSE holding

\* The execute method of the tool returns or raises.
ToolReturns(c, ok) ==
    /\ call[c].phase = "direct"
    /\ Release(c)
    /\ EndTool(c, IF ok THEN "ok" ELSE "failed")
    /\ UNCHANGED <<config, docker_available, job, git, orphans, exited>>

\* The time limit of the tool worker: CancelledError at whatever is awaited.
\* No executor catches it.
WorkerTimeout(c) ==
    /\ call[c].phase \notin {"idle", "done"}
    /\ Release(c)
    /\ call' = [call EXCEPT ![c].phase = "done", ![c].result = "cancelled",
                            ![c].resource = None, ![c].seen = FALSE]
    /\ orphans' = IF job[c] = "none" THEN orphans ELSE [orphans EXCEPT ![c] = @ \cup {"cancelled"}]
    /\ UNCHANGED <<config, docker_available, job, git, exited>>

-----------------------------------------------------------------------------
(* SandboxAdapter: docker, or the machine itself where that is allowed.    *)

\* _check_docker keeps the first answer; a concurrent check may replace it.
CheckDocker(c, up) ==
    LET known == docker_available # "unknown" /\ ~call[c].delegate
        yes   == IF known THEN docker_available = "yes" ELSE up
    IN
    /\ call[c].phase = "checking"
    /\ docker_available' = IF call[c].delegate THEN docker_available
                           ELSE IF up THEN "yes" ELSE "no"
    /\ known => up = (docker_available = "yes")
    /\ IF yes \/ AllowAnonLocal
       THEN /\ call' = [call EXCEPT ![c].phase = "process",
                                    ![c].backend = IF yes THEN "docker" ELSE "local_dev"]
            /\ job' = [job EXCEPT ![c] = "running"]
       ELSE EndTool(c, "failed") /\ UNCHANGED job
    /\ UNCHANGED <<config, locks, git, orphans, exited>>

-----------------------------------------------------------------------------
\* Mutant: a command that has ended has succeeded.
Verdict_Ended(c) == "ok"

\* The exit code of the command decides.
Verdict(c) == IF job[c] = "succeeded" THEN "ok" ELSE "failed"

(* The process of the local executor, of docker run, or of the local shell.*)

\* communicate() returns when the process has ended.
ProcessReturns(c) ==
    /\ call[c].phase = "process"
    /\ job[c] \in {"succeeded", "failed"}
    /\ call' = [call EXCEPT ![c].phase = "returned",
                            ![c].result = Verdict(c)]
    /\ job' = [job EXCEPT ![c] = "none"]
    /\ UNCHANGED <<config, locks, docker_available, git, orphans, exited>>

\* The process cannot be started, for a directory that is not there: it raises.
ProcessRaises(c) ==
    /\ call[c].phase = "process"
    /\ job[c] = "running"
    /\ job' = [job EXCEPT ![c] = "none"]
    /\ EndTool(c, "failed")
    /\ UNCHANGED <<config, locks, docker_available, git, orphans, exited>>

\* Mutant: the local executor does not kill either.
Kills_Nobody(b) == FALSE

\* Only LocalSandboxExecutor kills what has timed out.
Kills(b) == b = "local"

\* kill() reaches the process that was started, a shell or the docker client:
\* what either has started may go on.
ProcessTimeout(c, survives) ==
    LET killed == Kills(call[c].backend) IN
    /\ call[c].phase = "process"
    /\ job' = IF killed /\ ~survives THEN [job EXCEPT ![c] = "none"] ELSE job
    /\ orphans' = IF job'[c] = "none" THEN orphans
                  ELSE [orphans EXCEPT ![c] = @ \cup {IF killed THEN "descendants" ELSE "timeout"}]
    /\ EndTool(c, "timeout")
    /\ UNCHANGED <<config, locks, docker_available, git, exited>>

-----------------------------------------------------------------------------
(* KubernetesSandboxExecutor.execute.                                      *)

\* create_namespaced_job returns, or raises; a job may exist in either case.
JobCreated(c, ok) ==
    /\ call[c].phase = "creating"
    /\ ok => job[c] # "none"
    /\ call' = [call EXCEPT ![c].phase = IF ok THEN "podwait" ELSE "cleanup",
                            ![c].result = IF ok THEN @ ELSE "error"]
    /\ UNCHANGED <<config, locks, docker_available, job, git, orphans, exited>>

\* wait_for_pod knows a pod only while it is pending or running.
PodSeen(c) ==
    /\ call[c].phase = "podwait"
    /\ job[c] = "running"
    /\ Move(c, "waiting")
    /\ UNCHANGED <<config, locks, docker_available, job, git, orphans, exited>>

\* After 60 seconds: a pod that has finished by then counts as never created.
PodMissed(c) ==
    /\ call[c].phase = "podwait"
    /\ call' = [call EXCEPT ![c].phase = "cleanup", ![c].result = "error"]
    /\ UNCHANGED <<config, locks, docker_available, job, git, orphans, exited>>

\* wait_for_completion returns the exit code of a job that has ended.
JobSeenDone(c) ==
    /\ call[c].phase = "waiting"
    /\ job[c] \in {"succeeded", "failed"}
    /\ call' = [call EXCEPT ![c].phase = "logs",
                            ![c].result = Verdict(c)]
    /\ UNCHANGED <<config, locks, docker_available, job, git, orphans, exited>>

\* Mutant: nothing is deleted after a timeout.
AfterTimeout_NoCleanup(c) == EndTool(c, "timeout")

\* The handler of TimeoutError deletes the job.
AfterTimeout(c) == call' = [call EXCEPT ![c].phase = "cleanup", ![c].result = "timeout"]

JobTimeout(c) ==
    /\ call[c].phase = "waiting"
    /\ AfterTimeout(c)
    /\ orphans' = IF call'[c].phase = "cleanup" \/ job[c] = "none" THEN orphans
                  ELSE [orphans EXCEPT ![c] = @ \cup {"timeout"}]
    /\ UNCHANGED <<config, locks, docker_available, job, git, exited>>

\* get_logs: an error gives an empty output and no exception.
GetLogs(c, ok) ==
    /\ call[c].phase = "logs"
    /\ call' = [call EXCEPT ![c].phase = "cleanup", ![c].seen = @ /\ ok]
    /\ scan' = IF ok \/ call[c].tool # "git_commit" \/ call[c].step # 1 THEN scan
               ELSE [scan EXCEPT ![c].blind = TRUE]
    /\ UNCHANGED <<config, locks, docker_available, job, staged, committed, orphans, exited>>

\* cleanup_job swallows the error of a deletion that failed.  An error or a
\* timeout is raised again and ends the tool, whatever it had still to do.
CleanupJob(c, ok) ==
    /\ call[c].phase = "cleanup"
    /\ orphans' = IF ok \/ job[c] = "none" THEN orphans
                  ELSE [orphans EXCEPT ![c] = @ \cup {"delete_failed"}]
    /\ job' = IF ok THEN [job EXCEPT ![c] = "none"] ELSE job
    /\ IF call[c].result \in {"timeout", "error"}
       THEN EndTool(c, call[c].result)
       ELSE Move(c, "returned")
    /\ UNCHANGED <<config, locks, docker_available, git, exited>>

\* terminate_job, of any job that is there.
TerminateJob(c) ==
    /\ call[c].backend = "kubernetes"
    /\ job[c] # "none"
    /\ job' = [job EXCEPT ![c] = "none"]
    /\ UNCHANGED <<config, call, locks, docker_available, git, orphans, exited>>

-----------------------------------------------------------------------------
(* What the tools do with an execution that returned.                      *)

\* Mutant: the risks of the scan are not looked at.
HasRisks_Never(c) == FALSE

\* _scan_changes: the patterns are looked for in what there is of the scan's
\* output, whatever its exit code.
HasRisks(c) == call[c].seen

\* git_commit scans and then commits in a second execution; git_create_pr asks
\* for the branch first; the other tools are done.
GoOn(c) ==
    /\ call[c].phase = "returned"
    /\ IF call[c].tool \in {"git_commit", "git_create_pr"} /\ call[c].step = 1
       THEN IF call[c].tool = "git_commit" /\ HasRisks(c)
            THEN EndTool(c, "approval") /\ UNCHANGED <<job, exited>>
            ELSE /\ call' = [call EXCEPT ![c].step = 2, ![c].phase = FirstPhase(call[c].backend),
                                         ![c].result = "none", ![c].seen = FALSE]
                 /\ job' = [job EXCEPT ![c] = IF call[c].backend = "local" THEN "running" ELSE "none"]
                 /\ exited' = [exited EXCEPT ![c] = "none"]
       ELSE EndTool(c, call[c].result) /\ UNCHANGED <<job, exited>>
    /\ UNCHANGED <<config, locks, docker_available, git, orphans>>

\* Mutant: one round too many.
RoundsLeft_OneMore(c) == call[c].round <= MaxRounds

RoundsLeft(c) == call[c].round < MaxRounds

\* delegate_task: each round asks the model, which answers, or calls a tool
\* that a router of the sub-agent's own executes.  A call of an unknown tool is
\* a round that does nothing, as one of git_clone is; arguments that are not
\* JSON end the call.
Think(c, t, r) ==
    /\ call[c].phase = "thinking"
    /\ RoundsLeft(c)
    /\ t # "delegate_task"
    /\ EnterTool(c, t, r, [call[c] EXCEPT !.round = @ + 1])
    /\ UNCHANGED <<config, holding, docker_available, staged, scan, orphans>>

Answer(c, ok) ==
    /\ call[c].phase = "thinking"
    /\ ok => RoundsLeft(c)
    /\ call' = [call EXCEPT ![c].phase = "done", ![c].result = IF ok THEN "ok" ELSE "failed"]
    /\ UNCHANGED <<config, locks, docker_available, job, git, orphans, exited>>

-----------------------------------------------------------------------------
(* External: the cluster and the operating system.                         *)

\* The request of create_namespaced_job reaches the cluster; a job whose pod is
\* pending is one that runs and does not end.
ClusterCreates(c) ==
    /\ call[c].phase = "creating"
    /\ job[c] = "none"
    /\ job' = [job EXCEPT ![c] = "running"]
    /\ UNCHANGED <<config, call, locks, docker_available, git, orphans, exited>>

\* The workspace of a Kubernetes job is mounted read-only.
Writable(c) == call[c].backend # "kubernetes"

\* git diff --cached ends.  The executors keep MAX_OUTPUT_SIZE characters of
\* what it has printed: a risk is shown only when it comes before that.
ScanEnds(c, ok, shown) ==
    /\ job[c] = "running"
    /\ call[c].tool = "git_commit" /\ call[c].step = 1
    /\ job' = [job EXCEPT ![c] = IF ok THEN "succeeded" ELSE "failed"]
    /\ exited' = IF call[c].phase = "done" THEN exited
                 ELSE [exited EXCEPT ![c] = IF ok THEN "ok" ELSE "bad"]
    /\ call' = [call EXCEPT ![c].seen = staged /\ shown /\ call[c].phase # "done"]
    /\ scan' = [scan EXCEPT ![c] = [risky |-> staged, blind |-> ~ok, cut |-> staged /\ ~shown]]
    /\ UNCHANGED <<config, locks, docker_available, staged, committed, orphans>>

\* git commit takes what is staged; a push, which can fail, may still follow.
CommitMade(c) ==
    /\ job[c] = "running"
    /\ call[c].tool = "git_commit" /\ call[c].step = 2
    /\ Writable(c)
    /\ job' = [job EXCEPT ![c] = "pushing"]
    /\ committed' = [committed EXCEPT ![c] = staged]
    /\ staged' = FALSE
    /\ UNCHANGED <<config, call, locks, docker_available, scan, orphans, exited>>

\* Any other command ends, also one whose call is over; git commit && git push
\* ends well only with a commit.  What a shell or git_write has staged, it has
\* staged also when it fails.
CommandEnds(c, ok, risky) ==
    LET t == call[c].tool IN
    /\ job[c] \in {"running", "pushing"}
    /\ t = "git_commit" => call[c].step = 2 /\ (ok => job[c] = "pushing")
    /\ job' = [job EXCEPT ![c] = IF ok THEN "succeeded" ELSE "failed"]
    /\ exited' = IF call[c].phase = "done" THEN exited
                 ELSE [exited EXCEPT ![c] = IF ok THEN "ok" ELSE "bad"]
    /\ staged' = IF t \in {"bash_execute", "git_write"} /\ Writable(c) THEN staged \/ risky ELSE staged
    /\ UNCHANGED <<config, call, locks, docker_available, scan, committed, orphans>>

\* A job that has ended is deleted when its time to live is over; an orphaned
\* process that has ended is gone.
JobExpires(c) ==
    /\ call[c].phase = "done"
    /\ job[c] \in {"succeeded", "failed"}
    /\ job' = [job EXCEPT ![c] = "none"]
    /\ UNCHANGED <<config, call, locks, docker_available, git, orphans, exited>>

-----------------------------------------------------------------------------
CallStep(c) ==
    \/ Acquire(c) \/ ProcessReturns(c) \/ ProcessRaises(c) \/ PodSeen(c) \/ PodMissed(c)
    \/ JobSeenDone(c) \/ JobTimeout(c) \/ GoOn(c)
    \/ \E survives \in BOOLEAN : ProcessTimeout(c, survives)
    \/ \E ok \in BOOLEAN : \/ ToolReturns(c, ok) \/ CheckDocker(c, ok) \/ JobCreated(c, ok)
                           \/ GetLogs(c, ok) \/ CleanupJob(c, ok) \/ Answer(c, ok)
    \/ \E t \in ToolsOf[c], r \in Resources : Think(c, t, r)

Next ==
    \E c \in Calls :
        \/ \E t \in ToolsOf[c], r \in Resources : Start(c, t, r)
        \/ CallStep(c)
        \/ WorkerTimeout(c)
        \/ TerminateJob(c)
        \/ ClusterCreates(c) \/ JobExpires(c)
        \/ CommitMade(c)
        \/ \E ok, risky \in BOOLEAN : CommandEnds(c, ok, risky) \/ ScanEnds(c, ok, risky)

Spec == Init /\ [][Next]_vars

\* Fairness: the event loop's timer fires, and runs what is ready.
FairSpec == Spec /\ \A c \in Calls : WF_vars(WorkerTimeout(c)) /\ WF_vars(Acquire(c))

-----------------------------------------------------------------------------
(* Properties.                                                             *)

\* Two calls never run a tool of the same MCP resource at the same time, with
\* calls that wait, return and are cancelled in any order.
OneCallPerResource ==
    \A c, d \in Calls :
        (/\ c # d
         /\ call[c].phase = "direct" /\ call[d].phase = "direct"
         /\ call[c].resource # None)
        => call[c].resource # call[d].resource

\* A job or process outlives its execution only where the code gives it up: at
\* a cancellation, which no executor handles; at a failed deletion; at the
\* timeout of docker run and of the development shell, which are not killed; and
\* at the timeout of the local executor, which kills the process it started and
\* nothing that one has started.
OrphansExplained ==
    \A c \in Calls :
        /\ orphans[c] \subseteq Reasons
        /\ "timeout" \in orphans[c] => call[c].backend \in {"docker", "local_dev"} \/ call[c].delegate
        /\ "descendants" \in orphans[c] => call[c].backend = "local" \/ call[c].delegate
        /\ "delete_failed" \in orphans[c] => in_cluster

\* A command that is reported to have succeeded did exit with 0.
SuccessIsReal ==
    \A c \in Calls :
        (/\ call[c].phase = "done" /\ call[c].result = "ok" /\ ~call[c].delegate
         /\ call[c].tool \in {"bash_execute", "git_write", "git_commit", "git_create_pr"})
        => exited[c] = "ok"

\* What git_commit commits holds a change of a kind it looks for only if that
\* was staged after its scan, if the scan failed or its output was lost, or if
\* the change came after the first MAX_OUTPUT_SIZE characters of the output:
\* git_commit takes each of these for a scan without risks.
CommitsAreScanned ==
    \A c \in Calls :
        committed[c] => (scan[c].blind \/ scan[c].cut \/ ~scan[c].risky)

\* What a call reports, leaves running and commits is what was executed, except
\* where the code is known to give a job up or to lose its output.
ResultsAreReal == TypeOK /\ OrphansExplained /\ SuccessIsReal /\ CommitsAreScanned

\* The lock of a resource is always given back.
LockGivenBack ==
    \A r \in Resources, c \in Calls : (holding[r] = c) ~> (holding[r] # c)
=============================================================================
