----------------------------- MODULE AgentLoop ------------------------------
(***************************************************************************)
(* The ReAct loop of one chat session: the REST handlers that send a       *)
(* message and decide an approval (src/api/rest/routers/chat.py and        *)
(* tasks.py), the brain worker (src/services/agent_loop/brain) and the     *)
(* tool worker (src/services/agent_loop/tool_worker.py), joined by the two *)
(* durable queues task_queue and execution_queue and by the database.      *)
(*                                                                         *)
(* Both workers are single consumers, so each handles one message at a     *)
(* time, but they run concurrently with each other and with any number of  *)
(* requests.  A step ends where the code awaits something another actor    *)
(* can act before: the model call, a tool, a commit.  Each handler has a   *)
(* database session of its own: what it wrote is seen by others after its  *)
(* commit and is gone if it raises.  A handler that raises is retried by   *)
(* the broker from the tail of its queue and dead-lettered by its third    *)
(* failure (LocalBroker), with the message as the handler left it.         *)
(*                                                                         *)
(* Data.  A tool call is one of Calls, with the attributes the code tells  *)
(* apart as sets.  The model's reply is any choice the code accepts: an    *)
(* answer, a batch of calls, calls with malformed arguments, or a failure. *)
(* Streaming events other than TASK_RESOLVED, memory indexing and the      *)
(* wrap-up message of iteration 40 change nothing the loop reads.          *)
(***************************************************************************)
EXTENDS Naturals, Sequences, FiniteSets

CONSTANTS Tasks, Calls,
          Batches,         \* the sequences of calls one reply of the model may hold
          NeedsApproval,   \* calls of a tool the policy wants a user to approve
          Preapproved,     \* calls whose arguments, as the model wrote them, hold __approved__
          NotObject,       \* calls whose arguments are valid JSON but no object
          Forbidden,       \* calls that raise GovernanceDeniedError, whatever the reason
          Unknown,         \* calls whose tool the registry does not have
          DryRun,          \* calls whose arguments carry dry_run
          Requests,        \* concurrent approve_tool_call requests
          MaxIterations,   \* the literal 50 of process_task_event
          MaxAttempts,     \* the literal 3 of LocalDurableBroker.subscribe
          MaxFaults,       \* bound on the database errors of a behaviour
          NoTask

ASSUME LoopAssumption ==
    /\ Batches \subseteq Seq(Calls) \ {<< >>}
    /\ \A b \in Batches : \A i, j \in 1..Len(b) : b[i] = b[j] => i = j
    /\ NeedsApproval \cup Forbidden \cup Unknown \cup NotObject \subseteq Calls
    /\ DryRun \cup Preapproved \subseteq Calls \ NotObject
    /\ MaxIterations \in Nat \ {0}
    /\ MaxAttempts \in Nat \ {0}
    /\ MaxFaults \in Nat
    /\ NoTask \notin Tasks

VARIABLES
    taskQ, execQ,   \* the two durable streams
    brain,          \* the brain worker: step, message in hand, open transaction
    tool,           \* the tool worker: step, message, calls left, flags
    request,        \* per approve request: the approval message it has read
    iteration,      \* committed task.iteration_count
    asked,          \* calls in committed assistant messages
    results,        \* per call: committed tool messages
    approvals,      \* per call: the status of each approval message
    closings,       \* per task: committed closing messages
    shadow,         \* session.context["shadow_mode"]
    faults,         \* database errors so far
    owner,          \* history: the task a call was made for
    sent,           \* history: tasks dispatched
    wantsShadow,    \* history: tasks sent with shadow_mode
    resolved,       \* history: TASK_RESOLVED events published, per task
    dead,           \* history: tasks one of whose messages was dead-lettered
    runs,           \* history: real executions of a call
    granted,        \* history: approvals dispatched, as <<call, i>>, in order
    thoughts,       \* history: calls of the model, per task
    splits,          \* history: ways a further chain has begun, per task
    broken          \* history: batches that raised over arguments, per task

queues == <<taskQ, execQ>>
db     == <<iteration, asked, results, approvals, closings, shadow>>
past   == <<owner, sent, wantsShadow, resolved, dead, runs, granted, thoughts, splits, broken>>
vars   == <<queues, brain, tool, request, db, faults, past>>

NoTxn == [bump |-> FALSE, asked |-> {}, closing |-> FALSE]
IdleBrain == [at |-> "idle", msg |-> [task |-> NoTask, first |-> FALSE, attempt |-> 0],
              txn |-> NoTxn]
NoBatch == [task |-> NoTask, calls |-> << >>, approved |-> FALSE, dry |-> {}, attempt |-> 0]
IdleTool == [at |-> "idle", msg |-> NoBatch, left |-> << >>, paused |-> FALSE,
             shadow |-> FALSE]

Elements(s) == {s[i] : i \in 1..Len(s)}

Init ==
    /\ taskQ = << >>
    /\ execQ = << >>
    /\ brain = IdleBrain
    /\ tool = IdleTool
    /\ request = [r \in Requests |-> << >>]
    /\ iteration = [t \in Tasks |-> 0]
    /\ asked = {}
    /\ results = [c \in Calls |-> 0]
    /\ approvals = [c \in Calls |-> << >>]
    /\ closings = [t \in Tasks |-> 0]
    /\ shadow = FALSE
    /\ faults = 0
    /\ owner = [c \in Calls |-> NoTask]
    /\ sent = {}
    /\ wantsShadow = {}
    /\ resolved = [t \in Tasks |-> 0]
    /\ dead = {}
    /\ runs = [c \in Calls |-> 0]
    /\ granted = << >>
    /\ thoughts = [t \in Tasks |-> 0]
    /\ splits = [t \in Tasks |-> 0]
    /\ broken = [t \in Tasks |-> 0]

Think(t, isFirst) == [task |-> t, first |-> isFirst, attempt |-> 0]

-----------------------------------------------------------------------------
(* The REST handlers.                                                      *)

\* send_chat_message: the session's shadow flag is overwritten for every
\* task of the session, the task is committed, then AGENT_THINK published.
SendMessage(t, inShadow) ==
    /\ t \notin sent
    /\ shadow' = inShadow
    /\ taskQ' = Append(taskQ, Think(t, TRUE))
    /\ sent' = sent \cup {t}
    /\ wantsShadow' = IF inShadow THEN wantsShadow \cup {t} ELSE wantsShadow
    /\ UNCHANGED <<execQ, brain, tool, request, iteration, asked, results, approvals, closings,
                   faults, owner, resolved, dead, runs, granted, thoughts, splits, broken>>

\* dispatch_task: the same without the shadow flag.
DispatchTask(t) ==
    /\ t \notin sent
    /\ taskQ' = Append(taskQ, Think(t, TRUE))
    /\ sent' = sent \cup {t}
    /\ UNCHANGED <<execQ, brain, tool, request, db, faults, owner, wantsShadow, resolved,
                   dead, runs, granted, thoughts, splits, broken>>

Pending(c, i) == i \in 1..Len(approvals[c]) /\ approvals[c][i] = "NEEDS_APPROVAL"

\* approve_tool_call reads the message and checks its status ...
ReadApproval(r) ==
    /\ request[r] = << >>
    /\ \E c \in Calls : \E i \in 1..Len(approvals[c]) :
          Pending(c, i) /\ request' = [request EXCEPT ![r] = <<c, i>>]
    /\ UNCHANGED <<queues, brain, tool, db, faults, past>>

\* ... and, with the status it has read, denies ...
Deny(r) ==
    /\ request[r] # << >>
    /\ LET c == request[r][1]  i == request[r][2] IN
          approvals' = [approvals EXCEPT ![c][i] = "DENIED"]
    /\ request' = [request EXCEPT ![r] = << >>]
    /\ UNCHANGED <<queues, brain, tool, iteration, asked, results, closings, shadow, faults,
                   owner, sent, wantsShadow, resolved, dead, runs, granted, thoughts, splits, broken>>

Grants(c) == {k \in 1..Len(granted) : granted[k][1] = c}

Granted(p) == \E k \in Grants(p[1]) : granted[k] = p

\* ... or marks it approved and dispatches the one call again, also when
\* another request has dispatched it meanwhile.
Approve(r) ==
    /\ request[r] # << >>
    /\ LET c == request[r][1]  i == request[r][2] IN
          /\ splits' = IF Granted(request[r]) THEN [splits EXCEPT ![owner[c]] = @ + 1]
                                              ELSE splits
          /\ approvals' = [approvals EXCEPT ![c][i] = "APPROVED"]
          /\ execQ' = Append(execQ, [task |-> owner[c], calls |-> <<c>>, approved |-> TRUE,
                                     dry |-> DryRun \cap {c}, attempt |-> 0])
          /\ granted' = Append(granted, <<c, i>>)
    /\ request' = [request EXCEPT ![r] = << >>]
    /\ UNCHANGED <<taskQ, brain, tool, iteration, asked, results, closings, shadow, faults,
                   owner, sent, wantsShadow, resolved, dead, runs, thoughts, broken>>

-----------------------------------------------------------------------------
(* The brain worker: process_task_event.                                   *)

\* The broker hands the message over; the session and the task are loaded.
BrainTake ==
    /\ brain.at = "idle"
    /\ taskQ # << >>
    /\ brain' = [at |-> "reading", msg |-> Head(taskQ), txn |-> NoTxn]
    /\ taskQ' = Tail(taskQ)
    /\ UNCHANGED <<execQ, tool, request, db, faults, past>>

\* publish(TASK_RESOLVED) comes before the commit of the message it announces.
Announce(t) == resolved' = [resolved EXCEPT ![t] = @ + 1]

\* Mutant: one iteration too many.
CapReached_OffByOne(t) == iteration[t] > MaxIterations

CapReached(t) == iteration[t] + 1 > MaxIterations

\* iteration_count is incremented in the open transaction; past the cap the
\* task is closed, otherwise the context is built and the model called.
BrainReads ==
    /\ brain.at = "reading"
    /\ LET t == brain.msg.task IN
         IF CapReached(t)
         THEN /\ brain' = [brain EXCEPT !.at = "closing",
                                        !.txn = [NoTxn EXCEPT !.bump = TRUE, !.closing = TRUE]]
              /\ Announce(t)
              /\ UNCHANGED thoughts
         ELSE /\ brain' = [brain EXCEPT !.at = "thinking", !.txn = [NoTxn EXCEPT !.bump = TRUE]]
              /\ thoughts' = [thoughts EXCEPT ![t] = @ + 1]
              /\ UNCHANGED resolved
    /\ UNCHANGED <<queues, tool, request, db, faults, owner, sent, wantsShadow, dead, runs,
                   granted, splits, broken>>

\* Mutant: an early return forgets to commit.
BrainGivesUp_NoCommit ==
    /\ brain.at = "thinking"
    /\ brain' = IdleBrain
    /\ Announce(brain.msg.task)
    /\ UNCHANGED <<queues, tool, request, db, faults, owner, sent, wantsShadow, dead, runs,
                   granted, thoughts, splits, broken>>

\* No quota, no API key, an open breaker, a failed call or a broken stream:
\* the error is persisted as the closing message and the task announced.
BrainGivesUp ==
    /\ brain.at = "thinking"
    /\ brain' = [brain EXCEPT !.at = "closing", !.txn.closing = TRUE]
    /\ Announce(brain.msg.task)
    /\ UNCHANGED <<queues, tool, request, db, faults, owner, sent, wantsShadow, dead, runs,
                   granted, thoughts, splits, broken>>

\* process_response without tool calls.
BrainAnswers ==
    /\ brain.at = "thinking"
    /\ brain' = [brain EXCEPT !.at = "committing", !.txn.closing = TRUE]
    /\ Announce(brain.msg.task)
    /\ UNCHANGED <<queues, tool, request, db, faults, owner, sent, wantsShadow, dead, runs,
                   granted, thoughts, splits, broken>>

Fresh(b) == \A i \in 1..Len(b) : owner[b[i]] = NoTask

\* The calls become the task's; they are new in every reply.
Claims(b) == owner' = [c \in Calls |-> IF c \in Elements(b) THEN brain.msg.task ELSE owner[c]]

\* process_response with a call whose arguments are no JSON: the assistant
\* message with all the calls is kept, none is dispatched, the task closes.
BrainBadArguments(b) ==
    /\ brain.at = "thinking"
    /\ Fresh(b)
    /\ Claims(b)
    /\ brain' = [brain EXCEPT !.at = "committing", !.txn.closing = TRUE, !.txn.asked = Elements(b)]
    /\ Announce(brain.msg.task)
    /\ UNCHANGED <<queues, tool, request, db, faults, sent, wantsShadow, dead, runs,
                   granted, thoughts, splits, broken>>

\* process_response with tool calls: EXECUTE_TOOL_BATCH is published before
\* the assistant message that holds the calls is committed.  The calls carry
\* no approval of the user; what their arguments say of one is the model's
\* (Preapproved).
BrainCallsTools(b) ==
    /\ brain.at = "thinking"
    /\ Fresh(b)
    /\ Claims(b)
    /\ execQ' = Append(execQ, [task |-> brain.msg.task, calls |-> b, approved |-> FALSE,
                               dry |-> DryRun \cap Elements(b), attempt |-> 0])
    /\ brain' = [brain EXCEPT !.at = "committing", !.txn.asked = Elements(b)]
    /\ UNCHANGED <<taskQ, tool, request, db, faults, sent, wantsShadow, resolved, dead, runs,
                   granted, thoughts, splits, broken>>

\* db.commit() succeeds; the handler returns and the message is completed.
BrainCommits ==
    /\ brain.at \in {"closing", "committing"}
    /\ LET t == brain.msg.task  txn == brain.txn IN
         /\ iteration' = [iteration EXCEPT ![t] = IF txn.bump THEN @ + 1 ELSE @]
         /\ asked' = asked \cup txn.asked
         /\ closings' = [closings EXCEPT ![t] = IF txn.closing THEN @ + 1 ELSE @]
    /\ brain' = IdleBrain
    /\ UNCHANGED <<queues, tool, request, results, approvals, shadow, faults, past>>

\* The commit of process_response fails inside the try of
\* call_llm_and_stream: the transaction is gone, the iteration and the tool
\* calls with it, but a published batch stays; the task is closed.
BrainCommitFails ==
    /\ brain.at = "committing"
    /\ faults < MaxFaults
    /\ faults' = faults + 1
    /\ brain' = [brain EXCEPT !.at = "closing", !.txn = [NoTxn EXCEPT !.closing = TRUE]]
    /\ Announce(brain.msg.task)
    /\ UNCHANGED <<queues, tool, request, db, owner, sent, wantsShadow, dead, runs,
                   granted, thoughts, splits, broken>>

\* Mutants: a message that failed is not put back; one attempt too many.
PutBack_Lost(q, msg) == q
PutBack_OffByOne(q, msg) ==
    IF msg.attempt >= MaxAttempts THEN q ELSE Append(q, [msg EXCEPT !.attempt = @ + 1])

\* The broker's except branch: back to the tail, or dead-lettered.
PutBack(q, msg) ==
    IF msg.attempt + 1 >= MaxAttempts
    THEN q
    ELSE Append(q, [msg EXCEPT !.attempt = @ + 1])

Buried(msg) == IF msg.attempt + 1 >= MaxAttempts THEN dead \cup {msg.task} ELSE dead

\* A database error anywhere else leaves the handler: the open transaction
\* is lost and the broker retries the message.
BrainRaises ==
    /\ brain.at \in {"reading", "thinking", "closing"}
    /\ faults < MaxFaults
    /\ faults' = faults + 1
    /\ taskQ' = PutBack(taskQ, brain.msg)
    /\ dead' = Buried(brain.msg)
    /\ brain' = IdleBrain
    /\ UNCHANGED <<execQ, tool, request, db, owner, sent, wantsShadow, resolved, runs,
                   granted, thoughts, splits, broken>>

-----------------------------------------------------------------------------
(* The tool worker: process_tool_event.                                    *)

\* The session is loaded once: its shadow flag is the one of this moment.
ToolTake ==
    /\ tool.at = "idle"
    /\ execQ # << >>
    /\ tool' = [at |-> "next", msg |-> Head(execQ), left |-> Head(execQ).calls,
                paused |-> FALSE, shadow |-> shadow]
    /\ execQ' = Tail(execQ)
    /\ UNCHANGED <<taskQ, brain, request, db, faults, past>>

\* Mutant: approval is never asked for.
Verdict_NeverAsks(c) == IF c \in Forbidden THEN "deny" ELSE "allow"

\* The calls about which the user is asked: __approved__ is taken from the
\* arguments, whoever put it there.
Gated == NeedsApproval \ Preapproved

\* PolicyEngine.assert_action_allowed: approval is looked at before the role
\* and the paths.  Arguments without get() raise where they are looked at,
\* here for __approved__, for a path in Forbidden, which is a refusal.
Verdict(c) ==
    IF c \in NeedsApproval \cap NotObject THEN "deny"
    ELSE IF c \in Gated /\ ~tool.msg.approved THEN "ask"
    ELSE IF c \in Forbidden THEN "deny" ELSE "allow"

AtCall(verdict) ==
    /\ tool.at = "next"
    /\ tool.left # << >>
    /\ Verdict(Head(tool.left)) = verdict

Current == Head(tool.left)

\* The approval message is persisted and committed; the batch is paused.  A
\* second one in a batch will be decided, and continue the task, on its own.
ToolAsksApproval ==
    /\ AtCall("ask")
    /\ approvals' = [approvals EXCEPT ![Current] = Append(@, "NEEDS_APPROVAL")]
    /\ results' = [results EXCEPT ![Current] = @ + 1]
    /\ tool' = [tool EXCEPT !.left = Tail(@), !.paused = TRUE]
    /\ splits' = IF tool.paused THEN [splits EXCEPT ![tool.msg.task] = @ + 1] ELSE splits
    /\ UNCHANGED <<queues, brain, request, iteration, asked, closings, shadow, faults, owner,
                   sent, wantsShadow, resolved, dead, runs, granted, thoughts, broken>>

\* "GOVERNANCE DENIED" is persisted as the result of the call.
ToolDenies ==
    /\ AtCall("deny")
    /\ results' = [results EXCEPT ![Current] = @ + 1]
    /\ tool' = [tool EXCEPT !.left = Tail(@)]
    /\ UNCHANGED <<queues, brain, request, iteration, asked, approvals, closings, shadow,
                   faults, past>>

\* tool_args.pop of arguments that are no object, before anything is run.
Breaks(c) == c \in NotObject \ Unknown

Simulated(c) == c \in tool.msg.dry \/ tool.shadow

\* Unknown tools and simulated calls do nothing real.  dry_run is popped
\* from the arguments of the message itself.
ToolSkips ==
    /\ AtCall("allow")
    /\ Current \in Unknown \/ Simulated(Current)
    /\ ~Breaks(Current)
    /\ tool' = [tool EXCEPT !.at = "saving",
                            !.msg.dry = IF Current \in Unknown THEN @ ELSE @ \ {Current}]
    /\ UNCHANGED <<queues, brain, request, db, faults, past>>

\* router.execute_tool; a timeout or an exception only changes the output.
ToolExecutes ==
    /\ AtCall("allow")
    /\ Current \notin Unknown
    /\ ~Breaks(Current)
    /\ ~Simulated(Current)
    /\ runs' = [runs EXCEPT ![Current] = @ + 1]
    /\ tool' = [tool EXCEPT !.at = "saving"]
    /\ UNCHANGED <<queues, brain, request, db, faults, owner, sent, wantsShadow, resolved,
                   dead, granted, thoughts, splits, broken>>

\* Mutant: the loop does not go on to the next call.
ToolSaves_Stays ==
    /\ tool.at = "saving"
    /\ results' = [results EXCEPT ![Current] = @ + 1]
    /\ tool' = [tool EXCEPT !.at = "next"]
    /\ UNCHANGED <<queues, brain, request, iteration, asked, approvals, closings, shadow,
                   faults, past>>

\* The output is persisted and committed, call by call.
ToolSaves ==
    /\ tool.at = "saving"
    /\ results' = [results EXCEPT ![Current] = @ + 1]
    /\ tool' = [tool EXCEPT !.at = "next", !.left = Tail(@)]
    /\ UNCHANGED <<queues, brain, request, iteration, asked, approvals, closings, shadow,
                   faults, past>>

\* Mutants: the brain is re-triggered though an approval is open; never.
Retrigger_Always == taskQ' = Append(taskQ, Think(tool.msg.task, FALSE))
Retrigger_Never == UNCHANGED taskQ

\* _re_trigger_brain, unless a call of this very message waits for approval.
Retrigger ==
    taskQ' = IF tool.paused THEN taskQ ELSE Append(taskQ, Think(tool.msg.task, FALSE))

ToolEndsBatch ==
    /\ tool.at = "next"
    /\ tool.left = << >>
    /\ Retrigger
    /\ tool' = IdleTool
    /\ UNCHANGED <<execQ, brain, request, db, faults, past>>

\* The database is used to load the session, to persist a refusal or an
\* approval request, and to save an output.
ToolUsesDb ==
    \/ tool.at = "saving"
    \/ tool.at = "next" /\ tool.left = tool.msg.calls
    \/ AtCall("ask") \/ AtCall("deny")

\* A database error: the whole batch is retried, with what was popped gone.
ToolRaises ==
    /\ ToolUsesDb
    /\ faults < MaxFaults
    /\ faults' = faults + 1
    /\ execQ' = PutBack(execQ, tool.msg)
    /\ dead' = Buried(tool.msg)
    /\ tool' = IdleTool
    /\ UNCHANGED <<taskQ, brain, request, db, owner, sent, wantsShadow, resolved, runs,
                   granted, thoughts, splits, broken>>

\* Outside any try, such arguments leave the handler: the broker retries the
\* batch, with the calls before this one, until it is dead-lettered.
ToolBreaks ==
    /\ AtCall("allow")
    /\ Breaks(Current)
    /\ execQ' = PutBack(execQ, tool.msg)
    /\ dead' = Buried(tool.msg)
    /\ broken' = [broken EXCEPT ![tool.msg.task] = @ + 1]
    /\ tool' = IdleTool
    /\ UNCHANGED <<taskQ, brain, request, db, faults, owner, sent, wantsShadow, resolved, runs,
                   granted, thoughts, splits>>

-----------------------------------------------------------------------------
BrainReplies ==
    \/ BrainGivesUp
    \/ BrainAnswers
    \/ \E b \in Batches : BrainBadArguments(b) \/ BrainCallsTools(b)

BrainStep == BrainTake \/ BrainReads \/ BrainReplies \/ BrainCommits

ToolStep == ToolTake \/ ToolAsksApproval \/ ToolDenies \/ ToolSkips \/ ToolExecutes
            \/ ToolSaves \/ ToolBreaks \/ ToolEndsBatch

Fault == BrainCommitFails \/ BrainRaises \/ ToolRaises

Next ==
    \/ \E t \in Tasks : DispatchTask(t) \/ \E inShadow \in BOOLEAN : SendMessage(t, inShadow)
    \/ \E r \in Requests : ReadApproval(r) \/ Deny(r) \/ Approve(r)
    \/ BrainStep
    \/ ToolStep
    \/ Fault

Spec == Init /\ [][Next]_vars

(* Both workers run as tasks of the process's event loop for its whole     *)
(* life; every tool ends within 120 seconds; the model call has the        *)
(* timeout of its client library, and its stream is assumed to end; and    *)
(* the user decides every approval request that is shown.                  *)
Fairness ==
    /\ WF_vars(BrainStep)
    /\ WF_vars(ToolStep)
    /\ \A r \in Requests : WF_vars(ReadApproval(r)) /\ WF_vars(Deny(r) \/ Approve(r))

FairSpec == Spec /\ Fairness
-----------------------------------------------------------------------------
TypeOK ==
    /\ \A i \in 1..Len(taskQ) : taskQ[i].task \in sent /\ taskQ[i].attempt < MaxAttempts
    /\ \A i \in 1..Len(execQ) : execQ[i].task \in sent /\ execQ[i].attempt < MaxAttempts
    /\ brain.at \in {"idle", "reading", "thinking", "closing", "committing"}
    /\ brain.at # "idle" => brain.msg.task \in sent
    /\ tool.at \in {"idle", "next", "saving"}
    /\ tool.at # "idle" => tool.msg.task \in sent /\ tool.msg.calls \in Seq(Calls)
    /\ request \in [Requests -> {<< >>} \cup (Calls \X (Nat \ {0}))]
    /\ iteration \in [Tasks -> Nat]
    /\ asked \subseteq Calls
    /\ results \in [Calls -> Nat]
    /\ approvals \in [Calls -> Seq({"NEEDS_APPROVAL", "APPROVED", "DENIED"})]
    /\ closings \in [Tasks -> Nat]
    /\ shadow \in BOOLEAN
    /\ faults \in 0..MaxFaults
    /\ owner \in [Calls -> Tasks \cup {NoTask}]
    /\ sent \subseteq Tasks /\ wantsShadow \subseteq sent /\ dead \subseteq sent
    /\ resolved \in [Tasks -> Nat] /\ runs \in [Calls -> Nat] /\ thoughts \in [Tasks -> Nat]
    /\ splits \in [Tasks -> Nat] /\ broken \in [Tasks -> Nat]

CallsOf(t) == {c \in Calls : owner[c] = t}

Positions(q, t) == {i \in 1..Len(q) : q[i].task = t}

\* The places from which the loop of task t goes on by itself: a message in
\* a queue, one the brain has not answered yet, a batch that will re-trigger.
Threads(t) ==
    Cardinality(Positions(taskQ, t)) + Cardinality(Positions(execQ, t))
    + (IF brain.at \in {"reading", "thinking"} /\ brain.msg.task = t THEN 1 ELSE 0)
    + (IF tool.at # "idle" /\ tool.msg.task = t /\ ~tool.paused THEN 1 ELSE 0)

Requested(status) == {p \in Calls \X (1..MaxAttempts) : p[2] \in 1..Len(approvals[p[1]])
                                                          /\ approvals[p[1]][p[2]] = status}

Undecided(t) == {p \in Requested("NEEDS_APPROVAL") : owner[p[1]] = t}
Denied(t)    == {p \in Requested("DENIED") : owner[p[1]] = t}

\* The loop never stops silently: a task that was accepted is being worked
\* on, was announced as resolved, waits for the user's decision or was
\* denied, or one of its messages is in the dead letter queue - through
\* approvals, pauses, database errors and retries.
NeverForgotten ==
    \A t \in sent :
        Threads(t) > 0 \/ resolved[t] > 0 \/ Undecided(t) # {} \/ Denied(t) # {} \/ t \in dead

\* The chains of reasoning of a task: the places that continue it, its
\* announcement, and its requests that wait or ended in a refusal.  There is
\* one, and at most one more for each thing that starts another: a further
\* request of a reply, a second dispatch of one request, and a retry of a
\* batch that was paused, after a database error or a batch that broke.
OneChain ==
    \A t \in Tasks :
        Threads(t) + resolved[t]
        + Cardinality(Undecided(t) \cup {p \in Denied(t) : ~Granted(p)})
            <= 1 + splits[t] + faults + broken[t]

\* Whenever the brain builds a context, every tool call in the committed
\* history of the task has a result there, and every result its call: the
\* model API refuses a history that breaks either.  The batch is published
\* before the assistant message is committed, so this rests on the brain
\* being a single consumer - and on the database not failing, no batch
\* having broken and no second chain of the task having begun.
ContextComplete ==
    LET t == brain.msg.task IN
        faults = 0 /\ brain.at = "thinking" /\ splits[t] + broken[t] = 0 =>
            \A c \in CallsOf(t) : c \in asked <=> results[c] > 0

\* A call that needs approval is executed only if a user approved it or its
\* own arguments said so, a forbidden one never, whatever is retried.
RunsAreAuthorised ==
    \A c \in Calls : runs[c] > 0 =>
        /\ c \in Gated => Grants(c) # {}
        /\ c \notin Forbidden

\* A tool runs once for the batch that holds its call, or once for each
\* approval, and once more only for what made the broker retry the batch: a
\* database error, or arguments of a later call of its task that broke it.
RunsArePaidFor ==
    \A t \in Tasks : \A c \in CallsOf(t) :
        runs[c] <= faults + broken[t]
                   + (IF c \in Gated THEN Cardinality(Grants(c)) ELSE 1)

\* The iteration cap: the model is consulted at most MaxIterations times for
\* a task, and once more for each database error that rolled back a count.
IterationsBounded == \A t \in Tasks : thoughts[t] <= MaxIterations + faults

\* Every run of a tool is accounted for: authorised, paid for by a call or by a
\* fault that made it run again, and the brain thinks no more often than allowed.
RunsAreAccounted == TypeOK /\ RunsAreAuthorised /\ RunsArePaidFor /\ IterationsBounded

\* Every task is eventually announced resolved, unless the user denied one
\* of its calls or a message of it was dead-lettered.
Resolves == \A t \in Tasks : t \in sent ~> (resolved[t] > 0 \/ Denied(t) # {} \/ t \in dead)

\* What is announced is saved in the end, if the database does not fail.
AnnouncedIsSaved == \A t \in Tasks : resolved[t] > 0 ~> closings[t] > 0 \/ faults > 0

(* What comments and messages of the code say of the loop.                 *)

\* tool_worker.py:172 "Re-trigger brain ... ONLY if no tool is waiting for
\* approval": no re-trigger of a task is queued while one of its calls waits.
RetriggerOnlyWhenDecided ==
    \A i \in 1..Len(taskQ) : ~taskQ[i].first => Undecided(taskQ[i].task) = {}

\* tool_worker.py:127 "Simulated execution ... No real actions were taken":
\* a call made with dry_run is never executed.
DryRunNeverRuns == \A c \in DryRun : runs[c] = 0

\* chat.py:169 "human-in-the-loop approval for restricted tools": a call that
\* needs approval is executed only after a user approved it.
ApprovalIsTheUsers == \A c \in NeedsApproval : runs[c] > 0 => Grants(c) # {}

\* ChatComposer.tsx:74 "Shadow mode: simulate restricted actions": no call of
\* a task that was sent in shadow mode is executed.
ShadowNeverRuns == \A c \in Calls : owner[c] \in wantsShadow => runs[c] = 0
=============================================================================
