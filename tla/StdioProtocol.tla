--------------------------- MODULE StdioProtocol ----------------------------
(***************************************************************************)
(* One MCPStdioProtocol (src/services/mcp/stdio_protocol.py) with its      *)
(* StdinStdoutWriter: the coroutines that send requests to one subprocess, *)
(* the lock that serialises them, the two pipes, and the subprocess.       *)
(*                                                                         *)
(* list_tools, call_tool and ping are _send_request and nothing else, so a *)
(* caller stands for any of them.  initialize is sent by Starter before    *)
(* initialize_server hands the protocol to anybody else.  A line on stdout *)
(* is what the reader tells apart: the answer to a request, any other line *)
(* with an id (a request of the subprocess, an error without a request, a  *)
(* second answer), a notification (JSON without an id) or noise (not JSON, *)
(* or empty).                                                              *)
(***************************************************************************)
EXTENDS Naturals, Sequences, FiniteSets, SequencesExt

CONSTANTS Callers,       \* coroutines that use the protocol once it is initialized
          Starter,       \* the coroutine in initialize_server
          LineCap,       \* the literal 50 of _send_request
          MaxRequests,   \* bound on the requests of a behaviour
          PipeLines      \* lines the pipe holds before its writer blocks

ASSUME ProtocolAssumption ==
    /\ Starter \notin Callers
    /\ LineCap \in Nat \ {0}
    /\ MaxRequests \in Nat \ {0}
    /\ PipeLines \in Nat \ {0}

Everyone == Callers \cup {Starter}
Ids      == 1..MaxRequests

VARIABLES
    request_id,     \* self._request_id
    lock,           \* self._lock: the callers in the order asyncio serves them
    caller,         \* per caller: "idle", "waiting" for the lock or "reading"
    sent,           \* per caller: the id of its request
    lines,          \* per caller: JSON lines the loop of _send_request has read
    initialized,    \* "no", "notifying", "yes" or "failed"
    alive,          \* self._process.returncode is None
    todo,           \* external: requests the subprocess has not answered
    stdout,         \* the pipe: lines not read yet
    served,         \* history: <<request, answer>> handed to a caller
    abandoned       \* history: requests whose caller left without an answer of its own

pipe   == <<alive, todo, stdout>>
past   == <<served, abandoned>>
vars   == <<request_id, lock, caller, sent, lines, initialized, pipe, past>>

Lines == [kind : {"answer", "other", "note", "noise"}, id : 0..MaxRequests]

TypeOK ==
    /\ request_id \in 0..MaxRequests
    /\ lock \in Seq(Everyone)
    /\ caller \in [Everyone -> {"idle", "waiting", "reading"}]
    /\ sent \in [Everyone -> 0..MaxRequests]
    /\ lines \in [Everyone -> 0..LineCap - 1]
    /\ initialized \in {"no", "notifying", "yes", "failed"}
    /\ alive \in BOOLEAN
    /\ todo \subseteq Ids
    /\ stdout \in Seq(Lines)
    /\ served \subseteq Ids \X Ids
    /\ abandoned \subseteq Ids

Init ==
    /\ request_id = 0
    /\ lock = << >>
    /\ caller = [c \in Everyone |-> "idle"]
    /\ sent = [c \in Everyone |-> 0]
    /\ lines = [c \in Everyone |-> 0]
    /\ initialized = "no"
    /\ alive = TRUE
    /\ todo = {}
    /\ stdout = << >>
    /\ served = {}
    /\ abandoned = {}

-----------------------------------------------------------------------------
(* _send_request                                                           *)

Waiting == {c \in Everyone : caller[c] = "waiting"}

\* async with self._lock: the lock is granted in the order it was asked for.
Request(c) ==
    /\ caller[c] = "idle"
    /\ IF c = Starter THEN initialized = "no" /\ request_id = 0 ELSE initialized = "yes"
    /\ request_id + Cardinality(Waiting) < MaxRequests
    /\ caller' = [caller EXCEPT ![c] = "waiting"]
    /\ lock' = Append(lock, c)
    /\ UNCHANGED <<request_id, sent, lines, initialized, pipe, past>>

\* Mutant: no lock.
HasLock_Ignored(c) == lock # << >>

HasLock(c) == lock # << >> /\ Head(lock) = c

\* The id is drawn and the request written; a dead process takes no request.
Write(c) ==
    /\ caller[c] = "waiting"
    /\ HasLock(c)
    /\ request_id' = request_id + 1
    /\ caller' = [caller EXCEPT ![c] = "reading"]
    /\ sent' = [sent EXCEPT ![c] = request_id + 1]
    /\ lines' = [lines EXCEPT ![c] = 0]
    /\ todo' = IF alive THEN todo \cup {request_id + 1} ELSE todo
    /\ UNCHANGED <<lock, initialized, alive, stdout, past>>

\* Leaving the block releases the lock, or gives up the place in its queue.
Leave(c) ==
    /\ caller' = [caller EXCEPT ![c] = "idle"]
    /\ lock' = RemoveFirst(lock, c)

Abandon(c) ==
    /\ Leave(c)
    /\ abandoned' = abandoned \cup (IF caller[c] = "reading" THEN {sent[c]} ELSE {})
    /\ initialized' = IF c = Starter THEN "failed" ELSE initialized

NextLine == Head(stdout)

\* Mutant: the line stays in the pipe.
Consume_Peeks == UNCHANGED stdout

Consume == stdout' = Tail(stdout)

\* A line with an id, whatever the id, ends the request: with its result or,
\* if it holds an error, with MCPRequestError, which fails initialize.
ReadAnswer(c) ==
    /\ caller[c] = "reading"
    /\ stdout # << >>
    /\ NextLine.kind = "answer"
    /\ Consume
    /\ served' = served \cup {<<sent[c], NextLine.id>>}
    /\ Leave(c)
    /\ IF c = Starter THEN initialized' \in {"notifying", "failed"} ELSE UNCHANGED initialized
    /\ UNCHANGED <<request_id, sent, lines, alive, todo, abandoned>>

\* So does a line with an id that answers nothing (the result is None, on
\* which initialize and list_tools raise, or the error is not the caller's),
\* and one that readline or decode cannot take.
ReadOther(c) ==
    /\ caller[c] = "reading"
    /\ stdout # << >>
    /\ NextLine.kind = "other"
    /\ Consume
    /\ Abandon(c)
    /\ UNCHANGED <<request_id, sent, lines, alive, todo, served>>

\* Mutant: the safety cap is one line too late.
CapReached_Late(c) == lines[c] + 1 > LineCap

CapReached(c) == lines[c] + 1 >= LineCap

\* A notification is skipped, and counted against the safety cap.
ReadNotification(c) ==
    /\ caller[c] = "reading"
    /\ stdout # << >>
    /\ NextLine.kind = "note"
    /\ Consume
    /\ IF CapReached(c)
       THEN Abandon(c) /\ UNCHANGED lines
       ELSE /\ lines' = [lines EXCEPT ![c] = @ + 1]
            /\ UNCHANGED <<lock, caller, abandoned, initialized>>
    /\ UNCHANGED <<request_id, sent, alive, todo, served>>

\* read_line skips noise by itself, without counting it.
ReadNoise(c) ==
    /\ caller[c] = "reading"
    /\ stdout # << >>
    /\ NextLine.kind = "noise"
    /\ Consume
    /\ UNCHANGED <<request_id, lock, caller, sent, lines, initialized, alive, todo, past>>

\* Mutant: an error leaves the lock taken.
ReadFails_KeepsLock(c) ==
    /\ caller[c] = "reading"
    /\ stdout = << >>
    /\ caller' = [caller EXCEPT ![c] = "idle"]
    /\ abandoned' = abandoned \cup {sent[c]}
    /\ initialized' = IF c = Starter THEN "failed" ELSE initialized
    /\ UNCHANGED <<request_id, lock, sent, lines, pipe, served>>

\* No line for READ_TIMEOUT_SECONDS, or the end of the stream: MCPProtocolError.
ReadFails(c) ==
    /\ caller[c] = "reading"
    /\ stdout = << >>
    /\ Abandon(c)
    /\ UNCHANGED <<request_id, sent, lines, pipe, served>>

\* CancelledError: the tool worker's wait_for gives up on the caller.
Cancelled(c) ==
    /\ caller[c] # "idle"
    /\ Abandon(c)
    /\ UNCHANGED <<request_id, sent, lines, pipe, served>>

\* initialize ends with a notification, written under the lock; the
\* subprocess answers nothing to it.
Notify ==
    /\ initialized = "notifying"
    /\ lock = << >>
    /\ initialized' = "yes"
    /\ UNCHANGED <<request_id, lock, caller, sent, lines, pipe, past>>

\* close() terminates the process, or it dies by itself; what it has written
\* can still be read.
Close ==
    /\ alive
    /\ alive' = FALSE
    /\ UNCHANGED <<request_id, lock, caller, sent, lines, initialized, todo, stdout, past>>

-----------------------------------------------------------------------------
(* The subprocess: it answers a request at most once, and the requests in  *)
(* any order.  A full pipe blocks it.                                      *)

Answer(i) ==
    /\ alive
    /\ i \in todo
    /\ Len(stdout) < PipeLines
    /\ todo' = todo \ {i}
    /\ stdout' = Append(stdout, [kind |-> "answer", id |-> i])
    /\ UNCHANGED <<request_id, lock, caller, sent, lines, initialized, alive, past>>

\* A line that answers nothing; nothing bounds how many it writes.
Chatter(kind) ==
    /\ alive
    /\ Len(stdout) < PipeLines
    /\ stdout' = Append(stdout, [kind |-> kind, id |-> 0])
    /\ UNCHANGED <<request_id, lock, caller, sent, lines, initialized, alive, todo, past>>

Read(c) == ReadAnswer(c) \/ ReadOther(c) \/ ReadNotification(c) \/ ReadNoise(c) \/ ReadFails(c)

Next ==
    \/ \E c \in Everyone : Request(c) \/ Write(c) \/ Read(c) \/ Cancelled(c)
    \/ Notify
    \/ Close
    \/ \E i \in Ids : Answer(i)
    \/ \E kind \in {"other", "note", "noise"} : Chatter(kind)

Spec == Init /\ [][Next]_vars

(* The event loop resumes the holder of the lock, and every read ends: with *)
(* a line, or with the timeout.                                            *)
Fairness == \A c \in Everyone : WF_vars(Write(c)) /\ WF_vars(Read(c))

FairSpec == Spec /\ Fairness

-----------------------------------------------------------------------------
(* Properties.                                                             *)

InPipe   == {stdout[k].id : k \in {k \in 1..Len(stdout) : stdout[k].kind = "answer"}}
Consumed == {p[2] : p \in served}

\* An answer is handed out once: no two requests are served by the same
\* answer, none is both consumed and still on its way, and an answer exists
\* only for a request that was written.
AnsweredOnce ==
    /\ \A p, q \in served : p[2] = q[2] => p = q
    /\ (InPipe \cup todo) \cap Consumed = {}
    /\ InPipe \cup todo \cup Consumed \subseteq 1..request_id

\* Without ids being compared, the answers still match as long as every
\* caller left with an answer of its own: the lock keeps one request in
\* flight, so the next answer in the pipe is its own.  A caller that gave up,
\* or took a line for its answer that answers nothing, ends that for good.
MatchedUnlessAbandoned == abandoned = {} => \A p \in served : p[1] = p[2]

\* The protocol is out of step only by what was abandoned: the answers still
\* to come or to be read are those of the request being read for and at most
\* one for each request whose caller left without its answer.
OutOfStep ==
    Cardinality(InPipe \cup todo) <=
        Cardinality(abandoned) + Cardinality({c \in Everyone : caller[c] = "reading"})

\* Every answer is accounted for: handed out once, to the request it answers
\* unless one was abandoned, and behind by no more than the abandoned ones.
AnswersAccounted == TypeOK /\ AnsweredOnce /\ MatchedUnlessAbandoned /\ OutOfStep

\* Whoever asks for the lock gets an answer or an error, however the
\* subprocess answers, fails or ends, and whatever JSON it writes: no failure
\* leaves the lock taken.  Only noise without end does: read_line skips it
\* uncounted and starts its timeout again at every line.
NoiseEnds == <>[][~Chatter("noise")]_vars

Released == NoiseEnds => \A c \in Everyone : caller[c] # "idle" ~> caller[c] = "idle"

\* The same without the condition: what the timeout of a read and the cap on
\* the lines of a request are there for, and what endless noise breaks.
ReleasedWhateverItWrites == \A c \in Everyone : caller[c] # "idle" ~> caller[c] = "idle"

\* stdio_protocol.py:7 "validates response IDs" and :51 "read the matching
\* response": what a caller is handed answers its own request.
OwnResponse == \A p \in served : p[1] = p[2]
=============================================================================
