------------------------- MODULE ConversationProofs -------------------------
(***************************************************************************)
(* Proofs about AgentLoop for any tasks, calls, replies and requests, and  *)
(* about MessageLog and ContextManager for any sessions, transactions and  *)
(* loaders; both for any bounds.                                           *)
(***************************************************************************)
EXTENDS AgentLoop, ContextManager, FiniteSetTheorems, SequenceTheorems,
        WellFoundedInduction, TLAPS

-----------------------------------------------------------------------------
(* AgentLoop: the inductive invariant.                                     *)

Answers  == {"NEEDS_APPROVAL", "APPROVED", "DENIED"}
Attempts == 0..MaxAttempts - 1

ThinkMsgs == [task : Tasks, first : BOOLEAN, attempt : Attempts]
ToolMsgs  == [task : Tasks, calls : Seq(Calls), approved : BOOLEAN, dry : SUBSET Calls,
              attempt : Attempts]
Txns      == [bump : BOOLEAN, asked : SUBSET Calls, closing : BOOLEAN]

\* The steps at which a worker has a message in hand.
BrainSteps == {"reading", "thinking", "closing", "committing"}
ToolSteps  == {"next", "saving"}

BrainBusy  == [at : BrainSteps, msg : ThinkMsgs, txn : Txns]
ToolBusy   == [at : ToolSteps, msg : ToolMsgs, left : Seq(Calls), paused : BOOLEAN, shadow : BOOLEAN]

Once(s) == \A i, j \in 1..Len(s) : s[i] = s[j] => i = j

Types ==
    /\ taskQ \in Seq(ThinkMsgs) /\ execQ \in Seq(ToolMsgs)
    /\ brain = IdleBrain \/ brain \in BrainBusy
    /\ tool = IdleTool \/ tool \in ToolBusy
    /\ request \in [Requests -> {<< >>} \cup (Calls \X (Nat \ {0}))]
    /\ iteration \in [Tasks -> Nat]
    /\ asked \subseteq Calls
    /\ results \in [Calls -> Nat]
    /\ approvals \in [Calls -> Seq(Answers)]
    /\ closings \in [Tasks -> Nat]
    /\ shadow \in BOOLEAN
    /\ faults \in 0..MaxFaults
    /\ owner \in [Calls -> Tasks \cup {NoTask}]
    /\ sent \subseteq Tasks /\ wantsShadow \subseteq sent /\ dead \subseteq sent
    /\ resolved \in [Tasks -> Nat] /\ runs \in [Calls -> Nat] /\ thoughts \in [Tasks -> Nat]
    /\ granted \in Seq(Calls \X (Nat \ {0}))
    /\ splits \in [Tasks -> Nat] /\ broken \in [Tasks -> Nat]

\* What holds of a batch wherever it is: its calls are its task's, each is in
\* it once, and an approved batch holds what a user has granted.
BatchSound(m) ==
    /\ m.task \in sent /\ Once(m.calls)
    /\ \A c \in Elements(m.calls) :
          /\ owner[c] = m.task
          /\ m.approved => Grants(c) # {}

\* An unapproved batch has asked for a call once in each attempt at most.
Unasked(m, c, more) == c \in Elements(m.calls) /\ ~m.approved => Len(approvals[c]) <= m.attempt + more

\* The messages of the two queues and the two in hand.
Messages ==
    /\ \A i \in 1..Len(taskQ) : taskQ[i].task \in sent
    /\ brain.at # "idle" => brain.msg.task \in sent
    /\ \A i \in 1..Len(execQ) : BatchSound(execQ[i])
    /\ tool.at # "idle" =>
          /\ BatchSound(tool.msg)
          /\ Once(tool.left) /\ Elements(tool.left) \subseteq Elements(tool.msg.calls)
          /\ tool.at = "saving" => tool.left # << >>

\* Each call is asked for by one unapproved batch, once in each attempt.
Asking ==
    /\ \A i \in 1..Len(execQ), c \in Calls : Unasked(execQ[i], c, 0)
    /\ tool.at # "idle" => \A c \in Calls :
          Unasked(tool.msg, c, IF c \in Elements(tool.left) THEN 0 ELSE 1)
    /\ \A c \in Calls :
          /\ \A i, j \in 1..Len(execQ) :
                (/\ c \in Elements(execQ[i].calls) /\ ~execQ[i].approved
                 /\ c \in Elements(execQ[j].calls) /\ ~execQ[j].approved) => i = j
          /\ (tool.at # "idle" /\ c \in Elements(tool.msg.calls) /\ ~tool.msg.approved) =>
                \A i \in 1..Len(execQ) : c \in Elements(execQ[i].calls) => execQ[i].approved
    /\ \A c \in Calls :
          /\ Len(approvals[c]) <= MaxAttempts
          /\ approvals[c] # << >> => c \in Gated /\ owner[c] \in sent
    /\ \A r \in Requests : request[r] # << >> => request[r][2] \in 1..Len(approvals[request[r][1]])

\* What the tool worker will still do of its batch.
ToRun == IF tool.at = "saving" THEN Elements(Tail(tool.left)) ELSE Elements(tool.left)

\* The batch m executes the call c.
Executes(m, c) == c \in Elements(m.calls) /\ (c \in Gated => m.approved)
Holders(q, c)  == {i \in 1..Len(q) : Executes(q[i], c)}
InHand(c)      == tool.at # "idle" /\ Executes(tool.msg, c) /\ c \in ToRun

\* What was paid for a call, and what batches of its task that broke redo.
Bought(c) == IF c \in Gated THEN Cardinality(Grants(c))
             ELSE IF owner[c] = NoTask THEN 0 ELSE 1

Redone(c) == IF owner[c] = NoTask THEN 0 ELSE broken[owner[c]]

Due(c) == Bought(c) + Redone(c)

\* The runs of a call and those that are still to come are paid for.
Paid ==
    \A c \in Calls :
        runs[c] + Cardinality(Holders(execQ, c)) + (IF InHand(c) THEN 1 ELSE 0) <= faults + Due(c)

\* A thought that is not counted yet will be, or a fault has lost the count.
Counting(t) == brain.at # "idle" /\ brain.msg.task = t /\ brain.txn.bump

Iterations ==
    /\ \A t \in Tasks :
          /\ thoughts[t] <= MaxIterations + faults
          /\ thoughts[t] <= iteration[t] + faults + (IF Counting(t) THEN 1 ELSE 0)
    /\ brain.at = "reading" => ~brain.txn.bump

\* Something goes on with the task, or its user has to.
Queued(q, t) == \E i \in 1..Len(q) : q[i].task = t

Going(t) ==
    \/ Queued(taskQ, t) \/ Queued(execQ, t)
    \/ brain.at \in {"reading", "thinking"} /\ brain.msg.task = t
    \/ tool.at # "idle" /\ tool.msg.task = t /\ ~tool.paused

Stopped(t) == \E p \in Requested("NEEDS_APPROVAL") \cup Requested("DENIED") : owner[p[1]] = t

\* A batch that is paused leaves an open request, a denial or an approval.
Kept ==
    /\ \A t \in sent : Going(t) \/ resolved[t] > 0 \/ Stopped(t) \/ t \in dead
    /\ (tool.at # "idle" /\ tool.paused) =>
          Stopped(tool.msg.task) \/ Queued(execQ, tool.msg.task)

IInv ==
    /\ Types
    /\ Messages
    /\ Asking
    /\ RunsAreAuthorised /\ Paid
    /\ Iterations
    /\ Kept

-----------------------------------------------------------------------------
(* Queues and counts.                                                      *)

\* A smaller set has no more members.
LEMMA Fewer ==
    ASSUME NEW S, IsFiniteSet(S), NEW T, T \subseteq S
    PROVE  /\ IsFiniteSet(T) /\ Cardinality(T) \in Nat /\ Cardinality(S) \in Nat
           /\ Cardinality(T) <= Cardinality(S)
BY FS_Subset, FS_CardinalityType

\* A set with one more member.
LEMMA OneMore ==
    ASSUME NEW S, IsFiniteSet(S), NEW x
    PROVE  /\ IsFiniteSet(S \cup {x}) /\ Cardinality(S) \in Nat
           /\ Cardinality(S \cup {x}) = IF x \in S THEN Cardinality(S) ELSE Cardinality(S) + 1
BY FS_AddElement, FS_CardinalityType

\* A set of positions is finite.
LEMMA Places ==
    ASSUME NEW n \in Nat, NEW T, T \subseteq 1..n
    PROVE  IsFiniteSet(T) /\ Cardinality(T) \in Nat
<1>1. IsFiniteSet(1..n)
      BY FS_Interval
<1> QED BY <1>1, Fewer

\* One message at the tail of a queue.
LEMMA Appended ==
    ASSUME NEW S, NEW q \in Seq(S), NEW m \in S
    PROVE  /\ Append(q, m) \in Seq(S) /\ Len(Append(q, m)) = Len(q) + 1 /\ Len(q) \in Nat
           /\ 1..Len(Append(q, m)) = 1..Len(q) \cup {Len(q) + 1}
           /\ \A i \in 1..Len(q) : Append(q, m)[i] = q[i] /\ q[i] \in S
           /\ Append(q, m)[Len(q) + 1] = m
BY AppendProperties, LenProperties

\* The head of a queue is taken.
LEMMA Taken ==
    ASSUME NEW S, NEW q \in Seq(S), q # << >>
    PROVE  /\ Head(q) \in S /\ Head(q) = q[1] /\ Tail(q) \in Seq(S)
           /\ Len(Tail(q)) = Len(q) - 1 /\ Len(q) \in Nat /\ Len(q) >= 1 /\ 1 \in 1..Len(q)
           /\ \A i \in 1..Len(Tail(q)) : Tail(q)[i] = q[i + 1] /\ i + 1 \in 1..Len(q) /\ i + 1 # 1
           /\ \A i \in 1..Len(q) : i = 1 \/ (i - 1 \in 1..Len(Tail(q)) /\ Tail(q)[i - 1] = q[i])
BY HeadTailProperties, EmptySeq

\* What a queue holds.
LEMMA QueuedAppend ==
    ASSUME NEW S, NEW q \in Seq(S), NEW m \in S, NEW t
    PROVE  Queued(Append(q, m), t) <=> Queued(q, t) \/ m.task = t
<1> DEFINE a == Append(q, m)
<1>1. /\ 1..Len(a) = 1..Len(q) \cup {Len(q) + 1}
      /\ \A i \in 1..Len(q) : a[i] = q[i]
      /\ a[Len(q) + 1] = m
      BY Appended
<1> HIDE DEF a
<1>2. Queued(a, t) <=> Queued(q, t) \/ m.task = t
      BY <1>1 DEF Queued
<1> QED BY <1>2 DEF a

\* The same, of the queue after the step.
LEMMA AppendedTo ==
    ASSUME NEW S, NEW q \in Seq(S), NEW m \in S, NEW a, a = Append(q, m)
    PROVE  /\ a \in Seq(S)
           /\ 1..Len(a) = 1..Len(q) \cup {Len(q) + 1}
           /\ \A i \in 1..Len(q) : a[i] = q[i]
           /\ a[Len(q) + 1] = m
<1>1. /\ a \in Seq(S)
      /\ 1..Len(a) = 1..Len(q) \cup {Len(q) + 1}
      /\ \A i \in 1..Len(q) : a[i] = q[i]
      /\ a[Len(q) + 1] = m
      BY Appended
<1> QED BY <1>1

LEMMA QueuedTail ==
    ASSUME NEW S, NEW q \in Seq(S), q # << >>, NEW t, Queued(q, t)
    PROVE  Head(q).task = t \/ Queued(Tail(q), t)
<1>1. PICK i \in 1..Len(q) : q[i].task = t
      BY DEF Queued
<1>2. CASE i = 1
      BY <1>1, <1>2, Taken
<1>3. CASE i # 1
  <2>1. i - 1 \in 1..Len(Tail(q)) /\ Tail(q)[i - 1] = q[i]
        BY <1>3, Taken
  <2> QED BY <1>1, <2>1 DEF Queued
<1> QED BY <1>2, <1>3

\* How many batches of a queue execute a call.
LEMMA HoldersFinite ==
    ASSUME NEW S, NEW q \in Seq(S), NEW c
    PROVE  IsFiniteSet(Holders(q, c)) /\ Cardinality(Holders(q, c)) \in Nat
<1>1. Holders(q, c) \subseteq 1..Len(q) /\ Len(q) \in Nat
      BY LenProperties DEF Holders
<1> QED BY <1>1, Places

LEMMA HoldersAppend ==
    ASSUME NEW S, NEW q \in Seq(S), NEW m \in S, NEW c
    PROVE  /\ Cardinality(Holders(Append(q, m), c)) <= Cardinality(Holders(q, c)) + 1
           /\ ~Executes(m, c) => Cardinality(Holders(Append(q, m), c)) <= Cardinality(Holders(q, c))
           /\ Cardinality(Holders(Append(q, m), c)) \in Nat
<1> DEFINE a == Append(q, m)
<1>1. /\ 1..Len(a) = 1..Len(q) \cup {Len(q) + 1} /\ a \in Seq(S)
      /\ \A i \in 1..Len(q) : a[i] = q[i]
      /\ a[Len(q) + 1] = m
      BY Appended
<1> HIDE DEF a
<1>2. /\ Holders(a, c) \subseteq Holders(q, c) \cup {Len(q) + 1}
      /\ ~Executes(m, c) => Holders(a, c) \subseteq Holders(q, c)
      BY <1>1 DEF Holders
<1>3. /\ IsFiniteSet(Holders(q, c)) /\ Cardinality(Holders(q, c)) \in Nat
      /\ Cardinality(Holders(a, c)) \in Nat
      BY <1>1, HoldersFinite
<1>4. /\ IsFiniteSet(Holders(q, c) \cup {Len(q) + 1})
      /\ Cardinality(Holders(q, c) \cup {Len(q) + 1}) <= Cardinality(Holders(q, c)) + 1
      /\ Cardinality(Holders(q, c) \cup {Len(q) + 1}) \in Nat
  <2>1. /\ IsFiniteSet(Holders(q, c) \cup {Len(q) + 1})
        /\ Cardinality(Holders(q, c) \cup {Len(q) + 1})
               = IF Len(q) + 1 \in Holders(q, c) THEN Cardinality(Holders(q, c))
                 ELSE Cardinality(Holders(q, c)) + 1
        BY <1>3, OneMore
  <2> QED BY <1>3, <2>1
<1>5. Cardinality(Holders(a, c)) <= Cardinality(Holders(q, c) \cup {Len(q) + 1})
      BY <1>2, <1>4, Fewer
<1>6. ~Executes(m, c) => Cardinality(Holders(a, c)) <= Cardinality(Holders(q, c))
      BY <1>2, <1>3, Fewer
<1>7. Cardinality(Holders(a, c)) <= Cardinality(Holders(q, c)) + 1
      BY <1>3, <1>4, <1>5
<1> QED BY <1>3, <1>6, <1>7 DEF a

LEMMA HoldersTail ==
    ASSUME NEW S, NEW q \in Seq(S), q # << >>, NEW c
    PROVE  /\ Cardinality(Holders(Tail(q), c)) \in Nat
           /\ Cardinality(Holders(Tail(q), c)) <= Cardinality(Holders(q, c))
           /\ Executes(Head(q), c) => Cardinality(Holders(Tail(q), c)) + 1 <= Cardinality(Holders(q, c))
<1> DEFINE t == Tail(q)
<1>1. /\ t \in Seq(S) /\ 1 \in 1..Len(q) /\ Head(q) = q[1]
      /\ \A i \in 1..Len(t) : t[i] = q[i + 1] /\ i + 1 \in 1..Len(q) /\ i + 1 # 1
      BY Taken
<1> HIDE DEF t
<1> DEFINE H == Holders(q, c) \ {1}
           f == [i \in Holders(t, c) |-> i + 1]
<1>2. /\ IsFiniteSet(Holders(q, c)) /\ Cardinality(Holders(q, c)) \in Nat
      /\ Cardinality(Holders(t, c)) \in Nat
      BY <1>1, HoldersFinite
<1>3. /\ IsFiniteSet(H) /\ Cardinality(H) \in Nat
      /\ Cardinality(H) = IF 1 \in Holders(q, c) THEN Cardinality(Holders(q, c)) - 1
                          ELSE Cardinality(Holders(q, c))
  <2>1. /\ IsFiniteSet(H)
        /\ Cardinality(H) = IF 1 \in Holders(q, c) THEN Cardinality(Holders(q, c)) - 1
                            ELSE Cardinality(Holders(q, c))
        BY <1>2, FS_RemoveElement
  <2> QED BY <2>1, FS_CardinalityType
<1>4. f \in Injection(Holders(t, c), H)
  <2>1. \A i \in Holders(t, c) : i + 1 \in H
        BY <1>1 DEF Holders
  <2>2. \A i, j \in Holders(t, c) : i + 1 = j + 1 => i = j
        BY DEF Holders
  <2> QED BY <2>1, <2>2 DEF Injection, IsInjective
<1> HIDE DEF H, f
<1>5. Cardinality(Holders(t, c)) <= Cardinality(H)
      BY <1>3, <1>4, FS_Injection
<1>6. Executes(Head(q), c) => 1 \in Holders(q, c)
      BY <1>1 DEF Holders
<1>7. /\ Cardinality(Holders(t, c)) <= Cardinality(Holders(q, c))
      /\ Executes(Head(q), c) => Cardinality(Holders(t, c)) + 1 <= Cardinality(Holders(q, c))
      BY <1>2, <1>3, <1>5, <1>6
<1> QED BY <1>2, <1>7 DEF t

\* The rest of a sequence without repetitions does not have its head.
LEMMA TailOnce ==
    ASSUME NEW s \in Seq(Calls), s # << >>, Once(s)
    PROVE  /\ Head(s) \in Calls /\ Head(s) \in Elements(s) /\ Tail(s) \in Seq(Calls) /\ Once(Tail(s))
           /\ Elements(s) = Elements(Tail(s)) \cup {Head(s)}
           /\ Head(s) \notin Elements(Tail(s))
<1> DEFINE t == Tail(s)
<1>1. /\ Head(s) \in Calls /\ Head(s) = s[1] /\ t \in Seq(Calls) /\ 1 \in 1..Len(s)
      /\ \A i \in 1..Len(t) : t[i] = s[i + 1] /\ i + 1 \in 1..Len(s) /\ i + 1 # 1
      /\ \A i \in 1..Len(s) : i = 1 \/ (i - 1 \in 1..Len(t) /\ t[i - 1] = s[i])
      BY Taken
<1>2. Len(t) \in Nat /\ Len(s) \in Nat
      BY <1>1, LenProperties
<1> HIDE DEF t
<1>3. Elements(s) = Elements(t) \cup {Head(s)}
  <2>1. ASSUME NEW x \in Elements(s) PROVE x \in Elements(t) \cup {Head(s)}
    <3>1. PICK i \in 1..Len(s) : x = s[i]
          BY DEF Elements
    <3> QED BY <1>1, <3>1 DEF Elements
  <2>2. ASSUME NEW x \in Elements(t) PROVE x \in Elements(s)
    <3>1. PICK i \in 1..Len(t) : x = t[i]
          BY DEF Elements
    <3> QED BY <1>1, <3>1 DEF Elements
  <2>3. Head(s) \in Elements(s)
        BY <1>1 DEF Elements
  <2> QED BY <2>1, <2>2, <2>3
<1>4. Once(t)
  <2> SUFFICES ASSUME NEW i \in 1..Len(t), NEW j \in 1..Len(t), t[i] = t[j]
               PROVE  i = j
      BY DEF Once
  <2>1. i + 1 = j + 1
        BY <1>1 DEF Once
  <2> QED BY <1>2, <2>1
<1>5. Head(s) \notin Elements(t)
      BY <1>1 DEF Once, Elements
<1>6. Head(s) \in Elements(s)
      BY <1>3
<1> QED BY <1>1, <1>3, <1>4, <1>5, <1>6 DEF t

-----------------------------------------------------------------------------
(* What a step leaves alone.                                               *)

\* The message the broker puts back is the one it took, an attempt older.
LEMMA NextAttempt ==
    ASSUME NEW m, NEW n, n = [m EXCEPT !.attempt = @ + 1]
    PROVE  /\ m \in ThinkMsgs =>
                 /\ n.task = m.task /\ m.attempt \in Nat
                 /\ m.attempt + 1 < MaxAttempts => n \in ThinkMsgs
           /\ m \in ToolMsgs =>
                 /\ n.task = m.task /\ n.calls = m.calls /\ n.approved = m.approved
                 /\ n.attempt = m.attempt + 1 /\ m.attempt \in Nat
                 /\ m.attempt + 1 < MaxAttempts => n \in ToolMsgs
<1>1. MaxAttempts \in Nat \ {0}
      BY LoopAssumption
<1>2. m \in ThinkMsgs =>
          /\ n.task = m.task /\ m.attempt \in Nat
          /\ m.attempt + 1 < MaxAttempts => n \in ThinkMsgs
      BY <1>1 DEF ThinkMsgs, Attempts
<1>3. m \in ToolMsgs =>
          /\ n.task = m.task /\ n.calls = m.calls /\ n.approved = m.approved
          /\ n.attempt = m.attempt + 1 /\ m.attempt \in Nat
          /\ m.attempt + 1 < MaxAttempts => n \in ToolMsgs
      BY <1>1 DEF ToolMsgs, Attempts
<1> QED BY <1>2, <1>3

\* A worker that is not idle has a message in hand.
LEMMA BrainHas ==
    ASSUME IInv, brain.at # "idle"
    PROVE  /\ brain \in BrainBusy /\ brain.at \in BrainSteps /\ brain.msg \in ThinkMsgs
           /\ brain.txn \in Txns /\ brain.msg.task \in sent /\ brain.msg.task \in Tasks
<1>1. brain \in BrainBusy
      BY DEF IInv, Types, IdleBrain
<1>2. brain.msg.task \in sent /\ sent \subseteq Tasks
      BY DEF IInv, Types, Messages
<1> QED BY <1>1, <1>2 DEF BrainBusy

LEMMA ToolHas ==
    ASSUME IInv, tool.at # "idle"
    PROVE  /\ tool \in ToolBusy /\ tool.at \in ToolSteps /\ tool.msg \in ToolMsgs
           /\ tool.left \in Seq(Calls) /\ tool.paused \in BOOLEAN
           /\ BatchSound(tool.msg) /\ Once(tool.left)
           /\ Elements(tool.left) \subseteq Elements(tool.msg.calls)
           /\ tool.msg.task \in sent /\ tool.msg.task \in Tasks
<1>1. tool \in ToolBusy
      BY DEF IInv, Types, IdleTool
<1>2. /\ BatchSound(tool.msg) /\ Once(tool.left)
      /\ Elements(tool.left) \subseteq Elements(tool.msg.calls)
      BY DEF IInv, Messages
<1>3. tool.msg.task \in sent /\ sent \subseteq Tasks
      BY <1>2 DEF IInv, Types, BatchSound
<1> QED BY <1>1, <1>2, <1>3 DEF ToolBusy

\* The batches that are queued or in hand are messages of the tool worker.
LEMMA BatchesTyped ==
    ASSUME IInv
    PROVE  /\ execQ \in Seq(ToolMsgs) /\ \A i \in 1..Len(execQ) : execQ[i] \in ToolMsgs
           /\ tool.at # "idle" => tool.msg \in ToolMsgs
<1>1. execQ \in Seq(ToolMsgs)
      BY DEF IInv, Types
<1>2. tool.at # "idle" => tool.msg \in ToolMsgs
      BY ToolHas
<1>3. \A i \in 1..Len(execQ) : execQ[i] \in ToolMsgs
      BY <1>1, ElementOfSeq
<1> QED BY <1>1, <1>2, <1>3

\* The numbers of Paid.
LEMMA Counts ==
    ASSUME IInv, NEW c \in Calls
    PROVE  /\ runs[c] \in Nat /\ faults \in Nat
           /\ IsFiniteSet(Grants(c)) /\ Cardinality(Grants(c)) \in Nat
           /\ Cardinality(Holders(execQ, c)) \in Nat /\ Due(c) \in Nat
           /\ Redone(c) \in Nat
<1>1. runs[c] \in Nat /\ faults \in Nat /\ execQ \in Seq(ToolMsgs) /\ granted \in Seq(Calls \X (Nat \ {0}))
      BY LoopAssumption DEF IInv, Types
<1>2. Grants(c) \subseteq 1..Len(granted) /\ Len(granted) \in Nat
      BY <1>1, LenProperties DEF Grants
<1>3. IsFiniteSet(Grants(c)) /\ Cardinality(Grants(c)) \in Nat
      BY <1>2, Places
<1>4. Cardinality(Holders(execQ, c)) \in Nat
      BY <1>1, HoldersFinite
<1>5. Redone(c) \in Nat
      BY DEF IInv, Types, Redone
<1> QED BY <1>1, <1>3, <1>4, <1>5 DEF Due, Bought

LEMMA MessagesKept ==
    ASSUME IInv, UNCHANGED <<execQ, tool, owner, granted>>, sent \subseteq sent',
           \A i \in 1..Len(taskQ') : taskQ'[i].task \in sent',
           brain'.at # "idle" => brain'.msg.task \in sent'
    PROVE  Messages'
<1>1. \A m : BatchSound(m) => BatchSound(m)'
      BY DEF BatchSound, Grants
<1>2. Messages
      BY DEF IInv
<1>3. \A i \in 1..Len(execQ') : BatchSound(execQ[i])'
      BY <1>1, <1>2 DEF Messages
<1>4. tool.at # "idle" => BatchSound(tool.msg)'
      BY <1>1, <1>2 DEF Messages
<1> QED BY <1>2, <1>3, <1>4 DEF Messages

\* The requests for approval are as many as before; a request to decide one
\* points at one.
LEMMA AskingOn ==
    ASSUME IInv, UNCHANGED <<execQ, tool, owner>>, sent \subseteq sent',
           \A c \in Calls : Len(approvals'[c]) = Len(approvals[c]),
           \A c \in Calls : approvals'[c] # << >> => approvals[c] # << >>,
           \A r \in Requests : request'[r] # << >> =>
               request'[r][2] \in 1..Len(approvals'[request'[r][1]])
    PROVE  Asking'
<1>1. \A m, n : \A c \in Calls : Unasked(m, c, n)' <=> Unasked(m, c, n)
      BY DEF Unasked
<1>2. Asking
      BY DEF IInv
<1>3. \A i \in 1..Len(execQ'), c \in Calls : Unasked(execQ[i], c, 0)'
      BY <1>1, <1>2 DEF Asking
<1>4. tool.at # "idle" => \A c \in Calls :
          Unasked(tool.msg, c, IF c \in Elements(tool.left) THEN 0 ELSE 1)'
      BY <1>1, <1>2 DEF Asking, Unasked
<1>5. \A c \in Calls :
          /\ Len(approvals'[c]) <= MaxAttempts
          /\ approvals'[c] # << >> => c \in Gated /\ owner'[c] \in sent'
      BY <1>2 DEF Asking
<1> QED BY <1>2, <1>3, <1>4, <1>5 DEF Asking

LEMMA AskingKept ==
    ASSUME IInv, UNCHANGED <<execQ, tool, approvals, owner, request>>, sent \subseteq sent'
    PROVE  Asking'
<1>1. \A r \in Requests : request'[r] # << >> =>
               request'[r][2] \in 1..Len(approvals'[request'[r][1]])
      BY DEF IInv, Asking
<1> QED BY <1>1, AskingOn

LEMMA PaidKept ==
    ASSUME IInv, UNCHANGED <<execQ, tool, runs, granted, owner, broken>>, faults' \in Nat, faults <= faults'
    PROVE  RunsAreAuthorised' /\ Paid'
<1>1. RunsAreAuthorised'
      BY DEF IInv, RunsAreAuthorised, Grants
<1>2. ASSUME NEW c \in Calls
      PROVE  runs'[c] + Cardinality(Holders(execQ, c)') + (IF InHand(c)' THEN 1 ELSE 0) <= faults' + Due(c)'
  <2>1. Holders(execQ, c)' = Holders(execQ, c) /\ Due(c)' = Due(c)
        BY DEF Holders, Executes, Due, Bought, Redone, Grants
  <2>2. InHand(c)' <=> InHand(c)
        BY DEF InHand, Executes, ToRun
  <2>3. runs[c] + Cardinality(Holders(execQ, c)) + (IF InHand(c) THEN 1 ELSE 0) <= faults + Due(c)
        BY DEF IInv, Paid
  <2> QED BY <2>1, <2>2, <2>3, Counts
<1> QED BY <1>1, <1>2 DEF Paid

LEMMA IterationsKept ==
    ASSUME IInv, UNCHANGED <<brain, thoughts, iteration>>, faults' \in Nat, faults <= faults'
    PROVE  Iterations'
<1>1. \A t \in Tasks : thoughts[t] \in Nat /\ iteration[t] \in Nat
      BY DEF IInv, Types
<1>2. faults \in Nat /\ MaxIterations \in Nat
      BY LoopAssumption DEF IInv, Types
<1>3. \A t : Counting(t)' <=> Counting(t)
      BY DEF Counting
<1> QED BY <1>1, <1>2, <1>3 DEF IInv, Iterations

\* What stops a task is a request for approval of a call of its.
LEMMA StoppedKept ==
    ASSUME UNCHANGED <<approvals, owner>>
    PROVE  \A t : Stopped(t)' <=> Stopped(t)
BY DEF Stopped, Requested

\* It is enough that what was going on goes on, or is announced or dead.
LEMMA KeptOn ==
    ASSUME IInv, UNCHANGED tool, dead \subseteq dead',
           \A t \in sent : Stopped(t) => Stopped(t)' \/ Queued(execQ, t)',
           \A t \in sent' : t \in sent \/ Going(t)',
           \A t \in sent : Going(t) => Going(t)' \/ resolved'[t] > 0 \/ t \in dead',
           \A t \in Tasks : resolved[t] \in Nat /\ resolved'[t] \in Nat /\ resolved[t] <= resolved'[t],
           \A t \in sent : Queued(execQ, t) => Queued(execQ, t)'
    PROVE  Kept'
<1>1. \A t : Queued(execQ, t)' => Going(t)'
      BY DEF Going
<1>2. Kept /\ sent \subseteq Tasks
      BY DEF IInv, Types
<1>3. ASSUME NEW t \in sent'
      PROVE  Going(t)' \/ resolved'[t] > 0 \/ Stopped(t)' \/ t \in dead'
  <2>1. CASE t \in sent
    <3>1. Going(t) \/ resolved[t] > 0 \/ Stopped(t) \/ t \in dead
          BY <1>2, <2>1 DEF Kept
    <3>2. resolved[t] > 0 => resolved'[t] > 0
          BY <1>2, <2>1
    <3> QED BY <1>1, <2>1, <3>1, <3>2
  <2> QED BY <1>3, <2>1
<1>4. (tool'.at # "idle" /\ tool'.paused) => Stopped(tool.msg.task)' \/ Queued(execQ, tool.msg.task)'
  <2>1. (tool.at # "idle" /\ tool.paused) => Stopped(tool.msg.task) \/ Queued(execQ, tool.msg.task)
        BY <1>2 DEF Kept
  <2> QED BY <2>1, ToolHas
<1> QED BY <1>3, <1>4 DEF Kept

-----------------------------------------------------------------------------
(* The handlers that send a task.                                          *)

LEMMA SendSound ==
    ASSUME IInv, NEW t \in Tasks, t \notin sent, taskQ' = Append(taskQ, Think(t, TRUE)),
           sent' = sent \cup {t}, wantsShadow' \subseteq sent', shadow' \in BOOLEAN,
           UNCHANGED <<execQ, brain, tool, request, iteration, asked, results, approvals, closings,
                       faults, owner, resolved, dead, runs, granted, thoughts, splits, broken>>
    PROVE  IInv'
<1>1. taskQ \in Seq(ThinkMsgs) /\ faults \in Nat /\ sent \subseteq Tasks
      BY LoopAssumption DEF IInv, Types
<1> PICK m : m = Think(t, TRUE)
    OBVIOUS
<1>2. m \in ThinkMsgs /\ m.task = t
      BY LoopAssumption DEF Think, ThinkMsgs, Attempts
<1>3. /\ taskQ' \in Seq(ThinkMsgs) /\ 1..Len(taskQ') = 1..Len(taskQ) \cup {Len(taskQ) + 1}
      /\ \A i \in 1..Len(taskQ) : taskQ'[i] = taskQ[i]
      /\ taskQ'[Len(taskQ) + 1] = m
  <2>1. taskQ' = Append(taskQ, m)
        OBVIOUS
  <2>2. taskQ \in Seq(ThinkMsgs) /\ m \in ThinkMsgs
        BY <1>1, <1>2
  <2> QED BY ONLY <2>1, <2>2, AppendedTo
<1>4. Types'
      BY <1>1, <1>3 DEF IInv, Types
<1>5. Messages'
  <2>1. \A i \in 1..Len(taskQ') : taskQ'[i].task \in sent'
        BY <1>2, <1>3 DEF IInv, Messages
  <2>2. brain'.at # "idle" => brain'.msg.task \in sent'
        BY BrainHas
  <2> QED BY <2>1, <2>2, MessagesKept
<1>6. Asking'
      BY AskingKept
<1>7. RunsAreAuthorised' /\ Paid' /\ Iterations'
      BY <1>1, PaidKept, IterationsKept
<1>8. Kept'
  <2>1. \A k : Queued(taskQ', k) <=> Queued(taskQ, k) \/ k = t
        BY <1>2, <1>3 DEF Queued
  <2>2. \A k : Queued(taskQ, k)' <=> Queued(taskQ', k)
        BY DEF Queued
  <2>3. \A k : Queued(execQ, k)' <=> Queued(execQ, k)
        BY DEF Queued
  <2>4. \A k : Going(k) => Going(k)'
        BY <2>1, <2>2, <2>3 DEF Going
  <2>5. Going(t)'
        BY <2>1, <2>2 DEF Going
  <2>6. \A k \in Tasks : resolved[k] \in Nat
        BY DEF IInv, Types
  <2> QED BY <1>1, <2>3, <2>4, <2>5, <2>6, StoppedKept, KeptOn
<1> QED BY <1>4, <1>5, <1>6, <1>7, <1>8 DEF IInv


-----------------------------------------------------------------------------
(* The brain worker.                                                       *)

\* A step of the brain: what it stops working on is queued, announced or dead.
LEMMA BrainKeeps ==
    ASSUME IInv, brain' = IdleBrain \/ brain' \in BrainBusy,
           brain'.at # "idle" => brain'.msg.task \in sent,
           taskQ' \in Seq(ThinkMsgs), \A i \in 1..Len(taskQ') : taskQ'[i].task \in sent,
           UNCHANGED <<execQ, tool, request, results, approvals, shadow, owner, sent, wantsShadow,
                       runs, granted, splits, broken>>,
           faults' \in 0..MaxFaults, faults <= faults', asked' \subseteq Calls,
           iteration' \in [Tasks -> Nat], closings' \in [Tasks -> Nat],
           resolved' \in [Tasks -> Nat], thoughts' \in [Tasks -> Nat], Iterations',
           dead \subseteq dead', dead' \subseteq sent,
           \A t \in Tasks : resolved[t] <= resolved'[t],
           \A t \in sent : Going(t) => Going(t)' \/ resolved'[t] > 0 \/ t \in dead'
    PROVE  IInv'
<1>1. faults' \in Nat /\ sent \subseteq Tasks
      BY LoopAssumption DEF IInv, Types
<1>2. Types'
      BY <1>1 DEF IInv, Types
<1>3. Messages'
      BY MessagesKept
<1>4. Asking'
      BY AskingKept
<1>5. RunsAreAuthorised' /\ Paid'
      BY <1>1, PaidKept
<1>6. Kept'
  <2>1. \A t : Queued(execQ, t)' <=> Queued(execQ, t)
        BY DEF Queued
  <2>2. \A t \in Tasks : resolved[t] \in Nat /\ resolved'[t] \in Nat
        BY DEF IInv, Types
  <2> QED BY <2>1, <2>2, StoppedKept, KeptOn
<1> QED BY <1>2, <1>3, <1>4, <1>5, <1>6 DEF IInv

\* The same for a step that leaves the queues alone.
LEMMA BrainMoves ==
    ASSUME IInv, brain.at # "idle",
           brain' = IdleBrain \/ (brain' \in BrainBusy /\ brain'.msg = brain.msg),
           UNCHANGED <<queues, tool, request, results, approvals, shadow, owner, sent, wantsShadow,
                       dead, runs, granted, splits, broken>>,
           faults' \in 0..MaxFaults, faults <= faults', asked' \subseteq Calls,
           iteration' \in [Tasks -> Nat], closings' \in [Tasks -> Nat],
           resolved' \in [Tasks -> Nat], thoughts' \in [Tasks -> Nat], Iterations',
           \A t \in Tasks : resolved[t] <= resolved'[t],
           brain.at \in {"reading", "thinking"} =>
               brain'.at \in {"reading", "thinking"} \/ resolved'[brain.msg.task] > 0
    PROVE  IInv'
<1>1. /\ UNCHANGED <<taskQ, execQ>> /\ brain.msg.task \in sent
      /\ taskQ \in Seq(ThinkMsgs) /\ \A i \in 1..Len(taskQ) : taskQ[i].task \in sent
      /\ dead \subseteq sent
      BY BrainHas DEF queues, IInv, Types, Messages
<1>2. brain'.at # "idle" => brain'.msg.task \in sent
      BY <1>1 DEF IdleBrain
<1>3. \A t \in sent : Going(t) => Going(t)' \/ resolved'[t] > 0
  <2>1. \A t : (Queued(taskQ, t)' <=> Queued(taskQ, t)) /\ (Queued(execQ, t)' <=> Queued(execQ, t))
        BY <1>1 DEF Queued
  <2>2. brain'.at \in {"reading", "thinking"} => brain'.msg = brain.msg
        BY DEF IdleBrain
  <2> QED BY <2>1, <2>2 DEF Going
<1> QED BY <1>1, <1>2, <1>3, BrainKeeps

\* What the proofs about the brain's steps need of its numbers.
LEMMA BrainCounts ==
    ASSUME IInv
    PROVE  /\ \A t \in Tasks : thoughts[t] \in Nat /\ iteration[t] \in Nat /\ resolved[t] \in Nat
           /\ thoughts \in [Tasks -> Nat] /\ iteration \in [Tasks -> Nat]
           /\ closings \in [Tasks -> Nat] /\ resolved \in [Tasks -> Nat] /\ asked \subseteq Calls
           /\ faults \in Nat /\ faults \in 0..MaxFaults /\ MaxIterations \in Nat /\ MaxFaults \in Nat
           /\ \A t \in Tasks : /\ thoughts[t] <= MaxIterations + faults
                               /\ thoughts[t] <= iteration[t] + faults + (IF Counting(t) THEN 1 ELSE 0)
           /\ brain.at = "reading" => ~brain.txn.bump
BY LoopAssumption DEF IInv, Types, Iterations

\* An announcement is counted.
LEMMA Announced ==
    ASSUME IInv, NEW t \in Tasks, Announce(t)
    PROVE  /\ resolved' \in [Tasks -> Nat] /\ resolved'[t] > 0
           /\ \A k \in Tasks : resolved[k] <= resolved'[k]
BY BrainCounts DEF Announce

LEMMA BrainReadsSound ==
    ASSUME IInv, BrainReads
    PROVE  IInv'
<1> PICK t : t = brain.msg.task
    OBVIOUS
<1>1. /\ brain.at = "reading" /\ t \in Tasks /\ brain \in BrainBusy /\ brain.msg \in ThinkMsgs
      /\ UNCHANGED <<queues, tool, request, results, approvals, shadow, owner, sent, wantsShadow,
                     dead, runs, granted, faults, asked, iteration, closings, splits, broken>>
      BY BrainHas DEF BrainReads, db
<1>2. CASE CapReached(t)
  <2>1. /\ brain' = [brain EXCEPT !.at = "closing",
                                  !.txn = [NoTxn EXCEPT !.bump = TRUE, !.closing = TRUE]]
        /\ Announce(t) /\ thoughts' = thoughts
        BY <1>2 DEF BrainReads
  <2>2. brain' \in BrainBusy /\ brain'.msg = brain.msg /\ brain'.at = "closing" /\ brain'.txn.bump
        BY <1>1, <2>1 DEF BrainBusy, BrainSteps, Txns, NoTxn
  <2>3. Iterations'
    <3>1. \A k \in Tasks : thoughts[k] <= iteration[k] + faults
          BY <1>1, BrainCounts DEF Counting
    <3> QED BY <1>1, <2>1, <2>2, <3>1, BrainCounts DEF Iterations
  <2> QED BY <1>1, <2>1, <2>2, <2>3, Announced, BrainCounts, BrainMoves
<1>3. CASE ~CapReached(t)
  <2>1. /\ brain' = [brain EXCEPT !.at = "thinking", !.txn = [NoTxn EXCEPT !.bump = TRUE]]
        /\ thoughts' = [thoughts EXCEPT ![t] = @ + 1] /\ resolved' = resolved
        BY <1>3 DEF BrainReads
  <2>2. brain' \in BrainBusy /\ brain'.msg = brain.msg /\ brain'.at = "thinking" /\ brain'.txn.bump
        BY <1>1, <2>1 DEF BrainBusy, BrainSteps, Txns, NoTxn
  <2>3. Iterations'
    <3>1. \A k \in Tasks : thoughts[k] <= iteration[k] + faults
          BY <1>1, BrainCounts DEF Counting
    <3>2. iteration[t] + 1 <= MaxIterations
          BY <1>1, <1>3, BrainCounts DEF CapReached
    <3>3. Counting(t)'
          BY <2>2 DEF Counting
    <3>4. ASSUME NEW k \in Tasks
          PROVE  /\ thoughts'[k] <= MaxIterations + faults
                 /\ thoughts'[k] <= iteration[k] + faults + (IF Counting(k)' THEN 1 ELSE 0)
      <4>1. CASE k = t
        <5>1. thoughts'[t] = thoughts[t] + 1
              BY <1>1, <2>1, BrainCounts
        <5> QED BY <1>1, <3>1, <3>2, <3>3, <4>1, <5>1, BrainCounts
      <4>2. CASE k # t
        <5>1. thoughts'[k] = thoughts[k]
              BY <2>1, <4>2, BrainCounts
        <5> QED BY <3>1, <5>1, BrainCounts
      <4> QED BY <4>1, <4>2
    <3> QED BY <1>1, <2>2, <3>4 DEF Iterations
  <2>4. thoughts' \in [Tasks -> Nat]
        BY <1>1, <2>1, BrainCounts
  <2> QED BY <1>1, <2>1, <2>2, <2>3, <2>4, BrainCounts, BrainMoves
<1> QED BY <1>2, <1>3

\* The brain gives up, or answers: the task is announced.
LEMMA BrainEndsSound ==
    ASSUME IInv, BrainGivesUp \/ BrainAnswers
    PROVE  IInv'
<1> PICK t : t = brain.msg.task
    OBVIOUS
<1>1. /\ brain.at = "thinking" /\ t \in Tasks /\ brain \in BrainBusy /\ Announce(t)
      /\ UNCHANGED <<queues, tool, request, results, approvals, shadow, owner, sent, wantsShadow,
                     dead, runs, granted, faults, asked, iteration, closings, thoughts, splits, broken>>
      BY BrainHas DEF BrainGivesUp, BrainAnswers, db
<1>2. /\ brain' \in BrainBusy /\ brain'.msg = brain.msg /\ brain'.txn.bump = brain.txn.bump
      /\ brain'.at \in {"closing", "committing"}
  <2>1. brain.txn \in Txns
        BY BrainHas, <1>1
  <2>2. PICK x : x = [brain.txn EXCEPT !.closing = TRUE]
        OBVIOUS
  <2>3. x \in Txns /\ x.bump = brain.txn.bump
        BY <2>1, <2>2 DEF Txns
  <2>4. CASE brain' = [brain EXCEPT !.at = "closing", !.txn = x]
        BY <1>1, <2>3, <2>4 DEF BrainBusy, BrainSteps
  <2>5. CASE brain' = [brain EXCEPT !.at = "committing", !.txn = x]
        BY <1>1, <2>3, <2>5 DEF BrainBusy, BrainSteps
  <2>6. \/ brain' = [brain EXCEPT !.at = "closing", !.txn = x]
        \/ brain' = [brain EXCEPT !.at = "committing", !.txn = x]
        BY <1>1, <2>2 DEF BrainGivesUp, BrainAnswers, BrainBusy
  <2> QED BY <2>4, <2>5, <2>6
<1>3. Iterations'
  <2>1. \A k : Counting(k)' <=> Counting(k)
        BY <1>1, <1>2 DEF Counting
  <2> QED BY <1>1, <1>2, <2>1, BrainCounts DEF Iterations
<1> QED BY <1>1, <1>2, <1>3, Announced, BrainCounts, BrainMoves

LEMMA BrainCommitsSound ==
    ASSUME IInv, BrainCommits
    PROVE  IInv'
<1> PICK t : t = brain.msg.task
    OBVIOUS
<1>1. /\ brain.at \in {"closing", "committing"} /\ t \in Tasks /\ brain \in BrainBusy
      /\ brain' = IdleBrain
      /\ UNCHANGED <<queues, tool, request, results, approvals, shadow, owner, sent, wantsShadow,
                     dead, runs, granted, faults, resolved, thoughts, splits, broken>>
      BY BrainHas DEF BrainCommits, past
<1>2. /\ iteration' = [iteration EXCEPT ![t] = IF brain.txn.bump THEN @ + 1 ELSE @]
      /\ asked' = asked \cup brain.txn.asked
      /\ closings' = [closings EXCEPT ![t] = IF brain.txn.closing THEN @ + 1 ELSE @]
      BY DEF BrainCommits
<1>3. iteration' \in [Tasks -> Nat] /\ asked' \subseteq Calls /\ closings' \in [Tasks -> Nat]
      BY <1>1, <1>2, BrainCounts DEF BrainBusy, Txns
<1>4. Iterations'
  <2>1. ASSUME NEW k \in Tasks
        PROVE  thoughts[k] <= iteration'[k] + faults
    <3>1. iteration'[k] = iteration[k] + (IF Counting(k) THEN 1 ELSE 0)
          BY <1>1, <1>2, BrainCounts DEF Counting
    <3> QED BY <3>1, BrainCounts
  <2>2. \A k \in Tasks : iteration'[k] \in Nat
        BY <1>3
  <2> QED BY <1>1, <2>1, <2>2, BrainCounts DEF Iterations, IdleBrain
<1> QED BY <1>1, <1>3, <1>4, BrainCounts, BrainMoves

LEMMA BrainCommitFailsSound ==
    ASSUME IInv, BrainCommitFails
    PROVE  IInv'
<1> PICK t : t = brain.msg.task
    OBVIOUS
<1>1. /\ brain.at = "committing" /\ t \in Tasks /\ brain \in BrainBusy /\ Announce(t)
      /\ faults < MaxFaults /\ faults' = faults + 1
      /\ UNCHANGED <<queues, tool, request, results, approvals, shadow, owner, sent, wantsShadow,
                     dead, runs, granted, asked, iteration, closings, thoughts, splits, broken>>
      BY BrainHas DEF BrainCommitFails, db
<1>2. brain' \in BrainBusy /\ brain'.msg = brain.msg /\ brain'.at = "closing"
      BY <1>1 DEF BrainCommitFails, BrainBusy, BrainSteps, Txns, NoTxn
<1>3. faults' \in 0..MaxFaults /\ faults <= faults'
      BY <1>1, BrainCounts
<1>4. Iterations'
  <2>1. \A k \in Tasks : thoughts[k] <= MaxIterations + faults + 1 /\ thoughts[k] <= iteration[k] + faults + 1
        BY BrainCounts
  <2> QED BY <1>1, <1>2, <2>1, BrainCounts DEF Iterations
<1> QED BY <1>1, <1>2, <1>3, <1>4, Announced, BrainCounts, BrainMoves

LEMMA BrainTakeSound ==
    ASSUME IInv, BrainTake
    PROVE  IInv'
<1> PICK m : m = Head(taskQ)
    OBVIOUS
<1>1. /\ brain.at = "idle" /\ taskQ # << >> /\ taskQ \in Seq(ThinkMsgs)
      /\ brain' = [at |-> "reading", msg |-> m, txn |-> NoTxn] /\ taskQ' = Tail(taskQ)
      /\ UNCHANGED <<execQ, tool, request, results, approvals, shadow, owner, sent, wantsShadow,
                     dead, runs, granted, faults, asked, iteration, closings, resolved, thoughts, splits, broken>>
      BY DEF BrainTake, db, past, IInv, Types
<1>2. /\ m \in ThinkMsgs /\ m = taskQ[1] /\ taskQ' \in Seq(ThinkMsgs) /\ 1 \in 1..Len(taskQ)
      /\ \A i \in 1..Len(taskQ') : taskQ'[i] = taskQ[i + 1] /\ i + 1 \in 1..Len(taskQ)
      BY ONLY <1>1, m = Head(taskQ), Taken
<1>3. brain' \in BrainBusy /\ brain'.msg = m /\ brain'.at = "reading" /\ ~brain'.txn.bump
      BY <1>1, <1>2 DEF BrainBusy, BrainSteps, NoTxn, Txns
<1>4. (\A i \in 1..Len(taskQ) : taskQ[i].task \in sent) /\ dead \subseteq sent
      BY DEF IInv, Messages, Types
<1>5. Iterations'
  <2>1. \A k \in Tasks : thoughts[k] <= iteration[k] + faults
        BY <1>1, BrainCounts DEF Counting
  <2> QED BY <1>1, <1>3, <2>1, BrainCounts DEF Iterations
<1>6. \A t \in sent : Going(t) => Going(t)'
  <2>1. \A t : Queued(taskQ, t) => m.task = t \/ Queued(taskQ, t)'
    <3> SUFFICES ASSUME NEW t, Queued(taskQ, t)
                 PROVE  m.task = t \/ Queued(Tail(taskQ), t)
        BY <1>1 DEF Queued
    <3> QED BY <1>1, QueuedTail
  <2>2. \A t : Queued(execQ, t)' <=> Queued(execQ, t)
        BY <1>1 DEF Queued
  <2> QED BY <1>1, <1>3, <2>1, <2>2 DEF Going
<1>7. /\ \A i \in 1..Len(taskQ') : taskQ'[i].task \in sent
      /\ brain'.msg.task \in sent
      BY <1>2, <1>3, <1>4
<1>8. /\ brain' \in BrainBusy /\ taskQ' \in Seq(ThinkMsgs)
      /\ UNCHANGED <<execQ, tool, request, results, approvals, shadow, owner, sent, wantsShadow,
                     runs, granted, splits, broken>>
      /\ dead \subseteq dead' /\ dead' \subseteq sent
      BY <1>1, <1>2, <1>3, <1>4
<1>9. /\ faults' \in 0..MaxFaults /\ faults <= faults' /\ asked' \subseteq Calls
      /\ iteration' \in [Tasks -> Nat] /\ closings' \in [Tasks -> Nat]
      /\ resolved' \in [Tasks -> Nat] /\ thoughts' \in [Tasks -> Nat]
      /\ \A t \in Tasks : resolved[t] <= resolved'[t]
      BY <1>1, BrainCounts
<1> QED BY <1>5, <1>6, <1>7, <1>8, <1>9, BrainKeeps

LEMMA BrainRaisesSound ==
    ASSUME IInv, BrainRaises
    PROVE  IInv'
<1> PICK m : m = brain.msg
    OBVIOUS
<1>1. /\ brain.at # "idle" /\ m \in ThinkMsgs /\ m.task \in sent /\ faults < MaxFaults
      /\ faults' = faults + 1 /\ taskQ \in Seq(ThinkMsgs) /\ brain' = IdleBrain
      /\ UNCHANGED <<execQ, tool, request, results, approvals, shadow, owner, sent, wantsShadow,
                     runs, granted, asked, iteration, closings, resolved, thoughts, splits, broken>>
      BY BrainHas DEF BrainRaises, db, IInv, Types
<1>2. (\A i \in 1..Len(taskQ) : taskQ[i].task \in sent) /\ dead \subseteq sent
      BY DEF IInv, Messages, Types
<1>3. /\ taskQ' \in Seq(ThinkMsgs) /\ (\A i \in 1..Len(taskQ') : taskQ'[i].task \in sent)
      /\ dead \subseteq dead' /\ dead' \subseteq sent
      /\ \A t : Queued(taskQ, t) => Queued(taskQ', t)
      /\ Queued(taskQ', m.task) \/ m.task \in dead'
  <2>0. taskQ' = PutBack(taskQ, m) /\ dead' = Buried(m)
        BY DEF BrainRaises
  <2>1. CASE m.attempt + 1 >= MaxAttempts
    <3>1. taskQ' = taskQ /\ dead' = dead \cup {m.task}
          BY ONLY <2>0, <2>1 DEF PutBack, Buried
    <3>2. /\ taskQ \in Seq(ThinkMsgs) /\ dead \subseteq sent /\ m.task \in sent
          /\ \A i \in 1..Len(taskQ) : taskQ[i].task \in sent
          BY <1>1, <1>2
    <3>3. (\A t : Queued(taskQ, t) => Queued(taskQ', t)) /\ m.task \in dead'
          BY <3>1
    <3> QED BY ONLY <3>1, <3>2, <3>3
  <2>2. CASE ~(m.attempt + 1 >= MaxAttempts)
    <3> PICK n : n = [m EXCEPT !.attempt = @ + 1]
        OBVIOUS
    <3>1. n \in ThinkMsgs /\ n.task = m.task
      <4>1. m \in ThinkMsgs /\ n = [m EXCEPT !.attempt = @ + 1]
            BY <1>1
      <4>2. MaxAttempts \in Nat
            BY LoopAssumption
      <4>3. m.attempt \in Nat
            BY ONLY <4>1, NextAttempt
      <4>4. m.attempt + 1 < MaxAttempts
            BY ONLY <2>2, <4>2, <4>3
      <4> QED BY ONLY <4>1, <4>4, NextAttempt
    <3>2. taskQ' = Append(taskQ, n) /\ dead' = dead
          BY ONLY <2>0, <2>2, n = [m EXCEPT !.attempt = @ + 1] DEF PutBack, Buried
    <3>3. /\ taskQ' \in Seq(ThinkMsgs) /\ 1..Len(taskQ') = 1..Len(taskQ) \cup {Len(taskQ) + 1}
          /\ \A i \in 1..Len(taskQ) : taskQ'[i] = taskQ[i]
          /\ taskQ'[Len(taskQ) + 1] = n
      <4>1. taskQ \in Seq(ThinkMsgs)
            BY <1>1
      <4> QED BY ONLY <3>1, <3>2, <4>1, AppendedTo
    <3>4. \A i \in 1..Len(taskQ') : taskQ'[i].task \in sent
          BY <1>1, <1>2, <3>1, <3>3
    <3>5. (\A t : Queued(taskQ, t) => Queued(taskQ', t)) /\ Queued(taskQ', m.task)
          BY <3>1, <3>3 DEF Queued
    <3> QED BY <1>2, <3>2, <3>3, <3>4, <3>5
  <2> QED BY <2>1, <2>2
<1>4. Iterations'
  <2>1. \A k \in Tasks : thoughts[k] <= MaxIterations + faults + 1 /\ thoughts[k] <= iteration[k] + faults + 1
        BY BrainCounts
  <2>2. /\ thoughts' = thoughts /\ iteration' = iteration /\ faults' = faults + 1
        /\ brain'.at = "idle"
        BY <1>1 DEF IdleBrain
  <2> QED BY <2>1, <2>2, BrainCounts DEF Iterations
<1>5. \A t \in sent : Going(t) => Going(t)' \/ t \in dead'
  <2>1. \A t : Queued(taskQ, t)' <=> Queued(taskQ', t)
        BY DEF Queued
  <2>2. \A t : Queued(execQ, t)' <=> Queued(execQ, t)
        BY <1>1 DEF Queued
  <2> QED BY <1>1, <1>3, <2>1, <2>2 DEF Going
<1>6. brain'.at = "idle" /\ faults' \in 0..MaxFaults /\ faults <= faults'
      BY <1>1, BrainCounts DEF IdleBrain
<1> QED BY <1>1, <1>3, <1>4, <1>5, <1>6, BrainCounts, BrainKeeps

\* A batch in a queue or in hand is sound.
LEMMA BatchTask ==
    ASSUME IInv, NEW m \in ToolMsgs, BatchSound(m)
    PROVE  m.task \in Tasks /\ Elements(m.calls) \subseteq Calls
           /\ \A c \in Elements(m.calls) : owner[c] = m.task /\ owner[c] # NoTask
<1>1. m.task \in Tasks /\ m.calls \in Seq(Calls)
      BY DEF ToolMsgs
<1>2. Elements(m.calls) \subseteq Calls
      BY <1>1 DEF Elements
<1> QED BY <1>1, <1>2, LoopAssumption DEF BatchSound

\* The calls of a reply are new: no batch holds them, nobody was asked.
LEMMA Claimed ==
    ASSUME IInv, brain.at = "thinking", NEW b \in Batches, Fresh(b), Claims(b),
           UNCHANGED <<approvals, granted, sent>>
    PROVE  /\ owner' \in [Calls -> Tasks \cup {NoTask}]
           /\ b \in Seq(Calls) /\ Once(b)
           /\ \A c \in Elements(b) : /\ c \in Calls /\ owner[c] = NoTask
                                     /\ owner'[c] = brain.msg.task /\ approvals[c] = << >>
           /\ \A c \in Calls : c \notin Elements(b) => owner'[c] = owner[c]
           /\ \A m \in ToolMsgs : BatchSound(m) =>
                 BatchSound(m)' /\ Elements(m.calls) \cap Elements(b) = {}
           /\ \A t \in Tasks : Stopped(t) => Stopped(t)'
<1>1. b \in Seq(Calls) /\ Once(b)
      BY LoopAssumption DEF Once
<1>2. Elements(b) \subseteq Calls
      BY <1>1 DEF Elements
<1>3. \A c \in Elements(b) : owner[c] = NoTask
      BY DEF Fresh, Elements
<1>4. brain.msg.task \in Tasks /\ sent \subseteq Tasks /\ owner \in [Calls -> Tasks \cup {NoTask}]
      BY BrainHas DEF IInv, Types
<1>5. owner' = [c \in Calls |-> IF c \in Elements(b) THEN brain.msg.task ELSE owner[c]]
      BY DEF Claims
<1>6. owner' \in [Calls -> Tasks \cup {NoTask}]
      BY <1>4, <1>5
<1>7. \A c \in Calls : owner'[c] = IF c \in Elements(b) THEN brain.msg.task ELSE owner[c]
      BY <1>5
<1>8. \A c \in Elements(b) : approvals[c] = << >>
      BY <1>2, <1>3, <1>4, LoopAssumption DEF IInv, Asking
<1>9. ASSUME NEW m \in ToolMsgs, BatchSound(m)
      PROVE  BatchSound(m)' /\ Elements(m.calls) \cap Elements(b) = {}
  <2>1. Elements(m.calls) \subseteq Calls /\ \A c \in Elements(m.calls) : owner[c] # NoTask
        BY <1>9, BatchTask
  <2>2. Elements(m.calls) \cap Elements(b) = {}
        BY <1>3, <2>1
  <2>3. \A c \in Elements(m.calls) : owner'[c] = owner[c]
        BY <1>7, <2>1, <2>2
  <2> QED BY <1>9, <2>2, <2>3 DEF BatchSound, Grants
<1>10. ASSUME NEW t \in Tasks, Stopped(t)
       PROVE  Stopped(t)'
  <2>1. PICK p \in Requested("NEEDS_APPROVAL") \cup Requested("DENIED") : owner[p[1]] = t
        BY <1>10 DEF Stopped
  <2>2. p[1] \in Calls
        BY <2>1 DEF Requested
  <2>3. owner'[p[1]] = t
        BY <1>3, <1>4, <1>7, <2>1, <2>2, LoopAssumption
  <2>4. p \in Requested("NEEDS_APPROVAL")' \cup Requested("DENIED")'
        BY <2>1 DEF Requested
  <2> QED BY <2>3, <2>4 DEF Stopped
<1>11. \A c \in Elements(b) : owner'[c] = brain.msg.task
       BY <1>2, <1>7
<1>12. \A c \in Calls : c \notin Elements(b) => owner'[c] = owner[c]
       BY <1>7
<1> QED BY <1>1, <1>2, <1>3, <1>6, <1>8, <1>9, <1>10, <1>11, <1>12

\* What the model's reply changes whether its calls are dispatched or not.
LEMMA ReplyKeeps ==
    ASSUME IInv, brain.at = "thinking", brain'.at = "committing",
           brain' \in BrainBusy, brain'.msg = brain.msg, brain'.txn.bump = brain.txn.bump,
           owner' \in [Calls -> Tasks \cup {NoTask}],
           execQ' \in Seq(ToolMsgs), resolved' \in [Tasks -> Nat],
           UNCHANGED <<taskQ, tool, request, iteration, asked, results, approvals, closings, shadow,
                       faults, sent, wantsShadow, dead, runs, granted, thoughts, splits, broken>>
    PROVE  Types' /\ RunsAreAuthorised' /\ Iterations'
<1>1. Types'
      BY DEF IInv, Types
<1>2. RunsAreAuthorised'
      BY DEF IInv, RunsAreAuthorised, Grants
<1>3. Iterations'
  <2>1. \A k : Counting(k)' <=> Counting(k)
        BY DEF Counting
  <2> QED BY <2>1, BrainCounts DEF Iterations
<1> QED BY <1>1, <1>2, <1>3

LEMMA BrainBadArgumentsSound ==
    ASSUME IInv, NEW b \in Batches, BrainBadArguments(b)
    PROVE  IInv'
<1> PICK t : t = brain.msg.task
    OBVIOUS
<1>1. /\ brain.at = "thinking" /\ t \in Tasks /\ brain \in BrainBusy /\ Announce(t)
      /\ UNCHANGED <<taskQ, execQ, tool, request, iteration, asked, results, approvals, closings,
                     shadow, faults, sent, wantsShadow, dead, runs, granted, thoughts, splits, broken>>
      /\ Fresh(b) /\ Claims(b)
      BY BrainHas DEF BrainBadArguments, queues, db
<1>2. /\ owner' \in [Calls -> Tasks \cup {NoTask}] /\ b \in Seq(Calls)
      /\ \A c \in Elements(b) : c \in Calls /\ owner[c] = NoTask /\ approvals[c] = << >>
      /\ \A c \in Calls : c \notin Elements(b) => owner'[c] = owner[c]
      /\ \A m \in ToolMsgs : BatchSound(m) => BatchSound(m)'
      /\ \A k \in Tasks : Stopped(k) => Stopped(k)'
      BY <1>1, Claimed
<1>3. /\ brain' \in BrainBusy /\ brain'.msg = brain.msg /\ brain'.txn.bump = brain.txn.bump
      /\ brain'.at = "committing"
  <2>1. brain.txn \in Txns
        BY BrainHas, <1>1
  <2>2. PICK x : x = [brain.txn EXCEPT !.closing = TRUE, !.asked = Elements(b)]
        OBVIOUS
  <2>3. x \in Txns /\ x.bump = brain.txn.bump
        BY <1>2, <2>1, <2>2 DEF Txns
  <2>4. brain' = [brain EXCEPT !.at = "committing", !.txn = x]
        BY <1>1, <2>1, <2>2 DEF BrainBadArguments, BrainBusy, Txns
  <2> QED BY <1>1, <2>3, <2>4 DEF BrainBusy, BrainSteps
<1>4. /\ execQ \in Seq(ToolMsgs) /\ \A i \in 1..Len(execQ) : execQ[i] \in ToolMsgs
      /\ tool.at # "idle" => tool.msg \in ToolMsgs
      BY BatchesTyped
<1>5. Types' /\ RunsAreAuthorised' /\ Iterations'
      BY <1>1, <1>2, <1>3, <1>4, Announced, ReplyKeeps
<1>6. Messages'
  <2>1. Messages
        BY DEF IInv
  <2>2. brain'.msg.task \in sent'
        BY <1>1, <1>3, BrainHas
  <2>3. \A i \in 1..Len(execQ') : BatchSound(execQ[i])'
        BY <1>1, <1>2, <1>4, <2>1 DEF Messages
  <2>4. tool.at # "idle" => BatchSound(tool.msg)'
    <3>1. tool.at # "idle" => tool.msg \in ToolMsgs /\ BatchSound(tool.msg)
          BY <1>4, <2>1 DEF Messages
    <3>2. tool' = tool
          BY <1>1
    <3>3. \A m \in ToolMsgs : BatchSound(m) => BatchSound(m)'
          BY <1>2
    <3> PICK m : m = tool.msg
        OBVIOUS
    <3>4. tool.at # "idle" => BatchSound(m)'
          BY <3>1, <3>3
    <3> QED BY <3>2, <3>4 DEF BatchSound
  <2> QED BY <1>1, <2>1, <2>2, <2>3, <2>4 DEF Messages
<1>7. Asking'
  <2>1. Asking
        BY DEF IInv
  <2>2. \A m, c, n : Unasked(m, c, n)' <=> Unasked(m, c, n)
        BY <1>1 DEF Unasked
  <2>3. \A i \in 1..Len(execQ'), c \in Calls : Unasked(execQ[i], c, 0)'
        BY <1>1, <2>1, <2>2 DEF Asking
  <2>4. tool.at # "idle" => \A c \in Calls :
            Unasked(tool.msg, c, IF c \in Elements(tool.left) THEN 0 ELSE 1)'
        BY <1>1, <2>1 DEF Asking, Unasked
  <2>5. \A c \in Calls :
            /\ Len(approvals'[c]) <= MaxAttempts
            /\ approvals'[c] # << >> => c \in Gated /\ owner'[c] \in sent'
        BY <1>1, <1>2, <2>1 DEF Asking
  <2> QED BY <1>1, <2>1, <2>3, <2>4, <2>5 DEF Asking
<1>8. Paid'
  <2> SUFFICES ASSUME NEW c \in Calls
               PROVE  runs'[c] + Cardinality(Holders(execQ, c)') + (IF InHand(c)' THEN 1 ELSE 0)
                          <= faults' + Due(c)'
      BY DEF Paid
  <2>1. Holders(execQ, c)' = Holders(execQ, c) /\ Grants(c)' = Grants(c)
        BY <1>1 DEF Holders, Executes, Grants
  <2>2. InHand(c)' <=> InHand(c)
        BY <1>1 DEF InHand, Executes, ToRun
  <2>3. runs[c] + Cardinality(Holders(execQ, c)) + (IF InHand(c) THEN 1 ELSE 0) <= faults + Due(c)
        BY DEF IInv, Paid
  <2>4. Due(c)' \in Nat /\ Due(c) <= Due(c)'
    <3>1. owner[c] = NoTask \/ owner'[c] = owner[c]
          BY <1>2
    <3>2. Redone(c) \in Nat /\ Redone(c)' \in Nat /\ Redone(c) <= Redone(c)'
      <4>1. broken' = broken /\ broken \in [Tasks -> Nat] /\ owner'[c] \in Tasks \cup {NoTask}
            BY <1>1, <1>2 DEF IInv, Types
      <4> QED BY <3>1, <4>1, Counts DEF Redone
    <3>3. Bought(c) \in Nat /\ Bought(c)' \in Nat /\ Bought(c) <= Bought(c)'
          BY <2>1, <3>1, Counts DEF Bought
    <3> QED BY <3>2, <3>3 DEF Due
  <2> QED BY <1>1, <2>1, <2>2, <2>3, <2>4, Counts
<1>9. Kept'
  <2>1. \A k : (Queued(taskQ, k)' <=> Queued(taskQ, k)) /\ (Queued(execQ, k)' <=> Queued(execQ, k))
        BY <1>1 DEF Queued
  <2>2. \A k : Going(k) => Going(k)' \/ k = t
        BY <1>1, <2>1 DEF Going
  <2>3. sent \subseteq Tasks
        BY DEF IInv, Types
  <2> QED BY <1>1, <1>2, <2>1, <2>2, <2>3, Announced, BrainCounts, KeptOn
<1> QED BY <1>5, <1>6, <1>7, <1>8, <1>9 DEF IInv

LEMMA BrainCallsToolsSound ==
    ASSUME IInv, NEW b \in Batches, BrainCallsTools(b)
    PROVE  IInv'
<1> PICK t : t = brain.msg.task
    OBVIOUS
<1> PICK m : m = [task |-> t, calls |-> b, approved |-> FALSE, dry |-> DryRun \cap Elements(b),
                  attempt |-> 0]
    OBVIOUS
<1>1. /\ brain.at = "thinking" /\ t \in Tasks /\ t \in sent /\ brain \in BrainBusy
      /\ UNCHANGED <<taskQ, tool, request, iteration, asked, results, approvals, closings,
                     shadow, faults, sent, wantsShadow, resolved, dead, runs, granted, thoughts, splits, broken>>
      /\ Fresh(b) /\ Claims(b) /\ execQ' = Append(execQ, m)
      BY BrainHas DEF BrainCallsTools, db
<1>2. /\ owner' \in [Calls -> Tasks \cup {NoTask}] /\ b \in Seq(Calls) /\ Once(b)
      /\ \A c \in Elements(b) : /\ c \in Calls /\ owner[c] = NoTask
                                /\ owner'[c] = t /\ approvals[c] = << >>
      /\ \A c \in Calls : c \notin Elements(b) => owner'[c] = owner[c]
      /\ \A n \in ToolMsgs : BatchSound(n) => BatchSound(n)' /\ Elements(n.calls) \cap Elements(b) = {}
      /\ \A k \in Tasks : Stopped(k) => Stopped(k)'
      BY <1>1, Claimed
<1>3. /\ brain' \in BrainBusy /\ brain'.msg = brain.msg /\ brain'.txn.bump = brain.txn.bump
      /\ brain'.at = "committing"
  <2>1. brain.txn \in Txns
        BY BrainHas, <1>1
  <2>2. PICK x : x = [brain.txn EXCEPT !.asked = Elements(b)]
        OBVIOUS
  <2>3. x \in Txns /\ x.bump = brain.txn.bump
        BY <1>2, <2>1, <2>2 DEF Txns
  <2>4. brain' = [brain EXCEPT !.at = "committing", !.txn = x]
        BY <1>1, <2>1, <2>2 DEF BrainCallsTools, BrainBusy, Txns
  <2> QED BY <1>1, <2>3, <2>4 DEF BrainBusy, BrainSteps
<1>4. /\ execQ \in Seq(ToolMsgs) /\ \A i \in 1..Len(execQ) : execQ[i] \in ToolMsgs
      /\ tool.at # "idle" => tool.msg \in ToolMsgs
      BY BatchesTyped
<1>5. m \in ToolMsgs /\ m.task = t /\ m.calls = b /\ ~m.approved /\ m.attempt = 0
      BY <1>1, <1>2, LoopAssumption DEF ToolMsgs, Attempts
<1>6. /\ execQ' \in Seq(ToolMsgs) /\ 1..Len(execQ') = 1..Len(execQ) \cup {Len(execQ) + 1}
      /\ \A i \in 1..Len(execQ) : execQ'[i] = execQ[i]
      /\ execQ'[Len(execQ) + 1] = m
  <2>1. execQ' = Append(execQ, m) /\ m \in ToolMsgs /\ execQ \in Seq(ToolMsgs)
        BY <1>1, <1>4, <1>5
  <2> QED BY ONLY <2>1, AppendedTo
<1>7. Types' /\ RunsAreAuthorised' /\ Iterations'
      BY <1>1, <1>2, <1>3, <1>6, BrainCounts, ReplyKeeps
<1>8. \A i \in 1..Len(execQ) : BatchSound(execQ[i])
      BY DEF IInv, Messages
<1>9. tool.at # "idle" => BatchSound(tool.msg)
      BY DEF IInv, Messages
<1>10. Messages'
  <2>1. Messages
        BY DEF IInv
  <2>2. brain'.msg.task \in sent'
        BY <1>1, <1>3
  <2>3. BatchSound(m)'
        BY <1>1, <1>2, <1>5 DEF BatchSound
  <2>4. \A i \in 1..Len(execQ') : BatchSound(execQ[i])'
    <3> SUFFICES ASSUME NEW i \in 1..Len(execQ')
                 PROVE  BatchSound(execQ[i])'
        OBVIOUS
    <3>1. PICK n : n = execQ'[i]
          OBVIOUS
    <3>2. n = m \/ (n \in ToolMsgs /\ BatchSound(n))
          BY <1>4, <1>6, <1>8, <3>1
    <3>3. BatchSound(n)'
          BY <1>2, <2>3, <3>2
    <3> QED BY <3>1, <3>3 DEF BatchSound
  <2>5. tool.at # "idle" => BatchSound(tool.msg)'
    <3> PICK n : n = tool.msg
        OBVIOUS
    <3>1. tool.at # "idle" => BatchSound(n)'
          BY <1>2, <1>4, <1>9
    <3>2. tool' = tool
          BY <1>1
    <3> QED BY <3>1, <3>2 DEF BatchSound
  <2> QED BY <1>1, <2>1, <2>2, <2>4, <2>5 DEF Messages
<1>11. \A i \in 1..Len(execQ), c \in Elements(b) : c \notin Elements(execQ[i].calls)
       BY <1>2, <1>4, <1>8
<1>12. tool.at # "idle" => \A c \in Elements(b) : c \notin Elements(tool.msg.calls)
       BY <1>2, <1>4, <1>9
<1>13. Asking'
  <2>1. Asking
        BY DEF IInv
  <2>2. \A i \in 1..Len(execQ'), c \in Calls : Unasked(execQ[i], c, 0)'
    <3> SUFFICES ASSUME NEW i \in 1..Len(execQ'), NEW c \in Calls
                 PROVE  Unasked(execQ[i], c, 0)'
        OBVIOUS
    <3>1. CASE i \in 1..Len(execQ)
          BY <1>1, <1>6, <2>1, <3>1 DEF Asking, Unasked
    <3>2. CASE i = Len(execQ) + 1
          BY <1>1, <1>2, <1>5, <1>6, <3>2 DEF Unasked
    <3> QED BY <1>6, <3>1, <3>2
  <2>3. tool.at # "idle" => \A c \in Calls :
            Unasked(tool.msg, c, IF c \in Elements(tool.left) THEN 0 ELSE 1)'
        BY <1>1, <2>1 DEF Asking, Unasked
  <2>4. ASSUME NEW c \in Calls
        PROVE  \A i, j \in 1..Len(execQ') :
                  (/\ c \in Elements(execQ'[i].calls) /\ ~execQ'[i].approved
                   /\ c \in Elements(execQ'[j].calls) /\ ~execQ'[j].approved) => i = j
        BY <1>5, <1>6, <1>11, <2>1 DEF Asking
  <2>5. ASSUME NEW c \in Calls, tool.at # "idle", c \in Elements(tool.msg.calls), ~tool.msg.approved
        PROVE  \A i \in 1..Len(execQ') : c \in Elements(execQ'[i].calls) => execQ'[i].approved
        BY <1>5, <1>6, <1>12, <2>1, <2>5 DEF Asking
  <2>6. \A c \in Calls :
            /\ Len(approvals'[c]) <= MaxAttempts
            /\ approvals'[c] # << >> => c \in Gated /\ owner'[c] \in sent'
        BY <1>1, <1>2, <2>1 DEF Asking
  <2>7. \A r \in Requests : request'[r] # << >> =>
            request'[r][2] \in 1..Len(approvals'[request'[r][1]])
        BY <1>1, <2>1 DEF Asking
  <2>8. tool' = tool
        BY <1>1
  <2> QED BY <2>2, <2>3, <2>4, <2>5, <2>6, <2>7, <2>8 DEF Asking
<1>14. Paid'
  <2> SUFFICES ASSUME NEW c \in Calls
               PROVE  runs'[c] + Cardinality(Holders(execQ, c)') + (IF InHand(c)' THEN 1 ELSE 0)
                          <= faults' + Due(c)'
      BY DEF Paid
  <2>1. Holders(execQ, c)' = Holders(Append(execQ, m), c) /\ Grants(c)' = Grants(c)
        BY <1>1 DEF Holders, Executes, Grants
  <2>2. InHand(c)' <=> InHand(c)
        BY <1>1 DEF InHand, Executes, ToRun
  <2>3. runs[c] + Cardinality(Holders(execQ, c)) + (IF InHand(c) THEN 1 ELSE 0) <= faults + Due(c)
        BY DEF IInv, Paid
  <2>4. /\ Cardinality(Holders(Append(execQ, m), c)) <= Cardinality(Holders(execQ, c)) + 1
        /\ ~Executes(m, c) => Cardinality(Holders(Append(execQ, m), c)) <= Cardinality(Holders(execQ, c))
        /\ Cardinality(Holders(Append(execQ, m), c)) \in Nat
        BY <1>4, <1>5, HoldersAppend
  <2>5. CASE Executes(m, c)
    <3>1. c \notin Gated /\ owner[c] = NoTask /\ owner'[c] # NoTask
          BY <1>1, <1>2, <1>5, <2>5, LoopAssumption DEF Executes
    <3>2. Due(c) = 0 /\ Due(c)' \in Nat /\ Due(c)' >= 1
      <4>1. broken' = broken /\ broken \in [Tasks -> Nat] /\ owner'[c] \in Tasks
            BY <1>1, <1>2, <3>1 DEF IInv, Types
      <4>2. Redone(c) = 0 /\ Redone(c)' \in Nat /\ Bought(c) = 0 /\ Bought(c)' = 1
            BY <3>1, <4>1 DEF Redone, Bought
      <4> QED BY <4>2 DEF Due
    <3> QED BY <1>1, <2>1, <2>2, <2>3, <2>4, <3>2, Counts
  <2>6. CASE ~Executes(m, c)
    <3>1. Due(c)' \in Nat /\ Due(c) <= Due(c)'
      <4>1. owner[c] = NoTask \/ owner'[c] = owner[c]
            BY <1>2
      <4>2. Redone(c) \in Nat /\ Redone(c)' \in Nat /\ Redone(c) <= Redone(c)'
        <5>1. broken' = broken /\ broken \in [Tasks -> Nat] /\ owner'[c] \in Tasks \cup {NoTask}
              BY <1>1, <1>2 DEF IInv, Types
        <5> QED BY <4>1, <5>1, Counts DEF Redone
      <4>3. Bought(c) \in Nat /\ Bought(c)' \in Nat /\ Bought(c) <= Bought(c)'
            BY <2>1, <4>1, Counts DEF Bought
      <4> QED BY <4>2, <4>3 DEF Due
    <3> QED BY <1>1, <2>1, <2>2, <2>3, <2>4, <2>6, <3>1, Counts
  <2> QED BY <2>5, <2>6
<1>15. Kept'
  <2>1. \A k : /\ Queued(taskQ, k)' <=> Queued(taskQ, k)
               /\ Queued(execQ, k)' <=> Queued(execQ', k)
               /\ Queued(execQ, k) => Queued(execQ', k)
        BY <1>1, <1>6 DEF Queued
  <2>2. Queued(execQ', t)
        BY <1>5, <1>6 DEF Queued
  <2>3. \A k : Going(k) => Going(k)'
        BY <1>1, <2>1, <2>2 DEF Going
  <2>4. sent \subseteq Tasks
        BY DEF IInv, Types
  <2>5. \A k \in Tasks : resolved[k] \in Nat /\ resolved'[k] = resolved[k]
        BY <1>1, BrainCounts
  <2>6. \A k \in sent : Stopped(k) => Stopped(k)'
        BY <1>2, <2>4
  <2>7. tool' = tool /\ dead' = dead /\ sent' = sent
        BY <1>1
  <2> QED BY <2>1, <2>3, <2>4, <2>5, <2>6, <2>7, KeptOn
<1> QED BY <1>7, <1>10, <1>13, <1>14, <1>15 DEF IInv

-----------------------------------------------------------------------------
(* The requests that decide an approval.                                   *)

LEMMA ReadApprovalSound ==
    ASSUME IInv, NEW r \in Requests, ReadApproval(r)
    PROVE  IInv'
<1>1. /\ UNCHANGED <<taskQ, execQ, brain, tool, iteration, asked, results, approvals, closings,
                     shadow, faults, owner, sent, wantsShadow, resolved, dead, runs, granted,
                     thoughts, splits, broken>>
      BY DEF ReadApproval, queues, db, past
<1>0. PICK c \in Calls :
          \E i \in 1..Len(approvals[c]) : request' = [request EXCEPT ![r] = <<c, i>>]
      BY DEF ReadApproval
<1>2. PICK i \in 1..Len(approvals[c]) : request' = [request EXCEPT ![r] = <<c, i>>]
      BY <1>0
<1>3. /\ i \in Nat \ {0}
      /\ request \in [Requests -> {<< >>} \cup (Calls \X (Nat \ {0}))]
      /\ approvals \in [Calls -> Seq(Answers)]
  <2>1. /\ approvals \in [Calls -> Seq(Answers)]
        /\ request \in [Requests -> {<< >>} \cup (Calls \X (Nat \ {0}))]
        BY DEF IInv, Types
  <2>2. Len(approvals[c]) \in Nat
        BY <2>1, LenProperties
  <2> QED BY <2>1, <2>2
<1>4. <<c, i>> \in Calls \X (Nat \ {0}) /\ <<c, i>>[1] = c /\ <<c, i>>[2] = i
      BY <1>3
<1>5. request' \in [Requests -> {<< >>} \cup (Calls \X (Nat \ {0}))]
      BY <1>2, <1>3, <1>4
<1>6. Types'
      BY <1>1, <1>5 DEF IInv, Types
<1>7. Messages'
  <2>1. /\ \A j \in 1..Len(taskQ') : taskQ'[j].task \in sent'
        /\ brain'.at # "idle" => brain'.msg.task \in sent'
        BY <1>1 DEF IInv, Messages
  <2> QED BY <1>1, <2>1, MessagesKept
<1>8. Asking'
  <2>1. \A k \in Requests : request'[k] # << >> => request'[k][2] \in 1..Len(approvals'[request'[k][1]])
    <3> SUFFICES ASSUME NEW k \in Requests, request'[k] # << >>
                 PROVE  request'[k][2] \in 1..Len(approvals'[request'[k][1]])
        OBVIOUS
    <3>1. CASE k = r
      <4>1. request'[r] = <<c, i>>
            BY <1>2, <1>3
      <4> QED BY <1>1, <1>4, <3>1, <4>1
    <3>2. CASE k # r
      <4>1. request'[k] = request[k]
            BY <1>2, <1>3, <3>2
      <4> QED BY <1>1, <4>1 DEF IInv, Asking
    <3> QED BY <3>1, <3>2
  <2> QED BY <1>1, <2>1, AskingOn
<1>9. RunsAreAuthorised' /\ Paid' /\ Iterations'
      BY <1>1, BrainCounts, PaidKept, IterationsKept
<1>10. Kept'
  <2>1. \A t : Going(t)' <=> Going(t)
        BY <1>1 DEF Going, Queued
  <2>2. \A t : Queued(execQ, t)' <=> Queued(execQ, t)
        BY <1>1 DEF Queued
  <2>3. \A t \in Tasks : resolved[t] \in Nat /\ resolved'[t] = resolved[t]
        BY <1>1, BrainCounts
  <2> QED BY <1>1, <2>1, <2>2, <2>3, StoppedKept, KeptOn
<1> QED BY <1>6, <1>7, <1>8, <1>9, <1>10 DEF IInv

\* A decision changes the status of one request.
LEMMA Decided ==
    ASSUME IInv, NEW r \in Requests, request[r] # << >>, NEW v \in Answers, NEW c, NEW i,
           c = request[r][1], i = request[r][2],
           approvals' = [approvals EXCEPT ![c][i] = v],
           request' = [request EXCEPT ![r] = << >>], owner' = owner
    PROVE  /\ c \in Calls /\ i \in Nat \ {0}
           /\ c \in Gated /\ owner[c] \in sent
           /\ approvals' \in [Calls -> Seq(Answers)]
           /\ \A k \in Calls : Len(approvals'[k]) = Len(approvals[k])
           /\ \A k \in Calls : approvals'[k] # << >> => approvals[k] # << >>
           /\ request' \in [Requests -> {<< >>} \cup (Calls \X (Nat \ {0}))]
           /\ \A k \in Requests : request'[k] # << >> =>
                  request'[k][2] \in 1..Len(approvals'[request'[k][1]])
           /\ \A t : Stopped(t) => Stopped(t)' \/ (v = "APPROVED" /\ owner[c] = t)
<1>1. /\ request \in [Requests -> {<< >>} \cup (Calls \X (Nat \ {0}))]
      /\ approvals \in [Calls -> Seq(Answers)]
      BY DEF IInv, Types
<1>2. request[r] = <<c, i>> /\ c \in Calls /\ i \in Nat \ {0}
      BY <1>1
<1>3. i \in 1..Len(approvals[c])
      BY DEF IInv, Asking
<1>4. approvals[c] \in Seq(Answers) /\ Len(approvals[c]) \in Nat /\ approvals[c] # << >>
  <2>1. approvals[c] \in Seq(Answers)
        BY <1>1, <1>2
  <2> QED BY <1>3, <2>1, LenProperties, EmptySeq
<1>5. c \in Gated /\ owner[c] \in sent
      BY <1>2, <1>4 DEF IInv, Asking
<1> PICK s : s = [approvals[c] EXCEPT ![i] = v]
    OBVIOUS
<1>6. /\ s \in Seq(Answers) /\ Len(s) = Len(approvals[c]) /\ s # << >>
      /\ s[i] = v /\ \A j \in 1..Len(approvals[c]) : j # i => s[j] = approvals[c][j]
  <2>1. s \in Seq(Answers) /\ Len(s) = Len(approvals[c])
        BY <1>3, <1>4, ExceptSeq
  <2>2. s[i] = v /\ \A j \in 1..Len(approvals[c]) : j # i => s[j] = approvals[c][j]
        BY <1>3, <1>4, ElementOfSeq
  <2> QED BY <1>3, <1>4, <2>1, <2>2, EmptySeq
<1>7. /\ approvals' \in [Calls -> Seq(Answers)] /\ approvals'[c] = s
      /\ \A k \in Calls : k # c => approvals'[k] = approvals[k]
      BY <1>1, <1>2, <1>6
<1>8. \A k \in Calls : /\ Len(approvals'[k]) = Len(approvals[k])
                       /\ approvals'[k] # << >> => approvals[k] # << >>
      BY <1>4, <1>6, <1>7
<1>9. /\ request' \in [Requests -> {<< >>} \cup (Calls \X (Nat \ {0}))]
      /\ \A k \in Requests : request'[k] = IF k = r THEN << >> ELSE request[k]
      BY <1>1
<1>10. ASSUME NEW k \in Requests, request'[k] # << >>
       PROVE  request'[k][2] \in 1..Len(approvals'[request'[k][1]])
  <2>1. request'[k] = request[k] /\ request[k][1] \in Calls
        BY <1>1, <1>9, <1>10
  <2>2. request[k][2] \in 1..Len(approvals[request[k][1]])
        BY <1>10, <2>1 DEF IInv, Asking
  <2> QED BY <1>8, <2>1, <2>2
<1>11. ASSUME NEW t, Stopped(t), ~(v = "APPROVED" /\ owner[c] = t)
       PROVE  Stopped(t)'
  <2>1. PICK p \in Requested("NEEDS_APPROVAL") \cup Requested("DENIED") : owner[p[1]] = t
        BY <1>11 DEF Stopped
  <2>2. /\ p \in Calls \X (1..MaxAttempts) /\ p[1] \in Calls /\ p[2] \in 1..Len(approvals[p[1]])
        /\ approvals[p[1]][p[2]] \in {"NEEDS_APPROVAL", "DENIED"}
        BY <2>1 DEF Requested
  <2>3. approvals'[p[1]][p[2]] \in {"NEEDS_APPROVAL", "DENIED"}
    <3>1. CASE p[1] = c /\ p[2] = i
          BY <1>6, <1>7, <1>11, <2>1, <3>1 DEF Answers
    <3>2. CASE p[1] = c /\ p[2] # i
          BY <1>6, <1>7, <2>2, <3>2
    <3>3. CASE p[1] # c
          BY <1>7, <2>2, <3>3
    <3> QED BY <3>1, <3>2, <3>3
  <2>4. p[2] \in 1..Len(approvals'[p[1]])
        BY <1>8, <2>2
  <2>5. p \in Requested("NEEDS_APPROVAL")' \cup Requested("DENIED")'
        BY <2>2, <2>3, <2>4 DEF Requested
  <2> QED BY <2>1, <2>5 DEF Stopped
<1> QED BY <1>2, <1>5, <1>7, <1>8, <1>9, <1>10, <1>11

LEMMA DenySound ==
    ASSUME IInv, NEW r \in Requests, Deny(r)
    PROVE  IInv'
<1> PICK c : c = request[r][1]
    OBVIOUS
<1> PICK i : i = request[r][2]
    OBVIOUS
<1>1. /\ UNCHANGED <<taskQ, execQ, brain, tool, iteration, asked, results, closings,
                     shadow, faults, owner, sent, wantsShadow, resolved, dead, runs, granted,
                     thoughts, splits, broken>>
      /\ approvals' = [approvals EXCEPT ![c][i] = "DENIED"]
      /\ request' = [request EXCEPT ![r] = << >>] /\ request[r] # << >>
      BY DEF Deny, queues
<1>2. /\ approvals' \in [Calls -> Seq(Answers)]
      /\ \A k \in Calls : Len(approvals'[k]) = Len(approvals[k])
      /\ \A k \in Calls : approvals'[k] # << >> => approvals[k] # << >>
      /\ request' \in [Requests -> {<< >>} \cup (Calls \X (Nat \ {0}))]
      /\ \A k \in Requests : request'[k] # << >> =>
              request'[k][2] \in 1..Len(approvals'[request'[k][1]])
      /\ \A t : Stopped(t) => Stopped(t)'
  <2> PICK v : v = "DENIED"
      OBVIOUS
  <2>1. v \in Answers /\ v # "APPROVED"
        BY DEF Answers
  <2>2. /\ approvals' = [approvals EXCEPT ![c][i] = v]
        /\ request' = [request EXCEPT ![r] = << >>] /\ request[r] # << >> /\ owner' = owner
        /\ c = request[r][1] /\ i = request[r][2]
        BY <1>1
  <2>3. /\ approvals' \in [Calls -> Seq(Answers)]
        /\ \A k \in Calls : Len(approvals'[k]) = Len(approvals[k])
        /\ \A k \in Calls : approvals'[k] # << >> => approvals[k] # << >>
        BY ONLY IInv, r \in Requests, <2>1, <2>2, Decided
  <2>4. /\ request' \in [Requests -> {<< >>} \cup (Calls \X (Nat \ {0}))]
        /\ \A k \in Requests : request'[k] # << >> =>
                request'[k][2] \in 1..Len(approvals'[request'[k][1]])
        BY ONLY IInv, r \in Requests, <2>1, <2>2, Decided
  <2>5. \A t : Stopped(t) => Stopped(t)'
        BY ONLY IInv, r \in Requests, <2>1, <2>2, Decided
  <2> QED BY <2>3, <2>4, <2>5
<1>3. Types'
      BY <1>1, <1>2 DEF IInv, Types
<1>4. Messages'
  <2>1. /\ \A j \in 1..Len(taskQ') : taskQ'[j].task \in sent'
        /\ brain'.at # "idle" => brain'.msg.task \in sent'
        BY <1>1 DEF IInv, Messages
  <2> QED BY <1>1, <2>1, MessagesKept
<1>5. Asking'
      BY <1>1, <1>2, AskingOn
<1>6. RunsAreAuthorised' /\ Paid' /\ Iterations'
      BY <1>1, BrainCounts, PaidKept, IterationsKept
<1>7. Kept'
  <2>1. \A t : Going(t)' <=> Going(t)
        BY <1>1 DEF Going, Queued
  <2>2. \A t : Queued(execQ, t)' <=> Queued(execQ, t)
        BY <1>1 DEF Queued
  <2>3. \A t \in Tasks : resolved[t] \in Nat /\ resolved'[t] = resolved[t]
        BY <1>1, BrainCounts
  <2> QED BY <1>1, <1>2, <2>1, <2>2, <2>3, KeptOn
<1> QED BY <1>3, <1>4, <1>5, <1>6, <1>7 DEF IInv

\* An approval grants the call and dispatches it: one more run is due, one
\* more is to come.
LEMMA ApproveSound ==
    ASSUME IInv, NEW r \in Requests, Approve(r)
    PROVE  IInv'
<1> PICK c : c = request[r][1]
    OBVIOUS
<1> PICK i : i = request[r][2]
    OBVIOUS
<1>1. /\ UNCHANGED <<taskQ, brain, tool, iteration, asked, results, closings,
                     shadow, faults, owner, sent, wantsShadow, resolved, dead, runs, thoughts, broken>>
      /\ approvals' = [approvals EXCEPT ![c][i] = "APPROVED"]
      /\ request' = [request EXCEPT ![r] = << >>] /\ request[r] # << >>
      BY DEF Approve
<1>2. /\ c \in Calls /\ i \in Nat \ {0}
      /\ c \in Gated /\ owner[c] \in sent
      /\ approvals' \in [Calls -> Seq(Answers)]
      /\ \A k \in Calls : Len(approvals'[k]) = Len(approvals[k])
      /\ \A k \in Calls : approvals'[k] # << >> => approvals[k] # << >>
      /\ request' \in [Requests -> {<< >>} \cup (Calls \X (Nat \ {0}))]
      /\ \A k \in Requests : request'[k] # << >> =>
              request'[k][2] \in 1..Len(approvals'[request'[k][1]])
      /\ \A t : Stopped(t) => Stopped(t)' \/ owner[c] = t
  <2> PICK v : v = "APPROVED"
      OBVIOUS
  <2>1. v \in Answers
        BY DEF Answers
  <2>2. /\ approvals' = [approvals EXCEPT ![c][i] = v]
        /\ request' = [request EXCEPT ![r] = << >>] /\ request[r] # << >> /\ owner' = owner
        /\ c = request[r][1] /\ i = request[r][2]
        BY <1>1
  <2>3. /\ c \in Calls /\ i \in Nat \ {0}
        /\ c \in Gated /\ owner[c] \in sent
        BY ONLY IInv, r \in Requests, <2>1, <2>2, Decided
  <2>4. /\ request' \in [Requests -> {<< >>} \cup (Calls \X (Nat \ {0}))]
        /\ \A k \in Requests : request'[k] # << >> =>
                request'[k][2] \in 1..Len(approvals'[request'[k][1]])
        BY ONLY IInv, r \in Requests, <2>1, <2>2, Decided
  <2>5. \A t : Stopped(t) => Stopped(t)' \/ owner[c] = t
        BY ONLY IInv, r \in Requests, <2>1, <2>2, Decided
  <2>6. /\ approvals' \in [Calls -> Seq(Answers)]
        /\ \A k \in Calls : Len(approvals'[k]) = Len(approvals[k])
        /\ \A k \in Calls : approvals'[k] # << >> => approvals[k] # << >>
        BY ONLY IInv, r \in Requests, <2>1, <2>2, Decided
  <2> QED BY <2>3, <2>4, <2>5, <2>6
<1> PICK m : m = [task |-> owner[c], calls |-> <<c>>, approved |-> TRUE,
                  dry |-> DryRun \cap {c}, attempt |-> 0]
    OBVIOUS
<1>3. execQ' = Append(execQ, m) /\ granted' = Append(granted, <<c, i>>)
      BY DEF Approve
<1>4. /\ execQ \in Seq(ToolMsgs) /\ sent \subseteq Tasks
      /\ granted \in Seq(Calls \X (Nat \ {0}))
      BY DEF IInv, Types
<1>5. /\ <<c>> \in Seq(Calls) /\ Once(<<c>>) /\ Elements(<<c>>) = {c}
      BY <1>2 DEF Once, Elements
<1>6. /\ m \in ToolMsgs /\ m.task = owner[c] /\ m.calls = <<c>> /\ m.approved /\ m.attempt = 0
      BY <1>2, <1>4, <1>5, LoopAssumption DEF ToolMsgs, Attempts
<1>7. /\ execQ' \in Seq(ToolMsgs) /\ 1..Len(execQ') = 1..Len(execQ) \cup {Len(execQ) + 1}
      /\ \A j \in 1..Len(execQ) : execQ'[j] = execQ[j]
      /\ execQ'[Len(execQ) + 1] = m
  <2>1. execQ' = Append(execQ, m) /\ m \in ToolMsgs /\ execQ \in Seq(ToolMsgs)
        BY <1>3, <1>4, <1>6
  <2> QED BY ONLY <2>1, AppendedTo
<1>8. /\ granted' \in Seq(Calls \X (Nat \ {0}))
      /\ 1..Len(granted') = 1..Len(granted) \cup {Len(granted) + 1} /\ Len(granted) \in Nat
      /\ \A j \in 1..Len(granted) : granted'[j] = granted[j]
      /\ granted'[Len(granted) + 1] = <<c, i>>
  <2>1. /\ granted' = Append(granted, <<c, i>>) /\ <<c, i>> \in Calls \X (Nat \ {0})
        /\ granted \in Seq(Calls \X (Nat \ {0}))
        BY <1>2, <1>3, <1>4
  <2>2. Len(granted) \in Nat
        BY <2>1, LenProperties
  <2> QED BY ONLY <2>1, <2>2, AppendedTo
<1>9. \A k : Grants(k)' = IF k = c THEN Grants(k) \cup {Len(granted) + 1} ELSE Grants(k)
      BY <1>8 DEF Grants
<1>10. \A n : BatchSound(n) => BatchSound(n)'
       BY <1>1, <1>9 DEF BatchSound
<1>11. Types'
  <2>1. splits' \in [Tasks -> Nat]
    <3>1. splits' = splits \/ splits' = [splits EXCEPT ![owner[c]] = @ + 1]
          BY DEF Approve
    <3>2. splits \in [Tasks -> Nat]
          BY DEF IInv, Types
    <3> QED BY <3>1, <3>2
  <2> QED BY <1>1, <1>2, <1>7, <1>8, <2>1 DEF IInv, Types
<1>12. Messages'
  <2>1. Messages
        BY DEF IInv
  <2>2. BatchSound(m)'
        BY <1>1, <1>2, <1>5, <1>6, <1>9 DEF BatchSound
  <2>3. \A j \in 1..Len(execQ') : BatchSound(execQ[j])'
    <3> SUFFICES ASSUME NEW j \in 1..Len(execQ')
                 PROVE  BatchSound(execQ[j])'
        OBVIOUS
    <3>1. PICK n : n = execQ'[j]
          OBVIOUS
    <3>2. n = m \/ BatchSound(n)
          BY <1>7, <2>1, <3>1 DEF Messages
    <3>3. BatchSound(n)'
          BY <1>10, <2>2, <3>2
    <3> QED BY <3>1, <3>3 DEF BatchSound
  <2>4. tool.at # "idle" => BatchSound(tool.msg)'
    <3> PICK n : n = tool.msg
        OBVIOUS
    <3>1. tool.at # "idle" => BatchSound(n)'
          BY <1>10, <2>1 DEF Messages
    <3>2. tool' = tool
          BY <1>1
    <3> QED BY <3>1, <3>2 DEF BatchSound
  <2> QED BY <1>1, <2>1, <2>3, <2>4 DEF Messages
<1>13. Asking'
  <2>1. Asking
        BY DEF IInv
  <2>2. \A j \in 1..Len(execQ'), k \in Calls : Unasked(execQ[j], k, 0)'
    <3> SUFFICES ASSUME NEW j \in 1..Len(execQ'), NEW k \in Calls
                 PROVE  Unasked(execQ[j], k, 0)'
        OBVIOUS
    <3>1. CASE j \in 1..Len(execQ)
          BY <1>2, <1>7, <2>1, <3>1 DEF Asking, Unasked
    <3>2. CASE j = Len(execQ) + 1
          BY <1>6, <1>7, <3>2 DEF Unasked
    <3> QED BY <1>7, <3>1, <3>2
  <2>3. tool.at # "idle" => \A k \in Calls :
            Unasked(tool.msg, k, IF k \in Elements(tool.left) THEN 0 ELSE 1)'
        BY <1>1, <1>2, <2>1 DEF Asking, Unasked
  <2>4. ASSUME NEW k \in Calls
        PROVE  \A a, b \in 1..Len(execQ') :
                  (/\ k \in Elements(execQ'[a].calls) /\ ~execQ'[a].approved
                   /\ k \in Elements(execQ'[b].calls) /\ ~execQ'[b].approved) => a = b
        BY <1>6, <1>7, <2>1 DEF Asking
  <2>5. ASSUME NEW k \in Calls, tool.at # "idle", k \in Elements(tool.msg.calls), ~tool.msg.approved
        PROVE  \A a \in 1..Len(execQ') : k \in Elements(execQ'[a].calls) => execQ'[a].approved
        BY <1>6, <1>7, <2>1, <2>5 DEF Asking
  <2>6. \A k \in Calls :
            /\ Len(approvals'[k]) <= MaxAttempts
            /\ approvals'[k] # << >> => k \in Gated /\ owner'[k] \in sent'
        BY <1>1, <1>2, <2>1 DEF Asking
  <2>7. \A k \in Requests : request'[k] # << >> =>
            request'[k][2] \in 1..Len(approvals'[request'[k][1]])
        BY <1>2
  <2>8. tool' = tool
        BY <1>1
  <2> QED BY <2>2, <2>3, <2>4, <2>5, <2>6, <2>7, <2>8 DEF Asking
<1>14. RunsAreAuthorised'
  <2> SUFFICES ASSUME NEW k \in Calls, runs'[k] > 0
               PROVE  /\ k \in Gated => Grants(k)' # {}
                      /\ k \notin Forbidden
      BY DEF RunsAreAuthorised
  <2>1. runs[k] > 0
        BY <1>1
  <2>2. /\ k \in Gated => Grants(k) # {}
        /\ k \notin Forbidden
        BY <2>1 DEF IInv, RunsAreAuthorised
  <2> QED BY <1>9, <2>2
<1>15. Paid'
  <2> SUFFICES ASSUME NEW k \in Calls
               PROVE  runs'[k] + Cardinality(Holders(execQ, k)') + (IF InHand(k)' THEN 1 ELSE 0)
                          <= faults' + Due(k)'
      BY DEF Paid
  <2>1. Holders(execQ, k)' = Holders(Append(execQ, m), k)
        BY <1>3 DEF Holders, Executes
  <2>2. InHand(k)' <=> InHand(k)
        BY <1>1 DEF InHand, Executes, ToRun
  <2>3. runs[k] + Cardinality(Holders(execQ, k)) + (IF InHand(k) THEN 1 ELSE 0) <= faults + Due(k)
        BY DEF IInv, Paid
  <2>4. /\ Cardinality(Holders(Append(execQ, m), k)) <= Cardinality(Holders(execQ, k)) + 1
        /\ ~Executes(m, k) => Cardinality(Holders(Append(execQ, m), k)) <= Cardinality(Holders(execQ, k))
        /\ Cardinality(Holders(Append(execQ, m), k)) \in Nat
        BY <1>4, <1>6, HoldersAppend
  <2>5. CASE k = c
    <3>1. Due(c)' = Due(c) + 1
      <4>1. Len(granted) + 1 \notin Grants(c)
            BY <1>8 DEF Grants
      <4>2. Cardinality(Grants(c) \cup {Len(granted) + 1}) = Cardinality(Grants(c)) + 1
            BY <1>2, <4>1, Counts, OneMore
      <4>3. /\ Due(c)' = Cardinality(Grants(c)') + Redone(c)
            /\ Due(c) = Cardinality(Grants(c)) + Redone(c)
            BY <1>1, <1>2 DEF Due, Bought, Redone
      <4>4. Redone(c) \in Nat /\ Cardinality(Grants(c)) \in Nat
            BY <1>2, Counts
      <4>5. Grants(c)' = Grants(c) \cup {Len(granted) + 1}
            BY <1>9
      <4>6. Cardinality(Grants(c)') = Cardinality(Grants(c)) + 1
            BY <4>2, <4>5
      <4> QED BY ONLY <4>3, <4>4, <4>6
    <3> PICK h : h = IF InHand(k) THEN 1 ELSE 0
        OBVIOUS
    <3>2. h \in Nat /\ (IF InHand(k)' THEN 1 ELSE 0) = h
          BY <2>2
    <3>3. /\ runs[k] \in Nat /\ faults \in Nat /\ Due(k) \in Nat
          /\ Cardinality(Holders(execQ, k)) \in Nat
          BY Counts
    <3>4. runs'[k] = runs[k] /\ faults' = faults /\ Due(k)' = Due(k) + 1
          BY <1>1, <2>5, <3>1
    <3>5. /\ Cardinality(Holders(execQ, k)') <= Cardinality(Holders(execQ, k)) + 1
          /\ Cardinality(Holders(execQ, k)') \in Nat
          BY <2>1, <2>4
    <3>6. runs[k] + Cardinality(Holders(execQ, k)) + h <= faults + Due(k)
          BY <2>3
    <3>7. runs'[k] + Cardinality(Holders(execQ, k)') + h <= faults' + Due(k)'
          BY ONLY <3>2, <3>3, <3>4, <3>5, <3>6
    <3> QED BY <3>2, <3>7
  <2>6. CASE k # c
    <3>1. ~Executes(m, k)
          BY <1>5, <1>6, <2>6 DEF Executes
    <3>2. Due(k)' = Due(k)
          BY <1>1, <1>9, <2>6 DEF Due, Bought, Redone
    <3> QED BY <1>1, <2>1, <2>2, <2>3, <2>4, <3>1, <3>2, Counts
  <2> QED BY <2>5, <2>6
<1>16. Iterations'
       BY <1>1, BrainCounts, IterationsKept
<1>17. Kept'
  <2>1. \A k : /\ Queued(taskQ, k)' <=> Queued(taskQ, k)
               /\ Queued(execQ, k)' <=> Queued(execQ', k)
               /\ Queued(execQ, k) => Queued(execQ', k)
        BY <1>1, <1>7 DEF Queued
  <2>2. Queued(execQ', owner[c])
        BY <1>6, <1>7 DEF Queued
  <2>3. \A k : Going(k) => Going(k)'
        BY <1>1, <2>1 DEF Going
  <2>4. \A k \in Tasks : resolved[k] \in Nat /\ resolved'[k] = resolved[k]
        BY <1>1, BrainCounts
  <2>5. \A k : Stopped(k) => Stopped(k)' \/ Queued(execQ, k)'
        BY <1>2, <2>1, <2>2
  <2>6. tool' = tool /\ dead' = dead /\ sent' = sent
        BY <1>1
  <2> QED BY <2>1, <2>3, <2>4, <2>5, <2>6, KeptOn
<1> QED BY <1>11, <1>12, <1>13, <1>14, <1>15, <1>16, <1>17 DEF IInv

-----------------------------------------------------------------------------
(* The tool worker.                                                        *)

\* What holds of a batch depends on no more than its task, its calls, its
\* approval and its attempt.
LEMMA SameBatch ==
    ASSUME NEW m, NEW n, n.task = m.task, n.calls = m.calls, n.approved = m.approved,
           n.attempt = m.attempt
    PROVE  /\ BatchSound(m) => BatchSound(n)
           /\ \A c, k : Unasked(m, c, k) => Unasked(n, c, k)
           /\ \A c : Executes(n, c) <=> Executes(m, c)
BY DEF BatchSound, Unasked, Executes

LEMMA SoundKept ==
    ASSUME UNCHANGED <<owner, sent, granted>>
    PROVE  \A m : BatchSound(m)' <=> BatchSound(m)
BY DEF BatchSound, Grants

\* A step of the tool worker through its batch: the calls left are not more,
\* and a call that runs is no longer to come.
LEMMA ToolMoves ==
    ASSUME IInv, tool.at # "idle", tool' \in ToolBusy, tool'.paused = tool.paused,
           tool'.msg.task = tool.msg.task, tool'.msg.calls = tool.msg.calls,
           tool'.msg.approved = tool.msg.approved, tool'.msg.attempt = tool.msg.attempt,
           tool'.left = tool.left \/ (tool.left # << >> /\ tool'.left = Tail(tool.left)),
           tool'.at = "saving" => tool'.left # << >>,
           UNCHANGED <<queues, brain, request, iteration, asked, approvals, closings, shadow,
                       faults, owner, sent, wantsShadow, resolved, dead, granted, thoughts, splits, broken>>,
           results' \in [Calls -> Nat], runs' \in [Calls -> Nat], RunsAreAuthorised',
           \A c \in Calls : runs'[c] + (IF InHand(c)' THEN 1 ELSE 0)
                                <= runs[c] + (IF InHand(c) THEN 1 ELSE 0)
    PROVE  IInv'
<1>1. UNCHANGED <<taskQ, execQ>> /\ tool'.at # "idle"
      BY DEF queues, ToolBusy, ToolSteps
<1>2. /\ tool.left \in Seq(Calls) /\ Once(tool.left) /\ BatchSound(tool.msg)
      /\ Elements(tool.left) \subseteq Elements(tool.msg.calls)
      BY ToolHas
<1>3. Once(tool'.left) /\ Elements(tool'.left) \subseteq Elements(tool.left)
      BY <1>2, TailOnce
<1> PICK m : m = tool.msg
    OBVIOUS
<1> PICK n : n = tool'.msg
    OBVIOUS
<1>4. n.task = m.task /\ n.calls = m.calls /\ n.approved = m.approved /\ n.attempt = m.attempt
      OBVIOUS
<1>5. /\ BatchSound(m) => BatchSound(n)
      /\ \A c, k : Unasked(m, c, k) => Unasked(n, c, k)
      BY <1>4, SameBatch
<1>6. Types'
      BY <1>1 DEF IInv, Types
<1>7. Messages'
  <2>1. Messages
        BY DEF IInv
  <2>2. \A i \in 1..Len(execQ') : BatchSound(execQ[i])'
        BY <1>1, <2>1, SoundKept DEF Messages
  <2>3. BatchSound(tool.msg)'
    <3>1. BatchSound(n)'
          BY <1>2, <1>5, SoundKept
    <3> QED BY <3>1 DEF BatchSound
  <2> QED BY <1>1, <1>2, <1>3, <2>1, <2>2, <2>3 DEF Messages
<1>8. Asking'
  <2>1. Asking
        BY DEF IInv
  <2>2. \A b, c, k : Unasked(b, c, k)' <=> Unasked(b, c, k)
        BY DEF Unasked
  <2>3. \A i \in 1..Len(execQ'), c \in Calls : Unasked(execQ[i], c, 0)'
        BY <1>1, <2>1, <2>2 DEF Asking
  <2>4. ASSUME NEW c \in Calls
        PROVE  Unasked(tool.msg, c, IF c \in Elements(tool.left) THEN 0 ELSE 1)'
    <3>1. Unasked(m, c, IF c \in Elements(tool.left) THEN 0 ELSE 1)
          BY <2>1 DEF Asking
    <3>2. Unasked(n, c, IF c \in Elements(tool.left) THEN 0 ELSE 1)
          BY <1>5, <3>1
    <3>3. Len(approvals[c]) \in Nat /\ n.attempt \in Nat
      <4>1. approvals[c] \in Seq(Answers)
            BY DEF IInv, Types
      <4>2. n.attempt \in Attempts
            BY DEF ToolBusy, ToolMsgs
      <4> QED BY <4>1, <4>2, LenProperties, LoopAssumption DEF Attempts
    <3>4. Unasked(n, c, IF c \in Elements(tool'.left) THEN 0 ELSE 1)
          BY <1>3, <3>2, <3>3 DEF Unasked
    <3> QED BY <3>4 DEF Unasked
  <2>5. ASSUME NEW c \in Calls, c \in Elements(tool'.msg.calls), ~tool'.msg.approved
        PROVE  \A i \in 1..Len(execQ') : c \in Elements(execQ'[i].calls) => execQ'[i].approved
        BY <1>1, <2>1, <2>5 DEF Asking
  <2>6. \A c \in Calls :
            \A i, j \in 1..Len(execQ') :
               (/\ c \in Elements(execQ'[i].calls) /\ ~execQ'[i].approved
                /\ c \in Elements(execQ'[j].calls) /\ ~execQ'[j].approved) => i = j
        BY <1>1, <2>1 DEF Asking
  <2>7. /\ \A c \in Calls :
            /\ Len(approvals'[c]) <= MaxAttempts
            /\ approvals'[c] # << >> => c \in Gated /\ owner'[c] \in sent'
        /\ \A r \in Requests : request'[r] # << >> =>
               request'[r][2] \in 1..Len(approvals'[request'[r][1]])
        BY <2>1 DEF Asking
  <2> QED BY <2>3, <2>4, <2>5, <2>6, <2>7 DEF Asking
<1>9. Paid'
  <2> SUFFICES ASSUME NEW c \in Calls
               PROVE  runs'[c] + Cardinality(Holders(execQ, c)') + (IF InHand(c)' THEN 1 ELSE 0)
                          <= faults' + Due(c)'
      BY DEF Paid
  <2>1. Holders(execQ, c)' = Holders(execQ, c) /\ Due(c)' = Due(c)
        BY <1>1 DEF Holders, Executes, Due, Bought, Redone, Grants
  <2>2. runs[c] + Cardinality(Holders(execQ, c)) + (IF InHand(c) THEN 1 ELSE 0) <= faults + Due(c)
        BY DEF IInv, Paid
  <2>3. runs'[c] + (IF InHand(c)' THEN 1 ELSE 0) <= runs[c] + (IF InHand(c) THEN 1 ELSE 0)
        OBVIOUS
  <2>4. runs'[c] \in Nat
        OBVIOUS
  <2> QED BY <2>1, <2>2, <2>3, <2>4, Counts
<1>10. Iterations'
       BY BrainCounts, IterationsKept
<1>11. Kept'
  <2>1. \A t : Stopped(t)' <=> Stopped(t)
        BY StoppedKept
  <2>2. \A t : Going(t) => Going(t)'
        BY <1>1 DEF Going, Queued
  <2>3. \A t : Queued(execQ, t)' <=> Queued(execQ, t)
        BY <1>1 DEF Queued
  <2>4. Kept
        BY DEF IInv
  <2>5. \A t \in sent' : Going(t)' \/ resolved'[t] > 0 \/ Stopped(t)' \/ t \in dead'
        BY <2>1, <2>2, <2>4 DEF Kept
  <2>6. tool'.paused => Stopped(tool.msg.task)' \/ Queued(execQ, tool.msg.task)'
    <3>1. tool.paused => Stopped(tool.msg.task) \/ Queued(execQ, tool.msg.task)
          BY <2>4 DEF Kept
    <3>2. PICK t : t = tool.msg.task
          OBVIOUS
    <3>3. tool'.paused => Stopped(t)' \/ Queued(execQ, t)'
          BY <2>1, <2>3, <3>1, <3>2
    <3> QED BY <3>2, <3>3
  <2> QED BY <2>5, <2>6 DEF Kept
<1> QED BY <1>6, <1>7, <1>8, <1>9, <1>10, <1>11 DEF IInv

\* The call at the head of what is left.
LEMMA AtHead ==
    ASSUME IInv, tool.at # "idle", tool.left # << >>
    PROVE  /\ Current \in Calls /\ Current \in Elements(tool.left)
           /\ Current \in Elements(tool.msg.calls) /\ owner[Current] = tool.msg.task
           /\ Tail(tool.left) \in Seq(Calls) /\ Once(Tail(tool.left))
           /\ Current \notin Elements(Tail(tool.left))
           /\ Elements(tool.left) = Elements(Tail(tool.left)) \cup {Current}
<1>1. /\ tool.left \in Seq(Calls) /\ Once(tool.left) /\ BatchSound(tool.msg)
      /\ Elements(tool.left) \subseteq Elements(tool.msg.calls)
      BY ToolHas
<1> QED BY <1>1, TailOnce DEF BatchSound, Current

\* What is in hand after a step within the batch.
LEMMA HandKept ==
    ASSUME tool.at # "idle", ToRun' \subseteq ToRun,
           tool'.msg.calls = tool.msg.calls, tool'.msg.approved = tool.msg.approved
    PROVE  \A c : InHand(c)' => InHand(c)
BY DEF InHand, Executes

LEMMA ToolDeniesSound ==
    ASSUME IInv, ToolDenies
    PROVE  IInv'
<1>1. /\ tool.at = "next" /\ tool.left # << >> /\ tool' = [tool EXCEPT !.left = Tail(@)]
      /\ results' = [results EXCEPT ![Current] = @ + 1]
      /\ UNCHANGED <<queues, brain, request, iteration, asked, approvals, closings, shadow,
                     faults, owner, sent, wantsShadow, resolved, dead, runs, granted, thoughts, splits, broken>>
      BY DEF ToolDenies, AtCall, past
<1>2. tool \in ToolBusy /\ Tail(tool.left) \in Seq(Calls) /\ Current \in Calls
      /\ Elements(Tail(tool.left)) \subseteq Elements(tool.left)
      BY <1>1, ToolHas, AtHead
<1>3. /\ tool' \in ToolBusy /\ tool'.paused = tool.paused /\ tool'.msg = tool.msg
      /\ tool'.left = Tail(tool.left) /\ tool'.at = "next"
      BY <1>1, <1>2 DEF ToolBusy
<1>4. results' \in [Calls -> Nat] /\ runs' \in [Calls -> Nat]
  <2>1. results \in [Calls -> Nat] /\ runs \in [Calls -> Nat]
        BY DEF IInv, Types
  <2> QED BY <1>1, <1>2, <2>1
<1>5. RunsAreAuthorised'
      BY <1>1 DEF IInv, RunsAreAuthorised, Grants
<1>6. \A c : InHand(c)' => InHand(c)
      BY <1>1, <1>2, <1>3, HandKept DEF ToRun
<1>7. \A c \in Calls : runs'[c] + (IF InHand(c)' THEN 1 ELSE 0) <= runs[c] + (IF InHand(c) THEN 1 ELSE 0)
      BY <1>1, <1>4, <1>6
<1> QED BY <1>1, <1>3, <1>4, <1>5, <1>7, ToolMoves

LEMMA ToolSavesSound ==
    ASSUME IInv, ToolSaves
    PROVE  IInv'
<1>1. /\ tool.at = "saving" /\ tool' = [tool EXCEPT !.at = "next", !.left = Tail(@)]
      /\ results' = [results EXCEPT ![Current] = @ + 1]
      /\ UNCHANGED <<queues, brain, request, iteration, asked, approvals, closings, shadow,
                     faults, owner, sent, wantsShadow, resolved, dead, runs, granted, thoughts, splits, broken>>
      BY DEF ToolSaves, past
<1>2. tool.left # << >>
      BY <1>1 DEF IInv, Messages
<1>3. tool \in ToolBusy /\ Tail(tool.left) \in Seq(Calls) /\ Current \in Calls
      BY <1>1, <1>2, ToolHas, AtHead
<1>4. /\ tool' \in ToolBusy /\ tool'.paused = tool.paused /\ tool'.msg = tool.msg
      /\ tool'.left = Tail(tool.left) /\ tool'.at = "next"
      BY <1>1, <1>3 DEF ToolBusy, ToolSteps
<1>5. results' \in [Calls -> Nat] /\ runs' \in [Calls -> Nat]
  <2>1. results \in [Calls -> Nat] /\ runs \in [Calls -> Nat]
        BY DEF IInv, Types
  <2> QED BY <1>1, <1>3, <2>1
<1>6. RunsAreAuthorised'
      BY <1>1 DEF IInv, RunsAreAuthorised, Grants
<1>7. \A c : InHand(c)' => InHand(c)
      BY <1>1, <1>4, HandKept DEF ToRun
<1>8. \A c \in Calls : runs'[c] + (IF InHand(c)' THEN 1 ELSE 0) <= runs[c] + (IF InHand(c) THEN 1 ELSE 0)
      BY <1>1, <1>5, <1>7
<1> QED BY <1>1, <1>2, <1>4, <1>5, <1>6, <1>8, ToolMoves

LEMMA ToolSkipsSound ==
    ASSUME IInv, ToolSkips
    PROVE  IInv'
<1> PICK d : d = IF Current \in Unknown THEN tool.msg.dry ELSE tool.msg.dry \ {Current}
    OBVIOUS
<1>1. /\ tool.at = "next" /\ tool.left # << >>
      /\ UNCHANGED <<queues, brain, request, iteration, asked, approvals, closings, shadow, results,
                     faults, owner, sent, wantsShadow, resolved, dead, runs, granted, thoughts, splits, broken>>
      BY DEF ToolSkips, AtCall, past, db
<1>2. tool \in ToolBusy /\ tool.msg \in ToolMsgs /\ Elements(Tail(tool.left)) \subseteq Elements(tool.left)
      BY <1>1, ToolHas, AtHead
<1> PICK m : m = [tool.msg EXCEPT !.dry = d]
    OBVIOUS
<1>3. /\ m \in ToolMsgs /\ m.task = tool.msg.task /\ m.calls = tool.msg.calls
      /\ m.approved = tool.msg.approved /\ m.attempt = tool.msg.attempt
      BY <1>2 DEF ToolMsgs
<1>4. tool' = [tool EXCEPT !.at = "saving", !.msg = m]
      BY <1>2 DEF ToolSkips, ToolBusy, ToolMsgs
<1>5. /\ tool' \in ToolBusy /\ tool'.paused = tool.paused /\ tool'.msg = m
      /\ tool'.left = tool.left /\ tool'.at = "saving"
      BY <1>2, <1>3, <1>4 DEF ToolBusy, ToolSteps
<1>6. results' \in [Calls -> Nat] /\ runs' \in [Calls -> Nat]
      BY <1>1 DEF IInv, Types
<1>7. RunsAreAuthorised'
      BY <1>1 DEF IInv, RunsAreAuthorised, Grants
<1>8. \A c : InHand(c)' => InHand(c)
      BY <1>1, <1>2, <1>3, <1>5, HandKept DEF ToRun
<1>9. \A c \in Calls : runs'[c] + (IF InHand(c)' THEN 1 ELSE 0) <= runs[c] + (IF InHand(c) THEN 1 ELSE 0)
      BY <1>1, <1>6, <1>8
<1> QED BY <1>1, <1>3, <1>5, <1>6, <1>7, <1>9, ToolMoves

\* A call that runs was to come, and was granted if it had to be.
LEMMA ToolExecutesSound ==
    ASSUME IInv, ToolExecutes
    PROVE  IInv'
<1>1. /\ tool.at = "next" /\ tool.left # << >> /\ Verdict(Current) = "allow"
      /\ tool' = [tool EXCEPT !.at = "saving"] /\ runs' = [runs EXCEPT ![Current] = @ + 1]
      /\ UNCHANGED <<queues, brain, request, iteration, asked, approvals, closings, shadow, results,
                     faults, owner, sent, wantsShadow, resolved, dead, granted, thoughts, splits, broken>>
      BY DEF ToolExecutes, AtCall, db, Current
<1>2. /\ tool \in ToolBusy /\ BatchSound(tool.msg) /\ Current \in Calls
      /\ Current \in Elements(tool.left) /\ Current \in Elements(tool.msg.calls)
      /\ Current \notin Elements(Tail(tool.left))
      /\ Elements(Tail(tool.left)) \subseteq Elements(tool.left)
      BY <1>1, ToolHas, AtHead
<1>3. /\ tool' \in ToolBusy /\ tool'.paused = tool.paused /\ tool'.msg = tool.msg
      /\ tool'.left = tool.left /\ tool'.at = "saving"
      BY <1>1, <1>2 DEF ToolBusy, ToolSteps
<1>4. (Current \in Gated => tool.msg.approved) /\ Current \notin Forbidden
      BY <1>1 DEF Verdict
<1>5. runs \in [Calls -> Nat] /\ results \in [Calls -> Nat]
      BY DEF IInv, Types
<1>6. runs' \in [Calls -> Nat] /\ results' \in [Calls -> Nat]
      BY <1>1, <1>2, <1>5
<1>7. RunsAreAuthorised'
  <2> SUFFICES ASSUME NEW c \in Calls, runs'[c] > 0
               PROVE  /\ c \in Gated => Grants(c)' # {}
                      /\ c \notin Forbidden
      BY DEF RunsAreAuthorised
  <2>1. CASE c = Current
    <3>1. tool.msg.approved => Grants(Current) # {}
          BY <1>2 DEF BatchSound
    <3> QED BY <1>1, <1>4, <2>1, <3>1 DEF Grants
  <2>2. CASE c # Current
    <3>1. runs[c] > 0
          BY <1>1, <1>5, <2>2
    <3> QED BY <1>1, <3>1 DEF IInv, RunsAreAuthorised, Grants
  <2> QED BY <2>1, <2>2
<1>8. \A c : InHand(c)' => InHand(c)
      BY <1>1, <1>2, <1>3, HandKept DEF ToRun
<1>9. InHand(Current) /\ \A c : InHand(c)' => c # Current
  <2>1. InHand(Current)
        BY <1>1, <1>2, <1>4 DEF InHand, Executes, ToRun
  <2>2. \A c : InHand(c)' => c \in Elements(Tail(tool.left))
        BY <1>3 DEF InHand, ToRun
  <2> QED BY <1>2, <2>1, <2>2
<1>10. \A c \in Calls : runs'[c] + (IF InHand(c)' THEN 1 ELSE 0) <= runs[c] + (IF InHand(c) THEN 1 ELSE 0)
  <2> SUFFICES ASSUME NEW c \in Calls
               PROVE  runs'[c] + (IF InHand(c)' THEN 1 ELSE 0) <= runs[c] + (IF InHand(c) THEN 1 ELSE 0)
      OBVIOUS
  <2>1. runs[c] \in Nat
        BY <1>5
  <2>2. CASE c = Current
    <3>1. runs'[c] = runs[c] + 1
          BY <1>1, <1>5, <2>2
    <3>2. InHand(c) /\ ~InHand(c)'
          BY <1>9, <2>2
    <3> QED BY <2>1, <3>1, <3>2
  <2>3. CASE c # Current
    <3>1. runs'[c] = runs[c]
          BY <1>1, <1>5, <2>3
    <3> QED BY <1>8, <2>1, <3>1
  <2> QED BY <2>2, <2>3
<1> QED BY <1>1, <1>3, <1>6, <1>7, <1>10, ToolMoves

\* It is enough for the tool worker that no task loses what goes on with it.
LEMMA KeptElse ==
    ASSUME IInv, dead \subseteq dead', sent' = sent, resolved' = resolved,
           \A t \in sent : Stopped(t) => Stopped(t)',
           \A t \in sent : Going(t) => Going(t)' \/ Stopped(t)' \/ t \in dead',
           (tool'.at # "idle" /\ tool'.paused) =>
               Stopped(tool.msg.task)' \/ Queued(execQ, tool.msg.task)'
    PROVE  Kept'
<1>1. Kept
      BY DEF IInv
<1>2. \A t \in sent : Going(t)' \/ resolved[t] > 0 \/ Stopped(t)' \/ t \in dead'
      BY <1>1 DEF Kept
<1> QED BY <1>2 DEF Kept

LEMMA ToolTakeSound ==
    ASSUME IInv, ToolTake
    PROVE  IInv'
<1> PICK m : m = Head(execQ)
    OBVIOUS
<1>1. /\ tool.at = "idle" /\ execQ # << >> /\ execQ' = Tail(execQ)
      /\ tool' = [at |-> "next", msg |-> m, left |-> m.calls, paused |-> FALSE, shadow |-> shadow]
      /\ UNCHANGED <<taskQ, brain, request, iteration, asked, results, approvals, closings, shadow,
                     faults, owner, sent, wantsShadow, resolved, dead, runs, granted, thoughts, splits, broken>>
      BY DEF ToolTake, db, past
<1>2. execQ \in Seq(ToolMsgs) /\ shadow \in BOOLEAN
      BY DEF IInv, Types
<1>3. /\ m \in ToolMsgs /\ m = execQ[1] /\ execQ' \in Seq(ToolMsgs) /\ 1 \in 1..Len(execQ)
      /\ Len(execQ) \in Nat /\ Len(execQ') \in Nat
      /\ \A i \in 1..Len(execQ') : /\ execQ'[i] = execQ[i + 1] /\ i + 1 \in 1..Len(execQ)
                                   /\ i + 1 # 1
  <2>1. /\ m \in ToolMsgs /\ m = execQ[1] /\ execQ' \in Seq(ToolMsgs) /\ 1 \in 1..Len(execQ)
        /\ \A i \in 1..Len(execQ') : /\ execQ'[i] = execQ[i + 1] /\ i + 1 \in 1..Len(execQ)
                                     /\ i + 1 # 1
        BY ONLY <1>1, <1>2, m = Head(execQ), Taken
  <2> QED BY <1>2, <2>1, LenProperties
<1>4. m.calls \in Seq(Calls)
      BY <1>3 DEF ToolMsgs
<1>5. /\ tool' \in ToolBusy /\ tool'.at = "next" /\ tool'.msg = m /\ tool'.left = m.calls
      /\ ~tool'.paused
      BY <1>1, <1>2, <1>3, <1>4 DEF ToolBusy, ToolSteps
<1>6. Types'
      BY <1>1, <1>3, <1>5 DEF IInv, Types
<1>7. Messages'
  <2>1. Messages
        BY DEF IInv
  <2>2. \A n : BatchSound(n)' <=> BatchSound(n)
        BY <1>1, SoundKept
  <2>3. \A i \in 1..Len(execQ') : BatchSound(execQ[i])'
    <3> SUFFICES ASSUME NEW i \in 1..Len(execQ')
                 PROVE  BatchSound(execQ[i])'
        OBVIOUS
    <3>1. PICK n : n = execQ'[i]
          OBVIOUS
    <3>2. BatchSound(n)
          BY <1>3, <2>1, <3>1 DEF Messages
    <3>3. BatchSound(n)'
          BY <2>2, <3>2
    <3> QED BY <3>1, <3>3 DEF BatchSound
  <2>4. BatchSound(m)
        BY <1>3, <2>1 DEF Messages
  <2>5. BatchSound(tool.msg)'
    <3>1. BatchSound(m)'
          BY <2>2, <2>4
    <3> QED BY <1>5, <3>1 DEF BatchSound
  <2>6. Once(m.calls)
        BY <2>4 DEF BatchSound
  <2> QED BY <1>1, <1>5, <2>1, <2>3, <2>5, <2>6 DEF Messages
<1>8. Asking'
  <2>1. Asking
        BY DEF IInv
  <2>2. \A i \in 1..Len(execQ'), c \in Calls : Unasked(execQ[i], c, 0)'
    <3> SUFFICES ASSUME NEW i \in 1..Len(execQ'), NEW c \in Calls
                 PROVE  Unasked(execQ[i], c, 0)'
        OBVIOUS
    <3>1. Unasked(execQ[i + 1], c, 0)
          BY <1>3, <2>1 DEF Asking
    <3> QED BY <1>1, <1>3, <3>1 DEF Unasked
  <2>3. \A c \in Calls : Unasked(tool.msg, c, IF c \in Elements(tool.left) THEN 0 ELSE 1)'
    <3> SUFFICES ASSUME NEW c \in Calls
                 PROVE  Unasked(tool.msg, c, IF c \in Elements(tool.left) THEN 0 ELSE 1)'
        OBVIOUS
    <3>1. Unasked(m, c, 0)
          BY <1>3, <2>1 DEF Asking
    <3> QED BY <1>1, <1>5, <3>1 DEF Unasked
  <2>4. ASSUME NEW c \in Calls
        PROVE  \A i, j \in 1..Len(execQ) :
                  (/\ c \in Elements(execQ[i].calls) /\ ~execQ[i].approved
                   /\ c \in Elements(execQ[j].calls) /\ ~execQ[j].approved) => i = j
        BY <2>1 DEF Asking
  <2>5. ASSUME NEW c \in Calls
        PROVE  \A i, j \in 1..Len(execQ') :
                  (/\ c \in Elements(execQ'[i].calls) /\ ~execQ'[i].approved
                   /\ c \in Elements(execQ'[j].calls) /\ ~execQ'[j].approved) => i = j
    <3> SUFFICES ASSUME NEW i \in 1..Len(execQ'), NEW j \in 1..Len(execQ'),
                        c \in Elements(execQ'[i].calls), ~execQ'[i].approved,
                        c \in Elements(execQ'[j].calls), ~execQ'[j].approved
                 PROVE  i = j
        OBVIOUS
    <3>1. i + 1 = j + 1
          BY <1>3, <2>4
    <3> QED BY <1>3, <3>1
  <2>6. ASSUME NEW c \in Calls, c \in Elements(tool'.msg.calls), ~tool'.msg.approved
        PROVE  \A i \in 1..Len(execQ') : c \in Elements(execQ'[i].calls) => execQ'[i].approved
        BY <1>3, <1>5, <2>4, <2>6
  <2>7. /\ \A c \in Calls :
            /\ Len(approvals'[c]) <= MaxAttempts
            /\ approvals'[c] # << >> => c \in Gated /\ owner'[c] \in sent'
        /\ \A r \in Requests : request'[r] # << >> =>
               request'[r][2] \in 1..Len(approvals'[request'[r][1]])
        BY <1>1, <2>1 DEF Asking
  <2> QED BY <2>2, <2>3, <2>5, <2>6, <2>7 DEF Asking
<1>9. RunsAreAuthorised'
      BY <1>1 DEF IInv, RunsAreAuthorised, Grants
<1>10. Paid'
  <2> SUFFICES ASSUME NEW c \in Calls
               PROVE  runs'[c] + Cardinality(Holders(execQ, c)') + (IF InHand(c)' THEN 1 ELSE 0)
                          <= faults' + Due(c)'
      BY DEF Paid
  <2>1. Holders(execQ, c)' = Holders(Tail(execQ), c) /\ Due(c)' = Due(c)
        BY <1>1 DEF Holders, Executes, Due, Bought, Redone, Grants
  <2>2. runs[c] + Cardinality(Holders(execQ, c)) <= faults + Due(c)
    <3>1. ~InHand(c)
          BY <1>1 DEF InHand
    <3>2. runs[c] + Cardinality(Holders(execQ, c)) + (IF InHand(c) THEN 1 ELSE 0) <= faults + Due(c)
          BY DEF IInv, Paid
    <3> QED BY <3>1, <3>2, Counts
  <2>3. /\ Cardinality(Holders(Tail(execQ), c)) \in Nat
        /\ Cardinality(Holders(Tail(execQ), c)) <= Cardinality(Holders(execQ, c))
        /\ Executes(m, c) => Cardinality(Holders(Tail(execQ), c)) + 1 <= Cardinality(Holders(execQ, c))
        BY <1>1, <1>2, HoldersTail
  <2>4. InHand(c)' => Executes(m, c)
        BY <1>5 DEF InHand, Executes
  <2> QED BY <1>1, <2>1, <2>2, <2>3, <2>4, Counts
<1>11. Iterations'
       BY <1>1, BrainCounts, IterationsKept
<1>12. Kept'
  <2>1. \A t : Queued(execQ, t) => m.task = t \/ Queued(execQ', t)
    <3> SUFFICES ASSUME NEW t, Queued(execQ, t)
                 PROVE  m.task = t \/ Queued(Tail(execQ), t)
        BY <1>1 DEF Queued
    <3> QED BY <1>1, <1>2, QueuedTail
  <2>2. \A t : (Queued(taskQ, t)' <=> Queued(taskQ, t)) /\ (Queued(execQ, t)' <=> Queued(execQ', t))
        BY <1>1 DEF Queued
  <2>3. \A t : Going(t) => Going(t)'
        BY <1>1, <1>5, <2>1, <2>2 DEF Going
  <2> QED BY <1>1, <1>5, <2>3, StoppedKept, KeptElse
<1> QED BY <1>6, <1>7, <1>8, <1>9, <1>10, <1>11, <1>12 DEF IInv

LEMMA ToolEndsBatchSound ==
    ASSUME IInv, ToolEndsBatch
    PROVE  IInv'
<1> PICK t : t = tool.msg.task
    OBVIOUS
<1> PICK n : n = Think(t, FALSE)
    OBVIOUS
<1>1. /\ tool.at = "next" /\ tool' = IdleTool
      /\ taskQ' = (IF tool.paused THEN taskQ ELSE Append(taskQ, n))
      /\ UNCHANGED <<execQ, brain, request, iteration, asked, results, approvals, closings, shadow,
                     faults, owner, sent, wantsShadow, resolved, dead, runs, granted, thoughts, splits, broken>>
      BY DEF ToolEndsBatch, Retrigger, db, past
<1>2. t \in Tasks /\ t \in sent
      BY <1>1, ToolHas
<1>3. n \in ThinkMsgs /\ n.task = t
      BY <1>2, LoopAssumption DEF Think, ThinkMsgs, Attempts
<1>4. /\ taskQ \in Seq(ThinkMsgs)
      /\ \A i \in 1..Len(taskQ) : taskQ[i].task \in sent
      BY DEF IInv, Types, Messages
<1>5. /\ taskQ' \in Seq(ThinkMsgs) /\ \A i \in 1..Len(taskQ') : taskQ'[i].task \in sent
      /\ \A k : Queued(taskQ, k) => Queued(taskQ', k)
      /\ ~tool.paused => Queued(taskQ', t)
  <2>1. CASE tool.paused
        BY <1>1, <1>4, <2>1
  <2>2. CASE ~tool.paused
    <3>1. taskQ' = Append(taskQ, n) /\ taskQ \in Seq(ThinkMsgs)
          BY <1>1, <1>4, <2>2
    <3>2. n \in ThinkMsgs
          BY <1>3
    <3>3. /\ taskQ' \in Seq(ThinkMsgs) /\ 1..Len(taskQ') = 1..Len(taskQ) \cup {Len(taskQ) + 1}
          /\ \A i \in 1..Len(taskQ) : taskQ'[i] = taskQ[i]
          /\ taskQ'[Len(taskQ) + 1] = n
          BY ONLY <3>1, <3>2, AppendedTo
    <3>4. \A i \in 1..Len(taskQ') : taskQ'[i].task \in sent
          BY <1>2, <1>3, <1>4, <3>3
    <3>5. (\A k : Queued(taskQ, k) => Queued(taskQ', k)) /\ Queued(taskQ', t)
          BY <1>3, <3>3 DEF Queued
    <3> QED BY <2>2, <3>3, <3>4, <3>5
  <2> QED BY <2>1, <2>2
<1>6. tool'.at = "idle"
      BY <1>1 DEF IdleTool
<1>7. Types'
      BY <1>1, <1>5 DEF IInv, Types
<1>8. Messages'
  <2>1. Messages
        BY DEF IInv
  <2>2. \A i \in 1..Len(execQ') : BatchSound(execQ[i])'
        BY <1>1, <2>1, SoundKept DEF Messages
  <2> QED BY <1>1, <1>5, <1>6, <2>1, <2>2 DEF Messages
<1>9. Asking'
  <2>1. Asking
        BY DEF IInv
  <2>2. \A b, c, k : Unasked(b, c, k)' <=> Unasked(b, c, k)
        BY <1>1 DEF Unasked
  <2>3. \A i \in 1..Len(execQ'), c \in Calls : Unasked(execQ[i], c, 0)'
        BY <1>1, <2>1, <2>2 DEF Asking
  <2> QED BY <1>1, <1>6, <2>1, <2>3 DEF Asking
<1>10. RunsAreAuthorised'
       BY <1>1 DEF IInv, RunsAreAuthorised, Grants
<1>11. Paid'
  <2> SUFFICES ASSUME NEW c \in Calls
               PROVE  runs'[c] + Cardinality(Holders(execQ, c)') + (IF InHand(c)' THEN 1 ELSE 0)
                          <= faults' + Due(c)'
      BY DEF Paid
  <2>1. Holders(execQ, c)' = Holders(execQ, c) /\ Due(c)' = Due(c)
        BY <1>1 DEF Holders, Executes, Due, Bought, Redone, Grants
  <2>2. ~InHand(c)'
        BY <1>6 DEF InHand
  <2>3. runs[c] + Cardinality(Holders(execQ, c)) + (IF InHand(c) THEN 1 ELSE 0) <= faults + Due(c)
        BY DEF IInv, Paid
  <2> QED BY <1>1, <2>1, <2>2, <2>3, Counts
<1>12. Iterations'
       BY <1>1, BrainCounts, IterationsKept
<1>13. Kept'
  <2>1. \A k : (Queued(taskQ, k)' <=> Queued(taskQ', k)) /\ (Queued(execQ, k)' <=> Queued(execQ, k))
        BY <1>1 DEF Queued
  <2>2. \A k : Stopped(k)' <=> Stopped(k)
        BY <1>1, StoppedKept
  <2>3. \A k \in sent : Going(k) => Going(k)' \/ Stopped(k)'
        BY <1>1, <1>5, <2>1 DEF Going
  <2> QED BY <1>1, <1>6, <2>2, <2>3, KeptElse
<1> QED BY <1>7, <1>8, <1>9, <1>10, <1>11, <1>12, <1>13 DEF IInv

\* A batch asks for a call once in each attempt: the task waits for its user.
LEMMA ToolAsksApprovalSound ==
    ASSUME IInv, ToolAsksApproval
    PROVE  IInv'
<1> PICK c : c = Current
    OBVIOUS
<1> PICK t : t = tool.msg.task
    OBVIOUS
<1>1. /\ tool.at = "next" /\ tool.left # << >> /\ Verdict(c) = "ask"
      /\ approvals' = [approvals EXCEPT ![c] = Append(@, "NEEDS_APPROVAL")]
      /\ results' = [results EXCEPT ![c] = @ + 1]
      /\ tool' = [tool EXCEPT !.left = Tail(@), !.paused = TRUE]
      /\ UNCHANGED <<taskQ, execQ, brain, request, iteration, asked, closings, shadow,
                     faults, owner, sent, wantsShadow, resolved, dead, runs, granted, thoughts, broken>>
      BY DEF ToolAsksApproval, AtCall, queues, past, Current
<1>2. /\ c \in Calls /\ c \in Elements(tool.left) /\ c \in Elements(tool.msg.calls)
      /\ owner[c] = t /\ Tail(tool.left) \in Seq(Calls) /\ Once(Tail(tool.left))
      /\ c \notin Elements(Tail(tool.left))
      /\ Elements(tool.left) = Elements(Tail(tool.left)) \cup {c}
      BY <1>1, AtHead
<1>3. /\ tool \in ToolBusy /\ tool.msg \in ToolMsgs /\ BatchSound(tool.msg) /\ t \in sent
      /\ Elements(tool.left) \subseteq Elements(tool.msg.calls)
      BY <1>1, ToolHas
<1>4. c \in Gated /\ ~tool.msg.approved
      BY <1>1 DEF Verdict
<1>5. /\ tool' \in ToolBusy /\ tool'.paused /\ tool'.msg = tool.msg
      /\ tool'.left = Tail(tool.left) /\ tool'.at = "next"
      BY <1>1, <1>2, <1>3 DEF ToolBusy
<1>6. approvals \in [Calls -> Seq(Answers)] /\ results \in [Calls -> Nat]
      BY DEF IInv, Types
<1> PICK s : s = Append(approvals[c], "NEEDS_APPROVAL")
    OBVIOUS
<1>7. /\ s \in Seq(Answers) /\ Len(s) = Len(approvals[c]) + 1 /\ Len(approvals[c]) \in Nat
      /\ s[Len(approvals[c]) + 1] = "NEEDS_APPROVAL"
      /\ \A i \in 1..Len(approvals[c]) : s[i] = approvals[c][i]
      /\ 1..Len(s) = 1..Len(approvals[c]) \cup {Len(approvals[c]) + 1}
  <2>1. approvals[c] \in Seq(Answers) /\ "NEEDS_APPROVAL" \in Answers
        BY <1>2, <1>6 DEF Answers
  <2> QED BY <2>1, Appended
<1>8. /\ approvals' \in [Calls -> Seq(Answers)] /\ approvals'[c] = s
      /\ \A k \in Calls : k # c => approvals'[k] = approvals[k]
      BY <1>1, <1>2, <1>6, <1>7
<1>9. results' \in [Calls -> Nat]
      BY <1>1, <1>2, <1>6
<1>10. Types'
  <2>1. splits' \in [Tasks -> Nat]
    <3>1. splits' = splits \/ splits' = [splits EXCEPT ![t] = @ + 1]
          BY DEF ToolAsksApproval
    <3>2. splits \in [Tasks -> Nat]
          BY DEF IInv, Types
    <3> QED BY <3>1, <3>2
  <2> QED BY <1>1, <1>5, <1>8, <1>9, <2>1 DEF IInv, Types
<1>11. Messages'
  <2>1. Messages
        BY DEF IInv
  <2>2. \A n : BatchSound(n)' <=> BatchSound(n)
        BY <1>1, SoundKept
  <2>3. \A i \in 1..Len(execQ') : BatchSound(execQ[i])'
        BY <1>1, <2>1, SoundKept DEF Messages
  <2>4. BatchSound(tool.msg)'
    <3> PICK n : n = tool.msg
        OBVIOUS
    <3>1. BatchSound(n)'
          BY <1>3, <2>2
    <3> QED BY <1>5, <3>1 DEF BatchSound
  <2> QED BY <1>1, <1>2, <1>3, <1>5, <2>1, <2>3, <2>4 DEF Messages
<1>12. Asking
       BY DEF IInv
<1>13. \A i \in 1..Len(execQ) : c \in Elements(execQ[i].calls) => execQ[i].approved
       BY <1>1, <1>2, <1>4, <1>12 DEF Asking
<1>14. Len(approvals[c]) <= tool.msg.attempt /\ tool.msg.attempt \in Attempts
  <2>1. Unasked(tool.msg, c, 0)
        BY <1>1, <1>2, <1>12 DEF Asking
  <2>2. tool.msg.attempt \in Attempts
        BY <1>3 DEF ToolMsgs
  <2>3. tool.msg.attempt \in Nat
        BY <2>2, LoopAssumption DEF Attempts
  <2> QED BY <1>2, <1>4, <1>7, <2>1, <2>2, <2>3 DEF Unasked
<1>15. Len(s) <= MaxAttempts /\ Len(approvals[c]) + 1 \in 1..MaxAttempts
       BY <1>7, <1>14, LoopAssumption DEF Attempts
<1>16. Asking'
  <2>1. \A i \in 1..Len(execQ'), k \in Calls : Unasked(execQ[i], k, 0)'
    <3> SUFFICES ASSUME NEW i \in 1..Len(execQ'), NEW k \in Calls
                 PROVE  Unasked(execQ[i], k, 0)'
        OBVIOUS
    <3>1. Unasked(execQ[i], k, 0)
          BY <1>1, <1>12 DEF Asking
    <3>2. CASE k = c
          BY <1>1, <1>13, <3>2 DEF Unasked
    <3>3. CASE k # c
          BY <1>1, <1>8, <3>1, <3>3 DEF Unasked
    <3> QED BY <3>2, <3>3
  <2>2. \A k \in Calls : Unasked(tool.msg, k, IF k \in Elements(tool.left) THEN 0 ELSE 1)'
    <3> SUFFICES ASSUME NEW k \in Calls
                 PROVE  Unasked(tool.msg, k, IF k \in Elements(tool.left) THEN 0 ELSE 1)'
        OBVIOUS
    <3>1. Unasked(tool.msg, k, IF k \in Elements(tool.left) THEN 0 ELSE 1)
          BY <1>1, <1>12 DEF Asking
    <3>2. CASE k = c
      <4>1. c \notin Elements(tool'.left) /\ Len(approvals'[c]) <= tool.msg.attempt + 1
        <5>1. tool.msg.attempt \in Nat
              BY <1>14, LoopAssumption DEF Attempts
        <5> QED BY <1>2, <1>5, <1>7, <1>8, <1>14, <5>1
      <4> QED BY <1>5, <3>2, <4>1 DEF Unasked
    <3>3. CASE k # c
      <4>1. k \in Elements(tool'.left) <=> k \in Elements(tool.left)
            BY <1>2, <1>5, <3>3
      <4> QED BY <1>5, <1>8, <3>1, <3>3, <4>1 DEF Unasked
    <3> QED BY <3>2, <3>3
  <2>3. \A k \in Calls :
            \A i, j \in 1..Len(execQ') :
               (/\ k \in Elements(execQ'[i].calls) /\ ~execQ'[i].approved
                /\ k \in Elements(execQ'[j].calls) /\ ~execQ'[j].approved) => i = j
        BY <1>1, <1>12 DEF Asking
  <2>4. ASSUME NEW k \in Calls, k \in Elements(tool'.msg.calls), ~tool'.msg.approved
        PROVE  \A i \in 1..Len(execQ') : k \in Elements(execQ'[i].calls) => execQ'[i].approved
        BY <1>1, <1>5, <1>12, <2>4 DEF Asking
  <2>5. ASSUME NEW k \in Calls
        PROVE  /\ Len(approvals'[k]) <= MaxAttempts
               /\ approvals'[k] # << >> => k \in Gated /\ owner'[k] \in sent'
    <3>1. CASE k = c
          BY <1>1, <1>2, <1>3, <1>4, <1>8, <1>15, <3>1
    <3>2. CASE k # c
          BY <1>1, <1>8, <1>12, <3>2 DEF Asking
    <3> QED BY <3>1, <3>2
  <2>6. ASSUME NEW r \in Requests, request'[r] # << >>
        PROVE  request'[r][2] \in 1..Len(approvals'[request'[r][1]])
    <3>1. request[r][2] \in 1..Len(approvals[request[r][1]]) /\ request'[r] = request[r]
          BY <1>1, <1>12, <2>6 DEF Asking
    <3>2. request[r][1] \in Calls
          BY <1>1, <2>6 DEF IInv, Types
    <3>3. CASE request[r][1] = c
          BY <1>7, <1>8, <3>1, <3>3
    <3>4. CASE request[r][1] # c
          BY <1>8, <3>1, <3>2, <3>4
    <3> QED BY <3>3, <3>4
  <2> QED BY <2>1, <2>2, <2>3, <2>4, <2>5, <2>6 DEF Asking
<1>17. RunsAreAuthorised'
       BY <1>1 DEF IInv, RunsAreAuthorised, Grants
<1>18. Paid'
  <2> SUFFICES ASSUME NEW k \in Calls
               PROVE  runs'[k] + Cardinality(Holders(execQ, k)') + (IF InHand(k)' THEN 1 ELSE 0)
                          <= faults' + Due(k)'
      BY DEF Paid
  <2>1. Holders(execQ, k)' = Holders(execQ, k) /\ Due(k)' = Due(k)
        BY <1>1 DEF Holders, Executes, Due, Bought, Redone, Grants
  <2>2. InHand(k)' => InHand(k)
    <3>1. ToRun' \subseteq ToRun
          BY <1>1, <1>2, <1>5 DEF ToRun
    <3> QED BY <1>1, <1>5, <3>1, HandKept
  <2>3. runs[k] + Cardinality(Holders(execQ, k)) + (IF InHand(k) THEN 1 ELSE 0) <= faults + Due(k)
        BY DEF IInv, Paid
  <2> QED BY <1>1, <2>1, <2>2, <2>3, Counts
<1>19. Iterations'
       BY <1>1, BrainCounts, IterationsKept
<1>20. Stopped(t)'
  <2> PICK p : p = <<c, Len(approvals[c]) + 1>>
      OBVIOUS
  <2>1. p \in Calls \X (1..MaxAttempts) /\ p[1] = c /\ p[2] = Len(approvals[c]) + 1
        BY <1>2, <1>15
  <2>2. p[2] \in 1..Len(approvals'[p[1]]) /\ approvals'[p[1]][p[2]] = "NEEDS_APPROVAL"
        BY <1>7, <1>8, <2>1
  <2>3. p \in Requested("NEEDS_APPROVAL")'
        BY <2>1, <2>2 DEF Requested
  <2>4. owner'[p[1]] = t
        BY <1>1, <1>2, <2>1
  <2> QED BY <2>3, <2>4 DEF Stopped
<1>21. Kept'
  <2>1. ASSUME NEW k, Stopped(k)
        PROVE  Stopped(k)'
    <3>1. PICK p \in Requested("NEEDS_APPROVAL") \cup Requested("DENIED") : owner[p[1]] = k
          BY <2>1 DEF Stopped
    <3>2. /\ p \in Calls \X (1..MaxAttempts) /\ p[1] \in Calls /\ p[2] \in 1..Len(approvals[p[1]])
          /\ approvals[p[1]][p[2]] \in {"NEEDS_APPROVAL", "DENIED"}
          BY <3>1 DEF Requested
    <3>3. p[2] \in 1..Len(approvals'[p[1]]) /\ approvals'[p[1]][p[2]] = approvals[p[1]][p[2]]
      <4>1. CASE p[1] = c
            BY <1>7, <1>8, <3>2, <4>1
      <4>2. CASE p[1] # c
            BY <1>8, <3>2, <4>2
      <4> QED BY <4>1, <4>2
    <3>4. p \in Requested("NEEDS_APPROVAL")' \cup Requested("DENIED")'
          BY <3>2, <3>3 DEF Requested
    <3> QED BY <1>1, <3>1, <3>4 DEF Stopped
  <2>2. \A k : Going(k) => Going(k)' \/ k = t
        BY <1>1 DEF Going, Queued
  <2>3. Stopped(tool.msg.task)'
        BY <1>5, <1>20 DEF Stopped
  <2> QED BY <1>1, <1>20, <2>1, <2>2, <2>3, KeptElse
<1> QED BY <1>10, <1>11, <1>16, <1>17, <1>18, <1>19, <1>21 DEF IInv

\* A batch that failed is put back or buried: what failed pays for its next run.
LEMMA BatchReturns ==
    ASSUME IInv, tool.at # "idle", execQ' = PutBack(execQ, tool.msg), dead' = Buried(tool.msg),
           tool' = IdleTool,
           UNCHANGED <<taskQ, brain, request, iteration, asked, results, approvals, closings, shadow,
                       owner, sent, wantsShadow, resolved, runs, granted, thoughts, splits>>,
           faults' \in 0..MaxFaults, faults <= faults', broken' \in [Tasks -> Nat],
           \A c \in Calls :
              /\ Due(c)' \in Nat /\ faults + Due(c) <= faults' + Due(c)'
              /\ c \in Elements(tool.msg.calls) => faults + Due(c) + 1 <= faults' + Due(c)'
    PROVE  IInv'
<1> PICK m : m = tool.msg
    OBVIOUS
<1> PICK n : n = [m EXCEPT !.attempt = @ + 1]
    OBVIOUS
<1>1. /\ tool.at # "idle" /\ tool' = IdleTool
      /\ \/ execQ' = execQ /\ dead' = dead \cup {m.task}
         \/ m.attempt + 1 < MaxAttempts /\ execQ' = Append(execQ, n) /\ dead' = dead
      /\ UNCHANGED <<taskQ, brain, request, iteration, asked, results, approvals, closings, shadow,
                     owner, sent, wantsShadow, resolved, runs, granted, thoughts, splits>>
      /\ faults' \in Nat /\ faults \in Nat /\ faults <= faults'
  <2>1. m.attempt \in Nat
        BY ToolHas, LoopAssumption DEF ToolMsgs, Attempts
  <2>2. \/ execQ' = execQ /\ dead' = dead \cup {m.task}
        \/ m.attempt + 1 < MaxAttempts /\ execQ' = Append(execQ, n) /\ dead' = dead
    <3>1. execQ' = PutBack(execQ, m) /\ dead' = Buried(m) /\ n = [m EXCEPT !.attempt = @ + 1]
          OBVIOUS
    <3>2. MaxAttempts \in Nat
          BY LoopAssumption
    <3>3. m.attempt + 1 >= MaxAttempts \/ m.attempt + 1 < MaxAttempts
          BY ONLY <2>1, <3>2
    <3>4. CASE m.attempt + 1 >= MaxAttempts
          BY ONLY <3>1, <3>4 DEF PutBack, Buried
    <3>5. CASE m.attempt + 1 < MaxAttempts
      <4>1. ~(m.attempt + 1 >= MaxAttempts)
            BY ONLY <2>1, <3>2, <3>5
      <4> QED BY ONLY <3>1, <3>5, <4>1 DEF PutBack, Buried
    <3> QED BY ONLY <3>3, <3>4, <3>5
  <2> QED BY <2>2, BrainCounts
<1>2. /\ m \in ToolMsgs /\ BatchSound(m) /\ m.task \in sent
  <2>1. tool.msg \in ToolMsgs /\ BatchSound(tool.msg) /\ tool.msg.task \in sent
    <3>1. IInv /\ tool.at # "idle"
          OBVIOUS
    <3> QED BY ONLY <3>1, ToolHas
  <2> QED BY ONLY <2>1, m = tool.msg
<1>3. /\ n.task = m.task /\ n.calls = m.calls /\ n.approved = m.approved
      /\ n.attempt = m.attempt + 1
      /\ m.attempt + 1 < MaxAttempts => n \in ToolMsgs
      BY ONLY <1>2, n = [m EXCEPT !.attempt = @ + 1], NextAttempt
<1>4. /\ execQ \in Seq(ToolMsgs) /\ dead \subseteq sent /\ Len(execQ) \in Nat
  <2>1. execQ \in Seq(ToolMsgs) /\ dead \subseteq sent
        BY DEF IInv, Types
  <2> QED BY <2>1, LenProperties
<1>5. tool'.at = "idle"
      BY <1>1 DEF IdleTool
<1>6. /\ execQ' \in Seq(ToolMsgs)
      /\ \/ execQ' = execQ /\ m.task \in dead'
         \/ /\ execQ' = Append(execQ, n) /\ n \in ToolMsgs
            /\ 1..Len(execQ') = 1..Len(execQ) \cup {Len(execQ) + 1}
            /\ \A i \in 1..Len(execQ) : execQ'[i] = execQ[i]
            /\ execQ'[Len(execQ) + 1] = n
      /\ dead \subseteq dead' /\ dead' \subseteq sent
  <2>1. CASE execQ' = execQ /\ dead' = dead \cup {m.task}
        BY <1>2, <1>4, <2>1
  <2>2. CASE m.attempt + 1 < MaxAttempts /\ execQ' = Append(execQ, n) /\ dead' = dead
    <3>1. n \in ToolMsgs /\ execQ \in Seq(ToolMsgs) /\ execQ' = Append(execQ, n)
          BY <1>3, <1>4, <2>2
    <3>2. /\ execQ' \in Seq(ToolMsgs) /\ 1..Len(execQ') = 1..Len(execQ) \cup {Len(execQ) + 1}
          /\ \A i \in 1..Len(execQ) : execQ'[i] = execQ[i]
          /\ execQ'[Len(execQ) + 1] = n
          BY ONLY <3>1, AppendedTo
    <3> QED BY <1>4, <2>2, <3>1, <3>2
  <2> QED BY <1>1, <2>1, <2>2
<1>7. \A i \in 1..Len(execQ') : \/ i \in 1..Len(execQ) /\ execQ'[i] = execQ[i]
                                \/ i = Len(execQ) + 1 /\ execQ'[i] = n
  <2>1. CASE execQ' = execQ
        BY <2>1
  <2>2. CASE /\ 1..Len(execQ') = 1..Len(execQ) \cup {Len(execQ) + 1}
             /\ \A i \in 1..Len(execQ) : execQ'[i] = execQ[i]
             /\ execQ'[Len(execQ) + 1] = n
        BY ONLY <2>2
  <2> QED BY <1>6, <2>1, <2>2
<1>8. Types'
      BY <1>1, <1>6 DEF IInv, Types
<1>9. Messages'
  <2>1. Messages
        BY DEF IInv
  <2>2. BatchSound(n)
    <3>1. BatchSound(m) /\ n.task = m.task /\ n.calls = m.calls /\ n.approved = m.approved
          BY <1>2, <1>3
    <3> QED BY ONLY <3>1 DEF BatchSound
  <2>3. \A i \in 1..Len(execQ') : BatchSound(execQ[i])'
    <3> SUFFICES ASSUME NEW i \in 1..Len(execQ')
                 PROVE  BatchSound(execQ[i])'
        OBVIOUS
    <3>1. PICK k : k = execQ'[i]
          OBVIOUS
    <3>2. BatchSound(k)
          BY <1>7, <2>1, <2>2, <3>1 DEF Messages
    <3>3. BatchSound(k)'
          BY <1>1, <3>2, SoundKept
    <3> QED BY <3>1, <3>3 DEF BatchSound
  <2> QED BY <1>1, <1>5, <2>1, <2>3 DEF Messages
<1>10. Asking'
  <2>1. Asking
        BY DEF IInv
  <2>2. ASSUME NEW c \in Calls
        PROVE  Unasked(n, c, 0)
    <3>1. Unasked(m, c, IF c \in Elements(tool.left) THEN 0 ELSE 1)
          BY <1>1, <2>1 DEF Asking
    <3>2. Len(approvals[c]) \in Nat /\ m.attempt \in Nat
      <4>1. approvals[c] \in Seq(Answers)
            BY DEF IInv, Types
      <4> QED BY <1>2, <4>1, LenProperties, LoopAssumption DEF ToolMsgs, Attempts
    <3> QED BY <1>3, <3>1, <3>2 DEF Unasked
  <2>3. \A i \in 1..Len(execQ'), c \in Calls : Unasked(execQ[i], c, 0)'
    <3> SUFFICES ASSUME NEW i \in 1..Len(execQ'), NEW c \in Calls
                 PROVE  Unasked(execQ[i], c, 0)'
        OBVIOUS
    <3>1. PICK k : k = execQ'[i]
          OBVIOUS
    <3>2. Unasked(k, c, 0)
          BY <1>7, <2>1, <2>2, <3>1 DEF Asking
    <3> QED BY <1>1, <3>1, <3>2 DEF Unasked
  <2>4. ASSUME NEW c \in Calls, NEW i \in 1..Len(execQ'), NEW j \in 1..Len(execQ'),
               c \in Elements(execQ'[i].calls), ~execQ'[i].approved,
               c \in Elements(execQ'[j].calls), ~execQ'[j].approved
        PROVE  i = j
    <3>1. \A k \in 1..Len(execQ) :
             (c \in Elements(n.calls) /\ ~n.approved /\ c \in Elements(execQ[k].calls)) =>
                 execQ[k].approved
          BY <1>1, <1>3, <2>1 DEF Asking
    <3>2. CASE i \in 1..Len(execQ) /\ j \in 1..Len(execQ)
          BY <1>4, <1>7, <2>1, <2>4, <3>2 DEF Asking
    <3>3. CASE ~(i \in 1..Len(execQ) /\ j \in 1..Len(execQ))
          BY <1>7, <2>4, <3>1, <3>3
    <3> QED BY <3>2, <3>3
  <2>5. /\ \A c \in Calls :
            /\ Len(approvals'[c]) <= MaxAttempts
            /\ approvals'[c] # << >> => c \in Gated /\ owner'[c] \in sent'
        /\ \A r \in Requests : request'[r] # << >> =>
               request'[r][2] \in 1..Len(approvals'[request'[r][1]])
        BY <1>1, <2>1 DEF Asking
  <2> QED BY <1>5, <2>3, <2>4, <2>5 DEF Asking
<1>11. RunsAreAuthorised'
       BY <1>1 DEF IInv, RunsAreAuthorised, Grants
<1>12. Paid'
  <2> SUFFICES ASSUME NEW c \in Calls
               PROVE  runs'[c] + Cardinality(Holders(execQ, c)') + (IF InHand(c)' THEN 1 ELSE 0)
                          <= faults' + Due(c)'
      BY DEF Paid
  <2>1. Holders(execQ, c)' = Holders(execQ', c)
        BY <1>1 DEF Holders, Executes
  <2>2. ~InHand(c)'
        BY <1>5 DEF InHand
  <2>3. runs[c] + Cardinality(Holders(execQ, c)) <= faults + Due(c)
    <3>1. runs[c] + Cardinality(Holders(execQ, c)) + (IF InHand(c) THEN 1 ELSE 0) <= faults + Due(c)
          BY DEF IInv, Paid
    <3> QED BY <3>1, Counts
  <2>4. /\ Cardinality(Holders(execQ', c)) \in Nat
        /\ Cardinality(Holders(execQ', c)) <= Cardinality(Holders(execQ, c)) + 1
        /\ ~Executes(n, c) => Cardinality(Holders(execQ', c)) <= Cardinality(Holders(execQ, c))
    <3>1. CASE execQ' = execQ
          BY <3>1, Counts
    <3>2. CASE execQ' = Append(execQ, n) /\ n \in ToolMsgs
      <4>1. /\ Cardinality(Holders(Append(execQ, n), c)) \in Nat
            /\ Cardinality(Holders(Append(execQ, n), c)) <= Cardinality(Holders(execQ, c)) + 1
            /\ ~Executes(n, c) =>
                  Cardinality(Holders(Append(execQ, n), c)) <= Cardinality(Holders(execQ, c))
            BY <1>4, <3>2, HoldersAppend
      <4> QED BY <3>2, <4>1
    <3> QED BY <1>6, <3>1, <3>2
  <2>5. /\ Due(c)' \in Nat /\ faults + Due(c) <= faults' + Due(c)'
        /\ c \in Elements(m.calls) => faults + Due(c) + 1 <= faults' + Due(c)'
        OBVIOUS
  <2>6. runs'[c] = runs[c] /\ runs[c] \in Nat /\ Due(c) \in Nat /\ Cardinality(Holders(execQ, c)) \in Nat
        BY <1>1, Counts
  <2>7. CASE Executes(n, c)
    <3>1. faults + Due(c) + 1 <= faults' + Due(c)'
          BY <1>3, <2>5, <2>7 DEF Executes
    <3> QED BY <1>1, <2>1, <2>2, <2>3, <2>4, <2>5, <2>6, <3>1
  <2>8. CASE ~Executes(n, c)
        BY <1>1, <2>1, <2>2, <2>3, <2>4, <2>5, <2>6, <2>8
  <2> QED BY <2>7, <2>8
<1>13. Iterations'
       BY <1>1, BrainCounts, IterationsKept
<1>14. Kept'
  <2>1. \A k : (Queued(taskQ, k)' <=> Queued(taskQ, k)) /\ (Queued(execQ, k)' <=> Queued(execQ', k))
        BY <1>1 DEF Queued
  <2>2. \A k : Queued(execQ, k) => Queued(execQ', k)
        BY <1>6 DEF Queued
  <2>3. m.task \in dead' \/ Queued(execQ', m.task)
    <3>1. CASE m.task \in dead'
          BY <3>1
    <3>2. CASE 1..Len(execQ') = 1..Len(execQ) \cup {Len(execQ) + 1} /\ execQ'[Len(execQ) + 1] = n
          BY <1>3, <1>4, <3>2 DEF Queued
    <3> QED BY <1>6, <3>1, <3>2
  <2>4. \A k : Going(k) => Going(k)' \/ k \in dead'
        BY <1>1, <2>1, <2>2, <2>3 DEF Going
  <2> QED BY <1>1, <1>5, <1>6, <2>4, StoppedKept, KeptElse
<1> QED BY <1>8, <1>9, <1>10, <1>11, <1>12, <1>13, <1>14 DEF IInv

LEMMA ToolRaisesSound ==
    ASSUME IInv, ToolRaises
    PROVE  IInv'
<1>1. /\ tool.at # "idle" /\ execQ' = PutBack(execQ, tool.msg) /\ dead' = Buried(tool.msg)
      /\ tool' = IdleTool /\ faults < MaxFaults /\ faults' = faults + 1 /\ broken' = broken
      /\ UNCHANGED <<taskQ, brain, request, iteration, asked, results, approvals, closings, shadow,
                     owner, sent, wantsShadow, resolved, runs, granted, thoughts, splits>>
      BY DEF ToolRaises, ToolUsesDb, AtCall, db
<1>2. faults' \in 0..MaxFaults /\ faults <= faults' /\ broken' \in [Tasks -> Nat]
      BY <1>1, BrainCounts DEF IInv, Types
<1>3. ASSUME NEW c \in Calls
      PROVE  Due(c)' \in Nat /\ faults + Due(c) + 1 <= faults' + Due(c)'
  <2>1. Due(c)' = Due(c)
        BY <1>1 DEF Due, Bought, Redone, Grants
  <2> QED BY <1>1, <2>1, Counts
<1>4. \A c \in Calls : Due(c) \in Nat /\ faults \in Nat /\ faults' \in Nat
      BY <1>1, Counts
<1> QED BY <1>1, <1>2, <1>3, <1>4, BatchReturns

\* A batch that broke is one of its task: every call of it may run again.
LEMMA ToolBreaksSound ==
    ASSUME IInv, ToolBreaks
    PROVE  IInv'
<1> PICK t : t = tool.msg.task
    OBVIOUS
<1>1. /\ tool.at # "idle" /\ execQ' = PutBack(execQ, tool.msg) /\ dead' = Buried(tool.msg)
      /\ tool' = IdleTool /\ faults' = faults /\ broken' = [broken EXCEPT ![t] = @ + 1]
      /\ UNCHANGED <<taskQ, brain, request, iteration, asked, results, approvals, closings, shadow,
                     owner, sent, wantsShadow, resolved, runs, granted, thoughts, splits>>
      BY DEF ToolBreaks, AtCall, db
<1>2. /\ broken \in [Tasks -> Nat] /\ owner \in [Calls -> Tasks \cup {NoTask}]
      /\ t \in Tasks /\ BatchSound(tool.msg)
      BY <1>1, ToolHas DEF IInv, Types, BatchSound
<1>3. faults' \in 0..MaxFaults /\ faults <= faults' /\ broken' \in [Tasks -> Nat]
      BY <1>1, <1>2, BrainCounts
<1>4. ASSUME NEW c \in Calls
      PROVE  /\ Due(c)' \in Nat /\ faults + Due(c) <= faults' + Due(c)'
             /\ c \in Elements(tool.msg.calls) => faults + Due(c) + 1 <= faults' + Due(c)'
  <2>1. Bought(c)' = Bought(c) /\ Bought(c) \in Nat /\ faults \in Nat
    <3>1. Cardinality(Grants(c)) \in Nat /\ faults \in Nat
          BY Counts
    <3> QED BY <1>1, <3>1 DEF Bought, Grants
  <2>2. Redone(c) \in Nat /\ Redone(c)' \in Nat /\ Redone(c) <= Redone(c)'
        BY <1>1, <1>2, <1>3, LoopAssumption DEF Redone
  <2>3. c \in Elements(tool.msg.calls) => Redone(c)' = Redone(c) + 1
        BY <1>1, <1>2, <1>3, LoopAssumption DEF Redone, BatchSound
  <2> QED BY <1>1, <2>1, <2>2, <2>3 DEF Due
<1> QED BY <1>1, <1>3, <1>4, BatchReturns

-----------------------------------------------------------------------------
(* The theorems.                                                           *)

LEMMA InitSound == Init => IInv
<1> SUFFICES ASSUME Init PROVE IInv
    OBVIOUS
<1>1. /\ taskQ = << >> /\ execQ = << >> /\ brain = IdleBrain /\ tool = IdleTool
      /\ request = [r \in Requests |-> << >>] /\ iteration = [t \in Tasks |-> 0] /\ asked = {}
      /\ results = [c \in Calls |-> 0] /\ approvals = [c \in Calls |-> << >>]
      /\ closings = [t \in Tasks |-> 0] /\ shadow = FALSE /\ faults = 0
      /\ owner = [c \in Calls |-> NoTask] /\ sent = {} /\ wantsShadow = {}
      /\ resolved = [t \in Tasks |-> 0] /\ dead = {} /\ runs = [c \in Calls |-> 0]
      /\ granted = << >> /\ thoughts = [t \in Tasks |-> 0]
      /\ splits = [t \in Tasks |-> 0] /\ broken = [t \in Tasks |-> 0]
      BY DEF Init
<1>2. Len(<< >>) = 0 /\ 1..0 = {} /\ brain.at = "idle" /\ tool.at = "idle"
      BY <1>1 DEF IdleBrain, IdleTool
<1>3. Types
  <2>1. << >> \in Seq(ThinkMsgs) /\ << >> \in Seq(ToolMsgs) /\ << >> \in Seq(Answers)
        /\ << >> \in Seq(Calls \X (Nat \ {0}))
        BY EmptySeq
  <2>2. /\ taskQ \in Seq(ThinkMsgs) /\ execQ \in Seq(ToolMsgs)
        /\ brain = IdleBrain /\ tool = IdleTool
        /\ granted \in Seq(Calls \X (Nat \ {0}))
        /\ asked \subseteq Calls /\ shadow \in BOOLEAN /\ faults \in 0..MaxFaults
        /\ sent \subseteq Tasks /\ wantsShadow \subseteq sent /\ dead \subseteq sent
    <3>1. 0 \in 0..MaxFaults
          BY LoopAssumption
    <3>2. taskQ \in Seq(ThinkMsgs) /\ execQ \in Seq(ToolMsgs) /\ granted \in Seq(Calls \X (Nat \ {0}))
          BY ONLY <1>1, <2>1, Zenon
    <3> QED BY <1>1, <3>1, <3>2
  <2>3. /\ request \in [Requests -> {<< >>} \cup (Calls \X (Nat \ {0}))]
        /\ approvals \in [Calls -> Seq(Answers)]
        /\ owner \in [Calls -> Tasks \cup {NoTask}]
        BY <1>1, <2>1
  <2>4. /\ iteration \in [Tasks -> Nat] /\ closings \in [Tasks -> Nat]
        /\ resolved \in [Tasks -> Nat] /\ thoughts \in [Tasks -> Nat]
        /\ results \in [Calls -> Nat] /\ runs \in [Calls -> Nat]
        /\ splits \in [Tasks -> Nat] /\ broken \in [Tasks -> Nat]
        BY <1>1
  <2> QED BY <2>2, <2>3, <2>4 DEF Types
<1>4. Messages
      BY <1>1, <1>2 DEF Messages
<1>5. Asking
  <2>1. \A c \in Calls : Len(approvals[c]) = 0 /\ approvals[c] = << >>
        BY <1>1, <1>2
  <2>2. Len(execQ) = 0 /\ 1..Len(execQ) = {}
        BY <1>1, <1>2
  <2>3. \A c \in Calls : Len(approvals[c]) <= MaxAttempts
        BY <2>1, LoopAssumption
  <2>4. \A r \in Requests : request[r] = << >>
        BY <1>1
  <2> QED BY <1>2, <2>1, <2>2, <2>3, <2>4 DEF Asking
<1>6. RunsAreAuthorised
      BY <1>1 DEF RunsAreAuthorised
<1>7. Paid
  <2> SUFFICES ASSUME NEW c \in Calls
               PROVE  runs[c] + Cardinality(Holders(execQ, c)) + (IF InHand(c) THEN 1 ELSE 0)
                          <= faults + Due(c)
      BY DEF Paid
  <2>1. Holders(execQ, c) = {} /\ Grants(c) = {} /\ ~InHand(c)
        BY <1>1, <1>2 DEF Holders, Grants, InHand
  <2>2. Cardinality(Holders(execQ, c)) = 0 /\ Cardinality(Grants(c)) = 0
        BY <2>1, FS_EmptySet
  <2> QED BY <1>1, <2>1, <2>2 DEF Due, Bought, Redone
<1>8. Iterations
      BY <1>1, <1>2, LoopAssumption DEF Iterations
<1>9. Kept
      BY <1>1, <1>2 DEF Kept
<1> QED BY <1>3, <1>4, <1>5, <1>6, <1>7, <1>8, <1>9 DEF IInv

\* A step that changes nothing.
LEMMA StutterSound ==
    ASSUME IInv, UNCHANGED vars
    PROVE  IInv'
<1>1. UNCHANGED <<taskQ, execQ, brain, tool, request, iteration, asked, results, approvals, closings,
                  shadow, faults, owner, sent, wantsShadow, resolved, dead, runs, granted, thoughts, splits, broken>>
      BY DEF vars, queues, db, past
<1>2. Types'
      BY <1>1 DEF IInv, Types
<1>3. Messages'
  <2>1. \A m : BatchSound(m)' <=> BatchSound(m)
        BY <1>1, SoundKept
  <2>2. Messages
        BY DEF IInv
  <2>3. \A i \in 1..Len(execQ') : BatchSound(execQ[i])'
    <3> SUFFICES ASSUME NEW i \in 1..Len(execQ)
                 PROVE  BatchSound(execQ[i])'
        BY <1>1
    <3>1. PICK k : k = execQ[i]
          OBVIOUS
    <3>2. BatchSound(k)'
          BY <2>1, <2>2, <3>1 DEF Messages
    <3> QED BY <1>1, <3>1, <3>2 DEF BatchSound
  <2>4. tool.at # "idle" => BatchSound(tool.msg)'
    <3> SUFFICES ASSUME tool.at # "idle"
                 PROVE  BatchSound(tool.msg)'
        OBVIOUS
    <3>1. PICK k : k = tool.msg
          OBVIOUS
    <3>2. BatchSound(k)'
          BY <2>1, <2>2, <3>1 DEF Messages
    <3> QED BY <1>1, <3>1, <3>2 DEF BatchSound
  <2> QED BY <1>1, <2>2, <2>3, <2>4 DEF Messages
<1>4. Asking'
      BY <1>1, AskingKept
<1>5. RunsAreAuthorised' /\ Paid'
      BY <1>1, BrainCounts, PaidKept
<1>6. Iterations'
      BY <1>1, BrainCounts, IterationsKept
<1>7. Kept'
  <2>1. \A t : Stopped(t)' <=> Stopped(t)
        BY <1>1, StoppedKept
  <2>2. \A t : (Going(t)' <=> Going(t)) /\ (Queued(execQ, t)' <=> Queued(execQ, t))
        BY <1>1 DEF Going, Queued
  <2> QED BY <1>1, <2>1, <2>2 DEF IInv, Kept
<1> QED BY <1>2, <1>3, <1>4, <1>5, <1>6, <1>7 DEF IInv

LEMMA StepSound == IInv /\ [Next]_vars => IInv'
<1> SUFFICES ASSUME IInv, [Next]_vars PROVE IInv'
    OBVIOUS
<1>1. ASSUME NEW t \in Tasks, DispatchTask(t)
      PROVE  IInv'
  <2>1. /\ t \notin sent /\ taskQ' = Append(taskQ, Think(t, TRUE)) /\ sent' = sent \cup {t}
        /\ UNCHANGED <<execQ, brain, tool, request, iteration, asked, results, approvals, closings,
                       faults, owner, resolved, dead, runs, granted, thoughts, splits, broken>>
        /\ shadow' = shadow /\ wantsShadow' = wantsShadow
        BY <1>1 DEF DispatchTask, db
  <2>2. wantsShadow' \subseteq sent' /\ shadow' \in BOOLEAN
        BY <2>1 DEF IInv, Types
  <2> QED BY <2>1, <2>2, SendSound
<1>2. ASSUME NEW t \in Tasks, NEW inShadow \in BOOLEAN, SendMessage(t, inShadow)
      PROVE  IInv'
  <2>1. /\ t \notin sent /\ taskQ' = Append(taskQ, Think(t, TRUE)) /\ sent' = sent \cup {t}
        /\ UNCHANGED <<execQ, brain, tool, request, iteration, asked, results, approvals, closings,
                       faults, owner, resolved, dead, runs, granted, thoughts, splits, broken>>
        /\ shadow' = inShadow /\ wantsShadow' \subseteq wantsShadow \cup {t}
        BY <1>2 DEF SendMessage
  <2>2. wantsShadow' \subseteq sent' /\ shadow' \in BOOLEAN
        BY <2>1 DEF IInv, Types
  <2> QED BY <2>1, <2>2, SendSound
<1>3. ASSUME NEW r \in Requests, ReadApproval(r) \/ Deny(r) \/ Approve(r)
      PROVE  IInv'
      BY <1>3, ReadApprovalSound, DenySound, ApproveSound
<1>4. ASSUME BrainStep
      PROVE  IInv'
      BY <1>4, BrainTakeSound, BrainReadsSound, BrainEndsSound, BrainBadArgumentsSound,
         BrainCallsToolsSound, BrainCommitsSound DEF BrainStep, BrainReplies
<1>5. ASSUME ToolStep
      PROVE  IInv'
      BY <1>5, ToolTakeSound, ToolAsksApprovalSound, ToolDeniesSound, ToolSkipsSound,
         ToolExecutesSound, ToolSavesSound, ToolBreaksSound, ToolEndsBatchSound DEF ToolStep
<1>6. ASSUME Fault
      PROVE  IInv'
      BY <1>6, BrainCommitFailsSound, BrainRaisesSound, ToolRaisesSound DEF Fault
<1> QED BY <1>1, <1>2, <1>3, <1>4, <1>5, <1>6, StutterSound DEF Next

THEOREM Invariance == Spec => []IInv
<1> QED BY InitSound, StepSound, PTL DEF Spec

\* Every run of a tool is accounted for, through approvals, retries and database
\* errors: a gated call ran only if it was granted, a forbidden one never, each
\* as often as it was asked for or granted and once more for a fault, and the
\* model is not consulted past the cap (process_task_event, process_tool_event).
THEOREM RunsAccounted == Spec => []RunsAreAccounted
<1>1. IInv => TypeOK
  <2> SUFFICES ASSUME IInv PROVE TypeOK
      OBVIOUS
  <2>1. \A i \in 1..Len(taskQ) : taskQ[i].task \in sent /\ taskQ[i].attempt < MaxAttempts
    <3> SUFFICES ASSUME NEW i \in 1..Len(taskQ)
                 PROVE  taskQ[i].task \in sent /\ taskQ[i].attempt < MaxAttempts
        OBVIOUS
    <3>1. taskQ[i] \in ThinkMsgs
      <4>1. taskQ \in Seq(ThinkMsgs)
            BY DEF IInv, Types
      <4> QED BY <4>1
    <3>2. taskQ[i].attempt < MaxAttempts
          BY <3>1, LoopAssumption DEF ThinkMsgs, Attempts
    <3> QED BY <3>2 DEF IInv, Messages
  <2>2. \A i \in 1..Len(execQ) : execQ[i].task \in sent /\ execQ[i].attempt < MaxAttempts
    <3> SUFFICES ASSUME NEW i \in 1..Len(execQ)
                 PROVE  execQ[i].task \in sent /\ execQ[i].attempt < MaxAttempts
        OBVIOUS
    <3>1. execQ[i] \in ToolMsgs
      <4>1. execQ \in Seq(ToolMsgs)
            BY DEF IInv, Types
      <4> QED BY <4>1
    <3>2. execQ[i].attempt < MaxAttempts
          BY <3>1, LoopAssumption DEF ToolMsgs, Attempts
    <3> QED BY <3>2 DEF IInv, Messages, BatchSound
  <2>3. /\ brain.at \in {"idle", "reading", "thinking", "closing", "committing"}
        /\ brain.at # "idle" => brain.msg.task \in sent
        BY DEF IInv, Types, Messages, IdleBrain, BrainBusy, BrainSteps
  <2>4. /\ tool.at \in {"idle", "next", "saving"}
        /\ tool.at # "idle" => tool.msg.task \in sent /\ tool.msg.calls \in Seq(Calls)
        BY DEF IInv, Types, Messages, BatchSound, IdleTool, ToolBusy, ToolSteps, ToolMsgs
  <2> QED BY <2>1, <2>2, <2>3, <2>4 DEF IInv, Types, TypeOK, Answers
<1>2. IInv => RunsArePaidFor
  <2> SUFFICES ASSUME IInv, NEW t \in Tasks, NEW c \in CallsOf(t)
               PROVE  runs[c] <= faults + broken[t] + (IF c \in Gated THEN Cardinality(Grants(c)) ELSE 1)
      BY DEF RunsArePaidFor
  <2> c \in Calls /\ owner[c] = t
      BY DEF CallsOf
  <2>1. /\ runs[c] \in Nat /\ faults \in Nat /\ Cardinality(Holders(execQ, c)) \in Nat
        /\ Cardinality(Grants(c)) \in Nat /\ Due(c) \in Nat
        BY Counts
  <2>2. runs[c] + Cardinality(Holders(execQ, c)) + (IF InHand(c) THEN 1 ELSE 0) <= faults + Due(c)
        BY DEF IInv, Paid
  <2>3. runs[c] <= faults + Due(c)
        BY <2>1, <2>2
  <2>4. owner[c] # NoTask
        BY LoopAssumption
  <2>5. broken[t] \in Nat
        BY DEF IInv, Types
  <2>6. Due(c) <= broken[t] + (IF c \in Gated THEN Cardinality(Grants(c)) ELSE 1)
        BY <2>1, <2>4, <2>5 DEF Due, Bought, Redone
  <2> QED BY <2>1, <2>3, <2>5, <2>6
<1>3. IInv => RunsAreAuthorised /\ IterationsBounded
      BY DEF IInv, Iterations, IterationsBounded
<1>4. IInv => RunsAreAccounted
      BY <1>1, <1>2, <1>3 DEF RunsAreAccounted
<1> QED BY <1>4, Invariance, PTL

\* The loop never stops silently: an accepted task is worked on, announced,
\* waits for its user, was denied, or has a message in the dead letter queue
\* (_re_trigger_brain, approve_tool_call, the broker's retries).
THEOREM LoopNeverStops == Spec => []NeverForgotten
<1>1. IInv => NeverForgotten
  <2> SUFFICES ASSUME IInv, NEW t \in sent
               PROVE  Threads(t) > 0 \/ resolved[t] > 0 \/ Undecided(t) # {} \/ Denied(t) # {} \/ t \in dead
      BY DEF NeverForgotten
  <2>1. /\ Len(taskQ) \in Nat /\ Positions(taskQ, t) \subseteq 1..Len(taskQ)
        /\ Len(execQ) \in Nat /\ Positions(execQ, t) \subseteq 1..Len(execQ)
        BY LenProperties DEF IInv, Types, Positions
  <2>2. /\ IsFiniteSet(Positions(taskQ, t)) /\ Cardinality(Positions(taskQ, t)) \in Nat
        /\ IsFiniteSet(Positions(execQ, t)) /\ Cardinality(Positions(execQ, t)) \in Nat
        BY <2>1, Places
  <2>3. CASE Going(t)
    <3>1. Queued(taskQ, t) => Cardinality(Positions(taskQ, t)) > 0
      <4>1. Queued(taskQ, t) => Positions(taskQ, t) # {}
            BY DEF Queued, Positions
      <4> QED BY <2>2, <4>1, FS_EmptySet
    <3>2. Queued(execQ, t) => Cardinality(Positions(execQ, t)) > 0
      <4>1. Queued(execQ, t) => Positions(execQ, t) # {}
            BY DEF Queued, Positions
      <4> QED BY <2>2, <4>1, FS_EmptySet
    <3>3. Threads(t) > 0
          BY <2>2, <2>3, <3>1, <3>2 DEF Threads, Going
    <3> QED BY <3>3
  <2>4. CASE Stopped(t)
    <3>1. PICK p \in Requested("NEEDS_APPROVAL") \cup Requested("DENIED") : owner[p[1]] = t
          BY <2>4 DEF Stopped
    <3>2. p \in Undecided(t) \/ p \in Denied(t)
          BY <3>1 DEF Undecided, Denied
    <3> QED BY <3>2
  <2>5. Going(t) \/ resolved[t] > 0 \/ Stopped(t) \/ t \in dead
        BY DEF IInv, Kept
  <2> QED BY <2>3, <2>4, <2>5
<1> QED BY <1>1, Invariance, PTL

-----------------------------------------------------------------------------
(* ContextManager: the inductive invariant.                                *)

\* The contexts of a session that are in memory.
ContextsOf(s) ==
    (IF cache[s] = None THEN {} ELSE {cache[s]}) \cup
    {loader[l].ctx : l \in {k \in Loaders : loader[k] # None /\ loader[k].session = s}}

\* What stop() is about to write of a session.
Flushing == busy # None /\ busy.op = "flush" /\ busy.session # None
Unflushed(s) == IF Flushing /\ busy.session = s THEN ToSet(busy.missing) ELSE {}

\* The messages of a session with the numbers they have, wherever they are.
Entry(r) == [sequence |-> r.sequence, msg |-> r.msg]
Entries(s) ==
    {Entry(r) : r \in RowsOf(s)}
    \cup (UNION {ToSet(c.recent) : c \in ContextsOf(s)})
    \cup Unflushed(s)

\* The numbers of a list of messages ascend, and no message is in it twice.
Ascends(list) ==
    \A i, j \in 1..Len(list) :
        /\ i < j => list[i].sequence <= list[j].sequence
        /\ list[i].msg = list[j].msg => i = j

\* No session is in the list twice.
Distinctly(q) == \A i, j \in 1..Len(q) : q[i] = q[j] => i = j

Remembered ==
    /\ ConversationTypeOK
    /\ Distinctly(lru)

\* Only a session that exists is written, cached or loaded.
OfKnown ==
    /\ \A r \in rows : r.session \in known
    /\ \A w \in Writers : writer[w] # None => writer[w].row.session \in known
    /\ \A s \in Sessions : ContextsOf(s) # {} => s \in known
    /\ Flushing => busy.session \in known

\* Messages and numbers are below the next message.
Below ==
    /\ \A s \in Sessions : \A c \in Entries(s) : c.msg < fresh /\ c.sequence < fresh
    /\ \A w \in Writers : writer[w] # None => writer[w].row.msg < fresh /\ writer[w].row.sequence < fresh
    /\ \A s \in Sessions : \A c \in ContextsOf(s) : c.last_sequence < fresh

\* A message has the same number wherever it is.
OneNumber == \A s \in Sessions : \A c, d \in Entries(s) : c.msg = d.msg => c.sequence = d.sequence

\* What a transaction writes nobody has seen.
Unseen ==
    \A w \in Writers : writer[w] # None =>
        /\ \A s \in Sessions : \A c \in Entries(s) : c.msg # writer[w].row.msg
        /\ \A v \in Writers : writer[v] # None /\ writer[v].row.msg = writer[w].row.msg => v = w

\* The lists of contexts, and of a flush, which holds no message with a row.
InOrder ==
    /\ \A s \in Sessions : \A c \in ContextsOf(s) :
          /\ Ascends(c.recent)
          /\ \A i \in 1..Len(c.recent) : c.recent[i].sequence <= c.last_sequence
    /\ Flushing => /\ Ascends(busy.missing)
                   /\ \A i \in 1..Len(busy.missing), r \in RowsOf(busy.session) : r.msg # busy.missing[i].msg

\* What was loaded is in the table until it is cleared.
LoadedIsStored ==
    \A l \in Loaders : loader[l] # None /\ ~loader[l].stale =>
        \A i \in 1..Len(loader[l].ctx.recent) :
            loader[l].ctx.recent[i].sequence \in SequencesOf(loader[l].session)

\* After a flush the table has a row for each number of the context.
Covered ==
    Flushing /\ busy.same =>
        /\ cache[busy.session] # None
        /\ \A i \in 1..Len(cache[busy.session].recent) :
              \/ cache[busy.session].recent[i].sequence \in SequencesOf(busy.session)
              \/ \E k \in 1..Len(busy.missing) :
                    busy.missing[k].sequence = cache[busy.session].recent[i].sequence

\* A transaction numbers with 0 what the context manager has not written to.
ZeroAhead == \A w \in Writers :
    writer[w] # None /\ writer[w].row.session \notin managed => writer[w].row.sequence = 0

\* The number of a transaction is not below the maximum it was taken from.
Numbering == \A w \in Writers : writer[w] # None => writer[w].row.sequence >= writer[w].base

ConversationInv ==
    /\ Remembered /\ OfKnown /\ Below /\ OneNumber /\ Unseen /\ InOrder
    /\ LoadedIsStored /\ Covered /\ CleanIsStored /\ AcceptedAccounted /\ WrittenOnce
    /\ ZeroUntilManaged /\ ZeroAhead /\ Numbering /\ OrderedUnlessRaced

-----------------------------------------------------------------------------
(* Maxima, sequences and what Insert does to the table.                    *)

LEMMA LeastOf ==
    ASSUME NEW T, T \subseteq Nat, T # {}
    PROVE  \E x \in T : \A y \in T : x <= y
<1>1. PICK x \in T : \A y \in T : ~(<<y, x>> \in OpToRel(<, Nat))
      BY WFMin, NatLessThanWellFounded
<1>2. \A y \in T : ~(y < x)
      BY <1>1 DEF OpToRel
<1> QED BY <1>2

\* A bounded set of integers has a maximum.
LEMMA MaxIs ==
    ASSUME NEW T, T \subseteq Int, T # {}, NEW b \in Int, \A y \in T : y <= b
    PROVE  Max(T) \in T /\ \A y \in T : y <= Max(T)
<1> DEFINE D == {d \in Nat : b - d \in T}
<1>1. D # {}
  <2>1. PICK y \in T : TRUE
        OBVIOUS
  <2>2. b - y \in Nat /\ b - (b - y) = y
        OBVIOUS
  <2> QED BY <2>1, <2>2
<1>2. PICK d \in D : \A e \in D : d <= e
      BY <1>1, LeastOf
<1>3. ASSUME NEW y \in T
      PROVE  y <= b - d
  <2>1. b - y \in Nat /\ b - (b - y) = y
        OBVIOUS
  <2>2. d <= b - y
        BY <1>2, <2>1
  <2> QED BY <1>2, <2>2
<1>4. b - d \in T /\ \A y \in T : b - d >= y
      BY <1>2, <1>3
<1>5. Max(T) \in T /\ \A y \in T : Max(T) >= y
      BY <1>4 DEF Max
<1>6. Max(T) \in Int /\ \A y \in T : y \in Int
      BY <1>5
<1> QED BY <1>5, <1>6

\* The rows are finitely many.
LEMMA RowsFinite ==
    ASSUME LogTypeOK, NEW R \in SUBSET rows
    PROVE  IsFiniteSet(R) /\ Cardinality(R) \in Nat
<1> DEFINE f == [r \in R |-> r.at]
<1>1. f \in Injection(R, 1..MaxRows)
  <2>1. \A r \in R : r \in Row
        BY DEF LogTypeOK
  <2>2. \A r \in R : r.at \in 1..MaxRows
        BY <2>1 DEF Row
  <2>3. f \in [R -> 1..MaxRows]
        BY <2>2
  <2>4. \A x, y \in R : f[x] = f[y] => x = y
        BY DEF LogTypeOK
  <2> QED BY <2>3, <2>4 DEF Injection, IsInjective
<1>2. IsFiniteSet(1..MaxRows)
      BY FS_Interval, LogAssumption
<1>3. IsFiniteSet(R)
      BY <1>1, <1>2, FS_Injection
<1> QED BY <1>3, FS_CardinalityType

\* The last place of the table.
LEMMA EndIs ==
    ASSUME LogTypeOK
    PROVE  End \in Nat /\ \A r \in rows : r.at <= End
<1> DEFINE T == {r.at : r \in rows} \cup {0}
<1>1. \A r \in rows : r.at \in 1..MaxRows
      BY DEF LogTypeOK, Row
<1>2. T \subseteq Nat /\ T # {} /\ \A y \in T : y <= MaxRows
      BY <1>1, LogAssumption
<1> HIDE DEF T
<1>a. T \subseteq Int /\ MaxRows \in Int
      BY <1>2, LogAssumption
<1>3. Max(T) \in T /\ \A y \in T : y <= Max(T)
      BY <1>2, <1>a, MaxIs
<1>4. End = Max(T)
      BY DEF End, T
<1>5. End \in Nat
      BY <1>2, <1>3, <1>4
<1>6. \A r \in rows : r.at \in T
      BY DEF T
<1> QED BY <1>3, <1>4, <1>5, <1>6

\* The row that a draft becomes.
Became(d, p) == [session |-> d.session, sequence |-> d.sequence, msg |-> d.msg, at |-> p]

LEMMA Inserted ==
    ASSUME LogTypeOK, NEW q \in Seq(Draft), Insert(q)
    PROVE  /\ rows' = rows \cup {Became(q[i], End + i) : i \in 1..Len(q)}
           /\ rows' \subseteq Row
           /\ \A x, y \in rows' : x.at = y.at => x = y
           /\ \A r \in rows : r.at <= End
           /\ End \in Nat
<1>1. End \in Nat /\ \A r \in rows : r.at <= End
      BY EndIs
<1>2. Len(q) \in Nat /\ End + Len(q) <= MaxRows /\ MaxRows \in Nat
      BY LogAssumption DEF Insert
<1>3. rows' = rows \cup {Became(q[i], End + i) : i \in 1..Len(q)}
      BY DEF Insert, Became
<1>4. ASSUME NEW i \in 1..Len(q)
      PROVE  Became(q[i], End + i) \in Row /\ Became(q[i], End + i).at = End + i
  <2>1. q[i] \in Draft /\ End + i \in 1..MaxRows
        BY <1>1, <1>2
  <2> QED BY <2>1 DEF Draft, Row, Became
<1>5. rows' \subseteq Row
      BY <1>3, <1>4 DEF LogTypeOK
<1>6. ASSUME NEW x \in rows', NEW y \in rows', x.at = y.at
      PROVE  x = y
  <2>1. rows \subseteq Row /\ \A u, v \in rows : u.at = v.at => u = v
        BY DEF LogTypeOK
  <2>2. \A u \in rows : u.at \in Nat
        BY <2>1 DEF Row
  <2>3. CASE x \in rows /\ y \in rows
        BY <1>6, <2>1, <2>3
  <2>4. CASE x \in rows /\ y \notin rows
    <3>1. PICK j \in 1..Len(q) : y = Became(q[j], End + j)
          BY <1>3, <2>4
    <3>2. y.at = End + j /\ j \in Nat /\ j > 0
          BY <1>2, <1>4, <3>1
    <3>3. x.at \in Nat /\ x.at <= End
          BY <1>1, <2>2, <2>4
    <3> QED BY <1>1, <1>6, <3>2, <3>3
  <2>5. CASE x \notin rows /\ y \in rows
    <3>1. PICK i \in 1..Len(q) : x = Became(q[i], End + i)
          BY <1>3, <2>5
    <3>2. x.at = End + i /\ i \in Nat /\ i > 0
          BY <1>2, <1>4, <3>1
    <3>3. y.at \in Nat /\ y.at <= End
          BY <1>1, <2>2, <2>5
    <3> QED BY <1>1, <1>6, <3>2, <3>3
  <2>6. CASE x \notin rows /\ y \notin rows
    <3>1. PICK i \in 1..Len(q) : x = Became(q[i], End + i)
          BY <1>3, <2>6
    <3>2. PICK j \in 1..Len(q) : y = Became(q[j], End + j)
          BY <1>3, <2>6
    <3>3. x.at = End + i /\ y.at = End + j
          BY <1>4, <3>1, <3>2
    <3>4. i \in Nat /\ j \in Nat
          BY <1>2
    <3>5. End + i = End + j
          BY <1>6, <3>3, Zenon
    <3>6. i = j
          BY <1>1, <3>4, <3>5
    <3> QED BY <3>1, <3>2, <3>6
  <2> QED BY <2>3, <2>4, <2>5, <2>6
<1> QED BY <1>1, <1>3, <1>5, <1>6

-----------------------------------------------------------------------------
(* What is in memory, and what steps that leave most of it alone keep.     *)

LEMMA MemoryShape ==
    ASSUME Remembered
    PROVE  /\ \A s \in Sessions : cache[s] # None => cache[s] \in Context
           /\ \A l \in Loaders : loader[l] # None =>
                 loader[l] \in [session : Sessions, ctx : Context, stale : BOOLEAN]
           /\ \A s \in Sessions : ContextsOf(s) \subseteq Context
<1>1. \A s \in Sessions : cache[s] # None => cache[s] \in Context
      BY DEF Remembered, ConversationTypeOK
<1>2. \A l \in Loaders : loader[l] # None =>
          loader[l] \in [session : Sessions, ctx : Context, stale : BOOLEAN]
      BY DEF Remembered, ConversationTypeOK
<1>3. ASSUME NEW s \in Sessions, NEW c \in ContextsOf(s)
      PROVE  c \in Context
  <2>1. CASE cache[s] # None /\ c = cache[s]
        BY <1>1, <2>1
  <2>2. CASE \E l \in Loaders : loader[l] # None /\ c = loader[l].ctx
        BY <1>2, <2>2
  <2> QED BY <1>3, <2>1, <2>2 DEF ContextsOf
<1> QED BY <1>1, <1>2, <1>3

LEMMA FlushShape ==
    ASSUME Remembered, Flushing
    PROVE  /\ busy.session \in Sessions
           /\ busy.missing \in Seq(Message)
           /\ busy.base \in Int
           /\ busy.same \in BOOLEAN /\ busy.mutated \in BOOLEAN
           /\ DOMAIN busy = {"op", "session", "missing", "base", "same", "mutated"}
<1>1. busy \in [op : {"flush"}, session : {None} \cup Sessions,
                missing : Seq(Message), base : Int, same : BOOLEAN, mutated : BOOLEAN]
  <2>1. busy # None /\ busy.op = "flush"
        BY DEF Flushing
  <2>2. busy \notin [op : {"clear"}, session : Sessions]
        BY <2>1
  <2> QED BY <2>1, <2>2 DEF Remembered, ConversationTypeOK
<1> QED BY <1>1 DEF Flushing

\* The members of a list.
LEMMA Members ==
    ASSUME NEW S, NEW q \in Seq(S)
    PROVE  /\ ToSet(q) = {q[i] : i \in 1..Len(q)}
           /\ ToSet(q) \subseteq S
           /\ \A i \in 1..Len(q) : q[i] \in ToSet(q) /\ q[i] \in S
           /\ \A x \in ToSet(q) : \E i \in 1..Len(q) : x = q[i]
           /\ Len(q) \in Nat /\ DOMAIN q = 1..Len(q)
BY DEF ToSet

LEMMA EntriesTyped ==
    ASSUME Remembered, NEW s \in Sessions
    PROVE  Entries(s) \subseteq Message
<1>1. \A r \in RowsOf(s) : Entry(r) \in Message
  <2>1. \A r \in RowsOf(s) : r \in Row
        BY DEF Remembered, ConversationTypeOK, LogTypeOK, RowsOf
  <2> QED BY <2>1 DEF Row, Entry, Message
<1>2. ASSUME NEW c \in ContextsOf(s)
      PROVE  ToSet(c.recent) \subseteq Message
  <2>1. c \in Context
        BY MemoryShape
  <2>2. c.recent \in Seq(Message)
        BY <2>1 DEF Context
  <2> QED BY <2>2, Members
<1>3. Unflushed(s) \subseteq Message
  <2>1. CASE Flushing
    <3>1. busy.missing \in Seq(Message)
          BY <2>1, FlushShape
    <3> QED BY <3>1, Members DEF Unflushed
  <2> QED BY <2>1 DEF Unflushed
<1> QED BY <1>1, <1>2, <1>3 DEF Entries

\* Where the entries of a session come from in a step.
LEMMA EntriesFrom ==
    ASSUME NEW s, NEW t, NEW X,
           \A r \in RowsOf(s)' : Entry(r) \in Entries(t) \cup X,
           \A c \in ContextsOf(s)' : ToSet(c.recent) \subseteq Entries(t) \cup X,
           Unflushed(s)' \subseteq Entries(t) \cup X
    PROVE  Entries(s)' \subseteq Entries(t) \cup X
BY DEF Entries, Entry

LEMMA EntryHas ==
    ASSUME NEW r
    PROVE  Entry(r).sequence = r.sequence /\ Entry(r).msg = r.msg
BY DEF Entry

LEMMA IsEntry ==
    ASSUME NEW s
    PROVE  /\ \A r \in RowsOf(s) : Entry(r) \in Entries(s)
           /\ \A c \in ContextsOf(s) : ToSet(c.recent) \subseteq Entries(s)
           /\ Unflushed(s) \subseteq Entries(s)
BY DEF Entries

\* A step that gives at most one new message to the entries, of a number and
\* a name that nothing has yet.
LEMMA EntriesGrow ==
    ASSUME Remembered, Below, OneNumber, Unseen, fresh' \in Nat, fresh <= fresh', NEW X,
           \A s \in Sessions : \E t \in Sessions : Entries(s)' \subseteq Entries(t) \cup X,
           \A m, n \in X : m = n,
           \A m \in X : m \in Message /\ m.msg < fresh' /\ m.sequence < fresh',
           \A m \in X : \A s \in Sessions : \A c \in Entries(s) : c.msg # m.msg,
           \A w \in Writers : writer'[w] # None =>
               writer'[w] = writer[w] /\ \A m \in X : m.msg # writer[w].row.msg,
           \A s \in Sessions : \A c \in ContextsOf(s)' : c.last_sequence < fresh'
    PROVE  Below' /\ OneNumber' /\ Unseen'
<1>1. fresh \in Nat
      BY LogAssumption DEF Remembered, ConversationTypeOK, LogTypeOK
<1>2. \A w \in Writers : writer'[w] # None =>
          writer[w] # None /\ writer[w].row \in Draft
      BY DEF Remembered, ConversationTypeOK, LogTypeOK
<1>3. \A w \in Writers : writer'[w] # None =>
          writer'[w].row = writer[w].row /\ writer[w].row.msg \in Nat /\ writer[w].row.sequence \in Nat
      BY <1>2, LogAssumption DEF Draft, Msgs
<1>4. ASSUME NEW s \in Sessions, NEW c \in Entries(s)'
      PROVE  c \in Message /\ (c \in X \/ \E t \in Sessions : c \in Entries(t))
  <2>1. PICK t \in Sessions : Entries(s)' \subseteq Entries(t) \cup X
        OBVIOUS
  <2>2. Entries(t) \subseteq Message
        BY EntriesTyped
  <2> QED BY <2>1, <2>2
<1>5. \A c \in Message : c.msg \in Nat /\ c.sequence \in Nat
      BY LogAssumption DEF Message, Msgs
<1>6. Below'
  <2>1. ASSUME NEW s \in Sessions, NEW c \in Entries(s)'
        PROVE  c.msg < fresh' /\ c.sequence < fresh'
    <3>1. CASE c \in X
          BY <3>1
    <3>2. CASE \E t \in Sessions : c \in Entries(t)
      <4>1. c.msg < fresh /\ c.sequence < fresh
            BY <3>2 DEF Below
      <4>2. c.msg \in Nat /\ c.sequence \in Nat
            BY <1>4, <1>5
      <4> QED BY <1>1, <4>1, <4>2
    <3> QED BY <1>4, <3>1, <3>2
  <2>2. ASSUME NEW w \in Writers, writer'[w] # None
        PROVE  writer'[w].row.msg < fresh' /\ writer'[w].row.sequence < fresh'
    <3>1. writer[w].row.msg < fresh /\ writer[w].row.sequence < fresh
          BY <1>2, <2>2 DEF Below
    <3> QED BY <1>1, <1>3, <2>2, <3>1
  <2> QED BY <2>1, <2>2 DEF Below
<1>7. OneNumber'
  <2>1. ASSUME NEW s \in Sessions, NEW c \in Entries(s)', NEW d \in Entries(s)', c.msg = d.msg
        PROVE  c.sequence = d.sequence
    <3>1. PICK t \in Sessions : Entries(s)' \subseteq Entries(t) \cup X
          OBVIOUS
    <3>2. c \in Entries(t) \cup X /\ d \in Entries(t) \cup X
          BY <3>1
    <3>3. CASE c \in Entries(t) /\ d \in Entries(t)
          BY <2>1, <3>3 DEF OneNumber
    <3>4. CASE c \in X \/ d \in X
      <4>1. c \in X /\ d \in X
            BY <2>1, <3>2, <3>4
      <4> QED BY <4>1
    <3> QED BY <3>2, <3>3, <3>4
  <2> QED BY <2>1 DEF OneNumber
<1>8. Unseen'
  <2>1. ASSUME NEW w \in Writers, writer'[w] # None, NEW s \in Sessions, NEW c \in Entries(s)'
        PROVE  c.msg # writer'[w].row.msg
    <3>1. CASE c \in X
          BY <1>3, <2>1, <3>1
    <3>2. CASE \E t \in Sessions : c \in Entries(t)
          BY <1>2, <1>3, <2>1, <3>2 DEF Unseen
    <3> QED BY <1>4, <3>1, <3>2
  <2>2. ASSUME NEW w \in Writers, writer'[w] # None, NEW v \in Writers, writer'[v] # None,
               writer'[v].row.msg = writer'[w].row.msg
        PROVE  v = w
        BY <1>2, <1>3, <2>2 DEF Unseen
  <2> QED BY <2>1, <2>2 DEF Unseen
<1> QED BY <1>6, <1>7, <1>8

\* A step that removes no row keeps what was loaded apart from the cache ...
LEMMA LoadedKept ==
    ASSUME LoadedIsStored, rows \subseteq rows',
           \A l \in Loaders : loader'[l] # None => loader'[l] = loader[l]
    PROVE  LoadedIsStored'
<1>1. ASSUME NEW l \in Loaders, loader'[l] # None, ~loader'[l].stale,
             NEW i \in 1..Len(loader'[l].ctx.recent)
      PROVE  \E r \in rows' : /\ r.session = loader'[l].session
                              /\ r.sequence = loader'[l].ctx.recent[i].sequence
  <2>1. loader'[l] = loader[l]
        BY <1>1
  <2>2. loader[l].ctx.recent[i].sequence \in SequencesOf(loader[l].session)
        BY <1>1, <2>1 DEF LoadedIsStored
  <2>3. PICK r \in rows : /\ r.session = loader[l].session
                          /\ r.sequence = loader[l].ctx.recent[i].sequence
        BY <2>2 DEF SequencesOf, RowsOf
  <2> QED BY <2>1, <2>3
<1> QED BY <1>1 DEF LoadedIsStored, SequencesOf, RowsOf

\* ... and what a flush is about to write, if it leaves the list alone ...
SameFlush ==
    Flushing' => /\ Flushing
                 /\ busy'.session = busy.session
                 /\ busy'.missing = busy.missing
                 /\ busy'.same => busy.same

LEMMA CoveredKept ==
    ASSUME Covered, rows \subseteq rows', SameFlush,
           Flushing' /\ busy'.same =>
               /\ cache'[busy.session] # None
               /\ cache'[busy.session].recent = cache[busy.session].recent
    PROVE  Covered'
<1> SUFFICES ASSUME Flushing', busy'.same
             PROVE  /\ cache'[busy'.session] # None
                    /\ \A i \in 1..Len(cache'[busy'.session].recent) :
                          \/ \E r \in rows' : /\ r.session = busy'.session
                                              /\ r.sequence = cache'[busy'.session].recent[i].sequence
                          \/ \E k \in 1..Len(busy'.missing) :
                                busy'.missing[k].sequence = cache'[busy'.session].recent[i].sequence
    BY DEF Covered, SequencesOf, RowsOf
<1>2. /\ Flushing /\ busy.same
      /\ busy'.session = busy.session /\ busy'.missing = busy.missing
      BY DEF SameFlush
<1>3. /\ cache'[busy.session] # None
      /\ cache'[busy.session].recent = cache[busy.session].recent
      OBVIOUS
<1>4. \A i \in 1..Len(cache[busy.session].recent) :
          \/ \E r \in rows : /\ r.session = busy.session
                              /\ r.sequence = cache[busy.session].recent[i].sequence
          \/ \E k \in 1..Len(busy.missing) :
                busy.missing[k].sequence = cache[busy.session].recent[i].sequence
      BY <1>2 DEF Covered, SequencesOf, RowsOf
<1> QED BY <1>2, <1>3, <1>4

\* ... and the clean contexts ...
LEMMA CleanKept ==
    ASSUME CleanIsStored, rows \subseteq rows',
           \A s \in Sessions \ revived' : cache'[s] # None /\ ~cache'[s].is_dirty =>
               \/ /\ s \notin revived /\ cache[s] # None /\ ~cache[s].is_dirty
                  /\ cache'[s].recent = cache[s].recent
               \/ {m.sequence : m \in ToSet(cache'[s].recent)} \subseteq SequencesOf(s)'
    PROVE  CleanIsStored'
<1>1. \A s : SequencesOf(s) \subseteq SequencesOf(s)'
      BY DEF SequencesOf, RowsOf
<1>2. ASSUME NEW s \in Sessions \ revived', cache'[s] # None, ~cache'[s].is_dirty
      PROVE  {m.sequence : m \in ToSet(cache'[s].recent)} \subseteq SequencesOf(s)'
  <2>1. CASE /\ s \notin revived /\ cache[s] # None /\ ~cache[s].is_dirty
             /\ cache'[s].recent = cache[s].recent
    <3>1. {m.sequence : m \in ToSet(cache[s].recent)} \subseteq SequencesOf(s)
          BY <2>1 DEF CleanIsStored
    <3> QED BY <1>1, <2>1, <3>1
  <2> QED BY <1>2, <2>1
<1> QED BY <1>2 DEF CleanIsStored

\* ... and the accepted messages, if what leaves the cache is counted as lost.
LEMMA AcceptedKept ==
    ASSUME AcceptedAccounted, rows \subseteq rows',
           accepted' \ lost' \subseteq accepted \ lost,
           \A s \in Sessions : cache[s] # None =>
               \/ cache'[s] # None /\ HeldMsgs(cache[s]) \subseteq HeldMsgs(cache'[s])
               \/ Dropped(cache[s]) \subseteq lost'
    PROVE  AcceptedAccounted'
<1> SUFFICES ASSUME NEW m \in accepted' \ lost', ~Stored(m)'
             PROVE  \E s \in Sessions : cache'[s] # None /\ m \in HeldMsgs(cache'[s])
    BY DEF AcceptedAccounted, HeldMsgs, MessagesOf
<1>1. m \in accepted \ lost /\ ~Stored(m)
      BY DEF Stored
<1>2. PICK s \in Sessions : cache[s] # None /\ m \in HeldMsgs(cache[s])
      BY <1>1 DEF AcceptedAccounted
<1>3. m \in Dropped(cache[s])
      BY <1>1, <1>2 DEF Dropped
<1> QED BY <1>2, <1>3

\* A context that has the messages of an older one, in the same lists.
OldContexts ==
    \A s \in Sessions : \A c \in ContextsOf(s)' : \E d \in ContextsOf(s) :
        c.recent = d.recent /\ c.last_sequence = d.last_sequence

\* A step of memory only, in which nothing gets a number.
LEMMA NothingNew ==
    ASSUME ConversationInv, Remembered',
           rows' = rows, managed' = managed, raced' = raced,
           known \subseteq known', fresh' \in Nat, fresh <= fresh',
           \A w \in Writers : writer'[w] # None => writer'[w] = writer[w],
           \A s \in Sessions :
               /\ Entries(s)' \subseteq Entries(s)
               /\ \A c \in ContextsOf(s)' : c.last_sequence < fresh'
               /\ ContextsOf(s)' # {} => s \in known,
           Flushing' => busy'.session \in known,
           InOrder', LoadedIsStored', Covered', CleanIsStored', AcceptedAccounted'
    PROVE  ConversationInv'
<1>1. \A s : /\ RowsOf(s)' = RowsOf(s)
             /\ SequencesOf(s)' = SequencesOf(s)
      BY DEF RowsOf, SequencesOf
<1>2. Below' /\ OneNumber' /\ Unseen'
  <2>1. PICK X : X = {}
        OBVIOUS
  <2>2. Remembered /\ Below /\ OneNumber /\ Unseen
        BY DEF ConversationInv
  <2>3. \A s \in Sessions : \E t \in Sessions : Entries(s)' \subseteq Entries(t) \cup X
        OBVIOUS
  <2>4. /\ \A m, n \in X : m = n
        /\ \A m \in X : m \in Message /\ m.msg < fresh' /\ m.sequence < fresh'
        /\ \A m \in X : \A s \in Sessions : \A c \in Entries(s) : c.msg # m.msg
        /\ \A w \in Writers : writer'[w] # None =>
               writer'[w] = writer[w] /\ \A m \in X : m.msg # writer[w].row.msg
        BY <2>1
  <2>5. \A s \in Sessions : \A c \in ContextsOf(s)' : c.last_sequence < fresh'
        OBVIOUS
  <2> QED BY <2>2, <2>3, <2>4, <2>5, EntriesGrow
<1>3. OfKnown'
      BY DEF ConversationInv, OfKnown
<1>4. /\ WrittenOnce' /\ ZeroUntilManaged' /\ OrderedUnlessRaced'
  <2>1. WrittenOnce /\ ZeroUntilManaged /\ OrderedUnlessRaced /\ OfKnown
        BY DEF ConversationInv
  <2>2. WrittenOnce'
        BY <2>1 DEF WrittenOnce
  <2>3. ASSUME NEW s \in known' \ managed'
        PROVE  SequencesOf(s)' \subseteq {0}
    <3>1. CASE s \in known
          BY <1>1, <2>1, <3>1 DEF ZeroUntilManaged
    <3>2. CASE s \notin known
          BY <1>1, <2>1, <3>2 DEF OfKnown, SequencesOf, RowsOf
    <3> QED BY <3>1, <3>2
  <2>4. ASSUME NEW s \in known' \ raced', NEW x \in RowsOf(s)', NEW y \in RowsOf(s)', x.at < y.at
        PROVE  x.sequence <= y.sequence
    <3>1. s \in known
          BY <1>1, <2>1 DEF OfKnown, RowsOf
    <3> QED BY <1>1, <2>1, <2>4, <3>1 DEF OrderedUnlessRaced
  <2> QED BY <2>2, <2>3, <2>4 DEF ZeroUntilManaged, OrderedUnlessRaced
<1>5. ZeroAhead' /\ Numbering'
      BY DEF ConversationInv, ZeroAhead, Numbering
<1> QED BY <1>2, <1>3, <1>4, <1>5 DEF ConversationInv

\* In particular one that changes no list of messages.
LEMMA Quiet ==
    ASSUME ConversationInv, Remembered', OldContexts, SameFlush,
           rows' = rows, managed' = managed, raced' = raced,
           known \subseteq known', fresh' \in Nat, fresh <= fresh',
           \A w \in Writers : writer'[w] # None => writer'[w] = writer[w],
           \A l \in Loaders : loader'[l] # None => loader'[l] = loader[l],
           Covered', CleanIsStored', AcceptedAccounted'
    PROVE  ConversationInv'
<1>1. \A s : RowsOf(s)' = RowsOf(s)
      BY DEF RowsOf
<1>2. \A s \in Sessions : Unflushed(s)' \subseteq Unflushed(s)
      BY DEF Unflushed, SameFlush
<1>3. ASSUME NEW s \in Sessions
      PROVE  Entries(s)' \subseteq Entries(s)
  <2>1. PICK X : X = {}
        OBVIOUS
  <2>2. \A r \in RowsOf(s)' : Entry(r) \in Entries(s) \cup X
        BY <1>1, IsEntry
  <2>3. ASSUME NEW c \in ContextsOf(s)'
        PROVE  ToSet(c.recent) \subseteq Entries(s) \cup X
    <3>1. PICK d \in ContextsOf(s) : c.recent = d.recent
          BY DEF OldContexts
    <3> QED BY <3>1, IsEntry
  <2>4. Unflushed(s)' \subseteq Entries(s) \cup X
        BY <1>2, IsEntry
  <2>5. Entries(s)' \subseteq Entries(s) \cup X
        BY <2>2, <2>3, <2>4, EntriesFrom
  <2> QED BY <2>1, <2>5
<1>4. ASSUME NEW s \in Sessions, NEW c \in ContextsOf(s)'
      PROVE  c.last_sequence < fresh'
  <2>1. PICK d \in ContextsOf(s) : c.last_sequence = d.last_sequence
        BY DEF OldContexts
  <2>2. d.last_sequence < fresh
        BY DEF ConversationInv, Below
  <2>3. d.last_sequence \in Nat /\ fresh \in Nat
        BY MemoryShape, LogAssumption DEF ConversationInv, Context, Remembered,
           ConversationTypeOK, LogTypeOK
  <2> QED BY <2>1, <2>2, <2>3
<1>5. \A s \in Sessions : ContextsOf(s)' # {} => s \in known
      BY DEF ConversationInv, OfKnown, OldContexts
<1>6. Flushing' => busy'.session \in known
      BY DEF ConversationInv, OfKnown, SameFlush
<1>7. InOrder'
  <2>1. InOrder
        BY DEF ConversationInv
  <2>2. ASSUME NEW s \in Sessions, NEW c \in ContextsOf(s)'
        PROVE  /\ Ascends(c.recent)
               /\ \A i \in 1..Len(c.recent) : c.recent[i].sequence <= c.last_sequence
    <3>1. PICK d \in ContextsOf(s) : c.recent = d.recent /\ c.last_sequence = d.last_sequence
          BY DEF OldContexts
    <3> QED BY <2>1, <3>1 DEF InOrder
  <2>3. Flushing => /\ Ascends(busy.missing)
                    /\ \A i \in 1..Len(busy.missing), r \in rows :
                            r.session = busy.session => r.msg # busy.missing[i].msg
        BY <2>1 DEF InOrder, RowsOf
  <2>4. Flushing' => /\ Ascends(busy'.missing)
                     /\ \A i \in 1..Len(busy'.missing), r \in rows' :
                            r.session = busy'.session => r.msg # busy'.missing[i].msg
        BY <2>3 DEF SameFlush
  <2> QED BY <2>2, <2>4 DEF InOrder, RowsOf
<1>8. LoadedIsStored'
      BY LoadedKept DEF ConversationInv
<1> QED BY <1>3, <1>4, <1>5, <1>6, <1>7, <1>8, NothingNew

-----------------------------------------------------------------------------
(* The order of use of the cache.                                          *)

\* A sequence without its first e: what was before e stays in its place, what
\* was after it moves up by one.
LEMMA Removed ==
    ASSUME NEW S, NEW s \in Seq(S), NEW e, \E i \in 1..Len(s) : s[i] = e
    PROVE  \E k \in 1..Len(s) :
              /\ s[k] = e
              /\ RemoveFirst(s, e) \in Seq(S) /\ Len(RemoveFirst(s, e)) = Len(s) - 1
              /\ \A i \in 1..Len(s) - 1 :
                    RemoveFirst(s, e)[i] = IF i < k THEN s[i] ELSE s[i + 1]
<1> DEFINE I == {i \in 1..Len(s) : s[i] = e}
           m == Min(I)
           a == SubSeq(s, 1, m - 1)
           b == SubSeq(s, m + 1, Len(s))
<1>1. I # {} /\ I \subseteq Nat
      OBVIOUS
<1>2. m \in I
  <2>1. \E x \in I : \A y \in I : x <= y
        BY <1>1, LeastOf
  <2> QED BY <2>1 DEF Min
<1>3. RemoveFirst(s, e) = a \o b
      BY <1>1 DEF RemoveFirst, RemoveAt, SelectInSeq
<1>4. m \in 1..Len(s) /\ s[m] = e /\ Len(s) \in Nat /\ \A j \in 1..Len(s) : s[j] \in S
      BY <1>2
<1> HIDE DEF m, I
<1>5. /\ a \in Seq(S) /\ Len(a) = m - 1
      /\ \A i \in 1..m - 1 : a[i] = s[i]
  <2>1. /\ a \in Seq(S) /\ Len(a) = IF 1 <= m - 1 THEN m - 1 - 1 + 1 ELSE 0
        /\ \A i \in 1..(m - 1) - 1 + 1 : a[i] = s[1 + i - 1]
        BY <1>4, SubSeqProperties
  <2> QED BY <1>4, <2>1
<1>6. /\ b \in Seq(S) /\ Len(b) = Len(s) - m
      /\ \A i \in 1..Len(s) - m : b[i] = s[m + i]
  <2>1. /\ b \in Seq(S) /\ Len(b) = IF m + 1 <= Len(s) THEN Len(s) - (m + 1) + 1 ELSE 0
        /\ \A i \in 1..Len(s) - (m + 1) + 1 : b[i] = s[(m + 1) + i - 1]
        BY <1>4, SubSeqProperties
  <2> QED BY <1>4, <2>1
<1> HIDE DEF a, b
<1>7. /\ a \o b \in Seq(S) /\ Len(a \o b) = Len(s) - 1
      /\ \A i \in 1..Len(s) - 1 : (a \o b)[i] = IF i < m THEN s[i] ELSE s[i + 1]
  <2>1. /\ a \o b \in Seq(S) /\ Len(a \o b) = Len(a) + Len(b)
        /\ \A i \in 1..Len(a) + Len(b) : (a \o b)[i] = IF i <= Len(a) THEN a[i] ELSE b[i - Len(a)]
        BY <1>5, <1>6, ConcatProperties
  <2>2. Len(a \o b) = Len(s) - 1
        BY <1>4, <1>5, <1>6, <2>1
  <2>3. ASSUME NEW i \in 1..Len(s) - 1
        PROVE  (a \o b)[i] = IF i < m THEN s[i] ELSE s[i + 1]
    <3>1. CASE i < m
          BY <1>4, <1>5, <1>6, <2>1, <3>1
    <3>2. CASE ~(i < m)
      <4>1. /\ (a \o b)[i] = b[i - (m - 1)]
            /\ i - (m - 1) \in 1..Len(s) - m /\ m + (i - (m - 1)) = i + 1
            BY <1>4, <1>5, <1>6, <2>1, <3>2
      <4> QED BY <1>6, <3>2, <4>1
    <3> QED BY <3>1, <3>2
  <2> QED BY <2>1, <2>2, <2>3
<1> QED BY <1>3, <1>4, <1>7

\* Without a session that is in it once, the order has every other one once.
LEMMA Forgotten ==
    ASSUME NEW S, NEW q \in Seq(S), Distinctly(q), NEW s
    PROVE  /\ RemoveFirst(q, s) \in Seq(S)
           /\ Distinctly(RemoveFirst(q, s))
           /\ ToSet(RemoveFirst(q, s)) = ToSet(q) \ {s}
           /\ Len(RemoveFirst(q, s)) = IF s \in ToSet(q) THEN Len(q) - 1 ELSE Len(q)
<1>1. CASE s \notin ToSet(q)
  <2>1. RemoveFirst(q, s) = q
        BY <1>1, Members DEF RemoveFirst
  <2> QED BY <1>1, <2>1
<1>2. CASE s \in ToSet(q)
  <2> DEFINE R == RemoveFirst(q, s)
  <2>1. \E i \in 1..Len(q) : q[i] = s
        BY <1>2, Members
  <2>2. PICK k \in 1..Len(q) :
           /\ q[k] = s /\ R \in Seq(S) /\ Len(R) = Len(q) - 1
           /\ \A i \in 1..Len(q) - 1 : R[i] = IF i < k THEN q[i] ELSE q[i + 1]
        BY <2>1, Removed
  <2> HIDE DEF R
  <2>3. /\ Len(q) \in Nat
        /\ \A i, j \in 1..Len(q) : q[i] = q[j] => i = j
        BY DEF Distinctly
  <2>4. Distinctly(R)
    <3>1. ASSUME NEW i \in 1..Len(q) - 1, NEW j \in 1..Len(q) - 1, R[i] = R[j]
          PROVE  i = j
      <4>1. CASE i < k /\ j < k
            BY <2>2, <2>3, <3>1, <4>1
      <4>2. CASE i < k /\ ~(j < k)
            BY <2>2, <2>3, <3>1, <4>2
      <4>3. CASE ~(i < k) /\ j < k
            BY <2>2, <2>3, <3>1, <4>3
      <4>4. CASE ~(i < k) /\ ~(j < k)
        <5>1. q[i + 1] = q[j + 1] /\ i + 1 \in 1..Len(q) /\ j + 1 \in 1..Len(q)
              BY <2>2, <2>3, <3>1, <4>4
        <5>2. i + 1 = j + 1
              BY <2>3, <5>1
        <5> QED BY <5>2
      <4> QED BY <4>1, <4>2, <4>3, <4>4
    <3> QED BY <2>2, <3>1 DEF Distinctly
  <2>5. ToSet(R) = ToSet(q) \ {s}
    <3>1. ToSet(R) = {R[i] : i \in 1..Len(q) - 1} /\ ToSet(q) = {q[i] : i \in 1..Len(q)}
          BY <2>2, Members
    <3>2. ASSUME NEW i \in 1..Len(q) - 1
          PROVE  R[i] \in ToSet(q) /\ R[i] # s
      <4>1. CASE i < k
            BY <2>2, <2>3, <3>1, <4>1
      <4>2. CASE ~(i < k)
        <5>1. R[i] = q[i + 1] /\ i + 1 \in 1..Len(q) /\ i + 1 # k
              BY <2>2, <2>3, <4>2
        <5> QED BY <2>2, <2>3, <3>1, <5>1
      <4> QED BY <4>1, <4>2
    <3>3. ASSUME NEW j \in 1..Len(q), q[j] # s
          PROVE  \E i \in 1..Len(q) - 1 : R[i] = q[j]
      <4>1. CASE j < k
            BY <2>2, <2>3, <4>1
      <4>2. CASE ~(j < k)
        <5>1. j - 1 \in 1..Len(q) - 1 /\ ~(j - 1 < k) /\ (j - 1) + 1 = j
              BY <2>2, <2>3, <3>3, <4>2
        <5>2. R[j - 1] = q[j]
              BY <2>2, <5>1
        <5> QED BY <5>1, <5>2
      <4> QED BY <4>1, <4>2
    <3>4. ToSet(R) \subseteq ToSet(q) \ {s}
          BY <3>1, <3>2
    <3>5. ToSet(q) \ {s} \subseteq ToSet(R)
          BY <3>1, <3>3
    <3> QED BY <3>4, <3>5
  <2> QED BY <1>2, <2>2, <2>4, <2>5 DEF R
<1> QED BY <1>1, <1>2

\* A session that is not in the order becomes the last.
LEMMA AddedLast ==
    ASSUME NEW S, NEW q \in Seq(S), Distinctly(q), NEW s \in S, s \notin ToSet(q)
    PROVE  /\ Append(q, s) \in Seq(S) /\ Len(Append(q, s)) = Len(q) + 1
           /\ Distinctly(Append(q, s))
           /\ ToSet(Append(q, s)) = ToSet(q) \cup {s}
<1>1. /\ Append(q, s) \in Seq(S) /\ Len(Append(q, s)) = Len(q) + 1 /\ Len(q) \in Nat
      /\ \A i \in 1..Len(q) : Append(q, s)[i] = q[i]
      /\ Append(q, s)[Len(q) + 1] = s
      OBVIOUS
<1> DEFINE A == Append(q, s)
<1>2. /\ A \in Seq(S) /\ Len(A) = Len(q) + 1 /\ Len(q) \in Nat
      /\ \A i \in 1..Len(q) : A[i] = q[i]
      /\ A[Len(q) + 1] = s
      BY <1>1
<1> HIDE DEF A
<1>3. \A i \in 1..Len(q) : q[i] # s
      BY Members
<1>4. \A i \in 1..Len(A) : i \in 1..Len(q) \/ i = Len(q) + 1
      BY <1>2
<1>5. Distinctly(A)
      BY <1>2, <1>3, <1>4 DEF Distinctly
<1>6. ToSet(A) = ToSet(q) \cup {s}
  <2>1. ToSet(A) = {A[i] : i \in 1..Len(A)} /\ ToSet(q) = {q[i] : i \in 1..Len(q)}
        BY <1>2, Members
  <2>2. \A i \in 1..Len(A) : A[i] \in ToSet(q) \cup {s}
        BY <1>2, <1>4, <2>1
  <2>3. \A i \in 1..Len(q) : q[i] \in ToSet(A)
    <3>1. \A i \in 1..Len(q) : i \in 1..Len(A)
          BY <1>2
    <3> QED BY <1>2, <2>1, <3>1
  <2>4. s \in ToSet(A)
    <3>1. Len(q) + 1 \in 1..Len(A)
          BY <1>2
    <3> QED BY <1>2, <2>1, <3>1
  <2> QED BY <2>1, <2>2, <2>3, <2>4
<1> QED BY <1>2, <1>5, <1>6 DEF A

LEMMA Touched ==
    ASSUME lru \in Seq(Sessions), Distinctly(lru), NEW s \in Sessions
    PROVE  /\ Touch(s) \in Seq(Sessions)
           /\ Distinctly(Touch(s))
           /\ ToSet(Touch(s)) = ToSet(lru) \cup {s}
           /\ Len(Touch(s)) = IF s \in ToSet(lru) THEN Len(lru) ELSE Len(lru) + 1
<1> DEFINE R == RemoveFirst(lru, s)
<1>1. /\ R \in Seq(Sessions) /\ Distinctly(R) /\ ToSet(R) = ToSet(lru) \ {s}
      /\ Len(R) = IF s \in ToSet(lru) THEN Len(lru) - 1 ELSE Len(lru)
      BY Forgotten
<1>2. Touch(s) = Append(R, s)
      BY DEF Touch
<1> HIDE DEF R
<1>3. /\ Append(R, s) \in Seq(Sessions) /\ Len(Append(R, s)) = Len(R) + 1
      /\ Distinctly(Append(R, s))
      /\ ToSet(Append(R, s)) = ToSet(R) \cup {s}
      BY <1>1, AddedLast
<1>4. Len(lru) \in Nat
      OBVIOUS
<1> QED BY <1>1, <1>2, <1>3, <1>4

-----------------------------------------------------------------------------
(* Steps that change no list of messages.                                  *)

LEMMA StillMemory ==
    ASSUME ConversationInv, UNCHANGED <<rows, cache, loader, busy>>
    PROVE  /\ OldContexts /\ SameFlush /\ Covered'
           /\ \A l \in Loaders : loader'[l] # None => loader'[l] = loader[l]
<1>1. Flushing' = Flushing
      BY DEF Flushing
<1>2. SameFlush
      BY <1>1 DEF SameFlush
<1>3. OldContexts
      BY DEF OldContexts, ContextsOf
<1>4. Covered'
  <2>1. Covered /\ rows \subseteq rows'
        BY DEF ConversationInv
  <2>2. Flushing' /\ busy'.same =>
               /\ cache'[busy.session] # None
               /\ cache'[busy.session].recent = cache[busy.session].recent
        BY <1>1, <2>1 DEF Covered
  <2> QED BY <1>2, <2>1, <2>2, CoveredKept
<1> QED BY <1>2, <1>3, <1>4

\* The cache and what is counted as lost are left alone.
LEMMA StillAccepted ==
    ASSUME ConversationInv, UNCHANGED <<rows, cache>>, accepted' \ lost' \subseteq accepted \ lost
    PROVE  AcceptedAccounted'
<1>1. AcceptedAccounted /\ rows \subseteq rows'
      BY DEF ConversationInv
<1>2. \A s \in Sessions : cache[s] # None =>
          cache'[s] # None /\ HeldMsgs(cache[s]) \subseteq HeldMsgs(cache'[s])
      OBVIOUS
<1> QED BY <1>1, <1>2, AcceptedKept

LEMMA StillClean ==
    ASSUME ConversationInv, UNCHANGED <<rows, cache, revived>>
    PROVE  CleanIsStored'
<1>1. CleanIsStored
      BY DEF ConversationInv
<1>2. ASSUME NEW s \in Sessions \ revived', cache'[s] # None, ~cache'[s].is_dirty
      PROVE  {m.sequence : m \in ToSet(cache'[s].recent)} \subseteq SequencesOf(s)'
  <2>1. {m.sequence : m \in ToSet(cache[s].recent)} \subseteq SequencesOf(s)
        BY <1>1, <1>2 DEF CleanIsStored
  <2> QED BY <2>1 DEF SequencesOf, RowsOf
<1> QED BY <1>2 DEF CleanIsStored

\* Only the log changes, and no row of it.
LEMMA LogOnly ==
    ASSUME ConversationInv, LogTypeOK', UNCHANGED manager, UNCHANGED <<rows, fresh, managed, raced>>,
           known \subseteq known',
           \A w \in Writers : writer'[w] # None => writer'[w] = writer[w]
    PROVE  ConversationInv'
<1>1. UNCHANGED <<cache, lru, dirty, loader, busy, accepted, lost, revived>>
      BY DEF manager
<1>2. Remembered'
  <2>1. Remembered
        BY DEF ConversationInv
  <2> QED BY <1>1, <2>1 DEF Remembered, ConversationTypeOK, Distinctly
<1>3. fresh' \in Nat /\ fresh <= fresh'
      BY LogAssumption DEF LogTypeOK
<1>4. OldContexts /\ SameFlush /\ Covered'
      BY <1>1, StillMemory
<1>5. AcceptedAccounted' /\ CleanIsStored'
      BY <1>1, StillAccepted, StillClean
<1>6. \A l \in Loaders : loader'[l] # None => loader'[l] = loader[l]
      BY <1>1
<1>7. rows' = rows /\ managed' = managed /\ raced' = raced
      OBVIOUS
<1> QED BY <1>2, <1>3, <1>4, <1>5, <1>6, <1>7, Quiet

LEMMA CreateSessionSound ==
    ASSUME ConversationInv, NEW s \in Sessions, CreateSession(s), UNCHANGED manager
    PROVE  ConversationInv'
<1>1. LogTypeOK
      BY DEF ConversationInv, Remembered, ConversationTypeOK
<1>2. LogTypeOK'
      BY <1>1 DEF LogTypeOK, CreateSession
<1>3. /\ UNCHANGED <<rows, fresh, managed, raced>> /\ known \subseteq known'
      /\ writer' = writer
      BY DEF CreateSession
<1> QED BY <1>2, <1>3, LogOnly

LEMMA RemoveWorkspaceSound ==
    ASSUME ConversationInv, NEW s \in Sessions, RemoveWorkspace(s), UNCHANGED manager
    PROVE  ConversationInv'
<1>1. LogTypeOK
      BY DEF ConversationInv, Remembered, ConversationTypeOK
<1>2. LogTypeOK'
      BY <1>1 DEF LogTypeOK, RemoveWorkspace
<1>3. /\ UNCHANGED <<rows, fresh, managed, raced>> /\ known \subseteq known'
      /\ writer' = writer
      BY DEF RemoveWorkspace
<1> QED BY <1>2, <1>3, LogOnly

LEMMA PersistRollbackSound ==
    ASSUME ConversationInv, NEW w \in Writers, PersistRollback(w), UNCHANGED manager
    PROVE  ConversationInv'
<1>1. LogTypeOK
      BY DEF ConversationInv, Remembered, ConversationTypeOK
<1>2. \A v \in Writers : writer'[v] = IF v = w THEN None ELSE writer[v]
      BY <1>1 DEF LogTypeOK, PersistRollback
<1>3. LogTypeOK'
      BY <1>1 DEF LogTypeOK, PersistRollback
<1>4. /\ UNCHANGED <<rows, fresh, managed, raced>> /\ known \subseteq known'
      BY DEF PersistRollback
<1>5. \A v \in Writers : writer'[v] # None => writer'[v] = writer[v]
      BY <1>2
<1> QED BY <1>3, <1>4, <1>5, LogOnly

\* The log is left alone but for the next message.
StillLog == UNCHANGED <<rows, known, bound, writer, managed, raced>>

LEMMA LogStays ==
    ASSUME ConversationInv, StillLog, fresh' = fresh
    PROVE  LogTypeOK' /\ fresh' \in Nat /\ fresh <= fresh'
<1>1. LogTypeOK
      BY DEF ConversationInv, Remembered, ConversationTypeOK
<1> QED BY <1>1, LogAssumption DEF LogTypeOK, StillLog

LEMMA GetCachedSound ==
    ASSUME ConversationInv, NEW s \in Sessions, GetCached(s)
    PROVE  ConversationInv'
<1>1. /\ StillLog /\ fresh' = fresh /\ cache[s] # None /\ lru' = Touch(s)
      /\ UNCHANGED <<cache, dirty, loader, busy, accepted, lost, revived>>
      BY DEF GetCached, StillLog, logVars
<1>2. LogTypeOK' /\ fresh' \in Nat /\ fresh <= fresh'
      BY <1>1, LogStays
<1>3. Remembered'
  <2>1. Remembered
        BY DEF ConversationInv
  <2>2. s \in ToSet(lru)
        BY <1>1, <2>1 DEF Remembered, ConversationTypeOK
  <2>3. /\ lru' \in Seq(Sessions) /\ Distinctly(lru')
        /\ ToSet(lru') = ToSet(lru) /\ Len(lru') = Len(lru)
        BY <1>1, <2>1, <2>2, Touched DEF Remembered, ConversationTypeOK
  <2>4. ConversationTypeOK'
        BY <1>1, <1>2, <2>1, <2>3 DEF Remembered, ConversationTypeOK
  <2> QED BY <2>3, <2>4 DEF Remembered, Distinctly
<1>4. OldContexts /\ SameFlush /\ Covered'
      BY <1>1, StillMemory DEF StillLog
<1>5. AcceptedAccounted' /\ CleanIsStored'
      BY <1>1, StillAccepted, StillClean DEF StillLog
<1>6. /\ \A l \in Loaders : loader'[l] # None => loader'[l] = loader[l]
      /\ \A w \in Writers : writer'[w] # None => writer'[w] = writer[w]
      /\ rows' = rows /\ managed' = managed /\ raced' = raced /\ known \subseteq known'
      BY <1>1 DEF StillLog
<1> QED BY <1>2, <1>3, <1>4, <1>5, <1>6, Quiet

LEMMA CheckpointSound ==
    ASSUME ConversationInv, Checkpoint
    PROVE  ConversationInv'
<1>1. /\ StillLog /\ fresh' = fresh /\ dirty' = {}
      /\ UNCHANGED <<cache, lru, loader, busy, accepted, lost, revived>>
      BY DEF Checkpoint, StillLog, logVars
<1>2. LogTypeOK' /\ fresh' \in Nat /\ fresh <= fresh'
      BY <1>1, LogStays
<1>3. Remembered'
  <2>1. Remembered
        BY DEF ConversationInv
  <2> QED BY <1>1, <1>2, <2>1 DEF Remembered, ConversationTypeOK, Distinctly
<1>4. OldContexts /\ SameFlush /\ Covered'
      BY <1>1, StillMemory DEF StillLog
<1>5. AcceptedAccounted' /\ CleanIsStored'
      BY <1>1, StillAccepted, StillClean DEF StillLog
<1>6. /\ \A l \in Loaders : loader'[l] # None => loader'[l] = loader[l]
      /\ \A w \in Writers : writer'[w] # None => writer'[w] = writer[w]
      /\ rows' = rows /\ managed' = managed /\ raced' = raced /\ known \subseteq known'
      BY <1>1 DEF StillLog
<1> QED BY <1>2, <1>3, <1>4, <1>5, <1>6, Quiet

LEMMA AddUncachedSound ==
    ASSUME ConversationInv, NEW s \in Sessions, AddUncached(s)
    PROVE  ConversationInv'
<1>1. /\ StillLog /\ fresh' = fresh + 1 /\ fresh <= MaxMsg /\ dirty' = dirty \cup {s}
      /\ accepted' = accepted \cup {fresh} /\ lost' = lost \cup {fresh}
      /\ UNCHANGED <<cache, lru, loader, busy, revived>>
      BY DEF AddUncached, StillLog
<1>2. Remembered
      BY DEF ConversationInv
<1>3. fresh \in Nat \ {0} /\ MaxMsg \in Nat
      BY <1>2, LogAssumption DEF Remembered, ConversationTypeOK, LogTypeOK
<1>4. fresh \in Msgs /\ fresh' \in Nat /\ fresh <= fresh' /\ fresh' \in 1..(MaxMsg + 1)
      BY <1>1, <1>3 DEF Msgs
<1>5. Remembered'
      BY <1>1, <1>2, <1>4 DEF Remembered, ConversationTypeOK, LogTypeOK, Distinctly, StillLog
<1>6. OldContexts /\ SameFlush /\ Covered'
      BY <1>1, StillMemory DEF StillLog
<1>7. AcceptedAccounted' /\ CleanIsStored'
      BY <1>1, StillAccepted, StillClean DEF StillLog
<1>8. /\ \A l \in Loaders : loader'[l] # None => loader'[l] = loader[l]
      /\ \A w \in Writers : writer'[w] # None => writer'[w] = writer[w]
      /\ rows' = rows /\ managed' = managed /\ raced' = raced /\ known \subseteq known'
      BY <1>1 DEF StillLog
<1> QED BY <1>4, <1>5, <1>6, <1>7, <1>8, Quiet

\* The context once a window of it, or the whole session, is summarised.
WithSummary(c, i, ok) ==
    [c EXCEPT !.tasks = @ \ {i}, !.is_dirty = @ \/ ok, !.windows = Summarised(@, i, ok)]

LEMMA WithSummaryIs ==
    ASSUME NEW c \in Context, NEW i, NEW ok \in BOOLEAN
    PROVE  /\ WithSummary(c, i, ok) \in Context
           /\ WithSummary(c, i, ok).recent = c.recent
           /\ WithSummary(c, i, ok).last_sequence = c.last_sequence
           /\ c.is_dirty => WithSummary(c, i, ok).is_dirty
           /\ HeldMsgs(WithSummary(c, i, ok)) = HeldMsgs(c)
<1> DEFINE W == Summarised(c.windows, i, ok)
<1>1. c.windows \in Seq(Window)
      BY DEF Context
<1>2. Len(c.windows) \in Nat /\ DOMAIN c.windows = 1..Len(c.windows)
      BY <1>1
<1>3. \A w \in Window, b \in BOOLEAN : LET x == [w EXCEPT !.summary = @ \/ b] IN
          x \in Window /\ x.messages = w.messages
      BY DEF Window
<1>4. ASSUME NEW k \in 1..Len(c.windows)
      PROVE  W[k] \in Window /\ W[k].messages = c.windows[k].messages
  <2>1. c.windows[k] \in Window /\ (ok /\ k = i) \in BOOLEAN
        BY <1>1
  <2>2. W[k] = [c.windows[k] EXCEPT !.summary = @ \/ (ok /\ k = i)]
        BY <1>2 DEF Summarised
  <2> QED BY <1>3, <2>1, <2>2
<1>5. W \in Seq(Window) /\ DOMAIN W = DOMAIN c.windows
  <2>1. W \in [1..Len(c.windows) -> Window]
        BY <1>2, <1>4 DEF Summarised
  <2> QED BY <1>2, <2>1
<1> HIDE DEF W
<1>6. \A d \in Context, w \in Seq(Window) :
         LET x == [d EXCEPT !.tasks = @ \ {i}, !.is_dirty = @ \/ ok, !.windows = w] IN
         /\ x \in Context /\ x.windows = w
         /\ x.recent = d.recent /\ x.last_sequence = d.last_sequence
         /\ d.is_dirty => x.is_dirty
      BY DEF Context
<1>7. PICK x : x = WithSummary(c, i, ok)
      OBVIOUS
<1>8. x = [c EXCEPT !.tasks = @ \ {i}, !.is_dirty = @ \/ ok, !.windows = W]
      BY <1>7 DEF WithSummary, W
<1>9. /\ x \in Context /\ x.windows = W
      /\ x.recent = c.recent /\ x.last_sequence = c.last_sequence
      /\ c.is_dirty => x.is_dirty
      BY <1>5, <1>6, <1>8
<1>10. MessagesOf(x) = MessagesOf(c)
  <2>1. \A k \in DOMAIN c.windows : ToSet(x.windows[k].messages) = ToSet(c.windows[k].messages)
        BY <1>2, <1>4, <1>9
  <2>2. DOMAIN x.windows = DOMAIN c.windows
        BY <1>5, <1>9
  <2> QED BY <1>9, <2>1, <2>2 DEF MessagesOf
<1> QED BY <1>7, <1>9, <1>10 DEF HeldMsgs

LEMMA SummariseSound ==
    ASSUME ConversationInv, NEW s \in Sessions, NEW i, NEW ok \in BOOLEAN, Summarise(s, i, ok)
    PROVE  ConversationInv'
<1>1. /\ StillLog /\ fresh' = fresh /\ cache[s] # None
      /\ UNCHANGED <<lru, dirty, loader, busy, accepted, lost, revived>>
      BY DEF Summarise, StillLog, logVars
<1>2. LogTypeOK' /\ fresh' \in Nat /\ fresh <= fresh'
      BY <1>1, LogStays
<1>3. Remembered
      BY DEF ConversationInv
<1>4. cache' = [cache EXCEPT ![s] = WithSummary(cache[s], i, ok)]
  <2>1. cache \in [Sessions -> {None} \cup Context]
        BY <1>3 DEF Remembered, ConversationTypeOK
  <2> QED BY <2>1 DEF Summarise, WithSummary
<1>5. PICK c : c = WithSummary(cache[s], i, ok)
      OBVIOUS
<1>6. cache[s] \in Context
      BY <1>1, <1>3, MemoryShape
<1>7. /\ c \in Context /\ c.recent = cache[s].recent /\ c.last_sequence = cache[s].last_sequence
      /\ (cache[s].is_dirty => c.is_dirty) /\ HeldMsgs(c) = HeldMsgs(cache[s])
      BY <1>5, <1>6, WithSummaryIs
<1>8. c # None
      BY <1>7, NoContext
<1>9. \A x \in Sessions : cache'[x] = IF x = s THEN c ELSE cache[x]
      BY <1>3, <1>4, <1>5 DEF Remembered, ConversationTypeOK
<1>10. Remembered'
  <2>1. cache' \in [Sessions -> {None} \cup Context]
        BY <1>3, <1>4, <1>5, <1>7 DEF Remembered, ConversationTypeOK
  <2>2. ToSet(lru') = {x \in Sessions : cache'[x] # None}
        BY <1>1, <1>3, <1>8, <1>9 DEF Remembered, ConversationTypeOK
  <2> QED BY <1>1, <1>2, <1>3, <2>1, <2>2 DEF Remembered, ConversationTypeOK, Distinctly
<1>11. OldContexts
  <2>1. ASSUME NEW x \in Sessions, NEW d \in ContextsOf(x)'
        PROVE  \E e \in ContextsOf(x) : d.recent = e.recent /\ d.last_sequence = e.last_sequence
    <3>1. CASE x = s /\ d = c
          BY <1>1, <1>7, <3>1 DEF ContextsOf
    <3>2. CASE ~(x = s /\ d = c)
          BY <1>1, <1>9, <3>2 DEF ContextsOf
    <3> QED BY <3>1, <3>2
  <2> QED BY <2>1 DEF OldContexts
<1>12. SameFlush
      BY <1>1 DEF SameFlush, Flushing
<1>13. rows' = rows /\ rows \subseteq rows'
      BY <1>1 DEF StillLog
<1>14. \A x \in Sessions : cache[x] # None => cache'[x] # None /\ cache'[x].recent = cache[x].recent
      BY <1>7, <1>8, <1>9
<1>15. Covered'
  <2>1. Covered
        BY DEF ConversationInv
  <2>2. (Flushing' /\ busy'.same) => Flushing /\ busy.same
        BY <1>1 DEF Flushing
  <2>3. Flushing' /\ busy'.same =>
               /\ cache'[busy.session] # None
               /\ cache'[busy.session].recent = cache[busy.session].recent
        BY <1>3, <1>14, <2>1, <2>2, FlushShape DEF Covered
  <2> QED BY <1>12, <1>13, <2>1, <2>3, CoveredKept
<1>16. CleanIsStored'
  <2>1. CleanIsStored
        BY DEF ConversationInv
  <2>2. \A x \in Sessions \ revived' : cache'[x] # None /\ ~cache'[x].is_dirty =>
            /\ x \notin revived /\ cache[x] # None /\ ~cache[x].is_dirty
            /\ cache'[x].recent = cache[x].recent
        BY <1>1, <1>7, <1>9
  <2> QED BY <1>13, <2>1, <2>2, CleanKept
<1>17. AcceptedAccounted'
  <2>1. AcceptedAccounted /\ accepted' \ lost' \subseteq accepted \ lost
        BY <1>1 DEF ConversationInv
  <2>2. \A x \in Sessions : cache[x] # None =>
            cache'[x] # None /\ HeldMsgs(cache[x]) \subseteq HeldMsgs(cache'[x])
        BY <1>7, <1>8, <1>9
  <2> QED BY <1>13, <2>1, <2>2, AcceptedKept
<1>18. /\ \A l \in Loaders : loader'[l] # None => loader'[l] = loader[l]
       /\ \A w \in Writers : writer'[w] # None => writer'[w] = writer[w]
       /\ rows' = rows /\ managed' = managed /\ raced' = raced /\ known \subseteq known'
      BY <1>1 DEF StillLog
<1> QED BY <1>2, <1>10, <1>11, <1>12, <1>15, <1>16, <1>17, <1>18, Quiet

LEMMA DroppedAccepted ==
    ASSUME NEW c
    PROVE  Dropped(c) \subseteq accepted
BY DEF Dropped

LEMMA ClearBeginSound ==
    ASSUME ConversationInv, NEW s \in Sessions, ClearBegin(s)
    PROVE  ConversationInv'
<1>1. /\ StillLog /\ fresh' = fresh /\ busy = None /\ busy' = [op |-> "clear", session |-> s]
      /\ cache' = [cache EXCEPT ![s] = None] /\ lru' = RemoveFirst(lru, s) /\ dirty' = dirty \ {s}
      /\ lost' = lost \cup (IF cache[s] = None THEN {} ELSE Dropped(cache[s]))
      /\ revived' = revived \ {s}
      /\ UNCHANGED <<loader, accepted>>
      BY DEF ClearBegin, StillLog, logVars
<1>2. LogTypeOK' /\ fresh' \in Nat /\ fresh <= fresh'
      BY <1>1, LogStays
<1>3. Remembered
      BY DEF ConversationInv
<1>4. \A x \in Sessions : cache'[x] = IF x = s THEN None ELSE cache[x]
      BY <1>1, <1>3 DEF Remembered, ConversationTypeOK
<1>5. Remembered'
  <2>1. cache' \in [Sessions -> {None} \cup Context]
        BY <1>1, <1>3 DEF Remembered, ConversationTypeOK
  <2>2. /\ lru' \in Seq(Sessions) /\ Distinctly(lru')
        /\ ToSet(lru') = ToSet(lru) \ {s} /\ Len(lru') <= Len(lru)
    <3>1. lru \in Seq(Sessions) /\ Distinctly(lru) /\ Len(lru) \in Nat
          BY <1>3 DEF Remembered, ConversationTypeOK
    <3> QED BY <1>1, <3>1, Forgotten
  <2>3. Len(lru') <= CacheSize
    <3>1. Len(lru) <= CacheSize /\ Len(lru) \in Nat /\ Len(lru') \in Nat /\ CacheSize \in Nat
          BY <1>3, <2>2, ManagerAssumption DEF Remembered, ConversationTypeOK
    <3> QED BY <2>2, <3>1
  <2>4. ToSet(lru') = {x \in Sessions : cache'[x] # None}
        BY <1>3, <1>4, <2>2 DEF Remembered, ConversationTypeOK
  <2>5. lost' \subseteq accepted'
        BY <1>1, <1>3, DroppedAccepted DEF Remembered, ConversationTypeOK
  <2> QED BY <1>1, <1>2, <1>3, <2>1, <2>2, <2>3, <2>4, <2>5
          DEF Remembered, ConversationTypeOK, Distinctly
<1>6. OldContexts
      BY <1>1, <1>4 DEF OldContexts, ContextsOf
<1>7. ~Flushing'
      BY <1>1 DEF Flushing
<1>8. SameFlush /\ Covered'
      BY <1>7 DEF SameFlush, Covered
<1>9. rows' = rows /\ rows \subseteq rows'
      BY <1>1 DEF StillLog
<1>10. CleanIsStored'
  <2>1. CleanIsStored
        BY DEF ConversationInv
  <2>2. \A x \in Sessions \ revived' : cache'[x] # None /\ ~cache'[x].is_dirty =>
            /\ x \notin revived /\ cache[x] # None /\ ~cache[x].is_dirty
            /\ cache'[x].recent = cache[x].recent
        BY <1>1, <1>4
  <2> QED BY <1>9, <2>1, <2>2, CleanKept
<1>11. AcceptedAccounted'
  <2>1. AcceptedAccounted /\ accepted' \ lost' \subseteq accepted \ lost
        BY <1>1 DEF ConversationInv
  <2>2. \A x \in Sessions : cache[x] # None =>
            \/ cache'[x] # None /\ HeldMsgs(cache[x]) \subseteq HeldMsgs(cache'[x])
            \/ Dropped(cache[x]) \subseteq lost'
        BY <1>1, <1>4
  <2> QED BY <1>9, <2>1, <2>2, AcceptedKept
<1>12. /\ \A l \in Loaders : loader'[l] # None => loader'[l] = loader[l]
       /\ \A w \in Writers : writer'[w] # None => writer'[w] = writer[w]
       /\ rows' = rows /\ managed' = managed /\ raced' = raced /\ known \subseteq known'
      BY <1>1 DEF StillLog
<1> QED BY <1>2, <1>5, <1>6, <1>8, <1>10, <1>11, <1>12, Quiet

LEMMA CrashSound ==
    ASSUME ConversationInv, Crash
    PROVE  ConversationInv'
<1>1. /\ cache' = [s \in Sessions |-> None] /\ lru' = << >> /\ dirty' = {}
      /\ loader' = [l \in Loaders |-> None] /\ busy' = None /\ writer' = [w \in Writers |-> None]
      /\ lost' = lost \cup UNION {Dropped(cache[s]) : s \in ToSet(lru)} /\ revived' = {}
      /\ UNCHANGED <<rows, known, bound, fresh, managed, raced, accepted>>
      BY DEF Crash
<1>2. Remembered
      BY DEF ConversationInv
<1>3. LogTypeOK' /\ fresh' \in Nat /\ fresh <= fresh'
      BY <1>1, <1>2, LogAssumption DEF Remembered, ConversationTypeOK, LogTypeOK
<1>4. Remembered'
  <2>1. Len(lru') = 0 /\ lru' \in Seq(Sessions) /\ ToSet(lru') = {}
        BY <1>1 DEF ToSet
  <2>2. ToSet(lru') = {s \in Sessions : cache'[s] # None}
        BY <1>1, <2>1
  <2>3. lost' \subseteq accepted'
    <3>1. \A s \in ToSet(lru) : Dropped(cache[s]) \subseteq accepted
          BY DroppedAccepted
    <3> QED BY <1>1, <1>2, <3>1 DEF Remembered, ConversationTypeOK
  <2>4. Len(lru') <= CacheSize
        BY <2>1, ManagerAssumption
  <2>5. Distinctly(lru')
        BY <2>1 DEF Distinctly
  <2> QED BY <1>1, <1>2, <1>3, <2>1, <2>2, <2>3, <2>4, <2>5
          DEF Remembered, ConversationTypeOK, Distinctly
<1>5. OldContexts
      BY <1>1 DEF OldContexts, ContextsOf
<1>6. ~Flushing'
      BY <1>1 DEF Flushing
<1>7. SameFlush /\ Covered'
      BY <1>6 DEF SameFlush, Covered
<1>8. rows' = rows /\ rows \subseteq rows'
      BY <1>1
<1>9. CleanIsStored'
      BY <1>1 DEF CleanIsStored
<1>10. AcceptedAccounted'
  <2>1. AcceptedAccounted /\ accepted' \ lost' \subseteq accepted \ lost
        BY <1>1 DEF ConversationInv
  <2>2. ASSUME NEW s \in Sessions, cache[s] # None
        PROVE  Dropped(cache[s]) \subseteq lost'
    <3>1. s \in ToSet(lru)
          BY <1>2, <2>2 DEF Remembered, ConversationTypeOK
    <3> QED BY <1>1, <3>1
  <2> QED BY <1>8, <2>1, <2>2, AcceptedKept
<1>11. /\ \A l \in Loaders : loader'[l] # None => loader'[l] = loader[l]
       /\ \A w \in Writers : writer'[w] # None => writer'[w] = writer[w]
       /\ rows' = rows /\ managed' = managed /\ raced' = raced /\ known \subseteq known'
      BY <1>1
<1> QED BY <1>3, <1>4, <1>5, <1>7, <1>9, <1>10, <1>11, Quiet

\* Without its first session, the order has every other one.
LEMMA TailForgets ==
    ASSUME NEW S, NEW q \in Seq(S), q # << >>, Distinctly(q)
    PROVE  /\ Tail(q) \in Seq(S) /\ Distinctly(Tail(q)) /\ Len(Tail(q)) = Len(q) - 1
           /\ ToSet(Tail(q)) = ToSet(q) \ {Head(q)} /\ Head(q) \in ToSet(q)
<1>1. /\ Tail(q) \in Seq(S) /\ Len(Tail(q)) = Len(q) - 1 /\ Len(q) \in Nat /\ Len(q) > 0
      /\ \A i \in 1..Len(q) - 1 : Tail(q)[i] = q[i + 1]
      /\ Head(q) = q[1]
      OBVIOUS
<1>2. PICK t : t = Tail(q)
      OBVIOUS
<1>3. /\ t \in Seq(S) /\ Len(t) = Len(q) - 1 /\ Len(q) \in Nat /\ Len(q) > 0
      /\ \A i \in 1..Len(q) - 1 : t[i] = q[i + 1] /\ i + 1 \in 1..Len(q)
      BY <1>1, <1>2
<1>4. ToSet(t) = {t[i] : i \in 1..Len(t)} /\ ToSet(q) = {q[i] : i \in 1..Len(q)}
      BY <1>3, Members
<1>5. Distinctly(t)
  <2>1. ASSUME NEW i \in 1..Len(q) - 1, NEW j \in 1..Len(q) - 1, t[i] = t[j]
        PROVE  i = j
    <3>1. q[i + 1] = q[j + 1] /\ i + 1 \in 1..Len(q) /\ j + 1 \in 1..Len(q)
          BY <1>3, <2>1
    <3>2. i + 1 = j + 1
          BY <3>1 DEF Distinctly
    <3> QED BY <3>2
  <2> QED BY <1>3, <2>1 DEF Distinctly
<1>6. ToSet(t) \subseteq ToSet(q) \ {q[1]}
  <2>1. ASSUME NEW i \in 1..Len(q) - 1
        PROVE  t[i] \in ToSet(q) /\ t[i] # q[1]
    <3>1. t[i] = q[i + 1] /\ i + 1 \in 1..Len(q) /\ 1 \in 1..Len(q) /\ i + 1 # 1
          BY <1>3
    <3> QED BY <1>4, <3>1 DEF Distinctly
  <2> QED BY <1>3, <1>4, <2>1
<1>7. ToSet(q) \ {q[1]} \subseteq ToSet(t)
  <2>1. ASSUME NEW j \in 1..Len(q), q[j] # q[1]
        PROVE  \E i \in 1..Len(q) - 1 : t[i] = q[j]
    <3>1. j - 1 \in 1..Len(q) - 1 /\ (j - 1) + 1 = j
          BY <1>3, <2>1
    <3> QED BY <1>3, <3>1
  <2> QED BY <1>3, <1>4, <2>1
<1>8. q[1] \in ToSet(q)
  <2>1. 1 \in 1..Len(q)
        BY <1>3
  <2> QED BY <1>4, <2>1
<1> QED BY <1>1, <1>2, <1>3, <1>5, <1>6, <1>7, <1>8

\* The session that a context of s takes the place of.
Full(s)    == cache[s] = None /\ Len(lru) = CacheSize
Evicted(s) == IF Full(s) THEN {Head(lru)} ELSE {}

\* The cache and its order once a context of s is put into it.
LEMMA PutOrder ==
    ASSUME Remembered, NEW s \in Sessions, NEW gone, NEW order,
           gone = Evicted(s),
           order = IF Full(s) THEN Append(Tail(lru), s) ELSE Touch(s)
    PROVE  /\ order \in Seq(Sessions) /\ Distinctly(order) /\ Len(order) <= CacheSize
           /\ ToSet(order) = (ToSet(lru) \ gone) \cup {s}
           /\ gone \subseteq ToSet(lru) /\ s \notin gone
<1>1. /\ lru \in Seq(Sessions) /\ Distinctly(lru) /\ Len(lru) \in Nat /\ Len(lru) <= CacheSize
      /\ ToSet(lru) = {x \in Sessions : cache[x] # None} /\ CacheSize \in Nat \ {0}
      BY ManagerAssumption DEF Remembered, ConversationTypeOK
<1>2. CASE Full(s)
  <2>1. lru # << >> /\ s \notin ToSet(lru) /\ Len(lru) = CacheSize
        BY <1>1, <1>2 DEF Full
  <2>2. /\ Tail(lru) \in Seq(Sessions) /\ Distinctly(Tail(lru)) /\ Len(Tail(lru)) = Len(lru) - 1
        /\ ToSet(Tail(lru)) = ToSet(lru) \ {Head(lru)} /\ Head(lru) \in ToSet(lru)
        BY <1>1, <2>1, TailForgets
  <2>3. s \notin ToSet(Tail(lru))
        BY <2>1, <2>2
  <2>4. /\ Append(Tail(lru), s) \in Seq(Sessions)
        /\ Len(Append(Tail(lru), s)) = Len(Tail(lru)) + 1
        /\ Distinctly(Append(Tail(lru), s))
        /\ ToSet(Append(Tail(lru), s)) = ToSet(Tail(lru)) \cup {s}
    <3>1. PICK q \in Seq(Sessions) : q = Tail(lru)
          BY <2>2
    <3>2. q \in Seq(Sessions) /\ Distinctly(q) /\ s \notin ToSet(q)
          BY <2>2, <2>3, <3>1
    <3>3. /\ Append(q, s) \in Seq(Sessions) /\ Len(Append(q, s)) = Len(q) + 1
          /\ Distinctly(Append(q, s)) /\ ToSet(Append(q, s)) = ToSet(q) \cup {s}
          BY <3>2, AddedLast
    <3> QED BY <3>1, <3>3
  <2>5. order = Append(Tail(lru), s) /\ gone = {Head(lru)}
        BY <1>2 DEF Evicted
  <2>6. Len(order) = Len(lru)
    <3>1. Len(order) = Len(Tail(lru)) + 1
          BY <2>4, <2>5
    <3> QED BY <1>1, <2>2, <3>1
  <2> QED BY <1>1, <2>1, <2>2, <2>4, <2>5, <2>6
<1>3. CASE ~Full(s)
  <2>1. /\ Touch(s) \in Seq(Sessions) /\ Distinctly(Touch(s))
        /\ ToSet(Touch(s)) = ToSet(lru) \cup {s}
        /\ Len(Touch(s)) = IF s \in ToSet(lru) THEN Len(lru) ELSE Len(lru) + 1
        BY <1>1, Touched
  <2>2. order = Touch(s) /\ gone = {}
        BY <1>3 DEF Evicted
  <2>3. Len(order) <= CacheSize
    <3>1. CASE s \in ToSet(lru)
          BY <1>1, <2>1, <2>2, <3>1
    <3>2. CASE s \notin ToSet(lru)
      <4>1. Len(lru) # CacheSize
            BY <1>1, <1>3, <3>2 DEF Full
      <4> QED BY <1>1, <2>1, <2>2, <3>2, <4>1
    <3> QED BY <3>1, <3>2
  <2> QED BY <2>1, <2>2, <2>3
<1> QED BY <1>2, <1>3

LEMMA PutContextSound ==
    ASSUME ConversationInv, NEW l \in Loaders, PutContext(l)
    PROVE  ConversationInv'
<1>1. Remembered
      BY DEF ConversationInv
<1>2. PICK s : s = loader[l].session
      OBVIOUS
<1>4. PICK gone : gone = Evicted(s)
      OBVIOUS
<1>5. /\ loader[l] # None
      /\ cache' = [x \in Sessions |-> IF x = s THEN loader[l].ctx
                                      ELSE IF x \in gone THEN None ELSE cache[x]]
      /\ lru' = IF Full(s) THEN Append(Tail(lru), s) ELSE Touch(s)
      /\ loader' = [loader EXCEPT ![l] = None]
      /\ busy' = IF busy # None /\ busy.op = "flush"
                 THEN [busy EXCEPT !.same = @ /\ busy.session \notin gone \cup {s},
                                   !.mutated = @ \/ cache[s] = None]
                 ELSE busy
      /\ lost' = lost \cup UNION {Dropped(cache[x]) : x \in {y \in gone \cup {s} : cache[y] # None}}
      /\ revived' = (revived \ (gone \cup {s})) \cup (IF loader[l].stale THEN {s} ELSE {})
      /\ StillLog /\ fresh' = fresh /\ UNCHANGED <<dirty, accepted>>
      BY <1>2, <1>4 DEF PutContext, StillLog, logVars, Evicted, Full
<1>6. LogTypeOK' /\ fresh' \in Nat /\ fresh <= fresh'
      BY <1>5, LogStays
<1>7. loader[l] \in [session : Sessions, ctx : Context, stale : BOOLEAN]
      BY <1>1, <1>5, MemoryShape
<1>8. s \in Sessions /\ loader[l].ctx \in Context /\ loader[l].ctx # None
      BY <1>2, <1>7, NoContext
<1>9. \A x \in Sessions : cache'[x] = IF x = s THEN loader[l].ctx
                                      ELSE IF x \in gone THEN None ELSE cache[x]
      BY <1>5
<1>10. \A k \in Loaders : loader'[k] = IF k = l THEN None ELSE loader[k]
      BY <1>1, <1>5 DEF Remembered, ConversationTypeOK
<1>11. /\ lru' \in Seq(Sessions) /\ Distinctly(lru') /\ Len(lru') <= CacheSize
       /\ ToSet(lru') = (ToSet(lru) \ gone) \cup {s}
       /\ gone \subseteq ToSet(lru) /\ s \notin gone
  <2>1. PICK order : order = IF Full(s) THEN Append(Tail(lru), s) ELSE Touch(s)
        OBVIOUS
  <2>2. lru' = order
        BY <1>5, <2>1
  <2>3. /\ order \in Seq(Sessions) /\ Distinctly(order) /\ Len(order) <= CacheSize
        /\ ToSet(order) = (ToSet(lru) \ gone) \cup {s}
        /\ gone \subseteq ToSet(lru) /\ s \notin gone
        BY <1>1, <1>4, <1>8, <2>1, PutOrder
  <2> QED BY <2>2, <2>3
<1>12. ToSet(lru) = {x \in Sessions : cache[x] # None}
      BY <1>1 DEF Remembered, ConversationTypeOK
<1>13. ToSet(lru') = {x \in Sessions : cache'[x] # None}
      BY <1>8, <1>9, <1>11, <1>12
<1>14. cache' \in [Sessions -> {None} \cup Context]
  <2>1. \A x \in Sessions : cache[x] \in {None} \cup Context
        BY <1>1 DEF Remembered, ConversationTypeOK
  <2> QED BY <1>5, <1>8, <2>1
<1> DEFINE Flushes == [op : {"flush"}, session : {None} \cup Sessions,
                       missing : Seq(Message), base : Int, same : BOOLEAN, mutated : BOOLEAN]
<1>15. /\ busy' \in {None} \cup [op : {"clear"}, session : Sessions] \cup Flushes
       /\ Flushing' => /\ Flushing
                       /\ busy'.session = busy.session /\ busy'.missing = busy.missing
                       /\ busy'.same => busy.same /\ busy.session \notin gone \cup {s}
  <2>1. busy \in {None} \cup [op : {"clear"}, session : Sessions] \cup Flushes
        BY <1>1 DEF Remembered, ConversationTypeOK
  <2>2. \A b \in Flushes, u, v \in BOOLEAN :
            LET x == [b EXCEPT !.same = u, !.mutated = v] IN
            /\ x \in Flushes /\ x.op = b.op /\ x.session = b.session /\ x.missing = b.missing
            /\ x.same = u
        OBVIOUS
  <2>3. CASE busy # None /\ busy.op = "flush"
    <3>1. busy \in Flushes
          BY <2>1, <2>3
    <3>2. PICK u \in BOOLEAN : u = (busy.same /\ busy.session \notin gone \cup {s})
          OBVIOUS
    <3>3. PICK v \in BOOLEAN : v = (busy.mutated \/ cache[s] = None)
          OBVIOUS
    <3>4. busy' = [busy EXCEPT !.same = u, !.mutated = v]
          BY <1>5, <2>3, <3>2, <3>3
    <3>5. /\ busy' \in Flushes /\ busy'.op = busy.op /\ busy'.session = busy.session
          /\ busy'.missing = busy.missing /\ busy'.same = u
          BY <2>2, <3>1, <3>4
    <3> HIDE DEF Flushes
    <3>6. busy'.same => busy.same /\ busy.session \notin gone \cup {s}
          BY <3>2, <3>5
    <3>7. Flushing' => Flushing
          BY <2>3, <3>5 DEF Flushing
    <3> QED BY <3>5, <3>6, <3>7
  <2>4. CASE ~(busy # None /\ busy.op = "flush")
        BY <1>5, <2>1, <2>4 DEF Flushing
  <2> QED BY <2>3, <2>4
<1>16. Remembered'
  <2>1. lost' \subseteq accepted'
        BY <1>1, <1>5, DroppedAccepted DEF Remembered, ConversationTypeOK
  <2>2. loader' \in [Loaders -> {None} \cup [session : Sessions, ctx : Context, stale : BOOLEAN]]
        BY <1>1, <1>5 DEF Remembered, ConversationTypeOK
  <2>3. revived' \subseteq Sessions
        BY <1>1, <1>5, <1>8 DEF Remembered, ConversationTypeOK
  <2>4. dirty' \subseteq Sessions /\ accepted' \subseteq Msgs
        BY <1>1, <1>5 DEF Remembered, ConversationTypeOK
  <2> QED BY <1>6, <1>11, <1>13, <1>14, <1>15, <2>1, <2>2, <2>3, <2>4
          DEF Remembered, ConversationTypeOK, Distinctly
<1> HIDE DEF Flushes
<1>17. OldContexts
  <2>1. ASSUME NEW x \in Sessions, NEW d \in ContextsOf(x)'
        PROVE  d \in ContextsOf(x)
    <3>1. CASE cache'[x] # None /\ d = cache'[x]
      <4>1. CASE x = s
            BY <1>2, <1>5, <1>9, <3>1, <4>1 DEF ContextsOf
      <4>2. CASE x # s
            BY <1>9, <3>1, <4>2 DEF ContextsOf
      <4> QED BY <4>1, <4>2
    <3>2. CASE \E k \in Loaders : loader'[k] # None /\ loader'[k].session = x /\ d = loader'[k].ctx
          BY <1>10, <3>2 DEF ContextsOf
    <3> QED BY <2>1, <3>1, <3>2 DEF ContextsOf
  <2> QED BY <2>1 DEF OldContexts
<1>18. SameFlush
      BY <1>15 DEF SameFlush
<1>19. rows' = rows /\ rows \subseteq rows'
      BY <1>5 DEF StillLog
<1>20. Covered'
  <2>1. Covered
        BY DEF ConversationInv
  <2>2. Flushing' /\ busy'.same =>
               /\ cache'[busy.session] # None
               /\ cache'[busy.session].recent = cache[busy.session].recent
    <3>1. SUFFICES ASSUME Flushing', busy'.same
                   PROVE  cache'[busy.session] = cache[busy.session] /\ cache[busy.session] # None
          OBVIOUS
    <3>2. Flushing /\ busy.same /\ busy.session \notin gone \cup {s}
          BY <1>15, <3>1
    <3>3. busy.session \in Sessions /\ cache[busy.session] # None
          BY <1>1, <2>1, <3>2, FlushShape DEF Covered
    <3> QED BY <1>9, <3>2, <3>3
  <2> QED BY <1>18, <1>19, <2>1, <2>2, CoveredKept
<1>21. CleanIsStored'
  <2>1. CleanIsStored
        BY DEF ConversationInv
  <2>2. ASSUME NEW x \in Sessions \ revived', cache'[x] # None, ~cache'[x].is_dirty
        PROVE  \/ /\ x \notin revived /\ cache[x] # None /\ ~cache[x].is_dirty
                  /\ cache'[x].recent = cache[x].recent
               \/ {m.sequence : m \in ToSet(cache'[x].recent)} \subseteq SequencesOf(x)'
    <3>1. CASE x # s
          BY <1>5, <1>9, <2>2, <3>1
    <3>2. CASE x = s
      <4>1. ~loader[l].stale /\ cache'[x].recent = loader[l].ctx.recent
            BY <1>5, <1>9, <2>2, <3>2
      <4>2. loader[l].ctx.recent \in Seq(Message)
            BY <1>8 DEF Context
      <4>3. \A i \in 1..Len(loader[l].ctx.recent) :
                loader[l].ctx.recent[i].sequence \in SequencesOf(s)
            BY <1>2, <1>5, <4>1 DEF ConversationInv, LoadedIsStored
      <4>4. {m.sequence : m \in ToSet(loader[l].ctx.recent)} \subseteq SequencesOf(s)
            BY <4>2, <4>3, Members
      <4>5. SequencesOf(s)' = SequencesOf(s)
            BY <1>19 DEF SequencesOf, RowsOf
      <4> QED BY <3>2, <4>1, <4>4, <4>5
    <3> QED BY <3>1, <3>2
  <2> QED BY <1>19, <2>1, <2>2, CleanKept
<1>22. AcceptedAccounted'
  <2>1. AcceptedAccounted /\ accepted' \ lost' \subseteq accepted \ lost
        BY <1>5 DEF ConversationInv
  <2>2. ASSUME NEW x \in Sessions, cache[x] # None
        PROVE  \/ cache'[x] # None /\ HeldMsgs(cache[x]) \subseteq HeldMsgs(cache'[x])
               \/ Dropped(cache[x]) \subseteq lost'
    <3>1. CASE x \in gone \cup {s}
          BY <1>5, <2>2, <3>1
    <3>2. CASE x \notin gone \cup {s}
      <4>1. cache'[x] = cache[x]
            BY <1>9, <3>2
      <4> QED BY <2>2, <4>1
    <3> QED BY <3>1, <3>2
  <2> QED BY <1>19, <2>1, <2>2, AcceptedKept
<1>23. /\ \A k \in Loaders : loader'[k] # None => loader'[k] = loader[k]
       /\ \A w \in Writers : writer'[w] # None => writer'[w] = writer[w]
       /\ rows' = rows /\ managed' = managed /\ raced' = raced /\ known \subseteq known'
      BY <1>5, <1>10 DEF StillLog
<1> QED BY <1>6, <1>16, <1>17, <1>18, <1>20, <1>21, <1>22, <1>23, Quiet

-----------------------------------------------------------------------------
(* A transaction takes its number.                                         *)

LEMMA MaxSequenceIs ==
    ASSUME ConversationInv, NEW s \in Sessions
    PROVE  /\ MaxSequence(s) \in SequencesOf(s) \cup {-1}
           /\ \A r \in RowsOf(s) : r.sequence <= MaxSequence(s)
           /\ MaxSequence(s) \in Int /\ MaxSequence(s) < fresh /\ fresh \in Nat \ {0}
           /\ SequencesOf(s) \subseteq Nat
<1>1. Remembered /\ Below
      BY DEF ConversationInv
<1>2. fresh \in Nat \ {0}
      BY <1>1, LogAssumption DEF Remembered, ConversationTypeOK, LogTypeOK
<1>3. \A r \in RowsOf(s) : r.sequence \in Nat
      BY <1>1 DEF Remembered, ConversationTypeOK, LogTypeOK, RowsOf, Row
<1>4. ASSUME NEW r \in RowsOf(s)
      PROVE  r.sequence < fresh
  <2>1. Entry(r).sequence < fresh
        BY <1>1, IsEntry DEF Below
  <2> QED BY <2>1 DEF Entry
<1>5. PICK T : T = SequencesOf(s) \cup {-1}
      OBVIOUS
<1>6. T \subseteq Int /\ T # {} /\ fresh \in Int /\ \A y \in T : y <= fresh
      BY <1>2, <1>3, <1>4, <1>5 DEF SequencesOf
<1>7. Max(T) \in T /\ \A y \in T : y <= Max(T)
      BY <1>6, MaxIs
<1>8. MaxSequence(s) = Max(T)
      BY <1>5 DEF MaxSequence
<1>9. \A y \in T : y < fresh
      BY <1>2, <1>4, <1>5 DEF SequencesOf
<1>10. \A r \in RowsOf(s) : r.sequence \in T
      BY <1>5 DEF SequencesOf
<1>11. SequencesOf(s) \subseteq Nat
      BY <1>3 DEF SequencesOf
<1> QED BY <1>2, <1>5, <1>6, <1>7, <1>8, <1>9, <1>10, <1>11

LEMMA NextIs ==
    ASSUME NEW m \in Int, m >= -1
    PROVE  /\ NextSequence(m) \in Nat /\ m <= NextSequence(m) /\ NextSequence(m) <= m + 1
           /\ m \in {0, -1} => NextSequence(m) = 0
BY DEF NextSequence

LEMMA PersistBeginSound ==
    ASSUME ConversationInv, NEW w \in Writers, NEW s \in Sessions, PersistBegin(w, s), UNCHANGED manager
    PROVE  ConversationInv'
<1>1. PICK m : m = MaxSequence(s)
      OBVIOUS
<1>2. PICK new : new = [row |-> [session |-> s, sequence |-> NextSequence(m), msg |-> fresh], base |-> m]
      OBVIOUS
<1>3. /\ s \in known /\ fresh <= MaxMsg /\ fresh' = fresh + 1
      /\ writer' = [writer EXCEPT ![w] = new]
      /\ UNCHANGED <<rows, known, bound, managed, raced>>
      /\ UNCHANGED <<cache, lru, dirty, loader, busy, accepted, lost, revived>>
      BY <1>1, <1>2 DEF PersistBegin, manager
<1>4. Remembered
      BY DEF ConversationInv
<1>5. /\ m \in SequencesOf(s) \cup {-1} /\ m \in Int /\ m < fresh /\ fresh \in Nat \ {0}
      /\ SequencesOf(s) \subseteq Nat
      BY <1>1, MaxSequenceIs
<1>6. /\ NextSequence(m) \in Nat /\ m <= NextSequence(m) /\ NextSequence(m) <= m + 1
      /\ m \in {0, -1} => NextSequence(m) = 0
  <2>1. m >= -1
        BY <1>5
  <2> QED BY <1>5, <2>1, NextIs
<1>7. /\ new.row.session = s /\ new.row.sequence = NextSequence(m) /\ new.row.msg = fresh
      /\ new.base = m
      BY <1>2
<1>8. \A v \in Writers : writer'[v] = IF v = w THEN new ELSE writer[v]
      BY <1>3, <1>4 DEF Remembered, ConversationTypeOK, LogTypeOK
<1>9. fresh \in Msgs /\ fresh' \in 1..(MaxMsg + 1) /\ fresh' \in Nat
      BY <1>3, <1>5, LogAssumption DEF Msgs
<1>10. LogTypeOK'
  <2>1. new \in [row : Draft, base : Int]
        BY <1>2, <1>5, <1>6, <1>9 DEF Draft
  <2>2. writer' \in [Writers -> {None} \cup [row : Draft, base : Int]]
        BY <1>3, <1>4, <2>1 DEF Remembered, ConversationTypeOK, LogTypeOK
  <2> QED BY <1>3, <1>4, <1>9, <2>2 DEF Remembered, ConversationTypeOK, LogTypeOK
<1>11. Remembered'
      BY <1>3, <1>4, <1>10 DEF Remembered, ConversationTypeOK, Distinctly
<1>12. \A x : /\ RowsOf(x)' = RowsOf(x) /\ SequencesOf(x)' = SequencesOf(x)
              /\ ContextsOf(x)' = ContextsOf(x) /\ Unflushed(x)' = Unflushed(x)
              /\ Entries(x)' = Entries(x)
      BY <1>3 DEF RowsOf, SequencesOf, ContextsOf, Unflushed, Flushing, Entries
<1>13. Flushing' = Flushing
      BY <1>3 DEF Flushing
<1>14. OfKnown'
  <2>1. OfKnown
        BY DEF ConversationInv
  <2>2. \A v \in Writers : writer'[v] # None => writer'[v].row.session \in known'
        BY <1>3, <1>7, <1>8, <2>1 DEF OfKnown
  <2> QED BY <1>3, <1>12, <1>13, <2>1, <2>2 DEF OfKnown
<1>15. Below'
  <2>1. Below
        BY DEF ConversationInv
  <2>2. ASSUME NEW x \in Sessions, NEW c \in Entries(x)
        PROVE  c.msg < fresh' /\ c.sequence < fresh'
    <3>1. c.msg \in Nat /\ c.sequence \in Nat
          BY <1>4, EntriesTyped, LogAssumption DEF Message, Msgs
    <3> QED BY <1>3, <1>5, <2>1, <3>1 DEF Below
  <2>3. ASSUME NEW x \in Sessions, NEW c \in ContextsOf(x)
        PROVE  c.last_sequence < fresh'
    <3>1. c.last_sequence \in Nat
          BY <1>4, MemoryShape DEF Context
    <3> QED BY <1>3, <1>5, <2>1, <3>1 DEF Below
  <2>4. ASSUME NEW v \in Writers, writer'[v] # None
        PROVE  writer'[v].row.msg < fresh' /\ writer'[v].row.sequence < fresh'
    <3>1. CASE v = w
          BY <1>3, <1>5, <1>6, <1>7, <1>8, <3>1
    <3>2. CASE v # w
      <4>1. writer'[v] = writer[v] /\ writer[v] \in [row : Draft, base : Int]
            BY <1>4, <1>8, <2>4, <3>2 DEF Remembered, ConversationTypeOK, LogTypeOK
      <4>2. writer[v].row.msg \in Nat /\ writer[v].row.sequence \in Nat
            BY <4>1, LogAssumption DEF Draft, Msgs
      <4>3. writer[v].row.msg < fresh /\ writer[v].row.sequence < fresh
            BY <2>1, <2>4, <4>1 DEF Below
      <4> QED BY <1>3, <1>5, <4>1, <4>2, <4>3
    <3> QED BY <3>1, <3>2
  <2> QED BY <1>12, <2>2, <2>3, <2>4 DEF Below
<1>16. Unseen'
  <2>1. Unseen /\ Below
        BY DEF ConversationInv
  <2>2. ASSUME NEW v \in Writers, writer'[v] # None, NEW x \in Sessions, NEW c \in Entries(x)
        PROVE  c.msg # writer'[v].row.msg
    <3>1. CASE v = w
      <4>1. c.msg < fresh /\ c.msg \in Nat
            BY <1>4, <2>1, EntriesTyped, LogAssumption DEF Below, Message, Msgs
      <4> QED BY <1>5, <1>7, <1>8, <3>1, <4>1
    <3>2. CASE v # w
          BY <1>8, <2>1, <2>2, <3>2 DEF Unseen
    <3> QED BY <3>1, <3>2
  <2>3. \A v \in Writers : writer[v] # None => writer[v].row.msg # fresh
    <3>1. ASSUME NEW v \in Writers, writer[v] # None
          PROVE  writer[v].row.msg # fresh
      <4>1. writer[v] \in [row : Draft, base : Int]
            BY <1>4, <3>1 DEF Remembered, ConversationTypeOK, LogTypeOK
      <4>2. writer[v].row.msg \in Nat /\ writer[v].row.msg < fresh
            BY <2>1, <3>1, <4>1, LogAssumption DEF Below, Draft, Msgs
      <4> QED BY <1>5, <4>2
    <3> QED BY <3>1
  <2>4. ASSUME NEW v \in Writers, writer'[v] # None, NEW u \in Writers, writer'[u] # None,
               writer'[u].row.msg = writer'[v].row.msg
        PROVE  u = v
        BY <1>7, <1>8, <2>1, <2>3, <2>4 DEF Unseen
  <2> QED BY <1>12, <2>2, <2>4 DEF Unseen
<1>17. OneNumber'
      BY <1>12 DEF ConversationInv, OneNumber
<1>18. InOrder'
      BY <1>3, <1>12, <1>13 DEF ConversationInv, InOrder, Ascends
<1>19. LoadedIsStored' /\ Covered' /\ CleanIsStored'
      BY <1>3, <1>12, <1>13 DEF ConversationInv, LoadedIsStored, Covered, CleanIsStored,
         SequencesOf, RowsOf
<1>20. AcceptedAccounted'
      BY <1>3, StillAccepted
<1>21. WrittenOnce' /\ ZeroUntilManaged' /\ OrderedUnlessRaced'
      BY <1>3, <1>12 DEF ConversationInv, WrittenOnce, ZeroUntilManaged, OrderedUnlessRaced
<1>22. ZeroAhead'
  <2>1. s \notin managed => NextSequence(m) = 0
        BY <1>3, <1>5, <1>6 DEF ConversationInv, ZeroUntilManaged
  <2> QED BY <1>3, <1>7, <1>8, <2>1 DEF ConversationInv, ZeroAhead
<1>23. Numbering'
      BY <1>5, <1>6, <1>7, <1>8 DEF ConversationInv, Numbering
<1> QED BY <1>11, <1>14, <1>15, <1>16, <1>17, <1>18, <1>19, <1>20, <1>21, <1>22,
           <1>23 DEF ConversationInv

-----------------------------------------------------------------------------
(* A context is read from the table.                                       *)

\* A query returns each of its rows once, by ascending sequence.
LEMMA Queried ==
    ASSUME LogTypeOK, NEW R \in SUBSET rows, NEW q \in BySequence(R)
    PROVE  /\ q \in Seq(R) /\ Len(q) \in Nat /\ DOMAIN q = 1..Len(q)
           /\ \A i \in 1..Len(q) : q[i] \in R
           /\ \A i, j \in 1..Len(q) : i < j => q[i].sequence <= q[j].sequence
           /\ \A i, j \in 1..Len(q) : q[i] = q[j] => i = j
           /\ \A r \in R : \E i \in 1..Len(q) : q[i] = r
<1>1. PICK n \in Nat : n = Cardinality(R)
      BY RowsFinite
<1>2. /\ q \in [1..n -> R]
      /\ \A i, j \in 1..n : q[i] = q[j] => i = j
      /\ \A r \in R : \E i \in 1..n : q[i] = r
      /\ \A i, j \in 1..n : i < j => q[i].sequence <= q[j].sequence
      BY <1>1 DEF BySequence, Bijection, Injection, Surjection, IsInjective
<1>3. q \in Seq(R) /\ Len(q) = n /\ DOMAIN q = 1..n
      BY <1>2
<1> QED BY <1>2, <1>3

LEMMA LoadedRowsAre ==
    ASSUME Remembered, NEW s \in Sessions, NEW q \in LoadedRows(s)
    PROVE  \E R \in SUBSET RowsOf(s) : q \in BySequence(R)
BY DEF LoadedRows, kSubset

\* The context that load_from_db makes of the rows of a query.
LEMMA LoadedIs ==
    ASSUME ConversationInv, NEW s \in Sessions, NEW q \in LoadedRows(s), NEW c, c = LoadFromDb(q)
    PROVE  /\ c \in Context /\ Len(c.recent) = Len(q) /\ Len(q) \in Nat
           /\ \A i \in 1..Len(q) : q[i] \in RowsOf(s) /\ c.recent[i] = Entry(q[i])
           /\ Ascends(c.recent)
           /\ \A i \in 1..Len(c.recent) : c.recent[i].sequence <= c.last_sequence
           /\ c.last_sequence < fresh
<1>1. Remembered /\ LogTypeOK
      BY DEF ConversationInv, Remembered, ConversationTypeOK
<1>2. PICK R \in SUBSET RowsOf(s) : q \in BySequence(R)
      BY <1>1, LoadedRowsAre
<1>3. R \in SUBSET rows
      BY DEF RowsOf
<1>4. /\ q \in Seq(R) /\ Len(q) \in Nat /\ DOMAIN q = 1..Len(q)
      /\ \A i \in 1..Len(q) : q[i] \in R
      /\ \A i, j \in 1..Len(q) : i < j => q[i].sequence <= q[j].sequence
      /\ \A i, j \in 1..Len(q) : q[i] = q[j] => i = j
      BY <1>1, <1>2, <1>3, Queried
<1>5. /\ \A r \in RowsOf(s) : r.sequence <= MaxSequence(s)
      /\ MaxSequence(s) \in Int /\ MaxSequence(s) < fresh /\ fresh \in Nat \ {0}
      /\ SequencesOf(s) \subseteq Nat
      BY MaxSequenceIs
<1>6. \A i \in 1..Len(q) : /\ q[i] \in RowsOf(s) /\ q[i] \in rows
                           /\ q[i].sequence \in Nat /\ q[i].sequence < fresh
                           /\ Entry(q[i]) \in Message
  <2>1. ASSUME NEW i \in 1..Len(q)
        PROVE  /\ q[i] \in RowsOf(s) /\ q[i] \in rows
               /\ q[i].sequence \in Nat /\ q[i].sequence < fresh
               /\ Entry(q[i]) \in Message
    <3>1. q[i] \in RowsOf(s) /\ q[i] \in rows
          BY <1>3, <1>4
    <3>2. q[i].sequence \in Nat /\ q[i].sequence <= MaxSequence(s)
          BY <1>5, <3>1 DEF SequencesOf
    <3>3. Entry(q[i]) \in Entries(s) /\ Entries(s) \subseteq Message
          BY <1>1, <3>1, IsEntry, EntriesTyped
    <3> QED BY <1>5, <3>1, <3>2, <3>3
  <2> QED BY <2>1
<1>7. PICK T : T = {r.sequence : r \in ToSet(q)} \cup {0}
      OBVIOUS
<1>8. /\ T \subseteq Int /\ T # {} /\ fresh \in Int /\ \A y \in T : y <= fresh /\ y < fresh /\ y \in Nat
      /\ \A i \in 1..Len(q) : q[i].sequence \in T
  <2>1. ToSet(q) = {q[i] : i \in 1..Len(q)}
        BY <1>4 DEF ToSet
  <2>2. \A y \in T : y \in Nat /\ y < fresh
        BY <1>5, <1>6, <1>7, <2>1
  <2>3. \A i \in 1..Len(q) : q[i].sequence \in T
        BY <1>7, <2>1
  <2> QED BY <1>5, <1>7, <2>2, <2>3
<1>9. PICK last : last = Max(T)
      OBVIOUS
<1>10. last \in Nat /\ last < fresh /\ \A i \in 1..Len(q) : q[i].sequence <= last
  <2>1. Max(T) \in T /\ \A y \in T : y <= Max(T)
        BY <1>8, MaxIs
  <2> QED BY <1>8, <1>9, <2>1
<1>11. PICK list : list = [i \in 1..Len(q) |-> Entry(q[i])]
      OBVIOUS
<1>12. /\ list \in Seq(Message) /\ Len(list) = Len(q)
       /\ \A i \in 1..Len(q) : list[i] = Entry(q[i])
  <2>1. list \in [1..Len(q) -> Message]
        BY <1>6, <1>11
  <2> QED BY <1>4, <1>11, <2>1
<1>13. c = [recent |-> list, windows |-> << >>, last_sequence |-> last, total_messages |-> last,
            is_dirty |-> FALSE, tasks |-> {}]
      BY <1>4, <1>7, <1>9, <1>11 DEF LoadFromDb, Entry
<1>14. c \in Context /\ c.recent = list /\ c.last_sequence = last
      BY <1>10, <1>12, <1>13 DEF Context
<1>15. Ascends(list)
  <2>1. ASSUME NEW i \in 1..Len(q), NEW j \in 1..Len(q)
        PROVE  /\ i < j => list[i].sequence <= list[j].sequence
               /\ list[i].msg = list[j].msg => i = j
    <3>1. /\ list[i].sequence = q[i].sequence /\ list[i].msg = q[i].msg
          /\ list[j].sequence = q[j].sequence /\ list[j].msg = q[j].msg
          BY <1>12, EntryHas
    <3>2. q[i].msg = q[j].msg => q[i] = q[j]
          BY <1>6 DEF ConversationInv, WrittenOnce, RowsOf
    <3> QED BY <1>4, <3>1, <3>2
  <2> QED BY <1>12, <2>1 DEF Ascends
<1>16. \A i \in 1..Len(q) : list[i].sequence <= last
      BY <1>10, <1>12, EntryHas
<1> QED BY <1>4, <1>6, <1>10, <1>12, <1>14, <1>15, <1>16

LEMMA LoadContextSound ==
    ASSUME ConversationInv, NEW l \in Loaders, NEW s \in Sessions, LoadContext(l, s)
    PROVE  ConversationInv'
<1>1. Remembered
      BY DEF ConversationInv
<1>2. PICK q \in LoadedRows(s) :
         loader' = [loader EXCEPT ![l] = [session |-> s, ctx |-> LoadFromDb(q), stale |-> FALSE]]
      BY DEF LoadContext
<1>3. PICK c : c = LoadFromDb(q)
      OBVIOUS
<1>4. /\ s \in known /\ StillLog /\ fresh' = fresh
      /\ UNCHANGED <<cache, lru, dirty, busy, accepted, lost, revived>>
      BY DEF LoadContext, StillLog, logVars
<1>5. /\ c \in Context /\ Len(c.recent) = Len(q) /\ Len(q) \in Nat
      /\ \A i \in 1..Len(q) : q[i] \in RowsOf(s) /\ c.recent[i] = Entry(q[i])
      /\ Ascends(c.recent)
      /\ \A i \in 1..Len(c.recent) : c.recent[i].sequence <= c.last_sequence
      /\ c.last_sequence < fresh
      BY <1>3, LoadedIs
<1>6. PICK new : new = [session |-> s, ctx |-> c, stale |-> FALSE]
      OBVIOUS
<1>7. /\ new \in [session : Sessions, ctx : Context, stale : BOOLEAN]
      /\ new.session = s /\ new.ctx = c
      BY <1>5, <1>6
<1>8. \A k \in Loaders : loader'[k] = IF k = l THEN new ELSE loader[k]
      BY <1>1, <1>2, <1>3, <1>6 DEF Remembered, ConversationTypeOK
<1>9. LogTypeOK' /\ fresh' \in Nat /\ fresh <= fresh'
      BY <1>4, LogStays
<1>10. Remembered'
  <2>1. loader' \in [Loaders -> {None} \cup [session : Sessions, ctx : Context, stale : BOOLEAN]]
        BY <1>1, <1>2, <1>3, <1>6, <1>7 DEF Remembered, ConversationTypeOK
  <2> QED BY <1>1, <1>4, <1>9, <2>1 DEF Remembered, ConversationTypeOK, Distinctly
<1>11. \A x \in Sessions : \A d \in ContextsOf(x)' : d \in ContextsOf(x) \/ (x = s /\ d = c)
  <2>1. ASSUME NEW x \in Sessions, NEW d \in ContextsOf(x)'
        PROVE  d \in ContextsOf(x) \/ (x = s /\ d = c)
    <3>1. CASE cache'[x] # None /\ d = cache'[x]
          BY <1>4, <3>1 DEF ContextsOf
    <3>2. CASE \E k \in Loaders : loader'[k] # None /\ loader'[k].session = x /\ d = loader'[k].ctx
          BY <1>7, <1>8, <3>2 DEF ContextsOf
    <3> QED BY <2>1, <3>1, <3>2 DEF ContextsOf
  <2> QED BY <2>1
<1>12. \A x : /\ RowsOf(x)' = RowsOf(x) /\ SequencesOf(x)' = SequencesOf(x)
              /\ Unflushed(x)' = Unflushed(x)
      BY <1>4 DEF RowsOf, SequencesOf, Unflushed, Flushing, StillLog
<1>13. Flushing' = Flushing
      BY <1>4 DEF Flushing
<1>14. ToSet(c.recent) \subseteq Entries(s)
  <2>1. c.recent \in Seq(Message)
        BY <1>5 DEF Context
  <2>2. \A i \in 1..Len(c.recent) : c.recent[i] \in Entries(s)
        BY <1>5, IsEntry
  <2> QED BY <2>1, <2>2, Members
<1>15. ASSUME NEW x \in Sessions
       PROVE  /\ Entries(x)' \subseteq Entries(x)
              /\ \A d \in ContextsOf(x)' : d.last_sequence < fresh'
              /\ ContextsOf(x)' # {} => x \in known
  <2>1. PICK X : X = {}
        OBVIOUS
  <2>2. \A r \in RowsOf(x)' : Entry(r) \in Entries(x) \cup X
        BY <1>12, IsEntry
  <2>3. \A d \in ContextsOf(x)' : ToSet(d.recent) \subseteq Entries(x) \cup X
        BY <1>11, <1>14, IsEntry
  <2>4. Unflushed(x)' \subseteq Entries(x) \cup X
        BY <1>12, IsEntry
  <2>5. Entries(x)' \subseteq Entries(x) \cup X
        BY <2>2, <2>3, <2>4, EntriesFrom
  <2>6. \A d \in ContextsOf(x)' : d.last_sequence < fresh'
        BY <1>4, <1>5, <1>11 DEF ConversationInv, Below
  <2>7. ContextsOf(x)' # {} => x \in known
        BY <1>4, <1>11 DEF ConversationInv, OfKnown
  <2> QED BY <2>1, <2>5, <2>6, <2>7
<1>16. Flushing' => busy'.session \in known
      BY <1>4, <1>13 DEF ConversationInv, OfKnown
<1>17. InOrder'
  <2>1. InOrder
        BY DEF ConversationInv
  <2>2. \A x \in Sessions : \A d \in ContextsOf(x)' :
            /\ Ascends(d.recent)
            /\ \A i \in 1..Len(d.recent) : d.recent[i].sequence <= d.last_sequence
        BY <1>5, <1>11, <2>1 DEF InOrder
  <2>3. Flushing' => /\ Ascends(busy'.missing)
                     /\ \A i \in 1..Len(busy'.missing), r \in rows' :
                            r.session = busy'.session => r.msg # busy'.missing[i].msg
        BY <1>4, <1>13, <2>1 DEF InOrder, RowsOf, StillLog
  <2> QED BY <2>2, <2>3 DEF InOrder, RowsOf
<1>18. LoadedIsStored'
  <2>1. ASSUME NEW i \in 1..Len(c.recent)
        PROVE  c.recent[i].sequence \in SequencesOf(s)
    <3>1. i \in 1..Len(q) /\ q[i] \in RowsOf(s) /\ c.recent[i].sequence = q[i].sequence
          BY <1>5, EntryHas
    <3> QED BY <3>1 DEF SequencesOf
  <2>2. ASSUME NEW k \in Loaders, loader'[k] # None, ~loader'[k].stale,
               NEW i \in 1..Len(loader'[k].ctx.recent)
        PROVE  \E r \in rows' : /\ r.session = loader'[k].session
                                /\ r.sequence = loader'[k].ctx.recent[i].sequence
    <3>1. CASE k = l
      <4>1. loader'[k].session = s /\ loader'[k].ctx = c
            BY <1>7, <1>8, <3>1
      <4>2. c.recent[i].sequence \in SequencesOf(s)
            BY <2>1, <2>2, <4>1
      <4> QED BY <1>4, <4>1, <4>2 DEF SequencesOf, RowsOf, StillLog
    <3>2. CASE k # l
      <4>1. loader'[k] = loader[k]
            BY <1>8, <3>2
      <4>2. loader[k].ctx.recent[i].sequence \in SequencesOf(loader[k].session)
            BY <2>2, <4>1 DEF ConversationInv, LoadedIsStored
      <4> QED BY <1>4, <4>1, <4>2 DEF SequencesOf, RowsOf, StillLog
    <3> QED BY <3>1, <3>2
  <2> QED BY <2>2 DEF LoadedIsStored, SequencesOf, RowsOf
<1>19. Covered'
      BY <1>4, <1>13 DEF ConversationInv, Covered, SequencesOf, RowsOf, StillLog
<1>20. AcceptedAccounted' /\ CleanIsStored'
      BY <1>4, StillAccepted, StillClean DEF StillLog
<1>21. /\ \A w \in Writers : writer'[w] # None => writer'[w] = writer[w]
       /\ rows' = rows /\ managed' = managed /\ raced' = raced /\ known \subseteq known'
      BY <1>4 DEF StillLog
<1> QED BY <1>9, <1>10, <1>15, <1>16, <1>17, <1>18, <1>19, <1>20, <1>21, NothingNew

-----------------------------------------------------------------------------
(* The stop looks up what a context has no rows for.                       *)

\* A list of recent messages of a session without a row, each number once, in order.
Lacking(s, list) ==
    /\ list \in Seq(Message) /\ Ascends(list)
    /\ ToSet(list) \subseteq ToSet(cache[s].recent)
    /\ \A i \in 1..Len(list), r \in RowsOf(s) : r.msg # list[i].msg
    /\ \A i \in 1..Len(cache[s].recent) :
          \/ cache[s].recent[i].sequence \in SequencesOf(s)
          \/ \E k \in 1..Len(list) : list[k].sequence = cache[s].recent[i].sequence

LEMMA LookedUp ==
    ASSUME ConversationInv, NEW s \in Sessions, cache[s] # None,
           NEW q \in Bijection(1..Cardinality(Missing(s)), Missing(s)),
           \A i, j \in DOMAIN q : i < j => q[i] < q[j],
           NEW list, list = [i \in DOMAIN q |-> cache[s].recent[q[i]]]
    PROVE  Lacking(s, list)
<1>1. Remembered
      BY DEF ConversationInv
<1>2. PICK recent : recent = cache[s].recent
      OBVIOUS
<1>3. recent \in Seq(Message) /\ Len(recent) \in Nat /\ DOMAIN recent = 1..Len(recent)
  <2>1. cache[s] \in Context
        BY <1>1, MemoryShape
  <2>2. recent \in Seq(Message)
        BY <1>2, <2>1 DEF Context
  <2> QED BY <2>2
<1>4. Missing(s) = {i \in 1..Len(recent) :
          /\ recent[i].sequence \notin SequencesOf(s)
          /\ \A j \in 1..i : recent[j].sequence = recent[i].sequence => j = i}
      BY <1>2, <1>3 DEF Missing
<1>5. PICK n \in Nat : n = Cardinality(Missing(s))
  <2>1. Missing(s) \in SUBSET (1..Len(recent))
        BY <1>4
  <2>2. IsFiniteSet(1..Len(recent))
        BY <1>3, FS_Interval
  <2>3. IsFiniteSet(Missing(s))
        BY <2>1, <2>2, FS_Subset
  <2> QED BY <2>3, FS_CardinalityType
<1>6. /\ DOMAIN q = 1..n
      /\ \A i \in 1..n : q[i] \in Missing(s)
      /\ \A i, j \in 1..n : q[i] = q[j] => i = j
      /\ \A x \in Missing(s) : \E i \in 1..n : q[i] = x
      BY <1>5 DEF Bijection, Injection, Surjection, IsInjective
<1>7. \A i \in 1..n : q[i] \in 1..Len(recent) /\ recent[q[i]] \in Message /\ q[i] \in Nat
      BY <1>3, <1>4, <1>6
<1>8. /\ list \in Seq(Message) /\ Len(list) = n
      /\ \A i \in 1..n : list[i] = recent[q[i]]
  <2>1. list = [i \in 1..n |-> recent[q[i]]]
        BY <1>2, <1>6
  <2>2. list \in [1..n -> Message]
        BY <1>7, <2>1
  <2> QED BY <2>1, <2>2
<1>9. Ascends(recent)
  <2>1. cache[s] \in ContextsOf(s)
        BY DEF ContextsOf
  <2> QED BY <1>2, <2>1 DEF ConversationInv, InOrder
<1>10. Ascends(list)
  <2>1. ASSUME NEW i \in 1..n, NEW j \in 1..n
        PROVE  /\ i < j => list[i].sequence <= list[j].sequence
               /\ list[i].msg = list[j].msg => i = j
    <3>1. q[i] \in 1..Len(recent) /\ q[j] \in 1..Len(recent)
          BY <1>7
    <3>2. i < j => q[i] < q[j]
          BY <1>6
    <3>3. /\ q[i] < q[j] => recent[q[i]].sequence <= recent[q[j]].sequence
          /\ recent[q[i]].msg = recent[q[j]].msg => q[i] = q[j]
          BY <1>9, <3>1 DEF Ascends
    <3> QED BY <1>6, <1>8, <3>2, <3>3
  <2> QED BY <1>8, <2>1 DEF Ascends
<1>11. ToSet(list) \subseteq ToSet(recent)
  <2>1. \A x \in ToSet(list) : \E i \in 1..Len(list) : x = list[i]
    <3>1. list \in Seq(Message)
          BY <1>8
    <3> QED BY <3>1, Members
  <2>2. \A i \in 1..Len(recent) : recent[i] \in ToSet(recent)
        BY <1>3, Members
  <2>3. \A i \in 1..n : list[i] \in ToSet(recent)
        BY <1>7, <1>8, <2>2
  <2> QED BY <1>8, <2>1, <2>3
<1>12. ASSUME NEW i \in 1..n, NEW r \in RowsOf(s)
       PROVE  r.msg # list[i].msg
  <2>1. recent[q[i]] \in Entries(s)
    <3>1. cache[s] \in ContextsOf(s)
          BY DEF ContextsOf
    <3>2. ToSet(recent) \subseteq Entries(s)
          BY <1>2, <3>1, IsEntry
    <3>3. recent[q[i]] \in ToSet(recent)
          BY <1>3, <1>7, Members
    <3> QED BY <3>2, <3>3
  <2>2. Entry(r) \in Entries(s)
        BY IsEntry
  <2>3. Entry(r).msg = recent[q[i]].msg => Entry(r).sequence = recent[q[i]].sequence
        BY <2>1, <2>2 DEF ConversationInv, OneNumber
  <2>4. r.sequence \in SequencesOf(s)
        BY DEF SequencesOf
  <2>5. recent[q[i]].sequence \notin SequencesOf(s)
        BY <1>4, <1>6
  <2> QED BY <1>8, <2>3, <2>4, <2>5, EntryHas
<1>13. ASSUME NEW i \in 1..Len(recent), recent[i].sequence \notin SequencesOf(s)
       PROVE  \E k \in 1..n : list[k].sequence = recent[i].sequence
  <2>1. PICK T : T = {j \in 1..Len(recent) : recent[j].sequence = recent[i].sequence}
        OBVIOUS
  <2>2. T \subseteq Nat /\ T # {}
        BY <2>1
  <2>3. PICK j \in T : \A x \in T : j <= x
        BY <2>2, LeastOf
  <2>4. ASSUME NEW x \in 1..j, recent[x].sequence = recent[j].sequence
        PROVE  x = j
    <3>1. x \in T /\ x \in Nat /\ j \in Nat /\ x <= j
          BY <1>3, <2>1, <2>2, <2>3, <2>4
    <3> QED BY <2>3, <3>1
  <2>5. j \in Missing(s)
        BY <1>4, <1>13, <2>1, <2>4
  <2>6. PICK k \in 1..n : q[k] = j
        BY <1>6, <2>5
  <2> QED BY <1>8, <2>1, <2>6
<1>14. \A i \in 1..Len(cache[s].recent) :
          \/ cache[s].recent[i].sequence \in SequencesOf(s)
          \/ \E k \in 1..Len(list) : list[k].sequence = cache[s].recent[i].sequence
       BY <1>2, <1>8, <1>13
<1> QED BY <1>2, <1>8, <1>10, <1>11, <1>12, <1>14 DEF Lacking

LEMMA FlushLookupSound ==
    ASSUME ConversationInv, NEW s \in Sessions, FlushLookup(s)
    PROVE  ConversationInv'
<1>1. Remembered
      BY DEF ConversationInv
<1>2. /\ cache[s] # None /\ StillLog /\ fresh' = fresh
      /\ UNCHANGED <<cache, lru, dirty, loader, accepted, lost, revived>>
      BY DEF FlushLookup, DirtyCached, StillLog, logVars
<1>3. PICK q \in Bijection(1..Cardinality(Missing(s)), Missing(s)) :
         /\ \A i, j \in DOMAIN q : i < j => q[i] < q[j]
         /\ busy' = IF Ambiguous(s) THEN None
                    ELSE [op |-> "flush", session |-> s,
                          missing |-> [i \in DOMAIN q |-> cache[s].recent[q[i]]],
                          base |-> MaxSequence(s), same |-> TRUE, mutated |-> FALSE]
      BY DEF FlushLookup
<1>4. PICK list : list = [i \in DOMAIN q |-> cache[s].recent[q[i]]]
      OBVIOUS
<1>5. /\ list \in Seq(Message) /\ Ascends(list)
      /\ ToSet(list) \subseteq ToSet(cache[s].recent)
      /\ \A i \in 1..Len(list), r \in RowsOf(s) : r.msg # list[i].msg
      /\ \A i \in 1..Len(cache[s].recent) :
            \/ cache[s].recent[i].sequence \in SequencesOf(s)
            \/ \E k \in 1..Len(list) : list[k].sequence = cache[s].recent[i].sequence
  <2>1. /\ cache[s] # None
        /\ q \in Bijection(1..Cardinality(Missing(s)), Missing(s))
        /\ \A i, j \in DOMAIN q : i < j => q[i] < q[j]
        BY <1>2, <1>3
  <2>2. Lacking(s, list)
        BY <1>4, <2>1, LookedUp
  <2> QED BY <2>2 DEF Lacking
<1>6. PICK m \in Int : m = MaxSequence(s)
      BY MaxSequenceIs
<1>7. PICK new : new = [op |-> "flush", session |-> s, missing |-> list, base |-> m,
                        same |-> TRUE, mutated |-> FALSE]
      OBVIOUS
<1>8. busy' = None \/ busy' = new
      BY <1>3, <1>4, <1>6, <1>7
<1>9. /\ new \in [op : {"flush"}, session : {None} \cup Sessions,
                  missing : Seq(Message), base : Int, same : BOOLEAN, mutated : BOOLEAN]
      /\ new.session = s /\ new.missing = list
      BY <1>5, <1>7
<1>10. Flushing' => busy'.session = s /\ busy'.missing = list
      BY <1>8, <1>9 DEF Flushing
<1>11. LogTypeOK' /\ fresh' \in Nat /\ fresh <= fresh'
      BY <1>2, LogStays
<1>12. Remembered'
  <2>1. busy' \in {None} \cup [op : {"flush"}, session : {None} \cup Sessions,
                  missing : Seq(Message), base : Int, same : BOOLEAN, mutated : BOOLEAN]
        BY <1>8, <1>9
  <2> QED BY <1>1, <1>2, <1>11, <2>1 DEF Remembered, ConversationTypeOK, Distinctly
<1>13. \A x : /\ RowsOf(x)' = RowsOf(x) /\ SequencesOf(x)' = SequencesOf(x)
              /\ ContextsOf(x)' = ContextsOf(x)
      BY <1>2 DEF RowsOf, SequencesOf, ContextsOf, StillLog
<1>14. cache[s] \in ContextsOf(s)
      BY <1>2 DEF ContextsOf
<1>15. ASSUME NEW x \in Sessions
       PROVE  /\ Entries(x)' \subseteq Entries(x)
              /\ \A d \in ContextsOf(x)' : d.last_sequence < fresh'
              /\ ContextsOf(x)' # {} => x \in known
  <2>1. PICK X : X = {}
        OBVIOUS
  <2>2. \A r \in RowsOf(x)' : Entry(r) \in Entries(x) \cup X
        BY <1>13, IsEntry
  <2>3. \A d \in ContextsOf(x)' : ToSet(d.recent) \subseteq Entries(x) \cup X
        BY <1>13, IsEntry
  <2>4. Unflushed(x)' \subseteq Entries(x) \cup X
    <3>1. ToSet(list) \subseteq Entries(s)
          BY <1>5, <1>14, IsEntry
    <3>2. Unflushed(x)' # {} => x = s /\ Unflushed(x)' = ToSet(list)
          BY <1>10 DEF Unflushed
    <3> QED BY <3>1, <3>2
  <2>5. Entries(x)' \subseteq Entries(x) \cup X
        BY <2>2, <2>3, <2>4, EntriesFrom
  <2>6. /\ \A d \in ContextsOf(x)' : d.last_sequence < fresh'
        /\ ContextsOf(x)' # {} => x \in known
        BY <1>2, <1>13 DEF ConversationInv, Below, OfKnown
  <2> QED BY <2>1, <2>5, <2>6
<1>16. Flushing' => busy'.session \in known
      BY <1>10, <1>14 DEF ConversationInv, OfKnown
<1>17. InOrder'
  <2>1. \A x \in Sessions : \A d \in ContextsOf(x)' :
            /\ Ascends(d.recent)
            /\ \A i \in 1..Len(d.recent) : d.recent[i].sequence <= d.last_sequence
        BY <1>13 DEF ConversationInv, InOrder
  <2>2. \A i \in 1..Len(list), r \in rows : r.session = s => r.msg # list[i].msg
        BY <1>5 DEF RowsOf
  <2>3. Flushing' => /\ Ascends(busy'.missing)
                     /\ \A i \in 1..Len(busy'.missing), r \in rows' :
                            r.session = busy'.session => r.msg # busy'.missing[i].msg
        BY <1>2, <1>5, <1>10, <2>2 DEF StillLog
  <2> QED BY <2>1, <2>3 DEF InOrder, RowsOf
<1>18. LoadedIsStored'
      BY <1>2 DEF ConversationInv, LoadedIsStored, SequencesOf, RowsOf, StillLog
<1>19. Covered'
  <2>1. \A i \in 1..Len(cache[s].recent) :
            \/ \E r \in rows : r.session = s /\ r.sequence = cache[s].recent[i].sequence
            \/ \E k \in 1..Len(list) : list[k].sequence = cache[s].recent[i].sequence
        BY <1>5 DEF SequencesOf, RowsOf
  <2>2. ASSUME Flushing'
        PROVE  /\ cache'[busy'.session] # None
               /\ \A i \in 1..Len(cache'[busy'.session].recent) :
                     \/ \E r \in rows' : /\ r.session = busy'.session
                                         /\ r.sequence = cache'[busy'.session].recent[i].sequence
                     \/ \E k \in 1..Len(busy'.missing) :
                           busy'.missing[k].sequence = cache'[busy'.session].recent[i].sequence
        BY <1>2, <1>10, <2>1, <2>2 DEF StillLog
  <2> QED BY <2>2 DEF Covered, SequencesOf, RowsOf
<1>20. AcceptedAccounted' /\ CleanIsStored'
      BY <1>2, StillAccepted, StillClean DEF StillLog
<1>21. /\ \A w \in Writers : writer'[w] # None => writer'[w] = writer[w]
       /\ rows' = rows /\ managed' = managed /\ raced' = raced /\ known \subseteq known'
      BY <1>2 DEF StillLog
<1> QED BY <1>11, <1>12, <1>15, <1>16, <1>17, <1>18, <1>19, <1>20, <1>21, NothingNew

-----------------------------------------------------------------------------
(* A message is added to a cached context.                                 *)

\* The older messages move to a window, in their order, and none is dropped.
LEMMA WindowIs ==
    ASSUME NEW c \in Context, Len(c.recent) > MaxRecent
    PROVE  /\ CreateWindow(c) \in Context
           /\ CreateWindow(c).last_sequence = c.last_sequence
           /\ MessagesOf(c) \subseteq MessagesOf(CreateWindow(c))
           /\ \E o \in Nat :
                 /\ Len(CreateWindow(c).recent) = Len(c.recent) - o /\ o <= Len(c.recent)
                 /\ \A i \in 1..Len(c.recent) - o : CreateWindow(c).recent[i] = c.recent[o + i]
<1>1. PICK q \in Seq(Message) : q = c.recent
      BY DEF Context
<1>2. PICK W \in Seq(Window) : W = c.windows
      BY DEF Context
<1>3. PICK o : o = Overflow(c)
      OBVIOUS
<1>4. o \in Nat /\ o > 0 /\ o < Len(q) /\ Len(q) \in Nat
      BY <1>1, <1>3, ManagerAssumption DEF Overflow
<1>5. PICK a : a = SubSeq(q, 1, o)
      OBVIOUS
<1>6. /\ a \in Seq(Message) /\ Len(a) = o
      /\ \A i \in 1..o : a[i] = q[i]
  <2>1. /\ a \in Seq(Message) /\ Len(a) = IF 1 <= o THEN o - 1 + 1 ELSE 0
        /\ \A i \in 1..o - 1 + 1 : a[i] = q[1 + i - 1]
        BY <1>4, <1>5, SubSeqProperties
  <2> QED BY <1>4, <2>1
<1>7. PICK b : b = SubSeq(q, o + 1, Len(q))
      OBVIOUS
<1>8. /\ b \in Seq(Message) /\ Len(b) = Len(q) - o
      /\ \A i \in 1..Len(q) - o : b[i] = q[o + i]
  <2>1. /\ b \in Seq(Message) /\ Len(b) = IF o + 1 <= Len(q) THEN Len(q) - (o + 1) + 1 ELSE 0
        /\ \A i \in 1..Len(q) - (o + 1) + 1 : b[i] = q[(o + 1) + i - 1]
        BY <1>4, <1>7, SubSeqProperties
  <2> QED BY <1>4, <2>1
<1>9. PICK V : V = Append(W, [messages |-> a, summary |-> FALSE])
      OBVIOUS
<1>10. /\ V \in Seq(Window) /\ Len(V) = Len(W) + 1 /\ Len(W) \in Nat
       /\ \A k \in 1..Len(W) : V[k] = W[k]
       /\ V[Len(W) + 1].messages = a
  <2>1. PICK w \in Window : w = [messages |-> a, summary |-> FALSE]
        BY <1>6 DEF Window
  <2>2. w.messages = a
        BY <2>1
  <2>3. V = Append(W, w)
        BY <1>9, <2>1
  <2>4. /\ V \in Seq(Window) /\ Len(V) = Len(W) + 1 /\ Len(W) \in Nat
        /\ \A k \in 1..Len(W) : V[k] = W[k]
        /\ V[Len(W) + 1] = w
        BY <2>3
  <2> QED BY <2>2, <2>4
<1>11. PICK x : x = CreateWindow(c)
       OBVIOUS
<1>12. PICK g \in SUBSET Nat : g = c.tasks \cup {Len(W) + 1}
  <2>1. c.tasks \in SUBSET Nat /\ Len(W) + 1 \in Nat
        BY <1>10 DEF Context
  <2> QED BY <2>1
<1>13. x \in Context /\ x.windows = V /\ x.recent = b /\ x.last_sequence = c.last_sequence
  <2>1. x = [c EXCEPT !.windows = V, !.recent = b, !.tasks = g]
        BY <1>1, <1>2, <1>3, <1>5, <1>7, <1>9, <1>11, <1>12 DEF CreateWindow
  <2>2. V \in Seq(Window) /\ b \in Seq(Message)
        BY <1>8, <1>10
  <2>3. x \in Context
        BY <2>1, <2>2 DEF Context
  <2>4. x.windows = V /\ x.recent = b /\ x.last_sequence = c.last_sequence
        BY <2>1 DEF Context
  <2> QED BY <2>3, <2>4
<1>14. MessagesOf(c) \subseteq MessagesOf(x)
  <2>1. DOMAIN V = 1..Len(W) + 1 /\ DOMAIN W = 1..Len(W)
        BY <1>10
  <2>2. ToSet(a) = {a[i] : i \in 1..o} /\ ToSet(b) = {b[i] : i \in 1..Len(q) - o}
    <3>1. DOMAIN a = 1..o /\ DOMAIN b = 1..Len(q) - o
          BY <1>6, <1>8
    <3> QED BY <3>1 DEF ToSet
  <2>3. \A i \in 1..Len(q) : q[i] \in ToSet(a) \cup ToSet(b)
    <3>1. ASSUME NEW i \in 1..Len(q)
          PROVE  q[i] \in ToSet(a) \cup ToSet(b)
      <4>1. CASE i <= o
            BY <1>4, <1>6, <2>2, <4>1
      <4>2. CASE i > o
        <5>1. i - o \in 1..Len(q) - o /\ o + (i - o) = i
              BY <1>4, <4>2
        <5> QED BY <1>8, <2>2, <5>1
      <4> QED BY <1>4, <4>1, <4>2
    <3> QED BY <3>1
  <2>4. ToSet(q) \subseteq ToSet(a) \cup ToSet(b)
        BY <1>1, <2>3, Members
  <2>5. /\ ToSet(b) \subseteq MessagesOf(x)
        /\ \A k \in 1..Len(W) + 1 : ToSet(V[k].messages) \subseteq MessagesOf(x)
        BY <1>13, <2>1 DEF MessagesOf
  <2>6. Len(W) + 1 \in 1..Len(W) + 1 /\ \A k \in 1..Len(W) : k \in 1..Len(W) + 1
        BY <1>10
  <2>7. ToSet(a) \subseteq MessagesOf(x)
        BY <1>10, <2>5, <2>6
  <2>8. \A k \in 1..Len(W) : ToSet(W[k].messages) \subseteq MessagesOf(x)
        BY <1>10, <2>5, <2>6
  <2>9. MessagesOf(c) = ToSet(q) \cup UNION {ToSet(W[k].messages) : k \in 1..Len(W)}
        BY <1>1, <1>2, <2>1 DEF MessagesOf
  <2> QED BY <2>4, <2>5, <2>7, <2>8, <2>9
<1> QED BY <1>1, <1>4, <1>8, <1>11, <1>13, <1>14

LEMMA AppendIs ==
    ASSUME NEW S, NEW q \in Seq(S), NEW e \in S
    PROVE  /\ Append(q, e) \in Seq(S) /\ Len(Append(q, e)) = Len(q) + 1 /\ Len(q) \in Nat
           /\ \A i \in 1..Len(q) : Append(q, e)[i] = q[i]
           /\ Append(q, e)[Len(q) + 1] = e
           /\ \A i \in 1..Len(q) + 1 : i \in 1..Len(q) \/ i = Len(q) + 1
OBVIOUS

\* The messages in order, and the new one after them, if its number is higher.
LEMMA AscendsOn ==
    ASSUME NEW q \in Seq(Message), Ascends(q), NEW e \in Message,
           \A i \in 1..Len(q) : q[i].sequence < e.sequence /\ q[i].msg # e.msg
    PROVE  Ascends(Append(q, e))
<1>1. PICK a : a = Append(q, e)
      OBVIOUS
<1>2. /\ Len(a) = Len(q) + 1 /\ Len(q) \in Nat
      /\ \A i \in 1..Len(q) : a[i] = q[i]
      /\ a[Len(q) + 1] = e
      /\ \A i \in 1..Len(q) + 1 : i \in 1..Len(q) \/ i = Len(q) + 1
      BY <1>1, AppendIs
<1>3. /\ \A i \in 1..Len(q) : q[i].sequence \in Nat
      /\ e.sequence \in Nat
  <2>1. \A i \in 1..Len(q) : q[i] \in Message
        BY Members
  <2> QED BY <2>1 DEF Message
<1>4. ASSUME NEW i \in 1..Len(q) + 1, NEW j \in 1..Len(q) + 1
      PROVE  /\ i < j => a[i].sequence <= a[j].sequence
             /\ a[i].msg = a[j].msg => i = j
  <2>1. CASE i \in 1..Len(q) /\ j \in 1..Len(q)
        BY <1>2, <2>1 DEF Ascends
  <2>2. CASE i \in 1..Len(q) /\ j = Len(q) + 1
        BY <1>2, <1>3, <2>2
  <2>3. CASE i = Len(q) + 1 /\ j \in 1..Len(q)
        BY <1>2, <2>3
  <2>4. CASE i = Len(q) + 1 /\ j = Len(q) + 1
        BY <1>2, <1>3, <2>4
  <2> QED BY <1>2, <2>1, <2>2, <2>3, <2>4
<1> QED BY <1>1, <1>2, <1>4 DEF Ascends

\* What add_message makes of a context.
LEMMA AddedIs ==
    ASSUME NEW c \in Context, NEW m \in Msgs, Ascends(c.recent),
           \A i \in 1..Len(c.recent) : c.recent[i].sequence <= c.last_sequence /\ c.recent[i].msg # m,
           NEW n, n = [sequence |-> c.last_sequence + 1, msg |-> m],
           NEW f, f = AddToContext(c, m)
    PROVE  /\ f \in Context /\ f.is_dirty
           /\ f.last_sequence = c.last_sequence + 1 /\ c.last_sequence \in Nat
           /\ Ascends(f.recent)
           /\ \A i \in 1..Len(f.recent) : f.recent[i].sequence <= f.last_sequence
           /\ ToSet(f.recent) \subseteq ToSet(c.recent) \cup {n}
           /\ HeldMsgs(c) \cup {m} \subseteq HeldMsgs(f)
<1>1. PICK q \in Seq(Message) : q = c.recent
      BY DEF Context
<1>2. c.last_sequence \in Nat /\ n \in Message /\ n.sequence = c.last_sequence + 1 /\ n.msg = m
      BY DEF Context, Message
<1>3. PICK a : a = Append(q, n)
      OBVIOUS
<1>4. /\ a \in Seq(Message) /\ Len(a) = Len(q) + 1 /\ Len(q) \in Nat
      /\ \A i \in 1..Len(q) : a[i] = q[i]
      /\ a[Len(q) + 1] = n
      /\ \A i \in 1..Len(q) + 1 : i \in 1..Len(q) \/ i = Len(q) + 1
      BY <1>2, <1>3, AppendIs
<1>5. \A i \in 1..Len(q) : /\ q[i].sequence \in Nat /\ q[i].sequence <= c.last_sequence
                           /\ q[i].sequence < n.sequence /\ q[i].msg # n.msg
  <2>1. \A i \in 1..Len(q) : q[i] \in Message
        BY Members
  <2>2. \A i \in 1..Len(q) : q[i].sequence \in Nat
        BY <2>1 DEF Message
  <2> QED BY <1>1, <1>2, <2>2
<1>6. Ascends(a)
      BY <1>1, <1>2, <1>3, <1>5, AscendsOn
<1>7. \A i \in 1..Len(a) : a[i].sequence <= n.sequence
      BY <1>2, <1>4, <1>5
<1>8. PICK d : d = [c EXCEPT !.last_sequence = @ + 1, !.recent = Append(@, n)]
      OBVIOUS
<1>9. /\ d \in Context /\ d.recent = a /\ d.last_sequence = n.sequence /\ d.windows = c.windows
  <2>1. d = [c EXCEPT !.last_sequence = n.sequence, !.recent = a]
        BY <1>1, <1>2, <1>3, <1>8
  <2>2. n.sequence \in Nat /\ a \in Seq(Message)
        BY <1>2, <1>4
  <2>3. d \in Context
        BY <2>1, <2>2 DEF Context
  <2>4. d.recent = a /\ d.last_sequence = n.sequence /\ d.windows = c.windows
        BY <2>1 DEF Context
  <2> QED BY <2>3, <2>4
<1>10. MessagesOf(c) \cup {n} \subseteq MessagesOf(d)
  <2>1. ToSet(q) \cup {n} \subseteq ToSet(a)
    <3>1. \A i \in 1..Len(a) : a[i] \in ToSet(a)
          BY <1>4, Members
    <3>2. \A x \in ToSet(q) : \E i \in 1..Len(q) : x = q[i]
          BY Members
    <3>3. Len(q) + 1 \in 1..Len(a) /\ \A i \in 1..Len(q) : i \in 1..Len(a)
          BY <1>4
    <3> QED BY <1>4, <3>1, <3>2, <3>3
  <2> QED BY <1>1, <1>9, <2>1 DEF MessagesOf
<1>11. PICK e : e = IF Len(d.recent) > MaxRecent THEN CreateWindow(d) ELSE d
       OBVIOUS
<1>12. /\ e \in Context /\ e.last_sequence = n.sequence
       /\ MessagesOf(d) \subseteq MessagesOf(e)
       /\ \E o \in Nat :
             /\ Len(e.recent) = Len(a) - o /\ o <= Len(a)
             /\ \A i \in 1..Len(a) - o : e.recent[i] = a[o + i]
  <2>1. CASE Len(d.recent) > MaxRecent
    <3>1. e = CreateWindow(d)
          BY <1>11, <2>1
    <3>2. /\ CreateWindow(d) \in Context /\ CreateWindow(d).last_sequence = d.last_sequence
          /\ MessagesOf(d) \subseteq MessagesOf(CreateWindow(d))
          /\ \E o \in Nat :
                /\ Len(CreateWindow(d).recent) = Len(d.recent) - o /\ o <= Len(d.recent)
                /\ \A i \in 1..Len(d.recent) - o : CreateWindow(d).recent[i] = d.recent[o + i]
          BY <1>9, <2>1, WindowIs
    <3> QED BY <1>9, <3>1, <3>2
  <2>2. CASE ~(Len(d.recent) > MaxRecent)
    <3>1. e = d
          BY <1>11, <2>2
    <3>2. /\ Len(a) \in Nat /\ 0 \in Nat /\ Len(a) = Len(a) - 0 /\ 0 <= Len(a)
          /\ \A i \in 1..Len(a) - 0 : a[i] = a[0 + i]
          BY <1>4
    <3>3. \E o \in Nat :
             /\ Len(e.recent) = Len(a) - o /\ o <= Len(a)
             /\ \A i \in 1..Len(a) - o : e.recent[i] = a[o + i]
          BY <1>9, <3>1, <3>2
    <3> QED BY <1>9, <3>1, <3>3
  <2> QED BY <2>1, <2>2
<1>13. PICK r \in Seq(Message) : r = e.recent
       BY <1>12 DEF Context
<1>14. PICK o \in Nat : /\ Len(r) = Len(a) - o /\ o <= Len(a)
                        /\ \A i \in 1..Len(a) - o : r[i] = a[o + i]
       BY <1>12, <1>13
<1>15. \A i \in 1..Len(r) : r[i] = a[o + i] /\ o + i \in 1..Len(a) /\ i \in Nat
       BY <1>4, <1>14
<1>16. Ascends(r) /\ \A i \in 1..Len(r) : r[i].sequence <= n.sequence
  <2>1. ASSUME NEW i \in 1..Len(r), NEW j \in 1..Len(r)
        PROVE  /\ i < j => r[i].sequence <= r[j].sequence
               /\ r[i].msg = r[j].msg => i = j
    <3>1. /\ o + i < o + j => a[o + i].sequence <= a[o + j].sequence
          /\ a[o + i].msg = a[o + j].msg => o + i = o + j
          BY <1>6, <1>15 DEF Ascends
    <3>2. r[i] = a[o + i] /\ r[j] = a[o + j] /\ i \in Nat /\ j \in Nat
          BY <1>15
    <3>3. (i < j => o + i < o + j) /\ (o + i = o + j => i = j)
          BY <3>2
    <3> QED BY <3>1, <3>2, <3>3
  <2>2. \A i \in 1..Len(r) : r[i].sequence <= n.sequence
        BY <1>7, <1>15
  <2> QED BY <2>1, <2>2 DEF Ascends
<1>17. ToSet(r) \subseteq ToSet(q) \cup {n}
  <2>1. \A i \in 1..Len(a) : a[i] \in ToSet(q) \cup {n}
    <3>1. \A i \in 1..Len(q) : q[i] \in ToSet(q)
          BY Members
    <3> QED BY <1>4, <3>1
  <2>2. ASSUME NEW x \in ToSet(r)
        PROVE  x \in ToSet(q) \cup {n}
    <3>1. PICK i \in 1..Len(r) : x = r[i]
          BY Members
    <3>2. r[i] = a[o + i] /\ o + i \in 1..Len(a)
          BY <1>15
    <3> QED BY <2>1, <3>1, <3>2
  <2> QED BY <2>2
<1>18. PICK g \in SUBSET Nat :
          g = IF (e.total_messages + 1) % SummaryThreshold = 0 THEN e.tasks \cup {0} ELSE e.tasks
  <2>1. e.tasks \subseteq Nat
        BY <1>12 DEF Context
  <2>2. PICK g : g = IF (e.total_messages + 1) % SummaryThreshold = 0 THEN e.tasks \cup {0} ELSE e.tasks
        OBVIOUS
  <2>3. g \subseteq Nat
        BY <2>1, <2>2
  <2> QED BY <2>2, <2>3
<1>19. PICK k \in Nat : k = e.total_messages + 1
  <2>1. e.total_messages \in Nat
        BY <1>12 DEF Context
  <2> QED BY <2>1
<1>20. f = [e EXCEPT !.total_messages = k, !.is_dirty = TRUE, !.tasks = g]
       BY <1>8, <1>11, <1>18, <1>19 DEF AddToContext
<1>21. f \in Context
       BY <1>12, <1>20 DEF Context
<1>22. f.is_dirty /\ f.recent = r /\ f.last_sequence = n.sequence /\ f.windows = e.windows
       BY <1>12, <1>13, <1>20 DEF Context
<1>23. MessagesOf(f) = MessagesOf(e)
       BY <1>13, <1>22 DEF MessagesOf
<1>24. HeldMsgs(c) \cup {m} \subseteq HeldMsgs(f)
  <2>1. MessagesOf(c) \cup {n} \subseteq MessagesOf(f)
        BY <1>10, <1>12, <1>23
  <2> QED BY <1>2, <2>1 DEF HeldMsgs
<1> QED BY <1>1, <1>2, <1>16, <1>17, <1>21, <1>22, <1>24

LEMMA AddCachedSound ==
    ASSUME ConversationInv, NEW s \in Sessions, AddCached(s)
    PROVE  ConversationInv'
<1>1. Remembered
      BY DEF ConversationInv
<1>2. PICK c : c = cache[s]
      OBVIOUS
<1>3. PICK f : f = AddToContext(c, fresh)
      OBVIOUS
<1>4. /\ busy = None /\ c # None /\ fresh <= MaxMsg
      /\ cache' = [cache EXCEPT ![s] = f] /\ lru' = Touch(s) /\ dirty' = dirty \cup {s}
      /\ accepted' = accepted \cup {fresh} /\ fresh' = fresh + 1
      /\ UNCHANGED <<rows, known, bound, writer, managed, raced, loader, busy, lost, revived>>
      BY <1>2, <1>3 DEF AddCached
<1>5. c \in Context /\ c \in ContextsOf(s)
      BY <1>1, <1>2, <1>4, MemoryShape DEF ContextsOf
<1>6. fresh \in Nat \ {0} /\ fresh \in Msgs /\ fresh' \in 1..(MaxMsg + 1) /\ fresh' \in Nat /\ fresh <= fresh'
  <2>1. fresh \in Nat \ {0} /\ MaxMsg \in Nat
        BY <1>1, LogAssumption DEF Remembered, ConversationTypeOK, LogTypeOK
  <2> QED BY <1>4, <2>1 DEF Msgs
<1>7. \A x \in Sessions : \A d \in Entries(x) : d.msg # fresh
  <2>1. ASSUME NEW x \in Sessions, NEW d \in Entries(x)
        PROVE  d.msg # fresh
    <3>1. d.msg < fresh /\ d.msg \in Nat
          BY <1>1, EntriesTyped, LogAssumption DEF ConversationInv, Below, Message, Msgs
    <3> QED BY <1>6, <3>1
  <2> QED BY <2>1
<1>8. PICK n : n = [sequence |-> c.last_sequence + 1, msg |-> fresh]
      OBVIOUS
<1>9. Ascends(c.recent) /\ \A i \in 1..Len(c.recent) :
          c.recent[i].sequence <= c.last_sequence /\ c.recent[i].msg # fresh
  <2>1. /\ Ascends(c.recent)
        /\ \A i \in 1..Len(c.recent) : c.recent[i].sequence <= c.last_sequence
        BY <1>5 DEF ConversationInv, InOrder
  <2>2. c.recent \in Seq(Message)
        BY <1>5 DEF Context
  <2>3. \A i \in 1..Len(c.recent) : c.recent[i] \in Entries(s)
        BY <1>5, <2>2, Members, IsEntry
  <2> QED BY <1>7, <2>1, <2>3
<1>10. /\ f \in Context /\ f.is_dirty
       /\ f.last_sequence = c.last_sequence + 1 /\ c.last_sequence \in Nat
       /\ Ascends(f.recent)
       /\ \A i \in 1..Len(f.recent) : f.recent[i].sequence <= f.last_sequence
       /\ ToSet(f.recent) \subseteq ToSet(c.recent) \cup {n}
       /\ HeldMsgs(c) \cup {fresh} \subseteq HeldMsgs(f)
  <2>1. PICK m \in Msgs : m = fresh
        BY <1>6
  <2>2. /\ c \in Context /\ Ascends(c.recent)
        /\ \A i \in 1..Len(c.recent) : c.recent[i].sequence <= c.last_sequence /\ c.recent[i].msg # m
        BY <1>5, <1>9, <2>1
  <2>3. n = [sequence |-> c.last_sequence + 1, msg |-> m] /\ f = AddToContext(c, m)
        BY <1>3, <1>8, <2>1
  <2>4. /\ f \in Context /\ f.is_dirty
        /\ f.last_sequence = c.last_sequence + 1 /\ c.last_sequence \in Nat
        /\ Ascends(f.recent)
        /\ \A i \in 1..Len(f.recent) : f.recent[i].sequence <= f.last_sequence
        /\ ToSet(f.recent) \subseteq ToSet(c.recent) \cup {n}
        /\ HeldMsgs(c) \cup {m} \subseteq HeldMsgs(f)
        BY <2>2, <2>3, AddedIs
  <2> QED BY <2>1, <2>4
<1>11. f # None
       BY <1>10, NoContext
<1>12. \A x \in Sessions : cache'[x] = IF x = s THEN f ELSE cache[x]
       BY <1>1, <1>4 DEF Remembered, ConversationTypeOK
<1>13. Remembered'
  <2>1. s \in ToSet(lru)
        BY <1>1, <1>2, <1>4 DEF Remembered, ConversationTypeOK
  <2>2. /\ lru' \in Seq(Sessions) /\ Distinctly(lru')
        /\ ToSet(lru') = ToSet(lru) /\ Len(lru') = Len(lru)
        BY <1>1, <1>4, <2>1, Touched DEF Remembered, ConversationTypeOK
  <2>3. ToSet(lru') = {x \in Sessions : cache'[x] # None}
        BY <1>1, <1>2, <1>4, <1>11, <1>12, <2>2 DEF Remembered, ConversationTypeOK
  <2>4. cache' \in [Sessions -> {None} \cup Context]
        BY <1>1, <1>4, <1>10 DEF Remembered, ConversationTypeOK
  <2>5. LogTypeOK'
        BY <1>1, <1>4, <1>6 DEF Remembered, ConversationTypeOK, LogTypeOK
  <2>6. accepted' \subseteq Msgs /\ lost' \subseteq accepted' /\ dirty' \subseteq Sessions
        BY <1>1, <1>4, <1>6 DEF Remembered, ConversationTypeOK
  <2>7. Len(lru') <= CacheSize /\ busy' = None /\ revived' \subseteq Sessions
        BY <1>1, <1>4, <2>2 DEF Remembered, ConversationTypeOK
  <2>8. loader' \in [Loaders -> {None} \cup [session : Sessions, ctx : Context, stale : BOOLEAN]]
        BY <1>1, <1>4 DEF Remembered, ConversationTypeOK
  <2> QED BY <2>2, <2>3, <2>4, <2>5, <2>6, <2>7, <2>8 DEF Remembered, ConversationTypeOK, Distinctly
<1>14. \A x \in Sessions : \A d \in ContextsOf(x)' : d \in ContextsOf(x) \/ (x = s /\ d = f)
  <2>1. ASSUME NEW x \in Sessions, NEW d \in ContextsOf(x)'
        PROVE  d \in ContextsOf(x) \/ (x = s /\ d = f)
    <3>1. CASE cache'[x] # None /\ d = cache'[x]
          BY <1>12, <3>1 DEF ContextsOf
    <3>2. CASE \E k \in Loaders : loader'[k] # None /\ loader'[k].session = x /\ d = loader'[k].ctx
          BY <1>4, <3>2 DEF ContextsOf
    <3> QED BY <2>1, <3>1, <3>2 DEF ContextsOf
  <2> QED BY <2>1
<1>15. ~Flushing' /\ \A x : RowsOf(x)' = RowsOf(x) /\ Unflushed(x)' = {}
       BY <1>4 DEF RowsOf, Unflushed, Flushing
<1>16. PICK X : X = {n}
       OBVIOUS
<1>17. \A x \in Sessions : Entries(x)' \subseteq Entries(x) \cup X
  <2>1. ASSUME NEW x \in Sessions
        PROVE  Entries(x)' \subseteq Entries(x) \cup X
    <3>1. \A r \in RowsOf(x)' : Entry(r) \in Entries(x) \cup X
          BY <1>15, IsEntry
    <3>2. ToSet(c.recent) \subseteq Entries(s)
          BY <1>5, IsEntry
    <3>3. \A d \in ContextsOf(x)' : ToSet(d.recent) \subseteq Entries(x) \cup X
          BY <1>10, <1>14, <1>16, <3>2, IsEntry
    <3>4. Unflushed(x)' \subseteq Entries(x) \cup X
          BY <1>15
    <3> QED BY <3>1, <3>3, <3>4, EntriesFrom
  <2> QED BY <2>1
<1>18. c.last_sequence < fresh
       BY <1>5 DEF ConversationInv, Below
<1>19. ASSUME NEW x \in Sessions, NEW d \in ContextsOf(x)'
       PROVE  d.last_sequence < fresh'
  <2>1. CASE d \in ContextsOf(x)
    <3>1. d.last_sequence < fresh /\ d.last_sequence \in Nat
          BY <1>1, <2>1, MemoryShape DEF ConversationInv, Below, Context
    <3> QED BY <1>4, <1>6, <3>1
  <2>2. CASE d = f
        BY <1>4, <1>6, <1>10, <1>18, <2>2
  <2> QED BY <1>14, <2>1, <2>2
<1>20. Below' /\ OneNumber' /\ Unseen'
  <2>1. Below /\ OneNumber /\ Unseen
        BY DEF ConversationInv
  <2>2. \A x \in Sessions : \E t \in Sessions : Entries(x)' \subseteq Entries(t) \cup X
        BY <1>17
  <2>3. /\ \A a, b \in X : a = b
        /\ \A a \in X : \A x \in Sessions : \A d \in Entries(x) : d.msg # a.msg
        BY <1>7, <1>8, <1>16
  <2>4. \A a \in X : a \in Message /\ a.msg < fresh' /\ a.sequence < fresh'
    <3>1. n \in Message /\ n.msg = fresh /\ n.sequence = c.last_sequence + 1
          BY <1>6, <1>8, <1>10 DEF Message
    <3>2. n.msg < fresh' /\ n.sequence < fresh'
          BY <1>4, <1>6, <1>10, <1>18, <3>1
    <3> QED BY <1>16, <3>1, <3>2
  <2>5. ASSUME NEW w \in Writers, writer'[w] # None
        PROVE  writer'[w] = writer[w] /\ \A a \in X : a.msg # writer[w].row.msg
    <3>1. writer[w] \in [row : Draft, base : Int]
          BY <1>1, <1>4, <2>5 DEF Remembered, ConversationTypeOK, LogTypeOK
    <3>2. writer[w].row.msg \in Nat /\ writer[w].row.msg < fresh
          BY <1>4, <2>1, <2>5, <3>1, LogAssumption DEF Below, Draft, Msgs
    <3>3. n.msg = fresh
          BY <1>8
    <3> QED BY <1>4, <1>6, <1>16, <3>2, <3>3
  <2> QED BY <1>1, <1>6, <1>19, <2>1, <2>2, <2>3, <2>4, <2>5, EntriesGrow
<1>21. OfKnown'
  <2>1. OfKnown
        BY DEF ConversationInv
  <2>2. \A x \in Sessions : ContextsOf(x)' # {} => x \in known'
        BY <1>4, <1>5, <1>14, <2>1 DEF OfKnown
  <2> QED BY <1>4, <1>15, <2>1, <2>2 DEF OfKnown
<1>22. InOrder'
  <2>1. InOrder
        BY DEF ConversationInv
  <2>2. \A x \in Sessions : \A d \in ContextsOf(x)' :
            /\ Ascends(d.recent)
            /\ \A i \in 1..Len(d.recent) : d.recent[i].sequence <= d.last_sequence
        BY <1>10, <1>14, <2>1 DEF InOrder
  <2> QED BY <1>15, <2>2 DEF InOrder
<1>23. LoadedIsStored'
  <2>1. LoadedIsStored /\ rows \subseteq rows' /\ \A l \in Loaders : loader'[l] # None => loader'[l] = loader[l]
        BY <1>4 DEF ConversationInv
  <2> QED BY <2>1, LoadedKept
<1>24. Covered'
       BY <1>15 DEF Covered
<1>25. CleanIsStored'
  <2>1. CleanIsStored /\ rows \subseteq rows'
        BY <1>4 DEF ConversationInv
  <2>2. \A x \in Sessions \ revived' : cache'[x] # None /\ ~cache'[x].is_dirty =>
            /\ x \notin revived /\ cache[x] # None /\ ~cache[x].is_dirty
            /\ cache'[x].recent = cache[x].recent
        BY <1>4, <1>10, <1>12
  <2> QED BY <2>1, <2>2, CleanKept
<1>26. AcceptedAccounted'
  <2>1. AcceptedAccounted
        BY DEF ConversationInv
  <2>2. ASSUME NEW m \in accepted' \ lost', ~\E r \in rows' : r.msg = m
        PROVE  \E x \in Sessions : cache'[x] # None /\ m \in HeldMsgs(cache'[x])
    <3>1. CASE m = fresh
          BY <1>10, <1>11, <1>12, <3>1
    <3>2. CASE m # fresh
      <4>1. m \in accepted \ lost /\ ~Stored(m)
            BY <1>4, <2>2, <3>2 DEF Stored
      <4>2. PICK x \in Sessions : cache[x] # None /\ m \in HeldMsgs(cache[x])
            BY <2>1, <4>1 DEF AcceptedAccounted
      <4>3. CASE x = s
            BY <1>2, <1>10, <1>11, <1>12, <4>2, <4>3
      <4>4. CASE x # s
            BY <1>12, <4>2, <4>4
      <4> QED BY <4>3, <4>4
    <3> QED BY <3>1, <3>2
  <2> QED BY <2>2 DEF AcceptedAccounted, Stored, HeldMsgs, MessagesOf
<1>27. WrittenOnce' /\ ZeroUntilManaged' /\ OrderedUnlessRaced' /\ ZeroAhead' /\ Numbering'
       BY <1>4, <1>15 DEF ConversationInv, WrittenOnce, ZeroUntilManaged, OrderedUnlessRaced,
          ZeroAhead, Numbering,
                          SequencesOf
<1> QED BY <1>13, <1>20, <1>21, <1>22, <1>23, <1>24, <1>25, <1>26, <1>27 DEF ConversationInv

-----------------------------------------------------------------------------
(* Rows are committed.                                                     *)

LEMMA PersistCommitSound ==
    ASSUME ConversationInv, NEW w \in Writers, PersistCommit(w), UNCHANGED manager
    PROVE  ConversationInv'
<1>1. Remembered /\ LogTypeOK
      BY DEF ConversationInv, Remembered, ConversationTypeOK
<1>2. PICK r : r = writer[w].row
      OBVIOUS
<1>3. /\ writer[w] # None /\ Insert(<<r>>)
      /\ raced' = IF writer[w].base # MaxSequence(r.session) THEN raced \cup {r.session} ELSE raced
      /\ writer' = [writer EXCEPT ![w] = None]
      /\ UNCHANGED <<known, bound, fresh, managed>>
      /\ UNCHANGED <<cache, lru, dirty, loader, busy, accepted, lost, revived>>
      BY <1>2 DEF PersistCommit, manager
<1>4. writer[w] \in [row : Draft, base : Int]
      BY <1>1, <1>3 DEF LogTypeOK
<1>5. r \in Draft /\ r.session \in Sessions /\ r.sequence \in Nat /\ r.msg \in Msgs /\ r.msg \in Nat
      BY <1>2, <1>4, LogAssumption DEF Draft, Msgs
<1>6. PICK t \in Sessions : t = r.session
      BY <1>5
<1>7. PICK new : new = Became(r, End + 1)
      OBVIOUS
<1>8. /\ rows' = rows \cup {new} /\ rows' \subseteq Row
      /\ \A x, y \in rows' : x.at = y.at => x = y
      /\ \A x \in rows : x.at <= End
      /\ End \in Nat
  <2>0. <<r>> \in Seq(Draft)
        BY <1>5
  <2>1. PICK q \in Seq(Draft) : q = <<r>>
        BY <2>0
  <2>2. /\ rows' = rows \cup {Became(q[i], End + i) : i \in 1..Len(q)}
        /\ rows' \subseteq Row
        /\ \A x, y \in rows' : x.at = y.at => x = y
        /\ \A x \in rows : x.at <= End
        /\ End \in Nat
        BY <1>1, <1>3, <2>1, Inserted
  <2>3. Len(q) = 1 /\ q[1] = r
        BY <2>1
  <2>4. {Became(q[i], End + i) : i \in 1..Len(q)} = {new}
        BY <1>7, <2>3
  <2> QED BY <2>2, <2>4
<1>9. /\ new.session = t /\ new.sequence = r.sequence /\ new.msg = r.msg /\ new.at = End + 1
      BY <1>6, <1>7 DEF Became
<1>10. /\ writer[w].row.session \in known /\ t \in known
       BY <1>2, <1>3, <1>6 DEF ConversationInv, OfKnown
<1>11. \A v \in Writers : writer'[v] = IF v = w THEN None ELSE writer[v]
       BY <1>1, <1>3 DEF LogTypeOK
<1>12. Remembered'
  <2>1. writer' \in [Writers -> {None} \cup [row : Draft, base : Int]]
        BY <1>1, <1>3 DEF LogTypeOK
  <2>2. raced' \subseteq known'
        BY <1>1, <1>3, <1>6, <1>10 DEF LogTypeOK
  <2>3. LogTypeOK'
        BY <1>1, <1>3, <1>8, <2>1, <2>2 DEF LogTypeOK
  <2> QED BY <1>1, <1>3, <2>3 DEF Remembered, ConversationTypeOK, Distinctly
<1>13. rows \subseteq rows' /\ \A x \in rows' : x \in rows \/ x = new
       BY <1>8
<1>14. \A x : /\ ContextsOf(x)' = ContextsOf(x) /\ Unflushed(x)' = Unflushed(x)
       BY <1>3 DEF ContextsOf, Unflushed, Flushing
<1>15. Flushing' = Flushing
       BY <1>3 DEF Flushing
<1>16. PICK X : X = {Entry(r)}
       OBVIOUS
<1>17. \A x \in Sessions : \A c \in Entries(x) : c.msg # r.msg
       BY <1>2, <1>3 DEF ConversationInv, Unseen
<1>18. \A x \in Sessions : Entries(x)' \subseteq Entries(x) \cup X
  <2>1. ASSUME NEW x \in Sessions
        PROVE  Entries(x)' \subseteq Entries(x) \cup X
    <3>1. ASSUME NEW y \in RowsOf(x)'
          PROVE  Entry(y) \in Entries(x) \cup X
      <4>1. CASE y \in rows
        <5>1. y \in RowsOf(x)
              BY <3>1, <4>1 DEF RowsOf
        <5> QED BY <5>1, IsEntry
      <4>2. CASE y = new
        <5>1. Entry(y) = Entry(r)
              BY <1>9, <4>2 DEF Entry
        <5> QED BY <1>16, <5>1
      <4> QED BY <1>13, <3>1, <4>1, <4>2 DEF RowsOf
    <3>2. \A d \in ContextsOf(x)' : ToSet(d.recent) \subseteq Entries(x) \cup X
          BY <1>14, IsEntry
    <3>3. Unflushed(x)' \subseteq Entries(x) \cup X
          BY <1>14, IsEntry
    <3> QED BY <3>1, <3>2, <3>3, EntriesFrom
  <2> QED BY <2>1
<1>19. Below' /\ OneNumber' /\ Unseen'
  <2>1. Below /\ OneNumber /\ Unseen
        BY DEF ConversationInv
  <2>2. \A x \in Sessions : \E y \in Sessions : Entries(x)' \subseteq Entries(y) \cup X
        BY <1>18
  <2>3. /\ \A a, b \in X : a = b
        /\ \A a \in X : \A x \in Sessions : \A d \in Entries(x) : d.msg # a.msg
        BY <1>16, <1>17, EntryHas
  <2>4. \A a \in X : a \in Message /\ a.msg < fresh' /\ a.sequence < fresh'
    <3>1. Entry(r) \in Message
          BY <1>5 DEF Entry, Message
    <3>2. r.msg < fresh /\ r.sequence < fresh
          BY <1>2, <1>3, <2>1 DEF Below
    <3> QED BY <1>3, <1>16, <3>1, <3>2, EntryHas
  <2>5. ASSUME NEW v \in Writers, writer'[v] # None
        PROVE  writer'[v] = writer[v] /\ \A a \in X : a.msg # writer[v].row.msg
    <3>1. v # w /\ writer'[v] = writer[v]
          BY <1>11, <2>5
    <3>2. writer[v].row.msg # r.msg
          BY <1>2, <1>3, <2>1, <2>5, <3>1 DEF Unseen
    <3> QED BY <1>16, <3>1, <3>2, EntryHas
  <2>6. fresh' \in Nat /\ fresh <= fresh'
        BY <1>1, <1>3, LogAssumption DEF LogTypeOK
  <2>7. \A x \in Sessions : \A d \in ContextsOf(x)' : d.last_sequence < fresh'
        BY <1>3, <1>14, <2>1 DEF Below
  <2> QED BY <1>1, <2>1, <2>2, <2>3, <2>4, <2>5, <2>6, <2>7, EntriesGrow
<1>20. OfKnown'
  <2>1. OfKnown
        BY DEF ConversationInv
  <2>2. \A x \in rows' : x.session \in known'
        BY <1>3, <1>9, <1>10, <1>13, <2>1 DEF OfKnown
  <2> QED BY <1>3, <1>11, <1>14, <1>15, <2>1, <2>2 DEF OfKnown
<1>21. InOrder'
  <2>1. InOrder
        BY DEF ConversationInv
  <2>2. \A x \in Sessions : \A d \in ContextsOf(x)' :
            /\ Ascends(d.recent)
            /\ \A i \in 1..Len(d.recent) : d.recent[i].sequence <= d.last_sequence
        BY <1>14, <2>1 DEF InOrder
  <2>3. ASSUME Flushing
        PROVE  /\ Ascends(busy.missing)
               /\ \A i \in 1..Len(busy.missing), x \in rows' :
                      x.session = busy.session => x.msg # busy.missing[i].msg
    <3>1. /\ Ascends(busy.missing)
          /\ \A i \in 1..Len(busy.missing), x \in rows :
                 x.session = busy.session => x.msg # busy.missing[i].msg
          BY <2>1, <2>3 DEF InOrder, RowsOf
    <3>2. ASSUME NEW i \in 1..Len(busy.missing)
          PROVE  busy.missing[i].msg # r.msg
      <4>1. busy.session \in Sessions /\ busy.missing \in Seq(Message)
            BY <1>1, <2>3, FlushShape
      <4>2. busy.missing[i] \in Entries(busy.session)
        <5>1. busy.missing[i] \in Unflushed(busy.session)
              BY <2>3, <4>1, Members DEF Unflushed
        <5> QED BY <5>1, IsEntry
      <4> QED BY <1>17, <4>1, <4>2
    <3> QED BY <1>9, <1>13, <3>1, <3>2
  <2> QED BY <1>3, <1>15, <2>2, <2>3 DEF InOrder, RowsOf
<1>22. LoadedIsStored'
  <2>1. LoadedIsStored /\ \A l \in Loaders : loader'[l] # None => loader'[l] = loader[l]
        BY <1>3 DEF ConversationInv
  <2> QED BY <1>13, <2>1, LoadedKept
<1>23. Covered'
  <2>1. Covered /\ SameFlush
        BY <1>3, <1>15 DEF ConversationInv, SameFlush
  <2>2. Flushing' /\ busy'.same =>
               /\ cache'[busy.session] # None
               /\ cache'[busy.session].recent = cache[busy.session].recent
        BY <1>3, <1>15, <2>1 DEF Covered
  <2> QED BY <1>13, <2>1, <2>2, CoveredKept
<1>24. CleanIsStored'
  <2>1. CleanIsStored
        BY DEF ConversationInv
  <2>2. \A x \in Sessions \ revived' : cache'[x] # None /\ ~cache'[x].is_dirty =>
            /\ x \notin revived /\ cache[x] # None /\ ~cache[x].is_dirty
            /\ cache'[x].recent = cache[x].recent
        BY <1>3
  <2> QED BY <1>13, <2>1, <2>2, CleanKept
<1>25. AcceptedAccounted'
  <2>1. AcceptedAccounted /\ accepted' \ lost' \subseteq accepted \ lost
        BY <1>3 DEF ConversationInv
  <2>2. \A x \in Sessions : cache[x] # None =>
            cache'[x] # None /\ HeldMsgs(cache[x]) \subseteq HeldMsgs(cache'[x])
        BY <1>3
  <2> QED BY <1>13, <2>1, <2>2, AcceptedKept
<1>26. WrittenOnce'
  <2>1. \A x \in rows : x.session = t => x.msg # r.msg
    <3>1. ASSUME NEW x \in rows, x.session = t
          PROVE  x.msg # r.msg
      <4>1. Entry(x) \in Entries(t)
            BY <3>1, IsEntry DEF RowsOf
      <4> QED BY <1>17, <4>1, EntryHas
    <3> QED BY <3>1
  <2> QED BY <1>9, <1>13, <2>1 DEF ConversationInv, WrittenOnce
<1>27. ZeroUntilManaged'
  <2>1. t \notin managed => r.sequence = 0
        BY <1>2, <1>3, <1>6 DEF ConversationInv, ZeroAhead
  <2>2. ASSUME NEW x \in known \ managed, NEW y \in rows', y.session = x
        PROVE  y.sequence = 0
    <3>1. CASE y \in rows
          BY <2>2, <3>1 DEF ConversationInv, ZeroUntilManaged, SequencesOf, RowsOf
    <3>2. CASE y = new
          BY <1>9, <2>1, <2>2, <3>2
    <3> QED BY <1>13, <3>1, <3>2
  <2> QED BY <1>3, <2>2 DEF ZeroUntilManaged, SequencesOf, RowsOf
<1>28. OrderedUnlessRaced'
  <2>1. ASSUME NEW x \in known \ raced', NEW y \in rows', NEW z \in rows',
               y.session = x, z.session = x, y.at < z.at
        PROVE  y.sequence <= z.sequence
    <3>1. x \notin raced
          BY <1>3, <2>1
    <3>2. CASE y \in rows /\ z \in rows
          BY <2>1, <3>1, <3>2 DEF ConversationInv, OrderedUnlessRaced, RowsOf
    <3>3. CASE y \in rows /\ z = new
      <4>1. x = t /\ y \in RowsOf(t)
            BY <1>9, <2>1, <3>3 DEF RowsOf
      <4>2. writer[w].base = MaxSequence(t)
            BY <1>3, <1>6, <2>1, <4>1
      <4>3. y.sequence <= MaxSequence(t) /\ y.sequence \in Nat /\ MaxSequence(t) \in Int
            BY <4>1, MaxSequenceIs DEF SequencesOf
      <4>4. r.sequence >= writer[w].base
            BY <1>2, <1>3 DEF ConversationInv, Numbering
      <4> QED BY <1>5, <1>9, <3>3, <4>2, <4>3, <4>4
    <3>4. CASE y = new
      <4>1. z.at \in Nat
            BY <1>8 DEF Row
      <4>2. z.at <= End + 1
            BY <1>8, <1>9, <1>13, <4>1
      <4> QED BY <1>8, <1>9, <2>1, <3>4, <4>1, <4>2
    <3> QED BY <1>13, <3>2, <3>3, <3>4
  <2> QED BY <1>3, <2>1 DEF OrderedUnlessRaced, RowsOf
<1>29. ZeroAhead' /\ Numbering'
       BY <1>3, <1>11 DEF ConversationInv, ZeroAhead, Numbering
<1> QED BY <1>12, <1>19, <1>20, <1>21, <1>22, <1>23, <1>24, <1>25, <1>26, <1>27, <1>28,
           <1>29 DEF ConversationInv

\* The context of which stop() has written the messages.
LEMMA CleanedIs ==
    ASSUME NEW c \in Context, NEW d, d = [c EXCEPT !.is_dirty = FALSE]
    PROVE  /\ d \in Context /\ d # None
           /\ d.recent = c.recent /\ d.last_sequence = c.last_sequence
           /\ ~d.is_dirty /\ HeldMsgs(d) = HeldMsgs(c)
<1>1. /\ d \in Context /\ d.recent = c.recent /\ d.last_sequence = c.last_sequence
      /\ d.windows = c.windows /\ ~d.is_dirty
      BY DEF Context
<1>2. HeldMsgs(d) = HeldMsgs(c)
      BY <1>1 DEF HeldMsgs, MessagesOf
<1> QED BY <1>1, <1>2, NoContext

\* The rows that stop() commits.
LEMMA FlushedIs ==
    ASSUME ConversationInv, FlushCommit
    PROVE  /\ Flushing /\ busy.session \in Sessions /\ busy.missing \in Seq(Message)
           /\ FlushedRows \in Seq(Draft) /\ Len(FlushedRows) = Len(busy.missing) /\ Len(busy.missing) \in Nat
           /\ \A i \in 1..Len(busy.missing) :
                 /\ FlushedRows[i] = [session |-> busy.session, sequence |-> busy.missing[i].sequence,
                                      msg |-> busy.missing[i].msg]
                 /\ busy.missing[i] \in Message
<1>1. Flushing
      BY DEF FlushCommit, Flushing
<1>2. busy.session \in Sessions /\ busy.missing \in Seq(Message)
      BY <1>1, FlushShape DEF ConversationInv
<1>3. PICK q \in Seq(Message) : q = busy.missing
      BY <1>2
<1>4. DOMAIN q = 1..Len(q) /\ Len(q) \in Nat /\ \A i \in 1..Len(q) : q[i] \in Message
      BY Members
<1>5. PICK s \in Sessions : s = busy.session
      BY <1>2
<1>6. \A i \in 1..Len(q) : [session |-> s, sequence |-> q[i].sequence, msg |-> q[i].msg] \in Draft
      BY <1>4 DEF Draft, Message
<1>7. FlushedRows = [i \in 1..Len(q) |-> [session |-> s, sequence |-> q[i].sequence, msg |-> q[i].msg]]
      BY <1>3, <1>4, <1>5 DEF FlushedRows
<1>8. FlushedRows \in Seq(Draft) /\ Len(FlushedRows) = Len(q)
  <2>1. FlushedRows \in [1..Len(q) -> Draft]
        BY <1>6, <1>7
  <2> QED BY <1>4, <2>1
<1>9. \A i \in 1..Len(q) :
          FlushedRows[i] = [session |-> s, sequence |-> q[i].sequence, msg |-> q[i].msg]
      BY <1>7
<1> QED BY <1>1, <1>2, <1>3, <1>4, <1>5, <1>8, <1>9

LEMMA FlushCommitSound ==
    ASSUME ConversationInv, FlushCommit
    PROVE  ConversationInv'
<1>1. Remembered /\ LogTypeOK
      BY DEF ConversationInv, Remembered, ConversationTypeOK
<1>2. PICK s \in Sessions : s = busy.session
      BY FlushedIs
<1>3. PICK q \in Seq(Message) : q = busy.missing
      BY FlushedIs
<1>4. PICK f \in Seq(Draft) : f = FlushedRows
      BY FlushedIs
<1>5. /\ Flushing /\ Len(f) = Len(q) /\ Len(q) \in Nat
      /\ \A i \in 1..Len(q) : f[i] = [session |-> s, sequence |-> q[i].sequence, msg |-> q[i].msg]
      /\ \A i \in 1..Len(q) : q[i] \in Message
      BY <1>2, <1>3, <1>4, FlushedIs
<1>6. /\ Insert(f)
      /\ cache' = IF busy.same THEN [cache EXCEPT ![s].is_dirty = FALSE] ELSE cache
      /\ busy' \in {None, [busy EXCEPT !.session = None]}
      /\ managed' = IF q = << >> THEN managed ELSE managed \cup {s}
      /\ raced' = IF q # << >> /\ (busy.base # MaxSequence(s) \/ q[1].sequence < MaxSequence(s))
                  THEN raced \cup {s} ELSE raced
      /\ lost' = lost \ {d.msg : d \in ToSet(f)}
      /\ UNCHANGED <<known, bound, writer, fresh, lru, dirty, loader, accepted, revived>>
  <2>1. /\ Insert(f) /\ lost' = lost \ {d.msg : d \in ToSet(f)}
        BY <1>4 DEF FlushCommit
  <2>2. cache' = IF busy.same THEN [cache EXCEPT ![s].is_dirty = FALSE] ELSE cache
        BY <1>2 DEF FlushCommit
  <2>3. busy' \in {None, [busy EXCEPT !.session = None]}
        BY DEF FlushCommit
  <2>4. /\ managed' = IF busy.missing = << >> THEN managed ELSE managed \cup {busy.session}
        /\ raced' = IF /\ busy.missing # << >>
                       /\ \/ busy.base # MaxSequence(busy.session)
                          \/ busy.missing[1].sequence < MaxSequence(busy.session)
                    THEN raced \cup {busy.session} ELSE raced
        BY DEF FlushCommit
  <2>5. UNCHANGED <<known, bound, writer, fresh, lru, dirty, loader, accepted, revived>>
        BY DEF FlushCommit
  <2> QED BY <1>2, <1>3, <2>1, <2>2, <2>3, <2>4, <2>5
<1>7. \A i \in 1..Len(q) : /\ f[i].session = s /\ f[i].sequence = q[i].sequence /\ f[i].msg = q[i].msg
                           /\ q[i].sequence \in Nat
  <2>1. \A i \in 1..Len(q) : q[i].sequence \in Nat
        BY <1>5 DEF Message
  <2>2. ASSUME NEW i \in 1..Len(q)
        PROVE  f[i].session = s /\ f[i].sequence = q[i].sequence /\ f[i].msg = q[i].msg
    <3>1. PICK d : d = [session |-> s, sequence |-> q[i].sequence, msg |-> q[i].msg]
          OBVIOUS
    <3>2. d.session = s /\ d.sequence = q[i].sequence /\ d.msg = q[i].msg
          BY <3>1, Zenon
    <3>3. f[i] = d
          BY <1>5, <3>1
    <3> QED BY <3>2, <3>3
  <2> QED BY <2>1, <2>2
<1>8. /\ rows' = rows \cup {Became(f[i], End + i) : i \in 1..Len(q)}
      /\ rows' \subseteq Row
      /\ \A x, y \in rows' : x.at = y.at => x = y
      /\ \A x \in rows : x.at <= End
      /\ End \in Nat
      BY <1>1, <1>5, <1>6, Inserted
<1>9. /\ rows \subseteq rows'
      /\ \A x \in rows' : \/ x \in rows
                          \/ \E i \in 1..Len(q) : x = Became(f[i], End + i)
      /\ \A i \in 1..Len(q) : Became(f[i], End + i) \in rows'
      BY <1>8
<1>10. \A i \in 1..Len(q) : LET x == Became(f[i], End + i) IN
          x.session = s /\ x.sequence = q[i].sequence /\ x.msg = q[i].msg /\ x.at = End + i
      BY <1>7 DEF Became
<1>11. s \in known
      BY <1>2, <1>5 DEF ConversationInv, OfKnown
<1>12. ~Flushing'
  <2>1. CASE busy' = None
        BY <2>1 DEF Flushing
  <2>2. CASE busy' = [busy EXCEPT !.session = None]
    <3>1. "session" \in DOMAIN busy
          BY <1>1, <1>5, FlushShape
    <3>2. busy'.session = None
          BY <2>2, <3>1
    <3> QED BY <3>2 DEF Flushing
  <2> QED BY <1>6, <2>1, <2>2
<1>13. busy.same => cache[s] # None /\ cache[s] \in Context
      BY <1>1, <1>2, <1>5, MemoryShape DEF ConversationInv, Covered
<1>14. PICK c : c = [cache[s] EXCEPT !.is_dirty = FALSE]
      OBVIOUS
<1>15. busy.same =>
          /\ c \in Context /\ c # None /\ c.recent = cache[s].recent
          /\ c.last_sequence = cache[s].last_sequence
          /\ ~c.is_dirty /\ HeldMsgs(c) = HeldMsgs(cache[s])
      BY <1>13, <1>14, CleanedIs
<1>16. \A x \in Sessions : cache'[x] = IF busy.same /\ x = s THEN c ELSE cache[x]
      BY <1>1, <1>6, <1>14 DEF Remembered, ConversationTypeOK
<1>17. \A x \in Sessions :
          /\ cache[x] = None <=> cache'[x] = None
          /\ cache[x] # None => /\ cache'[x].recent = cache[x].recent
                                /\ cache'[x].last_sequence = cache[x].last_sequence
                                /\ HeldMsgs(cache'[x]) = HeldMsgs(cache[x])
      BY <1>13, <1>15, <1>16
<1>18. Remembered'
  <2>1. cache' \in [Sessions -> {None} \cup Context]
    <3>1. DOMAIN cache' = Sessions /\ cache' = [x \in Sessions |-> cache'[x]]
          BY <1>1, <1>6 DEF Remembered, ConversationTypeOK
    <3>2. \A x \in Sessions : cache'[x] \in {None} \cup Context
          BY <1>1, <1>15, <1>16 DEF Remembered, ConversationTypeOK
    <3> QED BY <3>1, <3>2
  <2>2. ToSet(lru') = {x \in Sessions : cache'[x] # None}
        BY <1>1, <1>6, <1>17 DEF Remembered, ConversationTypeOK
  <2>3. LogTypeOK'
    <3>1. managed' \subseteq known' /\ raced' \subseteq known'
          BY <1>1, <1>6, <1>11 DEF LogTypeOK
    <3> QED BY <1>1, <1>6, <1>8, <3>1 DEF LogTypeOK
  <2>4. \/ busy' = None
        \/ busy' \in [op : {"flush"}, session : {None} \cup Sessions,
                      missing : Seq(Message), base : Int, same : BOOLEAN, mutated : BOOLEAN]
    <3>1. busy \in [op : {"flush"}, session : {None} \cup Sessions,
                    missing : Seq(Message), base : Int, same : BOOLEAN, mutated : BOOLEAN]
      <4>1. busy # None /\ busy.op = "flush"
            BY <1>5 DEF Flushing
      <4>2. busy \notin [op : {"clear"}, session : Sessions]
            BY <4>1
      <4> QED BY <1>1, <4>1, <4>2 DEF Remembered, ConversationTypeOK
    <3> QED BY <1>6, <3>1
  <2>5. lost' \subseteq accepted'
        BY <1>1, <1>6 DEF Remembered, ConversationTypeOK
  <2> QED BY <1>1, <1>6, <2>1, <2>2, <2>3, <2>4, <2>5 DEF Remembered, ConversationTypeOK, Distinctly
<1>19. OldContexts
  <2>1. ASSUME NEW x \in Sessions, NEW d \in ContextsOf(x)'
        PROVE  \E e \in ContextsOf(x) : d.recent = e.recent /\ d.last_sequence = e.last_sequence
    <3>1. CASE cache'[x] # None /\ d = cache'[x]
      <4>1. cache[x] \in ContextsOf(x)
            BY <1>17, <3>1 DEF ContextsOf
      <4> QED BY <1>17, <3>1, <4>1
    <3>2. CASE \E l \in Loaders : loader[l] # None /\ loader[l].session = x /\ d = loader[l].ctx
          BY <3>2 DEF ContextsOf
    <3> QED BY <1>6, <2>1, <3>1, <3>2 DEF ContextsOf
  <2> QED BY <2>1 DEF OldContexts
<1>20. InOrder /\ Ascends(q) /\ \A i \in 1..Len(q), r \in rows : r.session = s => r.msg # q[i].msg
      BY <1>2, <1>3, <1>5 DEF ConversationInv, InOrder, RowsOf
<1>21. \A x \in Sessions : Entries(x)' \subseteq Entries(x)
  <2>1. ASSUME NEW x \in Sessions
        PROVE  Entries(x)' \subseteq Entries(x)
    <3>0. PICK X : X = {}
          OBVIOUS
    <3>1. ASSUME NEW y \in RowsOf(x)'
          PROVE  Entry(y) \in Entries(x) \cup X
      <4>1. CASE y \in rows
        <5>1. y \in RowsOf(x)
              BY <3>1, <4>1 DEF RowsOf
        <5> QED BY <5>1, IsEntry
      <4>2. CASE \E i \in 1..Len(q) : y = Became(f[i], End + i)
        <5>1. PICK i \in 1..Len(q) : y = Became(f[i], End + i)
              BY <4>2
        <5>2. y.session = s /\ y.sequence = q[i].sequence /\ y.msg = q[i].msg /\ y.session = x
              BY <1>10, <3>1, <5>1 DEF RowsOf
        <5>3. Entry(y) = q[i]
              BY <1>5, <5>2 DEF Entry, Message
        <5>4. q[i] \in Unflushed(s)
              BY <1>2, <1>3, <1>5, Members DEF Unflushed
        <5> QED BY <5>2, <5>3, <5>4, IsEntry
      <4> QED BY <1>9, <3>1, <4>1, <4>2 DEF RowsOf
    <3>2. ASSUME NEW d \in ContextsOf(x)'
          PROVE  ToSet(d.recent) \subseteq Entries(x) \cup X
      <4>1. PICK e \in ContextsOf(x) : d.recent = e.recent
            BY <1>19 DEF OldContexts
      <4> QED BY <4>1, IsEntry
    <3>3. Unflushed(x)' \subseteq Entries(x) \cup X
          BY <1>12 DEF Unflushed
    <3>4. Entries(x)' \subseteq Entries(x) \cup X
          BY <3>1, <3>2, <3>3, EntriesFrom
    <3> QED BY <3>0, <3>4
  <2> QED BY <2>1
<1>22. Below' /\ OneNumber' /\ Unseen'
  <2>1. PICK X : X = {}
        OBVIOUS
  <2>2. Below /\ OneNumber /\ Unseen
        BY DEF ConversationInv
  <2>3. \A x \in Sessions : \E y \in Sessions : Entries(x)' \subseteq Entries(y) \cup X
        BY <1>21
  <2>4. /\ \A a, b \in X : a = b
        /\ \A a \in X : a \in Message /\ a.msg < fresh' /\ a.sequence < fresh'
        /\ \A a \in X : \A x \in Sessions : \A d \in Entries(x) : d.msg # a.msg
        BY <2>1
  <2>5. \A v \in Writers : writer'[v] # None =>
            writer'[v] = writer[v] /\ \A a \in X : a.msg # writer[v].row.msg
        BY <1>6, <2>1
  <2>6. fresh' \in Nat /\ fresh <= fresh'
        BY <1>1, <1>6, LogAssumption DEF LogTypeOK
  <2>7. \A x \in Sessions : \A d \in ContextsOf(x)' : d.last_sequence < fresh'
        BY <1>6, <1>19, <2>2 DEF Below, OldContexts
  <2> QED BY <1>1, <2>2, <2>3, <2>4, <2>5, <2>6, <2>7, EntriesGrow
<1>23. OfKnown'
  <2>1. OfKnown
        BY DEF ConversationInv
  <2>2. \A x \in rows' : x.session \in known'
        BY <1>6, <1>9, <1>10, <1>11, <2>1 DEF OfKnown
  <2>3. \A x \in Sessions : ContextsOf(x)' # {} => x \in known'
        BY <1>6, <1>19, <2>1 DEF OfKnown, OldContexts
  <2> QED BY <1>6, <1>12, <2>1, <2>2, <2>3 DEF OfKnown
<1>24. InOrder' /\ Covered'
      BY <1>12, <1>19, <1>20 DEF InOrder, OldContexts, Covered
<1>25. LoadedIsStored'
  <2>1. LoadedIsStored /\ \A l \in Loaders : loader'[l] # None => loader'[l] = loader[l]
        BY <1>6 DEF ConversationInv
  <2> QED BY <1>9, <2>1, LoadedKept
<1>26. CleanIsStored'
  <2>1. CleanIsStored
        BY DEF ConversationInv
  <2>2. ASSUME busy.same
        PROVE  {m.sequence : m \in ToSet(c.recent)} \subseteq SequencesOf(s)'
    <3>1. PICK z \in Seq(Message) : z = cache[s].recent
          BY <1>13, <2>2 DEF Context
    <3>2. \A i \in 1..Len(z) : \/ z[i].sequence \in SequencesOf(s)
                               \/ \E k \in 1..Len(q) : q[k].sequence = z[i].sequence
          BY <1>2, <1>3, <1>5, <2>2, <3>1 DEF ConversationInv, Covered
    <3>3. \A r \in rows' : r.session = s => r.sequence \in SequencesOf(s)'
          BY DEF SequencesOf, RowsOf
    <3>4. SequencesOf(s) \subseteq SequencesOf(s)'
          BY <1>9 DEF SequencesOf, RowsOf
    <3>5. \A k \in 1..Len(q) : q[k].sequence \in SequencesOf(s)'
          BY <1>9, <1>10, <3>3
    <3>6. \A i \in 1..Len(z) : z[i].sequence \in SequencesOf(s)'
          BY <3>2, <3>4, <3>5
    <3>7. \A m \in ToSet(z) : \E i \in 1..Len(z) : m = z[i]
          BY Members
    <3> QED BY <1>15, <2>2, <3>1, <3>6, <3>7
  <2>3. ASSUME NEW x \in Sessions \ revived', cache'[x] # None, ~cache'[x].is_dirty
        PROVE  \/ /\ x \notin revived /\ cache[x] # None /\ ~cache[x].is_dirty
                  /\ cache'[x].recent = cache[x].recent
               \/ {m.sequence : m \in ToSet(cache'[x].recent)} \subseteq SequencesOf(x)'
    <3>1. CASE busy.same /\ x = s
          BY <1>16, <2>2, <3>1
    <3>2. CASE ~(busy.same /\ x = s)
          BY <1>6, <1>16, <2>3, <3>2
    <3> QED BY <3>1, <3>2
  <2> QED BY <1>9, <2>1, <2>3, CleanKept
<1>27. AcceptedAccounted'
  <2>1. AcceptedAccounted
        BY DEF ConversationInv
  <2>2. \A i \in 1..Len(q) : \E r \in rows' : r.msg = q[i].msg
        BY <1>9, <1>10
  <2>3. ASSUME NEW m \in accepted' \ lost'
        PROVE  \/ \E r \in rows' : r.msg = m
               \/ \E x \in Sessions : cache'[x] # None /\ m \in HeldMsgs(cache'[x])
    <3>1. CASE m \in lost
      <4>1. PICK d \in ToSet(f) : d.msg = m
            BY <1>6, <2>3, <3>1
      <4>2. PICK i \in 1..Len(q) : d = f[i]
            BY <1>5, Members
      <4> QED BY <1>7, <2>2, <4>1, <4>2
    <3>2. CASE m \notin lost
      <4>1. \/ \E r \in rows : r.msg = m
            \/ \E x \in Sessions : cache[x] # None /\ m \in HeldMsgs(cache[x])
            BY <1>6, <2>1, <2>3, <3>2 DEF AcceptedAccounted, Stored
      <4> QED BY <1>9, <1>17, <4>1
    <3> QED BY <3>1, <3>2
  <2>4. \A x : HeldMsgs(cache[x])' = HeldMsgs(cache'[x])
        BY DEF HeldMsgs, MessagesOf
  <2> QED BY <2>3, <2>4 DEF AcceptedAccounted, Stored
<1>28. WrittenOnce'
  <2>1. ASSUME NEW x \in rows', NEW y \in rows', x.session = y.session, x.msg = y.msg
        PROVE  x = y
    <3>1. CASE x \in rows /\ y \in rows
          BY <2>1, <3>1 DEF ConversationInv, WrittenOnce
    <3>2. CASE x \in rows /\ \E i \in 1..Len(q) : y = Became(f[i], End + i)
          BY <1>10, <1>20, <2>1, <3>2
    <3>3. CASE y \in rows /\ \E i \in 1..Len(q) : x = Became(f[i], End + i)
          BY <1>10, <1>20, <2>1, <3>3
    <3>4. CASE /\ \E i \in 1..Len(q) : x = Became(f[i], End + i)
               /\ \E i \in 1..Len(q) : y = Became(f[i], End + i)
      <4>1. PICK i \in 1..Len(q) : x = Became(f[i], End + i)
            BY <3>4
      <4>2. PICK j \in 1..Len(q) : y = Became(f[j], End + j)
            BY <3>4
      <4>3. q[i].msg = q[j].msg
            BY <1>10, <2>1, <4>1, <4>2
      <4>4. i = j
            BY <1>20, <4>3 DEF Ascends
      <4> QED BY <4>1, <4>2, <4>4
    <3> QED BY <1>9, <3>1, <3>2, <3>3, <3>4
  <2> QED BY <2>1 DEF WrittenOnce
<1>29. q = << >> => rows' = rows
  <2>1. q = << >> => Len(q) = 0
        OBVIOUS
  <2> QED BY <1>8, <2>1
<1>30. \A x \in rows' : x.session = s \/ x \in rows
      BY <1>9, <1>10
<1>31. ZeroUntilManaged'
  <2>1. ASSUME NEW x \in known \ managed', NEW y \in rows', y.session = x
        PROVE  y.sequence = 0
    <3>1. x \notin managed /\ (x = s => q = << >>)
          BY <1>6, <2>1
    <3>2. y \in rows
          BY <1>29, <1>30, <2>1, <3>1
    <3> QED BY <2>1, <3>1, <3>2 DEF ConversationInv, ZeroUntilManaged, SequencesOf, RowsOf
  <2> QED BY <1>6, <2>1 DEF ZeroUntilManaged, SequencesOf, RowsOf
<1>32. OrderedUnlessRaced'
  <2>1. ASSUME NEW x \in known \ raced', NEW y \in rows', NEW z \in rows',
               y.session = x, z.session = x, y.at < z.at
        PROVE  y.sequence <= z.sequence
    <3>1. x \notin raced
          BY <1>6, <2>1
    <3>2. CASE y \in rows /\ z \in rows
          BY <2>1, <3>1, <3>2 DEF ConversationInv, OrderedUnlessRaced, RowsOf
    <3>3. CASE y \in rows /\ \E i \in 1..Len(q) : z = Became(f[i], End + i)
      <4>1. PICK i \in 1..Len(q) : z = Became(f[i], End + i)
            BY <3>3
      <4>2. x = s /\ y \in RowsOf(s) /\ z.sequence = q[i].sequence
            BY <1>10, <2>1, <3>3, <4>1 DEF RowsOf
      <4>3. q # << >> /\ 1 \in 1..Len(q) /\ i \in Nat /\ i >= 1
            BY <1>5
      <4>4. ~(q[1].sequence < MaxSequence(s))
            BY <1>6, <2>1, <4>2, <4>3
      <4>5. /\ y.sequence <= MaxSequence(s) /\ y.sequence \in Nat /\ MaxSequence(s) \in Int
            BY <4>2, MaxSequenceIs DEF SequencesOf
      <4>6. q[1].sequence \in Nat /\ q[i].sequence \in Nat
            BY <1>7, <4>3
      <4>7. q[1].sequence <= q[i].sequence
        <5>1. CASE i = 1
              BY <4>6, <5>1
        <5>2. CASE i # 1
              BY <1>20, <4>3, <5>2 DEF Ascends
        <5> QED BY <5>1, <5>2
      <4> QED BY <4>2, <4>4, <4>5, <4>6, <4>7
    <3>4. CASE z \in rows /\ \E i \in 1..Len(q) : y = Became(f[i], End + i)
      <4>1. PICK i \in 1..Len(q) : y = Became(f[i], End + i)
            BY <3>4
      <4>2. y.at = End + i /\ i \in Nat
            BY <1>10, <4>1
      <4>3. z.at \in Nat /\ z.at <= End
            BY <1>8, <3>4 DEF Row
      <4> QED BY <1>8, <2>1, <4>2, <4>3
    <3>5. CASE /\ \E i \in 1..Len(q) : y = Became(f[i], End + i)
               /\ \E i \in 1..Len(q) : z = Became(f[i], End + i)
      <4>1. PICK i \in 1..Len(q) : y = Became(f[i], End + i)
            BY <3>5
      <4>2. PICK j \in 1..Len(q) : z = Became(f[j], End + j)
            BY <3>5
      <4>3. /\ y.at = End + i /\ z.at = End + j /\ i \in Nat /\ j \in Nat
            /\ y.sequence = q[i].sequence /\ z.sequence = q[j].sequence
            BY <1>10, <4>1, <4>2
      <4>4. i < j
            BY <1>8, <2>1, <4>3
      <4> QED BY <1>20, <4>3, <4>4 DEF Ascends
    <3> QED BY <1>9, <3>2, <3>3, <3>4, <3>5
  <2> QED BY <1>6, <2>1 DEF OrderedUnlessRaced, RowsOf
<1>33. ZeroAhead' /\ Numbering'
  <2>1. ZeroAhead /\ Numbering /\ managed \subseteq managed'
        BY <1>6 DEF ConversationInv
  <2> QED BY <1>6, <2>1 DEF ZeroAhead, Numbering
<1> QED BY <1>18, <1>22, <1>23, <1>24, <1>25, <1>26, <1>27, <1>28, <1>31, <1>32,
           <1>33 DEF ConversationInv

-----------------------------------------------------------------------------
(* Rows are deleted.                                                       *)

LEMMA ClearCommitSound ==
    ASSUME ConversationInv, ClearCommit
    PROVE  ConversationInv'
<1>1. Remembered /\ LogTypeOK
      BY DEF ConversationInv, Remembered, ConversationTypeOK
<1>2. PICK s \in Sessions : s = busy.session
  <2>1. busy # None /\ busy.op = "clear"
        BY DEF ClearCommit
  <2>2. busy \notin [op : {"flush"}, session : {None} \cup Sessions,
                     missing : Seq(Message), base : Int, same : BOOLEAN, mutated : BOOLEAN]
        BY <2>1
  <2>3. busy \in [op : {"clear"}, session : Sessions]
        BY <1>1, <2>1, <2>2 DEF Remembered, ConversationTypeOK
  <2> QED BY <2>3
<1>3. /\ rows' = rows \ RowsOf(s)
      /\ lost' = lost \cup {m \in accepted : \E r \in RowsOf(s) : r.msg = m}
      /\ loader' = [l \in Loaders |-> IF loader[l] # None /\ loader[l].session = s
                                      THEN [loader[l] EXCEPT !.stale = TRUE] ELSE loader[l]]
      /\ revived' = IF cache[s] = None THEN revived ELSE revived \cup {s}
      /\ raced' = IF \E w \in Writers : writer[w] # None /\ writer[w].row.session = s
                  THEN raced \cup {s} ELSE raced
      /\ busy' = None
      /\ UNCHANGED <<known, bound, writer, fresh, managed, cache, lru, dirty, accepted>>
      BY <1>2 DEF ClearCommit
<1>4. rows' \subseteq rows /\ \A r \in rows : r \in rows' \/ r.session = s
      BY <1>3 DEF RowsOf
<1>5. ~Flushing'
      BY <1>3 DEF Flushing
<1>6. ASSUME NEW l \in Loaders, loader'[l] # None
      PROVE  /\ loader[l] # None
             /\ loader'[l] \in [session : Sessions, ctx : Context, stale : BOOLEAN]
             /\ loader'[l].session = loader[l].session /\ loader'[l].ctx = loader[l].ctx
             /\ ~loader'[l].stale => loader'[l] = loader[l] /\ loader[l].session # s
  <2>1. loader'[l] = IF loader[l] # None /\ loader[l].session = s
                     THEN [loader[l] EXCEPT !.stale = TRUE] ELSE loader[l]
        BY <1>3
  <2>2. loader[l] # None
        BY <1>6, <2>1
  <2>3. loader[l] \in [session : Sessions, ctx : Context, stale : BOOLEAN]
        BY <1>1, <2>2, MemoryShape
  <2>4. CASE loader[l].session = s
    <3>1. PICK k : k = loader[l]
          OBVIOUS
    <3>2. loader'[l] = [k EXCEPT !.stale = TRUE]
          BY <2>1, <2>2, <2>4, <3>1
    <3>3. k \in [session : Sessions, ctx : Context, stale : BOOLEAN]
          BY <2>3, <3>1
    <3>4. PICK n : n = [k EXCEPT !.stale = TRUE]
          OBVIOUS
    <3>5. /\ n \in [session : Sessions, ctx : Context, stale : BOOLEAN]
          /\ n.session = k.session /\ n.ctx = k.ctx /\ n.stale
          BY <3>3, <3>4
    <3> QED BY <2>2, <3>1, <3>2, <3>4, <3>5
  <2>5. CASE loader[l].session # s
        BY <2>1, <2>2, <2>3, <2>5
  <2> QED BY <2>4, <2>5
<1>7. raced' \subseteq known
  <2>1. \A w \in Writers : writer[w] # None => writer[w].row.session \in known
        BY DEF ConversationInv, OfKnown
  <2> QED BY <1>1, <1>3, <2>1 DEF LogTypeOK
<1>8. Remembered'
  <2>1. LogTypeOK'
        BY <1>1, <1>3, <1>4, <1>7 DEF LogTypeOK
  <2>2. loader' \in [Loaders -> {None} \cup [session : Sessions, ctx : Context, stale : BOOLEAN]]
    <3>1. DOMAIN loader' = Loaders /\ loader' = [l \in Loaders |-> loader'[l]]
          BY <1>3
    <3>2. \A l \in Loaders :
              loader'[l] \in {None} \cup [session : Sessions, ctx : Context, stale : BOOLEAN]
          BY <1>6
    <3> QED BY <3>1, <3>2
  <2> QED BY <1>1, <1>3, <2>1, <2>2 DEF Remembered, ConversationTypeOK, Distinctly
<1>9. OldContexts
  <2>1. ASSUME NEW x \in Sessions, NEW d \in ContextsOf(x)'
        PROVE  d \in ContextsOf(x)
    <3>1. CASE cache'[x] # None /\ d = cache'[x]
          BY <1>3, <3>1 DEF ContextsOf
    <3>2. CASE \E l \in Loaders : loader'[l] # None /\ loader'[l].session = x /\ d = loader'[l].ctx
      <4>1. PICK l \in Loaders : loader'[l] # None /\ loader'[l].session = x /\ d = loader'[l].ctx
            BY <3>2
      <4>2. loader[l] # None /\ loader[l].session = x /\ d = loader[l].ctx
            BY <1>6, <4>1
      <4> QED BY <4>2 DEF ContextsOf
    <3> QED BY <2>1, <3>1, <3>2 DEF ContextsOf
  <2> QED BY <2>1 DEF OldContexts
<1>10. \A x \in Sessions : Entries(x)' \subseteq Entries(x)
  <2>1. ASSUME NEW x \in Sessions
        PROVE  Entries(x)' \subseteq Entries(x)
    <3>0. PICK X : X = {}
          OBVIOUS
    <3>1. \A y \in RowsOf(x)' : Entry(y) \in Entries(x) \cup X
      <4>1. RowsOf(x)' \subseteq RowsOf(x)
            BY <1>4 DEF RowsOf
      <4> QED BY <4>1, IsEntry
    <3>2. ASSUME NEW d \in ContextsOf(x)'
          PROVE  ToSet(d.recent) \subseteq Entries(x) \cup X
      <4>1. PICK e \in ContextsOf(x) : d.recent = e.recent
            BY <1>9 DEF OldContexts
      <4> QED BY <4>1, IsEntry
    <3>3. Unflushed(x)' \subseteq Entries(x) \cup X
          BY <1>5 DEF Unflushed
    <3>4. Entries(x)' \subseteq Entries(x) \cup X
          BY <3>1, <3>2, <3>3, EntriesFrom
    <3> QED BY <3>0, <3>4
  <2> QED BY <2>1
<1>11. Below' /\ OneNumber' /\ Unseen'
  <2>1. PICK X : X = {}
        OBVIOUS
  <2>2. Below /\ OneNumber /\ Unseen
        BY DEF ConversationInv
  <2>3. \A x \in Sessions : \E y \in Sessions : Entries(x)' \subseteq Entries(y) \cup X
        BY <1>10
  <2>4. /\ \A a, b \in X : a = b
        /\ \A a \in X : a \in Message /\ a.msg < fresh' /\ a.sequence < fresh'
        /\ \A a \in X : \A x \in Sessions : \A d \in Entries(x) : d.msg # a.msg
        BY <2>1
  <2>5. \A v \in Writers : writer'[v] # None =>
            writer'[v] = writer[v] /\ \A a \in X : a.msg # writer[v].row.msg
        BY <1>3, <2>1
  <2>6. fresh' \in Nat /\ fresh <= fresh'
        BY <1>1, <1>3, LogAssumption DEF LogTypeOK
  <2>7. \A x \in Sessions : \A d \in ContextsOf(x)' : d.last_sequence < fresh'
        BY <1>3, <1>9, <2>2 DEF Below, OldContexts
  <2> QED BY <1>1, <2>2, <2>3, <2>4, <2>5, <2>6, <2>7, EntriesGrow
<1>12. OfKnown'
  <2>1. OfKnown
        BY DEF ConversationInv
  <2>2. \A x \in Sessions : ContextsOf(x)' # {} => x \in known'
        BY <1>3, <1>9, <2>1 DEF OfKnown, OldContexts
  <2> QED BY <1>3, <1>4, <1>5, <2>1, <2>2 DEF OfKnown
<1>13. InOrder' /\ Covered'
      BY <1>5, <1>9 DEF ConversationInv, InOrder, OldContexts, Covered
<1>14. LoadedIsStored'
  <2>1. ASSUME NEW l \in Loaders, loader'[l] # None, ~loader'[l].stale,
               NEW i \in 1..Len(loader'[l].ctx.recent)
        PROVE  \E r \in rows' : /\ r.session = loader'[l].session
                                /\ r.sequence = loader'[l].ctx.recent[i].sequence
    <3>1. loader[l] # None /\ loader'[l] = loader[l] /\ loader[l].session # s
          BY <1>6, <2>1
    <3>2. loader[l].ctx.recent[i].sequence \in SequencesOf(loader[l].session)
          BY <2>1, <3>1 DEF ConversationInv, LoadedIsStored
    <3>3. PICK r \in rows : /\ r.session = loader[l].session
                            /\ r.sequence = loader[l].ctx.recent[i].sequence
          BY <3>2 DEF SequencesOf, RowsOf
    <3> QED BY <1>4, <3>1, <3>3
  <2> QED BY <2>1 DEF LoadedIsStored, SequencesOf, RowsOf
<1>15. CleanIsStored'
  <2>1. ASSUME NEW x \in Sessions \ revived', cache[x] # None, ~cache[x].is_dirty
        PROVE  {m.sequence : m \in ToSet(cache[x].recent)} \subseteq SequencesOf(x)'
    <3>1. x \notin revived /\ x # s
          BY <1>3, <2>1
    <3>2. {m.sequence : m \in ToSet(cache[x].recent)} \subseteq SequencesOf(x)
          BY <2>1, <3>1 DEF ConversationInv, CleanIsStored
    <3>3. SequencesOf(x) \subseteq SequencesOf(x)'
          BY <1>4, <3>1 DEF SequencesOf, RowsOf
    <3> QED BY <3>2, <3>3
  <2> QED BY <1>3, <2>1 DEF CleanIsStored
<1>16. AcceptedAccounted'
  <2>1. ASSUME NEW m \in accepted' \ lost'
        PROVE  \/ \E r \in rows' : r.msg = m
               \/ \E x \in Sessions : cache'[x] # None /\ m \in HeldMsgs(cache'[x])
    <3>1. m \in accepted \ lost /\ ~\E r \in RowsOf(s) : r.msg = m
          BY <1>3, <2>1
    <3>2. \/ \E r \in rows : r.msg = m
          \/ \E x \in Sessions : cache[x] # None /\ m \in HeldMsgs(cache[x])
          BY <3>1 DEF ConversationInv, AcceptedAccounted, Stored
    <3> QED BY <1>3, <1>4, <3>1, <3>2 DEF RowsOf
  <2>2. \A x : HeldMsgs(cache[x])' = HeldMsgs(cache'[x])
        BY DEF HeldMsgs, MessagesOf
  <2> QED BY <2>1, <2>2 DEF AcceptedAccounted, Stored
<1>17. WrittenOnce'
      BY <1>4 DEF ConversationInv, WrittenOnce
<1>18. ZeroUntilManaged'
      BY <1>3, <1>4 DEF ConversationInv, ZeroUntilManaged, SequencesOf, RowsOf
<1>19. OrderedUnlessRaced'
  <2>1. \A x \in known \ raced' : x \in known \ raced
        BY <1>3
  <2> QED BY <1>3, <1>4, <2>1 DEF ConversationInv, OrderedUnlessRaced, RowsOf
<1>20. ZeroAhead' /\ Numbering'
      BY <1>3 DEF ConversationInv, ZeroAhead, Numbering
<1> QED BY <1>8, <1>11, <1>12, <1>13, <1>14, <1>15, <1>16, <1>17, <1>18, <1>19,
           <1>20 DEF ConversationInv

-----------------------------------------------------------------------------
(* A session is forked.                                                    *)

\* The rows of a session in an order of their numbers, each once.
Branch(q, old) ==
    /\ Len(q) \in Nat
    /\ \A i \in 1..Len(q) : q[i] \in rows /\ q[i].session = old /\ q[i] \in Row
    /\ \A i, j \in 1..Len(q) : i < j => q[i].sequence <= q[j].sequence
    /\ \A i, j \in 1..Len(q) : q[i] = q[j] => i = j

\* What is inserted as a copy of them.
Copy(f, q, new) ==
    /\ Insert(f) /\ Len(f) = Len(q)
    /\ \A i \in 1..Len(q) :
          LET x == Became(f[i], End + i) IN
          x.session = new /\ x.sequence = q[i].sequence /\ x.msg = q[i].msg /\ x.at = End + i

\* The rows that a fork adds: a copy of each row of the branch, in an order of
\* their numbers.
LEMMA ForkIs ==
    ASSUME LogTypeOK, NEW old \in Sessions, NEW new \in Sessions, NEW b, ForkSession(old, new, b),
           NEW R, R = IF b = None THEN {} ELSE BranchRows(old, b)
    PROVE  \E q \in Seq(R), f \in Seq(Draft) :
             /\ Branch(q, old) /\ Copy(f, q, new)
             /\ \A r \in R : \E i \in 1..Len(q) : q[i] = r
<1>1. R \in SUBSET rows /\ \A r \in R : r.session = old
      BY DEF BranchRows, RowsOf
<1>2. PICK q \in BySequence(R) :
         Insert([i \in 1..Len(q) |-> [session |-> new, sequence |-> q[i].sequence, msg |-> q[i].msg]])
      BY DEF ForkSession
<1>3. /\ q \in Seq(R) /\ Len(q) \in Nat
      /\ \A i \in 1..Len(q) : q[i] \in R
      /\ \A i, j \in 1..Len(q) : i < j => q[i].sequence <= q[j].sequence
      /\ \A i, j \in 1..Len(q) : q[i] = q[j] => i = j
      /\ \A r \in R : \E i \in 1..Len(q) : q[i] = r
      BY <1>1, Queried
<1>4. PICK f : f = [i \in 1..Len(q) |-> [session |-> new, sequence |-> q[i].sequence, msg |-> q[i].msg]]
      OBVIOUS
<1>5. \A i \in 1..Len(q) : q[i] \in rows /\ q[i].session = old /\ q[i] \in Row
      BY <1>1, <1>3 DEF LogTypeOK
<1>6. \A i \in 1..Len(q) : [session |-> new, sequence |-> q[i].sequence, msg |-> q[i].msg] \in Draft
      BY <1>5 DEF Row, Draft
<1>7. f \in Seq(Draft) /\ Len(f) = Len(q)
  <2>1. f \in [1..Len(q) -> Draft]
        BY <1>4, <1>6
  <2>2. PICK n \in Nat : n = Len(q)
        BY <1>3
  <2>3. f \in [1..n -> Draft]
        BY <2>1, <2>2
  <2>4. f \in Seq(Draft) /\ Len(f) = n
        BY ONLY <2>3, <2>2
  <2> QED BY <2>2, <2>4
<1>8. ASSUME NEW i \in 1..Len(q)
      PROVE  LET x == Became(f[i], End + i) IN
             x.session = new /\ x.sequence = q[i].sequence /\ x.msg = q[i].msg /\ x.at = End + i
  <2>1. PICK d : d = [session |-> new, sequence |-> q[i].sequence, msg |-> q[i].msg]
        OBVIOUS
  <2>2. d.session = new /\ d.sequence = q[i].sequence /\ d.msg = q[i].msg
        BY <2>1, Zenon
  <2>3. f[i] = d
        BY <1>4, <2>1
  <2>4. PICK x : x = Became(d, End + i)
        OBVIOUS
  <2>5. x.session = d.session /\ x.sequence = d.sequence /\ x.msg = d.msg /\ x.at = End + i
        BY <2>4 DEF Became
  <2> QED BY <2>2, <2>3, <2>4, <2>5
<1>9. Insert(f)
      BY <1>2, <1>4
<1>10. Branch(q, old) /\ Copy(f, q, new)
       BY <1>3, <1>5, <1>7, <1>8, <1>9 DEF Branch, Copy
<1> QED BY <1>3, <1>7, <1>10

LEMMA ForkSessionSound ==
    ASSUME ConversationInv, NEW old \in Sessions, NEW new \in Sessions, NEW b,
           ForkSession(old, new, b), UNCHANGED manager
    PROVE  ConversationInv'
<1>1. Remembered /\ LogTypeOK
      BY DEF ConversationInv, Remembered, ConversationTypeOK
<1>2. /\ old \in known /\ new \notin known
      /\ known' = known \cup {new} /\ bound' = bound \cup {new}
      /\ managed' = IF old \in managed THEN managed \cup {new} ELSE managed
      /\ raced' = IF old \in raced THEN raced \cup {new} ELSE raced
      /\ UNCHANGED <<writer, fresh>>
      /\ UNCHANGED <<cache, lru, dirty, loader, busy, accepted, lost, revived>>
      BY DEF ForkSession, manager
<1>3. PICK R : R = IF b = None THEN {} ELSE BranchRows(old, b)
      OBVIOUS
<1>4. PICK q \in Seq(R), f \in Seq(Draft) : Branch(q, old) /\ Copy(f, q, new)
      BY <1>1, <1>3, ForkIs
<1>5. /\ Len(q) \in Nat
      /\ \A i \in 1..Len(q) : q[i] \in rows /\ q[i].session = old /\ q[i] \in Row
      /\ \A i, j \in 1..Len(q) : i < j => q[i].sequence <= q[j].sequence
      /\ \A i, j \in 1..Len(q) : q[i] = q[j] => i = j
      /\ Insert(f) /\ Len(f) = Len(q)
      /\ \A i \in 1..Len(q) :
            LET x == Became(f[i], End + i) IN
            x.session = new /\ x.sequence = q[i].sequence /\ x.msg = q[i].msg /\ x.at = End + i
      BY <1>4 DEF Branch, Copy
<1>6. /\ rows' = rows \cup {Became(f[i], End + i) : i \in 1..Len(q)}
      /\ rows' \subseteq Row
      /\ \A x, y \in rows' : x.at = y.at => x = y
      /\ End \in Nat
      BY <1>1, <1>5, Inserted
<1>7. /\ rows \subseteq rows'
      /\ \A x \in rows' : \/ x \in rows
                          \/ \E i \in 1..Len(q) : x = Became(f[i], End + i)
      BY <1>6
<1>8. /\ \A x \in rows : x.session \in known /\ x.session # new
      /\ ContextsOf(new) = {}
      /\ Unflushed(new) = {}
      /\ Flushing => busy.session \in known
      BY <1>2 DEF ConversationInv, OfKnown, Unflushed
<1>9. ASSUME NEW x \in rows', x.session = new
      PROVE  \E i \in 1..Len(q) : x = Became(f[i], End + i)
      BY <1>7, <1>8, <1>9
<1>10. ASSUME NEW x \in rows', x.session # new
       PROVE  x \in rows
  <2>1. \A i \in 1..Len(q) : Became(f[i], End + i).session = new
        BY <1>5
  <2> QED BY <1>7, <1>10, <2>1
<1>11. \A x : ContextsOf(x)' = ContextsOf(x) /\ Unflushed(x)' = Unflushed(x)
       BY <1>2 DEF ContextsOf, Unflushed, Flushing
<1>12. Flushing' = Flushing
       BY <1>2 DEF Flushing
<1>13. Remembered'
  <2>1. LogTypeOK'
        BY <1>1, <1>2, <1>6 DEF LogTypeOK
  <2> QED BY <1>1, <1>2, <2>1 DEF Remembered, ConversationTypeOK, Distinctly
<1>14. \A x \in Sessions : \E t \in Sessions : Entries(x)' \subseteq Entries(t)
  <2>0. PICK X : X = {}
        OBVIOUS
  <2>1. ASSUME NEW x \in Sessions, x # new
        PROVE  Entries(x)' \subseteq Entries(x)
    <3>1. \A y \in RowsOf(x)' : Entry(y) \in Entries(x) \cup X
      <4>1. RowsOf(x)' \subseteq RowsOf(x)
            BY <1>10, <2>1 DEF RowsOf
      <4> QED BY <4>1, IsEntry
    <3>2. \A d \in ContextsOf(x)' : ToSet(d.recent) \subseteq Entries(x) \cup X
          BY <1>11, IsEntry
    <3>3. Unflushed(x)' \subseteq Entries(x) \cup X
          BY <1>11, IsEntry
    <3>4. Entries(x)' \subseteq Entries(x) \cup X
          BY <3>1, <3>2, <3>3, EntriesFrom
    <3> QED BY <2>0, <3>4
  <2>2. Entries(new)' \subseteq Entries(old)
    <3>1. ASSUME NEW y \in RowsOf(new)'
          PROVE  Entry(y) \in Entries(old) \cup X
      <4>1. PICK i \in 1..Len(q) : y = Became(f[i], End + i)
            BY <1>9, <3>1 DEF RowsOf
      <4>2. Entry(y) = Entry(q[i])
            BY <1>5, <4>1 DEF Entry
      <4>3. q[i] \in RowsOf(old)
            BY <1>5 DEF RowsOf
      <4> QED BY <4>2, <4>3, IsEntry
    <3>2. \A d \in ContextsOf(new)' : ToSet(d.recent) \subseteq Entries(old) \cup X
          BY <1>8, <1>11
    <3>3. Unflushed(new)' \subseteq Entries(old) \cup X
          BY <1>8, <1>11
    <3>4. Entries(new)' \subseteq Entries(old) \cup X
          BY <3>1, <3>2, <3>3, EntriesFrom
    <3> QED BY <2>0, <3>4
  <2> QED BY <2>1, <2>2
<1>15. Below' /\ OneNumber' /\ Unseen'
  <2>1. PICK X : X = {}
        OBVIOUS
  <2>2. Below /\ OneNumber /\ Unseen
        BY DEF ConversationInv
  <2>3. \A x \in Sessions : \E y \in Sessions : Entries(x)' \subseteq Entries(y) \cup X
        BY <1>14
  <2>4. /\ \A a, c \in X : a = c
        /\ \A a \in X : a \in Message /\ a.msg < fresh' /\ a.sequence < fresh'
        /\ \A a \in X : \A x \in Sessions : \A d \in Entries(x) : d.msg # a.msg
        BY <2>1
  <2>5. \A v \in Writers : writer'[v] # None =>
            writer'[v] = writer[v] /\ \A a \in X : a.msg # writer[v].row.msg
        BY <1>2, <2>1
  <2>6. fresh' \in Nat /\ fresh <= fresh'
        BY <1>1, <1>2, LogAssumption DEF LogTypeOK
  <2>7. \A x \in Sessions : \A d \in ContextsOf(x)' : d.last_sequence < fresh'
        BY <1>2, <1>11, <2>2 DEF Below
  <2> QED BY <1>1, <2>2, <2>3, <2>4, <2>5, <2>6, <2>7, EntriesGrow
<1>16. OfKnown'
  <2>1. OfKnown
        BY DEF ConversationInv
  <2>2. \A x \in rows' : x.session \in known'
        BY <1>2, <1>8, <1>10
  <2> QED BY <1>2, <1>11, <1>12, <2>1, <2>2 DEF OfKnown
<1>17. InOrder'
  <2>1. InOrder
        BY DEF ConversationInv
  <2>2. \A x \in Sessions : \A d \in ContextsOf(x)' :
            /\ Ascends(d.recent)
            /\ \A i \in 1..Len(d.recent) : d.recent[i].sequence <= d.last_sequence
        BY <1>11, <2>1 DEF InOrder
  <2>3. ASSUME Flushing
        PROVE  /\ Ascends(busy.missing)
               /\ \A i \in 1..Len(busy.missing), x \in rows' :
                      x.session = busy.session => x.msg # busy.missing[i].msg
    <3>1. /\ Ascends(busy.missing)
          /\ \A i \in 1..Len(busy.missing), x \in rows :
                 x.session = busy.session => x.msg # busy.missing[i].msg
          BY <2>1, <2>3 DEF InOrder, RowsOf
    <3>2. busy.session # new
          BY <1>2, <1>8, <2>3
    <3> QED BY <1>10, <3>1, <3>2
  <2> QED BY <1>2, <1>12, <2>2, <2>3 DEF InOrder, RowsOf
<1>18. LoadedIsStored'
  <2>1. LoadedIsStored /\ \A l \in Loaders : loader'[l] # None => loader'[l] = loader[l]
        BY <1>2 DEF ConversationInv
  <2> QED BY <1>7, <2>1, LoadedKept
<1>19. Covered'
  <2>1. Covered /\ SameFlush
        BY <1>2, <1>12 DEF ConversationInv, SameFlush
  <2>2. Flushing' /\ busy'.same =>
               /\ cache'[busy.session] # None
               /\ cache'[busy.session].recent = cache[busy.session].recent
        BY <1>2, <1>12, <2>1 DEF Covered
  <2> QED BY <1>7, <2>1, <2>2, CoveredKept
<1>20. CleanIsStored'
  <2>1. CleanIsStored
        BY DEF ConversationInv
  <2>2. \A x \in Sessions \ revived' : cache'[x] # None /\ ~cache'[x].is_dirty =>
            /\ x \notin revived /\ cache[x] # None /\ ~cache[x].is_dirty
            /\ cache'[x].recent = cache[x].recent
        BY <1>2
  <2> QED BY <1>7, <2>1, <2>2, CleanKept
<1>21. AcceptedAccounted'
  <2>1. AcceptedAccounted /\ accepted' \ lost' \subseteq accepted \ lost
        BY <1>2 DEF ConversationInv
  <2>2. \A x \in Sessions : cache[x] # None =>
            cache'[x] # None /\ HeldMsgs(cache[x]) \subseteq HeldMsgs(cache'[x])
        BY <1>2
  <2> QED BY <1>7, <2>1, <2>2, AcceptedKept
<1>22. WrittenOnce'
  <2>1. WrittenOnce
        BY DEF ConversationInv
  <2>2. ASSUME NEW x \in rows', NEW y \in rows', x.session = y.session, x.msg = y.msg
        PROVE  x = y
    <3>1. CASE x.session # new
          BY <1>10, <2>1, <2>2, <3>1 DEF WrittenOnce
    <3>2. CASE x.session = new
      <4>1. PICK i \in 1..Len(q) : x = Became(f[i], End + i)
            BY <1>9, <3>2
      <4>2. PICK j \in 1..Len(q) : y = Became(f[j], End + j)
            BY <1>9, <2>2, <3>2
      <4>3. q[i].msg = q[j].msg
            BY <1>5, <2>2, <4>1, <4>2
      <4>4. q[i] = q[j]
            BY <1>5, <2>1, <4>3 DEF WrittenOnce
      <4>5. i = j
            BY <1>5, <4>4
      <4> QED BY <4>1, <4>2, <4>5
    <3> QED BY <3>1, <3>2
  <2> QED BY <2>2 DEF WrittenOnce
<1>23. ZeroUntilManaged'
  <2>1. \A x \in known \ managed : \A y \in rows : y.session = x => y.sequence = 0
        BY DEF ConversationInv, ZeroUntilManaged, SequencesOf, RowsOf
  <2>2. ASSUME NEW x \in known' \ managed', NEW y \in rows', y.session = x
        PROVE  y.sequence = 0
    <3>1. CASE x # new
          BY <1>2, <1>10, <2>1, <2>2, <3>1
    <3>2. CASE x = new
      <4>1. PICK i \in 1..Len(q) : y = Became(f[i], End + i)
            BY <1>9, <2>2, <3>2
      <4>2. y.sequence = q[i].sequence /\ q[i] \in rows /\ q[i].session = old
            BY <1>5, <4>1
      <4>3. old \in known \ managed
            BY <1>2, <2>2, <3>2
      <4> QED BY <2>1, <4>2, <4>3
    <3> QED BY <3>1, <3>2
  <2> QED BY <2>2 DEF ZeroUntilManaged, SequencesOf, RowsOf
<1>24. OrderedUnlessRaced'
  <2>1. ASSUME NEW x \in known' \ raced', NEW y \in rows', NEW z \in rows',
               y.session = x, z.session = x, y.at < z.at
        PROVE  y.sequence <= z.sequence
    <3>1. CASE x # new
      <4>1. x \in known \ raced /\ y \in rows /\ z \in rows
            BY <1>2, <1>10, <2>1, <3>1
      <4> QED BY <2>1, <4>1 DEF ConversationInv, OrderedUnlessRaced, RowsOf
    <3>2. CASE x = new
      <4>1. PICK i \in 1..Len(q) : y = Became(f[i], End + i)
            BY <1>9, <2>1, <3>2
      <4>2. PICK j \in 1..Len(q) : z = Became(f[j], End + j)
            BY <1>9, <2>1, <3>2
      <4>3. /\ y.at = End + i /\ z.at = End + j /\ i \in Nat /\ j \in Nat
            /\ y.sequence = q[i].sequence /\ z.sequence = q[j].sequence
            BY <1>5, <4>1, <4>2
      <4>4. i < j
            BY <1>6, <2>1, <4>3
      <4> QED BY <1>5, <4>3, <4>4
    <3> QED BY <3>1, <3>2
  <2> QED BY <2>1 DEF OrderedUnlessRaced, RowsOf
<1>25. ZeroAhead' /\ Numbering'
  <2>1. ZeroAhead /\ Numbering /\ managed \subseteq managed'
        BY <1>2 DEF ConversationInv
  <2> QED BY <1>2, <2>1 DEF ZeroAhead, Numbering
<1> QED BY <1>13, <1>15, <1>16, <1>17, <1>18, <1>19, <1>20, <1>21, <1>22, <1>23, <1>24,
           <1>25 DEF ConversationInv

-----------------------------------------------------------------------------
(* The invariant, and the properties of the conversation.                  *)

LEMMA ConversationStarts == ConversationInit => ConversationInv
<1> SUFFICES ASSUME ConversationInit
             PROVE  ConversationInv
    OBVIOUS
<1>1. /\ rows = {} /\ known = {} /\ bound = {} /\ writer = [w \in Writers |-> None]
      /\ fresh = 1 /\ managed = {} /\ raced = {}
      /\ cache = [s \in Sessions |-> None] /\ lru = << >> /\ dirty = {}
      /\ loader = [l \in Loaders |-> None] /\ busy = None
      /\ accepted = {} /\ lost = {} /\ revived = {}
      BY DEF ConversationInit, LogInit
<1>2. Remembered
  <2>1. LogTypeOK
        BY <1>1, LogAssumption DEF LogTypeOK
  <2>2. /\ lru \in Seq(Sessions) /\ Len(lru) <= CacheSize /\ Distinctly(lru)
        /\ ToSet(lru) = {s \in Sessions : cache[s] # None}
    <3>1. lru \in Seq(Sessions) /\ Len(lru) = 0 /\ ToSet(lru) = {}
          BY <1>1 DEF ToSet
    <3>2. {s \in Sessions : cache[s] # None} = {}
          BY <1>1
    <3> QED BY <3>1, <3>2, ManagerAssumption DEF Distinctly
  <2> QED BY <1>1, <2>1, <2>2 DEF Remembered, ConversationTypeOK
<1>3. \A s \in Sessions : ContextsOf(s) = {} /\ RowsOf(s) = {} /\ Unflushed(s) = {} /\ Entries(s) = {}
  <2>1. \A s \in Sessions : ContextsOf(s) = {} /\ RowsOf(s) = {} /\ Unflushed(s) = {}
        BY <1>1 DEF ContextsOf, RowsOf, Unflushed, Flushing
  <2> QED BY <2>1 DEF Entries
<1>4. ~Flushing /\ (\A w \in Writers : writer[w] = None) /\ \A l \in Loaders : loader[l] = None
      BY <1>1 DEF Flushing
<1>5. OfKnown /\ Below /\ OneNumber /\ Unseen /\ InOrder
      BY <1>1, <1>3, <1>4 DEF OfKnown, Below, OneNumber, Unseen, InOrder
<1>6. LoadedIsStored /\ Covered /\ CleanIsStored /\ AcceptedAccounted /\ WrittenOnce
      BY <1>1, <1>4 DEF LoadedIsStored, Covered, CleanIsStored, AcceptedAccounted, WrittenOnce
<1>7. ZeroUntilManaged /\ ZeroAhead /\ Numbering /\ OrderedUnlessRaced
      BY <1>1, <1>4 DEF ZeroUntilManaged, ZeroAhead, Numbering, OrderedUnlessRaced
<1> QED BY <1>2, <1>5, <1>6, <1>7 DEF ConversationInv

LEMMA ConversationStutters == ConversationInv /\ UNCHANGED conversationVars => ConversationInv'
<1> SUFFICES ASSUME ConversationInv, UNCHANGED conversationVars
             PROVE  ConversationInv'
    OBVIOUS
<1>1. LogTypeOK /\ UNCHANGED manager /\ UNCHANGED logVars
      BY DEF conversationVars, ConversationInv, Remembered, ConversationTypeOK
<1>2. UNCHANGED <<rows, known, bound, writer, fresh, managed, raced>>
      BY <1>1 DEF logVars
<1>3. LogTypeOK'
      BY <1>1, <1>2 DEF LogTypeOK
<1>4. known \subseteq known' /\ \A w \in Writers : writer'[w] # None => writer'[w] = writer[w]
      BY <1>2
<1> QED BY <1>1, <1>2, <1>3, <1>4, LogOnly

LEMMA LogSteps == ConversationInv /\ LogNext /\ UNCHANGED manager => ConversationInv'
<1> SUFFICES ASSUME ConversationInv, LogNext, UNCHANGED manager
             PROVE  ConversationInv'
    OBVIOUS
<1>1. CASE \E s \in Sessions : CreateSession(s) \/ RemoveWorkspace(s)
      BY <1>1, CreateSessionSound, RemoveWorkspaceSound
<1>2. CASE \E old, new \in Sessions, b \in {None} \cup rows :
              (b # None => b.session = old) /\ ForkSession(old, new, b)
      BY <1>2, ForkSessionSound
<1>3. CASE \E w \in Writers, s \in Sessions : PersistBegin(w, s)
      BY <1>3, PersistBeginSound
<1>4. CASE \E w \in Writers : PersistCommit(w) \/ PersistRollback(w)
      BY <1>4, PersistCommitSound, PersistRollbackSound
<1> QED BY <1>1, <1>2, <1>3, <1>4 DEF LogNext

LEMMA ManagerSteps == ConversationInv /\ ManagerNext => ConversationInv'
<1> SUFFICES ASSUME ConversationInv, ManagerNext
             PROVE  ConversationInv'
    OBVIOUS
<1>1. CASE \E s \in Sessions : GetCached(s) \/ AddCached(s) \/ AddUncached(s)
                               \/ ClearBegin(s) \/ FlushLookup(s)
      BY <1>1, GetCachedSound, AddCachedSound, AddUncachedSound, ClearBeginSound, FlushLookupSound
<1>2. CASE \E s \in Sessions, i \in 0..MaxMsg, ok \in BOOLEAN : Summarise(s, i, ok)
      BY <1>2, SummariseSound
<1>3. CASE \E l \in Loaders, s \in Sessions : LoadContext(l, s)
      BY <1>3, LoadContextSound
<1>4. CASE \E l \in Loaders : PutContext(l)
      BY <1>4, PutContextSound
<1>5. CASE ClearCommit \/ Checkpoint \/ FlushCommit \/ Crash
      BY <1>5, ClearCommitSound, CheckpointSound, FlushCommitSound, CrashSound
<1> QED BY <1>1, <1>2, <1>3, <1>4, <1>5 DEF ManagerNext

THEOREM ConversationInvariant == ConversationSpec => []ConversationInv
<1>1. ConversationInit => ConversationInv
      BY ConversationStarts
<1>2. ConversationInv /\ [ConversationNext]_conversationVars => ConversationInv'
      BY LogSteps, ManagerSteps, ConversationStutters DEF ConversationNext
<1> QED BY <1>1, <1>2, PTL DEF ConversationSpec

\* Until the context manager writes to a session every message of it has the
\* number 0, and the numbers follow the order of the commits unless one of them
\* was taken from a maximum that had moved.
THEOREM MessagesAreNumbered == ConversationSpec => []Numbered
<1>1. ConversationInv => Numbered
      BY DEF ConversationInv, Numbered
<1> QED BY <1>1, ConversationInvariant, PTL

\* An accepted message is stored, cached or counted as lost, a message is in a
\* session once, and a clean context has a row for each number it shows.
THEOREM AcceptedIsAccounted == ConversationSpec => []MessagesAccounted
<1>1. ConversationInv => MessagesAccounted
      BY DEF ConversationInv, MessagesAccounted, Remembered
<1> QED BY <1>1, ConversationInvariant, PTL

\* What a fork copies when the old session is numbered in order: the rows up
\* to the branch point, each with its message and its number.
LEMMA ForkCopies ==
    ASSUME ConversationInv, NEW old \in known \ (bound \cup raced), NEW new \in Sessions,
           NEW b \in RowsOf(old), ForkSession(old, new, b), NEW r \in RowsOf(old), r.at <= b.at
    PROVE  \E c \in rows' : c.session = new /\ c.sequence = r.sequence /\ c.msg = r.msg
<1>1. LogTypeOK /\ OrderedUnlessRaced
      BY DEF ConversationInv, Remembered, ConversationTypeOK
<1>2. b \in Row /\ r \in Row /\ b \in rows /\ r \in rows
      BY <1>1 DEF LogTypeOK, RowsOf
<1>3. r.sequence <= b.sequence
  <2>1. CASE r.at < b.at
        BY <1>1, <2>1 DEF OrderedUnlessRaced
  <2>2. CASE r.at = b.at
    <3>1. r = b
          BY <1>1, <1>2, <2>2 DEF LogTypeOK
    <3> QED BY <1>2, <3>1 DEF Row
  <2> QED BY <1>2, <2>1, <2>2, LogAssumption DEF Row
<1>4. PICK R : R = IF b = None THEN {} ELSE BranchRows(old, b)
      OBVIOUS
<1>5. b # None /\ R = BranchRows(old, b)
      BY <1>2, <1>4, NoRow
<1>6. r \in R
      BY <1>3, <1>5 DEF BranchRows
<1>7. old \in Sessions
      BY <1>1 DEF LogTypeOK
<1>8. PICK q \in Seq(R), f \in Seq(Draft) :
         /\ Branch(q, old) /\ Copy(f, q, new)
         /\ \A x \in R : \E i \in 1..Len(q) : q[i] = x
      BY <1>1, <1>4, <1>7, ForkIs
<1>9. /\ Insert(f) /\ Len(f) = Len(q)
      /\ \A i \in 1..Len(q) :
            LET x == Became(f[i], End + i) IN
            x.session = new /\ x.sequence = q[i].sequence /\ x.msg = q[i].msg
      BY <1>8 DEF Copy
<1>10. rows' = rows \cup {Became(f[i], End + i) : i \in 1..Len(f)}
      BY <1>1, <1>9, Inserted
<1>11. PICK i \in 1..Len(q) : q[i] = r
      BY <1>6, <1>8
<1>12. Became(f[i], End + i) \in rows'
      BY <1>9, <1>10
<1> QED BY <1>9, <1>11, <1>12

\* A fork at a message has that message and every one committed before it,
\* unless the old session was misnumbered.
THEOREM ForksKeepThePrefix == ConversationSpec => ForkKeepsPrefix
<1>1. ConversationInv /\ ConversationInv' =>
        [\A old \in known \ (bound \cup raced), new \in known' \ known : \A b \in RowsOf(old) :
           ForkSession(old, new, b) =>
             \A r \in RowsOf(old) : r.at <= b.at =>
               \E c \in rows' : c.session = new /\ c.sequence = r.sequence /\ c.msg = r.msg
        ]_logVars
  <2> SUFFICES ASSUME ConversationInv, ConversationInv',
                      NEW old \in known \ (bound \cup raced), NEW new \in known' \ known,
                      NEW b \in RowsOf(old), ForkSession(old, new, b),
                      NEW r \in RowsOf(old), r.at <= b.at
               PROVE  \E c \in rows' : c.session = new /\ c.sequence = r.sequence /\ c.msg = r.msg
      OBVIOUS
  <2>1. new \in Sessions
        BY DEF ConversationInv, Remembered, ConversationTypeOK, LogTypeOK
  <2> QED BY <2>1, ForkCopies
<1> QED BY <1>1, ConversationInvariant, PTL DEF ForkKeepsPrefix
=============================================================================
