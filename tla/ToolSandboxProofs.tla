-------------------------- MODULE ToolSandboxProofs --------------------------
(***************************************************************************)
(* Proofs about ToolSandbox for any calls, resources and deployments and   *)
(* any number of rounds of a sub-agent.                                    *)
(***************************************************************************)
EXTENDS ToolSandbox, SequenceTheorems, WellFoundedInduction, TLAPS

-----------------------------------------------------------------------------
(* The inductive invariant.                                                *)

CallRecord == [tool : Tools \cup {"none"}, delegate : BOOLEAN,
               round : 0..MaxRounds, phase : Phases, resource : Resources \cup {None},
               backend : Backends, step : 0..2, seen : BOOLEAN, result : Results]

ScanRecord == [risky : BOOLEAN, blind : BOOLEAN, cut : BOOLEAN]
Commands   == {"bash_execute", "git_write", "git_commit", "git_create_pr"}
KubePhases == {"creating", "podwait", "waiting", "logs", "cleanup"}

\* Where a call k can be, with what tool, on what backend.
WellPlaced(k) ==
    /\ k.phase = "idle" => ~k.delegate
    /\ k.phase = "thinking" => k.delegate
    /\ k.phase \in {"idle", "thinking"} => k.resource = None
    /\ k.phase \in {"queued", "direct"} => k.tool \in {"mcp", "direct"}
    /\ k.phase = "queued" => k.resource \in Resources
    /\ k.phase = "checking" => k.tool = "bash_execute" /\ k.backend = "docker"
    /\ k.phase \in KubePhases => k.backend = "kubernetes"
    /\ k.phase = "process" => k.backend \in {"local", "docker", "local_dev"}
    /\ k.phase \in KubePhases \cup {"process", "returned"} =>
          /\ k.tool \in Commands
          /\ k.tool # "bash_execute" => k.backend \in {"kubernetes", "local"}
    /\ k.backend = "kubernetes" => in_cluster
    /\ k.tool = "git_commit" => k.step \in {1, 2}

\* How executions of k left a job behind: the history o.
Abandoned(k, o) ==
    /\ o \subseteq Reasons
    /\ k.phase = "idle" => o = {}
    /\ "timeout" \in o => k.backend \in {"docker", "local_dev"} \/ k.delegate
    /\ "descendants" \in o => k.backend = "local" \/ k.delegate
    /\ "delete_failed" \in o => in_cluster

\* The result of k, its job j and how the last command exited, x.
Reported(k, j, x) ==
    /\ k.phase \in {"logs", "returned"} => k.result \in {"ok", "failed"}
    /\ k.phase = "cleanup" => k.result \in {"ok", "failed", "timeout", "error"}
    /\ j = "succeeded" /\ k.phase # "done" => x = "ok"
    /\ k.phase \in {"logs", "cleanup", "returned"} /\ k.result = "ok" => x = "ok" /\ j \notin {"running", "pushing"}
    /\ k.phase = "done" /\ k.result = "ok" /\ ~k.delegate /\ k.tool \in Commands => x = "ok"

\* What k's scan was about, s, its job j, and whether it has committed, m.
Scanned(k, j, s, m) ==
    LET known == s.blind \/ s.cut \/ ~s.risky
        ended == \/ k.phase \in {"process", "waiting"} /\ j \in {"succeeded", "failed"}
                 \/ k.phase \in {"logs", "cleanup", "returned"} /\ k.result \in {"ok", "failed"}
    IN /\ k.tool = "git_commit" /\ k.step = 1 /\ ended => k.seen \/ known
       /\ k.tool = "git_commit" /\ k.step = 2 => known
       /\ m => k.tool = "git_commit" /\ k.step = 2

CallSound(c) ==
    /\ WellPlaced(call[c])
    /\ Abandoned(call[c], orphans[c])
    /\ Reported(call[c], job[c], exited[c])
    /\ Scanned(call[c], job[c], scan[c], committed[c])

\* A call that runs a tool of a resource holds its lock.
Locked == \A c \in Calls : call[c].phase = "direct" /\ call[c].resource # None
                              => holding[call[c].resource] = c

IInv == TypeOK /\ Locked /\ \A c \in Calls : CallSound(c)

-----------------------------------------------------------------------------
(* A line without one of its members.                                      *)

\* A set of natural numbers that is not empty has a least member.
LEMMA Least ==
    ASSUME NEW T, T \subseteq Nat, T # {}
    PROVE  \E x \in T : \A y \in T : x <= y
<1>1. PICK x \in T : \A y \in T : ~(<<y, x>> \in OpToRel(<, Nat))
      BY WFMin, NatLessThanWellFounded
<1>2. \A y \in T : ~(y < x)
      BY <1>1 DEF OpToRel
<1> QED BY <1>2

\* What is left of a line when one leaves it is a line.
LEMMA RemoveTypes ==
    ASSUME NEW S, NEW s \in Seq(S), NEW e
    PROVE  RemoveFirst(s, e) \in Seq(S)
<1>1. CASE ~\E i \in 1..Len(s) : s[i] = e
      BY <1>1 DEF RemoveFirst
<1>2. CASE \E i \in 1..Len(s) : s[i] = e
  <2> DEFINE I == {i \in 1..Len(s) : s[i] = e}
  <2>1. I # {} /\ I \subseteq Nat
        BY <1>2
  <2>2. Min(I) \in I
    <3>1. \E x \in I : \A y \in I : x <= y
          BY <2>1, Least
    <3> QED BY <3>1 DEF Min
  <2>3. RemoveFirst(s, e) = SubSeq(s, 1, Min(I) - 1) \o SubSeq(s, Min(I) + 1, Len(s))
        BY <1>2, <2>1 DEF RemoveFirst, RemoveAt, SelectInSeq
  <2>4. /\ SubSeq(s, 1, Min(I) - 1) \in Seq(S)
        /\ SubSeq(s, Min(I) + 1, Len(s)) \in Seq(S)
    <3> DEFINE i == Min(I)
    <3>1. i \in 1..Len(s) /\ Len(s) \in Nat /\ \A j \in 1..Len(s) : s[j] \in S
          BY <2>2
    <3> HIDE DEF i
    <3>2. SubSeq(s, 1, i - 1) \in Seq(S)
          BY <3>1, SubSeqProperties
    <3>3. SubSeq(s, i + 1, Len(s)) \in Seq(S)
          BY <3>1, SubSeqProperties
    <3> QED BY <3>2, <3>3 DEF i
  <2> QED BY <2>3, <2>4, ConcatProperties
<1> QED BY <1>1, <1>2

-----------------------------------------------------------------------------
(* A step of one call.                                                     *)

\* What changes of a call is nothing of another's.
OwnChange(c) ==
    /\ call' = [call EXCEPT ![c] = call'[c]] /\ call'[c] \in CallRecord
    /\ job' = [job EXCEPT ![c] = job'[c]]
    /\ job'[c] \in JobStates
    /\ orphans' = [orphans EXCEPT ![c] = orphans'[c]]
    /\ exited' = [exited EXCEPT ![c] = exited'[c]] /\ exited'[c] \in {"none", "ok", "bad"}
    /\ scan' = [scan EXCEPT ![c] = scan'[c]] /\ scan'[c] \in ScanRecord
    /\ committed' = [committed EXCEPT ![c] = committed'[c]] /\ committed'[c] \in BOOLEAN

\* A step of c touches what is kept of no other call, and leaves c sound.
OwnStep(c) == OwnChange(c) /\ CallSound(c)' /\ UNCHANGED config

\* The types of what is kept of call c.
OwnTypes(c) ==
    /\ call \in [Calls -> CallRecord] /\ call[c] \in CallRecord
    /\ job \in [Calls -> JobStates]
    /\ job[c] \in JobStates
    /\ orphans \in [Calls -> SUBSET Reasons]
    /\ exited \in [Calls -> {"none", "ok", "bad"}] /\ exited[c] \in {"none", "ok", "bad"}
    /\ scan \in [Calls -> ScanRecord]
    /\ scan[c] \in ScanRecord
    /\ committed \in [Calls -> BOOLEAN] /\ committed[c] \in BOOLEAN
    /\ kubernetes_mode \in BOOLEAN /\ in_cluster \in BOOLEAN

\* What the invariant says of one call.
LEMMA Owns ==
    ASSUME IInv, NEW c \in Calls
    PROVE  /\ OwnTypes(c) /\ CallSound(c)
           /\ job = [job EXCEPT ![c] = job[c]] /\ orphans = [orphans EXCEPT ![c] = orphans[c]]
           /\ exited = [exited EXCEPT ![c] = exited[c]] /\ scan = [scan EXCEPT ![c] = scan[c]]
           /\ committed = [committed EXCEPT ![c] = committed[c]]
<1>1. OwnTypes(c) /\ CallSound(c)
      BY DEF IInv, TypeOK, OwnTypes, CallRecord, ScanRecord
<1> QED BY <1>1 DEF OwnTypes

\* It is enough that the new record and what is kept with it are sound.
LEMMA OwnStepOf ==
    ASSUME NEW c, OwnChange(c), UNCHANGED config,
           WellPlaced(call'[c]), Abandoned(call'[c], orphans'[c]),
           Reported(call'[c], job'[c], exited'[c]),
           Scanned(call'[c], job'[c], scan'[c], committed'[c])
    PROVE  OwnStep(c)
<1>1. WellPlaced(call[c])' /\ Abandoned(call[c], orphans[c])'
      BY DEF WellPlaced, Abandoned, config
<1>2. Reported(call[c], job[c], exited[c])'
      BY DEF Reported
<1>3. Scanned(call[c], job[c], scan[c], committed[c])'
      BY DEF Scanned
<1> QED BY <1>1, <1>2, <1>3 DEF CallSound, OwnStep, OwnChange

\* Entering a tool leaves a call sound that is idle or thinks about the next.
LEMMA EnterIsSound ==
    ASSUME IInv, NEW c \in Calls, NEW t \in Tools, NEW r \in Resources, NEW k \in CallRecord,
           k = call[c] \/ (k = [call[c] EXCEPT !.round = k.round] /\ t # "delegate_task"),
           call[c].phase \in {"idle", "thinking"},
           EnterTool(c, t, r, k), UNCHANGED <<config, scan, orphans>>
    PROVE  OwnStep(c)
<1> DEFINE n == Enter(c, t, r, k)
<1>0. OwnTypes(c) /\ CallSound(c)
      BY Owns
<1>1. /\ call' = [call EXCEPT ![c] = n]
      /\ job' = [job EXCEPT ![c] = IF n.phase = "process" THEN "running" ELSE "none"]
      /\ exited' = [exited EXCEPT ![c] = "none"]
      /\ committed' = [committed EXCEPT ![c] = FALSE]
      BY <1>0 DEF EnterTool, OwnTypes
<1>2. /\ k.delegate = call[c].delegate /\ k.phase = call[c].phase /\ k.resource = None
      /\ k.backend = call[c].backend
      /\ k.backend = "kubernetes" => in_cluster
      /\ ~k.delegate => k.phase = "idle"
      /\ k.phase = "idle" => ~k.delegate
      BY <1>0 DEF CallSound, WellPlaced, OwnTypes, CallRecord
<1>3. ASSUME /\ n \in CallRecord /\ WellPlaced(n)
             /\ n.phase \notin {"idle", "logs", "cleanup", "returned"}
             /\ n.phase = "done" => n.result # "ok"
             /\ n.tool = "git_commit" => n.step = 1
             /\ k.delegate => n.delegate
      PROVE  OwnStep(c)
  <2> HIDE DEF n
  <2> DEFINE j == IF n.phase = "process" THEN "running" ELSE "none"
  <2>1. Reported(n, j, "none") /\ Scanned(n, j, scan[c], FALSE)
        BY <1>3 DEF Reported, Scanned
  <2>2. Abandoned(n, orphans[c])
    <3>1. Abandoned(call[c], orphans[c])
          BY <1>0 DEF CallSound
    <3> QED BY <1>2, <1>3, <3>1 DEF Abandoned
  <2>3. orphans' = [orphans EXCEPT ![c] = orphans[c]] /\ scan' = [scan EXCEPT ![c] = scan[c]]
        BY <1>0 DEF OwnTypes
  <2>4. /\ call'[c] = n /\ job'[c] = j /\ orphans'[c] = orphans[c]
        /\ exited'[c] = "none" /\ scan'[c] = scan[c] /\ committed'[c] = FALSE
        BY <1>0, <1>1, <2>3 DEF OwnTypes
  <2>5. OwnChange(c)
        BY <1>0, <1>1, <1>3, <2>3, <2>4 DEF OwnChange, OwnTypes, JobStates
  <2> QED BY <1>3, <2>1, <2>2, <2>4, <2>5, OwnStepOf
<1>4. CASE t = "mcp"
  <2>1. n = [k EXCEPT !.tool = t, !.phase = "queued", !.resource = r]
        BY <1>4 DEF Enter
  <2> HIDE DEF n
  <2>2. /\ n \in CallRecord /\ n.tool = t /\ n.phase = "queued" /\ n.resource = r
        /\ n.backend = k.backend /\ n.delegate = k.delegate
        BY <2>1 DEF CallRecord, Phases
  <2>3. WellPlaced(n)
        BY <1>2, <1>4, <2>2 DEF WellPlaced, KubePhases
  <2> QED BY <1>3, <1>4, <2>2, <2>3 DEF n
<1>5. CASE t = "direct"
  <2>1. n = [k EXCEPT !.tool = t, !.phase = "direct"]
        BY <1>5 DEF Enter
  <2> HIDE DEF n
  <2>2. /\ n \in CallRecord /\ n.tool = t /\ n.phase = "direct"
        /\ n.backend = k.backend /\ n.delegate = k.delegate
        BY <2>1 DEF CallRecord, Phases
  <2>3. WellPlaced(n)
        BY <1>2, <1>5, <2>2 DEF WellPlaced, KubePhases
  <2> QED BY <1>3, <1>5, <2>2, <2>3 DEF n
<1>6. CASE t = "delegate_task"
  <2>1. n = [k EXCEPT !.tool = t, !.phase = "thinking", !.delegate = TRUE]
        BY <1>6 DEF Enter
  <2> HIDE DEF n
  <2>2. /\ n \in CallRecord /\ n.tool = t /\ n.phase = "thinking" /\ n.delegate
        /\ n.backend = k.backend /\ n.resource = k.resource
        BY <2>1 DEF CallRecord, Phases
  <2>3. WellPlaced(n)
        BY <1>2, <1>6, <2>2 DEF WellPlaced, KubePhases
  <2> QED BY <1>3, <1>6, <2>2, <2>3 DEF n
<1>7. CASE t = "git_clone"
  <2> DEFINE p == IF k.delegate THEN "thinking" ELSE "done"
  <2>1. n = [k EXCEPT !.tool = t, !.phase = p, !.result = "failed"]
        BY <1>7 DEF Enter
  <2> HIDE DEF n
  <2>2. /\ n \in CallRecord /\ n.tool = t /\ n.phase = p /\ n.delegate = k.delegate
        /\ n.backend = k.backend /\ n.resource = k.resource /\ n.result = "failed"
        BY <2>1 DEF CallRecord, Phases, Results
  <2>3. WellPlaced(n)
        BY <1>2, <1>7, <2>2 DEF WellPlaced, KubePhases
  <2> QED BY <1>3, <1>7, <2>2, <2>3 DEF n
<1>8. CASE t \notin {"mcp", "direct", "delegate_task", "git_clone"}
  <2> DEFINE b == Backend(t)
             p == FirstPhase(b)
  <2>1. n = [k EXCEPT !.tool = t, !.backend = b, !.phase = p, !.step = 1]
        BY <1>8 DEF Enter
  <2>2. t \in Commands
        BY <1>8 DEF Tools, Commands
  <2>3. \/ b = "docker" /\ p = "checking" /\ t = "bash_execute"
        \/ b = "kubernetes" /\ p = "creating" /\ in_cluster
        \/ b = "local" /\ p = "process"
        BY DEF Backend, FirstPhase
  <2> HIDE DEF n, b, p
  <2>4. b \in Backends /\ p \in Phases /\ 1 \in 0..2
        BY <2>3 DEF Backends, Phases
  <2>5. /\ n \in CallRecord /\ n.tool = t /\ n.phase = p /\ n.step = 1
        /\ n.backend = b /\ n.delegate = k.delegate
    <3>1. n \in CallRecord
          BY <2>1, <2>4 DEF CallRecord
    <3>2. n.tool = t /\ n.phase = p /\ n.step = 1 /\ n.backend = b /\ n.delegate = k.delegate
          BY <2>1 DEF CallRecord
    <3> QED BY <3>1, <3>2
  <2>6. WellPlaced(n)
    <3>1. CASE b = "docker" /\ p = "checking" /\ t = "bash_execute"
          BY <2>2, <2>5, <3>1 DEF WellPlaced, KubePhases
    <3>2. CASE b = "kubernetes" /\ p = "creating" /\ in_cluster
          BY <2>2, <2>5, <3>2 DEF WellPlaced, KubePhases
    <3>3. CASE b = "local" /\ p = "process"
          BY <2>2, <2>5, <3>3 DEF WellPlaced, KubePhases
    <3> QED BY <2>3, <3>1, <3>2, <3>3
  <2> QED BY <1>3, <1>8, <2>3, <2>5, <2>6 DEF n
<1> QED BY <1>4, <1>5, <1>6, <1>7, <1>8

\* Ending a tool leaves the call sound, if its success is one of the command.
LEMMA EndIsSound ==
    ASSUME IInv, NEW c \in Calls, NEW res \in Results, EndTool(c, res),
           UNCHANGED <<config, exited, scan, committed>>,
           NEW j \in JobStates, job' = [job EXCEPT ![c] = j],
           NEW o, orphans' = [orphans EXCEPT ![c] = o], Abandoned(call[c], o),
           call[c].phase # "idle",
           j = "succeeded" => exited[c] = "ok" \/ ~call[c].delegate,
           res = "ok" /\ call[c].tool \in Commands /\ ~call[c].delegate => exited[c] = "ok"
    PROVE  OwnStep(c)
<1> DEFINE p == IF call[c].delegate THEN "thinking" ELSE "done"
           q == IF call[c].delegate THEN "none" ELSE res
           n == [call[c] EXCEPT !.phase = p, !.result = q, !.resource = None, !.seen = FALSE]
<1>0. /\ OwnTypes(c) /\ CallSound(c)
      /\ exited = [exited EXCEPT ![c] = exited[c]] /\ scan = [scan EXCEPT ![c] = scan[c]]
      /\ committed = [committed EXCEPT ![c] = committed[c]]
      BY Owns
<1>1. call' = [call EXCEPT ![c] = n]
      BY <1>0 DEF EndTool, OwnTypes
<1>2. p \in {"thinking", "done"} /\ p \in Phases /\ q \in Results
      BY DEF Phases, Results
<1>3. /\ n.phase = p /\ n.result = q /\ n.resource = None
      /\ n.delegate = call[c].delegate /\ n.tool = call[c].tool /\ n.backend = call[c].backend
      /\ n.step = call[c].step
      BY <1>0 DEF OwnTypes, CallRecord
<1>4. n \in CallRecord
      BY <1>0, <1>2 DEF OwnTypes, CallRecord
<1>5. WellPlaced(n)
  <2>1. WellPlaced(call[c])
        BY <1>0 DEF CallSound
  <2> HIDE DEF n
  <2> QED BY <1>2, <1>3, <2>1 DEF WellPlaced, KubePhases
<1>6. Abandoned(n, o)
  <2> HIDE DEF n
  <2> QED BY <1>2, <1>3 DEF Abandoned
<1>7. Reported(n, j, exited[c])
  <2> HIDE DEF n
  <2> QED BY <1>3 DEF Reported
<1>8. Scanned(n, j, scan[c], committed[c])
  <2>1. Scanned(call[c], job[c], scan[c], committed[c])
        BY <1>0 DEF CallSound
  <2> HIDE DEF n
  <2> QED BY <1>2, <1>3, <2>1 DEF Scanned
<1>9. /\ exited' = [exited EXCEPT ![c] = exited[c]] /\ scan' = [scan EXCEPT ![c] = scan[c]]
      /\ committed' = [committed EXCEPT ![c] = committed[c]] /\ UNCHANGED config
      /\ exited[c] \in {"none", "ok", "bad"} /\ committed[c] \in BOOLEAN
      /\ scan[c] \in ScanRecord
      BY <1>0 DEF OwnTypes
<1> HIDE DEF n
<1>10. /\ call'[c] = n /\ job'[c] = j /\ orphans'[c] = o
       /\ exited'[c] = exited[c] /\ scan'[c] = scan[c] /\ committed'[c] = committed[c]
       BY <1>0, <1>1, <1>9 DEF OwnTypes
<1>11. OwnChange(c)
       BY <1>1, <1>4, <1>9, <1>10 DEF OwnChange
<1> QED BY <1>5, <1>6, <1>7, <1>8, <1>9, <1>10, <1>11, OwnStepOf

\* The steps that touch nothing but the record of the call and its job.
LEMMA QuietStep ==
    ASSUME IInv, NEW c \in Calls, UNCHANGED <<config, orphans, exited, scan, committed>>,
           call' = [call EXCEPT ![c] = call'[c]], call'[c] \in CallRecord,
           job' = [job EXCEPT ![c] = job'[c]],
           job'[c] \in JobStates,
           call'[c].delegate = call[c].delegate,
           \/ call'[c].backend = call[c].backend
           \/ call[c].backend = "docker" /\ call'[c].backend \in {"docker", "local_dev"},
           call[c].phase = "idle" \/ call'[c].phase # "idle",
           WellPlaced(call'[c]), Reported(call'[c], job'[c], exited[c]),
           Scanned(call'[c], job'[c], scan[c], committed[c])
    PROVE  OwnStep(c)
<1>0. /\ OwnTypes(c) /\ CallSound(c)
      /\ exited = [exited EXCEPT ![c] = exited[c]] /\ scan = [scan EXCEPT ![c] = scan[c]]
      /\ committed = [committed EXCEPT ![c] = committed[c]]
      /\ orphans = [orphans EXCEPT ![c] = orphans[c]]
      BY Owns
<1>1. Abandoned(call'[c], orphans[c])
  <2>1. Abandoned(call[c], orphans[c])
        BY <1>0 DEF CallSound
  <2> QED BY <2>1 DEF Abandoned
<1>2. /\ exited' = [exited EXCEPT ![c] = exited'[c]] /\ exited'[c] = exited[c]
      /\ scan' = [scan EXCEPT ![c] = scan'[c]] /\ scan'[c] = scan[c]
      /\ committed' = [committed EXCEPT ![c] = committed'[c]] /\ committed'[c] = committed[c]
      /\ orphans' = [orphans EXCEPT ![c] = orphans'[c]] /\ orphans'[c] = orphans[c]
      BY <1>0
<1>3. OwnChange(c) /\ UNCHANGED config
      BY <1>0, <1>2 DEF OwnChange, OwnTypes
<1> QED BY <1>1, <1>2, <1>3, OwnStepOf

\* The moves of a call that keep its tool, its backend and its place in line.
Moves == {<<"queued", "direct">>, <<"process", "returned">>, <<"creating", "podwait">>,
          <<"creating", "cleanup">>, <<"podwait", "waiting">>, <<"podwait", "cleanup">>,
          <<"waiting", "logs">>, <<"waiting", "cleanup">>, <<"thinking", "done">>}

\* Such a move is sound when what it reports is, and what it says of the scan.
LEMMA MoveIsSound ==
    ASSUME IInv, NEW c \in Calls, UNCHANGED <<config, orphans, exited, scan, committed>>,
           NEW p, NEW res \in Results, <<call[c].phase, p>> \in Moves,
           call' = [call EXCEPT ![c].phase = p, ![c].result = res],
           job' = [job EXCEPT ![c] = job'[c]],
           job'[c] \in JobStates,
           \/ p \in {"direct", "podwait"} /\ job'[c] = job[c]
           \/ p = "waiting" /\ job'[c] = job[c] /\ job[c] = "running"
           \/ p = "cleanup" /\ job'[c] = job[c] /\ res \in {"timeout", "error"}
           \/ p \in {"returned", "logs"} /\ job'[c] \in {job[c], "none"} /\ res = Verdict(c)
                 /\ job[c] \in {"succeeded", "failed"}
           \/ p = "done" /\ job'[c] = job[c] /\ call[c].delegate
    PROVE  OwnStep(c)
<1>0. OwnTypes(c) /\ CallSound(c)
      BY Owns
<1> DEFINE n == [call[c] EXCEPT !.phase = p, !.result = res]
<1>1. call' = [call EXCEPT ![c] = n] /\ call'[c] = n
      BY <1>0 DEF OwnTypes
<1>2. p \in Phases
      BY DEF Moves, Phases
<1>3. /\ n \in CallRecord /\ n.phase = p /\ n.result = res
      /\ n.delegate = call[c].delegate /\ n.tool = call[c].tool /\ n.step = call[c].step
      /\ n.backend = call[c].backend /\ n.resource = call[c].resource /\ n.seen = call[c].seen
      BY <1>0, <1>2 DEF OwnTypes, CallRecord
<1> HIDE DEF n
<1>4. WellPlaced(n)
  <2>1. WellPlaced(call[c])
        BY <1>0 DEF CallSound
  <2> QED BY <1>3, <2>1 DEF WellPlaced, KubePhases, Moves
<1>5. Reported(n, job'[c], exited[c])
  <2>1. Reported(call[c], job[c], exited[c])
        BY <1>0 DEF CallSound
  <2> QED BY <1>3, <2>1 DEF Reported, Moves, Verdict
<1>6. Scanned(n, job'[c], scan[c], committed[c])
  <2>1. Scanned(call[c], job[c], scan[c], committed[c])
        BY <1>0 DEF CallSound
  <2> QED BY <1>3, <2>1 DEF Scanned, Moves, Verdict
<1>7. p # "idle"
      BY DEF Moves
<1> QED BY <1>1, <1>3, <1>4, <1>5, <1>6, <1>7, QuietStep

-----------------------------------------------------------------------------
(* The steps of a call, one by one.                                        *)

\* CheckDocker: docker, the machine itself, or the end of the tool.
LEMMA CheckDockerIsOwn ==
    ASSUME IInv, NEW c \in Calls, NEW up \in BOOLEAN, CheckDocker(c, up)
    PROVE  OwnStep(c)
<1>0. /\ OwnTypes(c) /\ CallSound(c)
      /\ job = [job EXCEPT ![c] = job[c]] /\ orphans = [orphans EXCEPT ![c] = orphans[c]]
      BY Owns
<1>1. UNCHANGED <<config, orphans, exited, scan, committed>> /\ call[c].phase = "checking"
      BY <1>0 DEF CheckDocker, git
<1>2. CASE EndTool(c, "failed") /\ UNCHANGED job
  <2>1. "failed" \in Results /\ Abandoned(call[c], orphans[c])
        BY <1>0 DEF Results, CallSound
  <2>2. job[c] = "succeeded" => exited[c] = "ok"
        BY <1>0, <1>1 DEF CallSound, Reported
  <2>3. job' = [job EXCEPT ![c] = job[c]] /\ orphans' = [orphans EXCEPT ![c] = orphans[c]]
        BY <1>0, <1>1, <1>2
  <2> QED BY <1>0, <1>1, <1>2, <2>1, <2>2, <2>3, EndIsSound DEF OwnTypes, JobStates
<1>3. ASSUME NEW b \in {"docker", "local_dev"},
             call' = [call EXCEPT ![c].phase = "process", ![c].backend = b],
             job' = [job EXCEPT ![c] = "running"]
      PROVE  OwnStep(c)
  <2> DEFINE n == [call[c] EXCEPT !.phase = "process", !.backend = b]
  <2>1. call' = [call EXCEPT ![c] = n] /\ call'[c] = n /\ job'[c] = "running"
        BY <1>0, <1>3 DEF OwnTypes
  <2>2. "process" \in Phases /\ b \in Backends
        BY DEF Phases, Backends
  <2>3. /\ n \in CallRecord /\ n.phase = "process" /\ n.backend = b
        /\ n.delegate = call[c].delegate /\ n.tool = call[c].tool /\ n.step = call[c].step
        BY <1>0, <2>2 DEF OwnTypes, CallRecord
  <2> HIDE DEF n
  <2>4. call[c].tool = "bash_execute" /\ ~(n.tool = "git_commit") /\ call[c].backend = "docker"
        BY <1>0, <1>1, <2>3 DEF CallSound, WellPlaced
  <2>5. WellPlaced(n)
        BY <2>3, <2>4 DEF WellPlaced, KubePhases, Commands
  <2>6. Reported(n, "running", exited[c])
        BY <2>3 DEF Reported
  <2>7. Scanned(n, "running", scan[c], committed[c])
    <3>1. Scanned(call[c], job[c], scan[c], committed[c])
          BY <1>0 DEF CallSound
    <3> QED BY <2>3, <2>4, <3>1 DEF Scanned
  <2>8. "running" \in JobStates
        BY DEF JobStates
  <2> QED BY <1>1, <1>3, <2>1, <2>3, <2>4, <2>5, <2>6, <2>7, <2>8, QuietStep
<1> QED BY <1>2, <1>3 DEF CheckDocker

\* The moves that only the executor makes.
LEMMA MovesAreOwn ==
    ASSUME IInv, NEW c \in Calls, NEW ok \in BOOLEAN,
           \/ Acquire(c) \/ ProcessReturns(c) \/ PodSeen(c) \/ PodMissed(c)
           \/ JobSeenDone(c) \/ JobTimeout(c) \/ JobCreated(c, ok) \/ Answer(c, ok)
    PROVE  OwnStep(c)
<1>0. /\ OwnTypes(c) /\ CallSound(c) /\ call[c].result \in Results
      /\ job = [job EXCEPT ![c] = job[c]]
      /\ {"error", "timeout", "ok", "failed"} \subseteq Results
      BY Owns DEF Results, OwnTypes, CallRecord
<1>1. ASSUME NEW p, call' = [call EXCEPT ![c].phase = p]
      PROVE  call' = [call EXCEPT ![c].phase = p, ![c].result = call[c].result]
      BY <1>0, <1>1 DEF OwnTypes, CallRecord
<1>2. CASE Acquire(c)
  <2>1. /\ call' = [call EXCEPT ![c].phase = "direct", ![c].result = call[c].result]
        /\ <<call[c].phase, "direct">> \in Moves
        /\ UNCHANGED <<config, job, orphans, exited, scan, committed>>
        BY <1>1, <1>2 DEF Acquire, Move, Moves, git
  <2> QED BY <1>0, <2>1, MoveIsSound DEF OwnTypes
<1>3. CASE ProcessReturns(c)
  <2>1. /\ call' = [call EXCEPT ![c].phase = "returned", ![c].result = Verdict(c)]
        /\ <<call[c].phase, "returned">> \in Moves
        /\ job' = [job EXCEPT ![c] = "none"] /\ job[c] \in {"succeeded", "failed"}
        /\ UNCHANGED <<config, orphans, exited, scan, committed>>
        BY <1>3 DEF ProcessReturns, Moves, git
  <2>2. Verdict(c) \in Results /\ job'[c] = "none"
        BY <1>0, <2>1 DEF Verdict, OwnTypes
  <2> QED BY <1>0, <2>1, <2>2, MoveIsSound DEF OwnTypes, JobStates
<1>4. CASE PodSeen(c)
  <2>1. /\ call' = [call EXCEPT ![c].phase = "waiting", ![c].result = call[c].result]
        /\ <<call[c].phase, "waiting">> \in Moves /\ job[c] = "running"
        /\ UNCHANGED <<config, job, orphans, exited, scan, committed>>
        BY <1>1, <1>4 DEF PodSeen, Move, Moves, git
  <2> QED BY <1>0, <2>1, MoveIsSound DEF OwnTypes
<1>5. CASE PodMissed(c)
  <2>1. /\ call' = [call EXCEPT ![c].phase = "cleanup", ![c].result = "error"]
        /\ <<call[c].phase, "cleanup">> \in Moves
        /\ UNCHANGED <<config, job, orphans, exited, scan, committed>>
        BY <1>5 DEF PodMissed, Moves, git
  <2> QED BY <1>0, <2>1, MoveIsSound DEF OwnTypes
<1>6. CASE JobSeenDone(c)
  <2>1. /\ call' = [call EXCEPT ![c].phase = "logs", ![c].result = Verdict(c)]
        /\ <<call[c].phase, "logs">> \in Moves /\ job[c] \in {"succeeded", "failed"}
        /\ UNCHANGED <<config, job, orphans, exited, scan, committed>>
        BY <1>6 DEF JobSeenDone, Moves, git
  <2>2. Verdict(c) \in Results
        BY <1>0, <2>1 DEF Verdict
  <2> QED BY <1>0, <2>1, <2>2, MoveIsSound DEF OwnTypes
<1>7. CASE JobTimeout(c)
  <2>1. /\ call' = [call EXCEPT ![c].phase = "cleanup", ![c].result = "timeout"]
        /\ <<call[c].phase, "cleanup">> \in Moves
        /\ UNCHANGED <<config, job, exited, scan, committed>>
        BY <1>7 DEF JobTimeout, AfterTimeout, Moves, git
  <2>2. call'[c].phase = "cleanup"
        BY <1>0, <2>1 DEF OwnTypes, CallRecord
  <2>3. UNCHANGED orphans
        BY <1>7, <2>2 DEF JobTimeout
  <2> QED BY <1>0, <2>1, <2>3, MoveIsSound DEF OwnTypes
<1>8. CASE JobCreated(c, ok)
  <2>1. UNCHANGED <<config, job, orphans, exited, scan, committed>> /\ call[c].phase = "creating"
        BY <1>8 DEF JobCreated, git
  <2>2. CASE ok
    <3>1. call' = [call EXCEPT ![c].phase = "podwait", ![c].result = call[c].result]
          BY <1>0, <1>8, <2>2 DEF JobCreated
    <3>2. <<call[c].phase, "podwait">> \in Moves
          BY <2>1 DEF Moves
    <3> QED BY <1>0, <2>1, <3>1, <3>2, MoveIsSound DEF OwnTypes
  <2>3. CASE ~ok
    <3>1. call' = [call EXCEPT ![c].phase = "cleanup", ![c].result = "error"]
          BY <1>0, <1>8, <2>3 DEF JobCreated
    <3>2. <<call[c].phase, "cleanup">> \in Moves
          BY <2>1 DEF Moves
    <3> QED BY <1>0, <2>1, <3>1, <3>2, MoveIsSound DEF OwnTypes
  <2> QED BY <2>2, <2>3
<1>9. CASE Answer(c, ok)
  <2> DEFINE res == IF ok THEN "ok" ELSE "failed"
  <2>1. /\ call' = [call EXCEPT ![c].phase = "done", ![c].result = res]
        /\ <<call[c].phase, "done">> \in Moves
        /\ UNCHANGED <<config, job, orphans, exited, scan, committed>>
        BY <1>9 DEF Answer, Moves, git
  <2>2. res \in Results /\ call[c].delegate
        BY <1>0, <1>9 DEF Answer, CallSound, WellPlaced
  <2> HIDE DEF res
  <2> QED BY <1>0, <2>1, <2>2, MoveIsSound DEF OwnTypes
<1> QED BY <1>2, <1>3, <1>4, <1>5, <1>6, <1>7, <1>8, <1>9

\* The tool returns, or its process is given up.
LEMMA EndsAreOwn ==
    ASSUME IInv, NEW c \in Calls, NEW ok \in BOOLEAN, NEW survives \in BOOLEAN,
           ToolReturns(c, ok) \/ ProcessRaises(c) \/ ProcessTimeout(c, survives)
    PROVE  OwnStep(c)
<1>0. /\ OwnTypes(c) /\ CallSound(c)
      /\ job = [job EXCEPT ![c] = job[c]] /\ orphans = [orphans EXCEPT ![c] = orphans[c]]
      /\ Abandoned(call[c], orphans[c])
      /\ {"timeout", "ok", "failed"} \subseteq Results
      BY Owns DEF Results, CallSound
<1>1. CASE ToolReturns(c, ok)
  <2> DEFINE res == IF ok THEN "ok" ELSE "failed"
  <2>1. /\ EndTool(c, res) /\ call[c].phase = "direct"
        /\ UNCHANGED <<config, job, orphans, exited, scan, committed>>
        BY <1>1 DEF ToolReturns, git
  <2>2. call[c].tool \notin Commands
        BY <1>0, <2>1 DEF CallSound, WellPlaced, Commands
  <2>3. job[c] = "succeeded" => exited[c] = "ok"
        BY <1>0, <2>1 DEF CallSound, Reported
  <2>4. res \in Results
        BY <1>0
  <2>5. job' = [job EXCEPT ![c] = job[c]] /\ orphans' = [orphans EXCEPT ![c] = orphans[c]]
        BY <1>0, <2>1
  <2> HIDE DEF res
  <2> QED BY <1>0, <2>1, <2>2, <2>3, <2>4, <2>5, EndIsSound DEF OwnTypes
<1>2. CASE ProcessRaises(c)
  <2>1. /\ EndTool(c, "failed") /\ call[c].phase = "process"
        /\ job' = [job EXCEPT ![c] = "none"] /\ "none" \in JobStates
        /\ UNCHANGED <<config, orphans, exited, scan, committed>>
        BY <1>2 DEF ProcessRaises, git, JobStates
  <2>2. orphans' = [orphans EXCEPT ![c] = orphans[c]]
        BY <1>0, <2>1
  <2> QED BY <1>0, <2>1, <2>2, EndIsSound
<1>3. CASE ProcessTimeout(c, survives)
  <2> DEFINE b == call[c].backend
             j == IF Kills(b) /\ ~survives THEN "none" ELSE job[c]
             o == IF j = "none" THEN orphans[c]
                  ELSE orphans[c] \cup {IF Kills(b) THEN "descendants" ELSE "timeout"}
  <2>1. /\ EndTool(c, "timeout") /\ call[c].phase = "process"
        /\ UNCHANGED <<config, exited, scan, committed>>
        BY <1>3 DEF ProcessTimeout, git
  <2>2. job' = [job EXCEPT ![c] = j] /\ job'[c] = j
        BY <1>0, <1>3 DEF ProcessTimeout, OwnTypes
  <2>3. orphans' = [orphans EXCEPT ![c] = o]
    <3>1. CASE j = "none"
          BY <1>0, <1>3, <2>2, <3>1 DEF ProcessTimeout
    <3>2. CASE j # "none"
          BY <1>0, <1>3, <2>2, <3>2 DEF ProcessTimeout
    <3> QED BY <3>1, <3>2
  <2>4. j \in JobStates /\ (j = "succeeded" => exited[c] = "ok")
    <3>1. Reported(call[c], job[c], exited[c])
          BY <1>0 DEF CallSound
    <3> QED BY <1>0, <2>1, <3>1 DEF Reported, OwnTypes, JobStates
  <2>5. Abandoned(call[c], o)
    <3>1. b \in {"local", "docker", "local_dev"}
          BY <1>0, <2>1 DEF CallSound, WellPlaced
    <3>2. {"descendants", "timeout"} \subseteq Reasons
          BY DEF Reasons
    <3>3. CASE b = "local"
      <4>1. o \in {orphans[c], orphans[c] \cup {"descendants"}}
            BY <3>3 DEF Kills
      <4> HIDE DEF o
      <4> QED BY <1>0, <2>1, <3>2, <3>3, <4>1 DEF Abandoned
    <3>4. CASE b # "local"
      <4>1. o \in {orphans[c], orphans[c] \cup {"timeout"}}
            BY <3>4 DEF Kills
      <4> HIDE DEF o
      <4> QED BY <1>0, <2>1, <3>1, <3>2, <3>4, <4>1 DEF Abandoned
    <3> QED BY <3>3, <3>4
  <2> HIDE DEF j, o
  <2> QED BY <1>0, <2>1, <2>2, <2>3, <2>4, <2>5, EndIsSound
<1> QED BY <1>1, <1>2, <1>3

\* The time limit of the worker.
LEMMA WorkerTimeoutIsOwn ==
    ASSUME IInv, NEW c \in Calls, WorkerTimeout(c)
    PROVE  OwnStep(c)
<1>0. /\ OwnTypes(c) /\ CallSound(c)
      /\ job = [job EXCEPT ![c] = job[c]] /\ orphans = [orphans EXCEPT ![c] = orphans[c]]
      /\ exited = [exited EXCEPT ![c] = exited[c]] /\ scan = [scan EXCEPT ![c] = scan[c]]
      /\ committed = [committed EXCEPT ![c] = committed[c]]
      BY Owns
<1> DEFINE n == [call[c] EXCEPT !.phase = "done", !.result = "cancelled",
                                !.resource = None, !.seen = FALSE]
           o == IF job[c] = "none" THEN orphans[c] ELSE orphans[c] \cup {"cancelled"}
<1>1. /\ call[c].phase \notin {"idle", "done"}
      /\ UNCHANGED <<config, job, exited, scan, committed>>
      /\ orphans' = [orphans EXCEPT ![c] = o]
      BY <1>0 DEF WorkerTimeout, git
<1>2. call' = [call EXCEPT ![c] = n] /\ call'[c] = n
      BY <1>0 DEF WorkerTimeout, OwnTypes
<1>3. "done" \in Phases /\ "cancelled" \in Results
      BY DEF Phases, Results
<1>4. n \in CallRecord
      BY <1>0, <1>3 DEF OwnTypes, CallRecord
<1>5. /\ n.phase = "done" /\ n.result = "cancelled" /\ n.tool = call[c].tool
      /\ n.step = call[c].step /\ n.backend = call[c].backend /\ n.delegate = call[c].delegate
      BY <1>0 DEF OwnTypes, CallRecord
<1> HIDE DEF n
<1>6. WellPlaced(n)
  <2>1. WellPlaced(call[c])
        BY <1>0 DEF CallSound
  <2> QED BY <1>5, <2>1 DEF WellPlaced, KubePhases
<1>7. Abandoned(n, o)
  <2>1. Abandoned(call[c], orphans[c])
        BY <1>0 DEF CallSound
  <2> QED BY <1>5, <2>1 DEF Abandoned, Reasons
<1>8. Reported(n, job[c], exited[c])
      BY <1>5 DEF Reported
<1>9. Scanned(n, job[c], scan[c], committed[c])
  <2>1. Scanned(call[c], job[c], scan[c], committed[c])
        BY <1>0 DEF CallSound
  <2> QED BY <1>5, <2>1 DEF Scanned
<1> HIDE DEF o
<1>10. /\ orphans' = [orphans EXCEPT ![c] = orphans'[c]] /\ orphans'[c] = o
       BY <1>0, <1>1 DEF OwnTypes
<1>11. OwnChange(c)
       BY <1>0, <1>1, <1>2, <1>4, <1>10 DEF OwnChange, OwnTypes
<1> QED BY <1>1, <1>2, <1>6, <1>7, <1>8, <1>9, <1>10, <1>11, OwnStepOf

\* The logs of a job are read, or lost.
LEMMA GetLogsIsOwn ==
    ASSUME IInv, NEW c \in Calls, NEW ok \in BOOLEAN, GetLogs(c, ok)
    PROVE  OwnStep(c)
<1>0. /\ OwnTypes(c) /\ CallSound(c)
      /\ job = [job EXCEPT ![c] = job[c]] /\ orphans = [orphans EXCEPT ![c] = orphans[c]]
      /\ exited = [exited EXCEPT ![c] = exited[c]] /\ scan = [scan EXCEPT ![c] = scan[c]]
      /\ committed = [committed EXCEPT ![c] = committed[c]]
      BY Owns
<1> DEFINE b == call[c].seen /\ ok
           n == [call[c] EXCEPT !.phase = "cleanup", !.seen = b]
           s == IF ok \/ call[c].tool # "git_commit" \/ call[c].step # 1 THEN scan[c]
                ELSE [scan[c] EXCEPT !.blind = TRUE]
<1>1. /\ call[c].phase = "logs"
      /\ UNCHANGED <<config, job, orphans, exited, committed>>
      BY DEF GetLogs
<1>2. call' = [call EXCEPT ![c] = n] /\ call'[c] = n
      BY <1>0 DEF GetLogs, OwnTypes
<1>3. scan' = [scan EXCEPT ![c] = s]
      BY <1>0 DEF GetLogs, OwnTypes
<1>4. s \in ScanRecord /\ s.risky = scan[c].risky
      /\ (s.blind = scan[c].blind \/ (s.blind = TRUE /\ ~ok))
      BY <1>0 DEF OwnTypes, ScanRecord
<1>5. "cleanup" \in Phases /\ b \in BOOLEAN
      BY <1>0 DEF Phases, OwnTypes, CallRecord
<1>6. n \in CallRecord
      BY <1>0, <1>5 DEF OwnTypes, CallRecord
<1>7. /\ n.phase = "cleanup" /\ n.result = call[c].result /\ n.tool = call[c].tool
      /\ n.step = call[c].step /\ n.backend = call[c].backend /\ n.delegate = call[c].delegate
      /\ n.seen = b
      BY <1>0 DEF OwnTypes, CallRecord
<1> HIDE DEF n
<1>8. WellPlaced(n)
  <2>1. WellPlaced(call[c])
        BY <1>0 DEF CallSound
  <2> QED BY <1>1, <1>7, <2>1 DEF WellPlaced, KubePhases
<1>9. Abandoned(n, orphans[c])
  <2>1. Abandoned(call[c], orphans[c])
        BY <1>0 DEF CallSound
  <2> QED BY <1>7, <2>1 DEF Abandoned
<1>10. Reported(n, job[c], exited[c])
  <2>1. Reported(call[c], job[c], exited[c])
        BY <1>0 DEF CallSound
  <2> QED BY <1>1, <1>7, <2>1 DEF Reported
<1>11. Scanned(n, job[c], s, committed[c])
  <2>1. Scanned(call[c], job[c], scan[c], committed[c])
        BY <1>0 DEF CallSound
  <2>2. CASE ok
        BY <1>1, <1>7, <2>1, <2>2 DEF Scanned
  <2>3. CASE ~ok
        BY <1>1, <1>7, <2>1, <2>3 DEF Scanned
  <2> QED BY <2>2, <2>3
<1> HIDE DEF s, b
<1>12. scan' = [scan EXCEPT ![c] = scan'[c]] /\ scan'[c] = s
       BY <1>0, <1>3 DEF OwnTypes
<1>13. OwnChange(c)
       BY <1>0, <1>1, <1>2, <1>4, <1>6, <1>12 DEF OwnChange, OwnTypes
<1> QED BY <1>1, <1>2, <1>8, <1>9, <1>10, <1>11, <1>12, <1>13, OwnStepOf

\* The job is deleted, or its deletion fails.
LEMMA CleanupJobIsOwn ==
    ASSUME IInv, NEW c \in Calls, NEW ok \in BOOLEAN, CleanupJob(c, ok)
    PROVE  OwnStep(c)
<1>0. /\ OwnTypes(c) /\ CallSound(c)
      /\ exited = [exited EXCEPT ![c] = exited[c]] /\ scan = [scan EXCEPT ![c] = scan[c]]
      /\ committed = [committed EXCEPT ![c] = committed[c]]
      /\ job = [job EXCEPT ![c] = job[c]] /\ orphans = [orphans EXCEPT ![c] = orphans[c]]
      BY Owns
<1> DEFINE o == IF ok \/ job[c] = "none" THEN orphans[c] ELSE orphans[c] \cup {"delete_failed"}
           j == IF ok THEN "none" ELSE job[c]
<1>1. /\ call[c].phase = "cleanup" /\ UNCHANGED <<config, exited, scan, committed>>
      /\ job' = [job EXCEPT ![c] = j] /\ orphans' = [orphans EXCEPT ![c] = o]
      BY <1>0 DEF CleanupJob, git
<1>2. Abandoned(call[c], o)
  <2>1. Abandoned(call[c], orphans[c]) /\ in_cluster
        BY <1>0, <1>1 DEF CallSound, WellPlaced, KubePhases
  <2> QED BY <1>1, <2>1 DEF Abandoned, Reasons
<1>3. j \in JobStates /\ (j = "succeeded" => exited[c] = "ok")
      BY <1>0, <1>1 DEF CallSound, Reported, OwnTypes, JobStates
<1> HIDE DEF o
<1>4. CASE call[c].result \in {"timeout", "error"}
  <2>1. EndTool(c, call[c].result) /\ call[c].result \in Results
        BY <1>0, <1>4 DEF CleanupJob, OwnTypes, CallRecord
  <2> HIDE DEF j
  <2> QED BY <1>1, <1>2, <1>3, <1>4, <2>1, EndIsSound
<1>5. CASE call[c].result \notin {"timeout", "error"}
  <2> DEFINE n == [call[c] EXCEPT !.phase = "returned"]
  <2>1. call' = [call EXCEPT ![c] = n] /\ call'[c] = n
        BY <1>0, <1>5 DEF CleanupJob, Move, OwnTypes
  <2>2. "returned" \in Phases
        BY DEF Phases
  <2>3. /\ n \in CallRecord /\ n.phase = "returned" /\ n.result = call[c].result
        /\ n.tool = call[c].tool /\ n.step = call[c].step /\ n.backend = call[c].backend
        /\ n.delegate = call[c].delegate /\ n.seen = call[c].seen
        BY <1>0, <2>2 DEF OwnTypes, CallRecord
  <2> HIDE DEF n
  <2>4. WellPlaced(n)
    <3>1. WellPlaced(call[c])
          BY <1>0 DEF CallSound
    <3> QED BY <1>1, <2>3, <3>1 DEF WellPlaced, KubePhases
  <2>5. Abandoned(n, o)
        BY <1>1, <1>2, <2>3 DEF Abandoned
  <2>6. Reported(n, j, exited[c])
    <3>1. Reported(call[c], job[c], exited[c])
          BY <1>0 DEF CallSound
    <3> QED BY <1>1, <1>5, <2>3, <3>1 DEF Reported
  <2>7. Scanned(n, j, scan[c], committed[c])
    <3>1. Scanned(call[c], job[c], scan[c], committed[c])
          BY <1>0 DEF CallSound
    <3> QED BY <1>1, <2>3, <3>1 DEF Scanned
  <2> HIDE DEF j
  <2>8. /\ job' = [job EXCEPT ![c] = job'[c]] /\ job'[c] = j
        /\ orphans' = [orphans EXCEPT ![c] = orphans'[c]] /\ orphans'[c] = o
        BY <1>0, <1>1 DEF OwnTypes
  <2>9. OwnChange(c)
        BY <1>0, <1>1, <1>3, <2>1, <2>3, <2>8 DEF OwnChange, OwnTypes
  <2> QED BY <1>1, <2>1, <2>4, <2>5, <2>6, <2>7, <2>8, <2>9, OwnStepOf
<1> QED BY <1>4, <1>5

\* What the cluster or terminate_job does to a job alone.
LEMMA JobsAreOwn ==
    ASSUME IInv, NEW c \in Calls, TerminateJob(c) \/ ClusterCreates(c) \/ JobExpires(c)
    PROVE  OwnStep(c)
<1>0. /\ OwnTypes(c) /\ CallSound(c)
      BY Owns
<1>1. UNCHANGED <<config, call, orphans, exited, scan, committed>>
      BY DEF TerminateJob, ClusterCreates, JobExpires, git
<1>2. \/ job' = [job EXCEPT ![c] = "none"]
      \/ job' = [job EXCEPT ![c] = "running"] /\ call[c].phase = "creating"
      BY DEF TerminateJob, ClusterCreates, JobExpires
<1>3. /\ job' = [job EXCEPT ![c] = job'[c]] /\ call' = [call EXCEPT ![c] = call'[c]]
      /\ call'[c] = call[c] /\ call[c] \in CallRecord
      /\ job'[c] = "none" \/ (job'[c] = "running" /\ call[c].phase = "creating")
      BY <1>0, <1>1, <1>2 DEF OwnTypes
<1>4. WellPlaced(call[c])
      BY <1>0 DEF CallSound
<1>5. Reported(call[c], job'[c], exited[c])
  <2>1. Reported(call[c], job[c], exited[c])
        BY <1>0 DEF CallSound
  <2> QED BY <1>3, <2>1 DEF Reported
<1>6. Scanned(call[c], job'[c], scan[c], committed[c])
  <2>1. Scanned(call[c], job[c], scan[c], committed[c])
        BY <1>0 DEF CallSound
  <2> QED BY <1>3, <2>1 DEF Scanned
<1> QED BY <1>1, <1>3, <1>4, <1>5, <1>6, QuietStep DEF JobStates

\* What a tool does when its execution has returned.
LEMMA GoOnIsOwn ==
    ASSUME IInv, NEW c \in Calls, GoOn(c)
    PROVE  OwnStep(c)
<1>0. /\ OwnTypes(c) /\ CallSound(c)
      /\ job = [job EXCEPT ![c] = job[c]] /\ orphans = [orphans EXCEPT ![c] = orphans[c]]
      /\ Abandoned(call[c], orphans[c])
      /\ scan = [scan EXCEPT ![c] = scan[c]] /\ committed = [committed EXCEPT ![c] = committed[c]]
      BY Owns DEF CallSound
<1>1. call[c].phase = "returned" /\ UNCHANGED <<config, scan, committed, orphans>>
      BY DEF GoOn, git
<1>2. ASSUME NEW res \in Results, EndTool(c, res), UNCHANGED <<job, exited>>,
             res = "ok" => call[c].result = "ok"
      PROVE  OwnStep(c)
  <2>1. /\ job[c] = "succeeded" => exited[c] = "ok"
        /\ call[c].result = "ok" => exited[c] = "ok"
        BY <1>0, <1>1 DEF CallSound, Reported
  <2>2. job' = [job EXCEPT ![c] = job[c]] /\ orphans' = [orphans EXCEPT ![c] = orphans[c]]
        BY <1>0, <1>1, <1>2
  <2> QED BY <1>0, <1>1, <1>2, <2>1, <2>2, EndIsSound DEF OwnTypes
<1>3. CASE call[c].tool \in {"git_commit", "git_create_pr"} /\ call[c].step = 1
  <2>1. CASE call[c].tool = "git_commit" /\ HasRisks(c)
    <3>1. EndTool(c, "approval") /\ UNCHANGED <<job, exited>> /\ "approval" \in Results
          BY <1>3, <2>1 DEF GoOn, Results
    <3> QED BY <1>2, <3>1
  <2>2. CASE ~(call[c].tool = "git_commit" /\ HasRisks(c))
    <3> DEFINE p == FirstPhase(call[c].backend)
               j == IF call[c].backend = "local" THEN "running" ELSE "none"
               n == [call[c] EXCEPT !.step = 2, !.phase = p, !.result = "none", !.seen = FALSE]
    <3>1. /\ call' = [call EXCEPT ![c] = n] /\ call'[c] = n
          /\ job' = [job EXCEPT ![c] = j] /\ job'[c] = j
          /\ exited' = [exited EXCEPT ![c] = "none"] /\ exited'[c] = "none"
      <4>1. /\ call' = [call EXCEPT ![c].step = 2, ![c].phase = p, ![c].result = "none", ![c].seen = FALSE]
            /\ job' = [job EXCEPT ![c] = j] /\ exited' = [exited EXCEPT ![c] = "none"]
            BY <1>3, <2>2 DEF GoOn
      <4>2. /\ DOMAIN call = Calls /\ job \in [Calls -> JobStates]
            /\ exited \in [Calls -> {"none", "ok", "bad"}]
            BY <1>0 DEF OwnTypes
      <4>3. call \in [Calls -> CallRecord]
            BY <1>0 DEF OwnTypes
      <4>4. call' = [call EXCEPT ![c] = n]
            BY <4>1, <4>3
      <4>5. call'[c] = n
            BY <4>3, <4>4
      <4> HIDE DEF n, j, p
      <4> QED BY <4>1, <4>2, <4>4, <4>5
    <3>2. \/ call[c].backend = "local" /\ p = "process"
          \/ call[c].backend = "kubernetes" /\ p = "creating" /\ in_cluster
          BY <1>0, <1>1, <1>3 DEF CallSound, WellPlaced, FirstPhase
    <3> HIDE DEF p
    <3>3. p \in Phases /\ "none" \in Results /\ 2 \in 0..2
          BY <3>2 DEF Phases, Results
    <3>4. n \in CallRecord
          BY <1>0, <3>3 DEF OwnTypes, CallRecord
    <3>5. /\ n.phase = p /\ n.step = 2 /\ n.result = "none" /\ n.tool = call[c].tool
          /\ n.backend = call[c].backend /\ n.delegate = call[c].delegate
          BY <1>0 DEF OwnTypes, CallRecord
    <3> HIDE DEF n, j
    <3>6. WellPlaced(n)
      <4>1. n.tool \in Commands
            BY <1>3, <3>5 DEF Commands
      <4> QED BY <3>2, <3>5, <4>1 DEF WellPlaced, KubePhases
    <3>7. Abandoned(n, orphans[c])
          BY <1>0, <3>2, <3>5 DEF Abandoned
    <3>8. j \in {"running", "none"}
          BY DEF j
    <3>9. Reported(n, j, "none")
          BY <3>2, <3>5, <3>8 DEF Reported
    <3>10. Scanned(n, j, scan[c], committed[c])
      <4>1. Scanned(call[c], job[c], scan[c], committed[c])
            BY <1>0 DEF CallSound
      <4>2. call[c].result \in {"ok", "failed"}
            BY <1>0, <1>1 DEF CallSound, Reported
      <4> QED BY <1>1, <1>3, <2>2, <3>2, <3>5, <3>8, <4>1, <4>2 DEF Scanned, HasRisks
    <3>11. /\ orphans' = [orphans EXCEPT ![c] = orphans'[c]] /\ orphans'[c] = orphans[c]
           /\ scan' = [scan EXCEPT ![c] = scan'[c]] /\ scan'[c] = scan[c]
           /\ committed' = [committed EXCEPT ![c] = committed'[c]] /\ committed'[c] = committed[c]
           BY <1>0, <1>1
    <3>12. OwnChange(c)
           BY <1>0, <3>1, <3>4, <3>8, <3>11 DEF OwnChange, OwnTypes, JobStates
    <3> QED BY <1>1, <3>1, <3>6, <3>7, <3>9, <3>10, <3>11, <3>12, OwnStepOf
  <2> QED BY <2>1, <2>2
<1>4. CASE ~(call[c].tool \in {"git_commit", "git_create_pr"} /\ call[c].step = 1)
  <2>1. EndTool(c, call[c].result) /\ UNCHANGED <<job, exited>> /\ call[c].result \in Results
        BY <1>0, <1>4 DEF GoOn, OwnTypes, CallRecord
  <2> QED BY <1>2, <2>1
<1> QED BY <1>3, <1>4

\* A call starts, or the model of a sub-agent asks for its next tool.
LEMMA EntersAreOwn ==
    ASSUME IInv, NEW c \in Calls, NEW t \in ToolsOf[c], NEW r \in Resources,
           Start(c, t, r) \/ Think(c, t, r)
    PROVE  OwnStep(c)
<1>0. OwnTypes(c) /\ CallSound(c) /\ t \in Tools
      BY Owns, SandboxAssumption
<1>1. CASE Start(c, t, r)
  <2>1. /\ EnterTool(c, t, r, call[c]) /\ call[c] \in CallRecord /\ call[c].phase = "idle"
        /\ UNCHANGED <<config, scan, orphans>>
        BY <1>0, <1>1 DEF Start, OwnTypes
  <2> QED BY <1>0, <2>1, EnterIsSound
<1>2. CASE Think(c, t, r)
  <2> DEFINE k == [call[c] EXCEPT !.round = @ + 1]
  <2>1. /\ EnterTool(c, t, r, k) /\ call[c].phase = "thinking" /\ t # "delegate_task"
        /\ call[c].round < MaxRounds /\ UNCHANGED <<config, scan, orphans>>
        BY <1>2 DEF Think, RoundsLeft
  <2>2. call[c].round + 1 \in 0..MaxRounds
        BY <1>0, <2>1, SandboxAssumption DEF OwnTypes, CallRecord
  <2>3. /\ k \in CallRecord /\ k.round = call[c].round + 1
        /\ k = [call[c] EXCEPT !.round = k.round]
        BY <1>0, <2>2 DEF OwnTypes, CallRecord
  <2> HIDE DEF k
  <2> QED BY <1>0, <2>1, <2>3, EnterIsSound
<1> QED BY <1>1, <1>2

\* How a command that ends is reported: x is what its exit says, or what was
\* known before when nobody waits.
LEMMA EndedIsReported ==
    ASSUME IInv, NEW c \in Calls, NEW ok \in BOOLEAN, job[c] \in {"running", "pushing"},
           NEW n \in CallRecord, n.phase = call[c].phase, n.result = call[c].result,
           n.tool = call[c].tool, n.delegate = call[c].delegate
    PROVE  Reported(n, IF ok THEN "succeeded" ELSE "failed",
                    IF call[c].phase = "done" THEN exited[c] ELSE IF ok THEN "ok" ELSE "bad")
<1>1. Reported(call[c], job[c], exited[c])
      BY Owns DEF CallSound
<1>2. CASE call[c].phase = "done"
      BY <1>1, <1>2 DEF Reported
<1>3. CASE call[c].phase # "done"
      BY <1>1, <1>3 DEF Reported
<1> QED BY <1>2, <1>3

\* The scan of git_commit ends: what it shows, or why it may not, is recorded.
LEMMA ScanEndsIsOwn ==
    ASSUME IInv, NEW c \in Calls, NEW ok \in BOOLEAN, NEW shown \in BOOLEAN,
           ScanEnds(c, ok, shown)
    PROVE  OwnStep(c)
<1>0. /\ OwnTypes(c) /\ CallSound(c) /\ staged \in BOOLEAN
      /\ orphans = [orphans EXCEPT ![c] = orphans[c]]
      /\ committed = [committed EXCEPT ![c] = committed[c]]
      BY Owns DEF IInv, TypeOK
<1> DEFINE j == IF ok THEN "succeeded" ELSE "failed"
           x == IF call[c].phase = "done" THEN exited[c] ELSE IF ok THEN "ok" ELSE "bad"
           b == staged /\ shown /\ call[c].phase # "done"
           n == [call[c] EXCEPT !.seen = b]
           s == [risky |-> staged, blind |-> ~ok, cut |-> staged /\ ~shown]
<1>1. /\ job[c] = "running" /\ call[c].tool = "git_commit" /\ call[c].step = 1
      /\ UNCHANGED <<config, orphans, committed>>
      BY DEF ScanEnds
<1>2. call' = [call EXCEPT ![c] = n] /\ call'[c] = n
      BY <1>0 DEF ScanEnds, OwnTypes
<1>3. /\ job' = [job EXCEPT ![c] = j] /\ job'[c] = j
      /\ exited' = [exited EXCEPT ![c] = x] /\ exited'[c] = x
      /\ scan' = [scan EXCEPT ![c] = s] /\ scan'[c] = s
      BY <1>0 DEF ScanEnds, OwnTypes
<1>4. j \in JobStates /\ x \in {"none", "ok", "bad"}
      BY <1>0 DEF OwnTypes, JobStates
<1>5. s \in ScanRecord /\ s.risky = staged /\ s.cut = (staged /\ ~shown) /\ b \in BOOLEAN
      BY <1>0 DEF ScanRecord
<1>6. call[c].phase # "done" => b \/ s.cut \/ ~s.risky
      BY <1>0, <1>5
<1> HIDE DEF b
<1>7. /\ n \in CallRecord /\ n.phase = call[c].phase /\ n.result = call[c].result
      /\ n.tool = call[c].tool /\ n.delegate = call[c].delegate /\ n.step = call[c].step
      /\ n.backend = call[c].backend /\ n.resource = call[c].resource /\ n.seen = b
      BY <1>0, <1>5 DEF OwnTypes, CallRecord
<1> HIDE DEF n, s
<1>8. Reported(n, j, x)
      BY <1>1, <1>7, EndedIsReported
<1>9. WellPlaced(n) /\ Abandoned(n, orphans[c])
  <2>1. WellPlaced(call[c]) /\ Abandoned(call[c], orphans[c])
        BY <1>0 DEF CallSound
  <2> QED BY <1>7, <2>1 DEF WellPlaced, Abandoned
<1> HIDE DEF j, x
<1>10. Scanned(n, j, s, committed[c])
  <2>1. ~committed[c]
        BY <1>0, <1>1 DEF CallSound, Scanned
  <2> QED BY <1>1, <1>6, <1>7, <2>1 DEF Scanned
<1>11. /\ orphans' = [orphans EXCEPT ![c] = orphans'[c]] /\ orphans'[c] = orphans[c]
       /\ committed' = [committed EXCEPT ![c] = committed'[c]] /\ committed'[c] = committed[c]
       BY <1>0, <1>1
<1>12. OwnChange(c)
       BY <1>0, <1>2, <1>3, <1>4, <1>5, <1>7, <1>11 DEF OwnChange, OwnTypes
<1> QED BY <1>1, <1>2, <1>3, <1>8, <1>9, <1>10, <1>11, <1>12, OwnStepOf

\* The commit is made, whether or not anybody still waits for it.
LEMMA CommitMadeIsOwn ==
    ASSUME IInv, NEW c \in Calls, CommitMade(c)
    PROVE  OwnStep(c)
<1>0. /\ OwnTypes(c) /\ CallSound(c) /\ staged \in BOOLEAN
      /\ orphans = [orphans EXCEPT ![c] = orphans[c]] /\ call = [call EXCEPT ![c] = call[c]]
      /\ exited = [exited EXCEPT ![c] = exited[c]] /\ scan = [scan EXCEPT ![c] = scan[c]]
      BY Owns DEF OwnTypes, IInv, TypeOK
<1>1. /\ job[c] = "running" /\ call[c].tool = "git_commit" /\ call[c].step = 2
      /\ job' = [job EXCEPT ![c] = "pushing"] /\ committed' = [committed EXCEPT ![c] = staged]
      /\ UNCHANGED <<config, call, scan, orphans, exited>>
      BY DEF CommitMade
<1>2. /\ job'[c] = "pushing" /\ committed'[c] = staged
      /\ call'[c] = call[c] /\ scan'[c] = scan[c] /\ orphans'[c] = orphans[c] /\ exited'[c] = exited[c]
      BY <1>0, <1>1 DEF OwnTypes
<1>3. /\ WellPlaced(call[c]) /\ Abandoned(call[c], orphans[c])
      /\ Reported(call[c], job[c], exited[c])
      /\ Scanned(call[c], job[c], scan[c], committed[c])
      BY <1>0 DEF CallSound
<1>4. Reported(call[c], "pushing", exited[c])
      BY <1>1, <1>3 DEF Reported
<1>5. Scanned(call[c], "pushing", scan[c], staged)
      BY <1>0, <1>1, <1>3 DEF Scanned
<1>6. "pushing" \in JobStates
      BY DEF JobStates
<1>7. OwnChange(c)
      BY <1>0, <1>1, <1>2, <1>6 DEF OwnChange, OwnTypes
<1> QED BY <1>1, <1>2, <1>3, <1>4, <1>5, <1>7, OwnStepOf

\* A command ends, whether or not anybody still waits for it.
LEMMA CommandEndsIsOwn ==
    ASSUME IInv, NEW c \in Calls, NEW ok \in BOOLEAN, NEW risky \in BOOLEAN,
           CommandEnds(c, ok, risky)
    PROVE  OwnStep(c)
<1>0. /\ OwnTypes(c) /\ CallSound(c)
      /\ orphans = [orphans EXCEPT ![c] = orphans[c]] /\ call = [call EXCEPT ![c] = call[c]]
      /\ scan = [scan EXCEPT ![c] = scan[c]] /\ committed = [committed EXCEPT ![c] = committed[c]]
      BY Owns DEF OwnTypes
<1> DEFINE j == IF ok THEN "succeeded" ELSE "failed"
           x == IF call[c].phase = "done" THEN exited[c] ELSE IF ok THEN "ok" ELSE "bad"
<1>1. /\ job[c] \in {"running", "pushing"}
      /\ call[c].tool = "git_commit" => call[c].step = 2
      /\ UNCHANGED <<config, call, scan, committed, orphans>>
      BY DEF CommandEnds
<1>2. /\ job' = [job EXCEPT ![c] = j] /\ job'[c] = j
      /\ exited' = [exited EXCEPT ![c] = x] /\ exited'[c] = x
      BY <1>0 DEF CommandEnds, OwnTypes
<1>3. j \in JobStates /\ x \in {"none", "ok", "bad"}
      BY <1>0 DEF OwnTypes, JobStates
<1>4. call[c] \in CallRecord /\ Reported(call[c], j, x)
  <2>1. call[c] \in CallRecord
        BY <1>0 DEF OwnTypes
  <2> QED BY <1>1, <2>1, EndedIsReported
<1>5. /\ WellPlaced(call[c]) /\ Abandoned(call[c], orphans[c])
      /\ Scanned(call[c], job[c], scan[c], committed[c])
      BY <1>0 DEF CallSound
<1> HIDE DEF j, x
<1>6. Scanned(call[c], j, scan[c], committed[c])
      BY <1>1, <1>5 DEF Scanned
<1>7. /\ call'[c] = call[c] /\ scan'[c] = scan[c] /\ committed'[c] = committed[c]
      /\ orphans'[c] = orphans[c]
      BY <1>1
<1>8. OwnChange(c)
      BY <1>0, <1>1, <1>2, <1>3, <1>4, <1>7 DEF OwnChange, OwnTypes
<1> QED BY <1>1, <1>2, <1>4, <1>5, <1>6, <1>7, <1>8, OwnStepOf

\* A step of the call c, or of the cluster on its job.
StepOf(c) ==
    \/ \E t \in ToolsOf[c], r \in Resources : Start(c, t, r)
    \/ CallStep(c)
    \/ WorkerTimeout(c)
    \/ TerminateJob(c)
    \/ ClusterCreates(c) \/ JobExpires(c)
    \/ CommitMade(c)
    \/ \E ok, risky \in BOOLEAN : CommandEnds(c, ok, risky) \/ ScanEnds(c, ok, risky)

\* A step of c touches what is kept of c alone.
LEMMA EveryStepIsOwn ==
    ASSUME IInv, NEW c \in Calls, StepOf(c)
    PROVE  OwnStep(c)
<1>1. CASE CallStep(c)
      BY <1>1, MovesAreOwn, EndsAreOwn, CheckDockerIsOwn, GetLogsIsOwn, CleanupJobIsOwn, GoOnIsOwn,
         EntersAreOwn DEF CallStep
<1>2. CASE ~CallStep(c)
      BY <1>2, EntersAreOwn, WorkerTimeoutIsOwn, JobsAreOwn, CommandEndsIsOwn, ScanEndsIsOwn,
         CommitMadeIsOwn DEF StepOf
<1> QED BY <1>1, <1>2

-----------------------------------------------------------------------------
(* The locks.                                                              *)

\* A call runs a tool of a resource with the resource's lock.
Holds(c) == call[c].phase = "direct" /\ call[c].resource # None => holding[call[c].resource] = c

\* A step of c takes no lock from another, and c runs with the one it needs.
LockStep(c) ==
    /\ waiters' \in [Resources -> Seq(Calls)]
    /\ holding' \in [Resources -> Calls \cup {None}]
    /\ \A r \in Resources : holding[r] \notin {c, None} => holding'[r] = holding[r]
    /\ Holds(c)'

\* A step that leaves the locks alone and does not bring c to a tool.
LEMMA AwayFromTheLocks ==
    ASSUME IInv, NEW c \in Calls, UNCHANGED locks,
           call'[c].phase # "direct" \/ call'[c].resource = None
    PROVE  LockStep(c)
BY DEF LockStep, Holds, locks, IInv, TypeOK

\* Leaving the line or giving the lock back takes nothing from another.
LEMMA ReleaseIsOwn ==
    ASSUME IInv, NEW c \in Calls, Release(c), call'[c].phase # "direct"
    PROVE  LockStep(c)
<1>1. /\ waiters \in [Resources -> Seq(Calls)] /\ holding \in [Resources -> Calls \cup {None}]
      /\ call[c].resource \in Resources \cup {None}
      BY DEF IInv, TypeOK
<1>2. waiters' \in [Resources -> Seq(Calls)]
  <2>1. \A r \in Resources : RemoveFirst(waiters[r], c) \in Seq(Calls)
        BY <1>1, RemoveTypes
  <2> QED BY <1>1, <2>1 DEF Release
<1>3. /\ holding' \in [Resources -> Calls \cup {None}]
      /\ \A r \in Resources : holding[r] \notin {c, None} => holding'[r] = holding[r]
      BY <1>1 DEF Release
<1> QED BY <1>2, <1>3 DEF LockStep, Holds

\* The lock is taken when it is free.
LEMMA AcquireIsOwn ==
    ASSUME IInv, NEW c \in Calls, Acquire(c)
    PROVE  LockStep(c)
<1>1. /\ waiters \in [Resources -> Seq(Calls)] /\ holding \in [Resources -> Calls \cup {None}]
      /\ call \in [Calls -> CallRecord] /\ call[c] \in CallRecord
      BY DEF IInv, TypeOK, CallRecord
<1>2. PICK r : r = call[c].resource
      OBVIOUS
<1>3. call[c].phase = "queued" /\ CallSound(c)
      BY DEF Acquire, IInv
<1>4. r \in Resources
      BY <1>2, <1>3 DEF CallSound, WellPlaced
<1>5. /\ holding[r] = None /\ holding' = [holding EXCEPT ![r] = c] /\ waiters' = waiters
      /\ call'[c].resource = r
      BY <1>1, <1>2 DEF Acquire, Move, CallRecord
<1> QED BY <1>1, <1>4, <1>5 DEF LockStep, Holds

\* A call that enters a tool of a resource stands in its line first.
LEMMA EnterIsInLine ==
    ASSUME IInv, NEW c \in Calls, NEW t \in Tools, NEW r \in Resources, NEW k \in CallRecord,
           k.resource = None, k.phase # "direct", EnterTool(c, t, r, k), UNCHANGED holding
    PROVE  LockStep(c)
<1>1. /\ waiters \in [Resources -> Seq(Calls)] /\ holding \in [Resources -> Calls \cup {None}]
      /\ call \in [Calls -> CallRecord]
      BY DEF IInv, TypeOK, CallRecord
<1>2. waiters' \in [Resources -> Seq(Calls)]
  <2>1. Append(waiters[r], c) \in Seq(Calls)
        BY <1>1
  <2> QED BY <1>1, <2>1 DEF EnterTool
<1>3. call'[c] = Enter(c, t, r, k)
      BY <1>1 DEF EnterTool
<1>4. Enter(c, t, r, k).phase # "direct" \/ Enter(c, t, r, k).resource = None
  <2>1. CASE t = "mcp"
        BY <2>1 DEF Enter, CallRecord
  <2>2. CASE t # "mcp"
    <3>1. Enter(c, t, r, k).resource = None
          BY <2>2 DEF Enter, CallRecord
    <3> QED BY <3>1
  <2> QED BY <2>1, <2>2
<1> QED BY <1>1, <1>2, <1>3, <1>4 DEF LockStep, Holds

\* Every step of c leaves it with the lock it needs.
LEMMA EveryStepLocks ==
    ASSUME IInv, NEW c \in Calls, StepOf(c)
    PROVE  LockStep(c)
<1>1. /\ call \in [Calls -> CallRecord] /\ call[c] \in CallRecord
      /\ WellPlaced(call[c])
      BY DEF IInv, TypeOK, CallRecord, CallSound
<1>2. ASSUME NEW t \in ToolsOf[c], NEW r \in Resources, Start(c, t, r)
      PROVE  LockStep(c)
  <2>1. /\ EnterTool(c, t, r, call[c]) /\ UNCHANGED holding
        /\ call[c].resource = None /\ call[c].phase # "direct" /\ t \in Tools
        BY <1>1, <1>2, SandboxAssumption DEF Start, WellPlaced
  <2> QED BY <1>1, <2>1, EnterIsInLine
<1>3. ASSUME NEW t \in ToolsOf[c], NEW r \in Resources, Think(c, t, r)
      PROVE  LockStep(c)
  <2> DEFINE k == [call[c] EXCEPT !.round = @ + 1]
  <2>1. /\ EnterTool(c, t, r, k) /\ UNCHANGED holding /\ t \in Tools
        /\ call[c].phase = "thinking" /\ call[c].resource = None /\ call[c].round < MaxRounds
        BY <1>1, <1>3, SandboxAssumption DEF Think, RoundsLeft, WellPlaced
  <2>2. call[c].round + 1 \in 0..MaxRounds
        BY <1>1, <2>1, SandboxAssumption DEF CallRecord
  <2>3. k \in CallRecord /\ k.resource = None /\ k.phase # "direct"
        BY <1>1, <2>1, <2>2 DEF CallRecord
  <2> HIDE DEF k
  <2> QED BY <2>1, <2>3, EnterIsInLine
<1>4. CASE Acquire(c)
      BY <1>4, AcquireIsOwn
<1>5. ASSUME NEW res, EndTool(c, res)
      PROVE  call'[c].phase # "direct" /\ call'[c].resource = None
      BY <1>1, <1>5 DEF EndTool, CallRecord
<1>6. ASSUME NEW ok \in BOOLEAN, ToolReturns(c, ok)
      PROVE  LockStep(c)
  <2>1. Release(c) /\ call'[c].phase # "direct"
        BY <1>5, <1>6 DEF ToolReturns
  <2> QED BY <2>1, ReleaseIsOwn
<1>7. CASE WorkerTimeout(c)
  <2>1. Release(c) /\ call'[c].phase # "direct"
        BY <1>1, <1>7 DEF WorkerTimeout, CallRecord
  <2> QED BY <2>1, ReleaseIsOwn
<1>8. ASSUME NEW ok \in BOOLEAN, CheckDocker(c, ok)
      PROVE  LockStep(c)
  <2>1. UNCHANGED locks
        BY <1>8 DEF CheckDocker
  <2>2. call'[c].phase # "direct"
    <3>1. \/ EndTool(c, "failed") \/ \E b : call' = [call EXCEPT ![c].phase = "process", ![c].backend = b]
          BY <1>8 DEF CheckDocker
    <3>2. ASSUME NEW b, call' = [call EXCEPT ![c].phase = "process", ![c].backend = b]
          PROVE  call'[c].phase # "direct"
          BY <1>1, <3>2 DEF CallRecord
    <3> QED BY <1>5, <3>1, <3>2
  <2> QED BY <2>1, <2>2, AwayFromTheLocks
<1>9. CASE ProcessReturns(c) \/ PodSeen(c) \/ PodMissed(c) \/ JobSeenDone(c) \/ JobTimeout(c)
  <2>1. UNCHANGED locks
        BY <1>9 DEF ProcessReturns, PodSeen, PodMissed, JobSeenDone, JobTimeout
  <2>2. call'[c].phase # "direct"
        BY <1>1, <1>9 DEF ProcessReturns, PodSeen, PodMissed, JobSeenDone, JobTimeout, AfterTimeout,
                          Move, CallRecord
  <2> QED BY <2>1, <2>2, AwayFromTheLocks
<1>10. ASSUME NEW survives \in BOOLEAN, ProcessTimeout(c, survives) \/ ProcessRaises(c)
       PROVE  LockStep(c)
  <2>1. UNCHANGED locks /\ call'[c].phase # "direct"
        BY <1>5, <1>10 DEF ProcessTimeout, ProcessRaises
  <2> QED BY <2>1, AwayFromTheLocks
<1>11. CASE GoOn(c)
  <2>1. UNCHANGED locks
        BY <1>11 DEF GoOn
  <2>2. call'[c].phase # "direct"
    <3> DEFINE p == FirstPhase(call[c].backend)
    <3>1. \/ \E res : EndTool(c, res)
          \/ /\ call' = [call EXCEPT ![c].step = 2, ![c].phase = p,
                                     ![c].result = "none", ![c].seen = FALSE]
             /\ call[c].tool \in {"git_commit", "git_create_pr"} /\ call[c].phase = "returned"
          BY <1>11 DEF GoOn
    <3>2. CASE \E res : EndTool(c, res)
          BY <1>5, <3>2
    <3>3. CASE ~\E res : EndTool(c, res)
      <4>1. call[c].backend \in {"kubernetes", "local"}
            BY <1>1, <3>1, <3>3 DEF WellPlaced
      <4>2. p # "direct"
            BY <4>1 DEF FirstPhase
      <4> HIDE DEF p
      <4> QED BY <1>1, <3>1, <3>3, <4>2 DEF CallRecord
    <3> QED BY <3>2, <3>3
  <2> QED BY <2>1, <2>2, AwayFromTheLocks
<1>12. ASSUME NEW ok \in BOOLEAN, JobCreated(c, ok) \/ GetLogs(c, ok) \/ Answer(c, ok)
       PROVE  LockStep(c)
  <2>1. UNCHANGED locks
        BY <1>12 DEF JobCreated, GetLogs, Answer
  <2>2. call'[c].phase # "direct"
        BY <1>1, <1>12 DEF JobCreated, GetLogs, Answer, CallRecord
  <2> QED BY <2>1, <2>2, AwayFromTheLocks
<1>13. ASSUME NEW ok \in BOOLEAN, CleanupJob(c, ok)
       PROVE  LockStep(c)
  <2>1. UNCHANGED locks
        BY <1>13 DEF CleanupJob
  <2>2. call'[c].phase # "direct"
        BY <1>1, <1>5, <1>13 DEF CleanupJob, Move, CallRecord
  <2> QED BY <2>1, <2>2, AwayFromTheLocks
<1>14. ASSUME UNCHANGED locks, call'[c].phase = call[c].phase, call'[c].resource = call[c].resource
       PROVE  LockStep(c)
       BY <1>14 DEF LockStep, Holds, locks, IInv, TypeOK, Locked
<1>15. CASE \/ TerminateJob(c) \/ ClusterCreates(c) \/ JobExpires(c) \/ CommitMade(c)
            \/ \E ok, risky \in BOOLEAN : CommandEnds(c, ok, risky)
       BY <1>14, <1>15 DEF TerminateJob, ClusterCreates, JobExpires, CommitMade, CommandEnds
<1>16. ASSUME NEW ok \in BOOLEAN, NEW shown \in BOOLEAN, ScanEnds(c, ok, shown)
       PROVE  LockStep(c)
  <2>1. UNCHANGED locks
        BY <1>16 DEF ScanEnds
  <2>2. call'[c].phase = call[c].phase /\ call'[c].resource = call[c].resource
        BY <1>1, <1>16 DEF ScanEnds, CallRecord
  <2> QED BY <1>14, <2>1, <2>2
<1> QED BY <1>2, <1>3, <1>4, <1>6, <1>7, <1>8, <1>9, <1>10, <1>11, <1>12, <1>13, <1>15, <1>16
        DEF StepOf, CallStep

\* The two variables that belong to no call keep their types.
LEMMA OthersTypes ==
    ASSUME IInv, NEW c \in Calls, StepOf(c)
    PROVE  docker_available' \in {"unknown", "yes", "no"} /\ staged' \in BOOLEAN
<1>1. docker_available \in {"unknown", "yes", "no"} /\ staged \in BOOLEAN
      BY DEF IInv, TypeOK
<1>2. CASE CallStep(c)
  <2>1. staged' = staged
        BY <1>2 DEF CallStep, Acquire, ProcessReturns, ProcessRaises, ProcessTimeout, PodSeen, PodMissed,
           JobSeenDone, JobTimeout, GoOn, ToolReturns, CheckDocker, JobCreated, GetLogs, CleanupJob, Answer, Think, git
  <2>2. docker_available' \in {"unknown", "yes", "no"}
        BY <1>1, <1>2 DEF CallStep, Acquire, ProcessReturns, ProcessRaises, ProcessTimeout, PodSeen, PodMissed,
           JobSeenDone, JobTimeout, GoOn, ToolReturns, CheckDocker, JobCreated, GetLogs, CleanupJob,
           Answer, Think
  <2> QED BY <1>1, <2>1, <2>2
<1>3. CASE CommitMade(c) \/ \E ok, risky \in BOOLEAN : CommandEnds(c, ok, risky) \/ ScanEnds(c, ok, risky)
      BY <1>1, <1>3 DEF CommandEnds, ScanEnds, CommitMade
<1>4. CASE /\ ~CallStep(c) /\ ~CommitMade(c)
           /\ ~\E ok, risky \in BOOLEAN : CommandEnds(c, ok, risky) \/ ScanEnds(c, ok, risky)
      BY <1>1, <1>4 DEF StepOf, Start, WorkerTimeout, TerminateJob, ClusterCreates, JobExpires, git
<1> QED BY <1>2, <1>3, <1>4

-----------------------------------------------------------------------------
(* The theorems.                                                           *)

\* The invariant holds at the start.
LEMMA InitSound == ASSUME Init PROVE IInv
<1> DEFINE k0 == [tool |-> "none", delegate |-> FALSE, round |-> 0,
                  phase |-> "idle", resource |-> None, backend |-> "none", step |-> 0,
                  seen |-> FALSE, result |-> "none"]
<1>1. k0 \in CallRecord
  <2>1. /\ "idle" \in Phases /\ "none" \in Results /\ "none" \in Backends
        /\ 0 \in 0..2 /\ 0 \in 0..MaxRounds
        BY SandboxAssumption DEF Phases, Results, Backends
  <2> QED BY <2>1 DEF CallRecord
<1>2. call = [c \in Calls |-> k0]
      BY DEF Init
<1>3. k0.phase = "idle" /\ ~k0.delegate /\ k0.resource = None /\ k0.tool = "none" /\ k0.backend = "none"
      OBVIOUS
<1> HIDE DEF k0
<1>4. TypeOK
  <2>1. call \in [Calls -> CallRecord]
        BY <1>1, <1>2
  <2>2. kubernetes_mode \in BOOLEAN /\ in_cluster \in BOOLEAN
        BY SandboxAssumption DEF Init
  <2>3. << >> \in Seq(Calls)
        OBVIOUS
  <2> QED BY <2>1, <2>2, <2>3 DEF Init, TypeOK, CallRecord, JobStates, ScanRecord
<1>5. Locked
      BY <1>2, <1>3 DEF Locked
<1>6. ASSUME NEW c \in Calls
      PROVE  CallSound(c)
  <2>1. /\ call[c] = k0 /\ job[c] = "none" /\ orphans[c] = {} /\ exited[c] = "none"
        /\ ~committed[c]
        BY <1>2 DEF Init
  <2>2. WellPlaced(k0)
        BY <1>3 DEF WellPlaced, KubePhases
  <2>3. Abandoned(k0, {}) /\ Reported(k0, "none", "none")
        BY <1>3 DEF Abandoned, Reported
  <2>4. Scanned(k0, "none", scan[c], committed[c])
        BY <1>3, <2>1 DEF Scanned
  <2> QED BY <2>1, <2>2, <2>3, <2>4 DEF CallSound
<1> QED BY <1>4, <1>5, <1>6 DEF IInv

\* Every step keeps it: c by what is said above, the other calls because
\* nothing of theirs has changed.
LEMMA StepSound == ASSUME IInv, [Next]_vars PROVE IInv'
<1>1. CASE UNCHANGED vars
  <2>1. TypeOK' /\ Locked'
        BY <1>1 DEF vars, config, locks, git, IInv, TypeOK, Locked
  <2>2. \A c \in Calls : CallSound(c)'
        BY <1>1 DEF vars, config, locks, git, IInv, CallSound, WellPlaced, Abandoned, Reported, Scanned
  <2> QED BY <2>1, <2>2 DEF IInv
<1>2. ASSUME NEW c \in Calls, StepOf(c)
      PROVE  IInv'
  <2>1. OwnStep(c) /\ LockStep(c)
        BY <1>2, EveryStepIsOwn, EveryStepLocks
  <2>2. OwnTypes(c) /\ CallSound(c)
        BY Owns
  <2>3. ASSUME NEW d \in Calls, d # c
        PROVE  /\ call'[d] = call[d] /\ job'[d] = job[d] /\ orphans'[d] = orphans[d]
               /\ exited'[d] = exited[d] /\ scan'[d] = scan[d] /\ committed'[d] = committed[d]
    <3>1. OwnTypes(d) /\ OwnTypes(c) /\ OwnChange(c)
          BY <2>1, Owns DEF OwnStep
    <3>2. call'[d] = call[d] /\ job'[d] = job[d] /\ orphans'[d] = orphans[d]
          BY ONLY <2>3, <3>1 DEF OwnTypes, OwnChange
    <3>3. exited'[d] = exited[d] /\ scan'[d] = scan[d] /\ committed'[d] = committed[d]
          BY ONLY <2>3, <3>1 DEF OwnTypes, OwnChange
    <3> QED BY <3>2, <3>3
  <2>4. ASSUME NEW d \in Calls
        PROVE  CallSound(d)'
    <3>1. CASE d = c
          BY <2>1, <3>1 DEF OwnStep
    <3>2. CASE d # c
      <4>1. CallSound(d) /\ UNCHANGED config
            BY <2>1 DEF IInv, OwnStep
      <4>2. WellPlaced(call[d])' /\ Abandoned(call[d], orphans[d])'
            BY <2>3, <3>2, <4>1 DEF CallSound, WellPlaced, Abandoned, config
      <4>3. Reported(call[d], job[d], exited[d])'
            BY <2>3, <3>2, <4>1 DEF CallSound, Reported
      <4>4. Scanned(call[d], job[d], scan[d], committed[d])'
            BY <2>3, <3>2, <4>1 DEF CallSound, Scanned
      <4> QED BY <4>2, <4>3, <4>4 DEF CallSound
    <3> QED BY <3>1, <3>2
  <2>5. TypeOK'
    <3>1. call' \in [Calls -> CallRecord]
          BY <2>1, <2>2 DEF OwnStep, OwnChange, OwnTypes
    <3>2. /\ job' \in [Calls -> JobStates]
          /\ exited' \in [Calls -> {"none", "ok", "bad"}]
          BY <2>1, <2>2 DEF OwnStep, OwnChange, OwnTypes
    <3>3. /\ scan' \in [Calls -> ScanRecord]
          /\ committed' \in [Calls -> BOOLEAN]
          BY <2>1, <2>2 DEF OwnStep, OwnChange, OwnTypes
    <3>4. orphans' \in [Calls -> SUBSET Reasons]
      <4>1. orphans'[c] \subseteq Reasons
            BY <2>1 DEF OwnStep, CallSound, Abandoned
      <4> QED BY <2>1, <2>2, <4>1 DEF OwnStep, OwnChange, OwnTypes
    <3>5. kubernetes_mode' \in BOOLEAN /\ in_cluster' \in BOOLEAN
          BY <2>1, <2>2 DEF OwnStep, OwnTypes, config
    <3>6. docker_available' \in {"unknown", "yes", "no"} /\ staged' \in BOOLEAN
          BY <1>2, OthersTypes
    <3>7. /\ waiters' \in [Resources -> Seq(Calls)]
          /\ holding' \in [Resources -> Calls \cup {None}]
          BY <2>1 DEF LockStep
    <3> QED BY <3>1, <3>2, <3>3, <3>4, <3>5, <3>6, <3>7 DEF TypeOK, CallRecord, ScanRecord
  <2>6. ASSUME NEW d \in Calls, call'[d].phase = "direct", call'[d].resource # None
        PROVE  holding'[call'[d].resource] = d
    <3>1. CASE d = c
          BY <2>1, <2>6, <3>1 DEF LockStep, Holds
    <3>2. CASE d # c
      <4>1. call'[d] = call[d] /\ call[d] \in CallRecord
            BY <2>3, <3>2 DEF IInv, TypeOK, CallRecord
      <4>2. PICK r : r = call[d].resource
            OBVIOUS
      <4>3. r \in Resources /\ holding[r] = d
            BY <2>6, <4>1, <4>2 DEF IInv, Locked, CallRecord
      <4>4. holding'[r] = holding[r]
            BY <2>1, <3>2, <4>3, SandboxAssumption DEF LockStep
      <4> QED BY <4>1, <4>2, <4>3, <4>4
    <3> QED BY <3>1, <3>2
  <2> QED BY <2>4, <2>5, <2>6 DEF IInv, Locked
<1> QED BY <1>1, <1>2 DEF Next, StepOf

\* The invariant holds always.
LEMMA Invariance == Spec => []IInv
BY InitSound, StepSound, PTL DEF Spec

\* Two calls never run a tool of the same MCP resource at the same time: each
\* holds its lock, and the end or the cancellation of one call gives no other's
\* lock away.
THEOREM MutualExclusion == Spec => []OneCallPerResource
<1>1. ASSUME IInv PROVE OneCallPerResource
  <2>1. Locked
        BY <1>1 DEF IInv
  <2> QED BY <2>1 DEF Locked, OneCallPerResource
<1> QED BY <1>1, Invariance, PTL

\* What the router reports of an execution, leaves running and commits is what
\* was executed: a job outlives its call only by a cancellation, a failed
\* deletion, a timeout outside the local executor, or as what a process killed
\* there had started; a success is a command that exited with 0; a commit was
\* scanned, as far as the executors kept what the scan printed.
THEOREM ToolResultsAreReal == Spec => []ResultsAreReal
<1>1. ASSUME IInv PROVE ResultsAreReal
  <2>1. \A c \in Calls : CallSound(c)
        BY <1>1 DEF IInv
  <2>2. TypeOK
        BY <1>1 DEF IInv
  <2>3. OrphansExplained
        BY <2>1 DEF CallSound, Abandoned, OrphansExplained
  <2>4. SuccessIsReal
        BY <2>1 DEF CallSound, Reported, SuccessIsReal, Commands
  <2>5. CommitsAreScanned
        BY <2>1 DEF CallSound, Scanned, CommitsAreScanned
  <2> QED BY <2>2, <2>3, <2>4, <2>5 DEF ResultsAreReal
<1> QED BY <1>1, Invariance, PTL

=============================================================================
