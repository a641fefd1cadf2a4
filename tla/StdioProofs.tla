----------------------------- MODULE StdioProofs -----------------------------
(***************************************************************************)
(* Proofs about StdioProtocol, for any callers, any number of requests and *)
(* any cap, and after them about StdioServers, for any names, requests and *)
(* bounds.                                                                 *)
(***************************************************************************)
EXTENDS StdioProtocol, StdioServers, Integers, SequenceTheorems, FiniteSetTheorems, WellFoundedInduction, TLAPS

-----------------------------------------------------------------------------
(* StdioProtocol: the inductive invariant.                                 *)

Reading == {c \in Everyone : caller[c] = "reading"}

\* The answers that are still to be written or to be read.
Outstanding == InPipe \cup todo

\* The lock has everybody in its queue who asked for it, once; the one who
\* reads is at the head of it.
Serial ==
    /\ \A i, j \in 1..Len(lock) : lock[i] = lock[j] => i = j
    /\ \A c \in Everyone : caller[c] # "idle" <=> \E i \in 1..Len(lock) : lock[i] = c
    /\ \A c \in Reading : lock[1] = c

\* There are ids for all who wait, and nobody has left the request that is
\* being read for.
Numbers ==
    /\ IsFiniteSet(Waiting) /\ request_id + Cardinality(Waiting) <= MaxRequests
    /\ \A c \in Reading : sent[c] \in 1..request_id /\ sent[c] \notin abandoned
    /\ abandoned \subseteq 1..request_id

\* No two lines of the pipe are answers to the same request.
Distinct ==
    \A j, k \in 1..Len(stdout) :
        (stdout[j].kind = "answer" /\ stdout[k].kind = "answer" /\ stdout[j].id = stdout[k].id) => j = k

\* While every caller left with its answer, what is outstanding is being read for.
InStep == abandoned = {} => \A i \in Outstanding : \E c \in Reading : sent[c] = i

IInv ==
    /\ TypeOK
    /\ Serial
    /\ Numbers
    /\ Distinct /\ InPipe \cap todo = {}
    /\ AnsweredOnce /\ MatchedUnlessAbandoned /\ OutOfStep /\ InStep

-----------------------------------------------------------------------------
(* Numbers and sequences.                                                  *)

\* A smaller set has no more members.
LEMMA Fewer ==
    ASSUME NEW S, IsFiniteSet(S), NEW T, T \subseteq S
    PROVE  /\ IsFiniteSet(T) /\ Cardinality(T) \in Nat /\ Cardinality(S) \in Nat
           /\ Cardinality(T) <= Cardinality(S)
BY FS_Subset, FS_CardinalityType

\* A set with one more member.
LEMMA OneMore ==
    ASSUME NEW S, IsFiniteSet(S), NEW x
    PROVE  /\ IsFiniteSet(S \cup {x}) /\ Cardinality(S) \in Nat
           /\ Cardinality(S \cup {x}) = IF x \in S THEN Cardinality(S) ELSE Cardinality(S) + 1
BY FS_AddElement, FS_CardinalityType

\* A set with one member less.
LEMMA OneLess ==
    ASSUME NEW S, IsFiniteSet(S), NEW x
    PROVE  /\ IsFiniteSet(S \ {x}) /\ Cardinality(S \ {x}) \in Nat /\ Cardinality(S) \in Nat
           /\ x \in S => Cardinality(S) = Cardinality(S \ {x}) + 1
           /\ x \notin S => Cardinality(S) = Cardinality(S \ {x})
<1>1. /\ IsFiniteSet(S \ {x})
      /\ Cardinality(S \ {x}) = IF x \in S THEN Cardinality(S) - 1 ELSE Cardinality(S)
      BY FS_RemoveElement
<1>2. Cardinality(S) \in Nat /\ Cardinality(S \ {x}) \in Nat
      BY <1>1, FS_CardinalityType
<1> QED BY <1>1, <1>2

\* A set of numbers that is not empty has a least one.
LEMMA Least ==
    ASSUME NEW T, T \subseteq Nat, T # {}
    PROVE  \E x \in T : \A y \in T : x <= y
<1>1. PICK x \in T : \A y \in T : ~(<<y, x>> \in OpToRel(<, Nat))
      BY WFMin, NatLessThanWellFounded
<1>2. \A y \in T : ~(y < x)
      BY <1>1 DEF OpToRel
<1> QED BY <1>2

\* A sequence without its first e: what was before e stays in its place, what
\* was after it moves up by one.
LEMMA Removed ==
    ASSUME NEW S, NEW s \in Seq(S), NEW e, \E i \in 1..Len(s) : s[i] = e
    PROVE  \E k \in 1..Len(s) :
              /\ s[k] = e
              /\ RemoveFirst(s, e) \in Seq(S) /\ Len(RemoveFirst(s, e)) = Len(s) - 1
              /\ \A i \in 1..Len(s) - 1 :
                    RemoveFirst(s, e)[i] = IF i < k THEN s[i] ELSE s[i + 1]
<1> DEFINE I == {i \in 1..Len(s) : s[i] = e}
           m == Min(I)
           a == SubSeq(s, 1, m - 1)
           b == SubSeq(s, m + 1, Len(s))
<1>1. I # {} /\ I \subseteq Nat
      OBVIOUS
<1>2. m \in I
  <2>1. \E x \in I : \A y \in I : x <= y
        BY <1>1, Least
  <2> QED BY <2>1 DEF Min
<1>3. RemoveFirst(s, e) = a \o b
      BY <1>1 DEF RemoveFirst, RemoveAt, SelectInSeq
<1>4. m \in 1..Len(s) /\ s[m] = e /\ Len(s) \in Nat /\ \A j \in 1..Len(s) : s[j] \in S
      BY <1>2
<1> HIDE DEF m, I
<1>5. /\ a \in Seq(S) /\ Len(a) = m - 1
      /\ \A i \in 1..m - 1 : a[i] = s[i]
  <2>1. /\ a \in Seq(S) /\ Len(a) = IF 1 <= m - 1 THEN m - 1 - 1 + 1 ELSE 0
        /\ \A i \in 1..(m - 1) - 1 + 1 : a[i] = s[1 + i - 1]
        BY <1>4, SubSeqProperties
  <2> QED BY <1>4, <2>1
<1>6. /\ b \in Seq(S) /\ Len(b) = Len(s) - m
      /\ \A i \in 1..Len(s) - m : b[i] = s[m + i]
  <2>1. /\ b \in Seq(S) /\ Len(b) = IF m + 1 <= Len(s) THEN Len(s) - (m + 1) + 1 ELSE 0
        /\ \A i \in 1..Len(s) - (m + 1) + 1 : b[i] = s[(m + 1) + i - 1]
        BY <1>4, SubSeqProperties
  <2> QED BY <1>4, <2>1
<1> HIDE DEF a, b
<1>7. /\ a \o b \in Seq(S) /\ Len(a \o b) = Len(s) - 1
      /\ \A i \in 1..Len(s) - 1 : (a \o b)[i] = IF i < m THEN s[i] ELSE s[i + 1]
  <2>1. /\ a \o b \in Seq(S) /\ Len(a \o b) = Len(a) + Len(b)
        /\ \A i \in 1..Len(a) + Len(b) : (a \o b)[i] = IF i <= Len(a) THEN a[i] ELSE b[i - Len(a)]
        BY <1>5, <1>6, ConcatProperties
  <2>2. Len(a \o b) = Len(s) - 1
        BY <1>4, <1>5, <1>6, <2>1
  <2>3. ASSUME NEW i \in 1..Len(s) - 1
        PROVE  (a \o b)[i] = IF i < m THEN s[i] ELSE s[i + 1]
    <3>1. CASE i < m
          BY <1>4, <1>5, <1>6, <2>1, <3>1
    <3>2. CASE ~(i < m)
      <4>1. /\ (a \o b)[i] = b[i - (m - 1)]
            /\ i - (m - 1) \in 1..Len(s) - m /\ m + (i - (m - 1)) = i + 1
            BY <1>4, <1>5, <1>6, <2>1, <3>2
      <4> QED BY <1>6, <3>2, <4>1
    <3> QED BY <3>1, <3>2
  <2> QED BY <2>1, <2>2, <2>3
<1> QED BY <1>3, <1>4, <1>7

\* A line is read: the answer it may be is no longer in the pipe.
LEMMA Popped ==
    ASSUME stdout \in Seq(Lines), stdout # << >>, Distinct, Consume
    PROVE  /\ stdout' \in Seq(Lines) /\ Distinct' /\ NextLine \in Lines
           /\ NextLine.kind # "answer" => InPipe' = InPipe
           /\ NextLine.kind = "answer" => NextLine.id \in InPipe /\ InPipe' = InPipe \ {NextLine.id}
<1> DEFINE t == Tail(stdout)
<1>1. /\ NextLine \in Lines /\ t \in Seq(Lines) /\ NextLine = stdout[1]
      /\ Len(stdout) \in Nat \ {0} /\ Len(t) = Len(stdout) - 1
      /\ \A i \in 1..Len(t) : t[i] = stdout[i + 1]
      BY HeadTailProperties, EmptySeq DEF NextLine
<1>2. stdout' = t
      BY DEF Consume
<1> HIDE DEF t
<1>3. Distinct'
  <2>1. \A i \in 1..Len(t) : i + 1 \in 1..Len(stdout)
        BY <1>1
  <2> QED BY <1>1, <1>2, <2>1 DEF Distinct
<1>4. /\ \A i \in 1..Len(t) : i + 1 \in 1..Len(stdout) /\ i + 1 # 1
      /\ \A i \in 1..Len(stdout) : i = 1 \/ (i - 1 \in 1..Len(t) /\ t[i - 1] = stdout[i])
      /\ 1 \in 1..Len(stdout)
      BY <1>1
<1>5. ASSUME NEW x
      PROVE  /\ x \in InPipe <=> \E k \in 1..Len(stdout) : stdout[k].kind = "answer" /\ stdout[k].id = x
             /\ x \in InPipe' <=> \E k \in 1..Len(t) : t[k].kind = "answer" /\ t[k].id = x
      BY <1>2 DEF InPipe
<1>6. \A x : x \in InPipe' <=> \E k \in 1..Len(stdout) : k # 1 /\ stdout[k].kind = "answer" /\ stdout[k].id = x
  <2>1. ASSUME NEW k \in 1..Len(t)
        PROVE  k + 1 \in 1..Len(stdout) /\ k + 1 # 1 /\ t[k] = stdout[k + 1]
        BY <1>1, <1>4
  <2>2. ASSUME NEW k \in 1..Len(stdout), k # 1
        PROVE  k - 1 \in 1..Len(t) /\ t[k - 1] = stdout[k]
        BY <1>4, <2>2
  <2> SUFFICES ASSUME NEW x
               PROVE  x \in InPipe' <=> \E k \in 1..Len(stdout) :
                                           k # 1 /\ stdout[k].kind = "answer" /\ stdout[k].id = x
      OBVIOUS
  <2>3. ASSUME x \in InPipe'
        PROVE  \E k \in 1..Len(stdout) : k # 1 /\ stdout[k].kind = "answer" /\ stdout[k].id = x
    <3>1. PICK k \in 1..Len(t) : t[k].kind = "answer" /\ t[k].id = x
          BY <1>5, <2>3
    <3> QED BY <2>1, <3>1
  <2>4. ASSUME NEW k \in 1..Len(stdout), k # 1, stdout[k].kind = "answer", stdout[k].id = x
        PROVE  x \in InPipe'
    <3>1. k - 1 \in 1..Len(t) /\ t[k - 1].kind = "answer" /\ t[k - 1].id = x
          BY <2>2, <2>4
    <3> QED BY <1>5, <3>1
  <2> QED BY <2>3, <2>4
<1>7. ASSUME NextLine.kind # "answer"
      PROVE  InPipe' = InPipe
  <2>1. \A x : x \in InPipe' <=> x \in InPipe
        BY <1>1, <1>5, <1>6, <1>7
  <2> QED BY <2>1
<1>8. ASSUME NextLine.kind = "answer"
      PROVE  NextLine.id \in InPipe /\ InPipe' = InPipe \ {NextLine.id}
  <2>1. NextLine.id \in InPipe
        BY <1>1, <1>4, <1>5, <1>8
  <2>2. ASSUME NEW x
        PROVE  x \in InPipe' <=> x \in InPipe /\ x # NextLine.id
        BY <1>1, <1>4, <1>5, <1>6, <1>8 DEF Distinct
  <2> QED BY <2>1, <2>2
<1> QED BY <1>1, <1>2, <1>3, <1>7, <1>8

\* A line is written: an answer that is not in the pipe, or none.
LEMMA Pushed ==
    ASSUME stdout \in Seq(Lines), Distinct, NEW l \in Lines, stdout' = Append(stdout, l),
           l.kind = "answer" => l.id \notin InPipe
    PROVE  /\ stdout' \in Seq(Lines) /\ Distinct'
           /\ InPipe' = IF l.kind = "answer" THEN InPipe \cup {l.id} ELSE InPipe
<1> DEFINE a == Append(stdout, l)
<1>1. /\ a \in Seq(Lines) /\ Len(a) = Len(stdout) + 1 /\ Len(stdout) \in Nat
      /\ \A i \in 1..Len(stdout) : a[i] = stdout[i]
      /\ a[Len(stdout) + 1] = l
      BY AppendProperties, LenProperties
<1> HIDE DEF a
<1>2. stdout' = a
      BY DEF a
<1>3. 1..Len(a) = 1..Len(stdout) \cup {Len(stdout) + 1}
      BY <1>1
<1>4. ASSUME NEW x
      PROVE  /\ x \in InPipe <=> \E k \in 1..Len(stdout) : stdout[k].kind = "answer" /\ stdout[k].id = x
             /\ x \in InPipe' <=> \E k \in 1..Len(a) : a[k].kind = "answer" /\ a[k].id = x
      BY <1>2 DEF InPipe
<1>5. \A x : x \in InPipe' <=> x \in InPipe \/ (l.kind = "answer" /\ l.id = x)
      BY <1>1, <1>3, <1>4
<1>6. Distinct'
      BY <1>1, <1>2, <1>3, <1>4 DEF Distinct
<1>7. InPipe' = IF l.kind = "answer" THEN InPipe \cup {l.id} ELSE InPipe
      BY <1>5
<1> QED BY <1>1, <1>2, <1>6, <1>7

-----------------------------------------------------------------------------
(* The lock.                                                               *)

\* One reads at most.
LEMMA OneReads ==
    ASSUME Serial
    PROVE  \A c, d \in Reading : c = d
BY DEF Serial

\* Whoever leaves the block, the reader is still at the head of the queue.
LEMMA LeaveSerial ==
    ASSUME TypeOK, Serial, NEW c \in Everyone, caller[c] # "idle", Leave(c)
    PROVE  /\ Serial' /\ lock' \in Seq(Everyone)
           /\ caller' \in [Everyone -> {"idle", "waiting", "reading"}]
           /\ Reading' = Reading \ {c} /\ Waiting' = Waiting \ {c}
<1>1. /\ lock \in Seq(Everyone) /\ caller \in [Everyone -> {"idle", "waiting", "reading"}]
      /\ caller' = [caller EXCEPT ![c] = "idle"] /\ lock' = RemoveFirst(lock, c)
      BY DEF TypeOK, Leave
<1>2. PICK k \in 1..Len(lock) :
              /\ lock[k] = c /\ lock' \in Seq(Everyone) /\ Len(lock') = Len(lock) - 1
              /\ \A i \in 1..Len(lock) - 1 : lock'[i] = IF i < k THEN lock[i] ELSE lock[i + 1]
  <2>1. \E i \in 1..Len(lock) : lock[i] = c
        BY DEF Serial
  <2>2. PICK k \in 1..Len(lock) :
              /\ lock[k] = c
              /\ RemoveFirst(lock, c) \in Seq(Everyone) /\ Len(RemoveFirst(lock, c)) = Len(lock) - 1
              /\ \A i \in 1..Len(lock) - 1 :
                    RemoveFirst(lock, c)[i] = IF i < k THEN lock[i] ELSE lock[i + 1]
        BY <1>1, <2>1, Removed
  <2> QED BY <1>1, <2>2
<1>3. Len(lock) \in Nat
      BY <1>1, LenProperties
<1>4. /\ \A d \in Everyone : d # c => caller'[d] = caller[d]
      /\ caller'[c] = "idle" /\ caller' \in [Everyone -> {"idle", "waiting", "reading"}]
      BY <1>1
<1>5. Reading' = Reading \ {c} /\ Waiting' = Waiting \ {c}
      BY <1>4 DEF Reading, Waiting
<1>6. \A i, j \in 1..Len(lock') : lock'[i] = lock'[j] => i = j
  <2> SUFFICES ASSUME NEW i \in 1..Len(lock'), NEW j \in 1..Len(lock'), lock'[i] = lock'[j]
               PROVE  i = j
      OBVIOUS
  <2>1. PICK p \in 1..Len(lock) : p = IF i < k THEN i ELSE i + 1
        BY <1>2, <1>3
  <2>2. PICK q \in 1..Len(lock) : q = IF j < k THEN j ELSE j + 1
        BY <1>2, <1>3
  <2>3. lock'[i] = lock[p] /\ lock'[j] = lock[q]
        BY <1>2, <2>1, <2>2
  <2>4. \A a, b \in 1..Len(lock) : lock[a] = lock[b] => a = b
        BY DEF Serial
  <2>5. p = q
        BY <2>3, <2>4
  <2> QED BY <1>2, <1>3, <2>1, <2>2, <2>5
<1>7. ASSUME NEW d \in Everyone
      PROVE  (\E i \in 1..Len(lock') : lock'[i] = d) <=> (d # c /\ \E i \in 1..Len(lock) : lock[i] = d)
  <2>1. ASSUME NEW i \in 1..Len(lock')
        PROVE  \E p \in 1..Len(lock) : p # k /\ lock'[i] = lock[p]
    <3>1. PICK p \in 1..Len(lock) : p = IF i < k THEN i ELSE i + 1
          BY <1>2, <1>3
    <3>2. p # k /\ lock'[i] = lock[p]
          BY <1>2, <1>3, <3>1
    <3> QED BY <3>2
  <2>2. ASSUME NEW p \in 1..Len(lock), p # k
        PROVE  \E i \in 1..Len(lock') : lock'[i] = lock[p]
    <3>1. PICK i \in 1..Len(lock') : i = IF p < k THEN p ELSE p - 1
          BY <1>2, <1>3, <2>2
    <3>2. lock'[i] = lock[p]
          BY <1>2, <1>3, <2>2, <3>1
    <3> QED BY <3>2
  <2>3. \A p \in 1..Len(lock) : p # k => lock[p] # c
        BY <1>2 DEF Serial
  <2>4. ASSUME NEW i \in 1..Len(lock'), lock'[i] = d
        PROVE  d # c /\ \E p \in 1..Len(lock) : lock[p] = d
        BY <2>1, <2>3, <2>4
  <2>5. ASSUME d # c, NEW p \in 1..Len(lock), lock[p] = d
        PROVE  \E i \in 1..Len(lock') : lock'[i] = d
    <3>1. p # k
          BY <1>2, <2>5
    <3> QED BY <2>2, <2>5, <3>1
  <2> QED BY <2>4, <2>5
<1>8. \A d \in Everyone : caller'[d] # "idle" <=> \E i \in 1..Len(lock') : lock'[i] = d
      BY <1>4, <1>7 DEF Serial
<1>9. ASSUME NEW d \in Reading'
      PROVE  lock'[1] = d
  <2>1. d \in Reading /\ d # c /\ d \in Everyone
        BY <1>5, <1>9 DEF Reading
  <2>2. lock[1] = d /\ \E i \in 1..Len(lock') : lock'[i] = d
        BY <1>5, <1>8, <1>9, <2>1 DEF Serial, Reading
  <2>3. k # 1 /\ 1 \in 1..Len(lock) - 1
        BY <1>2, <1>3, <2>1, <2>2
  <2> QED BY <1>2, <1>3, <2>2, <2>3
<1> QED BY <1>2, <1>4, <1>5, <1>6, <1>8, <1>9 DEF Serial

-----------------------------------------------------------------------------
(* The steps.                                                              *)

\* The sets that are counted.
LEMMA Counts ==
    ASSUME IInv
    PROVE  /\ IsFiniteSet(Outstanding) /\ Cardinality(Outstanding) \in Nat
           /\ IsFiniteSet(abandoned) /\ Cardinality(abandoned) \in Nat
           /\ IsFiniteSet(Reading) /\ Cardinality(Reading) \in Nat
           /\ IsFiniteSet(Waiting) /\ Cardinality(Waiting) \in Nat
           /\ request_id \in Nat /\ MaxRequests \in Nat /\ request_id <= MaxRequests
           /\ Cardinality(Outstanding) <= Cardinality(abandoned) + Cardinality(Reading)
           /\ Outstanding \subseteq 1..request_id
<1>1. request_id \in Nat /\ MaxRequests \in Nat /\ request_id <= MaxRequests
      BY ProtocolAssumption DEF IInv, TypeOK
<1>2. IsFiniteSet(1..request_id)
      BY <1>1, FS_Interval
<1>3. Outstanding \subseteq 1..request_id /\ abandoned \subseteq 1..request_id
      BY DEF IInv, AnsweredOnce, Outstanding, Numbers
<1>4. /\ IsFiniteSet(Outstanding) /\ Cardinality(Outstanding) \in Nat
      /\ IsFiniteSet(abandoned) /\ Cardinality(abandoned) \in Nat
      BY <1>2, <1>3, Fewer
<1>5. IsFiniteSet(Reading) /\ Cardinality(Reading) \in Nat
  <2>1. IsFiniteSet({lock[1]}) /\ Reading \subseteq {lock[1]}
        BY FS_Singleton DEF IInv, Serial
  <2> QED BY <2>1, Fewer
<1>6. IsFiniteSet(Waiting) /\ Cardinality(Waiting) \in Nat
      BY FS_CardinalityType DEF IInv, Numbers
<1>7. Cardinality(Outstanding) <= Cardinality(abandoned) + Cardinality(Reading)
      BY DEF IInv, OutOfStep, Outstanding, Reading
<1> QED BY <1>1, <1>3, <1>4, <1>5, <1>6, <1>7

\* A step that neither writes a request nor ends one, nor touches an answer.
LEMMA Steady ==
    ASSUME IInv, TypeOK', Serial', Distinct', InPipe' = InPipe, Reading' = Reading,
           IsFiniteSet(Waiting'), request_id + Cardinality(Waiting') <= MaxRequests,
           UNCHANGED <<request_id, sent, todo, served, abandoned>>
    PROVE  IInv'
<1>1. Outstanding' = Outstanding /\ Consumed' = Consumed
      BY DEF Outstanding, Consumed
<1>2. Numbers'
      BY DEF IInv, Numbers
<1>3. AnsweredOnce' /\ MatchedUnlessAbandoned'
      BY <1>1 DEF IInv, AnsweredOnce, MatchedUnlessAbandoned
<1>4. OutOfStep'
      BY <1>1, Counts DEF OutOfStep, Outstanding, Reading
<1>5. InStep'
      BY <1>1 DEF IInv, InStep
<1> QED BY <1>2, <1>3, <1>4, <1>5 DEF IInv

\* A caller gets in line.
LEMMA RequestSound ==
    ASSUME IInv, NEW c \in Everyone, Request(c)
    PROVE  IInv'
<1>1. /\ caller[c] = "idle" /\ request_id + Cardinality(Waiting) < MaxRequests
      /\ caller' = [caller EXCEPT ![c] = "waiting"] /\ lock' = Append(lock, c)
      /\ UNCHANGED <<request_id, sent, lines, initialized, alive, todo, stdout, served, abandoned>>
      BY DEF Request, pipe, past
<1>2. lock \in Seq(Everyone) /\ caller \in [Everyone -> {"idle", "waiting", "reading"}] /\ Serial
      BY DEF IInv, TypeOK
<1>3. /\ lock' \in Seq(Everyone) /\ Len(lock') = Len(lock) + 1 /\ Len(lock) \in Nat
      /\ \A i \in 1..Len(lock) : lock'[i] = lock[i]
      /\ lock'[Len(lock) + 1] = c
      BY <1>1, <1>2, AppendProperties, LenProperties
<1>4. /\ Reading' = Reading /\ Waiting' = Waiting \cup {c} /\ c \notin Waiting
      /\ caller' \in [Everyone -> {"idle", "waiting", "reading"}]
      /\ \A d \in Everyone : caller'[d] # "idle" <=> d = c \/ caller[d] # "idle"
      BY <1>1, <1>2 DEF Reading, Waiting
<1>5. Serial'
  <2>1. \A i \in 1..Len(lock) : lock[i] # c
        BY <1>1, <1>2 DEF Serial
  <2>2. 1..Len(lock') = 1..Len(lock) \cup {Len(lock) + 1}
        BY <1>3
  <2>3. \A i, j \in 1..Len(lock') : lock'[i] = lock'[j] => i = j
        BY <1>2, <1>3, <2>1, <2>2 DEF Serial
  <2>4. \A d \in Everyone : (\E i \in 1..Len(lock') : lock'[i] = d) <=> d = c \/ \E i \in 1..Len(lock) : lock[i] = d
        BY <1>3, <2>2
  <2>5. \A d \in Everyone : caller'[d] # "idle" <=> \E i \in 1..Len(lock') : lock'[i] = d
        BY <1>2, <1>4, <2>4 DEF Serial
  <2>6. ASSUME NEW d \in Reading'
        PROVE  lock'[1] = d
    <3>1. d \in Everyone /\ caller[d] # "idle" /\ lock[1] = d
          BY <1>2, <1>4, <2>6 DEF Serial, Reading
    <3>2. 1 \in 1..Len(lock)
          BY <1>2, <1>3, <3>1 DEF Serial
    <3> QED BY <1>3, <3>1, <3>2
  <2> QED BY <2>3, <2>5, <2>6 DEF Serial
<1>6. /\ IsFiniteSet(Waiting') /\ request_id + Cardinality(Waiting') <= MaxRequests
  <2>1. IsFiniteSet(Waiting \cup {c}) /\ Cardinality(Waiting \cup {c}) = Cardinality(Waiting) + 1
        BY <1>4, Counts, OneMore
  <2> QED BY <1>1, <1>4, <2>1, Counts
<1>7. TypeOK'
      BY <1>1, <1>3, <1>4 DEF IInv, TypeOK
<1>8. Distinct' /\ InPipe' = InPipe
      BY <1>1 DEF IInv, Distinct, InPipe
<1> QED BY <1>1, <1>4, <1>5, <1>6, <1>7, <1>8, Steady

\* The holder of the lock writes its request.
LEMMA WriteSound ==
    ASSUME IInv, NEW c \in Everyone, Write(c)
    PROVE  IInv'
<1> DEFINE id == request_id + 1
<1>1. /\ caller[c] = "waiting" /\ lock # << >> /\ Head(lock) = c
      /\ request_id' = id /\ caller' = [caller EXCEPT ![c] = "reading"]
      /\ sent' = [sent EXCEPT ![c] = id] /\ lines' = [lines EXCEPT ![c] = 0]
      /\ todo' = IF alive THEN todo \cup {id} ELSE todo
      /\ UNCHANGED <<lock, initialized, alive, stdout, served, abandoned>>
      BY DEF Write, HasLock, past
<1>2. lock \in Seq(Everyone) /\ caller \in [Everyone -> {"idle", "waiting", "reading"}] /\ Serial
      BY DEF IInv, TypeOK
<1>3. lock[1] = c
      BY <1>1, <1>2
<1>4. Reading = {} /\ Reading' = {c} /\ Waiting' = Waiting \ {c} /\ c \in Waiting
      /\ \A d \in Everyone : caller'[d] # "idle" <=> caller[d] # "idle"
      /\ caller' \in [Everyone -> {"idle", "waiting", "reading"}]
      BY <1>1, <1>2, <1>3 DEF Reading, Waiting, Serial
<1>5. Serial'
      BY <1>1, <1>2, <1>3, <1>4 DEF Serial
<1>6. /\ IsFiniteSet(Waiting') /\ id + Cardinality(Waiting') <= MaxRequests
      /\ id \in Nat /\ id <= MaxRequests /\ id > request_id
  <2>1. /\ IsFiniteSet(Waiting \ {c}) /\ Cardinality(Waiting) = Cardinality(Waiting \ {c}) + 1
        /\ Cardinality(Waiting \ {c}) \in Nat
        BY <1>4, Counts, OneLess
  <2>2. request_id + Cardinality(Waiting) <= MaxRequests
        BY DEF IInv, Numbers
  <2> QED BY <1>4, <2>1, <2>2, Counts
<1> HIDE DEF id
<1>7. id \in Ids /\ \A i \in 1..request_id : i \in 1..id /\ i # id
      BY <1>6, Counts DEF Ids
<1>8. TypeOK'
      BY <1>1, <1>4, <1>6, <1>7, ProtocolAssumption DEF IInv, TypeOK
<1>9. sent'[c] = id
      BY <1>1 DEF IInv, TypeOK
<1>10. Numbers'
  <2>1. abandoned \subseteq 1..request_id
        BY DEF IInv, Numbers
  <2>2. id \in 1..id /\ id \notin abandoned /\ abandoned \subseteq 1..id
        BY <1>6, <1>7, <2>1, Counts
  <2> QED BY <1>1, <1>4, <1>6, <1>9, <2>2 DEF Numbers
<1>11. Distinct' /\ InPipe' = InPipe /\ Consumed' = Consumed
       BY <1>1 DEF IInv, Distinct, InPipe, Consumed
<1>12. /\ AnsweredOnce /\ InPipe \cup todo \cup Consumed \subseteq 1..request_id
       /\ id \notin InPipe \cup todo \cup Consumed
       BY <1>7 DEF IInv, AnsweredOnce
<1>13. Outstanding' = IF alive THEN Outstanding \cup {id} ELSE Outstanding
       BY <1>1, <1>11 DEF Outstanding
<1>14. /\ InPipe' \cap todo' = {} /\ AnsweredOnce' /\ MatchedUnlessAbandoned'
  <2>1. InPipe' \cap todo' = {}
        BY <1>1, <1>11, <1>12 DEF IInv
  <2>2. (InPipe' \cup todo') \cap Consumed' = {}
        BY <1>1, <1>11, <1>12 DEF AnsweredOnce
  <2>3. InPipe' \cup todo' \cup Consumed' \subseteq 1..request_id'
    <3>1. id \in 1..id /\ \A i \in 1..request_id : i \in 1..id
          BY <1>6, <1>7, Counts
    <3> QED BY <1>1, <1>11, <1>12, <3>1
  <2> QED BY <1>1, <1>12, <2>1, <2>2, <2>3 DEF AnsweredOnce, MatchedUnlessAbandoned, IInv
<1>15. OutOfStep'
  <2>1. /\ Cardinality(Outstanding') <= Cardinality(Outstanding) + 1
        /\ Cardinality(Outstanding') \in Nat
    <3>1. IsFiniteSet(Outstanding) /\ Cardinality(Outstanding) \in Nat
          BY Counts
    <3>2. /\ IsFiniteSet(Outstanding \cup {id})
          /\ Cardinality(Outstanding \cup {id}) \in Nat
          /\ Cardinality(Outstanding \cup {id}) <= Cardinality(Outstanding) + 1
          BY <3>1, OneMore
    <3> QED BY <1>13, <3>1, <3>2
  <2>2. Cardinality(Reading) = 0 /\ Cardinality(Reading') = 1
        BY <1>4, FS_EmptySet, FS_Singleton
  <2>3. Cardinality(Outstanding') <= Cardinality(abandoned') + Cardinality(Reading')
        BY <1>1, <2>1, <2>2, Counts
  <2> QED BY <2>3 DEF OutOfStep, Outstanding, Reading
<1>16. InStep'
       BY <1>1, <1>4, <1>9, <1>13 DEF IInv, InStep
<1> QED BY <1>5, <1>8, <1>10, <1>11, <1>14, <1>15, <1>16 DEF IInv

\* A caller leaves without an answer.
LEMMA AbandonSound ==
    ASSUME IInv, NEW c \in Everyone, caller[c] # "idle", Abandon(c), Distinct', InPipe' = InPipe,
           stdout' \in Seq(Lines),
           UNCHANGED <<request_id, sent, lines, alive, todo, served>>
    PROVE  IInv'
<1>1. /\ abandoned' = abandoned \cup (IF caller[c] = "reading" THEN {sent[c]} ELSE {})
      /\ initialized' = IF c = Starter THEN "failed" ELSE initialized
      /\ Leave(c)
      BY DEF Abandon
<1>2. /\ Serial' /\ lock' \in Seq(Everyone)
      /\ caller' \in [Everyone -> {"idle", "waiting", "reading"}]
      /\ Reading' = Reading \ {c} /\ Waiting' = Waiting \ {c}
      BY <1>1, LeaveSerial DEF IInv
<1>3. /\ IsFiniteSet(Waiting') /\ request_id + Cardinality(Waiting') <= MaxRequests
  <2>1. /\ IsFiniteSet(Waiting') /\ Cardinality(Waiting') <= Cardinality(Waiting)
        /\ Cardinality(Waiting') \in Nat
        BY <1>2, Counts, Fewer
  <2>2. request_id + Cardinality(Waiting) <= MaxRequests
        BY DEF IInv, Numbers
  <2> QED BY <2>1, <2>2, Counts
<1>4. CASE caller[c] = "reading"
  <2>1. c \in Reading /\ Reading' = {}
        BY <1>2, <1>4, OneReads DEF Reading, IInv
  <2>2. sent[c] \in 1..request_id /\ sent[c] \notin abandoned /\ abandoned' = abandoned \cup {sent[c]}
        BY <1>1, <1>4, <2>1 DEF IInv, Numbers
  <2>3. sent[c] \in Ids
        BY <2>2, Counts DEF Ids
  <2>4. TypeOK'
        BY <1>1, <1>2, <2>2, <2>3 DEF IInv, TypeOK
  <2>5. Numbers'
        BY <1>3, <2>1, <2>2 DEF IInv, Numbers
  <2>6. Outstanding' = Outstanding /\ Consumed' = Consumed
        BY DEF Outstanding, Consumed
  <2>7. AnsweredOnce'
        BY <2>6 DEF IInv, AnsweredOnce
  <2>8. MatchedUnlessAbandoned' /\ InStep'
        BY <2>2 DEF MatchedUnlessAbandoned, InStep
  <2>9. OutOfStep'
    <3>1. Cardinality(abandoned') = Cardinality(abandoned) + 1
          BY <2>2, Counts, OneMore
    <3>2. Cardinality(Reading) = 1 /\ Cardinality(Reading') = 0
      <4>1. Reading = {c}
            BY <2>1, OneReads DEF IInv
      <4> QED BY <2>1, <4>1, FS_EmptySet, FS_Singleton
    <3>3. Cardinality(Outstanding') <= Cardinality(abandoned') + Cardinality(Reading')
          BY <2>6, <3>1, <3>2, Counts
    <3> QED BY <3>3 DEF OutOfStep, Outstanding, Reading
  <2> QED BY <1>2, <2>4, <2>5, <2>7, <2>8, <2>9 DEF IInv
<1>5. CASE caller[c] # "reading"
  <2>1. Reading' = Reading /\ abandoned' = abandoned
        BY <1>1, <1>2, <1>5 DEF Reading
  <2>2. TypeOK'
        BY <1>1, <1>2, <2>1 DEF IInv, TypeOK
  <2> QED BY <1>2, <1>3, <2>1, <2>2, Steady
<1> QED BY <1>4, <1>5

\* A line that is no answer is skipped, is one too many, or is taken for it.
LEMMA ReadOtherSound ==
    ASSUME IInv, NEW c \in Everyone, ReadNotification(c) \/ ReadNoise(c) \/ ReadOther(c)
    PROVE  IInv'
<1>1. /\ caller[c] = "reading" /\ stdout # << >> /\ Consume /\ NextLine.kind # "answer"
      /\ UNCHANGED <<request_id, sent, alive, todo, served>>
      BY DEF ReadNotification, ReadNoise, ReadOther, past
<1>2. Distinct' /\ InPipe' = InPipe /\ stdout' \in Seq(Lines)
      BY <1>1, Popped DEF IInv, TypeOK
<1>3. CASE Abandon(c) /\ UNCHANGED lines
      BY <1>1, <1>2, <1>3, AbandonSound
<1>4. CASE /\ UNCHANGED <<lock, caller, abandoned, initialized>>
           /\ lines' \in [Everyone -> 0..LineCap - 1]
  <2>1. Serial' /\ Reading' = Reading /\ Waiting' = Waiting
        BY <1>4 DEF IInv, Serial, Reading, Waiting
  <2>2. TypeOK'
        BY <1>1, <1>2, <1>4 DEF IInv, TypeOK
  <2>3. IsFiniteSet(Waiting') /\ request_id + Cardinality(Waiting') <= MaxRequests
        BY <2>1 DEF IInv, Numbers
  <2> QED BY <1>1, <1>2, <1>4, <2>1, <2>2, <2>3, Steady
<1>5. CASE ReadNoise(c)
      BY <1>4, <1>5 DEF ReadNoise, past, IInv, TypeOK
<1>6. CASE ReadNotification(c) /\ ~CapReached(c)
  <2>1. lines' = [lines EXCEPT ![c] = lines[c] + 1] /\ UNCHANGED <<lock, caller, abandoned, initialized>>
        BY <1>6 DEF ReadNotification
  <2>2. lines \in [Everyone -> 0..LineCap - 1] /\ lines[c] + 1 \in 0..LineCap - 1
        BY <1>6, ProtocolAssumption DEF CapReached, IInv, TypeOK
  <2>3. lines' \in [Everyone -> 0..LineCap - 1]
        BY <2>1, <2>2
  <2> QED BY <1>4, <2>1, <2>3
<1>7. CASE ReadNotification(c) /\ CapReached(c)
      BY <1>3, <1>7 DEF ReadNotification
<1>8. CASE ReadOther(c)
      BY <1>3, <1>8 DEF ReadOther
<1> QED BY <1>5, <1>6, <1>7, <1>8

\* An answer is handed to the one who reads.
LEMMA ReadAnswerSound ==
    ASSUME IInv, NEW c \in Everyone, ReadAnswer(c)
    PROVE  IInv'
<1> DEFINE id == NextLine.id
<1>1. /\ caller[c] = "reading" /\ stdout # << >> /\ Consume /\ NextLine.kind = "answer"
      /\ served' = served \cup {<<sent[c], id>>} /\ Leave(c)
      /\ initialized' = initialized \/ initialized' \in {"notifying", "failed"}
      /\ UNCHANGED <<request_id, sent, lines, alive, todo, abandoned>>
      BY DEF ReadAnswer
<1>2. PICK i : i = id
      OBVIOUS
<1>3. Distinct' /\ i \in InPipe /\ InPipe' = InPipe \ {i} /\ stdout' \in Seq(Lines)
      BY <1>1, <1>2, Popped DEF IInv, TypeOK
<1>4. served' = served \cup {<<sent[c], i>>}
      BY <1>1, <1>2
<1> HIDE DEF id
<1>5. /\ Serial' /\ lock' \in Seq(Everyone)
      /\ caller' \in [Everyone -> {"idle", "waiting", "reading"}]
      /\ Reading' = Reading \ {c} /\ Waiting' = Waiting \ {c}
      BY <1>1, LeaveSerial DEF IInv
<1>6. Reading = {c} /\ Reading' = {}
      BY <1>1, <1>5, OneReads DEF IInv, Reading
<1>7. Waiting' = Waiting
      BY <1>1, <1>5 DEF Waiting
<1>8. i \in 1..request_id /\ i \notin todo /\ i \notin Consumed /\ AnsweredOnce
      BY <1>3 DEF IInv, AnsweredOnce
<1>9. sent[c] \in 1..request_id
      BY <1>6 DEF IInv, Numbers
<1>10. i \in Ids /\ sent[c] \in Ids
       BY <1>8, <1>9, Counts DEF Ids
<1>11. TypeOK'
       BY <1>1, <1>3, <1>4, <1>5, <1>10 DEF IInv, TypeOK
<1>12. Numbers'
       BY <1>1, <1>6, <1>7 DEF IInv, Numbers
<1>13. Outstanding' = Outstanding \ {i} /\ i \in Outstanding /\ Consumed' = Consumed \cup {i}
  <2>1. Outstanding' = Outstanding \ {i} /\ i \in Outstanding
        BY <1>1, <1>3, <1>8 DEF Outstanding
  <2>2. PICK p : p = <<sent[c], i>>
        OBVIOUS
  <2>3. served' = served \cup {p}
        BY <1>4, <2>2
  <2>4. Consumed' = {q[2] : q \in served \cup {p}}
        BY <2>3 DEF Consumed
  <2>5. p[2] = i
        BY <2>2
  <2>6. Consumed' = Consumed \cup {i}
        BY <2>4, <2>5 DEF Consumed
  <2> QED BY <2>1, <2>6
<1>14. InPipe' \cap todo' = {}
       BY <1>1, <1>3 DEF IInv
<1>15. AnsweredOnce'
  <2>1. \A p, q \in served' : p[2] = q[2] => p = q
        BY <1>4, <1>8 DEF AnsweredOnce, Consumed
  <2>2. (InPipe' \cup todo') \cap Consumed' = {}
        BY <1>1, <1>3, <1>8, <1>13 DEF AnsweredOnce
  <2>3. InPipe' \cup todo' \cup Consumed' \subseteq 1..request_id'
        BY <1>1, <1>3, <1>8, <1>13 DEF AnsweredOnce
  <2> QED BY <2>1, <2>2, <2>3 DEF AnsweredOnce
<1>16. ASSUME abandoned = {}
       PROVE  sent[c] = i /\ Outstanding' = {}
       BY <1>6, <1>13, <1>16 DEF IInv, InStep
<1>17. MatchedUnlessAbandoned' /\ InStep'
       BY <1>1, <1>4, <1>16 DEF IInv, MatchedUnlessAbandoned, InStep
<1>18. OutOfStep'
  <2>1. Cardinality(Outstanding) = Cardinality(Outstanding') + 1 /\ Cardinality(Outstanding') \in Nat
        BY <1>13, Counts, OneLess
  <2>2. Cardinality(Reading) = 1 /\ Cardinality(Reading') = 0
        BY <1>6, FS_EmptySet, FS_Singleton
  <2>3. Cardinality(Outstanding') <= Cardinality(abandoned') + Cardinality(Reading')
        BY <1>1, <2>1, <2>2, Counts
  <2> QED BY <2>3 DEF OutOfStep, Outstanding, Reading
<1> QED BY <1>3, <1>5, <1>11, <1>12, <1>14, <1>15, <1>17, <1>18 DEF IInv

\* The subprocess writes an answer.
LEMMA AnswerSound ==
    ASSUME IInv, NEW i \in Ids, Answer(i)
    PROVE  IInv'
<1> DEFINE l == [kind |-> "answer", id |-> i]
<1>1. /\ i \in todo /\ todo' = todo \ {i} /\ stdout' = Append(stdout, l)
      /\ UNCHANGED <<request_id, lock, caller, sent, lines, initialized, alive, served, abandoned>>
      BY DEF Answer, past
<1>2. l \in Lines /\ l.kind = "answer" /\ l.id = i
      BY ProtocolAssumption DEF Lines, Ids
<1> HIDE DEF l
<1>3. i \notin InPipe
      BY <1>1 DEF IInv
<1>4. Distinct' /\ stdout' \in Seq(Lines) /\ InPipe' = InPipe \cup {i}
      BY <1>1, <1>2, <1>3, Pushed DEF IInv, TypeOK
<1>5. Outstanding' = Outstanding /\ Consumed' = Consumed /\ Reading' = Reading /\ Waiting' = Waiting
      BY <1>1, <1>4 DEF Outstanding, Consumed, Reading, Waiting
<1>6. TypeOK'
      BY <1>1, <1>4 DEF IInv, TypeOK
<1>7. Serial' /\ Numbers'
      BY <1>1, <1>5 DEF IInv, Serial, Numbers
<1>8. InPipe' \cap todo' = {}
      BY <1>1, <1>4 DEF IInv
<1>9. AnsweredOnce' /\ MatchedUnlessAbandoned'
      BY <1>1, <1>4, <1>5 DEF IInv, AnsweredOnce, MatchedUnlessAbandoned
<1>10. OutOfStep' /\ InStep'
  <2>1. OutOfStep'
        BY <1>1, <1>5, Counts DEF OutOfStep, Outstanding, Reading
  <2>2. InStep'
        BY <1>1, <1>5 DEF IInv, InStep
  <2> QED BY <2>1, <2>2
<1> QED BY <1>4, <1>6, <1>7, <1>8, <1>9, <1>10 DEF IInv

\* It writes a line that answers nothing; or the process ends, or the starter
\* is done.
LEMMA OtherSound ==
    ASSUME IInv, (\E kind \in {"other", "note", "noise"} : Chatter(kind)) \/ Notify \/ Close \/ UNCHANGED vars
    PROVE  IInv'
<1>1. UNCHANGED <<request_id, lock, caller, sent, lines, todo, served, abandoned>>
      BY DEF Chatter, Notify, Close, vars, pipe, past
<1>2. Distinct' /\ InPipe' = InPipe /\ stdout' \in Seq(Lines)
  <2>1. CASE UNCHANGED stdout
        BY <2>1 DEF IInv, TypeOK, Distinct, InPipe
  <2>2. ASSUME NEW kind \in {"other", "note", "noise"}, Chatter(kind)
        PROVE  Distinct' /\ InPipe' = InPipe /\ stdout' \in Seq(Lines)
    <3>1. PICK l \in Lines : l = [kind |-> kind, id |-> 0] /\ l.kind # "answer"
      <4>1. [kind |-> kind, id |-> 0] \in Lines
            BY ProtocolAssumption DEF Lines
      <4> QED BY <4>1
    <3>2. stdout' = Append(stdout, l)
          BY <2>2, <3>1 DEF Chatter
    <3> QED BY <3>1, <3>2, Pushed DEF IInv, TypeOK
  <2> QED BY <2>1, <2>2 DEF Notify, Close, vars, pipe
<1>3. /\ initialized' \in {"no", "notifying", "yes", "failed"} /\ alive' \in BOOLEAN
  <2>1. initialized \in {"no", "notifying", "yes", "failed"} /\ alive \in BOOLEAN
        BY DEF IInv, TypeOK
  <2>2. ASSUME NEW kind \in {"other", "note", "noise"}, Chatter(kind)
        PROVE  UNCHANGED <<initialized, alive>>
        BY <2>2 DEF Chatter
  <2> QED BY <2>1, <2>2 DEF Notify, Close, vars, pipe
<1>4. TypeOK'
      BY <1>1, <1>2, <1>3 DEF IInv, TypeOK
<1>5. Serial' /\ Reading' = Reading /\ Waiting' = Waiting
      BY <1>1 DEF IInv, Serial, Reading, Waiting
<1>6. IsFiniteSet(Waiting') /\ request_id + Cardinality(Waiting') <= MaxRequests
      BY <1>5 DEF IInv, Numbers
<1> QED BY <1>1, <1>2, <1>4, <1>5, <1>6, Steady

-----------------------------------------------------------------------------
(* The theorems.                                                           *)

LEMMA InitSound == Init => IInv
<1> SUFFICES ASSUME Init PROVE IInv
    OBVIOUS
<1>1. /\ request_id = 0 /\ lock = << >> /\ caller = [c \in Everyone |-> "idle"]
      /\ sent = [c \in Everyone |-> 0] /\ lines = [c \in Everyone |-> 0]
      /\ initialized = "no" /\ alive = TRUE /\ todo = {} /\ stdout = << >>
      /\ served = {} /\ abandoned = {}
      BY DEF Init
<1>2. Len(<< >>) = 0 /\ 1..0 = {}
      OBVIOUS
<1>3. Waiting = {} /\ Reading = {} /\ InPipe = {} /\ Consumed = {} /\ Outstanding = {}
      BY <1>1, <1>2 DEF Waiting, Reading, InPipe, Consumed, Outstanding
<1>4. IsFiniteSet({}) /\ Cardinality({}) = 0
      BY FS_EmptySet
<1>5. TypeOK
      BY <1>1, ProtocolAssumption DEF TypeOK
<1>6. Serial /\ Distinct
      BY <1>1, <1>2, <1>3 DEF Serial, Distinct
<1>7. Numbers
      BY <1>1, <1>3, <1>4, ProtocolAssumption DEF Numbers
<1>8. AnsweredOnce /\ MatchedUnlessAbandoned /\ InStep
      BY <1>1, <1>3 DEF AnsweredOnce, MatchedUnlessAbandoned, InStep
<1>9. OutOfStep
  <2>1. Cardinality(Outstanding) = 0 /\ Cardinality(Reading) = 0 /\ Cardinality(abandoned) = 0
        BY <1>1, <1>3, <1>4
  <2>2. Cardinality(Outstanding) <= Cardinality(abandoned) + Cardinality(Reading)
        BY <2>1
  <2> QED BY <2>2 DEF OutOfStep, Outstanding, Reading
<1> QED BY <1>1, <1>3, <1>5, <1>6, <1>7, <1>8, <1>9 DEF IInv

LEMMA StepSound == IInv /\ [Next]_vars => IInv'
<1> SUFFICES ASSUME IInv, [Next]_vars PROVE IInv'
    OBVIOUS
<1>1. ASSUME NEW c \in Everyone, ReadFails(c) \/ Cancelled(c)
      PROVE  IInv'
  <2>1. /\ caller[c] # "idle" /\ Abandon(c)
        /\ UNCHANGED <<request_id, sent, lines, alive, todo, stdout, served>>
        BY <1>1 DEF ReadFails, Cancelled, pipe
  <2>2. Distinct' /\ InPipe' = InPipe /\ stdout' \in Seq(Lines)
        BY <2>1 DEF IInv, TypeOK, Distinct, InPipe
  <2> QED BY <2>1, <2>2, AbandonSound
<1>2. ASSUME NEW c \in Everyone, Request(c) \/ Write(c) \/ Read(c) \/ Cancelled(c)
      PROVE  IInv'
      BY <1>1, <1>2, RequestSound, WriteSound, ReadAnswerSound, ReadOtherSound DEF Read
<1> QED BY <1>2, AnswerSound, OtherSound DEF Next

THEOREM Invariance == Spec => []IInv
<1> QED BY InitSound, StepSound, PTL DEF Spec

\* Every answer of the subprocess is handed out once, to the request it answers
\* unless a caller has left without an answer of its own before (it gave up, or
\* took another line with an id for it), and no more answers are behind than
\* there were such callers (_send_request, which compares no ids).
THEOREM EveryAnswerOnce == Spec => []AnswersAccounted
<1>1. IInv => AnswersAccounted
      BY DEF IInv, AnswersAccounted
<1> QED BY <1>1, Invariance, PTL

-----------------------------------------------------------------------------
(* StdioServers: the inductive invariant.                                  *)

Objects == [name : Names, status : Statuses, protocol : Nat,
            tools : BOOLEAN, restarts : 0..MaxRestarts]
Jobs    == [op : Ops, at : Places, obj : Nat, proc : Nat, dict : Nat, todo : SUBSET (Names \cup Nat)]

\* The ranges that do not depend on what there is already.
Types ==
    /\ objects \in Seq(Objects)
    /\ servers \in [Names -> Nat] /\ dict \in Nat
    /\ procs \in Seq(BOOLEAN) /\ Len(procs) <= MaxProcesses
    /\ adapters \subseteq Names /\ tools \subseteq Names /\ taken \subseteq Names
    /\ saved \subseteq Names /\ wanted \subseteq Names /\ dropped \subseteq Names
    /\ job \in [Coroutines -> Jobs]
    /\ healthOn \in BOOLEAN /\ overlap \in BOOLEAN /\ torn \in BOOLEAN
    /\ boots \in 0..MaxBoots /\ cancels \in 0..MaxCancels

\* What is referred to exists.
ObjectsInRange ==
    /\ \A n \in Names : servers[n] <= Len(objects)
    /\ \A o \in 1..Len(objects) : objects[o].protocol <= Len(procs)

\* What a coroutine j has left to do.
Todo(j, list) ==
    /\ j \in Requests => list = {}
    /\ j = Health => list \subseteq 1..Len(objects)
    /\ j = Boot => list \subseteq Names

JobsInRange ==
    \A j \in Coroutines :
        job[j].obj <= Len(objects) /\ job[j].proc <= Len(procs) /\ Todo(j, job[j].todo)

Resting(j) == job[j].at \in {"idle", "between"}
Working(j) == job[j].at \in {"closing", "spawning", "listing"}

\* What a coroutine does at each of its places.
InOrder(r) ==
    /\ r.at \in {"idle", "between"} <=> r.obj = 0
    /\ r.at \in {"idle", "between"} <=> r.op = "none"
    /\ r.op = "register" => r.at \in {"spawning", "listing"}
    /\ r.op = "unregister" => r.at = "closing" /\ r.todo = {}
    /\ r.at = "closing" => r.proc # 0 /\ r.op \in {"unregister", "recover", "retry"}
    /\ r.at = "calling" => r.op \in {"recover", "retry"}

JobsInOrder == \A j \in Coroutines : InOrder(job[j])

\* A name leads to an object of that name, and the dict in which a
\* registration or a removal found its object is the one it is in.
Entered ==
    /\ \A n \in Names : servers[n] # 0 => objects[servers[n]].name = n
    /\ \A j \in Coroutines :
          job[j].op \in {"register", "unregister"} /\ servers[NameOf(j)] = job[j].obj =>
              job[j].dict = dict

\* Who put a server into a passing state, or came after him, has not yet
\* started its process.
Pending ==
    cancels = 0 => \A n \in Names :
        servers[n] # 0 /\ objects[servers[n]].status \in {"starting", "restarting", "stopping"} =>
            \E j \in Coroutines : job[j].obj = servers[n] /\ job[j].at \in {"closing", "spawning"}

\* A coroutine that works on a server has it for itself, and knows its process.
Alone(j) ==
    /\ servers[NameOf(j)] = job[j].obj
    /\ \A k \in Coroutines : Working(k) /\ job[k].obj = job[j].obj => k = j
    /\ IF job[j].at = "spawning" THEN ~Running(objects[job[j].obj].protocol)
       ELSE job[j].proc = objects[job[j].obj].protocol
    /\ job[j].op = "register" => ~objects[job[j].obj].tools

Undisturbed == Calm => \A j \in Coroutines : Working(j) => Alone(j)

\* What is in the tool registry, the server of that name has listed.
Provided == Calm => \A n \in tools : servers[n] # 0 /\ objects[servers[n]].tools

\* The tool registry has the tenant's adapters and those that were taken along.
Divided == tools = adapters \cup taken /\ adapters \cap taken = {}

\* What is wanted is registered, or a boot has dropped it or has yet to get to
\* it; and nobody is removing it, or registering it for any other reason.
Kept ==
    Calm => /\ wanted \subseteq Registered \cup dropped \cup ToRestore
            /\ \A j \in Coroutines : NameOf(j) \in wanted =>
                  /\ job[j].op # "unregister"
                  /\ job[j].op = "register" => NameOf(j) \in dropped \cup ToRestore

\* The inductive invariant.
ServersInv ==
    /\ Types /\ ObjectsInRange /\ JobsInRange /\ JobsInOrder
    /\ Entered /\ Pending /\ Undisturbed
    /\ ProcessesAccounted /\ ToolsMatchServers /\ Provided
    /\ Kept /\ WantedIsSaved

-----------------------------------------------------------------------------
(* Sequences and parts of steps.                                           *)

\* A sequence with one element replaced.
LEMMA Changed ==
    ASSUME NEW S, NEW s \in Seq(S), NEW i \in 1..Len(s), NEW x \in S, NEW t, t = [s EXCEPT ![i] = x]
    PROVE  /\ t \in Seq(S) /\ Len(t) = Len(s)
           /\ \A k \in 1..Len(s) : t[k] = IF k = i THEN x ELSE s[k]
BY ExceptSeq

\* A sequence with one element more.
LEMMA Longer ==
    ASSUME NEW S, NEW s \in Seq(S), NEW x \in S, NEW t, t = Append(s, x)
    PROVE  /\ t \in Seq(S) /\ Len(s) \in Nat /\ Len(t) = Len(s) + 1
           /\ \A k \in 1..Len(s) : t[k] = s[k]
           /\ t[Len(s) + 1] = x
BY AppendProperties

\* The objects and the processes are there, of their types.
LEMMA Lengths ==
    ASSUME ServersInv
    PROVE  /\ objects \in Seq(Objects) /\ Len(objects) \in Nat
           /\ procs \in Seq(BOOLEAN) /\ Len(procs) \in Nat
           /\ \A o \in 1..Len(objects) :
                 /\ objects[o] \in Objects /\ objects[o].name \in Names /\ objects[o].tools \in BOOLEAN
                 /\ objects[o].protocol \in Nat /\ objects[o].protocol <= Len(procs)
<1>1. objects \in Seq(Objects) /\ procs \in Seq(BOOLEAN)
      BY DEF ServersInv, Types
<1>2. Len(objects) \in Nat /\ Len(procs) \in Nat /\ \A o \in 1..Len(objects) : objects[o] \in Objects
      BY <1>1
<1>3. \A o \in 1..Len(objects) : objects[o].protocol <= Len(procs)
      BY DEF ServersInv, ObjectsInRange
<1> QED BY <1>1, <1>2, <1>3 DEF Objects

\* What a coroutine holds is there, of its type.
LEMMA JobTyped ==
    ASSUME ServersInv, NEW j \in Coroutines
    PROVE  /\ job \in [Coroutines -> Jobs] /\ job[j] \in Jobs
           /\ job[j].obj \in Nat /\ job[j].obj <= Len(objects)
           /\ job[j].proc \in Nat /\ job[j].proc <= Len(procs)
           /\ job[j].dict \in Nat /\ job[j].op \in Ops /\ job[j].at \in Places
<1>1. job \in [Coroutines -> Jobs] /\ job[j] \in Jobs
      BY DEF ServersInv, Types
<1> QED BY <1>1 DEF Jobs, ServersInv, JobsInRange

\* The object of a coroutine that is at work or calls.
LEMMA HasObject ==
    ASSUME ServersInv, NEW j \in Coroutines, ~Resting(j)
    PROVE  /\ job[j].obj \in 1..Len(objects) /\ objects[job[j].obj] \in Objects
           /\ NameOf(j) \in Names /\ NameOf(j) = objects[job[j].obj].name
<1>1. job[j].obj # 0
      BY DEF ServersInv, JobsInOrder, InOrder, Resting
<1>2. job[j].obj \in 1..Len(objects)
      BY <1>1, Lengths, JobTyped
<1> QED BY <1>2, Lengths DEF NameOf

\* The object of a name.
LEMMA Entry ==
    ASSUME ServersInv, NEW n \in Names, servers[n] # 0
    PROVE  servers[n] \in 1..Len(objects) /\ objects[servers[n]] \in Objects /\ objects[servers[n]].name = n
<1>1. servers[n] \in Nat /\ servers[n] <= Len(objects)
      BY DEF ServersInv, Types, ObjectsInRange
<1>2. servers[n] \in 1..Len(objects)
      BY <1>1, Lengths
<1> QED BY <1>2, Lengths DEF ServersInv, Entered

\* Those who register or remove a server are at work.
LEMMA AtWork ==
    ASSUME ServersInv, NEW j \in Coroutines
    PROVE  /\ job[j].op \in {"register", "unregister"} => Working(j)
           /\ Working(j) => ~Resting(j)
           /\ job[j].at = "calling" => ~Resting(j)
BY DEF ServersInv, JobsInOrder, InOrder, Working, Resting

-----------------------------------------------------------------------------
(* Steps of a coroutine j that works on the object o.                      *)

\* Nobody but j is at work on o.
Free(j, o) == \A k \in Coroutines : k # j /\ Working(k) => job[k].obj # o

\* What all of them leave alone.  While nothing has overlapped, o is the server
\* of its name and j's alone.
Frame(j, o) ==
    /\ Len(objects') = Len(objects)
    /\ \A x \in 1..Len(objects) :
          /\ objects'[x].name = objects[x].name /\ objects'[x].protocol = objects[x].protocol
          /\ x # o => /\ objects'[x].tools = objects[x].tools
                      /\ objects'[x].status \in {objects[x].status, "error"}
    /\ \A k \in Coroutines : k # j => job'[k] = job[k]
    /\ job[j].obj \in {0, o} /\ job'[j].obj \in {0, o}
    /\ \A q \in 1..Len(procs) : procs'[q] => procs[q]
    /\ Len(procs') = Len(procs)
    /\ \A m \in Names : servers'[m] = servers[m] \/ (servers'[m] = 0 /\ m = objects[o].name)
    /\ dict' = dict \/ \A m \in Names : servers'[m] = 0
    /\ cancels' = cancels /\ boots' = boots
    /\ Calm' => Calm /\ Free(j, o) /\ servers[objects[o].name] = o

\* The names of the objects stay.
LEMMA SameName ==
    ASSUME ServersInv, NEW j \in Coroutines, NEW o \in 1..Len(objects), Frame(j, o),
           NEW k \in Coroutines, k # j, ~Resting(k)
    PROVE  NameOf(k)' = NameOf(k) /\ NameOf(k) \in Names /\ job'[k] = job[k]
           /\ job[k].obj \in 1..Len(objects)
BY HasObject DEF Frame, NameOf

\* A step within Frame keeps Entered, if what j registers or removes is in the dict that is current.
LEMMA EnteredKept ==
    ASSUME ServersInv, NEW j \in Coroutines, NEW o \in 1..Len(objects), Frame(j, o), JobsInRange', Types',
           JobsInOrder',
           job'[j].op \in {"register", "unregister"} =>
              \/ job'[j].dict = dict
              \/ /\ job[j].op \in {"register", "unregister"}
                 /\ job'[j].obj = job[j].obj /\ job'[j].dict = job[j].dict
    PROVE  Entered'
<1>1. ASSUME NEW n \in Names, servers'[n] # 0
      PROVE  objects'[servers'[n]].name = n
  <2>1. servers'[n] = servers[n]
        BY <1>1 DEF Frame
  <2> QED BY <1>1, <2>1, Entry DEF Frame
<1>2. ASSUME NEW k \in Coroutines, job'[k].op \in {"register", "unregister"},
             servers'[NameOf(k)'] = job'[k].obj
      PROVE  job'[k].dict = dict'
  <2>1. job'[k].obj # 0 /\ job'[k].obj \in Nat /\ job'[k].obj <= Len(objects)
        BY <1>2 DEF JobsInOrder, InOrder, JobsInRange, Frame, Types, Jobs
  <2>2. job'[k].obj \in 1..Len(objects)
        BY <2>1, Lengths
  <2>3. NameOf(k)' = objects[job'[k].obj].name /\ NameOf(k)' \in Names
        BY <2>2, Lengths DEF NameOf, Frame
  <2>4. servers'[NameOf(k)'] # 0 /\ dict' = dict /\ servers[NameOf(k)'] = job'[k].obj
        BY <1>2, <2>1, <2>3 DEF Frame
  <2>5. CASE job'[k].dict = dict
        BY <2>4, <2>5
  <2>6. CASE /\ job[k].op \in {"register", "unregister"}
             /\ job'[k].obj = job[k].obj /\ job'[k].dict = job[k].dict
    <3>1. NameOf(k) = NameOf(k)'
          BY <2>3, <2>6 DEF NameOf
    <3> QED BY <2>4, <2>6, <3>1 DEF ServersInv, Entered
  <2> QED BY <1>2, <2>5, <2>6 DEF Frame
<1> QED BY <1>1, <1>2 DEF Entered

\* A step within Frame keeps Pending, if o is left in no passing state without j.
LEMMA PendingKept ==
    ASSUME ServersInv, NEW j \in Coroutines, NEW o \in 1..Len(objects), Frame(j, o),
           \/ objects'[o].status \notin {"starting", "restarting", "stopping"}
           \/ job'[j].obj = o /\ job'[j].at \in {"closing", "spawning"}
           \/ servers'[objects[o].name] # o
           \/ objects'[o].status = objects[o].status /\ job[j].at \notin {"closing", "spawning"}
    PROVE  Pending'
<1>1. SUFFICES ASSUME cancels = 0, NEW n \in Names, servers'[n] # 0,
                      objects'[servers'[n]].status \in {"starting", "restarting", "stopping"}
               PROVE  \E k \in Coroutines : job'[k].obj = servers'[n] /\ job'[k].at \in {"closing", "spawning"}
      BY DEF Pending, Frame
<1>2. servers'[n] = servers[n] /\ servers[n] \in 1..Len(objects) /\ objects[servers[n]].name = n
      BY <1>1, Entry DEF Frame
<1>3. CASE servers[n] = o
  <2>1. CASE objects'[o].status = objects[o].status /\ job[j].at \notin {"closing", "spawning"}
    <3>1. PICK k \in Coroutines : job[k].obj = o /\ job[k].at \in {"closing", "spawning"}
          BY <1>1, <1>2, <1>3, <2>1 DEF ServersInv, Pending
    <3> QED BY <1>2, <1>3, <2>1, <3>1 DEF Frame
  <2> QED BY <1>1, <1>2, <1>3, <2>1
<1>4. CASE servers[n] # o
  <2>1. objects[servers[n]].status = objects'[servers[n]].status
        BY <1>1, <1>2, <1>4 DEF Frame
  <2>2. PICK k \in Coroutines : job[k].obj = servers[n] /\ job[k].at \in {"closing", "spawning"}
        BY <1>1, <1>2, <2>1 DEF ServersInv, Pending
  <2>3. k # j
        BY <1>2, <1>4, <2>2, Lengths DEF Frame
  <2> QED BY <1>2, <2>2, <2>3 DEF Frame
<1> QED BY <1>3, <1>4

\* A step within Frame keeps Undisturbed, if j has its server for itself afterwards.
LEMMA UndisturbedKept ==
    ASSUME ServersInv, NEW j \in Coroutines, NEW o \in 1..Len(objects), Frame(j, o),
           Calm' /\ Working(j)' =>
              /\ job'[j].obj = o /\ servers'[objects[o].name] = o
              /\ IF job'[j].at = "spawning" THEN ~Running(objects[o].protocol)'
                 ELSE job'[j].proc = objects[o].protocol
              /\ job'[j].op = "register" => ~objects'[o].tools
    PROVE  Undisturbed'
<1>1. SUFFICES ASSUME Calm', NEW k \in Coroutines, Working(k)' PROVE Alone(k)'
      BY DEF Undisturbed
<1>2. Calm /\ Free(j, o) /\ servers[objects[o].name] = o /\ objects[o].name \in Names
      BY <1>1, Lengths DEF Frame
<1>3. \A x \in Coroutines : x # j /\ Working(x)' =>
          Working(x) /\ job'[x] = job[x] /\ job[x].obj # o
      BY <1>2 DEF Frame, Working, Free
<1>4. CASE k = j
  <2>1. NameOf(k)' = objects[o].name
        BY <1>1, <1>4 DEF NameOf, Frame
  <2>2. objects'[o].protocol = objects[o].protocol
        BY DEF Frame
  <2> QED BY <1>1, <1>3, <1>4, <2>1, <2>2 DEF Alone
<1>5. CASE k # j
  <2> DEFINE x == job[k].obj
  <2>1. Working(k) /\ ~Resting(k) /\ Alone(k) /\ job'[k] = job[k] /\ x # o
        BY <1>1, <1>2, <1>3, <1>5, AtWork DEF ServersInv, Undisturbed
  <2>2. x \in 1..Len(objects) /\ NameOf(k)' = NameOf(k) /\ NameOf(k) \in Names
        BY <1>5, <2>1, SameName
  <2>3. servers'[NameOf(k)] = x
        BY <1>2, <2>1, <2>2 DEF Alone, Frame
  <2>4. /\ objects'[x].tools = objects[x].tools
        /\ objects'[x].protocol = objects[x].protocol
        BY <2>1, <2>2 DEF Frame
  <2>5. Running(objects[x].protocol)' => Running(objects[x].protocol)
    <3>1. objects[x].protocol \in Nat /\ objects[x].protocol <= Len(procs) /\ Len(procs) \in Nat
          BY <2>2, Lengths
    <3>2. \A q \in 1..Len(procs) : procs'[q] => procs[q]
          BY DEF Frame
    <3>3. objects[x].protocol = 0 \/ objects[x].protocol \in 1..Len(procs)
          BY <3>1
    <3>4. Running(objects[x].protocol)' <=> (objects[x].protocol # 0 /\ procs'[objects[x].protocol])
          BY <2>1, <2>4 DEF Running
    <3> QED BY <3>2, <3>3, <3>4 DEF Running
  <2>6. \A y \in Coroutines : Working(y)' /\ job'[y].obj = x => y = k
    <3>1. job'[j].obj # x
          BY <2>1, <2>2, Lengths DEF Frame
    <3> QED BY <1>3, <2>1, <3>1 DEF Alone
  <2> QED BY <2>1, <2>2, <2>3, <2>4, <2>5, <2>6 DEF Alone
<1> QED BY <1>4, <1>5

\* A step within Frame keeps the processes accounted for, if o stays registered, or
\* its process is dead, or it is in ERROR.
LEMMA AccountedKept ==
    ASSUME ServersInv, NEW j \in Coroutines, NEW o \in 1..Len(objects), Frame(j, o),
           Calm' => \/ servers'[objects[o].name] = o
                    \/ ~Running(objects[o].protocol)'
                    \/ objects'[o].status = "error" /\ servers'[objects[o].name] # o
    PROVE  ProcessesAccounted'
<1>1. SUFFICES ASSUME Calm', NEW q \in 1..Len(procs), procs'[q]
               PROVE  \/ \E n \in Names : servers'[n] # 0 /\ objects'[servers'[n]].protocol = q
                      \/ \E x \in 1..Len(objects) : /\ objects'[x].protocol = q /\ objects'[x].status = "error"
                                                    /\ x # servers'[objects'[x].name]
      BY DEF ProcessesAccounted, Registered, Frame
<1>2. Calm /\ servers[objects[o].name] = o /\ objects[o].name \in Names
      BY <1>1, Lengths DEF Frame
<1>3. procs[q] /\ objects'[o].protocol = objects[o].protocol /\ objects'[o].name = objects[o].name
      BY <1>1 DEF Frame
<1>4. CASE \E n \in Names : servers[n] # 0 /\ objects[servers[n]].protocol = q
  <2>1. PICK n \in Names : servers[n] # 0 /\ objects[servers[n]].protocol = q
        BY <1>4
  <2>2. servers[n] \in 1..Len(objects) /\ objects[servers[n]].name = n
        BY <2>1, Entry
  <2>3. CASE servers'[n] = servers[n]
        BY <2>1, <2>2, <2>3 DEF Frame
  <2>4. CASE servers'[n] # servers[n]
    <3>1. servers'[n] = 0 /\ n = objects[o].name /\ servers[n] = o
          BY <1>2, <2>4 DEF Frame
    <3>2. Running(objects[o].protocol)'
          BY <1>1, <1>3, <2>1, <3>1 DEF Running
    <3>3. objects'[o].status = "error" /\ o # servers'[objects'[o].name]
          BY <1>1, <1>3, <2>1, <3>1, <3>2
    <3> QED BY <1>3, <2>1, <3>1, <3>3
  <2> QED BY <2>3, <2>4
<1>5. CASE \E x \in 1..Len(objects) : /\ objects[x].protocol = q /\ objects[x].status = "error"
                                      /\ x # servers[objects[x].name]
  <2>1. PICK x \in 1..Len(objects) : /\ objects[x].protocol = q /\ objects[x].status = "error"
                                     /\ x # servers[objects[x].name]
        BY <1>5
  <2>2. x # o /\ objects[x].name \in Names
        BY <1>2, <2>1, Lengths
  <2>3. /\ objects'[x].protocol = q /\ objects'[x].status = "error"
        /\ objects'[x].name = objects[x].name
        BY <2>1, <2>2 DEF Frame
  <2>4. x # servers'[objects[x].name]
        BY <2>1, <2>2 DEF Frame
  <2> QED BY <2>3, <2>4
<1> QED BY <1>1, <1>2, <1>3, <1>4, <1>5 DEF ServersInv, ProcessesAccounted, Registered

\* A step within Frame keeps the tools right, if it does for the name of o.
LEMMA ToolsKept ==
    ASSUME ServersInv, NEW j \in Coroutines, NEW o \in 1..Len(objects), Frame(j, o),
           NEW n \in Names, n = objects[o].name, Types',
           Calm' =>
              /\ Divided'
              /\ \A m \in Names : m # n => (m \in tools' <=> m \in tools)
              /\ n \in tools' => servers'[n] = o /\ objects'[o].tools
              /\ servers'[n] = o /\ objects'[o].status = "running" /\ Busy(o)' = {} => n \in tools'
    PROVE  ToolsMatchServers' /\ Provided'
<1>1. SUFFICES ASSUME Calm' PROVE ToolsMatchServers' /\ Provided'
      BY DEF ToolsMatchServers, Provided
<1>2. Calm /\ servers[n] = o /\ n \in Names /\ tools' \subseteq Names
      BY <1>1, Lengths DEF Frame, Types
<1>3. ASSUME NEW m \in tools' PROVE servers'[m] # 0 /\ objects'[servers'[m]].tools /\ m \in Names
  <2>1. CASE m = n
        BY <1>1, <1>2, <2>1, Lengths
  <2>2. CASE m # n
    <3>1. m \in tools /\ m \in Names
          BY <1>1, <1>2, <1>3, <2>2
    <3>2. servers[m] # 0 /\ objects[servers[m]].tools /\ servers'[m] = servers[m]
          BY <1>2, <2>2, <3>1 DEF ServersInv, Provided, Frame
    <3>3. servers[m] \in 1..Len(objects) /\ servers[m] # o
          BY <2>2, <3>1, <3>2, Entry
    <3> QED BY <3>1, <3>2, <3>3 DEF Frame
  <2> QED BY <2>1, <2>2
<1>4. ASSUME NEW m \in Names, servers'[m] # 0, objects'[servers'[m]].status = "running",
             Busy(servers[m])' = {}
      PROVE  m \in tools'
  <2>1. servers'[m] = servers[m] /\ servers[m] \in 1..Len(objects) /\ objects[servers[m]].name = m
        BY <1>4, Entry DEF Frame
  <2>2. CASE m = n
    <3>1. servers'[m] = o /\ servers'[n] = o
          BY <1>2, <2>1, <2>2
    <3>2. Busy(servers[m])' = Busy(o)'
          BY <3>1 DEF Busy
    <3> QED BY <1>1, <1>4, <2>2, <3>1, <3>2
  <2>3. CASE m # n
    <3>1. servers[m] # o /\ objects[servers[m]].status = "running"
          BY <1>4, <2>1, <2>3 DEF Frame
    <3>2. ASSUME NEW k \in Coroutines, job[k].obj = servers[m], job[k].at \in {"closing", "spawning", "listing"}
          PROVE  FALSE
      <4>1. k # j
            BY <2>1, <3>1, <3>2, Lengths DEF Frame
      <4>2. k \in Busy(servers[m])'
            BY <2>1, <3>2, <4>1 DEF Busy, Frame
      <4> QED BY <1>4, <4>2
    <3>3. Busy(servers[m]) = {}
          BY <3>2 DEF Busy
    <3>4. m \in tools
          BY <1>2, <1>4, <2>1, <3>1, <3>3 DEF ServersInv, ToolsMatchServers, Registered
    <3> QED BY <1>1, <2>3, <3>4
  <2> QED BY <2>2, <2>3
<1>5. Provided'
      BY <1>3 DEF Provided
<1>6. tools' \subseteq Registered' /\ Divided'
      BY <1>1, <1>3 DEF Registered
<1>7. ASSUME NEW m \in Registered', objects'[servers'[m]].status = "running", Busy(servers[m])' = {}
      PROVE  m \in tools'
      BY <1>4, <1>7 DEF Registered
<1> QED BY <1>5, <1>6, <1>7 DEF ToolsMatchServers, Divided

\* What a boot has yet to get to are names.
LEMMA RestoresNames ==
    ASSUME ServersInv
    PROVE  ToRestore \subseteq Names
<1>1. Boot \in Coroutines /\ job[Boot].todo \subseteq Names
      BY DEF ServersInv, JobsInRange, Todo, Coroutines
<1>2. job[Boot].op = "register" => NameOf(Boot) \in Names
      BY <1>1, AtWork, HasObject
<1> QED BY <1>1, <1>2 DEF ToRestore

\* A step within Frame takes nothing from what a boot has yet to get to, unless it is
\* the boot's own and ends a registration.
LEMMA RestoreKept ==
    ASSUME ServersInv, NEW j \in Coroutines, NEW o \in 1..Len(objects), Frame(j, o),
           NEW n \in Names, n = objects[o].name, j = Boot => job'[j].todo = job[j].todo,
           NEW m \in ToRestore,
           ~(m = n /\ j = Boot /\ job[j].op = "register" /\ job'[j].op # "register"), JobsInOrder'
    PROVE  m \in ToRestore'
<1>1. Boot \in Coroutines
      BY DEF Coroutines
<1>2. job'[Boot].todo = job[Boot].todo
      BY <1>1 DEF Frame
<1>3. CASE m \in job[Boot].todo
      BY <1>2, <1>3 DEF ToRestore
<1>4. CASE job[Boot].op = "register" /\ m = NameOf(Boot)
  <2>1. ~Resting(Boot)
        BY <1>1, <1>4, AtWork
  <2>2. CASE j # Boot
    <3>1. job'[Boot] = job[Boot] /\ NameOf(Boot)' = NameOf(Boot)
          BY <1>1, <2>1, <2>2, SameName
    <3> QED BY <1>4, <3>1 DEF ToRestore
  <2>3. CASE j = Boot
    <3>1. job[j].obj = o
          BY <1>4, <2>3 DEF Frame, ServersInv, JobsInOrder, InOrder
    <3>2. m = n
          BY <1>4, <2>3, <3>1 DEF NameOf
    <3>3. job'[j].op = "register"
          BY <1>4, <2>3, <3>2
    <3>4. job'[j].obj = o
          BY <3>3 DEF Frame, JobsInOrder, InOrder
    <3>5. NameOf(j)' = n
          BY <3>4 DEF NameOf, Frame
    <3> QED BY <2>3, <3>2, <3>3, <3>5 DEF ToRestore
  <2> QED BY <2>2, <2>3
<1> QED BY <1>3, <1>4 DEF ToRestore

\* A step within Frame keeps what is wanted registered and saved, if it does for the name of o.
LEMMA WishesKept ==
    ASSUME ServersInv, NEW j \in Coroutines, NEW o \in 1..Len(objects), Frame(j, o),
           NEW n \in Names, n = objects[o].name, Types', JobsInOrder',
           j = Boot => job'[j].todo = job[j].todo,
           \A m \in Names : m # n => (m \in wanted' <=> m \in wanted) /\ (m \in dropped => m \in dropped'),
           (saved' = saved /\ torn' = torn) \/ saved' = Registered' \/ torn',
           Calm' /\ n \in wanted' =>
              /\ job'[j].op # "unregister"
              /\ job'[j].op = "register" => n \in (dropped \cup ToRestore)'
              /\ \/ n \in (dropped \cup ToRestore)'
                 \/ /\ servers'[n] = o
                    /\ saved' = Registered' \/ torn' \/ (n \in wanted /\ n \notin dropped \cup ToRestore)
    PROVE  Kept' /\ WantedIsSaved'
<1>1. wanted' \subseteq Names /\ wanted \subseteq Names /\ o # 0
      BY Lengths DEF Types, ServersInv
<1>2. NameOf(j)' = n \/ job'[j].op = "none"
      BY DEF Frame, NameOf, JobsInOrder, InOrder
<1>3. ASSUME Calm', NEW k \in Coroutines, k # j, job'[k].op \in {"register", "unregister"}
      PROVE  /\ job[k].op = job'[k].op /\ NameOf(k)' = NameOf(k) /\ NameOf(k) \in Names
             /\ NameOf(k) # n
  <2>1. job'[k] = job[k] /\ Working(k) /\ ~Resting(k)
        BY <1>3, AtWork DEF Frame
  <2>2. NameOf(k)' = NameOf(k) /\ NameOf(k) \in Names
        BY <1>3, <2>1, SameName
  <2>3. Calm /\ servers[n] = o /\ job[k].obj # o
        BY <1>3, <2>1 DEF Frame, Free
  <2>4. servers[NameOf(k)] = job[k].obj
        BY <2>1, <2>3 DEF ServersInv, Undisturbed, Alone
  <2> QED BY <2>1, <2>2, <2>3, <2>4
<1>4. ASSUME NEW m \in Names, m # n, m \in dropped \cup ToRestore
      PROVE  m \in (dropped \cup ToRestore)'
  <2>1. CASE m \in dropped
        BY <1>4, <2>1
  <2>2. CASE m \in ToRestore
    <3>1. m \in ToRestore'
          BY <1>4, <2>2, RestoreKept
    <3> QED BY <3>1
  <2> QED BY <1>4, <2>1, <2>2
<1>5. ASSUME Calm', NEW k \in Coroutines, NameOf(k)' \in wanted'
      PROVE  /\ job'[k].op # "unregister"
             /\ job'[k].op = "register" => NameOf(k)' \in (dropped \cup ToRestore)'
  <2>1. CASE k = j
        BY <1>2, <1>5, <2>1
  <2>2. CASE k # j
    <3>1. SUFFICES ASSUME job'[k].op \in {"register", "unregister"}
                   PROVE  /\ job'[k].op # "unregister" /\ NameOf(k)' \in (dropped \cup ToRestore)'
          OBVIOUS
    <3>2. /\ job[k].op = job'[k].op /\ NameOf(k)' = NameOf(k) /\ NameOf(k) \in Names
          /\ NameOf(k) # n
          BY <1>3, <1>5, <2>2, <3>1
    <3>3. NameOf(k) \in wanted /\ Calm
          BY <1>5, <3>2 DEF Frame
    <3>4. job'[k].op # "unregister" /\ NameOf(k) \in dropped \cup ToRestore
          BY <3>1, <3>2, <3>3 DEF ServersInv, Kept
    <3> QED BY <1>4, <3>2, <3>4
  <2> QED BY <2>1, <2>2
<1>6. ASSUME Calm', NEW m \in wanted'
      PROVE  m \in Registered' \/ m \in (dropped \cup ToRestore)'
  <2>1. CASE m = n
        BY <1>1, <1>6, <2>1 DEF Registered
  <2>2. CASE m # n
    <3>1. m \in wanted /\ m \in Names /\ Calm
          BY <1>1, <1>6, <2>2 DEF Frame
    <3>2. m \in Registered \/ m \in dropped \cup ToRestore
          BY <3>1 DEF ServersInv, Kept
    <3>3. m \in Registered => m \in Registered'
          BY <2>2, <3>1 DEF Frame, Registered
    <3> QED BY <1>4, <2>2, <3>1, <3>2, <3>3
  <2> QED BY <2>1, <2>2
<1>7. ASSUME Calm', ~torn', NEW m \in wanted'
      PROVE  m \in saved' \/ m \in (dropped \cup ToRestore)'
  <2>1. CASE saved' = Registered'
        BY <1>6, <1>7, <2>1
  <2>2. CASE saved' # Registered'
    <3>1. saved' = saved /\ ~torn /\ Calm
          BY <1>7, <2>2 DEF Frame
    <3>2. \A x \in wanted : x \in saved \/ x \in dropped \cup ToRestore
          BY <3>1 DEF ServersInv, WantedIsSaved
    <3>3. CASE m = n
      <4>1. n \in (dropped \cup ToRestore)' \/ (n \in wanted /\ n \notin dropped \cup ToRestore)
            BY <1>7, <2>2, <3>3
      <4> QED BY <3>1, <3>2, <3>3, <4>1
    <3>4. CASE m # n
      <4>1. m \in wanted /\ m \in Names
            BY <1>1, <1>7, <3>4
      <4> QED BY <1>4, <3>1, <3>2, <3>4, <4>1
    <3> QED BY <3>3, <3>4
  <2> QED BY <2>1, <2>2
<1>8. Kept'
      BY <1>5, <1>6 DEF Kept
<1>9. WantedIsSaved'
      BY <1>7 DEF WantedIsSaved
<1> QED BY <1>8, <1>9

\* The same, where nothing is registered and no boot drops anything.
LEMMA WishesStay ==
    ASSUME ServersInv, NEW j \in Coroutines, NEW o \in 1..Len(objects), Frame(j, o),
           NEW n \in Names, n = objects[o].name, Types', JobsInOrder',
           j = Boot => job'[j].todo = job[j].todo,
           job[j].op # "register", job'[j].op # "register", dropped' = dropped,
           \A m \in Names : m # n => (m \in wanted' <=> m \in wanted),
           (saved' = saved /\ torn' = torn) \/ saved' = Registered' \/ torn',
           Calm' /\ n \in wanted' => job'[j].op # "unregister" /\ servers'[n] = o /\ n \in wanted
    PROVE  Kept' /\ WantedIsSaved'
<1>1. n \in ToRestore => n \in ToRestore'
      BY RestoreKept
<1>2. n \in dropped \cup ToRestore => n \in (dropped \cup ToRestore)'
      BY <1>1
<1> QED BY <1>2, WishesKept

\* A step of one coroutine j, after which it is r.
LEMMA JobGrows ==
    ASSUME ServersInv, NEW j \in Coroutines, NEW r \in Jobs, job' = [job EXCEPT ![j] = r], InOrder(r),
           Len(objects') \in {Len(objects), Len(objects) + 1},
           Len(procs') \in {Len(procs), Len(procs) + 1},
           r.obj <= Len(objects'), r.proc <= Len(procs'), Todo(j, r.todo)
    PROVE  /\ job' \in [Coroutines -> Jobs] /\ JobsInOrder' /\ JobsInRange'
           /\ job'[j] = r
           /\ \A k \in Coroutines : k # j => job'[k] = job[k]
<1>1. /\ job' \in [Coroutines -> Jobs] /\ job'[j] = r
      /\ \A k \in Coroutines : k # j => job'[k] = job[k]
      BY JobTyped
<1>2. \A k \in Coroutines : InOrder(job'[k])
      BY <1>1 DEF ServersInv, JobsInOrder
<1>3. ASSUME NEW k \in Coroutines
      PROVE  job'[k].obj <= Len(objects') /\ job'[k].proc <= Len(procs')
  <2>1. CASE k = j
        BY <1>1, <2>1
  <2>2. CASE k # j
        BY <1>1, <2>2, JobTyped, Lengths
  <2> QED BY <2>1, <2>2
<1>4. \A k \in Coroutines : Todo(k, job'[k].todo)
      BY <1>1 DEF ServersInv, JobsInRange
<1>5. 1..Len(objects) \subseteq 1..Len(objects')
      BY Lengths
<1>6. \A k \in Coroutines : Todo(k, job[k].todo)'
      BY <1>4, <1>5 DEF Todo
<1> QED BY <1>1, <1>2, <1>3, <1>6 DEF JobsInOrder, JobsInRange, InOrder

\* The same, where no object and no process is added.
LEMMA OneJob ==
    ASSUME ServersInv, NEW j \in Coroutines, NEW r \in Jobs, job' = [job EXCEPT ![j] = r], InOrder(r),
           Len(objects') = Len(objects), Len(procs') = Len(procs),
           r.obj <= Len(objects), r.proc <= Len(procs), Todo(j, r.todo)
    PROVE  /\ job' \in [Coroutines -> Jobs] /\ JobsInOrder' /\ JobsInRange'
           /\ job'[j] = r
           /\ \A k \in Coroutines : k # j => job'[k] = job[k]
BY JobGrows

\* The ends of a coroutine's work.
LEMMA Ended ==
    ASSUME ServersInv, NEW j \in Coroutines
    PROVE  /\ EndOf(job[j]) \in Jobs /\ InOrder(EndOf(job[j]))
           /\ EndOf(job[j]).obj = 0 /\ EndOf(job[j]).proc = 0 /\ EndOf(job[j]).op = "none"
           /\ EndOf(job[j]).at \in {"idle", "between"} /\ EndOf(job[j]).todo = job[j].todo
           /\ Idle \in Jobs /\ InOrder(Idle) /\ Idle.obj = 0 /\ Idle.proc = 0 /\ Idle.op = "none"
           /\ Idle.at = "idle" /\ Todo(j, {}) /\ Idle.todo = {} /\ Todo(j, job[j].todo)
<1>1. Idle \in Jobs /\ Todo(j, {})
      BY DEF Idle, Jobs, Ops, Places, Todo
<1>2. job[j].todo \subseteq Names \cup Nat
      BY JobTyped DEF Jobs
<1>3. EndOf(job[j]) = IF job[j].todo = {} THEN Idle ELSE [Idle EXCEPT !.at = "between", !.todo = job[j].todo]
      BY DEF EndOf
<1>4. Todo(j, job[j].todo)
      BY DEF ServersInv, JobsInRange
<1>5. /\ InOrder(Idle) /\ Idle.obj = 0 /\ Idle.proc = 0 /\ Idle.op = "none"
      /\ Idle.at = "idle" /\ Idle.todo = {}
      BY DEF Idle, InOrder
<1>6. ASSUME NEW s, s \subseteq Names \cup Nat
      PROVE  LET r == [Idle EXCEPT !.at = "between", !.todo = s]
             IN /\ r \in Jobs /\ InOrder(r)
                /\ r.obj = 0 /\ r.proc = 0 /\ r.op = "none" /\ r.at = "between" /\ r.todo = s
      BY <1>6 DEF Idle, Jobs, Places, Ops, InOrder
<1>7. /\ EndOf(job[j]) \in Jobs /\ InOrder(EndOf(job[j]))
      /\ EndOf(job[j]).obj = 0 /\ EndOf(job[j]).proc = 0 /\ EndOf(job[j]).op = "none"
      /\ EndOf(job[j]).at \in {"idle", "between"} /\ EndOf(job[j]).todo = job[j].todo
  <2>1. CASE job[j].todo = {}
        BY <1>1, <1>3, <1>5, <2>1
  <2>2. CASE job[j].todo # {}
    <3> DEFINE r == [Idle EXCEPT !.at = "between", !.todo = job[j].todo]
    <3>1. /\ r \in Jobs /\ InOrder(r)
          /\ r.obj = 0 /\ r.proc = 0 /\ r.op = "none" /\ r.at = "between" /\ r.todo = job[j].todo
          BY <1>2, <1>6
    <3>2. EndOf(job[j]) = r
          BY <1>3, <2>2
    <3> QED BY <3>1, <3>2
  <2> QED BY <2>1, <2>2
<1> QED BY <1>1, <1>4, <1>5, <1>7

\* A step that changes no server but from running to failed, and no work.
Untouched ==
    /\ Len(objects') = Len(objects)
    /\ \A x \in 1..Len(objects) :
          /\ objects'[x].name = objects[x].name /\ objects'[x].protocol = objects[x].protocol
          /\ objects'[x].tools = objects[x].tools
          /\ objects'[x].status \in {objects[x].status, "error"}
    /\ \A k \in Coroutines : job'[k] = job[k] \/ (~Working(k) /\ ~Working(k)')
    /\ \A q \in 1..Len(procs) : procs'[q] => procs[q]
    /\ Len(procs') = Len(procs)
    /\ UNCHANGED <<servers, dict, adapters, tools, taken, saved, torn, boots, cancels, overlap>>
    /\ UNCHANGED <<wanted, dropped>> /\ job'[Boot].todo = job[Boot].todo

\* Such a step keeps everything that is not about types.
LEMMA UntouchedKeeps ==
    ASSUME ServersInv, Untouched, Types', JobsInRange', JobsInOrder'
    PROVE  ServersInv'
<1>1. ObjectsInRange' /\ servers' = servers /\ dict' = dict /\ (Calm' <=> Calm)
      BY DEF Untouched, ServersInv, ObjectsInRange, Calm
<1>2. ASSUME NEW k \in Coroutines, Working(k)' \/ job'[k].op \in {"register", "unregister"} \/ Working(k)
      PROVE  /\ Working(k) /\ job'[k] = job[k] /\ job[k].obj \in 1..Len(objects)
             /\ NameOf(k)' = NameOf(k) /\ NameOf(k) \in Names
  <2>1. Working(k) /\ job'[k] = job[k]
        BY <1>2 DEF Untouched, JobsInOrder, InOrder, Working
  <2> QED BY <2>1, AtWork, HasObject DEF Untouched, NameOf
<1>3. Entered'
  <2>1. \A n \in Names : servers[n] # 0 => objects'[servers[n]].name = n
        BY Entry DEF Untouched
  <2> QED BY <1>1, <1>2, <2>1 DEF ServersInv, Entered
<1>4. Pending'
  <2>1. SUFFICES ASSUME cancels = 0, NEW n \in Names, servers[n] # 0,
                        objects'[servers[n]].status \in {"starting", "restarting", "stopping"}
                 PROVE  \E k \in Coroutines : job'[k].obj = servers[n] /\ job'[k].at \in {"closing", "spawning"}
        BY <1>1 DEF Pending, Untouched
  <2>2. objects[servers[n]].status = objects'[servers[n]].status
        BY <2>1, Entry DEF Untouched
  <2>3. PICK k \in Coroutines : job[k].obj = servers[n] /\ job[k].at \in {"closing", "spawning"}
        BY <2>1, <2>2 DEF ServersInv, Pending
  <2> QED BY <1>2, <2>3 DEF Working
<1>5. Undisturbed'
  <2>1. SUFFICES ASSUME Calm, NEW k \in Coroutines, Working(k)' PROVE Alone(k)'
        BY <1>1 DEF Undisturbed
  <2> DEFINE x == job[k].obj
  <2>2. /\ Alone(k) /\ job'[k] = job[k] /\ x \in 1..Len(objects)
        /\ NameOf(k)' = NameOf(k)
        BY <1>2, <2>1 DEF ServersInv, Undisturbed
  <2>3. objects'[x].protocol = objects[x].protocol /\ objects'[x].tools = objects[x].tools
        BY <2>2 DEF Untouched
  <2>4. Running(objects[x].protocol)' => Running(objects[x].protocol)
    <3>1. objects[x].protocol = 0 \/ objects[x].protocol \in 1..Len(procs)
          BY <2>2, Lengths
    <3>2. \A q \in 1..Len(procs) : procs'[q] => procs[q]
          BY DEF Untouched
    <3>3. Running(objects[x].protocol)' <=> (objects[x].protocol # 0 /\ procs'[objects[x].protocol])
          BY <2>2, <2>3 DEF Running
    <3> QED BY <3>1, <3>2, <3>3 DEF Running
  <2> QED BY <1>1, <1>2, <2>2, <2>3, <2>4 DEF Alone
<1>6. ProcessesAccounted'
  <2>1. SUFFICES ASSUME Calm, NEW q \in 1..Len(procs), procs'[q]
                 PROVE  \/ \E n \in Names : servers[n] # 0 /\ objects'[servers[n]].protocol = q
                        \/ \E x \in 1..Len(objects) : /\ objects'[x].protocol = q /\ objects'[x].status = "error"
                                                      /\ x # servers[objects'[x].name]
        BY <1>1 DEF ProcessesAccounted, Registered, Untouched
  <2>2. procs[q]
        BY <2>1 DEF Untouched
  <2>3. \A n \in Names : servers[n] # 0 => objects'[servers[n]].protocol = objects[servers[n]].protocol
        BY Entry DEF Untouched
  <2>4. \A x \in 1..Len(objects) : /\ objects'[x].protocol = objects[x].protocol
                                   /\ objects'[x].name = objects[x].name
                                   /\ objects[x].status = "error" => objects'[x].status = "error"
        BY DEF Untouched
  <2> QED BY <2>1, <2>2, <2>3, <2>4 DEF ServersInv, ProcessesAccounted, Registered
<1>7. ToolsMatchServers' /\ Provided'
  <2>1. SUFFICES ASSUME Calm PROVE ToolsMatchServers' /\ Provided'
        BY <1>1 DEF ToolsMatchServers, Provided
  <2>2. tools \subseteq Names /\ tools' = tools /\ adapters' = adapters /\ taken' = taken
        BY DEF ServersInv, Types, Untouched
  <2>3. Provided'
        BY <1>1, <2>1, <2>2, Entry DEF ServersInv, Provided, Untouched
  <2>4. ASSUME NEW n \in Names, servers[n] # 0, objects'[servers[n]].status = "running"
        PROVE  objects[servers[n]].status = "running" /\ Busy(servers[n])' = Busy(servers[n])
    <3>1. objects[servers[n]].status = "running"
          BY <2>4, Entry DEF Untouched
    <3>2. \A k \in Coroutines :
             (job'[k].obj = servers[n] /\ Working(k)') <=> (job[k].obj = servers[n] /\ Working(k))
          BY <1>2 DEF Working
    <3> QED BY <1>1, <3>1, <3>2 DEF Busy, Working
  <2> QED BY <1>1, <2>1, <2>2, <2>3, <2>4 DEF ServersInv, ToolsMatchServers, Registered
<1>8. Kept' /\ WantedIsSaved'
  <2>1. wanted' = wanted /\ saved' = saved /\ torn' = torn /\ dropped' = dropped
        BY DEF Untouched
  <2>2. ToRestore' = ToRestore
    <3>1. Boot \in Coroutines
          BY DEF Coroutines
    <3>2. job'[Boot].todo = job[Boot].todo
          BY DEF Untouched
    <3>3. /\ job'[Boot].op = "register" <=> job[Boot].op = "register"
          /\ job[Boot].op = "register" => NameOf(Boot)' = NameOf(Boot)
          BY <1>2, <3>1, AtWork
    <3> QED BY <3>2, <3>3 DEF ToRestore
  <2>3. Kept'
        BY <1>1, <1>2, <2>1, <2>2 DEF ServersInv, Kept, Registered
  <2>4. WantedIsSaved'
        BY <1>1, <2>1, <2>2 DEF ServersInv, WantedIsSaved
  <2> QED BY <2>3, <2>4
<1> QED BY <1>1, <1>3, <1>4, <1>5, <1>6, <1>7, <1>8 DEF ServersInv

-----------------------------------------------------------------------------
(* The actions.                                                            *)

\* A process dies.
LEMMA CrashStep ==
    ASSUME ServersInv, NEW p \in 1..Len(procs), Crash(p)
    PROVE  ServersInv'
<1>1. procs' = [procs EXCEPT ![p] = FALSE] /\ UNCHANGED <<objects, servers, dict, adapters, tools, taken>>
      /\ UNCHANGED <<saved, torn, job, healthOn, boots, cancels, wanted, dropped, overlap>>
      BY DEF Crash, registry, toolsets, file, bounds, wishes
<1>2. /\ procs' \in Seq(BOOLEAN) /\ Len(procs') = Len(procs)
      /\ \A q \in 1..Len(procs) : procs'[q] => procs[q]
      BY <1>1, Lengths, Changed
<1>3. Untouched
      BY <1>1, <1>2 DEF Untouched
<1>4. Types'
      BY <1>1, <1>2 DEF ServersInv, Types
<1>5. JobsInRange' /\ JobsInOrder'
      BY <1>1, <1>2 DEF ServersInv, JobsInRange, JobsInOrder, InOrder, Todo
<1> QED BY <1>3, <1>4, <1>5, UntouchedKeeps

\* A step of a coroutine that begins or ends a call.
LEMMA JobOnly ==
    ASSUME ServersInv, NEW j \in Coroutines, NEW r \in Jobs, job' = [job EXCEPT ![j] = r], InOrder(r),
           r.obj <= Len(objects), r.proc <= Len(procs), Todo(j, r.todo),
           ~Working(j), r.at \notin {"closing", "spawning", "listing"}, j = Boot => r.todo = job[j].todo,
           UNCHANGED <<objects, servers, dict, procs, adapters, tools, taken, saved, torn, healthOn, boots>>,
           UNCHANGED <<cancels, wanted, dropped, overlap>>
    PROVE  ServersInv'
<1>1. /\ job' \in [Coroutines -> Jobs] /\ JobsInOrder' /\ JobsInRange'
      /\ job'[j] = r /\ \A k \in Coroutines : k # j => job'[k] = job[k]
      BY OneJob
<1>2. Types'
      BY <1>1 DEF ServersInv, Types
<1>3. \A k \in Coroutines : job'[k] = job[k] \/ (~Working(k) /\ ~Working(k)')
      BY <1>1 DEF Working
<1>4. job'[Boot].todo = job[Boot].todo
      BY <1>1 DEF Coroutines
<1>5. Untouched
      BY <1>3, <1>4 DEF Untouched
<1> QED BY <1>1, <1>2, <1>5, UntouchedKeeps

\* A call ends, with a result or with an error that is not retried.
LEMMA CallOver ==
    ASSUME ServersInv, NEW j \in Coroutines, job[j].at = "calling", Ends(j),
           UNCHANGED <<objects, servers, dict, procs, adapters, tools, taken, saved, torn, healthOn, boots>>,
           UNCHANGED <<cancels, wanted, dropped, overlap>>
    PROVE  ServersInv'
<1>1. job' = [job EXCEPT ![j] = EndOf(job[j])] /\ ~Working(j)
      BY DEF Ends, Working
<1>2. /\ EndOf(job[j]) \in Jobs /\ InOrder(EndOf(job[j]))
      /\ EndOf(job[j]).obj = 0 /\ EndOf(job[j]).proc = 0
      /\ EndOf(job[j]).at \in {"idle", "between"} /\ Todo(j, EndOf(job[j]).todo)
      /\ EndOf(job[j]).todo = job[j].todo
      BY Ended
<1>3. EndOf(job[j]).obj <= Len(objects) /\ EndOf(job[j]).proc <= Len(procs)
      BY <1>2, Lengths
<1> HIDE DEF EndOf
<1> QED BY <1>1, <1>2, <1>3, JobOnly

\* A call that ends leaves everything but its coroutine.
LEMMA CallEndsStep ==
    ASSUME ServersInv, NEW j \in Coroutines, CallEnds(j)
    PROVE  ServersInv'
BY CallOver DEF CallEnds, registry, toolsets, file, bounds, wishes

\* The health loop ends its pass: what it has found dead is in ERROR.
LEMMA PassEnds ==
    ASSUME ServersInv, NEW down, \A o \in down : o \in 1..Len(objects),
           job[Health].at \in {"idle", "between"},
           objects' = [o \in 1..Len(objects) |->
                          IF o \in down THEN [objects[o] EXCEPT !.status = "error"] ELSE objects[o]],
           job' = [job EXCEPT ![Health] = Idle],
           UNCHANGED <<servers, dict, procs, adapters, tools, taken, saved, torn, healthOn, boots>>,
           UNCHANGED <<cancels, wanted, dropped, overlap>>
    PROVE  ServersInv'
<1>1. \A o \in 1..Len(objects) : objects[o] \in Objects
      BY Lengths
<1>2. \A r \in Objects : LET x == [r EXCEPT !.status = "error"]
                         IN /\ x \in Objects /\ x.name = r.name /\ x.protocol = r.protocol
                            /\ x.tools = r.tools /\ x.status = "error"
      BY DEF Objects, Statuses
<1>3. /\ objects' \in Seq(Objects) /\ Len(objects') = Len(objects)
      /\ \A x \in 1..Len(objects) :
            /\ objects'[x].name = objects[x].name /\ objects'[x].protocol = objects[x].protocol
            /\ objects'[x].tools = objects[x].tools
            /\ objects'[x].status \in {objects[x].status, "error"}
  <2>1. objects' \in [1..Len(objects) -> Objects]
        BY <1>1, <1>2
  <2>2. objects' \in Seq(Objects) /\ Len(objects') = Len(objects)
        BY <2>1, Lengths
  <2> QED BY <1>1, <1>2, <2>2
<1>4. Health \in Coroutines /\ ~Working(Health)
      BY DEF Coroutines, Working
<1>5. /\ Idle \in Jobs /\ InOrder(Idle) /\ Idle.obj <= Len(objects) /\ Idle.proc <= Len(procs)
      /\ Todo(Health, Idle.todo) /\ Idle.at = "idle"
  <2>1. /\ Idle \in Jobs /\ InOrder(Idle) /\ Idle.obj = 0 /\ Idle.proc = 0
        /\ Todo(Health, Idle.todo) /\ Idle.at = "idle"
        BY <1>4, Ended
  <2> QED BY <2>1, Lengths
<1>6. /\ job' \in [Coroutines -> Jobs] /\ JobsInOrder' /\ JobsInRange'
      /\ job'[Health] = Idle /\ \A k \in Coroutines : k # Health => job'[k] = job[k]
      BY <1>3, <1>4, <1>5, OneJob
<1>7. Types'
      BY <1>3, <1>6 DEF ServersInv, Types
<1>8. \A k \in Coroutines : job'[k] = job[k] \/ (~Working(k) /\ ~Working(k)')
      BY <1>4, <1>5, <1>6 DEF Working
<1>9. job'[Boot].todo = job[Boot].todo
      BY <1>6, ServersAssumption DEF Coroutines
<1>10. Untouched
       BY <1>3, <1>8, <1>9 DEF Untouched
<1> QED BY <1>6, <1>7, <1>10, UntouchedKeeps

-----------------------------------------------------------------------------
(* Parts of the handlers.                                                  *)

\* One object changes.
LEMMA OneObject ==
    ASSUME ServersInv, NEW o \in 1..Len(objects), NEW x \in Objects, objects' = [objects EXCEPT ![o] = x]
    PROVE  /\ objects' \in Seq(Objects) /\ Len(objects') = Len(objects) /\ objects'[o] = x
           /\ \A y \in 1..Len(objects) : y # o => objects'[y] = objects[y]
BY Lengths, Changed

\* Its status does.
LEMMA StatusSet ==
    ASSUME ServersInv, NEW o \in 1..Len(objects), NEW s \in Statuses, SetStatus(o, s)
    PROVE  /\ objects' \in Seq(Objects) /\ Len(objects') = Len(objects)
           /\ objects'[o].status = s /\ objects'[o].name = objects[o].name
           /\ objects'[o].protocol = objects[o].protocol /\ objects'[o].tools = objects[o].tools
           /\ \A y \in 1..Len(objects) : y # o => objects'[y] = objects[y]
<1>1. \A r \in Objects : LET x == [r EXCEPT !.status = s]
                         IN /\ x \in Objects /\ x.name = r.name /\ x.protocol = r.protocol
                            /\ x.tools = r.tools /\ x.status = s
      BY DEF Objects
<1>2. objects' = [objects EXCEPT ![o] = [objects[o] EXCEPT !.status = s]] /\ objects[o] \in Objects
      BY Lengths DEF SetStatus
<1>3. [objects[o] EXCEPT !.status = s] \in Objects
      BY <1>1, <1>2
<1> QED BY <1>1, <1>2, <1>3, OneObject

\* Its restart is counted.
LEMMA RestartCounted ==
    ASSUME ServersInv, NEW o \in 1..Len(objects), NEW c \in 0..MaxRestarts,
           objects' = [objects EXCEPT ![o] = [objects[o] EXCEPT !.status = "restarting", !.restarts = c]]
    PROVE  /\ objects' \in Seq(Objects) /\ Len(objects') = Len(objects)
           /\ objects'[o].status = "restarting" /\ objects'[o].name = objects[o].name
           /\ objects'[o].protocol = objects[o].protocol /\ objects'[o].tools = objects[o].tools
           /\ \A y \in 1..Len(objects) : y # o => objects'[y] = objects[y]
<1>1. \A r \in Objects : LET x == [r EXCEPT !.status = "restarting", !.restarts = c]
                         IN /\ x \in Objects /\ x.name = r.name /\ x.protocol = r.protocol
                            /\ x.tools = r.tools /\ x.status = "restarting"
      BY DEF Objects, Statuses
<1>2. objects[o] \in Objects
      BY Lengths
<1> DEFINE x == [objects[o] EXCEPT !.status = "restarting", !.restarts = c]
<1>3. /\ x \in Objects /\ x.name = objects[o].name /\ x.protocol = objects[o].protocol
      /\ x.tools = objects[o].tools /\ x.status = "restarting"
      BY <1>1, <1>2
<1>4. objects' = [objects EXCEPT ![o] = x]
      OBVIOUS
<1> HIDE DEF x
<1> QED BY <1>3, <1>4, OneObject

\* A server's tools are removed: all of them, if it is the one of its name.
LEMMA ToolsGone ==
    ASSUME ServersInv, NEW o \in 1..Len(objects), RemoveTools(o), NEW n, n = objects[o].name
    PROVE  /\ adapters' \subseteq Names /\ tools' \subseteq Names /\ taken' \subseteq Names
           /\ Calm /\ servers[n] = o =>
                 Divided' /\ tools' = tools \ {n}
<1>1. tools \subseteq Names /\ adapters \subseteq Names /\ taken \subseteq Names
      BY DEF ServersInv, Types
<1>2. /\ adapters' = adapters \ Covers[n] /\ taken' = (taken \cup (adapters \cap Covers[n])) \ {n}
      /\ tools' = IF objects[o].tools THEN tools \ {n} ELSE tools
      BY DEF RemoveTools, RemoveAdapters
<1>3. ASSUME Calm, servers[n] = o, ~objects[o].tools PROVE n \notin tools
      BY <1>3 DEF ServersInv, Provided
<1>4. Calm => tools = adapters \cup taken /\ adapters \cap taken = {}
      BY DEF ServersInv, ToolsMatchServers
<1>5. n \in Covers[n]
      BY Lengths, ServersAssumption
<1>6. Calm /\ servers[n] = o => tools' = tools \ {n}
      BY <1>2, <1>3
<1>7. Calm /\ servers[n] = o => Divided'
      BY <1>2, <1>4, <1>5, <1>6 DEF Divided
<1> QED BY <1>1, <1>2, <1>6, <1>7

\* What a save leaves in the file.
LEMMA SaveLeaves ==
    ASSUME Save
    PROVE  /\ saved' \subseteq Names \cup saved /\ torn' \in BOOLEAN
           /\ saved' = Registered' \/ torn'
BY DEF Save, Registered

\* A call goes on, or the work is over.
LEMMA Continued ==
    ASSUME ServersInv, NEW j \in Coroutines, ~Resting(j), NEW s, Continue(j, s),
           Len(objects') = Len(objects), Len(procs') = Len(procs)
    PROVE  /\ job' \in [Coroutines -> Jobs] /\ JobsInOrder' /\ JobsInRange'
           /\ \A k \in Coroutines : k # j => job'[k] = job[k]
           /\ ~Working(j)' /\ job'[j].obj \in {0, job[j].obj} /\ job'[j].todo = job[j].todo
           /\ job'[j].op \notin {"register", "unregister"}
<1>1. PICK o \in 1..Len(objects) : o = job[j].obj
      BY HasObject
<1>2. PICK p \in Nat : p = objects[o].protocol /\ p <= Len(procs)
      BY Lengths
<1>3. CASE job[j].op = "retry" \/ (job[j].op = "recover" /\ s = "running")
  <2> DEFINE r == [job[j] EXCEPT !.at = "calling", !.proc = p]
  <2>1. job' = [job EXCEPT ![j] = r]
        BY <1>1, <1>2, <1>3 DEF Continue
  <2>2. /\ r \in Jobs /\ r.obj = o /\ r.op = job[j].op /\ r.at = "calling" /\ r.proc = p
        /\ r.todo = job[j].todo
        BY <1>1, JobTyped DEF Jobs, Places
  <2>3. InOrder(r) /\ Todo(j, r.todo)
        BY <1>1, <1>3, <2>2, Ended DEF InOrder
  <2> HIDE DEF r
  <2>4. /\ job' \in [Coroutines -> Jobs] /\ JobsInOrder' /\ JobsInRange'
        /\ job'[j] = r /\ \A k \in Coroutines : k # j => job'[k] = job[k]
    <3>1. r.obj <= Len(objects) /\ r.proc <= Len(procs)
          BY <1>1, <1>2, <2>2, Lengths
    <3> QED BY <2>1, <2>2, <2>3, <3>1, OneJob
  <2> QED BY <1>1, <1>3, <2>2, <2>4 DEF Working
<1>4. CASE ~(job[j].op = "retry" \/ (job[j].op = "recover" /\ s = "running"))
  <2>1. job' = [job EXCEPT ![j] = EndOf(job[j])]
        BY <1>4 DEF Continue
  <2>2. /\ EndOf(job[j]) \in Jobs /\ InOrder(EndOf(job[j]))
        /\ EndOf(job[j]).obj = 0 /\ EndOf(job[j]).proc = 0 /\ EndOf(job[j]).op = "none"
        /\ EndOf(job[j]).at \in {"idle", "between"} /\ Todo(j, EndOf(job[j]).todo)
        /\ EndOf(job[j]).todo = job[j].todo
        BY Ended
  <2>3. /\ job' \in [Coroutines -> Jobs] /\ JobsInOrder' /\ JobsInRange'
        /\ job'[j] = EndOf(job[j]) /\ \A k \in Coroutines : k # j => job'[k] = job[k]
    <3>1. EndOf(job[j]).obj <= Len(objects) /\ EndOf(job[j]).proc <= Len(procs)
          BY <2>2, Lengths
    <3> QED BY <2>1, <2>2, <3>1, OneJob
  <2> QED BY <2>2, <2>3 DEF Working
<1> QED BY <1>3, <1>4

\* What is in range stays so.
LEMMA StaysInRange ==
    ASSUME ServersInv, NEW j \in Coroutines, NEW o \in 1..Len(objects), Frame(j, o)
    PROVE  ObjectsInRange'
<1>1. \A n \in Names : servers'[n] <= Len(objects)
      BY Lengths DEF Frame, ServersInv, ObjectsInRange
<1> QED BY <1>1 DEF Frame, ServersInv, ObjectsInRange

\* Who works on a server while nothing has overlapped has it for himself.
LEMMA HasItAlone ==
    ASSUME ServersInv, NEW j \in Coroutines, Working(j), Calm
    PROVE  /\ Free(j, job[j].obj) /\ servers[NameOf(j)] = job[j].obj
           /\ job[j].at = "spawning" => ~Running(objects[job[j].obj].protocol)
           /\ job[j].at # "spawning" => job[j].proc = objects[job[j].obj].protocol
           /\ job[j].op = "register" => ~objects[job[j].obj].tools
BY DEF ServersInv, Undisturbed, Alone, Free

-----------------------------------------------------------------------------
(* A server is started.                                                    *)

\* tools/list has answered.
LEMMA ListedStep ==
    ASSUME ServersInv, NEW j \in Coroutines, Listed(j)
    PROVE  ServersInv'
<1>1. PICK o \in 1..Len(objects), n \in Names :
          o = job[j].obj /\ n = NameOf(j) /\ n = objects[o].name /\ objects[o] \in Objects
  <2>1. ~Resting(j)
        BY DEF Listed, Resting
  <2> QED BY <2>1, HasObject
<1>2. /\ job[j].at = "listing" /\ ~Resting(j) /\ Working(j)
      /\ UNCHANGED <<servers, dict, procs, boots, cancels, overlap>>
      /\ AddTools(n) /\ Continue(j, objects[o].status)
      BY <1>1 DEF Listed, Resting, Working, bounds
<1>3. /\ objects' \in Seq(Objects) /\ Len(objects') = Len(objects) /\ objects'[o].tools
      /\ objects'[o].name = n /\ objects'[o].protocol = objects[o].protocol
      /\ \A y \in 1..Len(objects) : y # o => objects'[y] = objects[y]
  <2>1. \A r \in Objects : LET x == [r EXCEPT !.tools = TRUE]
                           IN /\ x \in Objects /\ x.name = r.name /\ x.protocol = r.protocol /\ x.tools
                              /\ x.status = r.status
        BY DEF Objects
  <2>2. objects' = [objects EXCEPT ![o] = [objects[o] EXCEPT !.tools = TRUE]]
        BY <1>1 DEF Listed
  <2> DEFINE x == [objects[o] EXCEPT !.tools = TRUE]
  <2>3. /\ x \in Objects /\ x.name = n /\ x.protocol = objects[o].protocol /\ x.tools
        BY <1>1, <2>1
  <2> HIDE DEF x
  <2> QED BY <2>2, <2>3, OneObject DEF x
<1>4. /\ job' \in [Coroutines -> Jobs] /\ JobsInOrder' /\ JobsInRange'
      /\ \A k \in Coroutines : k # j => job'[k] = job[k]
      /\ ~Working(j)' /\ job'[j].obj \in {0, o} /\ job'[j].todo = job[j].todo
      /\ job'[j].op \notin {"register", "unregister"}
      BY <1>1, <1>2, <1>3, Continued
<1>5. Calm' => Calm /\ Free(j, o) /\ servers[n] = o
      BY <1>1, <1>2, HasItAlone DEF Calm
<1>6. Frame(j, o)
      BY <1>1, <1>2, <1>3, <1>4, <1>5 DEF Frame
<1>7. /\ IF job[j].op = "register"
         THEN /\ Save /\ healthOn' = TRUE
              /\ wanted' = IF j \in Requests /\ servers[n] = o THEN wanted \cup {n} ELSE wanted
              /\ dropped' = dropped \ {n}
         ELSE UNCHANGED <<saved, torn, healthOn, wanted, dropped>>
      BY <1>1 DEF Listed, file, wishes
<1>8. Types'
  <2>1. adapters' \subseteq Names /\ tools' \subseteq Names /\ taken' \subseteq Names
        BY <1>2 DEF AddTools, ServersInv, Types
  <2>2. saved' \subseteq Names /\ torn' \in BOOLEAN
        BY <1>7, SaveLeaves DEF ServersInv, Types
  <2>3. wanted' \subseteq Names /\ dropped' \subseteq Names /\ healthOn' \in BOOLEAN
        BY <1>7 DEF ServersInv, Types
  <2> QED BY <1>2, <1>3, <1>4, <2>1, <2>2, <2>3 DEF ServersInv, Types
<1>9. ObjectsInRange'
      BY <1>6, StaysInRange
<1>10. Entered'
       BY <1>4, <1>6, <1>8, EnteredKept
<1>11. Pending'
  <2>1. objects'[o].status = objects[o].status
    <3>1. objects' = [objects EXCEPT ![o].tools = TRUE]
          BY <1>1 DEF Listed
    <3> QED BY <1>1, <3>1, Lengths DEF Objects
  <2> QED BY <1>2, <1>6, <2>1, PendingKept
<1>12. Undisturbed'
       BY <1>4, <1>6, UndisturbedKept
<1>13. ProcessesAccounted'
       BY <1>1, <1>2, <1>5, <1>6, AccountedKept
<1>14. ToolsMatchServers' /\ Provided'
  <2>1. ASSUME Calm'
        PROVE  /\ Divided'
               /\ \A m \in Names : m # n => (m \in tools' <=> m \in tools)
               /\ n \in tools' /\ servers'[n] = o /\ objects'[o].tools
    <3>1. Divided
          BY <1>5, <2>1 DEF ServersInv, ToolsMatchServers, Divided
    <3>2. /\ Divided' /\ n \in tools'
          /\ \A m \in Names : m # n => (m \in tools' <=> m \in tools)
          BY <1>2, <3>1 DEF AddTools, Divided
    <3> QED BY <1>2, <1>3, <1>5, <2>1, <3>2
  <2> QED BY <1>1, <1>6, <1>8, <2>1, ToolsKept
<1>15. Kept' /\ WantedIsSaved'
  <2>1. CASE job[j].op = "register"
    <3>1. \A m \in Names : m # n => (m \in wanted' <=> m \in wanted) /\ (m \in dropped => m \in dropped')
          BY <1>7, <2>1
    <3>2. saved' = Registered' \/ torn'
          BY <1>7, <2>1, SaveLeaves
    <3>3. Calm' => servers'[n] = o
          BY <1>2, <1>5
    <3> QED BY <1>1, <1>4, <1>6, <1>8, <3>1, <3>2, <3>3, WishesKept
  <2>2. CASE job[j].op # "register"
    <3>1. UNCHANGED <<saved, torn, wanted, dropped>>
          BY <1>7, <2>2
    <3>2. Calm' => servers'[n] = o
          BY <1>2, <1>5
    <3> QED BY <1>1, <1>4, <1>6, <1>8, <2>2, <3>1, <3>2, WishesStay
  <2> QED BY <2>1, <2>2
<1> QED BY <1>4, <1>8, <1>9, <1>10, <1>11, <1>12, <1>13, <1>14, <1>15 DEF ServersInv

\* A server could not be started.
LEMMA StartFailsStep ==
    ASSUME ServersInv, NEW j \in Coroutines, StartFails(j)
    PROVE  ServersInv'
<1>1. PICK o \in 1..Len(objects), n \in Names :
          o = job[j].obj /\ n = NameOf(j) /\ n = objects[o].name /\ objects[o] \in Objects
  <2>1. ~Resting(j)
        BY DEF StartFails, Resting
  <2> QED BY <2>1, HasObject
<1>2. /\ job[j].at \in {"spawning", "listing"} /\ ~Resting(j) /\ Working(j)
      /\ UNCHANGED <<dict, procs, adapters, tools, taken, saved, torn, healthOn, boots, cancels, wanted, overlap>>
      /\ dropped' = IF j = Boot THEN dropped \cup {n} ELSE dropped
      /\ SetStatus(o, "error") /\ Continue(j, "error")
      /\ servers' = IF job[j].op = "register" /\ job[j].dict = dict
                    THEN [servers EXCEPT ![n] = 0] ELSE servers
      BY <1>1 DEF StartFails, StartFailure, Resting, Working, toolsets, file, bounds
<1>3. /\ objects' \in Seq(Objects) /\ Len(objects') = Len(objects) /\ objects'[o].tools = objects[o].tools
      /\ objects'[o].name = n /\ objects'[o].protocol = objects[o].protocol
      /\ objects'[o].status = "error"
      /\ \A y \in 1..Len(objects) : y # o => objects'[y] = objects[y]
      BY <1>1, <1>2, StatusSet DEF Statuses
<1>4. /\ job' \in [Coroutines -> Jobs] /\ JobsInOrder' /\ JobsInRange'
      /\ \A k \in Coroutines : k # j => job'[k] = job[k]
      /\ ~Working(j)' /\ job'[j].obj \in {0, o} /\ job'[j].todo = job[j].todo
      /\ job'[j].op \notin {"register", "unregister"}
      BY <1>1, <1>2, <1>3, Continued
<1>5. Calm' => Calm /\ Free(j, o) /\ servers[n] = o
      BY <1>1, <1>2, HasItAlone DEF Calm
<1>6. /\ servers' \in [Names -> Nat]
      /\ \A m \in Names : servers'[m] = servers[m] \/ (servers'[m] = 0 /\ m = n)
      /\ Calm' => servers'[n] = IF job[j].op = "register" THEN 0 ELSE o
  <2>1. servers \in [Names -> Nat]
        BY DEF ServersInv, Types
  <2>2. Calm' /\ job[j].op = "register" => job[j].dict = dict
        BY <1>1, <1>5 DEF ServersInv, Entered
  <2> QED BY <1>1, <1>2, <1>5, <2>1, <2>2
<1>7. Frame(j, o)
      BY <1>1, <1>2, <1>3, <1>4, <1>5, <1>6 DEF Frame
<1>8. Types'
      BY <1>2, <1>3, <1>4, <1>6 DEF ServersInv, Types
<1>9. ObjectsInRange'
      BY <1>7, StaysInRange
<1>10. Entered'
       BY <1>4, <1>7, <1>8, EnteredKept
<1>11. Pending'
       BY <1>3, <1>7, PendingKept
<1>12. Undisturbed'
       BY <1>4, <1>7, UndisturbedKept
<1>13. ProcessesAccounted'
       BY <1>1, <1>3, <1>7, AccountedKept
<1>14. ToolsMatchServers' /\ Provided'
  <2>1. ASSUME Calm'
        PROVE  /\ Divided' /\ tools' = tools
               /\ n \in tools' => servers'[n] = o /\ objects'[o].tools
    <3>1. Divided'
          BY <1>2, <1>5, <2>1 DEF ServersInv, ToolsMatchServers, Divided
    <3>2. n \in tools => objects[o].tools
          BY <1>5, <2>1 DEF ServersInv, Provided
    <3>3. job[j].op = "register" => ~objects[o].tools
          BY <1>1, <1>2, <1>5, <2>1, HasItAlone
    <3> QED BY <1>2, <1>3, <1>6, <2>1, <3>1, <3>2, <3>3
  <2> QED BY <1>1, <1>3, <1>7, <1>8, <2>1, ToolsKept
<1>15. Kept' /\ WantedIsSaved'
  <2>1. wanted' = wanted /\ saved' = saved /\ torn' = torn /\ dropped \subseteq dropped'
        BY <1>2
  <2>2. j = Boot => n \in dropped'
        BY <1>2
  <2>3. j # Boot /\ n \in dropped \cup ToRestore => n \in (dropped \cup ToRestore)'
    <3>1. j # Boot /\ n \in ToRestore => n \in ToRestore'
          BY <1>1, <1>4, <1>7, RestoreKept
    <3> QED BY <2>1, <3>1
  <2>4. Calm' /\ n \in wanted /\ job[j].op = "register" => n \in dropped \cup ToRestore
        BY <1>1, <1>5 DEF ServersInv, Kept
  <2>5. Calm' /\ job[j].op # "register" => servers'[n] = o
        BY <1>6
  <2>6. Calm' /\ n \in wanted' => \/ n \in (dropped \cup ToRestore)'
                                  \/ servers'[n] = o /\ n \in wanted /\ n \notin dropped \cup ToRestore
        BY <2>1, <2>2, <2>3, <2>4, <2>5
  <2> QED BY <1>1, <1>4, <1>7, <1>8, <2>1, <2>6, WishesKept
<1> QED BY <1>4, <1>8, <1>9, <1>10, <1>11, <1>12, <1>13, <1>14, <1>15 DEF ServersInv

-----------------------------------------------------------------------------
(* A restart begins.                                                       *)

\* Watch says when work begins on a server that somebody works on, or that is
\* registered no longer.
LEMMA Watched ==
    ASSUME ServersInv, NEW j \in Coroutines, NEW o \in 1..Len(objects), Watch(o), cancels' = cancels, Calm'
    PROVE  Calm /\ Free(j, o) /\ servers[objects[o].name] = o
<1>1. ~overlap /\ Busy(o) = {} /\ servers[objects[o].name] = o
      BY DEF Watch, Calm
<1> QED BY <1>1 DEF Calm, Free, Busy, Working

\* A restart begins with a process to be closed, or at once.
LEMMA RestartBegins ==
    ASSUME ServersInv, NEW j \in Coroutines, NEW o \in 1..Len(objects), NEW op \in {"recover", "retry"},
           ~Working(j), job[j].obj \in {0, o}, BeginRestart(j, o, op), Watch(o),
           UNCHANGED <<servers, dict, procs, saved, torn, healthOn, boots, cancels, wanted, dropped>>
    PROVE  ServersInv'
<1> DEFINE closing == Running(objects[o].protocol)
<1>1. PICK n \in Names, p \in Nat :
          n = objects[o].name /\ p = objects[o].protocol /\ p <= Len(procs)
      BY Lengths
<1>2. /\ objects' \in Seq(Objects) /\ Len(objects') = Len(objects) /\ objects'[o].tools = objects[o].tools
      /\ objects'[o].name = n /\ objects'[o].protocol = p /\ objects'[o].status = "restarting"
      /\ \A y \in 1..Len(objects) : y # o => objects'[y] = objects[y]
  <2> DEFINE c == IF objects[o].restarts < MaxRestarts THEN objects[o].restarts + 1 ELSE objects[o].restarts
  <2>1. objects' = [objects EXCEPT ![o] = [objects[o] EXCEPT !.status = "restarting", !.restarts = c]]
        BY DEF BeginRestart
  <2>2. c \in 0..MaxRestarts
        BY Lengths, ServersAssumption DEF Objects
  <2> HIDE DEF c
  <2> QED BY <1>1, <2>1, <2>2, RestartCounted
<1>3. PICK r \in Jobs :
          /\ job' = [job EXCEPT ![j] = r]
          /\ r.at = IF closing THEN "closing" ELSE "spawning"
          /\ r.op = op /\ r.obj = o /\ r.todo = job[j].todo
          /\ r.proc <= Len(procs)
          /\ closing => r.proc = p
  <2>1. job[j] \in Jobs /\ job[j].proc <= Len(procs)
        BY JobTyped
  <2>a. o \in Nat
        BY Lengths
  <2>b. ASSUME NEW q \in Jobs, NEW y \in Nat
        PROVE  LET r == [q EXCEPT !.op = op, !.obj = o, !.at = "closing", !.proc = y]
               IN r \in Jobs /\ r.at = "closing" /\ r.op = op /\ r.obj = o /\ r.todo = q.todo /\ r.proc = y
        BY <2>a, <2>b DEF Jobs, Ops, Places
  <2>c. ASSUME NEW q \in Jobs
        PROVE  LET r == [q EXCEPT !.op = op, !.obj = o, !.at = "spawning"]
               IN /\ r \in Jobs /\ r.at = "spawning" /\ r.op = op /\ r.obj = o /\ r.todo = q.todo
                  /\ r.proc = q.proc
        BY <2>a, <2>c DEF Jobs, Ops, Places
  <2>2. CASE closing
    <3> DEFINE r == [job[j] EXCEPT !.op = op, !.obj = o, !.at = "closing", !.proc = p]
    <3>1. job' = [job EXCEPT ![j] = r]
          BY <1>1, <2>2 DEF BeginRestart
    <3>2. r \in Jobs /\ r.at = "closing" /\ r.op = op /\ r.obj = o /\ r.todo = job[j].todo /\ r.proc = p
          BY <1>1, <2>1, <2>b
    <3> QED BY <1>1, <2>2, <3>1, <3>2
  <2>3. CASE ~closing
    <3> DEFINE r == [job[j] EXCEPT !.op = op, !.obj = o, !.at = "spawning"]
    <3>1. job' = [job EXCEPT ![j] = r]
          BY <1>1, <2>3 DEF BeginRestart
    <3>2. /\ r \in Jobs /\ r.at = "spawning" /\ r.op = op /\ r.obj = o /\ r.todo = job[j].todo
          /\ r.proc = job[j].proc
          BY <2>1, <2>c
    <3> QED BY <2>1, <2>3, <3>1, <3>2
  <2> QED BY <2>2, <2>3
<1>4. /\ job' \in [Coroutines -> Jobs] /\ JobsInOrder' /\ JobsInRange' /\ job'[j] = r
      /\ \A k \in Coroutines : k # j => job'[k] = job[k]
  <2>1. InOrder(r)
        BY <1>1, <1>3 DEF InOrder, Running
  <2>2. r.obj <= Len(objects) /\ Todo(j, r.todo) /\ Len(procs') = Len(procs)
        BY <1>3, Lengths, Ended
  <2>3. r \in Jobs /\ job' = [job EXCEPT ![j] = r] /\ r.proc <= Len(procs)
        BY <1>3
  <2> QED BY <1>2, <2>1, <2>2, <2>3, OneJob
<1>5. Calm' => Calm /\ Free(j, o) /\ servers[n] = o
      BY <1>1, Watched
<1>6. Frame(j, o)
      BY <1>1, <1>2, <1>3, <1>4, <1>5 DEF Frame
<1>7. /\ adapters' \subseteq Names /\ tools' \subseteq Names /\ taken' \subseteq Names
      /\ Calm' => /\ Divided'
                  /\ \A m \in Names : m # n => (m \in tools' <=> m \in tools)
                  /\ n \in tools' => objects'[o].tools
  <2>1. CASE closing
    <3>1. UNCHANGED <<adapters, tools, taken>>
          BY <2>1 DEF BeginRestart, toolsets
    <3>2. Calm' => Divided' /\ (n \in tools => objects[o].tools)
          BY <1>5, <3>1 DEF ServersInv, ToolsMatchServers, Divided, Provided
    <3> QED BY <1>2, <3>1, <3>2 DEF ServersInv, Types
  <2>2. CASE ~closing
    <3>1. RemoveTools(o)
          BY <2>2 DEF BeginRestart
    <3> QED BY <1>1, <1>5, <3>1, ToolsGone
  <2> QED BY <2>1, <2>2
<1>8. Types'
  <2>1. overlap' \in BOOLEAN
        BY DEF Watch
  <2> QED BY <1>2, <1>4, <1>7, <2>1 DEF ServersInv, Types
<1>9. ObjectsInRange'
      BY <1>6, StaysInRange
<1>10. Entered'
       BY <1>3, <1>4, <1>6, <1>8, EnteredKept
<1>11. Pending'
       BY <1>3, <1>4, <1>6, PendingKept
<1>12. Undisturbed'
  <2>1. ~closing => ~Running(objects[o].protocol)'
        BY <1>1, <1>2 DEF Running
  <2>2. Calm' => servers'[n] = o
        BY <1>5
  <2>3. /\ job'[j].obj = o /\ job'[j].op # "register"
        /\ IF job'[j].at = "spawning" THEN ~Running(objects[o].protocol)'
           ELSE job'[j].proc = objects[o].protocol
        BY <1>1, <1>3, <1>4, <2>1
  <2> QED BY <1>1, <1>6, <2>2, <2>3, UndisturbedKept
<1>13. ProcessesAccounted'
       BY <1>1, <1>5, <1>6, AccountedKept
<1>14. ToolsMatchServers' /\ Provided'
       BY <1>1, <1>2, <1>5, <1>6, <1>7, <1>8, ToolsKept
<1>15. Kept' /\ WantedIsSaved'
  <2>1. Calm' /\ n \in wanted' => servers'[n] = o /\ n \in wanted
        BY <1>5
  <2>2. job[j].op \notin {"register", "unregister"} /\ job'[j].op \notin {"register", "unregister"}
        BY <1>3, <1>4, AtWork
  <2>3. job'[j].todo = job[j].todo
        BY <1>3, <1>4
  <2> QED BY <1>1, <1>4, <1>6, <1>8, <2>1, <2>2, <2>3, WishesStay
<1> QED BY <1>4, <1>8, <1>9, <1>10, <1>11, <1>12, <1>13, <1>14, <1>15 DEF ServersInv

-----------------------------------------------------------------------------
(* Tool calls.                                                             *)

\* A broken call restarts its server, or gives up.
LEMMA CallBreaksStep ==
    ASSUME ServersInv, NEW j \in Coroutines, CallBreaks(j)
    PROVE  ServersInv'
<1>1. /\ job[j].at = "calling" /\ ~Working(j) /\ ~Resting(j)
      /\ UNCHANGED <<servers, dict, procs, saved, torn, healthOn, boots, cancels, wanted, dropped>>
      BY DEF CallBreaks, file, bounds, wishes, Working, Resting
<1>2. job[j].obj \in 1..Len(objects)
      BY <1>1, HasObject
<1>3. CASE job[j].op = "recover"
  <2>1. BeginRestart(j, job[j].obj, "retry") /\ Watch(job[j].obj)
        BY <1>3 DEF CallBreaks
  <2> QED BY <1>1, <1>2, <2>1, RestartBegins
<1>4. CASE job[j].op # "recover"
  <2>1. Ends(j) /\ UNCHANGED <<objects, adapters, tools, taken, overlap>>
        BY <1>4 DEF CallBreaks, toolsets
  <2> QED BY <1>1, <2>1, CallOver
<1> QED BY <1>3, <1>4

\* execute_tool restarts a server in ERROR, or calls one that runs.
LEMMA ExecuteStep ==
    ASSUME ServersInv, NEW j \in Requests, NEW n \in Names, Execute(j, n)
    PROVE  ServersInv'
<1>1. /\ job[j].at = "idle" /\ ~Working(j) /\ servers[n] # 0 /\ j \in Coroutines
      /\ UNCHANGED <<servers, dict, procs, saved, torn, healthOn, boots, cancels, wanted, dropped>>
      BY DEF Execute, Serving, file, bounds, wishes, Working, Coroutines
<1>2. job[j].obj = 0
      BY <1>1 DEF ServersInv, JobsInOrder, InOrder
<1>3. PICK o \in 1..Len(objects) : o = servers[n]
      BY <1>1, Entry
<1>4. CASE BeginRestart(j, o, "recover") /\ Watch(o)
      BY <1>1, <1>2, <1>3, <1>4, RestartBegins
<1>5. CASE /\ job' = [job EXCEPT ![j] = [Idle EXCEPT !.op = "recover", !.at = "calling", !.obj = o,
                                                     !.proc = objects[o].protocol]]
           /\ UNCHANGED <<objects, toolsets, overlap>>
  <2>1. PICK p \in Nat : p = objects[o].protocol /\ p <= Len(procs)
        BY Lengths
  <2> DEFINE r == [Idle EXCEPT !.op = "recover", !.at = "calling", !.obj = o, !.proc = p]
  <2>2. /\ r \in Jobs /\ r.op = "recover" /\ r.at = "calling" /\ r.obj = o /\ r.proc = p
        /\ r.todo = {}
    <3>1. \A y \in Nat, z \in Nat :
             LET q == [Idle EXCEPT !.op = "recover", !.at = "calling", !.obj = y, !.proc = z]
             IN /\ q \in Jobs /\ q.op = "recover" /\ q.at = "calling" /\ q.obj = y /\ q.proc = z
                /\ q.todo = {}
          BY DEF Idle, Jobs, Ops, Places
    <3>2. o \in Nat
          BY Lengths
    <3> QED BY <3>1, <3>2
  <2>3. job' = [job EXCEPT ![j] = r]
        BY <1>5, <2>1
  <2> HIDE DEF r
  <2>4. InOrder(r) /\ r.obj <= Len(objects) /\ r.proc <= Len(procs) /\ Todo(j, r.todo)
    <3>1. Todo(j, {})
          BY <1>1, Ended
    <3> QED BY <2>1, <2>2, <3>1, Lengths DEF InOrder
  <2>5. UNCHANGED <<objects, adapters, tools, taken, overlap>>
        BY <1>5 DEF toolsets
  <2>6. j # Boot
        BY ServersAssumption
  <2> QED BY <1>1, <2>2, <2>3, <2>4, <2>5, <2>6, JobOnly
<1> QED BY <1>3, <1>4, <1>5 DEF Execute

-----------------------------------------------------------------------------
(* A server is removed, and a process is closed.                           *)

\* The entry of a name is deleted if the dict is still the one that was asked.
LEMMA EntryRemoved ==
    ASSUME ServersInv, NEW j \in Coroutines, NEW o \in 1..Len(objects), NEW n \in Names,
           n = objects[o].name, NEW held, RemoveEntry(j, o, held),
           Len(objects') = Len(objects), Len(procs') = Len(procs)
    PROVE  /\ job' \in [Coroutines -> Jobs] /\ JobsInOrder' /\ JobsInRange' /\ job'[j] = Idle
           /\ \A k \in Coroutines : k # j => job'[k] = job[k]
           /\ adapters' \subseteq Names /\ tools' \subseteq Names /\ taken' \subseteq Names
           /\ Calm /\ servers[n] = o => Divided' /\ tools' = tools \ {n}
           /\ servers' \in [Names -> Nat] /\ dict' \in Nat
           /\ \A m \in Names : servers'[m] = servers[m] \/ (servers'[m] = 0 /\ m = n)
           /\ held = dict => servers'[n] = 0
           /\ dict' = dict \/ \A m \in Names : servers'[m] = 0
           /\ saved' \subseteq Names /\ torn' \in BOOLEAN
           /\ (saved' = saved /\ torn' = torn) \/ saved' = Registered' \/ torn'
<1>1. /\ Idle \in Jobs /\ InOrder(Idle) /\ Idle.obj <= Len(objects) /\ Idle.proc <= Len(procs)
      /\ Todo(j, Idle.todo)
  <2>1. Idle \in Jobs /\ InOrder(Idle) /\ Idle.obj = 0 /\ Idle.proc = 0 /\ Todo(j, Idle.todo)
        BY Ended
  <2> QED BY <2>1, Lengths
<1>2. job' = [job EXCEPT ![j] = Idle] /\ RemoveTools(o)
      BY DEF RemoveEntry
<1>3. /\ job' \in [Coroutines -> Jobs] /\ JobsInOrder' /\ JobsInRange' /\ job'[j] = Idle
      /\ \A k \in Coroutines : k # j => job'[k] = job[k]
      BY <1>1, <1>2, OneJob
<1>4. /\ adapters' \subseteq Names /\ tools' \subseteq Names /\ taken' \subseteq Names
      /\ Calm /\ servers[n] = o => Divided' /\ tools' = tools \ {n}
      BY <1>2, ToolsGone
<1>5. servers \in [Names -> Nat] /\ dict \in Nat
      BY DEF ServersInv, Types
<1>6. CASE held = dict /\ servers[n] # 0
  <2>1. /\ servers' = [servers EXCEPT ![n] = 0]
        /\ dict' = IF Registered = {n} THEN dict + 1 ELSE dict
        /\ Save
        BY <1>6 DEF RemoveEntry
  <2>2. \A m \in Names : servers'[m] = IF m = n THEN 0 ELSE servers[m]
        BY <1>5, <2>1
  <2>3. Registered = {n} => \A m \in Names : servers'[m] = 0
        BY <2>2 DEF Registered
  <2>4. saved' \subseteq Names /\ torn' \in BOOLEAN /\ (saved' = Registered' \/ torn')
        BY <2>1, SaveLeaves DEF ServersInv, Types
  <2>5. servers' \in [Names -> Nat] /\ dict' \in Nat
        BY <1>5, <2>1
  <2> QED BY <1>3, <1>4, <2>1, <2>2, <2>3, <2>4, <2>5
<1>7. CASE ~(held = dict /\ servers[n] # 0)
  <2>1. UNCHANGED <<servers, dict, saved, torn>>
        BY <1>7 DEF RemoveEntry, file
  <2>2. saved' \subseteq Names /\ torn' \in BOOLEAN
        BY <2>1 DEF ServersInv, Types
  <2> QED BY <1>3, <1>4, <1>5, <1>7, <2>1, <2>2
<1> QED BY <1>6, <1>7

\* unregister_server asks a process to end, or removes the entry at once.
LEMMA UnregisterStep ==
    ASSUME ServersInv, NEW j \in Requests, NEW n \in Names, Unregister(j, n)
    PROVE  ServersInv'
<1>1. /\ job[j].at = "idle" /\ ~Working(j) /\ servers[n] # 0 /\ j \in Coroutines
      /\ wanted' = wanted \ {n}
      /\ UNCHANGED <<procs, healthOn, boots, cancels, dropped>>
      BY DEF Unregister, Serving, bounds, Working, Coroutines
<1>2. PICK o \in 1..Len(objects) : o = servers[n] /\ n = objects[o].name
      BY <1>1, Entry
<1>3. PICK p \in Nat : p = objects[o].protocol /\ p <= Len(procs) /\ o # 0
      BY Lengths
<1> DEFINE closing == Running(objects[o].protocol)
           r == [op |-> "unregister", at |-> "closing", obj |-> o, proc |-> p, dict |-> dict, todo |-> {}]
<1>4. /\ SetStatus(o, "stopping") /\ Watch(o)
      /\ closing => job' = [job EXCEPT ![j] = r] /\ UNCHANGED <<servers, dict, adapters, tools, taken, saved, torn>>
      /\ ~closing => RemoveEntry(j, o, dict)
      BY <1>2, <1>3 DEF Unregister, toolsets, file
<1>5. /\ objects' \in Seq(Objects) /\ Len(objects') = Len(objects) /\ objects'[o].tools = objects[o].tools
      /\ objects'[o].name = n /\ objects'[o].protocol = p /\ objects'[o].status = "stopping"
      /\ \A y \in 1..Len(objects) : y # o => objects'[y] = objects[y]
      BY <1>2, <1>3, <1>4, StatusSet DEF Statuses
<1>6. /\ r \in Jobs /\ r.obj = o /\ r.at = "closing" /\ r.op = "unregister" /\ r.dict = dict /\ r.proc = p
      /\ r.todo = {}
  <2>1. dict \in Nat /\ o \in Nat
        BY Lengths DEF ServersInv, Types
  <2> QED BY <2>1 DEF Jobs, Ops, Places
<1> HIDE DEF r
<1>7. job[j].obj = 0
      BY <1>1 DEF ServersInv, JobsInOrder, InOrder
<1>8. /\ job' \in [Coroutines -> Jobs] /\ JobsInOrder' /\ JobsInRange'
      /\ job'[j] = IF closing THEN r ELSE Idle
      /\ \A k \in Coroutines : k # j => job'[k] = job[k]
  <2>1. CASE closing
    <3>1. InOrder(r)
      <4>1. p # 0
            BY <1>3, <2>1 DEF Running
      <4> QED BY <1>3, <1>6, <4>1 DEF InOrder
    <3>2. r.obj <= Len(objects) /\ r.proc <= Len(procs) /\ Todo(j, r.todo)
      <4>1. Todo(j, {})
            BY <1>1, Ended
      <4> QED BY <1>3, <1>6, <4>1, Lengths
    <3>3. job' = [job EXCEPT ![j] = r] /\ Len(procs') = Len(procs)
          BY <1>1, <1>4, <2>1
    <3>4. /\ job' \in [Coroutines -> Jobs] /\ JobsInOrder' /\ JobsInRange' /\ job'[j] = r
          /\ \A k \in Coroutines : k # j => job'[k] = job[k]
          BY <1>1, <1>5, <1>6, <3>1, <3>2, <3>3, OneJob
    <3> QED BY <2>1, <3>4
  <2>2. CASE ~closing
    <3>1. Len(procs') = Len(procs)
          BY <1>1
    <3> QED BY <1>1, <1>2, <1>4, <1>5, <2>2, <3>1, EntryRemoved
  <2> QED BY <2>1, <2>2
<1>9. /\ adapters' \subseteq Names /\ tools' \subseteq Names /\ taken' \subseteq Names
      /\ servers' \in [Names -> Nat] /\ dict' \in Nat
      /\ \A m \in Names : servers'[m] = servers[m] \/ (servers'[m] = 0 /\ m = n)
      /\ servers'[n] = IF closing THEN o ELSE 0
      /\ dict' = dict \/ \A m \in Names : servers'[m] = 0
      /\ saved' \subseteq Names /\ torn' \in BOOLEAN
      /\ (saved' = saved /\ torn' = torn) \/ saved' = Registered' \/ torn'
      /\ closing => dict' = dict /\ tools' = tools /\ adapters' = adapters /\ taken' = taken
      /\ ~closing /\ Calm => Divided' /\ tools' = tools \ {n}
  <2>1. CASE closing
    <3>1. UNCHANGED <<servers, dict, adapters, tools, taken, saved, torn>>
          BY <1>4, <2>1
    <3> QED BY <1>2, <2>1, <3>1 DEF ServersInv, Types
  <2>2. CASE ~closing
    <3>1. /\ adapters' \subseteq Names /\ tools' \subseteq Names /\ taken' \subseteq Names
          /\ Calm /\ servers[n] = o => Divided' /\ tools' = tools \ {n}
          /\ servers' \in [Names -> Nat] /\ dict' \in Nat
          /\ \A m \in Names : servers'[m] = servers[m] \/ (servers'[m] = 0 /\ m = n)
          /\ servers'[n] = 0
          /\ dict' = dict \/ \A m \in Names : servers'[m] = 0
          /\ saved' \subseteq Names /\ torn' \in BOOLEAN
          /\ (saved' = saved /\ torn' = torn) \/ saved' = Registered' \/ torn'
      <4>1. Len(procs') = Len(procs)
            BY <1>1
      <4>2. RemoveEntry(j, o, dict) /\ n = objects[o].name /\ Len(objects') = Len(objects)
            BY <1>2, <1>4, <1>5, <2>2
      <4> HIDE DEF closing
      <4> QED BY <1>1, <4>1, <4>2, EntryRemoved
    <3> QED BY <1>2, <2>2, <3>1
  <2> QED BY <2>1, <2>2
<1>10. Calm' => Calm /\ Free(j, o) /\ servers[n] = o
       BY <1>1, <1>2, <1>4, Watched
<1>11. job'[j].obj \in {0, o}
       BY <1>1, <1>6, <1>8, Ended
<1>12. Frame(j, o)
       BY <1>1, <1>2, <1>3, <1>5, <1>7, <1>8, <1>9, <1>10, <1>11 DEF Frame
<1>13. Types'
  <2>1. overlap' \in BOOLEAN
        BY <1>4 DEF Watch
  <2> QED BY <1>1, <1>5, <1>8, <1>9, <2>1 DEF ServersInv, Types
<1>14. ObjectsInRange'
       BY <1>1, <1>12, StaysInRange
<1>15. ~closing => /\ job'[j].op = "none" /\ job'[j].obj = 0 /\ ~Working(j)'
                   /\ ~Running(objects[o].protocol)'
  <2>1. ~closing => ~Running(objects[o].protocol)'
        BY <1>1, <1>3, <1>5 DEF Running
  <2> QED BY <1>1, <1>8, <2>1, Ended DEF Working
<1>16. closing => /\ job'[j].op = "unregister" /\ job'[j].obj = o /\ job'[j].at = "closing"
                  /\ job'[j].proc = p /\ job'[j].dict = dict
       BY <1>6, <1>8
<1>17. Entered'
  <2>1. job'[j].op \in {"register", "unregister"} => job'[j].dict = dict
        BY <1>15, <1>16
  <2>2. JobsInRange' /\ JobsInOrder'
        BY <1>8
  <2> QED BY <1>1, <1>12, <1>13, <2>1, <2>2, EnteredKept
<1>18. Pending'
  <2>1. \/ job'[j].obj = o /\ job'[j].at \in {"closing", "spawning"}
        \/ servers'[objects[o].name] # o
    <3>1. CASE closing
          BY <1>16, <3>1
    <3>2. CASE ~closing
          BY <1>2, <1>3, <1>9, <3>2
    <3> QED BY <3>1, <3>2
  <2> QED BY <1>1, <1>12, <2>1, PendingKept
<1>19. Undisturbed'
  <2>1. ASSUME Working(j)'
        PROVE  /\ job'[j].obj = o /\ servers'[objects[o].name] = o
               /\ job'[j].at # "spawning" /\ job'[j].proc = objects[o].protocol
               /\ job'[j].op # "register"
        BY <1>2, <1>3, <1>9, <1>15, <1>16, <2>1
  <2> QED BY <1>1, <1>12, <2>1, UndisturbedKept
<1>20. ProcessesAccounted'
  <2>1. servers'[objects[o].name] = o \/ ~Running(objects[o].protocol)'
        BY <1>2, <1>9, <1>15
  <2> QED BY <1>1, <1>12, <2>1, AccountedKept
<1>21. ToolsMatchServers' /\ Provided'
  <2>1. ASSUME Calm'
        PROVE  /\ Divided'
               /\ \A m \in Names : m # n => (m \in tools' <=> m \in tools)
               /\ n \in tools' => servers'[n] = o /\ objects'[o].tools
    <3>1. CASE closing
      <4>1. Divided' /\ (n \in tools => objects[o].tools)
            BY <1>9, <1>10, <2>1, <3>1 DEF ServersInv, ToolsMatchServers, Divided, Provided
      <4> QED BY <1>5, <1>9, <3>1, <4>1
    <3>2. CASE ~closing
          BY <1>9, <1>10, <2>1, <3>2
    <3> QED BY <3>1, <3>2
  <2>2. objects'[o].status # "running"
        BY <1>5
  <2>3. Calm' =>
           /\ Divided'
           /\ \A m \in Names : m # n => (m \in tools' <=> m \in tools)
           /\ n \in tools' => servers'[n] = o /\ objects'[o].tools
           /\ servers'[n] = o /\ objects'[o].status = "running" /\ Busy(o)' = {} => n \in tools'
        BY <2>1, <2>2
  <2>4. j \in Coroutines /\ o \in 1..Len(objects) /\ n \in Names /\ n = objects[o].name
        BY <1>1, <1>2
  <2> QED BY <1>12, <1>13, <2>3, <2>4, ToolsKept
<1>22. Kept' /\ WantedIsSaved'
  <2>1. n \notin wanted' /\ \A m \in Names : m # n => (m \in wanted' <=> m \in wanted)
        BY <1>1
  <2>2. job[j].op # "register" /\ job'[j].op # "register"
        BY <1>1, <1>15, <1>16, AtWork
  <2>3. j # Boot
        BY ServersAssumption
  <2> QED BY <1>1, <1>2, <1>8, <1>9, <1>12, <1>13, <2>1, <2>2, <2>3, WishesStay
<1> QED BY <1>8, <1>13, <1>14, <1>17, <1>18, <1>19, <1>20, <1>21, <1>22 DEF ServersInv

\* A process has ended; a server is removed, or its restart goes on.
LEMMA CloseEndsStep ==
    ASSUME ServersInv, NEW j \in Coroutines, CloseEnds(j)
    PROVE  ServersInv'
<1>1. PICK o \in 1..Len(objects), n \in Names :
          o = job[j].obj /\ n = NameOf(j) /\ n = objects[o].name /\ o # 0
  <2>1. ~Resting(j)
        BY DEF CloseEnds, Resting
  <2> QED BY <2>1, HasObject
<1>2. /\ job[j].at = "closing" /\ Working(j)
      /\ UNCHANGED <<objects, healthOn, boots, cancels, wanted, dropped, overlap>>
      /\ procs' = [procs EXCEPT ![job[j].proc] = FALSE]
      BY DEF CloseEnds, Working, bounds, wishes
<1>3. job[j].op \in {"unregister", "recover", "retry"}
      BY <1>2 DEF ServersInv, JobsInOrder, InOrder
<1>4. /\ procs' \in Seq(BOOLEAN) /\ Len(procs') = Len(procs)
      /\ \A q \in 1..Len(procs) : procs'[q] => procs[q]
      /\ ~procs'[job[j].proc]
  <2>1. job[j].proc \in 1..Len(procs)
        BY <1>2, JobTyped DEF ServersInv, JobsInOrder, InOrder
  <2> QED BY <1>2, <2>1, Lengths, Changed
<1>5. Calm' => Calm /\ Free(j, o) /\ servers[n] = o /\ job[j].proc = objects[o].protocol
      BY <1>1, <1>2, HasItAlone DEF Calm
<1>6. Calm' => ~Running(objects[o].protocol)'
      BY <1>2, <1>4, <1>5 DEF Running
<1>7. CASE job[j].op = "unregister"
  <2>1. RemoveEntry(j, o, job[j].dict)
        BY <1>1, <1>7 DEF CloseEnds
  <2>2. /\ job' \in [Coroutines -> Jobs] /\ JobsInOrder' /\ JobsInRange' /\ job'[j] = Idle
        /\ \A k \in Coroutines : k # j => job'[k] = job[k]
        /\ adapters' \subseteq Names /\ tools' \subseteq Names /\ taken' \subseteq Names
        /\ Calm /\ servers[n] = o => Divided' /\ tools' = tools \ {n}
        /\ servers' \in [Names -> Nat] /\ dict' \in Nat
        /\ \A m \in Names : servers'[m] = servers[m] \/ (servers'[m] = 0 /\ m = n)
        /\ job[j].dict = dict => servers'[n] = 0
        /\ dict' = dict \/ \A m \in Names : servers'[m] = 0
        /\ saved' \subseteq Names /\ torn' \in BOOLEAN
        /\ (saved' = saved /\ torn' = torn) \/ saved' = Registered' \/ torn'
    <3>1. Len(objects') = Len(objects) /\ Len(procs') = Len(procs)
          BY <1>2, <1>4
    <3> QED BY <1>1, <2>1, <3>1, EntryRemoved
  <2>3. /\ job'[j].op = "none" /\ job'[j].obj = 0 /\ ~Working(j)'
        BY <2>2, Ended DEF Working
  <2>4. servers'[n] # o
  \* The dict of the job is the one in which its object is registered.
    <3>1. servers[n] = o => job[j].dict = dict
          BY <1>1, <1>7 DEF ServersInv, Entered
    <3> QED BY <1>1, <2>2, <3>1
  <2>5. Frame(j, o)
        BY <1>1, <1>2, <1>4, <1>5, <2>2, <2>3 DEF Frame
  <2>6. Types'
        BY <1>2, <1>4, <2>2 DEF ServersInv, Types
  <2>7. ObjectsInRange'
        BY <2>5, StaysInRange
  <2>8. Entered'
        BY <2>2, <2>3, <2>5, <2>6, EnteredKept
  <2>9. Pending'
        BY <1>1, <2>4, <2>5, PendingKept
  <2>10. Undisturbed'
         BY <2>3, <2>5, UndisturbedKept
  <2>11. ProcessesAccounted'
         BY <1>6, <2>5, AccountedKept
  <2>12. ToolsMatchServers' /\ Provided'
    <3>1. ASSUME Calm'
          PROVE  /\ Divided' /\ n \notin tools'
                 /\ \A m \in Names : m # n => (m \in tools' <=> m \in tools)
          BY <1>5, <2>2, <3>1
    <3> QED BY <1>1, <2>4, <2>5, <2>6, <3>1, ToolsKept
  <2>13. Kept' /\ WantedIsSaved'
    <3>1. Calm' => n \notin wanted'
          BY <1>1, <1>2, <1>5, <1>7 DEF ServersInv, Kept
    <3>2. wanted' = wanted /\ dropped' = dropped
          BY <1>2
    <3>3. j # Boot \/ job'[j].todo = job[j].todo
          BY <1>7, <2>2, Ended DEF ServersInv, JobsInOrder, InOrder
    <3> QED BY <1>1, <1>7, <2>2, <2>3, <2>5, <2>6, <3>1, <3>2, <3>3, WishesStay
  <2> QED BY <2>2, <2>6, <2>7, <2>8, <2>9, <2>10, <2>11, <2>12, <2>13 DEF ServersInv
<1>8. CASE job[j].op # "unregister"
  <2>1. /\ RemoveTools(o) /\ job' = [job EXCEPT ![j].at = "spawning"]
        /\ UNCHANGED <<servers, dict, saved, torn>>
        BY <1>1, <1>8 DEF CloseEnds, file
  <2> DEFINE r == [job[j] EXCEPT !.at = "spawning"]
  <2>2. /\ r \in Jobs /\ r.op = job[j].op /\ r.at = "spawning" /\ r.obj = o /\ r.proc = job[j].proc
        /\ r.todo = job[j].todo
        BY <1>1, JobTyped DEF Jobs, Places
  <2>3. job' = [job EXCEPT ![j] = r]
        BY <2>1
  <2> HIDE DEF r
  <2>4. /\ job' \in [Coroutines -> Jobs] /\ JobsInOrder' /\ JobsInRange' /\ job'[j] = r
        /\ \A k \in Coroutines : k # j => job'[k] = job[k]
    <3>1. InOrder(r)
          BY <1>1, <1>3, <1>8, <2>2 DEF InOrder
    <3>2. r.obj <= Len(objects) /\ r.proc <= Len(procs) /\ Todo(j, r.todo)
          BY <2>2, JobTyped, Lengths, Ended
    <3>3. Len(objects') = Len(objects) /\ Len(procs') = Len(procs)
          BY <1>2, <1>4
    <3> QED BY <2>2, <2>3, <3>1, <3>2, <3>3, OneJob
  <2>5. Frame(j, o)
        BY <1>1, <1>2, <1>4, <1>5, <2>1, <2>2, <2>4 DEF Frame
  <2>6. /\ adapters' \subseteq Names /\ tools' \subseteq Names /\ taken' \subseteq Names
        /\ Calm' => Divided' /\ tools' = tools \ {n}
        BY <1>1, <1>5, <2>1, ToolsGone
  <2>7. Types'
        BY <1>2, <1>4, <2>1, <2>4, <2>6 DEF ServersInv, Types
  <2>8. ObjectsInRange'
        BY <2>5, StaysInRange
  <2>9. job'[j].op \in {"recover", "retry"} /\ job'[j].obj = o /\ job'[j].at = "spawning"
        BY <1>3, <1>8, <2>2, <2>4
  <2>10. Entered'
         BY <2>4, <2>5, <2>7, <2>9, EnteredKept
  <2>11. Pending'
         BY <2>5, <2>9, PendingKept
  <2>12. Undisturbed'
    <3>1. Calm' => servers'[objects[o].name] = o
          BY <1>1, <1>5, <2>1
    <3> QED BY <1>6, <2>5, <2>9, <3>1, UndisturbedKept
  <2>13. ProcessesAccounted'
         BY <1>6, <2>5, AccountedKept
  <2>14. ToolsMatchServers' /\ Provided'
    <3>1. Busy(o)' # {}
          BY <2>9 DEF Busy
    <3>2. ASSUME Calm'
          PROVE  /\ Divided' /\ n \notin tools'
                 /\ \A m \in Names : m # n => (m \in tools' <=> m \in tools)
          BY <2>6, <3>2
    <3> QED BY <1>1, <2>5, <2>7, <3>1, <3>2, ToolsKept
  <2>15. Kept' /\ WantedIsSaved'
    <3>1. Calm' => (n \in wanted' => servers'[n] = o)
          BY <1>5, <2>1
    <3>2. UNCHANGED <<wanted, dropped, saved, torn>>
          BY <1>2, <2>1
    <3>3. job'[j].todo = job[j].todo
          BY <2>2, <2>4
    <3> QED BY <1>1, <1>3, <1>8, <2>4, <2>5, <2>7, <2>9, <3>1, <3>2, <3>3, WishesStay
  <2> QED BY <2>4, <2>7, <2>8, <2>10, <2>11, <2>12, <2>13, <2>14, <2>15 DEF ServersInv
<1> QED BY <1>7, <1>8

-----------------------------------------------------------------------------
(* The health loop.                                                        *)

\* What a function on the indices returns is a sequence.
LEMMA Listing ==
    ASSUME NEW S, NEW n \in Nat, NEW f \in [1..n -> S]
    PROVE  f \in Seq(S) /\ Len(f) = n
OBVIOUS

\* A restart is counted while there is one left.
LEMMA CountsOn ==
    ASSUME NEW r \in Objects, r.restarts < MaxRestarts, NEW x,
           x = [r EXCEPT !.status = "restarting", !.restarts = r.restarts + 1]
    PROVE  x \in Objects /\ x.name = r.name /\ x.protocol = r.protocol /\ x.status = "restarting"
<1>1. r.restarts \in 0..MaxRestarts /\ MaxRestarts \in Nat
      BY ServersAssumption DEF Objects
<1>2. r.restarts + 1 \in 0..MaxRestarts
      BY <1>1
<1> QED BY <1>2 DEF Objects, Statuses

\* A pass of the health loop marks the dead servers and one that it restarts.
LEMMA PassMarks ==
    ASSUME ServersInv, NEW o \in 1..Len(objects), objects[o].restarts < MaxRestarts, NEW down,
           objects' = [x \in 1..Len(objects) |->
               IF x = o THEN [objects[x] EXCEPT !.status = "restarting", !.restarts = @ + 1]
               ELSE IF x \in down THEN [objects[x] EXCEPT !.status = "error"] ELSE objects[x]]
    PROVE  /\ objects' \in Seq(Objects) /\ Len(objects') = Len(objects)
           /\ \A x \in 1..Len(objects) :
                 /\ objects'[x].name = objects[x].name /\ objects'[x].protocol = objects[x].protocol
                 /\ x # o => /\ objects'[x].tools = objects[x].tools
                             /\ objects'[x].status \in {objects[x].status, "error"}
           /\ objects'[o].status = "restarting"
<1>1. \A r \in Objects : LET x == [r EXCEPT !.status = "error"]
                         IN /\ x \in Objects /\ x.name = r.name /\ x.protocol = r.protocol
                            /\ x.tools = r.tools /\ x.status = "error"
      BY DEF Objects, Statuses
<1>2. \A x \in 1..Len(objects) : objects[x] \in Objects
      BY Lengths
<1>3. ASSUME NEW x \in 1..Len(objects)
      PROVE  /\ objects'[x] \in Objects
             /\ objects'[x].name = objects[x].name /\ objects'[x].protocol = objects[x].protocol
             /\ x # o => /\ objects'[x].tools = objects[x].tools
                         /\ objects'[x].status \in {objects[x].status, "error"}
             /\ x = o => objects'[x].status = "restarting"
  <2>1. CASE x = o
    <3>1. objects'[x] = [objects[x] EXCEPT !.status = "restarting", !.restarts = objects[x].restarts + 1]
          BY <2>1
    <3>2. objects[x] \in Objects /\ objects[x].restarts < MaxRestarts
          BY <1>2, <2>1
    <3> QED BY <2>1, <3>1, <3>2, CountsOn
  <2>2. CASE x # o
    <3>1. objects'[x] = [objects[x] EXCEPT !.status = "error"] \/ objects'[x] = objects[x]
          BY <2>2
    <3> QED BY <1>1, <1>2, <2>2, <3>1
  <2> QED BY <2>1, <2>2
<1>4. objects' \in [1..Len(objects) -> Objects]
      BY <1>3
<1>5. objects' \in Seq(Objects) /\ Len(objects') = Len(objects)
  <2>1. \A f \in [1..Len(objects) -> Objects] : f \in Seq(Objects) /\ Len(f) = Len(objects)
        BY Lengths, Listing
  <2> QED BY <1>4, <2>1
<1> QED BY <1>3, <1>5

\* It goes on with the restart.
LEMMA HealthRestarts ==
    ASSUME ServersInv, NEW o \in 1..Len(objects), NEW j \in Coroutines, NEW r \in Jobs,
           ~Working(j), job[j].obj = 0, o # 0,
           objects' \in Seq(Objects), Len(objects') = Len(objects),
           \A x \in 1..Len(objects) :
                 /\ objects'[x].name = objects[x].name /\ objects'[x].protocol = objects[x].protocol
                 /\ x # o => /\ objects'[x].tools = objects[x].tools
                             /\ objects'[x].status \in {objects[x].status, "error"},
           objects'[o].status = "restarting", ~Running(objects[o].protocol),
           RemoveTools(o), Watch(o), job' = [job EXCEPT ![j] = r],
           r.op = "health", r.at = "spawning", r.obj = o, r.proc = 0, Todo(j, r.todo), j # Boot,
           UNCHANGED <<servers, dict, procs, saved, torn, healthOn, boots, cancels, wanted, dropped>>
    PROVE  ServersInv'
<1>1. j \in Coroutines /\ o \in 1..Len(objects)
      OBVIOUS
<1>2. PICK n \in Names : n = objects[o].name
      BY Lengths
<1>5. /\ job' \in [Coroutines -> Jobs] /\ JobsInOrder' /\ JobsInRange' /\ job'[j] = r
      /\ \A k \in Coroutines : k # j => job'[k] = job[k]
  <2>1. InOrder(r)
        BY DEF InOrder
  <2>2. r.obj <= Len(objects) /\ r.proc <= Len(procs) /\ Len(procs') = Len(procs)
        BY Lengths
  <2> QED BY <2>1, <2>2, OneJob
<1>6. Calm' => Calm /\ Free(j, o) /\ servers[n] = o
      BY <1>1, <1>2, Watched
<1>7. Frame(j, o)
      BY <1>1, <1>2, <1>5, <1>6 DEF Frame
<1>8. /\ adapters' \subseteq Names /\ tools' \subseteq Names /\ taken' \subseteq Names
      /\ Calm' => Divided' /\ tools' = tools \ {n}
      BY <1>1, <1>2, <1>6, ToolsGone
<1>9. Types'
  <2>1. overlap' \in BOOLEAN
        BY DEF Watch
  <2> QED BY <1>5, <1>8, <2>1 DEF ServersInv, Types
<1>10. ObjectsInRange'
       BY <1>1, <1>7, StaysInRange
<1>11. job'[j].op = "health" /\ job'[j].obj = o /\ job'[j].at = "spawning"
       BY <1>5
<1>12. ~Running(objects[o].protocol)'
  <2>1. objects'[o].protocol = objects[o].protocol /\ procs' = procs
        OBVIOUS
  <2> QED BY <2>1 DEF Running
<1>13. Entered'
       BY <1>1, <1>5, <1>7, <1>9, <1>11, EnteredKept
<1>14. Pending'
       BY <1>1, <1>7, <1>11, PendingKept
<1>15. Undisturbed'
  <2>1. Calm' => servers'[objects[o].name] = o
        BY <1>2, <1>6
  <2> QED BY <1>1, <1>7, <1>11, <1>12, <2>1, UndisturbedKept
<1>16. ProcessesAccounted'
       BY <1>1, <1>7, <1>12, AccountedKept
<1>17. ToolsMatchServers' /\ Provided'
  <2>1. ASSUME Calm'
        PROVE  /\ Divided' /\ n \notin tools'
               /\ \A m \in Names : m # n => (m \in tools' <=> m \in tools)
        BY <1>8, <2>1
  <2>2. objects'[o].status # "running"
        OBVIOUS
  <2> QED BY <1>1, <1>2, <1>7, <1>9, <2>1, <2>2, ToolsKept
<1>18. Kept' /\ WantedIsSaved'
  <2>1. Calm' /\ n \in wanted' => servers'[n] = o /\ n \in wanted
        BY <1>6
  <2>2. UNCHANGED <<wanted, dropped, saved, torn>>
        OBVIOUS
  <2>3. job[j].op # "register"
        BY AtWork
  <2> QED BY <1>1, <1>2, <1>5, <1>7, <1>9, <1>11, <2>1, <2>2, <2>3, WishesStay
<1> QED BY <1>5, <1>9, <1>10, <1>13, <1>14, <1>15, <1>16, <1>17, <1>18 DEF ServersInv

\* A pass of the health loop ends, or goes as far as the next restart.
LEMMA HealthStep ==
    ASSUME ServersInv, HealthCheck
    PROVE  ServersInv'
<1> DEFINE list == IF job[Health].at = "idle" THEN {servers[n] : n \in Registered} ELSE job[Health].todo
           down == {o \in list : Down(o)}
           due  == {o \in down : objects[o].restarts < MaxRestarts}
<1>1. /\ job[Health].at \in {"idle", "between"} /\ Health \in Coroutines
      /\ UNCHANGED <<servers, dict, procs, saved, torn, healthOn, boots, cancels, wanted, dropped>>
      BY DEF HealthCheck, file, bounds, wishes, Coroutines
<1>2. \A o \in list : o \in 1..Len(objects)
  <2>1. \A n \in Registered : servers[n] \in 1..Len(objects)
        BY Entry DEF Registered
  <2>2. job[Health].todo \subseteq 1..Len(objects)
        BY <1>1 DEF ServersInv, JobsInRange, Todo
  <2> QED BY <2>1, <2>2
<1>3. CASE /\ objects' = [o \in 1..Len(objects) |->
                             IF o \in down THEN [objects[o] EXCEPT !.status = "error"] ELSE objects[o]]
           /\ job' = [job EXCEPT ![Health] = Idle]
           /\ UNCHANGED <<toolsets, overlap>>
  <2>1. \A o \in down : o \in 1..Len(objects)
        BY <1>2
  <2>2. UNCHANGED <<adapters, tools, taken, overlap>>
        BY <1>3 DEF toolsets
  <2> HIDE DEF down
  <2> QED BY <1>1, <1>3, <2>1, <2>2, PassEnds
<1>4. ASSUME NEW o \in due,
             objects' = [x \in 1..Len(objects) |->
                 IF x = o THEN [objects[x] EXCEPT !.status = "restarting", !.restarts = @ + 1]
                 ELSE IF x \in down /\ x < o THEN [objects[x] EXCEPT !.status = "error"] ELSE objects[x]],
             RemoveTools(o), Watch(o),
             job' = [job EXCEPT ![Health] = [Idle EXCEPT !.op = "health", !.at = "spawning",
                                                 !.obj = o, !.todo = {x \in list : x > o}]]
      PROVE  ServersInv'
  <2> DEFINE first == {x \in down : x < o}
             left  == {x \in list : x > o}
             r     == [Idle EXCEPT !.op = "health", !.at = "spawning", !.obj = o, !.todo = left]
  <2>1. o \in 1..Len(objects) /\ objects[o].restarts < MaxRestarts /\ ~Running(objects[o].protocol)
        BY <1>2 DEF Down
  <2>2. o \in Nat /\ o # 0
        BY <2>1, Lengths
  <2>3. \A x : x \in down /\ x < o <=> x \in first
        OBVIOUS
  <2>4. left \subseteq 1..Len(objects) /\ left \subseteq Nat
    <3>1. left \subseteq 1..Len(objects)
          BY <1>2
    <3>2. \A x \in 1..Len(objects) : x \in Nat
          BY Lengths
    <3> HIDE DEF left
    <3> QED BY <3>1, <3>2
  <2>5. job' = [job EXCEPT ![Health] = r]
        BY <1>4
  <2> HIDE DEF list, down, due, left, first
  <2>6. objects' = [x \in 1..Len(objects) |->
             IF x = o THEN [objects[x] EXCEPT !.status = "restarting", !.restarts = @ + 1]
             ELSE IF x \in first THEN [objects[x] EXCEPT !.status = "error"] ELSE objects[x]]
        BY <1>4, <2>3
  <2>7. /\ r \in Jobs /\ r.op = "health" /\ r.at = "spawning" /\ r.obj = o /\ r.proc = 0
        /\ r.todo = left
        BY <2>2, <2>4 DEF Idle, Jobs, Ops, Places
  <2> HIDE DEF r
  <2>8. Todo(Health, r.todo)
        BY <2>4, <2>7, ServersAssumption DEF Todo
  <2>9. ~Working(Health) /\ job[Health].obj = 0
        BY <1>1 DEF Working, ServersInv, JobsInOrder, InOrder
  <2>10. /\ objects' \in Seq(Objects) /\ Len(objects') = Len(objects)
         /\ \A x \in 1..Len(objects) :
               /\ objects'[x].name = objects[x].name /\ objects'[x].protocol = objects[x].protocol
               /\ x # o => /\ objects'[x].tools = objects[x].tools
                           /\ objects'[x].status \in {objects[x].status, "error"}
         /\ objects'[o].status = "restarting"
         BY <2>1, <2>6, PassMarks
  <2>11. Health # Boot
         BY ServersAssumption
  <2> QED BY <1>1, <1>4, <2>1, <2>2, <2>5, <2>7, <2>8, <2>9, <2>10, <2>11, HealthRestarts
<1> QED BY <1>3, <1>4 DEF HealthCheck

-----------------------------------------------------------------------------
(* Cancellation, registration, the start of a process, and a boot.         *)

\* A call is cancelled wherever it is; from then on little is promised.
LEMMA CancelStep ==
    ASSUME ServersInv, NEW j \in Requests, Cancel(j)
    PROVE  ServersInv'
<1>1. /\ j \in Coroutines /\ job' = [job EXCEPT ![j] = Idle]
      /\ UNCHANGED <<objects, servers, dict, adapters, tools, taken, saved, torn, healthOn, boots, overlap>>
      /\ UNCHANGED <<wanted, dropped>>
      /\ cancels < MaxCancels /\ cancels' = cancels + 1
      BY DEF Cancel, registry, toolsets, file, wishes, Coroutines
<1>2. /\ cancels \in Nat /\ cancels' # 0 /\ cancels' \in 0..MaxCancels
      BY <1>1, ServersAssumption DEF ServersInv, Types
<1>3. /\ procs' \in Seq(BOOLEAN) /\ Len(procs') \in {Len(procs), Len(procs) + 1}
      /\ Len(procs') <= MaxProcesses
  <2>1. CASE job[j].at = "closing" /\ procs' = [procs EXCEPT ![job[j].proc] = FALSE]
    <3>1. job[j].proc \in 1..Len(procs)
          BY <1>1, <2>1, JobTyped DEF ServersInv, JobsInOrder, InOrder
    <3>2. procs' \in Seq(BOOLEAN) /\ Len(procs') = Len(procs)
          BY <2>1, <3>1, Lengths, Changed
    <3> QED BY <3>2 DEF ServersInv, Types
  <2>2. CASE Len(procs) < MaxProcesses /\ procs' = Append(procs, TRUE)
    <3>1. procs' \in Seq(BOOLEAN) /\ Len(procs') = Len(procs) + 1
          BY <2>2, Lengths, Longer
    <3>2. Len(procs) \in Nat /\ MaxProcesses \in Nat
          BY Lengths, ServersAssumption
    <3> QED BY <2>2, <3>1, <3>2
  <2>3. CASE UNCHANGED procs
        BY <2>3 DEF ServersInv, Types
  <2> QED BY <2>1, <2>2, <2>3 DEF Cancel
<1>4. /\ Idle \in Jobs /\ InOrder(Idle) /\ Todo(j, Idle.todo) /\ Idle.obj = 0 /\ Idle.proc = 0
      /\ Idle.op = "none"
      BY <1>1, Ended
<1>5. /\ job' \in [Coroutines -> Jobs] /\ JobsInOrder' /\ JobsInRange' /\ job'[j] = Idle
      /\ \A k \in Coroutines : k # j => job'[k] = job[k]
  <2>1. Len(objects') \in {Len(objects), Len(objects) + 1}
        BY <1>1
  <2>2. Idle.obj <= Len(objects') /\ Idle.proc <= Len(procs')
        BY <1>1, <1>3, <1>4, Lengths
  <2> QED BY <1>1, <1>3, <1>4, <2>1, <2>2, JobGrows
<1>6. Types'
      BY <1>1, <1>2, <1>3, <1>5 DEF ServersInv, Types
<1>7. ObjectsInRange'
  <2>1. \A o \in 1..Len(objects) : objects[o].protocol <= Len(procs')
        BY <1>3, Lengths
  <2> QED BY <1>1, <2>1 DEF ServersInv, ObjectsInRange
<1>8. Entered'
  <2>1. ASSUME NEW k \in Coroutines, job'[k].op \in {"register", "unregister"}
        PROVE  job'[k] = job[k] /\ NameOf(k)' = NameOf(k)
    <3>1. k # j
          BY <1>4, <1>5, <2>1
    <3>2. job'[k] = job[k]
          BY <1>5, <3>1
    <3> QED BY <1>1, <3>2 DEF NameOf
  <2> QED BY <1>1, <2>1 DEF ServersInv, Entered
<1>9. /\ Pending' /\ Undisturbed' /\ ProcessesAccounted' /\ ToolsMatchServers' /\ Provided'
      /\ Kept' /\ WantedIsSaved'
  <2>1. ~Calm'
        BY <1>2 DEF Calm
  <2> QED BY <1>2, <2>1 DEF Pending, Undisturbed, ProcessesAccounted, ToolsMatchServers, Provided, Kept,
                            WantedIsSaved
<1> QED BY <1>5, <1>6, <1>7, <1>8, <1>9 DEF ServersInv

\* A free name gets an object, and nothing else changes.
LEMMA RegisterStep ==
    ASSUME ServersInv, NEW j \in Coroutines, NEW n \in Names, Resting(j), Register(j, n)
    PROVE  ServersInv'
<1> DEFINE o == Len(objects) + 1
           x == [name |-> n, status |-> "starting", protocol |-> 0, tools |-> FALSE, restarts |-> 0]
           r == [op |-> "register", at |-> "spawning", obj |-> o, proc |-> 0, dict |-> dict,
                 todo |-> job[j].todo \ {n}]
<1>1. /\ servers[n] = 0 /\ job[j].obj = 0 /\ ~Working(j)
      /\ UNCHANGED <<dict, procs, adapters, tools, taken, saved, torn, healthOn, boots, cancels, overlap>>
      /\ UNCHANGED <<wanted, dropped>>
      BY DEF Register, toolsets, file, bounds, wishes, ServersInv, JobsInOrder, InOrder, Resting, Working
<1>2. /\ Len(objects) \in Nat /\ o \in Nat /\ o # 0 /\ o \notin 1..Len(objects)
      /\ 1..o = (1..Len(objects)) \cup {o}
      BY Lengths
<1>3. x \in Objects
  <2>1. 0 \in 0..MaxRestarts
        BY ServersAssumption
  <2> QED BY <2>1 DEF Objects, Statuses
<1>4. /\ objects' \in Seq(Objects) /\ Len(objects') = o /\ objects'[o] = x
      /\ \A y \in 1..Len(objects) : objects'[y] = objects[y]
  <2>1. objects' = Append(objects, x)
        BY DEF Register
  <2> HIDE DEF x
  <2> QED BY <1>3, <2>1, Lengths, Longer
<1>5. \A m \in Names : servers'[m] = IF m = n THEN o ELSE servers[m]
  <2>1. servers' = [servers EXCEPT ![n] = o] /\ servers \in [Names -> Nat]
        BY DEF Register, ServersInv, Types
  <2> HIDE DEF o
  <2> QED BY <2>1
<1>6. /\ r \in Jobs /\ r.op = "register" /\ r.at = "spawning" /\ r.obj = o /\ r.proc = 0
      /\ r.dict = dict /\ r.todo = job[j].todo \ {n}
  <2>1. dict \in Nat /\ job[j].todo \ {n} \subseteq Names \cup Nat
        BY JobTyped DEF Jobs, ServersInv, Types
  <2> HIDE DEF o
  <2> QED BY <1>2, <2>1 DEF Jobs, Ops, Places
<1>7. job' = [job EXCEPT ![j] = r]
      BY DEF Register
<1> HIDE DEF r, x
<1>8. /\ job' \in [Coroutines -> Jobs] /\ JobsInOrder' /\ JobsInRange' /\ job'[j] = r
      /\ \A k \in Coroutines : k # j => job'[k] = job[k]
  <2>1. InOrder(r)
        BY <1>2, <1>6 DEF InOrder
  <2>2. Todo(j, r.todo)
        BY <1>6, Ended DEF Todo
  <2>3. Len(objects') \in {Len(objects), Len(objects) + 1} /\ Len(procs') \in {Len(procs), Len(procs) + 1}
        BY <1>1, <1>4
  <2>4. r.obj <= Len(objects') /\ r.proc <= Len(procs')
        BY <1>1, <1>2, <1>4, <1>6, Lengths
  <2> QED BY <1>6, <1>7, <2>1, <2>2, <2>3, <2>4, JobGrows
<1>9. servers' \in [Names -> Nat]
  <2>1. servers' = [servers EXCEPT ![n] = o] /\ servers \in [Names -> Nat]
        BY DEF Register, ServersInv, Types
  <2> HIDE DEF o
  <2> QED BY <1>2, <2>1
<1>10. Types'
       BY <1>1, <1>4, <1>8, <1>9 DEF ServersInv, Types
<1> HIDE DEF o
<1>11. ObjectsInRange'
  <2>1. \A m \in Names : servers'[m] <= o
        BY <1>2, <1>5, Entry
  <2>2. x.protocol <= Len(procs)
    <3>1. x.protocol = 0
          BY DEF x
    <3> QED BY <3>1, Lengths
  <2>3. ASSUME NEW y \in 1..o
        PROVE  objects'[y].protocol <= Len(procs)
    <3>1. CASE y = o
          BY <1>4, <2>2, <3>1
    <3>2. CASE y # o
      <4>1. y \in 1..Len(objects)
            BY <1>2, <3>2, Lengths
      <4> QED BY <1>4, <4>1, Lengths
    <3> QED BY <3>1, <3>2
  <2> QED BY <1>1, <1>4, <2>1, <2>3 DEF ObjectsInRange
\* The others are at work on other objects, whose names are other names.
<1>12. ASSUME NEW k \in Coroutines, k # j, ~Resting(k)
       PROVE  /\ job'[k] = job[k] /\ job[k].obj \in 1..Len(objects) /\ job[k].obj # o
              /\ NameOf(k)' = NameOf(k) /\ NameOf(k) \in Names
              /\ objects'[job[k].obj] = objects[job[k].obj]
  <2>1. job'[k] = job[k] /\ job[k].obj \in 1..Len(objects) /\ NameOf(k) \in Names
        BY <1>8, <1>12, HasObject
  <2>2. objects'[job[k].obj] = objects[job[k].obj]
        BY <1>4, <2>1
  <2>3. NameOf(k)' = NameOf(k)
        BY <2>1, <2>2 DEF NameOf
  <2> QED BY <1>2, <2>1, <2>2, <2>3
<1>13. /\ NameOf(j)' = n /\ job'[j].obj = o /\ job'[j].op = "register" /\ job'[j].at = "spawning"
       /\ job'[j].dict = dict /\ objects'[o].name = n /\ objects'[o].protocol = 0
       /\ ~objects'[o].tools /\ objects'[o].status = "starting"
       BY <1>4, <1>6, <1>8 DEF NameOf, x
<1>14. ASSUME NEW m \in Names, m # n, servers[m] # 0
       PROVE  /\ servers'[m] = servers[m] /\ objects'[servers[m]] = objects[servers[m]]
              /\ servers[m] \in 1..Len(objects) /\ objects[servers[m]].name = m
       BY <1>4, <1>5, <1>14, Entry
<1>15. Entered'
  <2>1. ASSUME NEW m \in Names, servers'[m] # 0 PROVE objects'[servers'[m]].name = m
    <3>1. CASE m = n
          BY <1>5, <1>13, <3>1
    <3>2. CASE m # n
          BY <1>5, <1>14, <2>1, <3>2
    <3> QED BY <3>1, <3>2
  <2>2. ASSUME NEW k \in Coroutines, job'[k].op \in {"register", "unregister"},
               servers'[NameOf(k)'] = job'[k].obj
        PROVE  job'[k].dict = dict
    <3>1. CASE k = j
          BY <1>13, <3>1
    <3>2. CASE k # j
      <4>1. job'[k] = job[k]
            BY <1>8, <3>2
      <4>2. ~Resting(k)
            BY <2>2, <4>1, AtWork
      <4>3. NameOf(k) # n
            BY <1>5, <1>12, <2>2, <3>2, <4>1, <4>2
      <4> QED BY <1>5, <1>12, <2>2, <3>2, <4>1, <4>2, <4>3 DEF ServersInv, Entered
    <3> QED BY <3>1, <3>2
  <2> QED BY <1>1, <2>1, <2>2 DEF Entered
<1>16. Pending'
  <2>1. SUFFICES ASSUME cancels = 0, NEW m \in Names, servers'[m] # 0,
                        objects'[servers'[m]].status \in {"starting", "restarting", "stopping"}
                 PROVE  \E k \in Coroutines : job'[k].obj = servers'[m] /\ job'[k].at \in {"closing", "spawning"}
        BY <1>1 DEF Pending
  <2>2. CASE m = n
        BY <1>5, <1>13, <2>2
  <2>3. CASE m # n
    <3>1. servers[m] # 0 /\ servers'[m] = servers[m] /\ objects'[servers[m]] = objects[servers[m]]
          BY <1>5, <1>14, <2>1, <2>3
    <3>2. PICK k \in Coroutines : job[k].obj = servers[m] /\ job[k].at \in {"closing", "spawning"}
          BY <2>1, <3>1 DEF ServersInv, Pending
    <3>3. job'[k] = job[k]
          BY <1>1, <1>8, <3>1, <3>2
    <3> QED BY <3>1, <3>2, <3>3
  <2> QED BY <2>2, <2>3
<1>17. Undisturbed'
  <2>1. SUFFICES ASSUME Calm, NEW k \in Coroutines, Working(k)' PROVE Alone(k)'
        BY <1>1 DEF Undisturbed, Calm
  <2>2. \A y \in Coroutines : y # j /\ Working(y)' =>
            /\ Working(y) /\ ~Resting(y) /\ job'[y] = job[y] /\ job[y].obj # o /\ Alone(y)
    <3>1. ASSUME NEW y \in Coroutines, y # j, Working(y)'
          PROVE  Working(y) /\ ~Resting(y) /\ job'[y] = job[y] /\ job[y].obj # o /\ Alone(y)
      <4>1. Working(y) /\ job'[y] = job[y]
            BY <1>8, <3>1 DEF Working
      <4>2. ~Resting(y) /\ Alone(y)
            BY <2>1, <4>1, AtWork DEF ServersInv, Undisturbed
      <4> QED BY <1>12, <3>1, <4>1, <4>2
    <3> QED BY <3>1
  <2>3. CASE k = j
    <3>1. ~Running(objects[job[j].obj].protocol)'
          BY <1>13 DEF Running
    <3>2. \A y \in Coroutines : Working(y)' /\ job'[y].obj = o => y = j
          BY <2>2
    <3> QED BY <1>5, <1>13, <2>3, <3>1, <3>2 DEF Alone
  <2>4. CASE k # j
    <3>1. /\ Alone(k) /\ job'[k] = job[k] /\ job[k].obj # o /\ NameOf(k)' = NameOf(k)
          /\ NameOf(k) \in Names /\ objects'[job[k].obj] = objects[job[k].obj]
          /\ job[k].obj \in 1..Len(objects)
          BY <1>12, <2>1, <2>2, <2>4
    <3>2. servers'[NameOf(k)] = job[k].obj
          BY <1>1, <1>2, <1>5, <3>1 DEF Alone
    <3>3. Running(objects[job[k].obj].protocol)' <=> Running(objects[job[k].obj].protocol)
          BY <1>1, <3>1 DEF Running
    <3>4. \A y \in Coroutines : Working(y)' /\ job'[y].obj = job[k].obj => y = k
          BY <1>13, <2>2, <3>1 DEF Alone
    <3> QED BY <3>1, <3>2, <3>3, <3>4 DEF Alone
  <2> QED BY <2>3, <2>4
<1>18. ProcessesAccounted'
  <2>1. SUFFICES ASSUME Calm, NEW q \in 1..Len(procs), procs[q]
                 PROVE  \/ \E m \in Names : servers'[m] # 0 /\ objects'[servers'[m]].protocol = q
                        \/ \E y \in 1..o : /\ objects'[y].protocol = q /\ objects'[y].status = "error"
                                           /\ y # servers'[objects'[y].name]
        BY <1>1, <1>4 DEF ProcessesAccounted, Calm, Registered
  <2>2. CASE \E m \in Names : servers[m] # 0 /\ objects[servers[m]].protocol = q
    <3>1. PICK m \in Names : servers[m] # 0 /\ objects[servers[m]].protocol = q
          BY <2>2
    <3> QED BY <1>1, <1>14, <3>1
  <2>3. CASE \E y \in 1..Len(objects) : /\ objects[y].protocol = q /\ objects[y].status = "error"
                                        /\ y # servers[objects[y].name]
    <3>1. PICK y \in 1..Len(objects) : /\ objects[y].protocol = q /\ objects[y].status = "error"
                                       /\ y # servers[objects[y].name]
          BY <2>3
    <3>2. objects'[y] = objects[y] /\ y \in 1..o /\ y # o /\ objects[y].name \in Names
          BY <1>2, <1>4, <3>1, Lengths
    <3>3. y # servers'[objects'[y].name]
          BY <1>5, <3>1, <3>2
    <3> QED BY <3>1, <3>2, <3>3
  <2> QED BY <2>1, <2>2, <2>3 DEF ServersInv, ProcessesAccounted, Registered
<1>19. ToolsMatchServers' /\ Provided'
  <2>1. SUFFICES ASSUME Calm PROVE ToolsMatchServers' /\ Provided'
        BY <1>1 DEF ToolsMatchServers, Provided, Calm
  <2>2. ASSUME NEW m \in tools
        PROVE  m \in Names /\ servers'[m] # 0 /\ objects'[servers'[m]].tools
    <3>1. m \in Names /\ servers[m] # 0 /\ objects[servers[m]].tools
          BY <2>1, <2>2 DEF ServersInv, Types, Provided
    <3> QED BY <1>1, <1>14, <3>1
  <2>3. ASSUME NEW m \in Names, servers'[m] # 0, objects'[servers'[m]].status = "running",
               Busy(servers[m])' = {}
        PROVE  m \in tools
    <3>1. m # n
          BY <1>5, <1>13, <2>3
    <3>2. servers[m] # 0 /\ servers'[m] = servers[m] /\ objects'[servers[m]] = objects[servers[m]]
          BY <1>5, <1>14, <2>3, <3>1
    <3>3. ASSUME NEW k \in Coroutines, job[k].obj = servers[m], job[k].at \in {"closing", "spawning", "listing"}
          PROVE  FALSE
      <4>1. job'[k] = job[k]
            BY <1>1, <1>8, <3>2, <3>3
      <4>2. k \in Busy(servers[m])'
            BY <3>2, <3>3, <4>1 DEF Busy
      <4> QED BY <2>3, <4>2
    <3>4. Busy(servers[m]) = {}
          BY <3>3 DEF Busy
    <3> QED BY <2>1, <2>3, <3>2, <3>4 DEF ServersInv, ToolsMatchServers, Registered
  <2>4. tools' = tools /\ Divided'
        BY <1>1, <2>1 DEF ServersInv, ToolsMatchServers, Divided
  <2> QED BY <2>2, <2>3, <2>4 DEF ToolsMatchServers, Provided, Registered, Divided
<1>20. Kept' /\ WantedIsSaved'
  <2>1. UNCHANGED <<wanted, dropped, saved, torn>> /\ (Calm' <=> Calm)
        BY <1>1 DEF Calm
  <2>2. ASSUME NEW k \in Coroutines, k # j, job'[k].op \in {"register", "unregister"}
        PROVE  job'[k] = job[k] /\ NameOf(k)' = NameOf(k)
    <3>1. job'[k] = job[k]
          BY <1>8, <2>2
    <3>2. ~Resting(k)
          BY <2>2, <3>1, AtWork
    <3> QED BY <1>12, <2>2, <3>1, <3>2
  <2>3. ToRestore \subseteq ToRestore'
    <3>1. Boot \in Coroutines
          BY DEF Coroutines
    <3>2. CASE j = Boot
      <4>1. job[Boot].op # "register"
            BY <3>1, <3>2, AtWork DEF Resting, Working
      <4>2. ToRestore' = (job[Boot].todo \ {n}) \cup {n}
            BY <1>6, <1>8, <1>13, <3>2 DEF ToRestore
      <4> QED BY <4>1, <4>2 DEF ToRestore
    <3>3. CASE j # Boot
      <4>1. job'[Boot] = job[Boot]
            BY <1>8, <3>1, <3>3
      <4>2. job[Boot].op = "register" => NameOf(Boot)' = NameOf(Boot)
            BY <2>2, <3>1, <3>3, <4>1
      <4> QED BY <4>1, <4>2 DEF ToRestore
    <3> QED BY <3>2, <3>3
  <2>4. ASSUME Calm
        PROVE  wanted \subseteq Registered' \cup dropped' \cup ToRestore'
    <3>1. Registered \subseteq Registered'
          BY <1>2, <1>5 DEF Registered
    <3> QED BY <2>1, <2>3, <2>4, <3>1 DEF ServersInv, Kept
  <2>5. ASSUME Calm, NEW k \in Coroutines, NameOf(k)' \in wanted
        PROVE  /\ job'[k].op # "unregister"
               /\ job'[k].op = "register" => NameOf(k)' \in dropped' \cup ToRestore'
    <3>1. CASE k = j
      <4>1. n \notin Registered
            BY <1>1 DEF Registered
      <4>2. n \in wanted => n \in dropped \cup ToRestore
            BY <2>5, <4>1 DEF ServersInv, Kept
      <4> QED BY <1>13, <2>1, <2>3, <2>5, <3>1, <4>2
    <3>2. CASE k # j
          BY <2>1, <2>2, <2>3, <2>5, <3>2 DEF ServersInv, Kept
    <3> QED BY <3>1, <3>2
  <2>6. Kept'
        BY <2>1, <2>4, <2>5 DEF Kept
  <2>7. WantedIsSaved'
        BY <2>1, <2>3 DEF ServersInv, WantedIsSaved
  <2> QED BY <2>6, <2>7
<1> QED BY <1>8, <1>10, <1>11, <1>15, <1>16, <1>17, <1>18, <1>19, <1>20 DEF ServersInv


\* initialize_server has answered: the object has a new process, and the old
\* one was dead.
LEMMA SpawnedStep ==
    ASSUME ServersInv, NEW j \in Coroutines, Spawned(j)
    PROVE  ServersInv'
<1>0. /\ job[j].at = "spawning" /\ ~Resting(j) /\ Working(j) /\ Len(procs) < MaxProcesses
      /\ UNCHANGED <<servers, dict, adapters, tools, taken, saved, torn, healthOn, boots, cancels, overlap>>
      /\ UNCHANGED <<wanted, dropped>>
      BY DEF Spawned, toolsets, file, bounds, wishes, Resting, Working
<1>1. PICK o \in 1..Len(objects) : o = job[j].obj
      BY <1>0, HasObject
<1>2. PICK p \in Nat : p = Len(procs) + 1
      BY Lengths
<1>3. PICK n \in Names : n = objects[o].name /\ n = NameOf(j)
      BY <1>0, <1>1, HasObject
<1>4. /\ objects[o] \in Objects /\ o # 0 /\ p # 0 /\ p \notin 1..Len(procs) /\ p <= MaxProcesses
      /\ 1..p = (1..Len(procs)) \cup {p}
  <2>1. Len(objects) \in Nat /\ Len(procs) \in Nat /\ MaxProcesses \in Nat
        BY Lengths, ServersAssumption
  <2> QED BY <1>0, <1>1, <1>2, <2>1, Lengths
<1>5. /\ procs' \in Seq(BOOLEAN) /\ Len(procs') = p /\ procs'[p]
      /\ \A q \in 1..Len(procs) : procs'[q] = procs[q]
  <2>1. procs' = Append(procs, TRUE)
        BY DEF Spawned
  <2> QED BY <1>2, <2>1, Lengths, Longer
<1>6. PICK x \in Objects : /\ x = [objects[o] EXCEPT !.protocol = p, !.status = "running"]
                           /\ x.name = n /\ x.status = "running" /\ x.protocol = p
                           /\ x.tools = objects[o].tools
  <2>1. \A r \in Objects :
           LET y == [r EXCEPT !.protocol = p, !.status = "running"]
           IN /\ y \in Objects /\ y.name = r.name /\ y.status = "running" /\ y.protocol = p
              /\ y.tools = r.tools
        BY DEF Objects, Statuses
  <2>2. objects[o] \in Objects /\ objects[o].name = n
        BY <1>3, <1>4
  <2> QED BY <2>1, <2>2
<1>7. /\ objects' \in Seq(Objects) /\ Len(objects') = Len(objects) /\ objects'[o] = x
      /\ \A y \in 1..Len(objects) : y # o => objects'[y] = objects[y]
  <2>1. objects' = [objects EXCEPT ![o] = x]
        BY <1>1, <1>2, <1>6 DEF Spawned
  <2>2. objects \in Seq(Objects)
        BY Lengths
  <2> QED BY <2>1, <2>2, Changed
<1>8. PICK r \in Jobs : /\ r = [job[j] EXCEPT !.at = "listing", !.proc = p]
                        /\ r.at = "listing" /\ r.op = job[j].op /\ r.obj = o /\ r.proc = p
                        /\ r.dict = job[j].dict /\ r.todo = job[j].todo
  <2>1. \A y \in Jobs :
           LET z == [y EXCEPT !.at = "listing", !.proc = p]
           IN /\ z \in Jobs /\ z.at = "listing" /\ z.op = y.op /\ z.obj = y.obj /\ z.proc = p
              /\ z.dict = y.dict /\ z.todo = y.todo
        BY DEF Jobs, Places
  <2> QED BY <1>1, <2>1, JobTyped
<1>9. /\ job' \in [Coroutines -> Jobs] /\ JobsInOrder' /\ JobsInRange' /\ job'[j] = r
      /\ \A k \in Coroutines : k # j => job'[k] = job[k]
  <2>1. job' = [job EXCEPT ![j] = r]
        BY <1>2, <1>8 DEF Spawned
  <2>2. InOrder(job[j])
        BY DEF ServersInv, JobsInOrder
  <2>3. InOrder(r)
        BY <1>0, <1>1, <1>4, <1>8, <2>2 DEF InOrder
  <2>4. Todo(j, r.todo)
        BY <1>8, Ended
  <2>5. /\ Len(objects') \in {Len(objects), Len(objects) + 1} /\ Len(procs') \in {Len(procs), Len(procs) + 1}
        /\ r.obj <= Len(objects') /\ r.proc <= Len(procs')
        BY <1>2, <1>5, <1>7, <1>8, Lengths
  <2> QED BY <2>1, <2>3, <2>4, <2>5, JobGrows
<1>10. Types'
       BY <1>0, <1>4, <1>5, <1>7, <1>9 DEF ServersInv, Types
<1>11. ObjectsInRange'
  <2>1. ASSUME NEW y \in 1..Len(objects) PROVE objects'[y].protocol <= p
    <3>1. CASE y = o
      <4>1. objects'[y].protocol = p
            BY <1>6, <1>7, <3>1
      <4> QED BY <1>2, <4>1
    <3>2. CASE y # o
      <4>1. objects[y].protocol \in Nat /\ objects[y].protocol <= Len(procs) /\ Len(procs) \in Nat
            BY Lengths
      <4> QED BY <1>2, <1>7, <3>2, <4>1
    <3> QED BY <3>1, <3>2
  <2> QED BY <1>0, <1>5, <1>7, <2>1 DEF ServersInv, ObjectsInRange
\* All names, objects and purposes stay.
<1>12. \A y \in 1..Len(objects) : objects'[y].name = objects[y].name /\ objects'[y].tools = objects[y].tools
       BY <1>3, <1>6, <1>7
<1>13. ASSUME NEW k \in Coroutines, ~Resting(k)
       PROVE  /\ NameOf(k)' = NameOf(k) /\ NameOf(k) \in Names /\ job[k].obj \in 1..Len(objects)
              /\ job'[k].obj = job[k].obj
  <2>1. job[k].obj \in 1..Len(objects) /\ NameOf(k) \in Names /\ job'[k].obj = job[k].obj
        BY <1>1, <1>8, <1>9, <1>13, HasObject
  <2> QED BY <1>12, <2>1 DEF NameOf
<1>14. \A k \in Coroutines : job'[k].op = job[k].op /\ job'[k].dict = job[k].dict
       BY <1>8, <1>9
<1>15. Entered'
  <2>1. ASSUME NEW m \in Names, servers'[m] # 0 PROVE objects'[servers'[m]].name = m
        BY <1>0, <1>12, <2>1, Entry
  <2>2. ASSUME NEW k \in Coroutines, job'[k].op \in {"register", "unregister"},
               servers'[NameOf(k)'] = job'[k].obj
        PROVE  job'[k].dict = dict'
    <3>1. ~Resting(k) /\ job[k].op \in {"register", "unregister"}
          BY <1>14, <2>2, AtWork
    <3>2. servers[NameOf(k)] = job[k].obj
          BY <1>0, <1>13, <2>2, <3>1
    <3> QED BY <1>0, <1>14, <3>1, <3>2 DEF ServersInv, Entered
  <2> QED BY <2>1, <2>2 DEF Entered
<1>16. Pending'
  <2>1. SUFFICES ASSUME cancels = 0, NEW m \in Names, servers[m] # 0,
                        objects'[servers[m]].status \in {"starting", "restarting", "stopping"}
                 PROVE  \E k \in Coroutines : job'[k].obj = servers[m] /\ job'[k].at \in {"closing", "spawning"}
        BY <1>0 DEF Pending
  <2>2. servers[m] # o /\ objects'[servers[m]] = objects[servers[m]]
        BY <1>6, <1>7, <2>1, Entry
  <2>3. PICK k \in Coroutines : job[k].obj = servers[m] /\ job[k].at \in {"closing", "spawning"}
        BY <2>1, <2>2 DEF ServersInv, Pending
  <2>4. job'[k] = job[k]
        BY <1>1, <1>9, <2>2, <2>3
  <2> QED BY <2>3, <2>4
<1>17. Undisturbed'
  <2>1. SUFFICES ASSUME Calm, NEW k \in Coroutines, Working(k)' PROVE Alone(k)'
        BY <1>0 DEF Undisturbed, Calm
  <2>2. ASSUME NEW y \in Coroutines, Working(y)'
        PROVE  Working(y) /\ ~Resting(y) /\ Alone(y) /\ job'[y].obj = job[y].obj
    <3>1. Working(y) /\ ~Resting(y)
          BY <1>0, <1>9, <2>2, AtWork DEF Working
    <3> QED BY <1>13, <2>1, <3>1 DEF ServersInv, Undisturbed
  <2>3. \A y \in Coroutines : Working(y)' /\ job'[y].obj = job'[k].obj => y = k
        BY <2>1, <2>2 DEF Alone
  <2>4. Alone(k) /\ ~Resting(k) /\ job'[k].obj = job[k].obj
        BY <2>1, <2>2
  <2>5. servers'[NameOf(k)'] = job'[k].obj
        BY <1>0, <1>13, <2>4 DEF Alone
  <2>6. job'[k].op = "register" => ~objects'[job'[k].obj].tools
        BY <1>12, <1>13, <1>14, <2>4 DEF Alone
  <2>7. IF job'[k].at = "spawning" THEN ~Running(objects[job[k].obj].protocol)'
        ELSE job'[k].proc = objects'[job'[k].obj].protocol
    <3>1. CASE k = j
      <4>1. job'[k].at = "listing" /\ job'[k].proc = p /\ job'[k].obj = o
            BY <1>8, <1>9, <3>1
      <4>2. objects'[job'[k].obj].protocol = p
            BY <1>6, <1>7, <4>1
      <4> QED BY <4>1, <4>2
    <3>2. CASE k # j
      <4>1. job'[k] = job[k] /\ job[k].obj # o /\ objects'[job[k].obj] = objects[job[k].obj]
            BY <1>0, <1>1, <1>7, <1>9, <1>13, <2>4, <3>2 DEF Alone
      <4>2. objects[job[k].obj].protocol \in Nat /\ objects[job[k].obj].protocol <= Len(procs)
            BY <1>13, <2>4, Lengths
      <4>3. Running(objects[job[k].obj].protocol)' <=> Running(objects[job[k].obj].protocol)
            BY <1>5, <4>1, <4>2, Lengths DEF Running
      <4> QED BY <2>4, <4>1, <4>3 DEF Alone
    <3> QED BY <3>1, <3>2
  <2> QED BY <2>3, <2>5, <2>6, <2>7 DEF Alone
<1>18. ProcessesAccounted'
  <2>1. SUFFICES ASSUME Calm, NEW q \in 1..p, procs'[q]
                 PROVE  \/ \E m \in Names : servers[m] # 0 /\ objects'[servers[m]].protocol = q
                        \/ \E y \in 1..Len(objects) : /\ objects'[y].protocol = q /\ objects'[y].status = "error"
                                                      /\ y # servers[objects'[y].name]
        BY <1>0, <1>5, <1>7 DEF ProcessesAccounted, Calm, Registered
  <2>2. servers[n] = o /\ ~Running(objects[o].protocol)
        BY <1>0, <1>1, <1>3, <2>1 DEF ServersInv, Undisturbed, Alone
  <2>3. CASE q = p
        BY <1>4, <1>6, <1>7, <2>2, <2>3
  <2>4. CASE q # p
    <3>1. q \in 1..Len(procs) /\ procs[q] /\ q # 0
      <4>1. q \in 1..Len(procs)
            BY <1>4, <2>4
      <4> QED BY <1>5, <2>1, <4>1
    <3>2. objects[o].protocol # q
          BY <2>2, <3>1 DEF Running
    <3>3. CASE \E m \in Names : servers[m] # 0 /\ objects[servers[m]].protocol = q
      <4>1. PICK m \in Names : servers[m] # 0 /\ objects[servers[m]].protocol = q
            BY <3>3
      <4>2. objects'[servers[m]] = objects[servers[m]]
            BY <1>7, <3>2, <4>1, Entry
      <4> QED BY <4>1, <4>2
    <3>4. CASE \E y \in 1..Len(objects) : /\ objects[y].protocol = q /\ objects[y].status = "error"
                                          /\ y # servers[objects[y].name]
      <4>1. PICK y \in 1..Len(objects) : /\ objects[y].protocol = q /\ objects[y].status = "error"
                                         /\ y # servers[objects[y].name]
            BY <3>4
      <4>2. objects'[y] = objects[y]
            BY <1>7, <3>2, <4>1
      <4> QED BY <4>1, <4>2
    <3> QED BY <2>1, <3>1, <3>3, <3>4 DEF ServersInv, ProcessesAccounted, Registered
  <2> QED BY <2>3, <2>4
<1>19. ToolsMatchServers' /\ Provided'
  <2>1. SUFFICES ASSUME Calm PROVE ToolsMatchServers' /\ Provided'
        BY <1>0 DEF ToolsMatchServers, Provided, Calm
  <2>2. \A m \in Names : servers[m] # 0 => objects'[servers[m]].tools = objects[servers[m]].tools
        BY <1>12, Entry
  <2>3. Provided'
        BY <1>0, <2>1, <2>2 DEF ServersInv, Provided, Types
  <2>4. ASSUME NEW m \in Names, servers[m] # 0, objects'[servers[m]].status = "running",
               Busy(servers[m])' = {}
        PROVE  m \in tools
    <3>1. servers[m] # o
      <4>1. SUFFICES ASSUME servers[m] = o PROVE FALSE
            OBVIOUS
      <4>2. j \in Busy(servers[m])'
            BY <1>0, <1>8, <1>9, <4>1 DEF Busy
      <4> QED BY <2>4, <4>2
    <3>2. objects'[servers[m]] = objects[servers[m]]
          BY <1>7, <2>4, <3>1, Entry
    <3>3. ASSUME NEW k \in Coroutines, job[k].obj = servers[m], job[k].at \in {"closing", "spawning", "listing"}
          PROVE  FALSE
      <4>1. job'[k] = job[k]
            BY <1>1, <1>9, <3>1, <3>3
      <4>2. k \in Busy(servers[m])'
            BY <1>0, <3>3, <4>1 DEF Busy
      <4> QED BY <2>4, <4>2
    <3>4. Busy(servers[m]) = {}
          BY <3>3 DEF Busy
    <3> QED BY <2>1, <2>4, <3>2, <3>4 DEF ServersInv, ToolsMatchServers, Registered
  <2>5. /\ Divided' /\ tools' = tools /\ servers' = servers
        /\ tools' \subseteq {m \in Names : servers[m] # 0}
        BY <1>0, <2>1 DEF ServersInv, ToolsMatchServers, Registered, Divided
  <2> QED BY <2>3, <2>4, <2>5 DEF ToolsMatchServers, Registered, Divided
<1>20. Kept' /\ WantedIsSaved'
  <2>1. \A k \in Coroutines : job'[k].op \in {"register", "unregister"} =>
            job[k].op = job'[k].op /\ NameOf(k)' = NameOf(k)
        BY <1>13, <1>14, AtWork
  <2>2. ToRestore' = ToRestore
    <3>1. Boot \in Coroutines /\ job'[Boot].todo = job[Boot].todo
          BY <1>8, <1>9 DEF Coroutines
    <3>2. job'[Boot].op = job[Boot].op /\ (job[Boot].op = "register" => NameOf(Boot)' = NameOf(Boot))
          BY <1>14, <2>1, <3>1
    <3> QED BY <3>1, <3>2 DEF ToRestore
  <2>3. Registered' = Registered /\ (Calm' <=> Calm)
        BY <1>0 DEF Registered, Calm
  <2>4. Kept'
        BY <1>0, <1>14, <2>1, <2>2, <2>3 DEF ServersInv, Kept
  <2>5. WantedIsSaved'
        BY <1>0, <2>2, <2>3 DEF ServersInv, WantedIsSaved
  <2> QED BY <2>4, <2>5
<1> QED BY <1>9, <1>10, <1>11, <1>15, <1>16, <1>17, <1>18, <1>19, <1>20 DEF ServersInv

\* A boot forgets everything but the file, from which it restores.
LEMMA RebootStep ==
    ASSUME ServersInv, Reboot
    PROVE  ServersInv'
<1>1. /\ boots < MaxBoots /\ boots' = boots + 1
      /\ objects' = << >> /\ servers' = [n \in Names |-> 0] /\ dict' = 0 /\ procs' = << >>
      /\ adapters' = {} /\ tools' = {} /\ taken' = {} /\ healthOn' = FALSE /\ overlap' = FALSE
      /\ torn' = FALSE /\ UNCHANGED <<saved, cancels, wanted>>
      /\ dropped' = dropped \cup ToRestore \cup (IF torn \/ overlap THEN wanted \ saved ELSE {})
      BY DEF Reboot
<1>2. /\ Idle \in Jobs /\ InOrder(Idle) /\ Idle.todo = {} /\ Idle.obj = 0 /\ Idle.proc = 0
      /\ Idle.op = "none" /\ Idle.at = "idle"
      BY DEF Idle, Jobs, Ops, Places, InOrder
<1>3. PICK r \in Jobs : /\ r = EndOf([Idle EXCEPT !.todo = saved]) /\ InOrder(r) /\ r.todo = saved
                        /\ r.obj = 0 /\ r.proc = 0 /\ r.op = "none" /\ r.at \in {"idle", "between"}
  <2>1. saved \subseteq Names
        BY DEF ServersInv, Types
  <2>2. CASE saved = {}
        BY <1>2, <2>2 DEF EndOf, Idle
  <2>3. CASE saved # {}
    <3>1. EndOf([Idle EXCEPT !.todo = saved])
             = [op |-> "none", at |-> "between", obj |-> 0, proc |-> 0, dict |-> 0, todo |-> saved]
          BY <2>3 DEF EndOf, Idle
    <3> QED BY <2>1, <3>1 DEF Jobs, Ops, Places, InOrder
  <2> QED BY <2>2, <2>3
<1>4. \A j \in Coroutines : job'[j] = IF j = Boot THEN r ELSE Idle
      BY <1>3 DEF Reboot
<1>5. /\ job' \in [Coroutines -> Jobs]
      /\ \A j \in Coroutines : /\ job'[j].obj = 0 /\ job'[j].proc = 0 /\ job'[j].op = "none"
                               /\ job'[j].at \in {"idle", "between"} /\ InOrder(job'[j])
  <2>1. job' = [j \in Coroutines |-> IF j = Boot THEN r ELSE Idle]
        BY <1>3 DEF Reboot
  <2>2. job' \in [Coroutines -> Jobs]
        BY <1>2, <1>3, <2>1
  <2> QED BY <1>2, <1>3, <1>4, <2>2
<1>6. /\ boots' # 0 /\ boots' \in 0..MaxBoots /\ Len(objects') = 0 /\ Len(procs') = 0
      /\ objects' \in Seq(Objects) /\ procs' \in Seq(BOOLEAN) /\ Len(procs') <= MaxProcesses
      /\ \A n \in Names : servers'[n] = 0
  <2>1. boots \in Nat /\ MaxBoots \in Nat /\ MaxProcesses \in Nat
        BY ServersAssumption DEF ServersInv, Types
  <2> QED BY <1>1, <2>1
<1>7. Types'
  <2>1. servers' \in [Names -> Nat]
        BY <1>1
  <2>2. /\ saved' \subseteq Names /\ wanted' \subseteq Names /\ cancels' \in 0..MaxCancels
        /\ dropped' \subseteq Names
        BY <1>1, RestoresNames DEF ServersInv, Types
  <2> QED BY <1>1, <1>5, <1>6, <2>1, <2>2 DEF Types
<1>8. ObjectsInRange'
      BY <1>6 DEF ObjectsInRange
<1>9. JobsInRange'
  <2>1. ASSUME NEW j \in Coroutines PROVE Todo(j, job[j].todo)'
    <3>1. CASE j = Boot
      <4>1. job'[j].todo \subseteq Names /\ j # Health /\ j \notin Requests
            BY <1>3, <1>4, <3>1, ServersAssumption DEF ServersInv, Types
      <4> QED BY <4>1 DEF Todo
    <3>2. CASE j # Boot
      <4>1. job'[j].todo = {}
            BY <1>2, <1>4, <3>2
      <4> QED BY <4>1 DEF Todo
    <3> QED BY <3>1, <3>2
  <2> QED BY <1>5, <1>6, <2>1 DEF JobsInRange
<1>10. JobsInOrder' /\ Entered'
       BY <1>5, <1>6 DEF JobsInOrder, Entered, InOrder
<1>11. Pending' /\ Undisturbed'
       BY <1>5, <1>6 DEF Pending, Undisturbed, Working
<1>12. ProcessesAccounted' /\ ToolsMatchServers' /\ Provided'
       BY <1>1, <1>6 DEF ProcessesAccounted, ToolsMatchServers, Provided, Registered
\* What is wanted was in the file, or the boot has dropped it.
<1>13. Kept' /\ WantedIsSaved'
  <2>1. ToRestore' = saved
    <3>1. job'[Boot].todo = saved /\ job'[Boot].op = "none"
          BY <1>3, <1>4 DEF Coroutines
    <3> QED BY <3>1 DEF ToRestore
  <2>2. ASSUME Calm' PROVE wanted \subseteq saved \cup dropped'
    <3>1. cancels = 0
          BY <1>1, <2>2 DEF Calm
    <3>2. CASE torn \/ overlap
          BY <1>1, <3>2
    <3>3. CASE ~torn /\ ~overlap
          BY <1>1, <3>1, <3>3 DEF ServersInv, WantedIsSaved, Calm
    <3> QED BY <3>2, <3>3
  <2> QED BY <1>1, <1>5, <2>1, <2>2 DEF Kept, WantedIsSaved
<1> QED BY <1>7, <1>8, <1>9, <1>10, <1>11, <1>12, <1>13 DEF ServersInv

\* The invariant holds before anything has been registered.
LEMMA ServersInitSound == ServersInit => ServersInv
<1> SUFFICES ASSUME ServersInit PROVE ServersInv
    OBVIOUS
<1>1. /\ objects = << >> /\ servers = [n \in Names |-> 0] /\ dict = 0 /\ procs = << >>
      /\ adapters = {} /\ tools = {} /\ taken = {} /\ saved = {} /\ wanted = {} /\ dropped = {}
      /\ job = [j \in Coroutines |-> Idle] /\ torn = FALSE
      /\ healthOn = FALSE /\ overlap = FALSE /\ boots = 0 /\ cancels = 0
      BY DEF ServersInit
<1>2. /\ Idle \in Jobs /\ InOrder(Idle) /\ Idle.todo = {} /\ Idle.obj = 0 /\ Idle.proc = 0
      /\ Idle.op = "none" /\ Idle.at = "idle"
      BY DEF Idle, Jobs, Ops, Places, InOrder
<1>3. job \in [Coroutines -> Jobs] /\ \A j \in Coroutines : job[j] = Idle
      BY <1>1, <1>2
<1>4. /\ objects \in Seq(Objects) /\ procs \in Seq(BOOLEAN) /\ Len(objects) = 0 /\ Len(procs) = 0
      /\ Len(procs) <= MaxProcesses /\ 0 \in 0..MaxBoots /\ 0 \in 0..MaxCancels
      BY <1>1, ServersAssumption
<1>5. servers \in [Names -> Nat] /\ \A n \in Names : servers[n] = 0
      BY <1>1
<1>6. Types
      BY <1>1, <1>3, <1>4, <1>5 DEF Types
<1>7. ObjectsInRange /\ JobsInRange /\ JobsInOrder
      BY <1>2, <1>3, <1>4, <1>5 DEF ObjectsInRange, JobsInRange, JobsInOrder, Todo
<1>8. Entered /\ Pending /\ Undisturbed
      BY <1>2, <1>3, <1>5 DEF Entered, Pending, Undisturbed, Working
<1>9. ProcessesAccounted /\ ToolsMatchServers /\ Provided
      BY <1>1, <1>4, <1>5 DEF ProcessesAccounted, ToolsMatchServers, Provided, Registered
<1>10. Kept /\ WantedIsSaved
       BY <1>1, <1>2, <1>3 DEF Kept, WantedIsSaved
<1> QED BY <1>6, <1>7, <1>8, <1>9, <1>10 DEF ServersInv

\* A step that changes nothing keeps the invariant.
LEMMA StutterStep == ServersInv /\ UNCHANGED serversVars => ServersInv'
<1> SUFFICES ASSUME ServersInv, UNCHANGED serversVars PROVE ServersInv'
    OBVIOUS
<1> USE DEF serversVars, registry, toolsets, file, bounds, wishes
<1>1. Types' /\ ObjectsInRange' /\ JobsInRange' /\ JobsInOrder'
      BY DEF ServersInv, Types, ObjectsInRange, JobsInRange, JobsInOrder, Todo, InOrder
<1>2. Entered' /\ Pending'
      BY DEF ServersInv, Entered, Pending, NameOf
<1>3. Undisturbed'
      BY DEF ServersInv, Undisturbed, Calm, Working, Alone, NameOf, Running
<1>4. ProcessesAccounted' /\ ToolsMatchServers' /\ Provided'
      BY DEF ServersInv, ProcessesAccounted, ToolsMatchServers, Provided, Calm, Registered, Busy
<1>5. Kept' /\ WantedIsSaved'
      BY DEF ServersInv, Kept, WantedIsSaved, Calm, Registered, NameOf, ToRestore
<1> QED BY <1>1, <1>2, <1>3, <1>4, <1>5 DEF ServersInv

-----------------------------------------------------------------------------
(* The theorems.                                                           *)

\* Every step of every coroutine, process and boot keeps the invariant.
LEMMA ServersStepSound == ServersInv /\ [ServersNext]_serversVars => ServersInv'
<1> SUFFICES ASSUME ServersInv, [ServersNext]_serversVars PROVE ServersInv'
    OBVIOUS
<1>1. ASSUME NEW j \in Requests, NEW n \in Names, RegisterRequest(j, n)
      PROVE  ServersInv'
  <2>1. j \in Coroutines /\ Resting(j) /\ Register(j, n)
        BY <1>1 DEF RegisterRequest, Serving, Resting, Coroutines
  <2> QED BY <2>1, RegisterStep
<1>2. ASSUME NEW j \in Requests, NEW n \in Names, Unregister(j, n)
      PROVE  ServersInv'
      BY <1>2, UnregisterStep
<1>3. ASSUME NEW j \in Requests, NEW n \in Names, Execute(j, n)
      PROVE  ServersInv'
      BY <1>3, ExecuteStep
<1>4. ASSUME NEW n \in Names, RestoreNext(n)
      PROVE  ServersInv'
  <2>1. Boot \in Coroutines /\ Resting(Boot) /\ Register(Boot, n)
        BY <1>4 DEF RestoreNext, Resting, Coroutines
  <2> QED BY <2>1, RegisterStep
<1>5. ASSUME NEW j \in Coroutines, Step(j)
      PROVE  ServersInv'
      BY <1>5, SpawnedStep, ListedStep, StartFailsStep, CloseEndsStep, CallEndsStep, CallBreaksStep DEF Step
<1>6. ASSUME NEW j \in Requests, Cancel(j)
      PROVE  ServersInv'
      BY <1>6, CancelStep
<1>7. ASSUME HealthCheck PROVE ServersInv'
      BY <1>7, HealthStep
<1>8. ASSUME NEW p \in 1..Len(procs), Crash(p)
      PROVE  ServersInv'
      BY <1>8, CrashStep
<1>9. ASSUME Reboot PROVE ServersInv'
      BY <1>9, RebootStep
<1>10. CASE UNCHANGED serversVars
       BY <1>10, StutterStep
<1> QED BY <1>1, <1>2, <1>3, <1>4, <1>5, <1>6, <1>7, <1>8, <1>9, <1>10 DEF ServersNext

\* The invariant implies ServersAccounted: the ranges that depend on what there is, and
\* that a passing state has somebody who works on it.
LEMMA ServersInvAccounts == ServersInv => ServersAccounted
<1> SUFFICES ASSUME ServersInv PROVE ServersAccounted
    OBVIOUS
<1>1. Len(objects) \in Nat /\ Len(procs) \in Nat
      BY Lengths
<1>2. objects \in Seq([name : Names, status : Statuses, protocol : 0..MaxProcesses,
                       tools : BOOLEAN, restarts : 0..MaxRestarts])
  <2>1. \A o \in 1..Len(objects) : objects[o] \in Objects /\ objects[o].protocol \in 0..MaxProcesses
    <3>1. Len(procs) <= MaxProcesses /\ MaxProcesses \in Nat
          BY ServersAssumption DEF ServersInv, Types
    <3> QED BY <1>1, <3>1, Lengths
  <2>2. \A o \in 1..Len(objects) :
           objects[o] \in [name : Names, status : Statuses, protocol : 0..MaxProcesses,
                           tools : BOOLEAN, restarts : 0..MaxRestarts]
        BY <2>1 DEF Objects
  <2>3. objects \in Seq(Objects)
        BY Lengths
  <2>4. objects = [o \in 1..Len(objects) |-> objects[o]]
        BY <2>3
  <2> HIDE DEF Objects
  <2> QED BY <1>1, <2>2, <2>4, Listing
<1>3. servers \in [Names -> 0..Len(objects)]
  <2>1. servers \in [Names -> Nat] /\ \A n \in Names : servers[n] <= Len(objects)
        BY DEF ServersInv, Types, ObjectsInRange
  <2> QED BY <1>1, <2>1
<1>4. job \in [Coroutines -> [op : Ops, at : Places, obj : 0..Len(objects), proc : 0..Len(procs),
                              dict : Nat, todo : SUBSET (Names \cup 1..Len(objects))]]
  <2>1. ASSUME NEW j \in Coroutines
        PROVE  job[j] \in [op : Ops, at : Places, obj : 0..Len(objects), proc : 0..Len(procs),
                           dict : Nat, todo : SUBSET (Names \cup 1..Len(objects))]
    <3>1. job[j] \in Jobs /\ job[j].obj \in 0..Len(objects) /\ job[j].proc \in 0..Len(procs)
          BY <1>1, JobTyped
    <3>2. job[j].todo \subseteq Names \cup 1..Len(objects)
          BY DEF ServersInv, JobsInRange, Todo, Coroutines
    <3> QED BY <3>1, <3>2 DEF Jobs
  <2>2. job \in [Coroutines -> Jobs]
        BY DEF ServersInv, Types
  <2> QED BY <2>1, <2>2
<1>5. ServersTypeOK
      BY <1>2, <1>3, <1>4 DEF ServersInv, Types, ServersTypeOK
<1>6. Attended
  <2>1. SUFFICES ASSUME cancels = 0, NEW n \in Names, servers[n] # 0,
                        objects[servers[n]].status \in {"starting", "restarting", "stopping"}
                 PROVE  Busy(servers[n]) # {}
        BY DEF Attended, Registered
  <2>2. PICK j \in Coroutines : job[j].obj = servers[n] /\ job[j].at \in {"closing", "spawning"}
        BY <2>1 DEF ServersInv, Pending
  <2>3. j \in Busy(servers[n])
        BY <2>2 DEF Busy
  <2> QED BY <2>3
<1> QED BY <1>5, <1>6 DEF ServersInv, ServersAccounted

\* The invariant always holds.
LEMMA ServersInvariance == ServersSpec => []ServersInv
BY ServersInitSound, ServersStepSound, PTL DEF ServersSpec

\* Status, processes and tools of the servers agree, for any names, requests and bounds
\* and however registrations, removals, restarts and the health loop of
\* stdio_lifecycle.py, stdio_health.py and stdio_execution.py overlap.
THEOREM ServersAreAccounted == ServersSpec => []ServersAccounted
BY ServersInvariance, ServersInvAccounts, PTL

\* What register_server has acknowledged and nobody removed is in stdio_servers.json, over
\* any number of boots, unless _save_tenant_servers has failed since, operations overlap or
\* a call is cancelled; or a restore_persisted_servers has dropped it, or has yet to get to it.
THEOREM WantedStaysSaved == ServersSpec => []WantedIsSaved
<1>1. ServersInv => WantedIsSaved
      BY DEF ServersInv
<1> QED BY <1>1, ServersInvariance, PTL
=============================================================================
