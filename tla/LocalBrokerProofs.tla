-------------------------- MODULE LocalBrokerProofs --------------------------
(***************************************************************************)
(* Proofs about LocalBroker for any messages, consumers and subscribers    *)
(* and any number of attempts.                                             *)
(***************************************************************************)
EXTENDS LocalBroker, SequenceTheorems, FiniteSetTheorems, TLAPS

-----------------------------------------------------------------------------
(* Queues as sets of messages.                                             *)

Once(q) == \A i, j \in 1..Len(q) : q[i] = q[j] => i = j

\* A message appended to a queue it is not in is in it once, and so are the others.
LEMMA AppendOnce ==
    ASSUME NEW S, NEW q \in Seq(S), NEW x \in S
    PROVE  /\ Append(q, x) \in Seq(S)
           /\ Elements(Append(q, x)) = Elements(q) \cup {x}
           /\ Once(q) /\ x \notin Elements(q) => Once(Append(q, x))
<1> DEFINE a == Append(q, x)
<1>1. /\ a \in Seq(S)
      /\ Len(a) = Len(q) + 1 /\ Len(q) \in Nat
      /\ \A i \in 1..Len(q) : a[i] = q[i]
      /\ a[Len(q) + 1] = x
      BY AppendProperties, LenProperties
<1> HIDE DEF a
<1>2. Elements(a) = Elements(q) \cup {x}
  <2>1. 1..Len(a) = 1..Len(q) \cup {Len(q) + 1}
        BY <1>1
  <2> QED BY <1>1, <2>1 DEF Elements
<1>3. ASSUME Once(q), x \notin Elements(q) PROVE Once(a)
      BY <1>1, <1>3 DEF Once, Elements
<1> QED BY <1>1, <1>2, <1>3 DEF a

\* What is taken from the head of a queue is not in the rest of it.
LEMMA TailOnce ==
    ASSUME NEW S, NEW q \in Seq(S), q # << >>
    PROVE  /\ Head(q) \in S /\ Tail(q) \in Seq(S)
           /\ Elements(q) = Elements(Tail(q)) \cup {Head(q)}
           /\ Once(q) => Once(Tail(q)) /\ Head(q) \notin Elements(Tail(q))
<1> DEFINE t == Tail(q)
<1>1. /\ Head(q) \in S /\ t \in Seq(S) /\ Head(q) = q[1]
      /\ Len(q) \in Nat \ {0} /\ Len(t) = Len(q) - 1
      /\ \A i \in 1..Len(t) : t[i] = q[i + 1]
      BY HeadTailProperties, EmptySeq
<1> HIDE DEF t
<1>2. Elements(q) = Elements(t) \cup {Head(q)}
  <2>1. \A i \in 1..Len(q) : i = 1 \/ (i - 1 \in 1..Len(t) /\ q[i] = t[i - 1])
        BY <1>1
  <2>2. \A i \in 1..Len(t) : i + 1 \in 1..Len(q)
        BY <1>1
  <2> QED BY <1>1, <2>1, <2>2 DEF Elements
<1>3. ASSUME Once(q) PROVE Once(t) /\ Head(q) \notin Elements(t)
  <2>1. \A i \in 1..Len(t) : i + 1 \in 1..Len(q) /\ i + 1 # 1 /\ 1 \in 1..Len(q)
        BY <1>1
  <2> QED BY <1>1, <1>3, <2>1 DEF Once, Elements
<1> QED BY <1>1, <1>2, <1>3 DEF t

-----------------------------------------------------------------------------
(* The inductive invariant of the stream.                                  *)

\* A consumer has a message in its hands exactly while it handles it.
Hands ==
    \A c \in Consumers :
        /\ consumer[c] = "handling" => \E m \in Messages : holds[c] = {m}
        /\ consumer[c] # "handling" => holds[c] = {}

InHands(m) == \E c \in Consumers : m \in holds[c]

\* OnePlace without cardinalities: every accepted message is in one of the five
\* places, and no two of them share one.
Apart ==
    /\ Once(queue)
    /\ \A c, d \in Consumers, m \in Messages : m \in holds[c] /\ m \in holds[d] => c = d
    /\ \A m \in Messages :
          /\ m \in accepted => m \in Published
          /\ m \in accepted <=>
                m \in Elements(queue) \/ InHands(m) \/ m \in completed \/ m \in dlq \/ m \in lost
          /\ m \in Elements(queue) => ~InHands(m) /\ m \notin completed \cup dlq \cup lost
          /\ InHands(m) => m \notin completed \cup dlq \cup lost
          /\ m \in completed => m \notin dlq \cup lost
          /\ m \in dlq => m \notin lost

\* What the place of a message says of its status and its attempts.
Statuses ==
    /\ pending = {m \in Messages : status[m] \in {"processing", "dead_letter"}}
    /\ \A m \in Messages :
          /\ m \notin accepted => status[m] = "pending"
          /\ InHands(m) \/ m \in lost => status[m] = "processing"
          /\ m \in completed <=> status[m] = "completed"
          /\ m \in dlq <=> status[m] = "dead_letter"
          /\ m \in dlq <=> attempt[m] = MaxAttempts

IInv == TypeOK /\ Hands /\ Apart /\ Statuses

\* TypeOK in two halves, for a step of the stream does not touch the channel
\* and a step of the channel not the stream.
StreamTypes ==
    /\ exists \in BOOLEAN
    /\ queue \in Seq(Messages)
    /\ attempt \in [Messages -> 0..MaxAttempts]
    /\ status \in [Messages -> {"pending", "processing", "completed", "dead_letter"}]
    /\ pending \subseteq Messages /\ completed \subseteq Messages /\ dlq \subseteq Messages
    /\ consumer \in [Consumers -> {"off", "waiting", "handling", "gone"}]
    /\ holds \in [Consumers -> SUBSET Messages]
    /\ accepted \subseteq Messages /\ lost \subseteq Messages

ChannelTypes ==
    /\ subscriber \in [Subscribers -> {"off", "waiting", "handling", "sleeping", "leaked", "gone"}]
    /\ inbox \in [Subscribers -> Seq(Messages)]
    /\ since \in [Subscribers -> Nat]
    /\ received \in [Subscribers -> Seq(Messages)]

\* The types of the stream, of the channel and of the history are those of TypeOK.
LEMMA TypeHalves == TypeOK <=> StreamTypes /\ ChannelTypes /\ log \in Seq(Messages)
BY DEF TypeOK, StreamTypes, ChannelTypes

\* A broker that was just created satisfies the invariant.
LEMMA InitIInv == Init => IInv
<1> SUFFICES ASSUME Init PROVE IInv
    OBVIOUS
<1> USE BrokerAssumption DEF Init
<1>1. StreamTypes /\ ChannelTypes /\ log \in Seq(Messages)
  <2>1. << >> \in Seq(Messages) /\ 0 \in 0..MaxAttempts
        OBVIOUS
  <2>2. StreamTypes
        BY <2>1 DEF StreamTypes
  <2> QED BY <2>1, <2>2 DEF ChannelTypes
<1>2. Elements(<< >>) = {} /\ Once(<< >>)
      BY DEF Elements, Once
<1>3. Hands /\ \A m \in Messages : ~InHands(m)
      BY DEF Hands, InHands
<1>4. Apart
      BY <1>2, <1>3 DEF Apart
<1>5. Statuses
      BY <1>3 DEF Statuses
<1> QED BY <1>1, <1>3, <1>4, <1>5, TypeHalves DEF IInv

\* Every step keeps the state within its types.
LEMMA TypeStep == IInv /\ [Next]_vars => TypeOK'
<1> SUFFICES ASSUME IInv, [Next]_vars PROVE TypeOK'
    OBVIOUS
<1>0. StreamTypes /\ ChannelTypes /\ log \in Seq(Messages)
      BY TypeHalves DEF IInv
<1> USE <1>0, BrokerAssumption
<1> SUFFICES StreamTypes' /\ ChannelTypes' /\ log' \in Seq(Messages)
    BY DEF TypeOK, StreamTypes, ChannelTypes
<1>c. ASSUME UNCHANGED <<channel, log>> PROVE ChannelTypes' /\ log' \in Seq(Messages)
      BY <1>c DEF channel, ChannelTypes
<1>s. ASSUME UNCHANGED <<stream, log>> PROVE StreamTypes' /\ log' \in Seq(Messages)
      BY <1>s DEF stream, StreamTypes
<1>1. ASSUME NEW m \in Messages, Publish(m)
      PROVE  StreamTypes' /\ ChannelTypes' /\ log' \in Seq(Messages)
  <2>4. Append(queue, m) \in Seq(Messages) /\ Append(log, m) \in Seq(Messages)
        BY DEF StreamTypes
  <2>1. log' \in Seq(Messages) /\ StreamTypes'
        BY <1>1, <2>4 DEF Publish, StreamTypes
  <2>2. \A s \in Subscribers : Append(inbox[s], m) \in Seq(Messages)
        BY DEF ChannelTypes
  <2>3. ChannelTypes'
        BY <1>1, <2>2 DEF Publish, Broadcast, ChannelTypes
  <2> QED BY <2>1, <2>3
<1>2. ASSUME NEW c \in Consumers, Subscribe(c) PROVE StreamTypes'
      BY <1>2 DEF Subscribe, StreamTypes
<1>3. ASSUME NEW c \in Consumers, Take(c) PROVE StreamTypes'
  <2>1. Head(queue) \in Messages /\ Tail(queue) \in Seq(Messages)
        BY <1>3 DEF Take, StreamTypes
  <2>2. CASE Head(queue) \in completed
        BY <1>3, <2>1, <2>2 DEF Take, StreamTypes
  <2>3. CASE Head(queue) \notin completed
    <3>1. /\ status' = [status EXCEPT ![Head(queue)] = "processing"]
          /\ pending' = pending \cup {Head(queue)}
          /\ consumer' = [consumer EXCEPT ![c] = "handling"]
          /\ holds' = [holds EXCEPT ![c] = {Head(queue)}]
          /\ UNCHANGED <<exists, attempt, completed, dlq, accepted, lost>>
          BY <1>3, <2>3 DEF Take
    <3>2. queue' = Tail(queue)
          BY <1>3 DEF Take
    <3> QED BY <2>1, <3>1, <3>2 DEF StreamTypes
  <2> QED BY <2>2, <2>3
<1>4. ASSUME NEW c \in Consumers, CallbackReturns(c) PROVE StreamTypes'
  <2>1. PICK m \in holds[c] :
            /\ status' = [status EXCEPT ![m] = "completed"]
            /\ completed' = completed \cup {m}
            /\ pending' = pending \ {m}
            /\ Release(c, "waiting")
            /\ UNCHANGED <<exists, queue, attempt, dlq, accepted, lost>>
        BY <1>4 DEF CallbackReturns
  <2>2. m \in Messages
        BY DEF StreamTypes
  <2> QED BY <2>1, <2>2 DEF Release, StreamTypes
<1>5. ASSUME NEW c \in Consumers, CallbackRaises(c) PROVE StreamTypes'
  <2>1. PICK m \in holds[c] :
            /\ attempt' = [attempt EXCEPT ![m] = @ + 1]
            /\ Requeue(m)
            /\ Release(c, "waiting")
            /\ UNCHANGED <<exists, pending, completed, accepted, lost>>
        BY <1>5 DEF CallbackRaises
  <2>2. m \in Messages /\ InHands(m)
        BY DEF StreamTypes, InHands
  <2>6. attempt[m] \in 0..MaxAttempts /\ attempt[m] # MaxAttempts
        BY <2>2 DEF IInv, StreamTypes, Apart, Statuses
  <2>3. attempt' \in [Messages -> 0..MaxAttempts]
        BY <2>1, <2>2, <2>6 DEF StreamTypes
  <2>4. Append(queue, m) \in Seq(Messages)
        BY <2>2 DEF StreamTypes
  <2>5. /\ queue' \in Seq(Messages) /\ dlq' \subseteq Messages
        /\ status' \in [Messages -> {"pending", "processing", "completed", "dead_letter"}]
        BY <2>1, <2>2, <2>4 DEF Requeue, StreamTypes
  <2> QED BY <2>1, <2>3, <2>5 DEF Release, StreamTypes
<1>6. ASSUME NEW c \in Consumers, CancelConsumer(c) PROVE StreamTypes'
      BY <1>6 DEF CancelConsumer, Release, StreamTypes
<1>7. ASSUME NEW s \in Subscribers, SubscriberStep(s) PROVE ChannelTypes'
  <2>1. CASE ChannelTake(s)
    <3>1. /\ Head(inbox[s]) \in Messages /\ Tail(inbox[s]) \in Seq(Messages)
          /\ received[s] \in Seq(Messages)
          BY <2>1 DEF ChannelTake, ChannelTypes
    <3>2. Append(received[s], Head(inbox[s])) \in Seq(Messages)
          BY <3>1
    <3> QED BY <2>1, <3>1, <3>2 DEF ChannelTake, ChannelTypes
  <2>2. CASE ~ChannelTake(s)
    <3>1. Len(log) \in Nat
          OBVIOUS
    <3> QED BY <1>7, <2>2, <3>1 DEF SubscriberStep, SubscribeChannel, ChannelReturns,
               ChannelRaises, ChannelWakes, CancelSubscriber, CancelSleeping, ChannelTypes
  <2> QED BY <2>1, <2>2
<1>8. /\ \A c \in Consumers : Subscribe(c) \/ ConsumerStep(c) \/ CancelConsumer(c)
                             => UNCHANGED <<channel, log>>
      /\ \A s \in Subscribers : SubscriberStep(s) => UNCHANGED <<stream, log>>
      /\ UNCHANGED vars => UNCHANGED <<stream, channel, log>>
      BY DEF Subscribe, ConsumerStep, Take, CallbackReturns, CallbackRaises, CancelConsumer,
             SubscriberStep, SubscribeChannel, ChannelTake, ChannelReturns, ChannelRaises,
             ChannelWakes, CancelSubscriber, CancelSleeping, vars
<1> QED BY <1>c, <1>s, <1>1, <1>2, <1>3, <1>4, <1>5, <1>6, <1>7, <1>8 DEF Next, ConsumerStep

\* A consumer that takes a message has it in its hands, besides what the others have.
LEMMA TakesInHands ==
    ASSUME TypeOK, NEW c \in Consumers, NEW m, holds[c] = {}, holds' = [holds EXCEPT ![c] = {m}]
    PROVE  \A x : InHands(x)' <=> InHands(x) \/ x = m
BY DEF TypeOK, InHands

\* A consumer that lets go of its message leaves the hands of the others as they are.
LEMMA LetsGo ==
    ASSUME IInv, NEW c \in Consumers, NEW m \in Messages, holds[c] = {m},
           holds' = [holds EXCEPT ![c] = {}]
    PROVE  /\ InHands(m)
           /\ \A x \in Messages : InHands(x)' <=> InHands(x) /\ x # m
<1>1. \A d \in Consumers : holds'[d] = IF d = c THEN {} ELSE holds[d]
      BY DEF IInv, TypeOK
<1> QED BY <1>1 DEF IInv, Apart, InHands

\* A message in somebody's hands is in the hands of one that handles.
LEMMA HandledBy ==
    ASSUME IInv, NEW c \in Consumers, NEW m \in holds[c]
    PROVE  m \in Messages /\ holds[c] = {m} /\ consumer[c] = "handling" /\ InHands(m)
BY DEF IInv, TypeOK, Hands, InHands

\* No step leaves a message in the hands of a consumer that does not handle.
LEMMA HandsStep == IInv /\ [Next]_vars => Hands'
<1> SUFFICES ASSUME IInv, [Next]_vars PROVE Hands'
    OBVIOUS
<1>0. /\ consumer \in [Consumers -> {"off", "waiting", "handling", "gone"}]
      /\ holds \in [Consumers -> SUBSET Messages]
      /\ Hands
      BY DEF IInv, TypeOK
<1>1. ASSUME UNCHANGED <<consumer, holds>> PROVE Hands'
      BY <1>0, <1>1 DEF Hands
<1>2. ASSUME NEW c \in Consumers, Subscribe(c) PROVE Hands'
      BY <1>0, <1>2 DEF Subscribe, Hands
<1>3. ASSUME NEW c \in Consumers, Take(c) PROVE Hands'
  <2>1. CASE Head(queue) \in completed
        BY <1>1, <1>3, <2>1 DEF Take
  <2>2. CASE Head(queue) \notin completed
    <3>1. /\ consumer' = [consumer EXCEPT ![c] = "handling"]
          /\ holds' = [holds EXCEPT ![c] = {Head(queue)}]
          BY <1>3, <2>2 DEF Take
    <3>2. Head(queue) \in Messages
          BY <1>3 DEF Take, IInv, TypeOK
    <3> QED BY <1>0, <3>1, <3>2 DEF Hands
  <2> QED BY <2>1, <2>2
<1>4. ASSUME NEW c \in Consumers, NEW to \in {"waiting", "gone"}, Release(c, to) PROVE Hands'
      BY <1>0, <1>4 DEF Release, Hands
<1>5. \A c \in Consumers : CallbackReturns(c) \/ CallbackRaises(c) \/ CancelConsumer(c)
                            => \E to \in {"waiting", "gone"} : Release(c, to)
      BY DEF CallbackReturns, CallbackRaises, CancelConsumer
<1>6. /\ \A m \in Messages : Publish(m) => UNCHANGED <<consumer, holds>>
      /\ \A s \in Subscribers : SubscriberStep(s) => UNCHANGED stream
      /\ UNCHANGED vars => UNCHANGED stream
      /\ UNCHANGED stream => UNCHANGED <<consumer, holds>>
      BY DEF Publish, SubscriberStep, SubscribeChannel, ChannelTake, ChannelReturns,
             ChannelRaises, ChannelWakes, CancelSubscriber, CancelSleeping, vars, stream
<1> QED BY <1>1, <1>2, <1>3, <1>4, <1>5, <1>6 DEF Next, ConsumerStep

\* Every step moves a message from one place to another, never into two.
LEMMA ApartStep == IInv /\ [Next]_vars => Apart'
<1> SUFFICES ASSUME IInv, [Next]_vars PROVE Apart'
    OBVIOUS
<1>0. /\ queue \in Seq(Messages) /\ log \in Seq(Messages)
      /\ accepted \subseteq Messages /\ completed \subseteq Messages
      /\ dlq \subseteq Messages /\ lost \subseteq Messages
      /\ holds \in [Consumers -> SUBSET Messages]
      /\ Apart
      BY DEF IInv, TypeOK
<1>1. ASSUME UNCHANGED <<stream, log>> PROVE Apart'
      BY <1>0, <1>1 DEF Apart, InHands, Published, stream
<1>2. ASSUME NEW m \in Messages, Publish(m) PROVE Apart'
  <2>1. UNCHANGED <<holds, completed, dlq, lost>> /\ Published' = Published \cup {m}
        BY <1>0, <1>2, AppendOnce DEF Publish, Published
  <2>2. CASE exists
    <3>1. m \notin Elements(queue) /\ m \notin accepted
          BY <1>0, <1>2 DEF Publish, Apart
    <3>2. /\ Elements(queue') = Elements(queue) \cup {m} /\ Once(queue')
          /\ accepted' = accepted \cup {m}
          BY <1>0, <1>2, <2>2, <3>1, AppendOnce DEF Publish, Apart
    <3> QED BY <1>0, <2>1, <3>1, <3>2 DEF Apart, InHands
  <2>3. CASE ~exists
        BY <1>0, <1>2, <2>1, <2>3 DEF Publish, Apart, InHands
  <2> QED BY <2>2, <2>3
<1>3. ASSUME NEW c \in Consumers, Subscribe(c) PROVE Apart'
      BY <1>0, <1>3 DEF Subscribe, Apart, InHands, Published
<1>4. ASSUME NEW c \in Consumers, Take(c) PROVE Apart'
  <2> DEFINE m == Head(queue)
  <2>1. /\ m \in Messages /\ Elements(queue) = Elements(queue') \cup {m}
        /\ Once(queue') /\ m \notin Elements(queue')
        BY <1>0, <1>4, TailOnce DEF Take, Apart
  <2>2. m \notin completed /\ holds[c] = {}
        BY <1>4, <2>1 DEF Take, IInv, Apart, Hands
  <2>3. /\ holds' = [holds EXCEPT ![c] = {m}]
        /\ UNCHANGED <<completed, dlq, accepted, lost, log>>
        BY <1>4, <2>2 DEF Take
  <2>4. \A x : InHands(x)' <=> InHands(x) \/ x = m
        BY <2>2, <2>3, TakesInHands DEF IInv
  <2>5. ~InHands(m)
        BY <1>0, <2>1 DEF Apart
  <2>6. \A d \in Consumers : holds'[d] = IF d = c THEN {m} ELSE holds[d]
        BY <1>0, <2>3
  <2> HIDE DEF m
  <2>7. \A d, e \in Consumers, x \in Messages : x \in holds'[d] /\ x \in holds'[e] => d = e
        BY <1>0, <2>5, <2>6 DEF Apart, InHands
  <2> QED BY <1>0, <2>1, <2>3, <2>4, <2>5, <2>7 DEF Apart, Published
<1>5. ASSUME NEW c \in Consumers, NEW m \in holds[c], holds' = [holds EXCEPT ![c] = {}]
      PROVE  /\ m \in Messages /\ InHands(m)
             /\ \A x \in Messages : InHands(x)' <=> InHands(x) /\ x # m
             /\ \A d, e \in Consumers, x \in Messages :
                    x \in holds'[d] /\ x \in holds'[e] => d = e
  <2>1. m \in Messages /\ holds[c] = {m}
        BY HandledBy
  <2> QED BY <1>0, <1>5, <2>1, LetsGo DEF Apart
<1>6. ASSUME NEW c \in Consumers, CallbackReturns(c) PROVE Apart'
  <2>1. PICK m \in holds[c] :
            /\ completed' = completed \cup {m}
            /\ holds' = [holds EXCEPT ![c] = {}]
            /\ UNCHANGED <<queue, dlq, accepted, lost, log>>
        BY <1>6 DEF CallbackReturns, Release
  <2> QED BY <1>0, <1>5, <2>1 DEF Apart, Published
<1>7. ASSUME NEW c \in Consumers, CallbackRaises(c) PROVE Apart'
  <2>1. PICK m \in holds[c] :
            /\ Requeue(m)
            /\ holds' = [holds EXCEPT ![c] = {}]
            /\ UNCHANGED <<completed, accepted, lost, log>>
        BY <1>7 DEF CallbackRaises, Release
  <2>2. m \in Messages /\ m \notin Elements(queue)
        BY <1>0, <1>5, <2>1 DEF Apart
  <2>5. /\ InHands(m)
        /\ \A x \in Messages : InHands(x)' <=> InHands(x) /\ x # m
        /\ \A d, e \in Consumers, x \in Messages : x \in holds'[d] /\ x \in holds'[e] => d = e
        BY <1>5, <2>1
  <2>3. CASE GivesUp(m)
    <3>1. dlq' = dlq \cup {m} /\ queue' = queue
          BY <2>1, <2>3 DEF Requeue
    <3> QED BY <1>0, <2>1, <2>2, <2>5, <3>1 DEF Apart, Published
  <2>4. CASE ~GivesUp(m)
    <3>1. /\ Elements(queue') = Elements(queue) \cup {m} /\ Once(queue')
          /\ dlq' = dlq
      <4>1. queue' = Append(queue, m) /\ dlq' = dlq
            BY <2>1, <2>4 DEF Requeue
      <4>2. /\ Elements(Append(queue, m)) = Elements(queue) \cup {m}
            /\ Once(Append(queue, m))
            BY <1>0, <2>2, AppendOnce DEF Apart
      <4> QED BY <4>1, <4>2
    <3> QED BY <1>0, <2>1, <2>2, <2>5, <3>1 DEF Apart, Published
  <2> QED BY <2>3, <2>4
<1>8. ASSUME NEW c \in Consumers, CancelConsumer(c) PROVE Apart'
  <2>1. /\ lost' = lost \cup holds[c]
        /\ holds' = [holds EXCEPT ![c] = {}]
        /\ UNCHANGED <<queue, completed, dlq, accepted, log>>
        BY <1>8 DEF CancelConsumer, Release
  <2>2. CASE holds[c] = {}
    <3>1. holds' = holds /\ lost' = lost
          BY <1>0, <2>1, <2>2
    <3> QED BY <1>0, <2>1, <3>1 DEF Apart, InHands, Published
  <2>3. CASE holds[c] # {}
    <3>1. PICK m \in holds[c] : holds[c] = {m}
          BY <2>3, HandledBy
    <3> QED BY <1>0, <1>5, <2>1, <3>1 DEF Apart, Published
  <2> QED BY <2>2, <2>3
<1>9. /\ \A s \in Subscribers : SubscriberStep(s) => UNCHANGED <<stream, log>>
      /\ UNCHANGED vars => UNCHANGED <<stream, log>>
      BY DEF SubscriberStep, SubscribeChannel, ChannelTake, ChannelReturns,
             ChannelRaises, ChannelWakes, CancelSubscriber, CancelSleeping, vars
<1> QED BY <1>1, <1>2, <1>3, <1>4, <1>6, <1>7, <1>8, <1>9 DEF Next, ConsumerStep

\* Every step keeps status, attempts and the pending set in agreement with the places.
LEMMA StatusesStep == IInv /\ [Next]_vars => Statuses'
<1> SUFFICES ASSUME IInv, [Next]_vars PROVE Statuses'
    OBVIOUS
<1>0. /\ queue \in Seq(Messages)
      /\ attempt \in [Messages -> 0..MaxAttempts]
      /\ status \in [Messages -> {"pending", "processing", "completed", "dead_letter"}]
      /\ holds \in [Consumers -> SUBSET Messages]
      /\ Apart /\ Statuses
      BY DEF IInv, TypeOK
<1>1. ASSUME UNCHANGED stream PROVE Statuses'
      BY <1>0, <1>1 DEF Statuses, InHands, stream
<1>2. ASSUME NEW m \in Messages, Publish(m) PROVE Statuses'
  <2>1. m \notin accepted /\ accepted \subseteq accepted'
        BY <1>0, <1>2 DEF Publish, Apart
  <2> QED BY <1>0, <1>2, <2>1 DEF Publish, Statuses, InHands
<1>3. ASSUME NEW c \in Consumers, Subscribe(c) PROVE Statuses'
      BY <1>0, <1>3 DEF Subscribe, Statuses, InHands
<1>4. ASSUME NEW c \in Consumers, Take(c) PROVE Statuses'
  <2> DEFINE m == Head(queue)
  <2>1. m \in Messages /\ m \in Elements(queue)
        BY <1>0, <1>4, TailOnce DEF Take
  <2>2. /\ m \in accepted /\ m \notin completed \cup dlq \cup lost
        /\ holds[c] = {}
        BY <1>0, <1>4, <2>1 DEF Take, IInv, Apart, Hands
  <2>3. /\ status' = [status EXCEPT ![m] = "processing"]
        /\ pending' = pending \cup {m}
        /\ holds' = [holds EXCEPT ![c] = {m}]
        /\ UNCHANGED <<attempt, completed, dlq, accepted, lost>>
        BY <1>4, <2>2 DEF Take
  <2>4. \A x : InHands(x)' <=> InHands(x) \/ x = m
        BY <2>2, <2>3, TakesInHands DEF IInv
  <2> HIDE DEF m
  <2> QED BY <1>0, <2>1, <2>2, <2>3, <2>4 DEF Statuses
<1>5. ASSUME NEW c \in Consumers, NEW m \in holds[c], holds' = [holds EXCEPT ![c] = {}]
      PROVE  /\ m \in Messages /\ InHands(m) /\ m \in accepted
             /\ m \notin completed \cup dlq \cup lost
             /\ \A x \in Messages : InHands(x)' <=> InHands(x) /\ x # m
  <2>1. m \in Messages /\ holds[c] = {m}
        BY HandledBy
  <2> QED BY <1>0, <1>5, <2>1, LetsGo DEF Apart
<1>6. ASSUME NEW c \in Consumers, CallbackReturns(c) PROVE Statuses'
  <2>1. PICK m \in holds[c] :
            /\ status' = [status EXCEPT ![m] = "completed"]
            /\ completed' = completed \cup {m}
            /\ pending' = pending \ {m}
            /\ holds' = [holds EXCEPT ![c] = {}]
            /\ UNCHANGED <<attempt, dlq, accepted, lost>>
        BY <1>6 DEF CallbackReturns, Release
  <2>2. /\ m \in Messages /\ InHands(m) /\ m \in accepted
        /\ m \notin completed \cup dlq \cup lost
        /\ \A x \in Messages : InHands(x)' <=> InHands(x) /\ x # m
        BY <1>5, <2>1
  <2>3. /\ status'[m] = "completed"
        /\ \A x \in Messages : x # m => status'[x] = status[x]
        BY <1>0, <2>1, <2>2
  <2>4. Statuses
        BY <1>0
  <2>5. pending' = {x \in Messages : status'[x] \in {"processing", "dead_letter"}}
        BY <2>1, <2>2, <2>3, <2>4 DEF Statuses
  <2>6. ASSUME NEW x \in Messages
        PROVE  /\ x \notin accepted' => status'[x] = "pending"
               /\ InHands(x)' \/ x \in lost' => status'[x] = "processing"
               /\ x \in completed' <=> status'[x] = "completed"
               /\ x \in dlq' <=> status'[x] = "dead_letter"
               /\ x \in dlq' <=> attempt'[x] = MaxAttempts
    <3>1. CASE x = m
          BY <2>1, <2>2, <2>3, <2>4, <3>1 DEF Statuses
    <3>2. CASE x # m
          BY <2>1, <2>2, <2>3, <2>4, <3>2 DEF Statuses
    <3> QED BY <3>1, <3>2
  <2> QED BY <2>5, <2>6 DEF Statuses
<1>7. ASSUME NEW c \in Consumers, CallbackRaises(c) PROVE Statuses'
  <2>1. PICK m \in holds[c] :
            /\ attempt' = [attempt EXCEPT ![m] = @ + 1]
            /\ Requeue(m)
            /\ holds' = [holds EXCEPT ![c] = {}]
            /\ UNCHANGED <<pending, completed, accepted, lost>>
        BY <1>7 DEF CallbackRaises, Release
  <2>2. /\ m \in Messages /\ InHands(m) /\ m \in accepted
        /\ m \notin completed \cup dlq \cup lost
        /\ \A x \in Messages : InHands(x)' <=> InHands(x) /\ x # m
        BY <1>5, <2>1
  <2>3. /\ attempt[m] \in 0..MaxAttempts /\ attempt[m] # MaxAttempts
        /\ \A x \in Messages : attempt'[x] = IF x = m THEN attempt[m] + 1 ELSE attempt[x]
        BY <1>0, <2>1, <2>2 DEF Statuses
  <2>4. CASE GivesUp(m)
    <3>1. /\ status' = [status EXCEPT ![m] = "dead_letter"]
          /\ dlq' = dlq \cup {m} /\ attempt'[m] = MaxAttempts
          BY <2>1, <2>2, <2>3, <2>4, BrokerAssumption DEF Requeue, GivesUp
    <3> QED BY <1>0, <2>1, <2>2, <2>3, <3>1 DEF Statuses
  <2>5. CASE ~GivesUp(m)
    <3>1. UNCHANGED <<status, dlq>> /\ attempt'[m] # MaxAttempts
          BY <2>1, <2>2, <2>3, <2>5, BrokerAssumption DEF Requeue, GivesUp
    <3> QED BY <1>0, <2>1, <2>2, <2>3, <3>1 DEF Statuses
  <2> QED BY <2>4, <2>5
<1>8. ASSUME NEW c \in Consumers, CancelConsumer(c) PROVE Statuses'
  <2>1. /\ lost' = lost \cup holds[c]
        /\ holds' = [holds EXCEPT ![c] = {}]
        /\ UNCHANGED <<attempt, status, pending, completed, dlq, accepted>>
        BY <1>8 DEF CancelConsumer, Release
  <2>2. \A x \in Messages : InHands(x)' \/ x \in lost' <=> InHands(x) \/ x \in lost
        BY <1>0, <2>1 DEF InHands
  <2> QED BY <1>0, <2>1, <2>2 DEF Statuses
<1>9. /\ \A s \in Subscribers : SubscriberStep(s) => UNCHANGED stream
      /\ UNCHANGED vars => UNCHANGED stream
      BY DEF SubscriberStep, SubscribeChannel, ChannelTake, ChannelReturns,
             ChannelRaises, ChannelWakes, CancelSubscriber, CancelSleeping, vars
<1> QED BY <1>1, <1>2, <1>3, <1>4, <1>6, <1>7, <1>8, <1>9 DEF Next, ConsumerStep

\* The invariant holds throughout every behaviour of the broker.
LEMMA Invariance == Spec => []IInv
<1>1. IInv /\ [Next]_vars => IInv'
      BY TypeStep, HandsStep, ApartStep, StatusesStep DEF IInv
<1> QED BY InitIInv, <1>1, PTL DEF Spec

\* For any number of messages, consumers and attempts: what the broker keeps of
\* a message agrees, _pending has exactly what was taken and not completed, and
\* a message is dead-lettered by its MaxAttempts-th failure and by no other.
THEOREM BrokerAccounts == Spec => []Accounted
<1>1. ASSUME IInv PROVE Accounted
  <2>1. lost \cup dlq \subseteq pending
        BY <1>1 DEF IInv, TypeOK, Statuses
  <2>2. UNION {holds[c] : c \in Consumers} \subseteq pending
        BY <1>1 DEF IInv, TypeOK, Statuses, InHands
  <2> QED BY <1>1, <2>1, <2>2 DEF IInv, Statuses, Accounted, PendingIsUnfinished, DeadAfterMaxAttempts
<1> QED BY Invariance, <1>1, PTL
-----------------------------------------------------------------------------
(* OnePlace: the five places, counted.                                     *)

\* A set whose members are all equal counts one if it has a member and else none.
LEMMA CountsOne ==
    ASSUME NEW A, \A x, y \in A : x = y
    PROVE  Cardinality(A) = IF A = {} THEN 0 ELSE 1
<1>1. CASE A = {}
      BY <1>1, FS_EmptySet
<1>2. CASE A # {}
  <2>1. PICK x \in A : TRUE
        BY <1>2
  <2>2. A = {x}
        BY <2>1
  <2> QED BY <1>2, <2>2, FS_Singleton
<1> QED BY <1>1, <1>2

\* For any number of messages and consumers, whatever is retried, completed,
\* dead-lettered or cancelled: a message put on the stream is in exactly one
\* place, and a message that was dropped is in none.
THEOREM NothingLostNorDoubled == Spec => []OnePlace
<1>1. ASSUME IInv, NEW m \in Messages PROVE Copies(m) = IF m \in accepted THEN 1 ELSE 0
  <2> DEFINE Q == {i \in 1..Len(queue) : queue[i] = m}
             H == {c \in Consumers : m \in holds[c]}
             E == {S \in {<<1, completed>>, <<2, dlq>>, <<3, lost>>} : m \in S[2]}
  <2>1. /\ Cardinality(Q) = IF m \in Elements(queue) THEN 1 ELSE 0
    <3>1. \A i, j \in Q : i = j
          BY <1>1 DEF IInv, Apart, Once
    <3>2. Q = {} <=> m \notin Elements(queue)
          BY DEF Elements
    <3> HIDE DEF Q
    <3> QED BY <3>1, <3>2, CountsOne
  <2>2. Cardinality(H) = IF InHands(m) THEN 1 ELSE 0
    <3>1. \A c, d \in H : c = d
          BY <1>1 DEF IInv, Apart
    <3>2. H = {} <=> ~InHands(m)
          BY DEF InHands
    <3> HIDE DEF H
    <3> QED BY <3>1, <3>2, CountsOne
  <2>3. Cardinality(E) = IF m \in completed \cup dlq \cup lost THEN 1 ELSE 0
    <3>1. /\ m \in completed => m \notin dlq /\ m \notin lost
          /\ m \in dlq => m \notin lost
          BY <1>1 DEF IInv, Apart
    <3>2. \A S, T \in E : S = T
          BY <3>1
    <3>3. E = {} <=> m \notin completed \cup dlq \cup lost
      <4>1. /\ m \in completed => <<1, completed>> \in E
            /\ m \in dlq => <<2, dlq>> \in E
            /\ m \in lost => <<3, lost>> \in E
            OBVIOUS
      <4>2. \A S \in E : m \in completed \cup dlq \cup lost
            OBVIOUS
      <4> HIDE DEF E
      <4> QED BY <4>1, <4>2
    <3> HIDE DEF E
    <3> QED BY <3>2, <3>3, CountsOne
  <2>4. Copies(m) = Cardinality(Q) + Cardinality(H) + Cardinality(E)
        BY DEF Copies
  <2> HIDE DEF Q, H, E
  <2> QED BY <1>1, <2>1, <2>2, <2>3, <2>4 DEF IInv, Apart
<1>2. IInv => OnePlace
      BY <1>1 DEF OnePlace
<1> QED BY Invariance, <1>2, PTL

-----------------------------------------------------------------------------
(* ChannelInOrder.                                                         *)

\* The part of a history that begins after position n grows with the history.
LEMMA SuffixGrows ==
    ASSUME NEW S, NEW q \in Seq(S), NEW x \in S, NEW n \in 0..Len(q)
    PROVE  SubSeq(Append(q, x), n + 1, Len(Append(q, x)))
               = Append(SubSeq(q, n + 1, Len(q)), x)
<1>0. Len(q) \in Nat /\ q \in [1..Len(q) -> S]
      BY LenProperties
<1> DEFINE a == Append(q, x)
<1>1. /\ a \in Seq(S) /\ Len(a) = Len(q) + 1
      /\ \A i \in 1..Len(q) : a[i] = q[i]
      /\ a[Len(q) + 1] = x
      BY AppendProperties
<1>2. \A i \in 1..Len(a) : a[i] \in S
      BY <1>0, <1>1
<1> HIDE DEF a
<1> DEFINE l == SubSeq(a, n + 1, Len(a))
           k == SubSeq(q, n + 1, Len(q))
<1>3. /\ l \in Seq(S) /\ Len(l) = Len(q) - n + 1
      /\ \A i \in 1..(Len(q) - n + 1) : l[i] = a[n + i]
      BY <1>0, <1>1, <1>2, SubSeqProperties
<1>4. /\ k \in Seq(S) /\ Len(k) = Len(q) - n
      /\ \A i \in 1..(Len(q) - n) : k[i] = q[n + i]
  <2>1. \A i \in n + 1 .. Len(q) : q[i] \in S
        BY <1>0
  <2>2. n + 1 \in Int /\ Len(q) \in Int
        BY <1>0
  <2>3. /\ k \in Seq(S)
        /\ Len(k) = IF n + 1 <= Len(q) THEN Len(q) - (n + 1) + 1 ELSE 0
        /\ \A i \in 1 .. Len(q) - (n + 1) + 1 : k[i] = q[n + 1 + i - 1]
        BY <2>1, <2>2, SubSeqProperties
  <2> HIDE DEF k
  <2>4. /\ n + 1 <= Len(q) \/ Len(q) - n = 0
        /\ Len(q) - (n + 1) + 1 = Len(q) - n
        /\ \A i \in 1..(Len(q) - n) : n + 1 + i - 1 = n + i
    <3>1. n \in Nat /\ Len(q) \in Nat /\ n <= Len(q)
          BY <1>0
    <3> QED BY ONLY <3>1
  <2>5. \A i \in 1..(Len(q) - n) : k[i] = q[n + i]
        BY <2>3, <2>4
  <2> QED BY <2>3, <2>4, <2>5
<1> HIDE DEF l, k
<1> DEFINE r == Append(k, x)
<1>5. /\ r \in Seq(S) /\ Len(r) = Len(k) + 1
      /\ \A i \in 1..Len(k) : r[i] = k[i]
      /\ r[Len(k) + 1] = x
      BY <1>4, AppendProperties
<1> HIDE DEF r
<1>6. \A i \in 1..Len(l) : l[i] = r[i]
      BY <1>0, <1>1, <1>3, <1>4, <1>5
<1>7. l = r
      BY <1>0, <1>3, <1>4, <1>5, <1>6, SeqEqual
<1> QED BY <1>7 DEF l, r, k, a

\* Handing the head of the inbox over moves nothing in the two put together.
LEMMA HandOver ==
    ASSUME NEW S, NEW r \in Seq(S), NEW q \in Seq(S), q # << >>
    PROVE  Append(r, Head(q)) \o Tail(q) = r \o q
<1>1. /\ Head(q) \in S /\ Tail(q) \in Seq(S) /\ q \in Seq(S)
      /\ Len(q) \in Nat \ {0} /\ Len(q) \in 1..Len(q) /\ 1 \in 1..Len(q)
      BY HeadTailProperties, EmptySeq
<1>2. q = <<Head(q)>> \o Tail(q)
  <2>1. SubSeq(q, 1, Len(q)) = << q[1] >> \o SubSeq(q, 1 + 1, Len(q))
        BY <1>1, SubSeqRecursiveFirst
  <2>2. SubSeq(q, 1, Len(q)) = q /\ Tail(q) = SubSeq(q, 2, Len(q)) /\ q[1] = Head(q)
        BY <1>1, SubSeqFull, TailIsSubSeq
  <2> QED BY <2>1, <2>2
<1>3. Append(r, Head(q)) = r \o <<Head(q)>> /\ <<Head(q)>> \in Seq(S)
      BY <1>1, AppendIsConcat
<1>4. (r \o <<Head(q)>>) \o Tail(q) = r \o (<<Head(q)>> \o Tail(q))
      BY <1>1, <1>3, ConcatAssociative
<1> QED BY <1>2, <1>3, <1>4

\* A message that arrives in the inbox arrives at the end of the two.
LEMMA Arrival ==
    ASSUME NEW S, NEW r \in Seq(S), NEW q \in Seq(S), NEW x \in S
    PROVE  r \o Append(q, x) = Append(r \o q, x)
<1>1. <<x>> \in Seq(S) /\ r \o q \in Seq(S)
      BY ConcatProperties
<1>2. Append(q, x) = q \o <<x>> /\ Append(r \o q, x) = (r \o q) \o <<x>>
      BY <1>1, AppendIsConcat
<1> QED BY <1>1, <1>2, ConcatAssociative

\* A subscriber that never joined has been handed nothing, and joins at the end
\* of the history.
Listens(s) ==
    /\ since[s] \in 0..Len(log)
    /\ subscriber[s] = "off" => inbox[s] = << >> /\ received[s] = << >>
    /\ Joined(s) => received[s] \o inbox[s] = SubSeq(log, since[s] + 1, Len(log))

\* The inductive invariant of the channel.
CInv == ChannelTypes /\ log \in Seq(Messages) /\ \A s \in Subscribers : Listens(s)

\* Every step of a subscriber or of the publisher keeps each subscriber's view.
LEMMA ListensStep == IInv /\ CInv /\ [Next]_vars => CInv'
<1> SUFFICES ASSUME IInv, CInv, [Next]_vars, NEW s \in Subscribers PROVE Listens(s)'
    BY TypeStep, TypeHalves DEF CInv, TypeOK, ChannelTypes
<1>0. /\ inbox[s] \in Seq(Messages) /\ received[s] \in Seq(Messages) /\ log \in Seq(Messages)
      /\ Len(log) \in Nat /\ Listens(s)
      /\ subscriber \in [Subscribers -> {"off", "waiting", "handling", "sleeping", "leaked", "gone"}]
      BY DEF CInv, ChannelTypes
<1>a. \A r, q \in Seq(Messages), x \in Messages : r \o Append(q, x) = Append(r \o q, x)
      BY Arrival
<1>h. \A r, q \in Seq(Messages) :
          q # << >> => Append(r, Head(q)) \o Tail(q) = r \o q
      BY HandOver
<1>1. ASSUME UNCHANGED <<channel, log>> PROVE Listens(s)'
      BY <1>0, <1>1 DEF Listens, Joined, channel
<1>2. ASSUME NEW m \in Messages, Publish(m) PROVE Listens(s)'
  <2>1. /\ log' = Append(log, m) /\ UNCHANGED <<since, subscriber, received>>
        /\ inbox'[s] = IF Joined(s) THEN Append(inbox[s], m) ELSE inbox[s]
        BY <1>2 DEF Publish, Broadcast
  <2>2. since'[s] \in 0..Len(log')
    <3>1. Len(log') = Len(log) + 1
          BY <1>0, <2>1, AppendProperties
    <3> QED BY <1>0, <2>1, <3>1 DEF Listens
  <2>3. CASE Joined(s)
    <3>1. received[s] \o Append(inbox[s], m) = Append(received[s] \o inbox[s], m)
          BY <1>0, <1>a
    <3>2. SubSeq(Append(log, m), since[s] + 1, Len(Append(log, m)))
             = Append(SubSeq(log, since[s] + 1, Len(log)), m)
          BY <1>0, SuffixGrows DEF Listens
    <3>3. received'[s] \o inbox'[s] = SubSeq(log', since'[s] + 1, Len(log'))
          BY <1>0, <2>1, <2>3, <3>1, <3>2 DEF Listens
    <3> QED BY <1>0, <2>1, <2>2, <2>3, <3>3 DEF Listens, Joined
  <2>4. CASE ~Joined(s)
        BY <1>0, <2>1, <2>2, <2>4 DEF Listens, Joined
  <2> QED BY <2>3, <2>4
<1>3. ASSUME NEW t \in Subscribers, SubscriberStep(t) PROVE Listens(s)'
  <2>1. CASE SubscribeChannel(t)
    <3>1. CASE t = s
      <4>1. /\ since'[s] = Len(log) /\ subscriber'[s] = "waiting"
            /\ UNCHANGED <<log, inbox, received>>
            BY <1>0, <2>1, <3>1 DEF SubscribeChannel, CInv, ChannelTypes
      <4>2. received[s] \o inbox[s] = << >>
            BY <1>0, <2>1, <3>1 DEF SubscribeChannel, Listens
      <4>3. SubSeq(log, Len(log) + 1, Len(log)) = << >>
            BY <1>0, SubSeqEmpty
      <4> QED BY <1>0, <4>1, <4>2, <4>3 DEF Listens
    <3>2. CASE t # s
          BY <1>0, <2>1, <3>2 DEF SubscribeChannel, CInv, ChannelTypes, Listens, Joined
    <3> QED BY <3>1, <3>2
  <2>2. CASE ChannelTake(t)
    <3>1. CASE t = s
      <4>1. /\ inbox'[s] = Tail(inbox[s]) /\ received'[s] = Append(received[s], Head(inbox[s]))
            /\ subscriber'[s] = "handling" /\ UNCHANGED <<log, since>>
            BY <1>0, <2>2, <3>1 DEF ChannelTake, CInv, ChannelTypes
      <4>2. received'[s] \o inbox'[s] = received[s] \o inbox[s]
            BY <1>0, <1>h, <2>2, <3>1, <4>1 DEF ChannelTake
      <4> QED BY <1>0, <2>2, <3>1, <4>1, <4>2 DEF Listens, Joined, ChannelTake
    <3>2. CASE t # s
          BY <1>0, <2>2, <3>2 DEF ChannelTake, CInv, ChannelTypes, Listens, Joined
    <3> QED BY <3>1, <3>2
  <2>3. CASE ~SubscribeChannel(t) /\ ~ChannelTake(t)
    <3>1. /\ UNCHANGED <<log, since, inbox, received>>
          /\ subscriber'[s] # "off" \/ subscriber[s] = "off"
          /\ Joined(s)' => Joined(s)
          BY <1>0, <1>3, <2>3 DEF SubscriberStep, ChannelReturns, ChannelRaises,
             ChannelWakes, CancelSubscriber, CancelSleeping, Joined
    <3> QED BY <1>0, <3>1 DEF Listens
  <2> QED BY <2>1, <2>2, <2>3
<1>4. /\ \A c \in Consumers : Subscribe(c) \/ ConsumerStep(c) \/ CancelConsumer(c)
                             => UNCHANGED <<channel, log>>
      /\ UNCHANGED vars => UNCHANGED <<channel, log>>
      BY DEF Subscribe, ConsumerStep, Take, CallbackReturns, CallbackRaises, CancelConsumer, vars
<1> QED BY <1>1, <1>2, <1>3, <1>4 DEF Next

\* A subscriber of the channel is handed every message published since it
\* joined, once and in order, while it handles, sleeps or has leaked its queue,
\* for any number of messages and subscribers.
THEOREM NoGapsInTheChannel == Spec => []ChannelInOrder
<1>1. Init => CInv
  <2> SUFFICES ASSUME Init, NEW s \in Subscribers PROVE Listens(s)
      BY InitIInv, TypeHalves DEF CInv, IInv
  <2>1. since[s] = 0 /\ subscriber[s] = "off" /\ inbox[s] = << >> /\ received[s] = << >>
        BY DEF Init
  <2>2. Len(log) = 0
        BY DEF Init
  <2> QED BY <2>1, <2>2 DEF Listens, Joined
<1>2. CInv => ChannelInOrder
      BY DEF CInv, Listens, ChannelInOrder
<1> QED BY Invariance, <1>1, ListensStep, <1>2, PTL DEF Spec
-----------------------------------------------------------------------------
(* The broker implements MessageLifecycle.                                 *)

\* The phase of one message.
PhaseOf(m) ==
    IF m \in completed THEN "done"
    ELSE IF m \in dlq THEN "dead"
    ELSE IF m \in lost THEN "lost"
    ELSE IF InHands(m) THEN "handling"
    ELSE IF m \in accepted THEN "queued"
    ELSE IF m \in Published THEN "dropped" ELSE "new"

\* A step that changes the place of one message at most moves its phase alone.
LEMMA OneMoves ==
    ASSUME NEW m \in Messages, NEW to, PhaseOf(m)' = to,
           \A x \in Messages \ {m} :
               /\ x \in completed' <=> x \in completed
               /\ x \in dlq' <=> x \in dlq
               /\ x \in lost' <=> x \in lost
               /\ InHands(x)' <=> InHands(x)
               /\ x \in accepted' <=> x \in accepted
               /\ x \in Published' <=> x \in Published
    PROVE  phase' = [phase EXCEPT ![m] = to]
<1>1. /\ phase = [x \in Messages |-> PhaseOf(x)]
      /\ phase' = [x \in Messages |-> PhaseOf(x)']
      BY DEF phase, PhaseOf, InHands
<1>2. \A x \in Messages \ {m} : PhaseOf(x)' = PhaseOf(x)
      BY DEF PhaseOf
<1> QED BY <1>1, <1>2

\* A step that leaves every place as it is, as far as phases tell, is a stutter.
LEMMA NoneMoves ==
    ASSUME UNCHANGED <<completed, dlq, lost, accepted, log, holds, attempt>>
    PROVE  UNCHANGED Lifecycle!lvars
BY DEF phase, Published, Lifecycle!lvars

\* Every step of the broker is a step of the life cycle of one message, or none.
LEMMA LifecycleStep == IInv /\ [Next]_vars => [Lifecycle!LNext]_(Lifecycle!lvars)
<1> SUFFICES ASSUME IInv, [Next]_vars PROVE Lifecycle!LNext \/ UNCHANGED Lifecycle!lvars
    OBVIOUS
<1>0. /\ queue \in Seq(Messages) /\ log \in Seq(Messages)
      /\ holds \in [Consumers -> SUBSET Messages]
      /\ Apart
      BY DEF IInv, TypeOK
<1>p. \A x \in Messages : phase[x] = PhaseOf(x)
      BY DEF phase, PhaseOf, InHands
<1>1. ASSUME NEW m \in Messages, Publish(m) PROVE Lifecycle!LNext
  <2>1. /\ Published' = Published \cup {m} /\ m \notin Published /\ m \notin accepted
        /\ accepted' = IF exists THEN accepted \cup {m} ELSE accepted
        /\ UNCHANGED <<completed, dlq, lost, holds, attempt>>
        BY <1>0, <1>1, AppendOnce DEF Publish, Published, Apart
  <2>2. \A x \in Messages : InHands(x)' <=> InHands(x)
        BY <2>1 DEF InHands
  <2>3. /\ PhaseOf(m) = "new"
        /\ PhaseOf(m)' = IF exists THEN "queued" ELSE "dropped"
        BY <1>0, <2>1, <2>2 DEF PhaseOf, Apart
  <2>4. phase' = [phase EXCEPT ![m] = IF exists THEN "queued" ELSE "dropped"]
        BY <2>1, <2>2, <2>3, OneMoves
  <2> QED BY <1>p, <2>1, <2>3, <2>4 DEF Lifecycle!LNext, Lifecycle!LPublish, Lifecycle!Moves
<1>2. ASSUME NEW c \in Consumers, Take(c) PROVE Lifecycle!LNext \/ UNCHANGED Lifecycle!lvars
  <2>0. PICK m : m = Head(queue)
        OBVIOUS
  <2>1. /\ m \in Messages /\ m \in Elements(queue)
        /\ UNCHANGED <<completed, dlq, lost, accepted, log, attempt>>
        BY <1>0, <1>2, <2>0, TailOnce DEF Take
  <2>2. m \notin completed \cup dlq \cup lost /\ m \in accepted /\ ~InHands(m) /\ holds[c] = {}
        BY <1>0, <1>2, <2>0, <2>1 DEF Take, Apart, IInv, Hands
  <2>3. holds' = [holds EXCEPT ![c] = {m}]
        BY <1>2, <2>0, <2>2 DEF Take
  <2>4. \A x : InHands(x)' <=> InHands(x) \/ x = m
        BY <2>2, <2>3, TakesInHands DEF IInv
  <2>5. Published' = Published
        BY <2>1 DEF Published
  <2>6. PhaseOf(m) = "queued" /\ PhaseOf(m)' = "handling"
        BY <2>1, <2>2, <2>4 DEF PhaseOf
  <2>7. phase' = [phase EXCEPT ![m] = "handling"]
        BY <2>1, <2>4, <2>5, <2>6, OneMoves
  <2> QED BY <1>p, <2>1, <2>6, <2>7 DEF Lifecycle!LNext, Lifecycle!LStart, Lifecycle!Moves
<1>3. ASSUME NEW c \in Consumers, NEW m \in holds[c], holds' = [holds EXCEPT ![c] = {}]
      PROVE  /\ m \in Messages /\ m \in accepted /\ holds[c] = {m}
             /\ m \notin completed \cup dlq \cup lost
             /\ PhaseOf(m) = "handling" /\ phase[m] = "handling"
             /\ \A x \in Messages : InHands(x)' <=> InHands(x) /\ x # m
  <2>1. m \in Messages /\ holds[c] = {m}
        BY HandledBy
  <2>2. InHands(m) /\ \A x \in Messages : InHands(x)' <=> InHands(x) /\ x # m
        BY <1>3, <2>1, LetsGo
  <2>3. m \in accepted /\ m \notin completed \cup dlq \cup lost
        BY <1>0, <2>1, <2>2 DEF Apart
  <2> QED BY <1>p, <2>1, <2>2, <2>3 DEF PhaseOf
<1>4. ASSUME NEW c \in Consumers, CallbackReturns(c) PROVE Lifecycle!LNext
  <2>1. PICK m \in holds[c] :
            /\ completed' = completed \cup {m}
            /\ holds' = [holds EXCEPT ![c] = {}]
            /\ UNCHANGED <<dlq, accepted, lost, log, attempt>>
        BY <1>4 DEF CallbackReturns, Release
  <2>2. /\ m \in Messages /\ phase[m] = "handling"
        /\ \A x \in Messages : InHands(x)' <=> InHands(x) /\ x # m
        BY <1>3, <2>1
  <2>3. Published' = Published /\ PhaseOf(m)' = "done"
        BY <2>1 DEF Published, PhaseOf
  <2>4. phase' = [phase EXCEPT ![m] = "done"]
        BY <2>1, <2>2, <2>3, OneMoves
  <2> QED BY <2>1, <2>2, <2>4 DEF Lifecycle!LNext, Lifecycle!LAck, Lifecycle!Moves
<1>5. ASSUME NEW c \in Consumers, CallbackRaises(c) PROVE Lifecycle!LNext
  <2>1. PICK m \in holds[c] :
            /\ attempt' = [attempt EXCEPT ![m] = @ + 1]
            /\ Requeue(m)
            /\ holds' = [holds EXCEPT ![c] = {}]
            /\ UNCHANGED <<completed, accepted, lost, log>>
        BY <1>5 DEF CallbackRaises, Release
  <2>2. /\ m \in Messages /\ phase[m] = "handling" /\ m \in accepted
        /\ m \notin completed \cup dlq \cup lost
        /\ \A x \in Messages : InHands(x)' <=> InHands(x) /\ x # m
        BY <1>3, <2>1
  <2>3. Published' = Published /\ attempt[m] \in Nat
        BY <2>1, <2>2 DEF Published, IInv, TypeOK
  <2>4. CASE GivesUp(m)
    <3>1. dlq' = dlq \cup {m}
          BY <2>1, <2>4 DEF Requeue
    <3>2. PhaseOf(m)' = "dead"
          BY <2>1, <2>2, <3>1 DEF PhaseOf
    <3>3. phase' = [phase EXCEPT ![m] = "dead"]
          BY <2>1, <2>2, <2>3, <3>1, <3>2, OneMoves
    <3>4. ~(attempt[m] + 1 < MaxAttempts)
          BY <2>3, <2>4, BrokerAssumption DEF GivesUp
    <3> QED BY <2>1, <2>2, <3>3, <3>4 DEF Lifecycle!LNext, Lifecycle!LNack, Lifecycle!Moves
  <2>5. CASE ~GivesUp(m)
    <3>1. dlq' = dlq
          BY <2>1, <2>5 DEF Requeue
    <3>2. PhaseOf(m)' = "queued"
          BY <2>1, <2>2, <3>1 DEF PhaseOf
    <3>3. phase' = [phase EXCEPT ![m] = "queued"]
          BY <2>1, <2>2, <2>3, <3>1, <3>2, OneMoves
    <3>4. attempt[m] + 1 < MaxAttempts
          BY <2>3, <2>5, BrokerAssumption DEF GivesUp
    <3> QED BY <2>1, <2>2, <3>3, <3>4 DEF Lifecycle!LNext, Lifecycle!LNack, Lifecycle!Moves
  <2> QED BY <2>4, <2>5
<1>6. ASSUME NEW c \in Consumers, CancelConsumer(c)
      PROVE  Lifecycle!LNext \/ UNCHANGED Lifecycle!lvars
  <2>1. /\ lost' = lost \cup holds[c]
        /\ holds' = [holds EXCEPT ![c] = {}]
        /\ UNCHANGED <<attempt, completed, dlq, accepted, log>>
        BY <1>6 DEF CancelConsumer, Release
  <2>2. CASE holds[c] = {}
    <3>1. holds' = holds /\ lost' = lost
          BY <1>0, <2>1, <2>2
    <3> QED BY <2>1, <3>1, NoneMoves
  <2>3. CASE holds[c] # {}
    <3>1. PICK m \in holds[c] : TRUE
          BY <2>3
    <3>2. /\ m \in Messages /\ phase[m] = "handling" /\ holds[c] = {m}
          /\ m \notin completed \cup dlq
          /\ \A x \in Messages : InHands(x)' <=> InHands(x) /\ x # m
          BY <1>3, <2>1, <3>1
    <3>3. Published' = Published /\ PhaseOf(m)' = "lost"
          BY <2>1, <3>2 DEF Published, PhaseOf
    <3>4. phase' = [phase EXCEPT ![m] = "lost"]
          BY <2>1, <3>2, <3>3, OneMoves
    <3> QED BY <2>1, <3>2, <3>4 DEF Lifecycle!LNext, Lifecycle!LLose, Lifecycle!Moves
  <2> QED BY <2>2, <2>3
<1>7. ASSUME NEW c \in Consumers, Subscribe(c) PROVE UNCHANGED Lifecycle!lvars
      BY <1>7, NoneMoves DEF Subscribe
<1>8. /\ \A s \in Subscribers : SubscriberStep(s) => UNCHANGED <<stream, log>>
      /\ UNCHANGED vars => UNCHANGED <<stream, log>>
      BY DEF SubscriberStep, SubscribeChannel, ChannelTake, ChannelReturns,
             ChannelRaises, ChannelWakes, CancelSubscriber, CancelSleeping, vars
<1>9. ASSUME UNCHANGED <<stream, log>> PROVE UNCHANGED Lifecycle!lvars
      BY <1>9, NoneMoves DEF stream
<1> QED BY <1>1, <1>2, <1>4, <1>5, <1>6, <1>7, <1>8, <1>9 DEF Next, ConsumerStep

\* The broker implements the life cycle it promises, for any number of messages,
\* consumers and attempts: completion and dead-lettering are final, a message
\* is handled at most MaxAttempts times, and only cancelling its handler loses one.
THEOREM KeepsThePromise == Spec => ImplementsLifecycle
<1>1. Init => Lifecycle!LInit
  <2> SUFFICES ASSUME Init PROVE Lifecycle!LInit
      OBVIOUS
  <2>1. Published = {}
        BY DEF Init, Published, Elements
  <2>2. \A x \in Messages : ~\E c \in Consumers : x \in holds[c]
        BY DEF Init
  <2> QED BY <2>1, <2>2 DEF Init, phase, Lifecycle!LInit
<1> QED BY Invariance, <1>1, LifecycleStep, PTL DEF Spec, ImplementsLifecycle, Lifecycle!LSpec
=============================================================================
