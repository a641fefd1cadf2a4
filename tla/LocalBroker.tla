---------------------------- MODULE LocalBroker -----------------------------
(***************************************************************************)
(* LocalDurableBroker (src/infrastructure/queue/redis_streams_broker/      *)
(* local_broker.py), the only broker the factory ever creates, seen        *)
(* through one topic: its durable stream with the consumers of subscribe,  *)
(* and its channel with the subscribers of subscribe_channel.              *)
(*                                                                         *)
(* The broker runs on one event loop.  A coroutine gives up control only   *)
(* where it awaits something that is not ready: an empty queue, or the     *)
(* callback.  So taking a message up to the call of the callback is one    *)
(* step, and what follows the callback is another.  The queues are         *)
(* unbounded, so put never waits and publish is one step.                  *)
(***************************************************************************)
EXTENDS Naturals, Sequences, FiniteSets

CONSTANTS Messages,      \* message ids, in the order the counter gives them out
          Consumers,     \* calls of subscribe(stream, ...)
          Cancellable,   \* the consumers whose task may be cancelled
          Subscribers,   \* calls of subscribe_channel(channel, ...)
          MaxAttempts    \* the literal 3 of subscribe

ASSUME BrokerAssumption ==
    /\ Cancellable \subseteq Consumers
    /\ MaxAttempts \in Nat \ {0}

VARIABLES
    exists,      \* stream in self._streams
    queue,       \* self._streams[stream]
    attempt,     \* message.attempt_count
    status,      \* message.status
    pending,     \* keys of self._pending
    completed,   \* self._completed
    dlq,         \* self._dlq
    consumer,    \* where each call of subscribe is
    holds,       \* the message in its hands, as a set of at most one
    subscriber,  \* where each call of subscribe_channel is
    inbox,       \* the subscriber's own queue
    log,         \* history: every message published, in order
    accepted,    \* history: the messages put on the stream
    lost,        \* history: messages held by a consumer when it was cancelled
    since,       \* history: Len(log) when the subscriber joined
    received     \* history: the messages handed to the subscriber's callback

stream  == <<exists, queue, attempt, status, pending, completed, dlq, consumer, holds,
             accepted, lost>>
channel == <<subscriber, inbox, since, received>>
vars    == <<stream, channel, log>>

Elements(s) == {s[i] : i \in 1..Len(s)}
Published   == Elements(log)

TypeOK ==
    /\ exists \in BOOLEAN
    /\ queue \in Seq(Messages)
    /\ attempt \in [Messages -> 0..MaxAttempts]
    /\ status \in [Messages -> {"pending", "processing", "completed", "dead_letter"}]
    /\ pending \subseteq Messages
    /\ completed \subseteq Messages
    /\ dlq \subseteq Messages
    /\ consumer \in [Consumers -> {"off", "waiting", "handling", "gone"}]
    /\ holds \in [Consumers -> SUBSET Messages]
    /\ subscriber \in [Subscribers -> {"off", "waiting", "handling", "sleeping", "leaked", "gone"}]
    /\ inbox \in [Subscribers -> Seq(Messages)]
    /\ log \in Seq(Messages)
    /\ accepted \subseteq Messages
    /\ lost \subseteq Messages
    /\ since \in [Subscribers -> Nat]
    /\ received \in [Subscribers -> Seq(Messages)]

Init ==
    /\ exists = FALSE
    /\ queue = << >>
    /\ attempt = [m \in Messages |-> 0]
    /\ status = [m \in Messages |-> "pending"]
    /\ pending = {}
    /\ completed = {}
    /\ dlq = {}
    /\ consumer = [c \in Consumers |-> "off"]
    /\ holds = [c \in Consumers |-> {}]
    /\ subscriber = [s \in Subscribers |-> "off"]
    /\ inbox = [s \in Subscribers |-> << >>]
    /\ log = << >>
    /\ accepted = {}
    /\ lost = {}
    /\ since = [s \in Subscribers |-> 0]
    /\ received = [s \in Subscribers |-> << >>]

-----------------------------------------------------------------------------
(* publish                                                                 *)

\* The subscriber's queue is in self._channels[channel].
Joined(s) == subscriber[s] \in {"waiting", "handling", "sleeping", "leaked"}

\* Mutant: only subscribers that wait in get() are broadcast to.
Broadcast_OnlyWaiting(m) ==
    inbox' = [s \in Subscribers |->
                 IF subscriber[s] = "waiting" THEN Append(inbox[s], m) ELSE inbox[s]]

Broadcast(m) ==
    inbox' = [s \in Subscribers |-> IF Joined(s) THEN Append(inbox[s], m) ELSE inbox[s]]

\* A stream nobody ever subscribed to drops the message.
Publish(m) ==
    /\ m \notin Published
    /\ log' = Append(log, m)
    /\ IF exists
       THEN queue' = Append(queue, m) /\ accepted' = accepted \cup {m}
       ELSE UNCHANGED <<queue, accepted>>
    /\ Broadcast(m)
    /\ UNCHANGED <<exists, attempt, status, pending, completed, dlq, consumer, holds,
                   subscriber, lost, since, received>>

-----------------------------------------------------------------------------
(* subscribe: the durable consumer loop                                    *)

Subscribe(c) ==
    /\ consumer[c] = "off"
    /\ exists' = TRUE
    /\ consumer' = [consumer EXCEPT ![c] = "waiting"]
    /\ UNCHANGED <<queue, attempt, status, pending, completed, dlq, holds,
                   accepted, lost, channel, log>>

\* From get() to the call of the callback; a completed message is skipped.
Take(c) ==
    /\ consumer[c] = "waiting"
    /\ queue # << >>
    /\ queue' = Tail(queue)
    /\ IF Head(queue) \in completed
       THEN UNCHANGED <<status, pending, consumer, holds>>
       ELSE /\ status' = [status EXCEPT ![Head(queue)] = "processing"]
            /\ pending' = pending \cup {Head(queue)}
            /\ consumer' = [consumer EXCEPT ![c] = "handling"]
            /\ holds' = [holds EXCEPT ![c] = {Head(queue)}]
    /\ UNCHANGED <<exists, attempt, completed, dlq, accepted, lost, channel, log>>

Release(c, to) ==
    /\ consumer' = [consumer EXCEPT ![c] = to]
    /\ holds' = [holds EXCEPT ![c] = {}]

\* Mutant: the pending entry is not deleted.
CallbackReturns_KeepsPending(c) ==
    \E m \in holds[c] :
        /\ status' = [status EXCEPT ![m] = "completed"]
        /\ completed' = completed \cup {m}
        /\ Release(c, "waiting")
        /\ UNCHANGED <<exists, queue, attempt, pending, dlq, accepted, lost, channel, log>>

CallbackReturns(c) ==
    \E m \in holds[c] :
        /\ status' = [status EXCEPT ![m] = "completed"]
        /\ completed' = completed \cup {m}
        /\ pending' = pending \ {m}
        /\ Release(c, "waiting")
        /\ UNCHANGED <<exists, queue, attempt, dlq, accepted, lost, channel, log>>

\* Mutants: the attempt is compared before it is counted; the message is put
\* back even after it was dead-lettered; a message that failed is forgotten.
GivesUp_CountedLate(m) == attempt[m] >= MaxAttempts
Requeue_Always(m) ==
    /\ queue' = Append(queue, m)
    /\ IF attempt[m] + 1 >= MaxAttempts
       THEN status' = [status EXCEPT ![m] = "dead_letter"] /\ dlq' = dlq \cup {m}
       ELSE UNCHANGED <<status, dlq>>
Requeue_Forgets(m) == UNCHANGED <<queue, status, dlq>>

GivesUp(m) == attempt[m] + 1 >= MaxAttempts

Requeue(m) ==
    IF GivesUp(m)
    THEN /\ status' = [status EXCEPT ![m] = "dead_letter"]
         /\ dlq' = dlq \cup {m}
         /\ UNCHANGED queue
    ELSE /\ queue' = Append(queue, m)
         /\ UNCHANGED <<status, dlq>>

\* The message goes back to the tail, still PROCESSING and still in
\* _pending; the third failure dead-letters it, and _pending keeps it.
CallbackRaises(c) ==
    \E m \in holds[c] :
        /\ attempt' = [attempt EXCEPT ![m] = @ + 1]
        /\ Requeue(m)
        /\ Release(c, "waiting")
        /\ UNCHANGED <<exists, pending, completed, accepted, lost, channel, log>>

\* CancelledError ends the loop; what the callback was handling stays in
\* _pending, from which nothing is ever taken again.
CancelConsumer(c) ==
    /\ c \in Cancellable
    /\ consumer[c] \in {"waiting", "handling"}
    /\ lost' = lost \cup holds[c]
    /\ Release(c, "gone")
    /\ UNCHANGED <<exists, queue, attempt, status, pending, completed, dlq, accepted,
                   channel, log>>

-----------------------------------------------------------------------------
(* subscribe_channel: the broadcast loop                                   *)

SubscribeChannel(s) ==
    /\ subscriber[s] = "off"
    /\ subscriber' = [subscriber EXCEPT ![s] = "waiting"]
    /\ since' = [since EXCEPT ![s] = Len(log)]
    /\ UNCHANGED <<inbox, received, stream, log>>

ChannelTake(s) ==
    /\ subscriber[s] = "waiting"
    /\ inbox[s] # << >>
    /\ subscriber' = [subscriber EXCEPT ![s] = "handling"]
    /\ inbox' = [inbox EXCEPT ![s] = Tail(@)]
    /\ received' = [received EXCEPT ![s] = Append(@, Head(inbox[s]))]
    /\ UNCHANGED <<since, stream, log>>

ChannelReturns(s) ==
    /\ subscriber[s] = "handling"
    /\ subscriber' = [subscriber EXCEPT ![s] = "waiting"]
    /\ UNCHANGED <<inbox, since, received, stream, log>>

\* The message is dropped for this subscriber, which sleeps one second.
ChannelRaises(s) ==
    /\ subscriber[s] = "handling"
    /\ subscriber' = [subscriber EXCEPT ![s] = "sleeping"]
    /\ UNCHANGED <<inbox, since, received, stream, log>>

ChannelWakes(s) ==
    /\ subscriber[s] = "sleeping"
    /\ subscriber' = [subscriber EXCEPT ![s] = "waiting"]
    /\ UNCHANGED <<inbox, since, received, stream, log>>

\* The subscriber's queue is discarded.
CancelSubscriber(s) ==
    /\ subscriber[s] \in {"waiting", "handling"}
    /\ subscriber' = [subscriber EXCEPT ![s] = "gone"]
    /\ UNCHANGED <<inbox, since, received, stream, log>>

\* A CancelledError raised by the sleep of the error branch ends the coroutine
\* past its own handler: the queue stays registered and is filled for nobody.
CancelSleeping(s) ==
    /\ subscriber[s] = "sleeping"
    /\ subscriber' = [subscriber EXCEPT ![s] = "leaked"]
    /\ UNCHANGED <<inbox, since, received, stream, log>>

-----------------------------------------------------------------------------
ConsumerStep(c) == Take(c) \/ CallbackReturns(c) \/ CallbackRaises(c)

SubscriberStep(s) ==
    SubscribeChannel(s) \/ ChannelTake(s) \/ ChannelReturns(s) \/ ChannelRaises(s)
    \/ ChannelWakes(s) \/ CancelSubscriber(s) \/ CancelSleeping(s)

Next ==
    \/ \E m \in Messages : Publish(m)
    \/ \E c \in Consumers : Subscribe(c) \/ ConsumerStep(c) \/ CancelConsumer(c)
    \/ \E s \in Subscribers : SubscriberStep(s)

Spec == Init /\ [][Next]_vars

(* The event loop runs every coroutine that can go on, and every callback  *)
(* ends: the brain's awaits are network calls with timeouts and the tool   *)
(* worker bounds each tool by wait_for.  The consumers that start_worker   *)
(* creates are there from the start and live as long as the process.       *)
Fairness ==
    /\ \A c \in Consumers \ Cancellable : WF_vars(Subscribe(c))
    /\ \A c \in Consumers : /\ WF_vars(Take(c))
                            /\ WF_vars(CallbackReturns(c) \/ CallbackRaises(c))

FairSpec == Spec /\ Fairness

-----------------------------------------------------------------------------
(* Properties of the durable stream.                                       *)

Copies(m) ==
    Cardinality({i \in 1..Len(queue) : queue[i] = m})
    + Cardinality({c \in Consumers : m \in holds[c]})
    + Cardinality({S \in {<<1, completed>>, <<2, dlq>>, <<3, lost>>} : m \in S[2]})

\* Conservation: a message put on the stream is in exactly one place - once
\* in the queue, in the hands of one consumer, completed, dead-lettered or
\* lost with a cancelled consumer - through every retry and with competing
\* consumers; a message that was dropped is in none.
OnePlace == \A m \in Messages : Copies(m) = IF m \in accepted THEN 1 ELSE 0

\* _pending holds exactly the messages that some consumer has taken and none
\* has completed: dead-lettered and lost messages stay in it for ever.
PendingIsUnfinished ==
    /\ pending = {m \in Messages : status[m] \in {"processing", "dead_letter"}}
    /\ lost \cup dlq \subseteq pending
    /\ UNION {holds[c] : c \in Consumers} \subseteq pending

\* A message is dead-lettered by its MaxAttempts-th failure and by no other.
DeadAfterMaxAttempts == \A m \in Messages : m \in dlq <=> attempt[m] = MaxAttempts

\* What the broker keeps of a message agrees: its status and attempts, the
\* pending set and the queue of dead letters.
Accounted == TypeOK /\ PendingIsUnfinished /\ DeadAfterMaxAttempts

\* The broker implements the life cycle of MessageLifecycle.
phase == [m \in Messages |->
    IF m \in completed THEN "done"
    ELSE IF m \in dlq THEN "dead"
    ELSE IF m \in lost THEN "lost"
    ELSE IF \E c \in Consumers : m \in holds[c] THEN "handling"
    ELSE IF m \in accepted THEN "queued"
    ELSE IF m \in Published THEN "dropped" ELSE "new"]

Lifecycle == INSTANCE MessageLifecycle WITH phase <- phase, attempts <- attempt

\* Completion and dead-lettering are final, at most MaxAttempts handlings are
\* made of a message, and only cancelling a handler loses one.
ImplementsLifecycle == Lifecycle!LSpec

\* Every message put on the stream is eventually completed, dead-lettered or
\* lost with a cancelled consumer: no retry order starves one.
Settles == \A m \in Messages : m \in accepted ~> m \in completed \cup dlq \cup lost

(* Properties of the channel.                                              *)

\* A subscriber is handed every message published since it joined, each
\* once and in publication order, also while it handles or sleeps; what was
\* published before it joined it never sees.
ChannelInOrder ==
    \A s \in Subscribers :
        Joined(s) => received[s] \o inbox[s] = SubSeq(log, since[s] + 1, Len(log))
=============================================================================
