\* One permanent consumer, one that may be cancelled, one channel subscriber.
CONSTANTS
    Messages = {m1, m2}
    Consumers = {worker, k1}
    Cancellable = {k1}
    Subscribers = {s1}
    MaxAttempts = 3
SPECIFICATION FairSpec
INVARIANTS Accounted OnePlace ChannelInOrder
PROPERTIES ImplementsLifecycle Settles
\* All messages may be settled: the consumers then wait for ever.
CHECK_DEADLOCK FALSE
