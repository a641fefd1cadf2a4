--------------------------- MODULE ContextManager ---------------------------
(***************************************************************************)
(* services/memory/context: the cache of session contexts in front of the  *)
(* messages table, its dirty set and checkpoints, windows and summaries,   *)
(* and the flush at the stop, driven through its public operations beside  *)
(* everything MessageLog lets other transactions do to the table.          *)
(*                                                                         *)
(* get_or_create_context takes no lock: a Loader reads the table and puts  *)
(* what it read into the cache in a later step.  add_message, clear and    *)
(* flush hold _lock over their awaits: busy is what the holder is doing.   *)
(* add_message to a cached context awaits nothing; to any other session it *)
(* changes a context that is dropped on return.                            *)
(***************************************************************************)
EXTENDS MessageLog

CONSTANTS Loaders,
          MaxRecent,        \* MAX_RECENT
          CacheSize,        \* CACHE_SIZE
          SummaryThreshold  \* SUMMARY_THRESHOLD

ASSUME ManagerAssumption ==
    /\ MaxRecent \in Nat \ {0}
    /\ CacheSize \in Nat \ {0}
    /\ SummaryThreshold \in Nat \ {0}

VARIABLES
    cache,      \* _cache: per session None or its context
    lru,        \* the cached sessions, least recently used first
    dirty,      \* _dirty_sessions of the checkpoint manager
    loader,     \* per loader: None or what it read
    busy,       \* None, or the operation that holds _lock
    accepted,   \* history: messages add_message has accepted
    lost,       \* history: accepted messages that are known to be gone
    revived     \* history: sessions whose cached context was read before a clear

manager == <<cache, lru, dirty, loader, busy, accepted, lost, revived>>
conversationVars == <<logVars, manager>>

Message == [sequence : Nat, msg : Msgs]
Window == [messages : Seq(Message), summary : BOOLEAN]
Context == [recent : Seq(Message), windows : Seq(Window), last_sequence : Nat,
            total_messages : Nat, is_dirty : BOOLEAN, tasks : SUBSET Nat]

ASSUME NoContext == None \notin Context

ConversationTypeOK ==
    /\ LogTypeOK
    /\ cache \in [Sessions -> {None} \cup Context]
    /\ lru \in Seq(Sessions)
    /\ Len(lru) <= CacheSize
    /\ ToSet(lru) = {s \in Sessions : cache[s] # None}
    /\ dirty \subseteq Sessions
    /\ loader \in [Loaders -> {None} \cup [session : Sessions, ctx : Context, stale : BOOLEAN]]
    /\ busy \in {None}
             \cup [op : {"clear"}, session : Sessions]
             \cup [op : {"flush"}, session : {None} \cup Sessions,
                   missing : Seq(Message), base : Int, same : BOOLEAN, mutated : BOOLEAN]
    /\ accepted \subseteq Msgs
    /\ lost \subseteq accepted
    /\ revived \subseteq Sessions

ConversationInit ==
    /\ LogInit
    /\ cache = [s \in Sessions |-> None]
    /\ lru = << >>
    /\ dirty = {}
    /\ loader = [l \in Loaders |-> None]
    /\ busy = None
    /\ accepted = {}
    /\ lost = {}
    /\ revived = {}

\* The messages of a context, in the order windows and recent hold them.
Held(ctx) ==
    FlattenSeq([i \in DOMAIN ctx.windows |-> ctx.windows[i].messages]) \o ctx.recent
MessagesOf(ctx) == ToSet(ctx.recent) \cup UNION {ToSet(ctx.windows[i].messages) : i \in DOMAIN ctx.windows}
HeldMsgs(ctx) == {m.msg : m \in MessagesOf(ctx)}
Stored(m) == \E r \in rows : r.msg = m

\* What is gone with a context that leaves memory.
Dropped(ctx) == {m \in HeldMsgs(ctx) \cap accepted : ~Stored(m)}

\* Mutant: the session keeps its old place.
Touch_Twice(s) == Append(lru, s)

Touch(s) == Append(RemoveFirst(lru, s), s)

-----------------------------------------------------------------------------
(* get_or_create_context and load_from_db.                                 *)

\* The latest 2 * max_recent rows by sequence, in ascending order.
LoadedRows(s) ==
    LET n   == Cardinality(RowsOf(s))
        top == {v \in kSubset(IF n < 2 * MaxRecent THEN n ELSE 2 * MaxRecent, RowsOf(s)) :
                   \A x \in v, y \in RowsOf(s) \ v : x.sequence >= y.sequence}
    IN  UNION {BySequence(v) : v \in top}

\* The context of the rows q; without rows it is a new one.  total_messages
\* starts at the last sequence number.
LoadFromDb(q) ==
    LET last == Max({r.sequence : r \in ToSet(q)} \cup {0}) IN
    [recent |-> [i \in DOMAIN q |-> [sequence |-> q[i].sequence, msg |-> q[i].msg]],
     windows |-> << >>, last_sequence |-> last, total_messages |-> last,
     is_dirty |-> FALSE, tasks |-> {}]

GetCached(s) ==
    /\ cache[s] # None
    /\ lru' = Touch(s)
    /\ UNCHANGED <<logVars, cache, dirty, loader, busy, accepted, lost, revived>>

LoadContext(l, s) ==
    /\ loader[l] = None
    /\ s \in known
    /\ cache[s] = None
    /\ \E q \in LoadedRows(s) :
         loader' = [loader EXCEPT ![l] = [session |-> s, ctx |-> LoadFromDb(q), stale |-> FALSE]]
    /\ UNCHANGED <<logVars, cache, lru, dirty, busy, accepted, lost, revived>>

\* LRUCache: a new key evicts the least recently used one of a full cache,
\* dirty or not.  The context of a slower loader replaces that of a faster one.
PutContext(l) ==
    LET s == loader[l].session
        full == cache[s] = None /\ Len(lru) = CacheSize
        gone == IF full THEN {Head(lru)} ELSE {}
    IN
    /\ loader[l] # None
    /\ cache' = [x \in Sessions |-> IF x = s THEN loader[l].ctx
                                    ELSE IF x \in gone THEN None ELSE cache[x]]
    /\ lru' = IF full THEN Append(Tail(lru), s) ELSE Touch(s)
    /\ loader' = [loader EXCEPT ![l] = None]
    /\ busy' = IF busy # None /\ busy.op = "flush"
               THEN [busy EXCEPT !.same = @ /\ busy.session \notin gone \cup {s},
                                 !.mutated = @ \/ cache[s] = None]
               ELSE busy
    /\ lost' = lost \cup UNION {Dropped(cache[x]) : x \in {y \in gone \cup {s} : cache[y] # None}}
    /\ revived' = (revived \ (gone \cup {s})) \cup (IF loader[l].stale THEN {s} ELSE {})
    /\ UNCHANGED <<logVars, dirty, accepted>>

-----------------------------------------------------------------------------
(* add_message.                                                            *)

\* How many of the recent messages move to a window.
Overflow(ctx) == Len(ctx.recent) - MaxRecent

\* Mutants: the newest messages are moved; the moved messages are dropped.
CreateWindow_Newest(ctx) ==
    [ctx EXCEPT !.windows = Append(@, [messages |-> SubSeq(ctx.recent, MaxRecent + 1, Len(ctx.recent)), summary |-> FALSE]),
                !.recent = SubSeq(@, 1, MaxRecent)]
CreateWindow_Drops(ctx) == [ctx EXCEPT !.recent = SubSeq(@, Overflow(ctx) + 1, Len(@))]

\* create_window, and the task that will summarise it.
CreateWindow(ctx) ==
    [ctx EXCEPT !.windows = Append(@, [messages |-> SubSeq(ctx.recent, 1, Overflow(ctx)), summary |-> FALSE]),
                !.recent = SubSeq(@, Overflow(ctx) + 1, Len(@)),
                !.tasks = @ \cup {Len(ctx.windows) + 1}]

\* Task 0 is summarize_session, task i summarises window i.
AddToContext(ctx, m) ==
    LET added == [ctx EXCEPT !.last_sequence = @ + 1,
                             !.recent = Append(@, [sequence |-> ctx.last_sequence + 1, msg |-> m])]
        moved == IF Len(added.recent) > MaxRecent THEN CreateWindow(added) ELSE added
    IN  [moved EXCEPT !.total_messages = @ + 1,
                      !.is_dirty = TRUE,
                      !.tasks = IF (moved.total_messages + 1) % SummaryThreshold = 0
                                THEN @ \cup {0} ELSE @]

AddCached(s) ==
    /\ busy = None
    /\ cache[s] # None
    /\ fresh <= MaxMsg
    /\ cache' = [cache EXCEPT ![s] = AddToContext(@, fresh)]
    /\ lru' = Touch(s)
    /\ dirty' = dirty \cup {s}
    /\ accepted' = accepted \cup {fresh}
    /\ fresh' = fresh + 1
    /\ UNCHANGED <<rows, known, bound, writer, managed, raced, loader, busy, lost, revived>>

\* _get_from_cache_or_db does not cache what it loads: the message is added to
\* a context nobody keeps.  Only the dirty mark stays.  Without rows the call
\* answers "Session not found".
AddUncached(s) ==
    /\ busy = None
    /\ s \in known
    /\ cache[s] = None
    /\ RowsOf(s) # {}
    /\ fresh <= MaxMsg
    /\ dirty' = dirty \cup {s}
    /\ accepted' = accepted \cup {fresh}
    /\ lost' = lost \cup {fresh}
    /\ fresh' = fresh + 1
    /\ UNCHANGED <<rows, known, bound, writer, managed, raced, cache, lru, loader, busy, revived>>

\* The windows once the summary of window i has come, if it has.
Summarised(windows, i, ok) ==
    [k \in DOMAIN windows |-> [windows[k] EXCEPT !.summary = @ \/ (ok /\ k = i)]]

\* summarize_window or summarize_session of a context that is still cached
\* ends; the call of the model may fail, and then nothing changes.
Summarise(s, i, ok) ==
    /\ cache[s] # None
    /\ i \in cache[s].tasks
    /\ cache' = [cache EXCEPT
         ![s].tasks = @ \ {i},
         ![s].is_dirty = @ \/ ok,
         ![s].windows = Summarised(@, i, ok)]
    /\ UNCHANGED <<logVars, lru, dirty, loader, busy, accepted, lost, revived>>

-----------------------------------------------------------------------------
(* clear_context, the checkpoint loop and _flush_all.                      *)

\* The cache entry goes first, the rows after an await.
ClearBegin(s) ==
    /\ busy = None
    /\ busy' = [op |-> "clear", session |-> s]
    /\ cache' = [cache EXCEPT ![s] = None]
    /\ lru' = RemoveFirst(lru, s)
    /\ dirty' = dirty \ {s}
    /\ lost' = lost \cup (IF cache[s] = None THEN {} ELSE Dropped(cache[s]))
    /\ revived' = revived \ {s}
    /\ UNCHANGED <<logVars, loader, accepted>>

\* clear_from_db.  Who read the rows before this step holds a stale context.
ClearCommit ==
    /\ busy # None
    /\ busy.op = "clear"
    /\ LET s == busy.session IN
       /\ rows' = rows \ RowsOf(s)
       /\ lost' = lost \cup {m \in accepted : \E r \in RowsOf(s) : r.msg = m}
       /\ loader' = [l \in Loaders |-> IF loader[l] # None /\ loader[l].session = s
                                       THEN [loader[l] EXCEPT !.stale = TRUE] ELSE loader[l]]
       /\ revived' = IF cache[s] = None THEN revived ELSE revived \cup {s}
       /\ raced' = IF \E w \in Writers : writer[w] # None /\ writer[w].row.session = s
                   THEN raced \cup {s} ELSE raced
    /\ busy' = None
    /\ UNCHANGED <<known, bound, writer, fresh, managed, cache, lru, dirty, accepted>>

\* _checkpoint_loop calls flush_dirty_sessions without get_context: the dirty
\* set is emptied and nothing is written.
Checkpoint ==
    /\ dirty # {}
    /\ dirty' = {}
    /\ UNCHANGED <<logVars, cache, lru, loader, busy, accepted, lost, revived>>

DirtyCached == {s \in Sessions : cache[s] # None /\ cache[s].is_dirty}

\* Mutants: whether the row is there already is not looked up; only the last
\* message is.
Missing_Unchecked(s) == DOMAIN cache[s].recent
Missing_LastOnly(s) == {i \in {Len(cache[s].recent)} : cache[s].recent[i].sequence \notin SequencesOf(s)}

\* Where the recent messages are of whose number the session has no row.  The
\* lookup of a message flushes those before it: of equal numbers the first.
Missing(s) == {i \in DOMAIN cache[s].recent :
    /\ cache[s].recent[i].sequence \notin SequencesOf(s)
    /\ \A j \in 1..i : cache[s].recent[j].sequence = cache[s].recent[i].sequence => j = i}

\* scalar_one_or_none raises when two rows have the number.
Ambiguous(s) ==
    \E i \in DOMAIN cache[s].recent : \E x, y \in RowsOf(s) :
        x # y /\ x.sequence = cache[s].recent[i].sequence /\ y.sequence = x.sequence

\* stop() takes the lock, or goes on with the next context.
CanFlush == busy # None => (busy.op = "flush" /\ busy.session = None)

\* persist_to_db looks the messages of one dirty context up ...
FlushLookup(s) ==
    /\ CanFlush
    /\ s \in DirtyCached
    /\ \E q \in Bijection(1..Cardinality(Missing(s)), Missing(s)) :
         /\ \A i, j \in DOMAIN q : i < j => q[i] < q[j]
         /\ busy' = IF Ambiguous(s) THEN None
                    ELSE [op |-> "flush", session |-> s,
                          missing |-> [i \in DOMAIN q |-> cache[s].recent[q[i]]],
                          base |-> MaxSequence(s), same |-> TRUE, mutated |-> FALSE]
    /\ UNCHANGED <<logVars, cache, lru, dirty, loader, accepted, lost, revived>>

\* Mutant: the rows are committed newest first.
FlushedRows_Reversed == Reverse([i \in DOMAIN busy.missing |->
    [session |-> busy.session, sequence |-> busy.missing[i].sequence, msg |-> busy.missing[i].msg]])

FlushedRows == [i \in DOMAIN busy.missing |->
    [session |-> busy.session, sequence |-> busy.missing[i].sequence, msg |-> busy.missing[i].msg]]

\* ... and commits the ones that were not there.  A put in between has changed
\* the dictionary the loop iterates over: it raises and the flush ends.
FlushCommit ==
    /\ busy # None
    /\ busy.op = "flush"
    /\ busy.session # None
    /\ LET s == busy.session
           rest == DirtyCached \ {s}
       IN
       /\ Insert(FlushedRows)
       /\ cache' = IF busy.same THEN [cache EXCEPT ![s].is_dirty = FALSE] ELSE cache
       /\ busy' = IF busy.mutated \/ rest = {} THEN None ELSE [busy EXCEPT !.session = None]
       /\ managed' = IF busy.missing = << >> THEN managed ELSE managed \cup {s}
       /\ raced' = IF /\ busy.missing # << >>
                      /\ \/ busy.base # MaxSequence(s)
                         \/ busy.missing[1].sequence < MaxSequence(s)
                   THEN raced \cup {s} ELSE raced
       /\ lost' = lost \ {r.msg : r \in ToSet(FlushedRows)}
    /\ UNCHANGED <<known, bound, writer, fresh, lru, dirty, loader, accepted, revived>>

\* The process ends without stop().
Crash ==
    /\ cache' = [s \in Sessions |-> None]
    /\ lru' = << >>
    /\ dirty' = {}
    /\ loader' = [l \in Loaders |-> None]
    /\ busy' = None
    /\ writer' = [w \in Writers |-> None]
    /\ lost' = lost \cup UNION {Dropped(cache[s]) : s \in ToSet(lru)}
    /\ revived' = {}
    /\ UNCHANGED <<rows, known, bound, fresh, managed, raced, accepted>>

ManagerNext ==
    \/ \E s \in Sessions : GetCached(s) \/ AddCached(s) \/ AddUncached(s)
                           \/ ClearBegin(s) \/ FlushLookup(s)
    \/ \E s \in Sessions, i \in 0..MaxMsg, ok \in BOOLEAN : Summarise(s, i, ok)
    \/ \E l \in Loaders, s \in Sessions : LoadContext(l, s)
    \/ \E l \in Loaders : PutContext(l)
    \/ ClearCommit
    \/ Checkpoint
    \/ FlushCommit
    \/ Crash

ConversationNext == (LogNext /\ UNCHANGED manager) \/ ManagerNext

ConversationSpec == ConversationInit /\ [][ConversationNext]_conversationVars

-----------------------------------------------------------------------------
(* What build_for_ui and build_for_llm return of a context.                *)

BuildForUi(ctx) == SortSeq(Held(ctx), LAMBDA x, y : x.sequence < y.sequence)
BuildForLlm(ctx) == ctx.recent

-----------------------------------------------------------------------------
(* Properties.                                                             *)

\* What the model is shown of a cached context is the end of what the user is
\* shown of it, message for message, and no message is in it twice.
LlmSeesTheEnd ==
    \A s \in Sessions : cache[s] # None =>
        /\ IsSuffix([i \in DOMAIN BuildForLlm(cache[s]) |-> BuildForLlm(cache[s])[i].sequence],
                    [i \in DOMAIN BuildForUi(cache[s]) |-> BuildForUi(cache[s])[i].sequence])
        /\ Cardinality(HeldMsgs(cache[s])) = Len(Held(cache[s]))

\* A cached context that is not dirty has a row for each of its recent
\* messages, unless it was read before a clear of the session ended: the load
\* takes no lock, so clear_context may leave a context of deleted rows behind.
CleanIsStored ==
    \A s \in Sessions \ revived :
        (cache[s] # None /\ ~cache[s].is_dirty)
        => {m.sequence : m \in ToSet(cache[s].recent)} \subseteq SequencesOf(s)

\* An accepted message is in the table or in a cached context, or was lost in
\* one of the ways the code has: added to a session that is not cached, evicted
\* or replaced while dirty, skipped for a row with its number, cleared, or in
\* memory at a crash.
AcceptedAccounted ==
    \A m \in accepted \ lost :
        Stored(m) \/ \E s \in Sessions : cache[s] # None /\ m \in HeldMsgs(cache[s])

\* No message is written to a session twice, however often it is flushed.
WrittenOnce ==
    \A x, y \in rows : x.session = y.session /\ x.msg = y.msg => x = y

\* Every accepted message is in the cache or in the table, there at most once,
\* or it was lost in one of the ways the code has; what is clean is stored.
MessagesAccounted == ConversationTypeOK /\ CleanIsStored /\ AcceptedAccounted /\ WrittenOnce
=============================================================================
