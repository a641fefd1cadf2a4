----------------------------- MODULE MessageLog -----------------------------
(***************************************************************************)
(* The messages table of a tenant and what writes to it: persist_message   *)
(* of services/memory/context_builder.py, called by the workers inside     *)
(* their transactions, and fork_session of routers/sessions.py.            *)
(*                                                                         *)
(* A row of the table has its session, its sequence number, msg, which     *)
(* stands for its content (a fork copies it), and its place in the order   *)
(* of the commits.  A query returns rows of equal sequence in any order.   *)
(*                                                                         *)
(* A writer is a transaction with one persist_message: it reads the        *)
(* maximum, and the row becomes visible at its commit.  With PostgreSQL    *)
(* the session's row is locked between the two, with SQLite it is not.     *)
(***************************************************************************)
EXTENDS Integers, Sequences, SequencesExt, FiniteSetsExt, Functions

CONSTANTS Sessions, Writers,
          None,
          Postgres,      \* _is_postgres
          MaxTurns,      \* max_turns of build_llm_context
          MaxMsg,        \* bound: messages ever written
          MaxRows        \* bound: places of the table

ASSUME LogAssumption ==
    /\ Postgres \in BOOLEAN
    /\ MaxTurns \in Nat \ {0}
    /\ MaxMsg \in Nat
    /\ MaxRows \in Nat
    /\ None \notin Sessions

VARIABLES
    rows,       \* the messages table
    known,      \* the sessions that exist
    bound,      \* the sessions with at least one workspace
    writer,     \* per transaction: None or the message it will commit
    fresh,      \* the next message
    managed,    \* history: sessions the context manager has written rows of
    raced       \* history: sessions with a row numbered from a stale maximum

logVars == <<rows, known, bound, writer, fresh, managed, raced>>

Msgs == 1..MaxMsg
Draft == [session : Sessions, sequence : Nat, msg : Msgs]
Row   == [session : Sessions, sequence : Nat, msg : Msgs, at : 1..MaxRows]

ASSUME NoRow == None \notin Row

LogTypeOK ==
    /\ rows \subseteq Row
    /\ \A x, y \in rows : x.at = y.at => x = y
    /\ known \subseteq Sessions
    /\ bound \subseteq known
    /\ writer \in [Writers -> {None} \cup [row : Draft, base : Int]]
    /\ fresh \in 1..(MaxMsg + 1)
    /\ managed \subseteq known
    /\ raced \subseteq known

LogInit ==
    /\ rows = {}
    /\ known = {}
    /\ bound = {}
    /\ writer = [w \in Writers |-> None]
    /\ fresh = 1
    /\ managed = {}
    /\ raced = {}

RowsOf(s) == {r \in rows : r.session = s}
SequencesOf(s) == {r.sequence : r \in RowsOf(s)}

\* coalesce(max(sequence), -1)
MaxSequence(s) == Max(SequencesOf(s) \cup {-1})

\* The messages of q become the last rows of the table, in this order.
End == Max({r.at : r \in rows} \cup {0})
Insert(q) ==
    /\ End + Len(q) <= MaxRows
    /\ rows' = rows \cup {[session |-> q[i].session, sequence |-> q[i].sequence, msg |-> q[i].msg,
                            at |-> End + i] : i \in 1..Len(q)}

\* The orders in which a query by ascending sequence may return the rows of R.
BySequence(R) ==
    {q \in Bijection(1..Cardinality(R), R) :
        \A i, j \in 1..Cardinality(R) : i < j => q[i].sequence <= q[j].sequence}

-----------------------------------------------------------------------------
(* Sessions: create_session, remove_workspace, fork_session.               *)

\* A session is created with the workspaces of the request, or with one.
CreateSession(s) ==
    /\ s \notin known
    /\ known' = known \cup {s}
    /\ bound' = bound \cup {s}
    /\ UNCHANGED <<rows, writer, fresh, managed, raced>>

\* The last workspace of the session is removed from it.
RemoveWorkspace(s) ==
    /\ s \in bound
    /\ bound' = bound \ {s}
    /\ UNCHANGED <<rows, known, writer, fresh, managed, raced>>

\* Mutant: the branch message itself is left behind.
BranchRows_Exclusive(s, b) == {r \in RowsOf(s) : r.sequence < b.sequence}

\* The rows a fork at row b copies.
BranchRows(s, b) == {r \in RowsOf(s) : r.sequence <= b.sequence}

\* prepare_workspaces reads attributes of the dicts it is given: a fork of a
\* session with a workspace raises, and nothing of it is committed.  A message
\* of another session as the branch point gives a session without messages.
ForkSession(old, new, b) ==
    /\ old \in known \ bound
    /\ new \notin known
    /\ \E q \in BySequence(IF b = None THEN {} ELSE BranchRows(old, b)) :
         Insert([i \in 1..Len(q) |-> [session |-> new, sequence |-> q[i].sequence, msg |-> q[i].msg]])
    /\ known' = known \cup {new}
    /\ bound' = bound \cup {new}
    /\ managed' = IF old \in managed THEN managed \cup {new} ELSE managed
    /\ raced' = IF old \in raced THEN raced \cup {new} ELSE raced
    /\ UNCHANGED <<writer, fresh>>

-----------------------------------------------------------------------------
(* persist_message.                                                        *)

\* Mutant: one is added to the maximum whatever it is.
NextSequence_NoOr(m) == m + 1

\* (max or -1) + 1: a maximum of 0 is false, as if there were no rows.
NextSequence(m) == (IF m = 0 THEN -1 ELSE m) + 1

PersistBegin(w, s) ==
    /\ writer[w] = None
    /\ s \in known
    /\ fresh <= MaxMsg
    /\ Postgres => \A v \in Writers : writer[v] # None => writer[v].row.session # s
    /\ writer' = [writer EXCEPT ![w] =
         [row  |-> [session |-> s, sequence |-> NextSequence(MaxSequence(s)), msg |-> fresh],
          base |-> MaxSequence(s)]]
    /\ fresh' = fresh + 1
    /\ UNCHANGED <<rows, known, bound, managed, raced>>

\* raced records that the maximum the row was numbered from is out of date.
PersistCommit(w) ==
    /\ writer[w] # None
    /\ LET r == writer[w].row IN
       /\ Insert(<<r>>)
       /\ raced' = IF writer[w].base # MaxSequence(r.session)
                   THEN raced \cup {r.session} ELSE raced
    /\ writer' = [writer EXCEPT ![w] = None]
    /\ UNCHANGED <<known, bound, fresh, managed>>

\* The caller's transaction fails: the row is never visible.
PersistRollback(w) ==
    /\ writer[w] # None
    /\ writer' = [writer EXCEPT ![w] = None]
    /\ UNCHANGED <<rows, known, bound, fresh, managed, raced>>

LogNext ==
    \/ \E s \in Sessions : CreateSession(s) \/ RemoveWorkspace(s)
    \/ \E old, new \in Sessions, b \in {None} \cup rows :
         /\ b # None => b.session = old
         /\ ForkSession(old, new, b)
    \/ \E w \in Writers, s \in Sessions : PersistBegin(w, s)
    \/ \E w \in Writers : PersistCommit(w) \/ PersistRollback(w)

-----------------------------------------------------------------------------
(* build_llm_context and get_chat_history: the first n of the session's    *)
(* rows by ascending sequence.                                             *)

\* The sets of rows a query may return: n rows, none skipped for a higher one.
FirstRows(s, n) ==
    {v \in kSubset(IF Cardinality(RowsOf(s)) < n THEN Cardinality(RowsOf(s)) ELSE n, RowsOf(s)) :
        \A x \in v, y \in RowsOf(s) \ v : x.sequence <= y.sequence}

BuildLlmContext(s) == FirstRows(s, MaxTurns)

-----------------------------------------------------------------------------
(* Properties.                                                             *)

\* Unless the context manager has written to a session, every message of it
\* has sequence 0: persist_message takes the maximum 0 for an empty table.
ZeroUntilManaged ==
    \A s \in known \ managed : SequencesOf(s) \subseteq {0}

\* Messages are numbered in the order of their commits, unless a transaction
\* numbered one from a maximum that another had moved meanwhile.
OrderedUnlessRaced ==
    \A s \in known \ raced : \A x, y \in RowsOf(s) : x.at < y.at => x.sequence <= y.sequence

\* The numbers of the messages of a session: all zero, or in order, or one of
\* them was chosen from a maximum that had moved.
Numbered == ZeroUntilManaged /\ OrderedUnlessRaced

\* A fork at a message contains that message and every message before it,
\* unless the session was misnumbered: a step that adds a session forks it
\* with a prefix of the old one at least as long as the branch point asks for.
ForkKeepsPrefix ==
    [][\A old \in known \ (bound \cup raced), new \in known' \ known : \A b \in RowsOf(old) :
         ForkSession(old, new, b) =>
           \A r \in RowsOf(old) : r.at <= b.at =>
             \E c \in rows' : c.session = new /\ c.sequence = r.sequence /\ c.msg = r.msg
      ]_logVars

\* "Pulls the last N conversation turns from the database": the latest message
\* of a session is always in the context that build_llm_context returns.
LastTurns ==
    \A s \in known : \A r \in RowsOf(s) :
        (\A x \in RowsOf(s) : x.at <= r.at) => \A v \in BuildLlmContext(s) : r \in v
=============================================================================
