---------------------------- MODULE MCAgentLoop -----------------------------
(***************************************************************************)
(* TLC instances of AgentLoop, one for each value of scope: the calls the  *)
(* model makes, the users that decide and the database errors.  Each call  *)
(* is a model value; the batches name the replies the model may give.      *)
(***************************************************************************)
EXTENDS AgentLoop

CONSTANTS free, gated, gated2, banned, ghost, dry, odd, claimed, r1

AllCalls == {free, gated, gated2, banned, ghost, dry, odd, claimed}

\* Every kind of call: one and two that wait for approval in a reply, one
\* whose own arguments claim it, one whose arguments break the batch.
Replies == {<<gated, gated2>>, <<gated, banned>>, <<free, odd>>, <<ghost, dry, claimed>>}

VARIABLE scope

\* One user with every reply; two users who decide on one request at once, while
\* a batch breaks and the database fails; and on the two requests of one reply.
Scopes ==
    {[calls |-> AllCalls, users |-> {r1}, faults |-> MaxFaults],
     [calls |-> {gated, banned, free, odd}, users |-> Requests, faults |-> 1],
     [calls |-> {gated, gated2, free, odd}, users |-> Requests, faults |-> 0]}

Within ==
    /\ \A c \in Calls : owner[c] # NoTask => c \in scope.calls
    /\ \A r \in Requests : request[r] # << >> => r \in scope.users
    /\ faults <= scope.faults

MCInit == Init /\ scope \in Scopes
MCNext == Next /\ UNCHANGED scope /\ Within'

MCSpec == MCInit /\ [][MCNext]_<<vars, scope>> /\ Fairness
=============================================================================
