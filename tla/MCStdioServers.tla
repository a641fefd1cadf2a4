--------------------------- MODULE MCStdioServers ---------------------------
(***************************************************************************)
(* TLC instances of StdioServers, one for each value of scope: what        *)
(* requests and the environment do in it.  Nothing that ServersFairness    *)
(* speaks of is held back; where no process may be started any more, a     *)
(* start can still fail.                                                   *)
(***************************************************************************)
EXTENDS StdioServers

CONSTANTS fs, fs_local, r1

\* fs_local's adapters begin with mcp_fs_ too.
MCCovers == [n \in Names |-> IF n = fs THEN Names ELSE {n}]

VARIABLE scope

\* One server, its removal and a new one of its name, and restarts to spare;
\* the same with a cancelled call; one server over a boot; and two servers, the
\* name of one a prefix of the other's, over two boots.
OneServer == [names |-> {fs}, requests |-> Requests, objects |-> 2, procs |-> 3,
              boots |-> 0, cancels |-> 0]
Scopes ==
    {OneServer,
     [OneServer EXCEPT !.procs = 2, !.cancels = 1],
     [OneServer EXCEPT !.objects = 1, !.cancels = 1],
     [OneServer EXCEPT !.requests = {r1}, !.boots = 1],
     [OneServer EXCEPT !.names = Names, !.requests = {r1}, !.procs = 2, !.boots = 2]}

Within ==
    /\ Registered \subseteq scope.names
    /\ \A j \in Requests : job[j].at # "idle" => j \in scope.requests
    /\ Len(objects) <= scope.objects /\ Len(procs) <= scope.procs
    /\ boots <= scope.boots /\ cancels <= scope.cancels

MCInit == ServersInit /\ scope \in Scopes
MCNext == ServersNext /\ UNCHANGED scope /\ Within'

MCSpec == MCInit /\ [][MCNext]_<<serversVars, scope>> /\ ServersFairness
=============================================================================
