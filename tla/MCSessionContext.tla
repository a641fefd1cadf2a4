-------------------------- MODULE MCSessionContext --------------------------
(***************************************************************************)
(* TLC instance of SessionContext.                                         *)
(***************************************************************************)
EXTENDS SessionContext

CONSTANTS openai, mine

\* Three requests: one that changes, one that overlaps it, one that sees both.
MCRequests == 1..3
MCModelIds == {openai, mine}
MCPresets == {openai}
MCDatabases == BOOLEAN
=============================================================================
