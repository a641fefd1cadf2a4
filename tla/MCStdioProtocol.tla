-------------------------- MODULE MCStdioProtocol ---------------------------
(***************************************************************************)
(* TLC instances of StdioProtocol.                                         *)
(***************************************************************************)
EXTENDS StdioProtocol
=============================================================================
