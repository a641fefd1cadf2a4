-------------------------- MODULE MCContextManager --------------------------
(***************************************************************************)
(* TLC instances of ContextManager.                                        *)
(***************************************************************************)
EXTENDS ContextManager
=============================================================================
