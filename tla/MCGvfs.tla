------------------------------- MODULE MCGvfs -------------------------------
(***************************************************************************)
(* TLC instances of Gvfs.                                                  *)
(***************************************************************************)
EXTENDS Gvfs
=============================================================================
