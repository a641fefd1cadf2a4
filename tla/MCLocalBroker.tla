--------------------------- MODULE MCLocalBroker ----------------------------
(***************************************************************************)
(* TLC instance of LocalBroker: see broker.cfg.                            *)
(***************************************************************************)
EXTENDS LocalBroker
=============================================================================
