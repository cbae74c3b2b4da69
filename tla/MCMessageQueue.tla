--------------------------- MODULE MCMessageQueue ---------------------------
(***************************************************************************)
(* Small instances of MessageQueue for TLC: the cfgs give the bounds.      *)
(***************************************************************************)
EXTENDS MessageQueue
=============================================================================
