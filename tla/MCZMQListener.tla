--------------------------- MODULE MCZMQListener ---------------------------
(* Small instances of ZMQListener: the cfg gives the bounds, and sequence   *)
(* numbers that start over after a few messages.                           *)
EXTENDS ZMQListener
=============================================================================
