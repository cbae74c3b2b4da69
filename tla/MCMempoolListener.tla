------------------------- MODULE MCMempoolListener -------------------------
(***************************************************************************)
(* Small instances of MempoolListener: a transaction previewed with its    *)
(* value, one with its fee only, one whose fee is low and one whose        *)
(* preview is wrong, in messages of one or two.                            *)
(***************************************************************************)
EXTENDS MempoolListener

P(txid, value, fee) == [txid |-> txid, value |-> value, fee |-> fee]

MCTotal == [t \in {"a", "b", "c"} |-> IF t = "c" THEN 1 ELSE 5]
MCMessages ==
  {<<P("a", 5, 0), P("b", 0, 2)>>, <<P("c", 5, 0)>>, <<P("b", 0, 1), P("c", 1, 0)>>,
   <<P("a", 5, 0)>>}
=============================================================================
