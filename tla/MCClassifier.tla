---------------------------- MODULE MCClassifier ----------------------------
(***************************************************************************)
(* Small instances of Classifier: two small transactions that may arrive   *)
(* repeatedly, and for the large ones a deposit, a move to an unknown      *)
(* address and a split.                                                    *)
(***************************************************************************)
EXTENDS Classifier

Out(address, value, exchange) ==
  [address |-> address, value |-> value, exchange |-> exchange]
Small(txid) ==
  [txid |-> txid, large |-> FALSE, vout |-> <<Out("a", 20, FALSE)>>]
Large(txid, vout) == [txid |-> txid, large |-> TRUE, vout |-> vout]

MCTxs ==
  {Small("t1"), Small("t2"), Large("t3", <<Out("x", 60, TRUE)>>)}
MCLargeTxs ==
  {Large("t3", <<Out("x", 60, TRUE)>>), Large("t4", <<Out("a", 60, FALSE)>>),
   Large("t5", [i \in 1 .. 3 |-> Out("a", 20, FALSE)]), Small("t1")}
=============================================================================
