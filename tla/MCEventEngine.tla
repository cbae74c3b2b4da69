--------------------------- MODULE MCEventEngine ---------------------------
(***************************************************************************)
(* Small instances of EventEngine: one exchange X and another Y, deposits  *)
(* to Y and to both, withdrawals from X.                                   *)
(***************************************************************************)
EXTENDS EventEngine

To(label) == [label |-> label, exchange |-> label # "Unknown"]
Pays(txid, btc, outputs) ==
  [txid |-> txid, btc |-> btc, types |-> {Deposit}, primary |-> Deposit,
   fromExchange |-> FALSE, outputs |-> outputs]
Leaves(txid, outputs) ==
  [txid |-> txid, btc |-> 1, types |-> {Withdrawal}, primary |-> Withdrawal,
   fromExchange |-> TRUE, outputs |-> outputs]

MCFlows ==
  {Pays("xy", 1, <<To("X"), To("Y")>>), Pays("y", 2, <<To("Y"), To("Unknown")>>),
   Leaves("w1", <<To("X")>>)}
=============================================================================
