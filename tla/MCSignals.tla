----------------------------- MODULE MCSignals -----------------------------
(* Rows on either side of each threshold, with known and unknown entities. *)
EXTENDS Signals

Row(type, btc, outputs) ==
  [types |-> <<type>>, btc |-> btc, outputs |-> outputs, inputs |-> << >>]

MCRows ==
  {Row("EXCHANGE_DEPOSIT_CANDIDATE", 600, <<"Unknown", "X">>),
   Row("EXCHANGE_DEPOSIT_CANDIDATE", 2000, <<"Y", "X">>),
   Row("EXCHANGE_DEPOSIT_CANDIDATE", 5000, <<"Y">>),
   [Row("EXCHANGE_WITHDRAWAL_CANDIDATE", 600, <<"Unknown">>)
      EXCEPT !.inputs = <<"X">>],
   Row("OTC_LIKE_MOVE_CANDIDATE", 1000, <<"Unknown">>),
   Row("PROGRAMMATIC_SPLIT", 999, <<"Unknown", "Unknown", "Unknown">>),
   Row("LARGE_MULTI_OUTPUT", 1000, <<"Unknown", "Z">>),
   Row("LARGE_SINGLE_OUTPUT", 600, <<"Unknown">>),
   [Row("UNKNOWN_LARGE", 100, <<"Unknown">>) EXCEPT !.types = << >>]}
=============================================================================
