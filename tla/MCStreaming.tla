---------------------------- MODULE MCStreaming ----------------------------
(* Events of two kinds; clients that want everything or only bursts.       *)
EXTENDS Streaming

MCStream == <<"burst", "deposit", "burst">>
MCFilters == {{"deposit", "burst"}, {"burst"}}
=============================================================================
