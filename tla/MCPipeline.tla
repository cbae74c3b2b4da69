----------------------------- MODULE MCPipeline -----------------------------
(***************************************************************************)
(* The way of a transaction from the mempool to a signal: the workers of   *)
(* the classifier, the oracle that gives them the price, and the signals   *)
(* that are made of the rows.  The three modules share no variable, so a   *)
(* state of all of them says no more than a state of each: a behaviour     *)
(* runs one of them and leaves the others in their initial states.         *)
(***************************************************************************)
EXTENDS MCClassifier, MCSignals, PriceOracle

VARIABLE stage   \* the module that runs

pipelineVars == <<stage, vars, oracleVars, signalsVars>>

PipelineInit ==
  /\ stage \in {"classifier", "prices", "signals"}
  /\ Init /\ PriceInit /\ SignalsInit

Classifying ==
  stage = "classifier" /\ Next /\ UNCHANGED <<stage, oracleVars, signalsVars>>
Pricing ==
  stage = "prices" /\ PriceNext /\ UNCHANGED <<stage, vars, signalsVars>>
Signalling ==
  stage = "signals" /\ SignalsNext /\ UNCHANGED <<stage, vars, oracleVars>>

PipelineNext == Classifying \/ Pricing \/ Signalling

PipelineSpec ==
  PipelineInit /\ [][PipelineNext]_pipelineVars /\ WF_oracleVars(Holder)
=============================================================================
