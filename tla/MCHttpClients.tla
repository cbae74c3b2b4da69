--------------------------- MODULE MCHttpClients ---------------------------
(***************************************************************************)
(* Small instances of the two clients that retry their HTTP requests: the  *)
(* dispatcher of the webhooks and the client of the node.  They share no   *)
(* variable, so a state of both says no more than a state of each: a       *)
(* behaviour runs one of them and leaves the other in its initial state.   *)
(***************************************************************************)
EXTENDS WebhookDispatcher, RpcClient

VARIABLE client   \* the client that runs

httpVars == <<client, vars, rpcVars>>

HttpInit == client \in {"webhooks", "rpc"} /\ Init /\ RpcInit

Dispatching == client = "webhooks" /\ Next /\ UNCHANGED <<client, rpcVars>>
Calling == client = "rpc" /\ RpcNext /\ UNCHANGED <<client, vars>>

HttpNext == Dispatching \/ Calling

HttpSpec ==
  /\ HttpInit /\ [][HttpNext]_httpVars
  /\ WF_vars(Take) /\ \A task \in Tasks : WF_vars(Proceed(task))
  /\ RpcFairness
=============================================================================
