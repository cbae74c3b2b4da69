-------------------------- MODULE MempoolListener --------------------------
(***************************************************************************)
(* tbwi/services/mempool_listener.py: the connection to mempool.space, its *)
(* reconnects and its end, and what becomes of the transactions previewed  *)
(* on it.                                                                  *)
(*                                                                         *)
(* One coroutine, start(), does all the work; pc is the await it is in, of *)
(* which "start" is the one that connects to Redis, before _running is set.*)
(* Its companion _log_stats only matters for when it ends: gather waits    *)
(* for it.  A preview is a record [txid, value, fee], in which value may   *)
(* be missing (0); a message is a sequence of previews.  Amounts are in    *)
(* one unit, so the conversion from satoshi is left out.                   *)
(***************************************************************************)
EXTENDS Integers, Sequences, FiniteSets

CONSTANTS
  Messages,     \* messages mempool.space sends
  Total,        \* the value of each transaction, a function on txids
  Threshold,    \* min_tx_threshold_btc
  MinFee,       \* the fee below which a preview without value is skipped (10000)
  MaxRecent,    \* _max_recent_txids (10000)
  Kept,         \* how many a cleanup keeps (5000)
  MaxMessages   \* bound: messages received

Txids == DOMAIN Total
Previews == [txid : Txids, value : Nat, fee : Nat]
None == [txid |-> "none", value |-> 0, fee |-> 0]

ASSUME MempoolAssumption ==
  /\ Total \in [Txids -> Nat] /\ Threshold \in Nat \ {0} /\ MinFee \in Nat
  /\ Kept \in Nat /\ MaxRecent \in Nat /\ Kept <= MaxRecent
  /\ MaxMessages \in Nat
  /\ Messages \subseteq Seq(Previews) /\ None.txid \notin Txids

VARIABLES
  pc,         \* the await start() is suspended in, or "down"
  running,    \* _running
  ws,         \* _ws: the connection is "open" or "closed"
  received,   \* how many messages were received
  hand,       \* previews of the message in hand still to be processed
  cur,        \* the preview being fetched or published
  recent,     \* _recent_txids
  published,  \* per txid: messages on the stream normalized_tx
  forgotten,  \* history, per txid: times it left recent
  previewed,  \* history: previews that were not remembered
  lost        \* history: txids a failure or a crash kept from being published

connectionVars == <<running, ws, received>>
historyVars == <<forgotten, previewed, lost>>
vars == <<pc, connectionVars, hand, cur, recent, published, historyVars>>

(* The start-up is over and start() has not returned.                      *)
Up == pc \notin {"down", "start"}

Init ==
  /\ pc = "start" /\ running = FALSE /\ ws = "closed" /\ received = 0
  /\ hand = << >> /\ cur = None
  /\ recent = {}
  /\ published = [t \in Txids |-> 0] /\ forgotten = [t \in Txids |-> 0]
  /\ previewed = {} /\ lost = {}

Forget(txids) ==
  forgotten' = [t \in Txids |-> forgotten[t] + IF t \in txids THEN 1 ELSE 0]

-----------------------------------------------------------------------------
(* get_message_queue returns.  _running is set, whether or not a stop has  *)
(* come in the meantime.                                                   *)
Started ==
  /\ pc = "start"
  /\ pc' = "connect"
  /\ running' = TRUE
  /\ UNCHANGED <<ws, received, hand, cur, recent, published, historyVars>>

(* get_message_queue raises, which ends main.                              *)
StartFails ==
  /\ pc = "start"
  /\ pc' = "down"
  /\ UNCHANGED <<connectionVars, hand, cur, recent, published, historyVars>>

(* The heads of the two loops, of start and of _listen_websocket.          *)
StartHead == pc' = IF running THEN "connect" ELSE "down"
ListenHead == pc' = IF running THEN "recv" ELSE "returned"

(* The WebSocket is open and subscribed to; gather starts both coroutines. *)
Connect ==
  /\ pc = "connect"
  /\ ws' = "open"
  /\ ListenHead
  /\ UNCHANGED <<running, received, hand, cur, recent, published, historyVars>>

(* Connecting or subscribing raises: a retry in 5 seconds.                 *)
ConnectFails ==
  /\ pc = "connect"
  /\ pc' = IF running THEN "backoff" ELSE "down"
  /\ ws' = "closed"
  /\ UNCHANGED <<running, received, hand, cur, recent, published, historyVars>>

BackedOff ==
  /\ pc = "backoff"
  /\ StartHead
  /\ UNCHANGED <<connectionVars, hand, cur, recent, published, historyVars>>

ServerCloses ==
  /\ ws = "open"
  /\ ws' = "closed"
  /\ UNCHANGED <<pc, running, received, hand, cur, recent, published, historyVars>>

(* ConnectionClosed, or 60 seconds of silence and no pong: the coroutine   *)
(* returns, its companion goes on.                                         *)
ListenReturns ==
  /\ pc = "recv"
  /\ pc' = "returned"
  /\ UNCHANGED <<connectionVars, hand, cur, recent, published, historyVars>>

(* Mutant of GatherEnds: _log_stats loops for ever.                        *)
GatherNeverEnds == pc = "returned" /\ UNCHANGED vars

(* gather is over when _log_stats is, whose loop goes on while _running:   *)
(* the connection is left, start looks at its own loop condition.          *)
GatherEnds ==
  /\ pc = "returned"
  /\ ~ running
  /\ ws' = "closed"
  /\ StartHead
  /\ UNCHANGED <<running, received, hand, cur, recent, published, historyVars>>

-----------------------------------------------------------------------------
Receive(msg) ==
  /\ pc = "recv"
  /\ ws = "open"
  /\ received < MaxMessages
  /\ received' = received + 1
  /\ hand' = msg
  /\ pc' = "preview"
  /\ UNCHANGED <<running, ws, cur, recent, published, historyVars>>

EndOfMessage ==
  /\ pc = "preview"
  /\ hand = << >>
  /\ ListenHead
  /\ UNCHANGED <<connectionVars, hand, cur, recent, published, historyVars>>

(* Mutant of WorthFetching: a preview without a value is taken for small.  *)
WorthFetchingNoZero(p) == p.value >= Threshold

(* The filters before the REST request.                                    *)
WorthFetching(p) ==
  IF p.value = 0 THEN p.fee >= MinFee ELSE p.value >= Threshold

(* Past MaxRecent, the last Kept of the set's list are kept: a set has no  *)
(* order, so these are any, the new one among them or not.                 *)
Remember(txid) ==
  LET all == recent \union {txid}
  IN  IF Cardinality(all) <= MaxRecent
        THEN recent' = all /\ UNCHANGED forgotten
        ELSE \E kept \in SUBSET all :
               /\ Cardinality(kept) = Kept
               /\ recent' = kept
               /\ Forget(all \ kept)

(* Mutant of Preview: what is remembered is not skipped.                   *)
PreviewUnchecked ==
  /\ pc = "preview" /\ hand # << >>
  /\ hand' = Tail(hand)
  /\ Remember(Head(hand).txid)
  /\ previewed' = previewed \union {Head(hand)}
  /\ IF WorthFetching(Head(hand))
       THEN pc' = "fetch" /\ cur' = Head(hand)
       ELSE UNCHANGED <<pc, cur>>
  /\ UNCHANGED <<connectionVars, published, lost>>

(* _process_tx_preview up to its await.                                    *)
Preview ==
  LET p == Head(hand)
  IN  /\ pc = "preview" /\ hand # << >>
      /\ hand' = Tail(hand)
      /\ IF p.txid \in recent
           THEN UNCHANGED <<pc, cur, recent, historyVars>>
           ELSE /\ Remember(p.txid)
                /\ previewed' = previewed \union {p}
                /\ IF WorthFetching(p)
                     THEN pc' = "fetch" /\ cur' = p
                     ELSE UNCHANGED <<pc, cur>>
                /\ UNCHANGED lost
      /\ UNCHANGED <<connectionVars, published>>

(* The preview in hand is done with.                                       *)
Done == pc' = "preview" /\ cur' = None

(* _process_full_transaction up to its publish.                            *)
Fetched ==
  /\ pc = "fetch"
  /\ IF Total[cur.txid] >= Threshold
       THEN pc' = "publish" /\ UNCHANGED cur
       ELSE Done
  /\ UNCHANGED <<connectionVars, hand, recent, published, historyVars>>

(* The request raises, times out or answers anything but 200: logged, and  *)
(* the txid remains remembered.                                            *)
FetchFails ==
  /\ pc = "fetch"
  /\ Done
  /\ lost' = lost \union {cur.txid}
  /\ UNCHANGED <<connectionVars, hand, recent, published, forgotten, previewed>>

AddToStream == published' = [published EXCEPT ![cur.txid] = @ + 1]

Publish ==
  /\ pc = "publish"
  /\ Done
  /\ AddToStream
  /\ UNCHANGED <<connectionVars, hand, recent, historyVars>>

PublishFails ==
  /\ pc = "publish"
  /\ Done
  /\ lost' = lost \union {cur.txid}
  /\ AddToStream \/ UNCHANGED published
  /\ UNCHANGED <<connectionVars, hand, recent, forgotten, previewed>>

-----------------------------------------------------------------------------
(* stop() of a SIGTERM: the flag, then the connection is closed.  The      *)
(* handler is there before start() is, and during the start-up it has      *)
(* nothing to clear or to close.                                           *)
Stop ==
  /\ pc # "down"
  /\ running' = FALSE
  /\ ws' = "closed"
  /\ UNCHANGED <<pc, received, hand, cur, recent, published, historyVars>>

(* The process dies, or has stopped, and is started again.                 *)
Restart ==
  /\ pc' = "start" /\ running' = FALSE /\ ws' = "closed"
  /\ hand' = << >> /\ cur' = None
  /\ recent' = {} /\ Forget(recent)
  /\ lost' = lost \union ({cur.txid} \ {None.txid})
  /\ UNCHANGED <<received, published, previewed>>

Proceed ==
  \/ Started \/ StartFails
  \/ Connect \/ ConnectFails \/ BackedOff \/ GatherEnds
  \/ ListenReturns \/ EndOfMessage \/ Preview
  \/ Fetched \/ FetchFails \/ Publish \/ PublishFails

Next ==
  \/ Proceed \/ (\E msg \in Messages : Receive(msg))
  \/ ServerCloses \/ Stop \/ Restart

Spec == Init /\ [][Next]_vars

(* Every await ends (the requests, the sleeps, recv on a closed connection *)
(* and a recv without messages all do).                                    *)
FairSpec == Spec /\ WF_vars(Proceed)

-----------------------------------------------------------------------------
TypeOK ==
  /\ pc \in {"start", "connect", "backoff", "recv", "preview", "fetch", "publish",
             "returned", "down"}
  /\ running \in BOOLEAN /\ ws \in {"open", "closed"}
  /\ received \in 0 .. MaxMessages
  /\ hand \in Seq(Previews) /\ cur \in Previews \union {None}
  /\ recent \subseteq Txids /\ Cardinality(recent) <= MaxRecent
  /\ previewed \subseteq Previews /\ lost \subseteq Txids
  /\ published \in [Txids -> Nat] /\ forgotten \in [Txids -> Nat]
  /\ cur # None <=> pc \in {"fetch", "publish"}

(* A transaction is published again only after the set forgot it, by a     *)
(* cleanup or with the process, however often it is previewed.             *)
PublishedOncePerMemory ==
  \A t \in Txids :
    published[t] <= forgotten[t] + IF t \in recent THEN 1 ELSE 0

(* A large transaction whose preview tells its value, or no value but a    *)
(* high fee, is published unless a failure or a crash came between.        *)
WhalesPublished ==
  \A p \in previewed :
    (/\ Total[p.txid] >= Threshold
     /\ p.value >= Threshold \/ (p.value = 0 /\ p.fee >= MinFee))
    => published[p.txid] > 0 \/ p = cur \/ p.txid \in lost

(* A stop that comes after the start-up ends the listener from wherever it *)
(* is: in a connection attempt, in a back-off, in the midst of a message.  *)
(* One that comes during the start-up is undone by Started.                *)
StopEnds == (Up /\ ~ running) ~> ~ Up

(* The warning "WebSocket ping failed, reconnecting...": after the         *)
(* connection is lost the listener connects again, unless it is stopped.   *)
Reconnects == (pc = "returned") ~> (pc = "connect" \/ ~ running)
=============================================================================
