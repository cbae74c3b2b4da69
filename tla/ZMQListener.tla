---------------------------- MODULE ZMQListener ----------------------------
(***************************************************************************)
(* tbwi/services/zmq_listener.py: raw transactions and blocks from Bitcoin *)
(* Core, one coroutine for each topic, with their sequence numbers.        *)
(*                                                                         *)
(* A message is [n, seq, large]: its number in order of publication by the *)
(* node, the sequence number the node sends with it, and whether it can be *)
(* parsed and reaches min_tx_threshold_btc.  Nodes that send no sequence   *)
(* number are left out.  poll() returns a future, which is true at once    *)
(* and never awaited, so a loop waits in recv_multipart without a timeout. *)
(***************************************************************************)
EXTENDS Integers, SequencesExt

CONSTANTS
  Wrap,         \* 2^32, where sequence numbers start over
  Hwm,          \* RCVHWM
  MaxMessages,  \* bound: messages of the node, both topics together
  MaxStarts     \* bound: starts of the listener

ASSUME ZMQListenerAssumption ==
  /\ Wrap \in Nat \ {0} /\ Hwm \in Nat \ {0}
  /\ MaxMessages \in Nat /\ MaxStarts \in Nat

VARIABLES
  \* the node, and what its sockets hold for the listener
  sent,       \* per topic: messages the node published
  base,       \* per topic: those before the node was restarted
  restarted,  \* whether the node was
  wire,       \* per topic: messages in the listener's socket
  \* the listener's process
  pc,         \* per topic: the await the loop is in
  running,    \* _running
  open,       \* whether the sockets are
  last,       \* _last_tx_seq, _last_block_seq
  missed,     \* _missed_tx_count, _missed_block_count
  hand,       \* the transaction that is being published, 0 for none
  starts,     \* starts so far
  \* history
  heard,      \* per topic: numbers of the messages this process received
  wanted,     \* large transactions received by any process
  published,  \* the stream normalized_tx
  dropped     \* large transactions that an error, a stop or a crash lost

nodeVars == <<sent, base, restarted>>
procVars == <<pc, running, open, last, missed, hand, starts>>
streamVars == <<wanted, published, dropped>>
vars == <<nodeVars, wire, procVars, heard, streamVars>>

Topics == {"rawtx", "rawblock"}
None == -1
PerTopic(value) == [t \in Topics |-> value]
Up == pc["rawtx"] \notin {"down", "start"}

Init ==
  /\ sent = PerTopic(0) /\ base = PerTopic(0) /\ restarted = FALSE
  /\ wire = PerTopic(<< >>)
  /\ pc = PerTopic("down") /\ running = FALSE /\ open = FALSE
  /\ last = PerTopic(None) /\ missed = PerTopic(0)
  /\ hand = 0 /\ starts = 0
  /\ heard = PerTopic({})
  /\ wanted = {} /\ published = << >> /\ dropped = {}

-----------------------------------------------------------------------------
(* The node publishes; without a subscriber, with a full queue or over a   *)
(* broken connection the message is gone.                                  *)
NodePublishes(t, large) ==
  /\ sent["rawtx"] + sent["rawblock"] < MaxMessages
  /\ sent' = [sent EXCEPT ![t] = @ + 1]
  /\ \/ UNCHANGED wire
     \/ /\ open /\ Len(wire[t]) < Hwm
        /\ wire' = [wire EXCEPT ![t] = Append(@,
             [n |-> sent'[t], seq |-> (sent[t] - base[t]) % Wrap, large |-> large])]
  /\ UNCHANGED <<base, restarted, procVars, heard, streamVars>>

(* The node is restarted and numbers from 0 again.                         *)
NodeRestarts ==
  /\ ~ restarted
  /\ restarted' = TRUE /\ base' = sent
  /\ UNCHANGED <<sent, wire, procVars, heard, streamVars>>

-----------------------------------------------------------------------------
(* The process starts, and waits for Redis.                                *)
Start ==
  /\ pc["rawtx"] = "down" /\ starts < MaxStarts
  /\ starts' = starts + 1
  /\ pc' = PerTopic("start")
  /\ UNCHANGED <<nodeVars, wire, running, open, last, missed, hand, heard, streamVars>>

(* The rest of start(), which does not ask whether stop() has come before. *)
Connected ==
  /\ pc["rawtx"] = "start"
  /\ pc' = PerTopic("recv")
  /\ running' = TRUE /\ open' = TRUE
  /\ UNCHANGED <<nodeVars, wire, last, missed, hand, starts, heard, streamVars>>

(* Mutant of Gap: the number before is taken for the one expected.         *)
GapOffByOne(seq, before) == IF before = None THEN 0 ELSE (seq - before) % Wrap

(* How many messages lie between two that came one after the other; none   *)
(* before the first.                                                       *)
Gap(seq, before) == IF before = None THEN 0 ELSE (seq - (before + 1)) % Wrap

(* Large transactions are passed on.                                       *)
WorthPublishing(t, m) == t = "rawtx" /\ m.large

(* A message is counted, and published if it is a large transaction; of    *)
(* blocks only the arrival is logged.                                      *)
Receive(t) ==
  /\ pc[t] = "recv" /\ open /\ wire[t] # << >>
  /\ LET m == Head(wire[t])
     IN  /\ missed' = [missed EXCEPT ![t] = @ + Gap(m.seq, last[t])]
         /\ last' = [last EXCEPT ![t] = m.seq]
         /\ heard' = [heard EXCEPT ![t] = @ \union {m.n}]
         /\ wanted' = IF t = "rawtx" /\ m.large THEN wanted \union {m.n} ELSE wanted
         /\ IF WorthPublishing(t, m)
              THEN hand' = m.n /\ pc' = [pc EXCEPT ![t] = "publish"]
              ELSE UNCHANGED <<hand, pc>>
  /\ wire' = [wire EXCEPT ![t] = Tail(@)]
  /\ UNCHANGED <<nodeVars, running, open, starts, published, dropped>>

(* Mutant of LoopGoesOn: the flag is not looked at again.                  *)
LoopReceives(t) == pc' = [pc EXCEPT ![t] = "recv"]

(* while self._running                                                     *)
LoopGoesOn(t) == pc' = [pc EXCEPT ![t] = IF running THEN "recv" ELSE "ended"]

Publish ==
  /\ pc["rawtx"] = "publish"
  /\ published' = Append(published, hand)
  /\ hand' = 0
  /\ LoopGoesOn("rawtx")
  /\ UNCHANGED <<nodeVars, wire, running, open, last, missed, starts, heard, wanted,
                 dropped>>

(* Mutant of PublishFails: the transaction is published once more.         *)
PublishRetried ==
  /\ pc["rawtx"] = "publish"
  /\ published' \in {published, Append(published, hand)}
  /\ UNCHANGED <<nodeVars, wire, procVars, heard, wanted, dropped>>

(* Redis fails, before or after the XADD; the error is logged.             *)
PublishFails ==
  /\ pc["rawtx"] = "publish"
  /\ \/ published' = Append(published, hand) /\ UNCHANGED dropped
     \/ UNCHANGED published /\ dropped' = dropped \union {hand}
  /\ hand' = 0
  /\ LoopGoesOn("rawtx")
  /\ UNCHANGED <<nodeVars, wire, running, open, last, missed, starts, heard, wanted>>

(* Mutant of ReceiveFails: the error ends the loop.                        *)
ReceiveFailsForGood(t) ==
  /\ pc[t] = "recv" /\ open
  /\ pc' = [pc EXCEPT ![t] = "ended"]
  /\ UNCHANGED <<nodeVars, wire, running, open, last, missed, hand, starts, heard,
                 streamVars>>

(* ZMQError: a pause of a second.                                          *)
ReceiveFails(t) ==
  /\ pc[t] = "recv" /\ open
  /\ pc' = [pc EXCEPT ![t] = "sleep"]
  /\ UNCHANGED <<nodeVars, wire, running, open, last, missed, hand, starts, heard,
                 streamVars>>

SleepOver(t) ==
  /\ pc[t] = "sleep"
  /\ LoopGoesOn(t)
  /\ UNCHANGED <<nodeVars, wire, running, open, last, missed, hand, starts, heard,
                 streamVars>>

-----------------------------------------------------------------------------
(* stop(), run by a signal: closing a socket cancels the loop that waits   *)
(* in it.  During start-up there is nothing to close.                      *)
Stop ==
  /\ pc["rawtx"] # "down"
  /\ running' = FALSE /\ open' = FALSE
  /\ wire' = PerTopic(<< >>)
  /\ pc' = [t \in Topics |-> IF pc[t] = "recv" THEN "cancelled" ELSE pc[t]]
  /\ UNCHANGED <<nodeVars, last, missed, hand, starts, heard, streamVars>>

(* The process is gone; a publication under way may have taken effect.     *)
Exit ==
  /\ \/ hand # 0 /\ published' = Append(published, hand) /\ UNCHANGED dropped
     \/ /\ UNCHANGED published
        /\ dropped' = IF hand = 0 THEN dropped ELSE dropped \union {hand}
  /\ pc' = PerTopic("down") /\ running' = FALSE /\ open' = FALSE
  /\ wire' = PerTopic(<< >>)
  /\ last' = PerTopic(None) /\ missed' = PerTopic(0) /\ hand' = 0
  /\ heard' = PerTopic({})
  /\ UNCHANGED <<nodeVars, starts, wanted>>

(* gather raises as soon as one loop is cancelled, and returns when both   *)
(* loops and the statistics, at most a minute later, have seen the flag.   *)
Finished ==
  /\ \/ \E t \in Topics : pc[t] = "cancelled"
     \/ ~ running /\ \A t \in Topics : pc[t] = "ended"
  /\ Exit

(* Redis cannot be reached at the start, or the process is killed.         *)
Crash == pc["rawtx"] # "down" /\ Exit

-----------------------------------------------------------------------------
Loop(t) == Receive(t) \/ ReceiveFails(t) \/ SleepOver(t)

Next ==
  \/ \E t \in Topics, large \in BOOLEAN : NodePublishes(t, large)
  \/ NodeRestarts
  \/ Start \/ Connected
  \/ \E t \in Topics : Loop(t)
  \/ Publish \/ PublishFails
  \/ Stop \/ Finished \/ Crash

Spec == Init /\ [][Next]_vars

(* The event loop runs every coroutine whose await is over; Redis answers  *)
(* or fails; a socket that has a message and is asked often enough does    *)
(* not fail every time.                                                    *)
FairSpec ==
  /\ Spec
  /\ WF_vars(Finished) /\ WF_vars(Publish \/ PublishFails)
  /\ \A t \in Topics : WF_vars(SleepOver(t)) /\ SF_vars(Receive(t))

-----------------------------------------------------------------------------
TypeOK ==
  /\ sent \in [Topics -> Nat] /\ base \in [Topics -> Nat] /\ restarted \in BOOLEAN
  /\ wire \in [Topics -> Seq([n : Nat, seq : 0 .. Wrap - 1, large : BOOLEAN])]
  /\ pc \in [Topics -> {"down", "start", "recv", "publish", "sleep", "cancelled",
                        "ended"}]
  /\ running \in BOOLEAN /\ open \in BOOLEAN
  /\ last \in [Topics -> {None} \union 0 .. Wrap - 1]
  /\ missed \in [Topics -> Nat]
  /\ hand \in Nat /\ (hand # 0 <=> pc["rawtx"] = "publish")
  /\ starts \in 0 .. MaxStarts

(* Unless the node was restarted, the counts of missed messages are those  *)
(* of the messages that are missing between the first and the last heard,  *)
(* modulo 2^32 and never more, wherever they were lost and wherever the    *)
(* counter starts over.                                                    *)
MissedExact ==
  restarted \/ \A t \in Topics :
    heard[t] # {} =>
      LET missing == {n \in Min(heard[t]) .. Max(heard[t]) : n \notin heard[t]}
      IN  /\ missed[t] <= Cardinality(missing)
          /\ (Cardinality(missing) - missed[t]) % Wrap = 0

(* What is published is exactly the large transactions received but those  *)
(* that a failure of Redis or the end of the process lost, each once and   *)
(* in the order in which the node sent them.                               *)
PublishedExactly ==
  /\ ToSet(published) = wanted \ (dropped \union {hand})
  /\ \A i, j \in DOMAIN published : i < j => published[i] < published[j]

(* Neither a lasting failure of Redis nor errors of the other socket keep  *)
(* a listener that is up from reading what has arrived on a topic.         *)
TopicsAreRead ==
  \A t \in Topics : (wire[t] # << >>) ~> (wire[t] = << >>)

(* A stop that finds the listener past its start-up ends the process.      *)
StopEnds == (Up /\ ~ running) ~> ~ Up
=============================================================================
