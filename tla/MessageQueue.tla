---------------------------- MODULE MessageQueue ----------------------------
(***************************************************************************)
(* tbwi/services/message_queue.py: one Redis stream, one consumer group on *)
(* it, and the service process that consumes it (classifier, event engine  *)
(* or webhook dispatcher), from its start to its stop or crash.            *)
(*                                                                         *)
(* A message is the number of its XADD, so the stream is the interval      *)
(* first..last: Redis trims at the old end only.  A step of the process is *)
(* what it runs between two awaits; pc names the await it is suspended in. *)
(***************************************************************************)
EXTENDS Integers, Sequences

CONSTANTS
  MaxLen,      \* maxlen of publish (10000)
  BatchSize,   \* batch_size of consume (10)
  MaxMessages, \* bound: messages published
  MaxStarts    \* bound: starts of the service process

ASSUME ConstantsAssumption ==
  /\ MaxLen \in Nat \ {0}
  /\ BatchSize \in Nat \ {0}
  /\ MaxMessages \in Nat
  /\ MaxStarts \in Nat

VARIABLES
  \* Redis: survives the process
  first, last,    \* the stream holds the messages first..last
  lastDelivered,  \* last-delivered-id of the consumer group
  pending,        \* the group's pending entries list
  \* the service process: lost when it ends
  pc,             \* the await the process is suspended in
  client,         \* _client: None ("none"), or a Redis client ("open")
  running,        \* _running
  stopping,       \* how far the stop() of a SIGTERM got
  cur, top,       \* batch in hand: cur is being handled, cur+1..top remain
  starts,         \* starts of the process so far
  \* history
  read,           \* messages the server ever assigned to the group
  calls,          \* messages the callback was invoked on, in order
  returned        \* messages on which the callback returned normally

redisVars == <<first, last, lastDelivered, pending, read>>
procVars == <<pc, client, running, stopping, cur, top>>
callVars == <<calls, returned>>
vars == <<redisVars, procVars, callVars, starts>>

(* connect() sets _client and awaits PING; subscribe and consume await     *)
(* XGROUP CREATE; the loop awaits XREADGROUP, then per message the         *)
(* callback and XACK, and after an error sleep(1).                         *)
Startup == {"init_db", "connect", "subscribe", "reconnect", "create"}
Loop == {"xreadgroup", "callback", "xack", "sleep"}

Larger(m, n) == IF m >= n THEN m ELSE n
Smaller(m, n) == IF m <= n THEN m ELSE n

Init ==
  /\ first = 1 /\ last = 0
  /\ lastDelivered = 0 /\ pending = {} /\ read = {}
  /\ pc = "down" /\ client = "none" /\ running = FALSE /\ stopping = "no"
  /\ cur = 0 /\ top = 0
  /\ starts = 0
  /\ calls = << >> /\ returned = {}

-----------------------------------------------------------------------------
(* Mutant of Publish: one entry too many is trimmed.                       *)
PublishTrimsTooFar ==
  /\ last < MaxMessages
  /\ last' = last + 1
  /\ first' \in first .. Larger(first, last' - MaxLen + 2)
  /\ UNCHANGED <<lastDelivered, pending, read, procVars, callVars, starts>>

(* publish, in another process: XADD with an approximate MAXLEN, by which  *)
(* Redis may trim old entries as long as MaxLen of them are left.          *)
Publish ==
  /\ last < MaxMessages
  /\ last' = last + 1
  /\ first' \in first .. Larger(first, last' - MaxLen + 1)
  /\ UNCHANGED <<lastDelivered, pending, read, procVars, callVars, starts>>

-----------------------------------------------------------------------------
(* The process ends; whatever it held in memory is gone.                   *)
Exit ==
  /\ pc' = "down" /\ client' = "none" /\ running' = FALSE /\ stopping' = "no"
  /\ cur' = 0 /\ top' = 0

Goto(label) ==
  /\ pc' = label
  /\ UNCHANGED <<client, running, stopping, cur, top>>

(* Mutant of LoopHead: "while True".                                       *)
LoopHeadForever ==
  /\ pc' = IF client = "open" THEN "xreadgroup" ELSE "sleep"
  /\ cur' = 0 /\ top' = 0
  /\ UNCHANGED <<client, running, stopping>>

(* The head of "while self._running": with _client None the call of        *)
(* xreadgroup raises AttributeError, which ends in "Consumer error" and    *)
(* sleep(1).                                                               *)
LoopHead ==
  IF running
    THEN /\ pc' = IF client = "open" THEN "xreadgroup" ELSE "sleep"
         /\ cur' = 0 /\ top' = 0
         /\ UNCHANGED <<client, running, stopping>>
    ELSE Exit

(* consume past its connect(): the loop flag is set, XGROUP CREATE sent.   *)
EnterConsume ==
  /\ running' = TRUE
  /\ pc' = "create"
  /\ UNCHANGED <<client, stopping, cur, top>>

Start ==
  /\ pc = "down"
  /\ starts < MaxStarts
  /\ starts' = starts + 1
  /\ Goto("init_db")
  /\ UNCHANGED <<redisVars, callVars>>

(* get_message_queue() makes the queue object and connects it.             *)
DbReady ==
  /\ pc = "init_db"
  /\ client' = "open"
  /\ pc' = "connect"
  /\ UNCHANGED <<running, stopping, cur, top>>
  /\ UNCHANGED <<redisVars, callVars, starts>>

(* subscribe uses _client as it finds it.                                  *)
Connected ==
  /\ pc = "connect"
  /\ IF client = "open" THEN Goto("subscribe") ELSE Exit
  /\ UNCHANGED <<redisVars, callVars, starts>>

Subscribed ==
  /\ pc = "subscribe"
  /\ IF client = "open"
       THEN EnterConsume
       ELSE /\ client' = "open"
            /\ pc' = "reconnect"
            /\ UNCHANGED <<running, stopping, cur, top>>
  /\ UNCHANGED <<redisVars, callVars, starts>>

Reconnected ==
  /\ pc = "reconnect"
  /\ EnterConsume
  /\ UNCHANGED <<redisVars, callVars, starts>>

(* Mutant of GroupCreated: the group is destroyed and made anew.           *)
GroupRecreated ==
  /\ pc = "create"
  /\ LoopHead
  /\ pending' = {}
  /\ UNCHANGED <<first, last, lastDelivered, read, callVars, starts>>

(* The group is created at id "0", or exists already: BUSYGROUP.           *)
GroupCreated ==
  /\ pc = "create"
  /\ LoopHead
  /\ UNCHANGED <<redisVars, callVars, starts>>

(* Any other error of the start-up ends start(), and with it the process.  *)
StartupFails ==
  /\ pc \in Startup
  /\ Exit
  /\ UNCHANGED <<redisVars, callVars, starts>>

-----------------------------------------------------------------------------
(* Mutant of NextUnread: the id after the next one is asked for.           *)
NextUnreadPlusOne == Larger(first, lastDelivered + 2)

(* The oldest message XREADGROUP ">" would return: entries that were       *)
(* trimmed unread are passed over.                                         *)
NextUnread == Larger(first, lastDelivered + 1)

BatchEnd == Smaller(last, NextUnread + BatchSize - 1)

(* The server assigns a batch to the group.                                *)
AssignBatch ==
  /\ NextUnread <= last
  /\ lastDelivered' = BatchEnd
  /\ pending' = pending \union (NextUnread .. BatchEnd)
  /\ read' = read \union (NextUnread .. BatchEnd)
  /\ UNCHANGED <<first, last>>

(* await callback(message)                                                 *)
Invoke(m) ==
  /\ pc' = "callback"
  /\ cur' = m
  /\ calls' = Append(calls, m)
  /\ UNCHANGED <<client, running, stopping>>

(* Mutant of NextMessage: the same message is tried again.                 *)
NextMessageRetries ==
  IF cur < top
    THEN /\ Invoke(cur)
         /\ UNCHANGED top
    ELSE /\ LoopHead
         /\ UNCHANGED calls

(* Done with a message, acknowledged or not: the next one of the batch.    *)
NextMessage ==
  IF cur < top
    THEN /\ Invoke(cur + 1)
         /\ UNCHANGED top
    ELSE /\ LoopHead
         /\ UNCHANGED calls

ReadBatch ==
  /\ pc = "xreadgroup"
  /\ AssignBatch
  /\ Invoke(NextUnread)
  /\ top' = BatchEnd
  /\ UNCHANGED <<returned, starts>>

(* block=1000 ran out.                                                     *)
ReadNothing ==
  /\ pc = "xreadgroup"
  /\ NextUnread > last
  /\ LoopHead
  /\ UNCHANGED <<redisVars, callVars, starts>>

(* XREADGROUP raises before the server ran it, or after: then the reply,   *)
(* and with it the batch, never reaches the consumer.                      *)
ReadFails ==
  /\ pc = "xreadgroup"
  /\ Goto("sleep")
  /\ AssignBatch \/ UNCHANGED redisVars
  /\ UNCHANGED <<callVars, starts>>

SleepOver ==
  /\ pc = "sleep"
  /\ LoopHead
  /\ UNCHANGED <<redisVars, callVars, starts>>

(* With _client None, self._client.xack raises AttributeError: logged.     *)
CallbackReturns ==
  /\ pc = "callback"
  /\ returned' = returned \union {cur}
  /\ IF client = "open"
       THEN Goto("xack") /\ UNCHANGED calls
       ELSE NextMessage
  /\ UNCHANGED <<redisVars, starts>>

(* Mutant of CallbackRaises: the exception is handled inside the try, the  *)
(* message acknowledged all the same.                                      *)
CallbackRaisesAcked ==
  /\ pc = "callback"
  /\ IF client = "open"
       THEN Goto("xack") /\ UNCHANGED calls
       ELSE NextMessage
  /\ UNCHANGED <<redisVars, returned, starts>>

CallbackRaises ==
  /\ pc = "callback"
  /\ NextMessage
  /\ UNCHANGED <<redisVars, returned, starts>>

(* XACK takes effect, whether or not its reply arrives; or it does not.    *)
Acknowledge ==
  /\ pc = "xack"
  /\ pending' \in {pending, pending \ {cur}}
  /\ NextMessage
  /\ UNCHANGED <<first, last, lastDelivered, read, returned, starts>>

-----------------------------------------------------------------------------
(* SIGTERM: a task of its own runs stop().  Before start() has a queue     *)
(* object, stop() makes one, stops that and closes it.                     *)
Stop ==
  /\ pc # "down"
  /\ stopping = "no"
  /\ IF pc = "init_db"
       THEN stopping' = "closed" /\ UNCHANGED running
       ELSE stopping' = "flagged" /\ running' = FALSE
  /\ UNCHANGED <<pc, client, cur, top>>
  /\ UNCHANGED <<redisVars, callVars, starts>>

(* close_message_queue(): the awaited close is over, _client becomes None. *)
Close ==
  /\ stopping = "flagged"
  /\ stopping' = "closed"
  /\ client' = "none"
  /\ UNCHANGED <<pc, running, cur, top>>
  /\ UNCHANGED <<redisVars, callVars, starts>>

Crash ==
  /\ pc # "down"
  /\ Exit
  /\ UNCHANGED <<redisVars, callVars, starts>>

-----------------------------------------------------------------------------
(* What the process does by itself once its await is over.                 *)
Proceed ==
  \/ DbReady \/ Connected \/ Subscribed \/ Reconnected \/ GroupCreated
  \/ StartupFails
  \/ ReadBatch \/ ReadNothing \/ ReadFails \/ SleepOver
  \/ CallbackReturns \/ CallbackRaises \/ Acknowledge

Next == Publish \/ Start \/ Proceed \/ Stop \/ Close \/ Crash

Spec == Init /\ [][Next]_vars

(* Every await of the process ends (each has a timeout or is local), the   *)
(* container restarts it (restart: unless-stopped), and Redis does not     *)
(* lose every reply for ever.                                              *)
Fairness ==
  /\ WF_vars(Proceed)
  /\ WF_vars(Close)
  /\ WF_vars(Start)
  /\ SF_vars(ReadBatch)

FairSpec == Spec /\ Fairness

-----------------------------------------------------------------------------
TypeOK ==
  /\ first \in Nat \ {0} /\ last \in Nat
  /\ lastDelivered \in Nat
  /\ pending \subseteq Nat /\ read \subseteq Nat
  /\ pc \in {"down"} \union Startup \union Loop
  /\ client \in {"none", "open"}
  /\ running \in BOOLEAN
  /\ stopping \in {"no", "flagged", "closed"}
  /\ cur \in Nat /\ top \in Nat
  /\ starts \in 0 .. MaxStarts
  /\ calls \in Seq(Nat) /\ returned \subseteq Nat

(* The services never see a message twice or out of order, across batches, *)
(* failed acknowledgements, stops, crashes and restarts: consume asks for  *)
(* ">" only and handles a batch front to back.                             *)
CallsInOrder ==
  \A i, j \in 1 .. Len(calls) : i < j => calls[i] < calls[j]

(* A message the group has let go of was handled to the end: xack comes    *)
(* after the callback in the same try block, so an exception or a crash in *)
(* between leaves the message on the pending list.                         *)
AckedWereHandled == read \ pending \subseteq returned

(* maxlen keeps the last MaxLen messages: a group loses a message unread   *)
(* only when it fell MaxLen messages or more behind.                       *)
SkippedOnlyWhenLagging ==
  \A m \in 1 .. lastDelivered : m \notin read => m + MaxLen <= last

(* Nothing reads the pending list: a message that is on it and not in the  *)
(* hands of the consumer stays there, through every restart.               *)
OrphansStay ==
  [][\A m \in pending : ~ (m \in cur .. top) => m \in pending']_vars

(* The queue promises at-most-once delivery in order of publication.       *)
AMO == INSTANCE AtMostOnceQueue WITH sent <- last
ImplementsAtMostOnce == AMO!Spec

(* Unless in the end the consumer is down for good or runs on without a    *)
(* client, the group passes every message that is published.               *)
Drained ==
  \/ <>[](pc = "down" \/ client = "none")
  \/ \A m \in 1 .. MaxMessages : (last >= m) ~> (lastDelivered >= m)

(* A stop that finds the consumer in its loop ends the process.            *)
LoopStops == (stopping # "no" /\ pc \in Loop /\ ~ running) ~> (pc = "down")
=============================================================================
