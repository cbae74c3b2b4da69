------------------------------ MODULE Streaming ------------------------------
(***************************************************************************)
(* tbwi/api/routes/streaming.py: how the API passes the stream whale_event *)
(* on to its clients, over WebSockets and as server-sent events (SSE), in  *)
(* one process.                                                            *)
(*                                                                         *)
(* An event is its position on the stream.  Nothing is pushed: each client *)
(* has a coroutine that asks Redis for the newest messages again and again.*)
(* A query that fails is answered by a longer sleep and changes nothing,   *)
(* so it is no action; neither are pings and malformed JSON, which are only*)
(* replied to.                                                             *)
(***************************************************************************)
EXTENDS Integers, Sequences, Lists

CONSTANTS
  Sockets,         \* WebSocket connections
  Readers,         \* SSE connections
  Stream,          \* the events that will be on whale_event, each by what filters
                   \* tell apart in it (bound: its length)
  Filters,         \* the filters clients ask for: sets of what they let through
  SseCount         \* how many of the newest messages an SSE poll asks for

Clients == Sockets \union Readers

ASSUME StreamingAssumption ==
  /\ Sockets \intersect Readers = {}
  /\ Stream \in Seq(UNION Filters)
  /\ SseCount \in Nat \ {0}

VARIABLES
  events,       \* how many of them have been published
  open,         \* per client: it has connected and is still there
  pc,           \* per client: the await its handler is suspended in
  filter,       \* per client: event_types and min_btc
  told,         \* per socket: the filter last confirmed to the client
  latest,       \* per socket: the newest event its consumer sent it
  seen,         \* per reader: the events it was ever sent
  clientState,  \* per socket: client_state is CONNECTED
  active,       \* manager.active_connections
  sending,      \* position in active a broadcast is at; 0: no broadcast runs
  reached,      \* history: whom that broadcast was written to
  failed,       \* the list disconnected of that broadcast
  batch,        \* per reader: messages of its last poll still to be looked at
  top,          \* history, per reader: the newest event at its last poll
  tail,         \* history, per reader: the newest event of a poll it is through
  lastId        \* per reader: last_event_id, 0 for None

vars == <<events, open, pc, filter, told, latest, clientState, active, sending,
          reached, failed, seen, batch, top, tail, lastId>>
socketVars == <<told, latest, clientState, active, sending, reached, failed>>
readerVars == <<seen, batch, top, tail, lastId>>
broadcastVars == <<sending, reached, failed>>

Init ==
  /\ events = 0
  /\ open = [c \in Clients |-> FALSE]
  /\ pc = [c \in Clients |-> "new"]
  /\ filter = [c \in Clients |-> UNION Filters]
  /\ told = [s \in Sockets |-> UNION Filters]
  /\ latest = [s \in Sockets |-> 0]
  /\ clientState = [s \in Sockets |-> FALSE]
  /\ active = << >> /\ sending = 0 /\ reached = {} /\ failed = {}
  /\ seen = [r \in Readers |-> {}]
  /\ batch = [r \in Readers |-> << >>]
  /\ top = [r \in Readers |-> 0]
  /\ tail = [r \in Readers |-> 0]
  /\ lastId = [r \in Readers |-> 0]

Passes(c, e) == Stream[e] \in filter[c]

Move(c, from, to) ==
  /\ pc[c] = from
  /\ pc' = [pc EXCEPT ![c] = to]

(* A broadcast holds the lock of the manager over all its sends; connect   *)
(* and disconnect do not await while they hold it.                         *)
LockFree == sending = 0

(* Mutant of Recent: the reply of xrevrange is not reversed.               *)
NewestFirst(count) ==
  LET k == IF events < count THEN events ELSE count
  IN  [i \in 1 .. k |-> events + 1 - i]

(* Mutant of Recent: xrange, which counts from the oldest.                 *)
OldestOnly(count) ==
  [i \in 1 .. (IF events < count THEN events ELSE count) |-> i]

(* get_recent_messages: the newest count events, oldest first.             *)
Recent(count) ==
  LET k == IF events < count THEN events ELSE count
  IN  [i \in 1 .. k |-> events - k + i]

-----------------------------------------------------------------------------
(* The event engine publishes.                                             *)
Publish ==
  /\ events < Len(Stream)
  /\ events' = events + 1
  /\ UNCHANGED <<open, pc, filter, socketVars, readerVars>>

(* Bound: the clients are all at one endpoint or all at the other.  What    *)
(* the endpoints share, the stream, neither of them changes.               *)
OneEndpoint(c) ==
  \A d \in Clients : pc[d] # "new" => (d \in Sockets <=> c \in Sockets)

(* A client's request: websocket.accept, or the first event of a generator.*)
Connect(c, f) ==
  /\ OneEndpoint(c)
  /\ Move(c, "new", IF c \in Sockets THEN "enter" ELSE "queue")
  /\ open' = [open EXCEPT ![c] = TRUE]
  /\ filter' = [filter EXCEPT ![c] = f]
  /\ clientState' =
       [s \in Sockets |-> IF s = c THEN TRUE ELSE clientState[s]]
  /\ tail' = [r \in Readers |-> IF r = c THEN events ELSE tail[r]]
  /\ UNCHANGED <<events, told, latest, active, broadcastVars, seen, batch, top,
                 lastId>>

(* The client goes away, at any time and without a word to the handler.    *)
Gone(c) ==
  /\ open[c]
  /\ open' = [open EXCEPT ![c] = FALSE]
  /\ UNCHANGED <<events, pc, filter, socketVars, readerVars>>

(* ConnectionManager.connect has the lock; the welcome message follows.    *)
Enter(s) ==
  /\ LockFree
  /\ Move(s, "enter", "queue")
  /\ active' = Append(active, s)
  /\ told' = [told EXCEPT ![s] = filter[s]]
  /\ UNCHANGED <<events, open, filter, latest, clientState, broadcastVars,
                 readerVars>>

(* get_message_queue answers.                                              *)
QueueReady(c) ==
  /\ Move(c, "queue", IF c \in Sockets THEN "serve" ELSE "ask")
  /\ UNCHANGED <<events, open, filter, socketVars, readerVars>>

(* It raises: only the outer finally of either handler is passed.          *)
QueueFails(c) ==
  /\ Move(c, "queue", IF c \in Sockets THEN "leave" ELSE "ended")
  /\ UNCHANGED <<events, open, filter, socketVars, readerVars>>

-----------------------------------------------------------------------------
(* event_consumer gets an answer from Redis.  The filter is that of this   *)
(* moment: no await lies between its tests and the writing of the message. *)
(* To a client that is gone nothing is sent: send_personal swallows that.  *)
ConsumerPolls(s) ==
  /\ pc[s] = "serve" /\ open[s]
  /\ \E i \in DOMAIN Recent(1) :
       /\ Passes(s, Recent(1)[i])
       /\ latest' = [latest EXCEPT ![s] = Recent(1)[i]]
  /\ UNCHANGED <<events, open, pc, filter, told, clientState, active,
                 broadcastVars, readerVars>>

(* Mutant of UpdateFilters: the new filter is bound in a scope of its own. *)
UpdateNotApplied(s, f) ==
  /\ pc[s] = "serve" /\ open[s]
  /\ told' = [told EXCEPT ![s] = f]
  /\ UNCHANGED <<events, open, pc, filter, latest, clientState, active,
                 broadcastVars, readerVars>>

(* The client sends update_filters, which is confirmed in the same step.   *)
UpdateFilters(s, f) ==
  /\ pc[s] = "serve" /\ open[s]
  /\ filter' = [filter EXCEPT ![s] = f]
  /\ told' = [told EXCEPT ![s] = f]
  /\ UNCHANGED <<events, open, pc, latest, clientState, active, broadcastVars,
                 readerVars>>

(* Mutant of MessageRaises: no finally on the way out.                     *)
RaisesPastFinally(s) ==
  /\ open[s]
  /\ Move(s, "serve", "ended")
  /\ UNCHANGED <<events, open, filter, socketVars, readerVars>>

(* JSON that is no object, or filters of another shape: the exception      *)
(* leaves the receive loop, and the consumer is cancelled.                 *)
MessageRaises(s) ==
  /\ open[s]
  /\ Move(s, "serve", "leave")
  /\ UNCHANGED <<events, open, filter, socketVars, readerVars>>

(* receive_text raises WebSocketDisconnect.                                *)
Disconnected(s) ==
  /\ ~ open[s]
  /\ Move(s, "serve", "leave")
  /\ clientState' = [clientState EXCEPT ![s] = FALSE]
  /\ UNCHANGED <<events, open, filter, told, latest, active, broadcastVars,
                 readerVars>>

(* ConnectionManager.disconnect has the lock; the handler is over, and with*)
(* it the connection.                                                      *)
Leave(s) ==
  /\ LockFree
  /\ Move(s, "leave", "ended")
  /\ active' = Only(active, Sockets \ {s})
  /\ open' = [open EXCEPT ![s] = FALSE]
  /\ UNCHANGED <<events, filter, told, latest, clientState, broadcastVars,
                 readerVars>>

-----------------------------------------------------------------------------
(* ConnectionManager.broadcast, which other services may call.             *)
BroadcastBegins ==
  /\ LockFree /\ active # << >>
  /\ sending' = 1
  /\ UNCHANGED <<events, open, pc, filter, told, latest, clientState, active,
                 reached, failed, readerVars>>

(* Mutant of BroadcastSends: a connection that fails is removed at once    *)
(* from the list the loop runs over.                                       *)
RemoveAtOnce ==
  /\ sending \in DOMAIN active
  /\ LET s == active[sending]
     IN  \/ /\ clientState[s]
            /\ reached' = reached \union {s}
            /\ UNCHANGED <<failed, active>>
         \/ /\ clientState[s] /\ ~ open[s]
            /\ failed' = failed \union {s}
            /\ active' = Only(active, Sockets \ {s})
            /\ UNCHANGED reached
         \/ /\ ~ clientState[s]
            /\ UNCHANGED <<reached, failed, active>>
  /\ sending' = sending + 1
  /\ UNCHANGED <<events, open, pc, filter, told, latest, clientState, readerVars>>

(* One send of it returns or raises.  A write to a client that has just    *)
(* gone may still succeed.                                                 *)
BroadcastSends ==
  /\ sending \in DOMAIN active
  /\ LET s == active[sending]
     IN  \/ /\ clientState[s]
            /\ reached' = reached \union {s}
            /\ UNCHANGED failed
         \/ /\ clientState[s] /\ ~ open[s]
            /\ failed' = failed \union {s}
            /\ UNCHANGED reached
         \/ /\ ~ clientState[s]
            /\ UNCHANGED <<reached, failed>>
  /\ sending' = sending + 1
  /\ UNCHANGED <<events, open, pc, filter, told, latest, clientState, active,
                 readerVars>>

BroadcastEnds ==
  /\ sending > Len(active)
  /\ active' = Only(active, Sockets \ failed)
  /\ sending' = 0 /\ reached' = {} /\ failed' = {}
  /\ UNCHANGED <<events, open, pc, filter, told, latest, clientState, readerVars>>

-----------------------------------------------------------------------------
(* event_generator gets an answer from Redis.                              *)
ReaderPolls(r) ==
  /\ Move(r, "ask", "yield")
  /\ batch' = [batch EXCEPT ![r] = Recent(SseCount)]
  /\ top' = [top EXCEPT ![r] = events]
  /\ UNCHANGED <<events, open, filter, socketVars, seen, tail, lastId>>

(* Mutant of Yield: break where the code says continue.                    *)
YieldBreaks(r) ==
  /\ pc[r] = "yield" /\ batch[r] # << >>
  /\ LET e == Head(batch[r])
         again == e = lastId[r]
         send == ~ again /\ Passes(r, e)
     IN  /\ lastId' = [lastId EXCEPT ![r] = IF send THEN e ELSE @]
         /\ seen' = [seen EXCEPT ![r] = IF send THEN @ \union {e} ELSE @]
         /\ batch' = [batch EXCEPT ![r] = IF again THEN << >> ELSE Tail(@)]
  /\ UNCHANGED <<events, open, pc, filter, socketVars, top, tail>>

(* The next message of the batch: skipped if its id is the one sent last,  *)
(* or if the filter rejects it, else sent.                                 *)
Yield(r) ==
  /\ pc[r] = "yield" /\ batch[r] # << >>
  /\ LET e == Head(batch[r])
         send == e # lastId[r] /\ Passes(r, e)
     IN  /\ lastId' = [lastId EXCEPT ![r] = IF send THEN e ELSE @]
         /\ seen' = [seen EXCEPT ![r] = IF send THEN @ \union {e} ELSE @]
  /\ batch' = [batch EXCEPT ![r] = Tail(@)]
  /\ UNCHANGED <<events, open, pc, filter, socketVars, top, tail>>

(* The heartbeat and the sleep before the next poll.                       *)
BatchDone(r) ==
  /\ Move(r, "yield", "ask")
  /\ batch[r] = << >>
  /\ tail' = [tail EXCEPT ![r] = top[r]]
  /\ UNCHANGED <<events, open, filter, socketVars, seen, batch, top, lastId>>

(* is_disconnected, or the cancellation of the response at a yield.        *)
ReaderEnds(r) ==
  /\ ~ open[r] /\ pc[r] \in {"queue", "ask", "yield"}
  /\ pc' = [pc EXCEPT ![r] = "ended"]
  /\ UNCHANGED <<events, open, filter, socketVars, readerVars>>

Next ==
  \/ Publish
  \/ \E c \in Clients :
       \/ Gone(c) \/ QueueReady(c) \/ QueueFails(c)
       \/ \E f \in Filters : Connect(c, f)
  \/ \E s \in Sockets :
       \/ Enter(s) \/ ConsumerPolls(s) \/ MessageRaises(s) \/ Disconnected(s)
       \/ Leave(s)
       \/ \E f \in Filters : UpdateFilters(s, f)
  \/ BroadcastBegins \/ BroadcastSends \/ BroadcastEnds
  \/ \E r \in Readers :
       ReaderPolls(r) \/ Yield(r) \/ BatchDone(r) \/ ReaderEnds(r)

(* A coroutine that can run does, a send returns or raises, and the lock   *)
(* serves its waiters in order.  Redis does not fail at every poll.        *)
Fairness ==
  /\ \A c \in Clients : WF_vars(QueueReady(c) \/ QueueFails(c))
  /\ \A s \in Sockets :
       /\ SF_vars(Enter(s)) /\ SF_vars(Leave(s))
       /\ WF_vars(Disconnected(s)) /\ WF_vars(ConsumerPolls(s))
  /\ WF_vars(BroadcastSends \/ BroadcastEnds)
  /\ \A r \in Readers :
       /\ WF_vars(ReaderPolls(r)) /\ WF_vars(Yield(r) \/ BatchDone(r))
       /\ WF_vars(ReaderEnds(r))

Spec == Init /\ [][Next]_vars /\ Fairness

-----------------------------------------------------------------------------
TypeOK ==
  /\ events \in 0 .. Len(Stream)
  /\ pc \in [Clients -> {"new", "enter", "queue", "serve", "leave", "ask",
                         "yield", "ended"}]
  /\ filter \in [Clients -> SUBSET UNION Filters]
  /\ told \in [Sockets -> SUBSET UNION Filters]
  /\ latest \in [Sockets -> Nat]
  /\ seen \in [Readers -> SUBSET Nat] /\ batch \in [Readers -> Seq(Nat)]
  /\ top \in [Readers -> Nat] /\ tail \in [Readers -> Nat]
  /\ lastId \in [Readers -> Nat]

(* A broadcast passes nobody over: whatever connects, leaves or fails while*)
(* it runs, each client it is past was written to, has failed, or is known *)
(* to be disconnected.                                                     *)
BroadcastReachesAll ==
  \A i \in DOMAIN active :
    (i < sending /\ clientState[active[i]])
      => active[i] \in reached \union failed

(* Resent events aside, an SSE client sees events in the order of the      *)
(* stream: what it is sent for the first time is newer than all it was sent*)
(* before, however polls and publications interleave.                      *)
FirstSightInOrder ==
  [][\A r \in Readers : \A e \in seen'[r] \ seen[r] :
       \A d \in seen[r] : d < e]_vars

(* A poll of an SSE client misses an event published since the one before  *)
(* (or since the client connected) only if the filter rejects it, or it was*)
(* no longer among the newest SseCount when Redis was asked.               *)
SseMissesOnlyOvertaken ==
  [][\A r \in Readers :
       tail'[r] # tail[r] /\ pc'[r] = "ask" =>
         \A e \in tail[r] + 1 .. tail'[r] :
           Passes(r, e) => e \in seen[r] \/ e <= tail'[r] - SseCount]_vars

(* From the moment a client is told that its filter has changed, it is sent*)
(* no newer event that this filter rejects: a poll under way when the      *)
(* update came uses the new filter too.                                    *)
FilterAsTold ==
  [][\A s \in Sockets :
       latest'[s] # latest[s] => Stream[latest'[s]] \in told[s]]_vars

(* A handler whose client has gone ends and is off the list, be it waiting  *)
(* for the lock, for Redis or in the way of a broadcast.                   *)
HandlersEnd ==
  \A c \in Clients :
    (pc[c] # "new" /\ ~ open[c])
      ~> (pc[c] = "ended" /\ \A i \in DOMAIN active : active[i] # c)

(* The newest event reaches every client that stays and wants it, though   *)
(* older ones may have been overtaken.                                     *)
Arrived(c) ==
  IF c \in Sockets THEN latest[c] = events ELSE events \in seen[c]
NewestArrives ==
  \A c \in Clients :
    (pc[c] \in {"serve", "ask"})
      ~> \/ Arrived(c)
         \/ events = 0 \/ ~ Passes(c, events)
         \/ ~ open[c] \/ pc[c] \in {"leave", "ended"}
=============================================================================
