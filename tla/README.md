# TORQ Bitcoin whale tracker: TLA+ models

This directory holds a specification of the services in `src/src/tbwi`: TLA+
modules for the parts whose control is worth checking, TLC configurations
that check them on small instances, and proofs for TLAPS.

## 1. The system

Six asyncio services, each its own process, pass transactions along through
Redis streams and PostgreSQL:

    Bitcoin node -> ZMQListener --+
                                  +-> stream normalized_tx -> TransactionClassifier
    mempool.space -> MempoolListener -+                        |  rows: transactions
                                                               v
      WebhookDispatcher <- stream whale_event <- EventEngine <- stream classified_tx
        |  rows: webhook_deliveries               |  rows: whale_events
        v                                         v
      URLs                                   API (REST, SSE, WebSocket)

`docker-compose.yml` runs one replica of each service (fixed `container_name`)
with `restart: unless-stopped`: a process that ends, however it ends, starts
again with empty memory and the same Redis and PostgreSQL.

### Inventory

| Component | State | Operations | Meets | Hard behaviour | What makes it correct |
|---|---|---|---|---|---|
| Message queue, `services/message_queue.py` | in Redis: the stream, per group the last delivered id and the pending list; in the process: client, `_running` | `publish` with trimming, `subscribe`, `consume`, `stop`, `close_message_queue` | every service | crash or lost reply between XREADGROUP and XACK; trimming past a slow group; `stop` during start-up | each message handled in order and at most once; acknowledged only once handled; lost only if the group lagged, the process ended or a reply was lost |
| Classifier, `services/classifier.py` | an open session per message; table `transactions` | `_process_transaction`, `classify`, `_determine_types` | queue in and out, repositories, price oracle, tags | check-then-insert against a unique index; publish inside an open session; errors swallowed | one row per txid; a row has been announced; an announcement without a row has a cause |
| Event engine, `services/event_engine.py` | `_tx_buffer`, `_buffer_lock`; table `whale_events` | `_process_transaction`, `_check_bursts`, `_save_and_publish_event` | queue in and out, repositories | two tasks share the buffer; the lock is held over database and Redis calls; errors swallowed | no buffered transaction lost between the tasks; no transaction in two bursts of a kind; announced events are saved; the consumer is never locked out |
| Webhook dispatcher, `services/webhook_dispatcher.py` | table `webhook_deliveries` | `_dispatch_event`, `_send_webhook_with_retry` per URL | queue in, HTTP endpoints | retries, timeouts of POSTs that were handled, failing updates, crash before the last update | the table tells the truth; order per URL; bounded attempts |
| Mempool listener, `services/mempool_listener.py` | WebSocket, `_running`, the set of recent txids | `main`, `start`, `_connect_and_listen`, `_handle_message`, `_process_full_transaction`, `_log_stats`, `stop` | mempool.space, queue out | `stop` during start-up; back-off, connection loss under `gather`, failed fetches, cleanup of the set | a transaction goes out once while it is remembered, and only if large; a stop after the start-up ends it |
| ZMQ listener, `services/zmq_listener.py` | sockets, last sequence number per topic, counters | `start`, the two receive loops, `_process_raw_transaction`, `stop`; address encodings | node, RPC client, queue out | sequence gaps modulo 2^32, node restart, reconnect | gaps are counted exactly; a stop ends it; only large transactions go out |
| Price oracle, `services/price_oracle.py` | cached price and its time, failure counts, lock | `get_btc_price_usd`, `_fetch_*`, `fetch_from_all_sources` | three HTTP APIs; classifier, event engine | time read before waiting for the lock; failure counts changed without it | no price older than the cache time unless all sources fail; sources tried in order of failures |
| Bitcoin RPC client, `services/bitcoin_rpc.py` | TTL cache, HTTP client | `_call` with retries, `get_*` | node; the health route is its only caller | two callers miss the cache at once; an answer that is older is stored last; retries; a timeout per wait and none for the whole request | what a call returns is as fresh as the request that fetched it and the life of an entry allow; every call ends |
| Streaming API, `api/routes/streaming.py` | list of WebSockets under a lock; per client its filters; per SSE client the last event id | `connect`, `disconnect`, `broadcast`, `websocket_events` with its `event_consumer`, `event_generator` | queue (`get_recent_messages`) | polling for the newest messages: resends and misses; filters that change while a query is under way; sends under the lock; clients that vanish | the newest event arrives; a poll misses only what was overtaken; events are first seen in order; the filter is the one the client was told; no handler outlives its client; a broadcast passes nobody over |
| Anomaly detector, `services/anomaly_detector.py` | rolling statistics, recent movements, anomalies found | `process_transaction` and four detectors | called by tests only at this commit | - | - |
| Signal generator, `services/signal_generator.py`, and its routes, `api/routes/signals.py` | per request: tracked transactions per exchange; table `classified_transactions` | `generate_signal_from_transaction`, `_track_transaction`; `/signals`, `/signals/summary`, `/signals/latest` | repositories (`get_recent`) | a field and a dictionary entry that do not exist; two opposite sort keys under a limit | bursts and critical transfers give signals (they do not, see the findings); the limit keeps the most severe; what is shown as the latest is found by `/signals` |
| Repositories and session, `db/` | tables | `exists`, `create`, `check_duplicate`, updates, `upsert`; commit or rollback at the end of a session | all services | unique indices against check-then-act | see the callers |
| Configuration, `config.py` | settings | `from_yaml`, environment | all | YAML passed as arguments beats the environment | documented precedence |
| Read API, metrics, logging, schemas, seeds, migrations, demo, deployment | - | queries and declarations | - | - | - |

`PROJECT.json` lists every component with its status, and under "hazards"
what can go wrong at which line.

### Noted while reading

- `api/routes/health.py` passes a plain string to `session.execute`, which
  SQLAlchemy 2 refuses: the database always counts as unhealthy.
- `event_engine.py:219` appends a transaction to the buffer once for each
  output that goes to an exchange, so that one transaction can make up a
  "burst" of several. `EventEngine` models it as it is.
- `mempool_listener.py:226` says "Remove oldest entries" and cuts a slice of a
  set, whose order is arbitrary. `MempoolListener` keeps an arbitrary subset.
- `message_queue.py:134`, `zmq_listener.py:366` and `mempool_listener.py:96` set
  `_running` without asking whether a stop has come before: a SIGTERM during
  start-up is lost. In the mempool listener it is the await of
  `get_message_queue` at line 88, with handlers that were installed at line 380.
  The models let it happen; `LoopStops` and both `StopEnds` are stated for stops
  after the start-up.
- `event_engine.py:254` trims every buffer to the deposit window, so that the
  longer outflow window finds nothing more than the shorter one would.
  `BurstsDetected` is stated for what the buffers hold.
- `webhook_dispatcher.py:160`: a delivery that is interrupted by a restart or by
  a failing update stays pending. Nothing calls `get_pending`.
- `price_oracle.py:147` looks at the cache again under the lock, but with the time
  read before it waited. `ReturnsFresh` holds all the same: what passes the
  second look is fresh or was stored since the call was made.
- `zmq_listener.py`: `poll` of an asyncio socket returns a future, which is
  always true and is never awaited, so the loop waits in `recv_multipart`
  without a timeout; what ends it on a stop is that its socket is closed.
- `api/routes/entities.py`: the route with a path parameter (line 37) is
  declared before `/lookup` (line 94) and takes its requests.
- `streaming.py:271` says "Skip if already sent", but only the last id is
  remembered: as soon as two messages are among the last ten, all of them are
  sent again at every poll. The WebSocket consumer, which remembers nothing,
  sends the newest one every half second. `Streaming` therefore speaks of
  what a client misses and of the order of first sights.
- `streaming.py`: the heartbeat that is to come "every 15 seconds" is sent after
  each poll, about once a second. `broadcast` looks at no filter, and nothing calls it.
  A `min_btc` that cannot be compared with a number makes the consumer fail at
  every poll; a message that is JSON but no object ends the connection.
- `signals.py` sorts by severity and then by `created_at`, which is the order in
  which the signals were made, not that of the transactions: rows are read
  newest first, so that among signals of one severity the oldest transaction
  comes first and a limit drops the newest.
- `bitcoin_rpc.py:62`: the timeout of 30 seconds is one per wait (for a connection
  of the pool, to connect, to write, for each part of the answer), and begins
  anew with every part of the body: there is no limit on how long a request
  takes, nor on the age of its answer. `AnswersAreRecent` is relative to the time
  the request took.
- `bitcoin_rpc.py`: tenacity wraps the last exception in a `RetryError`, and also
  tries three times to get a transaction the node does not know.

## 2. Modules

| Module | Models | Role |
|---|---|---|
| `AtMostOnceQueue` | what a consumer group promises | abstract specification |
| `MessageQueue` | one stream and one consumer group with one process | detailed specification, implements the former |
| `Classifier` | workers, sessions, table and stream; the rules of `_determine_types` | specification |
| `EventEngine` | consumer and periodic check of one process over its restarts | specification |
| `WebhookDispatcher` | deliveries of stream events to URLs | specification |
| `MempoolListener` | one process over its restarts | specification |
| `ZMQListener` | the node's two topics and one process over its restarts | specification |
| `PriceOracle` | the calls of one process | specification |
| `Streaming` | the API process and its WebSocket and SSE clients | specification |
| `Signals` | the signal routes over a growing table | specification, mostly operators |
| `RpcClient` | concurrent calls with retries and the cache of one key | specification |
| `Lists` | list comprehensions and removals of the code | operators of `EventEngine`, `Streaming` and `Signals` |
| `ListLemmas` | - | induction, sorting, and what the operators of `Lists` return |
| `MessageQueueProofs`, `WebhookDispatcherProofs`, `MempoolListenerProofs`, `ZMQListenerProofs`, `EventEngineProofs` | - | theorems on one module each |
| `ClassifierProofs` | - | theorems on `Classifier`, and on the `PriceOracle` it asks |
| `ApiProofs` | - | theorems on the modules of the API process: `Streaming`, `RpcClient`, `Signals` |
| `MC...` | - | instances for TLC |

Two modules that one proof module extends must not share names, so the
definitions of `PriceOracle`, `RpcClient` and `Signals` that every module has carry a
prefix: `PriceSpec`, `RpcInit`, `SignalsNext` and so on.

In all of them a step is what a coroutine runs between two awaits, `pc` is
the await it is suspended in, and an await that can fail has one action for
success and one for failure. Where the failure may come after the effect (a
lost reply of Redis, a commit whose answer never came), the failing action
has both outcomes. A crash or restart is an action that is enabled at every
await.

**MessageQueue.** `first`, `last` are the bounds of the stream (`Publish`
appends and trims), `lastDelivered`, `pending` and `read` the group in Redis;
`read` is a history of what was ever on the pending list. `pc`, `client`,
`running`, `cur`, `top` are the process: `cur .. top` is the part of the batch
it still has in hands. `Start` to `GroupCreated` are the awaits of a service's
`start()` down to `consume`; `ReadBatch`, `ReadNothing`, `ReadFails`,
`CallbackReturns`, `CallbackRaises`, `Acknowledge` its loop. `Stop` is the
signal handler, `Close` the end of `main`. `calls` and `returned` record the
callbacks. The ids of Redis are numbers; payloads are left out, since the queue
does not look at them.

**Classifier.** A worker takes a message (possibly one with a txid seen
before, from either listener), classifies it, opens a session, asks `exists`,
inserts (the flush waits for the unique index, as PostgreSQL does when another
transaction has an uncommitted row of the same key), publishes and commits.
`DetermineTypes` is the table of rules with the exception of line 303. The
deployment has one worker; two are checked because the code relies on the
index, not on the deployment.

**EventEngine.** `buffer` is `_tx_buffer`, whose lock is free exactly when
the checker rests. `ScanKeys` is the loop over keys up to the next await. The
order of the keys is left open. `Duplicate` is the query
`check_duplicate`, `Save` and `Publish` the two halves of
`_save_and_publish_event` for either task. The list comprehensions that trim and
clear a buffer are `Lists!Only` with a set where the code has a test, and the
total of a buffer is a recursive function. `BurstsDisjoint` speaks of messages, as
the buffer holds them: a txid the classifier announces twice, hours apart, may
be counted in two bursts.

**WebhookDispatcher.** A task is a pair of event and URL; the callback takes
the next event when all tasks of the last one are through. Back-off is left
out of the state since only its end matters.

**MempoolListener.** A process begins in "start", the await of `get_message_queue`
before `_running` is set; `Started` sets it, whatever a stop in the meantime has
cleared, and `StartFails` ends the process. From there `pc` runs through the connection loop, the reception of a
message, the previews in it one by one, the fetch and the publication of each.
`recent` is the set of txids; the slice of its cleanup keeps an arbitrary
subset, as the order of a set is arbitrary. `ws` is the connection.
"returned" is the state in which `_listen_websocket` has returned and
`gather` waits for `_log_stats`.

**ZMQListener.** The node numbers the messages of each topic modulo `Wrap`,
and starts over when it is restarted; `wire` is what the listener's sockets
hold, at most `Hwm` per topic, and a message can be lost on the way. `pc` is the
await of each of the two loops, `last` and `missed` its sequence number and
counter. `Receive` is the body of a loop down to the publication, with `Gap` as
the arithmetic on sequence numbers. `Stop` closes the sockets, which
cancels a loop that waits in one; `Finished` is the end of `gather`.

**PriceOracle.** `queue` is the lock: its head holds it, the others wait. A price is
the time it was stored at. The holder asks the sources in the order of
`SortedSources`, one action per answer (`Fetched`, `FetchFails`,
`NoPriceInAnswer`); `askedAt` is the time a call read before it waited, which
the second look at the cache uses. `Compare` and `Compared` are
`fetch_from_all_sources`, which changes the failure counts without the lock.

**Streaming.** An event is its position on the stream. `active` is the list of
the connection manager; its lock is held over an await by `broadcast` only, so it
is free when `sending` is 0. The handler of a WebSocket goes `enter` (waiting for
the lock of `connect`), `queue`, `serve`, `leave` (the outer `finally`, waiting
for the lock of `disconnect`), `ended`; `ConsumerPolls` is `event_consumer` from
the answer of Redis to the send, `UpdateFilters` and `MessageRaises` are what the
receive loop does. A generator goes `queue`, `ask`, `yield`, and `Yield` looks at
one message of its batch. `open` is the client's side: `Gone` can come at
any time. A query that fails changes nothing, and is no action. The clients
of a behaviour are all at one endpoint (`OneEndpoint`): the endpoints share only
the stream, which neither writes.

**Signals.** A request reads the table once and does not await after that, so it
is one step: `GetSignals`, `GetLatest`, `GetSummary` with every direction and
severity, and the amounts and limits of the instance. `Generate` is `generate_signal_from_transaction` with the two
exceptions it can raise, `Run` the loop over the rows and `LatestSignal` that over the
signals, both recursive functions. `Sorted` is some order of the signals in which
none comes after one that its sort key puts behind it; no two keys are
equal, so there is one. `seen_at` comes
from the listeners, so a row may be stored before rows that are there.

**RpcClient.** A caller's attempt is `posted`, `answered`, and then arrives or fails;
failures are retried after a back-off. An answer is the instant at which the node gave
it. The clock goes on whatever requests are under way, for the HTTP client limits
each wait for a part of the answer and not the request. `wait` and `cachedWait` are
histories: how long the request took that fetched what a call returned, or what the
cache holds.

## 3. Runs

| Run | Question | Bounds |
|---|---|---|
| `message_queue` | At-most-once delivery in order, honest acknowledgement, loss only by lag, orphans for ever; progress and an effective stop under fairness; refinement of `AtMostOnceQueue` | stream of 2, batches of 2, 4 messages, 2 starts: trims past unread messages, within a batch, and a batch orphaned by a crash with two more to come |
| `pipeline` | Do rows and announcements agree? Do concurrent calls share a fetch of the price, return fresh prices, and all return? What does the limit of `/signals` cut, and is the latest signal among those it finds? | 2 workers with equal txids in flight at once, 4 arrivals. 2 sources, cache time 2, a clock of 5 instants, 4 calls: a queue behind a holder whose sources fail while the price goes stale, and failure counts that reverse the order of the sources. Every table of up to 3 rows out of 9, on either side of each threshold; amounts 0 and 1000, limits 1 and 2; every direction and severity |
| `classifier_large` | Is a large transaction classified? (violated) | 1 worker, 2 arrivals |
| `event_engine` | Do two tasks share the buffer safely, is every burst of what it holds reported by a check that goes through, is nothing reported twice or announced unsaved? | 2 exchanges, deposits to Y and to both, withdrawals from X, 3 arrivals, a clock of 3 instants with windows of 1 and 2: groups that expire, bursts that overlap through a shared transaction |
| `http_clients` | Do rows that are over tell the truth, is every POST recorded, is order kept, and is every event taken? How old is what a call of the node returns, and does it return? | 2 URLs, 2 events, 2 attempts: retries, a failing update after a success, restarts at every await. 2 callers, 2 attempts, an entry living 2 instants, a clock of 4: an older answer stored over a newer one, and read from the cache |
| `mempool` | Do the filters and the memory let each whale through once? Does a stop after the start-up end it? | 3 transactions, memory of 2 cut to 1, 4 messages: cleanups, forgotten and repeated txids; starts that fail or swallow a stop |
| `mempool_reconnect` | Does it reconnect? (violated) | 1 message |
| `zmq` | Are gaps counted exactly, does each large transaction received go out once and in order, are both topics read, does a stop end it? | numbers modulo 2, a queue of 1, 4 messages over both topics, 2 starts: wrap-around within a gap, overflow of the queue, a restart of the node and one of the listener |
| `streaming` | What do clients miss and in which order do they see the rest? Is the filter the one they were told? Does every handler end, and does a broadcast reach all? | 2 sockets, 1 reader, 2 filters, a stream of 3 events, polls of 2: an event overtaken between two polls, a broadcast over a list whose first connection fails |
| `signals_burst` | Do bursts give signals? (violated) | the tables above |
| `signals_critical` | Do transfers of critical size give signals? (violated) | the tables above |
| `signals_latest` | Does `/signals/latest` show the most recent significant signal? (violated) | the tables above |

`pipeline` and `http_clients` check modules together that share no variable: the
stages a transaction passes on its way to a signal, and the two clients that retry
HTTP requests. A behaviour of such a run chooses one module (`stage`, `client`) and
leaves the others in their initial states, so that the run visits the states of each
module and not their product, in which no property could tell more. The fairness is that of the modules; it demands nothing of a module
in its initial state, where no call has been made and no event has arrived.

All bounds (`MaxMessages`, `MaxStarts`, `MaxArrivals`, `MaxTime`, ...) stand in
the guards, so that liveness is checked on the true state graph. A model stops
where its bounds are used up, therefore `CHECK_DEADLOCK FALSE`; that nothing
gets stuck earlier is what the liveness properties say.

### Fairness

- The event loop runs a coroutine that can run, and Redis, the database and
  HTTP calls answer, fail or time out: weak fairness of the steps of a
  coroutine taken together. No single outcome is assumed to come about, so a
  call may fail every time.
- `asyncio.Lock` serves its waiters in order: strong fairness of the consumer's
  `AddToBuffer`, which waits for the lock.
- `ZMQListener`: a socket that has a message, and is asked again and again, does
  not fail every time: strong fairness of `Receive` per topic. A `ZMQError`
  that comes at every attempt would be a broken installation.
- `Streaming`: the same lock, hence strong fairness of `Enter` and `Leave`; a send
  of a broadcast returns or raises. Redis does not fail at every poll of a client:
  weak fairness of its polls.
- `RpcClient`, `PriceOracle`, `WebhookDispatcher`: an HTTP request is answered or fails. Each
  wait for a part of the answer ends by the timeout of the client, and no server sends
  parts for ever; how long it all takes is left open.
- Publications, connections, updates of filters, the end of a client, stops,
  crashes, restarts and the clock are never assumed.

### Findings

Five runs show a disagreement between code and a statement of the repository;
`PROJECT.json` quotes the lines.

1. `classifier.py:303` reads `tx.outputs`, which is called `vout`: every
   large transaction ends in an exception and is dropped.
2. `mempool_listener.py:153`: after a lost connection `gather` waits for
   the statistics task, which never ends; no reconnect.
3. `signal_generator.py:200` (and `:207`) reads `timestamp` of a transaction, which
   has none: the second deposit to one exchange among the rows of a request, or the
   second withdrawal, answers it with an error 500. The code and the route
   promise signals for bursts.
4. `signal_generator.py:244` (and `:270`): `ACTIONS` has no entry for critical exchange
   signals, so a transfer of 5000 BTC answers every request over it with an error
   500. The route promises to sort critical signals first.
5. `signals.py:233`: `/signals/latest` shows the most severe signal, and of those the
   newest; its docstring promises the most recent significant one.

Because of 1, `EventEngine` is checked on messages the classifier would send
were its last rule repaired as well as on those it does send.

## 4. Proofs

`MessageQueueProofs` proves for every stream length, batch size and bound, from
`ConstantsAssumption` alone:

| Theorem | States |
|---|---|
| `TypeCorrect` | `Spec => []TypeOK` |
| `InOrderAtMostOnce` | `Spec => []CallsInOrder` |
| `AckedHandled` | `Spec => []AckedWereHandled` |
| `SkippedLagging` | `Spec => []SkippedOnlyWhenLagging` |
| `OrphansAreForever` | `Spec => OrphansStay` |
| `Refinement` | `Spec => ImplementsAtMostOnce` |

The argument rests on one inductive invariant, `IInv == TypeOK /\ GroupInv /\
BatchInv /\ CallInv /\ AckInv`. None of the properties is inductive by itself:
that a call comes after all earlier ones needs to know that everything called so
far lies below `cur` (`CallInv`), which needs the batch in hands to be
the top of what the group has been given (`BatchInv`), which needs the group's
position to be ahead of all that was read or skipped (`GroupInv`); that an
acknowledged message was handled needs to know that the process only acknowledges
what it has just returned from (`AckInv`). `IInv` is preserved by each action
(one step per action; what several share - a batch assigned, a message
invoked - is a lemma), and every theorem is drawn from it. The refinement maps
`sent` to `last` and is the identity elsewhere; every step is a `Publish`, a
`Deliver` or stutters.

`WebhookDispatcherProofs` proves for every set of URLs, number of attempts and number
of events, from `WebhookAssumption` (finitely many URLs, at least one attempt):

| Theorem | States |
|---|---|
| `Recorded` | `Spec => []PostsAreRecorded` |
| `TypeCorrect` | `Spec => []TypeOK` |
| `Bounded` | `Spec => []AttemptsBounded` |
| `DeliveredIsTrue` | `Spec => []DeliveredWereAccepted` |
| `FailedIsExplained` | `Spec => []FailedWereExhausted` |
| `RowsTrue` | `Spec => []RowsAreTrue`, the two together |
| `InOrder` | `Spec => []EventsInOrder` |

Its inductive invariant says of each task what the await it is suspended in
implies (`TaskInv`): before its row is created nothing has been POSTed, while it
sends it has attempts left, when it records a success there was one, when it gives up
it has a reason to. A task at work is of the newest event taken, so every POST
is of that event and none so far is of a later one (`OrderInv`). The number of
attempts is a count over the POSTs; that `Append` adds one to it for its own
task and nothing for others is `CountAppend`. The steps of a task are drawn from
one lemma, `StepOfTask`, on what they leave alone.

`ClassifierProofs` proves for every set of workers and of transactions and any
number of messages:

| Theorem | States |
|---|---|
| `TypeCorrect` | `Spec => []TypeOK` |
| `StoredPublished` | `Spec => []StoredWasPublished` |
| `OrphansExplained` | `Spec => []OrphansComeFromAborts` |
| `OnceAnnounced` | `Spec => []AnnouncedOnce` |
| `NotRepublished` | `Spec => NoRepublishOfStored` |

A row of the table was announced because a session that has only to commit has
been (`CommitInv`). That no txid is announced twice for one row rests on
the unique index: sessions past their insert hold distinct txids, none of which
is in the table (`SessionInv`); `exists` plays no part in the proof.

`ClassifierProofs` also proves of `PriceOracle`, for every number of sources, cache time, clock and
number of calls, from `PriceOracleAssumption`:

| Theorem | States |
|---|---|
| `PriceTypeCorrect` | `PriceSpec => []PriceTypeOK` |
| `Apart` | `PriceSpec => FetchesApart` |
| `Fresher` | `PriceSpec => ReturnsFresh` |

`FetchesApart` needs to know why a call that is not forced waits at all: what
was cached when it was made was older by the cache time, or has been
replaced since (`CallInv`). While sources are asked, the cache has not changed
since the holder's second look, so it is still not fresh for it (`FetchInv`).

`MempoolListenerProofs` proves for every set of transactions, thresholds and size of
the memory, from `MempoolAssumption`:

| Theorem | States |
|---|---|
| `TypeCorrect` | `Spec => []TypeOK` |
| `OncePerMemory` | `Spec => []PublishedOncePerMemory` |
| `WhalesGoOut` | `Spec => []WhalesPublished` |

The invariant is a balance (`MemoryInv`): how often a txid was published, plus one
if it is in hand, is at most how often it was forgotten, plus one if it is
remembered. The lemma `RememberKeeps` shows that the cleanup, whichever subset it
keeps, disturbs neither the balance nor the bound of the set.

`ZMQListenerProofs` proves for every range of the sequence numbers, size of the
queues and number of messages and starts:

| Theorem | States |
|---|---|
| `TypeCorrect` | `Spec => []TypeOK` |
| `ExactlyPublished` | `Spec => []PublishedExactly` |
| `ExactlyMissed` | `Spec => []MissedExact` |

What waits in the socket is in order and later than all that was received
(`AheadInv`), over losses and restarts of either side; so the transaction in
hand is later than all that are published (`StreamInv`). The counter of a topic
and the last sequence number together are exact (`Exact`): the number is that of
the latest message heard, and the count falls short of the messages missing
between the first and the latest heard by a multiple of `Wrap` (`CountInv`).
Neither half would be preserved alone. A gap `(seq - last - 1) % Wrap` adds
to the count what lies between the two, modulo `Wrap`; the module states the
few laws of division this needs as lemmas.

`ApiProofs` proves of `Streaming`, for any number of clients, every stream, set of
filters and size of a poll, from `StreamingAssumption`:

| Theorem | States |
|---|---|
| `TypeCorrect` | `Spec => []TypeOK` |
| `InOrderFirstSight` | `Spec => FirstSightInOrder` |
| `MissesOnlyOvertaken` | `Spec => SseMissesOnlyOvertaken` |
| `ToldFilter` | `Spec => FilterAsTold` |
| `BroadcastComplete` | `Spec => []BroadcastReachesAll` |

What is left of a batch is a run of events that ends in the newest of the
poll (`BatchInv`). A reader that was sent an event was sent all older ones that
its filter lets through and that are among the newest of its last poll
(`SeenInv`): that is why nothing it sees for the first time can be older than
what it has seen, although the code compares each message with one id only.

That a broadcast passes nobody over needs to know that who is on the manager's list
has connected before (`BroadcastInv`): a client that became connected while it
is on the list could do so behind the back of a broadcast.

`ApiProofs` also proves of `RpcClient`, for every number of callers and attempts, cache
time and clock, from `RpcAssumption`:

| Theorem | States |
|---|---|
| `RpcTypeCorrect` | `RpcSpec => []RpcTypeOK` |
| `RecentAnswers` | `RpcSpec => []AnswersAreRecent` |

The node answers a request after it was sent (`RequestInv`); so the entry, whoever stored
it, had not aged more on its way than the request that brought it took, and it expires the
cache time after it was stored (`CacheInv`). No timeout enters the proof.

`ApiProofs` proves of `Signals`, for every set of rows, every table and every limit,
from `SignalsAssumption`:

| Theorem | States |
|---|---|
| `SeverestShown` | `SignalsSpec => []LimitKeepsSeverest` |
| `LatestListed` | `SignalsSpec => []LatestIsListed` |

The state says little here; the work is in the loops. The sorted list has the members
of the unsorted one and falling severities (`SortedIs`), because an order that
obeys the key exists for every list (`OrderExists`, by insertion). The choice of
`/signals/latest` is after each signal a most severe one of those wanted so far
(`LatestIsMostSevere`), and a longer window finds what a shorter one does,
for it makes the same signals first and then only adds to them
(`MoreRowsMoreSignals`).

`EventEngineProofs` proves for every set of transactions and labels, every threshold
and window and number of messages, from `EventEngineAssumption` (natural numbers,
thresholds of at least one transaction, and outputs that are lists):

| Theorem | States |
|---|---|
| `TypeCorrect` | `Spec => []TypeOK` |
| `NoneSlipsAway` | `Spec => []BufferedAreAccounted` |
| `NoMessageTwice` | `Spec => []BurstsDisjoint` |
| `SavedFirst` | `Spec => []AnnouncedWereSaved` |
| `GroupsAreReported` | `Spec => BurstsDetected` |

The invariant says what the checker, which holds the lock over its awaits, may rely on
(`CheckerOk`): every key is trimmed to the instant at which its check began, every key
behind it has no burst or one that a saved event reports, and the event in its hands
is still the burst of what the buffer holds, since nobody else adds to
it. Without the last clause neither `NoneSlipsAway` nor `NoMessageTwice`
is inductive: the clear after the save removes the buffer as it is then, and it has
to be what the event was made from. An event spans the times of its
messages (`SavedOk`), so that two bursts with a message in common overlap, and the
query for duplicates finds the first. `ScanBuffer` and `Scan` are what the loop over the
keys does, whichever order it takes.

`ListLemmas` holds what these proofs share. Induction is stated over a set of
numbers (`SetInduction`), not over a predicate, which the provers could not instantiate.
From it follow that a loop with an accumulator has values (`LoopExists`), which is how
recursive functions are unfolded; that `Only(s, S)` has exactly the elements of
`s` that are in `S` (`OnlyMembers`, the theorem of this module listed in
`PROJECT.json`); and that a strict order can be listed (`OrderExists`).

The type invariants (`TypeOK`, `PriceTypeOK`, `RpcTypeOK`) are proved and therefore
not among the runs' properties. The tables of rules (`DetermineTypes`) and the
severities of signals enter the proofs by what the properties need of them only.

Only model-checked: the liveness properties, for fairness and ENABLED are beyond the
provers: `Drained` and `LoopStops` (message queue), `EveryEventTaken` (webhooks),
`ConsumerGoesOn` (event engine), `StopEnds` (both listeners), `TopicsAreRead` (ZMQ),
`CallsReturn` (price oracle), `HandlersEnd` and `NewestArrives` (streaming) and
`CallsEnd` (RPC client); and the five runs that show a violation. Every
safety invariant and every action property of the passing runs is a theorem.

## 5. Plan

Done: the message queue with its abstract specification, the classifier, the event
engine, the webhook dispatcher, both listeners, the price oracle, the streaming
API, the signals and the RPC client with their runs; proofs of all their safety
properties.

Left, in this order:

1. `Stage`: an abstract specification of a stage (a message handled at most once, its
   result announced at most once), composed of queue and classifier; shown to
   be implemented by both.
2. `EntityTags`: the race in `upsert` (`repository.py:75`).
3. `RpcClient` with several keys and a full cache.

## 6. Not modelled

- Pure I/O and declarations: metrics, logging, schemas, seeds, migrations, demo,
  deployment, settings (where a value of the YAML file passes as an argument and
  so beats the environment).
- The read-only queries of the API, and the upsert of entity tags.
- The byte-level encodings of addresses and transactions: pure functions on byte
  strings of a length that cannot be enumerated.
- Confidence and texts of signals, floating-point scores.
- Code that nothing in the repository reaches: the anomaly detector (called by
  tests only), `dispatch_event`, `generate_signal_from_event`, and
  `_create_burst_signal`, which would need a second tracked transaction of one key.
- In `RpcClient`, the limit of 1000 keys and `close`, after which a call would open
  a client that nobody closes.
