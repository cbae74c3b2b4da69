---------------------------- MODULE EventEngine ----------------------------
(***************************************************************************)
(* tbwi/services/event_engine.py: whale events made from the messages of   *)
(* the stream classified_tx, one by one and in bursts.                     *)
(*                                                                         *)
(* Two tasks share the process: "consumer" runs _process_transaction on    *)
(* each message, "checker" runs _check_bursts every 30 seconds.  They meet *)
(* at _tx_buffer, which _buffer_lock guards; the checker keeps that lock   *)
(* while it waits for the database and for Redis.  A step is what a task   *)
(* runs between two awaits, pc the await it is suspended in.               *)
(*                                                                         *)
(* A classified transaction is a record [txid, btc, types, primary,        *)
(* fromExchange, outputs]: types a set, fromExchange whether an input has  *)
(* an exchange category, outputs a sequence of [label, exchange].  Only    *)
(* the buffer's deposit and withdrawal keys are kept, since nothing ever   *)
(* reads the others.                                                       *)
(***************************************************************************)
EXTENDS Integers, FiniteSetsExt, Lists

CONSTANTS
  Txs,             \* classified transactions
  Labels,          \* entity labels, "Unknown" among them
  SingleBtc,       \* thresholds.single_deposit_btc
  DepositMinCount, DepositMinBtc, DepositWindow,  \* thresholds.deposit_burst_*
  OutflowMinCount, OutflowMinBtc, OutflowWindow,  \* thresholds.outflow_*
  MaxArrivals,     \* bound: messages on classified_tx
  MaxTime          \* bound: the clock

ASSUME EventEngineAssumption ==
  /\ {SingleBtc, DepositMinCount, DepositMinBtc, DepositWindow, OutflowMinCount,
      OutflowMinBtc, OutflowWindow, MaxArrivals, MaxTime} \subseteq Nat
  /\ DepositMinCount > 0 /\ OutflowMinCount > 0
  /\ "Unknown" \in Labels
  /\ \A tx \in Txs : tx.outputs \in Seq([label : Labels, exchange : BOOLEAN])

VARIABLES
  now,        \* utcnow()
  inbox,      \* the stream classified_tx, messages [tx, seen]
  taken,      \* the last message the consumer was given, an index of inbox
  pc,         \* per task: the await it is suspended in
  event,      \* per task: the event in hand
  buffer,     \* _tx_buffer: per key the messages appended to it
  todo,       \* keys with a burst this check has still to report
  checkedAt,  \* the "now" of this check
  saved,      \* table whale_events: committed rows, in order
  announced,  \* the stream whale_event
  added,      \* history: <<key, message>> put into this process's buffer
  dropped     \* history: those of them a burst took along that was not saved

consumerVars == <<inbox, taken>>
checkVars == <<todo, checkedAt>>
eventVars == <<saved, announced>>
vars == <<now, consumerVars, pc, event, buffer, checkVars, eventVars,
          added, dropped>>

Deposit == "EXCHANGE_DEPOSIT_CANDIDATE"
Withdrawal == "EXCHANGE_WITHDRAWAL_CANDIDATE"
OtcLike == "OTC_LIKE_MOVE_CANDIDATE"
Keys == Labels \X {Deposit, Withdrawal}

Tasks == {"consumer", "checker"}
Resting == "resting"                \* xreadgroup, or sleep(30)
NoEvent == [kind |-> "none"]

-----------------------------------------------------------------------------
Tx(m) == inbox[m].tx
Seen(m) == inbox[m].seen
Txids(msgs) == {Tx(m).txid : m \in Members(msgs)}
TotalBtc(msgs) == SumFunction([i \in DOMAIN msgs |-> Tx(msgs[i]).btc])

WhaleEvent(kind, label, msgs) ==
  LET seen == {Seen(m) : m \in Members(msgs)}
  IN  [kind |-> kind, label |-> label, msgs |-> msgs,
       start |-> Min(seen), end |-> Max(seen)]

(* _check_single_event: the first of three rules that applies.             *)
SingleKind(tx) ==
  IF tx.btc < SingleBtc THEN "none"
  ELSE IF Deposit \in tx.types /\ \E i \in DOMAIN tx.outputs : tx.outputs[i].exchange
    THEN "WH_EXCHANGE_SINGLE_DEPOSIT"
  ELSE IF Withdrawal \in tx.types /\ tx.fromExchange
    THEN "WH_EXCHANGE_SINGLE_WITHDRAWAL"
  ELSE IF OtcLike \in tx.types THEN "WH_OTC_LARGE_MOVE" ELSE "none"

(* How often _add_to_buffer appends tx under key: once for each output     *)
(* with that label; a transaction with unknown outputs only, once.         *)
Copies(tx, key) ==
  IF key[1] = "Unknown"
    THEN IF /\ \A i \in DOMAIN tx.outputs : tx.outputs[i].label = "Unknown"
            /\ tx.primary = key[2] THEN 1 ELSE 0
    ELSE IF key[2] \in tx.types
           THEN Cardinality({i \in DOMAIN tx.outputs : tx.outputs[i].label = key[1]})
           ELSE 0

(* The messages of msgs in the window that ends at time at.                *)
Within(msgs, window, at) ==
  Only(msgs, {m \in Members(msgs) : Seen(m) >= at - window})

(* Mutant of Burst: a burst needs one message more than the minimum.       *)
BurstNeedsMore(key, recent, at) ==
  IF key[2] = Deposit
    THEN IF Len(recent) > DepositMinCount /\ TotalBtc(recent) >= DepositMinBtc
           THEN WhaleEvent("WH_EXCHANGE_DEPOSIT_BURST", key[1], recent)
           ELSE NoEvent
    ELSE NoEvent

(* _check_deposit_burst and _check_outflow_burst at time at, on what a key *)
(* holds once it is trimmed to the deposit window.                         *)
Burst(key, recent, at) ==
  LET outflow == Within(recent, OutflowWindow, at)
  IN  IF /\ key[2] = Deposit
         /\ Len(recent) >= DepositMinCount /\ TotalBtc(recent) >= DepositMinBtc
        THEN WhaleEvent("WH_EXCHANGE_DEPOSIT_BURST", key[1], recent)
      ELSE IF /\ key[2] = Withdrawal
              /\ Len(outflow) >= OutflowMinCount /\ TotalBtc(outflow) >= OutflowMinBtc
        THEN WhaleEvent("WH_EXCHANGE_BULK_OUTFLOW", key[1], outflow)
      ELSE NoEvent

KeyOf(e) ==
  <<e.label, IF e.kind = "WH_EXCHANGE_DEPOSIT_BURST" THEN Deposit ELSE Withdrawal>>

(* Mutant of Duplicate: only an event with exactly these transactions is   *)
(* taken for the same.                                                     *)
DuplicateExact(e) ==
  \E i \in DOMAIN saved :
    saved[i].kind = e.kind /\ Txids(saved[i].msgs) = Txids(e.msgs)

(* check_duplicate, which does not look at the entity.                     *)
Duplicate(e) ==
  \E i \in DOMAIN saved :
    /\ saved[i].kind = e.kind
    /\ saved[i].start <= e.end /\ saved[i].end >= e.start
    /\ Txids(saved[i].msgs) \intersect Txids(e.msgs) # {}

-----------------------------------------------------------------------------
EmptyBuffer == [key \in Keys |-> << >>]

Init ==
  /\ now = 0 /\ inbox = << >> /\ taken = 0
  /\ pc = [t \in Tasks |-> Resting]
  /\ event = [t \in Tasks |-> NoEvent]
  /\ buffer = EmptyBuffer
  /\ todo = {} /\ checkedAt = 0
  /\ saved = << >> /\ announced = << >>
  /\ added = {} /\ dropped = {}

Move(t, from, to) ==
  /\ pc[t] = from
  /\ pc' = [pc EXCEPT ![t] = to]

(* _buffer_lock: the checker holds it for the whole of its check.          *)
LockFree == pc["checker"] = Resting

Tick ==
  /\ now < MaxTime
  /\ now' = now + 1
  /\ UNCHANGED <<consumerVars, pc, event, buffer, checkVars, eventVars, added,
                 dropped>>

(* The classifier publishes; seen_at is when a listener saw it.            *)
Arrive(tx) ==
  /\ Len(inbox) < MaxArrivals
  /\ inbox' = Append(inbox, [tx |-> tx, seen |-> now])
  /\ UNCHANGED <<now, taken, pc, event, buffer, checkVars, eventVars, added,
                 dropped>>

-----------------------------------------------------------------------------
(* The message queue hands a message over (AtMostOnceQueue!Deliver); the   *)
(* test for a single event awaits nothing.                                 *)
Take ==
  /\ \E m \in taken + 1 .. Len(inbox) :
       LET kind == SingleKind(Tx(m))
       IN  /\ taken' = m
           /\ Move("consumer", Resting, IF kind = "none" THEN "buffer" ELSE "save")
           /\ event' = [event EXCEPT !["consumer"] =
                IF kind = "none" THEN NoEvent ELSE WhaleEvent(kind, "Unknown", <<m>>)]
  /\ UNCHANGED <<now, inbox, buffer, checkVars, eventVars, added, dropped>>

(* Mutant of AddToBuffer: the lock is not taken.                           *)
AddToBufferUnlocked ==
  /\ Move("consumer", "buffer", Resting)
  /\ buffer' = [key \in Keys |->
                  buffer[key] \o [i \in 1 .. Copies(Tx(taken), key) |-> taken]]
  /\ added' = added \union {<<key, taken>> : key \in {k \in Keys : Copies(Tx(taken), k) > 0}}
  /\ UNCHANGED <<now, consumerVars, event, checkVars, eventVars, dropped>>

AddToBuffer ==
  /\ LockFree
  /\ Move("consumer", "buffer", Resting)
  /\ buffer' = [key \in Keys |->
                  buffer[key] \o [i \in 1 .. Copies(Tx(taken), key) |-> taken]]
  /\ added' = added \union {<<key, taken>> : key \in {k \in Keys : Copies(Tx(taken), k) > 0}}
  /\ UNCHANGED <<now, consumerVars, event, checkVars, eventVars, dropped>>

-----------------------------------------------------------------------------
(* The loop of _check_bursts over keys, at time at, up to its next await:   *)
(* the query about the first burst.  All keys are trimmed here, those that *)
(* come after that burst as well: until the lock is free nothing else      *)
(* touches them, and trimming them again changes nothing.                  *)
ScanKeys(from, keys, at) ==
  LET recent == [key \in keys |-> Within(buffer[key], DepositWindow, at)]
      bursts == {key \in keys : Burst(key, recent[key], at) # NoEvent}
  IN  /\ buffer' = [key \in Keys |-> IF key \in keys THEN recent[key] ELSE buffer[key]]
      /\ IF bursts = {}
           THEN /\ Move("checker", from, Resting)
                /\ event' = [event EXCEPT !["checker"] = NoEvent]
                /\ todo' = {} /\ checkedAt' = 0
           ELSE \E key \in bursts :
                  /\ Move("checker", from, "duplicate")
                  /\ event' = [event EXCEPT !["checker"] = Burst(key, recent[key], at)]
                  /\ todo' = bursts \ {key} /\ checkedAt' = at

(* _check_bursts reads the clock and takes the lock, which is free: the    *)
(* consumer awaits nothing while it has it.                                *)
StartCheck ==
  /\ ScanKeys(Resting, Keys, now)
  /\ UNCHANGED <<now, consumerVars, eventVars, added, dropped>>

CheckDuplicate ==
  /\ Move("checker", "duplicate",
          IF Duplicate(event["checker"]) THEN "commit" ELSE "save")
  /\ UNCHANGED <<now, consumerVars, event, buffer, checkVars, eventVars, added, dropped>>

(* Mutant of DatabaseFails: the exception leaves the lock taken.           *)
DatabaseFailsLocked ==
  /\ pc["checker"] \in {"duplicate", "commit"}
  /\ pc' = [pc EXCEPT !["checker"] = "stuck"]
  /\ UNCHANGED <<now, consumerVars, event, buffer, checkVars, eventVars, added, dropped>>

(* The query, or the commit that ends its session, raises: "Error in       *)
(* periodic clustering"; the lock is released, the other keys wait for the *)
(* next check.                                                             *)
DatabaseFails ==
  /\ pc["checker"] \in {"duplicate", "commit"}
  /\ pc' = [pc EXCEPT !["checker"] = Resting]
  /\ event' = [event EXCEPT !["checker"] = NoEvent]
  /\ todo' = {} /\ checkedAt' = 0
  /\ UNCHANGED <<now, consumerVars, buffer, eventVars, added, dropped>>

(* The query's session ends; on to the keys that are left.                 *)
CommitQuery ==
  /\ ScanKeys("commit", todo, checkedAt)
  /\ UNCHANGED <<now, consumerVars, eventVars, added, dropped>>

-----------------------------------------------------------------------------
(* Task t is back from _save_and_publish_event, which never raises: the    *)
(* checker empties the key whose burst it was.                             *)
Resume(t, from) ==
  /\ event' = [event EXCEPT ![t] = NoEvent]
  /\ IF t = "consumer"
       THEN /\ Move(t, from, "buffer")
            /\ UNCHANGED buffer
       ELSE /\ Move(t, from, "commit")
            /\ buffer' = [buffer EXCEPT ![KeyOf(event[t])] = << >>]

Save(t) ==
  /\ Move(t, "save", "publish")
  /\ saved' = Append(saved, event[t])
  /\ UNCHANGED <<now, consumerVars, event, buffer, checkVars, announced, added, dropped>>

(* Mutant of SaveFails: the error is ignored, the event published.         *)
SaveFailureIgnored(t) ==
  /\ Move(t, "save", "publish")
  /\ UNCHANGED <<now, consumerVars, event, buffer, checkVars, eventVars, added, dropped>>

(* The session raises; its commit may yet have taken effect.               *)
SaveFails(t) ==
  /\ Resume(t, "save")
  /\ \/ saved' = Append(saved, event[t]) /\ UNCHANGED dropped
     \/ /\ UNCHANGED saved
        /\ dropped' = IF t = "consumer" THEN dropped ELSE
             dropped \union {<<KeyOf(event[t]), m>> : m \in Members(buffer[KeyOf(event[t])])}
  /\ UNCHANGED <<now, consumerVars, checkVars, announced, added>>

Publish(t) ==
  /\ Resume(t, "publish")
  /\ announced' = Append(announced, event[t])
  /\ UNCHANGED <<now, consumerVars, checkVars, saved, added, dropped>>

(* Redis fails; what was saved stays unannounced.                          *)
PublishFails(t) ==
  /\ Resume(t, "publish")
  /\ UNCHANGED <<now, consumerVars, checkVars, eventVars, added, dropped>>

(* The process ends, by stop or crash, and starts anew.                    *)
Restart ==
  /\ pc' = [t \in Tasks |-> Resting]
  /\ event' = [t \in Tasks |-> NoEvent]
  /\ buffer' = EmptyBuffer
  /\ todo' = {} /\ checkedAt' = 0
  /\ added' = {} /\ dropped' = {}
  /\ UNCHANGED <<now, inbox, taken, eventVars>>

SaveOrPublish(t) == Save(t) \/ SaveFails(t) \/ Publish(t) \/ PublishFails(t)

Check ==
  \/ CheckDuplicate \/ DatabaseFails \/ CommitQuery
  \/ SaveOrPublish("checker")

Next ==
  \/ Tick \/ \E tx \in Txs : Arrive(tx)
  \/ Take \/ AddToBuffer \/ SaveOrPublish("consumer")
  \/ StartCheck \/ Check
  \/ Restart

Spec == Init /\ [][Next]_vars

(* The database and Redis answer or time out.  asyncio.Lock serves waiters *)
(* in turn, so a consumer that waits for it gets it although the checker   *)
(* takes it again and again.                                               *)
FairSpec ==
  /\ Spec
  /\ WF_vars(Check) /\ WF_vars(SaveOrPublish("consumer"))
  /\ SF_vars(AddToBuffer)

-----------------------------------------------------------------------------
Kinds == {"WH_EXCHANGE_SINGLE_DEPOSIT", "WH_EXCHANGE_SINGLE_WITHDRAWAL",
          "WH_OTC_LARGE_MOVE", "WH_EXCHANGE_DEPOSIT_BURST",
          "WH_EXCHANGE_BULK_OUTFLOW"}
Event == [kind : Kinds, label : Labels, msgs : Seq(1 .. taken),
          start : 0 .. now, end : 0 .. now]

TypeOK ==
  /\ now \in Nat /\ inbox \in Seq([tx : Txs, seen : 0 .. now])
  /\ taken \in 0 .. Len(inbox)
  /\ pc \in [Tasks -> {Resting, "buffer", "duplicate", "save", "publish", "commit"}]
  /\ event \in [Tasks -> Event \union {NoEvent}]
  /\ buffer \in [Keys -> Seq(1 .. taken)]
  /\ todo \subseteq Keys /\ checkedAt \in 0 .. now
  /\ saved \in Seq(Event) /\ announced \in Seq(Event)
  /\ added \subseteq Keys \X (1 .. taken) /\ dropped \subseteq Keys \X (1 .. taken)

IsBurst(e) == e.kind \in {"WH_EXCHANGE_DEPOSIT_BURST", "WH_EXCHANGE_BULK_OUTFLOW"}

(* No transaction the consumer buffered slips away between the two tasks:  *)
(* it is in the buffer, or older than its window, or in a burst of its key *)
(* that was saved, or in one whose save failed.  The lock keeps the clear  *)
(* after a burst from taking one along that came after the scan.           *)
WindowOf(key) ==
  IF key[2] = Deposit \/ DepositWindow <= OutflowWindow
    THEN DepositWindow ELSE OutflowWindow
Accounted(key, m) ==
  \/ m \in Members(buffer[key])
  \/ Seen(m) < now - WindowOf(key)
  \/ \E i \in DOMAIN saved :
       IsBurst(saved[i]) /\ KeyOf(saved[i]) = key /\ m \in Members(saved[i].msgs)
  \/ <<key, m>> \in dropped
BufferedAreAccounted == \A entry \in added : Accounted(entry[1], entry[2])

(* No message counts for two bursts of a kind, not even when it pays two   *)
(* exchanges, stays buffered under the second key and new ones join.  (A   *)
(* txid may, if the classifier announces it twice, hours apart.)           *)
BurstsDisjoint ==
  \A i, j \in DOMAIN saved :
    (i # j /\ IsBurst(saved[i]) /\ saved[i].kind = saved[j].kind)
      => Members(saved[i].msgs) \intersect Members(saved[j].msgs) = {}

(* What goes out to the webhooks is in the database.                       *)
AnnouncedWereSaved == Members(announced) \subseteq Members(saved)

(* A check that goes through, over several bursts and the awaits between   *)
(* them, leaves no group unreported: a key that still holds enough of its  *)
(* window, at the time the check began, holds a transaction that a saved   *)
(* burst reported.  No withdrawal is older than the deposit window here,   *)
(* for every key is trimmed to that.                                       *)
CheckEndsAt(at) ==
  \/ StartCheck /\ at = now /\ pc'["checker"] = Resting
  \/ CommitQuery /\ at = checkedAt /\ pc'["checker"] = Resting
Reported(kind, label, held, minCount, minBtc) ==
  (Len(held) >= minCount /\ TotalBtc(held) >= minBtc)
    => Duplicate(WhaleEvent(kind, label, held))
BurstsReportedAt(at) ==
  \A label \in Labels :
    /\ Reported("WH_EXCHANGE_DEPOSIT_BURST", label,
                Within(buffer[<<label, Deposit>>], DepositWindow, at),
                DepositMinCount, DepositMinBtc)
    /\ Reported("WH_EXCHANGE_BULK_OUTFLOW", label,
                Within(buffer[<<label, Withdrawal>>], OutflowWindow, at),
                OutflowMinCount, OutflowMinBtc)
BurstsDetected ==
  [][\A at \in 0 .. now : CheckEndsAt(at) => BurstsReportedAt(at)']_vars

(* The consumer is never locked out: no error of the checker keeps the     *)
(* lock.                                                                   *)
ConsumerGoesOn == (pc["consumer"] = "buffer") ~> (pc["consumer"] = Resting)
=============================================================================
