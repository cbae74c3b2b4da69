---------------------------- MODULE PriceOracle ----------------------------
(***************************************************************************)
(* tbwi/services/price_oracle.py: a cached price, five sources to ask for  *)
(* it one after the other, and a lock that lets one call ask at a time.    *)
(*                                                                         *)
(* A source is its priority, a price the time it was stored at.  A call    *)
(* that finds a fresh price at once changes nothing and is no step.  The   *)
(* others stand in queue for the lock, which asyncio gives to its waiters  *)
(* in order; the first in queue holds it.                                  *)
(***************************************************************************)
EXTENDS Integers, SequencesExt

CONSTANTS
  NumSources,  \* len(sources)
  Ttl,         \* cache_ttl
  MaxTime,     \* bound: the clock
  MaxCalls     \* bound: calls that find no fresh price at once

ASSUME PriceOracleAssumption ==
  /\ NumSources \in Nat \ {0} /\ Ttl \in Nat \ {0}
  /\ MaxTime \in Nat /\ MaxCalls \in Nat

VARIABLES
  now,        \* time.time()
  cached,     \* _cache_timestamp, or NoPrice while _cached_price is None
  failures,   \* _source_failures
  queue,      \* _lock: the call that holds it, then those that wait
  toAsk,      \* the sources the holder has still to hear from
  comparing,  \* sources fetch_from_all_sources has still to hear from
  calls       \* calls so far

priceVars == <<now, cached>>
oracleVars == <<priceVars, failures, queue, toAsk, comparing, calls>>

Sources == 1 .. NumSources
NoPrice == -1

(* The test of the cache, with a time read at some moment before.          *)
Fresh(at) == cached # NoPrice /\ at - cached < Ttl

(* The sources in the order of their failures, then of their priority.     *)
SortedSources ==
  SetToSortSeq(Sources, LAMBDA s, t : \/ failures[s] < failures[t]
                                      \/ failures[s] = failures[t] /\ s < t)

PriceInit ==
  /\ now = 0 /\ cached = NoPrice
  /\ failures = [s \in Sources |-> 0]
  /\ queue = << >> /\ toAsk = << >>
  /\ comparing = {} /\ calls = 0

Tick ==
  /\ now < MaxTime
  /\ now' = now + 1
  /\ UNCHANGED <<cached, failures, queue, toAsk, comparing, calls>>

-----------------------------------------------------------------------------
(* get_btc_usd_price finds no fresh price.  A free lock is taken without   *)
(* an await, and the second look at the cache sees what the first saw.     *)
Call(force) ==
  /\ calls < MaxCalls
  /\ force \/ ~ Fresh(now)
  /\ calls' = calls + 1
  /\ queue' = Append(queue, [id |-> calls', askedAt |-> now, force |-> force])
  /\ toAsk' = IF queue = << >> THEN SortedSources ELSE toAsk
  /\ UNCHANGED <<priceVars, failures, comparing>>

(* The lock was handed on, to a call that has not run since.               *)
Woken == queue # << >> /\ toAsk = << >>

(* Mutant of MayUseCache: no second look.                                  *)
MayNotUseCache == FALSE

(* The new holder looks at the cache again, with the time it read before   *)
(* it waited.                                                              *)
MayUseCache == ~ Head(queue).force /\ Fresh(Head(queue).askedAt)

ReturnCached ==
  /\ Woken /\ MayUseCache
  /\ queue' = Tail(queue)
  /\ UNCHANGED <<priceVars, failures, toAsk, comparing, calls>>

StartFetching ==
  /\ Woken /\ ~ MayUseCache
  /\ toAsk' = SortedSources
  /\ UNCHANGED <<priceVars, failures, queue, comparing, calls>>

(* A source answers with a price, which is stored.                         *)
Fetched ==
  /\ toAsk # << >>
  /\ cached' = now
  /\ failures' = [failures EXCEPT ![Head(toAsk)] = 0]
  /\ toAsk' = << >>
  /\ queue' = Tail(queue)
  /\ UNCHANGED <<now, comparing, calls>>

(* Mutant of AskNext: one source is enough.                                *)
AskNoOther ==
  /\ toAsk' = << >>
  /\ queue' = Tail(queue)

(* Mutant of AskNext: when all have failed, the first is asked again.      *)
AskAgain ==
  /\ toAsk' = IF Tail(toAsk) = << >> THEN SortedSources ELSE Tail(toAsk)
  /\ UNCHANGED queue

(* No price from this source: on to the next, or, "All sources failed",    *)
(* back with the old price, if any.                                        *)
AskNext ==
  /\ toAsk' = Tail(toAsk)
  /\ queue' = IF Tail(toAsk) = << >> THEN Tail(queue) ELSE queue

(* Timeout, HTTP error, or any other error of the request.                 *)
FetchFails ==
  /\ toAsk # << >>
  /\ failures' = [failures EXCEPT ![Head(toAsk)] = @ + 1]
  /\ AskNext
  /\ UNCHANGED <<priceVars, comparing, calls>>

(* _extract_price finds no price in the answer; that is no failure.        *)
NoPriceInAnswer ==
  /\ toAsk # << >>
  /\ AskNext
  /\ UNCHANGED <<priceVars, failures, comparing, calls>>

-----------------------------------------------------------------------------
(* fetch_from_all_sources asks them all at once, without the lock; a price *)
(* it gets is not stored and forgives no failure.                          *)
Compare ==
  /\ comparing = {} /\ calls < MaxCalls
  /\ comparing' = Sources
  /\ calls' = calls + 1
  /\ UNCHANGED <<priceVars, failures, queue, toAsk>>

Compared(s) ==
  /\ s \in comparing
  /\ comparing' = comparing \ {s}
  /\ failures' \in {failures, [failures EXCEPT ![s] = @ + 1]}
  /\ UNCHANGED <<priceVars, queue, toAsk, calls>>

-----------------------------------------------------------------------------
Holder ==
  ReturnCached \/ StartFetching \/ Fetched \/ FetchFails \/ NoPriceInAnswer

PriceNext ==
  \/ Tick
  \/ (\E force \in BOOLEAN : Call(force)) \/ Holder
  \/ Compare \/ \E s \in Sources : Compared(s)

PriceSpec == PriceInit /\ [][PriceNext]_oracleVars

(* A request is answered or fails: a wait for a part of the answer ends by *)
(* its timeout, and no source sends parts for ever.  The event loop runs   *)
(* the call that the lock is handed to.                                    *)
PriceFairSpec == PriceSpec /\ WF_oracleVars(Holder)

-----------------------------------------------------------------------------
ValidCall == [id : Nat, askedAt : Nat, force : BOOLEAN]

PriceTypeOK ==
  /\ now \in Nat
  /\ cached \in Nat \union {NoPrice} /\ cached <= now
  /\ queue \in Seq(ValidCall)
  /\ calls \in Nat

Returns == queue # << >> /\ queue' = Tail(queue)

(* However long it stood in queue, a call returns a price that is fresh or *)
(* was stored since it was made, or else after no source gave it one.      *)
ReturnsFresh ==
  [][Returns =>
       \/ cached' # NoPrice /\ now - cached' < Ttl
       \/ cached' # NoPrice /\ cached' >= Head(queue).askedAt
       \/ toAsk # << >> /\ Tail(toAsk) = << >>]_oracleVars

(* Calls that meet a stale price together do not all ask for a new one:    *)
(* unless it is forced, a price is fetched Ttl after the last at the       *)
(* earliest.                                                               *)
FetchesApart ==
  [][Fetched /\ ~ Head(queue).force /\ cached # NoPrice => now - cached >= Ttl]_oracleVars

(* Every call returns, whatever the sources do to it and to those before   *)
(* it in the queue.                                                        *)
InQueue(n) == \E i \in DOMAIN queue : queue[i].id = n
CallsReturn == \A n \in 1 .. MaxCalls : InQueue(n) ~> ~ InQueue(n)
=============================================================================
