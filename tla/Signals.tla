------------------------------- MODULE Signals -------------------------------
(***************************************************************************)
(* tbwi/services/signal_generator.py and tbwi/api/routes/signals.py: the   *)
(* trading signals the API derives from the stored transactions.           *)
(*                                                                         *)
(* Every request reads the table once (get_recent) and then runs over the  *)
(* rows without an await, with a SignalGenerator of its own, so a request  *)
(* is one step.  The table grows between requests.  A row is               *)
(* [types, btc, outputs, inputs], of whose outputs and inputs only the     *)
(* entity labels count.                                                    *)
(***************************************************************************)
EXTENDS Integers, SequencesExt, Lists

CONSTANTS
  Rows,      \* classified transactions that may be stored
  MaxRows,   \* bound: rows in the table
  MinBtcs,   \* the values of the parameter min_btc; 0 filters nothing
  Limits     \* the values of the parameter limit

ASSUME SignalsAssumption ==
  /\ \A tx \in Rows : tx.btc \in Nat
  /\ MaxRows \in Nat
  /\ MinBtcs \subseteq Nat /\ Limits \subseteq Nat \ {0}

VARIABLES
  table,   \* classified_transactions, by seen_at
  reply    \* the last request and its answer

signalsVars == <<table, reply>>

-----------------------------------------------------------------------------
(* SignalSeverity as a rank, LOW to CRITICAL, and the thresholds.          *)
LOW == 0  MEDIUM == 1  HIGH == 2  CRITICAL == 3
HighValueThreshold == 1000
CriticalValueThreshold == 5000

CalculateSeverity(btc) ==
  Cardinality({t \in {500, HighValueThreshold, CriticalValueThreshold} :
                 btc >= t})

(* The first label that is known, of the outputs and then of the inputs.   *)
PrimaryEntity(tx) ==
  LET known == SelectSeq(tx.outputs \o tx.inputs, LAMBDA l : l # "Unknown")
  IN  IF known = << >> THEN "Unknown" ELSE Head(known)

(* The types whose transactions the generator keeps, per entity.           *)
Tracked == {"EXCHANGE_DEPOSIT_CANDIDATE", "EXCHANGE_WITHDRAWAL_CANDIDATE"}
TrackKey(tx) == <<Head(tx.types), PrimaryEntity(tx)>>

Direction(type) ==
  CASE type = "EXCHANGE_DEPOSIT_CANDIDATE" -> "BEARISH"
    [] type = "EXCHANGE_WITHDRAWAL_CANDIDATE" -> "BULLISH"
    [] OTHER -> "NEUTRAL"

(* The severity each _create_..._signal gives, or no signal at all.        *)
NoSignal == -1
Severity(type, btc) ==
  LET large == btc >= HighValueThreshold
  IN  CASE type \in Tracked -> CalculateSeverity(btc)
        [] type \in {"PROGRAMMATIC_SPLIT", "OTC_LIKE_MOVE_CANDIDATE"} ->
             IF large THEN MEDIUM ELSE LOW
        [] type = "CONSOLIDATION" -> LOW
        [] type \in {"LARGE_SINGLE_OUTPUT", "LARGE_MULTI_OUTPUT"} ->
             IF large THEN LOW ELSE NoSignal
        [] OTHER -> NoSignal

(* ACTIONS has an entry for each of these with either direction.           *)
ActionLevels == {LOW, MEDIUM, HIGH}

-----------------------------------------------------------------------------
(* generate_signal_from_transaction, of a generator gen =                  *)
(* [tracked, signals, raised]: the keys under which it keeps a transaction,*)
(* what it has made so far, and whether an exception has ended the request.*)
(* A key that is tracked already makes _track_transaction read t.timestamp,*)
(* which no ClassifiedTransaction has; so no list ever grows to a burst.   *)
(* An exchange signal that is CRITICAL looks up an action that is missing. *)
TrackRaises(gen, tx) == Head(tx.types) \in Tracked /\ TrackKey(tx) \in gen.tracked
ActionMissing(tx) ==
  /\ Head(tx.types) \in Tracked
  /\ CalculateSeverity(tx.btc) \notin ActionLevels

(* A signal keeps the transaction it was made from by its position among   *)
(* the rows read, which is also the order of created_at.                   *)
Generate(gen, tx, position) ==
  IF gen.raised \/ tx.types = << >> THEN gen
  ELSE IF TrackRaises(gen, tx) \/ ActionMissing(tx)
       THEN [gen EXCEPT !.raised = TRUE]
  ELSE LET type == Head(tx.types)
           severity == Severity(type, tx.btc)
           signal == [direction |-> Direction(type), severity |-> severity,
                      btc |-> tx.btc, created |-> position]
       IN  [gen EXCEPT
              !.tracked = IF type \in Tracked THEN @ \union {TrackKey(tx)} ELSE @,
              !.signals = IF severity = NoSignal THEN @ ELSE Append(@, signal)]

NewGenerator == [tracked |-> {}, signals |-> << >>, raised |-> FALSE]

(* get_recent: the newest n rows, newest first.                            *)
GetRecent(n) == SubSeq(Reverse(table), 1, n)

(* The loop of a request over the rows it has read.                        *)
Run(txs) ==
  LET gen[i \in 0 .. Len(txs)] ==
        IF i = 0 THEN NewGenerator ELSE Generate(gen[i - 1], txs[i], i)
  IN  gen[Len(txs)]

-----------------------------------------------------------------------------
NoFilter == "any"
Wanted(signal, direction, minBtc, minSeverity) ==
  /\ direction \in {NoFilter, signal.direction}
  /\ signal.btc >= minBtc
  /\ signal.severity >= minSeverity

(* Mutant of Before: LOW sorts first.                                      *)
LowFirst(a, b) ==
  \/ a.severity < b.severity
  \/ a.severity = b.severity /\ a.created > b.created

(* The sort key: severity, then created_at from late to early.  A signal   *)
(* that was made later is of an older transaction.                         *)
Before(a, b) ==
  \/ a.severity > b.severity
  \/ a.severity = b.severity /\ a.created > b.created

Sorted(signals) ==
  LET places == DOMAIN signals
      order == CHOOSE p \in [places -> places] :
                 /\ places \subseteq {p[i] : i \in places}
                 /\ \A i, j \in places :
                      i < j => ~ Before(signals[p[j]], signals[p[i]])
  IN  [i \in places |-> signals[order[i]]]

AllWanted(signals, direction, minBtc, minSeverity) ==
  {s \in Members(signals) : Wanted(s, direction, minBtc, minSeverity)}

(* GET /signals, past the reading of the rows.                             *)
TradingSignals(signals, direction, minBtc, minSeverity) ==
  Sorted(Only(signals, AllWanted(signals, direction, minBtc, minSeverity)))

Cut(signals, limit) ==
  SubSeq(signals, 1, IF limit < Len(signals) THEN limit ELSE Len(signals))

(* Mutant of Better: the best severity starts at LOW instead of below.     *)
BetterThanLow(best, signal) ==
  IF best = << >> THEN signal.severity > LOW ELSE signal.severity > best[1].severity

(* GET /signals/latest replaces its choice by a signal of a higher severity*)
(* only; best is << >> or <<signal>>.  It has no parameter min_btc.        *)
Better(best, signal) == best = << >> \/ signal.severity > best[1].severity

LatestSignal(signals, direction, minSeverity) ==
  LET best[i \in 0 .. Len(signals)] ==
        IF i = 0 THEN << >>
        ELSE IF /\ Wanted(signals[i], direction, 0, minSeverity)
                /\ Better(best[i - 1], signals[i])
             THEN <<signals[i]>> ELSE best[i - 1]
  IN  best[Len(signals)]

(* GET /signals/summary: counts, amounts, and the sentiment by the share of*)
(* bullish signals among those with a direction, against 0.6 and 0.4.      *)
CountOf(signals, direction) ==
  Len(SelectSeq(signals, LAMBDA s : s.direction = direction))

Sentiment(signals) ==
  LET bullish == CountOf(signals, "BULLISH")
      total == bullish + CountOf(signals, "BEARISH")
  IN  IF total = 0 THEN "NEUTRAL"
      ELSE IF 10 * bullish > 6 * total THEN "BULLISH"
      ELSE IF 10 * bullish < 4 * total THEN "BEARISH"
      ELSE "MIXED"

-----------------------------------------------------------------------------
NoReply == [of |-> "none"]
SignalsInit == table = << >> /\ reply = NoReply

(* The classifier commits a row, whose seen_at may lie before that of rows *)
(* that are there.  The last answer was of another table.                    *)
Store(tx) ==
  /\ Len(table) < MaxRows
  /\ \E k \in 1 .. Len(table) + 1 : table' = InsertAt(table, k, tx)
  /\ reply' = NoReply

(* A request reads the newest n rows: those of its hours, at most 1000, or *)
(* at most 100 for the latest signal.  An exception is an error 500.  A     *)
(* request leaves no trace, so it is enough to answer one per table.         *)
Answer(of, n, response) ==
  /\ reply = NoReply
  /\ reply' = IF Run(GetRecent(n)).raised THEN [of |-> of, n |-> n, failed |-> TRUE]
              ELSE response
  /\ UNCHANGED table

GetSignals(n, direction, minBtc, minSeverity, limit) ==
  LET found == TradingSignals(Run(GetRecent(n)).signals, direction, minBtc, minSeverity)
  IN  Answer("signals", n,
             [of |-> "signals", n |-> n, failed |-> FALSE, direction |-> direction,
              minBtc |-> minBtc, minSeverity |-> minSeverity, limit |-> limit,
              shown |-> Cut(found, limit)])

GetLatest(n, direction, minSeverity) ==
  Answer("latest", n,
         [of |-> "latest", n |-> n, failed |-> FALSE, direction |-> direction,
          minSeverity |-> minSeverity,
          shown |-> LatestSignal(Run(GetRecent(n)).signals, direction, minSeverity)])

GetSummary(n) ==
  LET signals == Run(GetRecent(n)).signals
  IN  Answer("summary", n,
             [of |-> "summary", n |-> n, failed |-> FALSE,
              bullish |-> CountOf(signals, "BULLISH"),
              bearish |-> CountOf(signals, "BEARISH"),
              sentiment |-> Sentiment(signals)])

SignalsNext ==
  \/ \E tx \in Rows : Store(tx)
  \/ \E n \in 0 .. Len(table) :
       \/ GetSummary(n)
       \/ \E direction \in {NoFilter, "BEARISH", "BULLISH", "NEUTRAL"},
             minSeverity \in LOW .. CRITICAL :
            \/ GetLatest(n, direction, minSeverity)
            \/ \E minBtc \in MinBtcs, limit \in Limits :
                 GetSignals(n, direction, minBtc, minSeverity, limit)

SignalsSpec == SignalsInit /\ [][SignalsNext]_signalsVars

-----------------------------------------------------------------------------
Answered(of) == reply.of = of /\ ~ reply.failed

(* What the limit of /signals cuts off is nowhere more severe than what is *)
(* shown, and nothing is cut off while there is room.                      *)
LimitKeepsSeverest ==
  Answered("signals") =>
    LET shown == Members(reply.shown)
        wanted == AllWanted(Run(GetRecent(reply.n)).signals, reply.direction,
                            reply.minBtc, reply.minSeverity)
    IN  /\ shown \subseteq wanted
        /\ \A cut \in wanted \ shown :
             /\ Len(reply.shown) = reply.limit
             /\ \A s \in shown : cut.severity <= s.severity

(* What /signals/latest shows is among what /signals would find without a  *)
(* limit, over the same rows and over those of every longer window that    *)
(* does not fail; and it shows something if there is anything to be found. *)
LatestIsListed ==
  Answered("latest") =>
    \A n \in reply.n .. Len(table) :
      LET gen == Run(GetRecent(n))
          wanted == AllWanted(gen.signals, reply.direction, 0, reply.minSeverity)
      IN  ~ gen.raised =>
            /\ Members(reply.shown) \subseteq wanted
            /\ n = reply.n /\ wanted # {} => reply.shown # << >>

-----------------------------------------------------------------------------
(* What the code says of itself and does not do.                           *)
Transfers(txs) ==
  {i \in DOMAIN txs : txs[i].types # << >> /\ Head(txs[i].types) \in Tracked}

(* "Check for burst patterns first (higher priority)"; "Signals are derived*)
(* from: [...] Deposit bursts (VERY BEARISH - coordinated selling)": rows  *)
(* of which several are transfers of one exchange, all below the critical  *)
(* size, do not make a request fail.                                       *)
BurstsAreSignalled ==
  reply.of # "none" =>
    LET txs == GetRecent(reply.n)
    IN  (\A i \in Transfers(txs) : txs[i].btc < CriticalValueThreshold)
          => ~ reply.failed

(* "Sort by severity (critical first)": transfers of critical size, each   *)
(* the only one of its exchange, do not make a request fail.               *)
CriticalAreSignalled ==
  reply.of # "none" =>
    LET txs == GetRecent(reply.n)
    IN  (\A i, j \in Transfers(txs) : i # j => TrackKey(txs[i]) # TrackKey(txs[j]))
          => ~ reply.failed

(* "Get the most recent significant trading signal", significant being, by *)
(* default, MEDIUM and above: of the signals that pass the filters, that of*)
(* the newest row, which was made first.                                   *)
LatestIsMostRecent ==
  Answered("latest") /\ reply.minSeverity = MEDIUM =>
    \A s \in AllWanted(Run(GetRecent(reply.n)).signals, reply.direction, 0,
                        reply.minSeverity) :
      \A i \in DOMAIN reply.shown : reply.shown[i].created <= s.created
=============================================================================
