------------------------- MODULE EventEngineProofs -------------------------
(***************************************************************************)
(* Theorems on EventEngine, for every set of transactions and labels,      *)
(* every threshold and window, and every number of messages.               *)
(***************************************************************************)
EXTENDS EventEngine, ListLemmas, FiniteSetTheorems, SequenceTheorems, TLAPS

-----------------------------------------------------------------------------
(* The inductive invariant.                                                *)

Spans(e) == \A m \in Members(e.msgs) : e.start <= Seen(m) /\ Seen(m) <= e.end

(* Since this check began its keys are trimmed, and each key it is done    *)
(* with has no burst, or one that a saved event reports.                   *)
Trimmed(key, at) == Within(buffer[key], DepositWindow, at) = buffer[key]
Settled(key, at) ==
  LET burst == Burst(key, buffer[key], at)
  IN  burst = NoEvent \/ Duplicate(burst)
IsBurstOf(e, key, at) == e # NoEvent /\ e = Burst(key, buffer[key], at)

CheckerOk ==
  /\ pc["checker"] # "buffer"
  /\ pc["checker"] # Resting =>
       \A key \in Keys :
         /\ Trimmed(key, checkedAt)
         /\ \/ key \in todo \/ Settled(key, checkedAt)
            \/ pc["checker"] # "commit" /\ key = KeyOf(event["checker"])
  /\ pc["checker"] \in {"duplicate", "save", "publish"} =>
       \E key \in Keys : IsBurstOf(event["checker"], key, checkedAt)
  /\ pc["checker"] = "save" => ~ Duplicate(event["checker"])

ConsumerOk ==
  /\ pc["consumer"] \notin {"duplicate", "commit"}
  /\ pc["consumer"] # Resting => taken > 0
  /\ pc["consumer"] \in {"save", "publish"} =>
       /\ event["consumer"] # NoEvent /\ ~ IsBurst(event["consumer"])
       /\ Spans(event["consumer"])

SavedOk ==
  /\ \A i \in DOMAIN saved : Spans(saved[i])
  /\ \A t \in Tasks : pc[t] = "publish" => event[t] \in Members(saved)

IInv ==
  /\ TypeOK /\ CheckerOk /\ ConsumerOk /\ SavedOk
  /\ AnnouncedWereSaved /\ BurstsDisjoint /\ BufferedAreAccounted

-----------------------------------------------------------------------------
LEMMA MinMax ==
  ASSUME NEW T \in SUBSET Nat, T # {}, NEW k \in Nat, \A n \in T : n <= k
  PROVE  /\ Min(T) \in 0 .. k /\ Max(T) \in 0 .. k
         /\ \A n \in T : Min(T) <= n /\ n <= Max(T)
<1>1. Min(T) \in T /\ \A n \in T : Min(T) <= n
  BY LeastNatural DEF Min
<1>2. Max(T) \in T /\ \A n \in T : Max(T) >= n
  BY GreatestNatural DEF Max
<1>3. Min(T) \in Nat /\ Max(T) \in Nat
  BY <1>1, <1>2
<1>4. \A n \in T : n \in Nat
  OBVIOUS
<1> HIDE DEF Min, Max
<1> QED
  BY <1>1, <1>2, <1>3, <1>4

-----------------------------------------------------------------------------
(* The operators of the engine.                                            *)

LEMMA WithinMembers ==
  ASSUME NEW T, NEW msgs \in Seq(T), NEW window, NEW at
  PROVE  /\ Within(msgs, window, at) \in Seq(T)
         /\ Members(Within(msgs, window, at))
              = {m \in Members(msgs) : Seen(m) >= at - window}
<1> DEFINE S == {m \in Members(msgs) : Seen(m) >= at - window}
<1>1. Only(msgs, S) \in Seq(T) /\ Members(Only(msgs, S)) = Members(msgs) \intersect S
  BY OnlyMembers
<1> QED
  BY <1>1 DEF Within

(* Trimming what is trimmed changes nothing.                               *)
LEMMA WithinTwice ==
  ASSUME NEW T, NEW msgs \in Seq(T), NEW window, NEW at
  PROVE  Within(Within(msgs, window, at), window, at) = Within(msgs, window, at)
<1> DEFINE w == Within(msgs, window, at)
           S == {m \in Members(w) : Seen(m) >= at - window}
<1>1. w \in Seq(T) /\ \A m \in Members(w) : Seen(m) >= at - window
  BY WithinMembers
<1> HIDE DEF w
<1>2. \A i \in DOMAIN w : w[i] \in S
  BY <1>1 DEF Members
<1>3. Only(w, S) = w
  BY <1>1, <1>2, OnlyAll
<1> QED
  BY <1>3 DEF Within, w

LEMMA EmptyWithin ==
  ASSUME NEW window, NEW at
  PROVE  Within(<< >>, window, at) = << >> /\ Within(<< >>, window, at)' = << >>
<1>1. << >> \in Seq(Nat) /\ DOMAIN << >> = {}
  OBVIOUS
<1>2. \A S : Only(<< >>, S) = << >>
  BY <1>1, OnlyAll
<1> QED
  BY <1>2 DEF Within

LEMMA SeenType ==
  ASSUME TypeOK, NEW m \in 1 .. taken
  PROVE  /\ m \in 1 .. Len(inbox) /\ Seen(m) \in 0 .. now /\ Tx(m) \in Txs
         /\ Seen(m) \in Nat
<1>1. /\ now \in Nat /\ inbox \in Seq([tx : Txs, seen : 0 .. now])
      /\ taken \in 0 .. Len(inbox)
  BY DEF TypeOK
<1>2. m \in 1 .. Len(inbox)
  BY <1>1
<1>3. inbox[m] \in [tx : Txs, seen : 0 .. now]
  <2> DEFINE R == [tx : Txs, seen : 0 .. now]
  <2>1. inbox \in Seq(R)
    BY <1>1
  <2> HIDE DEF R
  <2>2. inbox[m] \in R
    BY <1>2, <2>1
  <2> QED
    BY <2>2 DEF R
<1>4. inbox[m].seen \in 0 .. now /\ inbox[m].tx \in Txs
  BY <1>3
<1> QED
  BY <1>1, <1>2, <1>4 DEF Seen, Tx

LEMMA WhaleEventType ==
  ASSUME TypeOK, NEW kind \in Kinds, NEW label \in Labels, NEW msgs \in Seq(1 .. taken),
         Len(msgs) > 0
  PROVE  LET e == WhaleEvent(kind, label, msgs)
         IN  /\ e \in Event /\ e # NoEvent /\ Spans(e)
             /\ e.kind = kind /\ e.label = label /\ e.msgs = msgs
<1> DEFINE seen == {Seen(m) : m \in Members(msgs)}
           e == WhaleEvent(kind, label, msgs)
<1>1. Members(msgs) \subseteq 1 .. taken /\ msgs[1] \in Members(msgs)
  <2>1. 1 \in DOMAIN msgs
    OBVIOUS
  <2> QED
    BY <2>1, MembersOf DEF Members
<1>2. now \in Nat /\ taken \in Nat
  BY DEF TypeOK
<1>3. seen \in SUBSET Nat /\ seen # {} /\ \A n \in seen : n <= now
  BY <1>1, <1>2, SeenType
<1>4. Min(seen) \in 0 .. now /\ Max(seen) \in 0 .. now
      /\ \A n \in seen : Min(seen) <= n /\ n <= Max(seen)
  BY <1>2, <1>3, MinMax
<1>5. e = [kind |-> kind, label |-> label, msgs |-> msgs,
           start |-> Min(seen), end |-> Max(seen)]
  BY DEF WhaleEvent
<1> HIDE DEF e, seen
<1>6. e \in Event
  BY <1>4, <1>5 DEF Event
<1>7. e # NoEvent
  <2>1. e.kind = kind /\ kind # "none"
    BY <1>5 DEF Kinds
  <2> QED
    BY <2>1 DEF NoEvent
<1>8. Spans(e)
  <2>1. e.msgs = msgs /\ e.start = Min(seen) /\ e.end = Max(seen)
    BY <1>5
  <2>2. \A m \in Members(msgs) : Seen(m) \in seen
    BY DEF seen
  <2> QED
    BY <1>4, <2>1, <2>2 DEF Spans
<1> QED
  BY <1>5, <1>6, <1>7, <1>8 DEF e

LEMMA KeyType ==
  ASSUME NEW key \in Keys
  PROVE  /\ key = <<key[1], key[2]>> /\ key[1] \in Labels
         /\ key[2] \in {Deposit, Withdrawal} /\ Deposit # Withdrawal
  BY DEF Keys, Deposit, Withdrawal

LEMMA Thresholds ==
  /\ DepositWindow \in Nat /\ OutflowWindow \in Nat
  /\ DepositMinCount \in Nat \ {0} /\ OutflowMinCount \in Nat \ {0}
  BY EventEngineAssumption

(* A burst of a key: what it holds, or of its withdrawals those in their   *)
(* own window.                                                             *)
LEMMA BurstType ==
  ASSUME TypeOK, NEW key \in Keys, NEW held \in Seq(1 .. taken), NEW at \in 0 .. now,
         Burst(key, held, at) # NoEvent, Within(held, DepositWindow, at) = held
  PROVE  LET e == Burst(key, held, at)
         IN  /\ e \in Event /\ IsBurst(e) /\ KeyOf(e) = key /\ Spans(e)
             /\ Members(e.msgs) \subseteq Members(held)
             /\ \A m \in Members(held) :
                  m \in Members(e.msgs) \/ Seen(m) < at - WindowOf(key)
<1> DEFINE e == Burst(key, held, at)
           outflow == Within(held, OutflowWindow, at)
           deposits == WhaleEvent("WH_EXCHANGE_DEPOSIT_BURST", key[1], held)
           outflows == WhaleEvent("WH_EXCHANGE_BULK_OUTFLOW", key[1], outflow)
<1>1. /\ outflow \in Seq(1 .. taken)
      /\ Members(outflow) = {m \in Members(held) : Seen(m) >= at - OutflowWindow}
  BY WithinMembers
<1>2. \A m \in Members(held) : Seen(m) >= at - DepositWindow
  <2>1. Members(held) = {m \in Members(held) : Seen(m) >= at - DepositWindow}
    BY WithinMembers
  <2> QED
    BY <2>1
<1>3. \/ /\ key[2] = Deposit /\ Len(held) >= DepositMinCount
         /\ e = deposits
      \/ /\ key[2] = Withdrawal /\ Len(outflow) >= OutflowMinCount
         /\ e = outflows
  BY DEF Burst
<1>4. now \in Nat /\ \A m \in Members(held) : Seen(m) \in Nat
  <2>1. Members(held) \subseteq 1 .. taken
    BY MembersOf
  <2> QED
    BY <2>1, SeenType DEF TypeOK
<1> HIDE DEF e, outflow, deposits, outflows
<1>5. CASE key[2] = Deposit /\ Len(held) >= DepositMinCount /\ e = deposits
  <2>1. Len(held) > 0 /\ Len(held) \in Nat
    BY <1>5, Thresholds
  <2>2. "WH_EXCHANGE_DEPOSIT_BURST" \in Kinds
    BY DEF Kinds
  <2>3. /\ e \in Event /\ Spans(e) /\ e.msgs = held
        /\ e.kind = "WH_EXCHANGE_DEPOSIT_BURST" /\ e.label = key[1]
    BY <1>5, <2>1, <2>2, KeyType, WhaleEventType DEF deposits
  <2>4. IsBurst(e) /\ KeyOf(e) = key
    BY <1>5, <2>3, KeyType DEF IsBurst, KeyOf
  <2> QED
    BY <2>3, <2>4 DEF e
<1>6. CASE key[2] = Withdrawal /\ Len(outflow) >= OutflowMinCount /\ e = outflows
  <2>1. Len(outflow) > 0 /\ Len(outflow) \in Nat
    BY <1>1, <1>6, Thresholds
  <2>2. "WH_EXCHANGE_BULK_OUTFLOW" \in Kinds
    BY DEF Kinds
  <2>3. /\ e \in Event /\ Spans(e) /\ e.msgs = outflow
        /\ e.kind = "WH_EXCHANGE_BULK_OUTFLOW" /\ e.label = key[1]
    BY <1>1, <1>6, <2>1, <2>2, KeyType, WhaleEventType DEF outflows
  <2>4. IsBurst(e) /\ KeyOf(e) = key
    BY <1>6, <2>3, KeyType DEF IsBurst, KeyOf
  <2>5. ASSUME NEW m \in Members(held), m \notin Members(outflow)
        PROVE  Seen(m) < at - WindowOf(key)
    <3>1. Seen(m) < at - OutflowWindow /\ Seen(m) >= at - DepositWindow
      BY <1>1, <1>2, <1>4, <2>5, Thresholds
    <3>2. WindowOf(key) = OutflowWindow
      BY <1>4, <1>6, <3>1, KeyType, Thresholds DEF WindowOf
    <3> QED
      BY <3>1, <3>2
  <2> QED
    BY <1>1, <2>3, <2>4, <2>5 DEF e
<1> QED
  BY <1>3, <1>5, <1>6

(* The check for duplicates finds every event that shares a message.       *)
LEMMA NewIsDisjoint ==
  ASSUME TypeOK, SavedOk, NEW e \in Event, Spans(e), ~ Duplicate(e),
         NEW i \in DOMAIN saved, saved[i].kind = e.kind
  PROVE  Members(saved[i].msgs) \intersect Members(e.msgs) = {}
<1> SUFFICES ASSUME NEW m \in Members(saved[i].msgs), m \in Members(e.msgs)
             PROVE  FALSE
  OBVIOUS
<1>1. Spans(saved[i])
  BY DEF SavedOk
<1>2. saved[i].start <= Seen(m) /\ Seen(m) <= saved[i].end
  BY <1>1 DEF Spans
<1>3. e.start <= Seen(m) /\ Seen(m) <= e.end
  BY DEF Spans
<1>4. saved[i] \in Event
  <2>1. saved \in Seq(Event)
    BY DEF TypeOK
  <2> QED
    BY <2>1
<1>5. /\ saved[i].start \in Nat /\ saved[i].end \in Nat /\ e.start \in Nat /\ e.end \in Nat
      /\ e.msgs \in Seq(1 .. taken)
  BY <1>4 DEF TypeOK, Event
<1>6. Seen(m) \in Nat
  BY <1>5, MembersOf, SeenType
<1>7. saved[i].start <= e.end /\ saved[i].end >= e.start
  BY <1>2, <1>3, <1>5, <1>6
<1>8. Tx(m).txid \in Txids(saved[i].msgs) \intersect Txids(e.msgs)
  BY DEF Txids
<1> QED
  BY <1>7, <1>8 DEF Duplicate

-----------------------------------------------------------------------------
(* What steps leave as it was.  Messages stay what they are, though new    *)
(* ones follow.                                                            *)

BoxGrows == taken \in Nat /\ \A m \in 1 .. taken : inbox'[m] = inbox[m]

LEMMA MessagesKeep ==
  ASSUME BoxGrows, NEW msgs \in Seq(1 .. taken)
  PROVE  /\ \A m \in Members(msgs) : Tx(m)' = Tx(m) /\ Seen(m)' = Seen(m)
         /\ \A i \in DOMAIN msgs : Tx(msgs[i])' = Tx(msgs[i])
<1>1. \A m \in 1 .. taken : Tx(m)' = Tx(m) /\ Seen(m)' = Seen(m)
  BY DEF BoxGrows, Tx, Seen
<1>2. Members(msgs) \subseteq 1 .. taken
  BY MembersOf
<1>3. \A i \in DOMAIN msgs : msgs[i] \in Members(msgs)
  BY DEF Members
<1> QED
  BY <1>1, <1>2, <1>3

LEMMA OperatorsKeep ==
  ASSUME BoxGrows, NEW msgs \in Seq(1 .. taken)
  PROVE  /\ TotalBtc(msgs)' = TotalBtc(msgs) /\ Txids(msgs)' = Txids(msgs)
         /\ \A window, at : Within(msgs, window, at)' = Within(msgs, window, at)
         /\ \A kind, label : WhaleEvent(kind, label, msgs)' = WhaleEvent(kind, label, msgs)
<1>1. TotalBtc(msgs)' = TotalBtc(msgs)
  <2>1. [i \in DOMAIN msgs |-> Tx(msgs[i])'.btc] = [i \in DOMAIN msgs |-> Tx(msgs[i]).btc]
    BY MessagesKeep
  <2> QED
    BY <2>1 DEF TotalBtc
<1>2. Txids(msgs)' = Txids(msgs)
  BY MessagesKeep DEF Txids
<1>3. ASSUME NEW window, NEW at PROVE Within(msgs, window, at)' = Within(msgs, window, at)
  <2>1. {m \in Members(msgs) : Seen(m)' >= at - window}
          = {m \in Members(msgs) : Seen(m) >= at - window}
    BY MessagesKeep
  <2> QED
    BY <2>1 DEF Within
<1>4. ASSUME NEW kind, NEW label
      PROVE  WhaleEvent(kind, label, msgs)' = WhaleEvent(kind, label, msgs)
  <2>1. {Seen(m)' : m \in Members(msgs)} = {Seen(m) : m \in Members(msgs)}
    BY MessagesKeep
  <2> QED
    BY <2>1 DEF WhaleEvent
<1> QED
  BY <1>1, <1>2, <1>3, <1>4

LEMMA BurstKeeps ==
  ASSUME BoxGrows, NEW key, NEW held \in Seq(1 .. taken), NEW at
  PROVE  Burst(key, held, at)' = Burst(key, held, at)
<1>1. PICK outflow : outflow = Within(held, OutflowWindow, at)
  OBVIOUS
<1>2. outflow \in Seq(1 .. taken) /\ outflow = Within(held, OutflowWindow, at)'
  BY <1>1, WithinMembers, OperatorsKeep
<1>3. /\ TotalBtc(held)' = TotalBtc(held) /\ TotalBtc(outflow)' = TotalBtc(outflow)
      /\ WhaleEvent("WH_EXCHANGE_DEPOSIT_BURST", key[1], held)'
           = WhaleEvent("WH_EXCHANGE_DEPOSIT_BURST", key[1], held)
      /\ WhaleEvent("WH_EXCHANGE_BULK_OUTFLOW", key[1], outflow)'
           = WhaleEvent("WH_EXCHANGE_BULK_OUTFLOW", key[1], outflow)
  BY <1>2, OperatorsKeep
<1> QED
  BY <1>1, <1>2, <1>3 DEF Burst

LEMMA SavedIsEvent ==
  ASSUME TypeOK, NEW i \in DOMAIN saved
  PROVE  saved[i] \in Event /\ saved[i].msgs \in Seq(1 .. taken)
         /\ Members(saved[i].msgs) \subseteq 1 .. taken
<1>1. saved[i] \in Event
  <2>1. saved \in Seq(Event)
    BY DEF TypeOK
  <2> QED
    BY <2>1
<1>2. saved[i].msgs \in Seq(1 .. taken)
  BY <1>1 DEF Event
<1> QED
  BY <1>1, <1>2, MembersOf

SavedGrows(more) ==
  \/ saved' = saved
  \/ \E e \in more : saved' = Append(saved, e)

LEMMA SavedKeeps ==
  ASSUME TypeOK, NEW more, SavedGrows(more), more \subseteq Event
  PROVE  /\ DOMAIN saved \subseteq DOMAIN saved'
         /\ \A i \in DOMAIN saved : saved'[i] = saved[i]
         /\ \A i \in DOMAIN saved' : i \in DOMAIN saved \/ saved'[i] \in more
         /\ Members(saved) \subseteq Members(saved') /\ saved' \in Seq(Event)
<1>1. saved \in Seq(Event)
  BY DEF TypeOK
<1>2. CASE saved' = saved
  BY <1>1, <1>2
<1>3. ASSUME NEW e \in more, saved' = Append(saved, e) PROVE
         /\ DOMAIN saved \subseteq DOMAIN saved'
         /\ \A i \in DOMAIN saved : saved'[i] = saved[i]
         /\ \A i \in DOMAIN saved' : i \in DOMAIN saved \/ saved'[i] \in more
         /\ Members(saved) \subseteq Members(saved') /\ saved' \in Seq(Event)
  BY <1>1, <1>3, MembersAppended
<1> QED
  BY <1>2, <1>3 DEF SavedGrows

LEMMA DuplicateKeeps ==
  ASSUME TypeOK, BoxGrows, NEW more, SavedGrows(more), more \subseteq Event,
         NEW e \in Event
  PROVE  /\ Duplicate(e) => Duplicate(e)'
         /\ (\A x \in more : x.kind # e.kind) => (Duplicate(e)' => Duplicate(e))
<1>1. /\ DOMAIN saved \subseteq DOMAIN saved'
      /\ \A i \in DOMAIN saved : saved'[i] = saved[i]
      /\ \A i \in DOMAIN saved' : i \in DOMAIN saved \/ saved'[i] \in more
  BY SavedKeeps
<1>2. Txids(e.msgs)' = Txids(e.msgs)
  <2>1. e.msgs \in Seq(1 .. taken)
    BY DEF Event
  <2>2. PICK msgs : msgs = e.msgs
    OBVIOUS
  <2> QED
    BY <2>1, <2>2, OperatorsKeep
<1>3. ASSUME NEW i \in DOMAIN saved PROVE Txids(saved[i].msgs)' = Txids(saved[i].msgs)
  <2>1. PICK msgs : msgs = saved[i].msgs
    OBVIOUS
  <2>2. msgs \in Seq(1 .. taken) /\ msgs = saved'[i].msgs
    BY <1>1, <2>1, SavedIsEvent
  <2>3. Txids(msgs)' = Txids(msgs)
    BY <2>2, OperatorsKeep
  <2>4. Txids(saved[i].msgs)' = Txids(msgs)'
    BY <2>2 DEF Txids
  <2> QED
    BY <2>1, <2>3, <2>4
<1>4. ASSUME Duplicate(e) PROVE Duplicate(e)'
  <2>1. PICK i \in DOMAIN saved :
          /\ saved[i].kind = e.kind
          /\ saved[i].start <= e.end /\ saved[i].end >= e.start
          /\ Txids(saved[i].msgs) \intersect Txids(e.msgs) # {}
    BY <1>4 DEF Duplicate
  <2>2. i \in DOMAIN saved' /\ saved'[i] = saved[i]
    BY <1>1
  <2>3. (Txids(saved[i].msgs) \intersect Txids(e.msgs))' # {}
    BY <1>2, <1>3, <2>1
  <2> QED
    BY <2>1, <2>2, <2>3 DEF Duplicate
<1>5. ASSUME \A x \in more : x.kind # e.kind, Duplicate(e)' PROVE Duplicate(e)
  <2>1. PICK i \in DOMAIN saved' :
          /\ saved'[i].kind = e.kind
          /\ saved'[i].start <= e.end /\ saved'[i].end >= e.start
          /\ (Txids(saved[i].msgs) \intersect Txids(e.msgs))' # {}
    BY <1>5 DEF Duplicate
  <2>2. i \in DOMAIN saved /\ saved'[i] = saved[i]
    BY <1>1, <1>5, <2>1
  <2>3. Txids(saved[i].msgs) \intersect Txids(e.msgs) # {}
    BY <1>2, <1>3, <2>1, <2>2
  <2> QED
    BY <2>1, <2>2, <2>3 DEF Duplicate
<1> QED
  BY <1>4, <1>5

LEMMA BufferType ==
  ASSUME TypeOK, NEW key \in Keys PROVE buffer[key] \in Seq(1 .. taken)
  BY DEF TypeOK

(* A key that nobody touches stays settled.                                *)
LEMMA SettledKeeps ==
  ASSUME TypeOK, BoxGrows, NEW more, SavedGrows(more), more \subseteq Event,
         NEW key \in Keys, NEW at \in 0 .. now, Trimmed(key, at),
         buffer'[key] = buffer[key]
  PROVE  /\ Trimmed(key, at)'
         /\ Settled(key, at) => Settled(key, at)'
         /\ Burst(key, buffer[key], at)' = Burst(key, buffer[key], at)
<1>1. PICK held : held = buffer[key]
  OBVIOUS
<1>2. held \in Seq(1 .. taken) /\ held = buffer'[key]
  BY <1>1, BufferType
<1>3. Within(held, DepositWindow, at)' = Within(held, DepositWindow, at)
  BY <1>2, OperatorsKeep
<1>4. PICK e : e = Burst(key, held, at)
  OBVIOUS
<1>5. e = Burst(key, held, at)'
  BY <1>2, <1>4, BurstKeeps
<1>6. e # NoEvent => e \in Event
  BY <1>1, <1>2, <1>4, BurstType DEF Trimmed
<1>7. e # NoEvent /\ Duplicate(e) => Duplicate(e)'
  BY <1>6, DuplicateKeeps
<1> QED
  BY <1>1, <1>2, <1>3, <1>4, <1>5, <1>7 DEF Trimmed, Settled

-----------------------------------------------------------------------------
(* A scan of some of the keys, when the others are trimmed and settled.    *)

LEMMA ScanBuffer ==
  ASSUME TypeOK, NEW from, NEW keys \in SUBSET Keys, NEW at \in 0 .. now,
         ScanKeys(from, keys, at), inbox' = inbox,
         \A key \in Keys \ keys : Trimmed(key, at)
  PROVE  /\ buffer' \in [Keys -> Seq(1 .. taken)]
         /\ \A key \in Keys :
              /\ buffer'[key] = Within(buffer[key], DepositWindow, at)
              /\ Trimmed(key, at)'
<1>1. buffer' = [key \in Keys |-> IF key \in keys
                   THEN [k \in keys |-> Within(buffer[k], DepositWindow, at)][key]
                   ELSE buffer[key]]
  BY DEF ScanKeys
<1>2. ASSUME NEW key \in Keys PROVE buffer'[key] = Within(buffer[key], DepositWindow, at)
  <2>1. CASE key \in keys
    BY <1>1, <2>1
  <2>2. CASE key \notin keys
    <3>1. Within(buffer[key], DepositWindow, at) = buffer[key]
      BY <2>2 DEF Trimmed
    <3> QED
      BY <1>1, <2>2, <3>1
  <2> QED
    BY <2>1, <2>2
<1>3. ASSUME NEW key \in Keys
      PROVE  /\ Within(buffer[key], DepositWindow, at) \in Seq(1 .. taken)
             /\ Within(Within(buffer[key], DepositWindow, at), DepositWindow, at)
                  = Within(buffer[key], DepositWindow, at)
  BY BufferType, WithinMembers, WithinTwice
<1>4. ASSUME NEW key \in Keys PROVE Trimmed(key, at)'
  <2>1. PICK held : held = buffer'[key]
    OBVIOUS
  <2>2. held \in Seq(1 .. taken) /\ Within(held, DepositWindow, at) = held
    BY <1>2, <1>3, <2>1
  <2>3. Within(held, DepositWindow, at)' = held
    BY <2>2 DEF Within, Seen
  <2> QED
    BY <2>1, <2>3 DEF Trimmed
<1> QED
  BY <1>1, <1>2, <1>3, <1>4

LEMMA Scan ==
  ASSUME TypeOK, NEW from, NEW keys \in SUBSET Keys, NEW at \in 0 .. now,
         ScanKeys(from, keys, at), UNCHANGED <<inbox, saved>>,
         \A key \in Keys \ keys : Trimmed(key, at) /\ Settled(key, at)
  PROVE  \/ /\ pc' = [pc EXCEPT !["checker"] = Resting]
            /\ event' = [event EXCEPT !["checker"] = NoEvent]
            /\ todo' = {} /\ checkedAt' = 0
            /\ \A key \in Keys : Settled(key, at)'
         \/ \E key \in Keys, e \in Event :
            /\ pc' = [pc EXCEPT !["checker"] = "duplicate"]
            /\ event' = [event EXCEPT !["checker"] = e]
            /\ todo' \subseteq Keys /\ checkedAt' = at
            /\ e = Burst(key, buffer[key], at)' /\ e # NoEvent /\ KeyOf(e) = key
            /\ \A k \in Keys : k \in todo' \/ k = key \/ Settled(k, at)'
<1> DEFINE recent == [key \in keys |-> Within(buffer[key], DepositWindow, at)]
           bursts == {key \in keys : Burst(key, recent[key], at) # NoEvent}
<1>1. \A key \in Keys : /\ buffer'[key] = Within(buffer[key], DepositWindow, at)
                        /\ buffer'[key] \in Seq(1 .. taken)
  BY ScanBuffer
<1>2. BoxGrows
  BY DEF BoxGrows, TypeOK
<1>3. ASSUME NEW key \in keys
      PROVE  /\ recent[key] = buffer'[key]
             /\ Burst(key, buffer[key], at)' = Burst(key, recent[key], at)
  <2>1. PICK held : held = buffer'[key]
    OBVIOUS
  <2>2. held = recent[key] /\ held \in Seq(1 .. taken)
    BY <1>1, <2>1
  <2>3. Burst(key, held, at)' = Burst(key, held, at)
    BY <1>2, <2>2, BurstKeeps
  <2> QED
    BY <2>1, <2>2, <2>3
<1>4. ASSUME NEW key \in Keys \ keys PROVE Settled(key, at)'
  <2>1. buffer'[key] = buffer[key]
    BY <1>1 DEF Trimmed
  <2>2. SavedGrows({}) /\ {} \subseteq Event
    BY DEF SavedGrows
  <2> QED
    BY <1>2, <2>1, <2>2, SettledKeeps
<1>5. ASSUME NEW key \in keys, key \notin bursts PROVE Settled(key, at)'
  BY <1>3, <1>5 DEF Settled
<1>6. \/ /\ bursts = {}
         /\ pc' = [pc EXCEPT !["checker"] = Resting]
         /\ event' = [event EXCEPT !["checker"] = NoEvent]
         /\ todo' = {} /\ checkedAt' = 0
      \/ \E key \in bursts :
         /\ pc' = [pc EXCEPT !["checker"] = "duplicate"]
         /\ event' = [event EXCEPT !["checker"] = Burst(key, recent[key], at)]
         /\ todo' = bursts \ {key} /\ checkedAt' = at
  BY DEF ScanKeys, Move
<1> HIDE DEF recent, bursts
<1>7. bursts \subseteq keys /\ \A key \in bursts : Burst(key, recent[key], at) # NoEvent
  BY DEF bursts
<1>8. ASSUME NEW key \in bursts
      PROVE  /\ Burst(key, recent[key], at) \in Event
             /\ KeyOf(Burst(key, recent[key], at)) = key
  <2>1. key \in keys /\ key \in Keys
    BY <1>7
  <2>2. recent[key] \in Seq(1 .. taken)
    BY <1>1, <1>3, <2>1
  <2>3. Within(recent[key], DepositWindow, at) = recent[key]
    BY <2>1, BufferType, WithinTwice DEF recent
  <2> QED
    BY <1>7, <2>1, <2>2, <2>3, BurstType
<1>9. CASE /\ bursts = {}
           /\ pc' = [pc EXCEPT !["checker"] = Resting]
           /\ event' = [event EXCEPT !["checker"] = NoEvent]
           /\ todo' = {} /\ checkedAt' = 0
  BY <1>4, <1>5, <1>9
<1>10. ASSUME NEW key \in bursts,
              pc' = [pc EXCEPT !["checker"] = "duplicate"],
              event' = [event EXCEPT !["checker"] = Burst(key, recent[key], at)],
              todo' = bursts \ {key}, checkedAt' = at
       PROVE  \E k \in Keys, e \in Event :
                /\ pc' = [pc EXCEPT !["checker"] = "duplicate"]
                /\ event' = [event EXCEPT !["checker"] = e]
                /\ todo' \subseteq Keys /\ checkedAt' = at
                /\ e = Burst(k, buffer[k], at)' /\ e # NoEvent /\ KeyOf(e) = k
                /\ \A other \in Keys : other \in todo' \/ other = k \/ Settled(other, at)'
  <2>1. PICK e : e = Burst(key, recent[key], at)
    OBVIOUS
  <2>2. key \in Keys /\ key \in keys /\ e \in Event /\ KeyOf(e) = key /\ e # NoEvent
    BY <1>7, <1>8, <2>1
  <2>3. e = Burst(key, buffer[key], at)'
    BY <1>3, <2>1, <2>2
  <2>4. \A other \in Keys : other \in todo' \/ other = key \/ Settled(other, at)'
    BY <1>4, <1>5, <1>10
  <2>5. todo' \subseteq Keys
    BY <1>7, <1>10
  <2> QED
    BY <1>10, <2>1, <2>2, <2>3, <2>4, <2>5
<1> QED
  BY <1>6, <1>9, <1>10

-----------------------------------------------------------------------------
(* The parts of the invariant, over steps that do not disturb them.        *)

LEMMA SeqGrows ==
  ASSUME NEW A, NEW B, A \subseteq B, NEW s \in Seq(A) PROVE s \in Seq(B)
  OBVIOUS


LEMMA TypeKeeps ==
  ASSUME TypeOK, now' \in Nat, now <= now', taken <= taken',
         inbox' \in Seq([tx : Txs, seen : 0 .. now']), taken' \in 0 .. Len(inbox'),
         pc' \in [Tasks -> {Resting, "buffer", "duplicate", "save", "publish", "commit"}],
         event' \in [Tasks -> Event \union Event' \union {NoEvent}],
         buffer' \in [Keys -> Seq(1 .. taken)],
         todo' \subseteq Keys, checkedAt' \in 0 .. now',
         saved' \in Seq(Event), announced' \in Seq(Event),
         added' \subseteq Keys \X (1 .. taken), dropped' \subseteq Keys \X (1 .. taken)
  PROVE  TypeOK'
<1>1. now \in Nat /\ taken \in Nat /\ taken' \in Nat
  BY DEF TypeOK
<1>2. 1 .. taken \subseteq 1 .. taken' /\ 0 .. now \subseteq 0 .. now'
  BY <1>1
<1>3. Seq(1 .. taken) \subseteq Seq(1 .. taken')
  BY <1>2, SeqGrows
<1>4. Event \subseteq Event'
  BY <1>2, <1>3 DEF Event
<1>5. Seq(Event) \subseteq Seq(Event')
  BY <1>4, SeqGrows
<1>6. event' \in [Tasks -> Event' \union {NoEvent}]
  <2>1. Event \union Event' \union {NoEvent} = Event' \union {NoEvent}
    BY <1>4
  <2> QED
    BY <2>1
<1>7. buffer' \in [Keys -> Seq(1 .. taken')]
  BY <1>3
<1>8. /\ added' \subseteq Keys \X (1 .. taken')
      /\ dropped' \subseteq Keys \X (1 .. taken')
  BY <1>2
<1>9. saved' \in Seq(Event') /\ announced' \in Seq(Event')
  BY <1>5
<1> HIDE DEF Event
<1> QED
  BY <1>6, <1>7, <1>8, <1>9 DEF TypeOK

(* Steps of the consumer and of others, while the checker waits.           *)
LEMMA CheckerKeeps ==
  ASSUME TypeOK, CheckerOk, BoxGrows, NEW more, SavedGrows(more), more \subseteq Event,
         \A e \in more : ~ IsBurst(e),
         pc'["checker"] = pc["checker"], event'["checker"] = event["checker"],
         UNCHANGED <<buffer, todo, checkedAt>>
  PROVE  CheckerOk'
<1>1. PICK at, e : at = checkedAt /\ e = event["checker"]
  OBVIOUS
<1>2. at \in 0 .. now /\ at = checkedAt' /\ e = event'["checker"]
  BY <1>1 DEF TypeOK
<1>3. ASSUME pc["checker"] # Resting, NEW key \in Keys
      PROVE  /\ Trimmed(key, checkedAt)'
             /\ \/ key \in todo' \/ Settled(key, checkedAt)'
                \/ pc'["checker"] # "commit" /\ key = KeyOf(event["checker"])'
  <2>1. /\ Trimmed(key, at)
        /\ \/ key \in todo \/ Settled(key, at)
           \/ pc["checker"] # "commit" /\ key = KeyOf(e)
    BY <1>1, <1>3 DEF CheckerOk
  <2>2. Trimmed(key, at)' /\ (Settled(key, at) => Settled(key, at)')
    BY <1>2, <2>1, SettledKeeps
  <2>3. KeyOf(event["checker"])' = KeyOf(e)
    BY <1>2 DEF KeyOf
  <2>4. Trimmed(key, checkedAt)' /\ (Settled(key, at) => Settled(key, checkedAt)')
    BY <1>2, <2>2 DEF Trimmed, Settled
  <2> QED
    BY <2>1, <2>3, <2>4
<1>4. ASSUME pc["checker"] \in {"duplicate", "save", "publish"}
      PROVE  /\ e \in Event /\ IsBurst(e)
             /\ \E key \in Keys : IsBurstOf(event["checker"], key, checkedAt)'
  <2>1. PICK key \in Keys : e # NoEvent /\ e = Burst(key, buffer[key], at)
    BY <1>1, <1>4 DEF CheckerOk, IsBurstOf
  <2>2. Trimmed(key, at)
    BY <1>1, <1>4 DEF CheckerOk, Resting
  <2>3. Burst(key, buffer[key], at)' = e
    BY <1>2, <2>1, <2>2, SettledKeeps
  <2>4. IsBurstOf(e, key, at)'
    BY <2>1, <2>3 DEF IsBurstOf
  <2>5. IsBurstOf(event["checker"], key, checkedAt)'
    BY <1>2, <2>4 DEF IsBurstOf
  <2>6. e \in Event /\ IsBurst(e)
    BY <1>2, <2>1, <2>2, BufferType, BurstType DEF Trimmed
  <2> QED
    BY <2>5, <2>6
<1>5. ASSUME pc["checker"] = "save" PROVE ~ Duplicate(event["checker"])'
  <2>1. e \in Event /\ IsBurst(e)
    BY <1>4, <1>5
  <2>2. \A x \in more : x.kind # e.kind
    BY <2>1 DEF IsBurst
  <2>3. ~ Duplicate(e)
    BY <1>1, <1>5 DEF CheckerOk
  <2>4. ~ Duplicate(e)'
    BY <2>1, <2>2, <2>3, DuplicateKeeps
  <2> QED
    BY <1>2, <2>4 DEF Duplicate
<1> QED
  BY <1>3, <1>4, <1>5 DEF CheckerOk

LEMMA SpansKeep ==
  ASSUME BoxGrows, NEW e, e.msgs \in Seq(1 .. taken), Spans(e)
  PROVE  Spans(e)'
<1>1. PICK msgs : msgs = e.msgs
  OBVIOUS
<1>2. msgs \in Seq(1 .. taken)
  BY <1>1
<1>3. \A m \in Members(msgs) : Seen(m)' = Seen(m)
  BY <1>2, MessagesKeep
<1> QED
  BY <1>1, <1>3 DEF Spans

LEMMA SavedSpanKeeps ==
  ASSUME TypeOK, SavedOk, BoxGrows, NEW more, SavedGrows(more), more \subseteq Event,
         \A e \in more : Spans(e)
  PROVE  \A i \in DOMAIN saved' : Spans(saved[i])'
<1> SUFFICES ASSUME NEW i \in DOMAIN saved' PROVE Spans(saved[i])'
  OBVIOUS
<1>1. PICK e : e = saved'[i]
  OBVIOUS
<1>2. e \in Event /\ Spans(e)
  BY <1>1, SavedKeeps, SavedIsEvent DEF SavedOk
<1>3. e.msgs \in Seq(1 .. taken)
  BY <1>2 DEF Event
<1>4. Spans(e)'
  BY <1>2, <1>3, SpansKeep
<1> QED
  BY <1>1, <1>4 DEF Spans

(* An event that shares no message with the others of its kind may be      *)
(* saved; so may one that is not a burst.                                  *)
LEMMA DisjointKeeps ==
  ASSUME TypeOK, BurstsDisjoint, NEW more, SavedGrows(more), more \subseteq Event,
         \A e \in more : IsBurst(e) =>
           \A i \in DOMAIN saved : saved[i].kind = e.kind =>
             Members(saved[i].msgs) \intersect Members(e.msgs) = {}
  PROVE  BurstsDisjoint'
<1>1. CASE saved' = saved
  BY <1>1 DEF BurstsDisjoint, IsBurst
<1>2. ASSUME NEW e \in more, saved' = Append(saved, e) PROVE BurstsDisjoint'
  <2>1. saved \in Seq(Event)
    BY DEF TypeOK
  <2>2. /\ \A i \in DOMAIN saved : saved'[i] = saved[i]
        /\ \A i \in DOMAIN saved' :
             i \in DOMAIN saved \/ (i = Len(saved) + 1 /\ saved'[i] = e)
    BY <1>2, <2>1, MembersAppended
  <2>3. ASSUME NEW i \in DOMAIN saved', NEW j \in DOMAIN saved', i # j,
               IsBurst(saved'[i]), saved'[i].kind = saved'[j].kind
        PROVE  Members(saved'[i].msgs) \intersect Members(saved'[j].msgs) = {}
    <3>1. CASE i \in DOMAIN saved /\ j \in DOMAIN saved
      BY <2>2, <2>3, <3>1 DEF BurstsDisjoint
    <3>2. CASE i \in DOMAIN saved /\ saved'[j] = e
      BY <2>2, <2>3, <3>2 DEF IsBurst
    <3>3. CASE j \in DOMAIN saved /\ saved'[i] = e
      BY <2>2, <2>3, <3>3 DEF IsBurst
    <3> QED
      BY <2>2, <2>3, <3>1, <3>2, <3>3
  <2> QED
    BY <2>3 DEF BurstsDisjoint, IsBurst
<1> QED
  BY <1>1, <1>2 DEF SavedGrows

LEMMA AccountedKeeps ==
  ASSUME TypeOK, BoxGrows, NEW more, SavedGrows(more), more \subseteq Event,
         now' \in Nat, now <= now', dropped \subseteq dropped',
         NEW key \in Keys, NEW m \in 1 .. taken, Accounted(key, m),
         m \in Members(buffer[key]) => Accounted(key, m)'
  PROVE  Accounted(key, m)'
<1>1. CASE m \in Members(buffer[key])
  BY <1>1
<1>2. CASE Seen(m) < now - WindowOf(key)
  <2>1. Seen(m)' = Seen(m) /\ Seen(m) \in Nat /\ now \in Nat
    BY SeenType DEF BoxGrows, Seen, TypeOK
  <2>2. WindowOf(key) \in Nat
    BY Thresholds DEF WindowOf
  <2>3. Seen(m)' < now' - WindowOf(key)
    BY <1>2, <2>1, <2>2
  <2> QED
    BY <2>3 DEF Accounted
<1>3. ASSUME NEW i \in DOMAIN saved,
             IsBurst(saved[i]), KeyOf(saved[i]) = key, m \in Members(saved[i].msgs)
      PROVE  Accounted(key, m)'
  <2>1. i \in DOMAIN saved' /\ saved'[i] = saved[i]
    BY SavedKeeps
  <2> QED
    BY <1>3, <2>1 DEF Accounted, IsBurst, KeyOf
<1>4. CASE <<key, m>> \in dropped
  BY <1>4 DEF Accounted
<1> QED
  BY <1>1, <1>2, <1>3, <1>4 DEF Accounted

-----------------------------------------------------------------------------
(* Each step preserves the invariant.                                      *)

LEMMA InitIInv == Init => IInv
<1> SUFFICES ASSUME Init PROVE IInv
  OBVIOUS
<1>1. \A T : << >> \in Seq(T)
  OBVIOUS
<1>2. TypeOK
  BY <1>1 DEF Init, TypeOK, EmptyBuffer
<1>3. /\ \A t \in Tasks : pc[t] = Resting
      /\ saved = << >> /\ announced = << >> /\ added = {}
  BY DEF Init
<1>4. CheckerOk /\ ConsumerOk /\ SavedOk
  BY <1>3 DEF CheckerOk, ConsumerOk, SavedOk, Tasks, Resting
<1>5. AnnouncedWereSaved /\ BurstsDisjoint /\ BufferedAreAccounted
  BY <1>3 DEF AnnouncedWereSaved, BurstsDisjoint, BufferedAreAccounted, Members
<1> QED
  BY <1>2, <1>4, <1>5 DEF IInv

(* Steps that save nothing and touch neither the buffer nor the checker.   *)
LEMMA Beside ==
  ASSUME IInv, TypeOK', BoxGrows, now' \in Nat, now <= now',
         pc'["checker"] = pc["checker"], event'["checker"] = event["checker"],
         UNCHANGED <<buffer, todo, checkedAt, saved, announced, added, dropped>>
  PROVE  /\ CheckerOk' /\ AnnouncedWereSaved' /\ BurstsDisjoint' /\ BufferedAreAccounted'
         /\ \A i \in DOMAIN saved' : Spans(saved[i])'
<1>1. SavedGrows({}) /\ {} \subseteq Event
  BY DEF SavedGrows
<1>2. CheckerOk'
  BY <1>1, CheckerKeeps DEF IInv
<1>3. AnnouncedWereSaved'
  BY DEF IInv, AnnouncedWereSaved
<1>4. BurstsDisjoint'
  BY <1>1, DisjointKeeps DEF IInv
<1>5. \A i \in DOMAIN saved' : Spans(saved[i])'
  BY <1>1, SavedSpanKeeps DEF IInv
<1>6. BufferedAreAccounted'
  <2> SUFFICES ASSUME NEW entry \in added' PROVE Accounted(entry[1], entry[2])'
    BY DEF BufferedAreAccounted
  <2>1. PICK key, m : key = entry[1] /\ m = entry[2]
    OBVIOUS
  <2>2. key \in Keys /\ m \in 1 .. taken /\ Accounted(key, m)
    BY <2>1 DEF IInv, TypeOK, BufferedAreAccounted
  <2>3. m \in Members(buffer[key]) => Accounted(key, m)'
    BY DEF Accounted
  <2>4. Accounted(key, m)'
    BY <1>1, <2>2, <2>3, AccountedKeeps DEF IInv
  <2> QED
    BY <2>1, <2>4 DEF Accounted
<1> QED
  BY <1>2, <1>3, <1>4, <1>5, <1>6

LEMMA TickPreserves ==
  ASSUME IInv, Tick PROVE IInv'
<1>1. /\ now' = now + 1 /\ UNCHANGED <<inbox, taken, pc, event, buffer, todo, checkedAt,
                                       saved, announced, added, dropped>>
  BY DEF Tick, consumerVars, checkVars, eventVars
<1>2. BoxGrows /\ now \in Nat /\ now' \in Nat /\ now <= now' /\ taken <= taken'
  BY <1>1 DEF IInv, TypeOK, BoxGrows
<1>3. TypeOK'
  <2>1. [tx : Txs, seen : 0 .. now] \subseteq [tx : Txs, seen : 0 .. now']
    BY <1>2
  <2>2. inbox' \in Seq([tx : Txs, seen : 0 .. now'])
    <3>1. inbox \in Seq([tx : Txs, seen : 0 .. now]) /\ inbox' = inbox
      BY <1>1 DEF IInv, TypeOK
    <3> QED
      BY <2>1, <3>1, SeqGrows
  <2>3. checkedAt' \in 0 .. now'
    BY <1>1, <1>2 DEF IInv, TypeOK
  <2> QED
    BY <1>1, <1>2, <2>2, <2>3, TypeKeeps DEF IInv, TypeOK
<1>4. /\ CheckerOk' /\ AnnouncedWereSaved' /\ BurstsDisjoint' /\ BufferedAreAccounted'
      /\ \A i \in DOMAIN saved' : Spans(saved[i])'
  BY <1>1, <1>2, <1>3, Beside
<1>5. ConsumerOk' /\ SavedOk'
  BY <1>1, <1>4 DEF IInv, ConsumerOk, SavedOk, Spans, Seen, IsBurst
<1> QED
  BY <1>3, <1>4, <1>5 DEF IInv

LEMMA ArrivePreserves ==
  ASSUME IInv, NEW tx \in Txs, Arrive(tx) PROVE IInv'
<1>1. /\ inbox' = Append(inbox, [tx |-> tx, seen |-> now])
      /\ UNCHANGED <<now, taken, pc, event, buffer, todo, checkedAt,
                     saved, announced, added, dropped>>
  BY DEF Arrive, consumerVars, checkVars, eventVars
<1>2. now \in Nat /\ now' \in Nat /\ now <= now' /\ taken \in Nat /\ taken <= taken'
  BY <1>1 DEF IInv, TypeOK
<1>3. /\ inbox' \in Seq([tx : Txs, seen : 0 .. now]) /\ taken' \in 0 .. Len(inbox')
      /\ \A m \in 1 .. taken : inbox'[m] = inbox[m]
  <2> DEFINE R == [tx : Txs, seen : 0 .. now]
  <2>1. [tx |-> tx, seen |-> now] \in R
    BY <1>2
  <2>2. inbox \in Seq(R) /\ taken \in 0 .. Len(inbox)
    BY DEF IInv, TypeOK
  <2> HIDE DEF R
  <2>3. /\ inbox' \in Seq(R) /\ Len(inbox') = Len(inbox) + 1 /\ Len(inbox) \in Nat
        /\ \A m \in 1 .. Len(inbox) : inbox'[m] = inbox[m]
    BY <1>1, <2>1, <2>2
  <2> QED
    BY <1>1, <1>2, <2>2, <2>3 DEF R
<1>4. BoxGrows
  BY <1>2, <1>3 DEF BoxGrows
<1>5. TypeOK'
  BY <1>1, <1>2, <1>3, TypeKeeps DEF IInv, TypeOK
<1>6. /\ CheckerOk' /\ AnnouncedWereSaved' /\ BurstsDisjoint' /\ BufferedAreAccounted'
      /\ \A i \in DOMAIN saved' : Spans(saved[i])'
  BY <1>1, <1>2, <1>4, <1>5, Beside
<1>7. SavedOk'
  BY <1>1, <1>6 DEF IInv, SavedOk
<1>8. ConsumerOk'
  <2>1. ASSUME pc["consumer"] \in {"save", "publish"} PROVE Spans(event["consumer"])'
    <3>1. PICK e : e = event["consumer"]
      OBVIOUS
    <3>2. e \in Event /\ Spans(e)
      BY <2>1, <3>1 DEF IInv, TypeOK, ConsumerOk, Tasks
    <3>3. e.msgs \in Seq(1 .. taken)
      BY <3>2 DEF Event
    <3>4. Spans(e)'
      BY <1>4, <3>2, <3>3, SpansKeep
    <3> QED
      BY <1>1, <3>1, <3>4 DEF Spans
  <2> QED
    BY <1>1, <2>1 DEF IInv, ConsumerOk, IsBurst
<1> QED
  BY <1>5, <1>6, <1>7, <1>8 DEF IInv

LEMMA TakePreserves ==
  ASSUME IInv, Take PROVE IInv'
<1> USE DEF Tasks
<1>1. PICK m \in taken + 1 .. Len(inbox) :
        /\ taken' = m /\ pc["consumer"] = Resting
        /\ pc' = [pc EXCEPT !["consumer"] =
                    IF SingleKind(Tx(m)) = "none" THEN "buffer" ELSE "save"]
        /\ event' = [event EXCEPT !["consumer"] =
                       IF SingleKind(Tx(m)) = "none" THEN NoEvent
                       ELSE WhaleEvent(SingleKind(Tx(m)), "Unknown", <<m>>)]
        /\ UNCHANGED <<now, inbox, buffer, todo, checkedAt, saved, announced,
                       added, dropped>>
  BY DEF Take, Move, checkVars, eventVars
<1>2. /\ now \in Nat /\ now' \in Nat /\ now <= now' /\ taken \in Nat /\ taken <= taken'
      /\ taken' \in 0 .. Len(inbox') /\ m \in 1 .. taken' /\ BoxGrows
  BY <1>1 DEF IInv, TypeOK, BoxGrows
<1> DEFINE kind == SingleKind(Tx(m))
           e == WhaleEvent(kind, "Unknown", <<m>>)
<1>3. kind # "none" =>
        kind \in {"WH_EXCHANGE_SINGLE_DEPOSIT", "WH_EXCHANGE_SINGLE_WITHDRAWAL",
                  "WH_OTC_LARGE_MOVE"}
  BY DEF SingleKind
<1> HIDE DEF kind
<1>4. ASSUME kind # "none"
      PROVE  e \in Event' /\ e # NoEvent /\ ~ IsBurst(e) /\ Spans(e)
  <2>1. Seen(m) \in 0 .. now
    <3> DEFINE R == [tx : Txs, seen : 0 .. now]
    <3>1. inbox \in Seq(R) /\ m \in 1 .. Len(inbox)
      BY <1>1, <1>2 DEF IInv, TypeOK
    <3> HIDE DEF R
    <3>2. inbox[m] \in R
      BY <3>1
    <3> QED
      BY <3>2 DEF R, Seen
  <2>2. Members(<<m>>) = {m}
    BY DEF Members
  <2>3. {Seen(k) : k \in Members(<<m>>)} = {Seen(m)}
    BY <2>2
  <2>4. Min({Seen(m)}) = Seen(m) /\ Max({Seen(m)}) = Seen(m)
    <3>1. {Seen(m)} \in SUBSET Nat /\ {Seen(m)} # {} /\ now \in Nat
          /\ \A n \in {Seen(m)} : n <= now
      BY <1>2, <2>1
    <3>2. /\ Min({Seen(m)}) \in {Seen(m)}
          /\ Max({Seen(m)}) \in {Seen(m)}
      BY <2>1 DEF Min, Max
    <3> QED
      BY <3>2
  <2>5. e = [kind |-> kind, label |-> "Unknown", msgs |-> <<m>>,
             start |-> Seen(m), end |-> Seen(m)]
    BY <2>3, <2>4 DEF WhaleEvent
  <2> HIDE DEF e
  <2>6. <<m>> \in Seq(1 .. taken')
    BY <1>2
  <2>7. e \in Event'
    BY <1>1, <1>3, <1>4, <2>1, <2>5, <2>6, EventEngineAssumption DEF Event, Kinds
  <2>8. e # NoEvent /\ ~ IsBurst(e)
    <3>1. e.kind = kind
      BY <2>5
    <3> QED
      BY <1>3, <1>4, <3>1 DEF IsBurst, NoEvent
  <2>9. Spans(e)
    BY <2>1, <2>2, <2>5 DEF Spans
  <2> QED
    BY <2>7, <2>8, <2>9
<1>5. PICK x : /\ x = IF kind = "none" THEN NoEvent ELSE e
               /\ event' = [event EXCEPT !["consumer"] = x]
  BY <1>1 DEF kind
<1> HIDE DEF e
<1>6. pc' = [pc EXCEPT !["consumer"] = IF kind = "none" THEN "buffer" ELSE "save"]
  BY <1>1 DEF kind
<1>7. TypeOK'
  <2>1. x \in Event' \union {NoEvent}
    BY <1>4, <1>5
  <2>2. event' \in [Tasks -> Event \union Event' \union {NoEvent}]
    BY <1>5, <2>1 DEF IInv, TypeOK
  <2>3. pc' \in [Tasks -> {Resting, "buffer", "duplicate", "save", "publish", "commit"}]
    BY <1>6 DEF IInv, TypeOK
  <2> QED
    BY <1>1, <1>2, <2>2, <2>3, TypeKeeps DEF IInv, TypeOK
<1>8. /\ pc'["checker"] = pc["checker"] /\ event'["checker"] = event["checker"]
      /\ event'["consumer"] = x /\ pc'["consumer"] = IF kind = "none" THEN "buffer" ELSE "save"
  BY <1>5, <1>6 DEF IInv, TypeOK
<1>9. /\ CheckerOk' /\ AnnouncedWereSaved' /\ BurstsDisjoint' /\ BufferedAreAccounted'
      /\ \A i \in DOMAIN saved' : Spans(saved[i])'
  BY <1>1, <1>2, <1>7, <1>8, Beside
<1>10. SavedOk'
  BY <1>1, <1>8, <1>9 DEF IInv, SavedOk
<1>11. ConsumerOk'
  <2>1. kind # "none" => x # NoEvent /\ ~ IsBurst(x) /\ Spans(x)
    BY <1>4, <1>5
  <2>2. Spans(x) => Spans(x)'
    BY <1>1 DEF Spans, Seen
  <2>3. pc'["consumer"] \in {"save", "publish"} => kind # "none"
    BY <1>8
  <2>4. pc'["consumer"] \notin {"duplicate", "commit"} /\ taken' > 0
    BY <1>1, <1>2, <1>8
  <2> QED
    BY <1>8, <2>1, <2>2, <2>3, <2>4 DEF ConsumerOk, IsBurst, Spans
<1> QED
  BY <1>7, <1>9, <1>10, <1>11 DEF IInv

LEMMA SavedPartKeeps ==
  ASSUME IInv, BoxGrows, UNCHANGED <<saved, announced>>
  PROVE  /\ AnnouncedWereSaved' /\ BurstsDisjoint'
         /\ \A i \in DOMAIN saved' : Spans(saved[i])'
<1>1. SavedGrows({}) /\ {} \subseteq Event
  BY DEF SavedGrows
<1>2. AnnouncedWereSaved'
  BY DEF IInv, AnnouncedWereSaved
<1>3. BurstsDisjoint'
  BY <1>1, DisjointKeeps DEF IInv
<1>4. \A i \in DOMAIN saved' : Spans(saved[i])'
  BY <1>1, SavedSpanKeeps DEF IInv
<1> QED
  BY <1>2, <1>3, <1>4

LEMMA AllAccounted ==
  ASSUME IInv, BoxGrows, NEW more, SavedGrows(more), more \subseteq Event,
         UNCHANGED now, dropped \subseteq dropped',
         \A entry \in added' \ added : Accounted(entry[1], entry[2])',
         \A key \in Keys, m \in 1 .. taken :
           m \in Members(buffer[key]) => Accounted(key, m)'
  PROVE  BufferedAreAccounted'
<1> SUFFICES ASSUME NEW entry \in added' PROVE Accounted(entry[1], entry[2])'
  BY DEF BufferedAreAccounted
<1>1. CASE entry \notin added
  BY <1>1
<1>2. CASE entry \in added
  <2>1. PICK key, m : key = entry[1] /\ m = entry[2]
    OBVIOUS
  <2>2. key \in Keys /\ m \in 1 .. taken /\ Accounted(key, m)
    BY <1>2, <2>1 DEF IInv, TypeOK, BufferedAreAccounted
  <2>3. now' \in Nat /\ now <= now'
    BY DEF IInv, TypeOK
  <2>4. Accounted(key, m)'
    BY <2>2, <2>3, AccountedKeeps DEF IInv
  <2> QED
    BY <2>1, <2>4 DEF Accounted
<1> QED
  BY <1>1, <1>2

(* Nothing changes for the messages that are still buffered.               *)
LEMMA StillBuffered ==
  ASSUME \A key \in Keys : Members(buffer[key]) \subseteq Members(buffer'[key])
  PROVE  \A key \in Keys, m \in 1 .. taken :
           m \in Members(buffer[key]) => Accounted(key, m)'
  BY DEF Accounted

LEMMA CopiesType ==
  ASSUME NEW tx \in Txs, NEW key \in Keys PROVE Copies(tx, key) \in Nat
<1> DEFINE S == {i \in DOMAIN tx.outputs : tx.outputs[i].label = key[1]}
<1>1. tx.outputs \in Seq([label : Labels, exchange : BOOLEAN])
  BY EventEngineAssumption
<1>2. DOMAIN tx.outputs = 1 .. Len(tx.outputs) /\ Len(tx.outputs) \in Nat
  BY <1>1
<1>3. IsFiniteSet(1 .. Len(tx.outputs))
  BY <1>2, FS_Interval
<1>4. S \in SUBSET (1 .. Len(tx.outputs))
  BY <1>2
<1>5. Cardinality(S) \in Nat
  BY <1>3, <1>4, FS_Subset, FS_CardinalityType
<1> QED
  BY <1>5 DEF Copies

LEMMA AddToBufferPreserves ==
  ASSUME IInv, AddToBuffer PROVE IInv'
<1> DEFINE copies(key) == [i \in 1 .. Copies(Tx(taken), key) |-> taken]
<1>1. /\ pc["checker"] = Resting /\ pc["consumer"] = "buffer"
      /\ pc' = [pc EXCEPT !["consumer"] = Resting]
      /\ buffer' = [key \in Keys |-> buffer[key] \o copies(key)]
      /\ added' = added \union {<<key, taken>> : key \in {k \in Keys : Copies(Tx(taken), k) > 0}}
      /\ UNCHANGED <<now, inbox, taken, event, todo, checkedAt, saved, announced, dropped>>
  BY DEF AddToBuffer, Move, LockFree, consumerVars, checkVars, eventVars
<1>2. taken \in 1 .. taken /\ BoxGrows
  BY <1>1 DEF IInv, TypeOK, ConsumerOk, BoxGrows, Resting
<1>3. Tx(taken) \in Txs
  BY <1>2, SeenType DEF IInv
<1>4. ASSUME NEW key \in Keys
      PROVE  /\ buffer'[key] \in Seq(1 .. taken)
             /\ Members(buffer[key]) \subseteq Members(buffer'[key])
             /\ Copies(Tx(taken), key) > 0 => taken \in Members(buffer'[key])
  <2>1. PICK n \in Nat : n = Copies(Tx(taken), key)
    BY <1>3, CopiesType
  <2>2. copies(key) = [i \in 1 .. n |-> taken]
    BY <2>1
  <2> HIDE DEF copies
  <2>3. /\ copies(key) \in Seq(1 .. taken) /\ Len(copies(key)) = n
        /\ \A i \in 1 .. n : copies(key)[i] = taken
    BY <1>2, <2>2
  <2>4. buffer[key] \in Seq(1 .. taken) /\ buffer'[key] = buffer[key] \o copies(key)
    BY <1>1, BufferType DEF IInv
  <2>5. /\ buffer'[key] \in Seq(1 .. taken) /\ Len(buffer[key]) \in Nat
        /\ DOMAIN buffer[key] = 1 .. Len(buffer[key])
        /\ DOMAIN buffer'[key] = 1 .. Len(buffer[key]) + n
        /\ \A i \in DOMAIN buffer[key] : buffer'[key][i] = buffer[key][i]
        /\ n > 0 => buffer'[key][Len(buffer[key]) + 1] = taken
    <3> DEFINE b == buffer[key]
               T == 1 .. taken
    <3>1. b \in Seq(T) /\ copies(key) \in Seq(T)
      BY <2>3, <2>4
    <3> HIDE DEF T
    <3>2. /\ b \o copies(key) \in Seq(T)
          /\ Len(b \o copies(key)) = Len(b) + n
          /\ \A i \in 1 .. Len(b) + n :
               (b \o copies(key))[i] = IF i <= Len(b) THEN b[i] ELSE copies(key)[i - Len(b)]
      BY <2>3, <3>1, ConcatProperties
    <3>3. n > 0 => (b \o copies(key))[Len(b) + 1] = taken
      BY <2>3, <3>1, <3>2
    <3> QED
      BY <2>4, <3>1, <3>2, <3>3 DEF T
  <2>6. Members(buffer[key]) \subseteq Members(buffer'[key])
    BY <2>5 DEF Members
  <2>7. n > 0 => taken \in Members(buffer'[key])
    BY <2>5 DEF Members
  <2> QED
    BY <2>1, <2>5, <2>6, <2>7
<1> HIDE DEF copies
<1>5. TypeOK'
  <2>1. buffer' \in [Keys -> Seq(1 .. taken)]
    BY <1>1, <1>4
  <2>2. added' \subseteq Keys \X (1 .. taken)
    BY <1>1, <1>2 DEF IInv, TypeOK
  <2>3. /\ now' \in Nat /\ now <= now' /\ taken <= taken' /\ taken' \in 0 .. Len(inbox')
    BY <1>1 DEF IInv, TypeOK
  <2>4. /\ pc' \in [Tasks -> {Resting, "buffer", "duplicate", "save", "publish", "commit"}]
        /\ event' \in [Tasks -> Event \union Event' \union {NoEvent}]
    BY <1>1 DEF IInv, TypeOK
  <2> QED
    BY <1>1, <2>1, <2>2, <2>3, <2>4, TypeKeeps DEF IInv, TypeOK
<1>6. pc'["checker"] = Resting /\ pc'["consumer"] = Resting
  BY <1>1 DEF IInv, TypeOK, Tasks
<1>7. CheckerOk' /\ ConsumerOk'
  BY <1>6 DEF CheckerOk, ConsumerOk, Resting
<1>8. /\ AnnouncedWereSaved' /\ BurstsDisjoint' /\ SavedOk'
  BY <1>1, <1>2, <1>6, SavedPartKeeps DEF SavedOk, Tasks, Resting
<1>9. BufferedAreAccounted'
  <2>1. ASSUME NEW entry \in added', entry \notin added
        PROVE  Accounted(entry[1], entry[2])'
    <3>1. PICK key \in Keys : Copies(Tx(taken), key) > 0 /\ entry = <<key, taken>>
      BY <1>1, <2>1
    <3>2. taken \in Members(buffer'[key])
      BY <1>4, <3>1
    <3> QED
      BY <3>1, <3>2 DEF Accounted
  <2>2. SavedGrows({}) /\ {} \subseteq Event /\ dropped \subseteq dropped' /\ UNCHANGED now
    BY <1>1 DEF SavedGrows
  <2>3. \A key \in Keys, m \in 1 .. taken : m \in Members(buffer[key]) => Accounted(key, m)'
    BY <1>4, StillBuffered
  <2> QED
    BY <1>2, <2>1, <2>2, <2>3, AllAccounted
<1> QED
  BY <1>5, <1>7, <1>8, <1>9 DEF IInv

(* The checker's keys, while it holds the lock.                            *)
LEMMA CheckerHolds ==
  ASSUME TypeOK, CheckerOk, BoxGrows, pc["checker"] # Resting,
         NEW more, SavedGrows(more), more \subseteq Event, checkedAt' = checkedAt,
         NEW key \in Keys, buffer'[key] = buffer[key]
  PROVE  /\ Trimmed(key, checkedAt)'
         /\ Settled(key, checkedAt) => Settled(key, checkedAt)'
         /\ Burst(key, buffer[key], checkedAt)' = Burst(key, buffer[key], checkedAt)
<1>1. PICK at \in 0 .. now : at = checkedAt
  BY DEF TypeOK
<1>2. Trimmed(key, at) /\ at = checkedAt'
  BY <1>1 DEF CheckerOk
<1>3. /\ Trimmed(key, at)' /\ (Settled(key, at) => Settled(key, at)')
      /\ Burst(key, buffer[key], at)' = Burst(key, buffer[key], at)
  BY <1>2, SettledKeeps
<1> QED
  BY <1>1, <1>2, <1>3 DEF Trimmed, Settled

(* Its event in hand.                                                      *)
LEMMA CheckerEvent ==
  ASSUME TypeOK, CheckerOk, pc["checker"] \in {"duplicate", "save", "publish"},
         NEW e, e = event["checker"]
  PROVE  /\ e \in Event /\ e # NoEvent /\ IsBurst(e) /\ Spans(e) /\ KeyOf(e) \in Keys
         /\ e = Burst(KeyOf(e), buffer[KeyOf(e)], checkedAt)
         /\ \A m \in Members(buffer[KeyOf(e)]) :
              m \in Members(e.msgs) \/ Seen(m) < checkedAt - WindowOf(KeyOf(e))
<1>1. PICK key \in Keys : e # NoEvent /\ e = Burst(key, buffer[key], checkedAt)
  BY DEF CheckerOk, IsBurstOf
<1>2. PICK at \in 0 .. now : at = checkedAt
  BY DEF TypeOK
<1>3. Within(buffer[key], DepositWindow, at) = buffer[key]
  BY <1>2 DEF CheckerOk, Trimmed, Resting
<1>4. e # NoEvent /\ e = Burst(key, buffer[key], at)
  BY <1>1, <1>2
<1>5. /\ e \in Event /\ IsBurst(e) /\ Spans(e) /\ KeyOf(e) = key
      /\ \A m \in Members(buffer[key]) :
           m \in Members(e.msgs) \/ Seen(m) < at - WindowOf(key)
  BY <1>3, <1>4, BufferType, BurstType
<1> QED
  BY <1>2, <1>4, <1>5

(* StartCheck scans all keys now; CommitQuery those left, at the time its  *)
(* check began, when the others are trimmed and settled.                   *)
Scans(from, keys, at) ==
  /\ ScanKeys(from, keys, at) /\ keys \subseteq Keys /\ at \in 0 .. now
  /\ from \in {Resting, "commit"} /\ pc["checker"] = from
  /\ \A key \in Keys \ keys : Trimmed(key, at) /\ Settled(key, at)
  /\ UNCHANGED <<now, inbox, taken, saved, announced, added, dropped>>

LEMMA ScanSteps ==
  ASSUME IInv
  PROVE  /\ StartCheck => Scans(Resting, Keys, now)
         /\ CommitQuery => Scans("commit", todo, checkedAt)
<1>1. ASSUME StartCheck PROVE Scans(Resting, Keys, now)
  <2>1. pc["checker"] = Resting
    BY <1>1 DEF StartCheck, ScanKeys, Move
  <2>2. now \in 0 .. now /\ Keys \ Keys = {}
    BY DEF IInv, TypeOK
  <2> QED
    BY <1>1, <2>1, <2>2 DEF StartCheck, Scans, consumerVars, eventVars
<1>2. ASSUME CommitQuery PROVE Scans("commit", todo, checkedAt)
  <2>1. pc["checker"] = "commit" /\ "commit" # Resting
    BY <1>2 DEF CommitQuery, ScanKeys, Move, Resting
  <2>2. \A key \in Keys \ todo : Trimmed(key, checkedAt) /\ Settled(key, checkedAt)
    BY <2>1 DEF IInv, CheckerOk
  <2> QED
    BY <1>2, <2>1, <2>2 DEF CommitQuery, Scans, IInv, TypeOK, consumerVars, eventVars
<1> QED
  BY <1>1, <1>2

LEMMA ScanPreserves ==
  ASSUME IInv, NEW from, NEW keys, NEW at, Scans(from, keys, at) PROVE IInv'
<1>1. /\ ScanKeys(from, keys, at) /\ keys \in SUBSET Keys /\ at \in 0 .. now
      /\ \A key \in Keys \ keys : Trimmed(key, at) /\ Settled(key, at)
      /\ UNCHANGED <<now, inbox, taken, saved, announced, added, dropped>>
  BY DEF Scans
<1>2. /\ TypeOK /\ BoxGrows /\ now \in Nat
      /\ now' \in Nat /\ now <= now' /\ taken <= taken' /\ taken' \in 0 .. Len(inbox')
  BY <1>1 DEF IInv, TypeOK, BoxGrows
<1>3. /\ buffer' \in [Keys -> Seq(1 .. taken)]
      /\ \A key \in Keys :
           buffer'[key] = Within(buffer[key], DepositWindow, at) /\ Trimmed(key, at)'
  BY <1>1, <1>2, ScanBuffer
<1>4. \/ /\ pc' = [pc EXCEPT !["checker"] = Resting]
         /\ event' = [event EXCEPT !["checker"] = NoEvent]
         /\ todo' = {} /\ checkedAt' = 0
      \/ \E key \in Keys, e \in Event :
         /\ pc' = [pc EXCEPT !["checker"] = "duplicate"]
         /\ event' = [event EXCEPT !["checker"] = e]
         /\ todo' \subseteq Keys /\ checkedAt' = at
         /\ e = Burst(key, buffer[key], at)' /\ e # NoEvent /\ KeyOf(e) = key
         /\ \A k \in Keys : k \in todo' \/ k = key \/ Settled(k, at)'
  BY <1>1, <1>2, Scan
<1>5. PICK next \in {Resting, "duplicate"}, e \in Event \union {NoEvent} :
        /\ pc' = [pc EXCEPT !["checker"] = next]
        /\ event' = [event EXCEPT !["checker"] = e]
        /\ todo' \subseteq Keys /\ checkedAt' \in 0 .. now
  <2>1. 0 \in 0 .. now
    BY <1>2
  <2>2. CASE /\ pc' = [pc EXCEPT !["checker"] = Resting]
             /\ event' = [event EXCEPT !["checker"] = NoEvent]
             /\ todo' = {} /\ checkedAt' = 0
    BY <2>1, <2>2
  <2>3. ASSUME NEW key \in Keys, NEW e \in Event,
               pc' = [pc EXCEPT !["checker"] = "duplicate"],
               event' = [event EXCEPT !["checker"] = e],
               todo' \subseteq Keys, checkedAt' = at
        PROVE  \E next \in {Resting, "duplicate"}, b \in Event \union {NoEvent} :
                 /\ pc' = [pc EXCEPT !["checker"] = next]
                 /\ event' = [event EXCEPT !["checker"] = b]
                 /\ todo' \subseteq Keys /\ checkedAt' \in 0 .. now
    BY <1>1, <2>3
  <2> QED
    BY <1>4, <2>2, <2>3
<1>6. TypeOK'
  <2>1. /\ pc' \in [Tasks -> {Resting, "buffer", "duplicate", "save", "publish", "commit"}]
        /\ event' \in [Tasks -> Event \union Event' \union {NoEvent}]
    BY <1>5 DEF IInv, TypeOK
  <2> QED
    BY <1>1, <1>2, <1>3, <1>5, <2>1, TypeKeeps DEF TypeOK
<1>7. /\ pc'["checker"] = next /\ pc'["consumer"] = pc["consumer"]
      /\ event'["checker"] = e /\ event'["consumer"] = event["consumer"]
  BY <1>5 DEF IInv, TypeOK, Tasks
<1>8. CheckerOk'
  <2>1. CASE pc' = [pc EXCEPT !["checker"] = Resting]
    <3>1. pc'["checker"] = Resting
      BY <2>1 DEF IInv, TypeOK, Tasks
    <3> QED
      BY <3>1 DEF CheckerOk, Resting
  <2>2. ASSUME NEW key \in Keys, NEW b \in Event,
               pc' = [pc EXCEPT !["checker"] = "duplicate"],
               event' = [event EXCEPT !["checker"] = b],
               checkedAt' = at,
               b = Burst(key, buffer[key], at)', b # NoEvent, KeyOf(b) = key,
               \A k \in Keys : k \in todo' \/ k = key \/ Settled(k, at)'
        PROVE  CheckerOk'
    <3>1. pc'["checker"] = "duplicate" /\ event'["checker"] = b
      BY <2>2 DEF IInv, TypeOK, Tasks
    <3>2. IsBurstOf(event["checker"], key, checkedAt)'
      BY <2>2, <3>1 DEF IsBurstOf
    <3>3. KeyOf(event["checker"])' = key
      BY <2>2, <3>1 DEF KeyOf
    <3>4. ASSUME NEW k \in Keys
          PROVE  /\ Trimmed(k, checkedAt)'
                 /\ k \in todo' \/ Settled(k, checkedAt)' \/ k = KeyOf(event["checker"])'
      BY <1>3, <2>2, <3>3 DEF Trimmed, Settled
    <3> QED
      BY <3>1, <3>2, <3>4 DEF CheckerOk
  <2> QED
    BY <1>4, <2>1, <2>2
<1>9. ConsumerOk'
  BY <1>1, <1>7 DEF IInv, ConsumerOk, Spans, Seen, IsBurst
<1>10. AnnouncedWereSaved' /\ BurstsDisjoint' /\ SavedOk'
  <2>1. /\ AnnouncedWereSaved' /\ BurstsDisjoint'
        /\ \A i \in DOMAIN saved' : Spans(saved[i])'
    BY <1>1, <1>2, SavedPartKeeps
  <2>2. \A t \in Tasks : pc'[t] = "publish" => pc[t] = "publish" /\ event'[t] = event[t]
    BY <1>7 DEF Tasks, Resting
  <2> QED
    BY <1>1, <2>1, <2>2 DEF IInv, SavedOk
<1>11. BufferedAreAccounted'
  <2>1. ASSUME NEW key \in Keys, NEW m \in 1 .. taken, m \in Members(buffer[key])
        PROVE  Accounted(key, m)'
    <3>1. Members(buffer'[key]) = {k \in Members(buffer[key]) : Seen(k) >= at - DepositWindow}
      BY <1>2, <1>3, BufferType, WithinMembers
    <3>2. CASE m \in Members(buffer'[key])
      BY <3>2 DEF Accounted
    <3>3. CASE m \notin Members(buffer'[key])
      <4>1. ~ (Seen(m) >= at - DepositWindow)
        BY <2>1, <3>1, <3>3
      <4>2. Seen(m) \in Nat /\ Seen(m)' = Seen(m)
        BY <1>1, <1>2, SeenType DEF Seen
      <4>3. WindowOf(key) \in Nat /\ WindowOf(key) <= DepositWindow
        BY Thresholds DEF WindowOf
      <4>4. Seen(m)' < now' - WindowOf(key)
        BY <1>1, <1>2, <4>1, <4>2, <4>3, Thresholds
      <4> QED
        BY <4>4 DEF Accounted
    <3> QED
      BY <3>2, <3>3
  <2>2. SavedGrows({}) /\ {} \subseteq Event /\ dropped \subseteq dropped' /\ UNCHANGED now
    BY <1>1 DEF SavedGrows
  <2>3. added' \ added = {}
    BY <1>1
  <2> QED
    BY <1>2, <2>1, <2>2, <2>3, AllAccounted
<1> QED
  BY <1>6, <1>8, <1>9, <1>10, <1>11 DEF IInv

(* The checker's steps that change its pc only, or end its check early.    *)
LEMMA CheckerMoves ==
  ASSUME IInv, TypeOK', CheckerOk', pc'["checker"] # "publish",
         pc'["consumer"] = pc["consumer"], event'["consumer"] = event["consumer"],
         UNCHANGED <<now, inbox, taken, buffer, saved, announced, added, dropped>>
  PROVE  IInv'
<1>1. BoxGrows
  BY DEF IInv, TypeOK, BoxGrows
<1>2. /\ AnnouncedWereSaved' /\ BurstsDisjoint'
      /\ \A i \in DOMAIN saved' : Spans(saved[i])'
  BY <1>1, SavedPartKeeps
<1>3. SavedOk'
  BY <1>2 DEF IInv, SavedOk, Tasks
<1>4. ConsumerOk'
  BY DEF IInv, ConsumerOk, Spans, Seen, IsBurst
<1>5. BufferedAreAccounted'
  <2>1. SavedGrows({}) /\ {} \subseteq Event
    BY DEF SavedGrows
  <2>2. \A key \in Keys, m \in 1 .. taken : m \in Members(buffer[key]) => Accounted(key, m)'
    BY StillBuffered
  <2> QED
    BY <1>1, <2>1, <2>2, AllAccounted
<1> QED
  BY <1>2, <1>3, <1>4, <1>5 DEF IInv

LEMMA DatabaseFailsPreserves ==
  ASSUME IInv, DatabaseFails PROVE IInv'
<1>1. /\ pc' = [pc EXCEPT !["checker"] = Resting]
      /\ event' = [event EXCEPT !["checker"] = NoEvent]
      /\ todo' = {} /\ checkedAt' = 0
      /\ UNCHANGED <<now, inbox, taken, buffer, saved, announced, added, dropped>>
  BY DEF DatabaseFails, consumerVars, eventVars
<1>2. /\ pc'["checker"] = Resting /\ pc'["consumer"] = pc["consumer"]
      /\ event'["consumer"] = event["consumer"]
  BY <1>1 DEF IInv, TypeOK, Tasks
<1>3. TypeOK'
  <2>1. event' \in [Tasks -> Event \union {NoEvent}]
    BY <1>1 DEF IInv, TypeOK
  <2>2. Event' = Event
    BY <1>1 DEF Event
  <2> HIDE DEF Event
  <2> QED
    BY <1>1, <2>1, <2>2 DEF IInv, TypeOK
<1>4. CheckerOk'
  BY <1>2 DEF CheckerOk, Resting
<1> QED
  BY <1>1, <1>2, <1>3, <1>4, CheckerMoves DEF Resting

LEMMA RestartPreserves ==
  ASSUME IInv, Restart PROVE IInv'
<1>1. /\ \A t \in Tasks : pc'[t] = Resting
      /\ pc' \in [Tasks -> {Resting}] /\ event' \in [Tasks -> {NoEvent}]
      /\ buffer' = EmptyBuffer /\ todo' = {} /\ checkedAt' = 0
      /\ added' = {} /\ dropped' = {}
      /\ UNCHANGED <<now, inbox, taken, saved, announced>>
  BY DEF Restart, eventVars
<1>2. TypeOK'
  <2>1. buffer' \in [Keys -> Seq(1 .. taken)]
    BY <1>1 DEF EmptyBuffer
  <2> QED
    BY <1>1, <2>1 DEF IInv, TypeOK, Event
<1>3. CheckerOk' /\ ConsumerOk'
  BY <1>1 DEF CheckerOk, ConsumerOk, Tasks, Resting
<1>4. BoxGrows
  BY <1>1 DEF IInv, TypeOK, BoxGrows
<1>5. AnnouncedWereSaved' /\ BurstsDisjoint' /\ SavedOk'
  BY <1>1, <1>4, SavedPartKeeps DEF SavedOk, Resting
<1>6. BufferedAreAccounted'
  BY <1>1 DEF BufferedAreAccounted
<1> QED
  BY <1>2, <1>3, <1>5, <1>6 DEF IInv

LEMMA CheckDuplicatePreserves ==
  ASSUME IInv, CheckDuplicate PROVE IInv'
<1>1. PICK next : /\ next = IF Duplicate(event["checker"]) THEN "commit" ELSE "save"
                  /\ pc' = [pc EXCEPT !["checker"] = next]
  BY DEF CheckDuplicate, Move
<1>2. /\ pc["checker"] = "duplicate"
      /\ UNCHANGED <<now, inbox, taken, event, buffer, todo, checkedAt,
                     saved, announced, added, dropped>>
  BY DEF CheckDuplicate, Move, consumerVars, checkVars, eventVars
<1>3. pc'["checker"] = next /\ pc'["consumer"] = pc["consumer"]
  BY <1>1 DEF IInv, TypeOK, Tasks
<1>4. TypeOK'
  BY <1>1, <1>2 DEF IInv, TypeOK, Event
<1>5. PICK e, own : e = event["checker"] /\ own = KeyOf(e)
  OBVIOUS
<1>6. /\ e \in Event /\ e # NoEvent /\ own \in Keys
      /\ e = Burst(own, buffer[own], checkedAt)
  BY <1>2, <1>5, CheckerEvent DEF IInv
<1>7. /\ BoxGrows /\ SavedGrows({}) /\ {} \subseteq Event
      /\ pc["checker"] # Resting /\ checkedAt' = checkedAt
  BY <1>2 DEF IInv, TypeOK, BoxGrows, SavedGrows, Resting
<1>8. ASSUME NEW key \in Keys
      PROVE  /\ Trimmed(key, checkedAt)'
             /\ Settled(key, checkedAt) => Settled(key, checkedAt)'
             /\ Burst(key, buffer[key], checkedAt)' = Burst(key, buffer[key], checkedAt)
             /\ key \in todo \/ Settled(key, checkedAt) \/ key = own
  BY <1>2, <1>5, <1>7, CheckerHolds DEF IInv, CheckerOk
<1>9. /\ IsBurstOf(event["checker"], own, checkedAt)' /\ KeyOf(event["checker"])' = own
      /\ Duplicate(event["checker"])' => Duplicate(event["checker"])
      /\ Duplicate(event["checker"]) => Settled(own, checkedAt)
  <2>1. Duplicate(e)' => Duplicate(e)
    BY <1>6, <1>7, DuplicateKeeps DEF IInv
  <2>2. e = event'["checker"]
    BY <1>2, <1>5
  <2>3. Duplicate(event["checker"])' => Duplicate(event["checker"])
    BY <1>5, <2>1, <2>2 DEF Duplicate
  <2>4. IsBurstOf(event["checker"], own, checkedAt)'
    BY <1>6, <1>8, <2>2 DEF IsBurstOf
  <2>5. KeyOf(event["checker"])' = own
    BY <1>5, <2>2 DEF KeyOf
  <2> QED
    BY <1>5, <1>6, <2>3, <2>4, <2>5 DEF Settled
<1>10. CheckerOk'
  <2>1. CASE next = "commit"
    <3>1. \A key \in Keys : Trimmed(key, checkedAt)'
                            /\ (key \in todo' \/ Settled(key, checkedAt)')
      BY <1>1, <1>2, <1>8, <1>9, <2>1
    <3> QED
      BY <1>3, <2>1, <3>1 DEF CheckerOk
  <2>2. CASE next = "save"
    <3>1. ~ Duplicate(event["checker"])'
      BY <1>1, <1>9, <2>2
    <3>2. \A key \in Keys : /\ Trimmed(key, checkedAt)'
                            /\ \/ key \in todo' \/ Settled(key, checkedAt)'
                               \/ key = KeyOf(event["checker"])'
      BY <1>2, <1>8, <1>9
    <3> QED
      BY <1>3, <1>6, <1>9, <2>2, <3>1, <3>2 DEF CheckerOk
  <2> QED
    BY <1>1, <2>1, <2>2
<1> QED
  BY <1>1, <1>2, <1>3, <1>4, <1>10, CheckerMoves

(* Steps that save an event, or not: what holds of the saved ones.         *)
LEMMA SavingKeeps ==
  ASSUME IInv, BoxGrows, NEW e \in Event, Spans(e), SavedGrows({e}),
         saved' # saved /\ IsBurst(e) => ~ Duplicate(e),
         \/ announced' = announced
         \/ announced' = Append(announced, e) /\ e \in Members(saved)
  PROVE  /\ AnnouncedWereSaved' /\ BurstsDisjoint'
         /\ \A i \in DOMAIN saved' : Spans(saved[i])'
         /\ saved' \in Seq(Event) /\ announced' \in Seq(Event)
<1>1. Members(saved) \subseteq Members(saved') /\ saved' \in Seq(Event)
  BY SavedKeeps DEF IInv
<1>2. announced \in Seq(Event)
  BY DEF IInv, TypeOK
<1>3. /\ announced' \in Seq(Event)
      /\ Members(announced') \subseteq Members(announced) \union Members(saved)
  <2>1. CASE announced' = announced
    BY <1>2, <2>1
  <2>2. CASE announced' = Append(announced, e) /\ e \in Members(saved)
    <3>1. /\ Append(announced, e) \in Seq(Event)
          /\ Members(Append(announced, e)) = Members(announced) \union {e}
      BY <1>2, MembersAppended
    <3> QED
      BY <2>2, <3>1
  <2> QED
    BY <2>1, <2>2
<1>4. AnnouncedWereSaved'
  <2>1. Members(announced) \subseteq Members(saved)
    BY DEF IInv, AnnouncedWereSaved
  <2>2. Members(announced') \subseteq Members(saved')
    BY <1>1, <1>3, <2>1
  <2> QED
    BY <2>2 DEF AnnouncedWereSaved
<1>5. BurstsDisjoint'
  <2>1. CASE saved' = saved
    <3>1. SavedGrows({}) /\ {} \subseteq Event
      BY <2>1 DEF SavedGrows
    <3> QED
      BY <3>1, DisjointKeeps DEF IInv
  <2>2. CASE saved' # saved
    <3>1. IsBurst(e) => \A i \in DOMAIN saved : saved[i].kind = e.kind =>
            Members(saved[i].msgs) \intersect Members(e.msgs) = {}
      BY <2>2, NewIsDisjoint DEF IInv
    <3> QED
      BY <3>1, DisjointKeeps DEF IInv
  <2> QED
    BY <2>1, <2>2
<1>6. \A i \in DOMAIN saved' : Spans(saved[i])'
  BY SavedSpanKeeps DEF IInv
<1> QED
  BY <1>1, <1>3, <1>4, <1>5, <1>6

LEMMA ConsumerSaves ==
  ASSUME IInv, SaveOrPublish("consumer") PROVE IInv'
<1> DEFINE e == event["consumer"]
<1>1. /\ pc["consumer"] \in {"save", "publish"}
      /\ pc["consumer"] = "publish" => saved' = saved
      /\ pc["consumer"] = "save" => announced' = announced
      /\ saved' = saved \/ saved' = Append(saved, e)
      /\ announced' = announced \/ announced' = Append(announced, e)
      /\ \/ /\ pc' = [pc EXCEPT !["consumer"] = "publish"] /\ event' = event
            /\ saved' = Append(saved, e)
         \/ /\ pc' = [pc EXCEPT !["consumer"] = "buffer"]
            /\ event' = [event EXCEPT !["consumer"] = NoEvent]
      /\ UNCHANGED <<now, inbox, taken, buffer, todo, checkedAt, added, dropped>>
  <2>1. CASE Save("consumer")
    BY <2>1 DEF Save, Move, consumerVars, checkVars
  <2>2. CASE SaveFails("consumer")
    BY <2>2 DEF SaveFails, Resume, Move, consumerVars, checkVars
  <2>3. CASE Publish("consumer")
    BY <2>3 DEF Publish, Resume, Move, consumerVars, checkVars
  <2>4. CASE PublishFails("consumer")
    BY <2>4 DEF PublishFails, Resume, Move, consumerVars, checkVars, eventVars
  <2> QED
    BY <2>1, <2>2, <2>3, <2>4 DEF SaveOrPublish
<1>2. /\ now \in Nat /\ now' \in Nat /\ now <= now' /\ taken <= taken'
      /\ taken' \in 0 .. Len(inbox') /\ BoxGrows /\ taken > 0
  BY <1>1 DEF IInv, TypeOK, BoxGrows, ConsumerOk, Resting
<1>3. e \in Event /\ ~ IsBurst(e) /\ Spans(e) /\ e # NoEvent
  BY <1>1 DEF IInv, TypeOK, ConsumerOk, Tasks
<1>4. SavedGrows({e}) /\ {e} \subseteq Event
  BY <1>1, <1>3 DEF SavedGrows
<1>5. pc["consumer"] = "publish" => e \in Members(saved)
  BY DEF IInv, SavedOk, Tasks
<1>6. /\ pc'["checker"] = pc["checker"] /\ event'["checker"] = event["checker"]
      /\ \/ /\ pc'["consumer"] = "publish" /\ event'["consumer"] = e
            /\ saved' = Append(saved, e)
         \/ pc'["consumer"] = "buffer"
      /\ pc' \in [Tasks -> {Resting, "buffer", "duplicate", "save", "publish", "commit"}]
      /\ event' \in [Tasks -> Event \union Event' \union {NoEvent}]
  <2>1. /\ pc \in [Tasks -> {Resting, "buffer", "duplicate", "save", "publish", "commit"}]
        /\ event \in [Tasks -> Event \union {NoEvent}]
    BY DEF IInv, TypeOK
  <2> HIDE DEF e
  <2> QED
    BY <1>1, <2>1 DEF Tasks, e
<1>7. PICK b : b = e
  OBVIOUS
<1>8. /\ AnnouncedWereSaved' /\ BurstsDisjoint'
      /\ \A i \in DOMAIN saved' : Spans(saved[i])'
      /\ saved' \in Seq(Event) /\ announced' \in Seq(Event)
  <2>1. /\ b \in Event /\ Spans(b) /\ SavedGrows({b}) /\ ~ IsBurst(b)
        /\ \/ announced' = announced
           \/ announced' = Append(announced, b) /\ b \in Members(saved)
    BY <1>1, <1>3, <1>4, <1>5, <1>7
  <2> QED
    BY <1>2, <2>1, SavingKeeps
<1>9. TypeOK'
  BY <1>1, <1>2, <1>6, <1>8, TypeKeeps DEF IInv, TypeOK
<1>10. CheckerOk'
  <2>1. {b} \subseteq Event /\ SavedGrows({b}) /\ \A x \in {b} : ~ IsBurst(x)
    BY <1>3, <1>4, <1>7
  <2> QED
    BY <1>1, <1>2, <1>6, <2>1, CheckerKeeps DEF IInv
<1>11. ConsumerOk'
  <2>1. Spans(b) => Spans(b)'
    BY <1>1 DEF Spans, Seen
  <2>2. pc'["consumer"] \in {"save", "publish"} => event'["consumer"] = b
    BY <1>6, <1>7
  <2> QED
    BY <1>1, <1>2, <1>3, <1>6, <1>7, <2>1, <2>2 DEF ConsumerOk, Spans, IsBurst
<1>12. SavedOk'
  <2>1. saved' = Append(saved, e) => e \in Members(saved')
    BY <1>3, MembersAppended DEF IInv, TypeOK
  <2>2. ASSUME pc["checker"] = "publish" PROVE event["checker"] \in Members(saved')
    BY <1>4, <2>2, SavedKeeps DEF IInv, SavedOk, Tasks
  <2> QED
    BY <1>6, <1>8, <2>1, <2>2 DEF SavedOk, Tasks
<1>13. BufferedAreAccounted'
  <2>1. \A key \in Keys, m \in 1 .. taken : m \in Members(buffer[key]) => Accounted(key, m)'
    BY <1>1, StillBuffered
  <2>2. SavedGrows({b}) /\ {b} \subseteq Event
    BY <1>4, <1>7
  <2> QED
    BY <1>1, <1>2, <2>1, <2>2, AllAccounted
<1> QED
  BY <1>8, <1>9, <1>10, <1>11, <1>12, <1>13 DEF IInv

(* The checker empties the key whose burst it was: its messages are in the *)
(* burst, or older than their window, or lost with it.                     *)
LEMMA CheckerSaves ==
  ASSUME IInv, SaveOrPublish("checker") PROVE IInv'
<1>1. PICK e, key : e = event["checker"] /\ key = KeyOf(e)
  OBVIOUS
<1> DEFINE Saving == /\ pc' = [pc EXCEPT !["checker"] = "publish"]
                     /\ pc["checker"] = "save" /\ event' = event /\ buffer' = buffer
                     /\ saved' = Append(saved, e) /\ dropped' = dropped
           Resuming == /\ pc' = [pc EXCEPT !["checker"] = "commit"]
                       /\ event' = [event EXCEPT !["checker"] = NoEvent]
                       /\ buffer' = [buffer EXCEPT ![key] = << >>]
                       /\ \/ pc["checker"] = "publish"
                          \/ saved' = Append(saved, e)
                          \/ dropped' = dropped \union {<<key, m>> : m \in Members(buffer[key])}
                       /\ \/ dropped' = dropped
                          \/ dropped' = dropped \union {<<key, m>> : m \in Members(buffer[key])}
<1>2. /\ pc["checker"] \in {"save", "publish"}
      /\ saved' = saved \/ (pc["checker"] = "save" /\ saved' = Append(saved, e))
      /\ \/ announced' = announced
         \/ pc["checker"] = "publish" /\ announced' = Append(announced, e)
      /\ Saving \/ Resuming
      /\ UNCHANGED <<now, inbox, taken, todo, checkedAt, added>>
  <2>1. CASE Save("checker")
    BY <1>1, <2>1 DEF Save, Move, consumerVars, checkVars
  <2>2. CASE SaveFails("checker")
    BY <1>1, <2>2 DEF SaveFails, Resume, Move, consumerVars, checkVars
  <2>3. CASE Publish("checker")
    BY <1>1, <2>3 DEF Publish, Resume, Move, consumerVars, checkVars
  <2>4. CASE PublishFails("checker")
    BY <1>1, <2>4 DEF PublishFails, Resume, Move, consumerVars, checkVars, eventVars
  <2> QED
    BY <2>1, <2>2, <2>3, <2>4 DEF SaveOrPublish
<1> HIDE DEF Saving, Resuming
<1>3. /\ e \in Event /\ e # NoEvent /\ IsBurst(e) /\ Spans(e) /\ key \in Keys
      /\ e = Burst(key, buffer[key], checkedAt)
      /\ \A m \in Members(buffer[key]) :
           m \in Members(e.msgs) \/ Seen(m) < checkedAt - WindowOf(key)
  BY <1>1, <1>2, CheckerEvent DEF IInv
<1>4. /\ now \in Nat /\ now' \in Nat /\ now <= now' /\ taken <= taken' /\ taken \in Nat
      /\ taken' \in 0 .. Len(inbox') /\ BoxGrows /\ checkedAt \in 0 .. now
      /\ pc["checker"] # Resting
  BY <1>2 DEF IInv, TypeOK, BoxGrows, Resting
<1>5. SavedGrows({e}) /\ {e} \subseteq Event
  BY <1>2, <1>3 DEF SavedGrows
<1>6. /\ AnnouncedWereSaved' /\ BurstsDisjoint'
      /\ \A i \in DOMAIN saved' : Spans(saved[i])'
      /\ saved' \in Seq(Event) /\ announced' \in Seq(Event)
  <2>1. saved' # saved => ~ Duplicate(e)
    BY <1>1, <1>2 DEF IInv, CheckerOk
  <2>2. pc["checker"] = "publish" => e \in Members(saved)
    BY <1>1 DEF IInv, SavedOk, Tasks
  <2> QED
    BY <1>2, <1>3, <1>4, <1>5, <2>1, <2>2, SavingKeeps
<1>7. /\ pc'["consumer"] = pc["consumer"] /\ event'["consumer"] = event["consumer"]
      /\ \A k \in Keys : k # key => buffer'[k] = buffer[k]
      /\ Saving => /\ pc'["checker"] = "publish" /\ event'["checker"] = e
                   /\ buffer'[key] = buffer[key]
      /\ Resuming => pc'["checker"] = "commit" /\ buffer'[key] = << >>
      /\ pc' \in [Tasks -> {Resting, "buffer", "duplicate", "save", "publish", "commit"}]
      /\ event' \in [Tasks -> Event \union {NoEvent}]
  <2>1. /\ pc \in [Tasks -> {Resting, "buffer", "duplicate", "save", "publish", "commit"}]
        /\ event \in [Tasks -> Event \union {NoEvent}]
        /\ buffer \in [Keys -> Seq(1 .. taken)]
    BY DEF IInv, TypeOK
  <2>2. CASE Saving
    BY <1>1, <2>1, <2>2 DEF Tasks, Saving, Resuming
  <2>3. CASE Resuming
    BY <1>1, <1>3, <2>1, <2>3 DEF Tasks, Resuming, Saving
  <2> QED
    BY <1>2, <2>2, <2>3
<1>8. TypeOK'
  <2>1. buffer' \in [Keys -> Seq(1 .. taken)]
    <3>1. << >> \in Seq(1 .. taken) /\ buffer \in [Keys -> Seq(1 .. taken)]
      BY DEF IInv, TypeOK
    <3> QED
      BY <1>2, <3>1 DEF Saving, Resuming
  <2>2. dropped' \subseteq Keys \X (1 .. taken)
    <3>1. Members(buffer[key]) \subseteq 1 .. taken /\ dropped \subseteq Keys \X (1 .. taken)
      BY <1>3, BufferType, MembersOf DEF IInv, TypeOK
    <3> QED
      BY <1>2, <1>3, <3>1 DEF Saving, Resuming
  <2> QED
    BY <1>2, <1>4, <1>6, <1>7, <2>1, <2>2, TypeKeeps DEF IInv, TypeOK
<1>9. ASSUME NEW k \in Keys, buffer'[k] = buffer[k]
      PROVE  /\ Trimmed(k, checkedAt)'
             /\ Settled(k, checkedAt) => Settled(k, checkedAt)'
             /\ Burst(k, buffer[k], checkedAt)' = Burst(k, buffer[k], checkedAt)
  BY <1>2, <1>4, <1>5, <1>9, CheckerHolds DEF IInv
<1>10. \A k \in Keys : k \in todo \/ Settled(k, checkedAt) \/ k = key
  BY <1>1, <1>4 DEF IInv, CheckerOk
<1>11. CheckerOk'
  <2>1. CASE Saving
    <3>1. IsBurstOf(event["checker"], key, checkedAt)' /\ KeyOf(event["checker"])' = key
      BY <1>1, <1>3, <1>7, <1>9, <2>1 DEF IsBurstOf, KeyOf
    <3>2. \A k \in Keys : /\ Trimmed(k, checkedAt)'
                          /\ \/ k \in todo' \/ Settled(k, checkedAt)'
                             \/ k = KeyOf(event["checker"])'
      BY <1>2, <1>7, <1>9, <1>10, <2>1, <3>1
    <3> QED
      BY <1>3, <1>7, <2>1, <3>1, <3>2 DEF CheckerOk
  <2>2. CASE Resuming
    <3>1. Trimmed(key, checkedAt)' /\ Settled(key, checkedAt)'
      <4> PICK at : at = checkedAt'
        OBVIOUS
      <4>1. buffer'[key] = << >> /\ Within(<< >>, DepositWindow, at)' = << >>
        BY <1>7, <2>2, EmptyWithin
      <4>2. Within(<< >>, OutflowWindow, at)' = << >>
        BY EmptyWithin
      <4>3. Burst(key, buffer[key], checkedAt)' = NoEvent
        BY <4>1, <4>2, Thresholds DEF Burst
      <4> QED
        BY <4>1, <4>3 DEF Trimmed, Settled
    <3>2. \A k \in Keys : Trimmed(k, checkedAt)' /\ (k \in todo' \/ Settled(k, checkedAt)')
      BY <1>2, <1>7, <1>9, <1>10, <3>1
    <3> QED
      BY <1>7, <2>2, <3>2 DEF CheckerOk
  <2> QED
    BY <1>2, <2>1, <2>2
<1>12. ConsumerOk'
  BY <1>2, <1>7 DEF IInv, ConsumerOk, Spans, Seen, IsBurst
<1>13. SavedOk'
  <2>1. saved' = Append(saved, e) => e \in Members(saved')
    BY <1>3, MembersAppended DEF IInv, TypeOK
  <2>2. ASSUME pc["consumer"] = "publish" PROVE event["consumer"] \in Members(saved')
    BY <1>5, <2>2, SavedKeeps DEF IInv, SavedOk, Tasks
  <2>3. ASSUME pc'["checker"] = "publish" PROVE event'["checker"] \in Members(saved')
    <3>1. Saving
      BY <1>2, <1>7, <2>3
    <3> QED
      BY <1>7, <2>1, <3>1 DEF Saving
  <2> QED
    BY <1>6, <1>7, <2>2, <2>3 DEF SavedOk, Tasks
<1>14. BufferedAreAccounted'
  <2>1. ASSUME NEW k \in Keys, NEW m \in 1 .. taken, m \in Members(buffer[k])
        PROVE  Accounted(k, m)'
    <3>1. CASE buffer'[k] = buffer[k]
      BY <2>1, <3>1 DEF Accounted
    <3>2. CASE k = key /\ Resuming
      <4>1. CASE <<k, m>> \in dropped'
        BY <4>1 DEF Accounted
      <4>2. CASE Seen(m) < checkedAt - WindowOf(key)
        <5>1. Seen(m) \in Nat /\ Seen(m)' = Seen(m) /\ WindowOf(key) \in Nat
          BY <1>2, SeenType, Thresholds DEF IInv, Seen, WindowOf
        <5>2. Seen(m)' < now' - WindowOf(key)
          BY <1>2, <1>4, <4>2, <5>1
        <5> QED
          BY <3>2, <5>2 DEF Accounted
      <4>3. CASE m \in Members(e.msgs) /\ e \in Members(saved')
        <5>1. PICK i \in DOMAIN saved' : saved'[i] = e
          BY <4>3 DEF Members
        <5> QED
          BY <1>1, <1>3, <3>2, <4>3, <5>1 DEF Accounted, IsBurst, KeyOf
      <4>4. e \in Members(saved') \/ <<k, m>> \in dropped'
        <5>1. CASE pc["checker"] = "publish"
          BY <1>1, <1>5, <5>1, SavedKeeps DEF IInv, SavedOk, Tasks
        <5>2. CASE saved' = Append(saved, e)
          BY <1>3, <5>2, MembersAppended DEF IInv, TypeOK
        <5> QED
          BY <2>1, <3>2, <5>1, <5>2 DEF Resuming
      <4> QED
        BY <1>3, <2>1, <3>2, <4>1, <4>2, <4>3, <4>4
    <3> QED
      BY <1>2, <1>7, <3>1, <3>2
  <2>2. dropped \subseteq dropped' /\ added' \ added = {} /\ UNCHANGED now
    BY <1>2 DEF Saving, Resuming
  <2> QED
    BY <1>4, <1>5, <2>1, <2>2, AllAccounted
<1> QED
  BY <1>6, <1>8, <1>11, <1>12, <1>13, <1>14 DEF IInv

LEMMA NextPreserves == IInv /\ [Next]_vars => IInv'
<1> SUFFICES ASSUME IInv, [Next]_vars PROVE IInv'
  OBVIOUS
<1>1. CASE Tick
  BY <1>1, TickPreserves
<1>2. ASSUME NEW tx \in Txs, Arrive(tx) PROVE IInv'
  BY <1>2, ArrivePreserves
<1>3. CASE Take
  BY <1>3, TakePreserves
<1>4. CASE AddToBuffer
  BY <1>4, AddToBufferPreserves
<1>5. CASE SaveOrPublish("consumer")
  BY <1>5, ConsumerSaves
<1>6. CASE StartCheck
  BY <1>6, ScanSteps, ScanPreserves
<1>7. CASE CheckDuplicate
  BY <1>7, CheckDuplicatePreserves
<1>8. CASE DatabaseFails
  BY <1>8, DatabaseFailsPreserves
<1>9. CASE CommitQuery
  BY <1>9, ScanSteps, ScanPreserves
<1>10. CASE SaveOrPublish("checker")
  BY <1>10, CheckerSaves
<1>11. CASE Restart
  BY <1>11, RestartPreserves
<1>12. CASE UNCHANGED vars
  <2>1. UNCHANGED <<now, inbox, taken, pc, event, buffer, todo, checkedAt,
                    saved, announced, added, dropped>>
    BY <1>12 DEF vars, consumerVars, checkVars, eventVars
  <2>2. Event' = Event
    BY <2>1 DEF Event
  <2>3. TypeOK'
    BY <2>1, <2>2 DEF IInv, TypeOK
  <2>4. CheckerOk'
    <3>1. SavedGrows({}) /\ {} \subseteq Event /\ BoxGrows
      BY <2>1 DEF SavedGrows, BoxGrows, IInv, TypeOK
    <3> QED
      BY <2>1, <3>1, CheckerKeeps DEF IInv
  <2>5. pc'["checker"] = "publish" => event'["checker"] \in Members(saved')
    BY <2>1 DEF IInv, SavedOk, Tasks
  <2>6. BoxGrows
    BY <2>1 DEF IInv, TypeOK, BoxGrows
  <2>7. /\ AnnouncedWereSaved' /\ BurstsDisjoint'
        /\ \A i \in DOMAIN saved' : Spans(saved[i])'
    BY <2>1, <2>6, SavedPartKeeps
  <2>8. SavedOk' /\ ConsumerOk'
    BY <2>1, <2>7 DEF IInv, SavedOk, ConsumerOk, Spans, Seen, IsBurst
  <2>9. BufferedAreAccounted'
    BY <2>1 DEF IInv, BufferedAreAccounted, Accounted, Seen, IsBurst, KeyOf
  <2> QED
    BY <2>3, <2>4, <2>7, <2>8, <2>9 DEF IInv
<1> QED
  BY <1>1, <1>2, <1>3, <1>4, <1>5, <1>6, <1>7, <1>8, <1>9, <1>10, <1>11, <1>12
     DEF Next, Check

THEOREM Invariant == Spec => []IInv
<1>1. Init => IInv
  BY InitIInv
<1>2. IInv /\ [Next]_vars => IInv'
  BY NextPreserves
<1> QED
  BY <1>1, <1>2, PTL DEF Spec

(* Every variable keeps its type.                                          *)
THEOREM TypeCorrect == Spec => []TypeOK
<1>1. IInv => TypeOK
  BY DEF IInv
<1> QED
  BY <1>1, Invariant, PTL

(* No buffered transaction slips away between the consumer and the checker *)
(* of _check_bursts, whatever they interleave and whatever fails.          *)
THEOREM NoneSlipsAway == Spec => []BufferedAreAccounted
<1>1. IInv => BufferedAreAccounted
  BY DEF IInv
<1> QED
  BY <1>1, Invariant, PTL

(* check_duplicate keeps two bursts of a kind from sharing a message.      *)
THEOREM NoMessageTwice == Spec => []BurstsDisjoint
<1>1. IInv => BurstsDisjoint
  BY DEF IInv
<1> QED
  BY <1>1, Invariant, PTL

(* _save_and_publish_event announces only what its session committed.      *)
THEOREM SavedFirst == Spec => []AnnouncedWereSaved
<1>1. IInv => AnnouncedWereSaved
  BY DEF IInv
<1> QED
  BY <1>1, Invariant, PTL

-----------------------------------------------------------------------------
(* A check that ends has reported every group.                             *)

LEMMA SettledIsReported ==
  ASSUME NEW at, \A key \in Keys : Trimmed(key, at)' /\ Settled(key, at)'
  PROVE  BurstsReportedAt(at)'
<1> SUFFICES ASSUME NEW label \in Labels
             PROVE  /\ Reported("WH_EXCHANGE_DEPOSIT_BURST", label,
                                Within(buffer[<<label, Deposit>>], DepositWindow, at),
                                DepositMinCount, DepositMinBtc)'
                    /\ Reported("WH_EXCHANGE_BULK_OUTFLOW", label,
                                Within(buffer[<<label, Withdrawal>>], OutflowWindow, at),
                                OutflowMinCount, OutflowMinBtc)'
  BY DEF BurstsReportedAt
<1>1. \A kind \in Kinds : \A msgs : WhaleEvent(kind, label, msgs)' # NoEvent
  <2> SUFFICES ASSUME NEW kind \in Kinds, NEW msgs
               PROVE  WhaleEvent(kind, label, msgs)' # NoEvent
    OBVIOUS
  <2>1. WhaleEvent(kind, label, msgs)'.kind = kind
    BY DEF WhaleEvent
  <2> QED
    BY <2>1 DEF NoEvent, Kinds
<1>2. ASSUME NEW held, held = Within(buffer[<<label, Deposit>>], DepositWindow, at)',
             Len(held) >= DepositMinCount, TotalBtc(held)' >= DepositMinBtc
      PROVE  Duplicate(WhaleEvent("WH_EXCHANGE_DEPOSIT_BURST", label, held))'
  <2>1. PICK key \in Keys : key = <<label, Deposit>>
    BY DEF Keys
  <2>2. held = buffer'[key]
    BY <1>2, <2>1 DEF Trimmed
  <2>3. PICK burst : burst = WhaleEvent("WH_EXCHANGE_DEPOSIT_BURST", label, held)'
    OBVIOUS
  <2>4. Burst(key, buffer[key], at)' = burst
    BY <1>2, <2>1, <2>2, <2>3 DEF Burst
  <2>5. burst # NoEvent
    BY <1>1, <2>3 DEF Kinds
  <2>6. Settled(key, at)'
    OBVIOUS
  <2>7. Duplicate(burst)'
    BY <2>4, <2>5, <2>6 DEF Settled
  <2> QED
    BY <2>3, <2>7 DEF Duplicate
<1>3. ASSUME NEW held, held = Within(buffer[<<label, Withdrawal>>], OutflowWindow, at)',
             Len(held) >= OutflowMinCount, TotalBtc(held)' >= OutflowMinBtc
      PROVE  Duplicate(WhaleEvent("WH_EXCHANGE_BULK_OUTFLOW", label, held))'
  <2>1. PICK key \in Keys : key = <<label, Withdrawal>>
    BY DEF Keys
  <2>2. held = Within(buffer[key], OutflowWindow, at)'
    BY <1>3, <2>1
  <2>3. PICK burst : burst = WhaleEvent("WH_EXCHANGE_BULK_OUTFLOW", label, held)'
    OBVIOUS
  <2>4. Burst(key, buffer[key], at)' = burst
    BY <1>3, <2>1, <2>2, <2>3 DEF Burst, Deposit, Withdrawal
  <2>5. burst # NoEvent
    BY <1>1, <2>3 DEF Kinds
  <2>6. Settled(key, at)'
    OBVIOUS
  <2>7. Duplicate(burst)'
    BY <2>4, <2>5, <2>6 DEF Settled
  <2> QED
    BY <2>3, <2>7 DEF Duplicate
<1> QED
  BY <1>2, <1>3 DEF Reported

LEMMA EndedCheck ==
  ASSUME IInv, NEW at \in 0 .. now, CheckEndsAt(at) PROVE BurstsReportedAt(at)'
<1>1. PICK from, keys : Scans(from, keys, at) /\ pc'["checker"] = Resting
  <2>1. CASE StartCheck /\ at = now /\ pc'["checker"] = Resting
    BY <2>1, ScanSteps
  <2>2. CASE CommitQuery /\ at = checkedAt /\ pc'["checker"] = Resting
    BY <2>2, ScanSteps
  <2> QED
    BY <2>1, <2>2 DEF CheckEndsAt
<1>2. /\ TypeOK /\ keys \in SUBSET Keys /\ ScanKeys(from, keys, at)
      /\ UNCHANGED <<inbox, saved>>
      /\ \A key \in Keys \ keys : Trimmed(key, at) /\ Settled(key, at)
  BY <1>1 DEF Scans, IInv
<1>3. pc' # [pc EXCEPT !["checker"] = "duplicate"]
  BY <1>1 DEF IInv, TypeOK, Tasks, Resting
<1>4. \A key \in Keys : Trimmed(key, at)'
  BY <1>2, ScanBuffer
<1>5. \A key \in Keys : Settled(key, at)'
  BY <1>2, <1>3, Scan
<1> QED
  BY <1>4, <1>5, SettledIsReported

(* A check of _check_bursts that ends has reported every group of enough   *)
(* transactions, or found it in a burst reported before.                   *)
THEOREM GroupsAreReported == Spec => BurstsDetected
<1>1. IInv /\ [Next]_vars =>
        [\A at \in 0 .. now : CheckEndsAt(at) => BurstsReportedAt(at)']_vars
  BY EndedCheck
<1> QED
  BY <1>1, Invariant, PTL DEF Spec, BurstsDetected
=============================================================================
