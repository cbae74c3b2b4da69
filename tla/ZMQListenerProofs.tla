-------------------------- MODULE ZMQListenerProofs --------------------------
(***************************************************************************)
(* Theorems on ZMQListener, for every number of messages and starts, every *)
(* size of the sockets' queues and every range of the sequence numbers.    *)
(***************************************************************************)
EXTENDS ZMQListener, FiniteSetTheorems, TLAPS

Messages == [n : Nat, seq : 0 .. Wrap - 1, large : BOOLEAN]

(* A queue in order, of nothing newer than newest and nothing older than what*)
(* was received before.                                                    *)
InOrder(q, newest, before) ==
  /\ \A i, j \in DOMAIN q : i < j => q[i].n < q[j].n
  /\ \A i \in DOMAIN q :
       0 < q[i].n /\ q[i].n <= newest /\ \A w \in before : w < q[i].n
  /\ \A w \in before : w <= newest

AheadInv == InOrder(wire["rawtx"], sent["rawtx"], wanted)

(* The transaction in hand is later than all that are published.           *)
StreamInv ==
  /\ wanted \subseteq Nat \ {0} /\ dropped \subseteq wanted
  /\ published \in Seq(Nat)
  /\ hand # 0 => hand \in wanted \ dropped
  /\ \A i \in DOMAIN published : hand # 0 => published[i] < hand

IInv == TypeOK /\ AheadInv /\ StreamInv /\ PublishedExactly

-----------------------------------------------------------------------------
LEMMA AppendedTo ==
  ASSUME NEW s \in Seq(Nat), NEW n \in Nat
  PROVE  /\ Append(s, n) \in Seq(Nat)
         /\ ToSet(Append(s, n)) = ToSet(s) \union {n}
         /\ DOMAIN Append(s, n) = DOMAIN s \union {Len(s) + 1}
         /\ \A i \in DOMAIN s : Append(s, n)[i] = s[i] /\ i < Len(s) + 1
         /\ Append(s, n)[Len(s) + 1] = n
<1>1. /\ DOMAIN Append(s, n) = DOMAIN s \union {Len(s) + 1}
      /\ \A i \in DOMAIN s : Append(s, n)[i] = s[i] /\ i < Len(s) + 1
      /\ Append(s, n)[Len(s) + 1] = n /\ Append(s, n) \in Seq(Nat)
  OBVIOUS
<1>2. ToSet(Append(s, n)) = ToSet(s) \union {n}
  BY <1>1, Zenon DEF ToSet
<1> QED
  BY <1>1, <1>2

LEMMA MessageNumber ==
  ASSUME NEW q \in Seq(Messages), NEW i \in DOMAIN q PROVE q[i].n \in Nat
<1>1. q[i] \in Messages
  OBVIOUS
<1> QED
  BY <1>1 DEF Messages

LEMMA QueueGrows ==
  ASSUME NEW q \in Seq(Messages), NEW k \in Nat, NEW before \in SUBSET Nat,
         NEW m \in Messages, InOrder(q, k, before), m.n = k + 1
  PROVE  InOrder(Append(q, m), k + 1, before)
<1> DEFINE p == Append(q, m)
<1>1. /\ DOMAIN p = DOMAIN q \union {Len(q) + 1} /\ Len(q) \in Nat
      /\ \A i \in DOMAIN q : p[i] = q[i] /\ i < Len(q) + 1 /\ i \in Nat
      /\ p[Len(q) + 1] = m
  OBVIOUS
<1>2. \A i \in DOMAIN q : q[i].n \in Nat
  BY MessageNumber
<1> HIDE DEF p
<1>3. \A i, j \in DOMAIN p : i < j => p[i].n < p[j].n
  BY <1>1, <1>2 DEF InOrder
<1>4. \A i \in DOMAIN p : 0 < p[i].n /\ p[i].n <= k + 1 /\ \A w \in before : w < p[i].n
  BY <1>1, <1>2 DEF InOrder
<1>5. \A w \in before : w <= k + 1
  BY DEF InOrder
<1> QED
  BY <1>3, <1>4, <1>5 DEF InOrder, p

(* The head of the queue is received.                                      *)
LEMMA QueueShrinks ==
  ASSUME NEW q \in Seq(Messages), NEW k \in Nat, NEW before \in SUBSET Nat,
         q # << >>, InOrder(q, k, before)
  PROVE  /\ Head(q) \in Messages /\ Tail(q) \in Seq(Messages)
         /\ Head(q).n \in Nat \ {0} /\ \A w \in before : w < Head(q).n
         /\ InOrder(Tail(q), k, before)
         /\ InOrder(Tail(q), k, before \union {Head(q).n})
<1> DEFINE p == Tail(q)
<1>1. /\ p \in Seq(Messages) /\ Head(q) = q[1] /\ 1 \in DOMAIN q
      /\ \A i \in DOMAIN p :
           p[i] = q[i + 1] /\ i + 1 \in DOMAIN q /\ 1 < i + 1 /\ i \in Nat
  OBVIOUS
<1>2. Head(q) \in Messages /\ Head(q).n \in Nat
  BY <1>1, MessageNumber
<1> HIDE DEF p
<1>3. \A i, j \in DOMAIN p : i < j => p[i].n < p[j].n
  BY <1>1 DEF InOrder
<1>4. \A i \in DOMAIN p : /\ 0 < p[i].n /\ p[i].n <= k /\ Head(q).n < p[i].n
                          /\ \A w \in before : w < p[i].n
  BY <1>1 DEF InOrder
<1>5. 0 < Head(q).n /\ Head(q).n <= k /\ \A w \in before : w < Head(q).n /\ w <= k
  BY <1>1 DEF InOrder
<1>6. InOrder(p, k, before) /\ InOrder(p, k, before \union {Head(q).n})
  BY <1>3, <1>4, <1>5 DEF InOrder
<1> QED
  BY <1>1, <1>2, <1>5, <1>6 DEF p

LEMMA OrderWidens ==
  ASSUME NEW q \in Seq(Messages), NEW k \in Nat, NEW l \in Nat, k <= l,
         NEW before \in SUBSET Nat, InOrder(q, k, before)
  PROVE  InOrder(q, l, before)
<1>1. ASSUME NEW i \in DOMAIN q PROVE q[i].n <= l
  <2>1. q[i].n \in Nat
    BY MessageNumber
  <2>2. q[i].n <= k
    BY DEF InOrder
  <2> QED
    BY <2>1, <2>2
<1>2. ASSUME NEW w \in before PROVE w <= l
  <2>1. w \in Nat /\ w <= k
    BY DEF InOrder
  <2> QED
    BY <2>1
<1> QED
  BY <1>1, <1>2, Zenon DEF InOrder

LEMMA EmptyQueue ==
  ASSUME NEW q, NEW k, NEW before, InOrder(q, k, before)
  PROVE  InOrder(<< >>, k, before)
  BY DEF InOrder

LEMMA InitIInv == Init => IInv
<1> SUFFICES ASSUME Init PROVE IInv
  OBVIOUS
<1>1. TypeOK
  <2>1. /\ sent \in [Topics -> Nat] /\ base \in [Topics -> Nat]
        /\ missed \in [Topics -> Nat] /\ last \in [Topics -> {None} \union 0 .. Wrap - 1]
    BY DEF Init, PerTopic
  <2>2. wire \in [Topics -> Seq([n : Nat, seq : 0 .. Wrap - 1, large : BOOLEAN])]
    BY DEF Init, PerTopic
  <2>3. pc["rawtx"] = "down" /\ pc \in [Topics -> {"down"}]
    BY DEF Init, PerTopic, Topics
  <2>4. restarted \in BOOLEAN /\ running \in BOOLEAN /\ open \in BOOLEAN
    BY Zenon DEF Init
  <2>5. hand = 0 /\ starts \in 0 .. MaxStarts
    BY ZMQListenerAssumption DEF Init
  <2>6. hand \in Nat /\ (hand # 0 <=> pc["rawtx"] = "publish")
    BY <2>3, <2>5
  <2>7. pc \in [Topics -> {"down", "start", "recv", "publish", "sleep", "cancelled",
                            "ended"}]
    BY <2>3
  <2> QED
    BY <2>1, <2>2, <2>4, <2>5, <2>6, <2>7, Zenon DEF TypeOK
<1>2. AheadInv
  BY DEF Init, AheadInv, InOrder, PerTopic, Topics
<1>3. StreamInv /\ PublishedExactly
  BY DEF Init, StreamInv, PublishedExactly, ToSet
<1> QED
  BY <1>1, <1>2, <1>3 DEF IInv

-----------------------------------------------------------------------------
(* Steps beside the stream, that at most empty the sockets.                *)
LEMMA QuietStep ==
  ASSUME IInv, TypeOK', sent' = sent, hand' = hand, UNCHANGED streamVars,
         wire'["rawtx"] \in {wire["rawtx"], << >>}
  PROVE  IInv'
<1>1. AheadInv'
  BY EmptyQueue DEF IInv, AheadInv, streamVars
<1>2. StreamInv' /\ PublishedExactly'
  BY DEF IInv, StreamInv, PublishedExactly, streamVars
<1> QED
  BY <1>1, <1>2 DEF IInv

(* A publication ends: on the stream, or with the transaction lost.        *)
LEMMA HandIsEmptied ==
  ASSUME IInv, TypeOK', sent' = sent, wanted' = wanted, hand' = 0,
         wire'["rawtx"] \in {wire["rawtx"], << >>},
         \/ hand # 0 /\ published' = Append(published, hand) /\ dropped' = dropped
         \/ hand # 0 /\ published' = published /\ dropped' = dropped \union {hand}
         \/ hand = 0 /\ published' = published /\ dropped' = dropped
  PROVE  IInv'
<1>1. AheadInv'
  BY EmptyQueue DEF IInv, AheadInv
<1>2. /\ wanted \subseteq Nat \ {0} /\ dropped \subseteq wanted
      /\ published \in Seq(Nat) /\ hand \in Nat
      /\ hand # 0 => hand \in wanted \ dropped
      /\ \A i \in DOMAIN published : hand # 0 => published[i] < hand
      /\ ToSet(published) = wanted \ (dropped \union {hand})
      /\ \A i, j \in DOMAIN published : i < j => published[i] < published[j]
  BY DEF IInv, StreamInv, PublishedExactly, TypeOK
<1>3. CASE hand # 0 /\ published' = Append(published, hand) /\ dropped' = dropped
  <2>1. /\ published' \in Seq(Nat)
        /\ ToSet(published') = ToSet(published) \union {hand}
        /\ DOMAIN published' = DOMAIN published \union {Len(published) + 1}
        /\ \A i \in DOMAIN published :
             published'[i] = published[i] /\ i < Len(published) + 1
        /\ published'[Len(published) + 1] = hand
    BY <1>2, <1>3, AppendedTo
  <2>2. StreamInv'
    BY <1>2, <1>3, <2>1 DEF StreamInv
  <2>3. ToSet(published)' = wanted' \ (dropped' \union {hand'})
    BY <1>2, <1>3, <2>1
  <2>4. \A i, j \in DOMAIN published' : i < j => published'[i] < published'[j]
    BY <1>2, <1>3, <2>1
  <2> QED
    BY <1>1, <2>2, <2>3, <2>4 DEF IInv, PublishedExactly
<1>4. CASE published' = published
  <2>1. StreamInv'
    BY <1>2, <1>4 DEF StreamInv
  <2>2. PublishedExactly'
    BY <1>2, <1>4 DEF PublishedExactly
  <2> QED
    BY <1>1, <2>1, <2>2 DEF IInv
<1> QED
  BY <1>3, <1>4

-----------------------------------------------------------------------------
LEMMA NodePublishesKeeps ==
  ASSUME IInv, NEW t \in Topics, NEW large \in BOOLEAN, NodePublishes(t, large)
  PROVE  IInv'
<1>1. sent[t] \in Nat /\ base[t] \in Nat /\ Wrap \in Nat \ {0}
  BY ZMQListenerAssumption DEF IInv, TypeOK
<1>2. sent' = [sent EXCEPT ![t] = @ + 1] /\ sent'[t] = sent[t] + 1
  BY DEF NodePublishes, IInv, TypeOK
<1>3. (sent[t] - base[t]) % Wrap \in 0 .. Wrap - 1
  BY <1>1
<1>4. PICK m \in [n : Nat, seq : 0 .. Wrap - 1, large : BOOLEAN] :
        m.n = sent[t] + 1 /\ wire' \in {wire, [wire EXCEPT ![t] = Append(@, m)]}
  BY <1>1, <1>2, <1>3 DEF NodePublishes
<1>5. wire \in [Topics -> Seq([n : Nat, seq : 0 .. Wrap - 1, large : BOOLEAN])]
  BY DEF IInv, TypeOK
<1>6. TypeOK'
  <2>1. wire' \in [Topics -> Seq(Messages)]
    <3>1. m \in Messages /\ wire \in [Topics -> Seq(Messages)]
      BY <1>4, <1>5 DEF Messages
    <3>2. Append(wire[t], m) \in Seq(Messages)
      BY <3>1
    <3>3. wire' = wire \/ wire' = [wire EXCEPT ![t] = Append(wire[t], m)]
      BY <1>4
    <3> QED
      BY <3>1, <3>2, <3>3
  <2>2. sent' \in [Topics -> Nat]
    BY <1>2 DEF IInv, TypeOK
  <2> QED
    BY <2>1, <2>2 DEF NodePublishes, IInv, TypeOK, procVars, Messages
<1>7. AheadInv'
  <2>1. wanted' = wanted /\ "rawtx" \in Topics
    BY DEF NodePublishes, streamVars, Topics
  <2>2. /\ sent["rawtx"] \in Nat /\ wanted \in SUBSET Nat
        /\ wire["rawtx"] \in Seq(Messages)
    BY <1>5, <2>1 DEF IInv, TypeOK, StreamInv, Messages
  <2>3. sent'["rawtx"] \in Nat /\ sent["rawtx"] <= sent'["rawtx"]
    BY <1>1, <1>2, <2>2 DEF IInv, TypeOK
  <2>4. CASE wire'["rawtx"] = wire["rawtx"]
    <3>1. InOrder(wire["rawtx"], sent["rawtx"], wanted)
      BY DEF IInv, AheadInv
    <3>2. InOrder(wire["rawtx"], sent'["rawtx"], wanted)
      BY <2>2, <2>3, <3>1, OrderWidens
    <3> QED
      BY <2>1, <2>4, <3>2 DEF AheadInv
  <2>5. CASE t = "rawtx" /\ wire'["rawtx"] = Append(wire["rawtx"], m)
    <3>1. m \in Messages /\ m.n = sent["rawtx"] + 1 /\ sent'["rawtx"] = sent["rawtx"] + 1
      BY <1>2, <1>4, <2>5 DEF Messages
    <3>2. InOrder(Append(wire["rawtx"], m), sent["rawtx"] + 1, wanted)
      BY <2>2, <3>1, QueueGrows DEF IInv, AheadInv
    <3> QED
      BY <2>1, <2>5, <3>1, <3>2 DEF AheadInv
  <2> QED
    BY <1>4, <1>5, <2>1, <2>4, <2>5
<1>8. StreamInv' /\ PublishedExactly'
  BY DEF NodePublishes, procVars, streamVars, IInv, StreamInv, PublishedExactly
<1> QED
  BY <1>6, <1>7, <1>8 DEF IInv

-----------------------------------------------------------------------------
LEMMA FlagsKeep ==
  ASSUME TypeOK, [Next]_vars
  PROVE  restarted' \in BOOLEAN /\ running' \in BOOLEAN /\ open' \in BOOLEAN
<1>1. restarted \in BOOLEAN /\ running \in BOOLEAN /\ open \in BOOLEAN
  BY Zenon DEF TypeOK
<1>2. CASE UNCHANGED vars
  BY <1>1, <1>2, Zenon DEF vars, nodeVars, procVars
<1>3. CASE Next
  BY <1>1, <1>3, Zenon DEF Next, NodePublishes, NodeRestarts, Start, Connected, Loop,
     Receive, ReceiveFails, SleepOver, Publish, PublishFails, Stop, Finished,
     Crash, Exit, nodeVars, procVars
<1> QED
  BY <1>2, <1>3

(* The numbers and places of TypeOK.                                       *)
PlacesOK ==
  /\ sent \in [Topics -> Nat] /\ base \in [Topics -> Nat]
  /\ wire \in [Topics -> Seq(Messages)]
  /\ pc \in [Topics -> {"down", "start", "recv", "publish", "sleep", "cancelled",
                        "ended"}]
  /\ last \in [Topics -> {None} \union 0 .. Wrap - 1]
  /\ missed \in [Topics -> Nat]
  /\ hand \in Nat /\ (hand # 0 <=> pc["rawtx"] = "publish")
  /\ starts \in 0 .. MaxStarts

LEMMA TypesOf == TypeOK => PlacesOK
  BY Zenon DEF TypeOK, PlacesOK, Messages

LEMMA TypesTo ==
  ASSUME TypeOK, [Next]_vars, PlacesOK' PROVE TypeOK'
<1>1. restarted' \in BOOLEAN /\ running' \in BOOLEAN /\ open' \in BOOLEAN
  BY FlagsKeep
<1> QED
  BY <1>1, Zenon DEF TypeOK, PlacesOK, Messages

-----------------------------------------------------------------------------
LEMMA BesidePreserves ==
  ASSUME IInv, Next,
         \/ NodeRestarts \/ Start \/ Connected \/ Stop
         \/ \E t \in Topics : ReceiveFails(t) \/ SleepOver(t)
  PROVE  IInv'
<1>1. PlacesOK /\ "rawtx" \in Topics
  BY TypesOf DEF IInv, Topics
<1>2. CASE NodeRestarts
  <2>1. /\ base' = sent
        /\ UNCHANGED <<sent, wire, pc, last, missed, hand, starts, streamVars>>
    BY <1>2 DEF NodeRestarts, procVars
  <2>2. PlacesOK'
    BY <1>1, <2>1 DEF PlacesOK
  <2> QED
    BY <2>1, <2>2, TypesTo, QuietStep DEF IInv
<1>3. CASE Start \/ Connected
  <2>1. /\ UNCHANGED <<sent, base, wire, last, missed, hand, streamVars>>
        /\ pc["rawtx"] \in {"down", "start"}
        /\ pc' \in {PerTopic("start"), PerTopic("recv")}
        /\ starts' \in {starts, starts + 1} /\ (starts' # starts => starts < MaxStarts)
    BY <1>3 DEF Start, Connected, nodeVars
  <2>2. pc' \in [Topics -> {"start", "recv"}]
    BY <2>1 DEF PerTopic
  <2>3. starts' \in 0 .. MaxStarts
    BY <1>1, <2>1, ZMQListenerAssumption DEF PlacesOK
  <2>4. hand = 0 /\ pc'["rawtx"] # "publish"
    BY <1>1, <2>1, <2>2 DEF PlacesOK
  <2>5. pc' \in [Topics -> {"down", "start", "recv", "publish", "sleep", "cancelled",
                           "ended"}]
    BY <2>2
  <2>6. PlacesOK'
    BY <1>1, <2>1, <2>3, <2>4, <2>5 DEF PlacesOK
  <2> QED
    BY <2>1, <2>6, TypesTo, QuietStep DEF IInv
<1>4. CASE Stop
  <2>1. /\ UNCHANGED <<sent, base, last, missed, hand, starts, streamVars>>
        /\ wire' = PerTopic(<< >>)
        /\ pc' = [t \in Topics |-> IF pc[t] = "recv" THEN "cancelled" ELSE pc[t]]
    BY <1>4 DEF Stop, nodeVars
  <2>2. wire' \in [Topics -> Seq(Messages)] /\ wire'["rawtx"] = << >>
    BY <1>1, <2>1 DEF PerTopic
  <2>3. PlacesOK'
    BY <1>1, <2>1, <2>2 DEF PlacesOK
  <2> QED
    BY <2>1, <2>2, <2>3, TypesTo, QuietStep DEF IInv
<1>5. ASSUME NEW t \in Topics, ReceiveFails(t) \/ SleepOver(t) PROVE IInv'
  <2>1. /\ UNCHANGED <<sent, base, wire, last, missed, hand, starts, streamVars>>
        /\ pc[t] \in {"recv", "sleep"}
    BY <1>5 DEF ReceiveFails, SleepOver, nodeVars
  <2>2. PICK to \in {"recv", "sleep", "ended"} : pc' = [pc EXCEPT ![t] = to]
    BY <1>5, Zenon DEF ReceiveFails, SleepOver, LoopGoesOn
  <2>3. PlacesOK'
    BY <1>1, <2>1, <2>2 DEF PlacesOK
  <2> QED
    BY <2>1, <2>3, TypesTo, QuietStep DEF IInv
<1> QED
  BY <1>2, <1>3, <1>4, <1>5

LEMMA PublicationPreserves ==
  ASSUME IInv, Next, Publish \/ PublishFails PROVE IInv'
<1>1. PlacesOK /\ "rawtx" \in Topics
  BY TypesOf DEF IInv, Topics
<1>2. /\ UNCHANGED <<sent, base, wire, last, missed, starts, wanted>>
      /\ pc["rawtx"] = "publish" /\ hand' = 0
      /\ \/ published' = Append(published, hand) /\ dropped' = dropped
         \/ published' = published /\ dropped' = dropped \union {hand}
  BY DEF Publish, PublishFails, nodeVars
<1>3. PICK to \in {"recv", "ended"} : pc' = [pc EXCEPT !["rawtx"] = to]
  BY Zenon DEF Publish, PublishFails, LoopGoesOn
<1>4. PlacesOK'
  BY <1>1, <1>2, <1>3 DEF PlacesOK
<1>5. hand # 0
  BY <1>1, <1>2 DEF PlacesOK
<1> QED
  BY <1>2, <1>4, <1>5, TypesTo, HandIsEmptied DEF IInv

LEMMA ExitPreserves ==
  ASSUME IInv, Next, Exit PROVE IInv'
<1>1. PlacesOK /\ "rawtx" \in Topics
  BY TypesOf DEF IInv, Topics
<1>2. /\ UNCHANGED <<sent, base, starts, wanted>>
      /\ pc' = PerTopic("down") /\ wire' = PerTopic(<< >>)
      /\ last' = PerTopic(None) /\ missed' = PerTopic(0) /\ hand' = 0
      /\ \/ hand # 0 /\ published' = Append(published, hand) /\ dropped' = dropped
         \/ hand # 0 /\ published' = published /\ dropped' = dropped \union {hand}
         \/ hand = 0 /\ published' = published /\ dropped' = dropped
  BY DEF Exit, nodeVars
<1>3. /\ wire' \in [Topics -> Seq(Messages)] /\ wire'["rawtx"] = << >>
      /\ pc' \in [Topics -> {"down"}] /\ pc'["rawtx"] = "down"
      /\ last' \in [Topics -> {None} \union 0 .. Wrap - 1]
      /\ missed' \in [Topics -> Nat]
  BY <1>1, <1>2 DEF PerTopic
<1>4. PlacesOK'
  BY <1>1, <1>2, <1>3 DEF PlacesOK
<1> QED
  BY <1>2, <1>3, <1>4, TypesTo, HandIsEmptied DEF IInv

LEMMA GapIsNatural ==
  ASSUME NEW a \in 0 .. Wrap - 1, NEW b \in {None} \union 0 .. Wrap - 1
  PROVE  Gap(a, b) \in Nat
  BY ZMQListenerAssumption DEF Gap, None

(* A message is received: the head of the queue, the newest of all heard.  *)
LEMMA ReceivePreserves ==
  ASSUME IInv, Next, NEW t \in Topics, Receive(t) PROVE IInv'
<1>1. PlacesOK /\ "rawtx" \in Topics
  BY TypesOf DEF IInv, Topics
<1>2. wire[t] \in Seq(Messages) /\ wire[t] # << >>
  BY <1>1 DEF PlacesOK, Receive
<1>3. Head(wire[t]) \in Messages /\ Tail(wire[t]) \in Seq(Messages)
  BY <1>2
<1>4. PICK m \in Messages : m = Head(wire[t])
  BY <1>3
<1>5. /\ UNCHANGED <<sent, base, starts, published, dropped>>
      /\ pc[t] = "recv" /\ wire' = [wire EXCEPT ![t] = Tail(@)]
      /\ missed' = [missed EXCEPT ![t] = @ + Gap(m.seq, last[t])]
      /\ last' = [last EXCEPT ![t] = m.seq]
      /\ \/ /\ t = "rawtx" /\ wanted' = wanted \union {m.n} /\ hand' = m.n
            /\ pc' = [pc EXCEPT ![t] = "publish"]
         \/ wanted' = wanted /\ hand' = hand /\ pc' = pc
  BY <1>4, Zenon DEF Receive, WorthPublishing, nodeVars
<1>6. m.seq \in 0 .. Wrap - 1 /\ m.n \in Nat /\ Gap(m.seq, last[t]) \in Nat
  BY <1>1, GapIsNatural DEF PlacesOK, Messages
<1>7. /\ sent["rawtx"] \in Nat /\ wanted \in SUBSET Nat /\ dropped \subseteq wanted
      /\ InOrder(wire["rawtx"], sent["rawtx"], wanted)
  BY <1>1 DEF PlacesOK, IInv, StreamInv, AheadInv
<1>8. wire' \in [Topics -> Seq(Messages)]
  BY <1>1, <1>3, <1>5 DEF PlacesOK
<1>9. missed' \in [Topics -> Nat] /\ last' \in [Topics -> {None} \union 0 .. Wrap - 1]
  BY <1>1, <1>5, <1>6 DEF PlacesOK
<1>10. CASE /\ t = "rawtx" /\ wanted' = wanted \union {m.n} /\ hand' = m.n
            /\ pc' = [pc EXCEPT ![t] = "publish"]
  <2>1. /\ \A w \in wanted : w < m.n
        /\ InOrder(Tail(wire["rawtx"]), sent["rawtx"], wanted \union {m.n})
        /\ m.n \in Nat \ {0}
    BY <1>2, <1>4, <1>7, <1>10, QueueShrinks
  <2>2. AheadInv'
    BY <1>1, <1>5, <1>10, <2>1 DEF AheadInv, PlacesOK
  <2>3. hand = 0
    BY <1>1, <1>5, <1>10 DEF PlacesOK
  <2>4. m.n \notin wanted /\ m.n \notin dropped
    BY <1>6, <1>7, <2>1
  <2>5. /\ wanted \subseteq Nat \ {0} /\ published \in Seq(Nat)
        /\ ToSet(published) = wanted \ dropped
        /\ \A i, j \in DOMAIN published : i < j => published[i] < published[j]
    BY <2>3 DEF IInv, StreamInv, PublishedExactly
  <2>6. \A i \in DOMAIN published : published[i] \in wanted
    BY <2>5, Zenon DEF ToSet
  <2>7. StreamInv'
    BY <1>5, <1>6, <1>7, <1>10, <2>1, <2>4, <2>5, <2>6 DEF StreamInv
  <2>8. wanted' \ (dropped' \union {hand'}) = wanted \ dropped
    BY <1>5, <1>10, <2>4
  <2>9. PublishedExactly'
    BY <1>5, <2>5, <2>8 DEF PublishedExactly
  <2>10. PlacesOK'
    <3>1. hand' \in Nat /\ hand' # 0 /\ pc'["rawtx"] = "publish"
      BY <1>1, <1>10, <2>1 DEF PlacesOK
    <3> QED
      BY <1>1, <1>5, <1>8, <1>9, <1>10, <3>1 DEF PlacesOK
  <2> QED
    BY <2>2, <2>7, <2>9, <2>10, TypesTo DEF IInv
<1>11. CASE wanted' = wanted /\ hand' = hand /\ pc' = pc
  <2>1. PlacesOK'
    BY <1>1, <1>5, <1>8, <1>9, <1>11 DEF PlacesOK
  <2>2. CASE t = "rawtx"
    <3>1. InOrder(Tail(wire["rawtx"]), sent["rawtx"], wanted)
      BY <1>2, <1>7, <2>2, QueueShrinks
    <3>2. AheadInv'
      BY <1>1, <1>5, <1>11, <2>2, <3>1 DEF AheadInv, PlacesOK
    <3>3. StreamInv' /\ PublishedExactly'
      BY <1>5, <1>11 DEF IInv, StreamInv, PublishedExactly
    <3> QED
      BY <2>1, <3>2, <3>3, TypesTo DEF IInv
  <2>3. CASE t # "rawtx"
    <3>1. wire'["rawtx"] = wire["rawtx"]
      BY <1>1, <1>5, <2>3 DEF PlacesOK
    <3>2. UNCHANGED streamVars
      BY <1>5, <1>11 DEF streamVars
    <3> QED
      BY <1>5, <1>11, <2>1, <3>1, <3>2, TypesTo, QuietStep DEF IInv
  <2> QED
    BY <2>2, <2>3
<1> QED
  BY <1>5, <1>10, <1>11

-----------------------------------------------------------------------------
LEMMA NextIInv == IInv /\ [Next]_vars => IInv'
<1> SUFFICES ASSUME IInv, [Next]_vars PROVE IInv'
  OBVIOUS
<1>1. ASSUME NEW t \in Topics, NEW large \in BOOLEAN, NodePublishes(t, large)
      PROVE  IInv'
  BY <1>1, NodePublishesKeeps
<1>2. ASSUME Next, NodeRestarts \/ Start \/ Connected \/ Stop PROVE IInv'
  BY <1>2, BesidePreserves
<1>3. ASSUME Next, NEW t \in Topics, Loop(t) PROVE IInv'
  BY <1>3, BesidePreserves, ReceivePreserves DEF Loop
<1>4. ASSUME Next, Publish \/ PublishFails PROVE IInv'
  BY <1>4, PublicationPreserves
<1>5. ASSUME Next, Finished \/ Crash PROVE IInv'
  BY <1>5, ExitPreserves DEF Finished, Crash
<1>6. CASE UNCHANGED vars
  <2>1. PlacesOK'
    BY <1>6, TypesOf DEF IInv, PlacesOK, vars, nodeVars, procVars
  <2> QED
    BY <1>6, <2>1, TypesTo, QuietStep DEF IInv, vars, nodeVars, procVars
<1> QED
  BY <1>1, <1>2, <1>3, <1>4, <1>5, <1>6 DEF Next

THEOREM Invariant == Spec => []IInv
<1> QED
  BY InitIInv, NextIInv, PTL DEF Spec

-----------------------------------------------------------------------------
(* Every variable keeps its type; in particular a gap is never negative.   *)
THEOREM TypeCorrect == Spec => []TypeOK
<1>1. IInv => TypeOK
  BY DEF IInv
<1> QED
  BY Invariant, <1>1, PTL

(* Of the large transactions received, exactly those are on the stream that*)
(* no failure and no end of the process lost, each once and in the order of*)
(* the node, over any number of starts.                                    *)
THEOREM ExactlyPublished == Spec => []PublishedExactly
<1>1. IInv => PublishedExactly
  BY DEF IInv
<1> QED
  BY Invariant, <1>1, PTL

-----------------------------------------------------------------------------
(* Division with rest by the range of the sequence numbers.                *)
LEMMA Division ==
  ASSUME NEW w \in Nat \ {0}, NEW x \in Int
  PROVE  x % w \in 0 .. w - 1 /\ \E q \in Int : x = q * w + (x % w)
<1>1. x % w \in 0 .. w - 1
  OBVIOUS
<1>2. x = (x \div w) * w + (x % w) /\ x \div w \in Int
  OBVIOUS
<1> QED
  BY <1>1, <1>2

LEMMA MultipleIsFar ==
  ASSUME NEW w \in Nat \ {0}, NEW d \in Int, d # 0
  PROVE  d * w >= w \/ d * w <= - w
<1>1. CASE d >= 1
  BY <1>1
<1>2. CASE d <= -1
  BY <1>2
<1> QED
  BY <1>1, <1>2

LEMMA RestIsUnique ==
  ASSUME NEW w \in Nat \ {0}, NEW x \in Int, NEW q \in Int, NEW r \in 0 .. w - 1,
         x = q * w + r
  PROVE  x % w = r
<1>1. PICK p \in Int : x = p * w + (x % w)
  BY Division
<1>2. (p - q) * w = r - (x % w) /\ x % w \in 0 .. w - 1
  BY <1>1, Division
<1>3. p - q = 0
  BY <1>2, MultipleIsFar
<1> QED
  BY <1>1, <1>3

(* The gap between two sequence numbers is that between the messages, up to*)
(* a multiple of the range and never more.                                 *)
LEMMA GapOfNumbers ==
  ASSUME NEW n \in Nat, NEW high \in Nat, high < n
  PROVE  LET g == Gap((n - 1) % Wrap, (high - 1) % Wrap)
         IN  /\ g \in Nat /\ g <= n - 1 - high
             /\ \E c \in Int : n - 1 - high = c * Wrap + g
<1> DEFINE a == (n - 1) % Wrap
           b == (high - 1) % Wrap
           x == a - (b + 1)
<1>1. Wrap \in Nat \ {0}
  BY ZMQListenerAssumption
<1>0. \A i \in Int : \E d \in Int : i = d * Wrap + (i % Wrap)
  BY <1>1, Division
<1>2. PICK p \in Int : n - 1 = p * Wrap + a
  <2>1. n - 1 \in Int
    OBVIOUS
  <2> QED
    BY <1>0, <2>1
<1>3. PICK q \in Int : high - 1 = q * Wrap + b
  <2>1. high - 1 \in Int
    OBVIOUS
  <2> QED
    BY <1>0, <2>1
<1>4. a \in 0 .. Wrap - 1 /\ b \in 0 .. Wrap - 1
  BY <1>1, Division
<1>5. Gap(a, b) = x % Wrap
  BY <1>4 DEF Gap, None
<1> HIDE DEF a, b
<1>6. x \in Int
  BY <1>1, <1>4
<1> HIDE DEF x
<1>7. PICK s \in Int : x = s * Wrap + (x % Wrap)
  BY <1>1, <1>6, Division
<1>8. x % Wrap \in 0 .. Wrap - 1
  BY <1>1, <1>6, Division
<1>9. n - 1 - high = (p - q + s) * Wrap + (x % Wrap) /\ p - q + s \in Int
  <2>1. n - 1 - high = (p * Wrap + a) - (q * Wrap + b) - 1
    BY <1>2, <1>3
  <2>2. n - 1 - high = p * Wrap - q * Wrap + x
    BY <2>1, <1>1, <1>4 DEF x
  <2> QED
    BY <1>1, <1>7, <1>8, <2>2
<1>10. x % Wrap <= n - 1 - high
  <2>1. PICK c \in Int : c = p - q + s
    BY <1>9
  <2>2. n - 1 - high = c * Wrap + (x % Wrap) /\ n - 1 - high >= 0
    BY <1>9, <2>1
  <2>3. ~ (c <= -1)
    <3> SUFFICES ASSUME c <= -1 PROVE FALSE
      OBVIOUS
    <3>1. c * Wrap <= - Wrap
      BY <1>1
    <3> QED
      BY <1>1, <1>8, <2>2, <3>1
  <2>4. c * Wrap >= 0
    BY <1>1, <2>3
  <2> QED
    BY <1>1, <1>8, <2>2, <2>4
<1> QED
  BY <1>5, <1>8, <1>9, <1>10 DEF a, b

-----------------------------------------------------------------------------
(* What a listener that has heard the messages of h, the first and the last*)
(* of them low and high, holds in last and missed.                         *)
Exact(h, before, count) ==
  \E low, high \in h :
    /\ \A n \in h : low <= n /\ n <= high
    /\ before = (high - 1) % Wrap
    /\ LET missing == {n \in low .. high : n \notin h}
       IN  /\ count <= Cardinality(missing)
           /\ \E c \in Int : Cardinality(missing) - count = c * Wrap

LEMMA FirstHeard ==
  ASSUME NEW n \in Nat
  PROVE  Exact({n}, (n - 1) % Wrap, 0)
<1>1. {i \in n .. n : i \notin {n}} = {}
  OBVIOUS
<1>2. Cardinality({i \in n .. n : i \notin {n}}) = 0
  BY <1>1, FS_EmptySet
<1>3. Wrap \in Nat /\ 0 - 0 = 0 * Wrap
  BY ZMQListenerAssumption
<1> QED
  BY <1>2, <1>3 DEF Exact

(* Between the last message and a later one lie those that are added to the*)
(* missing.                                                                *)
LEMMA LaterHeard ==
  ASSUME NEW h \in SUBSET Nat, NEW n \in Nat, \A w \in h : w < n,
         NEW before, NEW count \in Nat, Exact(h, before, count)
  PROVE  Exact(h \union {n}, (n - 1) % Wrap, count + Gap((n - 1) % Wrap, before))
<1>1. PICK low \in h, high \in h :
        /\ \A i \in h : low <= i /\ i <= high
        /\ before = (high - 1) % Wrap
        /\ LET missing == {i \in low .. high : i \notin h}
           IN  /\ count <= Cardinality(missing)
               /\ \E c \in Int : Cardinality(missing) - count = c * Wrap
  BY DEF Exact
<1> DEFINE missing == {i \in low .. high : i \notin h}
           between == high + 1 .. n - 1
           more == {i \in low .. n : i \notin h \union {n}}
           g == Gap((n - 1) % Wrap, before)
<1>2. low \in Nat /\ high \in Nat /\ low <= high /\ high < n
  BY <1>1
<1>3. more = missing \union between /\ missing \intersect between = {}
  BY <1>1, <1>2
<1>4. /\ IsFiniteSet(missing) /\ IsFiniteSet(between)
      /\ Cardinality(between) = n - 1 - high /\ Cardinality(missing) \in Nat
  <2>1. IsFiniteSet(low .. high) /\ missing \in SUBSET (low .. high)
    BY <1>2, FS_Interval
  <2>2. IsFiniteSet(missing)
    BY <2>1, FS_Subset
  <2>3. IsFiniteSet(between) /\ Cardinality(between) = n - 1 - high
    BY <1>2, FS_Interval
  <2> QED
    BY <2>2, <2>3, FS_CardinalityType
<1>5. Cardinality(more) = Cardinality(missing) + (n - 1 - high)
  <2>1. Cardinality(missing \intersect between) = 0
    BY <1>3, FS_EmptySet
  <2>2. Cardinality(missing \union between)
          = Cardinality(missing) + Cardinality(between)
            - Cardinality(missing \intersect between)
    BY <1>4, FS_Union
  <2> HIDE DEF missing, between, more
  <2> QED
    BY <1>2, <1>3, <1>4, <2>1, <2>2
<1>6. /\ count <= Cardinality(missing)
      /\ \E c \in Int : Cardinality(missing) - count = c * Wrap
  BY <1>1
<1> HIDE DEF missing, between
<1>7. g \in Nat /\ g <= n - 1 - high /\ \E c \in Int : n - 1 - high = c * Wrap + g
  BY <1>1, <1>2, GapOfNumbers
<1> HIDE DEF g, more
<1>8. count + g <= Cardinality(more)
  BY <1>2, <1>4, <1>5, <1>6, <1>7
<1>9. \E c \in Int : Cardinality(more) - (count + g) = c * Wrap
  <2>1. PICK c \in Int : Cardinality(missing) - count = c * Wrap
    BY <1>6
  <2>2. PICK d \in Int : n - 1 - high = d * Wrap + g
    BY <1>7
  <2>3. Wrap \in Nat
    BY ZMQListenerAssumption
  <2>4. Cardinality(more) - (count + g) = (c + d) * Wrap /\ c + d \in Int
    BY <1>2, <1>4, <1>5, <1>7, <2>1, <2>2, <2>3
  <2> QED
    BY <2>4
<1>10. low \in h \union {n} /\ n \in h \union {n}
       /\ \A i \in h \union {n} : low <= i /\ i <= n
  BY <1>1, <1>2
<1> QED
  BY <1>8, <1>9, <1>10 DEF Exact, more, g

(* Exact is what MissedExact says.                                         *)
LEMMA ExactIsExact ==
  ASSUME NEW h \in SUBSET Nat, NEW before, NEW count \in Nat,
         Exact(h, before, count)
  PROVE  LET missing == {n \in Min(h) .. Max(h) : n \notin h}
         IN  /\ count <= Cardinality(missing)
             /\ (Cardinality(missing) - count) % Wrap = 0
<1>1. PICK low \in h, high \in h :
        /\ \A i \in h : low <= i /\ i <= high
        /\ LET missing == {i \in low .. high : i \notin h}
           IN  /\ count <= Cardinality(missing)
               /\ \E c \in Int : Cardinality(missing) - count = c * Wrap
  BY DEF Exact
<1>2. Min(h) = low
  <2>1. \A x \in h : (\A y \in h : x <= y) => x = low
    BY <1>1
  <2> QED
    BY <1>1, <2>1 DEF Min
<1>3. Max(h) = high
  <2>1. \A x \in h : (\A y \in h : x >= y) => x = high
    BY <1>1
  <2>2. \A y \in h : high >= y
    BY <1>1
  <2> QED
    BY <1>1, <2>1, <2>2 DEF Max
<1> DEFINE missing == {i \in low .. high : i \notin h}
<1>4. Cardinality(missing) \in Nat
  <2>1. IsFiniteSet(low .. high) /\ missing \in SUBSET (low .. high)
    BY FS_Interval
  <2> QED
    BY <2>1, FS_Subset, FS_CardinalityType
<1>5. count <= Cardinality(missing)
      /\ \E c \in Int : Cardinality(missing) - count = c * Wrap
  BY <1>1
<1> HIDE DEF missing
<1>6. (Cardinality(missing) - count) % Wrap = 0
  <2>1. PICK c \in Int : Cardinality(missing) - count = c * Wrap
    BY <1>5
  <2>2. Wrap \in Nat \ {0}
    BY ZMQListenerAssumption
  <2>3. Cardinality(missing) - count = c * Wrap + 0 /\ 0 \in 0 .. Wrap - 1
    BY <2>1, <2>2
  <2> QED
    BY <1>4, <2>2, <2>3, RestIsUnique
<1> QED
  BY <1>2, <1>3, <1>5, <1>6 DEF missing


-----------------------------------------------------------------------------
(* As long as the node numbers on: the numbers of what is under way follow *)
(* from its place in the order, all of it is later than what was heard, and*)
(* the counts are exact.                                                   *)
Numbered(q) == \A i \in DOMAIN q : q[i].seq = (q[i].n - 1) % Wrap

HeardInv(t) ==
  /\ heard[t] \in SUBSET Nat /\ base[t] = 0
  /\ Numbered(wire[t]) /\ InOrder(wire[t], sent[t], heard[t])
  /\ heard[t] = {} => last[t] = None /\ missed[t] = 0
  /\ heard[t] # {} => Exact(heard[t], last[t], missed[t])

CountInv ==
  heard \in [Topics -> SUBSET Nat] /\ (restarted \/ \A t \in Topics : HeardInv(t))

LEMMA InitCountInv == Init => CountInv
<1> SUFFICES ASSUME Init, NEW t \in Topics PROVE HeardInv(t)
  BY DEF CountInv, Init, PerTopic
<1> QED
  BY DEF Init, HeardInv, PerTopic, Numbered, InOrder

LEMMA EmptyIsNumbered == Numbered(<< >>)
  BY DEF Numbered

(* Steps in which nothing is heard, that at most empty the sockets.        *)
LEMMA NothingHeard ==
  ASSUME CountInv, UNCHANGED <<sent, base, restarted, last, missed, heard>>,
         \A t \in Topics : wire'[t] \in {wire[t], << >>}
  PROVE  CountInv'
<1> SUFFICES ASSUME ~ restarted, NEW t \in Topics PROVE HeardInv(t)'
  BY DEF CountInv
<1>1. HeardInv(t)
  BY DEF CountInv
<1>2. Numbered(wire'[t]) /\ InOrder(wire'[t], sent[t], heard[t])
  BY <1>1, EmptyIsNumbered, EmptyQueue DEF HeardInv
<1> QED
  BY <1>1, <1>2 DEF HeardInv

(* A new process has heard nothing.                                        *)
LEMMA ExitForgets ==
  ASSUME CountInv, Exit
  PROVE  CountInv'
<1>1. /\ UNCHANGED <<sent, base, restarted>> /\ wire' = PerTopic(<< >>)
      /\ last' = PerTopic(None) /\ missed' = PerTopic(0) /\ heard' = PerTopic({})
  BY DEF Exit, nodeVars
<1> SUFFICES ASSUME ~ restarted, NEW t \in Topics PROVE HeardInv(t)'
  BY <1>1 DEF CountInv, PerTopic
<1>2. /\ wire'[t] = << >> /\ last'[t] = None /\ missed'[t] = 0 /\ heard'[t] = {}
      /\ base'[t] = 0 /\ sent'[t] = sent[t]
  BY <1>1 DEF CountInv, HeardInv, PerTopic
<1>3. InOrder(<< >>, sent[t], {})
  BY DEF InOrder
<1> QED
  BY <1>2, <1>3, EmptyIsNumbered DEF HeardInv

LEMMA NodePublishesNumbers ==
  ASSUME CountInv, PlacesOK, NEW t \in Topics, NEW large \in BOOLEAN,
         NodePublishes(t, large)
  PROVE  CountInv'
<1>1. /\ UNCHANGED <<base, restarted, last, missed, heard>>
      /\ sent' = [sent EXCEPT ![t] = @ + 1]
  BY DEF NodePublishes, procVars
<1> SUFFICES ASSUME ~ restarted, NEW u \in Topics PROVE HeardInv(u)'
  BY <1>1 DEF CountInv
<1>2. HeardInv(u) /\ HeardInv(t)
  BY DEF CountInv
<1>3. /\ sent[u] \in Nat /\ wire[u] \in Seq(Messages) /\ sent[t] \in Nat /\ base[t] = 0
      /\ sent'[u] = IF u = t THEN sent[u] + 1 ELSE sent[u]
  BY <1>1, <1>2 DEF PlacesOK, HeardInv
<1>4. PICK m : m = [n |-> sent[t] + 1, seq |-> sent[t] % Wrap, large |-> large]
  OBVIOUS
<1>5. m \in Messages /\ m.n = sent[t] + 1 /\ m.seq = (m.n - 1) % Wrap
  BY <1>3, <1>4, ZMQListenerAssumption DEF Messages
<1>6. wire' = wire \/ wire' = [wire EXCEPT ![t] = Append(wire[t], m)]
  <2>1. sent'[t] = sent[t] + 1 /\ sent[t] - base[t] = sent[t]
    BY <1>1, <1>3 DEF PlacesOK
  <2> QED
    BY <1>4, <2>1 DEF NodePublishes
<1>7. Numbered(wire'[u]) /\ InOrder(wire'[u], sent'[u], heard[u])
  <2>1. CASE wire'[u] = wire[u]
    <3>1. sent'[u] \in Nat /\ sent[u] <= sent'[u]
      BY <1>3
    <3>2. Numbered(wire[u]) /\ InOrder(wire[u], sent[u], heard[u]) /\ heard[u] \in SUBSET Nat
      BY <1>2 DEF HeardInv
    <3> QED
      BY <1>3, <2>1, <3>1, <3>2, OrderWidens
  <2>2. CASE u = t /\ wire'[u] = Append(wire[t], m)
    <3>1. InOrder(Append(wire[t], m), sent[t] + 1, heard[t])
      BY <1>2, <1>3, <1>5, <2>2, QueueGrows DEF HeardInv
    <3>2. Numbered(Append(wire[t], m))
      <4>1. /\ DOMAIN Append(wire[t], m) = DOMAIN wire[t] \union {Len(wire[t]) + 1}
            /\ \A i \in DOMAIN wire[t] : Append(wire[t], m)[i] = wire[t][i]
            /\ Append(wire[t], m)[Len(wire[t]) + 1] = m
        BY <1>3, <1>5, <2>2
      <4> QED
        BY <1>2, <1>5, <4>1 DEF HeardInv, Numbered
    <3> QED
      BY <1>3, <2>2, <3>1, <3>2
  <2> QED
    BY <1>6, <2>1, <2>2 DEF PlacesOK
<1> QED
  BY <1>1, <1>2, <1>7 DEF HeardInv

LEMMA ReceiveCounts ==
  ASSUME CountInv, PlacesOK, NEW t \in Topics, Receive(t)
  PROVE  CountInv'
<1>1. PICK m : m = Head(wire[t])
  OBVIOUS
<1>2. /\ UNCHANGED <<sent, base, restarted>> /\ wire[t] # << >>
      /\ wire' = [wire EXCEPT ![t] = Tail(@)]
      /\ missed' = [missed EXCEPT ![t] = @ + Gap(m.seq, last[t])]
      /\ last' = [last EXCEPT ![t] = m.seq]
      /\ heard' = [heard EXCEPT ![t] = @ \union {m.n}]
  BY <1>1, Zenon DEF Receive, nodeVars
<1>3. wire[t] \in Seq(Messages) /\ sent[t] \in Nat /\ missed[t] \in Nat
  BY DEF PlacesOK
<1>4. m \in Messages /\ m.n \in Nat
  <2>1. m \in Messages
    BY <1>1, <1>2, <1>3
  <2> QED
    BY <2>1 DEF Messages
<1>5. heard' \in [Topics -> SUBSET Nat]
  BY <1>2, <1>4 DEF CountInv
<1> SUFFICES ASSUME ~ restarted, NEW u \in Topics PROVE HeardInv(u)'
  BY <1>2, <1>5 DEF CountInv
<1>6. HeardInv(t) /\ HeardInv(u)
  BY DEF CountInv
<1>7. CASE u # t
  <2>1. /\ wire'[u] = wire[u] /\ missed'[u] = missed[u] /\ last'[u] = last[u]
        /\ heard'[u] = heard[u] /\ sent'[u] = sent[u] /\ base'[u] = base[u]
    BY <1>2, <1>7 DEF PlacesOK, CountInv
  <2> QED
    BY <1>6, <2>1 DEF HeardInv
<1>8. CASE u = t
  <2>1. /\ wire'[t] = Tail(wire[t]) /\ missed'[t] = missed[t] + Gap(m.seq, last[t])
        /\ last'[t] = m.seq /\ heard'[t] = heard[t] \union {m.n}
        /\ sent'[t] = sent[t] /\ base'[t] = base[t]
    BY <1>2 DEF PlacesOK, CountInv
  <2>2. /\ heard[t] \in SUBSET Nat /\ Numbered(wire[t])
        /\ InOrder(wire[t], sent[t], heard[t])
    BY <1>6 DEF HeardInv
  <2>3. /\ \A w \in heard[t] : w < m.n
        /\ InOrder(Tail(wire[t]), sent[t], heard[t] \union {m.n})
    BY <1>1, <1>2, <1>3, <2>2, QueueShrinks
  <2>4. m.seq = (m.n - 1) % Wrap
    BY <1>1, <1>2, <1>3, <2>2 DEF Numbered
  <2>5. Numbered(Tail(wire[t]))
    <3>1. \A i \in DOMAIN Tail(wire[t]) :
            Tail(wire[t])[i] = wire[t][i + 1] /\ i + 1 \in DOMAIN wire[t]
      BY <1>2, <1>3
    <3> QED
      BY <2>2, <3>1 DEF Numbered
  <2>6. Exact(heard'[t], last'[t], missed'[t])
    <3>1. CASE heard[t] = {}
      <4>1. Gap(m.seq, last[t]) = 0 /\ missed[t] = 0
        BY <1>6, <3>1 DEF HeardInv, Gap
      <4>2. heard'[t] = {m.n} /\ missed'[t] = 0
        BY <2>1, <3>1, <4>1
      <4> QED
        BY <1>4, <2>1, <2>4, <4>2, FirstHeard
    <3>2. CASE heard[t] # {}
      <4>1. Exact(heard[t], last[t], missed[t])
        BY <1>6, <3>2 DEF HeardInv
      <4>2. Exact(heard[t] \union {m.n}, (m.n - 1) % Wrap,
                  missed[t] + Gap((m.n - 1) % Wrap, last[t]))
        BY <1>3, <1>4, <2>2, <2>3, <4>1, LaterHeard
      <4> QED
        BY <2>1, <2>4, <4>2
    <3> QED
      BY <3>1, <3>2
  <2> QED
    BY <1>4, <1>6, <1>8, <2>1, <2>2, <2>3, <2>5, <2>6 DEF HeardInv
<1> QED
  BY <1>7, <1>8

LEMMA NextCountInv == TypeOK /\ CountInv /\ [Next]_vars => CountInv'
<1> SUFFICES ASSUME TypeOK, CountInv, [Next]_vars PROVE CountInv'
  OBVIOUS
<1>0. PlacesOK
  BY TypesOf
<1> USE DEF nodeVars, procVars
<1>1. ASSUME NEW t \in Topics, NEW large \in BOOLEAN, NodePublishes(t, large)
      PROVE  CountInv'
  BY <1>0, <1>1, NodePublishesNumbers
<1>2. CASE NodeRestarts
  BY <1>2 DEF NodeRestarts, CountInv
<1>3. CASE Start \/ Connected
  BY <1>3, NothingHeard DEF Start, Connected
<1>4. ASSUME NEW t \in Topics, Receive(t) PROVE CountInv'
  BY <1>0, <1>4, ReceiveCounts
<1>5. ASSUME NEW t \in Topics, ReceiveFails(t) \/ SleepOver(t) PROVE CountInv'
  BY <1>5, NothingHeard DEF ReceiveFails, SleepOver
<1>6. CASE Publish \/ PublishFails
  BY <1>6, NothingHeard DEF Publish, PublishFails
<1>7. CASE Stop
  BY <1>7, NothingHeard DEF Stop, PerTopic
<1>8. CASE Finished \/ Crash
  BY <1>8, ExitForgets DEF Finished, Crash
<1>9. CASE UNCHANGED vars
  BY <1>9, NothingHeard DEF vars
<1> QED
  BY <1>1, <1>2, <1>3, <1>4, <1>5, <1>6, <1>7, <1>8, <1>9 DEF Next, Loop

(* Unless the node was restarted, the listener's counts of missed messages *)
(* are right up to a multiple of the range of the sequence numbers, and    *)
(* never too high: for every range, and wherever messages are lost.        *)
THEOREM ExactlyMissed == Spec => []MissedExact
<1>1. TypeOK /\ CountInv => MissedExact
  <2> SUFFICES ASSUME TypeOK, CountInv, ~ restarted,
                      NEW t \in Topics, heard[t] # {}
               PROVE  LET missing == {n \in Min(heard[t]) .. Max(heard[t]) :
                                        n \notin heard[t]}
                      IN  /\ missed[t] <= Cardinality(missing)
                          /\ (Cardinality(missing) - missed[t]) % Wrap = 0
    BY DEF MissedExact
  <2>1. /\ heard[t] \in SUBSET Nat /\ missed[t] \in Nat
        /\ Exact(heard[t], last[t], missed[t])
    BY TypesOf DEF CountInv, HeardInv, PlacesOK
  <2> QED
    BY <2>1, ExactIsExact
<1> QED
  BY <1>1, InitCountInv, NextCountInv, TypeCorrect, PTL DEF Spec
=============================================================================
