----------------------- MODULE MempoolListenerProofs -----------------------
(***************************************************************************)
(* Theorems on MempoolListener, for every set of transactions, every       *)
(* threshold and every size of the memory of txids.                        *)
(***************************************************************************)
EXTENDS MempoolListener, FiniteSetTheorems, TLAPS

InHand(t) == IF cur.txid = t THEN 1 ELSE 0
Remembered(t) == IF t \in recent THEN 1 ELSE 0

(* The preview in hand will be published once more at most, which the set  *)
(* remembers or has forgotten again.                                       *)
MemoryInv == \A t \in Txids : published[t] + InHand(t) <= forgotten[t] + Remembered(t)

IInv == TypeOK /\ IsFiniteSet(recent) /\ MemoryInv /\ WhalesPublished

-----------------------------------------------------------------------------
LEMMA NoneIsNoPreview == None \notin Previews /\ None.txid \notin Txids
  BY MempoolAssumption DEF Previews

(* The memory is cut to Kept entries when it is over its limit, and what is*)
(* dropped is counted.                                                     *)
LEMMA RememberKeeps ==
  ASSUME TypeOK, IsFiniteSet(recent), NEW t \in Txids, Remember(t)
  PROVE  /\ recent' \subseteq Txids /\ IsFiniteSet(recent')
         /\ Cardinality(recent') <= MaxRecent
         /\ forgotten' \in [Txids -> Nat]
         /\ \A u \in Txids \ {t} :
              forgotten[u] + Remembered(u) <= forgotten'[u] + Remembered(u)'
         /\ t \notin recent =>
              forgotten[t] + 1 <= forgotten'[t] + Remembered(t)'
<1> DEFINE all == recent \union {t}
<1>1. all \subseteq Txids /\ IsFiniteSet(all) /\ Cardinality(all) \in Nat
  BY FS_AddElement, FS_CardinalityType DEF TypeOK
<1>2. CASE Cardinality(all) <= MaxRecent
  <2>1. recent' = all /\ forgotten' = forgotten
    BY <1>2 DEF Remember
  <2> QED
    BY <1>1, <1>2, <2>1 DEF TypeOK, Remembered
<1>3. CASE ~ (Cardinality(all) <= MaxRecent)
  <2>1. PICK kept \in SUBSET all :
          Cardinality(kept) = Kept /\ recent' = kept /\ Forget(all \ kept)
    BY <1>3 DEF Remember
  <2>2. IsFiniteSet(kept) /\ Cardinality(kept) <= MaxRecent
    BY <1>1, <2>1, FS_Subset, MempoolAssumption
  <2>3. forgotten' = [u \in Txids |-> forgotten[u] + IF u \in all \ kept THEN 1 ELSE 0]
    BY <2>1 DEF Forget
  <2>4. forgotten' \in [Txids -> Nat]
    BY <2>3 DEF TypeOK
  <2>5. ASSUME NEW u \in Txids
        PROVE  forgotten[u] + (IF u \in all THEN 1 ELSE 0) <= forgotten'[u] + Remembered(u)'
    BY <2>1, <2>3 DEF TypeOK, Remembered
  <2> QED
    BY <1>1, <2>1, <2>2, <2>4, <2>5 DEF TypeOK, Remembered
<1> QED
  BY <1>2, <1>3

LEMMA InitIInv == Init => IInv
<1> SUFFICES ASSUME Init PROVE IInv
  OBVIOUS
<1>1. IsFiniteSet(recent) /\ Cardinality(recent) = 0
  BY FS_EmptySet DEF Init
<1>2. running \in BOOLEAN
  BY Zenon DEF Init
<1>3. TypeOK
  BY <1>1, <1>2, MempoolAssumption DEF Init, TypeOK
<1>4. MemoryInv /\ WhalesPublished
  BY NoneIsNoPreview DEF Init, MemoryInv, WhalesPublished, InHand, Remembered
<1> QED
  BY <1>1, <1>3, <1>4 DEF IInv

-----------------------------------------------------------------------------
(* Steps of the connection and of the loops, between two transactions or   *)
(* beside the one in hand.                                                 *)
LEMMA QuietStep ==
  ASSUME IInv, TypeOK', UNCHANGED <<cur, recent, published, historyVars>>
  PROVE  IInv'
<1>1. MemoryInv'
  BY DEF IInv, MemoryInv, InHand, Remembered, historyVars
<1>2. WhalesPublished'
  BY DEF IInv, WhalesPublished, historyVars
<1> QED
  BY <1>1, <1>2 DEF IInv

LEMMA ConnectionPreserves ==
  ASSUME IInv,
         \/ Started \/ StartFails
         \/ Connect \/ ConnectFails \/ BackedOff \/ ServerCloses \/ ListenReturns
         \/ GatherEnds \/ EndOfMessage \/ Stop \/ UNCHANGED vars
  PROVE  IInv'
<1>1. UNCHANGED <<received, hand, cur, recent, published, historyVars>>
  BY DEF Started, StartFails, Connect, ConnectFails, BackedOff, ServerCloses,
         ListenReturns, GatherEnds,
         EndOfMessage, Stop, vars, connectionVars
<1>2. pc = pc' \/ {pc, pc'} \intersect {"fetch", "publish"} = {}
  BY DEF Started, StartFails, Connect, ConnectFails, BackedOff, ServerCloses,
         ListenReturns, GatherEnds,
         EndOfMessage, Stop, vars, StartHead, ListenHead
<1>3. /\ pc' \in {"start", "connect", "backoff", "recv", "preview", "fetch", "publish",
                  "returned", "down"}
      /\ ws' \in {"open", "closed"}
  BY DEF Started, StartFails, Connect, ConnectFails, BackedOff, ServerCloses,
         ListenReturns, GatherEnds,
         EndOfMessage, Stop, vars, connectionVars, StartHead, ListenHead, IInv, TypeOK
<1>4. running' \in BOOLEAN
  BY Zenon DEF Started, StartFails, Connect, ConnectFails, BackedOff, ServerCloses,
         ListenReturns, GatherEnds,
         EndOfMessage, Stop, vars, connectionVars, IInv, TypeOK
<1>5. TypeOK'
  BY <1>1, <1>2, <1>3, <1>4 DEF IInv, TypeOK, historyVars
<1> QED
  BY <1>1, <1>5, QuietStep

LEMMA ReceivePreserves ==
  ASSUME IInv, NEW msg \in Messages, Receive(msg) PROVE IInv'
<1>1. msg \in Seq(Previews)
  BY MempoolAssumption
<1>2. running' \in BOOLEAN
  BY Zenon DEF IInv, TypeOK, Receive
<1>3. TypeOK'
  BY <1>1, <1>2, MempoolAssumption DEF IInv, TypeOK, Receive, historyVars
<1>4. UNCHANGED <<cur, recent, published, historyVars>>
  BY DEF Receive
<1> QED
  BY <1>3, <1>4, QuietStep

-----------------------------------------------------------------------------
LEMMA PreviewPreserves ==
  ASSUME IInv, Preview PROVE IInv'
<1>1. /\ pc = "preview" /\ hand # << >> /\ hand' = Tail(hand)
      /\ UNCHANGED <<running, ws, received, published>>
  BY DEF Preview, connectionVars
<1>p. PICK p \in Previews : p = Head(hand)
  BY <1>1 DEF IInv, TypeOK
<1>2. hand' \in Seq(Previews) /\ p.txid \in Txids
  BY <1>1 DEF IInv, TypeOK, Previews
<1>3. cur = None /\ p # None
  BY <1>1, <1>2, NoneIsNoPreview DEF IInv, TypeOK
<1>4. CASE p.txid \in recent
  <2>1. UNCHANGED <<pc, cur, recent, forgotten, previewed, lost>>
    BY <1>p, <1>4 DEF Preview, historyVars
  <2>2. TypeOK'
    BY <1>1, <1>2, <2>1 DEF IInv, TypeOK
  <2> QED
    BY <1>1, <2>1, <2>2, QuietStep DEF historyVars
<1>5. CASE p.txid \notin recent
  <2>1. /\ Remember(p.txid) /\ previewed' = previewed \union {p} /\ lost' = lost
        /\ IF WorthFetching(p) THEN pc' = "fetch" /\ cur' = p
                               ELSE pc' = pc /\ cur' = cur
    BY <1>p, <1>5 DEF Preview
  <2>2. /\ recent' \subseteq Txids /\ IsFiniteSet(recent')
        /\ Cardinality(recent') <= MaxRecent
        /\ forgotten' \in [Txids -> Nat]
        /\ \A u \in Txids \ {p.txid} :
             forgotten[u] + Remembered(u) <= forgotten'[u] + Remembered(u)'
        /\ forgotten[p.txid] + 1 <= forgotten'[p.txid] + Remembered(p.txid)'
    BY <1>2, <1>5, <2>1, RememberKeeps DEF IInv
  <2>3. TypeOK'
    BY <1>1, <1>2, <1>3, <2>1, <2>2 DEF IInv, TypeOK
  <2>4. MemoryInv'
    <3> SUFFICES ASSUME NEW t \in Txids
                 PROVE  published[t] + InHand(t)' <= forgotten'[t] + Remembered(t)'
      BY <1>1 DEF MemoryInv
    <3>1. /\ published[t] \in Nat /\ forgotten[t] \in Nat /\ forgotten'[t] \in Nat
          /\ Remembered(t) \in {0, 1} /\ Remembered(t)' \in {0, 1}
          /\ InHand(t) \in {0, 1} /\ InHand(t)' \in {0, 1}
      BY <2>2 DEF IInv, TypeOK, Remembered, InHand
    <3>2. published[t] + InHand(t) <= forgotten[t] + Remembered(t)
      BY DEF IInv, MemoryInv
    <3>3. CASE t = p.txid
      <4>1. Remembered(t) = 0 /\ forgotten[t] + 1 <= forgotten'[t] + Remembered(t)'
        BY <1>5, <2>2, <3>3 DEF Remembered
      <4> QED
        BY <3>1, <3>2, <4>1
    <3>4. CASE t # p.txid
      <4>1. InHand(t)' = 0
        BY <1>3, <2>1, <3>4, NoneIsNoPreview DEF InHand
      <4>2. forgotten[t] + Remembered(t) <= forgotten'[t] + Remembered(t)'
        BY <2>2, <3>4
      <4> QED
        BY <3>1, <3>2, <4>1, <4>2
    <3> QED
      BY <3>3, <3>4
  <2>5. WhalesPublished'
    <3> SUFFICES ASSUME NEW q \in previewed', Total[q.txid] >= Threshold,
                        q.value >= Threshold \/ (q.value = 0 /\ q.fee >= MinFee)
                 PROVE  published[q.txid] > 0 \/ q = cur' \/ q.txid \in lost
      BY <1>1, <2>1 DEF WhalesPublished
    <3>1. CASE q = p
      <4>1. WorthFetching(p)
        BY <3>1, <1>2, MempoolAssumption DEF WorthFetching, Previews
      <4> QED
        BY <2>1, <3>1, <4>1
    <3>2. CASE q \in previewed
      <4>1. q # None
        BY <3>2, NoneIsNoPreview DEF IInv, TypeOK
      <4> QED
        BY <1>3, <3>2, <4>1 DEF IInv, WhalesPublished
    <3> QED
      BY <2>1, <3>1, <3>2
  <2> QED
    BY <2>2, <2>3, <2>4, <2>5 DEF IInv
<1> QED
  BY <1>4, <1>5

(* A transaction leaves the hand: published, noted as lost, or too small.  *)
LEMMA HandEmptied ==
  ASSUME IInv, pc \in {"fetch", "publish"}, Done,
         lost' \in {lost, lost \union {cur.txid}},
         \/ published' = published
         \/ published' = [published EXCEPT ![cur.txid] = @ + 1],
         \/ Total[cur.txid] < Threshold
         \/ cur.txid \in lost'
         \/ published' = [published EXCEPT ![cur.txid] = @ + 1],
         UNCHANGED <<connectionVars, hand, recent, forgotten, previewed>>
  PROVE  IInv'
<1>1. cur \in Previews /\ cur.txid \in Txids /\ cur' = None /\ pc' = "preview"
  BY DEF IInv, TypeOK, Done, Previews
<1>2. published' \in [Txids -> Nat] /\ lost' \subseteq Txids
  BY <1>1 DEF IInv, TypeOK
<1>3. running' \in BOOLEAN
  BY Zenon DEF connectionVars, IInv, TypeOK
<1>4. TypeOK'
  BY <1>1, <1>2, <1>3 DEF IInv, TypeOK, connectionVars
<1>5. MemoryInv'
  <2> SUFFICES ASSUME NEW t \in Txids
               PROVE  published'[t] + InHand(t)' <= forgotten[t] + Remembered(t)
    BY DEF MemoryInv, Remembered
  <2>1. published[t] + InHand(t) <= forgotten[t] + Remembered(t)
        /\ published[t] \in Nat /\ forgotten[t] \in Nat /\ Remembered(t) \in {0, 1}
    BY DEF IInv, MemoryInv, TypeOK, Remembered
  <2>2. InHand(t)' = 0
    BY <1>1, NoneIsNoPreview DEF InHand
  <2>3. published'[t] <= published[t] + InHand(t) /\ published'[t] \in Nat
        /\ InHand(t) \in {0, 1}
    BY <1>1, <1>2, <2>1 DEF IInv, TypeOK, InHand
  <2> QED
    BY <2>1, <2>2, <2>3
<1>6. WhalesPublished'
  <2> SUFFICES ASSUME NEW q \in previewed, Total[q.txid] >= Threshold,
                      q.value >= Threshold \/ (q.value = 0 /\ q.fee >= MinFee)
               PROVE  published'[q.txid] > 0 \/ q = cur' \/ q.txid \in lost'
    BY DEF WhalesPublished
  <2>1. published[q.txid] > 0 \/ q = cur \/ q.txid \in lost
    BY DEF IInv, WhalesPublished
  <2>2. q.txid \in Txids /\ published[q.txid] \in Nat /\ Total[q.txid] \in Nat
    BY MempoolAssumption DEF IInv, TypeOK, Previews
  <2>3. CASE q = cur
    BY <1>1, <2>2, <2>3, MempoolAssumption DEF IInv, TypeOK
  <2>4. CASE published[q.txid] > 0
    <3>1. published'[q.txid] \in {published[q.txid], published[q.txid] + 1}
      BY <1>1, <2>2 DEF IInv, TypeOK
    <3> QED
      BY <2>2, <2>4, <3>1
  <2> QED
    BY <2>1, <2>3, <2>4
<1> QED
  BY <1>4, <1>5, <1>6 DEF IInv

LEMMA TransactionPreserves ==
  ASSUME IInv, Fetched \/ FetchFails \/ Publish \/ PublishFails PROVE IInv'
<1>1. CASE Fetched
  <2>1. CASE Total[cur.txid] >= Threshold
    <3>1. /\ pc = "fetch" /\ pc' = "publish"
          /\ UNCHANGED <<running, ws, received, hand, cur, recent, published, historyVars>>
      BY <1>1, <2>1 DEF Fetched, connectionVars
    <3>2. TypeOK'
      BY <3>1 DEF IInv, TypeOK, historyVars
    <3> QED
      BY <3>1, <3>2, QuietStep
  <2>2. CASE ~ (Total[cur.txid] >= Threshold)
    <3>1. /\ pc = "fetch" /\ Done /\ lost' = lost /\ published' = published
          /\ UNCHANGED <<connectionVars, hand, recent, forgotten, previewed>>
      BY <1>1, <2>2 DEF Fetched, historyVars
    <3>2. Total[cur.txid] < Threshold
      <4>1. cur.txid \in Txids
        BY <3>1 DEF IInv, TypeOK, Previews
      <4> QED
        BY <2>2, <4>1, MempoolAssumption
    <3> QED
      BY <3>1, <3>2, HandEmptied
  <2> QED
    BY <2>1, <2>2
<1>2. CASE FetchFails
  BY <1>2, HandEmptied DEF FetchFails
<1>3. CASE Publish
  BY <1>3, HandEmptied DEF Publish, AddToStream, historyVars
<1>4. CASE PublishFails
  BY <1>4, HandEmptied DEF PublishFails, AddToStream
<1> QED
  BY <1>1, <1>2, <1>3, <1>4

LEMMA RestartPreserves ==
  ASSUME IInv, Restart PROVE IInv'
<1>1. /\ pc' = "start" /\ running' = FALSE /\ ws' = "closed" /\ hand' = << >>
      /\ cur' = None /\ recent' = {}
      /\ forgotten' = [t \in Txids |-> forgotten[t] + IF t \in recent THEN 1 ELSE 0]
      /\ lost' = lost \union ({cur.txid} \ {None.txid})
      /\ UNCHANGED <<received, published, previewed>>
  BY DEF Restart, Forget
<1>2. IsFiniteSet(recent') /\ Cardinality(recent') <= MaxRecent
  BY <1>1, FS_EmptySet, MempoolAssumption
<1>3. /\ forgotten' \in [Txids -> Nat] /\ lost' \subseteq Txids
      /\ running' \in BOOLEAN
  <2>1. running' \in BOOLEAN
    BY Zenon DEF Restart
  <2> QED
    BY <1>1, <2>1 DEF IInv, TypeOK, Previews
<1>4. TypeOK'
  BY <1>1, <1>2, <1>3 DEF IInv, TypeOK
<1>5. MemoryInv'
  <2> SUFFICES ASSUME NEW t \in Txids
               PROVE  published[t] + InHand(t)' <= forgotten'[t] + Remembered(t)'
    BY <1>1 DEF MemoryInv
  <2>1. /\ published[t] + InHand(t) <= forgotten[t] + Remembered(t)
        /\ published[t] \in Nat /\ forgotten[t] \in Nat /\ InHand(t) \in {0, 1}
    BY DEF IInv, MemoryInv, TypeOK, InHand
  <2>2. InHand(t)' = 0 /\ Remembered(t)' = 0 /\ forgotten'[t] = forgotten[t] + Remembered(t)
    BY <1>1, NoneIsNoPreview DEF InHand, Remembered
  <2> QED
    BY <2>1, <2>2 DEF Remembered
<1>6. WhalesPublished'
  <2> SUFFICES ASSUME NEW q \in previewed, Total[q.txid] >= Threshold,
                      q.value >= Threshold \/ (q.value = 0 /\ q.fee >= MinFee)
               PROVE  published[q.txid] > 0 \/ q = cur' \/ q.txid \in lost'
    BY <1>1 DEF WhalesPublished
  <2>1. q.txid # None.txid
    BY NoneIsNoPreview DEF IInv, TypeOK, Previews
  <2> QED
    BY <1>1, <2>1 DEF IInv, WhalesPublished
<1> QED
  BY <1>2, <1>4, <1>5, <1>6 DEF IInv

-----------------------------------------------------------------------------
LEMMA NextIInv == IInv /\ [Next]_vars => IInv'
<1> SUFFICES ASSUME IInv, [Next]_vars PROVE IInv'
  OBVIOUS
<1>1. CASE \/ Started \/ StartFails
           \/ Connect \/ ConnectFails \/ BackedOff \/ ServerCloses \/ ListenReturns
           \/ GatherEnds \/ EndOfMessage \/ Stop \/ UNCHANGED vars
  BY <1>1, ConnectionPreserves
<1>2. CASE \E msg \in Messages : Receive(msg)
  BY <1>2, ReceivePreserves
<1>3. CASE Preview
  BY <1>3, PreviewPreserves
<1>4. CASE Fetched \/ FetchFails \/ Publish \/ PublishFails
  BY <1>4, TransactionPreserves
<1>5. CASE Restart
  BY <1>5, RestartPreserves
<1> QED
  BY <1>1, <1>2, <1>3, <1>4, <1>5 DEF Next, Proceed

(* The inductive invariant: what is in hand counts as published, and the   *)
(* set of txids is finite and no larger than its limit.                    *)
THEOREM Invariant == Spec => []IInv
  BY InitIInv, NextIInv, PTL DEF Spec

(* The variables of the listener keep their types; the memory of txids     *)
(* stays within its limit.                                                 *)
THEOREM TypeCorrect == Spec => []TypeOK
<1>1. IInv => TypeOK
  BY DEF IInv
<1> QED
  BY <1>1, Invariant, PTL

(* However the set is cut, a transaction goes out again only if the set has*)
(* forgotten it since.                                                     *)
THEOREM OncePerMemory == Spec => []PublishedOncePerMemory
<1>1. ASSUME IInv PROVE PublishedOncePerMemory
  <2> SUFFICES ASSUME NEW t \in Txids
               PROVE  published[t] <= forgotten[t] + IF t \in recent THEN 1 ELSE 0
    BY DEF PublishedOncePerMemory
  <2>1. /\ published[t] + InHand(t) <= forgotten[t] + Remembered(t)
        /\ published[t] \in Nat /\ forgotten[t] \in Nat /\ InHand(t) \in {0, 1}
    BY <1>1 DEF IInv, MemoryInv, TypeOK, InHand
  <2> QED
    BY <2>1 DEF Remembered
<1> QED
  BY <1>1, Invariant, PTL

(* A large transaction that a preview shows to be one is published, unless *)
(* a failure or a crash comes between.                                     *)
THEOREM WhalesGoOut == Spec => []WhalesPublished
<1>1. IInv => WhalesPublished
  BY DEF IInv
<1> QED
  BY <1>1, Invariant, PTL
=============================================================================
