------------------------------ MODULE ApiProofs ------------------------------
(***************************************************************************)
(* Theorems on the process of the API: its streaming routes (Streaming),   *)
(* the RPC client its health route calls (RpcClient) and its signals routes*)
(* (Signals), which share no variable.                                     *)
(*                                                                         *)
(* Streaming, for any number of clients, every stream of events, every set *)
(* of filters and every size of an SSE poll: what clients miss, in which   *)
(* order they see the rest, and whom a broadcast reaches.                  *)
(***************************************************************************)
EXTENDS Streaming, RpcClient, Signals, ListLemmas, FiniteSetTheorems, TLAPS

(* A socket in service has been told the filter that is applied.           *)
ToldInv == \A s \in Sockets : pc[s] \in {"queue", "serve"} => told[s] = filter[s]

(* What is left of a batch are the newest events at its poll.              *)
BatchInv(r) ==
  /\ top[r] <= events /\ Len(batch[r]) <= top[r] /\ Len(batch[r]) <= SseCount
  /\ \A i \in 1 .. Len(batch[r]) : batch[r][i] = top[r] - Len(batch[r]) + i

(* e is among the newest at the last poll, and wanted.                     *)
Due(r, e) == e > top[r] - SseCount /\ Passes(r, e)

(* With an event, a reader was sent all older ones that were due; and with *)
(* a batch begun, all that were due before the part that is left.          *)
SeenInv(r) ==
  /\ lastId[r] \in seen[r] \union {0}
  /\ pc[r] = "new" => seen[r] = {}
  /\ \A d \in seen[r] : \A e \in 1 .. d : Due(r, e) => e \in seen[r]
  /\ pc[r] = "yield" =>
       \A e \in 1 .. top[r] - Len(batch[r]) : Due(r, e) => e \in seen[r]

ReaderInv == \A r \in Readers : BatchInv(r) /\ SeenInv(r)

IInv == TypeOK /\ ToldInv /\ ReaderInv

-----------------------------------------------------------------------------
LEMMA Disjoint ==
  ASSUME NEW s \in Sockets PROVE s \notin Readers /\ s \in Clients
  BY StreamingAssumption DEF Clients

LEMMA ReaderIsClient ==
  ASSUME NEW r \in Readers PROVE r \in Clients /\ r \notin Sockets
  BY StreamingAssumption DEF Clients

LEMMA InitIInv == Init => IInv
<1> SUFFICES ASSUME Init PROVE IInv
  OBVIOUS
<1>1. TypeOK
  BY StreamingAssumption DEF Init, TypeOK
<1>2. ToldInv
  BY Disjoint DEF Init, ToldInv
<1>3. ASSUME NEW r \in Readers PROVE BatchInv(r) /\ SeenInv(r)
  <2>1. r \in Clients
    BY ReaderIsClient
  <2>2. /\ events = 0 /\ top[r] = 0 /\ batch[r] = << >> /\ seen[r] = {}
        /\ lastId[r] = 0 /\ pc[r] = "new"
    BY <2>1 DEF Init
  <2>3. SseCount \in Nat
    BY StreamingAssumption
  <2> QED
    BY <2>2, <2>3 DEF BatchInv, SeenInv
<1> QED
  BY <1>1, <1>2, <1>3 DEF IInv, ReaderInv

(* Another client's step, or one of its own that leaves its batch alone.   *)
LEMMA ReaderKeeps ==
  ASSUME IInv, NEW r \in Readers, events' \in Nat, events <= events',
         pc'[r] = pc[r] \/ pc'[r] \notin {"new", "yield"},
         filter'[r] = filter[r] \/ pc[r] = "new",
         seen'[r] = seen[r], batch'[r] = batch[r], top'[r] = top[r],
         lastId'[r] = lastId[r],
         pc[r] = "new" => pc'[r] # "yield"
  PROVE  BatchInv(r)' /\ SeenInv(r)'
<1>1. BatchInv(r)'
  BY DEF IInv, TypeOK, ReaderInv, BatchInv
<1>2. ASSUME pc[r] = "new" PROVE SeenInv(r)'
  BY <1>2 DEF IInv, ReaderInv, SeenInv
<1>3. ASSUME pc[r] # "new" PROVE SeenInv(r)'
  <2>1. \A e : Due(r, e)' <=> Due(r, e)
    BY <1>3 DEF Due, Passes
  <2>2. pc'[r] = "yield" => pc[r] = "yield"
    OBVIOUS
  <2>3. pc'[r] # "new"
    BY <1>3
  <2> QED
    BY <2>1, <2>2, <2>3 DEF IInv, ReaderInv, SeenInv
<1> QED
  BY <1>1, <1>2, <1>3

(* Steps that no reader's batch takes part in: the rest of the invariant is*)
(* enough.                                                                 *)
LEMMA BesideReaders ==
  ASSUME IInv, TypeOK', ToldInv', events <= events',
         \A r \in Readers :
           /\ \/ pc'[r] = pc[r] /\ filter'[r] = filter[r]
              \/ pc[r] = "new" /\ pc'[r] = "queue"
              \/ pc'[r] \in {"ask", "ended"} /\ filter'[r] = filter[r] /\ pc[r] # "new"
           /\ seen'[r] = seen[r] /\ batch'[r] = batch[r] /\ top'[r] = top[r]
           /\ lastId'[r] = lastId[r]
  PROVE  IInv'
<1>1. events' \in Nat
  BY DEF TypeOK
<1>2. ASSUME NEW r \in Readers PROVE BatchInv(r)' /\ SeenInv(r)'
  BY <1>1, ReaderKeeps
<1> QED
  BY <1>2 DEF IInv, ReaderInv

LEMMA PublishPreserves ==
  ASSUME IInv, Publish PROVE IInv'
<1>1. /\ events' = events + 1 /\ events < Len(Stream)
      /\ UNCHANGED <<pc, filter, told, latest, seen, batch, top, tail, lastId>>
  BY DEF Publish, socketVars, readerVars
<1>2. Len(Stream) \in Nat
  BY StreamingAssumption
<1>3. TypeOK' /\ ToldInv' /\ events <= events'
  BY <1>1, <1>2 DEF IInv, TypeOK, ToldInv
<1> QED
  BY <1>1, <1>3, BesideReaders

LEMMA ConnectPreserves ==
  ASSUME IInv, NEW c \in Clients, NEW f \in Filters, Connect(c, f) PROVE IInv'
<1>1. /\ pc[c] = "new"
      /\ pc' = [pc EXCEPT ![c] = IF c \in Sockets THEN "enter" ELSE "queue"]
      /\ filter' = [filter EXCEPT ![c] = f]
      /\ tail' = [r \in Readers |-> IF r = c THEN events ELSE tail[r]]
      /\ UNCHANGED <<events, told, latest, seen, batch, top, lastId>>
  BY DEF Connect, Move
<1>2. TypeOK'
  BY <1>1 DEF IInv, TypeOK
<1>3. ToldInv'
  BY <1>1, Disjoint DEF IInv, TypeOK, ToldInv
<1>4. ASSUME NEW r \in Readers
      PROVE  \/ pc'[r] = pc[r] /\ filter'[r] = filter[r]
             \/ pc[r] = "new" /\ pc'[r] = "queue"
  BY <1>1, ReaderIsClient DEF IInv, TypeOK
<1>5. events <= events'
  BY <1>1 DEF IInv, TypeOK
<1> QED
  BY <1>1, <1>2, <1>3, <1>4, <1>5, BesideReaders

(* Steps of a handler that only move it.                                   *)
LEMMA MovePreserves ==
  ASSUME IInv, NEW c \in Clients, NEW to,
         to \in {"serve", "ask", "leave", "ended"}, pc[c] # "new",
         to = "serve" => c \in Sockets /\ pc[c] = "queue",
         pc' = [pc EXCEPT ![c] = to],
         UNCHANGED <<events, filter, told, latest, seen, batch, top, lastId>>,
         tail' \in [Readers -> Nat]
  PROVE  IInv'
<1>1. TypeOK'
  BY DEF IInv, TypeOK
<1>2. ToldInv'
  BY Disjoint DEF IInv, TypeOK, ToldInv
<1>3. ASSUME NEW r \in Readers
      PROVE  \/ pc'[r] = pc[r] /\ filter'[r] = filter[r]
             \/ pc'[r] \in {"ask", "ended"} /\ filter'[r] = filter[r] /\ pc[r] # "new"
             \/ pc'[r] \in {"serve", "leave"}
  BY ReaderIsClient DEF IInv, TypeOK
<1>4. events <= events' /\ events' \in Nat
  BY DEF IInv, TypeOK
<1>5. ASSUME NEW r \in Readers PROVE BatchInv(r)' /\ SeenInv(r)'
  <2>1. pc'[r] = pc[r] \/ pc'[r] \notin {"new", "yield"}
    BY <1>3
  <2>2. pc[r] = "new" => pc'[r] # "yield"
    BY <1>3
  <2> QED
    BY <1>4, <2>1, <2>2, ReaderKeeps
<1> QED
  BY <1>1, <1>2, <1>5 DEF IInv, ReaderInv

-----------------------------------------------------------------------------
LEMMA SocketPreserves ==
  ASSUME IInv, NEW s \in Sockets, NEW f,
         Enter(s) \/ ConsumerPolls(s) \/ (f \in Filters /\ UpdateFilters(s, f))
  PROVE  IInv'
<1>1. s \in Clients /\ s \notin Readers
  BY Disjoint
<1>2. /\ UNCHANGED <<events, seen, batch, top, tail, lastId>>
      /\ \E to \in {pc[s], "queue"} :
           pc' = [pc EXCEPT ![s] = to] /\ (to # pc[s] => told' = [told EXCEPT ![s] = filter[s]])
  BY DEF Enter, ConsumerPolls, UpdateFilters, readerVars, Move, IInv, TypeOK
<1>3. /\ \/ filter' = filter
         \/ /\ f \in Filters
            /\ filter' = [filter EXCEPT ![s] = f] /\ told' = [told EXCEPT ![s] = f]
      /\ \/ told' = told
         \/ told' = [told EXCEPT ![s] = filter'[s]]
  BY <1>1 DEF Enter, ConsumerPolls, UpdateFilters, IInv, TypeOK
<1>4. latest' \in [Sockets -> Nat]
  <2>1. \A i \in DOMAIN Recent(1) : Recent(1)[i] \in Nat
    BY DEF Recent, IInv, TypeOK
  <2> QED
    BY <2>1 DEF Enter, ConsumerPolls, UpdateFilters, IInv, TypeOK
<1>5. TypeOK'
  BY <1>1, <1>2, <1>3, <1>4 DEF IInv, TypeOK
<1>6. ToldInv'
  BY <1>1, <1>2, <1>3, Disjoint DEF IInv, TypeOK, ToldInv
<1>7. ASSUME NEW r \in Readers PROVE pc'[r] = pc[r] /\ filter'[r] = filter[r]
  BY <1>1, <1>2, <1>3, ReaderIsClient DEF IInv, TypeOK
<1>8. events <= events'
  BY <1>2 DEF IInv, TypeOK
<1> QED
  BY <1>2, <1>5, <1>6, <1>7, <1>8, BesideReaders

LEMMA HandlerPreserves ==
  ASSUME IInv, NEW c \in Clients,
         \/ QueueReady(c) \/ QueueFails(c)
         \/ c \in Sockets /\ (MessageRaises(c) \/ Disconnected(c) \/ Leave(c))
         \/ c \in Readers /\ (BatchDone(c) \/ ReaderEnds(c))
  PROVE  IInv'
<1>1. UNCHANGED <<events, filter, told, latest, seen, batch, top, lastId>>
  BY DEF QueueReady, QueueFails, MessageRaises, Disconnected, Leave, BatchDone,
         ReaderEnds, socketVars, readerVars
<1>2. PICK to \in {"serve", "ask", "leave", "ended"} :
        /\ pc' = [pc EXCEPT ![c] = to] /\ pc[c] # "new"
        /\ to = "serve" => c \in Sockets /\ pc[c] = "queue"
  BY DEF QueueReady, QueueFails, MessageRaises, Disconnected, Leave, BatchDone,
         ReaderEnds, Move
<1>3. tail' \in [Readers -> Nat]
  <2>1. tail' = tail \/ tail' = [tail EXCEPT ![c] = top[c]]
    BY DEF QueueReady, QueueFails, MessageRaises, Disconnected, Leave, BatchDone,
           ReaderEnds, readerVars
  <2> QED
    BY <2>1 DEF IInv, TypeOK
<1> QED
  BY <1>1, <1>2, <1>3, MovePreserves

(* A query of Redis: the batch is the newest SseCount events.              *)
LEMMA PollPreserves ==
  ASSUME IInv, NEW r \in Readers, ReaderPolls(r) PROVE IInv'
<1>1. /\ UNCHANGED <<events, filter, told, latest, seen, tail, lastId>>
      /\ pc[r] = "ask" /\ pc' = [pc EXCEPT ![r] = "yield"]
      /\ batch' = [batch EXCEPT ![r] = Recent(SseCount)]
      /\ top' = [top EXCEPT ![r] = events]
  BY DEF ReaderPolls, Move, socketVars
<1>2. r \in Clients /\ r \notin Sockets
  BY ReaderIsClient
<1>3. events \in Nat /\ SseCount \in Nat \ {0}
  BY StreamingAssumption DEF IInv, TypeOK
<1>4. PICK k \in Nat : /\ k = (IF events < SseCount THEN events ELSE SseCount)
                       /\ k <= events /\ k <= SseCount
  BY <1>3
<1>5. Recent(SseCount) = [i \in 1 .. k |-> events - k + i]
  BY <1>4 DEF Recent
<1>6. Recent(SseCount) \in Seq(Nat) /\ Len(Recent(SseCount)) = k
  BY <1>3, <1>4, <1>5
<1>7. TypeOK'
  BY <1>1, <1>2, <1>3, <1>6 DEF IInv, TypeOK
<1>8. ToldInv'
  BY <1>1, <1>2, Disjoint DEF IInv, TypeOK, ToldInv
<1>9. BatchInv(r)'
  <2>1. batch'[r] = Recent(SseCount) /\ top'[r] = events /\ events' = events
    BY <1>1 DEF IInv, TypeOK
  <2> QED
    BY <2>1, <1>3, <1>4, <1>5, <1>6 DEF BatchInv
<1>10. SeenInv(r)'
  <2>1. /\ batch'[r] = Recent(SseCount) /\ top'[r] = events /\ pc'[r] = "yield"
        /\ seen'[r] = seen[r] /\ lastId'[r] = lastId[r]
    BY <1>1, <1>2 DEF IInv, TypeOK
  <2>2. top[r] <= events /\ top[r] \in Nat /\ seen[r] \subseteq Nat
    BY DEF IInv, TypeOK, ReaderInv, BatchInv
  <2>3. \A e \in Nat : Due(r, e)' => Due(r, e)
    BY <1>1, <1>3, <2>1, <2>2 DEF Due, Passes
  <2>4. \A d \in seen'[r] : \A e \in 1 .. d : Due(r, e)' => e \in seen'[r]
    BY <2>1, <2>2, <2>3 DEF IInv, ReaderInv, SeenInv
  <2>5. \A e \in 1 .. events - k : ~ Due(r, e)'
    BY <1>3, <1>4, <2>1 DEF Due
  <2> QED
    BY <2>1, <2>4, <2>5, <1>6 DEF IInv, ReaderInv, SeenInv
<1>11. ASSUME NEW q \in Readers, q # r PROVE BatchInv(q)' /\ SeenInv(q)'
  <2>1. /\ pc'[q] = pc[q] /\ filter'[q] = filter[q] /\ batch'[q] = batch[q]
        /\ top'[q] = top[q] /\ seen'[q] = seen[q] /\ lastId'[q] = lastId[q]
        /\ events' \in Nat /\ events <= events'
    BY <1>1, <1>3, <1>11, ReaderIsClient DEF IInv, TypeOK
  <2>2. pc[q] = "new" => pc'[q] # "yield"
    BY <2>1
  <2> QED
    BY <2>1, <2>2, ReaderKeeps
<1> QED
  BY <1>7, <1>8, <1>9, <1>10, <1>11 DEF IInv, ReaderInv

(* What the next message of a batch is, and what looking at it leaves.     *)
LEMMA YieldEffect ==
  ASSUME IInv, NEW r \in Readers, Yield(r)
  PROVE  \E e \in Nat :
           /\ e = top[r] - Len(batch[r]) + 1 /\ e > top[r] - SseCount
           /\ pc[r] = "yield" /\ Len(batch[r]) > 0 /\ e > 0
           /\ batch' = [batch EXCEPT ![r] = Tail(@)]
           /\ \/ /\ e # lastId[r] /\ Passes(r, e)
                 /\ lastId' = [lastId EXCEPT ![r] = e]
                 /\ seen' = [seen EXCEPT ![r] = @ \union {e}]
              \/ /\ e = lastId[r] \/ ~ Passes(r, e)
                 /\ lastId' = lastId /\ seen' = seen
           /\ UNCHANGED <<events, pc, filter, told, latest, top, tail>>
<1>1. batch[r] \in Seq(Nat) /\ top[r] \in Nat /\ SseCount \in Nat
  BY StreamingAssumption DEF IInv, TypeOK
<1>2. batch[r] # << >> /\ Len(batch[r]) > 0 /\ Head(batch[r]) = batch[r][1]
  BY <1>1 DEF Yield
<1>3. PICK e \in Nat : e = Head(batch[r])
  BY <1>1, <1>2
<1>4. /\ Len(batch[r]) <= top[r] /\ Len(batch[r]) <= SseCount
      /\ batch[r][1] = top[r] - Len(batch[r]) + 1
  BY <1>1, <1>2 DEF IInv, ReaderInv, BatchInv
<1>5. e = top[r] - Len(batch[r]) + 1 /\ e > top[r] - SseCount /\ e > 0
  BY <1>1, <1>2, <1>3, <1>4
<1>6. \/ /\ e # lastId[r] /\ Passes(r, e)
         /\ lastId' = [lastId EXCEPT ![r] = e]
         /\ seen' = [seen EXCEPT ![r] = @ \union {e}]
      \/ /\ e = lastId[r] \/ ~ Passes(r, e)
         /\ lastId' = lastId /\ seen' = seen
  <2>1. CASE e # lastId[r] /\ Passes(r, e)
    BY <1>3, <2>1 DEF Yield
  <2>2. CASE e = lastId[r] \/ ~ Passes(r, e)
    BY <1>3, <2>2 DEF Yield, IInv, TypeOK
  <2> QED
    BY <2>1, <2>2
<1> QED
  BY <1>2, <1>3, <1>5, <1>6 DEF Yield, socketVars

(* What is left of the numbers up to t without the first are numbers up to t. *)
LEMMA RestOfRun ==
  ASSUME NEW b \in Seq(Nat), NEW t \in Nat, Len(b) > 0,
         \A i \in 1 .. Len(b) : b[i] = t - Len(b) + i
  PROVE  \A i \in 1 .. Len(Tail(b)) : Tail(b)[i] = t - Len(Tail(b)) + i
<1>1. Len(b) \in Nat /\ Len(Tail(b)) = Len(b) - 1
  OBVIOUS
<1>2. ASSUME NEW i \in 1 .. Len(b) - 1 PROVE Tail(b)[i] = t - (Len(b) - 1) + i
  <2>1. Tail(b)[i] = b[i + 1] /\ i + 1 \in 1 .. Len(b)
    BY <1>1
  <2>2. b[i + 1] = t - Len(b) + (i + 1)
    BY <2>1
  <2> QED
    BY <1>1, <2>1, <2>2
<1> QED
  BY <1>1, <1>2

LEMMA YieldPreserves ==
  ASSUME IInv, NEW r \in Readers, Yield(r) PROVE IInv'
<1>1. PICK e \in Nat :
        /\ e = top[r] - Len(batch[r]) + 1 /\ e > top[r] - SseCount
        /\ pc[r] = "yield" /\ Len(batch[r]) > 0 /\ e > 0
        /\ batch' = [batch EXCEPT ![r] = Tail(@)]
        /\ \/ /\ e # lastId[r] /\ Passes(r, e)
              /\ lastId' = [lastId EXCEPT ![r] = e]
              /\ seen' = [seen EXCEPT ![r] = @ \union {e}]
           \/ /\ e = lastId[r] \/ ~ Passes(r, e)
              /\ lastId' = lastId /\ seen' = seen
        /\ UNCHANGED <<events, pc, filter, told, latest, top, tail>>
  BY YieldEffect
<1>2. r \in Clients /\ r \notin Sockets /\ SseCount \in Nat
  BY ReaderIsClient, StreamingAssumption
<1>3. /\ batch[r] \in Seq(Nat) /\ top[r] \in Nat /\ events \in Nat
      /\ seen[r] \subseteq Nat /\ lastId[r] \in Nat
  BY StreamingAssumption DEF IInv, TypeOK
<1>4. /\ batch'[r] = Tail(batch[r]) /\ batch'[r] \in Seq(Nat)
      /\ Len(batch'[r]) = Len(batch[r]) - 1
      /\ \A i \in 1 .. Len(batch'[r]) : batch'[r][i] = batch[r][i + 1]
  BY <1>1, <1>3 DEF IInv, TypeOK
<1>5. TypeOK'
  <2>1. batch' \in [Readers -> Seq(Nat)]
    BY <1>1, <1>4 DEF IInv, TypeOK
  <2>2. lastId' \in [Readers -> Nat]
    BY <1>1 DEF IInv, TypeOK
  <2>3. seen \in [Readers -> SUBSET Nat] /\ seen[r] \union {e} \in SUBSET Nat
    BY <1>3 DEF IInv, TypeOK
  <2>4. seen' = seen \/ seen' = [seen EXCEPT ![r] = seen[r] \union {e}]
    BY <1>1
  <2>5. seen' \in [Readers -> SUBSET Nat]
    BY <2>3, <2>4, Zenon
  <2> QED
    BY <1>1, <2>1, <2>2, <2>5 DEF IInv, TypeOK
<1>6. ToldInv'
  BY <1>1 DEF IInv, ToldInv
<1>7. BatchInv(r)'
  <2>1. /\ top[r] <= events /\ Len(batch[r]) <= top[r] /\ Len(batch[r]) <= SseCount
        /\ \A i \in 1 .. Len(batch[r]) : batch[r][i] = top[r] - Len(batch[r]) + i
    BY DEF IInv, ReaderInv, BatchInv
  <2>2. \A i \in 1 .. Len(Tail(batch[r])) :
          Tail(batch[r])[i] = top[r] - Len(Tail(batch[r])) + i
    BY <1>1, <1>3, <2>1, RestOfRun
  <2>3. \A i \in 1 .. Len(batch'[r]) : batch'[r][i] = top[r] - Len(batch'[r]) + i
    BY <1>4, <2>2
  <2> QED
    BY <1>1, <1>2, <1>3, <1>4, <2>1, <2>3 DEF BatchInv
<1>8. SeenInv(r)'
  <2>1. /\ lastId[r] \in seen[r] \union {0}
        /\ \A d \in seen[r] : \A f \in 1 .. d : Due(r, f) => f \in seen[r]
        /\ \A f \in 1 .. top[r] - Len(batch[r]) : Due(r, f) => f \in seen[r]
    BY <1>1 DEF IInv, ReaderInv, SeenInv
  <2>2. \A f : Due(r, f)' <=> Due(r, f)
    BY <1>1 DEF Due, Passes
  <2>3. Len(batch[r]) \in Nat
    BY <1>3
  <2>4. \A f \in 1 .. e : f = e \/ f \in 1 .. top[r] - Len(batch[r])
    BY <1>1, <1>3, <2>3
  <2>5. top'[r] - Len(batch'[r]) = e /\ pc'[r] = "yield"
    BY <1>1, <1>3, <1>4, <2>3
  <2>6. CASE e # lastId[r] /\ Passes(r, e) /\ seen' = [seen EXCEPT ![r] = @ \union {e}]
             /\ lastId' = [lastId EXCEPT ![r] = e]
    <3>1. seen'[r] = seen[r] \union {e} /\ lastId'[r] = e
      BY <2>6 DEF IInv, TypeOK
    <3>2. \A f \in 1 .. e : Due(r, f) => f \in seen'[r]
      BY <2>1, <2>4, <3>1
    <3>3. \A d \in seen'[r] : \A f \in 1 .. d : Due(r, f) => f \in seen'[r]
      BY <2>1, <3>1, <3>2
    <3> QED
      BY <2>2, <2>5, <3>1, <3>2, <3>3 DEF SeenInv
  <2>7. CASE (e = lastId[r] \/ ~ Passes(r, e)) /\ lastId' = lastId /\ seen' = seen
    <3>1. Due(r, e) => e \in seen[r]
      BY <1>1, <2>1, <2>7 DEF Due
    <3>2. \A f \in 1 .. e : Due(r, f) => f \in seen[r]
      BY <2>1, <2>4, <3>1
    <3> QED
      BY <2>1, <2>2, <2>5, <2>7, <3>2 DEF SeenInv
  <2> QED
    BY <1>1, <2>6, <2>7
<1>9. ASSUME NEW q \in Readers, q # r PROVE BatchInv(q)' /\ SeenInv(q)'
  <2>1. /\ pc'[q] = pc[q] /\ filter'[q] = filter[q] /\ batch'[q] = batch[q]
        /\ top'[q] = top[q] /\ seen'[q] = seen[q] /\ lastId'[q] = lastId[q]
        /\ events' \in Nat /\ events <= events'
    BY <1>1, <1>3, <1>9 DEF IInv, TypeOK
  <2>2. pc[q] = "new" => pc'[q] # "yield"
    BY <2>1
  <2> QED
    BY <2>1, <2>2, ReaderKeeps
<1> QED
  BY <1>5, <1>6, <1>7, <1>8, <1>9 DEF IInv, ReaderInv

-----------------------------------------------------------------------------
(* The invariant speaks of nothing else.                                   *)
LEMMA OutsidePreserves ==
  ASSUME IInv, UNCHANGED <<events, pc, filter, told, latest, seen, batch, top,
                           tail, lastId>>
  PROVE  IInv'
<1>1. TypeOK' /\ ToldInv' /\ events <= events'
  BY DEF IInv, TypeOK, ToldInv
<1> QED
  BY <1>1, BesideReaders

LEMMA NextIInv == IInv /\ [Next]_vars => IInv'
<1> SUFFICES ASSUME IInv, [Next]_vars PROVE IInv'
  OBVIOUS
<1>1. CASE Publish
  BY <1>1, PublishPreserves
<1>2. ASSUME NEW c \in Clients, Gone(c) PROVE IInv'
  BY <1>2, OutsidePreserves DEF Gone, socketVars, readerVars
<1>3. ASSUME NEW c \in Clients, QueueReady(c) \/ QueueFails(c) PROVE IInv'
  BY <1>3, HandlerPreserves
<1>4. ASSUME NEW c \in Clients, NEW f \in Filters, Connect(c, f) PROVE IInv'
  BY <1>4, ConnectPreserves
<1>5. ASSUME NEW s \in Sockets, MessageRaises(s) \/ Disconnected(s) \/ Leave(s)
      PROVE  IInv'
  BY <1>5, Disjoint, HandlerPreserves
<1>6. ASSUME NEW s \in Sockets, Enter(s) \/ ConsumerPolls(s) PROVE IInv'
  BY <1>6, SocketPreserves
<1>7. ASSUME NEW s \in Sockets, NEW f \in Filters, UpdateFilters(s, f) PROVE IInv'
  BY <1>7, SocketPreserves
<1>8. CASE BroadcastBegins \/ BroadcastSends \/ BroadcastEnds
  BY <1>8, OutsidePreserves
     DEF BroadcastBegins, BroadcastSends, BroadcastEnds, readerVars
<1>9. ASSUME NEW r \in Readers, ReaderPolls(r) PROVE IInv'
  BY <1>9, PollPreserves
<1>10. ASSUME NEW r \in Readers, Yield(r) PROVE IInv'
  BY <1>10, YieldPreserves
<1>11. ASSUME NEW r \in Readers, BatchDone(r) \/ ReaderEnds(r) PROVE IInv'
  BY <1>11, ReaderIsClient, HandlerPreserves
<1>12. CASE UNCHANGED vars
  BY <1>12, OutsidePreserves DEF vars
<1> QED
  BY <1>1, <1>2, <1>3, <1>4, <1>5, <1>6, <1>7, <1>8, <1>9, <1>10, <1>11, <1>12
     DEF Next

THEOREM Invariant == Spec => []IInv
<1> QED
  BY InitIInv, NextIInv, PTL DEF Spec

(* Every variable a property speaks of keeps its type.                     *)
THEOREM TypeCorrect == Spec => []TypeOK
<1>1. IInv => TypeOK
  BY DEF IInv
<1> QED
  BY Invariant, <1>1, PTL

-----------------------------------------------------------------------------
(* What a reader was sent changes when its batch goes on, and only then.   *)
LEMMA OnlyYieldSends ==
  ASSUME IInv, [Next]_vars, NEW r \in Readers, seen'[r] # seen[r]
  PROVE  Yield(r)
<1> SUFFICES ASSUME ~ Yield(r) PROVE FALSE
  OBVIOUS
<1>1. ASSUME NEW q \in Readers, Yield(q) PROVE FALSE
  <2>1. q # r
    BY <1>1
  <2>2. seen'[r] = seen[r]
    BY <1>1, <2>1 DEF Yield, IInv, TypeOK
  <2> QED
    BY <2>2
<1>2. PICK q \in Readers : Yield(q)
  BY Zenon DEF Next, Publish, Gone, QueueReady, QueueFails, Connect, Enter, ConsumerPolls,
         MessageRaises, Disconnected, Leave, UpdateFilters, BroadcastBegins,
         BroadcastSends, BroadcastEnds, ReaderPolls, BatchDone, ReaderEnds,
         readerVars, vars
<1> QED
  BY <1>1, <1>2

(* First sight in order.  An older event that was not sent although due is *)
(* excluded by SeenInv, and what is in a batch is due or rejected.         *)
THEOREM InOrderFirstSight == Spec => FirstSightInOrder
<1>1. ASSUME IInv, [Next]_vars, NEW r \in Readers, NEW e \in seen'[r] \ seen[r],
             NEW d \in seen[r]
      PROVE  d < e
  <2>1. Yield(r)
    BY <1>1, OnlyYieldSends
  <2>2. PICK f \in Nat :
          /\ f > top[r] - SseCount /\ f > 0
          /\ \/ /\ f # lastId[r] /\ Passes(r, f)
                /\ seen' = [seen EXCEPT ![r] = @ \union {f}]
             \/ seen' = seen
    BY <1>1, <2>1, YieldEffect
  <2>3. e = f /\ Passes(r, f)
    BY <1>1, <2>2 DEF IInv, TypeOK
  <2>4. d \in Nat /\ (\A g \in 1 .. d : Due(r, g) => g \in seen[r])
    BY <1>1 DEF IInv, TypeOK, ReaderInv, SeenInv
  <2> QED
    BY <1>1, <2>2, <2>3, <2>4 DEF Due
<1>2. IInv /\ [Next]_vars =>
        [\A r \in Readers : \A e \in seen'[r] \ seen[r] : \A d \in seen[r] : d < e]_vars
  BY <1>1
<1> QED
  BY Invariant, <1>2, PTL DEF Spec, FirstSightInOrder

(* What an SSE client misses.  At the end of a batch nothing of it is left,*)
(* so that all that was due was sent.                                      *)
THEOREM MissesOnlyOvertaken == Spec => SseMissesOnlyOvertaken
<1>1. ASSUME IInv, [Next]_vars, NEW r \in Readers, tail'[r] # tail[r],
             pc'[r] = "ask"
      PROVE  BatchDone(r)
  <2> SUFFICES ASSUME ~ BatchDone(r) PROVE FALSE
    OBVIOUS
  <2>1. ASSUME NEW q \in Readers, BatchDone(q) PROVE FALSE
    <3>1. q # r
      BY <2>1
    <3>2. tail'[r] = tail[r]
      BY <2>1, <3>1 DEF BatchDone, IInv, TypeOK
    <3> QED
      BY <1>1, <3>2
  <2>2. ASSUME NEW c \in Clients, NEW f \in Filters, Connect(c, f) PROVE FALSE
    <3>1. CASE c = r
      BY <1>1, <2>2, <3>1, ReaderIsClient DEF Connect, Move, IInv, TypeOK
    <3>2. CASE c # r
      BY <1>1, <2>2, <3>2 DEF Connect, IInv, TypeOK
    <3> QED
      BY <3>1, <3>2
  <2>3. \/ \E q \in Readers : BatchDone(q)
        \/ \E c \in Clients : \E f \in Filters : Connect(c, f)
    BY <1>1, Zenon DEF Next, Publish, Gone, QueueReady, QueueFails, Enter,
         ConsumerPolls, MessageRaises, Disconnected, Leave, UpdateFilters,
         BroadcastBegins, BroadcastSends, BroadcastEnds, ReaderPolls, Yield,
         ReaderEnds, readerVars, vars
  <2> QED
    BY <2>1, <2>2, <2>3
<1>2. ASSUME IInv, [Next]_vars, NEW r \in Readers, tail'[r] # tail[r],
             pc'[r] = "ask", NEW e \in tail[r] + 1 .. tail'[r], Passes(r, e)
      PROVE  e \in seen[r] \/ e <= tail'[r] - SseCount
  <2>1. BatchDone(r)
    BY <1>1, <1>2
  <2>2. pc[r] = "yield" /\ batch[r] = << >> /\ tail'[r] = top[r]
    BY <1>2, <2>1 DEF BatchDone, Move, IInv, TypeOK
  <2>3. top[r] \in Nat /\ tail[r] \in Nat /\ SseCount \in Nat /\ Len(batch[r]) = 0
    BY <1>2, <2>2, StreamingAssumption DEF IInv, TypeOK
  <2>4. \A g \in 1 .. top[r] : Due(r, g) => g \in seen[r]
    BY <1>2, <2>2, <2>3 DEF IInv, ReaderInv, SeenInv
  <2>5. e \in 1 .. top[r]
    BY <1>2, <2>2, <2>3
  <2> QED
    BY <1>2, <2>2, <2>3, <2>4, <2>5 DEF Due
<1>3. IInv /\ [Next]_vars =>
        [\A r \in Readers :
           tail'[r] # tail[r] /\ pc'[r] = "ask" =>
             \A e \in tail[r] + 1 .. tail'[r] :
               Passes(r, e) => e \in seen[r] \/ e <= tail'[r] - SseCount]_vars
  BY <1>2
<1> QED
  BY Invariant, <1>3, PTL DEF Spec, SseMissesOnlyOvertaken

(* The filter a client was told of is the one that is applied, by ToldInv. *)
THEOREM ToldFilter == Spec => FilterAsTold
<1>1. ASSUME IInv, [Next]_vars, NEW s \in Sockets, latest'[s] # latest[s]
      PROVE  Stream[latest'[s]] \in told[s]
  <2>1. PICK q \in Sockets : ConsumerPolls(q)
    BY <1>1, Zenon DEF Next, Publish, Gone, QueueReady, QueueFails, Connect, Enter,
         MessageRaises, Disconnected, Leave, UpdateFilters, BroadcastBegins,
         BroadcastSends, BroadcastEnds, ReaderPolls, Yield, BatchDone,
         ReaderEnds, socketVars, vars
  <2>2. q = s
    BY <1>1, <2>1 DEF ConsumerPolls, IInv, TypeOK
  <2>3. Passes(s, latest'[s])
    BY <1>1, <2>1, <2>2 DEF ConsumerPolls, IInv, TypeOK
  <2>4. told[s] = filter[s]
    BY <1>1, <2>1, <2>2 DEF ConsumerPolls, IInv, ToldInv
  <2> QED
    BY <2>3, <2>4 DEF Passes
<1>2. IInv /\ [Next]_vars =>
        [\A s \in Sockets :
           latest'[s] # latest[s] => Stream[latest'[s]] \in told[s]]_vars
  BY <1>1
<1> QED
  BY Invariant, <1>2, PTL DEF Spec, FilterAsTold
-----------------------------------------------------------------------------
(* The sockets on the manager's list have connected, so that none of them  *)
(* becomes CONNECTED behind the back of a broadcast that has passed it over*)
(* as disconnected; and the broadcast reaches all.                         *)
BroadcastInv ==
  /\ active \in Seq(Sockets) /\ sending \in Nat
  /\ \A s \in Members(active) : pc[s] # "new"
  /\ BroadcastReachesAll

(* Between broadcasts nobody can be passed over, and what is left of the   *)
(* list still has connected.                                               *)
LEMMA NoBroadcast ==
  ASSUME BroadcastInv, sending' \in {0, 1},
         active' \in Seq(Sockets), \A s \in Members(active') : pc'[s] # "new"
  PROVE  BroadcastInv'
<1>1. \A i \in DOMAIN active' : i \in Nat \ {0}
  OBVIOUS
<1>2. BroadcastReachesAll'
  <2>1. \A i \in DOMAIN active' : ~ (i < sending')
    BY <1>1
  <2> QED
    BY <2>1 DEF BroadcastReachesAll
<1> QED
  BY <1>2 DEF BroadcastInv

(* While the list and the broadcast stand still, sockets may only drop out.*)
LEMMA SameBroadcast ==
  ASSUME BroadcastInv, UNCHANGED <<active, broadcastVars>>,
         \A s \in Members(active) :
           pc'[s] # "new" /\ (clientState'[s] => clientState[s])
  PROVE  BroadcastInv'
<1>1. \A i \in DOMAIN active : clientState'[active[i]] => clientState[active[i]]
  BY DEF Members
<1>2. /\ active' = active /\ sending' = sending
      /\ reached' = reached /\ failed' = failed
  BY DEF broadcastVars
<1>3. BroadcastReachesAll'
  <2> SUFFICES ASSUME NEW i \in DOMAIN active, i < sending, clientState'[active[i]]
               PROVE  active[i] \in reached \union failed
    BY <1>2 DEF BroadcastReachesAll
  <2> QED
    BY <1>1 DEF BroadcastInv, BroadcastReachesAll
<1>4. \A s \in Members(active') : pc'[s] # "new"
  BY <1>2
<1> QED
  BY <1>2, <1>3, <1>4 DEF BroadcastInv

(* A handler that goes on has been new before, or is not on the list.      *)
LEMMA MovedOn ==
  ASSUME BroadcastInv, TypeOK, NEW c \in Clients, NEW from, NEW to, to # "new",
         Move(c, from, to)
  PROVE  \A s \in Members(active) : pc'[s] # "new"
<1> SUFFICES ASSUME NEW s \in Members(active) PROVE pc'[s] # "new"
  OBVIOUS
<1>1. s \in Clients /\ pc[s] # "new"
  BY MembersOf DEF BroadcastInv, Clients
<1>2. CASE s = c
  BY <1>1, <1>2 DEF Move, TypeOK
<1>3. CASE s # c
  BY <1>1, <1>3 DEF Move, TypeOK
<1> QED
  BY <1>2, <1>3

LEMMA InitBroadcastInv == Init => BroadcastInv
  BY DEF Init, BroadcastInv, BroadcastReachesAll, Members

(* Only who is new connects, and who is new is not on the list.            *)
LEMMA ConnectKeepsBroadcast ==
  ASSUME BroadcastInv, TypeOK, NEW c \in Clients, NEW f \in Filters, Connect(c, f)
  PROVE  BroadcastInv'
<1>1. \A s \in Members(active) : pc'[s] # "new"
  BY MovedOn DEF Connect
<1>2. \A s \in Members(active) : s \in Sockets /\ s # c
  BY MembersOf DEF BroadcastInv, Connect, Move
<1>3. \A s \in Members(active) : clientState'[s] => clientState[s]
  BY <1>2 DEF Connect
<1>4. UNCHANGED <<active, broadcastVars>>
  BY DEF Connect
<1> QED
  BY <1>1, <1>3, <1>4, SameBroadcast

LEMMA EnterKeepsBroadcast ==
  ASSUME BroadcastInv, TypeOK, NEW s \in Sockets, Enter(s)
  PROVE  BroadcastInv'
<1>1. active' = Append(active, s) /\ sending' = 0
  BY DEF Enter, LockFree, broadcastVars
<1>2. active' \in Seq(Sockets) /\ Members(active') = Members(active) \union {s}
  BY <1>1, MembersAppended DEF BroadcastInv
<1>3. \A d \in Members(active) : pc'[d] # "new"
  BY MovedOn DEF Enter, Clients
<1>4. pc'[s] # "new"
  BY DEF Enter, Move, TypeOK, Clients
<1> QED
  BY <1>1, <1>2, <1>3, <1>4, NoBroadcast

(* Whom disconnect or the end of a broadcast takes off the list is off it, *)
(* and nobody else is.                                                     *)
LEMMA RemovalKeepsBroadcast ==
  ASSUME BroadcastInv, NEW S, active' = Only(active, S), sending' = 0,
         \A s \in Members(active) : pc'[s] # "new"
  PROVE  BroadcastInv'
<1>1. active' \in Seq(Sockets) /\ Members(active') = Members(active) \intersect S
  BY OnlyMembers DEF BroadcastInv
<1> QED
  BY <1>1, NoBroadcast

LEMMA LeaveKeepsBroadcast ==
  ASSUME BroadcastInv, TypeOK, NEW s \in Sockets, Leave(s)
  PROVE  BroadcastInv'
<1>1. \A d \in Members(active) : pc'[d] # "new"
  BY MovedOn DEF Leave, Clients
<1>2. active' = Only(active, Sockets \ {s}) /\ sending' = 0
  BY DEF Leave, LockFree, broadcastVars
<1> QED
  BY <1>1, <1>2, RemovalKeepsBroadcast

(* The socket that was written to, raised or was known to be disconnected  *)
(* is the one the broadcast moves past.                                    *)
LEMMA SendKeepsBroadcast ==
  ASSUME BroadcastInv, BroadcastSends
  PROVE  BroadcastInv'
<1> DEFINE s == active[sending]
<1>1. /\ sending \in DOMAIN active /\ sending' = sending + 1
      /\ active' = active /\ clientState' = clientState /\ pc' = pc
      /\ reached \subseteq reached' /\ failed \subseteq failed'
      /\ clientState[s] => s \in reached' \union failed'
  BY DEF BroadcastSends
<1>2. BroadcastReachesAll'
  <2> SUFFICES ASSUME NEW i \in DOMAIN active, i < sending + 1, clientState[active[i]]
               PROVE  active[i] \in reached' \union failed'
    BY <1>1 DEF BroadcastReachesAll
  <2>1. CASE i = sending
    BY <1>1, <2>1
  <2>2. CASE i # sending
    <3>1. i \in Nat /\ i < sending
      BY <2>2 DEF BroadcastInv
    <3>2. active[i] \in reached \union failed
      BY <3>1 DEF BroadcastInv, BroadcastReachesAll
    <3> QED
      BY <1>1, <3>2
  <2> QED
    BY <2>1, <2>2
<1> HIDE DEF s
<1>3. sending' \in Nat /\ active' \in Seq(Sockets)
  BY <1>1 DEF BroadcastInv
<1>4. \A d \in Members(active') : pc'[d] # "new"
  BY <1>1 DEF BroadcastInv
<1> QED
  BY <1>2, <1>3, <1>4 DEF BroadcastInv

LEMMA NextBroadcastInv == BroadcastInv /\ TypeOK /\ [Next]_vars => BroadcastInv'
<1> SUFFICES ASSUME BroadcastInv, TypeOK, [Next]_vars PROVE BroadcastInv'
  OBVIOUS
<1>0. /\ \A s \in Members(active) : pc[s] # "new"
      /\ Sockets \subseteq Clients /\ Readers \subseteq Clients
  BY DEF BroadcastInv, Clients
<1> USE DEF socketVars, readerVars, broadcastVars
<1>1. CASE Publish
  BY <1>0, <1>1, SameBroadcast DEF Publish
<1>2. ASSUME NEW c \in Clients, Gone(c) PROVE BroadcastInv'
  BY <1>0, <1>2, SameBroadcast DEF Gone
<1>3. ASSUME NEW c \in Clients, QueueReady(c) \/ QueueFails(c) PROVE BroadcastInv'
  <2>1. \A s \in Members(active) : pc'[s] # "new"
    BY <1>3, MovedOn DEF QueueReady, QueueFails
  <2> QED
    BY <1>3, <2>1, SameBroadcast DEF QueueReady, QueueFails
<1>4. ASSUME NEW c \in Clients, NEW f \in Filters, Connect(c, f) PROVE BroadcastInv'
  BY <1>4, ConnectKeepsBroadcast
<1>5. ASSUME NEW s \in Sockets, MessageRaises(s) PROVE BroadcastInv'
  <2>1. \A d \in Members(active) : pc'[d] # "new"
    BY <1>0, <1>5, MovedOn DEF MessageRaises
  <2> QED
    BY <1>5, <2>1, SameBroadcast DEF MessageRaises
<1>6. ASSUME NEW s \in Sockets, Disconnected(s) PROVE BroadcastInv'
  <2>1. \A d \in Members(active) : pc'[d] # "new"
    BY <1>0, <1>6, MovedOn DEF Disconnected
  <2>2. \A d \in Members(active) : clientState'[d] => clientState[d]
    <3> SUFFICES ASSUME NEW d \in Members(active), clientState'[d]
                 PROVE  clientState[d]
      OBVIOUS
    <3>1. clientState' = [clientState EXCEPT ![s] = FALSE]
      BY <1>6 DEF Disconnected
    <3> QED
      BY <3>1
  <2> QED
    BY <1>6, <2>1, <2>2, SameBroadcast DEF Disconnected
<1>7. ASSUME NEW s \in Sockets, Enter(s) PROVE BroadcastInv'
  BY <1>7, EnterKeepsBroadcast
<1>8. ASSUME NEW s \in Sockets, ConsumerPolls(s) PROVE BroadcastInv'
  BY <1>0, <1>8, SameBroadcast DEF ConsumerPolls
<1>9. ASSUME NEW s \in Sockets, NEW f \in Filters, UpdateFilters(s, f)
      PROVE  BroadcastInv'
  BY <1>0, <1>9, SameBroadcast DEF UpdateFilters
<1>10. ASSUME NEW s \in Sockets, Leave(s) PROVE BroadcastInv'
  BY <1>10, LeaveKeepsBroadcast
<1>11. CASE BroadcastBegins
  BY <1>0, <1>11, NoBroadcast DEF BroadcastBegins, BroadcastInv
<1>12. CASE BroadcastSends
  BY <1>12, SendKeepsBroadcast
<1>13. CASE BroadcastEnds
  BY <1>0, <1>13, RemovalKeepsBroadcast DEF BroadcastEnds
<1>14. ASSUME NEW r \in Readers, ReaderPolls(r) \/ Yield(r) \/ BatchDone(r)
       PROVE  BroadcastInv'
  <2>1. CASE Yield(r)
    BY <1>0, <2>1, SameBroadcast DEF Yield
  <2>2. CASE ReaderPolls(r) \/ BatchDone(r)
    <3>1. \A s \in Members(active) : pc'[s] # "new"
      BY <1>0, <2>2, MovedOn DEF ReaderPolls, BatchDone
    <3> QED
      BY <2>2, <3>1, SameBroadcast DEF ReaderPolls, BatchDone
  <2> QED
    BY <1>14, <2>1, <2>2
<1>15. ASSUME NEW r \in Readers, ReaderEnds(r) PROVE BroadcastInv'
  <2>1. \A s \in Members(active) : pc'[s] # "new"
    BY <1>0, <1>15, MovedOn DEF ReaderEnds, Move
  <2> QED
    BY <1>15, <2>1, SameBroadcast DEF ReaderEnds
<1>16. CASE UNCHANGED vars
  BY <1>0, <1>16, SameBroadcast DEF vars
<1> QED
  BY <1>1, <1>2, <1>3, <1>4, <1>5, <1>6, <1>7, <1>8, <1>9, <1>10, <1>11, <1>12,
     <1>13, <1>14, <1>15, <1>16 DEF Next

(* A broadcast passes nobody over, for any number of sockets, and however  *)
(* connections are opened and lost while it runs.                          *)
THEOREM BroadcastComplete == Spec => []BroadcastReachesAll
<1>1. BroadcastInv => BroadcastReachesAll
  BY DEF BroadcastInv
<1> QED
  BY <1>1, InitBroadcastInv, NextBroadcastInv, TypeCorrect, PTL DEF Spec

-----------------------------------------------------------------------------
(***************************************************************************)
(* The RPC client, for every number of callers and attempts, cache time and*)
(* clock.                                                                  *)
(***************************************************************************)

(* The entry was stored no later than now, after its answer was given and  *)
(* before more time had gone by than its fetching took.                    *)
CacheInv ==
  expires > 0 =>
    /\ cached + Ttl <= expires
    /\ expires <= cached + cachedWait + Ttl
    /\ expires <= now + Ttl

(* A request has been sent, and the node's answer was given since.         *)
RequestInv ==
  \A c \in Callers :
    /\ rpcPc[c] \in InFlight => sent[c] <= now
    /\ rpcPc[c] = "answered" => sent[c] <= answer[c] /\ answer[c] <= now

RpcIInv == RpcTypeOK /\ CacheInv /\ RequestInv /\ AnswersAreRecent

LEMMA RpcInitIInv == RpcInit => RpcIInv
<1> SUFFICES ASSUME RpcInit PROVE RpcIInv
  OBVIOUS
<1> USE RpcAssumption DEF RpcInit
<1>1. RpcTypeOK
  BY DEF RpcTypeOK
<1>2. CacheInv /\ RequestInv /\ AnswersAreRecent
  BY DEF CacheInv, RequestInv, AnswersAreRecent, InFlight
<1> QED
  BY <1>1, <1>2 DEF RpcIInv

(* A caller whose call ends, with an answer of the age old that took so    *)
(* long to fetch, or with none, while the entry of the cache keeps its     *)
(* meaning.                                                                *)
LEMMA CallEnds ==
  ASSUME RpcIInv, NEW c \in Callers,
         NEW how \in {"returned", "raised"}, NEW old \in Nat, NEW took \in Nat,
         rpcPc' = [rpcPc EXCEPT ![c] = how],
         age' = [age EXCEPT ![c] = old], wait' = [wait EXCEPT ![c] = took],
         cacheable' = [cacheable EXCEPT ![c] = FALSE],
         sent' = [sent EXCEPT ![c] = 0], answer' = [answer EXCEPT ![c] = 0],
         attempt' \in [Callers -> 0 .. MaxAttempts],
         \A d \in Callers \ {c} : attempt'[d] = attempt[d],
         how = "returned" =>
           old <= took + IF attempt'[c] = 0 THEN Ttl ELSE 0,
         now' = now, cached' \in Nat, cachedWait' \in Nat, expires' \in Nat, CacheInv'
  PROVE  RpcIInv'
<1>1. RpcTypeOK'
  BY DEF RpcIInv, RpcTypeOK
<1>2. RequestInv'
  <2> SUFFICES ASSUME NEW d \in Callers
               PROVE  /\ rpcPc'[d] \in InFlight => sent'[d] <= now
                      /\ rpcPc'[d] = "answered" => sent'[d] <= answer'[d] /\ answer'[d] <= now
    BY DEF RequestInv
  <2>1. CASE d = c
    BY <2>1 DEF RpcIInv, RpcTypeOK, InFlight
  <2>2. CASE d # c
    BY <2>2 DEF RpcIInv, RpcTypeOK, RequestInv
  <2> QED
    BY <2>1, <2>2
<1>3. AnswersAreRecent'
  <2> SUFFICES ASSUME NEW d \in Callers, rpcPc'[d] = "returned"
               PROVE  age'[d] <= wait'[d] + IF attempt'[d] = 0 THEN Ttl ELSE 0
    BY DEF AnswersAreRecent
  <2>1. CASE d = c
    BY <2>1 DEF RpcIInv, RpcTypeOK
  <2>2. CASE d # c
    BY <2>2 DEF RpcIInv, RpcTypeOK, AnswersAreRecent
  <2> QED
    BY <2>1, <2>2
<1> QED
  BY <1>1, <1>2, <1>3 DEF RpcIInv

LEMMA RpcNextIInv == RpcIInv /\ [RpcNext]_rpcVars => RpcIInv'
<1> SUFFICES ASSUME RpcIInv, [RpcNext]_rpcVars PROVE RpcIInv'
  OBVIOUS
<1> USE RpcAssumption
<1>t. RpcTypeOK /\ CacheInv /\ RequestInv /\ AnswersAreRecent
  BY DEF RpcIInv
<1>1. CASE UNCHANGED rpcVars
  BY <1>1, <1>t DEF rpcVars, cacheVars, RpcIInv, RpcTypeOK, CacheInv, RequestInv, AnswersAreRecent
<1>2. CASE Tick
  <2>1. RpcTypeOK'
    BY <1>2, <1>t DEF Tick, cacheVars, RpcTypeOK
  <2>2. CacheInv' /\ AnswersAreRecent'
    BY <1>2, <1>t DEF Tick, cacheVars, RpcTypeOK, CacheInv, AnswersAreRecent
  <2>3. RequestInv'
    BY <1>2, <1>t DEF Tick, cacheVars, RpcTypeOK, RequestInv, InFlight
  <2> QED
    BY <2>1, <2>2, <2>3 DEF RpcIInv
<1>3. ASSUME NEW c \in Callers, Hit(c) PROVE RpcIInv'
  <2>1. /\ now - cached \in Nat
        /\ cachedWait \in Nat /\ now - cached <= cachedWait + Ttl
    BY <1>3, <1>t DEF Hit, Fresh, RpcTypeOK, CacheInv
  <2>2. /\ attempt' \in [Callers -> 0 .. MaxAttempts] /\ attempt'[c] = 0
        /\ \A d \in Callers \ {c} : attempt'[d] = attempt[d]
    BY <1>3, <1>t DEF Hit, RpcTypeOK
  <2>3. CacheInv' /\ cached' \in Nat /\ cachedWait' \in Nat /\ expires' \in Nat /\ now' = now
    BY <1>3, <1>t DEF Hit, CacheInv, RpcTypeOK, cacheVars
  <2> QED
    BY <1>3, <2>1, <2>2, <2>3, CallEnds DEF Hit, Return, RpcMove
<1>4. ASSUME NEW c \in Callers, HitExpires(c) PROVE RpcIInv'
  <2>2. /\ attempt' \in [Callers -> 0 .. MaxAttempts]
        /\ \A d \in Callers \ {c} : attempt'[d] = attempt[d]
    BY <1>4, <1>t DEF HitExpires, Raise, RpcTypeOK
  <2>3. CacheInv' /\ cached' \in Nat /\ cachedWait' \in Nat /\ expires' \in Nat /\ now' = now
    BY <1>4, <1>t DEF HitExpires, CacheInv, RpcTypeOK, cacheVars
  <2> QED
    BY <1>4, <2>2, <2>3, CallEnds DEF HitExpires, Raise, RpcMove
<1>5. ASSUME NEW c \in Callers, NEW useCache \in BOOLEAN, Call(c, useCache)
      PROVE  RpcIInv'
  <2>1. RpcTypeOK'
    BY <1>5, <1>t DEF Call, RpcMove, cacheVars, RpcTypeOK
  <2>2. CacheInv' /\ RequestInv'
    BY <1>5, <1>t DEF Call, RpcMove, cacheVars, RpcTypeOK, CacheInv, RequestInv, InFlight
  <2>3. AnswersAreRecent'
    BY <1>5, <1>t DEF Call, RpcMove, cacheVars, RpcTypeOK, AnswersAreRecent
  <2> QED
    BY <2>1, <2>2, <2>3 DEF RpcIInv
<1>6. ASSUME NEW c \in Callers, NodeAnswers(c) PROVE RpcIInv'
  <2>1. RpcTypeOK'
    BY <1>6, <1>t DEF NodeAnswers, RpcMove, cacheVars, RpcTypeOK
  <2>2. CacheInv' /\ RequestInv'
    BY <1>6, <1>t DEF NodeAnswers, RpcMove, cacheVars, RpcTypeOK, CacheInv, RequestInv, InFlight
  <2>3. AnswersAreRecent'
    BY <1>6, <1>t DEF NodeAnswers, RpcMove, cacheVars, RpcTypeOK, AnswersAreRecent
  <2> QED
    BY <2>1, <2>2, <2>3 DEF RpcIInv
<1>7. ASSUME NEW c \in Callers, Arrives(c) PROVE RpcIInv'
  <2>1. /\ now - answer[c] \in Nat /\ now - sent[c] \in Nat
        /\ now - answer[c] <= now - sent[c]
        /\ answer[c] \in Nat
    BY <1>7, <1>t DEF Arrives, Return, RpcMove, RpcTypeOK, RequestInv, InFlight
  <2>2. /\ attempt' = attempt /\ now' = now
        /\ attempt \in [Callers -> 0 .. MaxAttempts]
    BY <1>7, <1>t DEF Arrives, RpcTypeOK
  <2>3. cached' \in Nat /\ cachedWait' \in Nat /\ expires' \in Nat /\ CacheInv'
    <3>1. CASE cacheable[c]
      BY <1>7, <1>t, <2>1, <3>1 DEF Arrives, RpcTypeOK, CacheInv
    <3>2. CASE ~ cacheable[c]
      BY <1>7, <1>t, <3>2 DEF Arrives, RpcTypeOK, CacheInv, cacheVars
    <3> QED
      BY <3>1, <3>2
  <2>4. now - answer[c] <= now - sent[c] + IF attempt'[c] = 0 THEN Ttl ELSE 0
    BY <2>1, <2>2
  <2> DEFINE old == now - answer[c]
  <2> DEFINE took == now - sent[c]
  <2>5. /\ rpcPc' = [rpcPc EXCEPT ![c] = "returned"]
        /\ age' = [age EXCEPT ![c] = old] /\ wait' = [wait EXCEPT ![c] = took]
        /\ cacheable' = [cacheable EXCEPT ![c] = FALSE]
        /\ sent' = [sent EXCEPT ![c] = 0] /\ answer' = [answer EXCEPT ![c] = 0]
    BY <1>7 DEF Arrives, Return, RpcMove
  <2>6. /\ old \in Nat /\ took \in Nat
        /\ old <= took + IF attempt'[c] = 0 THEN Ttl ELSE 0
    BY <2>1, <2>4
  <2> HIDE DEF old, took
  <2> QED
    BY <2>2, <2>3, <2>5, <2>6, CallEnds
<1>8. ASSUME NEW c \in Callers, AttemptFails(c) PROVE RpcIInv'
  <2>1. CASE attempt[c] < MaxAttempts
    <3>0. /\ rpcPc' = [rpcPc EXCEPT ![c] = "backoff"]
          /\ answer' = [answer EXCEPT ![c] = 0]
          /\ UNCHANGED <<now, cacheable, attempt, sent, age, wait, cached, cachedWait, expires>>
      BY <1>8, <1>t, <2>1 DEF AttemptFails, RpcMove, RpcTypeOK, cacheVars
    <3>1. RpcTypeOK'
      BY <3>0, <1>t DEF RpcTypeOK
    <3>2. CacheInv' /\ RequestInv'
      BY <3>0, <1>t DEF RpcTypeOK, CacheInv, RequestInv, InFlight
    <3>3. AnswersAreRecent'
      BY <3>0, <1>t DEF RpcTypeOK, AnswersAreRecent
    <3> QED
      BY <3>1, <3>2, <3>3 DEF RpcIInv
  <2>2. CASE ~ (attempt[c] < MaxAttempts)
    <3>0. Raise(c, InFlight) /\ UNCHANGED <<now, cached, cachedWait, expires>>
      BY <1>8, <1>t, <2>2 DEF AttemptFails, RpcTypeOK, cacheVars
    <3>1. /\ attempt' \in [Callers -> 0 .. MaxAttempts]
          /\ \A d \in Callers \ {c} : attempt'[d] = attempt[d]
      BY <3>0, <1>t DEF Raise, RpcTypeOK
    <3>2. CacheInv' /\ cached' \in Nat /\ cachedWait' \in Nat /\ expires' \in Nat /\ now' = now
      BY <3>0, <1>t DEF CacheInv, RpcTypeOK
    <3> QED
      BY <3>0, <3>1, <3>2, CallEnds, <1>t DEF Raise, RpcMove, RpcIInv
  <2> QED
    BY <2>1, <2>2
<1>9. ASSUME NEW c \in Callers, Retry(c) PROVE RpcIInv'
  <2>1. RpcTypeOK'
    BY <1>9, <1>t DEF Retry, RpcMove, cacheVars, RpcTypeOK
  <2>2. CacheInv' /\ RequestInv'
    BY <1>9, <1>t DEF Retry, RpcMove, cacheVars, RpcTypeOK, CacheInv, RequestInv, InFlight
  <2>3. AnswersAreRecent'
    BY <1>9, <1>t DEF Retry, RpcMove, cacheVars, RpcTypeOK, AnswersAreRecent
  <2> QED
    BY <2>1, <2>2, <2>3 DEF RpcIInv
<1> QED
  BY <1>1, <1>2, <1>3, <1>4, <1>5, <1>6, <1>7, <1>8, <1>9 DEF RpcNext

(* RpcIInv holds in every state.                                           *)
THEOREM RpcInvariant == RpcSpec => []RpcIInv
<1>1. RpcInit => RpcIInv
  BY RpcInitIInv
<1>2. RpcIInv /\ [RpcNext]_rpcVars => RpcIInv'
  BY RpcNextIInv
<1> QED
  BY <1>1, <1>2, PTL DEF RpcSpec

(* The variables of the client keep their types.                           *)
THEOREM RpcTypeCorrect == RpcSpec => []RpcTypeOK
<1>1. RpcIInv => RpcTypeOK
  BY DEF RpcIInv
<1> QED
  BY <1>1, RpcInvariant, PTL

(* No answer returned is older than the attempt that fetched it and the    *)
(* cache time together, whatever concurrent calls store, however often they*)
(* retry and however long an answer takes.                                 *)
THEOREM RecentAnswers == RpcSpec => []AnswersAreRecent
<1>1. RpcIInv => AnswersAreRecent
  BY DEF RpcIInv
<1> QED
  BY <1>1, RpcInvariant, PTL
-----------------------------------------------------------------------------
(***************************************************************************)
(* The signals routes, for every set of rows and table.  A request runs a  *)
(* loop over rows; what it leaves is shown by induction over them.         *)
(***************************************************************************)

Signal == [direction : {"BEARISH", "BULLISH", "NEUTRAL"}, severity : LOW .. CRITICAL,
           btc : Nat, created : Nat]
Generator == [tracked : SUBSET {TrackKey(tx) : tx \in Rows}, signals : Seq(Signal),
              raised : BOOLEAN]

(* A severity is the number of thresholds reached.                        *)
LEMMA SeverityOfTransfer ==
  ASSUME NEW btc \in Nat
  PROVE  CalculateSeverity(btc) \in LOW .. CRITICAL
<1> DEFINE two == {500, 1000}
           all == {500, 1000, 5000}
           passed == {t \in {500, HighValueThreshold, CriticalValueThreshold} : btc >= t}
<1>1. IsFiniteSet(all) /\ Cardinality(all) = 3
  <2>1. IsFiniteSet({500}) /\ Cardinality({500}) = 1
    BY FS_Singleton, Zenon
  <2>2. two = {500} \union {1000} /\ 1000 \notin {500}
    OBVIOUS
  <2>3. IsFiniteSet(two) /\ Cardinality(two) = 2
    BY <2>1, <2>2, FS_AddElement
  <2>4. all = two \union {5000} /\ 5000 \notin two
    OBVIOUS
  <2> HIDE DEF two, all
  <2> QED
    BY <2>3, <2>4, FS_AddElement
<1>2. passed \in SUBSET all
  BY DEF HighValueThreshold, CriticalValueThreshold
<1> HIDE DEF all, passed
<1>3. IsFiniteSet(passed) /\ Cardinality(passed) <= 3
  BY <1>1, <1>2, FS_Subset
<1>4. Cardinality(passed) \in Nat
  BY <1>3, FS_CardinalityType
<1>5. CalculateSeverity(btc) = Cardinality(passed)
  BY DEF CalculateSeverity, passed
<1> QED
  BY <1>3, <1>4, <1>5 DEF LOW, CRITICAL

LEMMA GenerateIsGenerator ==
  ASSUME NEW gen \in Generator, NEW tx \in Rows, NEW position \in Nat
  PROVE  Generate(gen, tx, position) \in Generator
<1>1. tx.btc \in Nat
  BY SignalsAssumption
<1>2. CASE gen.raised \/ tx.types = << >>
  BY <1>2 DEF Generate
<1>3. CASE ~ (gen.raised \/ tx.types = << >>) /\ (TrackRaises(gen, tx) \/ ActionMissing(tx))
  <2>1. Generate(gen, tx, position) = [gen EXCEPT !.raised = TRUE]
    BY <1>3 DEF Generate
  <2> QED
    BY <2>1 DEF Generator
<1>4. CASE ~ (gen.raised \/ tx.types = << >>) /\ ~ (TrackRaises(gen, tx) \/ ActionMissing(tx))
  <2> DEFINE type == Head(tx.types)
             severity == Severity(type, tx.btc)
             signal == [direction |-> Direction(type), severity |-> severity,
                        btc |-> tx.btc, created |-> position]
             tracked == IF type \in Tracked THEN gen.tracked \union {TrackKey(tx)}
                        ELSE gen.tracked
             signals == IF severity = NoSignal THEN gen.signals
                        ELSE Append(gen.signals, signal)
  <2>1. Generate(gen, tx, position)
          = [gen EXCEPT !.tracked = tracked, !.signals = signals]
    BY <1>4 DEF Generate
  <2>2. tracked \in SUBSET {TrackKey(t) : t \in Rows}
    BY DEF Generator
  <2>3. severity \in {NoSignal} \union (LOW .. CRITICAL)
    <3>1. CalculateSeverity(tx.btc) \in LOW .. CRITICAL
      BY <1>1, SeverityOfTransfer
    <3> HIDE DEF type
    <3> QED
      BY <3>1 DEF Severity, LOW, MEDIUM, CRITICAL, NoSignal
  <2>4. Direction(type) \in {"BEARISH", "BULLISH", "NEUTRAL"}
    BY DEF Direction
  <2>5. signals \in Seq(Signal)
    <3>1. CASE severity = NoSignal
      BY <3>1 DEF Generator
    <3>2. CASE severity # NoSignal
      <4>1. severity \in LOW .. CRITICAL
        BY <2>3, <3>2
      <4> HIDE DEF severity
      <4>2. signal \in Signal
        BY <1>1, <2>4, <4>1 DEF Signal
      <4> HIDE DEF signal
      <4> QED
        BY <3>2, <4>2 DEF Generator
    <3> QED
      BY <3>1, <3>2
  <2> HIDE DEF tracked, signals
  <2> QED
    BY <2>1, <2>2, <2>5 DEF Generator
<1> QED
  BY <1>2, <1>3, <1>4

(* The loop of a request unfolds.                                          *)
LEMMA GeneratorLoop ==
  ASSUME NEW n \in Nat, NEW step \in [1 .. n -> [Generator -> Generator]]
  PROVE  \E gen \in [0 .. n -> Generator] :
           gen[0] = NewGenerator /\ \A i \in 1 .. n : gen[i] = step[i][gen[i - 1]]
<1>1. NewGenerator \in Generator
  BY DEF NewGenerator, Generator
<1> QED
  BY <1>1, LoopExists

LEMMA LoopOverRows ==
  ASSUME NEW n \in Nat, NEW txs, \A i \in 1 .. n : txs[i] \in Rows
  PROVE  \E gen \in [0 .. n -> Generator] :
           /\ gen[0] = NewGenerator
           /\ \A i \in 1 .. n : gen[i] = Generate(gen[i - 1], txs[i], i)
<1>1. PICK step \in [1 .. n -> [Generator -> Generator]] :
        \A i \in 1 .. n, g \in Generator : step[i][g] = Generate(g, txs[i], i)
  <2> DEFINE steps == [i \in 1 .. n |-> [g \in Generator |-> Generate(g, txs[i], i)]]
  <2>1. steps \in [1 .. n -> [Generator -> Generator]]
    BY GenerateIsGenerator
  <2>2. \A i \in 1 .. n, g \in Generator : steps[i][g] = Generate(g, txs[i], i)
    OBVIOUS
  <2> QED
    BY <2>1, <2>2
<1>2. PICK gen \in [0 .. n -> Generator] :
        gen[0] = NewGenerator /\ \A i \in 1 .. n : gen[i] = step[i][gen[i - 1]]
  BY <1>1, GeneratorLoop
<1>3. \A i \in 1 .. n : gen[i - 1] \in Generator
  OBVIOUS
<1> QED
  BY <1>1, <1>2, <1>3

LEMMA RunUnfolds ==
  ASSUME NEW n \in Nat, NEW txs \in Seq(Rows), n = Len(txs)
  PROVE  \E gen \in [0 .. n -> Generator] :
           /\ Run(txs) = gen[n] /\ gen[0] = NewGenerator
           /\ \A i \in 1 .. n : gen[i] = Generate(gen[i - 1], txs[i], i)
<1> DEFINE IsLoop(gen) == gen = [i \in 0 .. n |->
               IF i = 0 THEN NewGenerator ELSE Generate(gen[i - 1], txs[i], i)]
<1>1. NewGenerator \in Generator
  BY DEF NewGenerator, Generator
<1>2. \A i \in 1 .. n : txs[i] \in Rows
  OBVIOUS
<1>3. PICK gen \in [0 .. n -> Generator] :
        /\ gen[0] = NewGenerator
        /\ \A i \in 1 .. n : gen[i] = Generate(gen[i - 1], txs[i], i)
  BY <1>2, LoopOverRows
<1>4. IsLoop(gen)
  <2>1. \A i \in 0 .. n : i = 0 \/ i \in 1 .. n
    OBVIOUS
  <2> DEFINE h == [i \in 0 .. n |->
                     IF i = 0 THEN NewGenerator ELSE Generate(gen[i - 1], txs[i], i)]
  <2>2. \A i \in 0 .. n : gen[i] = h[i]
    BY <1>3, <2>1
  <2>3. gen = h
    BY <2>2
  <2> QED
    BY <2>3
<1> DEFINE loop == CHOOSE g : IsLoop(g)
<1>5. IsLoop(loop)
  BY <1>4
<1>6. Run(txs) = loop[n]
  BY DEF Run
<1> HIDE DEF loop
<1>7. /\ loop[0] = NewGenerator
      /\ \A i \in 1 .. n : loop[i] = Generate(loop[i - 1], txs[i], i)
  <2> DEFINE body(i) == IF i = 0 THEN NewGenerator ELSE Generate(loop[i - 1], txs[i], i)
             h == [i \in 0 .. n |-> body(i)]
  <2>1. loop = h /\ \A i \in 0 .. n : h[i] = body(i)
    BY <1>5
  <2> HIDE DEF h, body
  <2>2. \A i \in 0 .. n : loop[i] = body(i)
    BY <2>1
  <2>3. \A i \in 1 .. n : i \in 0 .. n /\ i # 0
    OBVIOUS
  <2> QED
    BY <2>2, <2>3 DEF body
<1>8. \A i \in 0 .. n : loop[i] \in Generator
  <2> DEFINE N == {k \in Nat : k <= n => loop[k] \in Generator}
  <2>1. 0 \in N
    BY <1>1, <1>7
  <2>2. ASSUME NEW k \in Nat, k \in N PROVE k + 1 \in N
    <3> SUFFICES ASSUME k + 1 <= n PROVE loop[k + 1] \in Generator
      OBVIOUS
    <3>1. k + 1 \in 1 .. n /\ k + 1 - 1 = k /\ loop[k] \in Generator
      BY <2>2
    <3>2. loop[k + 1] = Generate(loop[k], txs[k + 1], k + 1)
      BY <1>7, <3>1
    <3> QED
      BY <1>2, <3>1, <3>2, GenerateIsGenerator
  <2> HIDE DEF N
  <2>3. Nat \subseteq N
    BY <2>1, <2>2, SetInduction
  <2> QED
    BY <2>3 DEF N
<1>9. loop \in [0 .. n -> Generator]
  <2>1. loop = [i \in 0 .. n |-> loop[i]]
    BY <1>5
  <2> QED
    BY <1>8, <2>1
<1> QED
  BY <1>6, <1>7, <1>9

(* get_recent: rows of the table, the last first.                          *)
LEMMA RecentRows ==
  ASSUME table \in Seq(Rows), NEW n \in 0 .. Len(table)
  PROVE  /\ GetRecent(n) \in Seq(Rows) /\ Len(GetRecent(n)) = n
         /\ \A i \in 1 .. n : GetRecent(n)[i] = table[Len(table) - i + 1]
<1> DEFINE back == [i \in 1 .. Len(table) |-> table[(Len(table) - i) + 1]]
<1>1. back \in Seq(Rows) /\ Len(back) = Len(table)
  OBVIOUS
<1>2. \A i \in 1 .. n : back[i] = table[Len(table) - i + 1]
  OBVIOUS
<1>3. GetRecent(n) = SubSeq(back, 1, n)
  BY DEF GetRecent, Reverse
<1> HIDE DEF back
<1> QED
  BY <1>1, <1>2, <1>3

LEMMA Inserted ==
  ASSUME NEW rows \in Seq(Rows), NEW k \in 1 .. Len(rows) + 1, NEW tx \in Rows
  PROVE  InsertAt(rows, k, tx) \in Seq(Rows)
<1>1. SubSeq(rows, 1, k - 1) \in Seq(Rows) /\ SubSeq(rows, k, Len(rows)) \in Seq(Rows)
  OBVIOUS
<1>2. <<tx>> \in Seq(Rows)
  OBVIOUS
<1> QED
  BY <1>1, <1>2 DEF InsertAt

-----------------------------------------------------------------------------
(* Sorting.                                                                *)
LEMMA BeforeIsStrict ==
  ASSUME NEW a \in Signal, NEW b \in Signal, NEW c \in Signal
  PROVE  /\ Before(a, b) => ~ Before(b, a)
         /\ Before(a, b) /\ Before(b, c) => Before(a, c)
         /\ ~ Before(b, a) => a.severity >= b.severity
<1>1. /\ a.severity \in Int /\ b.severity \in Int /\ c.severity \in Int
      /\ a.created \in Int /\ b.created \in Int /\ c.created \in Int
  BY DEF Signal, LOW, CRITICAL
<1> QED
  BY <1>1 DEF Before

LEMMA SortedIs ==
  ASSUME NEW s \in Seq(Signal)
  PROVE  /\ Sorted(s) \in Seq(Signal) /\ Len(Sorted(s)) = Len(s)
         /\ Members(Sorted(s)) = Members(s)
         /\ \A i, j \in 1 .. Len(s) : i < j => Sorted(s)[i].severity >= Sorted(s)[j].severity
<1> DEFINE n == Len(s)
           IsOrder(p) == /\ p \in [1 .. n -> 1 .. n] /\ 1 .. n \subseteq {p[i] : i \in 1 .. n}
                         /\ \A i, j \in 1 .. n : i < j => ~ Before(s[p[j]], s[p[i]])
           B == {pair \in (1 .. n) \X (1 .. n) : Before(s[pair[1]], s[pair[2]])}
<1>1. n \in Nat /\ DOMAIN s = 1 .. n /\ \A i \in 1 .. n : s[i] \in Signal
  OBVIOUS
<1>2. \A i, j \in Places(n) : <<i, j>> \in B <=> Before(s[i], s[j])
  BY DEF Places
<1> HIDE DEF B, n
<1>3. \A i, j \in Places(n) : <<i, j>> \in B => <<j, i>> \notin B
  BY <1>1, <1>2, BeforeIsStrict DEF Places
<1>4. \A i, j, k \in Places(n) : <<i, j>> \in B /\ <<j, k>> \in B => <<i, k>> \in B
  BY <1>1, <1>2, BeforeIsStrict DEF Places
<1>5. \E p : IsOrder(p)
  <2>1. PICK p : Ordering(p, n, B)
    BY <1>1, <1>3, <1>4, OrderExists
  <2>2. \A i \in Places(n) : p[i] \in Places(n)
    BY <2>1 DEF Ordering
  <2>3. IsOrder(p)
    BY <1>2, <2>1, <2>2 DEF Ordering, Places
  <2> QED
    BY <2>3
<1> DEFINE order == CHOOSE p \in [1 .. n -> 1 .. n] :
                      /\ 1 .. n \subseteq {p[i] : i \in 1 .. n}
                      /\ \A i, j \in 1 .. n : i < j => ~ Before(s[p[j]], s[p[i]])
<1>6. IsOrder(order)
  BY <1>5
<1>7. Sorted(s) = [i \in 1 .. n |-> s[order[i]]]
  BY <1>1 DEF Sorted
<1> HIDE DEF order
<1>8. \A i \in 1 .. n : order[i] \in 1 .. n
  BY <1>6
<1>9. Sorted(s) \in Seq(Signal) /\ Len(Sorted(s)) = n /\ DOMAIN Sorted(s) = 1 .. n
  BY <1>1, <1>7, <1>8
<1>10. \A i \in 1 .. n : Sorted(s)[i] = s[order[i]]
  BY <1>7
<1>11. Members(Sorted(s)) = Members(s)
  <2>1. \A m \in 1 .. n : \E i \in 1 .. n : order[i] = m
    BY <1>6
  <2>2. Members(s) = {s[i] : i \in 1 .. n}
    BY <1>1 DEF Members
  <2>3. Members(Sorted(s)) = {s[order[i]] : i \in 1 .. n}
    BY <1>9, <1>10 DEF Members
  <2>4. \A i \in 1 .. n : s[order[i]] \in {s[m] : m \in 1 .. n}
    BY <1>8
  <2>5. ASSUME NEW m \in 1 .. n PROVE s[m] \in {s[order[i]] : i \in 1 .. n}
    BY <2>1
  <2> QED
    BY <2>2, <2>3, <2>4, <2>5
<1>12. ASSUME NEW i \in 1 .. n, NEW j \in 1 .. n, i < j
       PROVE  Sorted(s)[i].severity >= Sorted(s)[j].severity
  <2>1. ~ Before(s[order[j]], s[order[i]])
    BY <1>6, <1>12
  <2>2. s[order[i]] \in Signal /\ s[order[j]] \in Signal
    BY <1>1, <1>8
  <2> QED
    BY <1>10, <2>1, <2>2, BeforeIsStrict
<1> QED
  BY <1>9, <1>11, <1>12 DEF n

LEMMA Found ==
  ASSUME NEW signals \in Seq(Signal), NEW direction, NEW minBtc, NEW minSeverity,
         NEW W, W = AllWanted(signals, direction, minBtc, minSeverity),
         NEW found, found = TradingSignals(signals, direction, minBtc, minSeverity)
  PROVE  /\ found \in Seq(Signal) /\ Members(found) = W
         /\ \A i, j \in 1 .. Len(found) : i < j => found[i].severity >= found[j].severity
<1> DEFINE kept == Only(signals, W)
<1>1. kept \in Seq(Signal) /\ Members(kept) = Members(signals) \intersect W
  BY OnlyMembers
<1>2. W \subseteq Members(signals)
  BY DEF AllWanted
<1>3. found = Sorted(kept)
  BY DEF TradingSignals
<1> HIDE DEF kept
<1> QED
  BY <1>1, <1>2, <1>3, SortedIs

(* What the limit cuts off.                                                *)
LEMMA CutKeepsSeverest ==
  ASSUME NEW found \in Seq(Signal), NEW limit \in Nat \ {0},
         \A i, j \in 1 .. Len(found) : i < j => found[i].severity >= found[j].severity
  PROVE  /\ Members(Cut(found, limit)) \subseteq Members(found)
         /\ \A cut \in Members(found) \ Members(Cut(found, limit)) :
              /\ Len(Cut(found, limit)) = limit
              /\ \A s \in Members(Cut(found, limit)) : cut.severity <= s.severity
<1> DEFINE n == Len(found)
           m == IF limit < n THEN limit ELSE n
           shown == Cut(found, limit)
<1>1. n \in Nat /\ m \in 0 .. n /\ DOMAIN found = 1 .. n
  OBVIOUS
<1>2. DOMAIN shown = 1 .. m /\ Len(shown) = m /\ \A i \in 1 .. m : shown[i] = found[i]
  BY <1>1 DEF Cut
<1>3. m < n => m = limit
  OBVIOUS
<1> HIDE DEF shown, m
<1>4. Members(shown) = {found[i] : i \in 1 .. m} /\ Members(found) = {found[i] : i \in 1 .. n}
  BY <1>1, <1>2 DEF Members
<1>5. ASSUME NEW cut \in Members(found) \ Members(shown)
      PROVE  Len(shown) = limit /\ \A s \in Members(shown) : cut.severity <= s.severity
  <2>1. PICK j \in 1 .. n : cut = found[j]
    BY <1>4
  <2>2. j > m
    BY <1>1, <1>4, <2>1
  <2>3. m = limit
    BY <1>1, <1>3, <2>2
  <2>4. ASSUME NEW s \in Members(shown) PROVE cut.severity <= s.severity
    <3>1. PICK i \in 1 .. m : s = found[i]
      BY <1>4
    <3>2. i \in 1 .. n /\ i < j
      BY <1>1, <2>2
    <3>3. found[i].severity >= found[j].severity
      BY <3>2
    <3>4. found[i] \in Signal /\ found[j] \in Signal
      BY <1>1, <3>2
    <3> QED
      BY <2>1, <3>1, <3>3, <3>4 DEF Signal, LOW, CRITICAL
  <2> QED
    BY <1>2, <2>3, <2>4
<1> QED
  BY <1>1, <1>4, <1>5 DEF shown

(* The choice of the latest endpoint: a most severe one of those wanted.   *)
IsMostSevere(best, W) ==
  /\ best = << >> => W = {}
  /\ best # << >> => /\ best = <<best[1]>> /\ best[1] \in W
                     /\ \A s \in W : s.severity <= best[1].severity

LEMMA LatestOverSignals ==
  ASSUME NEW n \in Nat, NEW G, << >> \in G, NEW step \in [1 .. n -> [G -> G]]
  PROVE  \E best \in [0 .. n -> G] :
           best[0] = << >> /\ \A i \in 1 .. n : best[i] = step[i][best[i - 1]]
BY LoopExists

Choosing(best, n, signals, direction, minSeverity) ==
  /\ best[0] = << >>
  /\ \A i \in 1 .. n :
       best[i] = IF /\ Wanted(signals[i], direction, 0, minSeverity)
                    /\ Better(best[i - 1], signals[i])
                 THEN <<signals[i]>> ELSE best[i - 1]

LEMMA LatestUnfolds ==
  ASSUME NEW n \in Nat, NEW signals, n = Len(signals), NEW direction, NEW minSeverity
  PROVE  \E best :
           /\ LatestSignal(signals, direction, minSeverity) = best[n]
           /\ Choosing(best, n, signals, direction, minSeverity)
<1> DEFINE Step(i, b) == IF /\ Wanted(signals[i], direction, 0, minSeverity)
                            /\ Better(b, signals[i])
                         THEN <<signals[i]>> ELSE b
           G == {<< >>} \union {<<signals[i]>> : i \in 1 .. n}
           IsLoop(f) == f = [i \in 0 .. n |-> IF i = 0 THEN << >> ELSE
                               IF /\ Wanted(signals[i], direction, 0, minSeverity)
                                  /\ Better(f[i - 1], signals[i])
                               THEN <<signals[i]>> ELSE f[i - 1]]
           steps == [i \in 1 .. n |-> [b \in G |-> Step(i, b)]]
<1>1. \A i \in 1 .. n, b \in G : Step(i, b) \in G
  OBVIOUS
<1>2. << >> \in G
  OBVIOUS
<1> HIDE DEF Step, G
<1>3. steps \in [1 .. n -> [G -> G]]
  BY <1>1
<1>4. \A i \in 1 .. n, b \in G : steps[i][b] = Step(i, b)
  OBVIOUS
<1> HIDE DEF steps
<1>5. PICK f \in [0 .. n -> G] :
        f[0] = << >> /\ \A i \in 1 .. n : f[i] = steps[i][f[i - 1]]
  BY <1>2, <1>3, LatestOverSignals
<1>6. \A i \in 1 .. n : f[i] = Step(i, f[i - 1])
  <2>1. \A i \in 1 .. n : f[i - 1] \in G
    OBVIOUS
  <2> QED
    BY <1>4, <1>5, <2>1
<1>7. IsLoop(f)
  <2> DEFINE h == [i \in 0 .. n |-> IF i = 0 THEN << >> ELSE Step(i, f[i - 1])]
  <2>1. \A i \in 0 .. n : i = 0 \/ i \in 1 .. n
    OBVIOUS
  <2>2. \A i \in 0 .. n : f[i] = h[i]
    BY <1>5, <1>6, <2>1
  <2>3. f = h
    BY <2>2
  <2> QED
    BY <2>3 DEF Step
<1> DEFINE best == CHOOSE g : IsLoop(g)
<1>8. IsLoop(best)
  BY <1>7
<1>9. LatestSignal(signals, direction, minSeverity) = best[n]
  BY DEF LatestSignal
<1> HIDE DEF best
<1>10. best[0] = << >> /\ \A i \in 1 .. n : best[i] = Step(i, best[i - 1])
  <2> DEFINE body(i) == IF i = 0 THEN << >> ELSE Step(i, best[i - 1])
             h == [i \in 0 .. n |-> body(i)]
  <2>1. best = h /\ \A i \in 0 .. n : h[i] = body(i)
    BY <1>8 DEF Step
  <2> HIDE DEF h, body
  <2>2. \A i \in 0 .. n : best[i] = body(i)
    BY <2>1
  <2>3. \A i \in 1 .. n : i \in 0 .. n /\ i # 0
    OBVIOUS
  <2> QED
    BY <2>2, <2>3 DEF body
<1> QED
  BY <1>9, <1>10 DEF Step, Choosing

LEMMA LatestIsMostSevere ==
  ASSUME NEW signals \in Seq(Signal), NEW direction, NEW minSeverity
  PROVE  IsMostSevere(LatestSignal(signals, direction, minSeverity),
                      AllWanted(signals, direction, 0, minSeverity))
<1>1. PICK n \in Nat : n = Len(signals) /\ DOMAIN signals = 1 .. n
  OBVIOUS
<1>2. PICK best :
        /\ LatestSignal(signals, direction, minSeverity) = best[n]
        /\ Choosing(best, n, signals, direction, minSeverity)
  BY <1>1, LatestUnfolds
<1> DEFINE W(k) == {signals[i] : i \in {j \in 1 .. k : Wanted(signals[j], direction, 0, minSeverity)}}
           N == {k \in Nat : k <= n => IsMostSevere(best[k], W(k))}
<1>3. 0 \in N
  BY <1>2 DEF IsMostSevere, Choosing
<1>4. ASSUME NEW k \in Nat, k \in N PROVE k + 1 \in N
  <2> SUFFICES ASSUME k + 1 <= n PROVE IsMostSevere(best[k + 1], W(k + 1))
    OBVIOUS
  <2> DEFINE signal == signals[k + 1]
  <2>1. k + 1 \in 1 .. n /\ k + 1 - 1 = k /\ IsMostSevere(best[k], W(k))
    BY <1>4
  <2>2. best[k + 1] = IF Wanted(signal, direction, 0, minSeverity) /\ Better(best[k], signal)
                      THEN <<signal>> ELSE best[k]
    BY <1>2, <2>1 DEF Choosing
  <2>3. W(k + 1) = IF Wanted(signal, direction, 0, minSeverity) THEN W(k) \union {signal} ELSE W(k)
    <3>1. \A j : j \in 1 .. k + 1 <=> j \in 1 .. k \/ j = k + 1
      OBVIOUS
    <3> QED
      BY <3>1
  <2>4. signal \in Signal /\ W(k) \subseteq Signal
    BY <1>1, <2>1
  <2> HIDE DEF W, signal
  <2>5. CASE ~ Wanted(signal, direction, 0, minSeverity)
    BY <2>1, <2>2, <2>3, <2>5
  <2>6. CASE Wanted(signal, direction, 0, minSeverity) /\ best[k] = << >>
    <3>1. best[k + 1] = <<signal>> /\ W(k + 1) = {signal}
      BY <2>1, <2>2, <2>3, <2>6 DEF Better, IsMostSevere
    <3> QED
      BY <2>4, <3>1 DEF IsMostSevere, Signal, LOW, CRITICAL
  <2>7. CASE Wanted(signal, direction, 0, minSeverity) /\ best[k] # << >>
    <3> DEFINE chosen == best[k][1]
    <3>1. best[k] = <<chosen>> /\ chosen \in W(k) /\ \A s \in W(k) : s.severity <= chosen.severity
      BY <2>1, <2>7 DEF IsMostSevere
    <3> HIDE DEF chosen
    <3>2. /\ signal.severity \in Int /\ \A s \in W(k) : s.severity \in Int
          /\ chosen.severity \in Int
      <4>1. \A s \in Signal : s.severity \in Int
        BY DEF Signal, LOW, CRITICAL
      <4> QED
        BY <2>4, <3>1, <4>1
    <3>3. CASE signal.severity > chosen.severity
      <4>1. best[k + 1] = <<signal>>
        BY <2>2, <2>7, <3>1, <3>3 DEF Better, chosen
      <4> QED
        BY <2>3, <2>7, <3>1, <3>2, <3>3, <4>1 DEF IsMostSevere
    <3>4. CASE ~ (signal.severity > chosen.severity)
      <4>1. best[k + 1] = <<chosen>>
        BY <2>2, <2>7, <3>1, <3>4 DEF Better, chosen
      <4> QED
        BY <2>3, <2>7, <3>1, <3>2, <3>4, <4>1 DEF IsMostSevere
    <3> QED
      BY <3>3, <3>4
  <2> QED
    BY <2>5, <2>6, <2>7
<1> HIDE DEF N, W
<1>5. n \in N
  BY <1>3, <1>4, SetInduction
<1>6. W(n) = AllWanted(signals, direction, 0, minSeverity)
  BY <1>1 DEF AllWanted, Members, W
<1> QED
  BY <1>2, <1>5, <1>6 DEF N

(* A request of more rows finds the signals of one of fewer, for it makes  *)
(* the same ones first and then only adds to them.                         *)
LEMMA GenerateKeepsSignals ==
  ASSUME NEW gen \in Generator, NEW tx \in Rows, NEW position \in Nat
  PROVE  Members(gen.signals) \subseteq Members(Generate(gen, tx, position).signals)
<1> DEFINE next == Generate(gen, tx, position)
<1>1. next \in Generator
  BY GenerateIsGenerator
<1>2. \/ next.signals = gen.signals
      \/ \E s : next.signals = Append(gen.signals, s)
  <2> DEFINE type == Head(tx.types)
             severity == Severity(type, tx.btc)
             signal == [direction |-> Direction(type), severity |-> severity,
                        btc |-> tx.btc, created |-> position]
             tracked == IF type \in Tracked THEN gen.tracked \union {TrackKey(tx)}
                        ELSE gen.tracked
             signals == IF severity = NoSignal THEN gen.signals
                        ELSE Append(gen.signals, signal)
  <2>1. \/ next = gen \/ next = [gen EXCEPT !.raised = TRUE]
        \/ next = [gen EXCEPT !.tracked = tracked, !.signals = signals]
    BY DEF Generate
  <2>2. signals = gen.signals \/ \E s : signals = Append(gen.signals, s)
    OBVIOUS
  <2> HIDE DEF next, tracked, signals
  <2> QED
    BY <2>1, <2>2 DEF Generator
<1> HIDE DEF next
<1>3. gen.signals \in Seq(Signal) /\ next.signals \in Seq(Signal)
  BY <1>1 DEF Generator
<1>4. ASSUME NEW s, next.signals = Append(gen.signals, s)
      PROVE  Members(gen.signals) \subseteq Members(next.signals)
  <2>1. \A i \in DOMAIN gen.signals :
          i \in DOMAIN next.signals /\ next.signals[i] = gen.signals[i]
    BY <1>3, <1>4
  <2> QED
    BY <2>1 DEF Members
<1> QED
  BY <1>2, <1>4 DEF next

LEMMA MoreRowsMoreSignals ==
  ASSUME NEW few \in Seq(Rows), NEW many \in Seq(Rows), NEW m \in Nat, NEW n \in Nat,
         m = Len(few), n = Len(many), m <= n, \A i \in 1 .. m : few[i] = many[i]
  PROVE  Members(Run(few).signals) \subseteq Members(Run(many).signals)
<1>1. PICK f \in [0 .. m -> Generator] :
        /\ Run(few) = f[m] /\ f[0] = NewGenerator
        /\ \A i \in 1 .. m : f[i] = Generate(f[i - 1], few[i], i)
  BY RunUnfolds
<1>2. PICK g \in [0 .. n -> Generator] :
        /\ Run(many) = g[n] /\ g[0] = NewGenerator
        /\ \A i \in 1 .. n : g[i] = Generate(g[i - 1], many[i], i)
  BY RunUnfolds
<1>3. \A i \in 1 .. n : many[i] \in Rows
  OBVIOUS
<1> DEFINE Same(k) == k <= m => g[k] = f[k]
           Grows(k) == k >= m /\ k <= n => Members(f[m].signals) \subseteq Members(g[k].signals)
           N == {k \in Nat : Same(k) /\ Grows(k)}
<1>4. 0 \in N
  BY <1>1, <1>2
<1>5. ASSUME NEW k \in Nat, k \in N PROVE k + 1 \in N
  <2>1. k + 1 - 1 = k /\ (k + 1 <= n => k + 1 \in 1 .. n) /\ (k + 1 <= m => k + 1 \in 1 .. m)
    OBVIOUS
  <2>2. ASSUME k + 1 <= m PROVE g[k + 1] = f[k + 1]
    <3>1. k + 1 \in 1 .. m /\ k + 1 \in 1 .. n /\ g[k] = f[k]
      BY <1>5, <2>1, <2>2
    <3>2. f[k + 1] = Generate(f[k], few[k + 1], k + 1)
      BY <1>1, <2>1, <3>1
    <3>3. g[k + 1] = Generate(g[k], many[k + 1], k + 1)
      BY <1>2, <2>1, <3>1
    <3> QED
      BY <3>1, <3>2, <3>3
  <2>3. ASSUME k + 1 >= m, k + 1 <= n
        PROVE  Members(f[m].signals) \subseteq Members(g[k + 1].signals)
    <3>1. CASE k + 1 = m
      BY <2>2, <3>1
    <3>2. CASE k + 1 # m
      <4>1. k >= m /\ k <= n /\ k + 1 \in 1 .. n /\ g[k] \in Generator
        BY <2>1, <2>3, <3>2
      <4>2. Members(f[m].signals) \subseteq Members(g[k].signals)
        BY <1>5, <4>1
      <4>3. g[k + 1] = Generate(g[k], many[k + 1], k + 1)
        BY <1>2, <2>1, <4>1
      <4>4. Members(g[k].signals) \subseteq Members(g[k + 1].signals)
        <5>1. many[k + 1] \in Rows /\ k + 1 \in Nat
          BY <1>3, <4>1
        <5> QED
          BY <4>1, <4>3, <5>1, GenerateKeepsSignals
      <4> QED
        BY <4>2, <4>4
    <3> QED
      BY <3>1, <3>2
  <2> QED
    BY <2>2, <2>3
<1> HIDE DEF N
<1>6. n \in N
  BY <1>4, <1>5, SetInduction
<1> QED
  BY <1>1, <1>2, <1>6 DEF N

-----------------------------------------------------------------------------
(* What an answer says of the rows it read.                                *)

LEMMA SignalsOfRun ==
  ASSUME table \in Seq(Rows), NEW n \in 0 .. Len(table)
  PROVE  Run(GetRecent(n)) \in Generator /\ Run(GetRecent(n)).signals \in Seq(Signal)
<1>1. GetRecent(n) \in Seq(Rows) /\ Len(GetRecent(n)) = n /\ n \in Nat
  BY RecentRows
<1>2. PICK gen \in [0 .. n -> Generator] : Run(GetRecent(n)) = gen[n]
  BY <1>1, RunUnfolds
<1>3. Run(GetRecent(n)) \in Generator
  BY <1>1, <1>2
<1> QED
  BY <1>3 DEF Generator

(* What a shorter window finds, a longer one finds too.                    *)
LEMMA LongerFindsMore ==
  ASSUME table \in Seq(Rows), NEW m \in 0 .. Len(table), NEW n \in m .. Len(table),
         NEW direction, NEW minSeverity
  PROVE  AllWanted(Run(GetRecent(m)).signals, direction, 0, minSeverity)
           \subseteq AllWanted(Run(GetRecent(n)).signals, direction, 0, minSeverity)
<1>1. n \in 0 .. Len(table) /\ 1 .. m \subseteq 1 .. n /\ m \in Nat /\ n \in Nat /\ m <= n
  OBVIOUS
<1>2. /\ GetRecent(m) \in Seq(Rows) /\ Len(GetRecent(m)) = m
      /\ \A i \in 1 .. m : GetRecent(m)[i] = table[Len(table) - i + 1]
  BY RecentRows
<1>3. /\ GetRecent(n) \in Seq(Rows) /\ Len(GetRecent(n)) = n
      /\ \A i \in 1 .. n : GetRecent(n)[i] = table[Len(table) - i + 1]
  BY <1>1, RecentRows
<1>4. \A i \in 1 .. m : GetRecent(m)[i] = GetRecent(n)[i]
  BY <1>1, <1>2, <1>3
<1>5. Members(Run(GetRecent(m)).signals) \subseteq Members(Run(GetRecent(n)).signals)
  BY <1>1, <1>2, <1>3, <1>4, MoreRowsMoreSignals
<1> QED
  BY <1>5 DEF AllWanted

-----------------------------------------------------------------------------
(* The invariant: the table holds rows, and the last answer, if it is of     *)
(* this table, is of some of its newest ones and says of them what the two *)
(* properties say.                                                         *)
Replied ==
  /\ table \in Seq(Rows)
  /\ reply.of # "none" => reply.n \in 0 .. Len(table)

SignalsIInv == Replied /\ LimitKeepsSeverest /\ LatestIsListed

LEMMA RepliedHolds == Replied /\ [SignalsNext]_signalsVars => Replied'
<1> SUFFICES ASSUME Replied, [SignalsNext]_signalsVars PROVE Replied'
  OBVIOUS
<1> USE DEF Replied
<1>1. ASSUME NEW tx \in Rows, Store(tx) PROVE Replied'
  <2>1. table' \in Seq(Rows)
    BY <1>1, Inserted DEF Store
  <2> QED
    BY <1>1, <2>1 DEF Store, NoReply
<1>2. ASSUME NEW n \in 0 .. Len(table), NEW of, NEW response, response.n = n,
             Answer(of, n, response)
      PROVE  Replied'
  BY <1>2 DEF Answer
<1>3. CASE UNCHANGED signalsVars
  BY <1>3 DEF signalsVars
<1>4. ASSUME NEW n \in 0 .. Len(table), GetSummary(n) PROVE Replied'
  BY <1>2, <1>4 DEF GetSummary
<1>5. ASSUME NEW n \in 0 .. Len(table), NEW direction, NEW minSeverity,
             GetLatest(n, direction, minSeverity)
      PROVE  Replied'
  BY <1>2, <1>5 DEF GetLatest
<1>6. ASSUME NEW n \in 0 .. Len(table), NEW direction, NEW minBtc, NEW minSeverity,
             NEW limit, GetSignals(n, direction, minBtc, minSeverity, limit)
      PROVE  Replied'
  BY <1>2, <1>6 DEF GetSignals
<1> QED
  BY <1>1, <1>3, <1>4, <1>5, <1>6 DEF SignalsNext

(* The answer of /signals.                                                 *)
LEMMA SignalsKeepSeverest ==
  ASSUME Replied, NEW n \in 0 .. Len(table), NEW direction, NEW minBtc, NEW minSeverity,
         NEW limit \in Limits, GetSignals(n, direction, minBtc, minSeverity, limit)
  PROVE  LimitKeepsSeverest'
<1> DEFINE signals == Run(GetRecent(n)).signals
           found == TradingSignals(signals, direction, minBtc, minSeverity)
           W == AllWanted(signals, direction, minBtc, minSeverity)
           shown == Cut(found, limit)
           response == [of |-> "signals", n |-> n, failed |-> FALSE,
                        direction |-> direction, minBtc |-> minBtc,
                        minSeverity |-> minSeverity, limit |-> limit, shown |-> shown]
<1> SUFFICES ASSUME Answered("signals")' PROVE LimitKeepsSeverest'
  BY DEF LimitKeepsSeverest
<1>1. signals \in Seq(Signal) /\ limit \in Nat \ {0}
  BY SignalsOfRun, SignalsAssumption DEF Replied
<1>2. /\ found \in Seq(Signal) /\ Members(found) = W
      /\ \A i, j \in 1 .. Len(found) : i < j => found[i].severity >= found[j].severity
  BY <1>1, Found
<1>3. /\ Members(shown) \subseteq Members(found)
      /\ \A cut \in Members(found) \ Members(shown) :
           /\ Len(shown) = limit
           /\ \A s \in Members(shown) : cut.severity <= s.severity
  <2> HIDE DEF found
  <2> QED
    BY <1>1, <1>2, CutKeepsSeverest
<1>4. reply' = response /\ table' = table
  BY DEF GetSignals, Answer, Answered
<1>5. AllWanted(Run(GetRecent(reply.n)).signals, reply.direction, reply.minBtc,
                reply.minSeverity)' = W
  BY <1>4 DEF GetRecent
<1> HIDE DEF signals, found, W, shown
<1> QED
  BY <1>2, <1>3, <1>4, <1>5 DEF LimitKeepsSeverest

(* The answer of /signals/latest.                                          *)
LEMMA LatestFound ==
  ASSUME Replied, NEW m \in 0 .. Len(table), NEW direction, NEW minSeverity,
         GetLatest(m, direction, minSeverity)
  PROVE  LatestIsListed'
<1> DEFINE shown == LatestSignal(Run(GetRecent(m)).signals, direction, minSeverity)
           response == [of |-> "latest", n |-> m, failed |-> FALSE,
                        direction |-> direction, minSeverity |-> minSeverity,
                        shown |-> shown]
           wanted(n) == AllWanted(Run(GetRecent(n)).signals, direction, 0, minSeverity)
<1> SUFFICES ASSUME Answered("latest")' PROVE LatestIsListed'
  BY DEF LatestIsListed
<1>1. reply' = response /\ table' = table
  BY DEF GetLatest, Answer, Answered
<1>2. IsMostSevere(shown, wanted(m))
  <2>1. Run(GetRecent(m)).signals \in Seq(Signal)
    BY SignalsOfRun DEF Replied
  <2> QED
    BY <2>1, LatestIsMostSevere
<1>3. ASSUME NEW n \in m .. Len(table)
      PROVE  Members(shown) \subseteq wanted(n) /\ (n = m /\ wanted(n) # {} => shown # << >>)
  <2>1. wanted(m) \subseteq wanted(n)
    BY LongerFindsMore DEF Replied
  <2> HIDE DEF shown, wanted
  <2>2. shown = << >> => Members(shown) = {}
    BY DEF Members
  <2>3. shown # << >> => Members(shown) = {shown[1]} /\ shown[1] \in wanted(m)
    <3>1. ASSUME shown # << >> PROVE Members(shown) = {shown[1]}
      <4>1. PICK s : shown = <<s>> /\ s = shown[1]
        BY <1>2, <3>1 DEF IsMostSevere
      <4> QED
        BY <4>1 DEF Members
    <3> QED
      BY <1>2, <3>1 DEF IsMostSevere
  <2> QED
    BY <1>2, <2>1, <2>2, <2>3 DEF IsMostSevere
<1>4. \A n : GetRecent(n)' = GetRecent(n)
  BY <1>1 DEF GetRecent
<1>5. \A n : AllWanted(Run(GetRecent(n)).signals, reply.direction, 0,
                       reply.minSeverity)' = wanted(n)
  BY <1>1, <1>4
<1>6. (reply.n .. Len(table))' = m .. Len(table) /\ reply'.shown = shown /\ reply'.n = m
  BY <1>1
<1> HIDE DEF shown, wanted
<1> QED
  BY <1>3, <1>5, <1>6 DEF LatestIsListed

LEMMA SignalsInvInductive ==
  /\ SignalsInit => SignalsIInv
  /\ SignalsIInv /\ [SignalsNext]_signalsVars => SignalsIInv'
<1>1. SignalsInit => SignalsIInv
  BY DEF SignalsInit, SignalsIInv, Replied, NoReply, LimitKeepsSeverest,
         LatestIsListed, Answered
<1>2. ASSUME SignalsIInv, [SignalsNext]_signalsVars PROVE SignalsIInv'
  <2> USE DEF SignalsIInv
  <2>1. Replied'
    BY <1>2, RepliedHolds
  <2>2. ASSUME reply' = NoReply PROVE SignalsIInv'
    BY <2>1, <2>2 DEF NoReply, LimitKeepsSeverest, LatestIsListed, Answered
  <2>3. ASSUME NEW tx \in Rows, Store(tx) PROVE SignalsIInv'
    BY <2>2, <2>3 DEF Store
  <2>4. ASSUME NEW n \in 0 .. Len(table), GetSummary(n) PROVE SignalsIInv'
    <3>1. LimitKeepsSeverest' /\ LatestIsListed'
      BY <2>4 DEF GetSummary, Answer, LimitKeepsSeverest, LatestIsListed, Answered
    <3> QED
      BY <2>1, <3>1
  <2>5. ASSUME NEW n \in 0 .. Len(table), NEW direction, NEW minSeverity,
               GetLatest(n, direction, minSeverity)
        PROVE  SignalsIInv'
    <3>1. LimitKeepsSeverest'
      BY <2>5 DEF GetLatest, Answer, LimitKeepsSeverest, Answered
    <3>2. LatestIsListed'
      BY <1>2, <2>5, LatestFound
    <3> QED
      BY <2>1, <3>1, <3>2
  <2>6. ASSUME NEW n \in 0 .. Len(table), NEW direction, NEW minBtc, NEW minSeverity,
               NEW limit \in Limits, GetSignals(n, direction, minBtc, minSeverity, limit)
        PROVE  SignalsIInv'
    <3>1. LimitKeepsSeverest'
      BY <1>2, <2>6, SignalsKeepSeverest
    <3>2. LatestIsListed'
      BY <2>6 DEF GetSignals, Answer, LatestIsListed, Answered
    <3> QED
      BY <2>1, <3>1, <3>2
  <2>7. CASE UNCHANGED signalsVars
    <3>1. table' = table /\ reply' = reply
      BY <2>7 DEF signalsVars
    <3>2. \A n : GetRecent(n)' = GetRecent(n)
      BY <3>1 DEF GetRecent
    <3>3. LimitKeepsSeverest'
      BY <1>2, <3>1, <3>2 DEF LimitKeepsSeverest, Answered
    <3>4. LatestIsListed'
      BY <1>2, <3>1, <3>2 DEF LatestIsListed, Answered
    <3> QED
      BY <2>1, <3>3, <3>4
  <2> QED
    BY <1>2, <2>3, <2>4, <2>5, <2>6, <2>7 DEF SignalsNext
<1> QED
  BY <1>1, <1>2

(* No signal that /signals cuts off is more severe than one it shows, and  *)
(* none is cut off below the limit, for every list of signals.             *)
THEOREM SeverestShown == SignalsSpec => []LimitKeepsSeverest
<1>1. SignalsIInv => LimitKeepsSeverest
  BY DEF SignalsIInv
<1> QED
  BY <1>1, SignalsInvInductive, PTL DEF SignalsSpec

(* /signals/latest shows what /signals would find over the same rows and   *)
(* over every longer window, and nothing only if there is nothing to be    *)
(* found, for every table, window and filter.                              *)
THEOREM LatestListed == SignalsSpec => []LatestIsListed
<1>1. SignalsIInv => LatestIsListed
  BY DEF SignalsIInv
<1> QED
  BY <1>1, SignalsInvInductive, PTL DEF SignalsSpec
=============================================================================
