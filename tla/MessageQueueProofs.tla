------------------------- MODULE MessageQueueProofs -------------------------
(***************************************************************************)
(* Theorems about MessageQueue, for every MaxLen, BatchSize, number of     *)
(* messages and number of starts.                                          *)
(***************************************************************************)
EXTENDS MessageQueue, SequenceTheorems, TLAPS

(* A batch is in hand.                                                     *)
Busy == {"callback", "xack"}

(* The group's cursor and its lists against the stream.  The third part is *)
(* why skipping means lagging: what was trimmed left MaxLen entries.       *)
GroupInv ==
  /\ lastDelivered <= last
  /\ read \subseteq 1 .. lastDelivered
  /\ pending \subseteq read
  /\ first = 1 \/ first + MaxLen <= last + 1
  /\ SkippedOnlyWhenLagging

(* The batch in hand was assigned to the group.                            *)
BatchInv ==
  pc \in Busy => /\ cur >= 1 /\ cur <= top
                 /\ top <= lastDelivered

(* No invocation is ahead of the group's cursor, or of the message being   *)
(* handled: so the next one is later than all of them.                     *)
CallInv ==
  /\ CallsInOrder
  /\ \A i \in 1 .. Len(calls) : /\ calls[i] <= lastDelivered
                                /\ pc \in Busy => calls[i] <= cur

(* XACK is sent only for a message whose callback returned.                *)
AckInv ==
  /\ AckedWereHandled
  /\ pc = "xack" => cur \in returned

IInv == TypeOK /\ GroupInv /\ BatchInv /\ CallInv /\ AckInv

-----------------------------------------------------------------------------
(* The message a read would return first lies beyond the group's cursor,   *)
(* and the batch ends inside the stream.                                   *)
LEMMA BatchBounds ==
  ASSUME TypeOK, NextUnread <= last
  PROVE  /\ NextUnread \in Nat /\ BatchEnd \in Nat
         /\ NextUnread >= first /\ NextUnread >= lastDelivered + 1
         /\ NextUnread = first \/ NextUnread = lastDelivered + 1
         /\ NextUnread <= BatchEnd /\ BatchEnd <= last
  BY ConstantsAssumption DEF TypeOK, NextUnread, BatchEnd, Larger, Smaller

(* What the head of the loop does, whatever the flag says.                 *)
LEMMA LoopHeadEffect ==
  ASSUME LoopHead
  PROVE  /\ pc' \in {"down", "xreadgroup", "sleep"}
         /\ cur' = 0 /\ top' = 0
         /\ client' = client \/ client' = "none"
         /\ stopping' = stopping \/ stopping' = "no"
  BY Zenon DEF LoopHead, Exit

(* Where the process ends, its variables are reset.                        *)
LEMMA ExitEffect ==
  ASSUME Exit
  PROVE  /\ pc' = "down" /\ client' = "none" /\ stopping' = "no"
         /\ cur' = 0 /\ top' = 0
  BY DEF Exit

(* The initial state has the types.                                        *)
LEMMA InitTypeOK == Init => TypeOK
<1> SUFFICES ASSUME Init PROVE TypeOK
  OBVIOUS
<1>1. running \in BOOLEAN
  BY Zenon DEF Init
<1>2. /\ first = 1 /\ last = 0 /\ lastDelivered = 0 /\ pending = {} /\ read = {}
      /\ pc = "down" /\ client = "none" /\ stopping = "no"
      /\ cur = 0 /\ top = 0 /\ starts = 0 /\ calls = << >> /\ returned = {}
  BY Zenon DEF Init
<1> QED
  BY <1>1, <1>2, ConstantsAssumption DEF TypeOK, Startup, Loop

(* Every step of the queue keeps the types.                                *)
LEMMA NextTypeOK == TypeOK /\ [Next]_vars => TypeOK'
<1> SUFFICES ASSUME TypeOK, [Next]_vars
             PROVE  TypeOK'
  OBVIOUS
<1>0. running' \in BOOLEAN
  BY Zenon DEF TypeOK, Next, Proceed, vars, procVars, Publish, Start, DbReady,
     Connected, Subscribed, Reconnected, GroupCreated, StartupFails, ReadBatch,
     ReadNothing, ReadFails, SleepOver, CallbackReturns, CallbackRaises,
     Acknowledge, Stop, Close, Crash, NextMessage, Invoke, EnterConsume,
     LoopHead, Goto, Exit
<1> USE <1>0 DEF TypeOK, Startup, Loop, vars, redisVars, procVars, callVars
<1>1. CASE Publish
  BY <1>1, ConstantsAssumption DEF Publish, Larger
<1>2. CASE Start
  BY <1>2, ConstantsAssumption DEF Start, Goto
<1>3. CASE DbReady
  BY <1>3 DEF DbReady
<1>4. CASE Connected
  BY <1>4, ExitEffect DEF Connected, Goto
<1>5. CASE Subscribed
  BY <1>5 DEF Subscribed, EnterConsume
<1>6. CASE Reconnected
  BY <1>6 DEF Reconnected, EnterConsume
<1>7. CASE GroupCreated
  BY <1>7, LoopHeadEffect DEF GroupCreated
<1>8. CASE StartupFails
  BY <1>8, ExitEffect DEF StartupFails
<1>9. CASE ReadBatch
  <2>1. NextUnread \in Nat /\ BatchEnd \in Nat
    BY <1>9, BatchBounds DEF ReadBatch, AssignBatch
  <2>2. Append(calls, NextUnread) \in Seq(Nat)
    BY <2>1
  <2>3. NextUnread .. BatchEnd \subseteq Nat
    BY <2>1
  <2> QED
    BY <1>9, <2>1, <2>2, <2>3 DEF ReadBatch, AssignBatch, Invoke
<1>10. CASE ReadNothing
  BY <1>10, LoopHeadEffect DEF ReadNothing
<1>11. CASE ReadFails
  <2>1. CASE AssignBatch
    <3>1. NextUnread \in Nat /\ BatchEnd \in Nat
      BY <2>1, BatchBounds DEF AssignBatch
    <3>2. NextUnread .. BatchEnd \subseteq Nat
      BY <3>1
    <3> QED
      BY <1>11, <2>1, <3>1, <3>2 DEF ReadFails, AssignBatch, Goto
  <2>2. CASE UNCHANGED redisVars
    BY <1>11, <2>2 DEF ReadFails, Goto
  <2> QED
    BY <1>11, <2>1, <2>2 DEF ReadFails
<1>12. CASE SleepOver
  BY <1>12, LoopHeadEffect DEF SleepOver
<1>13. ASSUME NextMessage
       PROVE  /\ pc' \in {"down"} \union Startup \union Loop
              /\ client' \in {"none", "open"}
              /\ stopping' \in {"no", "flagged", "closed"}
              /\ cur' \in Nat /\ top' \in Nat
              /\ calls' \in Seq(Nat)
  <2>1. CASE cur < top
    <3>1. Append(calls, cur + 1) \in Seq(Nat)
      OBVIOUS
    <3> QED
      BY <1>13, <2>1, <3>1 DEF NextMessage, Invoke
  <2>2. CASE ~ (cur < top)
    BY <1>13, <2>2, LoopHeadEffect DEF NextMessage
  <2> QED
    BY <2>1, <2>2
<1>14. CASE CallbackReturns
  BY <1>13, <1>14 DEF CallbackReturns, Goto
<1>15. CASE CallbackRaises
  BY <1>13, <1>15 DEF CallbackRaises
<1>16. CASE Acknowledge
  BY <1>13, <1>16 DEF Acknowledge
<1>17. CASE Stop
  BY <1>17 DEF Stop
<1>18. CASE Close
  BY <1>18 DEF Close
<1>19. CASE Crash
  BY <1>19, ExitEffect DEF Crash
<1>20. CASE UNCHANGED vars
  BY <1>20
<1> QED
  BY <1>1, <1>2, <1>3, <1>4, <1>5, <1>6, <1>7, <1>8, <1>9, <1>10, <1>11, <1>12,
     <1>14, <1>15, <1>16, <1>17, <1>18, <1>19, <1>20 DEF Next, Proceed

(* Type correctness: the variables keep the shapes TypeOK gives them.      *)
THEOREM TypeCorrect == Spec => []TypeOK
  BY InitTypeOK, NextTypeOK, PTL DEF Spec

-----------------------------------------------------------------------------
(* The steps that touch neither Redis nor the callback, and leave no new   *)
(* batch in hand.                                                          *)
Quiet ==
  /\ UNCHANGED <<redisVars, callVars>>
  /\ pc' \notin Busy \/ UNCHANGED <<pc, cur, top>>

(* Those steps are the start-up, an idle or failed read, stop and crash.   *)
LEMMA QuietSteps ==
  ASSUME \/ Start \/ DbReady \/ Connected \/ Subscribed \/ Reconnected
         \/ GroupCreated \/ StartupFails \/ ReadNothing \/ SleepOver
         \/ Stop \/ Close \/ Crash \/ UNCHANGED vars
  PROVE  Quiet
<1> USE DEF Quiet, Busy
<1>1. CASE Start
  BY <1>1 DEF Start, Goto
<1>2. CASE DbReady
  BY <1>2 DEF DbReady
<1>3. CASE Connected
  BY <1>3, ExitEffect DEF Connected, Goto
<1>4. CASE Subscribed
  BY <1>4 DEF Subscribed, EnterConsume
<1>5. CASE Reconnected
  BY <1>5 DEF Reconnected, EnterConsume
<1>6. CASE GroupCreated
  BY <1>6, LoopHeadEffect DEF GroupCreated
<1>7. CASE StartupFails
  BY <1>7, ExitEffect DEF StartupFails
<1>8. CASE ReadNothing
  BY <1>8, LoopHeadEffect DEF ReadNothing
<1>9. CASE SleepOver
  BY <1>9, LoopHeadEffect DEF SleepOver
<1>10. CASE Stop
  BY <1>10 DEF Stop
<1>11. CASE Close
  BY <1>11 DEF Close
<1>12. CASE Crash
  BY <1>12, ExitEffect DEF Crash
<1>13. CASE UNCHANGED vars
  BY <1>13 DEF vars, procVars
<1> QED
  BY <1>1, <1>2, <1>3, <1>4, <1>5, <1>6, <1>7, <1>8, <1>9, <1>10, <1>11, <1>12, <1>13

(* Steps that touch neither Redis nor the calls keep the invariant.        *)
LEMMA QuietPreserves ==
  ASSUME IInv, TypeOK', Quiet
  PROVE  IInv'
<1> USE DEF Quiet, redisVars, callVars
<1>1. GroupInv'
  BY DEF IInv, GroupInv, SkippedOnlyWhenLagging
<1>2. BatchInv'
  BY DEF IInv, BatchInv
<1>3. CallInv'
  BY DEF IInv, CallInv, CallsInOrder
<1>4. AckInv'
  BY DEF IInv, AckInv, AckedWereHandled, Busy
<1> QED
  BY <1>1, <1>2, <1>3, <1>4 DEF IInv

(* The message queue's own steps on a batch.                               *)
LEMMA NextMessageEffect ==
  ASSUME NextMessage
  PROVE  \/ /\ cur < top
            /\ pc' = "callback" /\ cur' = cur + 1 /\ top' = top
            /\ calls' = Append(calls, cur + 1)
         \/ pc' \notin Busy /\ calls' = calls
<1>1. CASE cur < top
  BY <1>1 DEF NextMessage, Invoke
<1>2. CASE ~ (cur < top)
  BY <1>2, LoopHeadEffect DEF NextMessage, Busy
<1> QED
  BY <1>1, <1>2

(* Invoking the callback on a message later than all before keeps order.   *)
LEMMA LaterCallKeepsOrder ==
  ASSUME calls \in Seq(Nat), CallsInOrder,
         NEW m \in Nat,
         \A i \in 1 .. Len(calls) : calls[i] < m,
         calls' = Append(calls, m)
  PROVE  /\ CallsInOrder'
         /\ \A i \in 1 .. Len(calls') : calls'[i] <= m
<1>1. Len(calls') = Len(calls) + 1
  OBVIOUS
<1>2. \A i \in 1 .. Len(calls') :
        calls'[i] = IF i <= Len(calls) THEN calls[i] ELSE m
  OBVIOUS
<1>3. \A i \in 1 .. Len(calls) : calls[i] \in Nat
  OBVIOUS
<1>4. \A i \in 1 .. Len(calls') : calls'[i] <= m
  BY <1>1, <1>2, <1>3
<1>5. CallsInOrder'
  BY <1>1, <1>2, <1>3 DEF CallsInOrder
<1> QED
  BY <1>4, <1>5

(* Assigning a batch keeps the group's part of the invariant: what it      *)
(* passes over was trimmed, hence MaxLen messages back.                    *)
LEMMA AssignKeepsGroup ==
  ASSUME IInv, AssignBatch
  PROVE  GroupInv' /\ lastDelivered' = BatchEnd /\ lastDelivered' > lastDelivered
<1> USE ConstantsAssumption DEF IInv, TypeOK, GroupInv, AssignBatch
<1>1. /\ NextUnread \in Nat /\ BatchEnd \in Nat
      /\ NextUnread >= first /\ NextUnread >= lastDelivered + 1
      /\ NextUnread = first \/ NextUnread = lastDelivered + 1
      /\ NextUnread <= BatchEnd /\ BatchEnd <= last
  BY BatchBounds
<1>2. SkippedOnlyWhenLagging'
  <2> SUFFICES ASSUME NEW m \in 1 .. BatchEnd, m \notin read'
               PROVE  m + MaxLen <= last
    BY DEF SkippedOnlyWhenLagging
  <2>1. CASE m <= lastDelivered
    BY <2>1 DEF SkippedOnlyWhenLagging
  <2>2. CASE m > lastDelivered
    <3>1. m < NextUnread
      BY <1>1
    <3>2. NextUnread = first /\ first # 1
      BY <1>1, <2>2, <3>1
    <3> QED
      BY <1>1, <3>1, <3>2
  <2> QED
    BY <2>1, <2>2
<1>3. read' \subseteq 1 .. lastDelivered' /\ pending' \subseteq read'
  BY <1>1
<1> QED
  BY <1>1, <1>2, <1>3

-----------------------------------------------------------------------------
(* What XADD trims leaves MaxLen entries: f is the oldest entry before, g   *)
(* after, and l the newest entry after.                                    *)
LEMMA TrimLeavesMaxLen ==
  ASSUME NEW f \in Nat, NEW g \in Nat, NEW l \in Nat,
         MaxLen \in Nat,
         g \in f .. Larger(f, l - MaxLen + 1),
         f = 1 \/ f + MaxLen <= l
  PROVE  g = 1 \/ g + MaxLen <= l + 1
<1>1. CASE f >= l - MaxLen + 1
  BY <1>1 DEF Larger
<1>2. CASE ~ (f >= l - MaxLen + 1)
  BY <1>2 DEF Larger
<1> QED
  BY <1>1, <1>2

(* The inductive invariant holds initially and is kept by every step.      *)
LEMMA InitInv == Init => IInv
<1> SUFFICES ASSUME Init PROVE IInv
  OBVIOUS
<1>1. TypeOK
  BY InitTypeOK
<1>2. /\ first = 1 /\ last = 0 /\ lastDelivered = 0 /\ pending = {} /\ read = {}
      /\ pc = "down" /\ calls = << >>
  BY Zenon DEF Init
<1>3. GroupInv
  BY <1>2 DEF GroupInv, SkippedOnlyWhenLagging
<1>4. BatchInv /\ CallInv /\ AckInv
  BY <1>2 DEF BatchInv, CallInv, CallsInOrder, AckInv, AckedWereHandled, Busy
<1> QED
  BY <1>1, <1>3, <1>4 DEF IInv

(* The induction step of the invariant, an action at a time.               *)
LEMMA StepInv == IInv /\ [Next]_vars => IInv'
<1> SUFFICES ASSUME IInv, [Next]_vars
             PROVE  IInv'
  OBVIOUS
<1>0. TypeOK /\ TypeOK'
  BY NextTypeOK DEF IInv
<1>1. CASE Publish
  <2>1. /\ last' = last + 1 /\ first' \in first .. Larger(first, last' - MaxLen + 1)
        /\ UNCHANGED <<lastDelivered, pending, read, pc, cur, top, calls, returned>>
    BY <1>1 DEF Publish, procVars, callVars
  <2>2. /\ first \in Nat /\ last \in Nat /\ lastDelivered \in Nat
        /\ first' \in Nat /\ MaxLen \in Nat
    BY <1>0, ConstantsAssumption DEF TypeOK
  <2>3. first' = 1 \/ first' + MaxLen <= last' + 1
    <3>1. first = 1 \/ first + MaxLen <= last'
      BY <2>1, <2>2 DEF IInv, GroupInv
    <3>2. last' \in Nat
      BY <2>1, <2>2
    <3> QED
      BY <2>1, <2>2, <3>1, <3>2, TrimLeavesMaxLen
  <2>4. SkippedOnlyWhenLagging'
    BY <2>1, <2>2 DEF IInv, GroupInv, SkippedOnlyWhenLagging
  <2>5. GroupInv'
    <3>1. lastDelivered' <= last' /\ read' \subseteq 1 .. lastDelivered' /\ pending' \subseteq read'
      BY <2>1, <2>2 DEF IInv, GroupInv
    <3> QED
      BY <2>3, <2>4, <3>1 DEF GroupInv
  <2>6. BatchInv' /\ CallInv' /\ AckInv'
    BY <2>1 DEF IInv, BatchInv, CallInv, CallsInOrder, AckInv, AckedWereHandled, Busy
  <2> QED
    BY <1>0, <2>5, <2>6 DEF IInv
<1>2. CASE \/ Start \/ DbReady \/ Connected \/ Subscribed \/ Reconnected
           \/ GroupCreated \/ StartupFails \/ ReadNothing \/ SleepOver
           \/ Stop \/ Close \/ Crash \/ UNCHANGED vars
  BY <1>0, <1>2, QuietSteps, QuietPreserves
<1>3. CASE ReadBatch
  <2> USE <1>0 DEF IInv, TypeOK
  <2>1. AssignBatch /\ pc' = "callback" /\ cur' = NextUnread /\ top' = BatchEnd
        /\ calls' = Append(calls, NextUnread) /\ returned' = returned
    BY <1>3 DEF ReadBatch, Invoke
  <2>2. /\ NextUnread \in Nat /\ BatchEnd \in Nat
        /\ NextUnread >= first /\ NextUnread >= lastDelivered + 1
        /\ NextUnread <= BatchEnd
    BY <2>1, BatchBounds DEF AssignBatch
  <2>3. GroupInv' /\ lastDelivered' = BatchEnd
    BY <2>1, AssignKeepsGroup
  <2>4. BatchInv'
    BY <2>1, <2>2, <2>3 DEF BatchInv
  <2>5. \A i \in 1 .. Len(calls) : calls[i] < NextUnread
    BY <2>2 DEF CallInv
  <2>6. CallInv'
    <3>1. CallsInOrder' /\ \A i \in 1 .. Len(calls') : calls'[i] <= NextUnread
      BY <2>1, <2>2, <2>5, LaterCallKeepsOrder DEF CallInv
    <3>2. \A i \in 1 .. Len(calls') : calls'[i] \in Nat
      BY <1>0
    <3> QED
      BY <2>1, <2>2, <2>3, <3>1, <3>2 DEF CallInv
  <2>7. AckInv'
    BY <2>1 DEF AckInv, AckedWereHandled, AssignBatch
  <2> QED
    BY <1>0, <2>3, <2>4, <2>6, <2>7
<1>4. CASE ReadFails
  <2>1. pc' = "sleep" /\ UNCHANGED callVars
    BY <1>4 DEF ReadFails, Goto
  <2>2. CASE UNCHANGED redisVars
    BY <1>0, <2>1, <2>2, QuietPreserves DEF Quiet, Busy
  <2>3. CASE AssignBatch
    <3>1. GroupInv' /\ lastDelivered' > lastDelivered
      BY <2>3, AssignKeepsGroup
    <3>2. BatchInv' /\ CallInv'
      BY <1>0, <2>1, <3>1
         DEF IInv, TypeOK, BatchInv, CallInv, CallsInOrder, Busy, callVars
    <3>3. AckInv'
      BY <2>1, <2>3 DEF IInv, AckInv, AckedWereHandled, AssignBatch, callVars
    <3> QED
      BY <1>0, <3>1, <3>2, <3>3 DEF IInv
  <2> QED
    BY <1>4, <2>2, <2>3 DEF ReadFails
<1>5. ASSUME NextMessage, pc \in Busy, UNCHANGED <<lastDelivered>>
      PROVE  BatchInv' /\ CallInv' /\ pc' # "xack"
  <2> USE <1>0 DEF IInv, TypeOK
  <2>1. CASE /\ cur < top
             /\ pc' = "callback" /\ cur' = cur + 1 /\ top' = top
             /\ calls' = Append(calls, cur + 1)
    <3>1. BatchInv'
      BY <1>5, <2>1 DEF BatchInv
    <3>2. \A i \in 1 .. Len(calls) : calls[i] < cur + 1
      BY <1>5 DEF CallInv
    <3>3. CallsInOrder' /\ \A i \in 1 .. Len(calls') : calls'[i] <= cur + 1
      BY <2>1, <3>2, LaterCallKeepsOrder DEF CallInv
    <3>4. \A i \in 1 .. Len(calls') : calls'[i] \in Nat
      BY <1>0
    <3>5. CallInv'
      BY <1>5, <2>1, <3>3, <3>4 DEF CallInv, BatchInv
    <3> QED
      BY <2>1, <3>1, <3>5
  <2>2. CASE pc' \notin Busy /\ calls' = calls
    BY <1>5, <2>2 DEF BatchInv, CallInv, CallsInOrder, Busy
  <2> QED
    BY <1>5, <2>1, <2>2, NextMessageEffect
<1>6. CASE CallbackReturns
  <2>1. /\ pc = "callback" /\ UNCHANGED redisVars
        /\ returned' = returned \union {cur}
    BY <1>6 DEF CallbackReturns
  <2>2. GroupInv'
    BY <2>1 DEF IInv, GroupInv, SkippedOnlyWhenLagging, redisVars
  <2>3. CASE client = "open"
    <3>1. pc' = "xack" /\ cur' = cur /\ top' = top /\ calls' = calls
      BY <1>6, <2>3 DEF CallbackReturns, Goto
    <3>2. BatchInv' /\ CallInv'
      BY <2>1, <3>1 DEF IInv, BatchInv, CallInv, CallsInOrder, Busy, redisVars
    <3>3. AckInv'
      BY <2>1, <3>1 DEF IInv, AckInv, AckedWereHandled, redisVars
    <3> QED
      BY <1>0, <2>2, <3>2, <3>3 DEF IInv
  <2>4. CASE client # "open"
    <3>1. NextMessage
      BY <1>6, <2>4 DEF CallbackReturns
    <3>2. BatchInv' /\ CallInv' /\ pc' # "xack"
      BY <1>5, <2>1, <3>1 DEF Busy, redisVars
    <3>3. AckInv'
      BY <2>1, <3>2 DEF IInv, AckInv, AckedWereHandled, redisVars
    <3> QED
      BY <1>0, <2>2, <3>2, <3>3 DEF IInv
  <2> QED
    BY <2>3, <2>4
<1>7. CASE CallbackRaises
  <2>1. /\ pc = "callback" /\ NextMessage
        /\ UNCHANGED redisVars /\ UNCHANGED returned
    BY <1>7 DEF CallbackRaises
  <2>2. BatchInv' /\ CallInv' /\ pc' # "xack"
    BY <1>5, <2>1 DEF Busy, redisVars
  <2>3. GroupInv'
    BY <2>1 DEF IInv, GroupInv, SkippedOnlyWhenLagging, redisVars
  <2>4. AckInv'
    BY <2>1, <2>2 DEF IInv, AckInv, AckedWereHandled, redisVars
  <2> QED
    BY <1>0, <2>2, <2>3, <2>4 DEF IInv
<1>8. CASE Acknowledge
  <2>1. /\ pc = "xack" /\ NextMessage
        /\ pending' \in {pending, pending \ {cur}}
        /\ UNCHANGED <<first, last, lastDelivered, read, returned>>
    BY <1>8 DEF Acknowledge
  <2>2. BatchInv' /\ CallInv' /\ pc' # "xack"
    BY <1>5, <2>1 DEF Busy
  <2>3. GroupInv'
    BY <2>1 DEF IInv, GroupInv, SkippedOnlyWhenLagging
  <2>4. AckInv'
    BY <2>1, <2>2 DEF IInv, AckInv, AckedWereHandled
  <2> QED
    BY <1>0, <2>2, <2>3, <2>4 DEF IInv
<1> QED
  BY <1>1, <1>2, <1>3, <1>4, <1>6, <1>7, <1>8 DEF Next, Proceed

(* The inductive invariant holds in every state message_queue.py reaches.  *)
THEOREM Invariance == Spec => []IInv
  BY InitInv, StepInv, PTL DEF Spec

(* At-most-once, in order: no service ever sees a message twice, nor after *)
(* a later one.                                                            *)
THEOREM InOrderAtMostOnce == Spec => []CallsInOrder
<1>1. IInv => CallsInOrder
  BY DEF IInv, CallInv
<1> QED
  BY <1>1, Invariance, PTL

(* What the group acknowledged was handled to the end.                     *)
THEOREM AckedHandled == Spec => []AckedWereHandled
<1>1. IInv => AckedWereHandled
  BY DEF IInv, AckInv
<1> QED
  BY <1>1, Invariance, PTL

(* A group loses messages unread only when it is MaxLen behind.            *)
THEOREM SkippedLagging == Spec => []SkippedOnlyWhenLagging
<1>1. IInv => SkippedOnlyWhenLagging
  BY DEF IInv, GroupInv
<1> QED
  BY <1>1, Invariance, PTL

(* A message nobody holds stays on the pending list: every step that       *)
(* shrinks the list is the XACK of the message being handled.              *)
THEOREM OrphansAreForever == Spec => OrphansStay
<1>1. IInv /\ [Next]_vars => [\A m \in pending : ~ (m \in cur .. top) => m \in pending']_vars
  <2> SUFFICES ASSUME IInv, Next, NEW m \in pending, ~ (m \in cur .. top)
               PROVE  m \in pending'
    OBVIOUS
  <2>1. CASE Publish
    BY <2>1 DEF Publish
  <2>2. CASE \/ Start \/ DbReady \/ Connected \/ Subscribed \/ Reconnected
             \/ GroupCreated \/ StartupFails \/ ReadNothing \/ SleepOver
             \/ Stop \/ Close \/ Crash
    BY <2>2, QuietSteps DEF Quiet, redisVars
  <2>3. CASE ReadBatch
    BY <2>3 DEF ReadBatch, AssignBatch
  <2>4. CASE ReadFails
    BY <2>4 DEF ReadFails, AssignBatch, redisVars
  <2>5. CASE CallbackReturns \/ CallbackRaises
    BY <2>5 DEF CallbackReturns, CallbackRaises, redisVars
  <2>6. CASE Acknowledge
    <3>1. cur \in cur .. top
      BY <2>6 DEF Acknowledge, IInv, TypeOK, BatchInv, Busy
    <3>2. m # cur
      BY <3>1
    <3> QED
      BY <2>6, <3>2 DEF Acknowledge
  <2> QED
    BY <2>1, <2>2, <2>3, <2>4, <2>5, <2>6 DEF Next, Proceed
<1> QED
  BY <1>1, Invariance, PTL DEF Spec, OrphansStay

-----------------------------------------------------------------------------
(* Refinement: an invocation is a Deliver of the abstract queue.           *)
LEMMA InvocationDelivers ==
  ASSUME TypeOK, NEW m \in Nat, m >= 1, m <= last,
         \A i \in 1 .. Len(calls) : calls[i] < m,
         calls' = Append(calls, m), last' = last
  PROVE  AMO!Next
<1>1. m \in 1 .. last
  BY DEF TypeOK
<1>2. AMO!Deliver
  BY <1>1 DEF AMO!Deliver
<1> QED
  BY <1>2 DEF AMO!Next

(* Every step of the queue is a step of the abstract queue, or a stutter.  *)
LEMMA StepRefines ==
  ASSUME IInv, [Next]_vars
  PROVE  [AMO!Next]_(AMO!vars)
<1>0. TypeOK
  BY DEF IInv
<1>1. CASE Publish
  BY <1>1 DEF Publish, callVars, AMO!Next, AMO!Send
<1>2. CASE \/ Start \/ DbReady \/ Connected \/ Subscribed \/ Reconnected
           \/ GroupCreated \/ StartupFails \/ ReadNothing \/ SleepOver
           \/ Stop \/ Close \/ Crash \/ UNCHANGED vars
  BY <1>2, QuietSteps DEF Quiet, redisVars, callVars, AMO!vars
<1>3. CASE ReadBatch
  <2>1. AssignBatch /\ calls' = Append(calls, NextUnread) /\ last' = last
    BY <1>3 DEF ReadBatch, Invoke, AssignBatch
  <2>2. /\ NextUnread \in Nat /\ NextUnread >= lastDelivered + 1
        /\ NextUnread <= last
    BY <1>0, <2>1, BatchBounds DEF AssignBatch
  <2>3. NextUnread >= 1
    BY <1>0, <2>2 DEF TypeOK
  <2>4. \A i \in 1 .. Len(calls) : calls[i] < NextUnread
    BY <1>0, <2>2 DEF IInv, CallInv, TypeOK
  <2> QED
    BY <1>0, <2>1, <2>2, <2>3, <2>4, InvocationDelivers
<1>4. CASE ReadFails
  BY <1>4 DEF ReadFails, AssignBatch, redisVars, callVars, AMO!vars
<1>5. ASSUME NextMessage, pc \in Busy, last' = last
      PROVE  [AMO!Next]_(AMO!vars)
  <2>1. CASE cur < top /\ calls' = Append(calls, cur + 1)
    <3>1. cur + 1 \in Nat /\ cur + 1 >= 1 /\ cur + 1 <= last
      BY <1>0, <1>5, <2>1 DEF IInv, TypeOK, BatchInv, GroupInv
    <3>2. \A i \in 1 .. Len(calls) : calls[i] < cur + 1
      BY <1>0, <1>5 DEF IInv, TypeOK, CallInv
    <3> QED
      BY <1>0, <1>5, <2>1, <3>1, <3>2, InvocationDelivers
  <2>2. CASE calls' = calls
    BY <1>5, <2>2 DEF AMO!vars
  <2> QED
    BY <1>5, <2>1, <2>2, NextMessageEffect
<1>6. CASE CallbackReturns
  <2>1. pc \in Busy /\ last' = last
    BY <1>6 DEF CallbackReturns, redisVars, Busy
  <2>2. CASE client = "open"
    BY <1>6, <2>1, <2>2 DEF CallbackReturns, AMO!vars
  <2>3. CASE client # "open"
    BY <1>5, <1>6, <2>1, <2>3 DEF CallbackReturns
  <2> QED
    BY <2>2, <2>3
<1>7. CASE CallbackRaises
  BY <1>5, <1>7 DEF CallbackRaises, redisVars, Busy
<1>8. CASE Acknowledge
  BY <1>5, <1>8 DEF Acknowledge, Busy
<1> QED
  BY <1>1, <1>2, <1>3, <1>4, <1>6, <1>7, <1>8 DEF Next, Proceed

(* The queue of message_queue.py, with its failures, implements in-order   *)
(* at-most-once delivery.                                                  *)
THEOREM Refinement == Spec => ImplementsAtMostOnce
<1>1. Init => AMO!Init
  BY Zenon DEF Init, AMO!Init
<1>2. IInv /\ [Next]_vars => [AMO!Next]_(AMO!vars)
  BY StepRefines
<1> QED
  BY <1>1, <1>2, Invariance, PTL DEF Spec, AMO!Spec, ImplementsAtMostOnce
=============================================================================
