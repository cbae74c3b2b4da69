---------------------- MODULE WebhookDispatcherProofs ----------------------
(***************************************************************************)
(* Theorems on WebhookDispatcher, for every set of URLs, every number of   *)
(* attempts and any number of events: what the delivery table and the      *)
(* endpoints can rely on.                                                  *)
(***************************************************************************)
EXTENDS WebhookDispatcher, FiniteSetTheorems, TLAPS

PcValues == {"idle", "create", "send", "record", "give_up", "done"}
RowValues == {"none", "pending", "delivered", "failed"}

TypeInv ==
  /\ events \in Nat /\ taken \in Nat /\ taken <= events /\ events <= MaxEvents
  /\ pc \in [Tasks -> PcValues]
  /\ row \in [Tasks -> RowValues]
  /\ posts \in [Urls -> Seq(Nat)]
  /\ accepted \subseteq Tasks /\ fatal \subseteq Tasks

Exhausted(task) == Attempts(task) = MaxRetries \/ task \in fatal \union accepted

(* What is true of a task at the await it is suspended in.                 *)
TaskInv(task) ==
  /\ Attempts(task) \in Nat /\ Attempts(task) <= MaxRetries
  /\ Working(task) => task[1] = taken
  /\ task[1] > taken => pc[task] = "idle"
  /\ pc[task] \in {"idle", "create"} => Attempts(task) = 0 /\ row[task] = "none"
  /\ pc[task] = "send" => Attempts(task) < MaxRetries
  /\ pc[task] \in {"send", "record", "give_up"} => row[task] # "none"
  /\ pc[task] = "record" => task \in accepted
  /\ pc[task] = "give_up" => Exhausted(task)
  /\ Attempts(task) > 0 => row[task] # "none"
  /\ row[task] = "delivered" => task \in accepted
  /\ row[task] = "failed" => Exhausted(task)

(* No POST is of an event the dispatcher has not been given, and each is   *)
(* of the newest event there was.                                          *)
OrderInv ==
  \A url \in Urls :
    /\ \A i \in 1 .. Len(posts[url]) : posts[url][i] \in 1 .. taken
    /\ \A i, j \in 1 .. Len(posts[url]) : i < j => posts[url][i] <= posts[url][j]

IInv == TypeInv /\ (\A task \in Tasks : TaskInv(task)) /\ OrderInv

-----------------------------------------------------------------------------
LEMMA TaskParts ==
  ASSUME NEW task \in Tasks
  PROVE  task[1] \in Nat /\ task[1] \in 1 .. MaxEvents /\ task[2] \in Urls
         /\ task = <<task[1], task[2]>>
  BY WebhookAssumption DEF Tasks

LEMMA AppendOne ==
  ASSUME NEW s \in Seq(Nat), NEW e \in Nat
  PROVE  /\ Append(s, e) \in Seq(Nat)
         /\ Len(Append(s, e)) = Len(s) + 1 /\ Len(s) \in Nat
         /\ \A i \in 1 .. Len(s) : Append(s, e)[i] = s[i]
         /\ Append(s, e)[Len(s) + 1] = e
         /\ DOMAIN s = 1 .. Len(s)
         /\ DOMAIN Append(s, e) = 1 .. (Len(s) + 1)
  OBVIOUS

(* How often an event occurs in a sequence of POSTs grows by one with it,  *)
(* and with no other.                                                      *)
Count(s, m) == Cardinality({i \in DOMAIN s : s[i] = m})

LEMMA CountAppend ==
  ASSUME NEW s \in Seq(Nat), NEW e \in Nat, NEW m \in Nat
  PROVE  /\ Count(s, m) \in Nat
         /\ Count(Append(s, e), m) = IF e = m THEN Count(s, m) + 1 ELSE Count(s, m)
<1> DEFINE old == {i \in DOMAIN s : s[i] = m}
           new == {i \in DOMAIN Append(s, e) : Append(s, e)[i] = m}
<1>0. Count(s, m) = Cardinality(old) /\ Count(Append(s, e), m) = Cardinality(new)
  BY DEF Count
<1>1. IsFiniteSet(old) /\ Len(s) + 1 \notin old
  <2>0. Len(s) \in Int /\ 1 \in Int
    BY AppendOne
  <2>1. IsFiniteSet(1 .. Len(s)) /\ old \subseteq 1 .. Len(s)
    BY <2>0, FS_Interval, AppendOne
  <2>2. IsFiniteSet(old)
    BY <2>1, FS_Subset
  <2> QED
    BY <2>1, <2>2, AppendOne
<1>2. CASE e = m
  <2>1. new = old \union {Len(s) + 1}
    BY <1>2, AppendOne
  <2> HIDE DEF old, new
  <2>2. Cardinality(new) = Cardinality(old) + 1 /\ Cardinality(old) \in Nat
    BY <1>1, <2>1, FS_AddElement, FS_CardinalityType
  <2> QED
    BY <1>0, <1>2, <2>2
<1>3. CASE e # m
  <2>1. new = old
    BY <1>3, AppendOne
  <2> HIDE DEF old, new
  <2>2. Cardinality(old) \in Nat
    BY <1>1, FS_CardinalityType
  <2> QED
    BY <1>0, <1>3, <2>1, <2>2
<1> QED
  BY <1>2, <1>3

LEMMA PostCounts ==
  ASSUME TypeInv, NEW task \in Tasks, Post(task)
  PROVE  /\ Attempts(task) \in Nat /\ Attempts(task)' = Attempts(task) + 1
         /\ \A other \in Tasks : other # task => Attempts(other)' = Attempts(other)
<1>1. posts' = [posts EXCEPT ![task[2]] = Append(@, task[1])]
  BY DEF Post
<1>2. task[1] \in Nat /\ task[2] \in Urls /\ task = <<task[1], task[2]>>
  BY TaskParts
<1>3. posts[task[2]] \in Seq(Nat) /\ posts'[task[2]] = Append(posts[task[2]], task[1])
  BY <1>1, <1>2 DEF TypeInv
<1>4. Attempts(task) \in Nat /\ Attempts(task)' = Attempts(task) + 1
  <2>1. Attempts(task) = Count(posts[task[2]], task[1])
    BY DEF Attempts, Count
  <2>2. Attempts(task)' = Count(posts'[task[2]], task[1])
    BY DEF Attempts, Count
  <2> QED
    BY <1>2, <1>3, <2>1, <2>2, CountAppend
<1>5. ASSUME NEW other \in Tasks, other # task
      PROVE  Attempts(other)' = Attempts(other)
  <2>1. other[1] \in Nat /\ other[2] \in Urls /\ other = <<other[1], other[2]>>
    BY TaskParts
  <2>2. CASE other[2] = task[2]
    <3>1. other[1] # task[1]
      BY <1>2, <1>5, <2>1, <2>2
    <3>2. /\ Attempts(other) = Count(posts[task[2]], other[1])
          /\ Attempts(other)' = Count(posts'[task[2]], other[1])
      BY <2>2 DEF Attempts, Count
    <3> QED
      BY <1>2, <1>3, <2>1, <3>1, <3>2, CountAppend
  <2>3. CASE other[2] # task[2]
    <3>1. posts'[other[2]] = posts[other[2]]
      BY <1>1, <2>1, <2>3 DEF TypeInv
    <3> QED
      BY <3>1 DEF Attempts
  <2> QED
    BY <2>2, <2>3
<1> QED
  BY <1>4, <1>5

-----------------------------------------------------------------------------
LEMMA InitIInv == Init => IInv
<1> SUFFICES ASSUME Init PROVE IInv
  OBVIOUS
<1>1. TypeInv
  BY WebhookAssumption DEF Init, TypeInv, PcValues, RowValues
<1>2. ASSUME NEW task \in Tasks PROVE TaskInv(task)
  <2>1. task[2] \in Urls /\ task[1] \in Nat
    BY TaskParts
  <2>2. {i \in DOMAIN posts[task[2]] : posts[task[2]][i] = task[1]} = {}
    BY <2>1 DEF Init
  <2>3. Attempts(task) = 0
    BY <2>2, FS_EmptySet DEF Attempts
  <2> QED
    BY <2>1, <2>3, WebhookAssumption DEF Init, TaskInv, Working
<1>3. OrderInv
  BY DEF Init, OrderInv
<1> QED
  BY <1>1, <1>2, <1>3 DEF IInv

(* A step of one task leaves alone what holds of the others.               *)
LEMMA OthersKeep ==
  ASSUME NEW other \in Tasks, TaskInv(other),
         pc'[other] = pc[other], row'[other] = row[other], taken' = taken,
         Attempts(other)' = Attempts(other),
         accepted \subseteq accepted', fatal \subseteq fatal'
  PROVE  TaskInv(other)'
  BY DEF TaskInv, Working, Exhausted

LEMMA PostKeepsOrder ==
  ASSUME IInv, NEW task \in Tasks, task[1] = taken, taken' = taken, Post(task)
  PROVE  OrderInv' /\ posts' \in [Urls -> Seq(Nat)]
<1>1. /\ task[1] \in Nat /\ task[2] \in Urls
      /\ posts' = [posts EXCEPT ![task[2]] = Append(@, task[1])]
  BY TaskParts DEF Post
<1>2. posts[task[2]] \in Seq(Nat) /\ posts'[task[2]] = Append(posts[task[2]], task[1])
  BY <1>1 DEF IInv, TypeInv
<1>3. posts' \in [Urls -> Seq(Nat)]
  BY <1>1, <1>2, AppendOne DEF IInv, TypeInv
<1>4. ASSUME NEW url \in Urls
      PROVE  /\ \A i \in 1 .. Len(posts'[url]) : posts'[url][i] \in 1 .. taken'
             /\ \A i, j \in 1 .. Len(posts'[url]) :
                  i < j => posts'[url][i] <= posts'[url][j]
  <2>1. CASE url # task[2]
    <3>1. posts'[url] = posts[url]
      BY <1>1, <2>1 DEF IInv, TypeInv
    <3> QED
      BY <3>1 DEF IInv, OrderInv
  <2>2. CASE url = task[2]
    <3>1. /\ \A i \in 1 .. Len(posts[url]) : posts[url][i] \in 1 .. taken
          /\ \A i, j \in 1 .. Len(posts[url]) : i < j => posts[url][i] <= posts[url][j]
      BY DEF IInv, OrderInv
    <3>2. /\ Len(posts'[url]) = Len(posts[url]) + 1 /\ Len(posts[url]) \in Nat
          /\ \A i \in 1 .. Len(posts[url]) : posts'[url][i] = posts[url][i]
          /\ posts'[url][Len(posts[url]) + 1] = taken
      BY <1>1, <1>2, <2>2, AppendOne
    <3>3. taken \in Nat /\ taken >= 1 /\ \A i \in 1 .. Len(posts[url]) : posts[url][i] \in Nat
      BY <1>2, <2>2, TaskParts DEF IInv, TypeInv
    <3>4. \A i \in 1 .. Len(posts'[url]) :
            /\ i \in 1 .. Len(posts[url]) \/ i = Len(posts[url]) + 1
            /\ posts'[url][i] \in Nat /\ posts'[url][i] \in 1 .. taken
      BY <3>1, <3>2, <3>3
    <3>5. ASSUME NEW i \in 1 .. Len(posts'[url]), NEW j \in 1 .. Len(posts'[url]), i < j
          PROVE  posts'[url][i] <= posts'[url][j]
      <4>1. CASE j \in 1 .. Len(posts[url])
        <5>1. i \in 1 .. Len(posts[url])
          BY <3>2, <3>5, <4>1
        <5> QED
          BY <3>1, <3>2, <3>5, <4>1, <5>1
      <4>2. CASE j = Len(posts[url]) + 1
        BY <3>2, <3>4, <4>2
      <4> QED
        BY <3>4, <4>1, <4>2
    <3> QED
      BY <3>4, <3>5
  <2> QED
    BY <2>1, <2>2
<1> QED
  BY <1>3, <1>4 DEF OrderInv

(* A step of a task that is at work preserves the invariant, if it does so *)
(* for the task itself.                                                    *)
LEMMA StepOfTask ==
  ASSUME IInv, NEW task \in Tasks, Working(task),
         NEW p \in PcValues, pc' = [pc EXCEPT ![task] = p],
         NEW r \in RowValues, row' = [row EXCEPT ![task] = r],
         UNCHANGED <<events, taken>>,
         \/ UNCHANGED posts \/ Post(task),
         accepted' \in {accepted, accepted \union {task}},
         fatal' \in {fatal, fatal \union {task}},
         TaskInv(task)'
  PROVE  IInv'
<1>1. task[1] = taken
  BY DEF IInv, TaskInv
<1>2. OrderInv' /\ posts' \in [Urls -> Seq(Nat)]
  <2>1. CASE UNCHANGED posts
    BY <2>1 DEF IInv, OrderInv, TypeInv
  <2>2. CASE Post(task)
    BY <1>1, <2>2, PostKeepsOrder
  <2> QED
    BY <2>1, <2>2
<1>3. TypeInv'
  BY <1>2 DEF IInv, TypeInv
<1>4. ASSUME NEW other \in Tasks PROVE TaskInv(other)'
  <2>1. CASE other # task
    <3>1. pc'[other] = pc[other] /\ row'[other] = row[other]
      BY <2>1 DEF IInv, TypeInv
    <3>2. Attempts(other)' = Attempts(other)
      <4>1. CASE UNCHANGED posts
        BY <4>1 DEF Attempts
      <4>2. CASE Post(task)
        BY <2>1, <4>2, PostCounts DEF IInv
      <4> QED
        BY <4>1, <4>2
    <3> QED
      BY <3>1, <3>2, OthersKeep DEF IInv
  <2> QED
    BY <2>1
<1> QED
  BY <1>2, <1>3, <1>4 DEF IInv

-----------------------------------------------------------------------------
LEMMA StepLocal ==
  ASSUME IInv, NEW task \in Tasks
  PROVE  /\ pc[task] \in PcValues /\ row[task] \in RowValues /\ TaskInv(task)
         /\ row = [row EXCEPT ![task] = row[task]]
         /\ \A p \in PcValues : [pc EXCEPT ![task] = p][task] = p
         /\ \A r \in RowValues : [row EXCEPT ![task] = r][task] = r
         /\ MaxRetries \in Nat \ {0} /\ task[1] \in Nat /\ taken \in Nat
  BY TaskParts, WebhookAssumption DEF IInv, TypeInv

(* A step without a POST, from one await to another.                       *)
LEMMA QuietStep ==
  ASSUME IInv, NEW task \in Tasks,
         NEW from \in PcValues, NEW to \in PcValues, Move(task, from, to),
         from \notin {"idle", "done"}, to \notin {"idle", "create"},
         NEW r \in RowValues, row' = [row EXCEPT ![task] = r],
         UNCHANGED <<events, taken, posts, accepted>>,
         fatal' \in {fatal, fatal \union {task}},
         to = "send" => r # "none" /\ Attempts(task) < MaxRetries,
         to = "record" => FALSE,
         to = "give_up" => r # "none" /\ (Exhausted(task) \/ task \in fatal'),
         Attempts(task) > 0 => r # "none",
         r = "delivered" => task \in accepted,
         r = "failed" => Exhausted(task)
  PROVE  IInv'
<1>1. pc' = [pc EXCEPT ![task] = to] /\ pc[task] = from
  BY DEF Move
<1>2. pc'[task] = to /\ row'[task] = r
  BY <1>1, StepLocal
<1>3. Working(task) /\ Attempts(task)' = Attempts(task)
  BY <1>1 DEF Working, Attempts
<1>4. TaskInv(task)'
  BY <1>1, <1>2, <1>3, StepLocal DEF TaskInv, Exhausted, Working
<1> QED
  BY <1>1, <1>3, <1>4, StepOfTask

LEMMA CreatePreserves ==
  ASSUME IInv, NEW task \in Tasks, Create(task) \/ CreateFails(task)
  PROVE  IInv'
<1> USE DEF PcValues, RowValues, historyVars
<1>1. pc[task] = "create" /\ Attempts(task) = 0 /\ row[task] = "none" /\ 0 < MaxRetries
  BY StepLocal DEF Create, CreateFails, Move, TaskInv
<1>2. CASE Create(task)
  BY <1>1, <1>2, QuietStep DEF Create
<1>3. CASE CreateFails(task) /\ row' = row
  <2>1. row' = [row EXCEPT ![task] = "none"]
    BY <1>1, <1>3, StepLocal
  <2>2. /\ Move(task, "create", "done")
        /\ UNCHANGED <<events, taken, posts, accepted>> /\ fatal' = fatal
    BY <1>3 DEF CreateFails
  <2>3. "create" \in PcValues /\ "done" \in PcValues /\ "none" \in RowValues
    OBVIOUS
  <2> HIDE DEF PcValues, RowValues
  <2>4. PICK from \in PcValues, to \in PcValues, r \in RowValues :
          /\ from = "create" /\ to = "done" /\ r = "none"
          /\ row' = [row EXCEPT ![task] = r] /\ Move(task, from, to)
    BY <2>1, <2>2, <2>3
  <2>5. ~ (Attempts(task) > 0)
    BY <1>1
  <2>6. /\ from \notin {"idle", "done"} /\ to \notin {"idle", "create"}
        /\ to # "send" /\ to # "record" /\ to # "give_up"
        /\ r # "delivered" /\ r # "failed"
    BY <2>4
  <2> QED
    BY <2>2, <2>4, <2>5, <2>6, QuietStep
<1>4. CASE CreateFails(task) /\ row' = [row EXCEPT ![task] = "pending"]
  BY <1>1, <1>4, QuietStep DEF CreateFails
<1> QED
  BY <1>2, <1>3, <1>4 DEF CreateFails

LEMMA SendPreserves ==
  ASSUME IInv, NEW task \in Tasks,
         SendSucceeds(task) \/ SendFails(task) \/ SendRaises(task)
  PROVE  IInv'
<1> USE DEF PcValues, historyVars
<1> DEFINE r == row[task]
<1>1. /\ pc[task] = "send" /\ r # "none" /\ Attempts(task) < MaxRetries
      /\ r \in RowValues /\ Working(task)
      /\ r = "delivered" => task \in accepted
      /\ r = "failed" => task \in fatal \union accepted
      /\ Attempts(task) \in Nat
  BY StepLocal DEF SendSucceeds, SendFails, SendRaises, Move, TaskInv, Working,
                   Exhausted
<1>2. row = [row EXCEPT ![task] = r] /\ TaskInv(task)
  BY StepLocal
<1>3. CASE SendRaises(task)
  <2>1. r = "failed" => Exhausted(task)
    BY <1>1 DEF Exhausted
  <2> QED
    BY <1>1, <1>2, <1>3, <2>1, QuietStep DEF SendRaises
<1>4. CASE SendSucceeds(task) \/ SendFails(task)
  <2>1. /\ Post(task) /\ UNCHANGED <<events, taken, row, fatal>>
        /\ accepted' \in {accepted, accepted \union {task}}
    BY <1>4 DEF SendSucceeds, SendFails
  <2>2. Attempts(task)' = Attempts(task) + 1
    BY <2>1, PostCounts DEF IInv
  <2>3. PICK p \in {"send", "record", "give_up"} :
          /\ pc' = [pc EXCEPT ![task] = p]
          /\ p = "record" => task \in accepted'
          /\ p = "send" => Attempts(task) + 1 < MaxRetries
          /\ p = "give_up" => ~ (Attempts(task) + 1 < MaxRetries)
    BY <1>4 DEF SendSucceeds, SendFails, Move
  <2>4. pc'[task] = p /\ row'[task] = r
    BY <2>1, <2>3, StepLocal
  <2>5. MaxRetries \in Nat /\ (p = "give_up" => Attempts(task) + 1 = MaxRetries)
    BY <1>1, <2>3, WebhookAssumption
  <2>6. TaskInv(task)'
    BY <1>1, <1>2, <2>1, <2>2, <2>3, <2>4, <2>5 DEF TaskInv, Exhausted, Working
  <2>7. row' = [row EXCEPT ![task] = r]
    BY <1>2, <2>1
  <2> QED
    BY <1>1, <2>1, <2>3, <2>6, <2>7, StepOfTask
<1> QED
  BY <1>3, <1>4

(* What a task in the other two awaits may do.                             *)
LEMMA RecordPreserves ==
  ASSUME IInv, NEW task \in Tasks, Record(task) \/ RecordFails(task)
  PROVE  IInv'
<1>1. /\ pc[task] = "record" /\ task \in accepted /\ row[task] # "none"
      /\ row[task] \in RowValues /\ row = [row EXCEPT ![task] = row[task]]
      /\ row[task] = "failed" => Exhausted(task)
      /\ Exhausted(task)
  BY StepLocal DEF Record, RecordFails, Move, TaskInv, Exhausted
<1>2. PICK r \in {row[task], "delivered"}, to \in {"done", "give_up"} :
        row' = [row EXCEPT ![task] = r] /\ Move(task, "record", to)
  BY <1>1 DEF Record, RecordFails
<1>3. UNCHANGED <<events, taken, posts, accepted>> /\ fatal' = fatal
  BY DEF Record, RecordFails, historyVars
<1>4. r \in RowValues /\ to \in PcValues /\ "record" \in PcValues
  BY <1>1, <1>2 DEF RowValues, PcValues
<1>5. r # "none" /\ (r = "failed" => Exhausted(task))
  BY <1>1, <1>2
<1> QED
  BY <1>1, <1>2, <1>3, <1>4, <1>5, QuietStep

LEMMA GiveUpPreserves ==
  ASSUME IInv, NEW task \in Tasks, GiveUp(task) \/ GiveUpFails(task)
  PROVE  IInv'
<1>1. /\ pc[task] = "give_up" /\ row[task] # "none"
      /\ row[task] \in RowValues /\ row = [row EXCEPT ![task] = row[task]]
      /\ row[task] = "delivered" => task \in accepted
      /\ Exhausted(task)
  BY StepLocal DEF GiveUp, GiveUpFails, Move, TaskInv
<1>2. PICK r \in {row[task], "failed"} : row' = [row EXCEPT ![task] = r]
  BY <1>1 DEF GiveUp, GiveUpFails
<1>3. /\ Move(task, "give_up", "done")
      /\ UNCHANGED <<events, taken, posts, accepted>> /\ fatal' = fatal
  BY DEF GiveUp, GiveUpFails, historyVars
<1>4. r \in RowValues /\ "done" \in PcValues /\ "give_up" \in PcValues
  BY <1>1, <1>2 DEF RowValues, PcValues
<1>5. r # "none" /\ (r = "delivered" => task \in accepted)
  BY <1>1, <1>2
<1> QED
  BY <1>1, <1>2, <1>3, <1>4, <1>5, QuietStep

-----------------------------------------------------------------------------
(* A message newer than the last is taken when no task is at work: its own *)
(* tasks have not begun, and what was POSTed is older.                     *)
LEMMA TakePreserves == ASSUME IInv, Take PROVE IInv'
<1>1. PICK m \in taken + 1 .. events :
        /\ taken' = m
        /\ pc' = [task \in Tasks |-> IF task[1] = m THEN "create" ELSE pc[task]]
  BY DEF Take
<1>2. /\ \A task \in Tasks : ~ Working(task)
      /\ UNCHANGED <<events, row, posts, accepted, fatal>>
  BY DEF Take, historyVars
<1>3. m \in Nat /\ taken \in Nat /\ events \in Nat /\ taken < m /\ m <= events
  BY <1>1 DEF IInv, TypeInv
<1>4. TypeInv'
  BY <1>1, <1>2, <1>3 DEF IInv, TypeInv, PcValues
<1>5. OrderInv'
  <2>1. ASSUME NEW url \in Urls, NEW i \in 1 .. Len(posts[url])
        PROVE  posts[url][i] \in Nat /\ posts[url][i] <= m
    <3>1. posts[url] \in Seq(Nat) /\ posts[url][i] \in 1 .. taken
      BY DEF IInv, TypeInv, OrderInv
    <3> QED
      BY <1>3, <3>1
  <2> QED
    BY <1>1, <1>2, <2>1 DEF IInv, OrderInv
<1>6. ASSUME NEW task \in Tasks PROVE TaskInv(task)'
  <2>1. /\ Attempts(task)' = Attempts(task) /\ row' = row /\ task[1] \in Nat
        /\ TaskInv(task)
    BY <1>2, TaskParts DEF Attempts, IInv
  <2>2. CASE task[1] = m
    <3>1. pc'[task] = "create"
      BY <1>1, <2>2
    <3>2. Attempts(task) = 0 /\ row[task] = "none"
      BY <1>3, <2>1, <2>2 DEF TaskInv
    <3> QED
      BY <1>1, <2>1, <2>2, <3>1, <3>2, StepLocal DEF TaskInv, Working, Exhausted
  <2>3. CASE task[1] # m
    <3>1. pc'[task] = pc[task] /\ pc[task] \in {"idle", "done"}
      BY <1>1, <1>2, <2>3 DEF Working
    <3> QED
      BY <1>1, <1>2, <1>3, <2>1, <2>3, <3>1 DEF TaskInv, Working, Exhausted
  <2> QED
    BY <2>2, <2>3
<1> QED
  BY <1>4, <1>5, <1>6 DEF IInv

(* A restart ends the tasks at work wherever they are.                     *)
LEMMA RestartPreserves == ASSUME IInv, Restart PROVE IInv'
<1>1. /\ pc' = [task \in Tasks |-> IF Working(task) THEN "done" ELSE pc[task]]
      /\ UNCHANGED <<events, taken, row, posts, accepted, fatal>>
  BY DEF Restart, historyVars
<1>2. TypeInv'
  BY <1>1 DEF IInv, TypeInv, PcValues
<1>3. OrderInv'
  BY <1>1 DEF IInv, OrderInv
<1>4. ASSUME NEW task \in Tasks PROVE TaskInv(task)'
  <2>1. /\ Attempts(task)' = Attempts(task) /\ task[1] \in Nat /\ TaskInv(task)
        /\ taken \in Nat
    BY <1>1, TaskParts DEF Attempts, IInv, TypeInv
  <2>2. pc'[task] = IF Working(task) THEN "done" ELSE pc[task]
    BY <1>1
  <2> QED
    BY <1>1, <2>1, <2>2 DEF TaskInv, Working, Exhausted
<1> QED
  BY <1>2, <1>3, <1>4 DEF IInv

(* Nothing but the number of events, which only grows.                     *)
LEMMA ArrivePreserves == ASSUME IInv, Arrive PROVE IInv'
<1>1. /\ events' = events + 1 /\ events < MaxEvents
      /\ UNCHANGED <<taken, pc, row, posts, accepted, fatal>>
  BY DEF Arrive, historyVars
<1>2. TypeInv'
  BY <1>1, WebhookAssumption DEF IInv, TypeInv
<1>3. OrderInv'
  BY <1>1 DEF IInv, OrderInv
<1>4. ASSUME NEW task \in Tasks PROVE TaskInv(task)'
  BY <1>1 DEF IInv, TaskInv, Attempts, Working, Exhausted
<1> QED
  BY <1>2, <1>3, <1>4 DEF IInv

LEMMA StutterPreserves == ASSUME IInv, UNCHANGED vars PROVE IInv'
<1>1. UNCHANGED <<events, taken, pc, row, posts, accepted, fatal>>
  BY DEF vars, historyVars
<1>2. TypeInv' /\ OrderInv'
  BY <1>1 DEF IInv, TypeInv, OrderInv
<1>3. ASSUME NEW task \in Tasks PROVE TaskInv(task)'
  BY <1>1 DEF IInv, TaskInv, Attempts, Working, Exhausted
<1> QED
  BY <1>2, <1>3 DEF IInv

LEMMA NextIInv == IInv /\ [Next]_vars => IInv'
<1> SUFFICES ASSUME IInv, [Next]_vars PROVE IInv'
  OBVIOUS
<1>1. CASE Arrive
  BY <1>1, ArrivePreserves
<1>2. CASE Take
  BY <1>2, TakePreserves
<1>3. ASSUME NEW task \in Tasks, Proceed(task) PROVE IInv'
  BY <1>3, CreatePreserves, SendPreserves, RecordPreserves, GiveUpPreserves DEF Proceed
<1>4. CASE Restart
  BY <1>4, RestartPreserves
<1>5. CASE UNCHANGED vars
  BY <1>5, StutterPreserves
<1> QED
  BY <1>1, <1>2, <1>3, <1>4, <1>5 DEF Next

(* The inductive invariant: what each await of a task implies of its row   *)
(* and its attempts, and that all POSTs are of messages already taken.     *)
THEOREM Invariant == Spec => []IInv
  BY InitIInv, NextIInv, PTL DEF Spec

-----------------------------------------------------------------------------
(* The variables of the dispatcher keep their types, for any number of     *)
(* URLs, attempts and events; what is POSTed was taken from the stream.    *)
THEOREM TypeCorrect == Spec => []TypeOK
<1>1. ASSUME IInv PROVE TypeOK
  <2>1. ASSUME NEW url \in Urls PROVE posts[url] \in Seq(1 .. taken)
    BY <1>1 DEF IInv, TypeInv, OrderInv
  <2> QED
    BY <1>1, <2>1 DEF IInv, TypeInv, TypeOK, PcValues, RowValues
<1> QED
  BY <1>1, Invariant, PTL

(* Every POST can be found in the delivery table, through all failures.    *)
THEOREM Recorded == Spec => []PostsAreRecorded
<1>1. IInv => PostsAreRecorded
  BY DEF IInv, TaskInv, PostsAreRecorded
<1> QED
  BY <1>1, Invariant, PTL

(* No endpoint gets an event more than MaxRetries times.                   *)
THEOREM Bounded == Spec => []AttemptsBounded
<1>1. IInv => AttemptsBounded
  BY DEF IInv, TaskInv, AttemptsBounded
<1> QED
  BY <1>1, Invariant, PTL

(* A row that says "delivered" is of a POST that was answered with success.*)
THEOREM DeliveredIsTrue == Spec => []DeliveredWereAccepted
<1>1. IInv => DeliveredWereAccepted
  BY DEF IInv, TaskInv, DeliveredWereAccepted
<1> QED
  BY <1>1, Invariant, PTL

(* A row that says "failed" has had its attempts, unless an error ended    *)
(* them or the success could not be noted.                                 *)
THEOREM FailedIsExplained == Spec => []FailedWereExhausted
<1>1. IInv => FailedWereExhausted
  BY DEF IInv, TaskInv, Exhausted, FailedWereExhausted
<1> QED
  BY <1>1, Invariant, PTL

(* The final statuses of the delivery table are the truth, through failures*)
(* of the database and restarts.                                           *)
THEOREM RowsTrue == Spec => []RowsAreTrue
  BY DeliveredIsTrue, FailedIsExplained, PTL DEF RowsAreTrue

(* Every endpoint is sent the events in the order of the stream.           *)
THEOREM InOrder == Spec => []EventsInOrder
<1>1. ASSUME IInv PROVE EventsInOrder
  <2>1. ASSUME NEW url \in Urls PROVE DOMAIN posts[url] = 1 .. Len(posts[url])
    BY <1>1 DEF IInv, TypeInv
  <2> QED
    BY <1>1, <2>1 DEF IInv, OrderInv, EventsInOrder
<1> QED
  BY <1>1, Invariant, PTL
=============================================================================
