------------------------- MODULE WebhookDispatcher -------------------------
(***************************************************************************)
(* tbwi/services/webhook_dispatcher.py: every whale event is POSTed to     *)
(* every configured URL, with retries, and the table webhook_deliveries    *)
(* records the outcome.                                                    *)
(*                                                                         *)
(* A whale event is the number of its message on the stream whale_event.   *)
(* For each URL there is a coroutine _deliver_webhook, a task <<event,     *)
(* url>>; the callback of the message gathers them.  A step is what a task *)
(* runs between two awaits, pc the await it is suspended in.               *)
(***************************************************************************)
EXTENDS Integers, Sequences, FiniteSets

CONSTANTS
  Urls,        \* webhook.urls
  MaxRetries,  \* webhook.retry_max_attempts
  MaxEvents    \* bound: messages on whale_event

ASSUME WebhookAssumption ==
  /\ IsFiniteSet(Urls) /\ Urls # {}
  /\ MaxRetries \in Nat \ {0}
  /\ MaxEvents \in Nat

VARIABLES
  events,    \* the stream whale_event holds the messages 1..events
  taken,     \* the last message the dispatcher was given
  pc,        \* per task: the await it is suspended in
  row,       \* table webhook_deliveries: status of a task's row, or "none"
  posts,     \* per URL: the events POSTed there, in order, an attempt each
  accepted,  \* history: tasks one of whose POSTs was answered with success
  fatal      \* history: tasks that met an error which is not retried

historyVars == <<accepted, fatal>>
vars == <<events, taken, pc, row, posts, historyVars>>

Tasks == (1 .. MaxEvents) \X Urls
Working(task) == pc[task] \notin {"idle", "done"}
Attempts(task) ==
  Cardinality({i \in DOMAIN posts[task[2]] : posts[task[2]][i] = task[1]})

Init ==
  /\ events = 0 /\ taken = 0
  /\ pc = [task \in Tasks |-> "idle"]
  /\ row = [task \in Tasks |-> "none"]
  /\ posts = [url \in Urls |-> << >>]
  /\ accepted = {} /\ fatal = {}

Move(task, from, to) ==
  /\ pc[task] = from
  /\ pc' = [pc EXCEPT ![task] = to]

(* The event engine publishes.                                             *)
Arrive ==
  /\ events < MaxEvents
  /\ events' = events + 1
  /\ UNCHANGED <<taken, pc, row, posts, historyVars>>

(* Mutant of Take: create_task instead of gather.                          *)
TakeAtOnce ==
  /\ \E m \in taken + 1 .. events :
       /\ taken' = m
       /\ pc' = [task \in Tasks |-> IF task[1] = m THEN "create" ELSE pc[task]]
  /\ UNCHANGED <<events, row, posts, historyVars>>

(* The message queue hands an event over once the callback of the last one *)
(* is over, which gathers the tasks of all URLs (AtMostOnceQueue!Deliver). *)
Take ==
  /\ \A task \in Tasks : ~ Working(task)
  /\ \E m \in taken + 1 .. events :
       /\ taken' = m
       /\ pc' = [task \in Tasks |-> IF task[1] = m THEN "create" ELSE pc[task]]
  /\ UNCHANGED <<events, row, posts, historyVars>>

Create(task) ==
  /\ Move(task, "create", "send")
  /\ row' = [row EXCEPT ![task] = "pending"]
  /\ UNCHANGED <<events, taken, posts, historyVars>>

(* Mutant of CreateFails: the webhook is sent all the same.                *)
CreateFailureIgnored(task) ==
  /\ Move(task, "create", "send")
  /\ UNCHANGED <<events, taken, row, posts, historyVars>>

(* The session raises, with or without its commit: the task ends, gather   *)
(* keeps the exception to itself and nothing is sent.                      *)
CreateFails(task) ==
  /\ Move(task, "create", "done")
  /\ row' \in {row, [row EXCEPT ![task] = "pending"]}
  /\ UNCHANGED <<events, taken, posts, historyVars>>

-----------------------------------------------------------------------------
Post(task) == posts' = [posts EXCEPT ![task[2]] = Append(@, task[1])]

SendSucceeds(task) ==
  /\ Move(task, "send", "record")
  /\ Post(task)
  /\ accepted' = accepted \union {task}
  /\ UNCHANGED <<events, taken, row, fatal>>

(* Mutants of SendFails: an attempt too few; and no timeout.               *)
SendFailsEarly(task) ==
  /\ Post(task)
  /\ Move(task, "send", IF Attempts(task) + 2 < MaxRetries THEN "send" ELSE "give_up")
  /\ UNCHANGED <<events, taken, row, historyVars>>
SendHangs(task) ==
  /\ Move(task, "send", "hangs")
  /\ UNCHANGED <<events, taken, row, posts, historyVars>>

(* A timeout, a transport error or a response that is no success, whether  *)
(* or not the endpoint handled the POST: retried up to MaxRetries attempts.*)
SendFails(task) ==
  /\ Post(task)
  /\ Move(task, "send", IF Attempts(task) + 1 < MaxRetries THEN "send" ELSE "give_up")
  /\ UNCHANGED <<events, taken, row, historyVars>>

(* Anything that is no httpx.HTTPError, as an invalid URL: not retried.    *)
SendRaises(task) ==
  /\ Move(task, "send", "give_up")
  /\ fatal' = fatal \union {task}
  /\ UNCHANGED <<events, taken, row, posts, accepted>>

(* update_status "delivered".                                              *)
Record(task) ==
  /\ Move(task, "record", "done")
  /\ row' = [row EXCEPT ![task] = "delivered"]
  /\ UNCHANGED <<events, taken, posts, historyVars>>

(* That update raises, with or without its commit, inside the try block    *)
(* whose except clause handles a webhook that was not delivered.           *)
RecordFails(task) ==
  /\ Move(task, "record", "give_up")
  /\ row' \in {row, [row EXCEPT ![task] = "delivered"]}
  /\ UNCHANGED <<events, taken, posts, historyVars>>

(* update_status "failed".                                                 *)
GiveUp(task) ==
  /\ Move(task, "give_up", "done")
  /\ row' = [row EXCEPT ![task] = "failed"]
  /\ UNCHANGED <<events, taken, posts, historyVars>>

GiveUpFails(task) ==
  /\ Move(task, "give_up", "done")
  /\ row' \in {row, [row EXCEPT ![task] = "failed"]}
  /\ UNCHANGED <<events, taken, posts, historyVars>>

(* The process ends, by stop or crash; the message in hand is not seen     *)
(* again by the one that follows.                                          *)
Restart ==
  /\ \E task \in Tasks : Working(task)
  /\ pc' = [task \in Tasks |-> IF Working(task) THEN "done" ELSE pc[task]]
  /\ UNCHANGED <<events, taken, row, posts, historyVars>>

-----------------------------------------------------------------------------
Proceed(task) ==
  \/ Create(task) \/ CreateFails(task)
  \/ SendSucceeds(task) \/ SendFails(task) \/ SendRaises(task)
  \/ Record(task) \/ RecordFails(task)
  \/ GiveUp(task) \/ GiveUpFails(task)

Next == Arrive \/ Take \/ (\E task \in Tasks : Proceed(task)) \/ Restart

Spec == Init /\ [][Next]_vars

(* The database answers or times out, a POST is answered or fails (each    *)
(* wait for a part of the answer has a timeout), the back-off between      *)
(* attempts is at most 60 seconds; the queue hands over what it holds.     *)
FairSpec ==
  /\ Spec
  /\ WF_vars(Take)
  /\ \A task \in Tasks : WF_vars(Proceed(task))

-----------------------------------------------------------------------------
TypeOK ==
  /\ events \in 0 .. MaxEvents /\ taken \in 0 .. events
  /\ pc \in [Tasks -> {"idle", "create", "send", "record", "give_up", "done"}]
  /\ row \in [Tasks -> {"none", "pending", "delivered", "failed"}]
  /\ posts \in [Urls -> Seq(1 .. taken)]
  /\ accepted \subseteq Tasks /\ fatal \subseteq Tasks

(* Every POST can be found in the audit table, however the database fails  *)
(* and the process ends: the row is committed first.                       *)
PostsAreRecorded ==
  \A task \in Tasks : Attempts(task) > 0 => row[task] # "none"

(* An endpoint sees the events in the order of the stream: a later one is  *)
(* not begun while another URL is still being retried for this one.        *)
EventsInOrder ==
  \A url \in Urls : \A i, j \in DOMAIN posts[url] :
    i < j => posts[url][i] <= posts[url][j]

(* An endpoint gets an event MaxRetries times at most, through failures    *)
(* and restarts.                                                           *)
AttemptsBounded == \A task \in Tasks : Attempts(task) <= MaxRetries

(* "delivered" is the truth: the endpoint answered a POST with success.    *)
DeliveredWereAccepted ==
  \A task \in Tasks : row[task] = "delivered" => task \in accepted

(* "failed" comes after all attempts, after an error that is not retried,  *)
(* or else after the database failed to note a success.                    *)
FailedWereExhausted ==
  \A task \in Tasks :
    row[task] = "failed" =>
      Attempts(task) = MaxRetries \/ task \in fatal \union accepted

(* The table tells the truth about every delivery that is over, through    *)
(* retries, failing updates and restarts: its statuses delivered and failed*)
(* have the causes above.  Of "pending" nothing follows: a restart or a     *)
(* failed update leaves it behind for good.                                *)
RowsAreTrue == DeliveredWereAccepted /\ FailedWereExhausted

(* No endpoint holds up the others for ever: the event at the head of the  *)
(* stream is taken sooner or later.                                        *)
EveryEventTaken ==
  \A m \in 1 .. MaxEvents : (events >= m) ~> (taken >= m)
=============================================================================
