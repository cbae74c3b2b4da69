------------------------------ MODULE RpcClient ------------------------------
(***************************************************************************)
(* tbwi/services/bitcoin_rpc.py: concurrent calls of one process to the    *)
(* RPC server of the node, their retries, and the cache of answers.        *)
(*                                                                         *)
(* One cache key is modelled: keys do not affect one another as long as    *)
(* the cache is not full.  What the node answers is the instant at which   *)
(* it answers, so that the age of an answer can be told.  The timeout of   *)
(* the HTTP client holds for each wait for a part of the answer and not for*)
(* the request, so nothing limits how long a request is under way.         *)
(***************************************************************************)
EXTENDS Integers

CONSTANTS
  Callers,      \* coroutines that call the client
  Ttl,          \* how long the cache keeps an answer
  MaxAttempts,  \* stop_after_attempt
  MaxTime       \* bound: the last instant of the clock

ASSUME RpcAssumption ==
  /\ Ttl \in Nat \ {0} /\ MaxTime \in Nat
  /\ MaxAttempts \in Nat \ {0}

VARIABLES
  now,        \* the clock
  rpcPc,      \* per caller: idle, the await of its call, or how the call ended
  cacheable,  \* per caller: its call is of a method that uses the cache
  attempt,    \* per caller: attempts made, 0 if the cache had the answer
  sent,       \* per caller: when its last attempt was made
  answer,     \* per caller: what the node answered it
  age,        \* history, per caller: how old the answer was its call returned
  wait,       \* history, per caller: how long it took to fetch that answer
  cached,     \* the answer in the cache
  cachedWait, \* history: how long it took to fetch it
  expires     \* when it does; 0 while there is none

cacheVars == <<cached, cachedWait, expires>>
rpcVars == <<now, rpcPc, cacheable, attempt, sent, answer, age, wait, cacheVars>>

Idle == {"idle", "returned", "raised"}
InFlight == {"posted", "answered"}

RpcInit ==
  /\ now = 0
  /\ rpcPc = [c \in Callers |-> "idle"]
  /\ cacheable = [c \in Callers |-> FALSE]
  /\ attempt = [c \in Callers |-> 0]
  /\ sent = [c \in Callers |-> 0]
  /\ answer = [c \in Callers |-> 0]
  /\ age = [c \in Callers |-> 0] /\ wait = [c \in Callers |-> 0]
  /\ cached = 0 /\ cachedWait = 0 /\ expires = 0

Fresh == now < expires

RpcMove(c, from, to) ==
  /\ rpcPc[c] \in from
  /\ rpcPc' = [rpcPc EXCEPT ![c] = to]

(* A call ends: its local variables are gone.                              *)
Return(c, from, old, fetching) ==
  /\ RpcMove(c, from, "returned")
  /\ age' = [age EXCEPT ![c] = old] /\ wait' = [wait EXCEPT ![c] = fetching]
  /\ cacheable' = [cacheable EXCEPT ![c] = FALSE]
  /\ sent' = [sent EXCEPT ![c] = 0] /\ answer' = [answer EXCEPT ![c] = 0]
Raise(c, from) ==
  /\ RpcMove(c, from, "raised")
  /\ age' = [age EXCEPT ![c] = 0] /\ wait' = [wait EXCEPT ![c] = 0]
  /\ cacheable' = [cacheable EXCEPT ![c] = FALSE] /\ attempt' = [attempt EXCEPT ![c] = 0]
  /\ sent' = [sent EXCEPT ![c] = 0] /\ answer' = [answer EXCEPT ![c] = 0]

-----------------------------------------------------------------------------
(* Mutant of Hit: a use renews the entry.                                  *)
HitRenews(c) ==
  /\ Fresh
  /\ Return(c, Idle, now - cached, cachedWait)
  /\ attempt' = [attempt EXCEPT ![c] = 0]
  /\ expires' = now + Ttl
  /\ UNCHANGED <<now, cached, cachedWait>>

(* A cached method finds its key and returns the entry.                    *)
Hit(c) ==
  /\ Fresh
  /\ Return(c, Idle, now - cached, cachedWait)
  /\ attempt' = [attempt EXCEPT ![c] = 0]
  /\ UNCHANGED <<now, cacheVars>>

(* The entry expires between the test and the read: a KeyError.            *)
HitExpires(c) ==
  /\ Fresh /\ expires = now + 1
  /\ Raise(c, Idle)
  /\ UNCHANGED <<now, cacheVars>>

(* The first attempt of a call: of a cached method that does not find its  *)
(* key, or of one that does not use the cache.                             *)
Call(c, useCache) ==
  /\ useCache => ~ Fresh
  /\ RpcMove(c, Idle, "posted")
  /\ cacheable' = [cacheable EXCEPT ![c] = useCache]
  /\ attempt' = [attempt EXCEPT ![c] = 1]
  /\ sent' = [sent EXCEPT ![c] = now]
  /\ age' = [age EXCEPT ![c] = 0] /\ wait' = [wait EXCEPT ![c] = 0]
  /\ UNCHANGED <<now, answer, cacheVars>>

(* The node handles the request; the answer is on its way.                 *)
NodeAnswers(c) ==
  /\ RpcMove(c, {"posted"}, "answered")
  /\ answer' = [answer EXCEPT ![c] = now]
  /\ UNCHANGED <<now, cacheable, attempt, sent, age, wait, cacheVars>>

(* The last of the answer comes in, and it is stored over whatever was     *)
(* stored since.                                                           *)
Arrives(c) ==
  /\ Return(c, {"answered"}, now - answer[c], now - sent[c])
  /\ IF cacheable[c]
       THEN expires' = now + Ttl /\ cached' = answer[c] /\ cachedWait' = now - sent[c]
       ELSE UNCHANGED cacheVars
  /\ UNCHANGED <<now, attempt>>

(* Mutant of AttemptFails: no limit.                                       *)
AttemptFailsAlways(c) ==
  /\ RpcMove(c, InFlight, "backoff")
  /\ UNCHANGED <<now, cacheable, attempt, sent, answer, age, wait, cacheVars>>

(* A refused connection, a lost or silent answer, an HTTP status, an error *)
(* of the RPC server: each is retried, and raised after the last attempt.  *)
AttemptFails(c) ==
  /\ \/ /\ attempt[c] < MaxAttempts
        /\ RpcMove(c, InFlight, "backoff")
        /\ answer' = [answer EXCEPT ![c] = 0]
        /\ UNCHANGED <<cacheable, attempt, sent, age, wait>>
     \/ /\ attempt[c] >= MaxAttempts
        /\ Raise(c, InFlight)
  /\ UNCHANGED <<now, cacheVars>>

(* The next attempt does not look into the cache again.                    *)
Retry(c) ==
  /\ RpcMove(c, {"backoff"}, "posted")
  /\ attempt' = [attempt EXCEPT ![c] = IF @ < MaxAttempts THEN @ + 1 ELSE @]
  /\ sent' = [sent EXCEPT ![c] = now]
  /\ UNCHANGED <<now, cacheable, answer, age, wait, cacheVars>>

Tick ==
  /\ now < MaxTime
  /\ now' = now + 1
  /\ UNCHANGED <<rpcPc, cacheable, attempt, sent, answer, age, wait, cacheVars>>

CallGoesOn(c) == NodeAnswers(c) \/ Arrives(c) \/ AttemptFails(c) \/ Retry(c)

RpcNext ==
  \/ Tick
  \/ \E c \in Callers :
       \/ Hit(c) \/ HitExpires(c) \/ Call(c, TRUE) \/ Call(c, FALSE)
       \/ NodeAnswers(c) \/ Arrives(c) \/ AttemptFails(c) \/ Retry(c)

(* A request ends by its answer, which the node does not go on sending for *)
(* ever, or by the timeout of a wait for the next part of it.              *)
RpcFairness == \A c \in Callers : WF_rpcVars(CallGoesOn(c))

RpcSpec == RpcInit /\ [][RpcNext]_rpcVars /\ RpcFairness

-----------------------------------------------------------------------------
RpcTypeOK ==
  /\ now \in Nat
  /\ rpcPc \in [Callers -> {"idle", "returned", "raised", "posted", "answered",
                            "backoff"}]
  /\ cacheable \in [Callers -> BOOLEAN]
  /\ attempt \in [Callers -> 0 .. MaxAttempts]
  /\ sent \in [Callers -> Nat] /\ answer \in [Callers -> Nat]
  /\ age \in [Callers -> Nat] /\ wait \in [Callers -> Nat]
  /\ cached \in Nat /\ cachedWait \in Nat /\ expires \in Nat

(* What a call returns was answered while the last attempt of the call that*)
(* fetched it was under way, be it this call or another one; and from the  *)
(* cache it is returned for the cache time after it came in and no longer, *)
(* although concurrent calls overwrite the entry, with older answers too.  *)
(* So the health route reports a node as connected that long after it died.*)
AnswersAreRecent ==
  \A c \in Callers : rpcPc[c] = "returned" =>
    age[c] <= wait[c] + IF attempt[c] = 0 THEN Ttl ELSE 0

(* Every call ends, whatever becomes of its attempts.                      *)
CallsEnd == \A c \in Callers : rpcPc[c] \notin Idle ~> rpcPc[c] \in Idle
=============================================================================
