-------------------------- MODULE AtMostOnceQueue --------------------------
(***************************************************************************)
(* What a consumer group of the message queue promises to the service      *)
(* behind it, whatever fails: the callback is invoked on messages that     *)
(* were published, in the order in which they were published, and on none  *)
(* of them twice.  It does not promise that a message arrives.             *)
(***************************************************************************)
EXTENDS Naturals, Sequences

VARIABLES
  sent,   \* how many messages were published; the n-th has number n
  calls   \* the messages the callback was invoked on, in that order

vars == <<sent, calls>>

Init ==
  /\ sent = 0
  /\ calls = << >>

Send ==
  /\ sent' = sent + 1
  /\ UNCHANGED calls

(* A message later than every one handled so far; the ones it overtakes    *)
(* are lost to the group.                                                  *)
Deliver ==
  \E m \in 1 .. sent :
    /\ \A i \in 1 .. Len(calls) : calls[i] < m
    /\ calls' = Append(calls, m)
    /\ UNCHANGED sent

Next == Send \/ Deliver

Spec == Init /\ [][Next]_vars
=============================================================================
