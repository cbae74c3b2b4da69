----------------------------- MODULE Classifier -----------------------------
(***************************************************************************)
(* tbwi/services/classifier.py: what the callback of the classifier does   *)
(* with the messages of the stream normalized_tx, against the database and *)
(* the stream classified_tx.                                               *)
(*                                                                         *)
(* Workers are classifier processes.  The compose file runs one; the       *)
(* consumer group and the unique index on txid allow for more.  The session*)
(* of a worker is a PostgreSQL transaction (READ COMMITTED): what it wrote *)
(* is seen by others once committed, and the unique index on txid makes a  *)
(* second insert of the same txid wait for the first to end.               *)
(***************************************************************************)
EXTENDS Integers, Sequences

CONSTANTS
  Workers,     \* classifier processes
  Txs,         \* normalized transactions, records [txid, large, vout] where an
               \* output is [address, value, exchange]; large: the total reaches
               \* large_tx_threshold; exchange: the address has an exchange tag
  MaxArrivals  \* bound: messages on normalized_tx

ASSUME ClassifierAssumption ==
  /\ \A tx \in Txs : tx.large \in BOOLEAN
  /\ MaxArrivals \in Nat

VARIABLES
  inbox,      \* the stream normalized_tx: every message ever published
  taken,      \* the consumer group read inbox[1..taken]
  pc,         \* per worker: the await its callback is suspended in
  job,        \* per worker: the message in hand, an index of inbox
  types,      \* per worker: the types classify found
  stored,     \* table classified_transactions, committed rows
  published,  \* the stream classified_tx
  aborted     \* history: txids published by a session that did not commit

vars == <<inbox, taken, pc, job, types, stored, published, aborted>>

Idle == "idle"
Steps == {Idle, "classify", "exists", "create", "publish", "commit"}

-----------------------------------------------------------------------------
(* _determine_types.  _enrich_inputs returns no inputs, so there never is  *)
(* an exchange input, a withdrawal or a consolidation.                     *)
When(condition, type) == IF condition THEN <<type>> ELSE << >>

(* Three outputs or more share the amount, or the address.                 *)
ProgrammaticSplit(vout) ==
  \E i, j, k \in DOMAIN vout :
    /\ i < j /\ j < k
    /\ \/ vout[i].value = vout[j].value /\ vout[j].value = vout[k].value
       \/ vout[i].address = vout[j].address /\ vout[j].address = vout[k].address

(* The types of a large transaction, most specific first.                  *)
LargeTypes(vout) ==
  LET toExchange == \E i \in DOMAIN vout : vout[i].exchange
      single == Len(vout) = 1
      found ==
        When(ProgrammaticSplit(vout), "PROGRAMMATIC_SPLIT")
        \o When(toExchange, "EXCHANGE_DEPOSIT_CANDIDATE")
        \o When(single /\ ~ toExchange, "OTC_LIKE_MOVE_CANDIDATE")
        \o When(single, "LARGE_SINGLE_OUTPUT")
        \o When(Len(vout) > 1, "LARGE_MULTI_OUTPUT")
  IN  IF found = << >> THEN <<"UNKNOWN_LARGE">> ELSE found

(* What the AttributeError of a missing field leaves instead of a list.    *)
Raised == <<"AttributeError">>

(* The consolidation test reads tx.outputs of a large transaction, and a   *)
(* NormalizedTransaction has no such field: its outputs are called vout.   *)
DetermineTypes(tx) ==
  IF ~ tx.large THEN << >>
  ELSE IF "outputs" \in DOMAIN tx THEN LargeTypes(tx.vout)
  ELSE Raised

-----------------------------------------------------------------------------
Init ==
  /\ inbox = << >> /\ taken = 0
  /\ pc = [w \in Workers |-> Idle]
  /\ job = [w \in Workers |-> 0]
  /\ types = [w \in Workers |-> << >>]
  /\ stored = {} /\ published = << >> /\ aborted = {}

Tx(w) == inbox[job[w]]
Txid(w) == Tx(w).txid

(* The record that goes to the database and downstream.                    *)
Classified(w) == [msg |-> job[w], txid |-> Txid(w), types |-> types[w]]

(* A worker between flush and commit holds an uncommitted row.             *)
Inserting == {"publish", "commit"}

Move(w, from, to) ==
  /\ pc[w] = from
  /\ pc' = [pc EXCEPT ![w] = to]

-----------------------------------------------------------------------------
(* A listener publishes.  The node announces a transaction when it enters  *)
(* the mempool and again with its block, so the same one may come twice.   *)
Arrive(tx) ==
  /\ Len(inbox) < MaxArrivals
  /\ inbox' = Append(inbox, tx)
  /\ UNCHANGED <<taken, pc, job, types, stored, published, aborted>>

(* The message queue invokes the callback on a message later than any the  *)
(* group was given before (AtMostOnceQueue!Deliver).                       *)
Take(w) ==
  /\ Move(w, Idle, "classify")
  /\ \E m \in taken + 1 .. Len(inbox) :
       /\ taken' = m
       /\ job' = [job EXCEPT ![w] = m]
  /\ UNCHANGED <<inbox, types, stored, published, aborted>>

(* classify: price and tags are looked up, then the types determined.      *)
Classify(w) ==
  /\ Move(w, "classify", "exists")
  /\ DetermineTypes(Tx(w)) # Raised
  /\ types' = [types EXCEPT ![w] = DetermineTypes(Tx(w))]
  /\ UNCHANGED <<inbox, taken, job, stored, published, aborted>>

(* An exception in classify, of the tag lookup or of DetermineTypes, makes *)
(* it return None: nothing is stored.                                      *)
ClassifyFails(w) ==
  /\ Move(w, "classify", Idle)
  /\ UNCHANGED <<inbox, taken, job, types, stored, published, aborted>>

Exists(w) ==
  /\ Move(w, "exists",
          IF \E row \in stored : row.txid = Txid(w) THEN Idle ELSE "create")
  /\ UNCHANGED <<inbox, taken, job, types, stored, published, aborted>>

(* Mutants of Create: without the unique index the insert neither waits    *)
(* for another session nor minds a committed row.                          *)
CreateDoesNotWait(w) ==
  /\ Move(w, "create", "publish")
  /\ \A row \in stored : row.txid # Txid(w)
  /\ UNCHANGED <<inbox, taken, job, types, stored, published, aborted>>
CreateIgnoresCommitted(w) ==
  /\ Move(w, "create", "publish")
  /\ \A v \in Workers \ {w} : pc[v] \in Inserting => Txid(v) # Txid(w)
  /\ UNCHANGED <<inbox, taken, job, types, stored, published, aborted>>

(* create flushes an INSERT.  It waits while another session holds an      *)
(* uncommitted row of that txid, and violates the unique index when a row  *)
(* of it was committed since exists looked.                                *)
Create(w) ==
  /\ Move(w, "create", "publish")
  /\ \A v \in Workers \ {w} : pc[v] \in Inserting => Txid(v) # Txid(w)
  /\ \A row \in stored : row.txid # Txid(w)
  /\ UNCHANGED <<inbox, taken, job, types, stored, published, aborted>>

(* The session is still open when the message goes out.                    *)
Publish(w) ==
  /\ Move(w, "publish", "commit")
  /\ published' = Append(published, Classified(w))
  /\ UNCHANGED <<inbox, taken, job, types, stored, aborted>>

(* Mutant of Commit: the session is closed without commit.                 *)
CommitForgotten(w) ==
  /\ Move(w, "commit", Idle)
  /\ UNCHANGED <<inbox, taken, job, types, stored, published, aborted>>

Commit(w) ==
  /\ Move(w, "commit", Idle)
  /\ stored' = stored \union {Classified(w)}
  /\ UNCHANGED <<inbox, taken, job, types, published, aborted>>

(* Mutant of FailsBeforePublish: a failed publish is logged and the        *)
(* session committed.                                                      *)
PublishErrorSwallowed(w) ==
  /\ Move(w, "publish", "commit")
  /\ UNCHANGED <<inbox, taken, job, types, stored, published, aborted>>

(* A database or Redis error before anything went out: get_db_session      *)
(* rolls back, _process_transaction logs, the message is acknowledged.     *)
FailsBeforePublish(w) ==
  /\ pc[w] \in {"exists", "create", "publish"}
  /\ pc' = [pc EXCEPT ![w] = Idle]
  /\ UNCHANGED <<inbox, taken, job, types, stored, published, aborted>>

(* XADD took effect but its reply was lost: the session rolls back.        *)
PublishReplyLost(w) ==
  /\ Move(w, "publish", Idle)
  /\ published' = Append(published, Classified(w))
  /\ aborted' = aborted \union {Txid(w)}
  /\ UNCHANGED <<inbox, taken, job, types, stored>>

(* COMMIT fails, or the process dies before it.                            *)
CommitFails(w) ==
  /\ Move(w, "commit", Idle)
  /\ aborted' = aborted \union {Txid(w)}
  /\ UNCHANGED <<inbox, taken, job, types, stored, published>>

(* The process dies elsewhere in the callback: its message is not seen     *)
(* again, its session is rolled back.                                      *)
Crash(w) ==
  /\ pc[w] \notin {Idle, "commit"}
  /\ pc' = [pc EXCEPT ![w] = Idle]
  /\ UNCHANGED <<inbox, taken, job, types, stored, published, aborted>>

Next ==
  \/ \E tx \in Txs : Arrive(tx)
  \/ \E w \in Workers :
       \/ Take(w) \/ Classify(w) \/ ClassifyFails(w) \/ Exists(w) \/ Create(w)
       \/ Publish(w) \/ Commit(w) \/ FailsBeforePublish(w)
       \/ PublishReplyLost(w) \/ CommitFails(w) \/ Crash(w)

Spec == Init /\ [][Next]_vars

-----------------------------------------------------------------------------
TypeName == {"PROGRAMMATIC_SPLIT", "EXCHANGE_DEPOSIT_CANDIDATE",
             "OTC_LIKE_MOVE_CANDIDATE", "LARGE_SINGLE_OUTPUT",
             "LARGE_MULTI_OUTPUT", "UNKNOWN_LARGE"}
Record ==
  [msg : 1 .. taken, txid : {tx.txid : tx \in Txs}, types : Seq(TypeName)]

TypeOK ==
  /\ inbox \in Seq(Txs) /\ taken \in 0 .. Len(inbox)
  /\ pc \in [Workers -> Steps]
  /\ job \in [Workers -> 0 .. taken]
  /\ types \in [Workers -> Seq(TypeName)]
  /\ stored \subseteq Record
  /\ published \in Seq(Record)
  /\ aborted \subseteq {tx.txid : tx \in Txs}

PublishedRecords == {published[i] : i \in DOMAIN published}

(* A row is committed only after its message is on classified_tx: whatever *)
(* fails in between, the event engine is never left without a transaction  *)
(* the API shows.                                                          *)
StoredWasPublished == stored \subseteq PublishedRecords

(* The existence check, and behind it the unique index, keep a transaction *)
(* that is stored from being announced again, however often it arrives and *)
(* whichever worker takes it.                                              *)
NoRepublishOfStored ==
  [][\A i \in DOMAIN published' \ DOMAIN published :
       \A row \in stored : row.txid # published'[i].txid]_vars

(* The event engine sees a transaction the API never shows only when a     *)
(* session went wrong after its publish.                                   *)
OrphansComeFromAborts ==
  \A i \in DOMAIN published :
    \/ published[i] \in stored
    \/ \E w \in Workers : pc[w] = "commit" /\ Classified(w) = published[i]
    \/ published[i].txid \in aborted

(* Without a session that failed after its publish, a transaction is       *)
(* announced once, for any interleaving of workers and duplicates.         *)
AnnouncedOnce ==
  \A i, j \in DOMAIN published :
    (i # j /\ published[i].txid = published[j].txid)
      => published[i].txid \in aborted

(* tests/test_classifier.py: a large transaction with one output has the   *)
(* type LARGE_SINGLE_OUTPUT.                                               *)
LargeSingleOutputFound ==
  \A w \in Workers :
    (pc[w] = "classify" /\ Tx(w).large /\ Len(Tx(w).vout) = 1)
      => \E i \in DOMAIN DetermineTypes(Tx(w)) :
           DetermineTypes(Tx(w))[i] = "LARGE_SINGLE_OUTPUT"
=============================================================================
