-------------------------- MODULE ClassifierProofs --------------------------
(***************************************************************************)
(* Theorems on the process of the classifier: its callback (Classifier),   *)
(* and the price oracle it constructs beside it (PriceOracle), which shares*)
(* no variable with the callback.                                          *)
(*                                                                         *)
(* The callback, for every set of workers and transactions and any number  *)
(* of messages: what the table and the stream can rely on about one        *)
(* another.                                                                *)
(***************************************************************************)
EXTENDS Classifier, PriceOracle, TLAPS

(* A worker that is not idle has a message in hand.                        *)
JobInv == \A w \in Workers : pc[w] # Idle => job[w] \in 1 .. taken

(* A session past its insert holds a row of a txid that is not in the table*)
(* and that no other session holds.                                        *)
SessionInv ==
  /\ \A w \in Workers :
       pc[w] \in Inserting => \A row \in stored : row.txid # Txid(w)
  /\ \A v, w \in Workers :
       (v # w /\ pc[v] \in Inserting /\ pc[w] \in Inserting) => Txid(v) # Txid(w)

(* A session that has only to commit has been announced.                   *)
CommitInv ==
  \A w \in Workers : pc[w] = "commit" => Classified(w) \in PublishedRecords

IInv ==
  /\ TypeOK /\ JobInv /\ SessionInv /\ CommitInv
  /\ StoredWasPublished /\ OrphansComeFromAborts /\ AnnouncedOnce

-----------------------------------------------------------------------------
(* The rules give a list of type names, unless they raise.                 *)
LEMMA WhenSeq ==
  ASSUME NEW c, NEW t \in TypeName PROVE When(c, t) \in Seq(TypeName)
  BY DEF When

LEMMA ConcatTypes ==
  ASSUME NEW s \in Seq(TypeName), NEW t \in Seq(TypeName)
  PROVE  s \o t \in Seq(TypeName)
  OBVIOUS

LEMMA DetermineTypesSeq ==
  ASSUME NEW tx, DetermineTypes(tx) # Raised
  PROVE  DetermineTypes(tx) \in Seq(TypeName)
<1>1. ASSUME NEW vout PROVE LargeTypes(vout) \in Seq(TypeName)
  <2> DEFINE toExchange == \E i \in DOMAIN vout : vout[i].exchange
             single == Len(vout) = 1
             A == When(ProgrammaticSplit(vout), "PROGRAMMATIC_SPLIT")
             B == When(toExchange, "EXCHANGE_DEPOSIT_CANDIDATE")
             C == When(single /\ ~ toExchange, "OTC_LIKE_MOVE_CANDIDATE")
             D == When(single, "LARGE_SINGLE_OUTPUT")
             E == When(Len(vout) > 1, "LARGE_MULTI_OUTPUT")
             found == A \o B \o C \o D \o E
  <2>1. /\ A \in Seq(TypeName) /\ B \in Seq(TypeName) /\ C \in Seq(TypeName)
        /\ D \in Seq(TypeName) /\ E \in Seq(TypeName)
    BY WhenSeq DEF TypeName
  <2>2. LargeTypes(vout) = IF found = << >> THEN <<"UNKNOWN_LARGE">> ELSE found
    BY DEF LargeTypes
  <2> HIDE DEF A, B, C, D, E
  <2>3. found \in Seq(TypeName)
    BY <2>1, ConcatTypes
  <2>4. <<"UNKNOWN_LARGE">> \in Seq(TypeName)
    BY DEF TypeName
  <2> QED
    BY <2>2, <2>3, <2>4
<1>2. << >> \in Seq(TypeName)
  OBVIOUS
<1> QED
  BY <1>1, <1>2 DEF DetermineTypes

-----------------------------------------------------------------------------
LEMMA RecordGrows ==
  ASSUME TypeOK, taken' \in Nat, taken <= taken'
  PROVE  /\ stored \subseteq Record' /\ published \in Seq(Record')
<1>1. Record \subseteq Record'
  BY DEF Record, TypeOK
<1> QED
  BY <1>1 DEF TypeOK

(* What a worker has classified does not depend on what arrives later.     *)
LEMMA SameMessage ==
  ASSUME IInv, NEW w \in Workers, pc[w] # Idle,
         job'[w] = job[w], \/ inbox' = inbox
                           \/ \E tx \in Txs : inbox' = Append(inbox, tx)
  PROVE  Txid(w)' = Txid(w) /\ (types'[w] = types[w] => Classified(w)' = Classified(w))
<1>1. job[w] \in 1 .. Len(inbox)
  BY DEF IInv, TypeOK, JobInv
<1>2. inbox'[job[w]] = inbox[job[w]]
  BY <1>1 DEF IInv, TypeOK
<1>3. Tx(w)' = Tx(w)
  BY <1>2 DEF Tx
<1> QED
  BY <1>3 DEF Txid, Classified

LEMMA ClassifiedIsRecord ==
  ASSUME IInv, NEW w \in Workers, pc[w] # Idle
  PROVE  /\ Classified(w) \in Record /\ Classified(w).txid = Txid(w)
         /\ Txid(w) \in {tx.txid : tx \in Txs}
<1>1. job[w] \in 1 .. taken /\ job[w] \in 1 .. Len(inbox)
  BY DEF IInv, TypeOK, JobInv
<1>2. Tx(w) \in Txs
  BY <1>1 DEF IInv, TypeOK, Tx
<1>3. Txid(w) \in {tx.txid : tx \in Txs}
  BY <1>2 DEF Txid
<1>4. types[w] \in Seq(TypeName)
  BY DEF IInv, TypeOK
<1> QED
  BY <1>1, <1>3, <1>4 DEF Classified, Record

LEMMA AppendPublished ==
  ASSUME TypeOK, NEW r \in Record, published' = Append(published, r)
  PROVE  /\ published' \in Seq(Record)
         /\ DOMAIN published' = DOMAIN published \union {Len(published) + 1}
         /\ Len(published) + 1 \notin DOMAIN published
         /\ \A i \in DOMAIN published : published'[i] = published[i]
         /\ published'[Len(published) + 1] = r
         /\ PublishedRecords' = PublishedRecords \union {r}
<1>1. published \in Seq(Record)
  BY DEF TypeOK
<1>2. /\ published' \in Seq(Record)
      /\ DOMAIN published' = DOMAIN published \union {Len(published) + 1}
      /\ Len(published) + 1 \notin DOMAIN published
      /\ \A i \in DOMAIN published : published'[i] = published[i]
      /\ published'[Len(published) + 1] = r
  BY <1>1
<1> QED
  BY <1>2 DEF PublishedRecords

-----------------------------------------------------------------------------
LEMMA InitIInv == Init => IInv
<1> SUFFICES ASSUME Init PROVE IInv
  OBVIOUS
<1>1. TypeOK
  BY ClassifierAssumption DEF Init, TypeOK, Steps, Idle
<1>2. JobInv /\ SessionInv /\ CommitInv
  BY DEF Init, JobInv, SessionInv, CommitInv, Inserting, Idle
<1>3. StoredWasPublished /\ OrphansComeFromAborts /\ AnnouncedOnce
  BY DEF Init, StoredWasPublished, OrphansComeFromAborts, AnnouncedOnce
<1> QED
  BY <1>1, <1>2, <1>3 DEF IInv

(* A step within a callback that neither announces nor ends a session that *)
(* did.                                                                    *)
LEMMA QuietStep ==
  ASSUME IInv, NEW w \in Workers, NEW to \in Steps,
         pc[w] \notin {Idle, "commit"}, to # "commit",
         pc' = [pc EXCEPT ![w] = to],
         types' \in [Workers -> Seq(TypeName)],
         \A v \in Workers : v # w => types'[v] = types[v],
         to \in Inserting =>
           /\ \A v \in Workers \ {w} : pc[v] \in Inserting => Txid(v) # Txid(w)
           /\ \A row \in stored : row.txid # Txid(w),
         UNCHANGED <<inbox, taken, job, stored, published, aborted>>
  PROVE  IInv'
<1>1. TypeOK'
  BY DEF IInv, TypeOK, Record
<1>2. JobInv'
  BY DEF IInv, TypeOK, JobInv
<1>3. \A v \in Workers : Txid(v)' = Txid(v)
  BY DEF Txid, Tx
<1>4. \A v \in Workers : pc'[v] = "commit" =>
        v # w /\ pc[v] = "commit" /\ Classified(v)' = Classified(v)
  BY <1>3 DEF IInv, TypeOK, Classified
<1>5. \A v \in Workers : v # w => pc'[v] = pc[v]
  BY DEF IInv, TypeOK
<1>6. pc'[w] = to
  BY DEF IInv, TypeOK
<1>7. SessionInv'
  BY <1>3, <1>5, <1>6 DEF IInv, SessionInv, Inserting
<1>8. PublishedRecords' = PublishedRecords
  BY DEF PublishedRecords
<1>9. CommitInv'
  BY <1>4, <1>8 DEF IInv, CommitInv
<1>10. StoredWasPublished'
  BY <1>8 DEF IInv, StoredWasPublished
<1>11. OrphansComeFromAborts'
  <2> SUFFICES ASSUME NEW i \in DOMAIN published
               PROVE  \/ published[i] \in stored
                      \/ \E v \in Workers : pc'[v] = "commit" /\ Classified(v)' = published[i]
                      \/ published[i].txid \in aborted
    BY DEF OrphansComeFromAborts
  <2>1. CASE \E v \in Workers : pc[v] = "commit" /\ Classified(v) = published[i]
    <3>1. PICK v \in Workers : pc[v] = "commit" /\ Classified(v) = published[i]
      BY <2>1
    <3>2. v # w /\ pc'[v] = "commit"
      BY <1>5, <3>1
    <3> QED
      BY <1>4, <3>1, <3>2
  <2> QED
    BY <2>1 DEF IInv, OrphansComeFromAborts
<1>12. AnnouncedOnce'
  BY DEF IInv, AnnouncedOnce
<1> QED
  BY <1>1, <1>2, <1>7, <1>9, <1>10, <1>11, <1>12 DEF IInv

LEMMA ArrivePreserves ==
  ASSUME IInv, NEW tx \in Txs, Arrive(tx) PROVE IInv'
<1>1. /\ inbox' = Append(inbox, tx)
      /\ UNCHANGED <<taken, pc, job, types, stored, published, aborted>>
  BY DEF Arrive
<1>2. TypeOK'
  BY <1>1 DEF IInv, TypeOK, Record
<1>3. JobInv'
  BY <1>1 DEF IInv, JobInv
<1>4. \A v \in Workers : pc[v] # Idle =>
        Txid(v)' = Txid(v) /\ Classified(v)' = Classified(v)
  BY <1>1, SameMessage
<1>5. SessionInv'
  BY <1>1, <1>4 DEF IInv, SessionInv, Inserting, Idle
<1>6. PublishedRecords' = PublishedRecords
  BY <1>1 DEF PublishedRecords
<1>7. CommitInv' /\ StoredWasPublished'
  BY <1>1, <1>4, <1>6 DEF IInv, CommitInv, StoredWasPublished, Idle
<1>8. OrphansComeFromAborts'
  BY <1>1, <1>4 DEF IInv, OrphansComeFromAborts, Idle
<1>9. AnnouncedOnce'
  BY <1>1 DEF IInv, AnnouncedOnce
<1> QED
  BY <1>2, <1>3, <1>5, <1>7, <1>8, <1>9 DEF IInv

LEMMA TakePreserves ==
  ASSUME IInv, NEW w \in Workers, Take(w) PROVE IInv'
<1>1. PICK m \in taken + 1 .. Len(inbox) :
        /\ taken' = m /\ job' = [job EXCEPT ![w] = m]
  BY DEF Take
<1>2. /\ pc[w] = Idle /\ pc' = [pc EXCEPT ![w] = "classify"]
      /\ UNCHANGED <<inbox, types, stored, published, aborted>>
  BY DEF Take, Move
<1>3. taken' \in Nat /\ taken <= taken' /\ taken' <= Len(inbox')
  BY <1>1, <1>2 DEF IInv, TypeOK
<1>4. stored \subseteq Record' /\ published \in Seq(Record')
  BY <1>3, RecordGrows DEF IInv
<1>5. pc' \in [Workers -> Steps]
  BY <1>2 DEF IInv, TypeOK, Steps
<1>6. job' \in [Workers -> 0 .. taken']
  BY <1>1, <1>3 DEF IInv, TypeOK
<1>7. TypeOK'
  BY <1>2, <1>3, <1>4, <1>5, <1>6 DEF IInv, TypeOK
<1>8. \A v \in Workers : v # w => pc'[v] = pc[v] /\ job'[v] = job[v]
  BY <1>1, <1>2 DEF IInv, TypeOK
<1>9. pc'[w] = "classify" /\ job'[w] = m
  BY <1>1, <1>2 DEF IInv, TypeOK
<1>10. JobInv'
  BY <1>1, <1>3, <1>8, <1>9 DEF IInv, TypeOK, JobInv
<1>11. \A v \in Workers : v # w /\ pc[v] # Idle =>
         Txid(v)' = Txid(v) /\ Classified(v)' = Classified(v)
  BY <1>2, <1>8, SameMessage
<1>12. \A v \in Workers : pc'[v] \in Inserting => v # w /\ pc[v] \in Inserting /\ pc[v] # Idle
  BY <1>8, <1>9 DEF Inserting, Idle
<1>13. SessionInv'
  BY <1>2, <1>11, <1>12 DEF IInv, SessionInv
<1>14. PublishedRecords' = PublishedRecords
  BY <1>2 DEF PublishedRecords
<1>15. CommitInv' /\ StoredWasPublished'
  BY <1>2, <1>8, <1>11, <1>12, <1>14 DEF IInv, CommitInv, StoredWasPublished, Inserting
<1>16. OrphansComeFromAborts'
  BY <1>2, <1>8, <1>11 DEF IInv, OrphansComeFromAborts, Idle
<1>17. AnnouncedOnce'
  BY <1>2 DEF IInv, AnnouncedOnce
<1> QED
  BY <1>7, <1>10, <1>13, <1>15, <1>16, <1>17 DEF IInv

-----------------------------------------------------------------------------
(* A message goes out: its session goes on to commit, or is rolled back and*)
(* the txid noted.                                                         *)
LEMMA AnnouncePreserves ==
  ASSUME IInv, NEW w \in Workers, Publish(w) \/ PublishReplyLost(w)
  PROVE  IInv'
<1>1. /\ pc[w] = "publish"
      /\ published' = Append(published, Classified(w))
      /\ \/ pc' = [pc EXCEPT ![w] = "commit"] /\ aborted' = aborted
         \/ pc' = [pc EXCEPT ![w] = Idle] /\ aborted' = aborted \union {Txid(w)}
      /\ UNCHANGED <<inbox, taken, job, types, stored>>
  BY DEF Publish, PublishReplyLost, Move
<1>2. /\ Classified(w) \in Record /\ Classified(w).txid = Txid(w)
      /\ Txid(w) \in {tx.txid : tx \in Txs}
  BY <1>1, ClassifiedIsRecord DEF Idle
<1> DEFINE n == Len(published) + 1
<1>3. /\ published' \in Seq(Record)
      /\ DOMAIN published' = DOMAIN published \union {n}
      /\ n \notin DOMAIN published
      /\ \A i \in DOMAIN published : published'[i] = published[i]
      /\ published'[n] = Classified(w)
      /\ PublishedRecords' = PublishedRecords \union {Classified(w)}
  BY <1>1, <1>2, AppendPublished DEF IInv
<1> HIDE DEF n
<1>4. Record' = Record
  BY <1>1 DEF Record
<1>5. pc' \in [Workers -> Steps] /\ aborted' \subseteq {tx.txid : tx \in Txs}
  BY <1>1, <1>2 DEF IInv, TypeOK, Steps, Idle
<1>6. TypeOK'
  BY <1>1, <1>3, <1>4, <1>5 DEF IInv, TypeOK
<1>7. /\ \A v \in Workers : v # w => pc'[v] = pc[v]
      /\ pc'[w] \in {"commit", Idle} /\ (pc'[w] = Idle => Txid(w) \in aborted')
  BY <1>1 DEF IInv, TypeOK, Idle
<1>8. JobInv'
  BY <1>1, <1>7 DEF IInv, JobInv, Idle
<1>9. \A v \in Workers : Txid(v)' = Txid(v) /\ Classified(v)' = Classified(v)
  BY <1>1 DEF Txid, Tx, Classified
<1>10. \A v \in Workers : pc'[v] \in Inserting => pc[v] \in Inserting
  BY <1>1, <1>7 DEF Inserting, Idle
<1>11. SessionInv'
  BY <1>1, <1>9, <1>10 DEF IInv, SessionInv
<1>12. CommitInv'
  BY <1>3, <1>7, <1>9 DEF IInv, CommitInv, Idle
<1>13. StoredWasPublished'
  BY <1>1, <1>3 DEF IInv, StoredWasPublished
<1>14. OrphansComeFromAborts'
  <2> SUFFICES ASSUME NEW i \in DOMAIN published'
               PROVE  \/ published'[i] \in stored
                      \/ \E v \in Workers : pc'[v] = "commit" /\ Classified(v)' = published'[i]
                      \/ published'[i].txid \in aborted'
    BY <1>1 DEF OrphansComeFromAborts
  <2>1. CASE i = n
    BY <1>2, <1>3, <1>7, <1>9, <2>1
  <2>2. CASE i # n
    <3>1. i \in DOMAIN published /\ published'[i] = published[i]
      BY <1>3, <2>2
    <3>2. \/ published[i] \in stored
          \/ \E v \in Workers : pc[v] = "commit" /\ Classified(v) = published[i]
          \/ published[i].txid \in aborted
      BY <3>1 DEF IInv, OrphansComeFromAborts
    <3> QED
      BY <1>1, <1>7, <1>9, <3>1, <3>2
  <2> QED
    BY <2>1, <2>2
<1>15. AnnouncedOnce'
  <2>1. ASSUME NEW i \in DOMAIN published, published[i].txid = Txid(w)
        PROVE  published[i].txid \in aborted
    <3>1. published[i] \notin stored
      BY <1>1, <2>1 DEF IInv, SessionInv, Inserting
    <3>2. ASSUME NEW v \in Workers, pc[v] = "commit", Classified(v) = published[i]
          PROVE  FALSE
      <4>1. v # w /\ Txid(v) = Txid(w)
        BY <1>1, <2>1, <3>2, ClassifiedIsRecord DEF Idle
      <4> QED
        BY <1>1, <3>2, <4>1 DEF IInv, SessionInv, Inserting
    <3> QED
      BY <3>1, <3>2 DEF IInv, OrphansComeFromAborts
  <2>2. aborted \subseteq aborted'
    BY <1>1
  <2>3. ASSUME NEW i \in DOMAIN published', NEW j \in DOMAIN published',
               i # j, published'[i].txid = published'[j].txid
        PROVE  published'[i].txid \in aborted'
    <3>1. CASE i = n
      BY <1>2, <1>3, <2>1, <2>2, <2>3, <3>1
    <3>2. CASE j = n
      BY <1>2, <1>3, <2>1, <2>2, <2>3, <3>2
    <3>3. CASE i # n /\ j # n
      <4>1. i \in DOMAIN published /\ j \in DOMAIN published
            /\ published'[i] = published[i] /\ published'[j] = published[j]
        BY <1>3, <3>3
      <4> QED
        BY <2>2, <2>3, <4>1 DEF IInv, AnnouncedOnce
    <3> QED
      BY <3>1, <3>2, <3>3
  <2> QED
    BY <2>3 DEF AnnouncedOnce
<1> QED
  BY <1>6, <1>8, <1>11, <1>12, <1>13, <1>14, <1>15 DEF IInv

(* A session that announced its transaction ends.                          *)
LEMMA EndPreserves ==
  ASSUME IInv, NEW w \in Workers, Commit(w) \/ CommitFails(w)
  PROVE  IInv'
<1>1. /\ pc[w] = "commit" /\ pc' = [pc EXCEPT ![w] = Idle]
      /\ \/ stored' = stored \union {Classified(w)} /\ aborted' = aborted
         \/ stored' = stored /\ aborted' = aborted \union {Txid(w)}
      /\ UNCHANGED <<inbox, taken, job, types, published>>
  BY DEF Commit, CommitFails, Move
<1>2. /\ Classified(w) \in Record /\ Classified(w).txid = Txid(w)
      /\ Txid(w) \in {tx.txid : tx \in Txs}
  BY <1>1, ClassifiedIsRecord DEF Idle
<1>3. Record' = Record /\ PublishedRecords' = PublishedRecords
  BY <1>1 DEF Record, PublishedRecords
<1>4. /\ pc' \in [Workers -> Steps] /\ stored' \subseteq Record
      /\ aborted' \subseteq {tx.txid : tx \in Txs}
  BY <1>1, <1>2 DEF IInv, TypeOK, Steps, Idle
<1>5. TypeOK'
  BY <1>1, <1>3, <1>4 DEF IInv, TypeOK
<1>6. pc'[w] = Idle /\ \A v \in Workers : v # w => pc'[v] = pc[v]
  BY <1>1 DEF IInv, TypeOK
<1>7. JobInv'
  BY <1>1, <1>6 DEF IInv, JobInv
<1>8. \A v \in Workers : Txid(v)' = Txid(v) /\ Classified(v)' = Classified(v)
  BY <1>1 DEF Txid, Tx, Classified
<1>9. \A v \in Workers : pc'[v] \in Inserting => v # w /\ pc[v] \in Inserting
  BY <1>6 DEF Inserting, Idle
<1>10. SessionInv'
  <2>1. ASSUME NEW v \in Workers, pc'[v] \in Inserting, NEW row \in stored'
        PROVE  row.txid # Txid(v)
    <3>1. CASE row \in stored
      BY <1>9, <2>1, <3>1 DEF IInv, SessionInv
    <3>2. CASE row = Classified(w)
      BY <1>1, <1>2, <1>9, <2>1, <3>2 DEF IInv, SessionInv, Inserting
    <3> QED
      BY <1>1, <2>1, <3>1, <3>2
  <2> QED
    BY <1>8, <1>9, <2>1 DEF IInv, SessionInv
<1>11. CommitInv'
  BY <1>3, <1>6, <1>8 DEF IInv, CommitInv, Idle
<1>12. StoredWasPublished'
  BY <1>1, <1>3 DEF IInv, StoredWasPublished, CommitInv
<1>13. OrphansComeFromAborts'
  <2> SUFFICES ASSUME NEW i \in DOMAIN published
               PROVE  \/ published[i] \in stored'
                      \/ \E v \in Workers : pc'[v] = "commit" /\ Classified(v)' = published[i]
                      \/ published[i].txid \in aborted'
    BY <1>1 DEF OrphansComeFromAborts
  <2>1. CASE published[i] = Classified(w)
    BY <1>1, <1>2, <2>1
  <2>2. CASE published[i] # Classified(w)
    BY <1>1, <1>6, <1>8, <2>2 DEF IInv, OrphansComeFromAborts
  <2> QED
    BY <2>1, <2>2
<1>14. AnnouncedOnce'
  BY <1>1 DEF IInv, AnnouncedOnce
<1> QED
  BY <1>5, <1>7, <1>10, <1>11, <1>12, <1>13, <1>14 DEF IInv

-----------------------------------------------------------------------------
LEMMA NextIInv == IInv /\ [Next]_vars => IInv'
<1> SUFFICES ASSUME IInv, [Next]_vars PROVE IInv'
  OBVIOUS
<1>1. ASSUME NEW tx \in Txs, Arrive(tx) PROVE IInv'
  BY <1>1, ArrivePreserves
<1>2. ASSUME NEW w \in Workers, Take(w) PROVE IInv'
  BY <1>2, TakePreserves
<1>3. ASSUME NEW w \in Workers, Classify(w) PROVE IInv'
  <2>1. /\ pc[w] = "classify" /\ pc' = [pc EXCEPT ![w] = "exists"]
        /\ types' = [types EXCEPT ![w] = DetermineTypes(Tx(w))]
        /\ DetermineTypes(Tx(w)) \in Seq(TypeName)
        /\ UNCHANGED <<inbox, taken, job, stored, published, aborted>>
    BY <1>3, DetermineTypesSeq DEF Classify, Move
  <2>2. /\ types' \in [Workers -> Seq(TypeName)]
        /\ \A v \in Workers : v # w => types'[v] = types[v]
    BY <2>1 DEF IInv, TypeOK
  <2>3. "exists" \in Steps /\ "exists" \notin Inserting /\ pc[w] \notin {Idle, "commit"}
    BY <2>1 DEF Steps, Inserting, Idle
  <2> QED
    BY <2>1, <2>2, <2>3, QuietStep
<1>4. ASSUME NEW w \in Workers,
             ClassifyFails(w) \/ Exists(w) \/ FailsBeforePublish(w) \/ Crash(w)
      PROVE  IInv'
  <2>1. /\ pc[w] \notin {Idle, "commit"}
        /\ \E to \in {Idle, "create"} : pc' = [pc EXCEPT ![w] = to]
        /\ types' = types
        /\ UNCHANGED <<inbox, taken, job, stored, published, aborted>>
    BY <1>4 DEF ClassifyFails, Exists, FailsBeforePublish, Crash, Move, Idle
  <2>2. PICK to \in {Idle, "create"} : pc' = [pc EXCEPT ![w] = to]
    BY <2>1
  <2>3. to \in Steps /\ to # "commit" /\ to \notin Inserting
    BY DEF Steps, Inserting, Idle
  <2>4. types' \in [Workers -> Seq(TypeName)]
    BY <2>1 DEF IInv, TypeOK
  <2> QED
    BY <2>1, <2>2, <2>3, <2>4, QuietStep
<1>5. ASSUME NEW w \in Workers, Create(w) PROVE IInv'
  <2>1. /\ pc[w] = "create" /\ pc' = [pc EXCEPT ![w] = "publish"]
        /\ \A v \in Workers \ {w} : pc[v] \in Inserting => Txid(v) # Txid(w)
        /\ \A row \in stored : row.txid # Txid(w)
        /\ types' = types
        /\ UNCHANGED <<inbox, taken, job, stored, published, aborted>>
    BY <1>5 DEF Create, Move
  <2>2. types' \in [Workers -> Seq(TypeName)]
    BY <2>1 DEF IInv, TypeOK
  <2>3. "publish" \in Steps /\ pc[w] \notin {Idle, "commit"}
    BY <2>1 DEF Steps, Idle
  <2> QED
    BY <2>1, <2>2, <2>3, QuietStep
<1>6. ASSUME NEW w \in Workers, Publish(w) \/ PublishReplyLost(w) PROVE IInv'
  BY <1>6, AnnouncePreserves
<1>7. ASSUME NEW w \in Workers, Commit(w) \/ CommitFails(w) PROVE IInv'
  BY <1>7, EndPreserves
<1>8. CASE UNCHANGED vars
  <2>1. \A w \in Workers : Txid(w)' = Txid(w) /\ Classified(w)' = Classified(w)
    BY <1>8 DEF vars, Txid, Tx, Classified
  <2>2. TypeOK' /\ JobInv' /\ AnnouncedOnce'
    BY <1>8 DEF vars, IInv, TypeOK, Record, JobInv, AnnouncedOnce
  <2>3. SessionInv'
    BY <1>8, <2>1 DEF vars, IInv, SessionInv
  <2>4. CommitInv' /\ StoredWasPublished' /\ OrphansComeFromAborts'
    BY <1>8, <2>1 DEF vars, IInv, CommitInv, StoredWasPublished, PublishedRecords,
                      OrphansComeFromAborts
  <2> QED
    BY <2>2, <2>3, <2>4 DEF IInv
<1> QED
  BY <1>1, <1>2, <1>3, <1>4, <1>5, <1>6, <1>7, <1>8 DEF Next

(* The inductive invariant: what the session of each worker holds, and how *)
(* table and stream relate to it.                                          *)
THEOREM Invariant == Spec => []IInv
  BY InitIInv, NextIInv, PTL DEF Spec

-----------------------------------------------------------------------------
(* The variables of the classifier keep their types, for any number of     *)
(* workers; in particular no exception is ever taken for a list of types.  *)
THEOREM TypeCorrect == Spec => []TypeOK
<1>1. IInv => TypeOK
  BY DEF IInv
<1> QED
  BY <1>1, Invariant, PTL

(* A row is in the table only if its message is on classified_tx.          *)
THEOREM StoredPublished == Spec => []StoredWasPublished
<1>1. IInv => StoredWasPublished
  BY DEF IInv
<1> QED
  BY <1>1, Invariant, PTL

(* A message without a row is of a session that has still to commit or     *)
(* failed to.                                                              *)
THEOREM OrphansExplained == Spec => []OrphansComeFromAborts
<1>1. IInv => OrphansComeFromAborts
  BY DEF IInv
<1> QED
  BY <1>1, Invariant, PTL

(* A transaction is announced twice only if a session of it failed after   *)
(* its publish, however many workers there are.                            *)
THEOREM OnceAnnounced == Spec => []AnnouncedOnce
<1>1. IInv => AnnouncedOnce
  BY DEF IInv
<1> QED
  BY <1>1, Invariant, PTL

(* A transaction that is in the table is not announced again.              *)
THEOREM NotRepublished == Spec => NoRepublishOfStored
<1> DEFINE A == \A i \in DOMAIN published' \ DOMAIN published :
                  \A row \in stored : row.txid # published'[i].txid
<1>1. IInv /\ [Next]_vars => A
  <2> SUFFICES ASSUME IInv, [Next]_vars PROVE A
    OBVIOUS
  <2>1. ASSUME NEW w \in Workers, Publish(w) \/ PublishReplyLost(w) PROVE A
    <3>1. pc[w] = "publish" /\ published' = Append(published, Classified(w))
      BY <2>1 DEF Publish, PublishReplyLost, Move
    <3>2. Classified(w) \in Record /\ Classified(w).txid = Txid(w)
      BY <3>1, ClassifiedIsRecord DEF Idle
    <3>3. \A i \in DOMAIN published' \ DOMAIN published : published'[i] = Classified(w)
      BY <3>1, <3>2, AppendPublished DEF IInv
    <3>4. \A row \in stored : row.txid # Txid(w)
      BY <3>1 DEF IInv, SessionInv, Inserting
    <3> QED
      BY <3>2, <3>3, <3>4
  <2>2. CASE published' = published
    BY <2>2
  <2> QED
    BY <2>1, <2>2 DEF Next, vars, Arrive, Take, Classify, ClassifyFails, Exists,
                      Create, Commit, FailsBeforePublish, CommitFails, Crash
<1>2. IInv /\ [Next]_vars => [A]_vars
  BY <1>1
<1> QED
  BY <1>2, Invariant, PTL DEF Spec, NoRepublishOfStored

-----------------------------------------------------------------------------
(***************************************************************************)
(* The price oracle: a call returns a fresh price, or one stored since it  *)
(* was made, or has heard from every source; and calls that are not forced *)
(* fetch prices Ttl apart.  For every number of sources, every Ttl, and any*)
(* number of calls.                                                        *)
(***************************************************************************)

(* A call is not ahead of the clock, and one that is not forced found no   *)
(* fresh price when it was made: what is cached is older by Ttl, or came   *)
(* later.                                                                  *)
CallInv ==
  \A i \in 1 .. Len(queue) :
    /\ queue[i].askedAt <= now
    /\ \/ queue[i].force
       \/ cached = NoPrice \/ cached >= queue[i].askedAt
       \/ queue[i].askedAt - cached >= Ttl

(* While sources are asked for a call that is not forced, the cache is not *)
(* fresh for that call.                                                    *)
FetchInv ==
  toAsk # << >> =>
    /\ queue # << >>
    /\ Head(queue).force \/ ~ Fresh(Head(queue).askedAt)

PriceIInv == PriceTypeOK /\ CallInv /\ FetchInv

-----------------------------------------------------------------------------
LEMMA TailOfSeq ==
  ASSUME NEW S, NEW s \in Seq(S), s # << >>
  PROVE  /\ Tail(s) \in Seq(S) /\ Len(Tail(s)) = Len(s) - 1
         /\ Head(s) \in S /\ Head(s) = s[1] /\ Len(s) \in Nat \ {0}
         /\ \A i \in 1 .. Len(Tail(s)) : Tail(s)[i] = s[i + 1] /\ i + 1 \in 1 .. Len(s)
         /\ Tail(s) # s
  OBVIOUS

LEMMA AppendToSeq ==
  ASSUME NEW S, NEW s \in Seq(S), NEW e \in S
  PROVE  /\ Append(s, e) \in Seq(S) /\ Len(Append(s, e)) = Len(s) + 1
         /\ \A i \in 1 .. Len(s) : Append(s, e)[i] = s[i]
         /\ Append(s, e)[Len(s) + 1] = e
         /\ Append(s, e) # << >>
         /\ Head(Append(s, e)) = IF s = << >> THEN e ELSE Head(s)
         /\ s # << >> => Append(s, e) # Tail(s)
  OBVIOUS

(* Without its first call, the queue keeps what holds of each of its       *)
(* calls.                                                                  *)
LEMMA ShorterQueue ==
  ASSUME PriceTypeOK, CallInv, queue # << >>,
         queue' = Tail(queue), UNCHANGED <<now, cached, calls>>
  PROVE  PriceTypeOK' /\ CallInv'
<1>1. queue' \in Seq(ValidCall)
  BY TailOfSeq DEF PriceTypeOK
<1>2. \A i \in 1 .. Len(queue') : queue'[i] = queue[i + 1] /\ i + 1 \in 1 .. Len(queue)
  BY TailOfSeq DEF PriceTypeOK
<1>3. CallInv'
  BY <1>2, Zenon DEF CallInv
<1> QED
  BY <1>1, <1>3 DEF PriceTypeOK

(* A source without a price leaves the cache alone; after the last of them *)
(* the call leaves the queue.                                              *)
LEMMA AskNextPreserves ==
  ASSUME PriceIInv, toAsk # << >>, AskNext, UNCHANGED <<now, cached, calls>>
  PROVE  PriceIInv'
<1>1. CASE Tail(toAsk) = << >>
  <2>1. queue' = Tail(queue) /\ queue # << >>
    BY <1>1 DEF AskNext, PriceIInv, FetchInv
  <2>2. PriceTypeOK' /\ CallInv'
    BY <2>1, ShorterQueue DEF PriceIInv
  <2>3. FetchInv'
    BY <1>1 DEF AskNext, FetchInv
  <2> QED
    BY <2>2, <2>3 DEF PriceIInv
<1>2. CASE Tail(toAsk) # << >>
  <2>1. queue' = queue
    BY <1>2 DEF AskNext
  <2> QED
    BY <2>1 DEF PriceIInv, PriceTypeOK, CallInv, FetchInv, Fresh
<1> QED
  BY <1>1, <1>2

LEMMA PriceInitIInv == PriceInit => PriceIInv
  BY DEF PriceInit, PriceIInv, PriceTypeOK, CallInv, FetchInv, NoPrice

LEMMA CallPreserves ==
  ASSUME PriceIInv, NEW force \in BOOLEAN, Call(force)
  PROVE  PriceIInv'
<1> DEFINE c == [id |-> calls', askedAt |-> now, force |-> force]
<1>1. c \in ValidCall /\ c.askedAt = now /\ c.force = force
  <2>1. calls' \in Nat /\ now \in Nat
    BY DEF PriceIInv, PriceTypeOK, Call
  <2> QED
    BY <2>1, Zenon DEF ValidCall
<1>2. queue' = Append(queue, c) /\ now' = now /\ cached' = cached
  BY DEF Call, priceVars
<1>3. /\ queue' \in Seq(ValidCall) /\ Len(queue') = Len(queue) + 1
      /\ \A i \in 1 .. Len(queue) : queue'[i] = queue[i]
      /\ queue'[Len(queue) + 1] = c /\ queue' # << >>
      /\ Head(queue') = IF queue = << >> THEN c ELSE Head(queue)
  <2> HIDE DEF c
  <2> QED
    BY <1>1, <1>2, AppendToSeq DEF PriceIInv, PriceTypeOK
<1>4. PriceTypeOK'
  BY <1>2, <1>3 DEF PriceIInv, PriceTypeOK, Call
<1>5. c.force \/ ~ Fresh(c.askedAt)
  BY <1>1, Zenon DEF Call
<1> HIDE DEF c
<1>6. \/ c.force \/ cached = NoPrice \/ cached >= c.askedAt
      \/ c.askedAt - cached >= Ttl
  BY <1>1, <1>5, PriceOracleAssumption DEF Fresh, PriceIInv, PriceTypeOK
<1>7. CallInv'
  <2> SUFFICES ASSUME NEW i \in 1 .. Len(queue')
               PROVE  /\ queue'[i].askedAt <= now
                      /\ \/ queue'[i].force
                         \/ cached = NoPrice \/ cached >= queue'[i].askedAt
                         \/ queue'[i].askedAt - cached >= Ttl
    BY <1>2 DEF CallInv
  <2>1. CASE i \in 1 .. Len(queue)
    BY <2>1, <1>3, Zenon DEF PriceIInv, CallInv
  <2>2. CASE i = Len(queue) + 1
    <3>1. queue'[i] = c
      BY <2>2, <1>3
    <3>2. c.askedAt <= now
      BY <1>1 DEF PriceIInv, PriceTypeOK
    <3> QED
      BY <3>1, <3>2, <1>6, Zenon
  <2> QED
    BY <2>1, <2>2, <1>3, AppendToSeq DEF PriceIInv, PriceTypeOK
<1>8. FetchInv'
  <2>1. CASE queue = << >>
    BY <2>1, <1>2, <1>3, <1>5, Zenon DEF FetchInv, Fresh
  <2>2. CASE queue # << >>
    <3>1. toAsk' = toAsk
      BY <2>2 DEF Call
    <3> QED
      BY <2>2, <3>1, <1>2, <1>3, Zenon DEF FetchInv, Fresh, PriceIInv
  <2> QED
    BY <2>1, <2>2
<1> QED
  BY <1>4, <1>7, <1>8 DEF PriceIInv

LEMMA FetchedPreserves ==
  ASSUME PriceIInv, Fetched
  PROVE  PriceIInv'
<1>1. /\ queue # << >> /\ queue' = Tail(queue) /\ toAsk' = << >>
      /\ cached' = now /\ now' = now /\ calls' = calls
  BY DEF Fetched, PriceIInv, FetchInv
<1>2. /\ queue' \in Seq(ValidCall)
      /\ \A i \in 1 .. Len(queue') : queue'[i] = queue[i + 1] /\ i + 1 \in 1 .. Len(queue)
  BY <1>1, TailOfSeq DEF PriceIInv, PriceTypeOK
<1>3. \A i \in 1 .. Len(queue') : queue'[i].askedAt <= now
  BY <1>2, Zenon DEF PriceIInv, CallInv
<1>4. \A i \in 1 .. Len(queue') : cached' >= queue'[i].askedAt
  <2> TAKE i \in 1 .. Len(queue')
  <2>1. queue'[i] \in ValidCall
    BY <1>2
  <2>2. queue'[i].askedAt \in Nat
    BY <2>1, Zenon DEF ValidCall
  <2> QED
    BY <2>2, <1>1, <1>3 DEF PriceIInv, PriceTypeOK
<1>5. CallInv'
  BY <1>1, <1>3, <1>4, Zenon DEF CallInv
<1> QED
  BY <1>1, <1>2, <1>5 DEF PriceIInv, PriceTypeOK, FetchInv

LEMMA TickPreserves ==
  ASSUME PriceIInv, Tick
  PROVE  PriceIInv'
<1>1. now' = now + 1 /\ cached' = cached /\ queue' = queue /\ toAsk' = toAsk /\ calls' = calls
  BY DEF Tick
<1>2. PriceTypeOK'
  BY <1>1 DEF PriceIInv, PriceTypeOK, NoPrice
<1>3. \A i \in 1 .. Len(queue) : queue[i].askedAt <= now + 1
  <2> TAKE i \in 1 .. Len(queue)
  <2>1. queue[i] \in ValidCall /\ now \in Nat
    BY DEF PriceIInv, PriceTypeOK
  <2>2. queue[i].askedAt \in Nat
    BY <2>1, Zenon DEF ValidCall
  <2>3. queue[i].askedAt <= now
    BY Zenon DEF PriceIInv, CallInv
  <2> QED
    BY <2>1, <2>2, <2>3
<1>4. CallInv'
  BY <1>1, <1>3, Zenon DEF PriceIInv, CallInv
<1>5. FetchInv'
  BY <1>1, Zenon DEF PriceIInv, FetchInv, Fresh
<1> QED
  BY <1>2, <1>4, <1>5 DEF PriceIInv

(* The steps that touch neither the clock nor the cache nor the queue.     *)
LEMMA PriceQuietPreserves ==
  ASSUME PriceIInv, UNCHANGED <<now, cached, queue>>, calls' \in Nat,
         \/ toAsk' = toAsk
         \/ queue # << >> /\ ~ MayUseCache
  PROVE  PriceIInv'
<1>1. PriceTypeOK' /\ CallInv'
  BY DEF PriceIInv, PriceTypeOK, CallInv
<1>2. FetchInv'
  BY Zenon DEF PriceIInv, FetchInv, Fresh, MayUseCache
<1> QED
  BY <1>1, <1>2 DEF PriceIInv

LEMMA PriceNextIInv == PriceIInv /\ [PriceNext]_oracleVars => PriceIInv'
<1> SUFFICES ASSUME PriceIInv, [PriceNext]_oracleVars
             PROVE  PriceIInv'
  OBVIOUS
<1> USE DEF priceVars
<1>1. CASE Tick
  BY <1>1, TickPreserves
<1>2. ASSUME NEW force \in BOOLEAN, Call(force) PROVE PriceIInv'
  BY <1>2, CallPreserves
<1>3. CASE ReturnCached
  <2>1. PriceTypeOK' /\ CallInv'
    BY <1>3, ShorterQueue DEF ReturnCached, Woken, PriceIInv
  <2> QED
    BY <1>3, <2>1 DEF ReturnCached, Woken, PriceIInv, FetchInv
<1>4. CASE StartFetching
  BY <1>4, PriceQuietPreserves DEF StartFetching, Woken, PriceIInv, PriceTypeOK
<1>5. CASE Fetched
  BY <1>5, FetchedPreserves
<1>6. CASE FetchFails
  BY <1>6, AskNextPreserves DEF FetchFails
<1>7. CASE NoPriceInAnswer
  BY <1>7, AskNextPreserves DEF NoPriceInAnswer
<1>8. CASE Compare
  BY <1>8, PriceQuietPreserves DEF Compare, PriceIInv, PriceTypeOK
<1>9. ASSUME NEW s \in Sources, Compared(s) PROVE PriceIInv'
  BY <1>9, PriceQuietPreserves DEF Compared, PriceIInv, PriceTypeOK
<1>10. CASE UNCHANGED oracleVars
  BY <1>10, PriceQuietPreserves DEF oracleVars, PriceIInv, PriceTypeOK
<1> QED
  BY <1>1, <1>2, <1>3, <1>4, <1>5, <1>6, <1>7, <1>8, <1>9, <1>10 DEF PriceNext, Holder

-----------------------------------------------------------------------------
(* PriceIInv holds in every state.                                              *)
THEOREM PriceInvariant == PriceSpec => []PriceIInv
  BY PriceInitIInv, PriceNextIInv, PTL DEF PriceSpec

(* What the lock and the cache hold is well-formed, and no price is newer  *)
(* than the clock.                                                         *)
THEOREM PriceTypeCorrect == PriceSpec => []PriceTypeOK
<1>1. PriceIInv => PriceTypeOK
  BY DEF PriceIInv
<1> QED
  BY PriceInvariant, <1>1, PTL

(* A price is fetched Ttl after the last at the earliest, unless it is     *)
(* forced: the callers that were waiting take the one that was stored.     *)
THEOREM Apart == PriceSpec => FetchesApart
<1>1. PriceIInv /\ [PriceNext]_oracleVars =>
        (Fetched /\ ~ Head(queue).force /\ cached # NoPrice => now - cached >= Ttl)
  <2> SUFFICES ASSUME PriceIInv, Fetched, ~ Head(queue).force, cached # NoPrice
               PROVE  now - cached >= Ttl
    OBVIOUS
  <2>1. queue # << >> /\ ~ Fresh(Head(queue).askedAt)
    BY Zenon DEF Fetched, PriceIInv, FetchInv
  <2>2. Head(queue) \in ValidCall /\ Head(queue) = queue[1] /\ 1 \in 1 .. Len(queue)
    BY <2>1, TailOfSeq DEF PriceIInv, PriceTypeOK
  <2>3. Head(queue).askedAt \in Nat
    BY <2>2, Zenon DEF ValidCall
  <2>4. Head(queue).askedAt <= now
    BY <2>2, Zenon DEF PriceIInv, CallInv
  <2> QED
    BY <2>1, <2>3, <2>4, PriceOracleAssumption DEF Fresh, PriceIInv, PriceTypeOK
<1> QED
  BY <1>1, PriceInvariant, PTL DEF FetchesApart, PriceSpec

(* A call returns a price that is fresh or was stored since it was made,   *)
(* or has heard from the last source in vain.                              *)
THEOREM Fresher == PriceSpec => ReturnsFresh
<1> DEFINE A == Returns =>
                  \/ cached' # NoPrice /\ now - cached' < Ttl
                  \/ cached' # NoPrice /\ cached' >= Head(queue).askedAt
                  \/ toAsk # << >> /\ Tail(toAsk) = << >>
<1>1. PriceIInv /\ [PriceNext]_oracleVars => A
  <2> SUFFICES ASSUME PriceIInv, [PriceNext]_oracleVars, Returns
               PROVE  \/ cached' # NoPrice /\ now - cached' < Ttl
                      \/ cached' # NoPrice /\ cached' >= Head(queue).askedAt
                      \/ toAsk # << >> /\ Tail(toAsk) = << >>
    OBVIOUS
  <2>0. /\ queue # << >> /\ queue' = Tail(queue) /\ Tail(queue) # queue
        /\ Head(queue) = queue[1] /\ 1 \in 1 .. Len(queue)
        /\ Head(queue) \in ValidCall
    BY TailOfSeq DEF Returns, PriceIInv, PriceTypeOK
  <2>1. CASE ReturnCached
    <3>1. ~ Head(queue).force /\ Fresh(Head(queue).askedAt) /\ cached' = cached
      BY <2>1, Zenon DEF ReturnCached, MayUseCache, priceVars
    <3>2. \/ cached = NoPrice \/ cached >= Head(queue).askedAt
          \/ Head(queue).askedAt - cached >= Ttl
      BY <3>1, <2>0, Zenon DEF PriceIInv, CallInv
    <3>3. Head(queue).askedAt \in Nat
      BY <2>0, Zenon DEF ValidCall
    <3> QED
      BY <3>1, <3>2, <3>3, PriceOracleAssumption DEF Fresh, PriceIInv, PriceTypeOK
  <2>2. CASE Fetched
    BY <2>2, PriceOracleAssumption DEF Fetched, PriceIInv, PriceTypeOK, NoPrice
  <2>3. CASE FetchFails \/ NoPriceInAnswer
    BY <2>3, <2>0 DEF FetchFails, NoPriceInAnswer, AskNext
  <2>4. ASSUME NEW force \in BOOLEAN, Call(force) PROVE FALSE
    <3> DEFINE c == [id |-> calls', askedAt |-> now, force |-> force]
    <3>1. calls' \in Nat /\ now \in Nat
      BY <2>4 DEF Call, PriceIInv, PriceTypeOK
    <3>2. queue' = Append(queue, c)
      BY <2>4, Zenon DEF Call
    <3>3. c \in ValidCall
      BY <3>1, Zenon DEF ValidCall
    <3> HIDE DEF c
    <3>4. queue \in Seq(ValidCall) /\ queue # << >>
      BY <2>0 DEF PriceIInv, PriceTypeOK
    <3>5. Append(queue, c) # Tail(queue)
      BY <3>3, <3>4, AppendToSeq
    <3> QED
      BY <3>2, <3>5, <2>0
  <2>5. ASSUME queue' = queue PROVE FALSE
    BY <2>5, <2>0
  <2> QED
    BY <2>1, <2>2, <2>3, <2>4, <2>5
       DEF PriceNext, Holder, Tick, StartFetching, Compare, Compared, oracleVars
<1> QED
  BY <1>1, PriceInvariant, PTL DEF ReturnsFresh, PriceSpec

=============================================================================
