-------------------------- MODULE EventStoreProofs --------------------------
(***************************************************************************)
(* Proofs about the event stores.  The first part is about KafkaPipeline,  *)
(* for any consumers, partitions, tenants, events and changes of owner;    *)
(* the second about EventStores and StoreReads, for any rows, filters,     *)
(* options and walks.                                                      *)
(***************************************************************************)
EXTENDS KafkaPipeline, StoreReads, HashChainProofs, FiniteSetTheorems, TLAPS


-----------------------------------------------------------------------------
(***************************************************************************)
(* The inductive invariant.                                                *)
(***************************************************************************)
\* An event lies at one place of one partition, and nothing else lies there.
Placed ==
  /\ \A n \in DOMAIN published : published[n].content = n
  /\ \A p \in Partition : \A o \in DOMAIN topic[p] : topic[p][o] \in Range(published)
  /\ \A p, q \in Partition : \A j \in DOMAIN topic[p], k \in DOMAIN topic[q] :
       topic[p][j] = topic[q][k] => p = q /\ j = k

\* No offset is beyond what its partition holds.
OffsetsInTopic ==
  \A p \in Partition :
    /\ Len(topic[p]) <= Len(published)
    /\ position[p] <= Len(topic[p]) + 1
    /\ committed[p] <= Len(topic[p]) + 1
    /\ \A c \in Consumer, o \in Offset : <<p, o>> \in handling[c] => o <= Len(topic[p])

SettledBelow(p, o) == \A j \in 1..(o - 1) : Settled(topic[p][j])

\* What a consumer goes on from, has committed, or is at work with, has nothing
\* unsettled behind it, whoever owns the partition by now.
BehindIsSettled ==
  \A p \in Partition :
    /\ SettledBelow(p, position[p])
    /\ SettledBelow(p, committed[p])
    /\ \A c \in Consumer, o \in Offset : <<p, o>> \in handling[c] => SettledBelow(p, o)
    /\ \A o \in DOMAIN topic[p] : Stored(topic[p][o]) => SettledBelow(p, o)

ReadStoreIsPublished == Range(readStore) \subseteq Range(published)

\* If the store refuses duplicates, and unless a hash was read while it lagged, it
\* holds all that was published but the last event, which can only be missing while
\* no hash is read.
StoreFollowsChain ==
  deduplicates /\ ~ lagged =>
    /\ \A n \in DOMAIN published :
         published[n].previousHash = IF n = 1 THEN Null ELSE HashOf(published[n - 1])
    /\ \A n \in DOMAIN readStore : n \in DOMAIN published /\ readStore[n] = published[n]
    /\ Len(published) <= Len(readStore) + 1
    /\ reading =>
         /\ Len(readStore) = Len(published)
         /\ previousHash = IF published = <<>> THEN Null ELSE HashOf(published[Len(published)])

-----------------------------------------------------------------------------
(***************************************************************************)
(* Types and offsets.                                                      *)
(***************************************************************************)
TypeInv == TypeOK /\ Placed /\ OffsetsInTopic

LEMMA PublishedBound == TypeInv => Len(published) \in Nat /\ Len(published) <= MaxEvents
<1> SUFFICES ASSUME TypeInv PROVE Len(published) \in Nat /\ Len(published) <= MaxEvents
  OBVIOUS
<1>1. published \in Seq(Message) /\ MaxEvents \in Nat
  BY ParameterTypes DEF TypeInv, TypeOK
<1>2. ASSUME published # <<>> PROVE Len(published) \in EventId
  <2>1. Len(published) \in DOMAIN published /\ published[Len(published)] \in Message
    BY <1>1, <1>2
  <2>2. published[Len(published)].content = Len(published)
    BY <2>1 DEF TypeInv, Placed
  <2>3. QED BY <2>1, <2>2 DEF Message
<1>3. QED BY <1>1, <1>2 DEF EventId

LEMMA TypeInit == Init => TypeInv
<1> SUFFICES ASSUME Init PROVE TypeInv
  OBVIOUS
<1>1. TypeOK
  <2>1. 1 \in Offset /\ 0 \in Offset \cup {0} /\ 0 \in Nat
    BY ParameterTypes DEF Offset
  <2>2. <<>> \in Seq(Message) /\ Null \in Digest(EventId)
    BY DEF Digest, Null
  <2>3. {} \in SUBSET (Partition \X Offset)
    OBVIOUS
  <2>4. QED BY <2>1, <2>2, <2>3 DEF Init, TypeOK
<1>2. Placed
  BY DEF Init, Placed
<1>3. OffsetsInTopic
  BY DEF Init, OffsetsInTopic
<1>4. QED BY <1>1, <1>2, <1>3 DEF TypeInv

\* What append() does to the published events and to the partition.
LEMMA PublishStep ==
  ASSUME TypeInv, NEW t \in Tenant, NEW p \in Partition, Publish(t, p)
  PROVE  \E n \in Nat, k \in Nat : LET m == NextMessage(t) IN
           /\ n = Len(published) /\ n < MaxEvents
           /\ m \in Message /\ m.content = n + 1
           /\ published' \in Seq(Message)
           /\ DOMAIN published = 1..n /\ DOMAIN published' = 1..(n + 1) /\ Len(published') = n + 1
           /\ \A i \in 1..n : published'[i] = published[i]
           /\ published'[n + 1] = m
           /\ Range(published') = Range(published) \cup {m}
           /\ k = Len(topic[p])
           /\ topic' \in [Partition -> Seq(Message)]
           /\ \A q \in Partition : q # p => topic'[q] = topic[q]
           /\ DOMAIN topic[p] = 1..k /\ DOMAIN topic'[p] = 1..(k + 1) /\ Len(topic'[p]) = k + 1
           /\ \A i \in 1..k : topic'[p][i] = topic[p][i]
           /\ topic'[p][k + 1] = m
<1> DEFINE m == NextMessage(t)
<1>1. PICK n \in Nat : n = Len(published)
  BY PublishedBound
<1>2. PICK k \in Nat : k = Len(topic[p])
  BY DEF TypeInv, TypeOK
<1>3. published \in Seq(Message) /\ topic \in [Partition -> Seq(Message)]
  BY DEF TypeInv, TypeOK
<1>4. m \in Message /\ m.content = n + 1 /\ n < MaxEvents
  BY <1>1, ParameterTypes DEF TypeInv, TypeOK, Publish, NextMessage, Message, EventId
<1>5. published' = Append(published, m) /\ topic' = [topic EXCEPT ![p] = Append(@, m)]
  BY DEF Publish
<1> HIDE DEF m
<1>6. /\ published' \in Seq(Message)
      /\ DOMAIN published = 1..n /\ DOMAIN published' = 1..(n + 1) /\ Len(published') = n + 1
      /\ \A i \in 1..n : published'[i] = published[i]
      /\ published'[n + 1] = m
  BY <1>1, <1>3, <1>4, <1>5
<1>7. Range(published') = Range(published) \cup {m}
  BY <1>1, <1>6 DEF Range
<1>8. /\ topic' \in [Partition -> Seq(Message)]
      /\ \A q \in Partition : q # p => topic'[q] = topic[q]
      /\ topic'[p] = Append(topic[p], m) /\ topic[p] \in Seq(Message)
  BY <1>3, <1>4, <1>5
<1>9. /\ DOMAIN topic[p] = 1..k /\ DOMAIN topic'[p] = 1..(k + 1) /\ Len(topic'[p]) = k + 1
      /\ \A i \in 1..k : topic'[p][i] = topic[p][i]
      /\ topic'[p][k + 1] = m
  BY <1>2, <1>4, <1>8
<1>10. QED BY <1>1, <1>2, <1>4, <1>6, <1>7, <1>8, <1>9 DEF m

\* What a consumer's new owner goes on from lies in the partition.
LEMMA StartOffsetType ==
  ASSUME TypeInv, NEW c \in Consumer, NEW p \in Partition
  PROVE  /\ StartOffset(c, p) \in Offset
         /\ StartOffset(c, p) <= Len(topic[p]) + 1
<1>1. /\ Len(topic[p]) \in Nat /\ committed[p] \in Offset \cup {0}
      /\ Len(topic[p]) <= Len(published) /\ committed[p] <= Len(topic[p]) + 1
  BY DEF TypeInv, TypeOK, OffsetsInTopic
<1>2. Len(published) \in Nat /\ Len(published) <= MaxEvents /\ MaxEvents \in Nat
  BY PublishedBound, ParameterTypes
<1>3. QED BY <1>1, <1>2 DEF StartOffset, Offset

\* What eachMessage is at work with is a message of the partition.
LEMMA HandledType ==
  ASSUME TypeInv, NEW c \in Consumer, NEW p \in Partition, NEW o, <<p, o>> \in handling[c]
  PROVE  /\ o \in Offset /\ o \in DOMAIN topic[p] /\ o + 1 \in Offset /\ o \in Nat
         /\ o <= Len(topic[p])
         /\ topic[p][o] \in Message /\ topic[p][o] \in Range(published)
<1>1. o \in Offset
  BY DEF TypeInv, TypeOK
<1>2. o \in Nat /\ 1 <= o /\ o <= Len(topic[p]) /\ Len(topic[p]) <= Len(published)
  BY <1>1, ParameterTypes DEF TypeInv, OffsetsInTopic, Offset
<1>3. topic[p] \in Seq(Message)
  BY DEF TypeInv, TypeOK
<1>4. o \in DOMAIN topic[p] /\ topic[p][o] \in Message
  BY <1>2, <1>3
<1>5. topic[p][o] \in Range(published)
  BY <1>4 DEF TypeInv, Placed
<1>6. o + 1 \in Offset
  <2>1. Len(published) \in Nat /\ Len(published) <= MaxEvents /\ MaxEvents \in Nat
    BY PublishedBound, ParameterTypes
  <2>2. Len(topic[p]) \in Nat
    BY <1>3
  <2>3. QED BY <1>2, <2>1, <2>2 DEF Offset
<1>7. QED BY <1>1, <1>2, <1>4, <1>5, <1>6

\* What the end of eachMessage does to the group.
LEMMA SettleStep ==
  ASSUME TypeInv, NEW c \in Consumer, NEW p \in Partition, NEW o \in Offset,
         <<p, o>> \in handling[c], Settle(c, p, o)
  PROVE  /\ handling' \in [Consumer -> SUBSET (Partition \X Offset)]
         /\ \A d \in Consumer : handling'[d] \subseteq handling[d]
         /\ position' \in [Partition -> Offset]
         /\ committed' \in [Partition -> Offset \cup {0}]
         /\ \A q \in Partition : position'[q] = position[q] \/ (q = p /\ position'[q] = o + 1)
         /\ \A q \in Partition : committed'[q] = committed[q] \/ (q = p /\ committed'[q] = o + 1)
         /\ UNCHANGED <<published, topic, owner, assignments>>
<1>1. o + 1 \in Offset
  BY HandledType
<1>2. /\ handling' = [handling EXCEPT ![c] = @ \ {<<p, o>>}]
      /\ handling \in [Consumer -> SUBSET (Partition \X Offset)]
  BY DEF Settle, TypeInv, TypeOK
<1>3. position \in [Partition -> Offset] /\ committed \in [Partition -> Offset \cup {0}]
  BY DEF TypeInv, TypeOK
<1>4. CASE owner[p] = c /\ position[p] = o
  <2>1. /\ position' = [position EXCEPT ![p] = o + 1]
        /\ committed' \in {committed, [committed EXCEPT ![p] = o + 1]}
    BY <1>4 DEF Settle
  <2>2. QED BY <1>1, <1>2, <1>3, <2>1 DEF Settle, emitVars
<1>5. CASE ~ (owner[p] = c /\ position[p] = o)
  <2>1. UNCHANGED <<position, committed>>
    BY <1>5 DEF Settle
  <2>2. QED BY <1>1, <1>2, <1>3, <2>1 DEF Settle, emitVars
<1>6. QED BY <1>4, <1>5

LEMMA TypeNext == TypeInv /\ [Next]_vars => TypeInv'
<1> SUFFICES ASSUME TypeInv, [Next]_vars PROVE TypeInv'
  OBVIOUS
<1> USE DEF vars, emitVars, groupVars, readVars
<1>1. CASE GetLatestHash
  <2>1. previousHash' \in Digest(EventId)
    <3>1. CASE readStore = <<>>
      BY <1>1, <3>1 DEF GetLatestHash, LatestHashes, Digest, Null
    <3>2. CASE readStore # <<>>
      <4>1. Last(readStore) \in Message /\ Range(readStore) \subseteq Message
        BY <3>2 DEF Last, Range, TypeInv, TypeOK
      <4>2. \A m \in Message : HashOf(m) \in Digest(EventId)
        BY DEF HashOf, Message, Digest
      <4>3. QED BY <1>1, <3>2, <4>1, <4>2 DEF GetLatestHash, LatestHashes
    <3>3. QED BY <3>1, <3>2
  <2>2. QED
    BY <1>1, <2>1 DEF GetLatestHash, TypeInv, TypeOK, Placed, OffsetsInTopic
<1>2. ASSUME NEW t \in Tenant, NEW p \in Partition, Publish(t, p) PROVE TypeInv'
  <2> DEFINE m == NextMessage(t)
  <2>1. PICK n \in Nat, k \in Nat :
          /\ n = Len(published) /\ n < MaxEvents
          /\ m \in Message /\ m.content = n + 1
          /\ published' \in Seq(Message)
          /\ DOMAIN published = 1..n /\ DOMAIN published' = 1..(n + 1) /\ Len(published') = n + 1
          /\ \A i \in 1..n : published'[i] = published[i]
          /\ published'[n + 1] = m
          /\ Range(published') = Range(published) \cup {m}
          /\ k = Len(topic[p])
          /\ topic' \in [Partition -> Seq(Message)]
          /\ \A q \in Partition : q # p => topic'[q] = topic[q]
          /\ DOMAIN topic[p] = 1..k /\ DOMAIN topic'[p] = 1..(k + 1) /\ Len(topic'[p]) = k + 1
          /\ \A i \in 1..k : topic'[p][i] = topic[p][i]
          /\ topic'[p][k + 1] = m
    BY <1>2, PublishStep
  <2>2. UNCHANGED <<previousHash, lagged, groupVars, readVars>> /\ reading' = FALSE
    BY <1>2 DEF Publish
  <2> HIDE DEF m
  <2>3. TypeOK'
    BY <2>1, <2>2 DEF TypeInv, TypeOK
  <2>4. ASSUME NEW s \in Partition, NEW o \in DOMAIN topic'[s]
        PROVE  \/ o \in DOMAIN topic[s] /\ topic'[s][o] = topic[s][o]
               \/ s = p /\ o = k + 1 /\ topic'[s][o] = m
    <3>1. CASE s = p
      <4>1. o \in 1..(k + 1)
        BY <2>1, <3>1
      <4>2. o \in 1..k \/ o = k + 1
        BY <4>1
      <4>3. QED BY <2>1, <3>1, <4>2
    <3>2. CASE s # p
      BY <2>1, <3>2
    <3>3. QED BY <3>1, <3>2
  <2>5. m \notin Range(published)
    BY <2>1 DEF TypeInv, Placed, Range
  <2>6. Placed'
    <3>1. \A i \in DOMAIN published' : published'[i].content = i
      BY <2>1 DEF TypeInv, Placed
    <3>2. \A q \in Partition : \A o \in DOMAIN topic'[q] : topic'[q][o] \in Range(published')
      <4>1. ASSUME NEW s \in Partition, NEW o \in DOMAIN topic[s]
            PROVE  topic[s][o] \in Range(published)
        BY DEF TypeInv, Placed
      <4>2. QED BY <2>1, <2>4, <4>1
    <3>3. ASSUME NEW q \in Partition, NEW r \in Partition,
                 NEW i \in DOMAIN topic'[q], NEW j \in DOMAIN topic'[r],
                 topic'[q][i] = topic'[r][j]
          PROVE  q = r /\ i = j
      <4>2. ASSUME NEW s \in Partition, NEW o \in DOMAIN topic[s]
            PROVE  topic[s][o] # m
        BY <2>5 DEF TypeInv, Placed
      <4>3. QED BY <2>4, <3>3, <4>2 DEF TypeInv, Placed
    <3>4. QED BY <3>1, <3>2, <3>3 DEF Placed
  <2>7. OffsetsInTopic'
    <3>1. ASSUME NEW q \in Partition
          PROVE  /\ Len(topic[q]) \in Nat /\ Len(topic'[q]) \in Nat
                 /\ Len(topic[q]) <= Len(topic'[q]) /\ Len(topic'[q]) <= n + 1
      <4>1. Len(topic[q]) \in Nat /\ Len(topic[q]) <= n
        BY <2>1 DEF TypeInv, TypeOK, OffsetsInTopic
      <4>2. CASE q = p
        BY <2>1, <4>1, <4>2
      <4>3. CASE q # p
        BY <2>1, <4>1, <4>3
      <4>4. QED BY <4>2, <4>3
    <3>2. \A q \in Partition : position[q] \in Nat /\ committed[q] \in Nat
      BY ParameterTypes DEF TypeInv, TypeOK, Offset
    <3>3. \A o \in Offset : o \in Nat
      BY ParameterTypes DEF Offset
    <3>4. QED BY <2>1, <2>2, <3>1, <3>2, <3>3 DEF TypeInv, OffsetsInTopic
  <2>8. QED BY <2>3, <2>6, <2>7 DEF TypeInv
<1>3. ASSUME NEW c \in Consumer, NEW p \in Partition, Assign(c, p) PROVE TypeInv'
  <2>1. StartOffset(c, p) \in Offset /\ StartOffset(c, p) <= Len(topic[p]) + 1
    BY StartOffsetType
  <2>2. BehindStart(c, p) \subseteq Range(published)
    BY DEF BehindStart, TypeInv, Placed, Range
  <2>3. assignments' \in [Partition -> Nat]
    BY <1>3 DEF Assign, TypeInv, TypeOK
  <2>4. TypeOK'
    BY <1>3, <2>1, <2>2, <2>3 DEF Assign, TypeInv, TypeOK
  <2>5. OffsetsInTopic'
    BY <1>3, <2>1 DEF Assign, TypeInv, TypeOK, OffsetsInTopic
  <2>6. QED BY <1>3, <2>4, <2>5 DEF Assign, TypeInv, Placed
<1>4. ASSUME NEW c \in Consumer, NEW p \in Partition, Take(c, p) PROVE TypeInv'
  <2>1. TypeOK'
    BY <1>4 DEF Take, TypeInv, TypeOK
  <2>2. OffsetsInTopic'
    BY <1>4 DEF Take, TypeInv, TypeOK, OffsetsInTopic
  <2>3. QED BY <1>4, <2>1, <2>2 DEF Take, TypeInv, Placed
<1>5. ASSUME NEW c \in Consumer, NEW p \in Partition, NEW o \in Offset,
             Materialize(c, p, o) \/ MaterializeFails(c, p, o)
      PROVE  TypeInv'
  <2>1. <<p, o>> \in handling[c] /\ Settle(c, p, o)
    BY <1>5 DEF Materialize, MaterializeFails
  <2>2. /\ handling' \in [Consumer -> SUBSET (Partition \X Offset)]
        /\ \A d \in Consumer : handling'[d] \subseteq handling[d]
        /\ position' \in [Partition -> Offset]
        /\ committed' \in [Partition -> Offset \cup {0}]
        /\ \A q \in Partition : position'[q] = position[q] \/ (q = p /\ position'[q] = o + 1)
        /\ \A q \in Partition : committed'[q] = committed[q] \/ (q = p /\ committed'[q] = o + 1)
        /\ UNCHANGED <<published, topic, owner, assignments>>
    BY <2>1, SettleStep
  <2>3. /\ o \in Nat /\ o <= Len(topic[p])
        /\ topic[p][o] \in Message /\ topic[p][o] \in Range(published)
    BY <2>1, HandledType
  <2>4. UNCHANGED emitVars
    BY <2>1 DEF Settle
  <2>5. readStore' \in Seq(Message) /\ passedOver' \subseteq Range(published)
    <3>1. readStore \in Seq(Message) /\ passedOver \subseteq Range(published)
      BY DEF TypeInv, TypeOK
    <3>2. CASE Materialize(c, p, o)
      <4>1. readStore' = AppendToStore(topic[p][o]) /\ passedOver' = passedOver
        BY <3>2 DEF Materialize
      <4>2. Append(readStore, topic[p][o]) \in Seq(Message)
        BY <2>3, <3>1
      <4>3. QED BY <2>2, <3>1, <4>1, <4>2 DEF AppendToStore
    <3>3. CASE MaterializeFails(c, p, o)
      BY <2>2, <2>3, <3>1, <3>3 DEF MaterializeFails
    <3>4. QED BY <1>5, <3>2, <3>3
  <2>6. TypeOK'
    <3>1. deduplicates' = deduplicates
      BY <1>5 DEF Materialize, MaterializeFails
    <3>2. QED BY <2>2, <2>4, <2>5, <3>1 DEF TypeInv, TypeOK
  <2>7. OffsetsInTopic'
    <3>1. \A q \in Partition : Len(topic[q]) \in Nat
      BY DEF TypeInv, TypeOK
    <3>2. ASSUME NEW q \in Partition
          PROVE  /\ Len(topic[q]) <= Len(published)
                 /\ position'[q] <= Len(topic[q]) + 1
                 /\ committed'[q] <= Len(topic[q]) + 1
      <4>1. /\ Len(topic[q]) <= Len(published)
            /\ position[q] <= Len(topic[q]) + 1
            /\ committed[q] <= Len(topic[q]) + 1
        BY DEF TypeInv, OffsetsInTopic
      <4>2. o <= Len(topic[p]) => o + 1 <= Len(topic[p]) + 1
        BY <2>3, <3>1
      <4>3. QED BY <2>2, <2>3, <4>1, <4>2
    <3>3. ASSUME NEW q \in Partition, NEW d \in Consumer, NEW j \in Offset, <<q, j>> \in handling'[d]
          PROVE  j <= Len(topic[q])
      BY <2>2, <3>3 DEF TypeInv, OffsetsInTopic
    <3>4. QED BY <2>2, <3>2, <3>3 DEF OffsetsInTopic
  <2>8. QED BY <2>2, <2>6, <2>7 DEF TypeInv, Placed
<1>6. ASSUME NEW c \in Consumer, Disconnect(c) PROVE TypeInv'
  BY <1>6 DEF Disconnect, TypeInv, TypeOK, Placed, OffsetsInTopic
<1>7. CASE UNCHANGED vars
  BY <1>7 DEF TypeInv, TypeOK, Placed, OffsetsInTopic
<1>8. QED BY <1>1, <1>2, <1>3, <1>4, <1>5, <1>6, <1>7 DEF Next, Consume

LEMMA TypesAndOffsets == Spec => []TypeInv
BY TypeInit, TypeNext, PTL DEF Spec

\* Every variable keeps its type.
THEOREM KafkaTypeCorrect == Spec => []TypeOK
BY TypesAndOffsets, PTL DEF TypeInv

-----------------------------------------------------------------------------
(***************************************************************************)
(* What is behind an offset is settled, and stays so.                      *)
(***************************************************************************)
GroupInv == TypeInv /\ BehindIsSettled /\ ReadStoreIsPublished

LEMMA GroupInit == Init => GroupInv
<1> SUFFICES ASSUME Init PROVE GroupInv
  OBVIOUS
<1>1. TypeInv
  BY TypeInit
<1>2. BehindIsSettled
  BY DEF Init, BehindIsSettled, SettledBelow
<1>3. ReadStoreIsPublished
  BY DEF Init, ReadStoreIsPublished, Range
<1>4. QED BY <1>1, <1>2, <1>3 DEF GroupInv

\* What the end of eachMessage does to the read store.
LEMMA StoreStep ==
  ASSUME TypeInv, NEW c \in Consumer, NEW p \in Partition, NEW o \in Offset,
         Materialize(c, p, o) \/ MaterializeFails(c, p, o)
  PROVE  LET m == topic[p][o] IN
           /\ <<p, o>> \in handling[c]
           /\ Settle(c, p, o)
           /\ Range(readStore) \subseteq Range(readStore')
           /\ Range(readStore') \subseteq Range(readStore) \cup {m}
           /\ passedOver \subseteq passedOver'
           /\ Settled(m)'
<1> DEFINE m == topic[p][o]
<1>1. <<p, o>> \in handling[c] /\ Settle(c, p, o) /\ topic' = topic
  BY DEF Materialize, MaterializeFails, Settle
<1>2. m \in Message /\ m' = m
  BY <1>1, HandledType
<1>3. readStore \in Seq(Message)
  BY DEF TypeInv, TypeOK
<1> HIDE DEF m
<1>4. CASE Materialize(c, p, o)
  <2>1. readStore' = AppendToStore(m) /\ passedOver' = passedOver
    BY <1>4 DEF Materialize, m
  <2>2. Range(Append(readStore, m)) = Range(readStore) \cup {m}
    <3> DEFINE s == Append(readStore, m)
    <3>1. /\ DOMAIN s = 1..(Len(readStore) + 1) /\ s[Len(readStore) + 1] = m
          /\ \A i \in DOMAIN readStore : s[i] = readStore[i]
          /\ DOMAIN readStore = 1..Len(readStore) /\ Len(readStore) \in Nat
      BY <1>2, <1>3
    <3> HIDE DEF s
    <3>2. DOMAIN s = DOMAIN readStore \cup {Len(readStore) + 1}
      BY <3>1
    <3>3. Range(s) = Range(readStore) \cup {m}
      BY <3>1, <3>2 DEF Range
    <3>4. QED BY <3>3 DEF s
  <2>3. CASE deduplicates /\ Stored(m)
    BY <1>1, <1>2, <2>1, <2>3 DEF AppendToStore, Stored, Settled, m
  <2>4. CASE ~ (deduplicates /\ Stored(m))
    <3>1. readStore' = Append(readStore, m)
      BY <2>1, <2>4 DEF AppendToStore
    <3>2. Range(readStore') = Range(readStore) \cup {m}
      BY <2>2, <3>1
    <3>3. Settled(m)'
      BY <1>2, <3>2 DEF Settled, Stored
    <3>4. QED BY <1>1, <2>1, <3>2, <3>3 DEF m
  <2>5. QED BY <2>3, <2>4
<1>5. CASE MaterializeFails(c, p, o)
  <2>1. readStore' = readStore /\ passedOver' = passedOver \cup ({m} \ Range(readStore))
    BY <1>5 DEF MaterializeFails, m
  <2>2. Settled(m)'
    BY <1>2, <2>1 DEF Settled, Stored
  <2>3. QED BY <1>1, <2>1, <2>2 DEF m
<1>6. QED BY <1>4, <1>5

\* Nothing leaves the read store or the messages it was passed over with.
LEMMA SettledGrows ==
  ASSUME TypeInv, [Next]_vars
  PROVE  Range(readStore) \subseteq Range(readStore') /\ passedOver \subseteq passedOver'
<1> USE DEF vars, emitVars, groupVars, readVars
<1>1. ASSUME NEW c \in Consumer, NEW p \in Partition, NEW o \in Offset,
             Materialize(c, p, o) \/ MaterializeFails(c, p, o)
      PROVE  Range(readStore) \subseteq Range(readStore') /\ passedOver \subseteq passedOver'
  BY <1>1, StoreStep
<1>2. ASSUME NEW c \in Consumer, NEW p \in Partition, Assign(c, p)
      PROVE  Range(readStore) \subseteq Range(readStore') /\ passedOver \subseteq passedOver'
  BY <1>2 DEF Assign
<1>3. ASSUME UNCHANGED readVars
      PROVE  Range(readStore) \subseteq Range(readStore') /\ passedOver \subseteq passedOver'
  BY <1>3
<1>4. QED
  BY <1>1, <1>2, <1>3
  DEF Next, Consume, GetLatestHash, Publish, Take, Disconnect

\* Only append() publishes.
LEMMA OnlyPublish ==
  ASSUME [Next]_vars
  PROVE  \/ UNCHANGED <<published, topic>>
         \/ \E t \in Tenant, p \in Partition : Publish(t, p)
<1> USE DEF vars, emitVars
<1>1. ASSUME NEW c \in Consumer, NEW p \in Partition, Consume(c, p)
      PROVE  UNCHANGED <<published, topic>>
  BY <1>1 DEF Consume, Take, Materialize, MaterializeFails, Settle
<1>2. ASSUME NEW c \in Consumer, NEW p \in Partition, Assign(c, p)
      PROVE  UNCHANGED <<published, topic>>
  BY <1>2 DEF Assign
<1>3. QED BY <1>1, <1>2 DEF Next, GetLatestHash, Disconnect

\* The messages of a partition keep their places.
LEMMA TopicGrows ==
  ASSUME TypeInv, [Next]_vars, NEW p \in Partition, NEW o \in DOMAIN topic[p]
  PROVE  o \in DOMAIN topic'[p] /\ topic'[p][o] = topic[p][o]
<1>1. ASSUME NEW t \in Tenant, NEW q \in Partition, Publish(t, q)
      PROVE  o \in DOMAIN topic'[p] /\ topic'[p][o] = topic[p][o]
  <2> DEFINE m == NextMessage(t)
  <2>1. topic' = [topic EXCEPT ![q] = Append(@, m)]
    BY <1>1 DEF Publish
  <2>2. topic \in [Partition -> Seq(Message)] /\ m \in Message
    BY <1>1, PublishStep DEF TypeInv, TypeOK
  <2> HIDE DEF m
  <2>3. topic[q] \in Seq(Message) /\ topic[p] \in Seq(Message)
    BY <2>2
  <2>4. CASE p = q
    <3>1. topic'[p] = Append(topic[p], m)
      BY <2>1, <2>2, <2>4
    <3>2. QED BY <2>2, <2>3, <3>1
  <2>5. CASE p # q
    BY <2>1, <2>2, <2>5
  <2>6. QED BY <2>4, <2>5
<1>2. ASSUME topic' = topic
      PROVE  o \in DOMAIN topic'[p] /\ topic'[p][o] = topic[p][o]
  BY <1>2
<1>3. QED BY <1>1, <1>2, OnlyPublish

\* A message that append() adds to a partition is a new one.
LEMMA NewInTopic ==
  ASSUME TypeInv, NEW t \in Tenant, NEW p \in Partition, Publish(t, p),
         NEW q \in Partition, NEW o \in DOMAIN topic'[q], o \notin DOMAIN topic[q]
  PROVE  topic'[q][o] \notin Range(published)
<1> DEFINE m == NextMessage(t)
<1>1. PICK n \in Nat, k \in Nat :
        /\ n = Len(published) /\ n < MaxEvents
        /\ m \in Message /\ m.content = n + 1
        /\ published' \in Seq(Message)
        /\ DOMAIN published = 1..n /\ DOMAIN published' = 1..(n + 1) /\ Len(published') = n + 1
        /\ \A i \in 1..n : published'[i] = published[i]
        /\ published'[n + 1] = m
        /\ Range(published') = Range(published) \cup {m}
        /\ k = Len(topic[p])
        /\ topic' \in [Partition -> Seq(Message)]
        /\ \A s \in Partition : s # p => topic'[s] = topic[s]
        /\ DOMAIN topic[p] = 1..k /\ DOMAIN topic'[p] = 1..(k + 1) /\ Len(topic'[p]) = k + 1
        /\ \A i \in 1..k : topic'[p][i] = topic[p][i]
        /\ topic'[p][k + 1] = m
  BY PublishStep
<1> HIDE DEF m
<1>2. q = p /\ o = k + 1
  BY <1>1
<1>3. m \notin Range(published)
  BY <1>1 DEF TypeInv, Placed, Range
<1>4. QED BY <1>1, <1>2, <1>3

LEMMA SettledStays ==
  ASSUME TypeInv, [Next]_vars, NEW p \in Partition,
         NEW o \in Nat, o <= Len(topic[p]) + 1, SettledBelow(p, o)
  PROVE  SettledBelow(p, o)'
<1> SUFFICES ASSUME NEW j \in 1..(o - 1) PROVE Settled(topic[p][j])'
  BY DEF SettledBelow
<1>1. topic[p] \in Seq(Message)
  BY DEF TypeInv, TypeOK
<1>2. j \in DOMAIN topic[p]
  BY <1>1
<1>3. topic'[p][j] = topic[p][j]
  BY <1>2, TopicGrows
<1>4. Settled(topic[p][j])
  BY DEF SettledBelow
<1>5. QED BY <1>3, <1>4, SettledGrows DEF Settled, Stored

\* What the new owner of a partition starts behind is materialised or given up.
LEMMA StartIsSettled ==
  ASSUME GroupInv, NEW c \in Consumer, NEW p \in Partition, Assign(c, p),
         NEW v, v = StartOffset(c, p)
  PROVE  SettledBelow(p, v)'
<1>1. v \in Nat /\ v <= Len(topic[p]) + 1
  BY StartOffsetType, ParameterTypes DEF GroupInv, Offset
<1>2. topic' = topic /\ readStore' = readStore /\ passedOver' = passedOver \cup BehindStart(c, p)
  BY DEF Assign
<1>3. topic[p] \in Seq(Message)
  BY DEF GroupInv, TypeInv, TypeOK
<1>4. SUFFICES ASSUME NEW j \in 1..(v - 1) PROVE Settled(topic[p][j])'
  BY DEF SettledBelow
<1>5. CASE committed[p] # 0
  <2>1. SettledBelow(p, v)
    BY <1>5 DEF StartOffset, GroupInv, BehindIsSettled
  <2>2. QED BY <1>2, <2>1 DEF SettledBelow, Settled, Stored
<1>6. CASE committed[p] = 0 /\ c \in FromBeginning
  BY <1>6 DEF StartOffset
<1>7. CASE committed[p] = 0 /\ c \notin FromBeginning
  <2>1. v = Len(topic[p]) + 1 /\ BehindStart(c, p) = Range(topic[p])
    BY <1>7 DEF StartOffset, BehindStart
  <2>2. j \in DOMAIN topic[p]
    BY <1>3, <2>1
  <2>3. topic[p][j] \in Range(topic[p])
    BY <2>2 DEF Range
  <2>4. QED BY <1>2, <2>1, <2>3 DEF Settled
<1>8. QED BY <1>5, <1>6, <1>7

LEMMA BehindNext == GroupInv /\ [Next]_vars => BehindIsSettled'
<1> SUFFICES ASSUME GroupInv, [Next]_vars PROVE BehindIsSettled'
  OBVIOUS
<1> USE DEF vars, emitVars, groupVars, readVars
<1> TypeInv /\ BehindIsSettled /\ ReadStoreIsPublished
  BY DEF GroupInv
<1>1. ASSUME NEW p \in Partition
      PROVE  /\ topic[p] \in Seq(Message)
             /\ position[p] \in Nat /\ position[p] <= Len(topic[p]) + 1
             /\ committed[p] \in Nat /\ committed[p] <= Len(topic[p]) + 1
  BY ParameterTypes DEF TypeInv, TypeOK, OffsetsInTopic, Offset
<1>2. ASSUME NEW p \in Partition
      PROVE  SettledBelow(p, position[p])' /\ SettledBelow(p, committed[p])'
  <2>1. ASSUME NEW v, v = position[p] \/ v = committed[p] PROVE SettledBelow(p, v)'
    BY <1>1, <2>1, SettledStays DEF BehindIsSettled
  <2>2. ASSUME UNCHANGED <<position, committed>>
        PROVE  SettledBelow(p, position[p])' /\ SettledBelow(p, committed[p])'
    BY <2>1, <2>2 DEF SettledBelow
  <2>3. ASSUME NEW c \in Consumer, NEW q \in Partition, Assign(c, q)
        PROVE  SettledBelow(p, position[p])' /\ SettledBelow(p, committed[p])'
    <3>1. committed' = committed /\ position' = [position EXCEPT ![q] = StartOffset(c, q)]
      BY <2>3 DEF Assign
    <3>2. CASE p = q
      <4>1. position'[p] = StartOffset(c, p)
        BY <3>1, <3>2 DEF TypeInv, TypeOK
      <4>2. ASSUME NEW v, v = StartOffset(c, p) PROVE SettledBelow(p, v)'
        BY <2>3, <3>2, <4>2, StartIsSettled
      <4>3. QED BY <2>1, <3>1, <4>1, <4>2 DEF SettledBelow
    <3>3. CASE p # q
      BY <2>1, <3>1, <3>3 DEF TypeInv, TypeOK, SettledBelow
    <3>4. QED BY <3>2, <3>3
  <2>4. ASSUME NEW c \in Consumer, NEW q \in Partition, NEW o \in Offset,
               Materialize(c, q, o) \/ MaterializeFails(c, q, o)
        PROVE  SettledBelow(p, position[p])' /\ SettledBelow(p, committed[p])'
    <3>1. <<q, o>> \in handling[c] /\ Settle(c, q, o) /\ Settled(topic[q][o])'
      BY <2>4, StoreStep
    <3>2. /\ position'[p] = position[p] \/ (p = q /\ position'[p] = o + 1)
          /\ committed'[p] = committed[p] \/ (p = q /\ committed'[p] = o + 1)
          /\ topic' = topic
      BY <3>1, SettleStep
    <3>3. ASSUME p = q PROVE SettledBelow(p, o + 1)'
      <4>1. o \in Nat /\ o <= Len(topic[p]) /\ SettledBelow(p, o)
        BY <3>1, <3>3, HandledType DEF BehindIsSettled
      <4>2. SettledBelow(p, o)'
        BY <1>1, <4>1, SettledStays
      <4>3. \A j \in 1..((o + 1) - 1) : j \in 1..(o - 1) \/ j = o
        BY <4>1
      <4>4. QED BY <3>1, <3>3, <3>2, <4>2, <4>3 DEF SettledBelow
    <3>4. QED BY <2>1, <3>2, <3>3 DEF SettledBelow
  <2>5. QED
    BY <2>2, <2>3, <2>4
    DEF Next, Consume, GetLatestHash, Publish, Take, Disconnect
<1>3. ASSUME NEW p \in Partition, NEW c \in Consumer, NEW o \in Offset, <<p, o>> \in handling'[c]
      PROVE  SettledBelow(p, o)'
  <2>1. CASE <<p, o>> \in handling[c]
    <3>1. SettledBelow(p, o) /\ o \in Nat /\ o <= Len(topic[p]) + 1
      BY <1>1, <2>1, HandledType DEF BehindIsSettled
    <3>2. QED BY <3>1, SettledStays
  <2>2. CASE <<p, o>> \notin handling[c]
    <3>1. o = position[p]
      <4>1. ASSUME NEW d \in Consumer, NEW q \in Partition, Take(d, q) PROVE o = position[p]
        BY <1>3, <2>2, <4>1 DEF Take, TypeInv, TypeOK
      <4>2. ASSUME NEW d \in Consumer, NEW q \in Partition, NEW j \in Offset,
                   Materialize(d, q, j) \/ MaterializeFails(d, q, j)
            PROVE  FALSE
        <5>1. <<q, j>> \in handling[d] /\ Settle(d, q, j)
          BY <4>2, StoreStep
        <5>2. handling'[c] \subseteq handling[c]
          BY <5>1, SettleStep
        <5>3. QED BY <1>3, <2>2, <5>2
      <4>3. QED
        BY <1>3, <2>2, <4>1, <4>2
        DEF Next, Consume, GetLatestHash, Publish, Assign, Disconnect
    <3>2. SettledBelow(p, o)
      BY <3>1 DEF BehindIsSettled
    <3>3. QED BY <1>1, <3>1, <3>2, SettledStays
  <2>3. QED BY <2>1, <2>2
<1>4. ASSUME NEW p \in Partition, NEW o \in DOMAIN topic'[p], Stored(topic[p][o])'
      PROVE  SettledBelow(p, o)'
  <2>1. ASSUME o \in DOMAIN topic[p], SettledBelow(p, o) PROVE SettledBelow(p, o)'
    <3>1. o \in Nat /\ o <= Len(topic[p]) + 1
      BY <1>1, <2>1
    <3>2. QED BY <2>1, <3>1, SettledStays
  <2>2. ASSUME o \in DOMAIN topic[p], Stored(topic[p][o]) PROVE SettledBelow(p, o)'
    BY <2>1, <2>2 DEF BehindIsSettled
  <2>3. ASSUME NEW t \in Tenant, NEW q \in Partition, Publish(t, q) PROVE SettledBelow(p, o)'
    <3>1. topic'[p][o] \in Range(published) /\ readStore' = readStore
      BY <1>4, <2>3 DEF ReadStoreIsPublished, Stored, Publish
    <3>2. o \in DOMAIN topic[p]
      BY <2>3, <3>1, NewInTopic
    <3>3. topic'[p][o] = topic[p][o]
      BY <3>2, TopicGrows
    <3>4. QED BY <1>4, <2>2, <3>1, <3>2, <3>3 DEF Stored
  <2>4. ASSUME NEW c \in Consumer, NEW q \in Partition, NEW j \in Offset,
               Materialize(c, q, j) \/ MaterializeFails(c, q, j)
        PROVE  SettledBelow(p, o)'
    <3>1. /\ <<q, j>> \in handling[c] /\ Settle(c, q, j)
          /\ Range(readStore') \subseteq Range(readStore) \cup {topic[q][j]}
      BY <2>4, StoreStep
    <3>2. topic' = topic
      BY <3>1 DEF Settle
    <3>3. j \in DOMAIN topic[q] /\ SettledBelow(q, j)
      BY <3>1, HandledType DEF BehindIsSettled
    <3>4. CASE Stored(topic[p][o])
      BY <2>2, <3>2, <3>4
    <3>5. CASE topic[p][o] = topic[q][j]
      <4>1. p = q /\ o = j
        BY <3>2, <3>3, <3>5 DEF TypeInv, Placed
      <4>2. QED BY <2>1, <3>3, <4>1
    <3>6. QED BY <1>4, <3>1, <3>2, <3>4, <3>5 DEF Stored
  <2>5. ASSUME UNCHANGED <<topic, readStore>> PROVE SettledBelow(p, o)'
    BY <1>4, <2>2, <2>5 DEF Stored
  <2>6. QED
    BY <2>3, <2>4, <2>5
    DEF Next, Consume, GetLatestHash, Assign, Take, Disconnect
<1>5. QED BY <1>2, <1>3, <1>4 DEF BehindIsSettled

LEMMA PublishedGrows ==
  ASSUME TypeInv, [Next]_vars
  PROVE  Range(published) \subseteq Range(published')
<1>1. ASSUME NEW t \in Tenant, NEW p \in Partition, Publish(t, p)
      PROVE  Range(published) \subseteq Range(published')
  <2> DEFINE m == NextMessage(t)
  <2>1. PICK n \in Nat :
          /\ DOMAIN published = 1..n /\ DOMAIN published' = 1..(n + 1)
          /\ \A i \in 1..n : published'[i] = published[i]
    <3>1. published' = Append(published, m) /\ m \in Message /\ published \in Seq(Message)
      BY <1>1, PublishStep DEF Publish, TypeInv, TypeOK
    <3> HIDE DEF m
    <3>2. QED BY <3>1
  <2>2. QED BY <2>1 DEF Range
<1>2. CASE published' = published
  BY <1>2
<1>3. QED BY <1>1, <1>2, OnlyPublish

LEMMA ReadStoreNext == GroupInv /\ [Next]_vars => ReadStoreIsPublished'
<1> SUFFICES ASSUME GroupInv, [Next]_vars PROVE ReadStoreIsPublished'
  OBVIOUS
<1>1. Range(readStore) \subseteq Range(published')
  BY PublishedGrows DEF GroupInv, ReadStoreIsPublished
<1>2. ASSUME NEW c \in Consumer, NEW p \in Partition, NEW o \in Offset,
             Materialize(c, p, o) \/ MaterializeFails(c, p, o)
      PROVE  ReadStoreIsPublished'
  <2>1. <<p, o>> \in handling[c] /\ Range(readStore') \subseteq Range(readStore) \cup {topic[p][o]}
    BY <1>2, StoreStep DEF GroupInv
  <2>2. topic[p][o] \in Range(published')
    BY <2>1, HandledType, PublishedGrows DEF GroupInv
  <2>3. QED BY <1>1, <2>1, <2>2 DEF ReadStoreIsPublished
<1>3. ASSUME readStore' = readStore PROVE ReadStoreIsPublished'
  BY <1>1, <1>3 DEF ReadStoreIsPublished
<1>4. QED
  BY <1>2, <1>3
  DEF vars, readVars, Next, Consume, GetLatestHash, Publish, Assign, Take, Disconnect

LEMMA GroupCorrect == Spec => []GroupInv
<1>1. GroupInv /\ [Next]_vars => GroupInv'
  BY TypeNext, BehindNext, ReadStoreNext DEF GroupInv
<1>2. QED BY GroupInit, <1>1, PTL DEF Spec

\* A committed offset leaves nothing behind that the read store neither holds nor
\* was passed over with: it rejected the message, for whatever reason, or the group
\* began behind it.  This is so whatever the group's owners do and whether or not the
\* read store deduplicates.
THEOREM NothingLostByCommit == Spec => []CommittedIsSettled
<1>1. GroupInv => CommittedIsSettled
  BY DEF GroupInv, BehindIsSettled, SettledBelow, CommittedIsSettled
<1>2. QED BY <1>1, GroupCorrect, PTL

-----------------------------------------------------------------------------
(***************************************************************************)
(* The rows of the read store: in the order of the partition, and no more  *)
(* often than it was assigned, or once.                                    *)
(***************************************************************************)
\* The read store is appended to with what a consumer is at work with, if it
\* deduplicates only with what it does not hold.
LEMMA AppendStep ==
  ASSUME TypeInv, [Next]_vars
  PROVE  /\ deduplicates' = deduplicates
         /\ \/ readStore' = readStore
            \/ \E c \in Consumer, p \in Partition, o \in Offset :
                 /\ Materialize(c, p, o) /\ <<p, o>> \in handling[c]
                 /\ deduplicates => ~ Stored(topic[p][o])
                 /\ readStore' = Append(readStore, topic[p][o])
                 /\ UNCHANGED <<emitVars, topic, passedOver>>
<1> USE DEF vars, readVars
<1>1. ASSUME NEW c \in Consumer, NEW p \in Partition, NEW o \in Offset, Materialize(c, p, o)
      PROVE  \/ readStore' = readStore
             \/ /\ <<p, o>> \in handling[c]
                /\ deduplicates => ~ Stored(topic[p][o])
                /\ readStore' = Append(readStore, topic[p][o])
                /\ UNCHANGED <<emitVars, topic, passedOver>>
  BY <1>1 DEF Materialize, AppendToStore, Settle
<1>2. deduplicates' = deduplicates
  <2>1. ASSUME NEW c \in Consumer, NEW p \in Partition, Assign(c, p) \/ Consume(c, p)
        PROVE  deduplicates' = deduplicates
    BY <2>1 DEF Assign, Consume, Take, Materialize, MaterializeFails
  <2>2. QED BY <2>1 DEF Next, GetLatestHash, Publish, Disconnect
<1>3. QED
  BY <1>1, <1>2 DEF Next, Consume, GetLatestHash, Publish, Assign, Take, Disconnect, MaterializeFails

\* An event that the read store holds had its place when it was appended.
LEMMA HeldIsPlaced ==
  ASSUME GroupInv, [Next]_vars, NEW p \in Partition, NEW o \in DOMAIN topic'[p],
         topic'[p][o] \in Range(readStore)
  PROVE  o \in DOMAIN topic[p] /\ topic'[p][o] = topic[p][o]
<1>1. topic'[p][o] \in Range(published)
  BY DEF GroupInv, ReadStoreIsPublished
<1>2. o \in DOMAIN topic[p]
  <2>1. ASSUME NEW t \in Tenant, NEW q \in Partition, Publish(t, q) PROVE o \in DOMAIN topic[p]
    BY <1>1, <2>1, NewInTopic DEF GroupInv
  <2>2. CASE topic' = topic
    BY <2>2
  <2>3. QED BY <2>1, <2>2, OnlyPublish
<1>3. QED BY <1>2, TopicGrows DEF GroupInv

LEMMA OrderNext == GroupInv /\ PartitionOrder /\ [Next]_vars => PartitionOrder'
<1> SUFFICES ASSUME GroupInv, PartitionOrder, [Next]_vars,
                    NEW p \in Partition, NEW j \in DOMAIN topic'[p], NEW k \in DOMAIN topic'[p],
                    j < k, topic'[p][j] \notin passedOver',
                    NEW n \in DOMAIN readStore', readStore'[n] = topic'[p][k]
             PROVE  \E i \in 1..(n - 1) : readStore'[i] = topic'[p][j]
  BY DEF PartitionOrder
<1> TypeInv
  BY DEF GroupInv
<1>1. topic'[p][j] \notin passedOver
  BY SettledGrows
<1>2. readStore \in Seq(Message) /\ topic[p] \in Seq(Message) /\ topic'[p] \in Seq(Message)
  BY TypeNext DEF TypeInv, TypeOK
<1>3. ASSUME n \in DOMAIN readStore, readStore'[n] = readStore[n]
      PROVE  \E i \in 1..(n - 1) : readStore[i] = topic'[p][j]
  <2>1. k \in DOMAIN topic[p] /\ topic'[p][k] = topic[p][k]
    BY <1>3, HeldIsPlaced DEF Range
  <2>2. j \in DOMAIN topic[p]
    BY <1>2, <2>1
  <2>3. topic'[p][j] = topic[p][j]
    BY <2>2, TopicGrows
  <2>4. topic[p][j] \notin passedOver /\ readStore[n] = topic[p][k]
    BY <1>1, <1>3, <2>1, <2>3
  <2>5. \E i \in 1..(n - 1) : readStore[i] = topic[p][j]
    BY <1>3, <2>1, <2>2, <2>4 DEF PartitionOrder
  <2>6. QED BY <2>3, <2>5
<1>4. CASE readStore' = readStore
  BY <1>3, <1>4
<1>5. ASSUME NEW c \in Consumer, NEW q \in Partition, NEW o \in Offset, <<q, o>> \in handling[c],
             readStore' = Append(readStore, topic[q][o]), topic' = topic
      PROVE  \E i \in 1..(n - 1) : readStore'[i] = topic'[p][j]
  <2> DEFINE m == topic[q][o]
  <2>1. m \in Message /\ o \in DOMAIN topic[q] /\ SettledBelow(q, o)
    BY <1>5, HandledType DEF GroupInv, BehindIsSettled
  <2>2. topic[p][k] = m => p = q /\ k = o
    BY <1>5, <2>1 DEF TypeInv, Placed
  <2>3. readStore' = Append(readStore, m)
    BY <1>5
  <2> HIDE DEF m
  <2>4. PICK l \in Nat :
          /\ DOMAIN readStore = 1..l /\ DOMAIN readStore' = 1..(l + 1)
          /\ readStore'[l + 1] = m
          /\ \A i \in 1..l : readStore'[i] = readStore[i]
    BY <1>2, <2>1, <2>3
  <2>5. CASE n \in 1..l
    <3>1. PICK i \in 1..(n - 1) : readStore[i] = topic'[p][j]
      BY <1>3, <2>4, <2>5
    <3>2. QED BY <2>4, <2>5, <3>1
  <2>6. CASE n = l + 1
    <3>1. p = q /\ k = o
      BY <1>5, <2>2, <2>4, <2>6
    <3>2. j \in 1..(o - 1)
      BY <1>2, <3>1
    <3>3. Stored(topic[p][j])
      BY <1>1, <1>5, <2>1, <3>1, <3>2 DEF SettledBelow, Settled
    <3>4. PICK i \in 1..l : readStore[i] = topic[p][j]
      BY <2>4, <3>3 DEF Stored, Range
    <3>5. QED BY <1>5, <2>4, <2>6, <3>4
  <2>7. QED BY <2>4, <2>5, <2>6
<1>6. QED BY <1>4, <1>5, AppendStep

\* The read store holds the events of a partition in the order of the partition,
\* whatever the group's owners do and however often it holds them.
THEOREM PartitionsInOrder == Spec => []PartitionOrder
<1>1. Init => PartitionOrder
  BY DEF Init, PartitionOrder
<1>2. QED BY <1>1, OrderNext, GroupCorrect, PTL DEF Spec

-----------------------------------------------------------------------------
(***************************************************************************)
(* How often a message has been delivered, is being delivered and is still *)
(* due to the present owner of its partition.                              *)
(***************************************************************************)
Delivering(p, o) == {c \in Consumer : <<p, o>> \in handling[c]}

Due(p, o) ==
  /\ owner[p] # Nobody
  /\ position[p] <= o
  /\ ~ (position[p] = o /\ <<p, o>> \in handling[owner[p]])

Deliveries(p, o) ==
  Copies(topic[p][o]) + Cardinality(Delivering(p, o)) + (IF Due(p, o) THEN 1 ELSE 0)

OwnedIsAssigned == \A p \in Partition : owner[p] # Nobody => assignments[p] >= 1

WithinAssignments ==
  \A p \in Partition : \A o \in DOMAIN topic[p] : Deliveries(p, o) <= assignments[p]

OnceIfRefused ==
  deduplicates => \A i, j \in DOMAIN readStore : readStore[i] = readStore[j] => i = j

CopiesInv == OwnedIsAssigned /\ WithinAssignments /\ OnceIfRefused

\* The rows of a message and the consumers at work with it can be counted.
LEMMA CopiesFinite ==
  ASSUME TypeInv, NEW x
  PROVE  IsFiniteSet({n \in DOMAIN readStore : readStore[n] = x}) /\ Copies(x) \in Nat
<1>1. readStore \in Seq(Message)
  BY DEF TypeInv, TypeOK
<1>2. DOMAIN readStore = 1..Len(readStore) /\ Len(readStore) \in Int
  BY <1>1
<1>3. IsFiniteSet(DOMAIN readStore)
  BY <1>2, FS_Interval
<1>4. {n \in DOMAIN readStore : readStore[n] = x} \in SUBSET DOMAIN readStore
  OBVIOUS
<1>5. IsFiniteSet({n \in DOMAIN readStore : readStore[n] = x})
  BY <1>3, <1>4, FS_Subset
<1>6. QED BY <1>5, FS_CardinalityType DEF Copies

LEMMA DeliveringFinite ==
  ASSUME NEW p, NEW o
  PROVE  IsFiniteSet(Delivering(p, o)) /\ Cardinality(Delivering(p, o)) \in Nat
<1>1. Delivering(p, o) \in SUBSET Consumer
  BY DEF Delivering
<1>2. IsFiniteSet(Delivering(p, o))
  BY <1>1, ParameterTypes, FS_Subset
<1>3. QED BY <1>2, FS_CardinalityType

\* A row more is a copy more of its event.
LEMMA CopiesAppend ==
  ASSUME TypeInv, NEW m \in Message, readStore' = Append(readStore, m)
  PROVE  \A x : Copies(x)' = Copies(x) + (IF x = m THEN 1 ELSE 0)
<1>1. TAKE x
<1>2. readStore \in Seq(Message)
  BY DEF TypeInv, TypeOK
<1>3. PICK l \in Nat :
        /\ DOMAIN readStore = 1..l /\ DOMAIN readStore' = 1..(l + 1)
        /\ readStore'[l + 1] = m
        /\ \A i \in 1..l : readStore'[i] = readStore[i]
  BY <1>2
<1>4. PICK old, new : /\ old = {n \in DOMAIN readStore : readStore[n] = x}
                      /\ new = {n \in DOMAIN readStore' : readStore'[n] = x}
  OBVIOUS
<1>5. IsFiniteSet(old) /\ Copies(x) = Cardinality(old) /\ Copies(x)' = Cardinality(new)
      /\ Copies(x) \in Nat
  BY <1>4, CopiesFinite DEF Copies
<1>6. CASE x = m
  <2>1. new = old \cup {l + 1} /\ l + 1 \notin old
    BY <1>3, <1>4, <1>6
  <2>2. Cardinality(new) = Cardinality(old) + 1
    BY <1>5, <2>1, FS_AddElement
  <2>3. QED BY <1>5, <1>6, <2>2
<1>7. CASE x # m
  <2>1. new = old
    BY <1>3, <1>4, <1>7
  <2>2. QED BY <1>5, <1>7, <2>1
<1>8. QED BY <1>6, <1>7

LEMMA CopiesInit == Init => CopiesInv
<1> SUFFICES ASSUME Init PROVE CopiesInv
  OBVIOUS
<1>1. OwnedIsAssigned
  BY DEF Init, OwnedIsAssigned
<1>2. WithinAssignments
  BY DEF Init, WithinAssignments
<1>3. OnceIfRefused
  BY DEF Init, OnceIfRefused
<1>4. QED BY <1>1, <1>2, <1>3 DEF CopiesInv

LEMMA OnceNext == TypeInv /\ OnceIfRefused /\ [Next]_vars => OnceIfRefused'
<1> SUFFICES ASSUME TypeInv, OnceIfRefused, [Next]_vars, deduplicates' PROVE OnceIfRefused'
  BY DEF OnceIfRefused
<1>1. deduplicates
  BY AppendStep
<1>2. ASSUME NEW m \in Message, ~ Stored(m), readStore' = Append(readStore, m)
      PROVE  OnceIfRefused'
  <2>1. readStore \in Seq(Message)
    BY DEF TypeInv, TypeOK
  <2>2. /\ DOMAIN readStore' = DOMAIN readStore \cup {Len(readStore) + 1}
        /\ readStore'[Len(readStore) + 1] = m
        /\ \A i \in DOMAIN readStore : readStore'[i] = readStore[i]
    BY <1>2, <2>1
  <2>3. \A i \in DOMAIN readStore : readStore[i] # m
    BY <1>2 DEF Stored, Range
  <2>4. QED BY <1>1, <2>2, <2>3 DEF OnceIfRefused
<1>3. CASE readStore' = readStore
  BY <1>1, <1>3 DEF OnceIfRefused
<1>4. QED BY <1>1, <1>2, <1>3, AppendStep, HandledType

LEMMA OwnedNext == TypeInv /\ OwnedIsAssigned /\ [Next]_vars => OwnedIsAssigned'
<1> SUFFICES ASSUME TypeInv, OwnedIsAssigned, [Next]_vars, NEW p \in Partition, owner'[p] # Nobody
             PROVE  assignments'[p] >= 1
  BY DEF OwnedIsAssigned
<1> USE DEF vars, emitVars, groupVars, readVars
<1>1. assignments \in [Partition -> Nat] /\ owner \in [Partition -> Consumer \cup {Nobody}]
  BY DEF TypeInv, TypeOK
<1>2. ASSUME NEW c \in Consumer, NEW q \in Partition, Assign(c, q) PROVE assignments'[p] >= 1
  <2>1. CASE p = q
    BY <1>1, <1>2, <2>1 DEF Assign
  <2>2. CASE p # q
    BY <1>1, <1>2, <2>2 DEF Assign, OwnedIsAssigned
  <2>3. QED BY <2>1, <2>2
<1>3. ASSUME NEW c \in Consumer, Disconnect(c) PROVE assignments'[p] >= 1
  BY <1>1, <1>3 DEF Disconnect, OwnedIsAssigned
<1>4. ASSUME NEW c \in Consumer, NEW q \in Partition, Consume(c, q) PROVE assignments'[p] >= 1
  BY <1>4 DEF Consume, Take, Materialize, MaterializeFails, Settle, OwnedIsAssigned
<1>5. CASE UNCHANGED groupVars
  BY <1>5 DEF OwnedIsAssigned
<1>6. QED BY <1>2, <1>3, <1>4, <1>5 DEF Next, GetLatestHash, Publish

\* What the end of eachMessage leaves of the deliveries of a message.
LEMMA SettledDelivery ==
  ASSUME TypeInv, NEW c \in Consumer, NEW q \in Partition, NEW r \in Offset,
         <<q, r>> \in handling[c], Settle(c, q, r),
         NEW p \in Partition, NEW o \in Offset
  PROVE  /\ Cardinality(Delivering(p, o))' =
              Cardinality(Delivering(p, o)) - (IF p = q /\ o = r THEN 1 ELSE 0)
         /\ Due(p, o)' => Due(p, o)
<1>1. /\ handling \in [Consumer -> SUBSET (Partition \X Offset)]
      /\ handling' = [handling EXCEPT ![c] = @ \ {<<q, r>>}]
      /\ position \in [Partition -> Offset]
      /\ UNCHANGED <<owner, topic>>
  BY DEF TypeInv, TypeOK, Settle, emitVars
<1>2. o \in Nat /\ r \in Nat /\ \A s \in Partition : position[s] \in Nat
  BY <1>1, ParameterTypes DEF Offset
<1>3. Cardinality(Delivering(p, o))' =
        Cardinality(Delivering(p, o)) - (IF p = q /\ o = r THEN 1 ELSE 0)
  <2>1. PICK old, new : old = Delivering(p, o) /\ new = Delivering(p, o)'
    OBVIOUS
  <2>2. IsFiniteSet(old) /\ Cardinality(old) \in Nat
    BY <2>1, DeliveringFinite
  <2>3. CASE p = q /\ o = r
    <3>1. new = old \ {c} /\ c \in old
      BY <1>1, <2>1, <2>3 DEF Delivering
    <3>2. QED BY <2>1, <2>2, <2>3, <3>1, FS_RemoveElement
  <2>4. CASE ~ (p = q /\ o = r)
    <3>1. new = old
      BY <1>1, <2>1, <2>4 DEF Delivering
    <3>2. QED BY <2>1, <2>2, <2>4, <3>1
  <2>5. QED BY <2>3, <2>4
<1>4. ASSUME Due(p, o)' PROVE Due(p, o)
  <2>1. owner[p] # Nobody /\ position'[p] <= o
        /\ ~ (position'[p] = o /\ <<p, o>> \in handling'[owner[p]])
    BY <1>1, <1>4 DEF Due
  <2>2. CASE owner[q] = c /\ position[q] = r
    <3>1. position' = [position EXCEPT ![q] = r + 1]
      BY <2>2 DEF Settle
    <3>2. CASE p = q
      <4>1. r + 1 <= o
        BY <1>1, <2>1, <3>1, <3>2
      <4>2. QED BY <1>2, <2>1, <2>2, <3>2, <4>1 DEF Due
    <3>3. CASE p # q
      <4>1. position'[p] = position[p]
        BY <1>1, <3>1, <3>3
      <4>2. <<p, o>> \in handling[owner[p]] => <<p, o>> \in handling'[owner[p]]
        BY <1>1, <3>3
      <4>3. QED BY <2>1, <4>1, <4>2 DEF Due
    <3>4. QED BY <3>2, <3>3
  <2>3. CASE ~ (owner[q] = c /\ position[q] = r)
    <3>1. position' = position
      BY <2>3 DEF Settle
    <3>2. position[p] = o /\ <<p, o>> \in handling[owner[p]] => <<p, o>> \in handling'[owner[p]]
      BY <1>1, <2>3
    <3>3. QED BY <2>1, <3>1, <3>2 DEF Due
  <2>4. QED BY <2>2, <2>3
<1>5. QED BY <1>3, <1>4

\* What Take adds to them.
LEMMA TakenDelivery ==
  ASSUME TypeInv, NEW c \in Consumer, NEW q \in Partition, Take(c, q),
         NEW p \in Partition, NEW o \in Offset
  PROVE  Cardinality(Delivering(p, o))' + (IF Due(p, o)' THEN 1 ELSE 0) =
           Cardinality(Delivering(p, o)) + (IF Due(p, o) THEN 1 ELSE 0)
<1>1. /\ handling \in [Consumer -> SUBSET (Partition \X Offset)]
      /\ handling' = [handling EXCEPT ![c] = @ \cup {<<q, position[q]>>}]
      /\ owner[q] = c /\ \A x \in handling[c] : x[1] # q
      /\ UNCHANGED <<owner, position, topic>>
  BY DEF TypeInv, TypeOK, Take
<1>2. position[q] \in Nat /\ c # Nobody /\ o \in Nat
  BY NobodyIsNoConsumer, ParameterTypes DEF TypeInv, TypeOK, Offset
<1>3. PICK old, new : old = Delivering(p, o) /\ new = Delivering(p, o)'
  OBVIOUS
<1>4. IsFiniteSet(old) /\ Cardinality(old) \in Nat
  BY <1>3, DeliveringFinite
<1>5. CASE p = q /\ o = position[q]
  <2>1. <<q, position[q]>> \notin handling[c]
    BY <1>1
  <2>2. new = old \cup {c} /\ c \notin old
    BY <1>1, <1>3, <1>5, <2>1 DEF Delivering
  <2>3. Cardinality(new) = Cardinality(old) + 1
    BY <1>4, <2>2, FS_AddElement
  <2>4. Due(p, o)
    BY <1>1, <1>2, <1>5, <2>1 DEF Due
  <2>5. ~ Due(p, o)'
    BY <1>1, <1>5 DEF Due
  <2>6. QED BY <1>3, <1>4, <2>3, <2>4, <2>5
<1>6. CASE ~ (p = q /\ o = position[q])
  <2>1. \A d \in Consumer : <<p, o>> \in handling'[d] <=> <<p, o>> \in handling[d]
    BY <1>1, <1>6
  <2>2. new = old
    BY <1>3, <2>1 DEF Delivering
  <2>3. Due(p, o)' <=> Due(p, o)
    <3>1. owner[p] # Nobody => owner[p] \in Consumer
      BY DEF TypeInv, TypeOK
    <3>2. QED BY <1>1, <2>1, <3>1 DEF Due
  <2>4. QED BY <1>3, <1>4, <2>2, <2>3
<1>7. QED BY <1>5, <1>6

\* A new owner is due each message at most once more.
LEMMA DeliveriesBound ==
  ASSUME NEW a \in Nat, NEW b \in Nat, NEW d, NEW e, NEW n \in Nat,
         a + b + (IF d THEN 1 ELSE 0) <= n
  PROVE  a + b + (IF e THEN 1 ELSE 0) <= n + 1
OBVIOUS

LEMMA WithinNext == GroupInv /\ CopiesInv /\ [Next]_vars => WithinAssignments'
<1> SUFFICES ASSUME GroupInv, CopiesInv, [Next]_vars,
                    NEW p \in Partition, NEW o \in DOMAIN topic'[p]
             PROVE  Deliveries(p, o)' <= assignments'[p]
  BY DEF WithinAssignments
<1> TypeInv /\ WithinAssignments /\ OwnedIsAssigned
  BY DEF GroupInv, CopiesInv
<1> USE DEF vars, emitVars, groupVars, readVars
<1>1. assignments \in [Partition -> Nat] /\ topic[p] \in Seq(Message)
      /\ assignments[p] \in Nat
  BY DEF TypeInv, TypeOK
<1>2. o \in DOMAIN topic[p] => o \in Offset
  <2>1. Len(topic[p]) \in Nat /\ Len(topic[p]) <= Len(published)
    BY <1>1 DEF TypeInv, OffsetsInTopic
  <2>2. QED BY <1>1, <2>1, PublishedBound, ParameterTypes DEF Offset
<1>3. PICK x : x = topic[p][o]
  OBVIOUS
<1>4. Copies(x) \in Nat /\ Cardinality(Delivering(p, o)) \in Nat
  BY CopiesFinite, DeliveringFinite
<1>5. o \in DOMAIN topic[p] =>
        Copies(x) + Cardinality(Delivering(p, o)) + (IF Due(p, o) THEN 1 ELSE 0) <= assignments[p]
  BY <1>3 DEF WithinAssignments, Deliveries
<1>6. ASSUME UNCHANGED <<topic, groupVars, readStore>> PROVE Deliveries(p, o)' <= assignments'[p]
  <2>1. Deliveries(p, o)' = Deliveries(p, o)
    BY <1>6 DEF Deliveries, Copies, Delivering, Due
  <2>2. QED BY <1>6, <2>1 DEF WithinAssignments
<1>7. ASSUME NEW t \in Tenant, NEW q \in Partition, Publish(t, q)
      PROVE  Deliveries(p, o)' <= assignments'[p]
  <2>1. UNCHANGED <<groupVars, readStore>>
    BY <1>7 DEF Publish
  <2>2. CASE o \in DOMAIN topic[p]
    <3>1. topic'[p][o] = topic[p][o]
      BY <2>2, TopicGrows
    <3>2. Deliveries(p, o)' = Deliveries(p, o)
      BY <2>1, <3>1 DEF Deliveries, Copies, Delivering, Due
    <3>3. QED BY <2>1, <2>2, <3>2 DEF WithinAssignments
  <2>3. CASE o \notin DOMAIN topic[p]
    <3>1. PICK y : y = topic'[p][o]
      OBVIOUS
    <3>2. y \notin Range(readStore)
      BY <1>7, <2>3, <3>1, NewInTopic DEF GroupInv, ReadStoreIsPublished
    <3>3. Copies(y) = 0
      <4>1. {n \in DOMAIN readStore : readStore[n] = y} = {}
        BY <3>2 DEF Range
      <4>2. QED BY <4>1, FS_EmptySet DEF Copies
    <3>4. Delivering(p, o) = {}
      <4>1. \A c \in Consumer : <<p, o>> \notin handling[c]
        BY <2>3, HandledType
      <4>2. QED BY <4>1 DEF Delivering
    <3>5. Cardinality(Delivering(p, o)) = 0
      BY <3>4, FS_EmptySet
    <3>6. Deliveries(p, o)' = Copies(y) + Cardinality(Delivering(p, o)) + (IF Due(p, o) THEN 1 ELSE 0)
      BY <2>1, <3>1 DEF Deliveries, Copies, Delivering, Due
    <3>7. Due(p, o) => assignments[p] >= 1
      BY DEF Due, OwnedIsAssigned
    <3>8. QED BY <1>1, <2>1, <3>3, <3>5, <3>6, <3>7
  <2>4. QED BY <2>2, <2>3
<1>8. ASSUME NEW c \in Consumer, NEW q \in Partition, Assign(c, q)
      PROVE  Deliveries(p, o)' <= assignments'[p]
  <2>1. UNCHANGED <<topic, handling, readStore>>
    BY <1>8 DEF Assign
  <2>2. Deliveries(p, o)' =
          Copies(x) + Cardinality(Delivering(p, o)) + (IF Due(p, o)' THEN 1 ELSE 0)
    BY <1>3, <2>1 DEF Deliveries, Copies, Delivering
  <2>3. CASE p = q
    <3>1. assignments'[p] = assignments[p] + 1
      BY <1>1, <1>8, <2>3 DEF Assign
    <3>2. QED BY <1>1, <1>4, <1>5, <2>1, <2>2, <3>1, DeliveriesBound
  <2>4. CASE p # q
    <3>1. owner \in [Partition -> Consumer \cup {Nobody}] /\ position \in [Partition -> Offset]
      BY DEF TypeInv, TypeOK
    <3>2. owner'[p] = owner[p] /\ position'[p] = position[p] /\ assignments'[p] = assignments[p]
      BY <1>1, <1>8, <2>4, <3>1 DEF Assign
    <3>3. Due(p, o)' <=> Due(p, o)
      BY <2>1, <3>2 DEF Due
    <3>4. QED BY <1>5, <2>1, <2>2, <3>2, <3>3
  <2>5. QED BY <2>3, <2>4
<1>9. ASSUME NEW c \in Consumer, Disconnect(c) PROVE Deliveries(p, o)' <= assignments'[p]
  <2>1. UNCHANGED <<topic, handling, readStore, position, assignments>>
    BY <1>9 DEF Disconnect
  <2>2. owner'[p] \in {owner[p], Nobody}
    BY <1>9 DEF Disconnect
  <2>3. Due(p, o)' => Due(p, o)
    BY <2>1, <2>2 DEF Due
  <2>4. Deliveries(p, o)' =
          Copies(x) + Cardinality(Delivering(p, o)) + (IF Due(p, o)' THEN 1 ELSE 0)
    BY <1>3, <2>1 DEF Deliveries, Copies, Delivering
  <2>5. QED BY <1>1, <1>4, <1>5, <2>1, <2>3, <2>4
<1>10. ASSUME NEW c \in Consumer, NEW q \in Partition, Take(c, q)
       PROVE  Deliveries(p, o)' <= assignments'[p]
  <2>1. UNCHANGED <<topic, readStore, assignments>>
    BY <1>10 DEF Take
  <2>2. PICK b, d : b = Cardinality(Delivering(p, o))' /\ d = Due(p, o)'
    OBVIOUS
  <2>3. b \in Nat
    <3>1. Delivering(p, o)' \in SUBSET Consumer
      BY DEF Delivering
    <3>2. IsFiniteSet(Delivering(p, o)')
      BY <3>1, ParameterTypes, FS_Subset
    <3>3. QED BY <2>2, <3>2, FS_CardinalityType
  <2>4. Deliveries(p, o)' = Copies(x) + b + (IF d THEN 1 ELSE 0)
    BY <1>3, <2>1, <2>2 DEF Deliveries, Copies
  <2>5. b + (IF d THEN 1 ELSE 0) = Cardinality(Delivering(p, o)) + (IF Due(p, o) THEN 1 ELSE 0)
    BY <1>2, <1>10, <2>1, <2>2, TakenDelivery
  <2>6. QED BY <1>1, <1>4, <1>5, <2>1, <2>3, <2>4, <2>5
<1>11. ASSUME NEW c \in Consumer, NEW q \in Partition, NEW r \in Offset,
              Materialize(c, q, r) \/ MaterializeFails(c, q, r)
       PROVE  Deliveries(p, o)' <= assignments'[p]
  <2>1. <<q, r>> \in handling[c] /\ Settle(c, q, r) /\ UNCHANGED <<topic, assignments>>
    BY <1>11 DEF Materialize, MaterializeFails, Settle
  <2>2. r \in DOMAIN topic[q] /\ topic[q][r] \in Message
    BY <2>1, HandledType
  <2>3. Copies(x)' \in {Copies(x), Copies(x) + (IF x = topic[q][r] THEN 1 ELSE 0)}
    <3>1. CASE readStore' = readStore
      BY <3>1 DEF Copies
    <3>2. CASE readStore' = Append(readStore, topic[q][r])
      BY <2>2, <3>2, CopiesAppend
    <3>3. QED BY <1>11, <3>1, <3>2 DEF Materialize, MaterializeFails, AppendToStore
  <2>4. x = topic[q][r] => p = q /\ o = r
    BY <1>3, <2>1, <2>2 DEF TypeInv, Placed
  <2>5. PICK b, d : b = Cardinality(Delivering(p, o))' /\ d = Due(p, o)'
    OBVIOUS
  <2>6. b = Cardinality(Delivering(p, o)) - (IF p = q /\ o = r THEN 1 ELSE 0) /\ (d => Due(p, o))
    BY <1>2, <2>1, <2>5, SettledDelivery
  <2>7. Deliveries(p, o)' = Copies(x)' + b + (IF d THEN 1 ELSE 0)
    BY <1>3, <2>1, <2>5 DEF Deliveries, Copies
  <2>8. Copies(x)' \in Nat /\ Copies(x)' + b <= Copies(x) + Cardinality(Delivering(p, o))
    <3>1. CASE p = q /\ o = r
      BY <1>4, <2>3, <2>6, <3>1
    <3>2. CASE ~ (p = q /\ o = r)
      BY <1>4, <2>3, <2>4, <2>6, <3>2
    <3>3. QED BY <3>1, <3>2
  <2>9. b \in Int
    BY <1>4, <2>6
  <2>10. QED BY <1>1, <1>4, <1>5, <2>1, <2>6, <2>7, <2>8, <2>9
<1>12. QED
  BY <1>6, <1>7, <1>8, <1>9, <1>10, <1>11 DEF Next, Consume, GetLatestHash

LEMMA CopiesCorrect == Spec => [](GroupInv /\ CopiesInv)
<1>1. GroupInv /\ CopiesInv /\ [Next]_vars => CopiesInv'
  BY OwnedNext, WithinNext, OnceNext DEF CopiesInv, GroupInv
<1>2. QED BY CopiesInit, <1>1, GroupCorrect, PTL DEF Spec

\* Whatever the group's owners do and however late a former owner is, a read store
\* that refuses duplicates holds an event once, and one that inserts always no more
\* often than the event's partition was assigned.
THEOREM CopiesBoundedByAssignments == Spec => []CopiesNeedAssignments
<1>1. GroupInv /\ CopiesInv => CopiesNeedAssignments
  <2> SUFFICES ASSUME GroupInv, CopiesInv, NEW p \in Partition, NEW o \in DOMAIN topic[p]
               PROVE  Copies(topic[p][o]) <= IF deduplicates THEN 1 ELSE assignments[p]
    BY DEF CopiesNeedAssignments
  <2> TypeInv
    BY DEF GroupInv
  <2>1. PICK x, rowsOf : x = topic[p][o] /\ rowsOf = {n \in DOMAIN readStore : readStore[n] = x}
    OBVIOUS
  <2>2. IsFiniteSet(rowsOf) /\ Copies(x) = Cardinality(rowsOf) /\ Copies(x) \in Nat
    BY <2>1, CopiesFinite DEF Copies
  <2>3. CASE deduplicates
    <3>1. \A i, j \in rowsOf : i = j
      BY <2>1, <2>3 DEF CopiesInv, OnceIfRefused
    <3>2. CASE rowsOf = {}
      BY <2>1, <2>2, <2>3, <3>2, FS_EmptySet
    <3>3. CASE rowsOf # {}
      <4>1. \E i : rowsOf = {i}
        BY <3>1, <3>3
      <4>2. Cardinality(rowsOf) = 1
        BY <4>1, FS_Singleton
      <4>3. QED BY <2>1, <2>2, <2>3, <4>2
    <3>4. QED BY <3>2, <3>3
  <2>4. CASE ~ deduplicates
    <3>1. Deliveries(p, o) <= assignments[p] /\ assignments[p] \in Nat
      BY DEF CopiesInv, WithinAssignments, TypeInv, TypeOK
    <3>2. Cardinality(Delivering(p, o)) \in Nat
      BY DeliveringFinite
    <3>3. QED BY <2>1, <2>2, <2>4, <3>1, <3>2 DEF Deliveries
  <2>5. QED BY <2>3, <2>4
<1>2. QED BY <1>1, CopiesCorrect, PTL

-----------------------------------------------------------------------------
(***************************************************************************)
(* The chain in the read store.                                            *)
(***************************************************************************)
\* Unless the store lagged, only the last published event can be missing in it.
LEMMA MissingIsLast ==
  ASSUME TypeInv, StoreFollowsChain, deduplicates, ~ lagged, NEW m \in Range(published), ~ Stored(m)
  PROVE  /\ ~ reading
         /\ Len(published) = Len(readStore) + 1
         /\ m = published[Len(published)]
<1>1. published \in Seq(Message) /\ readStore \in Seq(Message)
  BY DEF TypeInv, TypeOK
<1>2. PICK i \in DOMAIN published : published[i] = m
  BY DEF Range
<1>3. i \notin DOMAIN readStore
  BY <1>2 DEF StoreFollowsChain, Stored, Range
<1>4. QED BY <1>1, <1>2, <1>3 DEF StoreFollowsChain

\* A hash read while nothing is missing is that of the last published event.
LEMMA NothingMissing ==
  ASSUME TypeInv, StoreFollowsChain, deduplicates, ~ lagged, Range(published) \subseteq Range(readStore)
  PROVE  Len(readStore) = Len(published)
<1>1. published \in Seq(Message) /\ readStore \in Seq(Message)
  BY DEF TypeInv, TypeOK
<1>2. Len(readStore) <= Len(published)
  <2>1. \A n \in DOMAIN readStore : n \in DOMAIN published
    BY DEF StoreFollowsChain
  <2>2. CASE Len(readStore) = 0
    BY <1>1, <2>2
  <2>3. CASE Len(readStore) # 0
    BY <1>1, <2>1, <2>3
  <2>4. QED BY <2>2, <2>3
<1>3. Len(published) <= Len(readStore)
  <2>1. SUFFICES ASSUME Len(published) = Len(readStore) + 1 PROVE FALSE
    BY <1>1, <1>2 DEF StoreFollowsChain
  <2>2. Len(published) \in DOMAIN published
    BY <1>1, <2>1
  <2>3. PICK i \in DOMAIN readStore : readStore[i] = published[Len(published)]
    BY <2>2 DEF Range
  <2>4. i \in DOMAIN published /\ published[i] = published[Len(published)]
    BY <2>3 DEF StoreFollowsChain
  <2>5. i = Len(published)
    BY <2>2, <2>4 DEF TypeInv, Placed
  <2>6. QED BY <1>1, <2>1, <2>3, <2>5
<1>4. QED BY <1>1, <1>2, <1>3

LEMMA ChainNext == GroupInv /\ StoreFollowsChain /\ [Next]_vars => StoreFollowsChain'
<1> SUFFICES ASSUME GroupInv, StoreFollowsChain, [Next]_vars, deduplicates' PROVE StoreFollowsChain'
  BY DEF StoreFollowsChain
<1> TypeInv
  BY DEF GroupInv
<1> deduplicates
  BY AppendStep
<1> USE DEF vars, emitVars, groupVars, readVars
<1>1. published \in Seq(Message) /\ readStore \in Seq(Message)
  BY DEF TypeInv, TypeOK
<1>2. CASE GetLatestHash
  <2>1. SUFFICES ASSUME ~ lagged' PROVE StoreFollowsChain'
    BY DEF StoreFollowsChain
  <2>2. ~ lagged /\ Range(published) \subseteq Range(readStore)
    BY <1>2, <2>1 DEF GetLatestHash
  <2>3. Len(readStore) = Len(published)
    BY <2>2, NothingMissing
  <2>4. previousHash' = IF published = <<>> THEN Null ELSE HashOf(published[Len(published)])
    <3>1. CASE published = <<>>
      BY <1>1, <1>2, <2>3, <3>1 DEF GetLatestHash, LatestHashes
    <3>2. CASE published # <<>>
      <4>1. Len(readStore) \in DOMAIN readStore /\ readStore # <<>>
        BY <1>1, <2>3, <3>2
      <4>2. Last(readStore) = published[Len(published)]
        BY <2>2, <2>3, <4>1 DEF StoreFollowsChain, Last
      <4>3. QED BY <1>2, <3>2, <4>1, <4>2 DEF GetLatestHash, LatestHashes
    <3>3. QED BY <3>1, <3>2
  <2>5. UNCHANGED <<published, readStore>>
    BY <1>2 DEF GetLatestHash
  <2>6. QED BY <2>2, <2>3, <2>4, <2>5 DEF StoreFollowsChain
<1>3. ASSUME NEW t \in Tenant, NEW p \in Partition, Publish(t, p) PROVE StoreFollowsChain'
  <2> DEFINE m == NextMessage(t)
  <2>1. m.previousHash = previousHash
    BY DEF NextMessage
  <2>2. m \in Message /\ published' = Append(published, m)
    BY <1>3, PublishStep DEF Publish
  <2>3. reading /\ ~ reading' /\ UNCHANGED <<lagged, readStore>>
    BY <1>3 DEF Publish
  <2> HIDE DEF m
  <2>4. PICK n \in Nat :
          /\ n = Len(published) /\ Len(published') = n + 1
          /\ DOMAIN published = 1..n /\ DOMAIN published' = 1..(n + 1)
          /\ published'[n + 1] = m
          /\ \A i \in 1..n : published'[i] = published[i]
    BY <1>1, <2>2
  <2>5. SUFFICES ASSUME ~ lagged PROVE StoreFollowsChain'
    BY <2>3 DEF StoreFollowsChain
  <2>6. ASSUME NEW i \in 1..(n + 1)
        PROVE  published'[i].previousHash = IF i = 1 THEN Null ELSE HashOf(published'[i - 1])
    <3>1. CASE i \in 1..n
      <4>1. i # 1 => i - 1 \in 1..n
        BY <3>1
      <4>2. QED BY <2>4, <2>5, <3>1, <4>1 DEF StoreFollowsChain
    <3>2. CASE i = n + 1 /\ n = 0
      <4>1. published = <<>>
        BY <1>1, <2>4, <3>2
      <4>2. QED BY <2>1, <2>3, <2>4, <2>5, <3>2, <4>1 DEF StoreFollowsChain
    <3>3. CASE i = n + 1 /\ n # 0
      <4>1. published # <<>> /\ i - 1 = n /\ n \in 1..n /\ i # 1
        BY <1>1, <2>4, <3>3
      <4>2. QED BY <2>1, <2>3, <2>4, <2>5, <3>3, <4>1 DEF StoreFollowsChain
    <3>4. QED BY <3>1, <3>2, <3>3
  <2>7. \A i \in DOMAIN readStore : i \in DOMAIN published' /\ readStore[i] = published'[i]
    BY <2>4, <2>5 DEF StoreFollowsChain
  <2>8. Len(published') <= Len(readStore) + 1
    BY <2>3, <2>4, <2>5 DEF StoreFollowsChain
  <2>9. QED BY <2>3, <2>4, <2>6, <2>7, <2>8 DEF StoreFollowsChain
<1>4. ASSUME NEW m \in Message, m \in Range(published), ~ Stored(m),
             readStore' = Append(readStore, m), UNCHANGED emitVars
      PROVE  StoreFollowsChain'
  <2>1. SUFFICES ASSUME ~ lagged PROVE StoreFollowsChain'
    BY <1>4 DEF StoreFollowsChain
  <2>2. /\ ~ reading
        /\ Len(published) = Len(readStore) + 1
        /\ m = published[Len(published)]
    BY <1>4, <2>1, MissingIsLast
  <2>3. Len(readStore') = Len(published)
    BY <1>1, <1>4, <2>2
  <2>4. \A i \in DOMAIN readStore' : i \in DOMAIN published /\ readStore'[i] = published[i]
    <3>1. ASSUME NEW i \in DOMAIN readStore'
          PROVE  i \in DOMAIN published /\ readStore'[i] = published[i]
      <4>1. CASE i \in DOMAIN readStore
        BY <1>1, <1>4, <2>1, <4>1 DEF StoreFollowsChain
      <4>2. CASE i = Len(readStore) + 1
        BY <1>1, <1>4, <2>2, <4>2
      <4>3. QED BY <1>1, <1>4, <4>1, <4>2
    <3>2. QED BY <3>1
  <2>5. QED BY <1>1, <1>4, <2>1, <2>2, <2>3, <2>4 DEF StoreFollowsChain
<1>5. CASE UNCHANGED <<emitVars, readStore>>
  BY <1>5 DEF StoreFollowsChain
<1>6. ASSUME NEW c \in Consumer, NEW p \in Partition, NEW o \in Offset,
             Materialize(c, p, o) \/ MaterializeFails(c, p, o)
      PROVE  StoreFollowsChain'
  <2>1. UNCHANGED emitVars
    BY <1>6 DEF Materialize, MaterializeFails, Settle
  <2>2. <<p, o>> \in handling[c] => topic[p][o] \in Message /\ topic[p][o] \in Range(published)
    BY HandledType
  <2>3. CASE MaterializeFails(c, p, o)
    BY <1>5, <2>1, <2>3 DEF MaterializeFails
  <2>4. CASE Materialize(c, p, o)
    <3>1. <<p, o>> \in handling[c] /\ readStore' = AppendToStore(topic[p][o])
      BY <2>4 DEF Materialize
    <3>2. CASE Stored(topic[p][o])
      BY <1>5, <2>1, <3>1, <3>2 DEF AppendToStore
    <3>3. CASE ~ Stored(topic[p][o])
      BY <1>4, <2>1, <2>2, <3>1, <3>3 DEF AppendToStore
    <3>4. QED BY <3>2, <3>3
  <2>5. QED BY <1>6, <2>3, <2>4
<1>7. QED
  BY <1>2, <1>3, <1>5, <1>6 DEF Next, Consume, Assign, Take, Disconnect

\* A read store that deduplicates holds a chain in its own order unless a hash was
\* read while a published event was not materialised.
THEOREM ChainWithoutLag == Spec => []ChainUnlessLagged
<1>1. Init => StoreFollowsChain
  BY DEF Init, StoreFollowsChain
<1>2. GroupInv /\ StoreFollowsChain /\ [Next]_vars => StoreFollowsChain'
  BY ChainNext
<1>3. GroupInv /\ StoreFollowsChain => ChainUnlessLagged
  <2> SUFFICES ASSUME GroupInv, StoreFollowsChain, deduplicates, ~ lagged, NEW n \in DOMAIN readStore
               PROVE  readStore[n].previousHash =
                        IF n = 1 THEN Null ELSE HashOf(readStore[n - 1])
    BY DEF ChainUnlessLagged
  <2>1. readStore \in Seq(Message)
    BY DEF GroupInv, TypeInv, TypeOK
  <2>2. n # 1 => n - 1 \in DOMAIN readStore
    BY <2>1
  <2>3. QED BY <2>2 DEF StoreFollowsChain
<1>4. QED BY <1>1, <1>2, <1>3, GroupCorrect, PTL DEF Spec
-----------------------------------------------------------------------------
(***************************************************************************)
(* The event stores' reads.  First, enumerations: two sequences of the     *)
(* same elements, both in the order of an injective key, are the same.     *)
(***************************************************************************)
\* s gives the c elements of S, those of a lesser key first.
Sorts(s, c, S, key) ==
  /\ s \in [1..c -> S]
  /\ \A j, k \in 1..c : j < k => key[s[j]] < key[s[k]]
  /\ \A x \in S : \E k \in 1..c : s[k] = x

LEMMA OneEnumeration ==
  ASSUME NEW c \in Nat, NEW S, NEW key \in [S -> Int], NEW s, NEW t,
         Sorts(s, c, S, key), Sorts(t, c, S, key)
  PROVE  s = t
<1>a. /\ s \in [1..c -> S] /\ t \in [1..c -> S]
      /\ \A j, k \in 1..c : j < k => key[s[j]] < key[s[k]]
      /\ \A j, k \in 1..c : j < k => key[t[j]] < key[t[k]]
      /\ \A x \in S : \E k \in 1..c : s[k] = x
      /\ \A x \in S : \E k \in 1..c : t[k] = x
  BY DEF Sorts
<1> SUFFICES ASSUME NEW i \in 1..c, s[i] # t[i] PROVE FALSE
  BY <1>a
<1> DEFINE T == {k \in 1..c : s[k] # t[k]}
<1>1. PICK m \in T : \A k \in T : m <= k
  <2>1. T \subseteq Nat
    OBVIOUS
  <2>2. i \in T
    OBVIOUS
  <2> HIDE DEF T
  <2>3. QED BY <2>1, <2>2, LeastNat
<1>2. \A k \in 1..c : k < m => s[k] = t[k]
  <2>1. TAKE k \in 1..c
  <2>2. k \in T => m <= k
    BY <1>1
  <2>3. QED BY <1>1, <2>2
<1>3. PICK j \in 1..c : t[j] = s[m]
  BY <1>1, <1>a
<1>4. PICK k \in 1..c : s[k] = t[m]
  BY <1>1, <1>a
<1>5. j > m
  <2>1. j # m
    BY <1>1, <1>3
  <2>2. ~ (j < m)
    <3>1. SUFFICES ASSUME j < m PROVE FALSE
      OBVIOUS
    <3>2. s[j] = s[m] /\ key[s[j]] < key[s[m]]
      BY <1>1, <1>2, <1>3, <1>a, <3>1
    <3>3. key[s[m]] \in Int
      BY <1>1, <1>a
    <3>4. QED BY <3>2, <3>3
  <2>3. QED BY <1>1, <2>1, <2>2
<1>6. k > m
  <2>1. k # m
    BY <1>1, <1>4
  <2>2. ~ (k < m)
    <3>1. SUFFICES ASSUME k < m PROVE FALSE
      OBVIOUS
    <3>2. t[k] = t[m] /\ key[t[k]] < key[t[m]]
      BY <1>1, <1>2, <1>4, <1>a, <3>1
    <3>3. key[t[m]] \in Int
      BY <1>1, <1>a
    <3>4. QED BY <3>2, <3>3
  <2>3. QED BY <1>1, <2>1, <2>2
<1>7. key[t[m]] < key[s[m]] /\ key[s[m]] < key[t[m]]
  BY <1>1, <1>3, <1>4, <1>5, <1>6, <1>a
<1>8. key[t[m]] \in Int /\ key[s[m]] \in Int
  BY <1>1, <1>a
<1> HIDE DEF T
<1>9. \A x, y \in Int : ~ (x < y /\ y < x)
  OBVIOUS
<1>10. QED BY <1>7, <1>8, <1>9

\* s is the set ids, the lesser first.
Climbs(s, ids) ==
  /\ s \in [1..Cardinality(ids) -> ids]
  /\ \A j, k \in 1..Cardinality(ids) : j < k => s[j] < s[k]

\* A set of places among finitely many rows.
Places(ids) == \E n \in Nat : ids \subseteq 1..n

\* A set of places is finite.
LEMMA PlacesFinite ==
  ASSUME NEW ids, Places(ids)
  PROVE  IsFiniteSet(ids) /\ Cardinality(ids) \in Nat /\ \A x \in ids : x \in Nat \ {0}
<1>1. PICK n \in Nat : ids \subseteq 1..n
  BY DEF Places
<1>2. IsFiniteSet(1..n)
  BY FS_Interval
<1>3. IsFiniteSet(ids)
  BY <1>1, <1>2, FS_Subset
<1>4. \A x \in ids : x \in Nat \ {0}
  BY <1>1
<1>5. QED BY <1>3, <1>4, FS_CardinalityType

\* The places among the first n, and one more.
LEMMA PlacesUpTo ==
  ASSUME NEW n \in Nat, NEW ids, ids \subseteq 1..n
  PROVE  Places(ids) /\ Places(ids \cup {n + 1}) /\ n + 1 \notin ids /\ Cardinality(ids) <= n
<1>1. ids \cup {n + 1} \subseteq 1..(n + 1) /\ n + 1 \notin ids
  OBVIOUS
<1>2. IsFiniteSet(1..n) /\ Cardinality(1..n) = n
  BY FS_Interval
<1>3. Cardinality(ids) <= n
  BY <1>2, FS_Subset
<1>4. QED BY <1>1, <1>3 DEF Places

\* A climb is extended by a greater element.
LEMMA ClimbGoesOn ==
  ASSUME NEW n \in Nat, NEW ids, ids \subseteq 1..n, NEW s, Climbs(s, ids)
  PROVE  /\ Cardinality(ids \cup {n + 1}) = Cardinality(ids) + 1
         /\ Climbs([k \in 1..(Cardinality(ids) + 1) |->
                      IF k = Cardinality(ids) + 1 THEN n + 1 ELSE s[k]], ids \cup {n + 1})
<1>1. PICK c : c = Cardinality(ids)
  OBVIOUS
<1>2. c \in Nat /\ IsFiniteSet(ids) /\ n + 1 \notin ids
  BY <1>1, PlacesFinite, PlacesUpTo
<1>3. Cardinality(ids \cup {n + 1}) = c + 1
  BY <1>1, <1>2, FS_AddElement
<1> DEFINE t == [k \in 1..(c + 1) |-> IF k = c + 1 THEN n + 1 ELSE s[k]]
<1>4. s \in [1..c -> ids] /\ \A j, k \in 1..c : j < k => s[j] < s[k]
  BY <1>1 DEF Climbs
<1>5. t \in [1..(c + 1) -> ids \cup {n + 1}]
  BY <1>2, <1>4
<1>6. ASSUME NEW j \in 1..(c + 1), NEW k \in 1..(c + 1), j < k PROVE t[j] < t[k]
  <2>a. j \in 1..c /\ j # c + 1
    BY <1>2, <1>6
  <2>b. s[j] \in ids
    BY <1>4, <2>a
  <2>1. j \in 1..c /\ t[j] = s[j] /\ s[j] \in 1..n
    BY <2>a, <2>b
  <2>2. CASE k = c + 1
    BY <2>1, <2>2
  <2>3. CASE k # c + 1
    BY <1>2, <1>4, <1>6, <2>1, <2>3
  <2>4. QED BY <2>2, <2>3
<1> HIDE DEF t
<1>7. Climbs(t, ids \cup {n + 1})
  BY <1>3, <1>5, <1>6 DEF Climbs
<1>8. QED BY <1>1, <1>3, <1>7 DEF t

\* Ids can be given in the order of their insertion.
LEMMA ClimbExists ==
  ASSUME NEW ids, Places(ids)
  PROVE  \E s : Climbs(s, ids)
<1> DEFINE T == {m \in Nat : \A S \in SUBSET (1..m) : \E s : Climbs(s, S)}
<1>1. 0 \in T
  <2>1. SUFFICES ASSUME NEW S \in SUBSET (1..0) PROVE \E s : Climbs(s, S)
    OBVIOUS
  <2>a. S = {}
    OBVIOUS
  <2>2. S = {} /\ Cardinality(S) = 0
    BY <2>a, FS_EmptySet
  <2>3. <<>> \in [1..0 -> {}]
    OBVIOUS
  <2>4. Climbs(<<>>, S)
    BY <2>2, <2>3 DEF Climbs
  <2>5. QED BY <2>4
<1>2. ASSUME NEW m \in Nat, m \in T PROVE m + 1 \in T
  <2>1. SUFFICES ASSUME NEW S \in SUBSET (1..(m + 1)) PROVE \E s : Climbs(s, S)
    OBVIOUS
  <2>2. CASE m + 1 \in S
    <3>1. S \ {m + 1} \subseteq 1..m /\ S = (S \ {m + 1}) \cup {m + 1}
      BY <2>2
    <3>2. PICK s : Climbs(s, S \ {m + 1})
      BY <1>2, <3>1
    <3> DEFINE c == Cardinality(S \ {m + 1})
    <3>3. Climbs([k \in 1..(c + 1) |-> IF k = c + 1 THEN m + 1 ELSE s[k]], (S \ {m + 1}) \cup {m + 1})
      BY <3>1, <3>2, ClimbGoesOn
    <3> HIDE DEF c
    <3>4. QED BY <3>1, <3>3
  <2>3. CASE m + 1 \notin S
    <3>1. S \in SUBSET (1..m)
      BY <2>3
    <3>2. QED BY <1>2, <3>1
  <2>4. QED BY <2>2, <2>3
<1>3. Nat \subseteq T
  <2> HIDE DEF T
  <2>1. QED BY <1>1, <1>2, NatSetInduction
<1>4. QED BY <1>3 DEF Places

\* A climb leaves none of its elements out.
LEMMA ClimbIsOnto ==
  ASSUME NEW ids, Places(ids), NEW s, Climbs(s, ids)
  PROVE  \A x \in ids : \E k \in 1..Cardinality(ids) : s[k] = x
<1>1. PICK c \in Nat : c = Cardinality(ids)
  BY PlacesFinite
<1>2. s \in [1..c -> ids] /\ \A j, k \in 1..c : j < k => s[j] < s[k]
  BY <1>1 DEF Climbs
<1>3. ASSUME NEW j \in 1..c, NEW k \in 1..c, s[j] = s[k] PROVE j = k
  <2>1. s[j] \in ids /\ s[k] \in ids
    BY <1>2
  <2>2. s[j] \in Nat /\ s[k] \in Nat
    BY <2>1, PlacesFinite
  <2>3. ~ (j < k) /\ ~ (k < j)
    BY <1>2, <1>3, <2>2
  <2>4. QED BY <2>3
<1>4. s \in Injection(1..c, ids)
  BY <1>2, <1>3 DEF Injection, IsInjective
<1>5. IsFiniteSet(ids)
  BY PlacesFinite
<1>6. Cardinality(1..c) = c
  BY FS_Interval
<1>7. s \in Surjection(1..c, ids)
  BY <1>1, <1>4, <1>5, <1>6, FS_Injection
<1>8. QED BY <1>1, <1>7 DEF Surjection

\* The sequence that Ascending chooses exists.
LEMMA AscendingFacts ==
  ASSUME NEW ids, Places(ids)
  PROVE  /\ Cardinality(ids) \in Nat
         /\ Climbs(Ascending(ids), ids)
         /\ Ascending(ids) \in Seq(ids) /\ Len(Ascending(ids)) = Cardinality(ids)
         /\ DOMAIN Ascending(ids) = 1..Cardinality(ids)
         /\ \A x \in ids : \E k \in 1..Cardinality(ids) : Ascending(ids)[k] = x
<1>1. PICK c \in Nat : c = Cardinality(ids)
  BY PlacesFinite
<1>2. PICK s : Climbs(s, ids)
  BY ClimbExists
<1>3. PICK a : a = Ascending(ids)
  OBVIOUS
<1>4. a \in [1..c -> ids] /\ \A j, k \in DOMAIN a : j < k => a[j] < a[k]
  <2>1. s \in [1..c -> ids] /\ \A j, k \in DOMAIN s : j < k => s[j] < s[k]
    BY <1>1, <1>2 DEF Climbs
  <2>2. a = CHOOSE r \in [1..c -> ids] : \A j, k \in DOMAIN r : j < k => r[j] < r[k]
    BY <1>1, <1>3 DEF Ascending
  <2>3. QED BY <2>1, <2>2
<1>5. Climbs(a, ids)
  BY <1>1, <1>4 DEF Climbs
<1>6. a \in Seq(ids) /\ Len(a) = c
  BY <1>1, <1>4
<1>7. \A x \in ids : \E k \in 1..c : a[k] = x
  <2>1. \A x \in ids : \E k \in 1..Cardinality(ids) : a[k] = x
    BY <1>5, ClimbIsOnto
  <2>2. QED BY <1>1, <2>1
<1>8. QED BY <1>1, <1>3, <1>4, <1>5, <1>6, <1>7

\* A climb is in the order of the elements themselves.
LEMMA ClimbSorts ==
  ASSUME NEW ids, Places(ids), NEW t, Climbs(t, ids)
  PROVE  \A key \in [ids -> Int] :
           (\A x \in ids : key[x] = x) => Sorts(t, Cardinality(ids), ids, key)
<1>1. \A x \in ids : \E k \in 1..Cardinality(ids) : t[k] = x
  BY ClimbIsOnto
<1>2. /\ t \in [1..Cardinality(ids) -> ids]
      /\ \A j, k \in 1..Cardinality(ids) : j < k => t[j] < t[k]
  BY DEF Climbs
<1> SUFFICES ASSUME NEW key \in [ids -> Int], \A x \in ids : key[x] = x
             PROVE  Sorts(t, Cardinality(ids), ids, key)
  OBVIOUS
<1>3. \A j \in 1..Cardinality(ids) : key[t[j]] = t[j]
  BY <1>2
<1>4. \A j, k \in 1..Cardinality(ids) : j < k => key[t[j]] < key[t[k]]
  BY <1>2, <1>3
<1>5. QED BY <1>1, <1>2, <1>4 DEF Sorts

\* Nothing but Ascending(ids) gives the ids in that order.
LEMMA AscendingIs ==
  ASSUME NEW ids, Places(ids), NEW s, Climbs(s, ids)
  PROVE  s = Ascending(ids)
<1>1. Cardinality(ids) \in Nat
  BY PlacesFinite
<1>2. PICK key \in [ids -> Int] : \A x \in ids : key[x] = x
  <2>1. [x \in ids |-> x] \in [ids -> Int]
    BY PlacesFinite
  <2>2. QED BY <2>1
<1>3. Sorts(s, Cardinality(ids), ids, key)
  BY <1>2, ClimbSorts
<1>4. Climbs(Ascending(ids), ids)
  BY AscendingFacts
<1>5. Sorts(Ascending(ids), Cardinality(ids), ids, key)
  BY <1>2, <1>4, ClimbSorts
<1>6. QED BY <1>1, <1>3, <1>5, OneEnumeration

\* A greater id comes behind the others, which keep their places.
LEMMA AscendingAppend ==
  ASSUME NEW n \in Nat, NEW ids, ids \subseteq 1..n
  PROVE  /\ Cardinality(ids \cup {n + 1}) = Cardinality(ids) + 1
         /\ \A k \in 1..Cardinality(ids) : Ascending(ids \cup {n + 1})[k] = Ascending(ids)[k]
<1>0. Places(ids) /\ Places(ids \cup {n + 1})
  BY PlacesUpTo
<1>1. PICK c \in Nat : c = Cardinality(ids)
  BY <1>0, PlacesFinite
<1>2. PICK a : a = Ascending(ids)
  OBVIOUS
<1>3. Climbs(a, ids)
  BY <1>0, <1>2, AscendingFacts
<1> DEFINE t == [k \in 1..(c + 1) |-> IF k = c + 1 THEN n + 1 ELSE a[k]]
<1>4. Cardinality(ids \cup {n + 1}) = c + 1 /\ Climbs(t, ids \cup {n + 1})
  BY <1>1, <1>3, ClimbGoesOn
<1>6. t = Ascending(ids \cup {n + 1})
  <2> HIDE DEF t
  <2> QED BY <1>0, <1>4, AscendingIs
<1>7. \A k \in 1..c : t[k] = a[k]
  OBVIOUS
<1>8. QED BY <1>1, <1>2, <1>4, <1>6, <1>7

\* The event at place k of the order is the k-th of them to be inserted.
LEMMA AscendingRank ==
  ASSUME NEW ids, Places(ids), NEW k \in 1..Cardinality(ids)
  PROVE  Cardinality({j \in ids : j <= Ascending(ids)[k]}) = k
<1>1. PICK c \in Nat : c = Cardinality(ids)
  BY PlacesFinite
<1>2. PICK a : a = Ascending(ids)
  OBVIOUS
<1>3. /\ a \in [1..c -> ids] /\ \A i, j \in 1..c : i < j => a[i] < a[j]
      /\ \A x \in ids : \E j \in 1..c : a[j] = x
  BY <1>1, <1>2, AscendingFacts DEF Climbs
<1>4. \A j \in 1..c : a[j] \in Nat
  BY <1>3, PlacesFinite
<1>5. k \in 1..c
  BY <1>1
<1> DEFINE T == {j \in ids : j <= a[k]}
           b == [j \in 1..k |-> a[j]]
<1>6. ASSUME NEW j \in 1..k PROVE a[j] \in T
  <2>1. j \in 1..c /\ (j = k \/ j < k)
    BY <1>1, <1>5
  <2>2. a[j] \in ids /\ a[j] <= a[k]
    BY <1>3, <1>4, <1>5, <2>1
  <2>3. QED BY <2>2
<1>7. ASSUME NEW x \in T PROVE \E j \in 1..k : a[j] = x
  <2>1. PICK j \in 1..c : a[j] = x
    BY <1>3
  <2>2. ~ (k < j)
    <3>1. SUFFICES ASSUME k < j PROVE FALSE
      OBVIOUS
    <3>2. a[k] < a[j] /\ a[j] <= a[k]
      BY <1>3, <1>5, <2>1, <3>1
    <3>3. QED BY <1>4, <1>5, <2>1, <3>2
  <2>3. QED BY <1>5, <2>1, <2>2
<1>8. ASSUME NEW i \in 1..k, NEW j \in 1..k, a[i] = a[j] PROVE i = j
  <2>1. i \in 1..c /\ j \in 1..c
    BY <1>5
  <2>2. ~ (i < j) /\ ~ (j < i)
    BY <1>3, <1>4, <1>8, <2>1
  <2>3. QED BY <2>1, <2>2
<1> HIDE DEF T
<1>9. b \in Surjection(1..k, T)
  BY <1>6, <1>7 DEF Surjection
<1>10. b \in Injection(1..k, T)
  BY <1>6, <1>8 DEF Injection, IsInjective
<1> HIDE DEF b
<1>11. IsFiniteSet(1..k) /\ Cardinality(1..k) = k
  BY <1>5, FS_Interval
<1>12. Cardinality(T) = k
  BY <1>9, <1>10, <1>11, FS_Surjection
<1>13. QED BY <1>2, <1>12 DEF T

\* The order of all rows from one on.
LEMMA AscendingFrom ==
  ASSUME NEW n \in Nat, NEW from \in 1..(n + 1)
  PROVE  Ascending(from..n) = [k \in 1..(n - from + 1) |-> from + k - 1]
<1> DEFINE t == [k \in 1..(n - from + 1) |-> from + k - 1]
<1>1. from..n \subseteq 1..n
  OBVIOUS
<1>2. Places(from..n)
  BY <1>1, PlacesUpTo
<1>3. Cardinality(from..n) = n - from + 1
  <2>1. from \in Int /\ n \in Int
    OBVIOUS
  <2>2. Cardinality(from..n) = IF from > n THEN 0 ELSE n - from + 1
    BY <2>1, FS_Interval
  <2>3. QED BY <2>2
<1>4. t \in [1..(n - from + 1) -> from..n]
  OBVIOUS
<1>5. \A j, k \in 1..(n - from + 1) : j < k => t[j] < t[k]
  OBVIOUS
<1> HIDE DEF t
<1>6. Climbs(t, from..n)
  BY <1>3, <1>4, <1>5 DEF Climbs
<1>7. t = Ascending(from..n)
  BY <1>2, <1>6, AscendingIs
<1>8. QED BY <1>7 DEF t

\* An order of insertion goes through all of its ids, once each.
LEMMA InsertionOrderFacts ==
  ASSUME NEW ids, Places(ids), NEW o, NEW all, all = InsertionOrder(o, ids)
  PROVE  /\ Cardinality(ids) \in Nat
         /\ all \in Seq(ids) /\ Len(all) = Cardinality(ids) /\ DOMAIN all = 1..Cardinality(ids)
         /\ \A x \in ids : \E k \in 1..Cardinality(ids) : all[k] = x
<1>1. PICK c \in Nat : c = Cardinality(ids)
  BY PlacesFinite
<1>2. PICK a : a = Ascending(ids)
  OBVIOUS
<1>3. /\ a \in Seq(ids) /\ Len(a) = c /\ DOMAIN a = 1..c
      /\ \A x \in ids : \E k \in 1..c : a[k] = x
  BY <1>1, <1>2, AscendingFacts
<1>4. CASE o.order # "desc"
  BY <1>1, <1>2, <1>3, <1>4 DEF InsertionOrder
<1>5. CASE o.order = "desc"
  <2>1. all = [k \in 1..c |-> a[(c - k) + 1]]
    BY <1>2, <1>3, <1>5 DEF InsertionOrder, Reverse
  <2>2. \A k \in 1..c : a[(c - k) + 1] \in ids
    BY <1>3
  <2>3. all \in Seq(ids) /\ Len(all) = c /\ DOMAIN all = 1..c
    BY <2>1, <2>2
  <2>4. ASSUME NEW x \in ids PROVE \E k \in 1..c : all[k] = x
    <3>1. PICK j \in 1..c : a[j] = x
      BY <1>3
    <3>2. (c - j) + 1 \in 1..c /\ (c - ((c - j) + 1)) + 1 = j
      OBVIOUS
    <3>3. all[(c - j) + 1] = x
      BY <2>1, <3>1, <3>2
    <3>4. QED BY <3>2, <3>3
  <2>5. QED BY <1>1, <2>3, <2>4
<1>6. QED BY <1>4, <1>5

\* The page behind the offset: as many rows as the limit allows and there are.
LEMMA PageFacts ==
  ASSUME NEW S, NEW s \in Seq(S), NEW o, o.offset \in Nat, o.limit \in Nat \ {0}
  PROVE  /\ Page(s, o) \in Seq(S)
         /\ Len(Page(s, o)) = IF o.offset + o.limit < Len(s) THEN o.limit
                              ELSE IF o.offset < Len(s) THEN Len(s) - o.offset ELSE 0
         /\ \A j \in 1..Len(Page(s, o)) : o.offset + j \in 1..Len(s) /\ Page(s, o)[j] = s[o.offset + j]
<1>1. PICK f \in Nat, l \in Nat \ {0}, c \in Nat : f = o.offset /\ l = o.limit /\ c = Len(s)
  OBVIOUS
<1>2. PICK m : m = SmallerOf(f + l, c)
  OBVIOUS
<1>3. m \in Nat /\ m <= c /\ m <= f + l /\ (m = c \/ m = f + l)
  BY <1>1, <1>2 DEF SmallerOf
<1>4. Page(s, o) = SubSeq(s, f + 1, m)
  BY <1>1, <1>2 DEF Page
<1>5. \A i \in (f + 1)..m : s[i] \in S
  BY <1>1, <1>3
<1>6. /\ SubSeq(s, f + 1, m) \in Seq(S)
      /\ Len(SubSeq(s, f + 1, m)) = IF f + 1 <= m THEN m - (f + 1) + 1 ELSE 0
      /\ \A i \in 1..(m - (f + 1) + 1) : SubSeq(s, f + 1, m)[i] = s[(f + 1) + i - 1]
  <2>1. PICK g \in Nat : g = f + 1
    OBVIOUS
  <2>2. g \in Int /\ m \in Int /\ \A i \in g..m : s[i] \in S
    BY <1>3, <1>5, <2>1
  <2>3. /\ SubSeq(s, g, m) \in Seq(S)
        /\ Len(SubSeq(s, g, m)) = IF g <= m THEN m - g + 1 ELSE 0
        /\ \A i \in 1..(m - g + 1) : SubSeq(s, g, m)[i] = s[g + i - 1]
    BY <2>2, SubSeqProperties
  <2>4. QED BY <2>1, <2>3
<1>7. PICK p : p = Page(s, o)
  OBVIOUS
<1>8. Len(p) = IF f < m THEN m - f ELSE 0
  <2>1. (f + 1 <= m <=> f < m) /\ m - (f + 1) + 1 = m - f
    BY <1>3
  <2>2. QED BY <1>4, <1>6, <1>7, <2>1
<1>9. Len(p) = IF f + l < c THEN l ELSE IF f < c THEN c - f ELSE 0
  <2>1. m = IF f + l < c THEN f + l ELSE c
    BY <1>3
  <2>2. QED BY <1>8, <2>1
<1>10. ASSUME NEW j \in 1..Len(p) PROVE f + j \in 1..c /\ p[j] = s[f + j]
  <2>1. j \in Nat /\ 1 <= j /\ j <= m - f
    BY <1>3, <1>8
  <2>2. f + j \in 1..c /\ (f + 1) + j - 1 = f + j /\ j \in 1..(m - (f + 1) + 1)
    BY <1>3, <2>1
  <2>3. QED BY <1>4, <1>6, <1>7, <2>2
<1>11. p \in Seq(S)
  BY <1>4, <1>6, <1>7
<1>12. QED BY <1>1, <1>7, <1>9, <1>10, <1>11

-----------------------------------------------------------------------------
(***************************************************************************)
(* Where the stores agree: in any state of well-typed rows.                *)
(***************************************************************************)
\* The rows.
LEMMA RowsFacts ==
  ASSUME StoresTypeOK
  PROVE  /\ Len(rows) \in Nat /\ DOMAIN rows = 1..Len(rows)
         /\ \A n \in 1..Len(rows) : rows[n] \in Row /\ rows[n].occurredAt \in Nat
<1>1. Len(rows) \in Nat /\ DOMAIN rows = 1..Len(rows)
      /\ \A n \in 1..Len(rows) : rows[n] \in Row
  BY DEF StoresTypeOK
<1>2. MaxTime \in Nat
  BY StoresParameters
<1>3. \A r \in Row : r.occurredAt \in Nat
  BY <1>2 DEF Row, Time
<1>4. QED BY <1>1, <1>3

\* The matches are among the rows.
LEMMA MatchingFacts ==
  ASSUME StoresTypeOK, NEW st, NEW f, NEW o
  PROVE  Matching(st, f, o) \subseteq 1..Len(rows) /\ Places(Matching(st, f, o))
<1>1. Matching(st, f, o) \subseteq 1..Len(rows) /\ Len(rows) \in Nat
  BY RowsFacts DEF Matching
<1>2. QED BY <1>1 DEF Places

\* With a plain filter and plain options the stores match the same rows.
LEMMA PlainMatchesAgree ==
  ASSUME NEW f \in PlainFilters, NEW o \in PlainOptions
  PROVE  Matching("memory", f, o) = Matching("cockroach", f, o)
BY DEF Matching, Matches, MemoryMatches, CockroachMatches, ShadowAllows, PlainFilters, PlainOptions

\* StoresAgree follows from the types.
LEMMA StoresAgreeNow == ASSUME StoresTypeOK PROVE StoresAgree
<1> SUFFICES ASSUME NEW f \in PlainFilters, NEW o \in PlainOptions
             PROVE  /\ MemoryQuery(f, o).events = CockroachQuery(f, o).events
                    /\ MemoryQuery(f, o).hasMore = CockroachQuery(f, o).hasMore
                    /\ MemoryQuery(f, o).events # <<>> =>
                         MemoryQuery(f, o).totalCount = CockroachQuery(f, o).totalCount
  BY DEF StoresAgree
<1>1. PICK ids : ids = Matching("memory", f, o) /\ ids = Matching("cockroach", f, o)
  BY PlainMatchesAgree
<1>2. PICK all : all = InsertionOrder(o, ids)
  OBVIOUS
<1>3. Places(ids)
  BY <1>1, MatchingFacts
<1>4. all \in Seq(ids) /\ Len(all) \in Nat
  BY <1>2, <1>3, InsertionOrderFacts
<1>5. o.offset \in Nat /\ o.limit \in Nat \ {0}
  BY StoresParameters DEF PlainOptions, Options
<1>6. PICK p : p = Page(all, o)
  OBVIOUS
<1>7. Page(all, o) \in Seq(ids)
      /\ Len(Page(all, o)) = IF o.offset + o.limit < Len(all) THEN o.limit
                             ELSE IF o.offset < Len(all) THEN Len(all) - o.offset ELSE 0
  BY <1>4, <1>5, PageFacts
<1>8. p = <<>> => ~ (o.offset + o.limit < Len(all))
  BY <1>4, <1>5, <1>6, <1>7
<1>9. MemoryQuery(f, o) =
        [events |-> p, totalCount |-> Len(all), hasMore |-> o.offset + o.limit < Len(all)]
  BY <1>1, <1>2, <1>6 DEF MemoryQuery
<1>10. CockroachQuery(f, o) =
        [events |-> p, totalCount |-> IF p = <<>> THEN 0 ELSE Len(all),
         hasMore |-> o.offset + o.limit < (IF p = <<>> THEN 0 ELSE Len(all))]
  BY <1>1, <1>2, <1>6 DEF CockroachQuery
<1>11. ~ (o.offset + o.limit < 0)
  BY <1>5
<1>12. CASE p = <<>>
  BY <1>8, <1>9, <1>10, <1>11, <1>12
<1>13. CASE p # <<>>
  BY <1>9, <1>10, <1>13
<1>14. QED BY <1>12, <1>13

\* Without an order the chain's order is taken.
LEMMA FirstPageOrder == ASSUME NEW ids PROVE InsertionOrder(FirstPage, ids) = Ascending(ids)
BY AbsentIsNoOrder DEF InsertionOrder, FirstPage

\* getChain: the rows behind the first n - 1 are those from n on.
LEMMA ChainsAgree ==
  ASSUME StoresTypeOK, NEW from, from = Absent \/ from \in RowId, NEW limit
  PROVE  MemoryChain(from, limit) = CockroachChain(from, limit)
<1>1. PICK n \in Nat : n = Len(rows) /\ Ids = 1..n
  BY RowsFacts DEF Ids
<1>2. \A ids : InsertionOrder(FirstPage, ids) = Ascending(ids)
  BY FirstPageOrder
<1>3. CASE from = Absent
  <2>1. {k \in Ids : from = Absent \/ k >= from} = Ids
    BY <1>3
  <2>2. QED BY <1>3, <2>1 DEF MemoryChain, CockroachChain
<1>4. CASE from # Absent /\ from \notin Ids
  BY <1>4 DEF MemoryChain, CockroachChain
<1>5. CASE from # Absent /\ from \in Ids
  <2>1. from \in 1..n /\ from \in 1..(n + 1) /\ 1 \in 1..(n + 1)
    BY <1>1, <1>5
  <2>2. {k \in Ids : from = Absent \/ k >= from} = from..n
    BY <1>1, <1>5, <2>1
  <2>3. PICK all : all = Ascending(Ids)
    OBVIOUS
  <2>4. all = [k \in 1..n |-> k]
    <3>1. Ascending(1..n) = [k \in 1..(n - 1 + 1) |-> 1 + k - 1]
      BY <2>1, AscendingFrom
    <3>2. n - 1 + 1 = n /\ \A k \in 1..n : 1 + k - 1 = k
      OBVIOUS
    <3>3. QED BY <1>1, <2>3, <3>1, <3>2
  <2>5. Len(all) = n /\ \A i \in from..n : all[i] \in Nat /\ all[i] = i
    BY <2>1, <2>4
  <2>6. PICK a : a = SubSeq(all, from, n)
    OBVIOUS
  <2>7. a \in Seq(Nat) /\ Len(a) = n - from + 1 /\ \A i \in 1..(n - from + 1) : a[i] = all[from + i - 1]
    <3>1. from \in Int /\ n \in Int /\ from <= n
      BY <2>1
    <3>2. QED BY <2>5, <2>6, <3>1, SubSeqProperties
  <2>8. \A i \in 1..(n - from + 1) : a[i] = from + i - 1
    <3>1. TAKE i \in 1..(n - from + 1)
    <3>2. from + i - 1 \in from..n
      BY <2>1
    <3>3. QED BY <2>5, <2>7, <3>2
  <2>9. a = [k \in 1..(n - from + 1) |-> from + k - 1]
    <3>1. DOMAIN a = 1..(n - from + 1) /\ a = [k \in DOMAIN a |-> a[k]]
      BY <2>1, <2>7
    <3>2. QED BY <2>8, <3>1
  <2>10. Ascending(from..n) = [k \in 1..(n - from + 1) |-> from + k - 1]
    BY <2>1, AscendingFrom
  <2>11. a = Ascending(from..n)
    BY <2>9, <2>10
  <2>12. MemoryChain(from, limit) = Limited(a, limit)
    BY <1>2, <1>5, <2>3, <2>5, <2>6 DEF MemoryChain
  <2>13. CockroachChain(from, limit) = Limited(Ascending(from..n), limit)
    BY <1>2, <1>5, <2>2 DEF CockroachChain
  <2>14. QED BY <2>11, <2>12, <2>13
<1>6. QED BY <1>3, <1>4, <1>5

\* count.
LEMMA CountsAgree ==
  ASSUME StoresTypeOK, NEW f \in PlainFilters
  PROVE  /\ MemoryCount(f) = CockroachCount(f)
         /\ f.correlationId = Absent /\ f.eventTypes = Absent => ClickHouseCount(f) = MemoryCount(f)
<1>1. f.eventTypes # {}
  BY DEF PlainFilters
<1>2. FirstPage.shadowModeOnly = Absent /\ ~ FirstPage.excludeShadow
  BY DEF FirstPage
<1>3. {n \in Ids : MemoryMatches(f, FirstPage, rows[n])}
      = {n \in Ids : CockroachMatches(f, FirstPage, rows[n])}
  BY <1>1, <1>2 DEF MemoryMatches, CockroachMatches, ShadowAllows
<1>4. f.correlationId = Absent /\ f.eventTypes = Absent =>
        {n \in Ids : MemoryMatches(f, FirstPage, rows[n])}
        = {n \in Ids : ClickHouseMatches(f, FirstPage, rows[n])}
  BY <1>2 DEF MemoryMatches, ClickHouseMatches, ShadowAllows, SameCorrelation
<1>5. f = NoFilter => {n \in Ids : MemoryMatches(f, FirstPage, rows[n])} = Ids
  BY DEF NoFilter, MemoryMatches, SameCorrelation, SameAgent, InTime
<1>6. Cardinality(Ids) = Len(rows)
  <2>1. Ids = 1..Len(rows) /\ Len(rows) \in Nat
    BY RowsFacts DEF Ids
  <2>2. Cardinality(1..Len(rows)) = Len(rows)
    BY <2>1, FS_Interval
  <2>3. QED BY <2>1, <2>2
<1>7. MemoryCount(f) = Cardinality({n \in Ids : MemoryMatches(f, FirstPage, rows[n])})
  BY <1>5, <1>6 DEF MemoryCount
<1>8. QED BY <1>3, <1>4, <1>7 DEF CockroachCount, ClickHouseCount

\* In the order of their times, the first event is of the least time and the last
\* one of the greatest.
LEMMA EndsAreExtremes ==
  ASSUME StoresTypeOK, rows # <<>>, InTimeOrder
  PROVE  TimeOf(1) = Least /\ TimeOf(Len(rows)) = Greatest
<1>1. PICK n \in Nat : n = Len(rows) /\ Ids = 1..n /\ \A k \in 1..n : TimeOf(k) \in Nat
  BY RowsFacts DEF Ids, TimeOf
<1>2. n # 0 /\ 1 \in 1..n /\ n \in 1..n
  <2>1. n # 0
    BY <1>1, EmptySeq DEF StoresTypeOK
  <2>2. QED BY <2>1
<1>3. \A k \in 1..n : TimeOf(1) <= TimeOf(k) /\ TimeOf(k) <= TimeOf(n)
  <2>1. TAKE k \in 1..n
  <2>2. TimeOf(1) <= TimeOf(k)
    <3>1. k = 1 \/ 1 < k
      OBVIOUS
    <3>2. QED BY <1>1, <1>2, <3>1 DEF InTimeOrder
  <2>3. TimeOf(k) <= TimeOf(n)
    <3>1. k = n \/ k < n
      OBVIOUS
    <3>2. QED BY <1>1, <1>2, <3>1 DEF InTimeOrder
  <2>4. QED BY <2>2, <2>3
<1>4. \A t \in Times : t \in Nat /\ TimeOf(1) <= t /\ t <= TimeOf(n)
  BY <1>1, <1>3 DEF Times
<1>5. TimeOf(1) \in Times /\ TimeOf(n) \in Times
  BY <1>1, <1>2 DEF Times
<1>6. Least \in Times /\ \A u \in Times : Least <= u
  BY <1>4, <1>5 DEF Least
<1>7. Greatest \in Times /\ \A u \in Times : Greatest >= u
  BY <1>4, <1>5 DEF Greatest
<1>8. Least = TimeOf(1)
  <2>1. Least <= TimeOf(1) /\ TimeOf(1) <= Least
    BY <1>4, <1>5, <1>6
  <2>2. QED BY <1>4, <1>5, <1>6, <2>1
<1>9. Greatest = TimeOf(n)
  <2>1. TimeOf(n) <= Greatest /\ Greatest <= TimeOf(n)
    BY <1>4, <1>5, <1>7
  <2>2. QED BY <1>4, <1>5, <1>7, <2>1
<1>10. QED BY <1>1, <1>8, <1>9

\* getStats, by its fields.
LEMMA StatsFields ==
  ASSUME NEW g, NEW e, NEW m
  PROVE  /\ Counts(Stats(g, e, m)) =
              <<Len(rows), Tally([n \in Ids |-> TypeOfRow(n)]), Tally([n \in g |-> AgentOfRow(n)])>>
         /\ Ends(Stats(g, e, m)) = <<e[1], e[2]>>
         /\ Stats(g, e, m).byShadowMode = m
BY DEF Stats, Counts, Ends

LEMMA StatsAgree ==
  ASSUME StoresTypeOK
  PROVE  /\ Counts(MemoryStats) = Counts(CockroachStats)
         /\ InTimeOrder => Ends(MemoryStats) = Ends(CockroachStats)
         /\ WithAgent = Ids => Counts(ClickHouseStats) = Counts(CockroachStats)
         /\ rows # <<>> => Ends(ClickHouseStats) = Ends(CockroachStats)
<1>1. Counts(MemoryStats) = Counts(CockroachStats)
  BY StatsFields DEF MemoryStats, CockroachStats
<1>2. ASSUME InTimeOrder PROVE Ends(MemoryStats) = Ends(CockroachStats)
  <2>1. EndsOr(Absent, TimeOf(1), TimeOf(Len(rows))) = EndsOr(Absent, Least, Greatest)
    BY <1>2, EndsAreExtremes DEF EndsOr
  <2>2. PICK e : e = EndsOr(Absent, Least, Greatest)
    OBVIOUS
  <2>3. MemoryStats = Stats(WithAgent, e, Absent) /\ CockroachStats = Stats(WithAgent, e, ModesOfRows)
    BY <2>1, <2>2 DEF MemoryStats, CockroachStats
  <2>4. Ends(MemoryStats) = <<e[1], e[2]>>
    BY <2>3, StatsFields
  <2>5. Ends(CockroachStats) = <<e[1], e[2]>>
    BY <2>3, StatsFields
  <2>6. QED BY <2>4, <2>5
<1>3. ASSUME WithAgent = Ids PROVE Counts(ClickHouseStats) = Counts(CockroachStats)
  <2>1. PICK g, e1, e2 : g = Ids /\ e1 = EndsOr(Epoch, Least, Greatest) /\ e2 = EndsOr(Absent, Least, Greatest)
    OBVIOUS
  <2>2. ClickHouseStats = Stats(g, e1, Absent) /\ CockroachStats = Stats(g, e2, ModesOfRows)
    BY <1>3, <2>1 DEF ClickHouseStats, CockroachStats
  <2>3. QED BY <2>2, StatsFields
<1>4. ASSUME rows # <<>> PROVE Ends(ClickHouseStats) = Ends(CockroachStats)
  <2>1. EndsOr(Epoch, Least, Greatest) = EndsOr(Absent, Least, Greatest)
    BY <1>4 DEF EndsOr
  <2>2. PICK g, h, e : g = Ids /\ h = WithAgent /\ e = EndsOr(Absent, Least, Greatest)
    OBVIOUS
  <2>3. ClickHouseStats = Stats(g, e, Absent) /\ CockroachStats = Stats(h, e, ModesOfRows)
    BY <2>1, <2>2 DEF ClickHouseStats, CockroachStats
  <2>4. Ends(ClickHouseStats) = <<e[1], e[2]>>
    BY <2>3, StatsFields
  <2>5. Ends(CockroachStats) = <<e[1], e[2]>>
    BY <2>3, StatsFields
  <2>6. QED BY <2>4, <2>5
<1>5. QED BY <1>1, <1>2, <1>3, <1>4

\* The tally of the shadow modes is that of the rows a query of the mode matches.
LEMMA ModesAreMatches ==
  ASSUME StoresTypeOK, rows # <<>>
  PROVE  \A m \in DOMAIN CockroachStats.byShadowMode :
           LET o == [FirstPage EXCEPT !.shadowModeOnly = {m}] IN
             CockroachStats.byShadowMode[m] = Cardinality(Matching("cockroach", NoFilter, o))
<1>1. PICK modeOf : modeOf = [n \in Ids |-> ModeOfRow(n)]
  OBVIOUS
<1>2. CockroachStats.byShadowMode = Tally(modeOf)
  BY <1>1, StatsFields DEF CockroachStats, ModesOfRows
<1>3. SUFFICES ASSUME NEW m \in DOMAIN Tally(modeOf), NEW o, o = [FirstPage EXCEPT !.shadowModeOnly = {m}]
               PROVE  Tally(modeOf)[m] = Cardinality(Matching("cockroach", NoFilter, o))
  BY <1>2
<1>4. Tally(modeOf)[m] = Cardinality({n \in DOMAIN modeOf : modeOf[n] = m})
  BY DEF Tally
<1>5. {n \in DOMAIN modeOf : modeOf[n] = m} = {n \in DOMAIN rows : rows[n].kind.shadowMode = m}
  BY <1>1 DEF Ids, ModeOfRow
<1>6. {m} # Absent
  <2>1. PICK n \in Ids : m = ModeOfRow(n)
    BY <1>1, <1>3 DEF Tally
  <2>2. rows[n].kind \in Kind
    <3>1. rows \in Seq(Row) /\ n \in DOMAIN rows
      BY <2>1 DEF Ids, StoresTypeOK
    <3>2. rows[n] \in Row
      BY <3>1
    <3>3. QED BY <3>2 DEF Row
  <2>3. QED BY <2>1, <2>2, AbsentIsNoModes DEF ModeOfRow
<1>7. o.shadowModeOnly = {m} /\ o.excludeShadow = FALSE
  BY <1>3 DEF FirstPage
<1>8. \A n \in DOMAIN rows : Matches("cockroach", NoFilter, o, n) <=> rows[n].kind.shadowMode = m
  <2>1. TAKE n \in DOMAIN rows
  <2>2. SameCorrelation(NoFilter, rows[n]) /\ SameAgent(NoFilter, rows[n]) /\ InTime(NoFilter, rows[n])
    BY DEF SameCorrelation, SameAgent, InTime, NoFilter
  <2>3. NoFilter.eventTypes \in {Absent, {}}
    BY DEF NoFilter
  <2>4. ShadowAllows(o, rows[n]) <=> rows[n].kind.shadowMode = m
    BY <1>6, <1>7 DEF ShadowAllows
  <2>5. QED BY <2>2, <2>3, <2>4 DEF Matches, CockroachMatches
<1>9. QED BY <1>4, <1>5, <1>8 DEF Matching

\* getLatest.
LEMMA LatestAgrees ==
  ASSUME StoresTypeOK, StrictlyInTimeOrder
  PROVE  ClickHouseLatest = LatestRow
<1>1. PICK n \in Nat : n = Len(rows) /\ Ids = 1..n /\ \A k \in 1..n : TimeOf(k) \in Nat
  BY RowsFacts DEF Ids, TimeOf
<1>2. rows = <<>> <=> n = 0
  BY <1>1, EmptySeq DEF StoresTypeOK
<1>3. \A j, k \in 1..n : j < k => TimeOf(j) < TimeOf(k)
  <2>1. SUFFICES ASSUME NEW j \in 1..n, NEW k \in 1..n, j < k PROVE TimeOf(j) < TimeOf(k)
    OBVIOUS
  <2>2. TimeOf(j) <= TimeOf(k) /\ TimeOf(j) # TimeOf(k)
    BY <1>1, <2>1 DEF StrictlyInTimeOrder, InTimeOrder, DistinctTimes, TimeOf
  <2>3. QED BY <1>1, <2>2
<1>4. CASE n = 0
  BY <1>1, <1>2, <1>4 DEF ClickHouseLatest, LatestRow
<1>5. CASE n # 0
  <2>1. n \in 1..n
    BY <1>5
  <2>2. \A j \in 1..n : TimeOf(j) <= TimeOf(n)
    <3>1. TAKE j \in 1..n
    <3>2. j = n \/ j < n
      OBVIOUS
    <3>3. QED BY <1>1, <1>3, <2>1, <3>2
  <2>3. ASSUME NEW k \in 1..n, \A j \in 1..n : TimeOf(j) <= TimeOf(k) PROVE k = n
    <3>1. ~ (k < n)
      BY <1>1, <1>3, <2>1, <2>3
    <3>2. QED BY <3>1
  <2>4. ClickHouseLatest = {n}
    BY <1>1, <2>1, <2>2, <2>3 DEF ClickHouseLatest
  <2>5. QED BY <1>1, <1>2, <1>5, <2>4 DEF LatestRow
<1>6. QED BY <1>4, <1>5

-----------------------------------------------------------------------------
(***************************************************************************)
(* The orders by time, of which ClickHouse gives any: they hold each match *)
(* once, and there is but one if no two matches have the same time.        *)
(***************************************************************************)
\* s holds each of the ids once.
Enumerates(s, ids) ==
  /\ s \in [1..Cardinality(ids) -> ids]
  /\ \A j, k \in 1..Cardinality(ids) : j # k => s[j] # s[k]
  /\ \A x \in ids : \E k \in 1..Cardinality(ids) : s[k] = x

\* An order by time goes through all of its ids, once each.
LEMMA TimeOrderFacts ==
  ASSUME NEW ids, Places(ids), NEW o, NEW s \in TimeOrders(o, ids)
  PROVE  /\ Enumerates(s, ids)
         /\ s \in Seq(ids) /\ Len(s) = Cardinality(ids) /\ DOMAIN s = 1..Cardinality(ids)
<1>1. PICK c \in Nat : c = Cardinality(ids)
  BY PlacesFinite
<1>2. s \in [1..c -> ids] /\ \A j, k \in 1..c : j # k => s[j] # s[k]
  BY <1>1 DEF TimeOrders, SetToSeqs
<1>3. s \in Injection(1..c, ids)
  BY <1>2 DEF Injection, IsInjective
<1>4. Cardinality(1..c) = c /\ IsFiniteSet(ids)
  BY FS_Interval, PlacesFinite
<1>5. s \in Surjection(1..c, ids)
  BY <1>1, <1>3, <1>4, FS_Injection
<1>6. s \in Seq(ids) /\ Len(s) = c /\ DOMAIN s = 1..c
  BY <1>2
<1>7. Enumerates(s, ids)
  BY <1>1, <1>2, <1>5 DEF Enumerates, Surjection
<1>8. QED BY <1>1, <1>6, <1>7

\* If all times differ there is one order by time.
LEMMA OneTimeOrder ==
  ASSUME StoresTypeOK, NEW ids, ids \subseteq 1..Len(rows), DistinctTimes(ids), NEW o,
         NEW s \in TimeOrders(o, ids), NEW t \in TimeOrders(o, ids)
  PROVE  s = t
<1>1. \A x \in ids : rows[x].occurredAt \in Nat
  BY RowsFacts
<1>2. Places(ids)
  BY RowsFacts DEF Places
<1>3. PICK c \in Nat : c = Cardinality(ids)
  BY <1>2, PlacesFinite
<1> DEFINE key == [x \in ids |-> IF o.order = "asc" THEN rows[x].occurredAt ELSE 0 - rows[x].occurredAt]
<1>4. key \in [ids -> Int]
  BY <1>1
<1>5. ASSUME NEW r \in TimeOrders(o, ids) PROVE Sorts(r, c, ids, key)
  <2>1. /\ r \in [1..c -> ids] /\ DOMAIN r = 1..c
        /\ \A j, k \in 1..c : j # k => r[j] # r[k]
        /\ \A x \in ids : \E k \in 1..c : r[k] = x
    <3>1. Enumerates(r, ids)
      BY <1>2, TimeOrderFacts
    <3>2. QED BY <1>3, <3>1 DEF Enumerates
  <2>2. ASSUME NEW j \in 1..c, NEW k \in 1..c, j < k PROVE key[r[j]] < key[r[k]]
    <3>1. r[j] \in ids /\ r[k] \in ids /\ r[j] # r[k]
      BY <2>1, <2>2
    <3>2. rows[r[j]].occurredAt # rows[r[k]].occurredAt
      BY <3>1 DEF DistinctTimes
    <3>3. IF o.order = "asc" THEN rows[r[j]].occurredAt <= rows[r[k]].occurredAt
          ELSE rows[r[j]].occurredAt >= rows[r[k]].occurredAt
      BY <2>1, <2>2 DEF TimeOrders
    <3>4. PICK x \in Nat, y \in Nat : x = rows[r[j]].occurredAt /\ y = rows[r[k]].occurredAt
      BY <1>1, <3>1
    <3>5. CASE o.order = "asc"
      <4>1. x < y
        BY <3>2, <3>3, <3>4, <3>5
      <4>2. QED BY <3>1, <3>4, <3>5, <4>1
    <3>6. CASE o.order # "asc"
      <4>1. 0 - x < 0 - y
        BY <3>2, <3>3, <3>4, <3>6
      <4>2. QED BY <3>1, <3>4, <3>6, <4>1
    <3>7. QED BY <3>5, <3>6
  <2> HIDE DEF key
  <2>3. QED BY <2>1, <2>2 DEF Sorts
<1> HIDE DEF key
<1>6. QED BY <1>4, <1>5, OneEnumeration

\* getByAgentId, the latest first.
LEMMA LatestOfAgentAgree ==
  ASSUME StoresTypeOK, StrictlyInTimeOrder, NEW a, NEW o \in PlainOptions,
         o.order = "desc", o.offset = 0
  PROVE  ClickHouseByAgentId(a, o) = {ByAgentId(a, o)}
<1>1. /\ OfAgent(a).from = Absent /\ OfAgent(a).to = Absent /\ OfAgent(a).agentId = a
      /\ OfAgent(a).eventTypes = Absent /\ OfAgent(a).correlationId = Absent
  BY DEF OfAgent, NoFilter
<1>2. PICK ids : ids = Matching("memory", OfAgent(a), o)
  OBVIOUS
<1>3. Matching("clickhouse", OfAgent(a), FirstPage) = ids
  <2>1. FirstPage.shadowModeOnly = Absent /\ ~ FirstPage.excludeShadow
    BY DEF FirstPage
  <2>2. \A r : MemoryMatches(OfAgent(a), o, r) <=> ClickHouseMatches(OfAgent(a), FirstPage, r)
    BY <1>1, <2>1 DEF MemoryMatches, ClickHouseMatches, SameCorrelation, ShadowAllows
  <2>3. QED BY <1>2, <2>2 DEF Matching, Matches
<1>4. ids \subseteq 1..Len(rows) /\ Places(ids)
  BY <1>2, MatchingFacts
<1>5. [o EXCEPT !.order = "desc"] = o /\ [o EXCEPT !.offset = 0] = o
  BY DEF PlainOptions, Options
<1>6. PICK c \in Nat : c = Cardinality(ids)
  BY <1>4, PlacesFinite
<1>7. PICK s : s = Ascending(ids)
  OBVIOUS
<1>8. /\ s \in [1..c -> ids] /\ Len(s) = c
      /\ \A j, k \in 1..c : j < k => s[j] < s[k]
  BY <1>4, <1>6, <1>7, AscendingFacts DEF Climbs
<1>9. PICK all : all = InsertionOrder(o, ids)
  OBVIOUS
<1>10. all = [k \in 1..c |-> s[(c - k) + 1]]
  BY <1>7, <1>8, <1>9 DEF InsertionOrder, Reverse
<1>11. \A k \in 1..c : (c - k) + 1 \in 1..c
  OBVIOUS
<1>12. all \in [1..c -> ids]
  BY <1>8, <1>10, <1>11
<1>13. \A k \in 1..c : all[k] \in 1..Len(rows)
  BY <1>4, <1>12
<1>14. ASSUME NEW j \in 1..c, NEW k \in 1..c, j < k PROVE all[k] < all[j]
  <2>1. (c - k) + 1 < (c - j) + 1
    BY <1>14
  <2>2. QED BY <1>8, <1>10, <1>11, <2>1
<1>15. \A j, k \in 1..c : j # k => all[j] # all[k]
  <2>1. SUFFICES ASSUME NEW j \in 1..c, NEW k \in 1..c, j # k PROVE all[j] # all[k]
    OBVIOUS
  <2>2. j < k \/ k < j
    BY <2>1
  <2>3. all[j] \in Int /\ all[k] \in Int /\ (all[k] < all[j] \/ all[j] < all[k])
    BY <1>13, <1>14, <2>2
  <2>4. QED BY <2>3
<1>16. all \in SetToSeqs(ids)
  BY <1>6, <1>12, <1>15 DEF SetToSeqs
<1>17. \A j, k \in DOMAIN all : j < k => rows[all[j]].occurredAt >= rows[all[k]].occurredAt
  <2>1. SUFFICES ASSUME NEW j \in 1..c, NEW k \in 1..c, j < k
                 PROVE  rows[all[j]].occurredAt >= rows[all[k]].occurredAt
    BY <1>12
  <2>2. all[k] < all[j] /\ all[k] \in 1..Len(rows) /\ all[j] \in 1..Len(rows)
    BY <1>13, <1>14, <2>1
  <2>3. Ids = 1..Len(rows) /\ rows[all[k]].occurredAt \in Nat /\ rows[all[j]].occurredAt \in Nat
    BY <2>2, RowsFacts DEF Ids
  <2>4. rows[all[k]].occurredAt <= rows[all[j]].occurredAt
    BY <2>2, <2>3 DEF StrictlyInTimeOrder, InTimeOrder, TimeOf
  <2>5. QED BY <2>3, <2>4
<1>18. all \in TimeOrders(o, ids)
  BY <1>16, <1>17 DEF TimeOrders
<1>19. DistinctTimes(ids)
  BY <1>4, RowsFacts DEF StrictlyInTimeOrder, DistinctTimes, Ids
<1>20. TimeOrders(o, ids) = {all}
  <2>1. ASSUME NEW t \in TimeOrders(o, ids) PROVE t = all
    BY <1>4, <1>18, <1>19, OneTimeOrder
  <2>2. QED BY <1>18, <2>1
<1>21. ByAgentId(a, o) = Page(all, o)
  BY <1>2, <1>9 DEF ByAgentId, MemoryQuery
<1>22. ClickHouseByAgentId(a, o) = {Page(s1, o) : s1 \in TimeOrders(o, ids)}
  BY <1>3, <1>5 DEF ClickHouseByAgentId
<1>23. QED BY <1>20, <1>21, <1>22

\* ReadsAgree follows from the types.
LEMMA ReadsAgreeNow == ASSUME StoresTypeOK PROVE ReadsAgree
<1>1. \A from \in RowId \cup {Absent}, limit \in 0..MaxRows :
        MemoryChain(from, limit) = CockroachChain(from, limit)
  BY ChainsAgree
<1>2. \A f \in PlainFilters :
        /\ MemoryCount(f) = CockroachCount(f)
        /\ f.correlationId = Absent /\ f.eventTypes = Absent => ClickHouseCount(f) = MemoryCount(f)
  BY CountsAgree
<1>3. StrictlyInTimeOrder =>
        \A a \in {AgentOfRow(n) : n \in WithAgent}, o \in PlainOptions :
          o.order = "desc" /\ o.offset = 0 => ClickHouseByAgentId(a, o) = {ByAgentId(a, o)}
  BY LatestOfAgentAgree
<1>4. QED BY <1>1, <1>2, <1>3, StatsAgree, ModesAreMatches, LatestAgrees DEF ReadsAgree

-----------------------------------------------------------------------------
(***************************************************************************)
(* The walk through the pages.  The invariant says of a walk what of the   *)
(* order it goes through is in its pages and what lies behind its offset:  *)
(* rows that are appended move the matches behind the offset back, never   *)
(* before it.                                                              *)
(***************************************************************************)
\* The trace that getTrace gives of the matches ids.
TraceOf(ids) == Page(Ascending(ids), [FirstPage EXCEPT !.order = "asc", !.limit = DefaultLimit])

\* What walk w goes through, if its matches are ids: one order, or with ClickHouse
\* any by time.
Orders(w, ids) ==
  IF w.store = "clickhouse" THEN TimeOrders(w.options, ids)
  ELSE {IF w.store = "trace" THEN TraceOf(ids) ELSE InsertionOrder(w.options, ids)}

MatchesOf(w) == Matching(w.store, w.filter, w.options)

\* The walks of which it is claimed that they miss nothing, and what they are to find.
Claimed(w) == w.store # "clickhouse" \/ (w.quiet /\ DistinctTimes(w.present))

Sought(w) ==
  IF w.store = "trace"
  THEN {n \in w.present : Cardinality({j \in w.present : j <= n}) <= DefaultLimit}
  ELSE w.present

ToCome(w, n) ==
  \A all \in Orders(w, MatchesOf(w)) : \E k \in DOMAIN all : k > w.options.offset /\ all[k] = n

NothingPassed(w) ==
  Claimed(w) => \A n \in Sought(w) : n \in Range(w.found) \/ (w.step # "done" /\ ToCome(w, n))

\* Upwards, the pages are the beginning of the order.
PagesBegin(w) ==
  w.store # "clickhouse" /\ w.options.order # "desc" =>
    \A all \in Orders(w, MatchesOf(w)) : \A k \in DOMAIN w.found : k \in DOMAIN all /\ w.found[k] = all[k]

\* The page that ClickHouse has given and not counted yet, or its count without a page.
PageStands(w) ==
  /\ w.step \in {"counting", "counted"} => w.store = "clickhouse"
  /\ w.step = "counting" /\ Claimed(w) =>
       \E all \in Orders(w, MatchesOf(w)) : w.page = Page(all, w.options)
  /\ w.step = "counted" /\ w.quiet => w.total = Cardinality(MatchesOf(w))
  /\ w.step # "counting" => w.page = <<>>

WalkSound(w) ==
  /\ w.options.offset = Len(w.found)
  /\ w.options.offset + Len(w.page) <= Len(rows)
  /\ w.present \subseteq MatchesOf(w)
  /\ w.quiet => w.present = MatchesOf(w)
  /\ w.store = "trace" => TraceAsked(w.filter, w.options)
  /\ w.step # "idle" => NothingPassed(w) /\ PagesBegin(w)
  /\ PageStands(w)

WalkInv == StoresTypeOK /\ WalkSound(walk)

-----------------------------------------------------------------------------
\* The types of a walk's fields.
LEMMA WalkFacts ==
  ASSUME NEW w \in WalkState
  PROVE  /\ w.options \in Options /\ w.options.offset \in Nat /\ w.options.limit \in Nat \ {0}
         /\ w.found \in Seq(RowId) /\ w.page \in Seq(RowId) /\ Len(w.found) \in Nat /\ Len(w.page) \in Nat
         /\ w.store \in Source /\ w.filter \in Filter
         /\ w.quiet \in BOOLEAN /\ w.present \in SUBSET RowId
<1>1. w.options \in Options /\ w.found \in Seq(RowId) /\ w.page \in Seq(RowId)
      /\ w.store \in Source /\ w.filter \in Filter /\ w.quiet \in BOOLEAN /\ w.present \in SUBSET RowId
  BY DEF WalkState
<1>2. w.options.offset \in Nat /\ w.options.limit \in Nat \ {0}
  BY <1>1, StoresParameters DEF Options
<1>3. QED BY <1>1, <1>2

\* A trace is the order of its matches as far as the default limit.
LEMMA TraceFacts ==
  ASSUME NEW ids, Places(ids)
  PROVE  /\ TraceOf(ids) \in Seq(ids)
         /\ Len(TraceOf(ids)) = IF DefaultLimit < Cardinality(ids) THEN DefaultLimit ELSE Cardinality(ids)
         /\ \A k \in 1..Len(TraceOf(ids)) : k \in 1..Cardinality(ids) /\ TraceOf(ids)[k] = Ascending(ids)[k]
<1>1. PICK o : o = [FirstPage EXCEPT !.order = "asc", !.limit = DefaultLimit]
  OBVIOUS
<1>2. o.offset = 0 /\ o.limit = DefaultLimit
  BY <1>1 DEF FirstPage
<1>3. DefaultLimit \in Nat \ {0} /\ o.offset \in Nat /\ o.limit \in Nat \ {0}
  BY <1>2, StoresParameters
<1>4. PICK a : a = Ascending(ids)
  OBVIOUS
<1>5. a \in Seq(ids) /\ Len(a) = Cardinality(ids) /\ Cardinality(ids) \in Nat
  BY <1>4, AscendingFacts
<1>6. /\ Page(a, o) \in Seq(ids)
      /\ Len(Page(a, o)) = IF o.offset + o.limit < Len(a) THEN o.limit
                           ELSE IF o.offset < Len(a) THEN Len(a) - o.offset ELSE 0
      /\ \A j \in 1..Len(Page(a, o)) : o.offset + j \in 1..Len(a) /\ Page(a, o)[j] = a[o.offset + j]
  BY <1>3, <1>5, PageFacts
<1>7. TraceOf(ids) = Page(a, o)
  BY <1>1, <1>4 DEF TraceOf
<1>8. Len(Page(a, o)) = IF DefaultLimit < Cardinality(ids) THEN DefaultLimit ELSE Cardinality(ids)
  BY <1>2, <1>3, <1>5, <1>6
<1>9. \A j \in 1..Len(Page(a, o)) : j \in 1..Cardinality(ids) /\ Page(a, o)[j] = a[j]
  <2>1. TAKE j \in 1..Len(Page(a, o))
  <2>2. 0 + j = j
    OBVIOUS
  <2>3. QED BY <1>2, <1>5, <1>6, <2>2
<1>10. QED BY <1>4, <1>6, <1>7, <1>8, <1>9

\* An order goes through matches only, and through each of them but for those of a
\* trace behind the default limit.
LEMMA OrderFacts ==
  ASSUME NEW w, NEW ids, Places(ids), NEW all \in Orders(w, ids)
  PROVE  /\ all \in Seq(ids) /\ Len(all) \in Nat /\ Len(all) <= Cardinality(ids)
         /\ Cardinality(ids) \in Nat /\ DOMAIN all = 1..Len(all)
         /\ w.store # "trace" => Len(all) = Cardinality(ids)
         /\ w.store # "trace" => \A n \in ids : \E k \in DOMAIN all : all[k] = n
         /\ w.store = "trace" =>
              \A n \in ids : Cardinality({j \in ids : j <= n}) <= DefaultLimit =>
                \E k \in DOMAIN all : all[k] = n
<1>1. Cardinality(ids) \in Nat
  BY PlacesFinite
<1>2. CASE w.store = "clickhouse"
  <2>1. all \in TimeOrders(w.options, ids)
    BY <1>2 DEF Orders
  <2>2. all \in Seq(ids) /\ Len(all) = Cardinality(ids) /\ DOMAIN all = 1..Cardinality(ids)
    BY <2>1, TimeOrderFacts
  <2>3. Enumerates(all, ids)
    BY <2>1, TimeOrderFacts
  <2>4. QED BY <1>1, <1>2, <2>2, <2>3 DEF Enumerates
<1>3. CASE w.store = "trace"
  <2>1. all = TraceOf(ids)
    BY <1>3 DEF Orders
  <2>2. /\ all \in Seq(ids)
        /\ Len(all) = IF DefaultLimit < Cardinality(ids) THEN DefaultLimit ELSE Cardinality(ids)
        /\ \A k \in 1..Len(all) : all[k] = Ascending(ids)[k]
    BY <2>1, TraceFacts
  <2>3. ASSUME NEW n \in ids, Cardinality({j \in ids : j <= n}) <= DefaultLimit
        PROVE  \E k \in 1..Len(all) : all[k] = n
    <3>1. PICK k \in 1..Cardinality(ids) : Ascending(ids)[k] = n
      BY AscendingFacts
    <3>2. Cardinality({j \in ids : j <= n}) = k
      BY <3>1, AscendingRank
    <3>3. k \in 1..Len(all)
      BY <1>1, <2>2, <2>3, <3>2
    <3>4. QED BY <2>2, <3>1, <3>3
  <2>4. DefaultLimit \in Nat
    BY StoresParameters
  <2>5. Len(all) \in Nat /\ Len(all) <= Cardinality(ids) /\ DOMAIN all = 1..Len(all)
    BY <1>1, <2>2, <2>4
  <2>6. QED BY <1>1, <1>3, <2>2, <2>3, <2>5
<1>4. CASE w.store # "trace" /\ w.store # "clickhouse"
  <2>1. all = InsertionOrder(w.options, ids)
    BY <1>4 DEF Orders
  <2>2. /\ all \in Seq(ids) /\ Len(all) = Cardinality(ids) /\ DOMAIN all = 1..Cardinality(ids)
        /\ \A x \in ids : \E k \in 1..Cardinality(ids) : all[k] = x
    BY <2>1, InsertionOrderFacts
  <2>3. QED BY <1>1, <1>4, <2>2
<1>5. QED BY <1>2, <1>3, <1>4

\* The orders of insertion, upwards.
LEMMA OrderClimbs ==
  ASSUME NEW w, w.store # "clickhouse", w.options.order # "desc", NEW ids, Places(ids),
         NEW all \in Orders(w, ids)
  PROVE  \A j, k \in DOMAIN all : j < k => all[j] < all[k]
<1>1. \A j, k \in 1..Cardinality(ids) : j < k => Ascending(ids)[j] < Ascending(ids)[k]
  BY AscendingFacts DEF Climbs
<1>2. CASE w.store = "trace"
  <2>1. all = TraceOf(ids)
    BY <1>2 DEF Orders
  <2>2. \A k \in 1..Len(all) : k \in 1..Cardinality(ids) /\ all[k] = Ascending(ids)[k]
    BY <2>1, TraceFacts
  <2>3. DOMAIN all = 1..Len(all)
    BY OrderFacts
  <2>4. QED BY <1>1, <2>2, <2>3
<1>3. CASE w.store # "trace"
  <2>1. all = Ascending(ids)
    BY <1>3 DEF Orders, InsertionOrder
  <2>2. DOMAIN all = 1..Cardinality(ids)
    BY <2>1, AscendingFacts
  <2>3. QED BY <1>1, <2>1, <2>2
<1>4. QED BY <1>2, <1>3

\* With one more match behind the others, no match of an order comes earlier, and
\* upwards each keeps its place.
Grown(w, all, after) ==
  /\ \A k \in DOMAIN all : \E j \in DOMAIN after : j >= k /\ after[j] = all[k]
  /\ w.options.order # "desc" => \A k \in DOMAIN all : k \in DOMAIN after /\ after[k] = all[k]

LEMMA OrdersGrow ==
  ASSUME NEW w, w.store # "clickhouse", w.store = "trace" => w.options.order # "desc",
         NEW n \in Nat, NEW ids, ids \subseteq 1..n, NEW more \in {ids, ids \cup {n + 1}},
         NEW all \in Orders(w, ids), NEW after \in Orders(w, more)
  PROVE  Grown(w, all, after)
<1>1. Places(ids) /\ Places(more)
  BY PlacesUpTo
<1>2. PICK c \in Nat, d \in Nat : c = Cardinality(ids) /\ d = Cardinality(more)
  BY <1>1, PlacesFinite
<1>3. PICK a, b : a = Ascending(ids) /\ b = Ascending(more)
  OBVIOUS
<1>4. (d = c \/ d = c + 1) /\ \A k \in 1..c : b[k] = a[k]
  <2>1. CASE more = ids
    <3>1. d = c /\ b = a
      BY <1>2, <1>3, <2>1
    <3>2. QED BY <3>1
  <2>2. CASE more = ids \cup {n + 1}
    <3>1. Cardinality(ids \cup {n + 1}) = Cardinality(ids) + 1
      BY AscendingAppend
    <3>2. \A k \in 1..Cardinality(ids) : Ascending(ids \cup {n + 1})[k] = Ascending(ids)[k]
      BY AscendingAppend
    <3>3. QED BY <1>2, <1>3, <2>2, <3>1, <3>2
  <2>3. QED BY <2>1, <2>2
<1>5. CASE w.store = "trace"
  <2>1. all = TraceOf(ids) /\ after = TraceOf(more)
    BY <1>5 DEF Orders
  <2>2. /\ Len(all) = IF DefaultLimit < c THEN DefaultLimit ELSE c
        /\ \A k \in 1..Len(all) : k \in 1..c /\ all[k] = a[k]
    BY <1>1, <1>2, <1>3, <2>1, TraceFacts
  <2>3. /\ Len(after) = IF DefaultLimit < d THEN DefaultLimit ELSE d
        /\ \A k \in 1..Len(after) : after[k] = b[k]
    BY <1>1, <1>2, <1>3, <2>1, TraceFacts
  <2>4. DOMAIN all = 1..Len(all) /\ DOMAIN after = 1..Len(after)
    BY <1>1, OrderFacts
  <2>5. DefaultLimit \in Nat
    BY StoresParameters
  <2>6. ASSUME NEW k \in 1..Len(all) PROVE k \in 1..Len(after) /\ after[k] = all[k]
    <3>1. k \in 1..Len(after)
      BY <1>4, <2>2, <2>3, <2>5
    <3>2. k \in 1..c /\ all[k] = a[k] /\ after[k] = b[k]
      BY <2>2, <2>3, <3>1
    <3>3. QED BY <1>4, <3>1, <3>2
  <2>7. ASSUME NEW k \in DOMAIN all PROVE k \in Nat /\ k >= k
    BY <2>2, <2>4, <2>5
  <2>8. QED BY <2>4, <2>6, <2>7 DEF Grown
<1>6. CASE w.store # "trace" /\ w.options.order # "desc"
  <2>1. all = a /\ after = b
    BY <1>3, <1>6 DEF Orders, InsertionOrder
  <2>2. DOMAIN a = 1..c /\ DOMAIN b = 1..d
    BY <1>1, <1>2, <1>3, AscendingFacts
  <2>3. ASSUME NEW k \in 1..c PROVE k \in 1..d /\ b[k] = a[k] /\ k >= k
    BY <1>4
  <2>4. QED BY <2>1, <2>2, <2>3 DEF Grown
<1>7. CASE w.store # "trace" /\ w.options.order = "desc"
  <2>1. Len(a) = c /\ Len(b) = d
    BY <1>1, <1>2, <1>3, AscendingFacts
  <2>2. all = [k \in 1..c |-> a[(c - k) + 1]] /\ after = [k \in 1..d |-> b[(d - k) + 1]]
    BY <1>3, <1>7, <2>1 DEF Orders, InsertionOrder, Reverse
  <2>3. ASSUME NEW k \in 1..c PROVE \E j \in 1..d : j >= k /\ after[j] = all[k]
    <3>1. k + (d - c) \in 1..d /\ k + (d - c) >= k
      BY <1>4
    <3>2. (d - (k + (d - c))) + 1 = (c - k) + 1 /\ (c - k) + 1 \in 1..c
      OBVIOUS
    <3>3. after[k + (d - c)] = b[(c - k) + 1] /\ all[k] = a[(c - k) + 1]
      BY <2>2, <3>1, <3>2
    <3>4. after[k + (d - c)] = all[k]
      BY <1>4, <3>2, <3>3
    <3>5. QED BY <3>1, <3>4
  <2>4. QED BY <1>7, <2>2, <2>3 DEF Grown
<1>8. QED BY <1>5, <1>6, <1>7

\* A row is appended: it matches or not, and nothing else changes.
LEMMA AppendMatches ==
  ASSUME StoresTypeOK, NEW r \in Row, rows' = Append(rows, r), NEW st, NEW f, NEW o
  PROVE  Matching(st, f, o)' \in {Matching(st, f, o), Matching(st, f, o) \cup {Len(rows) + 1}}
<1>1. PICK n \in Nat : n = Len(rows)
  BY RowsFacts
<1>2. DOMAIN rows = 1..n /\ DOMAIN rows' = 1..(n + 1) /\ \A m \in 1..n : rows'[m] = rows[m]
  <2>1. rows \in Seq(Row)
    BY DEF StoresTypeOK
  <2>2. QED BY <1>1, <2>1
<1>3. \A m \in 1..n : Matches(st, f, o, m)' <=> Matches(st, f, o, m)
  BY <1>2 DEF Matches
<1>4. Matching(st, f, o)' = {m \in 1..(n + 1) : Matches(st, f, o, m)'}
  BY <1>2 DEF Matching
<1>5. Matching(st, f, o) = {m \in 1..n : Matches(st, f, o, m)}
  BY <1>2 DEF Matching
<1>6. \A m : m \in 1..(n + 1) <=> m \in 1..n \/ m = n + 1
  OBVIOUS
<1>7. n + 1 \notin 1..n
  OBVIOUS
<1>8. CASE Matches(st, f, o, n + 1)'
  <2>1. Matching(st, f, o)' = Matching(st, f, o) \cup {n + 1}
    BY <1>3, <1>4, <1>5, <1>6, <1>8, Zenon
  <2>2. QED BY <1>1, <2>1
<1>9. CASE ~ Matches(st, f, o, n + 1)'
  <2>1. Matching(st, f, o)' = Matching(st, f, o)
    BY <1>3, <1>4, <1>5, <1>6, <1>9, Zenon
  <2>2. QED BY <2>1
<1>10. QED BY <1>8, <1>9

\* A writer appends: no match comes before the offset, so nothing is passed over.
LEMMA AppendSound == ASSUME WalkInv, NEW r \in Row, AppendRow(r) PROVE WalkInv'
<1>1. PICK w, t : w = walk /\ t = [w EXCEPT !.quiet = FALSE]
  OBVIOUS
<1>2. walk' = t /\ rows' = Append(rows, r) /\ Len(rows) < MaxRows
  BY <1>1 DEF AppendRow
<1>3. StoresTypeOK /\ w \in WalkState /\ WalkSound(w) /\ rows \in Seq(Row)
  BY <1>1 DEF WalkInv, StoresTypeOK
<1>4. /\ t \in WalkState
      /\ t.step = w.step /\ t.store = w.store /\ t.filter = w.filter /\ t.options = w.options
      /\ t.found = w.found /\ t.page = w.page /\ t.total = w.total
      /\ t.present = w.present /\ t.quiet = FALSE
  BY <1>1, <1>3 DEF WalkState
<1>5. PICK n \in Nat : n = Len(rows)
  BY <1>3, RowsFacts
<1>6. rows' \in Seq(Row) /\ Len(rows') = n + 1 /\ n + 1 <= MaxRows
  <2>1. MaxRows \in Nat
    BY StoresParameters
  <2>2. QED BY <1>2, <1>3, <1>5, <2>1
<1>7. StoresTypeOK'
  BY <1>2, <1>4, <1>6 DEF StoresTypeOK
<1>8. PICK ids : ids = MatchesOf(w)
  OBVIOUS
<1>9. PICK more : more = MatchesOf(t)'
  OBVIOUS
<1>10. ids \subseteq 1..n /\ Places(ids)
  BY <1>3, <1>5, <1>8, MatchingFacts DEF MatchesOf
<1>11. more \in {ids, ids \cup {n + 1}}
  <2>1. more = Matching(w.store, w.filter, w.options)'
    BY <1>4, <1>9 DEF MatchesOf
  <2>2. Matching(w.store, w.filter, w.options)'
          \in {Matching(w.store, w.filter, w.options), Matching(w.store, w.filter, w.options) \cup {n + 1}}
    BY <1>2, <1>3, <1>5, AppendMatches
  <2>3. QED BY <1>8, <2>1, <2>2 DEF MatchesOf
<1>12. Places(more)
  BY <1>10, <1>11, PlacesUpTo
<1>13. w.present \subseteq ids
  BY <1>3, <1>8 DEF WalkSound
<1>14. w.store = "trace" => w.options.order # "desc"
  BY <1>3 DEF WalkSound, TraceAsked
<1>15. ASSUME w.store # "clickhouse", NEW after, after \in Orders(t, more)'
       PROVE  \E all \in Orders(w, ids) : Grown(w, all, after)
  <2>1. PICK all : all \in Orders(w, ids)
    BY <1>15 DEF Orders
  <2>2. after \in Orders(w, more)
    BY <1>4, <1>15 DEF Orders
  <2>3. Grown(w, all, after)
    BY <1>10, <1>11, <1>14, <1>15, <2>1, <2>2, OrdersGrow
  <2>4. QED BY <2>1, <2>3
<1>16. w.step # "idle" => NothingPassed(t)'
  <2>1. SUFFICES ASSUME w.step # "idle", w.store # "clickhouse", NEW m \in Sought(t)
                 PROVE  m \in Range(t.found) \/ (t.step # "done" /\ ToCome(t, m)')
    BY <1>4 DEF NothingPassed, Claimed
  <2>2. m \in Sought(w)
    BY <1>4, <2>1 DEF Sought
  <2>3. m \in Range(w.found) \/ (w.step # "done" /\ ToCome(w, m))
    BY <1>3, <2>1, <2>2 DEF WalkSound, NothingPassed, Claimed
  <2>4. ASSUME ToCome(w, m) PROVE ToCome(t, m)'
    <3>1. SUFFICES ASSUME NEW after, after \in Orders(t, more)'
                   PROVE  \E k \in DOMAIN after : k > w.options.offset /\ after[k] = m
      BY <1>4, <1>9 DEF ToCome
    <3>2. PICK all \in Orders(w, ids) :
            \A k \in DOMAIN all : \E j \in DOMAIN after : j >= k /\ after[j] = all[k]
      BY <1>15, <2>1, <3>1 DEF Grown
    <3>3. PICK k \in DOMAIN all : k > w.options.offset /\ all[k] = m
      BY <1>8, <2>4, <3>2 DEF ToCome
    <3>4. PICK j \in DOMAIN after : j >= k /\ after[j] = m
      BY <3>2, <3>3
    <3>5. k \in Nat /\ j \in Nat
      <4>1. DOMAIN all = 1..Len(all) /\ Len(all) \in Nat
        BY <1>10, <3>2, OrderFacts
      <4>2. after \in Orders(w, more)
        BY <1>4, <2>1, <3>1 DEF Orders
      <4>3. DOMAIN after = 1..Len(after) /\ Len(after) \in Nat
        BY <1>12, <4>2, OrderFacts
      <4>4. QED BY <3>3, <3>4, <4>1, <4>3
    <3>6. w.options.offset \in Nat
      BY <1>3, WalkFacts
    <3>7. QED BY <3>3, <3>4, <3>5, <3>6
  <2>5. QED BY <1>4, <2>3, <2>4
<1>17. w.step # "idle" => PagesBegin(t)'
  <2>1. SUFFICES ASSUME w.step # "idle", w.store # "clickhouse", w.options.order # "desc",
                        NEW after, after \in Orders(t, more)', NEW k \in DOMAIN w.found
                 PROVE  k \in DOMAIN after /\ w.found[k] = after[k]
    BY <1>4, <1>9 DEF PagesBegin
  <2>2. PICK all \in Orders(w, ids) : \A j \in DOMAIN all : j \in DOMAIN after /\ after[j] = all[j]
    BY <1>15, <2>1 DEF Grown
  <2>3. k \in DOMAIN all /\ w.found[k] = all[k]
    BY <1>3, <1>8, <2>1, <2>2 DEF WalkSound, PagesBegin
  <2>4. QED BY <2>2, <2>3
<1>18. PageStands(t)'
  <2>1. PageStands(w)
    BY <1>3 DEF WalkSound
  <2>2. t.step \in {"counting", "counted"} => t.store = "clickhouse" /\ ~ t.quiet /\ ~ Claimed(t)'
    BY <1>4, <2>1 DEF PageStands, Claimed
  <2>3. t.step # "counting" => t.page = <<>>
    BY <1>4, <2>1 DEF PageStands
  <2>4. QED BY <2>2, <2>3 DEF PageStands
<1>19. t.options.offset + Len(t.page) <= Len(rows')
  <2>1. w.options.offset + Len(w.page) <= n /\ w.options.offset \in Nat /\ Len(w.page) \in Nat
    BY <1>3, <1>5, WalkFacts DEF WalkSound
  <2>2. QED BY <1>4, <1>6, <2>1
<1>20. WalkSound(t)'
  <2>1. t.options.offset = Len(t.found)
    BY <1>3, <1>4 DEF WalkSound
  <2>2. t.present \subseteq MatchesOf(t)'
    BY <1>4, <1>9, <1>11, <1>13
  <2>3. t.store = "trace" => TraceAsked(t.filter, t.options)
    BY <1>3, <1>4 DEF WalkSound
  <2>4. QED BY <1>4, <1>16, <1>17, <1>18, <1>19, <2>1, <2>2, <2>3 DEF WalkSound
<1>21. QED BY <1>2, <1>7, <1>20 DEF WalkInv

-----------------------------------------------------------------------------
\* Before a walk.
LEMMA InitSound == StoresInit => WalkInv
<1>1. SUFFICES ASSUME StoresInit PROVE WalkInv
  OBVIOUS
<1>2. PICK w : w = walk
  OBVIOUS
<1>3. /\ w = [step |-> "idle", store |-> "memory", filter |-> NoFilter, options |-> FirstPage,
              found |-> <<>>, page |-> <<>>, total |-> 0, present |-> {}, quiet |-> TRUE]
      /\ rows = <<>>
  BY <1>1, <1>2 DEF StoresInit
<1>4. NoFilter \in Filter
  BY DEF NoFilter, Filter
<1>5. FirstPage \in Options /\ FirstPage.offset = 0
  <2>1. MaxRows \in Nat /\ MaxLimit \in Nat \ {0}
    BY StoresParameters
  <2>2. 0 \in 0..MaxRows /\ 1 \in 1..MaxLimit
    BY <2>1
  <2>3. QED BY <2>2 DEF FirstPage, Options
<1>6. w \in WalkState
  <2>1. <<>> \in Seq(RowId) /\ {} \in SUBSET RowId /\ 0 \in 0..MaxRows
    BY StoresParameters
  <2>2. QED BY <1>3, <1>4, <1>5, <2>1 DEF WalkState, Source, Store
<1>7. rows \in Seq(Row) /\ Len(rows) = 0 /\ 0 <= MaxRows
  <2>1. MaxRows \in Nat
    BY StoresParameters
  <2>2. QED BY <1>3, <2>1
<1>8. StoresTypeOK
  BY <1>2, <1>6, <1>7 DEF StoresTypeOK
<1>9. MatchesOf(w) = {}
  <2>1. DOMAIN rows = {}
    BY <1>3
  <2>2. QED BY <2>1 DEF MatchesOf, Matching
<1>10. w.options.offset = Len(w.found) /\ w.options.offset + Len(w.page) <= Len(rows)
  BY <1>3, <1>5, <1>7
<1>11. PageStands(w)
  BY <1>3 DEF PageStands
<1>12. WalkSound(w)
  BY <1>3, <1>9, <1>10, <1>11 DEF WalkSound
<1>13. QED BY <1>2, <1>8, <1>12 DEF WalkInv

\* A walk begins: everything it is to find is still to come.
LEMMA BeginSound ==
  ASSUME WalkInv, NEW s \in Source, NEW q \in Asked, BeginWalk(s, q[1], q[2])
  PROVE  WalkInv'
<1>1. PICK f, o : f = q[1] /\ o = q[2]
  OBVIOUS
<1>2. f \in Filter /\ o \in Options /\ o.offset = 0
  BY <1>1, AskedType
<1>3. PICK ids : ids = Matching(s, f, o)
  OBVIOUS
<1>4. PICK t : t = [step |-> "asking", store |-> s, filter |-> f, options |-> o,
                    found |-> <<>>, page |-> <<>>, total |-> 0, present |-> ids, quiet |-> TRUE]
  OBVIOUS
<1>5. walk' = t /\ rows' = rows /\ (s = "trace" => TraceAsked(f, o))
  BY <1>1, <1>3, <1>4 DEF BeginWalk
<1>6. StoresTypeOK
  BY DEF WalkInv
<1>7. ids \subseteq 1..Len(rows) /\ Places(ids) /\ Len(rows) \in Nat /\ Len(rows) <= MaxRows
  BY <1>3, <1>6, RowsFacts, MatchingFacts DEF StoresTypeOK
<1>8. t \in WalkState
  <2>1. MaxRows \in Nat
    BY StoresParameters
  <2>2. ids \in SUBSET RowId
    BY <1>7, <2>1 DEF RowId
  <2>3. <<>> \in Seq(RowId) /\ 0 \in 0..MaxRows
    BY <2>1
  <2>4. QED BY <1>2, <1>4, <2>2, <2>3 DEF WalkState
<1>9. StoresTypeOK'
  BY <1>5, <1>6, <1>8 DEF StoresTypeOK
<1>10. MatchesOf(t)' = ids
  BY <1>3, <1>4, <1>5 DEF MatchesOf, Matching, Matches
<1>11. NothingPassed(t)'
  <2>0. t.options.offset = 0 /\ t.step = "asking"
    BY <1>2, <1>4
  <2>1. SUFFICES ASSUME NEW n \in Sought(t), NEW all \in Orders(t, ids)'
                 PROVE  \E k \in DOMAIN all : k > 0 /\ all[k] = n
    BY <1>10, <2>0 DEF NothingPassed, ToCome
  <2>2. all \in Orders(t, ids)
    BY <1>5, <2>1 DEF Orders, TimeOrders
  <2>3. /\ DOMAIN all = 1..Len(all)
        /\ t.store # "trace" => \A m \in ids : \E k \in DOMAIN all : all[k] = m
        /\ t.store = "trace" =>
             \A m \in ids : Cardinality({j \in ids : j <= m}) <= DefaultLimit =>
               \E k \in DOMAIN all : all[k] = m
    BY <1>7, <2>2, OrderFacts
  <2>4. \E k \in DOMAIN all : all[k] = n
    <3>1. CASE t.store = "trace"
      <4>1. n \in ids /\ Cardinality({j \in ids : j <= n}) <= DefaultLimit
        BY <1>4, <2>1, <3>1 DEF Sought
      <4>2. QED BY <2>3, <3>1, <4>1
    <3>2. CASE t.store # "trace"
      BY <1>4, <2>1, <2>3, <3>2 DEF Sought
    <3>3. QED BY <3>1, <3>2
  <2>5. \A k \in DOMAIN all : k > 0
    BY <2>3
  <2>6. QED BY <2>4, <2>5
<1>12. PagesBegin(t)'
  <2>1. DOMAIN t.found = {}
    BY <1>4
  <2>2. QED BY <2>1 DEF PagesBegin
<1>13. PageStands(t)'
  BY <1>4 DEF PageStands
<1>14. t.options.offset = Len(t.found) /\ t.options.offset + Len(t.page) <= Len(rows')
  BY <1>2, <1>4, <1>5, <1>7
<1>15. WalkSound(t)'
  <2>1. t.store = "trace" => TraceAsked(t.filter, t.options)
    BY <1>4, <1>5
  <2>2. t.present = MatchesOf(t)'
    BY <1>4, <1>10
  <2>3. QED BY <1>11, <1>12, <1>13, <1>14, <2>1, <2>2 DEF WalkSound
<1>16. QED BY <1>5, <1>9, <1>15 DEF WalkInv

-----------------------------------------------------------------------------
\* Where a walk has come to changes nothing of its matches and their order.
SameButOffset(p, o) ==
  p.order = o.order /\ p.shadowModeOnly = o.shadowModeOnly /\ p.excludeShadow = o.excludeShadow

LEMMA OffsetIsNoFilter ==
  ASSUME NEW st, NEW f, NEW o, NEW p, NEW ids, SameButOffset(p, o)
  PROVE  /\ Matching(st, f, p) = Matching(st, f, o)
         /\ InsertionOrder(p, ids) = InsertionOrder(o, ids)
         /\ TimeOrders(p, ids) = TimeOrders(o, ids)
         /\ TraceAsked(f, o) => TraceAsked(f, p)
<1>1. \A n : Matches(st, f, p, n) <=> Matches(st, f, o, n)
  BY DEF Matches, CockroachMatches, ClickHouseMatches, MemoryMatches, ShadowAllows,
         SameButOffset
<1>2. Matching(st, f, p) = Matching(st, f, o)
  BY <1>1 DEF Matching
<1>3. QED BY <1>2 DEF InsertionOrder, TimeOrders, TraceAsked, SameButOffset

\* A page: its rows are those of every order behind the offset, and without more
\* there are no rows behind it.
IsPage(w, page, hasMore) ==
  Claimed(w) =>
    /\ \A all \in Orders(w, MatchesOf(w)) :
         page = Page(all, w.options) /\ (hasMore \/ Len(all) <= w.options.offset + Len(page))
    /\ \E all : all \in Orders(w, MatchesOf(w))

\* What stands behind the offset of an order stands on the page or behind it.
StandsBehind(page, all, f) ==
  /\ \A k \in DOMAIN all : k > f /\ k <= f + Len(page) => k - f \in DOMAIN page /\ page[k - f] = all[k]
  /\ \A k \in DOMAIN page : f + k \in DOMAIN all /\ page[k] = all[f + k]

LEMMA PageStandsBehind ==
  ASSUME NEW S, NEW all \in Seq(S), NEW o, o.offset \in Nat, o.limit \in Nat \ {0}
  PROVE  StandsBehind(Page(all, o), all, o.offset)
<1>1. PICK f, p, m : f = o.offset /\ p = Page(all, o) /\ m = Len(p)
  OBVIOUS
<1>2. f \in Nat /\ m \in Nat /\ p \in Seq(S) /\ DOMAIN p = 1..m
  BY <1>1, PageFacts
<1>3. \A j \in 1..m : f + j \in 1..Len(all) /\ p[j] = all[f + j]
  BY <1>1, PageFacts
<1>4. DOMAIN all = 1..Len(all) /\ Len(all) \in Nat
  OBVIOUS
<1>5. ASSUME NEW k \in 1..Len(all), k > f, k <= f + m PROVE k - f \in 1..m /\ p[k - f] = all[k]
  <2>1. k - f \in 1..m /\ f + (k - f) = k
    BY <1>2, <1>4, <1>5
  <2>2. QED BY <1>3, <2>1
<1>6. QED BY <1>1, <1>2, <1>3, <1>4, <1>5 DEF StandsBehind

\* The pages so far and one more.
Joined(s, g, h) ==
  /\ DOMAIN s = 1..(Len(g) + Len(h)) /\ Len(s) = Len(g) + Len(h)
  /\ \A k \in 1..Len(g) : s[k] = g[k]
  /\ \A k \in 1..Len(h) : s[Len(g) + k] = h[k]

LEMMA PagesJoin == ASSUME NEW S, NEW g \in Seq(S), NEW h \in Seq(S) PROVE Joined(g \o h, g, h)
<1>1. g \o h \in Seq(S) /\ DOMAIN (g \o h) = 1..(Len(g) + Len(h)) /\ Len(g \o h) = Len(g) + Len(h)
  OBVIOUS
<1>2. \A k \in 1..Len(g) : (g \o h)[k] = g[k]
  OBVIOUS
<1>3. \A k \in 1..Len(h) : (g \o h)[Len(g) + k] = h[k]
  OBVIOUS
<1>4. QED BY <1>1, <1>2, <1>3 DEF Joined

\* A page is taken.
LEMMA TakeSound ==
  ASSUME WalkInv, walk.step \in {"asking", "counting", "counted"}, NEW page \in Seq(RowId), NEW hasMore \in BOOLEAN,
         TakePage(page, hasMore), UNCHANGED rows,
         walk.options.offset + Len(page) <= Len(rows), IsPage(walk, page, hasMore)
  PROVE  WalkInv'
<1>1. PICK w, t : w = walk /\ t = [w EXCEPT !.step = IF hasMore THEN "asking" ELSE "done",
                                            !.found = @ \o page, !.page = <<>>, !.total = 0,
                                            !.options.offset = @ + Len(page)]
  OBVIOUS
<1>2. walk' = t /\ rows' = rows
  BY <1>1 DEF TakePage
<1>3. StoresTypeOK /\ w \in WalkState /\ WalkSound(w)
  BY <1>1 DEF WalkInv, StoresTypeOK
<1>4. PICK f \in Nat, l \in Nat, n \in Nat : f = w.options.offset /\ l = Len(page) /\ n = Len(rows)
  <2>1. w.options.offset \in Nat
    BY <1>3, WalkFacts
  <2>2. Len(rows) \in Nat
    BY <1>3, RowsFacts
  <2>3. QED BY <2>1, <2>2
<1>5. f + l <= n /\ n <= MaxRows /\ MaxRows \in Nat
  BY <1>1, <1>3, <1>4, StoresParameters DEF StoresTypeOK
<1>6. /\ t.step = IF hasMore THEN "asking" ELSE "done"
      /\ t.store = w.store /\ t.filter = w.filter /\ t.found = w.found \o page /\ t.page = <<>>
      /\ t.present = w.present /\ t.quiet = w.quiet
      /\ t.options = [w.options EXCEPT !.offset = f + l]
  BY <1>1, <1>3, <1>4 DEF WalkState
<1>7. /\ t.options.offset = f + l /\ t.options.order = w.options.order
      /\ t.options.shadowModeOnly = w.options.shadowModeOnly
      /\ t.options.excludeShadow = w.options.excludeShadow
      /\ t.options \in Options
  <2>1. w.options \in Options
    BY <1>3 DEF WalkState
  <2>2. f + l \in 0..MaxRows
    BY <1>4, <1>5
  <2>3. QED BY <1>6, <2>1, <2>2 DEF Options
<1>25. SameButOffset(t.options, w.options)
  BY <1>7 DEF SameButOffset
<1>8. t \in WalkState
  <2>1. w.found \o page \in Seq(RowId) /\ <<>> \in Seq(RowId)
    BY <1>3 DEF WalkState
  <2>2. PICK st, g, o : st = t.step /\ g = w.found \o page /\ o = t.options
    OBVIOUS
  <2>3. t = [w EXCEPT !.step = st, !.found = g, !.page = <<>>, !.total = 0, !.options = o]
    BY <1>1, <1>3, <1>6, <2>2 DEF WalkState
  <2>4. /\ st \in {"idle", "asking", "counting", "counted", "done"}
        /\ g \in Seq(RowId) /\ o \in Options /\ 0 \in 0..MaxRows
    BY <1>5, <1>6, <1>7, <2>1, <2>2
  <2>5. QED BY <1>3, <2>1, <2>3, <2>4 DEF WalkState
<1>9. StoresTypeOK'
  BY <1>2, <1>3, <1>8 DEF StoresTypeOK
<1>10. PICK ids : ids = MatchesOf(w)
  OBVIOUS
<1>11. Places(ids)
  BY <1>3, <1>10, MatchingFacts DEF MatchesOf
<1>12. MatchesOf(t)' = ids
  <2>1. MatchesOf(t) = ids
    <3>1. Matching(w.store, w.filter, t.options) = Matching(w.store, w.filter, w.options)
      BY <1>25, OffsetIsNoFilter
    <3>2. QED BY <1>6, <1>10, <3>1 DEF MatchesOf
  <2>2. MatchesOf(t)' = MatchesOf(t)
    BY <1>2 DEF MatchesOf, Matching, Matches
  <2>3. QED BY <2>1, <2>2
<1>13. Orders(t, ids)' = Orders(w, ids)
  <2>1. Orders(t, ids) = Orders(w, ids)
    <3>1. /\ InsertionOrder(t.options, ids) = InsertionOrder(w.options, ids)
          /\ TimeOrders(t.options, ids) = TimeOrders(w.options, ids)
      BY <1>25, OffsetIsNoFilter
    <3>2. QED BY <1>6, <3>1 DEF Orders
  <2>2. Orders(t, ids)' = Orders(t, ids)
    BY <1>2 DEF Orders, TimeOrders
  <2>3. QED BY <2>1, <2>2
<1>14. (Claimed(t)' <=> Claimed(w)) /\ Sought(t) = Sought(w)
  BY <1>2, <1>6 DEF Claimed, Sought, DistinctTimes
<1>15. Len(w.found) = f /\ w.found \in Seq(RowId) /\ DOMAIN w.found = 1..f
  BY <1>3, <1>4 DEF WalkState, WalkSound
<1>16. DOMAIN page = 1..l
  BY <1>4
<1>17. PICK found, g : found = w.found \o page /\ g = w.found
  OBVIOUS
<1>18. /\ DOMAIN found = 1..(f + l) /\ Len(found) = f + l
       /\ \A k \in 1..f : found[k] = w.found[k]
       /\ \A k \in 1..l : found[f + k] = page[k]
  <2>1. g \in Seq(RowId) /\ Len(g) = f /\ found = g \o page
    BY <1>15, <1>17
  <2>2. Joined(found, g, page)
    BY <2>1, PagesJoin
  <2>3. QED BY <1>4, <1>17, <2>1, <2>2 DEF Joined
<1>19. ASSUME Claimed(w), NEW all, all \in Orders(w, ids)
       PROVE  /\ all \in Seq(ids) /\ DOMAIN all = 1..Len(all) /\ Len(all) \in Nat
              /\ hasMore \/ Len(all) <= f + l
              /\ \A k \in DOMAIN all : k > f /\ k <= f + l => k - f \in 1..l /\ page[k - f] = all[k]
              /\ \A k \in 1..l : f + k \in DOMAIN all /\ page[k] = all[f + k]
  <2>1. all \in Seq(ids) /\ DOMAIN all = 1..Len(all) /\ Len(all) \in Nat
    BY <1>11, <1>19, OrderFacts
  <2>2. page = Page(all, w.options) /\ (hasMore \/ Len(all) <= f + l)
    BY <1>1, <1>4, <1>10, <1>19 DEF IsPage
  <2>3. w.options.offset \in Nat /\ w.options.limit \in Nat \ {0}
    BY <1>3, WalkFacts
  <2>4. StandsBehind(Page(all, w.options), all, w.options.offset)
    BY <2>1, <2>3, PageStandsBehind
  <2>5. StandsBehind(page, all, f)
    BY <1>4, <2>2, <2>4
  <2>6. QED BY <1>4, <1>16, <2>1, <2>2, <2>5 DEF StandsBehind
<1>20. NothingPassed(t)'
  <2>1. SUFFICES ASSUME Claimed(w), NEW n_ \in Sought(w), n_ \notin Range(found)
                 PROVE  hasMore /\ ToCome(t, n_)'
    BY <1>6, <1>14, <1>17 DEF NothingPassed
  <2>2. n_ \notin Range(w.found)
    BY <1>4, <1>15, <1>18, <2>1 DEF Range
  <2>3. ToCome(w, n_)
    BY <1>1, <1>3, <2>1, <2>2 DEF WalkSound, NothingPassed
  <2>4. ASSUME NEW all, all \in Orders(w, ids) PROVE \E k \in DOMAIN all : k > f + l /\ all[k] = n_
    <3>1. PICK k \in DOMAIN all : k > f /\ all[k] = n_
      BY <1>4, <1>10, <2>3, <2>4 DEF ToCome
    <3>0. k \in Nat
      BY <1>19, <2>1, <2>4
    <3>2. ASSUME k <= f + l PROVE FALSE
      <4>1. k - f \in 1..l /\ page[k - f] = n_
        BY <1>19, <2>1, <2>4, <3>1, <3>2
      <4>2. k \in 1..(f + l) /\ f + (k - f) = k
        BY <1>4, <3>0, <4>1
      <4>3. k \in DOMAIN found /\ found[k] = n_
        BY <1>18, <4>1, <4>2
      <4>4. QED BY <2>1, <4>3 DEF Range
    <3>3. k > f + l
      BY <1>4, <3>0, <3>2
    <3>4. QED BY <3>1, <3>3
  <2>5. ToCome(t, n_)'
    BY <1>7, <1>12, <1>13, <2>4 DEF ToCome
  <2>6. hasMore
    <3>1. PICK all : all \in Orders(w, ids)
      BY <1>1, <1>10, <2>1 DEF IsPage
    <3>2. PICK k \in DOMAIN all : k > f + l
      BY <2>4, <3>1
    <3>3. QED BY <1>4, <1>19, <2>1, <3>1, <3>2
  <2>7. QED BY <2>5, <2>6
<1>21. PagesBegin(t)'
  <2>1. SUFFICES ASSUME w.store # "clickhouse", w.options.order # "desc",
                        NEW all, all \in Orders(w, ids), NEW k \in 1..(f + l)
                 PROVE  k \in DOMAIN all /\ found[k] = all[k]
    BY <1>6, <1>7, <1>12, <1>13, <1>17, <1>18 DEF PagesBegin
  <2>2. Claimed(w)
    BY <2>1 DEF Claimed
  <2>3. CASE k \in 1..f
    <3>1. k \in DOMAIN all /\ w.found[k] = all[k]
      BY <1>1, <1>3, <1>10, <1>15, <2>1, <2>3 DEF WalkSound, PagesBegin
    <3>2. QED BY <1>18, <2>3, <3>1
  <2>4. CASE k \notin 1..f
    <3>1. k - f \in 1..l /\ f + (k - f) = k
      BY <1>4, <2>1, <2>4
    <3>2. k \in DOMAIN all /\ page[k - f] = all[k]
      BY <1>19, <2>1, <2>2, <3>1
    <3>3. found[k] = page[k - f]
      BY <1>18, <3>1
    <3>4. QED BY <3>2, <3>3
  <2>5. QED BY <2>3, <2>4
<1>22. PageStands(t)'
  BY <1>6 DEF PageStands
<1>23. WalkSound(t)'
  <2>1. t.options.offset = Len(t.found)
    BY <1>6, <1>7, <1>17, <1>18
  <2>2. t.options.offset + Len(t.page) <= Len(rows')
    BY <1>2, <1>4, <1>5, <1>6, <1>7
  <2>3. t.present \subseteq MatchesOf(t)' /\ (t.quiet => t.present = MatchesOf(t)')
    BY <1>3, <1>6, <1>10, <1>12 DEF WalkSound
  <2>4. t.store = "trace" => TraceAsked(t.filter, t.options)
    BY <1>3, <1>6, <1>25, OffsetIsNoFilter DEF WalkSound
  <2>5. QED BY <1>20, <1>21, <1>22, <2>1, <2>2, <2>3, <2>4 DEF WalkSound
<1>24. QED BY <1>2, <1>9, <1>23 DEF WalkInv

-----------------------------------------------------------------------------
\* A page of an order of the matches is one of rows, and ends with the rows at the latest.
LEMMA PageFits ==
  ASSUME WalkInv, NEW all \in Orders(walk, MatchesOf(walk))
  PROVE  /\ Page(all, walk.options) \in Seq(RowId)
         /\ walk.options.offset + Len(Page(all, walk.options)) <= Len(rows)
<1>1. PICK w, o, ids : w = walk /\ o = w.options /\ ids = MatchesOf(w)
  OBVIOUS
<1>2. StoresTypeOK /\ w \in WalkState /\ WalkSound(w)
  BY <1>1 DEF WalkInv, StoresTypeOK
<1>3. ids \subseteq 1..Len(rows) /\ Places(ids) /\ Len(rows) \in Nat /\ Len(rows) <= MaxRows
  BY <1>1, <1>2, RowsFacts, MatchingFacts DEF MatchesOf, StoresTypeOK
<1>4. ids \subseteq RowId
  BY <1>3, StoresParameters DEF RowId
<1>5. Cardinality(ids) <= Len(rows)
  <2>1. IsFiniteSet(1..Len(rows)) /\ Cardinality(1..Len(rows)) = Len(rows)
    BY <1>3, FS_Interval
  <2>2. QED BY <1>3, <2>1, FS_Subset
<1>6. all \in Seq(ids) /\ Len(all) \in Nat /\ Len(all) <= Cardinality(ids) /\ Cardinality(ids) \in Nat
  BY <1>1, <1>3, OrderFacts
<1>7. o.offset \in Nat /\ o.limit \in Nat \ {0} /\ o.offset <= Len(rows)
  <2>1. w.options.offset \in Nat /\ w.options.limit \in Nat \ {0} /\ Len(w.page) \in Nat
    BY <1>2, WalkFacts
  <2>2. w.options.offset + Len(w.page) <= Len(rows)
    BY <1>2 DEF WalkSound
  <2>3. QED BY <1>1, <1>3, <2>1, <2>2
<1>8. /\ Page(all, o) \in Seq(ids)
      /\ Len(Page(all, o)) = IF o.offset + o.limit < Len(all) THEN o.limit
                             ELSE IF o.offset < Len(all) THEN Len(all) - o.offset ELSE 0
  BY <1>6, <1>7, PageFacts
<1>9. Page(all, o) \in Seq(RowId)
  BY <1>4, <1>8
<1>10. o.offset + Len(Page(all, o)) <= Len(rows)
  BY <1>3, <1>5, <1>6, <1>7, <1>8
<1>11. QED BY <1>1, <1>9, <1>10

\* Without a page behind it a page of the only order is the last one.
LEMMA OnlyPage ==
  ASSUME WalkInv, NEW all, Orders(walk, MatchesOf(walk)) = {all}, NEW hasMore \in BOOLEAN,
         hasMore \/ Len(all) <= walk.options.offset + walk.options.limit \/ Page(all, walk.options) = <<>>
  PROVE  IsPage(walk, Page(all, walk.options), hasMore)
<1>1. PICK w, o, ids : w = walk /\ o = w.options /\ ids = MatchesOf(w)
  OBVIOUS
<1>2. StoresTypeOK /\ w \in WalkState /\ Places(ids)
  BY <1>1, MatchingFacts DEF WalkInv, StoresTypeOK, MatchesOf
<1>3. all \in Seq(ids) /\ Len(all) \in Nat
  BY <1>1, <1>2, OrderFacts
<1>4. o.offset \in Nat /\ o.limit \in Nat \ {0}
  BY <1>1, <1>2, WalkFacts
<1>5. /\ Page(all, o) \in Seq(ids)
      /\ Len(Page(all, o)) = IF o.offset + o.limit < Len(all) THEN o.limit
                             ELSE IF o.offset < Len(all) THEN Len(all) - o.offset ELSE 0
  BY <1>3, <1>4, PageFacts
<1>6. Page(all, o) = <<>> => Len(Page(all, o)) = 0
  OBVIOUS
<1>7. hasMore \/ Len(all) <= o.offset + Len(Page(all, o))
  <2>1. hasMore \/ Len(all) <= o.offset + o.limit \/ Len(Page(all, o)) = 0
    BY <1>1, <1>6
  <2>2. QED BY <1>3, <1>4, <1>5, <2>1
<1>8. QED BY <1>1, <1>7 DEF IsPage

\* hasMore tells whether there are rows behind an offset.
TellsMore(more, a, b) == more \in BOOLEAN /\ (more \/ b <= a)

LEMMA MoreOrNot ==
  ASSUME NEW a \in Int, NEW b \in Int, NEW more, more = (a < b)
  PROVE  TellsMore(more, a, b)
<1>1. CASE a < b
  <2>1. more = TRUE
    BY <1>1
  <2>2. QED BY <2>1 DEF TellsMore
<1>2. CASE ~ (a < b)
  <2>0. (a < b) \in BOOLEAN
    OBVIOUS
  <2>1. (a < b) = FALSE
    BY <1>2, <2>0, Zenon
  <2>2. b <= a
    BY <1>2
  <2>3. more = FALSE
    BY <2>1
  <2>4. QED BY <2>2, <2>3 DEF TellsMore
<1>3. QED BY <1>1, <1>2 DEF TellsMore

\* A page of the in-memory store.
LEMMA MemorySound == ASSUME WalkInv, AskMemory PROVE WalkInv'
<1>1. PICK w, all, page, hasMore :
        /\ w = walk /\ all = InsertionOrder(w.options, Matching("memory", w.filter, w.options))
        /\ page = Page(all, w.options) /\ hasMore = (w.options.offset + w.options.limit < Len(all))
  OBVIOUS
<1>2. w.step = "asking" /\ w.store = "memory" /\ TakePage(page, hasMore) /\ UNCHANGED rows
  BY <1>1 DEF AskMemory, MemoryQuery
<1>3. Orders(w, MatchesOf(w)) = {all}
  BY <1>1, <1>2 DEF Orders, MatchesOf
<1>4. hasMore \in BOOLEAN /\ (hasMore \/ Len(all) <= w.options.offset + w.options.limit)
  <2>1. Len(all) \in Nat
    BY <1>1, <1>3, MatchingFacts, OrderFacts DEF MatchesOf, WalkInv
  <2>2. w.options.offset \in Nat /\ w.options.limit \in Nat
    BY <1>1, WalkFacts DEF WalkInv, StoresTypeOK
  <2>3. w.options.offset + w.options.limit \in Int /\ Len(all) \in Int
    BY <2>1, <2>2
  <2>4. hasMore = (w.options.offset + w.options.limit < Len(all))
    BY <1>1
  <2>5. TellsMore(hasMore, w.options.offset + w.options.limit, Len(all))
    BY <2>3, <2>4, MoreOrNot
  <2>6. QED BY <2>5 DEF TellsMore
<1>5. page \in Seq(RowId) /\ walk.options.offset + Len(page) <= Len(rows)
  BY <1>1, <1>3, PageFits
<1>6. IsPage(walk, page, hasMore)
  BY <1>1, <1>3, <1>4, OnlyPage
<1>7. QED BY <1>1, <1>2, <1>4, <1>5, <1>6, TakeSound

\* A page of CockroachDB; without rows it has no count, and tells no more.
LEMMA CockroachSound == ASSUME WalkInv, AskCockroach PROVE WalkInv'
<1>1. PICK w, all, page :
        /\ w = walk /\ all = InsertionOrder(w.options, Matching("cockroach", w.filter, w.options))
        /\ page = Page(all, w.options)
  OBVIOUS
<1>2. PICK total, hasMore : /\ total = (IF page = <<>> THEN 0 ELSE Len(all))
                            /\ hasMore = (w.options.offset + w.options.limit < total)
  OBVIOUS
<1>3. w.step = "asking" /\ w.store = "cockroach" /\ TakePage(page, hasMore) /\ UNCHANGED rows
  BY <1>1, <1>2 DEF AskCockroach, CockroachQuery
<1>4. Orders(w, MatchesOf(w)) = {all}
  BY <1>1, <1>3 DEF Orders, MatchesOf
<1>5. hasMore \in BOOLEAN /\ (hasMore \/ Len(all) <= w.options.offset + w.options.limit \/ page = <<>>)
  <2>1. Len(all) \in Nat
    BY <1>1, <1>4, MatchingFacts, OrderFacts DEF MatchesOf, WalkInv
  <2>2. w.options.offset \in Nat /\ w.options.limit \in Nat
    BY <1>1, WalkFacts DEF WalkInv, StoresTypeOK
  <2>3. w.options.offset + w.options.limit \in Int /\ total \in Int
    BY <1>2, <2>1, <2>2
  <2>4. TellsMore(hasMore, w.options.offset + w.options.limit, total)
    BY <1>2, <2>3, MoreOrNot
  <2>5. hasMore \in BOOLEAN /\ (hasMore \/ total <= w.options.offset + w.options.limit)
    BY <2>4 DEF TellsMore
  <2>6. QED BY <1>2, <2>5
<1>6. page \in Seq(RowId) /\ walk.options.offset + Len(page) <= Len(rows)
  BY <1>1, <1>4, PageFits
<1>7. IsPage(walk, page, hasMore)
  BY <1>1, <1>4, <1>5, OnlyPage
<1>8. QED BY <1>1, <1>3, <1>5, <1>6, <1>7, TakeSound

\* The trace that the route slices is that of the matches.
LEMMA TraceIs ==
  ASSUME NEW f, NEW o, TraceAsked(f, o) PROVE Trace(f) = TraceOf(Matching("trace", f, o))
<1>1. PICK p : p = [FirstPage EXCEPT !.order = "asc", !.limit = DefaultLimit]
  OBVIOUS
<1>2. p.order = "asc"
  BY <1>1 DEF FirstPage
<1>3. Trace(f) = Page(InsertionOrder(p, Matching("memory", f, p)), p)
  BY <1>1 DEF Trace, MemoryQuery
<1>4. Matching("memory", f, p) = Matching("trace", f, o)
  <2>1. \A n : Matches("memory", f, p, n) <=> Matches("trace", f, o, n)
    BY DEF TraceAsked, Matches, MemoryMatches, SameAgent, InTime
  <2>2. QED BY <2>1 DEF Matching
<1>5. QED BY <1>1, <1>2, <1>3, <1>4 DEF TraceOf, InsertionOrder

\* A page of a trace.
LEMMA TraceSound == ASSUME WalkInv, AskTrace PROVE WalkInv'
<1>1. PICK w, all, page, hasMore :
        /\ w = walk /\ all = Trace(w.filter)
        /\ page = Page(all, w.options) /\ hasMore = (w.options.offset + w.options.limit < Len(all))
  OBVIOUS
<1>2. w.step = "asking" /\ w.store = "trace" /\ TakePage(page, hasMore) /\ UNCHANGED rows
  BY <1>1 DEF AskTrace
<1>3. Orders(w, MatchesOf(w)) = {all}
  <2>1. TraceAsked(w.filter, w.options)
    BY <1>1, <1>2 DEF WalkInv, WalkSound
  <2>2. QED BY <1>1, <1>2, <2>1, TraceIs DEF Orders, MatchesOf
<1>4. hasMore \in BOOLEAN /\ (hasMore \/ Len(all) <= w.options.offset + w.options.limit)
  <2>1. Len(all) \in Nat
    BY <1>1, <1>3, MatchingFacts, OrderFacts DEF MatchesOf, WalkInv
  <2>2. w.options.offset \in Nat /\ w.options.limit \in Nat
    BY <1>1, WalkFacts DEF WalkInv, StoresTypeOK
  <2>3. w.options.offset + w.options.limit \in Int /\ Len(all) \in Int
    BY <2>1, <2>2
  <2>4. hasMore = (w.options.offset + w.options.limit < Len(all))
    BY <1>1
  <2>5. TellsMore(hasMore, w.options.offset + w.options.limit, Len(all))
    BY <2>3, <2>4, MoreOrNot
  <2>6. QED BY <2>5 DEF TellsMore
<1>5. page \in Seq(RowId) /\ walk.options.offset + Len(page) <= Len(rows)
  BY <1>1, <1>3, PageFits
<1>6. IsPage(walk, page, hasMore)
  BY <1>1, <1>3, <1>4, OnlyPage
<1>7. QED BY <1>1, <1>2, <1>4, <1>5, <1>6, TakeSound

\* ClickHouse gives a page, and the count in a query of its own.
LEMMA ClickHouseSound == ASSUME WalkInv, AskClickHouse PROVE WalkInv'
<1>1. PICK w : w = walk
  OBVIOUS
<1>2. w.step = "asking" /\ w.store = "clickhouse" /\ UNCHANGED rows
  BY <1>1 DEF AskClickHouse
<1>3. PICK all \in TimeOrders(w.options, Matching("clickhouse", w.filter, w.options)) :
        walk' = [w EXCEPT !.step = "counting", !.page = Page(all, w.options)]
  BY <1>1 DEF AskClickHouse
<1>4. all \in Orders(w, MatchesOf(w))
  BY <1>2, <1>3 DEF Orders, MatchesOf
<1>5. PICK page : page = Page(all, w.options)
  OBVIOUS
<1>6. page \in Seq(RowId) /\ w.options.offset + Len(page) <= Len(rows)
  BY <1>1, <1>4, <1>5, PageFits
<1>7. PICK t : t = [w EXCEPT !.step = "counting", !.page = page]
  OBVIOUS
<1>8. walk' = t
  BY <1>3, <1>5, <1>7
<1>9. StoresTypeOK /\ w \in WalkState /\ WalkSound(w)
  BY <1>1 DEF WalkInv, StoresTypeOK
<1>10. /\ t \in WalkState
       /\ t.step = "counting" /\ t.store = w.store /\ t.filter = w.filter /\ t.options = w.options
       /\ t.found = w.found /\ t.page = page /\ t.present = w.present /\ t.quiet = w.quiet
  BY <1>6, <1>7, <1>9 DEF WalkState
<1>11. StoresTypeOK'
  BY <1>2, <1>8, <1>9, <1>10 DEF StoresTypeOK
<1>12. MatchesOf(t)' = MatchesOf(w)
  BY <1>2, <1>10 DEF MatchesOf, Matching, Matches
<1>13. PICK ids : ids = MatchesOf(w)
  OBVIOUS
<1>14. Orders(t, ids)' = Orders(w, ids)
  BY <1>2, <1>10 DEF Orders, TimeOrders
<1>15. (Claimed(t)' <=> Claimed(w)) /\ Sought(t) = Sought(w)
  BY <1>2, <1>10 DEF Claimed, Sought, DistinctTimes
<1>16. \A n : ToCome(w, n) => ToCome(t, n)'
  BY <1>10, <1>12, <1>13, <1>14 DEF ToCome
<1>17. NothingPassed(t)'
  <2>1. NothingPassed(w)
    BY <1>2, <1>9 DEF WalkSound
  <2>2. QED BY <1>10, <1>15, <1>16, <2>1 DEF NothingPassed
<1>18. PagesBegin(t)'
  BY <1>2, <1>10 DEF PagesBegin
<1>19. PageStands(t)'
  BY <1>2, <1>4, <1>5, <1>10, <1>12, <1>13, <1>14 DEF PageStands
<1>20. WalkSound(t)'
  <2>1. t.options.offset = Len(t.found) /\ t.options.offset + Len(t.page) <= Len(rows')
    BY <1>2, <1>6, <1>9, <1>10 DEF WalkSound
  <2>2. t.present \subseteq MatchesOf(t)' /\ (t.quiet => t.present = MatchesOf(t)')
    BY <1>9, <1>10, <1>12 DEF WalkSound
  <2>3. t.store = "trace" => TraceAsked(t.filter, t.options)
    BY <1>9, <1>10 DEF WalkSound
  <2>4. QED BY <1>17, <1>18, <1>19, <2>1, <2>2, <2>3 DEF WalkSound
<1>21. QED BY <1>8, <1>11, <1>20 DEF WalkInv

\* The count of ClickHouse closes a page.
LEMMA CountSound == ASSUME WalkInv, CountClickHouse PROVE WalkInv'
<1>1. PICK w, page, ids : w = walk /\ page = w.page /\ ids = MatchesOf(w)
  OBVIOUS
<1>2. StoresTypeOK /\ w \in WalkState /\ WalkSound(w)
  BY <1>1 DEF WalkInv, StoresTypeOK
<1>3. w.step = "counting" /\ w.store = "clickhouse"
  BY <1>1, <1>2 DEF CountClickHouse, WalkSound, PageStands
<1>4. ids = Matching("clickhouse", w.filter, w.options)
  BY <1>1, <1>3 DEF MatchesOf
<1>5. PICK hasMore : hasMore = (w.options.offset + Len(page) < Cardinality(ids))
  OBVIOUS
<1>6. TakePage(page, hasMore) /\ UNCHANGED rows
  BY <1>1, <1>4, <1>5 DEF CountClickHouse
<1>7. ids \subseteq 1..Len(rows) /\ Places(ids) /\ Cardinality(ids) \in Nat
  BY <1>1, <1>2, MatchingFacts, PlacesFinite DEF MatchesOf
<1>8. page \in Seq(RowId) /\ Len(page) \in Nat /\ w.options.offset \in Nat
      /\ w.options.offset + Len(page) <= Len(rows)
  BY <1>1, <1>2, WalkFacts DEF WalkSound
<1>9. hasMore \in BOOLEAN /\ (hasMore \/ Cardinality(ids) <= w.options.offset + Len(page))
  <2>1. w.options.offset + Len(page) \in Int /\ Cardinality(ids) \in Int
    BY <1>7, <1>8
  <2>2. TellsMore(hasMore, w.options.offset + Len(page), Cardinality(ids))
    BY <1>5, <2>1, MoreOrNot
  <2>3. QED BY <2>2 DEF TellsMore
<1>10. IsPage(w, page, hasMore)
  <2>1. SUFFICES ASSUME Claimed(w)
                 PROVE  /\ \A all \in Orders(w, ids) :
                             page = Page(all, w.options) /\ (hasMore \/ Len(all) <= w.options.offset + Len(page))
                        /\ \E all : all \in Orders(w, ids)
    BY <1>1 DEF IsPage
  <2>2. PICK all \in Orders(w, ids) : page = Page(all, w.options)
    BY <1>1, <1>2, <1>3, <2>1 DEF WalkSound, PageStands
  <2>3. DistinctTimes(ids)
    BY <1>1, <1>2, <1>3, <2>1 DEF Claimed, WalkSound
  <2>4. \A one \in Orders(w, ids) : one = all
    <3>1. Orders(w, ids) = TimeOrders(w.options, ids)
      BY <1>3 DEF Orders
    <3>2. QED BY <1>2, <1>7, <2>2, <2>3, <3>1, OneTimeOrder
  <2>5. Len(all) = Cardinality(ids)
    BY <1>3, <1>7, <2>2, OrderFacts
  <2>6. hasMore \/ Len(all) <= w.options.offset + Len(page)
    BY <1>9, <2>5
  <2>7. QED BY <2>2, <2>4, <2>6
<1>11. QED BY <1>1, <1>3, <1>6, <1>8, <1>9, <1>10, TakeSound

\* It may also give the count, and the page in a query of its own.
LEMMA CountFirstSound == ASSUME WalkInv, CountClickHouseFirst PROVE WalkInv'
<1>1. PICK w, ids : w = walk /\ ids = MatchesOf(w)
  OBVIOUS
<1>2. w.step = "asking" /\ w.store = "clickhouse" /\ UNCHANGED rows
  BY <1>1 DEF CountClickHouseFirst
<1>3. PICK n : n = Cardinality(ids)
  OBVIOUS
<1>4. PICK t : t = [w EXCEPT !.step = "counted", !.total = n]
  OBVIOUS
<1>5. walk' = t
  BY <1>1, <1>2, <1>3, <1>4 DEF CountClickHouseFirst, MatchesOf
<1>6. StoresTypeOK /\ w \in WalkState /\ WalkSound(w)
  BY <1>1 DEF WalkInv, StoresTypeOK
<1>7. n \in 0..MaxRows
  <2>1. /\ ids \subseteq 1..Len(rows) /\ Places(ids)
        /\ Len(rows) \in Nat /\ Len(rows) <= MaxRows
    BY <1>1, <1>6, RowsFacts, MatchingFacts DEF MatchesOf, StoresTypeOK
  <2>2. IsFiniteSet(1..Len(rows)) /\ Cardinality(1..Len(rows)) = Len(rows)
    BY <2>1, FS_Interval
  <2>3. Cardinality(ids) \in Nat /\ Cardinality(ids) <= Len(rows)
    BY <2>1, <2>2, FS_Subset, PlacesFinite
  <2>4. QED BY <1>3, <2>1, <2>3, StoresParameters
<1>8. /\ t \in WalkState
      /\ t.step = "counted" /\ t.store = w.store /\ t.filter = w.filter /\ t.options = w.options
      /\ t.found = w.found /\ t.page = w.page /\ t.total = n
      /\ t.present = w.present /\ t.quiet = w.quiet
  BY <1>4, <1>6, <1>7 DEF WalkState
<1>9. StoresTypeOK'
  BY <1>2, <1>5, <1>6, <1>8 DEF StoresTypeOK
<1>10. MatchesOf(t)' = ids
  BY <1>1, <1>2, <1>8 DEF MatchesOf, Matching, Matches
<1>11. Orders(t, ids)' = Orders(w, ids)
  BY <1>2, <1>8 DEF Orders, TimeOrders
<1>12. (Claimed(t)' <=> Claimed(w)) /\ Sought(t) = Sought(w)
  BY <1>2, <1>8 DEF Claimed, Sought, DistinctTimes
<1>13. \A m : ToCome(w, m) => ToCome(t, m)'
  BY <1>1, <1>8, <1>10, <1>11 DEF ToCome
<1>14. NothingPassed(t)'
  <2>1. NothingPassed(w)
    BY <1>2, <1>6 DEF WalkSound
  <2>2. QED BY <1>8, <1>12, <1>13, <2>1 DEF NothingPassed
<1>15. PagesBegin(t)'
  BY <1>2, <1>8 DEF PagesBegin
<1>16. PageStands(t)'
  <2>1. w.page = <<>>
    BY <1>2, <1>6 DEF WalkSound, PageStands
  <2>2. QED BY <1>2, <1>3, <1>8, <1>10, <2>1 DEF PageStands
<1>17. WalkSound(t)'
  <2>1. t.options.offset = Len(t.found) /\ t.options.offset + Len(t.page) <= Len(rows')
    BY <1>2, <1>6, <1>8 DEF WalkSound
  <2>2. t.present \subseteq MatchesOf(t)' /\ (t.quiet => t.present = MatchesOf(t)')
    BY <1>1, <1>6, <1>8, <1>10 DEF WalkSound
  <2>3. t.store = "trace" => TraceAsked(t.filter, t.options)
    BY <1>6, <1>8 DEF WalkSound
  <2>4. QED BY <1>14, <1>15, <1>16, <2>1, <2>2, <2>3 DEF WalkSound
<1>18. QED BY <1>5, <1>9, <1>17 DEF WalkInv

LEMMA PageBehindCountSound == ASSUME WalkInv, PageClickHouse PROVE WalkInv'
<1>1. PICK w, ids : w = walk /\ ids = MatchesOf(w)
  OBVIOUS
<1>2. StoresTypeOK /\ w \in WalkState /\ WalkSound(w)
  BY <1>1 DEF WalkInv, StoresTypeOK
<1>3. w.step = "counted" /\ w.store = "clickhouse" /\ UNCHANGED rows
  BY <1>1, <1>2 DEF PageClickHouse, WalkSound, PageStands
<1>4. PICK all \in Orders(w, ids) :
        TakePage(Page(all, w.options), w.options.offset + Len(Page(all, w.options)) < w.total)
  BY <1>1, <1>3 DEF PageClickHouse, Orders, MatchesOf
<1>5. PICK page, hasMore : /\ page = Page(all, w.options)
                           /\ hasMore = (w.options.offset + Len(page) < w.total)
  OBVIOUS
<1>6. TakePage(page, hasMore)
  BY <1>4, <1>5
<1>7. ids \subseteq 1..Len(rows) /\ Places(ids) /\ Cardinality(ids) \in Nat
  BY <1>1, <1>2, MatchingFacts, PlacesFinite DEF MatchesOf
<1>8. page \in Seq(RowId) /\ w.options.offset + Len(page) <= Len(rows)
  BY <1>1, <1>4, <1>5, PageFits
<1>9. hasMore \in BOOLEAN /\ (hasMore \/ w.total <= w.options.offset + Len(page))
  <2>1. w.options.offset \in Nat /\ Len(page) \in Nat /\ w.total \in 0..MaxRows
    BY <1>2, <1>8, WalkFacts DEF WalkState
  <2>2. w.options.offset + Len(page) \in Int /\ w.total \in Int
    BY <2>1
  <2>3. TellsMore(hasMore, w.options.offset + Len(page), w.total)
    BY <1>5, <2>2, MoreOrNot
  <2>4. QED BY <2>3 DEF TellsMore
<1>10. IsPage(w, page, hasMore)
  <2>1. SUFFICES ASSUME Claimed(w)
                 PROVE  /\ \A one \in Orders(w, ids) :
                             page = Page(one, w.options) /\ (hasMore \/ Len(one) <= w.options.offset + Len(page))
                        /\ \E one : one \in Orders(w, ids)
    BY <1>1 DEF IsPage
  <2>2. w.quiet /\ DistinctTimes(ids)
    BY <1>1, <1>2, <1>3, <2>1 DEF Claimed, WalkSound
  <2>3. \A one \in Orders(w, ids) : one = all
    <3>1. Orders(w, ids) = TimeOrders(w.options, ids)
      BY <1>3 DEF Orders
    <3>2. QED BY <1>2, <1>4, <1>7, <2>2, <3>1, OneTimeOrder
  <2>4. Len(all) = Cardinality(ids)
    BY <1>3, <1>4, <1>7, OrderFacts
  <2>5. w.total = Cardinality(ids)
    BY <1>1, <1>2, <1>3, <2>2 DEF WalkSound, PageStands
  <2>6. QED BY <1>4, <1>5, <1>9, <2>3, <2>4, <2>5
<1>11. QED BY <1>1, <1>3, <1>6, <1>8, <1>9, <1>10, TakeSound

\* Every step keeps it.
LEMMA WalkNext == WalkInv /\ [StoresNext]_storesVars => WalkInv'
<1>1. SUFFICES ASSUME WalkInv, [StoresNext]_storesVars PROVE WalkInv'
  OBVIOUS
<1>2. ASSUME NEW r \in Row, AppendRow(r) PROVE WalkInv'
  BY <1>1, <1>2, AppendSound
<1>3. ASSUME NEW s \in Source, NEW q \in Asked, BeginWalk(s, q[1], q[2]) PROVE WalkInv'
  BY <1>1, <1>3, BeginSound
<1>4. CASE AskMemory
  BY <1>1, <1>4, MemorySound
<1>5. CASE AskCockroach
  BY <1>1, <1>5, CockroachSound
<1>6. CASE AskTrace
  BY <1>1, <1>6, TraceSound
<1>7. CASE AskClickHouse
  BY <1>1, <1>7, ClickHouseSound
<1>8. CASE CountClickHouse
  BY <1>1, <1>8, CountSound
<1>9. CASE CountClickHouseFirst
  BY <1>1, <1>9, CountFirstSound
<1>10. CASE PageClickHouse
  BY <1>1, <1>10, PageBehindCountSound
<1>11. CASE UNCHANGED storesVars
  <2>1. walk' = walk /\ rows' = rows
    BY <1>11 DEF storesVars
  <2>2. PICK w : w = walk
    OBVIOUS
  <2>3. StoresTypeOK'
    BY <1>1, <2>1 DEF WalkInv, StoresTypeOK
  <2>4. MatchesOf(w)' = MatchesOf(w) /\ (Claimed(w)' <=> Claimed(w))
    BY <2>1 DEF MatchesOf, Matching, Matches, Claimed, DistinctTimes
  <2>5. \A ids : Orders(w, ids)' = Orders(w, ids)
    BY <2>1 DEF Orders, TimeOrders
  <2>6. WalkSound(w)' <=> WalkSound(w)
    BY <2>1, <2>4, <2>5 DEF WalkSound, NothingPassed, ToCome, PagesBegin, PageStands
  <2>7. QED BY <1>1, <2>1, <2>2, <2>3, <2>6 DEF WalkInv
<1>12. QED BY <1>1, <1>2, <1>3, <1>4, <1>5, <1>6, <1>7, <1>8, <1>9, <1>10, <1>11 DEF StoresNext

\* The invariant holds.
LEMMA WalksStaySound == StoresSpec => []WalkInv
<1>1. StoresInit => WalkInv
  BY InitSound
<1>2. WalkInv /\ [StoresNext]_storesVars => WalkInv'
  BY WalkNext
<1>3. QED BY <1>1, <1>2, PTL DEF StoresSpec

\* The rows and the reader's walk keep their types, for any rows, filters and limits.
THEOREM StoresTypeCorrect == StoresSpec => []StoresTypeOK
<1>1. WalkInv => StoresTypeOK
  BY DEF WalkInv
<1>2. QED BY <1>1, WalksStaySound, PTL

\* At the end of a walk nothing is still to come.
LEMMA PagesAreTheMatches == ASSUME WalkInv PROVE PagesGiveTheMatches
<1>1. PICK w, ids : w = walk /\ ids = MatchesOf(w)
  OBVIOUS
<1>2. SUFFICES ASSUME w.step = "done"
               PROVE  /\ Claimed(w) => Sought(w) \subseteq Range(w.found)
                      /\ w.store # "clickhouse" /\ w.options.order # "desc" =>
                           \A j, k \in DOMAIN w.found : j < k => w.found[j] < w.found[k]
  BY <1>1 DEF PagesGiveTheMatches, Done, Ordered, Reachable, Claimed, Sought
<1>3. StoresTypeOK /\ WalkSound(w) /\ NothingPassed(w) /\ PagesBegin(w)
  BY <1>1, <1>2 DEF WalkInv, WalkSound
<1>4. Claimed(w) => Sought(w) \subseteq Range(w.found)
  BY <1>2, <1>3 DEF NothingPassed
<1>5. ASSUME w.store # "clickhouse", w.options.order # "desc",
             NEW j \in DOMAIN w.found, NEW k \in DOMAIN w.found, j < k
      PROVE  w.found[j] < w.found[k]
  <2>1. PICK all : all \in Orders(w, ids)
    BY <1>5 DEF Orders
  <2>2. /\ j \in DOMAIN all /\ w.found[j] = all[j]
        /\ k \in DOMAIN all /\ w.found[k] = all[k]
    BY <1>1, <1>3, <1>5, <2>1 DEF PagesBegin
  <2>3. Places(ids)
    BY <1>1, <1>3, MatchingFacts DEF MatchesOf
  <2>4. all[j] < all[k]
    BY <1>5, <2>1, <2>2, <2>3, OrderClimbs
  <2>5. QED BY <2>2, <2>4
<1>6. QED BY <1>4, <1>5

\* A walk by offset and hasMore, as replay() and the clients of the routes make it,
\* misses none of the events that matched when it began and finds them in the order
\* of the chain, whatever is appended between its pages, over any number of rows and
\* with any limit; one through ClickHouse as long as nothing is appended and the
\* times of its matches differ.
THEOREM PagesMissNothing == StoresSpec => []PagesGiveTheMatches
<1>1. WalkInv => PagesGiveTheMatches
  BY PagesAreTheMatches
<1>2. QED BY <1>1, WalksStaySound, PTL

\* The in-memory store and CockroachDB answer a query() alike, whatever its rows,
\* filter, order, limit and offset, where the in-memory store knows its options.
THEOREM StoresAlwaysAgree == StoresSpec => []StoresAgree
<1>1. StoresTypeOK => StoresAgree
  BY StoresAgreeNow
<1>2. QED BY <1>1, StoresTypeCorrect, PTL

\* getChain, count, getStats, getLatest and getByAgentId of the three stores agree
\* over any rows, as far as the times of the rows allow.
THEOREM ReadsAlwaysAgree == StoresSpec => []ReadsAgree
<1>1. StoresTypeOK => ReadsAgree
  BY ReadsAgreeNow
<1>2. QED BY <1>1, StoresTypeCorrect, PTL
=============================================================================
