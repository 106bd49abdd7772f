--------------------------- MODULE KafkaPipeline ---------------------------
(***************************************************************************)
(* KafkaEventStore (src/src/events/kafka-store.ts) with its consumers      *)
(* (kafka-store.ts, kafka-consumer-pool.ts) and a read store: append()     *)
(* publishes to a topic, consumers of one group materialise the messages   *)
(* into the read store, and every read, getLatestHash included, is         *)
(* answered by the read store.                                             *)
(*                                                                         *)
(* The broker and kafkajs are external: partitions are logs, the broker    *)
(* places a message by the hash of its key, a group commits an offset per  *)
(* partition once eachMessage has settled, and a partition is read again   *)
(* from the committed offset when its owner changes.  An owner that lost   *)
(* its session may still be inside eachMessage when the next one starts.   *)
(*                                                                         *)
(* Any of the read stores may be behind it: the in-memory store and        *)
(* CockroachDB refuse an eventId they hold, ClickHouse, which kafka-store  *)
(* names as well, inserts whatever it is given.                            *)
(***************************************************************************)
EXTENDS HashChain, FiniteSets, SequencesExt

CONSTANTS
  Consumer,        \* consumers of the group
  Partition,       \* partitions of the topic
  Tenant,          \* tenantIds of events
  FromBeginning,   \* consumers with subscribe({ fromBeginning: true })
  MaxEvents,       \* bound: events published
  MaxRebalances    \* bound: assignments of partitions to owners

ASSUME ParameterTypes ==
  /\ Consumer # {} /\ Partition # {} /\ Tenant # {}
  /\ IsFiniteSet(Consumer)
  /\ FromBeginning \subseteq Consumer
  /\ {MaxEvents, MaxRebalances} \subseteq Nat

EventId == 1..MaxEvents
Nobody == "nobody"

ASSUME NobodyIsNoConsumer == Nobody \notin Consumer

Message == [content : EventId, tenant : Tenant, previousHash : Digest(EventId)]

VARIABLES
  published,      \* the events append() has returned, in the order of its calls
  previousHash,   \* the digest the emitter has read for the next event
  reading,        \* whether the emitter has read it
  topic,          \* topic[p]: the messages of partition p
  owner,          \* owner[p]: the consumer assigned to p, or Nobody
  position,       \* position[p]: the next message its owner takes
  committed,      \* committed[p]: the next message after the committed offset
  handling,       \* handling[c]: the messages c is inside eachMessage with
  deduplicates,   \* whether readStore.append refuses an eventId it holds
  readStore,      \* the materialised messages, in insertion order
  passedOver,     \* messages the read store rejected, or behind a group's start
  assignments,    \* assignments[p]: how often p was given to an owner
  lagged          \* whether a hash was read while an event was not materialised

emitVars == <<published, previousHash, reading, lagged>>
groupVars == <<owner, position, committed, handling, assignments>>
readVars == <<deduplicates, readStore, passedOver>>
vars == <<emitVars, topic, groupVars, readVars>>

Offset == 1..(MaxEvents + 1)

TypeOK ==
  /\ published \in Seq(Message)
  /\ previousHash \in Digest(EventId)
  /\ reading \in BOOLEAN
  /\ topic \in [Partition -> Seq(Message)]
  /\ owner \in [Partition -> Consumer \cup {Nobody}]
  /\ position \in [Partition -> Offset]
  /\ committed \in [Partition -> Offset \cup {0}]
  /\ handling \in [Consumer -> SUBSET (Partition \X Offset)]
  /\ readStore \in Seq(Message)
  /\ passedOver \subseteq Range(published)
  /\ deduplicates \in BOOLEAN
  /\ assignments \in [Partition -> Nat]
  /\ lagged \in BOOLEAN

\* A group without a committed offset, 0, starts where subscribe() says.
Init ==
  /\ published = <<>> /\ previousHash = Null /\ reading = FALSE /\ lagged = FALSE
  /\ topic = [p \in Partition |-> <<>>]
  /\ owner = [p \in Partition |-> Nobody]
  /\ position = [p \in Partition |-> 1]
  /\ committed = [p \in Partition |-> 0]
  /\ handling = [c \in Consumer |-> {}]
  /\ readStore = <<>> /\ passedOver = {}
  /\ deduplicates \in BOOLEAN
  /\ assignments = [p \in Partition |-> 0]

-----------------------------------------------------------------------------
(***************************************************************************)
(* The producer: createAndStoreEvent asks the store for its latest hash    *)
(* and appends, one event at a time under the emit lock.                   *)
(***************************************************************************)
HashOf(m) == Append(m.previousHash, m.content)

\* Mutant of LatestHashes: the read store answers with its first event's hash.
FirstHashes == IF readStore = <<>> THEN {Null} ELSE {HashOf(Head(readStore))}

\* The hash of the last row, or in ClickHouse that of an event with the latest
\* time, which callers give: it may be any.
LatestHashes ==
  IF readStore = <<>> THEN {Null}
  ELSE IF deduplicates THEN {HashOf(Last(readStore))} ELSE {HashOf(m) : m \in Range(readStore)}

GetLatestHash ==
  /\ ~ reading
  /\ reading' = TRUE
  /\ previousHash' \in LatestHashes
  /\ lagged' = (lagged \/ ~ Range(published) \subseteq Range(readStore))
  /\ UNCHANGED <<published, topic, groupVars, readVars>>

NextMessage(t) ==
  [content |-> Len(published) + 1, tenant |-> t, previousHash |-> previousHash]

\* The key is the eventId, so any partition may get the message.
Publish(t, p) ==
  /\ reading
  /\ Len(published) < MaxEvents
  /\ reading' = FALSE
  /\ published' = Append(published, NextMessage(t))
  /\ topic' = [topic EXCEPT ![p] = Append(@, NextMessage(t))]
  /\ UNCHANGED <<previousHash, lagged, groupVars, readVars>>

-----------------------------------------------------------------------------
(***************************************************************************)
(* The consumer group.                                                     *)
(***************************************************************************)
\* The consumer of a store reads from the beginning, those of a pool from the end.
StartOffset(c, p) ==
  IF committed[p] # 0 THEN committed[p]
  ELSE IF c \in FromBeginning THEN 1 ELSE Len(topic[p]) + 1

\* What a group without a committed offset leaves behind.
BehindStart(c, p) ==
  IF committed[p] = 0 /\ c \notin FromBeginning THEN Range(topic[p]) ELSE {}

\* The group gives p to c: a first assignment, a restart, or a lost session.
Assign(c, p) ==
  /\ owner[p] # c
  /\ SumFunction(assignments) < MaxRebalances
  /\ assignments' = [assignments EXCEPT ![p] = @ + 1]
  /\ owner' = [owner EXCEPT ![p] = c]
  /\ position' = [position EXCEPT ![p] = StartOffset(c, p)]
  /\ passedOver' = passedOver \cup BehindStart(c, p)
  /\ UNCHANGED <<emitVars, topic, committed, handling, deduplicates, readStore>>

\* A consumer disconnects and is inside eachMessage no more.
Disconnect(c) ==
  /\ \E p \in Partition : owner[p] = c
  /\ handling[c] = {}
  /\ owner' = [p \in Partition |-> IF owner[p] = c THEN Nobody ELSE owner[p]]
  /\ UNCHANGED <<emitVars, topic, position, committed, handling, readVars, assignments>>

\* Mutant of Take: the last message of a partition waits for one behind it.
TakeBehindLast(c, p) ==
  /\ owner[p] = c
  /\ position[p] < Len(topic[p])
  /\ \A x \in handling[c] : x[1] # p
  /\ handling' = [handling EXCEPT ![c] = @ \cup {<<p, position[p]>>}]
  /\ UNCHANGED <<emitVars, topic, owner, position, committed, readVars, assignments>>

\* Mutant of Take: the messages of a partition are handled in parallel.
TakeAhead(c, p) ==
  /\ owner[p] = c
  /\ \E o \in position[p]..Len(topic[p]) :
       /\ <<p, o>> \notin handling[c]
       /\ handling' = [handling EXCEPT ![c] = @ \cup {<<p, o>>}]
  /\ UNCHANGED <<emitVars, topic, owner, position, committed, readVars, assignments>>

\* Mutant of Take: the offset is committed before the message is handled.
TakeAndCommit(c, p) ==
  /\ owner[p] = c
  /\ position[p] <= Len(topic[p])
  /\ \A x \in handling[c] : x[1] # p
  /\ handling' = [handling EXCEPT ![c] = @ \cup {<<p, position[p]>>}]
  /\ committed' = [committed EXCEPT ![p] = position[p] + 1]
  /\ UNCHANGED <<emitVars, topic, owner, position, readVars, assignments>>

\* eachMessage is called: one message of a partition at a time.
Take(c, p) ==
  /\ owner[p] = c
  /\ position[p] <= Len(topic[p])
  /\ \A x \in handling[c] : x[1] # p
  /\ handling' = [handling EXCEPT ![c] = @ \cup {<<p, position[p]>>}]
  /\ UNCHANGED <<emitVars, topic, owner, position, committed, readVars, assignments>>

Stored(m) == m \in Range(readStore)

AppendToStore(m) == IF deduplicates /\ Stored(m) THEN readStore ELSE Append(readStore, m)

\* Mutant of Settle: the offset counts as read only if it is committed at once.
SettleIfCommitted(c, p, o) ==
  /\ handling' = [handling EXCEPT ![c] = @ \ {<<p, o>>}]
  /\ \/ /\ owner[p] = c /\ position[p] = o
        /\ position' = [position EXCEPT ![p] = o + 1]
        /\ committed' = [committed EXCEPT ![p] = o + 1]
     \/ UNCHANGED <<position, committed>>
  /\ UNCHANGED <<emitVars, topic, owner, assignments>>

\* eachMessage settles.  If c still owns p the offset counts as read, and it is
\* committed now or together with a later one.
Settle(c, p, o) ==
  /\ handling' = [handling EXCEPT ![c] = @ \ {<<p, o>>}]
  /\ IF owner[p] = c /\ position[p] = o
     THEN /\ position' = [position EXCEPT ![p] = o + 1]
          /\ committed' \in {committed, [committed EXCEPT ![p] = o + 1]}
     ELSE UNCHANGED <<position, committed>>
  /\ UNCHANGED <<emitVars, topic, owner, assignments>>

\* readStore.append stores the event, or refuses a duplicate and is passed over.
Materialize(c, p, o) ==
  /\ <<p, o>> \in handling[c]
  /\ readStore' = AppendToStore(topic[p][o])
  /\ Settle(c, p, o)
  /\ UNCHANGED <<deduplicates, passedOver>>

\* readStore.append rejects; the error is logged and the message counts as read.
MaterializeFails(c, p, o) ==
  /\ <<p, o>> \in handling[c]
  /\ Settle(c, p, o)
  /\ passedOver' = passedOver \cup ({topic[p][o]} \ Range(readStore))
  /\ UNCHANGED <<deduplicates, readStore>>

Consume(c, p) ==
  \/ Take(c, p)
  \/ \E o \in Offset : Materialize(c, p, o) \/ MaterializeFails(c, p, o)

Next ==
  \/ GetLatestHash
  \/ \E t \in Tenant, p \in Partition : Publish(t, p)
  \/ \E c \in Consumer, p \in Partition : Assign(c, p) \/ Consume(c, p)
  \/ \E c \in Consumer : Disconnect(c)

Spec == Init /\ [][Next]_vars

\* A consumer keeps taking the messages of its partitions, and the read store
\* answers; nobody is obliged to publish or to change the group.
Fairness == \A c \in Consumer, p \in Partition : WF_vars(Consume(c, p))

FairSpec == Spec /\ Fairness

-----------------------------------------------------------------------------
(***************************************************************************)
(* Properties                                                              *)
(***************************************************************************)
Copies(m) == Cardinality({n \in DOMAIN readStore : readStore[n] = m})

\* The read store holds an event once if it deduplicates.  ClickHouse does not, so
\* that the "Idempotent writes" of kafka-store.ts:16 and the "readStore.append handles
\* dedup" of :125 are not kept there; but it holds an event no more often than its
\* partition was assigned: within an assignment nothing is delivered twice, also not
\* between an owner that lost its session and the next one.
CopiesNeedAssignments ==
  \A p \in Partition : \A o \in DOMAIN topic[p] :
    Copies(topic[p][o]) <= IF deduplicates THEN 1 ELSE assignments[p]

Settled(m) == Stored(m) \/ m \in passedOver

\* Each row of an event lies behind a row of every earlier event of its partition
\* that was not passed over, however often events are delivered and also when an
\* owner that lost its session comes late with an old message.  The partition is all
\* that is ordered: kafka-store.ts:9, :15 and :19 promise "partitioned by tenantId" and
\* "Ordered within partition (partition key = tenantId)", but the message is keyed by
\* eventId (:170), so the events of a tenant are spread over all partitions and may be
\* materialised in any order among them.
PartitionOrder ==
  \A p \in Partition : \A j, k \in DOMAIN topic[p] :
    j < k /\ topic[p][j] \notin passedOver =>
      \A n \in DOMAIN readStore : readStore[n] = topic[p][k] =>
        \E i \in 1..(n - 1) : readStore[i] = topic[p][j]

\* A read store that deduplicates holds a chain, in its own order, as long as no hash was read
\* while a published event was not materialised (getLatestHash() is answered by
\* the read store, kafka-store.ts:206): redelivery, rebalances and late owners do
\* not break it.
ChainUnlessLagged ==
  deduplicates /\ ~ lagged => \A n \in DOMAIN readStore :
    readStore[n].previousHash = IF n = 1 THEN Null ELSE HashOf(readStore[n - 1])

\* A committed offset leaves nothing behind that the read store has not answered
\* for: rebalances, restarts and late owners lose no event by themselves.
CommittedIsSettled ==
  \A p \in Partition : \A o \in 1..(committed[p] - 1) : Settled(topic[p][o])

\* Whatever append() has published ends up in the read store, unless it is passed
\* over or its partition has lost its owner.
EventuallyMaterialized ==
  \A n \in EventId : n \in DOMAIN published ~>
    /\ n \in DOMAIN published
    /\ \/ Settled(published[n])
       \/ \E p \in Partition : owner[p] = Nobody /\ published[n] \in Range(topic[p])
=============================================================================
