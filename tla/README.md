# Verification of the proof plane

TLA+ models of the proof plane in `src/src`, checked with TLC and, where a
result should hold for every size of the system, proved with TLAPS.  Line
numbers below are those of the files under `src/`; `PROJECT.json` maps every
definition of the models to the lines it stands for.

## 1. The system

The proof plane records what agents decide and do as events of an append-only
log.  Each event carries the digest of the one before it, so that the log can
be audited later.

| part | file | state | operations |
|---|---|---|---|
| hash chain | `events/hash-chain.ts` | none | digests, link, `verifyChain`, `verifyChainWithDetails` |
| emitter | `events/event-emitter.ts` | the emit lock (a chain of promises), the listener array | `emit`, `emitBatch`, `addListener`, `removeListener` |
| stores | `events/memory-store.ts`, `cockroach-store.ts`, `clickhouse-store.ts` | rows | `append`, `getLatestHash`, `query`, `getChain`, `clear`, statistics |
| Kafka | `events/kafka-store.ts`, `kafka-consumer-pool.ts` | a producer, consumers of a group, a read store | `append` publishes, `eachMessage` materialises, reads go to the read store |
| projector | `projections/trust-read-model.ts` | read models, a cursor, an interval timer | `start`, `stop`, `replay`, polls |
| anchoring | `events/chain-anchoring.ts` | a log of anchors, two counters | `shouldAnchor`, `anchor`, `verify` |
| signatures | `events/event-signatures.ts` | a private key, one trusted key per owner | `sign`, `verify`, `verifyBatch`, `addTrustedKey`, `removeTrustedKey` |
| facade | `proof-plane/proof-plane.ts` | none of its own | logs, verifies, subscribes, shadow verification |
| Merkle tree | `events/merkle-tree.ts` | the levels of one tree | root, proof, verify |
| key ceremony | `events/key-ceremony.ts` | none (logs are values) | witness, attest, finalise, verify |
| integrity check | `events/integrity-check.ts` | the manifest, shared by its calls | `loadManifest`, `runAllChecks` |
| timestamp authority | `events/timestamp-authority.ts` | a timer per request | `requestTimestamp`, `verifyTimestamp` |
| external anchor client | `events/external-anchor.ts` | none (anchors are values) | `anchorMerkleRoot`, `verifyAnchor` |
| HTTP routes, adapter, logger | | none that outlives a call | |

How they interact.  Callers (routes, the adapter, the `log*` helpers of the
facade) call `emit`.  The emitter takes its lock, asks the store for the latest
hash, has the signing service sign, appends, and awaits each listener, all
before it gives the lock back.  With the Kafka store `append` only publishes;
consumers fill the read store later, and the read store answers
`getLatestHash`.  The projector and the HTTP clients page through the store
while events go on being appended.  The flush cycle of a caller asks the
anchoring service, which keeps a second, small hash-linked log; roots may also be
stamped by a timestamp authority.  Auditors read the rows back and verify
digests, links and signatures.  An integrity check looks at the installed code
itself.

What is hard about it:

* *One thread, many awaits.*  Between any two awaits another call, listener,
  poll or batch may run.  What was read before an await (latest hash, listener
  array, last page, last anchor entry) may be old after it.
* *Failure in the middle.*  Signing, validation, the store, a listener and every
  callback may throw, a store may have stored and still report an error.
* *Several processes.*  Two emitters over one database have two locks.  Kafka
  redelivers, and an owner that lost its session may still be at work.
* *Damage.*  The chain exists because rows may be altered, lost or replaced
  behind the store's back; so may tokens and anchors that are kept, and the files
  that the integrity check reads one after the other.
* *Time.*  The projector's cursor and ClickHouse's order are times, which events
  are given by their callers: they may be equal, or go back.

What makes each part correct: the emitter keeps one chain in call order, stores
what it acknowledges and nothing twice, and never blocks for good; a batch
reports what the store holds; listeners hear of everything in order; a walk
through pages misses nothing; the projector counts every event once; an anchor
record verifies for good; Kafka materialises each event, no more often than its
read store and the rebalances allow; an audit that succeeds means that the hashed
fields are those that were recorded.

`PROJECT.json` lists the hazards line by line, with the properties that would
catch them.

## 2. Modules

| module | models | extends |
|---|---|---|
| `HashChain` | digests, links, the verifier | |
| `ProofLog` | what a log promises, in the abstract | |
| `EventEmitter` | `emit`, lock, listeners, one store | `HashChain` |
| `EventDelivery` | who is told of an event | `EventEmitter` |
| `EmitBatch` | `emitBatch` callers | `EventEmitter` |
| `EventStores` | `query` of the three stores, the trace route and a paging reader | |
| `StoreReads` | the stores' other reads: latest, chain, counts, statistics | `EventStores` |
| `TrustReadModel` | the projector | |
| `ChainAnchoring` | anchoring | `HashChain` |
| `MerkleTree` | tree, root, proofs of inclusion | |
| `AnchoredTrees` | trees under anchored roots | `ChainAnchoring`, `MerkleTree` |
| `KafkaPipeline` | producer, group, read store | `HashChain` |
| `KeyCeremony` | the log of a key ceremony and its verdicts | |
| `IntegrityCheck` | overlapping calls of the integrity check over files that change | |
| `ExternalEvidence` | timestamp tokens and external anchors | |
| `ChainAudit` | the verifier over a damaged store | `HashChain` |
| `SignedAudit` | the same with signatures and keys | `ChainAudit` |
| `MC*` | constants of the runs that need expressions | |
| `HashChainProofs` | proofs about chains and heads, and induction over the naturals | `HashChain` |
| `EventEmitterProofs` | proofs about the emitter, delivery and batches | `EventDelivery`, `EmitBatch`, `HashChainProofs` |
| `ChainAuditProofs` | proofs about both audits | `SignedAudit`, `HashChainProofs` |
| `EventStoreProofs` | proofs about the pipeline, and about the queries, pages and reads of the stores | `KafkaPipeline`, `StoreReads`, `HashChainProofs` |
| `ChainAnchoringProofs` | proofs about anchoring and the trees under the roots | `AnchoredTrees`, `HashChainProofs` |
| `TrustReadModelProofs` | proofs about the projector | `TrustReadModel`, `HashChainProofs` |
| `EvidenceProofs` | proofs about ceremonies, tokens and external anchors | `KeyCeremony`, `ExternalEvidence` |
| `IntegrityCheckProofs` | proofs about the integrity check | `IntegrityCheck` |

**Digests.**  SHA-256 and SHA3-256 are taken as collision-free.  A digest is
what it is a digest of, and as each event hashes the digest before it, that
unfolds to a sequence of contents: `Append(previousHash, content)`.  Equality of
digests is equality of these sequences.  `verifyChain` is `ChainVerifies`, and
the count of `verifyChainWithDetails` is `VerifiedCount`.

**EventEmitter.**  A call of `emit()` is a process numbered in call order.  An
action is the code between two awaits:

| action | code (`event-emitter.ts`) |
|---|---|
| `Emit` | `serializedEmit` up to `await previousLock`: takes the last promise, leaves its own |
| `AcquireLock` | the awaited promise has resolved |
| `ReadLatestHash` | `await store.getLatestHash()` |
| `BuildEvent`, `SigningFails` | signing, digests, `validateEvent` |
| `AppendEvent`, `StoreFails`, `AppendUncertain` | `await store.append()`, its errors with nothing stored, and an error although the row is stored |
| `CallListener`, `ListenerEmits`, `ListenerSettles` | the walk of `notifyListeners` |
| `Return` | the walk is over; `finally` resolves the promise |
| `AddListener`, `RemoveListener` | push and splice of the live array |

The promise of call `i` is `i` itself, resolved when the call has settled; 0 is
the resolved promise a new emitter starts with.  `EventDelivery` adds two
history variables: who was subscribed before an event was stored and stayed, and
whom a splice moved behind the walk.  `EmitBatch` adds batches, each a loop that
awaits one `emit()` at a time and collects results and errors.

**EventStores.**  The filters of the three stores, their orders and pages, and a
reader that asks for the next offset until `hasMore` is false.  CockroachDB is
ordered by `seq`, ClickHouse by time only, with the order of equal times open.
ClickHouse asks for the page and for the count in two statements, so these are
two actions, in either order.  `TakePage` is the loop of `replay()` and of an HTTP client.  A
trace (`getTrace`, `proof-plane.ts:428`) is the in-memory query by correlation
with no limit given; the route slices it (`routes.ts:276`).  `StoreReads` gives
the other reads as operators over the same rows.  CockroachDB's and the in-memory
ones have one answer, those of ClickHouse a set where the order is open.  Only
CockroachDB counts by shadow mode (`cockroach-store.ts:420`), and of an empty table
ClickHouse's oldest and newest events are of 1970 (`Epoch`).

**TrustReadModel.**  `start`, `replay` and each tick are tasks, which may overlap in
any way: nothing in the code prevents it.  A store query is asked, answered and
projected in three actions, and so is the `getLatest()` at the end of a replay, with
`MoveCursor` for what comes after its await.  `projected` is the history of
positions that went into the models; `blind` are the events stored between a
replay's last page and its `getLatest()` (line 302).  Any call's query may
reject; `broken` says that a replay has since the last one began, and `overlapped`
that two calls were under way together since then.  Events come in any order
of times: `Overtaken` and `Overtaking` are those stored behind a later or the
same time, and before an earlier one.

**ChainAnchoring.**  A call of `anchor()` reads the log, persists and completes
in separate actions; either callback may be configured or not, and may fail
before or after its effect.  What makes batches and calls `anchor()` is not in
the repository; it follows the comment on `shouldAnchor()`.

**MerkleTree, AnchoredTrees.**  The tree is a function from the leaves to its
levels.  A leaf hash is a sequence of one element and an inner hash one of two,
so that equal hashes mean equal trees.  `AnchoredTrees` gives each chain position
the tree over the events before it and anchors its root; nothing in the
repository builds that tree, so it is external.

**KeyCeremony.**  Each operation returns a new log, so the variable `log` is the
one at hand and the actions apply in any order; `Edit` is a change of the file
between them.  `finalised` and `attested` are history: the log as it was last
given a hash and an attestation.  The array given to `JSON.stringify`
(`key-ceremony.ts:160`) selects keys at every depth, which is why `Hashable`
holds the number of witnesses and not who they are.

**KafkaPipeline.**  The broker and kafkajs are external: a partition is a log,
a group commits after `eachMessage` settled, at once or together with a later
offset, and an owner that lost its session may still be inside `eachMessage`.  The
read store is any of the three: `deduplicates`, chosen at the start, says whether it
refuses an event it holds or inserts it again, as ClickHouse does, whose latest
event is also one of several (`LatestHashes`).  `assignments` and `lagged` are
history: how often a partition was given to an owner, and whether a hash was read
while an event was published and not materialised.

**IntegrityCheck.**  A call of `runAllChecks` reads the manifest (`ReadManifest`),
puts it when the answer arrives into the field that all calls share (`Load`, across
the await of `integrity-check.ts:201`, so that an older answer may replace a newer
manifest), reads the critical files one after the other and the dependency beside
them, and reports; of a manifest that is `null` it throws (`ReportThrows`).  What a file must be is looked up before its
read is awaited (`integrity-check.ts:240`, `255`), so `GoOn` runs from one await
to the next.  Deployments, repairs and accidents are `Change`: one file, the
manifest or the dependency at a time.  `quiet` is history: nothing has changed since
the call began, and no late answer has put another manifest than the one on the disk
in its place.  The checks of the runtime are a set of
capabilities, which do not change.

**ExternalEvidence.**  A request is in flight, may be stamped late or never, and
its caller is in `fetch()`, in the body or done; the timer stays set to the
`finally` clause (`timestamp-authority.ts:195`).  Any answer to a request that was
stamped may arrive.  Tokens and anchors are records of what their digests were
taken of, and the properties alter one field of them at a time.

**ChainAudit, SignedAudit.**  Recording is one atomic action here; that the
emitter behaves like one is what the other modules show.  A fault may alter the
body of a row, drop its SHA3 digest, lose a row, replace a row by one whose digests
agree again, or (in `SignedAudit`) relink a row to the one it now lies behind.  A
fault cannot make a signature.  The columns that no digest covers are left out, as
no audit reads them.  An event names any signer (`event-emitter.ts:263`), while the
service signs in its own name; keys are added, removed and rotated at any time.

## 3. Runs

Twelve runs; each `.cfg` gives its bounds.  All bounds are constants named
`Max...`.

| run | instance | shows |
|---|---|---|
| `EmitterSafety` | 1 emitter, 3 calls, 2 listeners, list of 2, signing and appends that fail | one chain, stored once, delivery in order and to all subscribers, refinement of `ProofLog` |
| `EmitterShared` | 2 emitters (one signing, one anonymous), 4 calls, production, lost answers, a listener that leaves or awaits an `emit()` | what an emitter keeps although it shares its store: exclusion, order, and that the chain forks only against the other |
| `EmitBatch` | 2 batches of up to 2 requests, single calls, 1 listener, 3 calls | reports agree with the store, each request once, every `emit()` ends |
| `ReadModel` | 2 calls under way together, 2 events of 2 kinds and 2 times, 2 replays, 2 intervals, page of 1, any query may fail | what may be counted twice or missed for good, summaries right, every other event projected |
| `Anchoring` | 2 calls, 5 flushes, 4 instants, interval of 2 | records verify, the log is a chain, the counter is the backlog, an anchored root proves exactly the events up to its position |
| `Kafka` | 2 consumers (one of a pool), 2 partitions, 3 events, 2 assignments of partitions, a read store that deduplicates or not | copies by assignments, partition order, committed means answered for, nothing forgotten, a chain unless the store lagged |
| `AuditSafety` | 3 events, 2 faults, 4 of events, faults and checkpoints together, 2 keys, 2 payloads, 2 signers | what a chain that verifies, a checkpoint, and verified signatures prove |
| `EventStores` | 3 rows of 3 kinds and 2 times, pages of 1 or 2, traces cut at 2 | pages give the matches, walks end, the stores agree on queries, counts, statistics and the chain |
| `KeyCeremony` | 2 witnesses, 2 custodians, 2 keys, 5 operations | what the hash and the attestation of a log say |
| `IntegrityCheck` | 2 calls, 2 files, 2 releases, 2 changes | an altered file is not passed over; over an installation that stands still the report is exact |
| `ExternalEvidence` | 2 requests, 2 roots, one anchor at a time | requests settle; what verifies is of its root |
| `CeremonyNeverVerifies` | 1 witness, 3 operations | *violation*: the documented order gives a log that is not valid |

Why the bounds are enough.  A lock needs three calls for one that waits behind a
call that waits, which is the shortest chain of promises with a middle;
`EmitterShared` has four, two for each emitter or three and one.  Two listeners
are needed for a splice to move one behind the walk.  A batch of two with two
errors, a single call between them and a second batch cover the ways the loop
ends.  Two calls of the projector are a replay with a poll, two polls, or a replay
with the restart that overtakes it; with pages of one event two events leave one
behind the last page, and give each order of two times.  Its run has no event without
an agent; the theorem about the summaries has.  Two anchors under way can read the same last
entry; five flushes make two anchors and a backlog.  Three rows are the fewest
for a link with a row on both sides to be lost, altered and relinked.  In
`AuditSafety` keys and payloads are symmetric: no property or constant names
one; four steps are three events and a fault, or two of each.  Three events and two
assignments give a partition a late owner and its successor, and a redelivery behind
a later event.  Five positions give trees with one and with two levels
that end in a node without a neighbour.  A default limit of two is exceeded by a
third row, which is what a hundred and one events are to the real one.  Two calls
and two files let one call load a manifest between the reads of the other; two
changes are a deployment in two parts, or damage and repair.  Two roots under way
are enough to mix up answers.  Types (`TypeOK` of each module) hold in these
instances too; they are proved for all others and the runs leave them out, and
so it is with the inductive invariants of section 4.

Every property has a mutant, a plausible bug in the code it is about, defined
next to the definition it replaces; TLC finds the property violated with it.

### Fairness

* Emitter and batches: weak fairness on what a call does by itself.  The event
  loop runs every ready continuation, and stores, signers and listeners settle
  their promises.  Nobody is obliged to call or subscribe.  A listener that
  awaits an `emit()` of its own emitter deadlocks it (lines 326 and 367); the
  liveness run assumes listeners that do not, the safety run has them.
* Projector: intervals keep firing, queries settle, and a query that is asked
  again and again is not rejected for good (strong fairness on its answer).
* Kafka: an assigned consumer keeps taking and the read store answers, with a
  success or an error.  Nobody is obliged to publish or to rebalance.
* Stores: the reader goes on asking; nobody is obliged to append.
* Timestamp authority: a timer that is set goes off.  The authority owes nothing.

### Where code and documents disagree

* `CeremonyNeverVerifies`.  The attestation signs the log with the hash it has at
  that time (`key-ceremony.ts:188`), and the hash covers the attestation (line
  159).  Finalising after attesting, which line 166 asks for, invalidates the
  attestation; attesting after finalising invalidates the hash.  Without a public
  key `verifyCeremonyLog` reports an error too (line 300), so no log is valid.

The models also exempt, by a named condition, behaviour that a reader should
know of:

* `getLatestHash` and `append` are two statements (`cockroach-store.ts:215`,
  `250`) under no common transaction, and the lock is the emitter's own.  Two
  processes link to the same head, whereas `cockroach-store.ts:9` promises
  "Serializable isolation for chain integrity": `ForksOnlyBetweenEmitters` says
  how far the damage goes.
* A poll asks from one millisecond after the last event it has seen
  (`trust-read-model.ts:436`), so an event with the same time, or an earlier one,
  is never projected: `Overtaken`.  The cursor is the time of the last event of
  the page, which may be earlier than others', and these are then counted again:
  `Overtaking`.
* A `replay()` of a running projector overlaps its polls, a poll that takes longer
  than the interval the next one, and events are then counted twice: no call looks
  whether another is under way (`trust-read-model.ts:149`, `271`, `425`).
  `ProjectedOnce` holds up to such an overlap (`overlapped`), and again from the next
  replay that begins alone; what `MissedOnlyBehindReplay` and `EveryEventProjected`
  say, and the summaries, hold with overlaps too.
* A `replay()` that fails leaves the models empty or filled in part and the cursor
  where it was (`trust-read-model.ts:275`, `300`), and a `start()` that fails leaves
  `running` set with no interval (143): `broken`, `Stranded`.
* A manifest that cannot be read leaves the checker with the one it had, not with
  the placeholder that `integrity-check.ts:195` speaks of, and a manifest without
  files makes `runAllChecks` reject.  Files that are not listed and a dependency
  that is absent pass.  A call may mix two manifests, and an older answer may replace
  a newer manifest (201): `held`, `quiet`.
* The dependency check is documented to compare the version with `package-lock.json`
  (`integrity-check.ts:169`, `288`); it compares the name and nothing else (309):
  `ReadDependency`.
* The nonce of a timestamp request is never compared, and an answer that is not
  JSON verifies for any root (`timestamp-authority.ts:235`): `names`.
* `verifyAnchor` promises that "the request hash matches the Merkle root binding"
  (`external-anchor.ts:206`); it looks at the form of the hash only, and not at the
  event count of the evidence.  The hash could not be computed anew, as its own
  timestamp is not kept.
* The latest event of ClickHouse is one of the latest time (`clickhouse-store.ts:130`),
  and its chain is sorted by a column that nobody fills (203): `StrictlyInTimeOrder`.
* The hash for the next event comes from a read store that may lag
  (`kafka-store.ts:206`): `lagged`.
* `kafka-store.ts:9` and `19` promise messages "partitioned by tenantId", line 15
  order within a tenant's partition.  They are keyed by `eventId` (170), so the events
  of a tenant have no order among each other: `PartitionOrder`.
* `kafka-store.ts:16` promises "Idempotent writes" and 125 that `readStore.append`
  deduplicates.  ClickHouse inserts what it is given (`clickhouse-store.ts:94`) and
  holds an event up to as often as its partition was assigned: `CopiesNeedAssignments`.
* `event-store.ts:24` documents "default: ascending by occurredAt"; the in-memory store
  and CockroachDB give insertion order, even if asked for "asc", and ClickHouse the
  latest first: `PagesGiveTheMatches`.
* `README.md:21` promises that "any mutation breaks every downstream link" and line 22
  a dual hash.  A SHA3 digest that is dropped is not missed (`hash-chain.ts:120`,
  `tests/crypto-hardening.test.ts:240`), nor is a change of a column that no digest
  covers, such as `shadowMode`: `NoSilentDamage`.
* The three stores give other statistics behind one interface: only CockroachDB fills
  `byShadowMode` (`cockroach-store.ts:420`), which `routes.ts:364` serves, and an
  empty ClickHouse table has events of 1970 (`clickhouse-store.ts:222`): `ReadsAgree`.
* `eachMessage` swallows a rejected append (`kafka-store.ts:128`) and the offset
  is committed, although line 14 promises "At-least-once delivery (consumer
  commits after process)": `CommittedIsSettled` counts a rejected message as
  settled.
* `verifyChain` takes the first event it is given for the first of the chain
  (`hash-chain.ts:154`), although `openapi.yaml:399` offers "Start verification
  from this event": the audits of `ChainAudit` begin at the first event.
* `getTrace` is documented to get all events (`proof-plane.ts:426`) but leaves
  the limit to the store, which has a default of 100 (`memory-store.ts:101`):
  `Reachable` in `EventStores`.
* The hash of a ceremony covers neither custodian nor witnesses nor the Shamir
  configuration: `HashVerdict` says what it does cover.
* A listener that unsubscribes during the walk makes it skip the next
  (`event-emitter.ts:363`): `overtaken` in `EventDelivery`.
* An event stored while a replay is between its last page and `getLatest()` is
  not projected (`trust-read-model.ts:302`): `blind`.
* Callers that do not await `anchor()` fork the anchor log, and `verify()` still
  accepts every record (`chain-anchoring.ts:427`, `537`): `~ overlapping`.
* `persistEntry` without `readEntries` writes one log and reads another
  (`chain-anchoring.ts:475`): `SameLog`.
* A group whose first consumer is one of a pool starts at the end of the topic
  (`kafka-consumer-pool.ts:147`): `passedOver`.
* A production emitter that has a private key but neither a signing service nor a
  `signedBy` stores events unsigned (`event-emitter.ts:281`): `WantsSignature`.
* The signing service signs as its `serviceId` (`event-signatures.ts:346`), whoever the
  request or the emitter names as signer (`event-emitter.ts:263`).  An event that
  names another never verifies (`event-signatures.ts:352`), and one whose `signedBy`
  is changed to `serviceId` does, as `signedBy` is not signed: `SignedEventsVerify`,
  `FullyVerifiedIsAsRecorded`.
* The in-memory store knows no shadow options and takes an empty list of types
  for "nothing"; ClickHouse knows neither correlation nor type filters: see
  `StoresAgree` and the three filters of `EventStores`.

## 4. Proofs

Each theorem is for every value of the constants: any number of emitters, calls,
listeners, events, consumers, files and faults.

| theorem | module | states |
|---|---|---|
| `VerifiedHeadCommits`, `SameHeadSameHistory` | `HashChainProofs` | a verified chain's latest hash is its contents; equal heads, equal histories |
| `TypeCorrect` | `EventEmitterProofs` | `[]TypeOK` |
| `EmitterExcludes` | | `[]MutualExclusion` |
| `EventsInCallOrder` | | `[]CallOrder` |
| `AcceptedStoredOnce` | | `[]StoredOnceIfAccepted` |
| `ForksNeedTwoEmitters` | | `[]ForksOnlyBetweenEmitters` |
| `SingleEmitterChainValid`, `SingleEmitterHeadCommits` | | `[]ChainIsValid`, `[]HeadCommitsToHistory` for one emitter |
| `EmitterImplementsProofLog` | | one emitter refines `ProofLog` |
| `SingleEmitterDeliveryOrder` | | `[]DeliveryFollowsChain` for one emitter |
| `StayingSubscribersAreTold` | | `[]SubscribersAreTold` |
| `BatchEmitsEachOnce`, `BatchReportsTheStore` | | `[]EachRequestOnce`, `[]ReportMatchesStore` |
| `AuditTypeCorrect` | `ChainAuditProofs` | types of both audits |
| `CheckpointsArePins` | | `[]CheckpointsPinHistory` of both audits |
| `DamageIsNotSilent` | | `[]NoSilentDamage` of both audits |
| `DamageIsNotBlamedOnPrefix` | | `[]UndamagedPrefixVerifies` of both audits |
| `FullyVerifiedStoresAreAsRecorded` | | `[]FullyVerifiedIsAsRecorded` |
| `SignedEventsAreVerified` | | `[]SignedEventsVerify` |
| `KafkaTypeCorrect`, `NothingLostByCommit` | `EventStoreProofs` | `[]TypeOK`, `[]CommittedIsSettled` |
| `CopiesBoundedByAssignments`, `PartitionsInOrder`, `ChainWithoutLag` | | `[]CopiesNeedAssignments`, `[]PartitionOrder`, `[]ChainUnlessLagged` |
| `StoresTypeCorrect`, `PagesMissNothing` | | `[]StoresTypeOK`, `[]PagesGiveTheMatches` |
| `StoresAlwaysAgree`, `ReadsAlwaysAgree` | | `[]StoresAgree`, `[]ReadsAgree` |
| `AnchoringTypeCorrect`, `CounterCountsBacklog` | `ChainAnchoringProofs` | `[]TypeOK`, `[]CounterIsBacklog` |
| `AwaitedLogIsChain`, `HandedOutAnchorsVerify` | | `[]LogIsChain`, `[]AnchorsVerify` |
| `AnchoredEventsAreProvable` | | `[]AnchoredEventsProvable` |
| `ReadModelTypeCorrect`, `SummariesCountProjected` | `TrustReadModelProofs` | `[]TypeOK`, `[]SummariesCount` |
| `EventsProjectedOnce`, `EventsMissedOnlyBehindReplay` | | `[]ProjectedOnce`, `[]MissedOnlyBehindReplay` |
| `CeremonyTypeCorrect`, `HashSaysThisMuch`, `AttestationSaysThisMuch` | `EvidenceProofs` | `[]CeremonyTypeOK`, `[]HashVerdict`, `[]AttestationVerdict` |
| `EvidenceTypeCorrect`, `TokensProveTheirRoot`, `AnchorsProveTheirRoot` | | `[]TypeOK`, `[]TokensAreOfTheirRoot`, `[]AnchorsKeepTheirRoot` |
| `CheckTypeCorrect`, `AlteredFilesAreReported`, `QuietReportsAreExact` | `IntegrityCheckProofs` | `[]TypeOK`, `[]AlteredFileIsReported`, `[]QuietReportIsExact` |

*Hash chain.*  That a head commits to all contents is by induction along the
chain.  The induction theorems of the library take an operator and cannot be
used here; `NatSetInduction` is about the set of lengths for which a claim holds
and follows from the least element of its complement.  All later inductions use
it: along pages, levels of a tree, verified prefixes.

*Emitter.*  Mutual exclusion is not inductive: nothing in it says why two calls
do not wait for the same promise.  `LockOrder` does.  The promises of an emitter
form a chain in call order, each call waits for the last earlier call of its
emitter, and a call that is past waiting has only settled calls before it.  It
needs no assumption about the number of emitters.  Exclusion and call order
follow from it.  So do forks: `HeldHead` says that the digest a call holds is in
the store, or null, and that only other emitters have stored behind it.  With one
emitter nobody appends between a call's read of the head and its append
(`HeadIsFresh`), hence every event is linked to its predecessor (`Linked`); the
chain verifies, and its head is the sequence of its contents.  Under the mapping
`history <- LatestHash(events)` a step of the emitter is then a step of
`ProofLog` or none.

*Delivery and batches.*  What is handed out is of the one call that holds the
lock (`HandedOver`), which gives the order.  `AllReached` says of each listener
that stayed that the walk has told it, that a splice moved it behind the walk, or
that it is ahead of the walk in the array, where the removal of another may move it
by one.  `BatchInv` says that all calls a batch has made have settled but for the
last one of a running batch, and that its results and errors are their outcomes.

*Audit.*  A digest of a checkpoint unfolds to the contents it was taken of; a
verified prefix unfolds to its own contents; equal digests then give equal
contents.  For damage without replacement the invariant keeps each row's SHA-256
digests and identifier as recorded, its SHA3 digest as recorded or absent, and every
recorded event linked to the one it was recorded behind (`RowInv`).  The two audits differ in one fault, so the proofs are
about `AuditNext`, which has the faults of both.  With signatures `SignedInv` says
that every recorded event was signed over its identifier and its place, and that
each signature in a row is one that was made; a row that verifies is then a row
that was recorded, and the links leave it no other place.

*Kafka.*  `BehindIsSettled`: what lies behind a committed offset, behind the place a
consumer goes on from, or behind what any consumer is at work with is settled, late
owners included.  `PartitionOrder` is inductive beside it: a row that is repeated
never comes before the first one of an earlier event.  `WithinAssignments` counts the
copies of an event, the consumers at work with it, and one more if it is still due to
the owner of its partition; these are no more than the assignments, as only an
assignment moves the position back.  If the read store deduplicates, and unless a
hash was read while it lagged, it holds all that is published but the last event, and
all of that while a hash is being read (`StoreFollowsChain`).

*Stores.*  `Ascending` is chosen by its property, that it climbs; a sequence with it
exists for every set of rows (`ClimbExists`, by induction on the last of them) and
is the only one (`OneEnumeration`), so one more row extends it and leaves the
other places as they were.  `WalkInv` says of a walk that each event it is to find
is in its pages or stands behind its offset in every order that the store may
answer in (`NothingPassed`), and that upwards the pages are the beginning of the
order (`PagesBegin`).  An appended row keeps this: it comes last upwards and moves
the matches back, never forward, downwards (`OrdersGrow`).  A page keeps it, as what
it leaves behind the new offset is what it does not hold (`PageStandsBehind`).
For ClickHouse it is about walks during which nothing is appended and whose matches
differ in their times, as there is then one order (`OneTimeOrder`).  That the
stores agree needs no more than the types.

*Anchoring.*  `OneCall` counts the backlog beside the one call under way, `Chained`
says that this call has read the end of a linked log, and `Recorded`, for callers
that overlap too, that each digest that is linked to, and each record's, is an
entry's.  No assumption on overlaps is made: the properties name them.

*Trees.*  Levels shrink to one (`LevelsShrink`), by induction on the height.
Completeness climbs from a leaf: the sibling a proof gives makes the parent, one
level up, through a node without a neighbour too (`ClimbToParent`,
`ProofsLeadToRoot`).  Soundness goes down from the root: equal hashes are equal
pairs, so what climbs to the root by a proof of that height is a leaf
(`OnlyLeavesProvable`).

*Projector.*  `Tally` holds of the models and the history beside it after every
projected event, so the summaries need no assumption on what overlaps or fails.
That nothing is counted
twice holds until two calls overlap (`OnceInv`).  Till then one call at most is under
way; `Parted` says that nothing projected is later than the cursor, but for what is
stored before an event with an earlier time, and it holds while no replay is on its
way to `persisting`; in between a replay has projected the positions up to its offset
(`UpTo`), and the page of a poll is later than the cursor (`PollHolds`).

That nothing is missed needs no such premise.  `Looks` says of each call what it has
of the store, whatever others do to models and cursor.  `CoverInv` says that the last
replay to begin, unless it failed, still has all that it has taken in the models
(`Refills`), or that everything a call or the cursor leaves alone is taken or exempted
(`CaughtUp`).  When the replay has its last page the second case begins, and holds
until the next replay: a poll that moves the cursor has all that is not later than
the event it moves it to, whatever the cursor was meanwhile.

*Ceremony, evidence, integrity.*  `Lineage` ties the hash and the attestation to
the log they were computed from; `Evidence` ties each token to the answer it was
made of.  `CheckInv` says of a call under way that each altered file it has read
failed, if the manifests held meanwhile list it, and, while it is quiet, that the
manifest held is the one on the disk and the outcomes of the files read so far are
those of that one.

Assumptions: the parameters' types (`ParameterTypes`, `SignedParameterTypes`,
`CeremonyParameters`, `StoresParameters`, `AskedType`, `AbsentIsNoOrder`,
`AbsentIsNoModes`, `NobodyIsNoConsumer`, `NotBound`, `NotListed` and `BatchBound`, each
of its module and evaluated by TLC in its runs) and, where a theorem
states them, one emitter (`OneEmitter`), and that `undefined` is none of the objects
of a ceremony log (`AbsentIsNoObject`).  The runs have instances with each of these.

Only model-checked: liveness (`EveryEmitSettles`, `EveryEventProjected`,
`EventuallyMaterialized`, `EveryWalkEnds`, `EveryRequestSettles`), which the prover
cannot handle.  Every safety property that a run checks is stated by a theorem.
`HeadCommitsToHistory` and the types are the other way round: they
are proved and no run checks them.  No operator is declared RECURSIVE; trees,
searches and projections are recursive functions, whose equations are proved
before they are used (`LevelAt`, `MatchingStep`, `ProjectingStep`).


## 5. Abstractions

* Payloads and requests are members of a small set.  That `sortObjectKeys` drops
  a Date in a payload, or that `occurredAt` is a string after `JSON.parse`, is
  below this level.
* Digests and signatures are ideal; key material and encodings are left out.
* The integrity score is counted in hundredths instead of floating point.
* The projector's tiers, throughput and times of anchors are left out.
* `ChainAnchoring` has the service enabled and leaves out the strategies that
  throw.  The Merkle root is a function of the chain position, the one that
  `AnchoredTrees` gives.
* The fields of a ceremony log that are not objects are taken as one, `Detail`; one
  with a required field missing is among `Incomplete`.
* `ChainAudit` leaves out the columns that no digest covers (`shadowMode`,
  `recordedAt`); what an audit says of them is nothing.
* A Kafka `send()` that fails is not modelled; the event is then not published.
* A database query is atomic, and rows become visible in the order of `seq`.
* `getStats` of ClickHouse, four statements in the code, is answered at one
  instant, and its limit of a hundred agents is out of reach.
* The manifest's digests of a file stand for its content, under either spelling of
  its name; the report's hash of itself is left out.
* The times in timestamp requests, tokens and anchors are left out: nothing
  compares them.

## 6. Not modelled

The other routes, the adapter and the logger hold no state between calls: they
validate, translate and format around calls of the facade.  `clear()`, documented
as for tests, and migrations of the stores, key generation, `MockAnchorService` and
`MockTimestampAuthority` are left out.  The facade's review of shadow events is a
read and then an `emit()`, with no record that a second verdict could be checked
against; `getUnverifiedShadowEvents` gives events "that need HITL verification"
(`proof-plane.ts:667`) but asks for the mode only (673), which a verdict does not
change.  The chain of a single correlation and the two reads of the route that
verifies a chain are left out as well; the hazards list all of these.  How
CockroachDB makes rows visible that were inserted by transactions under way is
outside the repository.

## 7. Plan

1. Done: `HashChain`, `ProofLog`, `EventEmitter` with its proofs, `ChainAudit`
   with its proofs, then `EventDelivery`, `EmitBatch`, `TrustReadModel`,
   `ChainAnchoring`, `KafkaPipeline`, `EventStores`, `StoreReads`, `SignedAudit`,
   `MerkleTree`, `AnchoredTrees`, `KeyCeremony`, `IntegrityCheck`, `ExternalEvidence`.
2. Done: proofs of all safety properties the runs check.  Next: that `emitBatch`
   and the audit are about the same chain as the emitter, by refinement; and what
   a walk through ClickHouse may miss when rows are appended, by how many they are.
3. Models: a CockroachDB transaction that commits after a later `seq`
   (`cockroach-store.ts:252`); the review of shadow events
   (`proof-plane.ts:669`) and `clear()` against an `emit()` under way (720); the two
   modes of the adapter (`proof-adapter.ts:79`).
