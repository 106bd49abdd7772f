--------------------------- MODULE ChainAnchoring ---------------------------
(***************************************************************************)
(* ChainAnchorService (src/src/events/chain-anchoring.ts) with the         *)
(* merkle-root-log strategy, driven by a flush cycle that asks             *)
(* shouldAnchor() and then calls anchor().  The flush cycle itself is the  *)
(* caller's; it is modelled from the comment on shouldAnchor().            *)
(*                                                                         *)
(* An entry's digest is ideal, as in HashChain: it is the sequence of the  *)
(* contents of the entry and of those it chains to.  The Merkle root at a  *)
(* chain position is determined by the position and left out.              *)
(***************************************************************************)
EXTENDS HashChain, FiniteSets, SequencesExt

CONSTANTS
  Call,             \* anchor() calls that may be under way together
  IntervalBatches,  \* config.intervalBatches
  IntervalMs,       \* config.intervalMs
  MaxFlushes,       \* bound: flushes in a behaviour
  MaxTime           \* bound: the clock

ASSUME ParameterTypes ==
  /\ IntervalBatches \in Nat \ {0}
  /\ IntervalMs \in Nat \ {0}
  /\ {MaxFlushes, MaxTime} \subseteq Nat \ {0}

\* One event is added to the chain between two flushes.
ChainPosition == 1..MaxFlushes
Time == 1..MaxTime
Never == 0

Content == [chainPosition : ChainPosition, timestamp : Time]
LogEntry == [content : Content, previousEntryHash : Digest(Content),
             entryHash : Digest(Content)]
AnchorRecord == [content : Content, externalReference : Digest(Content)]

VARIABLES
  overlapping,            \* whether the caller flushes on while an anchor() is under way
  persists,               \* config.persistEntry is given
  reads,                  \* config.readEntries is given
  now,                    \* Date.now()
  flushes,                \* flushes so far, and the chain position at the last
  memoryLog,              \* the service's own log
  persistedLog,           \* what persistEntry has stored
  records,                \* the anchor records handed to callers
  batchesSinceLastAnchor,
  lastAnchorTime,
  pc,                     \* pc[k]: where call k is
  content,                \* content[k]: what it anchors, and when it was called
  previousEntryHash,      \* previousEntryHash[k]: the digest it read from the log
  covered                 \* flushes covered by the last completed anchor

configVars == <<overlapping, persists, reads>>
logVars == <<memoryLog, persistedLog>>
counterVars == <<batchesSinceLastAnchor, lastAnchorTime, covered>>
callVars == <<pc, content, previousEntryHash>>
vars == <<configVars, now, flushes, logVars, records, counterVars, callVars>>

TypeOK ==
  /\ {overlapping, persists, reads} \subseteq BOOLEAN
  /\ now \in Time
  /\ flushes \in 0..MaxFlushes
  /\ memoryLog \in Seq(LogEntry)
  /\ persistedLog \in Seq(LogEntry)
  /\ records \subseteq AnchorRecord
  /\ batchesSinceLastAnchor \in 0..MaxFlushes
  /\ lastAnchorTime \in Time \cup {Never}
  /\ pc \in [Call -> {"idle", "reading", "persisting", "persisted"}]
  /\ content \in [Call -> Content]
  /\ previousEntryHash \in [Call -> Digest(Content)]
  /\ covered \in 0..MaxFlushes

Init ==
  /\ overlapping \in BOOLEAN
  /\ persists \in BOOLEAN /\ reads \in BOOLEAN
  /\ now = 1
  /\ flushes = 0
  /\ memoryLog = <<>> /\ persistedLog = <<>>
  /\ records = {}
  /\ batchesSinceLastAnchor = 0
  /\ lastAnchorTime = Never
  /\ pc = [k \in Call |-> "idle"]
  /\ content = [k \in Call |-> [chainPosition |-> 1, timestamp |-> 1]]
  /\ previousEntryHash = [k \in Call |-> Null]
  /\ covered = 0

-----------------------------------------------------------------------------
AllIdle == \A k \in Call : pc[k] = "idle"

\* What shouldAnchor() answers after it has counted the batch.
BatchThresholdMet == batchesSinceLastAnchor + 1 >= IntervalBatches
TimeThresholdMet == lastAnchorTime # Never /\ now - lastAnchorTime >= IntervalMs
ShouldAnchor == BatchThresholdMet \/ TimeThresholdMet

\* The caller flushes a batch, and awaits anchor() unless flushes overlap.
CountBatch ==
  /\ flushes < MaxFlushes
  /\ overlapping \/ AllIdle
  /\ flushes' = flushes + 1
  /\ batchesSinceLastAnchor' = batchesSinceLastAnchor + 1
  /\ UNCHANGED <<configVars, now, logVars, records, lastAnchorTime, covered, previousEntryHash>>

Flush ==
  /\ CountBatch
  /\ ~ ShouldAnchor
  /\ UNCHANGED <<pc, content>>

\* anchor() takes its timestamp, then awaits the log.
FlushAndAnchor(k) ==
  /\ CountBatch
  /\ ShouldAnchor
  /\ pc[k] = "idle"
  /\ pc' = [pc EXCEPT ![k] = "reading"]
  /\ content' = [content EXCEPT ![k] = [chainPosition |-> flushes + 1, timestamp |-> now]]

\* getLogEntries: the persisted log only if readEntries is given.
LogEntries == IF reads THEN persistedLog ELSE memoryLog

\* Mutant of ReadLastEntry: the first entry is taken for the last.
ReadFirstEntry(k) ==
  /\ pc[k] = "reading"
  /\ previousEntryHash' = [previousEntryHash EXCEPT ![k] =
       IF LogEntries = <<>> THEN Null ELSE LogEntries[1].entryHash]
  /\ pc' = [pc EXCEPT ![k] = "persisting"]
  /\ UNCHANGED <<configVars, now, flushes, logVars, records, counterVars, content>>

ReadLastEntry(k) ==
  /\ pc[k] = "reading"
  /\ previousEntryHash' = [previousEntryHash EXCEPT ![k] =
       IF LogEntries = <<>> THEN Null ELSE Last(LogEntries).entryHash]
  /\ pc' = [pc EXCEPT ![k] = "persisting"]
  /\ UNCHANGED <<configVars, now, flushes, logVars, records, counterVars, content>>

ComputeEntryHash(e) == Append(e.previousEntryHash, e.content)

EntryOf(k) ==
  [content |-> content[k], previousEntryHash |-> previousEntryHash[k],
   entryHash |-> Append(previousEntryHash[k], content[k])]

\* Mutant of Complete: the record refers to the entry before its own.
ReferenceToPrevious(k) ==
  /\ records' = records \cup
       {[content |-> content[k], externalReference |-> EntryOf(k).previousEntryHash]}
  /\ batchesSinceLastAnchor' = 0
  /\ lastAnchorTime' = now
  /\ covered' = content[k].chainPosition
  /\ pc' = [pc EXCEPT ![k] = "idle"]

\* The record is made and resetCounters() called; anchor() returns.
Complete(k) ==
  /\ records' = records \cup
       {[content |-> content[k], externalReference |-> EntryOf(k).entryHash]}
  /\ batchesSinceLastAnchor' = 0
  /\ lastAnchorTime' = now
  /\ covered' = content[k].chainPosition
  /\ pc' = [pc EXCEPT ![k] = "idle"]

\* Without persistEntry the entry is pushed and the call completes at once.
PushEntry(k) ==
  /\ ~ persists
  /\ pc[k] = "persisting"
  /\ memoryLog' = Append(memoryLog, EntryOf(k))
  /\ Complete(k)
  /\ UNCHANGED <<configVars, now, flushes, persistedLog, content, previousEntryHash>>

PersistEntry(k) ==
  /\ persists
  /\ pc[k] = "persisting"
  /\ persistedLog' = Append(persistedLog, EntryOf(k))
  /\ pc' = [pc EXCEPT ![k] = "persisted"]
  /\ UNCHANGED <<configVars, now, flushes, memoryLog, records, counterVars, content, previousEntryHash>>

PersistSucceeds(k) ==
  /\ pc[k] = "persisted"
  /\ Complete(k)
  /\ UNCHANGED <<configVars, now, flushes, logVars, content, previousEntryHash>>

\* Mutant of CallbackFails: the batch counter is reset by a failed anchor too.
ResetOnFailure(k) ==
  /\ pc[k] # "idle"
  /\ batchesSinceLastAnchor' = 0
  /\ pc' = [pc EXCEPT ![k] = "idle"]
  /\ UNCHANGED <<configVars, now, flushes, logVars, records, lastAnchorTime, covered, content,
                 previousEntryHash>>

\* readEntries or persistEntry rejects, the latter with or without the entry
\* stored; anchor() throws, and the counters stay as they are.
CallbackFails(k) ==
  /\ \/ reads /\ pc[k] = "reading"
     \/ persists /\ pc[k] = "persisting"
     \/ pc[k] = "persisted"
  /\ pc' = [pc EXCEPT ![k] = "idle"]
  /\ UNCHANGED <<configVars, now, flushes, logVars, records, counterVars, content, previousEntryHash>>

Tick ==
  /\ now < MaxTime
  /\ now' = now + 1
  /\ UNCHANGED <<configVars, flushes, logVars, records, counterVars, callVars>>

Next ==
  \/ Flush
  \/ \E k \in Call :
       \/ FlushAndAnchor(k)
       \/ ReadLastEntry(k)
       \/ PushEntry(k)
       \/ PersistEntry(k)
       \/ PersistSucceeds(k)
       \/ CallbackFails(k)
  \/ Tick

Spec == Init /\ [][Next]_vars

-----------------------------------------------------------------------------
(***************************************************************************)
(* verifyLogEntry: the entry is looked up by its digest, recomputed, and   *)
(* its predecessor looked up by digest.  Ed25519 signatures are made over  *)
(* the digest by the only key there is and always verify.                  *)
(***************************************************************************)
Entries(reference) == {n \in DOMAIN LogEntries : LogEntries[n].entryHash = reference}

Verify(record) ==
  \E n \in Entries(record.externalReference) :
    /\ \A j \in Entries(record.externalReference) : n <= j
    /\ LogEntries[n].content = record.content
    /\ ComputeEntryHash(LogEntries[n]) = LogEntries[n].entryHash
    /\ \/ LogEntries[n].previousEntryHash = Null
       \/ Entries(LogEntries[n].previousEntryHash) # {}

LinkedTo(n) ==
  LogEntries[n].previousEntryHash =
    IF n = 1 THEN Null ELSE LogEntries[n - 1].entryHash

\* Both callbacks or neither: the log that is read is the log that is written.
SameLog == persists = reads

\* Every anchor record that was handed out verifies from then on, whatever is
\* anchored later or meanwhile and whichever callbacks fail.
AnchorsVerify == SameLog => \A r \in records : Verify(r)

\* The log of a caller that awaits its anchors is one chain: no two entries were
\* built on the same predecessor, also after an entry that was stored although
\* its anchor() threw.
LogIsChain == SameLog /\ ~ overlapping => \A n \in DOMAIN LogEntries : LinkedTo(n)

\* Between two calls of such a caller the counter is the number of batches that
\* no anchor covers yet, also after calls that failed.
CounterIsBacklog ==
  AllIdle /\ ~ overlapping => batchesSinceLastAnchor = flushes - covered
=============================================================================
