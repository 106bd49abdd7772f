------------------------ MODULE ChainAnchoringProofs ------------------------
(***************************************************************************)
(* Proofs about ChainAnchoring, for any number of overlapping anchor()     *)
(* calls, any thresholds, flushes and clock, and about the Merkle trees    *)
(* under the roots, for any number of events.                              *)
(***************************************************************************)
EXTENDS AnchoredTrees, HashChainProofs

-----------------------------------------------------------------------------
(***************************************************************************)
(* Types.                                                                  *)
(***************************************************************************)
\* The counter is of flushes, so the bound on flushes bounds it too.
TypeInv == TypeOK /\ batchesSinceLastAnchor <= flushes

LEMMA TypeInit == Init => TypeInv
<1> SUFFICES ASSUME Init PROVE TypeInv
  OBVIOUS
<1>1. 1 \in ChainPosition /\ 1 \in Time /\ 0 \in 0..MaxFlushes
  BY ParameterTypes DEF ChainPosition, Time
<1>2. [chainPosition |-> 1, timestamp |-> 1] \in Content
  BY <1>1 DEF Content
<1>3. Null \in Digest(Content) /\ <<>> \in Seq(LogEntry)
  BY DEF Null, Digest
<1>4. QED BY <1>1, <1>2, <1>3 DEF Init, TypeInv, TypeOK

LEMMA EntryType ==
  ASSUME TypeInv, NEW k \in Call
  PROVE  /\ EntryOf(k) \in LogEntry
         /\ EntryOf(k).content = content[k]
         /\ EntryOf(k).previousEntryHash = previousEntryHash[k]
         /\ EntryOf(k).entryHash = Append(previousEntryHash[k], content[k])
<1>1. content[k] \in Content /\ previousEntryHash[k] \in Digest(Content)
  BY DEF TypeInv, TypeOK
<1>2. Append(previousEntryHash[k], content[k]) \in Digest(Content)
  BY <1>1 DEF Digest
<1>3. QED BY <1>1, <1>2 DEF EntryOf, LogEntry

LEMMA LogType == TypeInv => LogEntries \in Seq(LogEntry)
BY DEF TypeInv, TypeOK, LogEntries

\* What counting a batch does.
LEMMA CountStep ==
  ASSUME TypeInv, CountBatch
  PROVE  /\ flushes + 1 \in ChainPosition /\ flushes' = flushes + 1
         /\ flushes' \in 0..MaxFlushes
         /\ batchesSinceLastAnchor' = batchesSinceLastAnchor + 1
         /\ batchesSinceLastAnchor' \in 0..MaxFlushes
         /\ batchesSinceLastAnchor' <= flushes'
         /\ UNCHANGED <<configVars, now, logVars, records, lastAnchorTime, covered,
                        previousEntryHash>>
BY ParameterTypes DEF CountBatch, TypeInv, TypeOK, ChainPosition

\* What the end of an anchor() that succeeds does.
LEMMA CompleteStep ==
  ASSUME TypeInv, NEW k \in Call, Complete(k)
  PROVE  /\ records' \subseteq AnchorRecord
         /\ batchesSinceLastAnchor' = 0
         /\ lastAnchorTime' \in Time \cup {Never}
         /\ covered' = content[k].chainPosition /\ covered' \in 0..MaxFlushes
         /\ pc' = [pc EXCEPT ![k] = "idle"]
<1>1. content[k] \in Content /\ EntryOf(k).entryHash \in Digest(Content)
  BY EntryType DEF TypeInv, TypeOK, LogEntry
<1>2. content[k].chainPosition \in 0..MaxFlushes
  BY <1>1, ParameterTypes DEF Content, ChainPosition
<1>3. [content |-> content[k], externalReference |-> EntryOf(k).entryHash] \in AnchorRecord
  BY <1>1 DEF AnchorRecord
<1>4. QED BY <1>2, <1>3 DEF Complete, TypeInv, TypeOK

LEMMA TypeNext == TypeInv /\ [Next]_vars => TypeInv'
<1> SUFFICES ASSUME TypeInv, [Next]_vars PROVE TypeInv'
  OBVIOUS
<1> USE DEF vars, configVars, logVars, counterVars, callVars
<1>1. 0 \in 0..MaxFlushes /\ flushes \in Nat /\ 0 <= flushes
  BY ParameterTypes DEF TypeInv, TypeOK
<1>2. CASE Flush
  BY <1>2, CountStep DEF Flush, TypeInv, TypeOK
<1>3. ASSUME NEW k \in Call, FlushAndAnchor(k) PROVE TypeInv'
  <2>1. [chainPosition |-> flushes + 1, timestamp |-> now] \in Content
    BY <1>3, CountStep DEF FlushAndAnchor, TypeInv, TypeOK, Content
  <2>2. QED BY <1>3, <2>1, CountStep DEF FlushAndAnchor, TypeInv, TypeOK
<1>4. ASSUME NEW k \in Call, ReadLastEntry(k) PROVE TypeInv'
  <2>1. (IF LogEntries = <<>> THEN Null ELSE Last(LogEntries).entryHash) \in Digest(Content)
    <3>1. CASE LogEntries = <<>>
      <4>1. Null \in Digest(Content)
        BY DEF Digest, Null
      <4>2. QED BY <3>1, <4>1
    <3>2. CASE LogEntries # <<>>
      <4>1. Last(LogEntries) \in LogEntry
        BY <3>2, LogType DEF Last
      <4>2. QED BY <3>2, <4>1 DEF LogEntry
    <3>3. QED BY <3>1, <3>2
  <2>2. QED BY <1>4, <2>1 DEF ReadLastEntry, TypeInv, TypeOK
<1>5. ASSUME NEW k \in Call, PushEntry(k) PROVE TypeInv'
  <2>1. memoryLog' \in Seq(LogEntry)
    BY <1>5, EntryType DEF PushEntry, TypeInv, TypeOK
  <2>2. QED BY <1>1, <1>5, <2>1, CompleteStep DEF PushEntry, TypeInv, TypeOK
<1>6. ASSUME NEW k \in Call, PersistEntry(k) PROVE TypeInv'
  <2>1. persistedLog' \in Seq(LogEntry)
    BY <1>6, EntryType DEF PersistEntry, TypeInv, TypeOK
  <2>2. QED BY <1>6, <2>1 DEF PersistEntry, TypeInv, TypeOK
<1>7. ASSUME NEW k \in Call, PersistSucceeds(k) PROVE TypeInv'
  BY <1>1, <1>7, CompleteStep DEF PersistSucceeds, TypeInv, TypeOK
<1>8. ASSUME NEW k \in Call, CallbackFails(k) PROVE TypeInv'
  BY <1>8 DEF CallbackFails, TypeInv, TypeOK
<1>9. CASE Tick
  <2>1. now' \in Time
    BY <1>9, ParameterTypes DEF Tick, TypeInv, TypeOK, Time
  <2>2. QED BY <1>9, <2>1 DEF Tick, TypeInv, TypeOK
<1>10. CASE UNCHANGED vars
  BY <1>10 DEF TypeInv, TypeOK
<1>11. QED
  BY <1>2, <1>3, <1>4, <1>5, <1>6, <1>7, <1>8, <1>9, <1>10 DEF Next

LEMMA TypesAndCounter == Spec => []TypeInv
BY TypeInit, TypeNext, PTL DEF Spec

\* Every variable keeps its type.
THEOREM AnchoringTypeCorrect == Spec => []TypeOK
BY TypesAndCounter, PTL DEF TypeInv

-----------------------------------------------------------------------------
(***************************************************************************)
(* A caller that awaits its anchors: one call at a time, and the counter.  *)
(***************************************************************************)
\* What is anchored is the position of the last flush, by one call.
OneCall ==
  ~ overlapping =>
    /\ \A k, l \in Call : pc[k] # "idle" /\ pc[l] # "idle" => k = l
    /\ \A k \in Call : pc[k] # "idle" => content[k].chainPosition = flushes
    /\ batchesSinceLastAnchor = flushes - covered

LEMMA OneCallNext == TypeInv /\ OneCall /\ [Next]_vars => OneCall'
<1> SUFFICES ASSUME TypeInv, OneCall, [Next]_vars PROVE OneCall'
  OBVIOUS
<1> USE DEF vars, configVars, logVars, counterVars, callVars
<1>1. /\ pc \in [Call -> {"idle", "reading", "persisting", "persisted"}]
      /\ content \in [Call -> Content]
      /\ flushes \in Nat /\ covered \in Nat /\ batchesSinceLastAnchor \in Nat
  BY ParameterTypes DEF TypeInv, TypeOK
<1>2. CASE Flush
  BY <1>1, <1>2, CountStep DEF Flush, CountBatch, AllIdle, OneCall
<1>3. ASSUME NEW k \in Call, FlushAndAnchor(k) PROVE OneCall'
  <2>1. SUFFICES ASSUME ~ overlapping PROVE OneCall'
    BY <1>3 DEF FlushAndAnchor, CountBatch, OneCall
  <2>2. AllIdle
    BY <1>3, <2>1 DEF FlushAndAnchor, CountBatch
  <2>3. \A l \in Call : pc'[l] # "idle" => l = k
    BY <1>1, <1>3, <2>2 DEF FlushAndAnchor, AllIdle
  <2>4. content'[k].chainPosition = flushes + 1
    BY <1>1, <1>3 DEF FlushAndAnchor
  <2>5. /\ flushes' = flushes + 1 /\ covered' = covered
        /\ batchesSinceLastAnchor' = batchesSinceLastAnchor + 1
    BY <1>3, CountStep DEF FlushAndAnchor
  <2>6. QED BY <1>1, <2>1, <2>3, <2>4, <2>5 DEF OneCall
<1>4. ASSUME NEW k \in Call, pc[k] # "idle", Complete(k),
             UNCHANGED <<overlapping, flushes, content>>
      PROVE  OneCall'
  <2>1. SUFFICES ASSUME ~ overlapping PROVE OneCall'
    BY <1>4 DEF OneCall
  <2>2. \A l \in Call : pc'[l] = "idle"
    BY <1>1, <1>4, <2>1, CompleteStep DEF OneCall
  <2>3. batchesSinceLastAnchor' = 0 /\ covered' = flushes
    BY <1>4, <2>1, CompleteStep DEF OneCall
  <2>4. QED BY <1>1, <1>4, <2>2, <2>3 DEF OneCall
<1>5. ASSUME NEW k \in Call, pc[k] # "idle", NEW step, pc' = [pc EXCEPT ![k] = step],
             UNCHANGED <<overlapping, flushes, content, covered, batchesSinceLastAnchor>>
      PROVE  OneCall'
  <2>1. \A l \in Call : pc'[l] # "idle" => pc[l] # "idle"
    BY <1>1, <1>5
  <2>2. QED BY <1>5, <2>1 DEF OneCall
<1>6. ASSUME NEW k \in Call,
             ReadLastEntry(k) \/ PushEntry(k) \/ PersistEntry(k)
               \/ PersistSucceeds(k) \/ CallbackFails(k)
      PROVE  OneCall'
  <2>1. pc[k] # "idle"
    BY <1>6 DEF ReadLastEntry, PushEntry, PersistEntry, PersistSucceeds, CallbackFails
  <2>2. CASE PushEntry(k) \/ PersistSucceeds(k)
    BY <1>4, <2>1, <2>2 DEF PushEntry, PersistSucceeds
  <2>3. CASE ReadLastEntry(k) \/ PersistEntry(k) \/ CallbackFails(k)
    BY <1>5, <2>1, <2>3 DEF ReadLastEntry, PersistEntry, CallbackFails
  <2>4. QED BY <1>6, <2>2, <2>3
<1>7. CASE Tick \/ UNCHANGED vars
  BY <1>7 DEF Tick, OneCall
<1>8. QED BY <1>2, <1>3, <1>6, <1>7 DEF Next

LEMMA OneCallCorrect == Spec => []OneCall
<1>1. Init => OneCall
  BY DEF Init, OneCall
<1>2. QED BY <1>1, OneCallNext, TypesAndCounter, PTL DEF Spec

\* Between two calls of a caller that awaits them, the counter is the number of
\* batches that no anchor covers yet, also after calls that failed.
THEOREM CounterCountsBacklog == Spec => []CounterIsBacklog
<1>1. OneCall => CounterIsBacklog
  BY DEF OneCall, CounterIsBacklog
<1>2. QED BY <1>1, OneCallCorrect, PTL

-----------------------------------------------------------------------------
(***************************************************************************)
(* The log.  As far as the log that is read is concerned, a step adds the  *)
(* entry of one call to it or leaves it alone.                             *)
(***************************************************************************)
LEMMA LogStep ==
  ASSUME SameLog, [Next]_vars
  PROVE  \/ LogEntries' = LogEntries
         \/ \E k \in Call :
              /\ pc[k] = "persisting"
              /\ LogEntries' = Append(LogEntries, EntryOf(k))
              /\ pc' \in {[pc EXCEPT ![k] = "idle"], [pc EXCEPT ![k] = "persisted"]}
              /\ UNCHANGED <<configVars, content, previousEntryHash>>
<1> USE DEF vars, configVars, logVars, counterVars, callVars, LogEntries
<1>1. ASSUME NEW k \in Call, PushEntry(k)
      PROVE  /\ pc[k] = "persisting"
             /\ LogEntries' = Append(LogEntries, EntryOf(k))
             /\ pc' = [pc EXCEPT ![k] = "idle"]
             /\ UNCHANGED <<configVars, content, previousEntryHash>>
  BY <1>1 DEF PushEntry, Complete, SameLog
<1>2. ASSUME NEW k \in Call, PersistEntry(k)
      PROVE  /\ pc[k] = "persisting"
             /\ LogEntries' = Append(LogEntries, EntryOf(k))
             /\ pc' = [pc EXCEPT ![k] = "persisted"]
             /\ UNCHANGED <<configVars, content, previousEntryHash>>
  BY <1>2 DEF PersistEntry, SameLog
<1>3. ASSUME NEW k \in Call, FlushAndAnchor(k) \/ ReadLastEntry(k) \/ PersistSucceeds(k) \/ CallbackFails(k)
      PROVE  LogEntries' = LogEntries
  BY <1>3 DEF FlushAndAnchor, CountBatch, ReadLastEntry, PersistSucceeds, CallbackFails
<1>4. CASE Flush \/ Tick \/ UNCHANGED vars
  BY <1>4 DEF Flush, CountBatch, Tick
<1>5. QED
  <2>1. ASSUME NEW k \in Call, PushEntry(k) \/ PersistEntry(k)
        PROVE  /\ pc[k] = "persisting"
               /\ LogEntries' = Append(LogEntries, EntryOf(k))
               /\ pc' \in {[pc EXCEPT ![k] = "idle"], [pc EXCEPT ![k] = "persisted"]}
               /\ UNCHANGED <<configVars, content, previousEntryHash>>
    BY <1>1, <1>2, <2>1
  <2> HIDE DEF vars, configVars, logVars, counterVars, callVars, LogEntries
  <2>2. QED BY <1>3, <1>4, <2>1 DEF Next

LEMMA ConfigStays == [Next]_vars => UNCHANGED configVars
BY DEF vars, Next, Flush, CountBatch, FlushAndAnchor, ReadLastEntry, PushEntry, PersistEntry,
       PersistSucceeds, CallbackFails, Tick

\* What one more entry makes of the log.
LEMMA AppendedLog ==
  ASSUME TypeInv, NEW k \in Call, LogEntries' = Append(LogEntries, EntryOf(k))
  PROVE  \E n \in Nat :
           /\ DOMAIN LogEntries = 1..n /\ DOMAIN LogEntries' = 1..(n + 1)
           /\ n = Len(LogEntries) /\ Len(LogEntries') = n + 1
           /\ \A i \in 1..n : LogEntries'[i] = LogEntries[i]
           /\ LogEntries'[n + 1] = EntryOf(k)
<1> DEFINE log == LogEntries
           logN == LogEntries'
           e == EntryOf(k)
<1>1. log \in Seq(LogEntry) /\ e \in LogEntry /\ logN = Append(log, e)
  BY LogType, EntryType
<1> HIDE DEF log, logN, e
<1>2. /\ DOMAIN log = 1..Len(log) /\ DOMAIN logN = 1..(Len(log) + 1)
      /\ Len(logN) = Len(log) + 1 /\ Len(log) \in Nat
      /\ \A i \in 1..Len(log) : logN[i] = log[i]
      /\ logN[Len(log) + 1] = e
  BY <1>1
<1>3. QED BY <1>2 DEF log, logN, e

\* A call is about to persist only if it was, or has just read the log.
LEMMA ReadStep ==
  ASSUME TypeInv, [Next]_vars, NEW k \in Call, pc'[k] = "persisting"
  PROVE  /\ \/ pc[k] = "persisting" /\ previousEntryHash'[k] = previousEntryHash[k]
            \/ ReadLastEntry(k)
         /\ content'[k] = content[k]
<1> USE DEF vars, configVars, logVars, counterVars, callVars
<1>1. /\ pc \in [Call -> {"idle", "reading", "persisting", "persisted"}]
      /\ previousEntryHash \in [Call -> Digest(Content)] /\ content \in [Call -> Content]
  BY DEF TypeInv, TypeOK
<1>2. ASSUME NEW l \in Call, ReadLastEntry(l)
      PROVE  /\ \/ pc[k] = "persisting" /\ previousEntryHash'[k] = previousEntryHash[k]
                \/ ReadLastEntry(k)
             /\ content'[k] = content[k]
  <2>1. CASE l = k
    BY <1>2, <2>1 DEF ReadLastEntry
  <2>2. CASE l # k
    BY <1>1, <1>2, <2>2 DEF ReadLastEntry
  <2>3. QED BY <2>1, <2>2
<1>3. ASSUME NEW l \in Call,
             FlushAndAnchor(l) \/ PushEntry(l) \/ PersistEntry(l) \/ PersistSucceeds(l) \/ CallbackFails(l)
      PROVE  pc[k] = "persisting" /\ UNCHANGED previousEntryHash /\ content'[k] = content[k]
  <2>1. CASE FlushAndAnchor(l)
    BY <1>1, <2>1 DEF FlushAndAnchor, CountBatch
  <2>2. CASE PushEntry(l) \/ PersistSucceeds(l)
    BY <1>1, <2>2 DEF PushEntry, PersistSucceeds, Complete
  <2>3. CASE PersistEntry(l) \/ CallbackFails(l)
    BY <1>1, <2>3 DEF PersistEntry, CallbackFails
  <2>4. QED BY <1>3, <2>1, <2>2, <2>3
<1>4. CASE Flush \/ Tick \/ UNCHANGED vars
  BY <1>4 DEF Flush, CountBatch, Tick
<1>5. QED BY <1>2, <1>3, <1>4 DEF Next

\* The log of a caller that awaits its anchors is one chain, and the call that
\* is under way has read its end.
Chained ==
  SameLog /\ ~ overlapping =>
    /\ \A n \in DOMAIN LogEntries : LinkedTo(n)
    /\ \A k \in Call : pc[k] = "persisting" =>
         previousEntryHash[k] = IF LogEntries = <<>> THEN Null ELSE Last(LogEntries).entryHash

LEMMA ChainedNext == TypeInv /\ OneCall /\ Chained /\ [Next]_vars => Chained'
<1> SUFFICES ASSUME TypeInv, OneCall, Chained, [Next]_vars, (SameLog /\ ~ overlapping)'
             PROVE  (/\ \A n \in DOMAIN LogEntries : LinkedTo(n)
                     /\ \A k \in Call : pc[k] = "persisting" =>
                          previousEntryHash[k] =
                            IF LogEntries = <<>> THEN Null ELSE Last(LogEntries).entryHash)'
  BY DEF Chained
<1> SameLog /\ ~ overlapping
  BY ConfigStays DEF SameLog, configVars
<1>1. pc \in [Call -> {"idle", "reading", "persisting", "persisted"}]
  BY DEF TypeInv, TypeOK
<1>2. CASE LogEntries' = LogEntries
  <2>1. \A n \in DOMAIN LogEntries' : LinkedTo(n)'
    BY <1>2 DEF Chained, LinkedTo
  <2>2. ASSUME NEW k \in Call, pc'[k] = "persisting"
        PROVE  previousEntryHash'[k] =
                 IF LogEntries = <<>> THEN Null ELSE Last(LogEntries).entryHash
    <3>1. CASE pc[k] = "persisting" /\ previousEntryHash'[k] = previousEntryHash[k]
      BY <3>1 DEF Chained
    <3>2. CASE ReadLastEntry(k)
      BY <3>2 DEF ReadLastEntry, TypeInv, TypeOK
    <3>3. \/ pc[k] = "persisting" /\ previousEntryHash'[k] = previousEntryHash[k]
          \/ ReadLastEntry(k)
      BY <2>2, ReadStep
    <3>4. QED BY <3>1, <3>2, <3>3
  <2>3. QED BY <1>2, <2>1, <2>2
<1>3. ASSUME NEW k \in Call, pc[k] = "persisting", LogEntries' = Append(LogEntries, EntryOf(k)),
             pc' \in {[pc EXCEPT ![k] = "idle"], [pc EXCEPT ![k] = "persisted"]}
      PROVE  /\ \A n \in DOMAIN LogEntries' : LinkedTo(n)'
             /\ \A l \in Call : pc'[l] # "persisting"
  <2>1. PICK n \in Nat :
          /\ DOMAIN LogEntries = 1..n /\ DOMAIN LogEntries' = 1..(n + 1)
          /\ n = Len(LogEntries) /\ Len(LogEntries') = n + 1
          /\ \A i \in 1..n : LogEntries'[i] = LogEntries[i]
          /\ LogEntries'[n + 1] = EntryOf(k)
    BY <1>3, AppendedLog
  <2>2. \A l \in Call : pc'[l] # "persisting"
    BY <1>1, <1>3 DEF OneCall
  <2>3. ASSUME NEW i \in 1..n PROVE LinkedTo(i)'
    <3>1. i # 1 => i - 1 \in 1..n
      BY <2>3
    <3>2. LinkedTo(i)
      BY <2>1 DEF Chained
    <3>3. QED BY <2>1, <3>1, <3>2 DEF LinkedTo
  <2>4. LinkedTo(n + 1)'
    <3>1. LogEntries'[n + 1].previousEntryHash = previousEntryHash[k]
      BY <2>1, EntryType
    <3>2. previousEntryHash[k] = IF LogEntries = <<>> THEN Null ELSE Last(LogEntries).entryHash
      BY <1>3 DEF Chained
    <3>3. CASE n = 0
      BY <2>1, <3>1, <3>2, <3>3, LogType DEF LinkedTo
    <3>4. CASE n # 0
      <4>1. LogEntries # <<>> /\ n \in 1..n /\ (n + 1) - 1 = n /\ n + 1 # 1
        BY <2>1, <3>4, LogType
      <4>2. Last(LogEntries) = LogEntries'[n]
        BY <2>1, <4>1 DEF Last
      <4>3. QED BY <3>1, <3>2, <4>1, <4>2 DEF LinkedTo
    <3>5. QED BY <3>3, <3>4
  <2>5. QED BY <2>1, <2>2, <2>3, <2>4
<1>4. QED BY <1>2, <1>3, LogStep

\* If both callbacks are given or neither, and every anchor() is awaited, the log
\* is one chain, also after an entry that was stored although its anchor() threw.
THEOREM AwaitedLogIsChain == Spec => []LogIsChain
<1>1. Init => Chained
  BY DEF Init, Chained, LogEntries
<1>2. Chained => LogIsChain
  BY DEF Chained, LogIsChain
<1>3. QED BY <1>1, <1>2, ChainedNext, TypesAndCounter, OneCallCorrect, PTL DEF Spec

-----------------------------------------------------------------------------
(***************************************************************************)
(* The anchor records, of callers that overlap too.                        *)
(***************************************************************************)
\* A digest that is linked to belongs to an entry, and so does a record's.
Linked(h) == h = Null \/ Entries(h) # {}

Recorded ==
  SameLog =>
    /\ \A n \in DOMAIN LogEntries :
         /\ LogEntries[n].entryHash = ComputeEntryHash(LogEntries[n])
         /\ Linked(LogEntries[n].previousEntryHash)
    /\ \A k \in Call : pc[k] = "persisting" => Linked(previousEntryHash[k])
    /\ \A k \in Call : pc[k] = "persisted" => Entries(EntryOf(k).entryHash) # {}
    /\ \A r \in records :
         /\ Entries(r.externalReference) # {}
         /\ Last(r.externalReference) = r.content

\* An entry that is in the log stays there, at its place.
LEMMA EntriesGrow ==
  ASSUME TypeInv, SameLog, [Next]_vars, NEW h
  PROVE  Entries(h) \subseteq Entries(h)'
<1>1. CASE LogEntries' = LogEntries
  BY <1>1 DEF Entries
<1>2. ASSUME NEW k \in Call, LogEntries' = Append(LogEntries, EntryOf(k))
      PROVE  Entries(h) \subseteq Entries(h)'
  <2>1. PICK n \in Nat :
          /\ DOMAIN LogEntries = 1..n /\ DOMAIN LogEntries' = 1..(n + 1)
          /\ \A i \in 1..n : LogEntries'[i] = LogEntries[i]
    BY <1>2, AppendedLog
  <2>2. QED BY <2>1 DEF Entries
<1>3. QED BY <1>1, <1>2, LogStep

LEMMA LinkedStays ==
  ASSUME TypeInv, SameLog, [Next]_vars, NEW h, Linked(h)
  PROVE  Linked(h)'
BY EntriesGrow DEF Linked

\* The entry that a call has just added is found by its digest.
LEMMA AddedIsFound ==
  ASSUME TypeInv, NEW k \in Call, LogEntries' = Append(LogEntries, EntryOf(k)),
         NEW h, h = EntryOf(k).entryHash
  PROVE  Entries(h)' # {}
<1>1. PICK n \in Nat :
        /\ DOMAIN LogEntries' = 1..(n + 1)
        /\ LogEntries'[n + 1] = EntryOf(k)
  BY AppendedLog
<1>2. n + 1 \in Entries(h)'
  BY <1>1 DEF Entries
<1>3. QED BY <1>2

\* The digest of the last entry is one of an entry.
LEMMA LastIsLinked ==
  ASSUME TypeInv
  PROVE  Linked(IF LogEntries = <<>> THEN Null ELSE Last(LogEntries).entryHash)
<1>1. CASE LogEntries # <<>>
  <2>1. Len(LogEntries) \in DOMAIN LogEntries
    BY <1>1, LogType
  <2>2. Len(LogEntries) \in Entries(Last(LogEntries).entryHash)
    BY <2>1 DEF Entries, Last
  <2>3. QED BY <1>1, <2>2 DEF Linked
<1>2. QED BY <1>1 DEF Linked

\* A call is past persistEntry only if it was, or has just stored its entry.
LEMMA PersistedStep ==
  ASSUME TypeInv, [Next]_vars, NEW k \in Call, pc'[k] = "persisted"
  PROVE  /\ pc[k] = "persisted" \/ PersistEntry(k)
         /\ content'[k] = content[k] /\ previousEntryHash'[k] = previousEntryHash[k]
<1> USE DEF vars, configVars, logVars, counterVars, callVars
<1>1. /\ pc \in [Call -> {"idle", "reading", "persisting", "persisted"}]
      /\ previousEntryHash \in [Call -> Digest(Content)] /\ content \in [Call -> Content]
  BY DEF TypeInv, TypeOK
<1>2. ASSUME NEW l \in Call, PersistEntry(l)
      PROVE  /\ pc[k] = "persisted" \/ PersistEntry(k)
             /\ content'[k] = content[k] /\ previousEntryHash'[k] = previousEntryHash[k]
  <2>1. CASE l = k
    BY <1>2, <2>1 DEF PersistEntry
  <2>2. CASE l # k
    BY <1>1, <1>2, <2>2 DEF PersistEntry
  <2>3. QED BY <2>1, <2>2
<1>3. ASSUME NEW l \in Call,
             \/ FlushAndAnchor(l) \/ ReadLastEntry(l) \/ PushEntry(l)
             \/ PersistSucceeds(l) \/ CallbackFails(l)
      PROVE  /\ pc[k] = "persisted"
             /\ content'[k] = content[k] /\ previousEntryHash'[k] = previousEntryHash[k]
  <2>1. CASE FlushAndAnchor(l)
    BY <1>1, <2>1 DEF FlushAndAnchor, CountBatch
  <2>2. CASE ReadLastEntry(l)
    BY <1>1, <2>2 DEF ReadLastEntry
  <2>3. CASE PushEntry(l) \/ PersistSucceeds(l)
    BY <1>1, <2>3 DEF PushEntry, PersistSucceeds, Complete
  <2>4. CASE CallbackFails(l)
    BY <1>1, <2>4 DEF CallbackFails
  <2>5. QED BY <1>3, <2>1, <2>2, <2>3, <2>4
<1>4. CASE Flush \/ Tick \/ UNCHANGED vars
  BY <1>4 DEF Flush, CountBatch, Tick
<1>5. QED BY <1>2, <1>3, <1>4 DEF Next

\* A record is only handed out by a call whose entry is in the log by then.
LEMMA RecordsStep ==
  ASSUME TypeInv, SameLog, [Next]_vars, NEW r \in records', r \notin records
  PROVE  \E k \in Call :
           /\ r = [content |-> content[k], externalReference |-> EntryOf(k).entryHash]
           /\ \/ pc[k] = "persisted"
              \/ LogEntries' = Append(LogEntries, EntryOf(k))
<1> USE DEF vars, configVars, logVars, counterVars, callVars
<1>1. ASSUME NEW k \in Call, PushEntry(k) \/ PersistSucceeds(k)
      PROVE  /\ r = [content |-> content[k], externalReference |-> EntryOf(k).entryHash]
             /\ \/ pc[k] = "persisted"
                \/ LogEntries' = Append(LogEntries, EntryOf(k))
  <2>1. Complete(k)
    BY <1>1 DEF PushEntry, PersistSucceeds
  <2>2. r = [content |-> content[k], externalReference |-> EntryOf(k).entryHash]
    BY <2>1 DEF Complete
  <2>3. pc[k] = "persisted" \/ LogEntries' = Append(LogEntries, EntryOf(k))
    BY <1>1 DEF PushEntry, PersistSucceeds, SameLog, LogEntries
  <2>4. QED BY <2>2, <2>3
<1>2. ASSUME NEW k \in Call, FlushAndAnchor(k) \/ ReadLastEntry(k) \/ PersistEntry(k) \/ CallbackFails(k)
      PROVE  records' = records
  BY <1>2 DEF FlushAndAnchor, CountBatch, ReadLastEntry, PersistEntry, CallbackFails
<1>3. CASE Flush \/ Tick \/ UNCHANGED vars
  BY <1>3 DEF Flush, CountBatch, Tick
<1>4. QED BY <1>1, <1>2, <1>3 DEF Next

LEMMA LastOfAppend ==
  ASSUME NEW C, NEW s \in Seq(C), NEW c \in C
  PROVE  Last(Append(s, c)) = c
BY DEF Last

LEMMA RecordedNext == TypeInv /\ Recorded /\ [Next]_vars => Recorded'
<1> SUFFICES ASSUME TypeInv, Recorded, [Next]_vars, SameLog' PROVE Recorded'
  BY DEF Recorded
<1> SameLog
  BY ConfigStays DEF SameLog, configVars
<1>1. ASSUME NEW n \in DOMAIN LogEntries'
      PROVE  /\ LogEntries'[n].entryHash = ComputeEntryHash(LogEntries'[n])
             /\ Linked(LogEntries[n].previousEntryHash)'
  <2>1. ASSUME n \in DOMAIN LogEntries, LogEntries'[n] = LogEntries[n]
        PROVE  /\ LogEntries'[n].entryHash = ComputeEntryHash(LogEntries'[n])
               /\ Linked(LogEntries[n].previousEntryHash)'
    <3>1. ASSUME NEW h, h = LogEntries[n].previousEntryHash PROVE Linked(h)'
      BY <2>1, <3>1, LinkedStays DEF Recorded
    <3>2. QED BY <2>1, <3>1 DEF Recorded, Linked, Entries
  <2>2. CASE LogEntries' = LogEntries
    BY <2>1, <2>2
  <2>3. ASSUME NEW k \in Call, pc[k] = "persisting", LogEntries' = Append(LogEntries, EntryOf(k))
        PROVE  /\ LogEntries'[n].entryHash = ComputeEntryHash(LogEntries'[n])
               /\ Linked(LogEntries[n].previousEntryHash)'
    <3>1. PICK i \in Nat :
            /\ DOMAIN LogEntries = 1..i /\ DOMAIN LogEntries' = 1..(i + 1)
            /\ \A j \in 1..i : LogEntries'[j] = LogEntries[j]
            /\ LogEntries'[i + 1] = EntryOf(k)
      BY <2>3, AppendedLog
    <3>2. CASE n \in 1..i
      BY <2>1, <3>1, <3>2
    <3>3. CASE n = i + 1
      <4>1. ASSUME NEW h, h = previousEntryHash[k] PROVE Linked(h)'
        BY <2>3, <4>1, LinkedStays DEF Recorded
      <4>2. LogEntries'[n].previousEntryHash = previousEntryHash[k]
        BY <3>1, <3>3, EntryType
      <4>3. Linked(LogEntries[n].previousEntryHash)'
        BY <4>1, <4>2 DEF Linked, Entries
      <4>4. LogEntries'[n].entryHash = ComputeEntryHash(LogEntries'[n])
        BY <3>1, <3>3, EntryType DEF ComputeEntryHash
      <4>5. QED BY <4>3, <4>4
    <3>4. QED BY <3>1, <3>2, <3>3
  <2>4. QED BY <2>2, <2>3, LogStep
<1>2. ASSUME NEW k \in Call, pc'[k] = "persisting" PROVE Linked(previousEntryHash[k])'
  <2>1. CASE pc[k] = "persisting" /\ previousEntryHash'[k] = previousEntryHash[k]
    <3>1. ASSUME NEW h, h = previousEntryHash[k] PROVE Linked(h)'
      BY <2>1, <3>1, LinkedStays DEF Recorded
    <3>2. QED BY <2>1, <3>1 DEF Linked, Entries
  <2>2. CASE ReadLastEntry(k)
    <3>1. previousEntryHash'[k] = IF LogEntries = <<>> THEN Null ELSE Last(LogEntries).entryHash
      BY <2>2 DEF ReadLastEntry, TypeInv, TypeOK
    <3>2. ASSUME NEW h, h = previousEntryHash'[k] PROVE Linked(h)'
      BY <3>1, <3>2, LastIsLinked, LinkedStays
    <3>3. QED BY <3>2 DEF Linked, Entries
  <2>3. QED BY <1>2, <2>1, <2>2, ReadStep
<1>3. ASSUME NEW k \in Call, pc'[k] = "persisted" PROVE Entries(EntryOf(k).entryHash)' # {}
  <2>1. EntryOf(k)' = EntryOf(k)
    BY <1>3, PersistedStep DEF EntryOf
  <2>2. ASSUME NEW h, h = EntryOf(k).entryHash PROVE Entries(h)' # {}
    <3>1. CASE pc[k] = "persisted"
      BY <2>2, <3>1, EntriesGrow DEF Recorded
    <3>2. CASE PersistEntry(k)
      <4>1. LogEntries' = Append(LogEntries, EntryOf(k))
        BY <3>2 DEF PersistEntry, LogEntries, SameLog, configVars
      <4>2. QED BY <2>2, <4>1, AddedIsFound
    <3>3. QED BY <1>3, <3>1, <3>2, PersistedStep
  <2>3. QED BY <2>1, <2>2 DEF Entries
<1>4. ASSUME NEW r \in records'
      PROVE  /\ Entries(r.externalReference)' # {}
             /\ Last(r.externalReference) = r.content
  <2>1. CASE r \in records
    BY <2>1, EntriesGrow DEF Recorded
  <2>2. CASE r \notin records
    <3>1. PICK k \in Call :
            /\ r = [content |-> content[k], externalReference |-> EntryOf(k).entryHash]
            /\ \/ pc[k] = "persisted"
               \/ LogEntries' = Append(LogEntries, EntryOf(k))
      BY <2>2, RecordsStep
    <3>2. r.externalReference = EntryOf(k).entryHash /\ r.content = content[k]
      BY <3>1
    <3>3. Entries(r.externalReference)' # {}
      BY <3>1, <3>2, EntriesGrow, AddedIsFound DEF Recorded
    <3>4. previousEntryHash[k] \in Seq(Content) /\ r.content \in Content
      BY <3>2 DEF TypeInv, TypeOK, Digest
    <3>5. r.externalReference = Append(previousEntryHash[k], r.content)
      BY <3>2, EntryType
    <3>6. QED BY <3>3, <3>4, <3>5, LastOfAppend
  <2>3. QED BY <2>1, <2>2
<1>5. QED BY <1>1, <1>2, <1>3, <1>4 DEF Recorded

LEMMA RecordedVerify == TypeInv /\ Recorded => AnchorsVerify
<1> SUFFICES ASSUME TypeInv, Recorded, SameLog, NEW r \in records PROVE Verify(r)
  BY DEF AnchorsVerify
<1> DEFINE T == Entries(r.externalReference)
<1>1. T # {} /\ T \subseteq Nat /\ T \subseteq DOMAIN LogEntries
  BY LogType DEF Recorded, Entries
<1>2. PICK n \in T : \A j \in T : n <= j
  <2> HIDE DEF T
  <2> QED BY <1>1, LeastNat
<1>3. n \in DOMAIN LogEntries /\ LogEntries[n].entryHash = r.externalReference
  BY <1>2 DEF Entries
<1>4. LogEntries[n] \in LogEntry
  BY <1>3, LogType
<1>5. /\ ComputeEntryHash(LogEntries[n]) = LogEntries[n].entryHash
      /\ Linked(LogEntries[n].previousEntryHash)
  BY <1>3 DEF Recorded
<1>6. LogEntries[n].content = r.content
  <2>1. LogEntries[n].previousEntryHash \in Seq(Content) /\ LogEntries[n].content \in Content
    BY <1>4 DEF LogEntry, Digest
  <2>2. Last(ComputeEntryHash(LogEntries[n])) = LogEntries[n].content
    BY <2>1, LastOfAppend DEF ComputeEntryHash
  <2>3. QED BY <1>3, <1>5, <2>2 DEF Recorded
<1>7. QED BY <1>2, <1>5, <1>6 DEF Verify, Linked

\* Every anchor record that was handed out verifies from then on, whatever is
\* anchored later or meanwhile and whichever callbacks fail.
THEOREM HandedOutAnchorsVerify == Spec => []AnchorsVerify
<1>1. Init => Recorded
  BY DEF Init, Recorded, LogEntries
<1>2. QED BY <1>1, RecordedNext, RecordedVerify, TypesAndCounter, PTL DEF Spec

-----------------------------------------------------------------------------
(***************************************************************************)
(* The recursive functions of MerkleTree are what their definitions say.   *)
(***************************************************************************)
LEMMA LevelExists ==
  ASSUME NEW s, NEW N \in Nat
  PROVE  \E f : f = [h \in 0..N |-> IF h = 0 THEN s ELSE Parents(f[h - 1])]
<1> DEFINE T == {n \in Nat : \E f : f = [h \in 0..n |-> IF h = 0 THEN s ELSE Parents(f[h - 1])]}
<1>1. 0 \in T
  <2> DEFINE f == [h \in 0..0 |-> s]
  <2>1. \A h \in 0..0 : h = 0
    OBVIOUS
  <2>2. f = [h \in 0..0 |-> IF h = 0 THEN s ELSE Parents(f[h - 1])]
    BY <2>1
  <2>3. QED BY <2>2
<1>2. ASSUME NEW n \in Nat, n \in T PROVE n + 1 \in T
  <2>1. PICK f : f = [h \in 0..n |-> IF h = 0 THEN s ELSE Parents(f[h - 1])]
    BY <1>2
  <2> DEFINE g == [h \in 0..(n + 1) |-> IF h = n + 1 THEN Parents(f[n]) ELSE f[h]]
  <2>2. ASSUME NEW h \in 0..(n + 1)
        PROVE  g[h] = IF h = 0 THEN s ELSE Parents(g[h - 1])
    <3>1. CASE h = n + 1
      <4>1. n \in 0..(n + 1) /\ n # n + 1 /\ h - 1 = n /\ h # 0
        BY <3>1
      <4>2. QED BY <3>1, <4>1
    <3>2. CASE h # n + 1
      <4>1. h \in 0..n /\ (h # 0 => h - 1 \in 0..n /\ h - 1 \in 0..(n + 1) /\ h - 1 # n + 1)
        BY <3>2
      <4>2. f[h] = IF h = 0 THEN s ELSE Parents(f[h - 1])
        BY <2>1, <4>1
      <4>3. QED BY <3>2, <4>1, <4>2
    <3>3. QED BY <3>1, <3>2
  <2>3. g = [h \in 0..(n + 1) |-> IF h = 0 THEN s ELSE Parents(g[h - 1])]
    BY <2>2
  <2>4. \E p : p = [h \in 0..(n + 1) |-> IF h = 0 THEN s ELSE Parents(p[h - 1])]
    <3> HIDE DEF g
    <3> QED BY <2>3
  <2>5. QED BY <2>4
<1>3. Nat \subseteq T
  <2> HIDE DEF T
  <2> QED BY <1>1, <1>2, NatSetInduction
<1>4. QED BY <1>3

LEMMA LevelFacts ==
  ASSUME NEW s, Len(s) \in Nat
  PROVE  /\ DOMAIN LevelAt(s) = 0..Len(s)
         /\ LevelAt(s)[0] = s
         /\ \A h \in 1..Len(s) : LevelAt(s)[h] = Parents(LevelAt(s)[h - 1])
<1> DEFINE N == Len(s)
           L == CHOOSE f : f = [h \in 0..N |-> IF h = 0 THEN s ELSE Parents(f[h - 1])]
<1>1. \E f : f = [h \in 0..N |-> IF h = 0 THEN s ELSE Parents(f[h - 1])]
  BY LevelExists
<1>2. L = [h \in 0..N |-> IF h = 0 THEN s ELSE Parents(L[h - 1])]
  BY <1>1
<1>3. LevelAt(s) = L
  BY DEF LevelAt
<1> HIDE DEF L
<1>4. QED BY <1>2, <1>3

LEMMA PlaceExists ==
  ASSUME NEW a, NEW N \in Nat
  PROVE  \E f : f = [h \in 1..N |-> IF h = 1 THEN a ELSE Above(f[h - 1])]
<1> DEFINE T == {n \in Nat : \E f : f = [h \in 1..n |-> IF h = 1 THEN a ELSE Above(f[h - 1])]}
<1>1. 0 \in T
  <2> DEFINE f == [h \in 1..0 |-> a]
  <2>1. f = [h \in 1..0 |-> IF h = 1 THEN a ELSE Above(f[h - 1])]
    OBVIOUS
  <2>2. QED BY <2>1
<1>2. ASSUME NEW n \in Nat, n \in T PROVE n + 1 \in T
  <2>1. PICK f : f = [h \in 1..n |-> IF h = 1 THEN a ELSE Above(f[h - 1])]
    BY <1>2
  <2> DEFINE g == [h \in 1..(n + 1) |-> IF h = n + 1 THEN (IF n = 0 THEN a ELSE Above(f[n])) ELSE f[h]]
  <2>2. ASSUME NEW h \in 1..(n + 1)
        PROVE  g[h] = IF h = 1 THEN a ELSE Above(g[h - 1])
    <3>1. CASE h = n + 1
      <4>1. (n # 0 => n \in 1..(n + 1)) /\ n # n + 1 /\ h - 1 = n /\ (h = 1 <=> n = 0)
        BY <3>1
      <4>2. QED BY <3>1, <4>1
    <3>2. CASE h # n + 1
      <4>1. h \in 1..n /\ (h # 1 => h - 1 \in 1..n /\ h - 1 \in 1..(n + 1) /\ h - 1 # n + 1)
        BY <3>2
      <4>2. f[h] = IF h = 1 THEN a ELSE Above(f[h - 1])
        BY <2>1, <4>1
      <4>3. QED BY <3>2, <4>1, <4>2
    <3>3. QED BY <3>1, <3>2
  <2>3. g = [h \in 1..(n + 1) |-> IF h = 1 THEN a ELSE Above(g[h - 1])]
    BY <2>2
  <2>4. \E p : p = [h \in 1..(n + 1) |-> IF h = 1 THEN a ELSE Above(p[h - 1])]
    <3> HIDE DEF g
    <3> QED BY <2>3
  <2>5. QED BY <2>4
<1>3. Nat \subseteq T
  <2> HIDE DEF T
  <2> QED BY <1>1, <1>2, NatSetInduction
<1>4. QED BY <1>3

LEMMA PlaceFacts ==
  ASSUME NEW levels, NEW leaf, Len(levels) \in Nat
  PROVE  /\ Len(levels) > 0 => PlaceAt(levels, leaf)[1] = leaf
         /\ \A h \in 2..Len(levels) :
              PlaceAt(levels, leaf)[h] = Above(PlaceAt(levels, leaf)[h - 1])
<1> DEFINE N == Len(levels)
           P == CHOOSE f : f = [h \in 1..N |-> IF h = 1 THEN leaf ELSE Above(f[h - 1])]
<1>1. \E f : f = [h \in 1..N |-> IF h = 1 THEN leaf ELSE Above(f[h - 1])]
  <2>1. N \in Nat
    OBVIOUS
  <2> HIDE DEF N
  <2>2. QED BY <2>1, PlaceExists
<1>2. P = [h \in 1..N |-> IF h = 1 THEN leaf ELSE Above(P[h - 1])]
  BY <1>1
<1>3. PlaceAt(levels, leaf) = P
  BY DEF PlaceAt
<1> HIDE DEF P
<1>4. \A h \in 2..N : h \in 1..N /\ h # 1
  OBVIOUS
<1>5. QED BY <1>2, <1>3, <1>4

ClimbExists(a, s, N) ==
  \E f : f = [h \in 0..N |-> IF h = 0 THEN a ELSE Climb(f[h - 1], s[h])]

LEMMA ClimbedExists ==
  ASSUME NEW a, NEW s, NEW N \in Nat
  PROVE  ClimbExists(a, s, N)
<1> DEFINE T == {n \in Nat : \E f : f = [h \in 0..n |-> IF h = 0 THEN a ELSE Climb(f[h - 1], s[h])]}
<1>1. 0 \in T
  <2> DEFINE f == [h \in 0..0 |-> a]
  <2>1. \A h \in 0..0 : h = 0
    OBVIOUS
  <2>2. f = [h \in 0..0 |-> IF h = 0 THEN a ELSE Climb(f[h - 1], s[h])]
    BY <2>1
  <2>3. QED BY <2>2
<1>2. ASSUME NEW n \in Nat, n \in T PROVE n + 1 \in T
  <2>1. PICK f : f = [h \in 0..n |-> IF h = 0 THEN a ELSE Climb(f[h - 1], s[h])]
    BY <1>2
  <2> DEFINE g == [h \in 0..(n + 1) |-> IF h = n + 1 THEN Climb(f[n], s[n + 1]) ELSE f[h]]
  <2>2. ASSUME NEW h \in 0..(n + 1)
        PROVE  g[h] = IF h = 0 THEN a ELSE Climb(g[h - 1], s[h])
    <3>1. CASE h = n + 1
      <4>1. n \in 0..(n + 1) /\ n # n + 1 /\ h - 1 = n /\ h # 0
        BY <3>1
      <4>2. QED BY <3>1, <4>1
    <3>2. CASE h # n + 1
      <4>1. h \in 0..n /\ (h # 0 => h - 1 \in 0..n /\ h - 1 \in 0..(n + 1) /\ h - 1 # n + 1)
        BY <3>2
      <4>2. f[h] = IF h = 0 THEN a ELSE Climb(f[h - 1], s[h])
        BY <2>1, <4>1
      <4>3. QED BY <3>2, <4>1, <4>2
    <3>3. QED BY <3>1, <3>2
  <2>3. g = [h \in 0..(n + 1) |-> IF h = 0 THEN a ELSE Climb(g[h - 1], s[h])]
    BY <2>2
  <2>4. \E p : p = [h \in 0..(n + 1) |-> IF h = 0 THEN a ELSE Climb(p[h - 1], s[h])]
    <3> HIDE DEF g
    <3> QED BY <2>3
  <2>5. QED BY <2>4
<1>3. Nat \subseteq T
  <2> HIDE DEF T
  <2> QED BY <1>1, <1>2, NatSetInduction
<1>4. QED BY <1>3 DEF ClimbExists

LEMMA ClimbedFacts ==
  ASSUME NEW leaf, NEW s, Len(s) \in Nat
  PROVE  /\ Climbed(leaf, s)[0] = leaf
         /\ \A h \in 1..Len(s) : Climbed(leaf, s)[h] = Climb(Climbed(leaf, s)[h - 1], s[h])
<1> DEFINE N == Len(s)
           C == CHOOSE f : f = [h \in 0..N |-> IF h = 0 THEN leaf ELSE Climb(f[h - 1], s[h])]
<1>1. \E f : f = [h \in 0..N |-> IF h = 0 THEN leaf ELSE Climb(f[h - 1], s[h])]
  <2>1. N \in Nat
    OBVIOUS
  <2> HIDE DEF N
  <2>2. ClimbExists(leaf, s, N)
    BY <2>1, ClimbedExists
  <2>3. QED BY <2>2 DEF ClimbExists
<1>2. C = [h \in 0..N |-> IF h = 0 THEN leaf ELSE Climb(C[h - 1], s[h])]
  BY <1>1
<1>3. Climbed(leaf, s) = C
  BY DEF Climbed
<1> HIDE DEF C
<1>4. QED BY <1>2, <1>3

-----------------------------------------------------------------------------
(***************************************************************************)
(* Sizes and places.                                                       *)
(***************************************************************************)
LEMMA Halves ==
  ASSUME NEW k \in Nat \ {0}
  PROVE  /\ Above(k) \in Nat \ {0} /\ Above(k) <= k
         /\ k > 1 => Above(k) < k
         /\ IsLeft(k) => 2 * Above(k) - 1 = k /\ 2 * Above(k) = k + 1
         /\ ~ IsLeft(k) => 2 * Above(k) = k /\ 2 * Above(k) - 1 = k - 1 /\ k - 1 \in 1..k
BY DEF Above, IsLeft

LEMMA HalvesInOrder ==
  ASSUME NEW k \in Nat \ {0}, NEW i \in 1..k
  PROVE  /\ Above(i) \in 1..Above(k)
         /\ 2 * i - 1 \in Nat /\ 2 * i \in Nat
BY DEF Above

LEMMA FcnIsSeq ==
  ASSUME NEW m \in Nat, NEW f, f = [i \in 1..m |-> f[i]]
  PROVE  Len(f) = m
<1> DEFINE S == {f[i] : i \in 1..m}
<1>1. f \in [1..m -> S]
  OBVIOUS
<1> HIDE DEF S
<1>2. f \in Seq(S)
  BY <1>1
<1>3. Len(f) \in Nat /\ DOMAIN f = 1..Len(f)
  BY <1>2, LenProperties
<1>4. 1..Len(f) = 1..m
  BY <1>1, <1>3
<1>5. QED BY <1>3, <1>4

IsLevel(level) == Len(level) \in Nat \ {0} /\ DOMAIN level = 1..Len(level)

LEMMA ParentsFacts ==
  ASSUME NEW level, IsLevel(level)
  PROVE  /\ IsLevel(Parents(level))
         /\ Len(Parents(level)) = Above(Len(level))
         /\ \A i \in 1..Above(Len(level)) :
              /\ 2 * i - 1 \in 1..Len(level)
              /\ (IF 2 * i <= Len(level) THEN 2 * i ELSE 2 * i - 1) \in 1..Len(level)
              /\ Parents(level)[i] =
                   HashPair(level[2 * i - 1],
                            level[IF 2 * i <= Len(level) THEN 2 * i ELSE 2 * i - 1])
<1> DEFINE n == Len(level)
           m == Above(n)
<1>1. n \in Nat \ {0} /\ m \in Nat \ {0}
  BY Halves DEF IsLevel
<1>2. Parents(level) = [i \in 1..m |->
        HashPair(level[2 * i - 1], level[IF 2 * i <= n THEN 2 * i ELSE 2 * i - 1])]
  BY DEF Parents, Above
<1>3. \A i \in 1..m : 2 * i - 1 \in 1..n /\ (IF 2 * i <= n THEN 2 * i ELSE 2 * i - 1) \in 1..n
  <2> HIDE DEF n
  <2> QED BY <1>1 DEF Above
<1> HIDE DEF n, m
<1>4. Parents(level) = [i \in 1..m |-> Parents(level)[i]]
  BY <1>2
<1>5. Len(Parents(level)) = m
  BY <1>1, <1>4, FcnIsSeq
<1>6. DOMAIN Parents(level) = 1..m
  BY <1>2
<1>7. IsLevel(Parents(level))
  BY <1>1, <1>5, <1>6 DEF IsLevel
<1>8. \A i \in 1..m : Parents(level)[i] =
        HashPair(level[2 * i - 1], level[IF 2 * i <= n THEN 2 * i ELSE 2 * i - 1])
  BY <1>2
<1>9. QED BY <1>3, <1>5, <1>7, <1>8 DEF n, m

LEMMA LevelsShrink ==
  ASSUME NEW s, IsLevel(s)
  PROVE  \A h \in 0..Len(s) :
           /\ IsLevel(LevelAt(s)[h])
           /\ Len(LevelAt(s)[h]) = 1 \/ Len(LevelAt(s)[h]) + h <= Len(s)
<1> DEFINE N == Len(s)
           L == LevelAt(s)
           P(h) == IsLevel(L[h]) /\ (Len(L[h]) = 1 \/ Len(L[h]) + h <= N)
           T == {h \in Nat : h <= N => P(h)}
<1>1. N \in Nat \ {0} /\ L[0] = s /\ \A h \in 1..N : L[h] = Parents(L[h - 1])
  BY LevelFacts DEF IsLevel
<1> HIDE DEF L
<1>2. 0 \in T
  BY <1>1
<1>3. ASSUME NEW h \in Nat, h \in T PROVE h + 1 \in T
  <2>1. CASE ~ (h + 1 <= N)
    <3> HIDE DEF P
    <3> QED BY <2>1
  <2>2. CASE h + 1 <= N
    <3>1. h <= N /\ h + 1 \in 1..N /\ (h + 1) - 1 = h
      BY <1>1, <2>2
    <3>2. P(h) /\ L[h + 1] = Parents(L[h])
      BY <1>1, <1>3, <3>1
    <3> DEFINE k == Len(L[h])
               j == Len(L[h + 1])
    <3>3. IsLevel(L[h + 1]) /\ j = Above(k) /\ k \in Nat \ {0}
      BY <3>2, ParentsFacts DEF IsLevel
    <3>4. k = 1 \/ k + h <= N
      BY <3>2
    <3> HIDE DEF k, j, N
    <3>5. j = 1 \/ j + (h + 1) <= N
      <4>1. j <= k /\ j \in Nat \ {0} /\ (k > 1 => j < k)
        BY <3>3, Halves
      <4>2. QED BY <1>1, <3>3, <3>4, <4>1
    <3>6. P(h + 1)
      BY <3>3, <3>5 DEF j
    <3> HIDE DEF P
    <3>7. QED BY <3>6
  <2>3. QED BY <2>1, <2>2
<1>4. Nat \subseteq T
  <2> HIDE DEF T
  <2> QED BY <1>2, <1>3, NatSetInduction
<1>5. \A h \in 0..N : h \in Nat /\ h <= N
  BY <1>1
<1>6. QED BY <1>4, <1>5 DEF L

LEMMA RootExists ==
  ASSUME NEW s, IsLevel(s)
  PROVE  /\ RootHeight(LevelAt(s)) \in 0..Len(s)
         /\ Len(LevelAt(s)[RootHeight(LevelAt(s))]) = 1
<1> DEFINE N == Len(s)
           L == LevelAt(s)
           T == {h \in 0..N : Len(L[h]) = 1}
<1>1. N \in Nat \ {0} /\ DOMAIN L = 0..N
  BY LevelFacts DEF IsLevel
<1>2. \A h \in 0..N : Len(L[h]) \in Nat \ {0} /\ (Len(L[h]) = 1 \/ Len(L[h]) + h <= N)
  BY LevelsShrink DEF IsLevel
<1> HIDE DEF L
<1>3. N \in T
  <2> DEFINE k == Len(L[N])
  <2>1. k \in Nat \ {0} /\ (k = 1 \/ k + N <= N) /\ N \in 0..N
    BY <1>1, <1>2
  <2> HIDE DEF k, N
  <2>2. k = 1
    BY <1>1, <2>1
  <2>3. QED BY <2>1, <2>2 DEF k
<1>4. PICK m \in T : \A k \in T : m <= k
  <2>1. T \subseteq Nat /\ T # {}
    BY <1>1, <1>3
  <2> HIDE DEF T
  <2>2. QED BY <2>1, LeastNat
<1>5. \A j \in 0..(m - 1) : Len(L[j]) > 1
  <2> SUFFICES ASSUME NEW j \in 0..(m - 1) PROVE Len(L[j]) > 1
    OBVIOUS
  <2> DEFINE k == Len(L[j])
  <2>1. m \in 0..N /\ j \in 0..N /\ ~ (m <= j)
    BY <1>1, <1>4
  <2>2. j \notin T
    BY <1>4, <2>1
  <2>3. k \in Nat \ {0} /\ k # 1
    BY <1>2, <2>1, <2>2
  <2> HIDE DEF k
  <2>4. k > 1
    BY <2>3
  <2>5. QED BY <2>4 DEF k
<1>6. m \in DOMAIN L /\ Len(L[m]) = 1
  BY <1>1, <1>4
<1>7. /\ RootHeight(L) \in DOMAIN L
      /\ Len(L[RootHeight(L)]) = 1
  BY <1>5, <1>6 DEF RootHeight
<1>8. QED BY <1>1, <1>7 DEF L

-----------------------------------------------------------------------------
(***************************************************************************)
(* The tree over the leaves: its levels, and its root.                     *)
(***************************************************************************)
Hashes(leaves) == [i \in DOMAIN leaves |-> HashLeaf(leaves[i])]

LEMMA HashesFacts ==
  ASSUME NEW leaves, IsLevel(leaves)
  PROVE  IsLevel(Hashes(leaves)) /\ Len(Hashes(leaves)) = Len(leaves)
<1> DEFINE n == Len(leaves)
<1>1. n \in Nat /\ DOMAIN leaves = 1..n
  BY DEF IsLevel
<1> HIDE DEF n
<1>2. Hashes(leaves) = [i \in 1..n |-> Hashes(leaves)[i]] /\ DOMAIN Hashes(leaves) = 1..n
  BY <1>1 DEF Hashes
<1>3. Len(Hashes(leaves)) = n
  BY <1>1, <1>2, FcnIsSeq
<1>4. QED BY <1>2, <1>3 DEF IsLevel, n

LEMMA TreeFacts ==
  ASSUME NEW leaves, IsLevel(leaves)
  PROVE  \E H \in Nat :
           /\ H <= Len(leaves)
           /\ Len(Tree(leaves)) = H + 1
           /\ \A h \in 0..H : Tree(leaves)[h + 1] = LevelAt(Hashes(leaves))[h]
           /\ Len(LevelAt(Hashes(leaves))[H]) = 1
           /\ GetRoot(Tree(leaves)) = LevelAt(Hashes(leaves))[H][1]
<1> DEFINE s == Hashes(leaves)
           L == LevelAt(s)
           H == RootHeight(L)
           t == Tree(leaves)
<1>1. IsLevel(s) /\ Len(s) = Len(leaves)
  BY HashesFacts
<1>2. H \in 0..Len(s) /\ Len(L[H]) = 1 /\ Len(s) \in Nat
  BY <1>1, RootExists DEF IsLevel
<1>3. H \in Nat /\ H <= Len(leaves)
  BY <1>1, <1>2
<1>4. leaves # <<>>
  BY DEF IsLevel
<1>5. t = [h \in 1..(H + 1) |-> L[h - 1]]
  BY <1>4 DEF Tree, BuildLevels, Hashes
<1> HIDE DEF L, H, t
<1>6. t = [h \in 1..(H + 1) |-> t[h]]
  BY <1>5
<1>7. Len(t) = H + 1
  BY <1>3, <1>6, FcnIsSeq
<1>8. \A h \in 0..H : h + 1 \in 1..(H + 1) /\ (h + 1) - 1 = h
  BY <1>3
<1>9. \A h \in 0..H : t[h + 1] = L[h]
  BY <1>5, <1>8
<1>10. t # <<>>
  BY <1>3, <1>7
<1>11. GetRoot(t) = L[H][1]
  <2>1. H \in 0..H
    BY <1>3
  <2>2. t[Len(t)] = L[H]
    BY <1>7, <1>9, <2>1
  <2>3. QED BY <1>10, <2>2 DEF GetRoot, Last
<1>12. QED
  BY <1>2, <1>3, <1>7, <1>9, <1>11 DEF L, H, t

(***************************************************************************)
(* Completeness: the proof the tree gives for a place leads from the leaf  *)
(* at the place to the root.                                               *)
(***************************************************************************)
LEMMA ClimbToParent ==
  ASSUME NEW level, IsLevel(level), NEW i \in 1..Len(level)
  PROVE  /\ Above(i) \in 1..Len(Parents(level))
         /\ Climb(level[i], [hash |-> SiblingHash(level, i),
                             position |-> IF IsLeft(i) THEN "right" ELSE "left"])
              = Parents(level)[Above(i)]
<1> DEFINE n == Len(level)
           a == Above(i)
<1>1. n \in Nat \ {0} /\ i \in Nat \ {0} /\ i <= n
  BY DEF IsLevel
<1>2. a \in 1..Above(n)
  BY <1>1, HalvesInOrder
<1>3. Parents(level)[a] =
        HashPair(level[2 * a - 1], level[IF 2 * a <= n THEN 2 * a ELSE 2 * a - 1])
  BY <1>2, ParentsFacts
<1>4. Above(n) = Len(Parents(level))
  BY ParentsFacts
<1> HIDE DEF n, a
<1>5. CASE IsLeft(i)
  <2>1. 2 * a - 1 = i /\ 2 * a = i + 1
    BY <1>1, <1>5, Halves DEF a
  <2>2. SiblingHash(level, i) = level[IF 2 * a <= n THEN 2 * a ELSE 2 * a - 1]
    BY <1>5, <2>1 DEF SiblingHash, n
  <2>3. QED BY <1>2, <1>3, <1>4, <1>5, <2>1, <2>2 DEF Climb, a
<1>6. CASE ~ IsLeft(i)
  <2>1. 2 * a - 1 = i - 1 /\ 2 * a = i /\ i - 1 <= n
    BY <1>1, <1>6, Halves DEF a
  <2>2. SiblingHash(level, i) = level[i - 1]
    BY <1>6, <2>1 DEF SiblingHash, n
  <2>3. QED BY <1>1, <1>2, <1>3, <1>4, <1>6, <2>1, <2>2 DEF Climb, a
<1>7. QED BY <1>5, <1>6

LEMMA ProofsLeadToRoot ==
  ASSUME NEW leaves, IsLevel(leaves), NEW i \in 1..Len(leaves)
  PROVE  /\ Len(GetProof(Tree(leaves), i).siblings) \in Nat
         /\ GetProof(Tree(leaves), i).leaf = HashLeaf(leaves[i])
         /\ VerifyProof(HashLeaf(leaves[i]), GetProof(Tree(leaves), i), GetRoot(Tree(leaves)))
<1> DEFINE s == Hashes(leaves)
           L == LevelAt(s)
           t == Tree(leaves)
           p == PlaceAt(t, i)
           leaf == HashLeaf(leaves[i])
           q == GetProof(t, i).siblings
           C == Climbed(leaf, q)
<1>1. IsLevel(s) /\ Len(s) = Len(leaves) /\ Len(leaves) \in Nat
  BY HashesFacts DEF IsLevel
<1>2. PICK H \in Nat :
        /\ H <= Len(leaves)
        /\ Len(t) = H + 1
        /\ \A h \in 0..H : t[h + 1] = L[h]
        /\ Len(L[H]) = 1
        /\ GetRoot(t) = L[H][1]
  BY TreeFacts
<1>3. s[i] = leaf
  BY DEF Hashes, IsLevel
<1>4. \A h \in 0..H : IsLevel(L[h])
  BY <1>1, <1>2, LevelsShrink
<1>5. L[0] = s /\ \A h \in 1..H : L[h] = Parents(L[h - 1])
  BY <1>1, <1>2, LevelFacts
<1>6. p[1] = i /\ \A h \in 2..(H + 1) : p[h] = Above(p[h - 1])
  <2>1. Len(t) \in Nat /\ Len(t) > 0
    BY <1>2
  <2> HIDE DEF t
  <2>2. QED BY <1>2, <2>1, PlaceFacts
<1>7. q = [h \in 1..H |-> [hash |-> SiblingHash(t[h], p[h]),
                           position |-> IF IsLeft(p[h]) THEN "right" ELSE "left"]]
  <2>1. Len(t) - 1 = H
    BY <1>2
  <2> HIDE DEF t
  <2>2. QED BY <2>1 DEF GetProof
<1>8. GetProof(t, i).leaf = leaf
  <2>1. t[1] = s
    BY <1>2, <1>5
  <2> HIDE DEF t
  <2>2. QED BY <1>3, <2>1 DEF GetProof
<1> HIDE DEF s, L, t, p, q, C
<1>9. Len(q) = H
  <2>1. q = [h \in 1..H |-> q[h]]
    BY <1>7
  <2>2. QED BY <2>1, FcnIsSeq
<1>10. C[0] = leaf /\ \A h \in 1..H : C[h] = Climb(C[h - 1], q[h])
  BY <1>9, ClimbedFacts DEF C
<1> DEFINE P(h) == p[h + 1] \in 1..Len(L[h]) /\ C[h] = L[h][p[h + 1]]
           T == {h \in Nat : h <= H => P(h)}
<1>11. 0 \in T
  BY <1>1, <1>3, <1>5, <1>6, <1>10
<1>12. ASSUME NEW h \in Nat, h \in T PROVE h + 1 \in T
  <2>1. CASE ~ (h + 1 <= H)
    <3> HIDE DEF P
    <3> QED BY <2>1
  <2>2. CASE h + 1 <= H
    <3>1. /\ h <= H /\ h \in 0..H /\ h + 1 \in 1..H /\ (h + 1) - 1 = h
          /\ (h + 1) + 1 \in 2..(H + 1) /\ ((h + 1) + 1) - 1 = h + 1
      BY <2>2
    <3> DEFINE l == L[h]
               j == p[h + 1]
    <3>2. IsLevel(l) /\ j \in 1..Len(l) /\ C[h] = l[j]
      BY <1>4, <1>12, <3>1
    <3>3. L[h + 1] = Parents(l) /\ p[(h + 1) + 1] = Above(j)
      BY <1>5, <1>6, <3>1
    <3>4. q[h + 1] = [hash |-> SiblingHash(l, j),
                      position |-> IF IsLeft(j) THEN "right" ELSE "left"]
      BY <1>2, <1>7, <3>1
    <3>5. C[h + 1] = Climb(l[j], q[h + 1])
      BY <1>10, <3>1, <3>2
    <3> HIDE DEF l, j
    <3>6. Above(j) \in 1..Len(Parents(l)) /\ C[h + 1] = Parents(l)[Above(j)]
      BY <3>2, <3>4, <3>5, ClimbToParent
    <3>7. P(h + 1)
      BY <3>3, <3>6
    <3> HIDE DEF P
    <3>8. QED BY <3>7
  <2>3. QED BY <2>1, <2>2
<1>13. Nat \subseteq T
  <2> HIDE DEF T
  <2> QED BY <1>11, <1>12, NatSetInduction
<1>14. P(H)
  <2> HIDE DEF P
  <2> QED BY <1>13
<1>15. p[H + 1] = 1
  BY <1>2, <1>14
<1>16. C[Len(q)] = GetRoot(t)
  BY <1>2, <1>9, <1>14, <1>15
<1>17. QED BY <1>8, <1>9, <1>16 DEF VerifyProof, C, q, t

(***************************************************************************)
(* Soundness: no list of siblings whatever leads from what is no leaf of   *)
(* the tree to a node of it.                                               *)
(***************************************************************************)
LEMMA PairsAgree ==
  ASSUME NEW a, NEW b, NEW c, NEW d, <<a, b>> = <<c, d>>
  PROVE  a = c /\ b = d
<1>1. <<a, b>>[1] = <<c, d>>[1] /\ <<a, b>>[2] = <<c, d>>[2]
  OBVIOUS
<1>2. QED BY <1>1

LEMMA OnlyLeavesClimb ==
  ASSUME NEW leaves, IsLevel(leaves), NEW x, NEW siblings, Len(siblings) \in Nat,
         NEW H \in 0..Len(leaves), NEW i \in 1..Len(LevelAt(Hashes(leaves))[H]),
         Climbed(HashLeaf(x), siblings)[Len(siblings)] = LevelAt(Hashes(leaves))[H][i]
  PROVE  \E n \in 1..Len(leaves) : leaves[n] = x
<1> DEFINE s == Hashes(leaves)
           L == LevelAt(s)
           C == Climbed(HashLeaf(x), siblings)
           N == Len(leaves)
           M == Len(siblings)
           Found == \E n \in 1..N : leaves[n] = x
           P(m) == \A h \in 0..N : \A j \in 1..Len(L[h]) : C[m] = L[h][j] => Found
           T == {m \in Nat : m <= M => P(m)}
<1>1. N \in Nat /\ DOMAIN leaves = 1..N /\ IsLevel(s) /\ Len(s) = N
  BY HashesFacts DEF IsLevel
<1>2. \A h \in 0..N : IsLevel(L[h])
  BY <1>1, LevelsShrink
<1>3. L[0] = s /\ \A h \in 1..N : L[h] = Parents(L[h - 1])
  BY <1>1, LevelFacts
<1>4. \A j \in 1..N : s[j] = <<leaves[j]>>
  BY <1>1 DEF Hashes, HashLeaf
<1>5. C[0] = <<x>> /\ \A m \in 1..M : C[m] = Climb(C[m - 1], siblings[m])
  BY ClimbedFacts DEF HashLeaf
<1>6. \A h \in 1..N : \A j \in 1..Len(L[h]) :
        \E a, b \in 1..Len(L[h - 1]) : L[h][j] = <<L[h - 1][a], L[h - 1][b]>>
  <2> SUFFICES ASSUME NEW h \in 1..N, NEW j \in 1..Len(L[h])
               PROVE  \E a, b \in 1..Len(L[h - 1]) : L[h][j] = <<L[h - 1][a], L[h - 1][b]>>
    OBVIOUS
  <2>1. h - 1 \in 0..N
    BY <1>1
  <2> DEFINE l == L[h - 1]
  <2>2. IsLevel(l) /\ L[h] = Parents(l)
    BY <1>2, <1>3, <2>1
  <2> HIDE DEF l, L
  <2>3. j \in 1..Above(Len(l))
    BY <2>2, ParentsFacts
  <2>4. QED BY <2>2, <2>3, ParentsFacts DEF HashPair, l
<1> HIDE DEF s, L, C, N, M
<1>7. 0 \in T
  <2> SUFFICES ASSUME NEW h \in 0..N, NEW j \in 1..Len(L[h]), <<x>> = L[h][j] PROVE Found
    BY <1>5
  <2>1. CASE h = 0
    BY <1>1, <1>3, <1>4, <2>1
  <2>2. CASE h # 0
    <3>1. h \in 1..N
      BY <1>1, <2>2
    <3>2. PICK a, b : L[h][j] = <<a, b>>
      BY <1>6, <3>1
    <3>3. <<x>> # <<a, b>>
      OBVIOUS
    <3>4. QED BY <3>2, <3>3
  <2>3. QED BY <2>1, <2>2
<1>8. ASSUME NEW m \in Nat, m \in T PROVE m + 1 \in T
  <2>1. CASE ~ (m + 1 <= M)
    <3> HIDE DEF P
    <3> QED BY <2>1
  <2>2. CASE m + 1 <= M
    <3>1. m <= M /\ m + 1 \in 1..M /\ (m + 1) - 1 = m
      BY <2>2 DEF M
    <3>2. P(m)
      <4> HIDE DEF P
      <4> QED BY <1>8, <3>1
    <3>3. PICK c, d : C[m + 1] = <<c, d>> /\ (c = C[m] \/ d = C[m])
      BY <1>5, <3>1 DEF Climb, HashPair
    <3>4. P(m + 1)
      <4> SUFFICES ASSUME NEW h \in 0..N, NEW j \in 1..Len(L[h]), C[m + 1] = L[h][j]
                   PROVE  Found
        OBVIOUS
      <4>0. <<c, d>> = L[h][j]
        BY <3>3
      <4>1. CASE h = 0
        <5>1. L[h][j] = <<leaves[j]>>
          BY <1>1, <1>3, <1>4, <4>1
        <5>2. <<leaves[j]>> # <<c, d>>
          OBVIOUS
        <5>3. QED BY <3>3, <5>1, <5>2
      <4>2. CASE h # 0
        <5>1. h \in 1..N /\ h - 1 \in 0..N
          BY <1>1, <4>2
        <5>2. PICK a \in 1..Len(L[h - 1]), b \in 1..Len(L[h - 1]) :
                L[h][j] = <<L[h - 1][a], L[h - 1][b]>>
          BY <1>6, <5>1
        <5>3. c = L[h - 1][a] /\ d = L[h - 1][b]
          BY <4>0, <5>2, PairsAgree
        <5>4. QED BY <3>2, <3>3, <5>1, <5>3
      <4>3. QED BY <4>1, <4>2
    <3> HIDE DEF P
    <3>5. QED BY <3>4
  <2>3. QED BY <2>1, <2>2
<1>9. Nat \subseteq T
  <2> HIDE DEF T
  <2> QED BY <1>7, <1>8, NatSetInduction
<1>10. P(M)
  <2> HIDE DEF P
  <2> QED BY <1>9 DEF M
<1>11. QED BY <1>10 DEF N, M, L, C, s

LEMMA OnlyLeavesProvable ==
  ASSUME NEW leaves, IsLevel(leaves), NEW x, NEW proof, Len(proof.siblings) \in Nat,
         VerifyProof(HashLeaf(x), proof, GetRoot(Tree(leaves)))
  PROVE  \E n \in 1..Len(leaves) : leaves[n] = x
<1>1. PICK H \in Nat :
        /\ H <= Len(leaves)
        /\ Len(LevelAt(Hashes(leaves))[H]) = 1
        /\ GetRoot(Tree(leaves)) = LevelAt(Hashes(leaves))[H][1]
  BY TreeFacts
<1>2. H \in 0..Len(leaves) /\ 1 \in 1..Len(LevelAt(Hashes(leaves))[H])
  BY <1>1 DEF IsLevel
<1> DEFINE q == proof.siblings
<1>3. Climbed(HashLeaf(x), q)[Len(q)] = LevelAt(Hashes(leaves))[H][1] /\ Len(q) \in Nat
  BY <1>1 DEF VerifyProof
<1> HIDE DEF q
<1>4. QED BY <1>2, <1>3, OnlyLeavesClimb

-----------------------------------------------------------------------------
(***************************************************************************)
(* The trees of the chain positions.                                       *)
(***************************************************************************)
LEMMA TreeOfPosition ==
  ASSUME NEW p \in ChainPosition
  PROVE  \E leaves :
           /\ IsLevel(leaves) /\ Len(leaves) = p
           /\ \A n \in 1..p : leaves[n] = n
           /\ TreeAt[p] = Tree(leaves)
<1> DEFINE leaves == [n \in 1..p |-> n]
<1>1. p \in Nat \ {0}
  BY ParameterTypes DEF ChainPosition
<1>2. TreeAt[p] = Tree(leaves)
  BY DEF TreeAt
<1>3. leaves = [n \in 1..p |-> leaves[n]]
  OBVIOUS
<1>4. DOMAIN leaves = 1..p /\ \A n \in 1..p : leaves[n] = n
  OBVIOUS
<1> HIDE DEF leaves
<1>5. Len(leaves) = p
  BY <1>1, <1>3, FcnIsSeq
<1>6. QED BY <1>1, <1>2, <1>4, <1>5 DEF IsLevel

LEMMA TreesProveTheirEvents ==
  ASSUME NEW p \in ChainPosition, NEW n \in 1..p
  PROVE  /\ GetProof(TreeAt[p], n) \in Proofs
         /\ Len(GetProof(TreeAt[p], n).siblings) \in Nat
         /\ GetProof(TreeAt[p], n).leaf = HashLeaf(n)
         /\ VerifyProof(HashLeaf(n), GetProof(TreeAt[p], n), GetRoot(TreeAt[p]))
<1>1. PICK leaves :
        /\ IsLevel(leaves) /\ Len(leaves) = p
        /\ \A k \in 1..p : leaves[k] = k
        /\ TreeAt[p] = Tree(leaves)
  BY TreeOfPosition
<1>2. n \in 1..Len(leaves) /\ leaves[n] = n
  BY <1>1
<1>3. /\ Len(GetProof(Tree(leaves), n).siblings) \in Nat
      /\ GetProof(Tree(leaves), n).leaf = HashLeaf(leaves[n])
      /\ VerifyProof(HashLeaf(leaves[n]), GetProof(Tree(leaves), n), GetRoot(Tree(leaves)))
  BY <1>1, <1>2, ProofsLeadToRoot
<1>4. GetProof(TreeAt[p], n) \in Proofs
  BY DEF Proofs
<1>5. QED BY <1>1, <1>2, <1>3, <1>4

LEMMA TreesProveNothingElse ==
  ASSUME NEW p \in ChainPosition, NEW proof \in Proofs, NEW n,
         VerifyProof(HashLeaf(n), proof, GetRoot(TreeAt[p]))
  PROVE  n \in 1..p
<1>1. PICK q \in ChainPosition : \E k \in 1..q : proof = GetProof(TreeAt[q], k)
  BY DEF Proofs
<1>2. Len(proof.siblings) \in Nat
  BY <1>1, TreesProveTheirEvents
<1>3. PICK leaves :
        /\ IsLevel(leaves) /\ Len(leaves) = p
        /\ \A j \in 1..p : leaves[j] = j
        /\ TreeAt[p] = Tree(leaves)
  BY TreeOfPosition
<1>4. \E j \in 1..Len(leaves) : leaves[j] = n
  BY <1>2, <1>3, OnlyLeavesProvable
<1>5. QED BY <1>3, <1>4

LEMMA ExactlyTheEvents ==
  ASSUME NEW p \in ChainPosition
  PROVE  ProvedAt[p] = 1..p
<1>1. ProvedAt[p] = ProvedUnder(GetRoot(TreeAt[p]))
  BY DEF ProvedAt
<1>2. 1..p \subseteq ProvedUnder(GetRoot(TreeAt[p]))
  <2> SUFFICES ASSUME NEW n \in 1..p PROVE n \in ProvedUnder(GetRoot(TreeAt[p]))
    OBVIOUS
  <2>1. n \in ChainPosition
    BY ParameterTypes DEF ChainPosition
  <2>2. QED BY <2>1, TreesProveTheirEvents DEF ProvedUnder
<1>3. ProvedUnder(GetRoot(TreeAt[p])) \subseteq 1..p
  BY TreesProveNothingElse DEF ProvedUnder
<1>4. QED BY <1>1, <1>2, <1>3

\* Of every anchor record that verifies exactly the events up to its position
\* can be proved, whatever the number of events: getProof() of merkle-tree.ts
\* leads from each leaf to the root, through odd levels too, and no proof from
\* what is no leaf does.
THEOREM AnchoredEventsAreProvable == Spec => []AnchoredEventsProvable
<1>1. TypeInv => AnchoredEventsProvable
  <2> SUFFICES ASSUME TypeInv, NEW r \in records
               PROVE  LET p == r.content.chainPosition IN
                        /\ ProvedAt[p] = 1..p
                        /\ \A n \in 1..p :
                             VerifyProof(HashLeaf(n), GetProof(TreeAt[p], n), MerkleRoot(r))
    BY DEF AnchoredEventsProvable
  <2>1. r.content.chainPosition \in ChainPosition
    BY DEF TypeInv, TypeOK, AnchorRecord, Content
  <2>2. QED BY <2>1, ExactlyTheEvents, TreesProveTheirEvents DEF MerkleRoot
<1>2. QED BY <1>1, TypesAndCounter, PTL
=============================================================================
