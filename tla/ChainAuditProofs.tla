-------------------------- MODULE ChainAuditProofs --------------------------
(***************************************************************************)
(* Proofs about ChainAudit and SignedAudit, for any number of events,      *)
(* faults, checkpoints and keys.                                           *)
(***************************************************************************)
EXTENDS SignedAudit, HashChainProofs, TLAPS

\* Every step of both specifications, as far as the store is concerned.
AuditNext == Next \/ \E k \in DOMAIN events : RelinkRow(k)

\* What a fault leaves of the rows: each comes from a row before it, unchanged
\* or with another body.
LEMMA RemoveAtRows ==
  ASSUME NEW S, NEW s \in Seq(S), NEW k \in DOMAIN s
  PROVE  /\ RemoveAt(s, k) \in Seq(S)
         /\ Len(RemoveAt(s, k)) = Len(s) - 1
         /\ \A j \in DOMAIN RemoveAt(s, k) : \E i \in DOMAIN s : RemoveAt(s, k)[j] = s[i]
         /\ \A j \in 1..(k - 1) : RemoveAt(s, k)[j] = s[j]
<1> DEFINE a == SubSeq(s, 1, k - 1)
           z == SubSeq(s, k + 1, Len(s))
<1>1. k \in 1..Len(s) /\ Len(s) \in Nat
  OBVIOUS
<1>2. /\ a \in Seq(S) /\ Len(a) = k - 1
      /\ \A i \in 1..(k - 1) : a[i] = s[i]
  BY <1>1
<1>3. /\ z \in Seq(S) /\ Len(z) = Len(s) - k
      /\ \A i \in 1..(Len(s) - k) : z[i] = s[k + i]
  BY <1>1
<1> HIDE DEF a, z
<1>4. /\ a \o z \in Seq(S)
      /\ Len(a \o z) = Len(s) - 1
      /\ \A j \in 1..(Len(s) - 1) : (a \o z)[j] = IF j <= k - 1 THEN a[j] ELSE z[j - (k - 1)]
  <2>1. /\ a \o z \in Seq(S)
        /\ Len(a \o z) = Len(a) + Len(z)
        /\ \A j \in 1..(Len(a) + Len(z)) : (a \o z)[j] = IF j <= Len(a) THEN a[j] ELSE z[j - Len(a)]
    BY <1>2, <1>3, ConcatProperties
  <2>2. Len(a) + Len(z) = Len(s) - 1
    BY <1>1, <1>2, <1>3
  <2>3. QED BY <1>2, <2>1, <2>2
<1>5. ASSUME NEW j \in 1..(Len(s) - 1) PROVE \E i \in DOMAIN s : (a \o z)[j] = s[i]
  <2>1. CASE j <= k - 1
    <3>1. (a \o z)[j] = s[j] /\ j \in DOMAIN s
      BY <1>1, <1>2, <1>4, <2>1
    <3>2. QED BY <3>1
  <2>2. CASE ~ (j <= k - 1)
    <3>1. j - (k - 1) \in 1..(Len(s) - k) /\ k + (j - (k - 1)) = j + 1 /\ j + 1 \in DOMAIN s
      BY <1>1, <2>2
    <3>2. (a \o z)[j] = z[j - (k - 1)]
      BY <1>4, <2>2
    <3>3. QED BY <1>3, <3>1, <3>2
  <2>3. QED BY <2>1, <2>2
<1>6. RemoveAt(s, k) = a \o z
  BY DEF RemoveAt, a, z
<1>7. \A j \in 1..(k - 1) : (a \o z)[j] = s[j]
  BY <1>1, <1>2, <1>4
<1>8. \A j \in 1..(k - 1) : RemoveAt(s, k)[j] = s[j]
  BY <1>6, <1>7
<1>9. /\ RemoveAt(s, k) \in Seq(S)
      /\ Len(RemoveAt(s, k)) = Len(s) - 1
      /\ \A j \in DOMAIN RemoveAt(s, k) : \E i \in DOMAIN s : RemoveAt(s, k)[j] = s[i]
  BY <1>1, <1>4, <1>5, <1>6
<1>10. QED BY <1>8, <1>9

LEMMA NewContentType ==
  ASSUME TypeOK, NEW c \in Correlation, NEW b \in Body, Len(recorded) < MaxEvents
  PROVE  NewContent(c, b) \in Content
BY ParameterTypes DEF TypeOK, NewContent, Content, EventId

LEMMA RecordType ==
  ASSUME TypeOK, NEW c \in Correlation, NEW b \in Body, Record(c, b)
  PROVE  LET e == SealedEvent(LatestHash(events), NewContent(c, b)) IN
           /\ e \in Event(Content)
           /\ events' = Append(events, e)
           /\ recorded' = Append(recorded, e)
<1>1. NewContent(c, b) \in Content
  BY NewContentType DEF Record
<1>2. LatestHash(events) \in Digest(Content)
  BY LatestHashType DEF TypeOK
<1>3. QED BY <1>1, <1>2, SealedEventType DEF Record

LEMMA AlteredRowType ==
  ASSUME TypeOK, NEW k \in DOMAIN events, NEW b \in Body
  PROVE  /\ [events EXCEPT ![k].content.body = b] \in Seq(Event(Content))
         /\ SealedEvent(events[k].previousHash, [events[k].content EXCEPT !.body = b])
              \in Event(Content)
<1>1. events \in Seq(Event(Content)) /\ events[k] \in Event(Content)
  BY DEF TypeOK
<1>2. [events[k].content EXCEPT !.body = b] \in Content /\ events[k].previousHash \in Digest(Content)
  BY <1>1 DEF Event, Content
<1>3. [events[k] EXCEPT !.content.body = b] \in Event(Content)
  BY <1>1, <1>2 DEF Event
<1>4. QED BY <1>1, <1>2, <1>3, SealedEventType

LEMMA StrippedRowType ==
  ASSUME TypeOK, NEW k \in DOMAIN events
  PROVE  [events EXCEPT ![k].eventHash3 = Null] \in Seq(Event(Content))
<1>1. events \in Seq(Event(Content)) /\ events[k] \in Event(Content)
  BY DEF TypeOK
<1>2. Null \in Digest(Content)
  BY DEF Digest, Null
<1>3. [events[k] EXCEPT !.eventHash3 = Null] \in Event(Content)
  BY <1>1, <1>2 DEF Event
<1>4. QED BY <1>1, <1>3

LEMMA RelinkedRowType ==
  ASSUME TypeOK, NEW k \in DOMAIN events
  PROVE  SealedEvent(LatestHash(SubSeq(events, 1, k - 1)), events[k].content) \in Event(Content)
<1>1. events \in Seq(Event(Content)) /\ events[k] \in Event(Content)
  BY DEF TypeOK
<1>2. events[k].content \in Content
  BY <1>1 DEF Event
<1>3. SubSeq(events, 1, k - 1) \in Seq(Event(Content))
  BY <1>1
<1>4. QED BY <1>2, <1>3, LatestHashType, SealedEventType

-----------------------------------------------------------------------------
TypeInv == TypeOK /\ RowsCounted

LEMMA TypeInit == Init => TypeInv
<1> SUFFICES ASSUME Init PROVE TypeInv
  OBVIOUS
<1>1. {MaxEvents, MaxFaults, MaxSteps} \subseteq Nat
  BY ParameterTypes
<1>2. <<>> \in Seq(Event(Content)) /\ <<>> \in Seq(EventId \cup {NoEvent})
      /\ <<>> \in Seq(Checkpoint) /\ Len(<<>>) = 0
  OBVIOUS
<1>3. 0 \in 0..MaxFaults /\ MaxEvents \in 0..MaxEvents /\ 0 <= MaxEvents
  BY <1>1
<1>4. TypeOK
  <2>1. events = <<>> /\ recorded = <<>> /\ predecessor = <<>> /\ checkpoints = <<>>
        /\ faults = 0 /\ replaced = FALSE /\ untouched = MaxEvents
    BY DEF Init
  <2>2. QED BY <1>2, <1>3, <2>1 DEF TypeOK
<1>5. RowsCounted
  BY <1>2 DEF Init, RowsCounted
<1>6. QED BY <1>4, <1>5 DEF TypeInv

LEMMA ContentsType ==
  ASSUME NEW s \in Seq(Event(Content))
  PROVE  Contents(s) \in Seq(Content) /\ LatestHash(s) \in Digest(Content)
<1>1. Contents(s) = PrefixContents(s, Len(s))
  BY DEF Contents, PrefixContents
<1>2. Len(s) \in 0..Len(s)
  OBVIOUS
<1>3. QED BY <1>1, <1>2, PrefixContentsType, LatestHashType

LEMMA TypeNext == TypeInv /\ [AuditNext]_vars => TypeInv'
<1> SUFFICES ASSUME TypeInv, [AuditNext]_vars PROVE TypeInv'
  OBVIOUS
<1> USE ParameterTypes DEF vars, recordVars, faultVars, TypeInv, RowsCounted
<1>1. ASSUME NEW c \in Correlation, NEW b \in Body, Record(c, b) PROVE TypeInv'
  <2> DEFINE e == SealedEvent(LatestHash(events), NewContent(c, b))
  <2>1. e \in Event(Content) /\ events' = Append(events, e) /\ recorded' = Append(recorded, e)
    BY <1>1, RecordType
  <2> HIDE DEF e
  <2>2. events' \in Seq(Event(Content)) /\ recorded' \in Seq(Event(Content))
        /\ Len(events') = Len(events) + 1 /\ Len(recorded') = Len(recorded) + 1
    BY <2>1 DEF TypeOK
  <2>3. ASSUME events # <<>> PROVE RowId(Len(events)) \in EventId
    <3>1. events[Len(events)] \in Event(Content)
      BY <2>3 DEF TypeOK
    <3>2. QED BY <3>1 DEF RowId, Event, Content
  <2>4. predecessor' \in Seq(EventId \cup {NoEvent}) /\ Len(predecessor') = Len(predecessor) + 1
    BY <1>1, <2>3 DEF Record, TypeOK
  <2>5. Len(events) \in Nat /\ Len(recorded) \in Nat
    BY DEF TypeOK
  <2>6. QED BY <1>1, <2>2, <2>4, <2>5 DEF Record, TypeOK
<1>2. ASSUME Keep PROVE TypeInv'
  <2> DEFINE p == [position |-> Len(events), digest |-> LatestHash(events),
                   contents |-> Contents(events)]
  <2>1. events \in Seq(Event(Content)) /\ events # <<>>
    BY <1>2 DEF TypeOK, Keep
  <2>2. Len(events) \in EventId
    BY <2>1 DEF TypeOK, EventId
  <2>3. p \in Checkpoint
    BY <2>1, <2>2, ContentsType DEF Checkpoint
  <2>4. checkpoints' = Append(checkpoints, p)
    BY <1>2 DEF Keep
  <2> HIDE DEF p
  <2>5. checkpoints' \in Seq(Checkpoint)
    BY <2>3, <2>4 DEF TypeOK
  <2>6. QED BY <1>2, <2>5 DEF Keep, TypeOK
<1>3. ASSUME NEW k \in DOMAIN events, Fault(k)
      PROVE  faults' \in 0..MaxFaults /\ untouched' \in 0..MaxEvents
  <2>1. k \in Nat \ {0} /\ untouched \in 0..MaxEvents
    BY DEF TypeOK
  <2>2. SmallerOf(untouched, k - 1) \in 0..MaxEvents
    BY <2>1 DEF SmallerOf
  <2>3. QED BY <1>3, <2>2 DEF Fault, TypeOK
<1>4. ASSUME NEW k \in DOMAIN events, NEW b \in Body, AlterRow(k, b) PROVE TypeInv'
  <2>1. events' \in Seq(Event(Content)) /\ Len(events') = Len(events)
    <3>1. events' = [events EXCEPT ![k].content.body = b] /\ events \in Seq(Event(Content))
      BY <1>4 DEF AlterRow, TypeOK
    <3>2. events' \in Seq(Event(Content))
      BY <3>1, AlteredRowType
    <3>3. DOMAIN events' = DOMAIN events
      BY <3>1
    <3>4. QED BY <3>1, <3>2, <3>3
  <2>2. QED BY <1>3, <1>4, <2>1 DEF AlterRow, Fault, TypeOK
<1>5. ASSUME NEW k \in DOMAIN events, NEW b \in Body, ReplaceRow(k, b) PROVE TypeInv'
  <2> DEFINE e == SealedEvent(events[k].previousHash, [events[k].content EXCEPT !.body = b])
  <2>1. e \in Event(Content) /\ events' = [events EXCEPT ![k] = e]
    BY <1>5, AlteredRowType DEF ReplaceRow
  <2> HIDE DEF e
  <2>2. events' \in Seq(Event(Content)) /\ Len(events') = Len(events)
    BY <2>1 DEF TypeOK
  <2>3. QED BY <1>3, <1>5, <2>2 DEF ReplaceRow, Fault, TypeOK
<1>6. ASSUME NEW k \in DOMAIN events, LoseRow(k) PROVE TypeInv'
  <2>1. events' \in Seq(Event(Content)) /\ Len(events') = Len(events) - 1
    BY <1>6, RemoveAtRows DEF LoseRow, TypeOK
  <2>2. Len(events) \in Nat /\ Len(recorded) \in Nat
    BY DEF TypeOK
  <2>3. QED BY <1>3, <1>6, <2>1, <2>2 DEF LoseRow, Fault, TypeOK
<1>7. ASSUME NEW k \in DOMAIN events, RelinkRow(k) PROVE TypeInv'
  <2> DEFINE e == SealedEvent(LatestHash(SubSeq(events, 1, k - 1)), events[k].content)
  <2>1. e \in Event(Content)
    BY RelinkedRowType
  <2>2. events' = [events EXCEPT ![k] = e]
    BY <1>7 DEF RelinkRow
  <2> HIDE DEF e
  <2>3. events' \in Seq(Event(Content)) /\ Len(events') = Len(events)
    BY <2>1, <2>2 DEF TypeOK
  <2>4. QED BY <1>3, <1>7, <2>3 DEF RelinkRow, Fault, TypeOK
<1>8. ASSUME NEW k \in DOMAIN events, DropHash3(k) PROVE TypeInv'
  <2>1. events' = [events EXCEPT ![k].eventHash3 = Null] /\ events \in Seq(Event(Content))
    BY <1>8 DEF DropHash3, TypeOK
  <2>2. events' \in Seq(Event(Content)) /\ Len(events') = Len(events)
    <3>1. events' \in Seq(Event(Content))
      BY <2>1, StrippedRowType
    <3>2. DOMAIN events' = DOMAIN events
      BY <2>1
    <3>3. QED BY <2>1, <3>1, <3>2
  <2>3. QED BY <1>3, <1>8, <2>2 DEF DropHash3, Fault, TypeOK
<1>9. CASE UNCHANGED vars
  BY <1>9 DEF TypeOK
<1>10. QED BY <1>1, <1>2, <1>4, <1>5, <1>6, <1>7, <1>8, <1>9 DEF Next, AuditNext

-----------------------------------------------------------------------------
(***************************************************************************)
(* Both specifications are refinements of this one.                        *)
(***************************************************************************)
AuditSpec == Init /\ [][AuditNext]_vars

KeysTypeOK == privateKey \in Key /\ trustedKeys \in [Owner -> Key \cup {NoKey}]

LEMMA KeysTypeInit == SignedInit => KeysTypeOK
BY DEF SignedInit, KeysTypeOK

LEMMA KeysTypeNext == KeysTypeOK /\ [SignedNext]_signedVars => KeysTypeOK'
BY SignedParameterTypes
   DEF KeysTypeOK, SignedNext, SignedRecord, AddTrustedKey, RemoveTrustedKey, RotateKey,
       keyVars, signedVars

\* The signed event is an event of ChainAudit's.
LEMMA SignedBodyType ==
  ASSUME TypeOK, KeysTypeOK, Len(recorded) < MaxEvents, NEW p \in Payload,
         NEW o \in Owner, NEW s \in {SignatureOf(Len(recorded) + 1), NoSignature}
  PROVE  [payload |-> p, signedBy |-> o, signature |-> s] \in Body
<1>1. Len(recorded) + 1 \in EventId
  BY ParameterTypes DEF TypeOK, EventId
<1>2. s \in Signature
  BY <1>1, SignedParameterTypes DEF SignatureOf, Signature, KeysTypeOK
<1>3. QED BY <1>2, SignedParameterTypes

LEMMA SignedStep == TypeOK /\ KeysTypeOK /\ [SignedNext]_signedVars => [AuditNext]_vars
<1> SUFFICES ASSUME TypeOK, KeysTypeOK, [SignedNext]_signedVars PROVE [AuditNext]_vars
  OBVIOUS
<1>1. ASSUME NEW c \in Correlation, NEW p \in Payload, NEW o \in Owner, SignedRecord(c, p, o)
      PROVE  AuditNext
  <2>1. PICK s \in {SignatureOf(Len(recorded) + 1), NoSignature} :
          Record(c, [payload |-> p, signedBy |-> o, signature |-> s])
    BY <1>1 DEF SignedRecord
  <2>2. Len(recorded) < MaxEvents
    BY <2>1 DEF Record
  <2>3. QED BY <2>1, <2>2, SignedBodyType DEF AuditNext, Next
<1>2. CASE UNCHANGED signedVars
  BY <1>2 DEF signedVars
<1>3. QED
  BY <1>1, <1>2 DEF SignedNext, AddTrustedKey, RemoveTrustedKey, RotateKey, AuditNext, Next

LEMMA SignedIsAudit == SignedSpec => AuditSpec /\ []KeysTypeOK
<1>1. SignedInit => Init
  BY DEF SignedInit
<1>2. TypeInv => TypeOK
  BY DEF TypeInv
<1>3. QED
  BY <1>1, <1>2, TypeInit, TypeNext, KeysTypeInit, KeysTypeNext, SignedStep, PTL
  DEF SignedSpec, AuditSpec

LEMMA SpecIsAudit == Spec => AuditSpec
<1>1. [Next]_vars => [AuditNext]_vars
  BY DEF AuditNext
<1>2. QED BY <1>1, PTL DEF Spec, AuditSpec

LEMMA TypeInvCorrect == AuditSpec => []TypeInv
BY TypeInit, TypeNext, PTL DEF AuditSpec

\* Every row, recorded or damaged, stays an event, every checkpoint a checkpoint.
THEOREM AuditTypeCorrect == (Spec => []TypeOK) /\ (SignedSpec => []SignedTypeOK)
<1>1. TypeInv => TypeOK
  BY DEF TypeInv
<1>2. TypeInv /\ KeysTypeOK => SignedTypeOK
  BY DEF TypeInv, KeysTypeOK, SignedTypeOK
<1>3. QED BY <1>1, <1>2, TypeInvCorrect, SpecIsAudit, SignedIsAudit, PTL

-----------------------------------------------------------------------------
LEMMA CheckpointsNext ==
  TypeInv /\ CheckpointsCommit /\ [AuditNext]_vars => CheckpointsCommit'
<1> SUFFICES ASSUME TypeInv, CheckpointsCommit, [AuditNext]_vars PROVE CheckpointsCommit'
  OBVIOUS
<1>1. CASE Keep
  <2> DEFINE p == [position |-> Len(events), digest |-> LatestHash(events),
                   contents |-> Contents(events)]
  <2>1. LatestHash(events) = Contents(events)
    <3>1. events \in Seq(Event(Content)) /\ ChainVerifies(events)
      BY <1>1 DEF Keep, TypeInv, TypeOK
    <3>2. QED BY <3>1, VerifiedHeadCommits
  <2>2. p.digest = p.contents
    BY <2>1
  <2>3. checkpoints' = Append(checkpoints, p)
    BY <1>1 DEF Keep
  <2> HIDE DEF p
  <2>4. checkpoints \in Seq(Checkpoint)
    BY DEF TypeInv, TypeOK
  <2>5. ASSUME NEW n \in DOMAIN checkpoints' PROVE checkpoints'[n].digest = checkpoints'[n].contents
    <3>1. n \in 1..(Len(checkpoints) + 1)
      BY <2>3, <2>4
    <3>2. CASE n \in DOMAIN checkpoints
      <4>1. checkpoints'[n] = checkpoints[n]
        BY <2>3, <2>4, <3>2
      <4>2. QED BY <3>2, <4>1 DEF CheckpointsCommit
    <3>3. CASE n = Len(checkpoints) + 1
      <4>1. checkpoints'[n] = p
        BY <2>3, <2>4, <3>3
      <4>2. QED BY <2>2, <4>1
    <3>4. QED BY <2>4, <3>1, <3>2, <3>3
  <2>6. QED BY <2>5 DEF CheckpointsCommit
<1>2. CASE UNCHANGED checkpoints
  BY <1>2 DEF CheckpointsCommit
<1>3. Keep \/ UNCHANGED checkpoints
  BY DEF AuditNext, Next, Record, AlterRow, DropHash3, ReplaceRow, LoseRow, RelinkRow, Fault, vars
<1>4. QED BY <1>1, <1>2, <1>3

LEMMA CheckpointsPin == TypeInv /\ CheckpointsCommit => CheckpointsPinHistory
<1> SUFFICES ASSUME TypeInv, CheckpointsCommit, NEW n \in DOMAIN checkpoints,
                    VerifiedCount(events) >= checkpoints[n].position, Agrees(checkpoints[n])
             PROVE  Contents(SubSeq(events, 1, checkpoints[n].position)) = checkpoints[n].contents
  BY DEF CheckpointsPinHistory
<1> DEFINE m == checkpoints[n].position
           s == SubSeq(events, 1, m)
<1>1. events \in Seq(Event(Content)) /\ checkpoints[n] \in Checkpoint
  BY DEF TypeInv, TypeOK
<1>2. m \in Nat \ {0}
  BY <1>1 DEF Checkpoint, EventId
<1>3. m <= VerifiedCount(events)
  OBVIOUS
<1> HIDE DEF m
<1>4. m <= Len(events) /\ ChainVerifies(s)
  BY <1>1, <1>2, <1>3, VerifiedPrefix
<1>5. s \in Seq(Event(Content)) /\ Len(s) = m /\ s[m] = events[m]
  BY <1>1, <1>2, <1>4
<1> HIDE DEF s
<1>6. LatestHash(s) = Contents(s)
  BY <1>4, <1>5, VerifiedHeadCommits
<1>7. LatestHash(s) = events[m].eventHash
  BY <1>2, <1>5 DEF LatestHash
<1>8. QED BY <1>6, <1>7 DEF Agrees, CheckpointsCommit, m, s

\* A checkpoint pins the history it was taken of: no alteration, loss,
\* replacement or later event passes both verifyChain and the comparison.
THEOREM CheckpointsArePins == Spec \/ SignedSpec => []CheckpointsPinHistory
<1>1. Init => CheckpointsCommit
  BY DEF Init, CheckpointsCommit
<1>2. AuditSpec => []CheckpointsPinHistory
  BY <1>1, TypeInit, TypeNext, CheckpointsNext, CheckpointsPin, PTL DEF AuditSpec
<1>3. QED BY <1>2, SpecIsAudit, SignedIsAudit, PTL

-----------------------------------------------------------------------------
RowInv == RecordedSealed /\ RecordedLinks /\ RowsAsRecorded

LEMMA RowInit == Init => RowInv
BY DEF Init, RowInv, RecordedSealed, RecordedLinks, RowsAsRecorded

\* What Record does to the events as they were recorded.
LEMMA RecordedGrows ==
  ASSUME TypeInv, NEW c \in Correlation, NEW b \in Body, Record(c, b),
         NEW e, e = SealedEvent(LatestHash(events), NewContent(c, b)),
         NEW q, q = IF events = <<>> THEN NoEvent ELSE RowId(Len(events)),
         NEW new, new = Len(recorded) + 1
  PROVE  /\ DOMAIN recorded' = 1..new /\ DOMAIN recorded = 1..(new - 1) /\ new \in Nat \ {0}
         /\ recorded'[new] = e /\ \A n \in DOMAIN recorded : recorded'[n] = recorded[n]
         /\ predecessor'[new] = q /\ \A n \in DOMAIN recorded : predecessor'[n] = predecessor[n]
<1>1. e \in Event(Content) /\ events' = Append(events, e) /\ recorded' = Append(recorded, e)
  BY RecordType DEF TypeInv
<1>2. predecessor' = Append(predecessor, q)
  BY DEF Record
<1>3. /\ events \in Seq(Event(Content)) /\ recorded \in Seq(Event(Content))
      /\ predecessor \in Seq(EventId \cup {NoEvent}) /\ Len(predecessor) = Len(recorded)
  BY DEF TypeInv, TypeOK, RowsCounted
<1>4. /\ Len(recorded') = new /\ recorded'[new] = e
      /\ \A n \in DOMAIN recorded : recorded'[n] = recorded[n]
  BY <1>1, <1>3
<1>5. predecessor'[new] = q /\ \A n \in DOMAIN recorded : predecessor'[n] = predecessor[n]
  <2>1. q \in EventId \cup {NoEvent}
    <3>1. events # <<>> => events[Len(events)] \in Event(Content)
      BY <1>3
    <3>2. QED BY <3>1 DEF RowId, Event, Content
  <2>2. QED BY <1>2, <1>3, <2>1
<1>6. recorded' \in Seq(Event(Content))
  BY <1>1, <1>3
<1>7. QED BY <1>3, <1>4, <1>5, <1>6

LEMMA RowRecord ==
  ASSUME TypeInv, RowInv, NEW c \in Correlation, NEW b \in Body, Record(c, b)
  PROVE  RowInv'
<1> DEFINE e == SealedEvent(LatestHash(events), NewContent(c, b))
           q == IF events = <<>> THEN NoEvent ELSE RowId(Len(events))
           new == Len(recorded) + 1
<1>1. e \in Event(Content) /\ events' = Append(events, e) /\ recorded' = Append(recorded, e)
  BY RecordType DEF TypeInv
<1>2. predecessor' = Append(predecessor, q) /\ replaced' = replaced
  BY DEF Record, faultVars
<1>3. /\ e.content.eventId = new
      /\ e.previousHash = LatestHash(events)
      /\ e.eventHash = Append(e.previousHash, e.content)
  BY DEF SealedEvent, NewContent
<1>4. /\ events \in Seq(Event(Content)) /\ recorded \in Seq(Event(Content))
      /\ predecessor \in Seq(EventId \cup {NoEvent}) /\ Len(predecessor) = Len(recorded)
  BY DEF TypeInv, TypeOK, RowsCounted
<1>5. ~ replaced => /\ q \in 0..Len(recorded)
                    /\ e.previousHash = IF q = NoEvent THEN Null ELSE recorded[q].eventHash
  <2>1. CASE events = <<>>
    BY <1>3, <1>4, <2>1 DEF LatestHash, NoEvent
  <2>2. CASE events # <<>>
    <3>1. Len(events) \in DOMAIN events
      BY <1>4, <2>2
    <3>2. ~ replaced => /\ RowId(Len(events)) \in DOMAIN recorded
                        /\ events[Len(events)].eventHash = recorded[RowId(Len(events))].eventHash
      BY <3>1 DEF RowInv, RowsAsRecorded, AlteredFrom
    <3>3. QED BY <1>3, <1>4, <2>2, <3>2 DEF LatestHash, NoEvent
  <2>3. QED BY <2>1, <2>2
<1> HIDE DEF e, q
<1>6. /\ DOMAIN recorded' = 1..new /\ DOMAIN recorded = 1..(new - 1) /\ new \in Nat \ {0}
      /\ recorded'[new] = e /\ \A n \in DOMAIN recorded : recorded'[n] = recorded[n]
      /\ predecessor'[new] = q /\ \A n \in DOMAIN recorded : predecessor'[n] = predecessor[n]
  BY RecordedGrows DEF e, q
<1> HIDE DEF new
<1>7. \A n \in DOMAIN recorded' : n = new \/ n \in DOMAIN recorded
  BY <1>6
<1>8. RecordedSealed'
  BY <1>3, <1>6, <1>7 DEF RowInv, RecordedSealed
<1>9. RecordedLinks'
  <2>1. SUFFICES ASSUME ~ replaced, NEW n \in DOMAIN recorded'
                 PROVE  /\ predecessor'[n] \in 0..(n - 1)
                        /\ recorded'[n].previousHash =
                             IF predecessor'[n] = NoEvent THEN Null
                             ELSE recorded'[predecessor'[n]].eventHash
    BY <1>2 DEF RecordedLinks
  <2>2. CASE n = new
    <3>1. q \in 0..(new - 1) /\ (q # NoEvent => q \in DOMAIN recorded)
      BY <1>4, <1>5, <1>6, <2>1 DEF NoEvent, new
    <3>2. QED BY <1>5, <1>6, <2>1, <2>2, <3>1
  <2>3. CASE n \in DOMAIN recorded
    <3>1. /\ predecessor[n] \in 0..(n - 1)
          /\ recorded[n].previousHash = IF predecessor[n] = NoEvent THEN Null
                                        ELSE recorded[predecessor[n]].eventHash
      BY <2>1, <2>3 DEF RowInv, RecordedLinks
    <3>2. predecessor[n] # NoEvent => predecessor[n] \in DOMAIN recorded
      BY <1>6, <2>3, <3>1 DEF NoEvent
    <3>3. QED BY <1>6, <2>3, <3>1, <3>2
  <2>4. QED BY <1>7, <2>2, <2>3
<1>10. RowsAsRecorded'
  <2>1. SUFFICES ASSUME ~ replaced, NEW k \in DOMAIN events'
                 PROVE  /\ events'[k].content.eventId \in DOMAIN recorded'
                        /\ AlteredFrom(events'[k], recorded'[events'[k].content.eventId])
    BY <1>2 DEF RowsAsRecorded, RowId
  <2>2. CASE events'[k] = e
    <3>1. AlteredFrom(e, e)
      BY DEF AlteredFrom
    <3>2. QED BY <1>3, <1>6, <2>2, <3>1
  <2>3. CASE k \in DOMAIN events /\ events'[k] = events[k]
    <3>1. RowId(k) \in DOMAIN recorded /\ AlteredFrom(events[k], recorded[RowId(k)])
      BY <2>1, <2>3 DEF RowInv, RowsAsRecorded
    <3>2. RowId(k) \in DOMAIN recorded' /\ recorded'[RowId(k)] = recorded[RowId(k)]
      BY <1>6, <3>1
    <3>3. QED BY <2>3, <3>1, <3>2 DEF RowId
  <2>4. events'[k] = e \/ (k \in DOMAIN events /\ events'[k] = events[k])
    BY <1>1, <1>4, <2>1
  <2>5. QED BY <2>2, <2>3, <2>4
<1>11. QED BY <1>8, <1>9, <1>10 DEF RowInv

\* A fault that replaces no row leaves each row a row there was, but for its body.
LEMMA RowFault ==
  ASSUME TypeInv, RowInv, UNCHANGED <<recorded, predecessor>>, replaced' \in BOOLEAN,
         ~ replaced' =>
           /\ ~ replaced
           /\ \A k \in DOMAIN events' : \E i \in DOMAIN events : AlteredFrom(events'[k], events[i])
  PROVE  RowInv'
<1>1. RecordedSealed' /\ RecordedLinks'
  BY DEF RowInv, RecordedSealed, RecordedLinks
<1>2. ASSUME ~ replaced', NEW k \in DOMAIN events'
      PROVE  /\ events'[k].content.eventId \in DOMAIN recorded
             /\ AlteredFrom(events'[k], recorded[events'[k].content.eventId])
  <2>1. PICK i \in DOMAIN events : AlteredFrom(events'[k], events[i])
    BY <1>2
  <2>2. RowId(i) \in DOMAIN recorded /\ AlteredFrom(events[i], recorded[RowId(i)])
    BY <1>2 DEF RowInv, RowsAsRecorded
  <2>3. events'[k].content.eventId = RowId(i)
    BY <2>1 DEF AlteredFrom, RowId
  <2>4. QED BY <2>1, <2>2, <2>3 DEF AlteredFrom
<1>3. QED BY <1>1, <1>2 DEF RowInv, RowsAsRecorded, RowId

LEMMA RowNext == TypeInv /\ RowInv /\ [AuditNext]_vars => RowInv'
<1> SUFFICES ASSUME TypeInv, RowInv, [AuditNext]_vars PROVE RowInv'
  OBVIOUS
<1> USE DEF vars, recordVars, faultVars
<1>1. events \in Seq(Event(Content)) /\ replaced \in BOOLEAN
  BY DEF TypeInv, TypeOK
<1>2. \A r : AlteredFrom(r, r)
  BY DEF AlteredFrom
<1>3. ASSUME NEW k \in DOMAIN events, NEW b \in Body, AlterRow(k, b) PROVE RowInv'
  <2>1. ASSUME NEW j \in DOMAIN events'
        PROVE  j \in DOMAIN events /\ AlteredFrom(events'[j], events[j])
    <3>1. events' = [events EXCEPT ![k].content.body = b]
      BY <1>3 DEF AlterRow
    <3>2. j \in DOMAIN events
      BY <3>1
    <3>3. CASE j = k
      <4>1. events'[j] = [events[k] EXCEPT !.content.body = b] /\ events[k] \in Event(Content)
        BY <1>1, <3>1, <3>2, <3>3
      <4>2. QED BY <3>2, <3>3, <4>1 DEF AlteredFrom, Event, Content
    <3>4. CASE j # k
      <4>1. events'[j] = events[j]
        BY <3>1, <3>2, <3>4
      <4>2. QED BY <1>2, <3>2, <4>1
    <3>5. QED BY <3>3, <3>4
  <2>2. QED BY <1>1, <1>3, <2>1, RowFault DEF AlterRow, Fault
<1>4. ASSUME NEW k \in DOMAIN events, NEW b \in Body, ReplaceRow(k, b) PROVE RowInv'
  BY <1>4, RowFault DEF ReplaceRow, Fault
<1>5. ASSUME NEW k \in DOMAIN events, LoseRow(k) PROVE RowInv'
  <2>1. \A j \in DOMAIN events' : \E i \in DOMAIN events : events'[j] = events[i]
    BY <1>1, <1>5, RemoveAtRows DEF LoseRow
  <2>2. QED BY <1>1, <1>2, <1>5, <2>1, RowFault DEF LoseRow, Fault
<1>6. CASE UNCHANGED <<events, recorded, predecessor, replaced>>
  BY <1>1, <1>2, <1>6, RowFault
<1>7. CASE Keep \/ UNCHANGED vars
  BY <1>6, <1>7 DEF Keep
<1>8. ASSUME NEW k \in DOMAIN events, RelinkRow(k) PROVE RowInv'
  BY <1>8, RowFault DEF RelinkRow, Fault
<1>9. ASSUME NEW k \in DOMAIN events, DropHash3(k) PROVE RowInv'
  <2>1. ASSUME NEW j \in DOMAIN events'
        PROVE  j \in DOMAIN events /\ AlteredFrom(events'[j], events[j])
    <3>1. events' = [events EXCEPT ![k].eventHash3 = Null]
      BY <1>9 DEF DropHash3
    <3>2. j \in DOMAIN events
      BY <3>1
    <3>3. CASE j = k
      <4>1. events'[j] = [events[k] EXCEPT !.eventHash3 = Null] /\ events[k] \in Event(Content)
        BY <1>1, <3>1, <3>2, <3>3
      <4>2. QED BY <3>2, <3>3, <4>1 DEF AlteredFrom, Event, Content
    <3>4. CASE j # k
      <4>1. events'[j] = events[j]
        BY <3>1, <3>2, <3>4
      <4>2. QED BY <1>2, <3>2, <4>1
    <3>5. QED BY <3>3, <3>4
  <2>2. QED BY <1>1, <1>9, <2>1, RowFault DEF DropHash3, Fault
<1>10. QED BY <1>3, <1>4, <1>5, <1>7, <1>8, <1>9, RowRecord DEF Next, AuditNext

LEMMA NoSilentDamageHolds == TypeInv /\ RowInv => NoSilentDamage
<1> SUFFICES ASSUME TypeInv, RowInv, ~ replaced, ChainVerifies(events), NEW k \in DOMAIN events
             PROVE  AsRecorded(k) /\ InPlace(k)
  BY DEF NoSilentDamage
<1>1. events \in Seq(Event(Content)) /\ recorded \in Seq(Event(Content))
  BY DEF TypeInv, TypeOK
<1>2. \A i \in DOMAIN events :
        /\ events[i].eventHash = Append(events[i].previousHash, events[i].content)
        /\ events[i].previousHash = IF i = 1 THEN Null ELSE events[i - 1].eventHash
  <2>1. TAKE i \in DOMAIN events
  <2>2. EventVerifies(events, i)
    BY <1>1 DEF ChainVerifies, BrokenPositions
  <2>3. QED BY <2>2 DEF EventVerifies, VerifyEventHash, VerifyChainLink, ComputeEventHash
<1>3. \A i \in DOMAIN events :
        RowId(i) \in DOMAIN recorded /\ AlteredFrom(events[i], recorded[RowId(i)])
  BY DEF RowInv, RowsAsRecorded
<1>4. \A n \in DOMAIN recorded :
        /\ recorded[n].content.eventId = n
        /\ recorded[n].eventHash = Append(recorded[n].previousHash, recorded[n].content)
  BY DEF RowInv, RecordedSealed
<1>5. AsRecorded(k)
  <2> DEFINE e == events[k]
             r == recorded[RowId(k)]
  <2>1. e \in Event(Content) /\ r \in Event(Content) /\ AlteredFrom(e, r)
    BY <1>1, <1>3
  <2>2. Append(e.previousHash, e.content) = Append(r.previousHash, r.content)
    BY <1>2, <1>3, <1>4 DEF AlteredFrom
  <2> HIDE DEF e, r
  <2>3. e.content = r.content
    <3>1. /\ e.previousHash \in Seq(Content) /\ e.content \in Content
          /\ r.previousHash \in Seq(Content) /\ r.content \in Content
      BY <2>1 DEF Event, Digest
    <3>2. QED BY <2>2, <3>1, AppendInjective
  <2>4. /\ e.content = r.content /\ e.previousHash = r.previousHash
        /\ e.eventHash = r.eventHash /\ e.eventHash3 \in {r.eventHash3, Null}
    BY <2>1, <2>3 DEF AlteredFrom
  <2>5. QED BY <1>3, <2>4 DEF AsRecorded, e, r
<1> DEFINE n == RowId(k)
           q == predecessor[n]
<1>6. /\ n \in DOMAIN recorded /\ q \in 0..(n - 1)
      /\ recorded[n].previousHash = IF q = NoEvent THEN Null ELSE recorded[q].eventHash
  BY <1>3 DEF RowInv, RecordedLinks
<1>7. q # NoEvent => q \in DOMAIN recorded
  BY <1>1, <1>6 DEF NoEvent
<1>8. \A m \in DOMAIN recorded : recorded[m].eventHash # Null
  <2>1. TAKE m \in DOMAIN recorded
  <2>2. recorded[m].previousHash \in Seq(Content) /\ recorded[m].content \in Content
    <3>1. recorded[m] \in Event(Content)
      BY <1>1
    <3>2. QED BY <3>1 DEF Event, Digest
  <2>3. QED BY <1>4, <2>2, AppendProperties DEF Null
<1>9. CASE k = 1
  <2>1. recorded[n].previousHash = Null
    BY <1>2, <1>5, <1>9 DEF AsRecorded
  <2>2. q = NoEvent
    BY <1>6, <1>7, <1>8, <2>1
  <2>3. QED BY <1>5, <1>9, <2>2 DEF InPlace
<1>10. CASE k # 1
  <2> DEFINE p == RowId(k - 1)
  <2>1. k - 1 \in DOMAIN events
    BY <1>1, <1>10
  <2>2. p \in DOMAIN recorded /\ recorded[n].previousHash = recorded[p].eventHash
    <3>1. events[k].previousHash = events[k - 1].eventHash
      BY <1>2, <1>10
    <3>2. QED BY <1>3, <1>5, <2>1, <3>1 DEF AlteredFrom, AsRecorded
  <2>3. q # NoEvent /\ recorded[q].eventHash = recorded[p].eventHash
    BY <1>6, <1>8, <2>2
  <2>4. recorded[q].content = recorded[p].content
    <3>1. \A m \in {p, q} : recorded[m].previousHash \in Seq(Content)
                             /\ recorded[m].content \in Content
      <4>1. \A m \in {p, q} : recorded[m] \in Event(Content)
        BY <1>1, <1>7, <2>2, <2>3
      <4>2. QED BY <4>1 DEF Event, Digest
    <3>2. Append(recorded[q].previousHash, recorded[q].content)
            = Append(recorded[p].previousHash, recorded[p].content)
      BY <1>4, <1>7, <2>2, <2>3
    <3>3. QED BY <3>1, <3>2, AppendInjective
  <2>5. q = p
    BY <1>4, <1>7, <2>2, <2>3, <2>4
  <2>6. QED BY <1>5, <1>10, <2>5 DEF InPlace
<1>11. QED BY <1>9, <1>10

\* Alterations and losses of what the SHA-256 digests cover do not go unnoticed:
\* unless a row was replaced, what verifyChain accepts are recorded rows, perhaps
\* without their SHA3 digests, in an unbroken run from the first one.
THEOREM DamageIsNotSilent == Spec \/ SignedSpec => []NoSilentDamage
<1>1. AuditSpec => []NoSilentDamage
  BY TypeInit, TypeNext, RowInit, RowNext, NoSilentDamageHolds, PTL DEF AuditSpec
<1>2. QED BY <1>1, SpecIsAudit, SignedIsAudit, PTL

-----------------------------------------------------------------------------
(***************************************************************************)
(* The rows before the first one that a fault has touched verify.          *)
(***************************************************************************)
PrefixSound == \A k \in 1..untouched : k \in DOMAIN events => EventVerifies(events, k)

LEMMA PrefixRecord ==
  ASSUME TypeInv, PrefixSound, NEW c \in Correlation, NEW b \in Body, Record(c, b)
  PROVE  PrefixSound'
<1> DEFINE e == SealedEvent(LatestHash(events), NewContent(c, b))
<1>1. e \in Event(Content) /\ events' = Append(events, e) /\ untouched' = untouched
  BY RecordType DEF TypeInv, Record, faultVars
<1>2. /\ e.previousHash = LatestHash(events)
      /\ e.eventHash = Append(e.previousHash, e.content)
      /\ e.eventHash3 = Append(e.previousHash, e.content)
  BY DEF SealedEvent
<1>3. events \in Seq(Event(Content))
  BY DEF TypeInv, TypeOK
<1> HIDE DEF e
<1>4. /\ DOMAIN events' = 1..(Len(events) + 1) /\ DOMAIN events = 1..Len(events)
      /\ Len(events) \in Nat /\ events'[Len(events) + 1] = e
      /\ \A k \in DOMAIN events : events'[k] = events[k]
  BY <1>1, <1>3
<1>5. ASSUME NEW k \in 1..untouched, k \in DOMAIN events' PROVE EventVerifies(events', k)
  <2>1. CASE k \in DOMAIN events
    <3>1. EventVerifies(events, k) /\ (k # 1 => k - 1 \in DOMAIN events)
      BY <1>4, <1>5, <2>1 DEF PrefixSound
    <3>2. QED BY <1>4, <2>1, <3>1 DEF EventVerifies, VerifyChainLink
  <2>2. CASE k = Len(events) + 1
    <3>1. VerifyEventHash(e) /\ VerifyEventHash3(e)
      BY <1>2 DEF VerifyEventHash, VerifyEventHash3, ComputeEventHash, ComputeEventHash3
    <3>2. e.previousHash = IF k = 1 THEN Null ELSE events'[k - 1].eventHash
      <4>1. CASE events = <<>>
        BY <1>2, <1>3, <2>2, <4>1 DEF LatestHash
      <4>2. CASE events # <<>>
        BY <1>2, <1>3, <1>4, <2>2, <4>2 DEF LatestHash
      <4>3. QED BY <4>1, <4>2
    <3>3. QED BY <1>4, <2>2, <3>1, <3>2 DEF EventVerifies, VerifyChainLink
  <2>3. QED BY <1>4, <1>5, <2>1, <2>2
<1>6. QED BY <1>1, <1>5 DEF PrefixSound

LEMMA PrefixFault ==
  ASSUME TypeInv, PrefixSound, NEW k \in DOMAIN events, Fault(k),
         \A j \in 1..(k - 1) : events'[j] = events[j]
  PROVE  PrefixSound'
<1>1. /\ k \in 1..Len(events) /\ Len(events) \in Nat /\ untouched \in Nat
      /\ DOMAIN events = 1..Len(events)
  BY ParameterTypes DEF TypeInv, TypeOK
<1>2. untouched' \in Nat /\ untouched' <= untouched /\ untouched' <= k - 1
  BY <1>1 DEF Fault, SmallerOf
<1>3. ASSUME NEW i \in 1..untouched' PROVE EventVerifies(events', i)
  <2>1. /\ i \in 1..(k - 1) /\ i \in 1..untouched /\ i \in DOMAIN events
        /\ i # 1 => i - 1 \in 1..(k - 1)
    BY <1>1, <1>2
  <2>2. EventVerifies(events, i)
    BY <2>1 DEF PrefixSound
  <2>3. QED BY <2>1, <2>2 DEF EventVerifies, VerifyChainLink
<1>4. QED BY <1>3 DEF PrefixSound

LEMMA PrefixNext == TypeInv /\ PrefixSound /\ [AuditNext]_vars => PrefixSound'
<1> SUFFICES ASSUME TypeInv, PrefixSound, [AuditNext]_vars PROVE PrefixSound'
  OBVIOUS
<1>1. events \in Seq(Event(Content))
  BY DEF TypeInv, TypeOK
<1>2. ASSUME NEW k \in DOMAIN events, Fault(k), NEW e, events' = [events EXCEPT ![k] = e]
      PROVE  PrefixSound'
  <2>1. \A j \in 1..(k - 1) : j # k /\ j \in DOMAIN events
    BY <1>1
  <2>2. QED BY <1>2, <2>1, PrefixFault
<1>3. ASSUME NEW k \in DOMAIN events, LoseRow(k) PROVE PrefixSound'
  <2>1. \A j \in 1..(k - 1) : events'[j] = events[j]
    BY <1>1, <1>3, RemoveAtRows DEF LoseRow
  <2>2. QED BY <1>3, <2>1, PrefixFault DEF LoseRow
<1>4. ASSUME NEW k \in DOMAIN events, NEW b \in Body, AlterRow(k, b) PROVE PrefixSound'
  <2>1. events' = [events EXCEPT ![k] = [events[k] EXCEPT !.content.body = b]]
    BY <1>4 DEF AlterRow
  <2>2. QED BY <1>2, <1>4, <2>1 DEF AlterRow
<1>5. ASSUME NEW k \in DOMAIN events, NEW b \in Body, ReplaceRow(k, b) PROVE PrefixSound'
  BY <1>2, <1>5 DEF ReplaceRow
<1>6. ASSUME NEW k \in DOMAIN events, RelinkRow(k) PROVE PrefixSound'
  BY <1>2, <1>6 DEF RelinkRow
<1>7. ASSUME NEW k \in DOMAIN events, DropHash3(k) PROVE PrefixSound'
  <2>1. events' = [events EXCEPT ![k] = [events[k] EXCEPT !.eventHash3 = Null]]
    BY <1>7 DEF DropHash3
  <2>2. QED BY <1>2, <1>7, <2>1 DEF DropHash3
<1>8. CASE Keep \/ UNCHANGED vars
  <2>1. UNCHANGED <<events, untouched>>
    BY <1>8 DEF Keep, vars, faultVars
  <2>2. QED BY <2>1 DEF PrefixSound
<1>9. QED BY <1>3, <1>4, <1>5, <1>6, <1>7, <1>8, PrefixRecord DEF Next, AuditNext

LEMMA PrefixCounts == TypeInv /\ PrefixSound => UndamagedPrefixVerifies
<1> SUFFICES ASSUME TypeInv, PrefixSound, NEW limit \in 0..MaxEvents
             PROVE  LET chain == GetChain(1, limit) IN
                      VerifiedCount(chain) >= SmallerOf(untouched, Len(chain))
  BY DEF UndamagedPrefixVerifies
<1> DEFINE chain == GetChain(1, limit)
<1>1. events \in Seq(Event(Content)) /\ untouched \in Nat /\ limit \in Nat
  BY ParameterTypes DEF TypeInv, TypeOK
<1>2. PICK last \in 0..Len(events) : chain = SubSeq(events, 1, last)
  <2>1. Len(events) \in Nat
    BY <1>1
  <2>2. 1 + limit - 1 = limit
    BY <1>1
  <2>3. QED BY <1>1, <2>1, <2>2 DEF GetChain, SmallerOf, NoLimit
<1> HIDE DEF chain
<1>3. /\ chain \in Seq(Event(Content)) /\ Len(chain) = last
      /\ \A i \in 1..last : chain[i] = events[i]
      /\ \A i \in 1..last : i \in DOMAIN events
  BY <1>1, <1>2
<1> DEFINE n == SmallerOf(untouched, Len(chain))
<1>4. n \in Nat /\ n <= Len(chain) /\ n <= untouched
  BY <1>1, <1>2, <1>3 DEF SmallerOf
<1> HIDE DEF n
<1>5. ASSUME NEW i \in 1..n PROVE EventVerifies(chain, i)
  <2>1. i \in 1..last /\ i \in 1..untouched /\ (i # 1 => i - 1 \in 1..last)
    BY <1>1, <1>2, <1>3, <1>4
  <2>2. EventVerifies(events, i)
    BY <1>3, <2>1 DEF PrefixSound
  <2>3. QED BY <1>3, <2>1, <2>2 DEF EventVerifies, VerifyChainLink
<1>6. VerifiedCount(chain) >= n
  BY <1>3, <1>4, <1>5, VerifiedAtLeast
<1>7. QED BY <1>6 DEF n, chain

LEMMA PrefixCorrect == AuditSpec => []PrefixSound
<1>1. Init => PrefixSound
  BY DEF Init, PrefixSound
<1>2. QED BY <1>1, TypeInit, TypeNext, PrefixNext, PTL DEF AuditSpec

\* verifyChain does not blame damage on rows that no fault has touched and that
\* lie before it, under any limit.
THEOREM DamageIsNotBlamedOnPrefix == Spec \/ SignedSpec => []UndamagedPrefixVerifies
BY TypeInvCorrect, PrefixCorrect, PrefixCounts, SpecIsAudit, SignedIsAudit, PTL

-----------------------------------------------------------------------------
(***************************************************************************)
(* SignedAudit.  A digest names the event it is a digest of, also in a row *)
(* that was replaced, so a recorded event's link names its predecessor.    *)
(***************************************************************************)
NamedRow(e) ==
  /\ e.eventHash # Null
  /\ Last(e.eventHash).eventId = e.content.eventId

RowsNamed == \A k \in DOMAIN events : NamedRow(events[k])

LinkNames(link, q) == IF link = Null THEN q = NoEvent ELSE Last(link).eventId = q

RecordedNamed ==
  \A n \in DOMAIN recorded :
    /\ recorded[n].eventHash3 = recorded[n].eventHash
    /\ LinkNames(recorded[n].previousHash, predecessor[n])

NamedInv == RowsNamed /\ RecordedNamed

LEMMA LastAppended ==
  ASSUME NEW S, NEW s \in Seq(S), NEW x \in S
  PROVE  Append(s, x) # <<>> /\ Last(Append(s, x)) = x
BY DEF Last

LEMMA SealedNamed ==
  ASSUME NEW p \in Digest(Content), NEW c \in Content
  PROVE  NamedRow(SealedEvent(p, c))
BY LastAppended DEF NamedRow, SealedEvent, Digest, Null

LEMMA NamedNext == TypeInv /\ NamedInv /\ [AuditNext]_vars => NamedInv'
<1> SUFFICES ASSUME TypeInv, NamedInv, [AuditNext]_vars PROVE NamedInv'
  OBVIOUS
<1>1. events \in Seq(Event(Content)) /\ \A k \in DOMAIN events : NamedRow(events[k])
  BY DEF TypeInv, TypeOK, NamedInv, RowsNamed
<1>2. ASSUME NEW c \in Correlation, NEW b \in Body, Record(c, b) PROVE NamedInv'
  <2> DEFINE e == SealedEvent(LatestHash(events), NewContent(c, b))
             q == IF events = <<>> THEN NoEvent ELSE RowId(Len(events))
             new == Len(recorded) + 1
  <2>1. e \in Event(Content) /\ events' = Append(events, e)
    BY <1>2, RecordType DEF TypeInv
  <2>2. NamedRow(e)
    <3>1. NewContent(c, b) \in Content /\ LatestHash(events) \in Digest(Content)
      BY <1>1, <1>2, NewContentType, LatestHashType DEF TypeInv, Record
    <3>2. QED BY <3>1, SealedNamed
  <2>3. e.eventHash3 = e.eventHash /\ LinkNames(e.previousHash, q)
    <3>1. e.eventHash3 = e.eventHash /\ e.previousHash = LatestHash(events)
      BY DEF SealedEvent
    <3>2. CASE events = <<>>
      BY <3>1, <3>2 DEF LatestHash, LinkNames
    <3>3. CASE events # <<>>
      <4>1. NamedRow(events[Len(events)])
        BY <1>1, <3>3
      <4>2. LatestHash(events) # Null /\ Last(LatestHash(events)).eventId = RowId(Len(events))
        BY <3>3, <4>1 DEF NamedRow, LatestHash, RowId
      <4>3. QED BY <3>1, <3>3, <4>2 DEF LinkNames
    <3>4. QED BY <3>2, <3>3
  <2>4. /\ DOMAIN recorded' = 1..new /\ DOMAIN recorded = 1..(new - 1) /\ new \in Nat \ {0}
        /\ recorded'[new] = e /\ \A n \in DOMAIN recorded : recorded'[n] = recorded[n]
        /\ predecessor'[new] = q /\ \A n \in DOMAIN recorded : predecessor'[n] = predecessor[n]
    BY <1>2, RecordedGrows
  <2> HIDE DEF e, q, new
  <2>5. RowsNamed'
    <3>1. \A k \in DOMAIN events' : events'[k] = e \/ (k \in DOMAIN events /\ events'[k] = events[k])
      BY <1>1, <2>1
    <3>2. QED BY <1>1, <2>2, <3>1 DEF RowsNamed
  <2>6. \A n \in DOMAIN recorded' : n = new \/ n \in DOMAIN recorded
    BY <2>4
  <2>7. RecordedNamed'
    BY <2>3, <2>4, <2>6 DEF NamedInv, RecordedNamed
  <2>8. QED BY <2>5, <2>7 DEF NamedInv
<1>3. ASSUME UNCHANGED recordVars, \A k \in DOMAIN events' : NamedRow(events'[k]) PROVE NamedInv'
  BY <1>3 DEF NamedInv, RowsNamed, RecordedNamed, recordVars
<1>4. ASSUME NEW k \in DOMAIN events, NEW e, NamedRow(e), events' = [events EXCEPT ![k] = e],
             UNCHANGED recordVars
      PROVE  NamedInv'
  BY <1>1, <1>3, <1>4
<1>5. \A k \in DOMAIN events :
        /\ events[k].previousHash \in Digest(Content) /\ events[k].content \in Content
        /\ events[k] \in Event(Content)
  <2>1. \A k \in DOMAIN events : events[k] \in Event(Content)
    BY <1>1
  <2>2. QED BY <2>1 DEF Event
<1>6. ASSUME NEW k \in DOMAIN events, NEW b \in Body, AlterRow(k, b) PROVE NamedInv'
  <2> DEFINE e == [events[k] EXCEPT !.content.body = b]
  <2>1. NamedRow(e)
    BY <1>1, <1>5 DEF NamedRow, Event, Content
  <2>2. events' = [events EXCEPT ![k] = e] /\ UNCHANGED recordVars
    BY <1>6 DEF AlterRow, Fault
  <2> HIDE DEF e
  <2>3. QED BY <1>4, <2>1, <2>2
<1>7. ASSUME NEW k \in DOMAIN events, NEW b \in Body, ReplaceRow(k, b) PROVE NamedInv'
  <2>1. [events[k].content EXCEPT !.body = b] \in Content
    BY <1>5 DEF Content
  <2>2. NamedRow(SealedEvent(events[k].previousHash, [events[k].content EXCEPT !.body = b]))
    BY <1>5, <2>1, SealedNamed
  <2>3. QED BY <1>4, <1>7, <2>2 DEF ReplaceRow, Fault
<1>8. ASSUME NEW k \in DOMAIN events, RelinkRow(k) PROVE NamedInv'
  <2>1. LatestHash(SubSeq(events, 1, k - 1)) \in Digest(Content)
    <3>1. SubSeq(events, 1, k - 1) \in Seq(Event(Content))
      BY <1>1
    <3>2. QED BY <3>1, LatestHashType
  <2>2. NamedRow(SealedEvent(LatestHash(SubSeq(events, 1, k - 1)), events[k].content))
    BY <1>5, <2>1, SealedNamed
  <2>3. QED BY <1>4, <1>8, <2>2 DEF RelinkRow, Fault
<1>9. ASSUME NEW k \in DOMAIN events, LoseRow(k) PROVE NamedInv'
  <2>1. \A j \in DOMAIN events' : \E i \in DOMAIN events : events'[j] = events[i]
    BY <1>1, <1>9, RemoveAtRows DEF LoseRow
  <2>2. \A j \in DOMAIN events' : NamedRow(events'[j])
    BY <1>1, <2>1
  <2>3. QED BY <1>3, <1>9, <2>2 DEF LoseRow, Fault
<1>10. CASE Keep \/ UNCHANGED vars
  <2>1. UNCHANGED <<events, recordVars>>
    BY <1>10 DEF Keep, vars
  <2>2. QED BY <1>1, <1>3, <2>1
<1>11. ASSUME NEW k \in DOMAIN events, DropHash3(k) PROVE NamedInv'
  <2> DEFINE e == [events[k] EXCEPT !.eventHash3 = Null]
  <2>1. NamedRow(e)
    BY <1>1, <1>5 DEF NamedRow, Event
  <2>2. events' = [events EXCEPT ![k] = e] /\ UNCHANGED recordVars
    BY <1>11 DEF DropHash3, Fault
  <2> HIDE DEF e
  <2>3. QED BY <1>4, <2>1, <2>2
<1>12. QED BY <1>2, <1>6, <1>7, <1>8, <1>9, <1>10, <1>11 DEF Next, AuditNext

-----------------------------------------------------------------------------
(***************************************************************************)
(* A recorded event's signature is its own, and a row has the signature of *)
(* a recorded event or none.                                               *)
(***************************************************************************)
SignedAs(body, n) ==
  body.signature # NoSignature =>
    body.signature \in [key : Key, signer : {ServiceId}, of : {n}]

RecordedSigned == \A n \in DOMAIN recorded : SignedAs(recorded[n].content.body, n)

Genuine(s) == s # NoSignature => \E n \in DOMAIN recorded : s = recorded[n].content.body.signature

SignaturesGenuine == \A k \in DOMAIN events : Genuine(events[k].content.body.signature)

SignInv == RecordedSigned /\ SignaturesGenuine

LEMMA SignNext ==
  TypeInv /\ KeysTypeOK /\ SignInv /\ [SignedNext]_signedVars => SignInv'
<1> SUFFICES ASSUME TypeInv, KeysTypeOK, SignInv, [SignedNext]_signedVars PROVE SignInv'
  OBVIOUS
<1>1. /\ events \in Seq(Event(Content))
      /\ \A k \in DOMAIN events : Genuine(events[k].content.body.signature)
      /\ \A k \in DOMAIN events : events[k] \in Event(Content)
  BY DEF TypeInv, TypeOK, SignInv, SignaturesGenuine
<1>2. ASSUME NEW c \in Correlation, NEW p \in Payload, NEW o \in Owner, SignedRecord(c, p, o)
      PROVE  SignInv'
  <2>1. PICK s \in {SignatureOf(Len(recorded) + 1), NoSignature} :
          Record(c, [payload |-> p, signedBy |-> o, signature |-> s])
    BY <1>2 DEF SignedRecord
  <2> DEFINE b == [payload |-> p, signedBy |-> o, signature |-> s]
             e == SealedEvent(LatestHash(events), NewContent(c, b))
             new == Len(recorded) + 1
  <2>2. b \in Body /\ Record(c, b)
    BY <2>1, SignedBodyType DEF TypeInv, Record
  <2>3. SignedAs(b, new) /\ b.signature = s
    BY DEF SignedAs, SignatureOf, KeysTypeOK
  <2>4. e.content.body = b
    BY DEF SealedEvent, NewContent
  <2> HIDE DEF b
  <2>5. e \in Event(Content) /\ events' = Append(events, e)
    BY <2>2, RecordType DEF TypeInv
  <2>6. /\ DOMAIN recorded' = 1..new /\ DOMAIN recorded = 1..(new - 1) /\ new \in Nat \ {0}
        /\ recorded'[new] = e /\ \A n \in DOMAIN recorded : recorded'[n] = recorded[n]
    BY <2>2, RecordedGrows
  <2> HIDE DEF e, new
  <2>7. RecordedSigned'
    <3>1. \A n \in DOMAIN recorded' : n = new \/ n \in DOMAIN recorded
      BY <2>6
    <3>2. QED BY <2>3, <2>4, <2>6, <3>1 DEF SignInv, RecordedSigned, SignedAs
  <2>8. SignaturesGenuine'
    <3>1. \A k \in DOMAIN events' : events'[k] = e \/ (k \in DOMAIN events /\ events'[k] = events[k])
      BY <1>1, <2>5
    <3>2. new \in DOMAIN recorded' /\ \A n \in DOMAIN recorded : n \in DOMAIN recorded'
      BY <2>6
    <3>3. SUFFICES ASSUME NEW k \in DOMAIN events',
                          events'[k].content.body.signature # NoSignature
                   PROVE  \E n \in DOMAIN recorded' :
                            events'[k].content.body.signature = recorded'[n].content.body.signature
      BY DEF SignaturesGenuine, Genuine
    <3>4. CASE events'[k] = e
      BY <2>6, <3>2, <3>4
    <3>5. CASE k \in DOMAIN events /\ events'[k] = events[k]
      BY <1>1, <2>6, <3>2, <3>3, <3>5 DEF Genuine
    <3>6. QED BY <3>1, <3>4, <3>5
  <2>9. QED BY <2>7, <2>8 DEF SignInv
<1>3. ASSUME UNCHANGED recordVars,
             \A j \in DOMAIN events' :
               \/ events'[j].content.body.signature = NoSignature
               \/ \E i \in DOMAIN events :
                    events'[j].content.body.signature = events[i].content.body.signature
      PROVE  SignInv'
  <2>1. UNCHANGED recorded
    BY <1>3 DEF recordVars
  <2>2. RecordedSigned'
    BY <2>1 DEF SignInv, RecordedSigned, SignedAs
  <2>3. \A j \in DOMAIN events' : Genuine(events'[j].content.body.signature)
    BY <1>1, <1>3 DEF Genuine
  <2>4. QED BY <2>1, <2>2, <2>3 DEF SignInv, SignaturesGenuine, Genuine
<1>4. ASSUME NEW k \in DOMAIN events, NEW e, events' = [events EXCEPT ![k] = e],
             UNCHANGED recordVars,
             e.content.body.signature \in {NoSignature, events[k].content.body.signature}
      PROVE  SignInv'
  <2>1. ASSUME NEW j \in DOMAIN events'
        PROVE  \/ events'[j].content.body.signature = NoSignature
               \/ \E i \in DOMAIN events :
                    events'[j].content.body.signature = events[i].content.body.signature
    <3>1. j \in DOMAIN events
      BY <1>4, <2>1
    <3>2. CASE j = k
      BY <1>4, <3>1, <3>2
    <3>3. CASE j # k
      BY <1>4, <3>1, <3>3
    <3>4. QED BY <3>2, <3>3
  <2>2. QED BY <1>3, <1>4, <2>1
<1>5. ASSUME NEW k \in DOMAIN events, NEW b \in Body, Available(k, b), AlterRow(k, b) PROVE SignInv'
  <2> DEFINE e == [events[k] EXCEPT !.content.body = b]
  <2>1. e.content.body = b
    BY <1>1 DEF Event, Content
  <2>2. events' = [events EXCEPT ![k] = e] /\ UNCHANGED recordVars
    BY <1>5 DEF AlterRow, Fault
  <2> HIDE DEF e
  <2>3. QED BY <1>4, <1>5, <2>1, <2>2 DEF Available
<1>6. ASSUME NEW k \in DOMAIN events, NEW b \in Body, Available(k, b), ReplaceRow(k, b) PROVE SignInv'
  <2> DEFINE e == SealedEvent(events[k].previousHash, [events[k].content EXCEPT !.body = b])
  <2>1. e.content.body = b
    BY <1>1 DEF SealedEvent, Event, Content
  <2>2. events' = [events EXCEPT ![k] = e] /\ UNCHANGED recordVars
    BY <1>6 DEF ReplaceRow, Fault
  <2> HIDE DEF e
  <2>3. QED BY <1>4, <1>6, <2>1, <2>2 DEF Available
<1>7. ASSUME NEW k \in DOMAIN events, RelinkRow(k) PROVE SignInv'
  <2> DEFINE e == SealedEvent(LatestHash(SubSeq(events, 1, k - 1)), events[k].content)
  <2>1. e.content = events[k].content
    BY DEF SealedEvent
  <2>2. events' = [events EXCEPT ![k] = e] /\ UNCHANGED recordVars
    BY <1>7 DEF RelinkRow, Fault
  <2> HIDE DEF e
  <2>3. QED BY <1>4, <2>1, <2>2
<1>8. ASSUME NEW k \in DOMAIN events, LoseRow(k) PROVE SignInv'
  <2>1. \A j \in DOMAIN events' : \E i \in DOMAIN events : events'[j] = events[i]
    BY <1>1, <1>8, RemoveAtRows DEF LoseRow
  <2>2. UNCHANGED recordVars
    BY <1>8 DEF LoseRow, Fault
  <2>3. QED BY <1>3, <2>1, <2>2
<1>9. ASSUME NEW k \in DOMAIN events, DropHash3(k) PROVE SignInv'
  <2> DEFINE e == [events[k] EXCEPT !.eventHash3 = Null]
  <2>1. e.content = events[k].content
    BY <1>1 DEF Event
  <2>2. events' = [events EXCEPT ![k] = e] /\ UNCHANGED recordVars
    BY <1>9 DEF DropHash3, Fault
  <2> HIDE DEF e
  <2>3. QED BY <1>4, <2>1, <2>2
<1>10. ASSUME UNCHANGED <<events, recordVars>> PROVE SignInv'
  BY <1>3, <1>10
<1>11. QED
  BY <1>2, <1>5, <1>6, <1>7, <1>8, <1>9, <1>10
  DEF SignedNext, Keep, AddTrustedKey, RemoveTrustedKey, RotateKey, signedVars, vars

\* Until the medium has touched a row, the rows are the recorded events.
UntouchedAsRecorded == faults = 0 => events = recorded /\ untouched = MaxEvents

LEMMA UntouchedNext == TypeInv /\ UntouchedAsRecorded /\ [AuditNext]_vars => UntouchedAsRecorded'
<1> SUFFICES ASSUME TypeInv, UntouchedAsRecorded, [AuditNext]_vars PROVE UntouchedAsRecorded'
  OBVIOUS
<1>1. faults \in Nat
  BY ParameterTypes DEF TypeInv, TypeOK
<1>2. ASSUME NEW k, Fault(k) PROVE UntouchedAsRecorded'
  BY <1>1, <1>2 DEF Fault, UntouchedAsRecorded
<1>3. ASSUME NEW c \in Correlation, NEW b \in Body, Record(c, b) PROVE UntouchedAsRecorded'
  BY <1>3 DEF Record, UntouchedAsRecorded, faultVars
<1>4. CASE Keep \/ UNCHANGED vars
  BY <1>4 DEF Keep, UntouchedAsRecorded, vars, recordVars, faultVars
<1>5. QED BY <1>2, <1>3, <1>4 DEF AuditNext, Next, AlterRow, DropHash3, ReplaceRow, LoseRow, RelinkRow

-----------------------------------------------------------------------------
SignedInv ==
  TypeInv /\ KeysTypeOK /\ RowInv /\ PrefixSound /\ NamedInv /\ SignInv /\ UntouchedAsRecorded

LEMMA SignedInvCorrect == SignedSpec => []SignedInv
<1>1. SignedInit => SignedInv
  <2>1. SignedInit => Init
    BY DEF SignedInit
  <2>2. Init => PrefixSound /\ NamedInv /\ SignInv /\ UntouchedAsRecorded
    BY DEF Init, PrefixSound, NamedInv, RowsNamed, RecordedNamed, SignInv, RecordedSigned,
           SignaturesGenuine, UntouchedAsRecorded
  <2>3. QED BY <2>1, <2>2, TypeInit, KeysTypeInit, RowInit DEF SignedInv
<1>2. SignedInv /\ [SignedNext]_signedVars => SignedInv'
  <2>1. SignedInv /\ [SignedNext]_signedVars => [AuditNext]_vars
    BY SignedStep DEF SignedInv, TypeInv
  <2>2. QED
    BY <2>1, TypeNext, KeysTypeNext, RowNext, PrefixNext, NamedNext, SignNext, UntouchedNext
    DEF SignedInv
<1>3. QED BY <1>1, <1>2, PTL DEF SignedSpec

\* A verified row with a verified signature holds what the event that the
\* signature is of was recorded with, but for a signedBy that was not serviceId,
\* and its link names the event it was recorded behind.
LEMMA VerifiedRow ==
  ASSUME SignedInv, NEW k \in DOMAIN events,
         EventVerifies(events, k), SignatureVerifies(events[k])
  PROVE  /\ SignableData(events[k]) = SignableData(recorded[RowId(k)])
         /\ recorded[RowId(k)].content.body.signedBy = ServiceId => AsRecorded(k)
         /\ LinkNames(events[k].previousHash, predecessor[RowId(k)])
<1> DEFINE e == events[k]
           s == e.content.body.signature
<1>1. /\ events \in Seq(Event(Content)) /\ recorded \in Seq(Event(Content))
      /\ e \in Event(Content)
  BY DEF SignedInv, TypeInv, TypeOK
<1>2. s # NoSignature
  BY DEF SignatureVerifies
<1>3. PICK n \in DOMAIN recorded : s = recorded[n].content.body.signature
  BY <1>2 DEF SignedInv, SignInv, SignaturesGenuine, Genuine
<1> DEFINE r == recorded[n]
<1>4. /\ r \in Event(Content) /\ r.content.eventId = n
      /\ r.eventHash = Append(r.previousHash, r.content)
      /\ r.eventHash3 = r.eventHash
      /\ LinkNames(r.previousHash, predecessor[n])
  BY <1>1 DEF SignedInv, RowInv, RecordedSealed, NamedInv, RecordedNamed
<1>5. s.of = n /\ s.signer = ServiceId
  <2>1. SignedAs(r.content.body, n) /\ r.content.body.signature = s
    BY <1>3 DEF SignedInv, SignInv, RecordedSigned
  <2>2. QED BY <1>2, <2>1 DEF SignedAs
<1>6. s.signer = e.content.body.signedBy /\ SignableData(e) = SignableData(r)
  BY <1>5 DEF SignatureVerifies
<1>7. /\ e.content.eventId = r.content.eventId
      /\ e.content.correlationId = r.content.correlationId
      /\ e.content.body.payload = r.content.body.payload
      /\ e.previousHash = r.previousHash
  BY <1>6 DEF SignableData
<1>8. RowId(k) = n
  BY <1>4, <1>7 DEF RowId
<1>9. ASSUME r.content.body.signedBy = ServiceId PROVE AsRecorded(k)
  <2>1. e.content.body = r.content.body
    <3>1. e.content.body \in Body /\ r.content.body \in Body
      BY <1>1, <1>4 DEF Event, Content
    <3>2. /\ e.content.body.payload = r.content.body.payload
          /\ e.content.body.signedBy = r.content.body.signedBy
          /\ e.content.body.signature = r.content.body.signature
      BY <1>3, <1>5, <1>6, <1>7, <1>9
    <3> HIDE DEF s, e, r
    <3>3. QED BY <3>1, <3>2, SignedParameterTypes
  <2>2. e.content = r.content
    <3>1. e.content \in Content /\ r.content \in Content
      BY <1>1, <1>4 DEF Event
    <3> HIDE DEF s, e, r
    <3>2. QED BY <1>7, <2>1, <3>1 DEF Content
  <2>3. e.eventHash = r.eventHash /\ e.eventHash3 \in {r.eventHash3, Null}
    <3>1. /\ e.eventHash = Append(e.previousHash, e.content)
          /\ e.eventHash3 # Null => e.eventHash3 = Append(e.previousHash, e.content)
      BY DEF EventVerifies, VerifyEventHash, VerifyEventHash3, ComputeEventHash, ComputeEventHash3
    <3> HIDE DEF s, e, r
    <3>2. QED BY <1>4, <1>7, <2>2, <3>1
  <2>4. QED BY <1>3, <1>7, <1>8, <2>2, <2>3 DEF AsRecorded
<1>10. QED BY <1>4, <1>6, <1>7, <1>8, <1>9

LEMMA FullyVerifiedHolds == SignedInv => FullyVerifiedIsAsRecorded
<1> SUFFICES ASSUME SignedInv, FullyVerified, NEW k \in DOMAIN events
             PROVE  /\ SignableData(events[k]) = SignableData(recorded[RowId(k)])
                    /\ recorded[RowId(k)].content.body.signedBy = ServiceId => AsRecorded(k)
                    /\ InPlace(k)
  BY DEF FullyVerifiedIsAsRecorded
<1>1. events \in Seq(Event(Content))
  BY DEF SignedInv, TypeInv, TypeOK
<1>2. EventVerifies(events, k) /\ SignatureVerifies(events[k])
  BY <1>1 DEF FullyVerified, ChainVerifies, BrokenPositions, Success
<1>3. /\ SignableData(events[k]) = SignableData(recorded[RowId(k)])
      /\ recorded[RowId(k)].content.body.signedBy = ServiceId => AsRecorded(k)
      /\ LinkNames(events[k].previousHash, predecessor[RowId(k)])
  BY <1>2, VerifiedRow
<1>4. InPlace(k)
  <2>1. CASE k = 1
    BY <1>2, <1>3, <2>1 DEF EventVerifies, VerifyChainLink, LinkNames, InPlace
  <2>2. CASE k # 1
    <3>1. k - 1 \in DOMAIN events
      BY <1>1, <2>2
    <3>2. NamedRow(events[k - 1])
      BY <3>1 DEF SignedInv, NamedInv, RowsNamed
    <3>3. events[k].previousHash = events[k - 1].eventHash
      BY <1>2, <2>2 DEF EventVerifies, VerifyChainLink
    <3>4. predecessor[RowId(k)] = RowId(k - 1)
      BY <1>3, <3>2, <3>3 DEF NamedRow, LinkNames, RowId
    <3>5. QED BY <2>2, <3>4 DEF InPlace
  <2>3. QED BY <2>1, <2>2
<1>5. QED BY <1>3, <1>4

LEMMA SignedEventsHold == SignedInv => SignedEventsVerify
<1> SUFFICES ASSUME SignedInv PROVE SignedEventsVerify
  OBVIOUS
<1>1. ASSUME faults = 0 PROVE ChainVerifies(events)
  <2>1. events = recorded /\ untouched = MaxEvents
    BY <1>1 DEF SignedInv, UntouchedAsRecorded
  <2>2. /\ events \in Seq(Event(Content)) /\ Len(events) \in Nat /\ Len(events) <= MaxEvents
        /\ MaxEvents \in Nat
    BY <2>1, ParameterTypes DEF SignedInv, TypeInv, TypeOK
  <2>3. \A k \in 1..Len(events) : k \in 1..untouched /\ k \in DOMAIN events
    BY <2>1, <2>2
  <2>4. QED BY <2>3 DEF SignedInv, PrefixSound, ChainVerifies, BrokenPositions
<1>2. ASSUME NEW k \in DOMAIN events, AsRecorded(k), NEW b, b = events[k].content.body
      PROVE  SignatureVerifies(events[k]) <=>
               /\ b.signature # NoSignature /\ b.signature.key = trustedKeys[ServiceId]
               /\ b.signedBy = ServiceId
  <2> DEFINE n == RowId(k)
  <2>1. /\ n \in DOMAIN recorded /\ events[k].content = recorded[n].content
        /\ events[k].previousHash = recorded[n].previousHash
    BY <1>2 DEF AsRecorded
  <2>2. SignedAs(b, n)
    BY <1>2, <2>1 DEF SignedInv, SignInv, RecordedSigned
  <2>3. SignableData(events[k]) = SignableData(recorded[n])
    BY <2>1 DEF SignableData
  <2>4. b.signature # NoSignature =>
          /\ b.signature.signer = ServiceId
          /\ SignableData(events[k]) = SignableData(recorded[b.signature.of])
    BY <2>2, <2>3 DEF SignedAs
  <2>5. QED BY <1>2, <2>4 DEF SignatureVerifies
<1>3. QED BY <1>1, <1>2 DEF SignedEventsVerify

\* A store that passes verifyChainAndSignatures holds events as they were
\* recorded, in the order in which they were, however rows were altered, lost,
\* replaced or relinked and whichever keys came and went; an event that named
\* another signer than the service may have been made to name the service.
THEOREM FullyVerifiedStoresAreAsRecorded == SignedSpec => []FullyVerifiedIsAsRecorded
BY SignedInvCorrect, FullyVerifiedHolds, PTL

\* Rows as they were recorded are verified, but for those of a key no longer
\* trusted, those that were never signed and those that name another signer.
THEOREM SignedEventsAreVerified == SignedSpec => []SignedEventsVerify
BY SignedInvCorrect, SignedEventsHold, PTL
=============================================================================
