----------------------------- MODULE ChainAudit -----------------------------
(***************************************************************************)
(* What verifyChain (src/src/events/hash-chain.ts), asked through the      *)
(* proof plane (src/src/proof-plane/proof-plane.ts) over a store that has  *)
(* been damaged, says about the events it is given.                        *)
(*                                                                         *)
(* The emitter is reduced to what EventEmitter shows of it, an append of   *)
(* an event sealed to the latest hash.  The storage medium may alter, lose *)
(* or replace rows behind the store's back, and may cost a row its SHA3    *)
(* digest; a replaced row is one whose digests agree with it again.  The   *)
(* columns outside the digests (shadowMode, recordedAt) are left out:      *)
(* verifyChain never looks at them.  A checkpoint is a copy of the latest  *)
(* hash and its position that is kept elsewhere (README.md:28, "periodic   *)
(* checkpoints of the chain tip").                                         *)
(***************************************************************************)
EXTENDS HashChain, SequencesExt

CONSTANTS
  Correlation,     \* correlationIds
  Body,            \* the other hashed fields of an event
  MaxEvents,       \* bound: events recorded
  MaxFaults,       \* bound: faults of the storage medium
  MaxSteps         \* bound: events, faults and checkpoints together

ASSUME ParameterTypes == {MaxEvents, MaxFaults, MaxSteps} \subseteq Nat

EventId == 1..MaxEvents
Content == [eventId : EventId, correlationId : Correlation, body : Body]

\* The predecessor of an event that was recorded first.
NoEvent == 0

VARIABLES
  events,        \* the rows of the store, in insertion order
  recorded,      \* the rows as append() was given them, in the order of the calls
  predecessor,   \* predecessor[n]: the last row's eventId when n was recorded
  checkpoints,   \* the checkpoints kept, with the contents they were taken of
  faults,        \* faults so far
  replaced,      \* whether one of them replaced a row
  untouched      \* rows before the first one a fault has ever touched

recordVars == <<recorded, predecessor>>
faultVars == <<faults, replaced, untouched>>
vars == <<events, recordVars, checkpoints, faultVars>>

Checkpoint == [position : EventId, digest : Digest(Content), contents : Seq(Content)]

TypeOK ==
  /\ events \in Seq(Event(Content))
  /\ recorded \in Seq(Event(Content)) /\ Len(recorded) <= MaxEvents
  /\ predecessor \in Seq(EventId \cup {NoEvent})
  /\ checkpoints \in Seq(Checkpoint)
  /\ faults \in 0..MaxFaults
  /\ replaced \in BOOLEAN
  /\ untouched \in 0..MaxEvents

Init ==
  /\ events = <<>>
  /\ recorded = <<>> /\ predecessor = <<>>
  /\ checkpoints = <<>>
  /\ faults = 0 /\ replaced = FALSE /\ untouched = MaxEvents

-----------------------------------------------------------------------------
RowId(k) == events[k].content.eventId

StepsLeft == Len(recorded) + faults + Len(checkpoints) < MaxSteps

NewContent(c, b) == [eventId |-> Len(recorded) + 1, correlationId |-> c, body |-> b]

Record(c, b) ==
  /\ Len(recorded) < MaxEvents /\ StepsLeft
  /\ LET e == SealedEvent(LatestHash(events), NewContent(c, b)) IN
       /\ events' = Append(events, e)
       /\ recorded' = Append(recorded, e)
  /\ predecessor' = Append(predecessor, IF events = <<>> THEN NoEvent ELSE RowId(Len(events)))
  /\ UNCHANGED <<checkpoints, faultVars>>

\* Mutant of Keep: the chain is not verified first.
KeepUnverified ==
  /\ StepsLeft
  /\ events # <<>>
  /\ checkpoints' = Append(checkpoints, [position |-> Len(events),
                     digest |-> LatestHash(events), contents |-> Contents(events)])
  /\ UNCHANGED <<events, recordVars, faultVars>>

\* A checkpoint is kept of a chain that verifyChain has just accepted.
Keep ==
  /\ StepsLeft
  /\ events # <<>>
  /\ ChainVerifies(events)
  /\ checkpoints' = Append(checkpoints, [position |-> Len(events),
                     digest |-> LatestHash(events), contents |-> Contents(events)])
  /\ UNCHANGED <<events, recordVars, faultVars>>

SmallerOf(m, n) == IF m <= n THEN m ELSE n

\* The medium touches row k.
Fault(k) ==
  /\ faults < MaxFaults /\ StepsLeft
  /\ faults' = faults + 1
  /\ untouched' = SmallerOf(untouched, k - 1)
  /\ UNCHANGED <<recordVars, checkpoints>>

AlterRow(k, b) ==
  /\ Fault(k)
  /\ events' = [events EXCEPT ![k].content.body = b]
  /\ UNCHANGED replaced

\* A row without the SHA3 digest, as those written before there was one.
DropHash3(k) ==
  /\ Fault(k)
  /\ events' = [events EXCEPT ![k].eventHash3 = Null]
  /\ UNCHANGED replaced

ReplaceRow(k, b) ==
  /\ Fault(k)
  /\ events' = [events EXCEPT ![k] =
       SealedEvent(events[k].previousHash, [events[k].content EXCEPT !.body = b])]
  /\ replaced' = TRUE

LoseRow(k) ==
  /\ Fault(k)
  /\ events' = RemoveAt(events, k)
  /\ UNCHANGED replaced

Next ==
  \/ \E c \in Correlation, b \in Body : Record(c, b)
  \/ Keep
  \/ \E k \in DOMAIN events :
       \/ \E b \in Body : AlterRow(k, b) \/ ReplaceRow(k, b)
       \/ DropHash3(k)
       \/ LoseRow(k)

Spec == Init /\ [][Next]_vars

-----------------------------------------------------------------------------
(***************************************************************************)
(* What the proof plane gives verifyChain to walk.                         *)
(***************************************************************************)
NoLimit == 0

\* Mutant of GetChain: a page begins with the event behind the one asked for.
GetChainBehind(from, limit) ==
  LET last == IF limit = NoLimit THEN Len(events) ELSE SmallerOf(from + limit - 1, Len(events))
  IN  SubSeq(events, from + 1, last)

\* getChain, where from is the position of fromEventId; 1 is also the default.
GetChain(from, limit) ==
  LET last == IF limit = NoLimit THEN Len(events) ELSE SmallerOf(from + limit - 1, Len(events))
  IN  SubSeq(events, from, last)

-----------------------------------------------------------------------------
(***************************************************************************)
(* Parts of the inductive invariant.  A checkpoint's digest unfolds to the *)
(* contents it was taken of.  Rows keep their digests and identifiers, so  *)
(* that unless one was replaced every row still has its recorded digest    *)
(* and every recorded event is linked to the one it was recorded behind.   *)
(***************************************************************************)
RowsCounted == Len(events) <= Len(recorded) /\ Len(predecessor) = Len(recorded)

CheckpointsCommit ==
  \A n \in DOMAIN checkpoints : checkpoints[n].digest = checkpoints[n].contents

RecordedSealed ==
  \A n \in DOMAIN recorded :
    /\ recorded[n].content.eventId = n
    /\ recorded[n].eventHash = Append(recorded[n].previousHash, recorded[n].content)

RecordedLinks ==
  ~ replaced => \A n \in DOMAIN recorded :
    /\ predecessor[n] \in 0..(n - 1)
    /\ recorded[n].previousHash =
         IF predecessor[n] = NoEvent THEN Null ELSE recorded[predecessor[n]].eventHash

\* What alterations leave of a row.
AlteredFrom(e, r) ==
  /\ e.previousHash = r.previousHash
  /\ e.eventHash = r.eventHash
  /\ e.eventHash3 \in {r.eventHash3, Null}
  /\ e.content.eventId = r.content.eventId
  /\ e.content.correlationId = r.content.correlationId

RowsAsRecorded ==
  ~ replaced => \A k \in DOMAIN events :
    RowId(k) \in DOMAIN recorded /\ AlteredFrom(events[k], recorded[RowId(k)])

-----------------------------------------------------------------------------
(***************************************************************************)
(* Properties                                                              *)
(***************************************************************************)
Agrees(p) == events[p.position].eventHash = p.digest

\* If the walk has come as far as a checkpoint and finds its digest there, the
\* events up to it are those the checkpoint was taken of: whatever rows were
\* altered, lost, replaced or recorded since, before or after it.
CheckpointsPinHistory ==
  \A n \in DOMAIN checkpoints :
    LET p == checkpoints[n] IN
      VerifiedCount(events) >= p.position /\ Agrees(p)
        => Contents(SubSeq(events, 1, p.position)) = p.contents

\* What the SHA-256 digest covers, and that digest, are as they were recorded.
AsRecorded(k) ==
  /\ RowId(k) \in DOMAIN recorded
  /\ LET e == events[k]  r == recorded[RowId(k)] IN
       /\ e.content = r.content /\ e.previousHash = r.previousHash
       /\ e.eventHash = r.eventHash
       /\ e.eventHash3 \in {r.eventHash3, Null}

\* Row k lies right behind the row it was recorded behind.
InPlace(k) == predecessor[RowId(k)] = IF k = 1 THEN NoEvent ELSE RowId(k - 1)

\* Unless a row was replaced, a chain that verifies holds what was recorded, each
\* row right behind the one it was recorded behind, as far as the SHA-256 digest
\* reaches.  README.md:21 promises more, "any mutation breaks every downstream
\* link": a SHA3 digest that is dropped is not missed (hash-chain.ts:120,
\* tests/crypto-hardening.test.ts:240), nor is a changed shadowMode or recordedAt.
NoSilentDamage ==
  ~ replaced /\ ChainVerifies(events) => \A k \in DOMAIN events : AsRecorded(k) /\ InPlace(k)

\* Damage is not blamed on the events before it: the rows before the first one
\* that was touched are counted as verified, under any limit.
UndamagedPrefixVerifies ==
  \A limit \in 0..MaxEvents :
    LET chain == GetChain(1, limit) IN VerifiedCount(chain) >= SmallerOf(untouched, Len(chain))
=============================================================================
