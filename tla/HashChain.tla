------------------------------ MODULE HashChain ------------------------------
(***************************************************************************)
(* The hash chain of src/src/events/hash-chain.ts: what the digests of an  *)
(* event commit to, and the verifier that walks a chain of events.         *)
(*                                                                         *)
(* SHA-256 and SHA3-256 are idealised as collision-free.  A digest is      *)
(* identified with what it is a digest of, and because every event hashes  *)
(* the digest of its predecessor, unfolding that preimage gives a sequence *)
(* of contents: the digest of an event whose previousHash is p and whose   *)
(* other hashed fields are c is Append(p, c).  Two digests are equal iff   *)
(* they unfold to the same sequence.  A digest of one algorithm is never   *)
(* compared with one of the other, so both have this representation.       *)
(*                                                                         *)
(* An event is a record with at least the fields                           *)
(*    content      : the hashed fields other than previousHash             *)
(*    previousHash : a digest, or Null in the first event of a chain       *)
(*    eventHash    : the SHA-256 digest stored with the event              *)
(*    eventHash3   : the SHA3-256 digest stored with it, Null when absent  *)
(* Fields that getHashableData drops (recordedAt, shadowMode and the       *)
(* verification fields) may be present in the record and are not hashed.   *)
(***************************************************************************)
EXTENDS Naturals, Sequences

\* JavaScript's null or undefined where a digest is expected.
Null == <<>>

\* The digests over contents drawn from C; the empty one is Null.
Digest(C) == Seq(C)

Event(C) == [content : C, previousHash : Digest(C),
             eventHash : Digest(C), eventHash3 : Digest(C)]

ComputeEventHash(e) == Append(e.previousHash, e.content)

ComputeEventHash3(e) == Append(e.previousHash, e.content)

VerifyEventHash(e) == ComputeEventHash(e) = e.eventHash

\* An absent SHA3-256 digest is a record written before the dual hash.
VerifyEventHash3(e) == e.eventHash3 # Null => ComputeEventHash3(e) = e.eventHash3

VerifyChainLink(events, i) ==
  events[i].previousHash = IF i = 1 THEN Null ELSE events[i - 1].eventHash

\* Mutant of EventVerifies: the link is not checked.
DigestsOnly(events, i) == VerifyEventHash(events[i]) /\ VerifyEventHash3(events[i])

EventVerifies(events, i) ==
  /\ VerifyEventHash(events[i])
  /\ VerifyEventHash3(events[i])
  /\ VerifyChainLink(events, i)

BrokenPositions(events) == {i \in 1..Len(events) : ~ EventVerifies(events, i)}

(***************************************************************************)
(* verifyChain: the walk stops at the first event that does not verify and *)
(* counts the events before it.                                            *)
(***************************************************************************)
ChainVerifies(events) == BrokenPositions(events) = {}

VerifiedCount(events) ==
  IF ChainVerifies(events)
  THEN Len(events)
  ELSE (CHOOSE i \in BrokenPositions(events) :
          \A j \in BrokenPositions(events) : i <= j) - 1

\* store.getLatestHash: the digest the next event will be linked to.
LatestHash(events) == IF events = <<>> THEN Null ELSE events[Len(events)].eventHash

(***************************************************************************)
(* The event the emitter builds: linked to previousHash, both digests      *)
(* computed over the finished content.                                     *)
(***************************************************************************)
SealedEvent(previousHash, content) ==
  [content      |-> content,
   previousHash |-> previousHash,
   eventHash    |-> Append(previousHash, content),
   eventHash3   |-> Append(previousHash, content)]

Contents(events) == [i \in 1..Len(events) |-> events[i].content]
=============================================================================
