---------------------------- MODULE SignedAudit ----------------------------
(***************************************************************************)
(* verifyChainAndSignatures (proof-plane.ts) over a damaged store: the     *)
(* chain of ChainAudit whose events carry Ed25519 signatures, and the key  *)
(* ring of EventSigningService (event-signatures.ts) that verifies them.   *)
(*                                                                         *)
(* A signature is idealised as [key, signer, of]: made with that private   *)
(* key, in the name of that signer, over the fields the event numbered of  *)
(* was recorded with.  It verifies against the same data and key only.     *)
(***************************************************************************)
EXTENDS ChainAudit

CONSTANTS
  Payload,       \* payloads of events
  Key,           \* key pairs
  Owner,         \* whom a public key may belong to
  ServiceId,     \* the signing service's serviceId
  NoSignature,   \* an event's absent signature
  NoKey          \* of an owner without a trusted key

Signature == [key : Key, signer : Owner, of : EventId] \cup {NoSignature}

ASSUME SignedParameterTypes ==
  /\ ServiceId \in Owner
  /\ NoKey \notin Key
  /\ Body = [payload : Payload, signedBy : Owner, signature : Signature]

VARIABLES
  privateKey,    \* the key the service signs with
  trustedKeys    \* trustedKeys[o]: the one public key it has for o

keyVars == <<privateKey, trustedKeys>>
signedVars == <<vars, keyVars>>

SignedTypeOK ==
  /\ TypeOK
  /\ privateKey \in Key
  /\ trustedKeys \in [Owner -> Key \cup {NoKey}]

\* The service trusts its own key.
SignedInit ==
  /\ Init
  /\ privateKey \in Key
  /\ trustedKeys = [o \in Owner |-> IF o = ServiceId THEN privateKey ELSE NoKey]

-----------------------------------------------------------------------------
\* sign() of the event that is about to be recorded.
SignatureOf(n) == [key |-> privateKey, signer |-> ServiceId, of |-> n]

\* A request may name a signedBy of its own, the emitter another; the service
\* signs as serviceId all the same.  Outside production an event whose signing
\* failed is recorded without.
SignedRecord(c, p, o) ==
  /\ \E s \in {SignatureOf(Len(recorded) + 1), NoSignature} :
       Record(c, [payload |-> p, signedBy |-> o, signature |-> s])
  /\ UNCHANGED keyVars

\* addTrustedKey and the constructor keep one key per owner, the last one given.
AddTrustedKey(o, k) ==
  /\ trustedKeys' = [trustedKeys EXCEPT ![o] = k]
  /\ UNCHANGED <<vars, privateKey>>

RemoveTrustedKey(o) ==
  /\ trustedKeys' = [trustedKeys EXCEPT ![o] = NoKey]
  /\ UNCHANGED <<vars, privateKey>>

\* A restart with a service that has another key of its own.
RotateKey(k) ==
  /\ privateKey' = k
  /\ trustedKeys' = [trustedKeys EXCEPT ![ServiceId] = k]
  /\ UNCHANGED vars

\* A fault may cost a row its signature; it cannot make one.
Available(k, b) == b.signature \in {NoSignature, events[k].content.body.signature}

\* A row is replaced by one that is linked to the row it now lies behind.
RelinkRow(k) ==
  /\ Fault(k)
  /\ events' = [events EXCEPT ![k] =
       SealedEvent(LatestHash(SubSeq(events, 1, k - 1)), events[k].content)]
  /\ replaced' = TRUE

SignedNext ==
  \/ \E c \in Correlation, p \in Payload, o \in Owner : SignedRecord(c, p, o)
  \/ Keep /\ UNCHANGED keyVars
  \/ \E k \in DOMAIN events :
       /\ \/ \E b \in Body : Available(k, b) /\ (AlterRow(k, b) \/ ReplaceRow(k, b))
          \/ DropHash3(k)
          \/ LoseRow(k)
          \/ RelinkRow(k)
       /\ UNCHANGED keyVars
  \/ \E o \in Owner, k \in Key : AddTrustedKey(o, k)
  \/ \E o \in Owner : RemoveTrustedKey(o)
  \/ \E k \in Key : RotateKey(k)

SignedSpec == SignedInit /\ [][SignedNext]_signedVars

-----------------------------------------------------------------------------
\* Mutant of SignableData: the signature does not cover the link.
UnlinkedData(e) ==
  [eventId |-> e.content.eventId, correlationId |-> e.content.correlationId,
   payload |-> e.content.body.payload]

SignableData(e) ==
  [eventId |-> e.content.eventId, correlationId |-> e.content.correlationId,
   payload |-> e.content.body.payload, previousHash |-> e.previousHash]

\* Mutant of SignatureVerifies: a key that was rotated out is still good.
AnyKeyVerifies(e) ==
  LET s == e.content.body.signature IN
    /\ s # NoSignature
    /\ s.signer = e.content.body.signedBy
    /\ SignableData(e) = SignableData(recorded[s.of])

SignatureVerifies(e) ==
  LET s == e.content.body.signature IN
    /\ s # NoSignature
    /\ s.key = trustedKeys[e.content.body.signedBy]
    /\ s.signer = e.content.body.signedBy
    /\ SignableData(e) = SignableData(recorded[s.of])

\* verifyEventSignatures: no event is unsigned, and none fails.
Success(chain) == \A k \in DOMAIN chain : SignatureVerifies(chain[k])

FullyVerified == ChainVerifies(events) /\ Success(events)

-----------------------------------------------------------------------------
\* A fully verified store holds what was recorded, each row right behind the one
\* it was recorded behind, even if rows were replaced by others whose digests
\* agree with them, or relinked over a row that was lost, and whichever keys came
\* and went ("Verify both chain integrity AND signatures", proof-plane.ts:561).
\* Only the signedBy of an event that named another one than serviceId, and its
\* digests with it, may have changed: to serviceId, which signed it.
FullyVerifiedIsAsRecorded ==
  FullyVerified =>
    \A k \in DOMAIN events :
      LET r == recorded[RowId(k)] IN
        /\ SignableData(events[k]) = SignableData(r)
        /\ r.content.body.signedBy = ServiceId => AsRecorded(k)
        /\ InPlace(k)

\* The chain of undamaged events verifies.  A row that is as it was recorded has
\* its signature verified, wherever damaged ones lie, if it was signed with the
\* key that is trusted now and names the service as its signer: an event that
\* named another one (event-emitter.ts:263) never does, although it was signed.
SignedEventsVerify ==
  /\ faults = 0 => ChainVerifies(events)
  /\ \A k \in DOMAIN events :
       LET b == events[k].content.body IN
         AsRecorded(k) =>
           (SignatureVerifies(events[k]) <=>
              /\ b.signature # NoSignature /\ b.signature.key = trustedKeys[ServiceId]
              /\ b.signedBy = ServiceId)
=============================================================================
