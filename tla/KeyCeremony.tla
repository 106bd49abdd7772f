----------------------------- MODULE KeyCeremony -----------------------------
(***************************************************************************)
(* The log of a key ceremony (src/src/events/key-ceremony.ts) from its     *)
(* creation on: witnesses countersign, the new key attests it, it is       *)
(* finalised with a hash, in any order and any number of times, and it is  *)
(* kept as a file that may change.  Every operation returns a new log, so  *)
(* one variable follows one lineage of logs, and the choices of            *)
(* CeremonyNext all of them.                                               *)
(*                                                                         *)
(* SHA-256 and Ed25519 are idealised: a hash is what was hashed, and an    *)
(* attestation is the key with what it signed.                             *)
(***************************************************************************)
EXTENDS Naturals, Sequences

CONSTANTS
  Detail,      \* the fields of a log that are not objects, taken as one
  Custodian,   \* names of custodians
  Witness,     \* countersignatures
  Incomplete,  \* those of these with a required field missing
  Key,         \* key pairs
  None,        \* an absent field
  MaxSteps     \* bound: operations on a log

ASSUME CeremonyParameters ==
  Incomplete \subseteq Detail \cup Custodian \cup Witness /\ None \notin Key /\ MaxSteps \in Nat

VARIABLES
  log,        \* the log
  finalised,  \* the log as it was last finalised, or None
  attested,   \* the log as it was last attested, and the key, or None
  steps       \* operations so far

ceremonyVars == <<log, finalised, attested, steps>>

LogFields ==
  {"detail", "custodian", "witnesses", "selfAttestation", "ceremonyHash"}

CeremonyTypeOK ==
  /\ DOMAIN log = LogFields
  /\ log.detail \in Detail /\ log.custodian \in Custodian
  /\ log.witnesses \in Seq(Witness)
  /\ log.selfAttestation # None => log.selfAttestation.key \in Key
  /\ log.ceremonyHash # None => log.ceremonyHash.witnesses \in Nat
  /\ steps \in 0..MaxSteps

\* createCeremonyLog.
CreatedLogs ==
  {[detail |-> d, custodian |-> c, witnesses |-> <<>>,
    selfAttestation |-> None, ceremonyHash |-> None] : d \in Detail, c \in Custodian}

CeremonyInit ==
  /\ log \in CreatedLogs
  /\ finalised = None /\ attested = None
  /\ steps = 0

-----------------------------------------------------------------------------
\* Mutant of Hashable: the attestation is blanked like the hash itself.
WithoutAttestation(l) == [detail |-> l.detail, witnesses |-> Len(l.witnesses), selfAttestation |-> None]

(***************************************************************************)
(* What computeCeremonyHash serialises.  The list of keys it gives to      *)
(* JSON.stringify holds at every depth, so that an object inside the log   *)
(* is written as {} and a list of witnesses as so many times {}.  What is  *)
(* said here of the custodian holds for shamirConfig as well.              *)
(***************************************************************************)
Hashable(l) ==
  [detail |-> l.detail, witnesses |-> Len(l.witnesses), selfAttestation |-> l.selfAttestation]

\* Mutant of Attestable: only the fields that are not objects are signed.
PlainFields(l) == [detail |-> l.detail, ceremonyHash |-> l.ceremonyHash]

\* What attestCeremonyLog signs: all of the log but the attestation.
Attestable(l) == [l EXCEPT !.selfAttestation = None]

Operation ==
  /\ steps < MaxSteps
  /\ steps' = steps + 1

AddWitness(w) ==
  /\ Operation
  /\ log' = [log EXCEPT !.witnesses = Append(@, w)]
  /\ UNCHANGED <<finalised, attested>>

FinalizeCeremonyLog ==
  /\ Operation
  /\ log' = [log EXCEPT !.ceremonyHash = Hashable(log)]
  /\ finalised' = log
  /\ UNCHANGED attested

AttestCeremonyLog(k) ==
  /\ Operation
  /\ log' = [log EXCEPT !.selfAttestation = [key |-> k, data |-> Attestable(log)]]
  /\ attested' = [key |-> k, log |-> log]
  /\ UNCHANGED finalised

\* The file the log is kept in is edited, without its key and without its hash.
Edit ==
  /\ Operation
  /\ \/ \E d \in Detail : log' = [log EXCEPT !.detail = d]
     \/ \E c \in Custodian : log' = [log EXCEPT !.custodian = c]
     \/ \E n \in DOMAIN log.witnesses, w \in Witness : log' = [log EXCEPT !.witnesses[n] = w]
     \/ /\ log.witnesses # <<>>
        /\ log' = [log EXCEPT !.witnesses = Tail(@)]
  /\ UNCHANGED <<finalised, attested>>

CeremonyNext ==
  \/ \E w \in Witness : AddWitness(w)
  \/ FinalizeCeremonyLog
  \/ \E k \in Key : AttestCeremonyLog(k)
  \/ Edit

CeremonySpec == CeremonyInit /\ [][CeremonyNext]_ceremonyVars

-----------------------------------------------------------------------------
(***************************************************************************)
(* verifyCeremonyLog(log, publicKey), publicKey being None if not given.   *)
(***************************************************************************)
HashValid(l) == l.ceremonyHash # None /\ l.ceremonyHash = Hashable(l)

SelfAttestationValid(l, publicKey) ==
  /\ l.selfAttestation # None /\ publicKey # None
  /\ l.selfAttestation = [key |-> publicKey, data |-> Attestable(l)]

Witnessed(l) ==
  /\ l.witnesses # <<>>
  /\ \A n \in DOMAIN l.witnesses : l.witnesses[n] \notin Incomplete

\* The structural validation: no required field is missing.
WellFormed(l) == l.detail \notin Incomplete /\ l.custodian \notin Incomplete

Valid(l, publicKey) ==
  WellFormed(l) /\ Witnessed(l) /\ HashValid(l) /\ SelfAttestationValid(l, publicKey)

-----------------------------------------------------------------------------
(***************************************************************************)
(* Properties                                                              *)
(***************************************************************************)

\* The hash is valid exactly while the log has the plain fields, the number of
\* witnesses and the attestation that it was last finalised with, whatever was
\* added, attested or edited since; it says nothing of who the custodian and the
\* witnesses are.
HashVerdict ==
  HashValid(log) <=>
    /\ finalised # None
    /\ log.detail = finalised.detail
    /\ DOMAIN log.witnesses = DOMAIN finalised.witnesses
    /\ log.selfAttestation = finalised.selfAttestation

\* The attestation is valid exactly while everything else, the hash included, is
\* as it was when that key last attested it.
AttestationVerdict ==
  \A k \in Key :
    SelfAttestationValid(log, k) <=>
      /\ attested # None /\ attested.key = k
      /\ \A f \in LogFields \ {"selfAttestation"} : log[f] = attested.log[f]

\* A log without missing fields that was witnessed, attested with its key and then finalised, and not
\* touched since, is valid ("Call this after all witnesses have signed and
\* self-attestation is complete", key-ceremony.ts:166).
InOrder ==
  /\ attested # None /\ finalised # None
  /\ finalised = [attested.log EXCEPT !.selfAttestation = finalised.selfAttestation]
  /\ finalised.selfAttestation = [key |-> attested.key, data |-> Attestable(attested.log)]
  /\ log = [finalised EXCEPT !.ceremonyHash = Hashable(finalised)]

DocumentedOrderVerifies == InOrder /\ WellFormed(log) /\ Witnessed(log) => Valid(log, attested.key)
=============================================================================
