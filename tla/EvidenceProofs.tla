--------------------------- MODULE EvidenceProofs ---------------------------
(***************************************************************************)
(* What the evidence proves that is kept outside the platform, and may be  *)
(* altered there: the log of a key ceremony, the tokens of a timestamp     *)
(* authority, and external anchors.                                        *)
(***************************************************************************)
EXTENDS KeyCeremony, ExternalEvidence, TLAPS

-----------------------------------------------------------------------------
(***************************************************************************)
(* What the hash and the attestation of a ceremony log say                 *)
(* (src/src/events/key-ceremony.ts), for any custodians, witnesses and     *)
(* keys and however often the log is extended, finalised, attested and     *)
(* edited.                                                                 *)
(*                                                                         *)
(* The one thing the proofs need of None is that the absent field of an    *)
(* object is no object.                                                    *)
(***************************************************************************)
\* undefined is not an attestation, a hash, a log, or a log with its key: this
\* is so of whatever is no record with just these fields.
AbsentIsNoObject ==
  /\ \A k, d : None # [key |-> k, data |-> d]
  /\ \A k, l : None # [key |-> k, log |-> l]
  /\ \A d, n, a : None # [detail |-> d, witnesses |-> n, selfAttestation |-> a]
  /\ \A d, c, w, a, h : None # [detail |-> d, custodian |-> c, witnesses |-> w,
                                selfAttestation |-> a, ceremonyHash |-> h]

IsLog(l) ==
  l \in [detail : Detail, custodian : Custodian, witnesses : Seq(Witness),
         selfAttestation : {l.selfAttestation}, ceremonyHash : {l.ceremonyHash}]

\* The hash of the log is that of the log as it was last finalised.
HashIsOfFinalised ==
  \/ finalised = None /\ log.ceremonyHash = None
  \/ finalised # None /\ IsLog(finalised) /\ log.ceremonyHash = Hashable(finalised)

\* The attestation of the log is that of the log as it was last attested.
AttestationIsOfAttested ==
  \/ attested = None /\ log.selfAttestation = None
  \/ /\ attested # None /\ attested.key \in Key /\ IsLog(attested.log)
     /\ log.selfAttestation = [key |-> attested.key, data |-> Attestable(attested.log)]

Lineage ==
  /\ IsLog(log)
  /\ steps \in 0..MaxSteps
  /\ HashIsOfFinalised
  /\ AttestationIsOfAttested

-----------------------------------------------------------------------------
LEMMA LineageInit == ASSUME CeremonyInit PROVE Lineage
<1>1. PICK d \in Detail, c \in Custodian :
        log = [detail |-> d, custodian |-> c, witnesses |-> <<>>,
               selfAttestation |-> None, ceremonyHash |-> None]
  BY DEF CeremonyInit, CreatedLogs
<1>2. <<>> \in Seq(Witness)
  OBVIOUS
<1>3. IsLog(log)
  BY <1>1, <1>2 DEF IsLog
<1>4. steps \in 0..MaxSteps
  BY CeremonyParameters DEF CeremonyInit
<1>5. QED
  BY <1>1, <1>3, <1>4 DEF CeremonyInit, Lineage, HashIsOfFinalised, AttestationIsOfAttested

\* An operation that leaves the hash and the attestation alone.
LEMMA LineageKept ==
  ASSUME Lineage, IsLog(log'), steps' \in 0..MaxSteps,
         UNCHANGED <<finalised, attested>>,
         log'.ceremonyHash = log.ceremonyHash, log'.selfAttestation = log.selfAttestation
  PROVE  Lineage'
BY DEF Lineage, HashIsOfFinalised, AttestationIsOfAttested, IsLog, Hashable, Attestable

LEMMA LineageNext ==
  ASSUME AbsentIsNoObject, Lineage, [CeremonyNext]_ceremonyVars
  PROVE  Lineage'
<1> USE DEF Lineage
<1>1. CASE UNCHANGED ceremonyVars
  BY <1>1, LineageKept DEF ceremonyVars, IsLog
<1>2. Operation => steps' \in 0..MaxSteps
  BY CeremonyParameters DEF Operation
<1>3. ASSUME NEW w \in Witness, AddWitness(w) PROVE Lineage'
  <2>1. IsLog(log') /\ log'.ceremonyHash = log.ceremonyHash
          /\ log'.selfAttestation = log.selfAttestation
    <3>1. log.witnesses \in Seq(Witness)
      BY DEF IsLog
    <3>2. Append(log.witnesses, w) \in Seq(Witness)
      BY <3>1
    <3>3. QED BY <1>3, <3>2 DEF AddWitness, IsLog
  <2>2. QED BY <1>2, <1>3, <2>1, LineageKept DEF AddWitness
<1>4. CASE FinalizeCeremonyLog
  <2>1. log' = [log EXCEPT !.ceremonyHash = Hashable(log)] /\ finalised' = log
          /\ attested' = attested /\ steps' \in 0..MaxSteps
    BY <1>2, <1>4 DEF FinalizeCeremonyLog
  <2>2. IsLog(log') /\ log'.ceremonyHash = Hashable(log)
          /\ log'.selfAttestation = log.selfAttestation
    BY <2>1 DEF IsLog
  <2>3. log # None
    BY DEF AbsentIsNoObject, IsLog
  <2>4. HashIsOfFinalised'
    BY <2>1, <2>2, <2>3 DEF HashIsOfFinalised, Hashable, IsLog
  <2>5. AttestationIsOfAttested'
    BY <2>1, <2>2 DEF AttestationIsOfAttested, Attestable, IsLog
  <2>6. QED BY <2>1, <2>2, <2>4, <2>5
<1>5. ASSUME NEW k \in Key, AttestCeremonyLog(k) PROVE Lineage'
  <2> DEFINE a == [key |-> k, data |-> Attestable(log)]
  <2>1. log' = [log EXCEPT !.selfAttestation = a] /\ attested' = [key |-> k, log |-> log]
          /\ finalised' = finalised /\ steps' \in 0..MaxSteps
    BY <1>2, <1>5 DEF AttestCeremonyLog
  <2>2. IsLog(log') /\ log'.ceremonyHash = log.ceremonyHash /\ log'.selfAttestation = a
    BY <2>1 DEF IsLog
  <2>3. attested' # None
    BY <2>1 DEF AbsentIsNoObject
  <2>4. AttestationIsOfAttested'
    BY <2>1, <2>2, <2>3 DEF AttestationIsOfAttested, Attestable, IsLog
  <2>5. HashIsOfFinalised'
    BY <2>1, <2>2 DEF HashIsOfFinalised, Hashable, IsLog
  <2>6. QED BY <2>1, <2>2, <2>4, <2>5
<1>6. CASE Edit
  <2>1. IsLog(log') /\ log'.ceremonyHash = log.ceremonyHash
          /\ log'.selfAttestation = log.selfAttestation
    <3>1. ASSUME NEW d \in Detail, log' = [log EXCEPT !.detail = d]
          PROVE  IsLog(log') /\ log'.ceremonyHash = log.ceremonyHash
                   /\ log'.selfAttestation = log.selfAttestation
      BY <3>1 DEF IsLog
    <3>2. ASSUME NEW c \in Custodian, log' = [log EXCEPT !.custodian = c]
          PROVE  IsLog(log') /\ log'.ceremonyHash = log.ceremonyHash
                   /\ log'.selfAttestation = log.selfAttestation
      BY <3>2 DEF IsLog
    <3>3. ASSUME NEW n \in DOMAIN log.witnesses, NEW w \in Witness,
                 log' = [log EXCEPT !.witnesses[n] = w]
          PROVE  IsLog(log') /\ log'.ceremonyHash = log.ceremonyHash
                   /\ log'.selfAttestation = log.selfAttestation
      <4>1. log.witnesses \in Seq(Witness)
        BY DEF IsLog
      <4>2. [log.witnesses EXCEPT ![n] = w] \in Seq(Witness)
        BY <4>1
      <4>3. QED BY <3>3, <4>2 DEF IsLog
    <3>4. ASSUME log.witnesses # <<>>, log' = [log EXCEPT !.witnesses = Tail(@)]
          PROVE  IsLog(log') /\ log'.ceremonyHash = log.ceremonyHash
                   /\ log'.selfAttestation = log.selfAttestation
      <4>1. log.witnesses \in Seq(Witness)
        BY DEF IsLog
      <4>2. Tail(log.witnesses) \in Seq(Witness)
        BY <3>4, <4>1
      <4>3. QED BY <3>4, <4>2 DEF IsLog
    <3>5. QED BY <1>6, <3>1, <3>2, <3>3, <3>4 DEF Edit
  <2>2. QED BY <1>2, <1>6, <2>1, LineageKept DEF Edit
<1>7. QED BY <1>1, <1>3, <1>4, <1>5, <1>6 DEF CeremonyNext

-----------------------------------------------------------------------------
LEMMA LineageTypes ==
  ASSUME AbsentIsNoObject, Lineage
  PROVE  CeremonyTypeOK
<1>1. DOMAIN log = LogFields /\ log.detail \in Detail /\ log.custodian \in Custodian
        /\ log.witnesses \in Seq(Witness) /\ steps \in 0..MaxSteps
  BY DEF Lineage, IsLog, LogFields
<1>2. log.selfAttestation # None => log.selfAttestation.key \in Key
  BY DEF Lineage, AttestationIsOfAttested
<1>3. log.ceremonyHash # None => log.ceremonyHash.witnesses \in Nat
  BY DEF Lineage, HashIsOfFinalised, Hashable, IsLog
<1>4. QED BY <1>1, <1>2, <1>3 DEF CeremonyTypeOK

LEMMA SameLength ==
  ASSUME NEW S, NEW s \in Seq(S), NEW t \in Seq(S)
  PROVE  Len(s) = Len(t) <=> DOMAIN s = DOMAIN t
<1>1. DOMAIN s = 1..Len(s) /\ DOMAIN t = 1..Len(t) /\ Len(s) \in Nat /\ Len(t) \in Nat
  OBVIOUS
<1>2. ASSUME 1..Len(s) = 1..Len(t) PROVE Len(s) = Len(t)
  <2> DEFINE m == Len(s)
             n == Len(t)
  <2>1. m \in Nat /\ n \in Nat /\ 1..m = 1..n
    BY <1>1, <1>2
  <2> HIDE DEF m, n
  <2>2. m \in 1..m \/ m = 0
    BY <2>1
  <2>3. n \in 1..n \/ n = 0
    BY <2>1
  <2>4. m = n
    BY <2>1, <2>2, <2>3
  <2>5. QED BY <2>4 DEF m, n
<1>3. QED BY <1>1, <1>2

LEMMA LineageHash ==
  ASSUME AbsentIsNoObject, Lineage
  PROVE  HashVerdict
<1>1. CASE finalised = None
  BY <1>1 DEF Lineage, HashIsOfFinalised, HashVerdict, HashValid
<1>2. CASE finalised # None
  <2>1. log.ceremonyHash = Hashable(finalised) /\ IsLog(finalised) /\ IsLog(log)
    BY <1>2 DEF Lineage, HashIsOfFinalised
  <2>2. log.ceremonyHash # None
    BY <2>1 DEF AbsentIsNoObject, Hashable
  <2>3. Hashable(finalised) = Hashable(log) <=>
          /\ log.detail = finalised.detail
          /\ Len(log.witnesses) = Len(finalised.witnesses)
          /\ log.selfAttestation = finalised.selfAttestation
    BY DEF Hashable
  <2>4. Len(log.witnesses) = Len(finalised.witnesses)
          <=> DOMAIN log.witnesses = DOMAIN finalised.witnesses
    BY <2>1, SameLength DEF IsLog
  <2>5. QED BY <1>2, <2>1, <2>2, <2>3, <2>4 DEF HashVerdict, HashValid
<1>3. QED BY <1>1, <1>2

LEMMA LineageAttestation ==
  ASSUME AbsentIsNoObject, Lineage
  PROVE  AttestationVerdict
<1> SUFFICES ASSUME NEW k \in Key
             PROVE  SelfAttestationValid(log, k) <=>
                      /\ attested # None /\ attested.key = k
                      /\ \A f \in LogFields \ {"selfAttestation"} : log[f] = attested.log[f]
  BY DEF AttestationVerdict
<1>1. CASE attested = None
  BY <1>1 DEF Lineage, AttestationIsOfAttested, SelfAttestationValid
<1>2. CASE attested # None
  <2>1. /\ IsLog(log) /\ IsLog(attested.log)
        /\ log.selfAttestation = [key |-> attested.key, data |-> Attestable(attested.log)]
    BY <1>2 DEF Lineage, AttestationIsOfAttested
  <2>2. log.selfAttestation # None
    BY <2>1 DEF AbsentIsNoObject
  <2>3. k # None
    BY CeremonyParameters
  <2>4. Attestable(attested.log) = Attestable(log) <=>
          /\ log.detail = attested.log.detail /\ log.custodian = attested.log.custodian
          /\ log.witnesses = attested.log.witnesses
          /\ log.ceremonyHash = attested.log.ceremonyHash
    BY <2>1 DEF IsLog, Attestable
  <2>5. (\A f \in LogFields \ {"selfAttestation"} : log[f] = attested.log[f]) <=>
          /\ log.detail = attested.log.detail /\ log.custodian = attested.log.custodian
          /\ log.witnesses = attested.log.witnesses
          /\ log.ceremonyHash = attested.log.ceremonyHash
    BY DEF LogFields
  <2>6. SelfAttestationValid(log, k) <=>
          attested.key = k /\ Attestable(attested.log) = Attestable(log)
    BY <2>1, <2>2, <2>3 DEF SelfAttestationValid
  <2>7. QED BY <1>2, <2>4, <2>5, <2>6
<1>3. QED BY <1>1, <1>2

-----------------------------------------------------------------------------
LEMMA LineageAlways ==
  ASSUME AbsentIsNoObject
  PROVE  CeremonySpec => []Lineage
<1>1. CeremonyInit => Lineage
  BY LineageInit
<1>2. Lineage /\ [CeremonyNext]_ceremonyVars => Lineage'
  BY LineageNext
<1>3. QED BY <1>1, <1>2, PTL DEF CeremonySpec

\* The variables have their types: the fields of the log, and those of its hash
\* and its attestation that are read.
THEOREM CeremonyTypeCorrect ==
  ASSUME AbsentIsNoObject
  PROVE  CeremonySpec => []CeremonyTypeOK
BY LineageAlways, LineageTypes, PTL

\* computeCeremonyHash and the hash check of verifyCeremonyLog: the hash is valid
\* exactly while the log has the plain fields, the number of witnesses and the
\* attestation it was last finalised with.
THEOREM HashSaysThisMuch ==
  ASSUME AbsentIsNoObject
  PROVE  CeremonySpec => []HashVerdict
BY LineageAlways, LineageHash, PTL

\* attestCeremonyLog and the attestation check of verifyCeremonyLog: the
\* attestation is valid exactly while all the rest, the hash included, is as it
\* was when that key last attested the log.
THEOREM AttestationSaysThisMuch ==
  ASSUME AbsentIsNoObject
  PROVE  CeremonySpec => []AttestationVerdict
BY LineageAlways, LineageAttestation, PTL

-----------------------------------------------------------------------------
(***************************************************************************)
(* What tokens and anchors prove (timestamp-authority.ts and               *)
(* external-anchor.ts under src/src/events/), for any number of requests   *)
(* and roots, and however the authority mixes up its answers.  That every  *)
(* request comes to an end is liveness and left to TLC.                    *)
(***************************************************************************)
\* A token holds one answer twice, and the root in it had reached the authority.
TokensAreAnswers ==
  \A c \in Call : At(c, "done") =>
    /\ call[c].token.responseHash = call[c].token.rawToken
    /\ call[c].token.rawToken.stamps \in stamped

AnchorsAreNew ==
  \A a \in anchors : \E root \in AnyRoot, count \in 0..MaxCount : a = NewAnchor(root, count)

Evidence == TypeOK /\ TokensAreAnswers /\ AnchorsAreNew

-----------------------------------------------------------------------------
(***************************************************************************)
(* What a call may be, by its step.                                        *)
(***************************************************************************)
LEMMA CallParts ==
  ASSUME NEW s \in CallState
  PROVE  /\ s.step # "done" => s.hash \in Root
         /\ s.step = "done" => s.token \in Token
         /\ s.timer \in BOOLEAN
BY DEF CallState

LEMMA NewAnchorTypes ==
  ASSUME NEW root \in AnyRoot, NEW count \in 0..MaxCount
  PROVE  NewAnchor(root, count) \in Anchor
BY DEF NewAnchor, Anchor, Bound, RequestHash

\* The call in slot c goes on to s, that of no other slot.
LEMMA CallGoesOn ==
  ASSUME Evidence, NEW c \in Call, NEW s \in CallState,
         call' = [call EXCEPT ![c] = s],
         usable' = usable, anchors' = anchors,
         inFlight' \subseteq Root, stamped' = stamped,
         s.step = "done" => s.token.responseHash = s.token.rawToken
                              /\ s.token.rawToken.stamps \in stamped
  PROVE  Evidence'
<1>1. call' \in [Call -> CallState]
  BY DEF Evidence, TypeOK
<1>2. TypeOK'
  BY <1>1 DEF Evidence, TypeOK
<1>3. \A d \in Call : call'[d] = IF d = c THEN s ELSE call[d]
  BY DEF Evidence, TypeOK
<1>4. TokensAreAnswers'
  BY <1>3 DEF Evidence, TokensAreAnswers, At
<1>5. AnchorsAreNew'
  BY DEF Evidence, AnchorsAreNew
<1>6. QED BY <1>2, <1>4, <1>5 DEF Evidence

LEMMA EvidenceInit == ASSUME Init PROVE Evidence
<1>1. TypeOK
  BY DEF Init, TypeOK, CallState
<1>2. TokensAreAnswers
  BY DEF Init, TokensAreAnswers, At
<1>3. AnchorsAreNew
  BY DEF Init, AnchorsAreNew
<1>4. QED BY <1>1, <1>2, <1>3 DEF Evidence

LEMMA EvidenceNext == ASSUME Evidence, [Next]_vars PROVE Evidence'
<1>0. /\ TypeOK
      /\ call \in [Call -> CallState]
  BY DEF Evidence, TypeOK
<1>1. CASE UNCHANGED vars
  BY <1>1 DEF vars, tsaVars, Evidence, TypeOK, TokensAreAnswers, AnchorsAreNew, At
<1>2. ASSUME NEW c \in Call, NEW h \in Root, Request(c, h) PROVE Evidence'
  <2> DEFINE s == [step |-> IF usable THEN "fetching" ELSE "rejected", hash |-> h,
                   timer |-> usable]
  <2>1. s \in CallState
    BY <1>0 DEF CallState, TypeOK
  <2>2. call' = [call EXCEPT ![c] = s]
    BY <1>0, <1>2 DEF Request, TypeOK
  <2>3. inFlight' \subseteq Root
    BY <1>0, <1>2 DEF Request, TypeOK
  <2>4. s.step # "done"
    OBVIOUS
  <2>5. UNCHANGED <<usable, stamped, anchors>>
    BY <1>2 DEF Request
  <2> HIDE DEF s
  <2>6. QED BY <2>1, <2>2, <2>3, <2>4, <2>5, CallGoesOn
<1>3. ASSUME NEW h \in Root, Stamp(h) PROVE Evidence'
  <2>1. TypeOK'
    BY <1>0, <1>3 DEF Stamp, TypeOK
  <2>2. TokensAreAnswers'
    BY <1>3 DEF Stamp, Evidence, TokensAreAnswers, At
  <2>3. AnchorsAreNew'
    BY <1>3 DEF Stamp, Evidence, AnchorsAreNew
  <2>4. QED BY <2>1, <2>2, <2>3 DEF Evidence
<1>4. ASSUME NEW c \in Call, Headers(c) PROVE Evidence'
  <2> DEFINE s == [call[c] EXCEPT !.step = "reading"]
  <2>1. call' = [call EXCEPT ![c] = s] /\ UNCHANGED <<usable, inFlight, stamped, anchors>>
    BY <1>4 DEF Headers
  <2>2. call[c] \in CallState /\ call[c].step = "fetching"
    BY <1>0, <1>4 DEF Headers, At
  <2>3. s \in CallState /\ s.step # "done"
    BY <2>2 DEF CallState
  <2>4. inFlight' \subseteq Root
    BY <1>0, <2>1 DEF TypeOK
  <2> HIDE DEF s
  <2>5. QED BY <2>1, <2>3, <2>4, CallGoesOn
<1>5. ASSUME NEW c \in Call, Reject(c), UnderWay(c), UNCHANGED <<usable, inFlight, stamped, anchors>>
      PROVE  Evidence'
  <2> DEFINE s == [step |-> "rejected", hash |-> call[c].hash, timer |-> FALSE]
  <2>1. call' = [call EXCEPT ![c] = s]
    BY <1>5 DEF Reject, Settle
  <2>2. s \in CallState /\ s.step # "done"
    BY <1>0, <1>5, CallParts DEF UnderWay, CallState
  <2>3. inFlight' \subseteq Root
    BY <1>0, <1>5 DEF TypeOK
  <2> HIDE DEF s
  <2>4. QED BY <1>5, <2>1, <2>2, <2>3, CallGoesOn
<1>6. ASSUME NEW c \in Call, NEW answer \in Answer, Body(c, answer) PROVE Evidence'
  <2> DEFINE t == [requestHash |-> call[c].hash, responseHash |-> answer, rawToken |-> answer]
             s == [step |-> "done", timer |-> FALSE, token |-> t]
  <2>1. call' = [call EXCEPT ![c] = s] /\ UNCHANGED <<usable, inFlight, stamped, anchors>>
    BY <1>6 DEF Body, Settle
  <2>2. call[c].hash \in Root
    BY <1>0, <1>6, CallParts DEF Body, At
  <2>3. t \in Token
    BY <2>2 DEF Token
  <2>4. s \in CallState
    BY <2>3 DEF CallState
  <2>5. s.token.responseHash = s.token.rawToken /\ s.token.rawToken.stamps \in stamped
    BY <1>6 DEF Body
  <2>6. inFlight' \subseteq Root
    BY <1>0, <2>1 DEF TypeOK
  <2> HIDE DEF s
  <2>7. QED BY <2>1, <2>4, <2>5, <2>6, CallGoesOn
<1>7. ASSUME NEW root \in AnyRoot, NEW count \in 0..MaxCount, NEW endpoint \in BOOLEAN,
             NEW method, AnchorMerkleRoot(root, count, method, endpoint)
      PROVE  Evidence'
  <2>1. anchors' = {NewAnchor(root, count)} /\ UNCHANGED tsaVars
    BY <1>7 DEF AnchorMerkleRoot
  <2>2. TypeOK'
    BY <1>0, <2>1, NewAnchorTypes DEF TypeOK, tsaVars
  <2>3. TokensAreAnswers'
    BY <2>1 DEF Evidence, TokensAreAnswers, At, tsaVars
  <2>4. AnchorsAreNew'
    BY <2>1 DEF AnchorsAreNew
  <2>5. QED BY <2>2, <2>3, <2>4 DEF Evidence
<1>8. ASSUME NEW c \in Call, TsaFails(c) \/ Timeout(c) PROVE Evidence'
  BY <1>5, <1>8 DEF TsaFails, Timeout
<1>9. QED BY <1>1, <1>2, <1>3, <1>4, <1>6, <1>7, <1>8 DEF Next

-----------------------------------------------------------------------------
LEMMA EvidenceTokens == ASSUME Evidence PROVE TokensAreOfTheirRoot
<1> SUFFICES ASSUME NEW c \in Call, At(c, "done"),
                    NEW t \in {call[c].token} \cup AlteredTokens(call[c].token),
                    call[c].token.rawToken.names, VerifyTimestamp(t)
             PROVE  /\ t.rawToken = call[c].token.rawToken
                    /\ t.requestHash = call[c].token.rawToken.stamps
                    /\ call[c].token.rawToken.stamps \in stamped
  BY DEF TokensAreOfTheirRoot
<1> DEFINE k == call[c].token
<1>1. k \in Token /\ k.responseHash = k.rawToken /\ k.rawToken.stamps \in stamped
        /\ k.rawToken.names
  BY CallParts DEF Evidence, TypeOK, TokensAreAnswers, At
<1> HIDE DEF k
<1>2. t.rawToken = t.responseHash /\ (t.rawToken.names => t.rawToken.stamps = t.requestHash)
  BY DEF VerifyTimestamp
<1>3. CASE t = k
  BY <1>1, <1>2, <1>3 DEF k
<1>4. CASE \E v \in Root : t = [k EXCEPT !.requestHash = v]
  BY <1>1, <1>2, <1>4 DEF k, Token
<1>5. CASE \E v \in Answer \ {k.responseHash} : t = [k EXCEPT !.responseHash = v]
  BY <1>1, <1>2, <1>5 DEF k, Token
<1>6. CASE \E v \in Answer \ {k.rawToken} : t = [k EXCEPT !.rawToken = v]
  BY <1>1, <1>2, <1>6 DEF k, Token
<1>7. QED
  BY <1>3, <1>4, <1>5, <1>6 DEF k, AlteredTokens, Altered

LEMMA EvidenceAnchors == ASSUME Evidence PROVE AnchorsKeepTheirRoot
<1> SUFFICES ASSUME NEW root \in AnyRoot, NEW count \in 0..MaxCount, NEW a,
                    a = NewAnchor(root, count)
             PROVE  /\ VerifyAnchor(a) <=> a.merkleRoot # NotHex /\ a.eventCount > 0
                    /\ \A b \in AlteredAnchors(a) : VerifyAnchor(b) =>
                         /\ b.merkleRoot = a.merkleRoot
                         /\ b.evidence # NotJson /\ b.evidence.merkleRoot = a.merkleRoot
  BY DEF Evidence, AnchorsAreNew, AnchorsKeepTheirRoot
<1>1. a \in Anchor
  BY NewAnchorTypes
<1>2. /\ a.evidence \in Bound /\ a.requestHash \in Bound
      /\ a.merkleRoot = root /\ a.eventCount = count /\ a.evidence.merkleRoot = root
  BY DEF NewAnchor, Bound, RequestHash
<1>3. a.evidence # NotJson /\ a.requestHash # NotHex
  BY <1>2, NotBound
<1>4. VerifyAnchor(a) <=> a.merkleRoot # NotHex /\ a.eventCount > 0
  BY <1>2, <1>3 DEF VerifyAnchor
<1>5. ASSUME NEW b \in AlteredAnchors(a), VerifyAnchor(b)
      PROVE  /\ b.merkleRoot = a.merkleRoot
             /\ b.evidence # NotJson /\ b.evidence.merkleRoot = a.merkleRoot
  <2>1. b.evidence # NotJson /\ b.evidence.merkleRoot = b.merkleRoot
    BY <1>5 DEF VerifyAnchor
  <2>2. b.evidence = a.evidence \/ b.merkleRoot = a.merkleRoot
    BY <1>1, <1>5 DEF AlteredAnchors, Altered, Anchor
  <2>3. QED BY <1>2, <2>1, <2>2
<1>6. QED BY <1>4, <1>5

-----------------------------------------------------------------------------
LEMMA EvidenceAlways == Spec => []Evidence
BY EvidenceInit, EvidenceNext, PTL DEF Spec

\* The variables have their types.
THEOREM EvidenceTypeCorrect == Spec => []TypeOK
<1>1. Evidence => TypeOK
  BY DEF Evidence
<1>2. QED BY <1>1, EvidenceAlways, PTL

\* requestTimestamp and verifyTimestamp, with any number of requests at once:
\* however answers are mixed up and whichever field is altered, if the answer
\* names a root, a token that verifies is that answer, for that root, which was
\* sent to the authority.
THEOREM TokensProveTheirRoot == Spec => []TokensAreOfTheirRoot
BY EvidenceAlways, EvidenceTokens, PTL

\* anchorMerkleRoot and verifyAnchor: an anchor of a well-formed root with events
\* verifies, and for that root and no other whichever field is altered.
THEOREM AnchorsProveTheirRoot == Spec => []AnchorsKeepTheirRoot
BY EvidenceAlways, EvidenceAnchors, PTL
=============================================================================
