-------------------------- MODULE ExternalEvidence --------------------------
(***************************************************************************)
(* Evidence of a Merkle root outside the platform: the tokens of a         *)
(* timestamp authority (TimestampAuthorityClient, src/src/events/          *)
(* timestamp-authority.ts) and the anchors of external-anchor.ts.          *)
(*                                                                         *)
(* The authority and the network are external: a request may reach it late *)
(* or never, and it may answer nothing, headers without a body, an error,  *)
(* or what it has answered to another request.  A digest stands for what   *)
(* it is taken of; the times in requests and anchors are left out, as      *)
(* nothing compares them.                                                  *)
(***************************************************************************)
EXTENDS Naturals

CONSTANTS
  Root,      \* Merkle roots, digests of 64 hex digits
  NotHex,    \* a string that is no digest
  NotJson,   \* a string that does not parse
  Call,      \* calls of requestTimestamp that may be under way together
  MaxCount   \* bound: eventCount

ASSUME ParameterTypes ==
  /\ Root # {} /\ NotHex \notin Root
  /\ MaxCount \in Nat

\* An answer stamps a root; it names it if it is JSON with a messageImprint.
Answer == [stamps : Root, names : BOOLEAN]

Token == [requestHash : Root, responseHash : Answer, rawToken : Answer]

\* createTimestampRequest: the digest of a root and a count.
RequestHash(root, count) == [merkleRoot |-> root, eventCount |-> count]

AnyRoot == Root \cup {NotHex}
Bound == [merkleRoot : AnyRoot, eventCount : 0..MaxCount]

ASSUME NotBound == NotJson \notin Bound /\ NotHex \notin Bound

Anchor == [merkleRoot : AnyRoot, eventCount : 0..MaxCount, evidence : Bound \cup {NotJson},
           requestHash : Bound \cup {NotHex}]

VARIABLES
  usable,     \* whether the client is enabled and has a tsaUrl
  call,       \* call[c]: the request in slot c, or the token it has got
  inFlight,   \* roots on their way to the authority
  stamped,    \* roots that have reached it
  anchors     \* the anchors made so far

tsaVars == <<usable, call, inFlight, stamped>>
vars == <<tsaVars, anchors>>

\* timer: whether the timer that aborts the request is set.
CallState ==
  [step : {"idle", "fetching", "reading", "rejected"}, hash : Root, timer : BOOLEAN]
  \cup [step : {"done"}, token : Token, timer : BOOLEAN]

TypeOK ==
  /\ usable \in BOOLEAN
  /\ call \in [Call -> CallState]
  /\ inFlight \subseteq Root /\ stamped \subseteq Root
  /\ anchors \subseteq Anchor

Init ==
  /\ usable \in BOOLEAN
  /\ \E h \in Root : call = [c \in Call |-> [step |-> "idle", hash |-> h, timer |-> FALSE]]
  /\ inFlight = {} /\ stamped = {}
  /\ anchors = {}

-----------------------------------------------------------------------------
(***************************************************************************)
(* requestTimestamp, and timestampMerkleRoot, which only calls it.         *)
(***************************************************************************)
At(c, step) == call[c].step = step

UnderWay(c) == call[c].step \in {"fetching", "reading"}

\* The finally clause clears the timer, however the request ends.
Settle(c, end) == call' = [call EXCEPT ![c] = end]

Reject(c) == Settle(c, [step |-> "rejected", hash |-> call[c].hash, timer |-> FALSE])

\* A client that is not enabled, or has no URL, throws before it sends anything.
Request(c, h) ==
  /\ ~ UnderWay(c)
  /\ IF usable
     THEN /\ call' = [call EXCEPT ![c] = [step |-> "fetching", hash |-> h, timer |-> TRUE]]
          /\ inFlight' = inFlight \cup {h}
     ELSE /\ call' = [call EXCEPT ![c] = [step |-> "rejected", hash |-> h, timer |-> FALSE]]
          /\ UNCHANGED inFlight
  /\ UNCHANGED <<usable, stamped, anchors>>

\* A request reaches the authority, perhaps after its caller has given up.
Stamp(h) ==
  /\ h \in inFlight
  /\ inFlight' = inFlight \ {h}
  /\ stamped' = stamped \cup {h}
  /\ UNCHANGED <<usable, call, anchors>>

\* Mutant of Headers: the timer is cleared when fetch() has settled.
ClearedOnHeaders(c) ==
  /\ At(c, "fetching")
  /\ stamped # {}
  /\ call' = [call EXCEPT ![c].step = "reading", ![c].timer = FALSE]
  /\ UNCHANGED <<usable, inFlight, stamped, anchors>>

\* fetch() settles with a response that is ok; its body is awaited.
Headers(c) ==
  /\ At(c, "fetching")
  /\ stamped # {}
  /\ call' = [call EXCEPT ![c].step = "reading"]
  /\ UNCHANGED <<usable, inFlight, stamped, anchors>>

\* The body arrives: an answer to this request or to another one.
Body(c, answer) ==
  /\ At(c, "reading")
  /\ answer.stamps \in stamped
  /\ Settle(c, [step |-> "done", timer |-> FALSE,
                token |-> [requestHash |-> call[c].hash, responseHash |-> answer,
                           rawToken |-> answer]])
  /\ UNCHANGED <<usable, inFlight, stamped, anchors>>

\* No connection, a response that is not ok, or one that breaks off.
TsaFails(c) ==
  /\ UnderWay(c)
  /\ Reject(c)
  /\ UNCHANGED <<usable, inFlight, stamped, anchors>>

\* The timer aborts the request; what is answered later is dropped.
Timeout(c) ==
  /\ UnderWay(c)
  /\ call[c].timer
  /\ Reject(c)
  /\ UNCHANGED <<usable, inFlight, stamped, anchors>>

\* Mutant of VerifyTimestamp: the answer's own root is not looked at.
OnlyDigestsCompared(t) == t.rawToken = t.responseHash

\* An answer that names no root is taken for any.
VerifyTimestamp(t) ==
  /\ t.rawToken = t.responseHash
  /\ t.rawToken.names => t.rawToken.stamps = t.requestHash

-----------------------------------------------------------------------------
(***************************************************************************)
(* external-anchor.ts.                                                     *)
(***************************************************************************)
\* createGitTagAnchor and createRFC3161Request: root and count are not examined.
NewAnchor(root, count) ==
  [merkleRoot |-> root, eventCount |-> count,
   evidence |-> [merkleRoot |-> root, eventCount |-> count],
   requestHash |-> RequestHash(root, count)]

\* anchorMerkleRoot: rfc3161 needs an endpoint, other methods throw.
AnchorMerkleRoot(root, count, method, endpoint) ==
  /\ method = "git-tag" \/ (method = "rfc3161" /\ endpoint)
  /\ anchors' = {NewAnchor(root, count)}
  /\ UNCHANGED tsaVars

\* Mutant of VerifyAnchor: the evidence need only parse.
EvidenceParses(a) ==
  /\ a.merkleRoot # NotHex
  /\ a.eventCount > 0
  /\ a.evidence # NotJson
  /\ a.requestHash # NotHex

\* Of the evidence only the root is compared, of the request hash only its form.
VerifyAnchor(a) ==
  /\ a.merkleRoot # NotHex
  /\ a.eventCount > 0
  /\ a.evidence # NotJson /\ a.evidence.merkleRoot = a.merkleRoot
  /\ a.requestHash # NotHex

-----------------------------------------------------------------------------
Next ==
  \/ \E c \in Call, h \in Root : Request(c, h)
  \/ \E h \in Root : Stamp(h)
  \/ \E c \in Call : Headers(c) \/ TsaFails(c) \/ Timeout(c)
  \/ \E c \in Call, answer \in Answer : Body(c, answer)
  \/ \E root \in AnyRoot, count \in 0..MaxCount, endpoint \in BOOLEAN :
       \E method \in {"git-tag", "rfc3161", "dns-txt", "blockchain"} :
         AnchorMerkleRoot(root, count, method, endpoint)

Spec == Init /\ [][Next]_vars

\* A timer that is set goes off; the authority owes nothing.
Fairness == \A c \in Call : WF_vars(Timeout(c))

FairSpec == Spec /\ Fairness

-----------------------------------------------------------------------------
(***************************************************************************)
(* Properties                                                              *)
(***************************************************************************)

\* Every request comes to an end although the authority may be silent at any
\* point, after the headers as well.
EveryRequestSettles == \A c \in Call : UnderWay(c) ~> ~ UnderWay(c)

\* What x may become when the field f of it is altered.
Altered(x, f, values) == {[x EXCEPT ![f] = v] : v \in values \ {x[f]}}

AlteredTokens(t) ==
  Altered(t, "requestHash", Root) \cup Altered(t, "responseHash", Answer)
  \cup Altered(t, "rawToken", Answer)

\* However answers are mixed up, late or repeated, and whichever field of a token
\* is altered while it is kept: if the authority's answer names a root, a token
\* that verifies holds that answer, for that root, and the root was sent to it.
TokensAreOfTheirRoot ==
  \A c \in Call : At(c, "done") =>
    LET given == call[c].token.rawToken IN
      \A t \in {call[c].token} \cup AlteredTokens(call[c].token) :
        given.names /\ VerifyTimestamp(t) =>
          t.rawToken = given /\ t.requestHash = given.stamps /\ given.stamps \in stamped

AlteredAnchors(a) ==
  Altered(a, "merkleRoot", AnyRoot) \cup Altered(a, "eventCount", 0..MaxCount)
  \cup Altered(a, "evidence", Bound \cup {NotJson}) \cup Altered(a, "requestHash", Bound \cup {NotHex})

\* An anchor of a well-formed root with events verifies, and goes on doing so for
\* that root and no other whichever field is altered.
AnchorsKeepTheirRoot ==
  \A a \in anchors :
    /\ VerifyAnchor(a) <=> a.merkleRoot # NotHex /\ a.eventCount > 0
    /\ \A b \in AlteredAnchors(a) : VerifyAnchor(b) =>
         b.merkleRoot = a.merkleRoot /\ b.evidence # NotJson /\ b.evidence.merkleRoot = a.merkleRoot
=============================================================================
