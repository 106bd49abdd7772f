-------------------------- MODULE HashChainProofs --------------------------
(***************************************************************************)
(* What a positive answer of verifyChain is worth, for chains of any       *)
(* length over any contents: the latest hash commits to every event before *)
(* it.  The induction along the chain is NatSetInduction, over the set of  *)
(* lengths for which the claim holds.                                      *)
(***************************************************************************)
EXTENDS HashChain, SequenceTheorems, WellFoundedInduction, TLAPS

-----------------------------------------------------------------------------
(***************************************************************************)
(* Induction over the naturals in first-order form.  The induction rules   *)
(* of NaturalsInduction take an operator as a parameter; these two take a  *)
(* set and follow from the well-foundedness of < on Nat.                   *)
(***************************************************************************)
\* Every non-empty set of naturals has a least element.
LEMMA LeastNat ==
  ASSUME NEW T, T \subseteq Nat, T # {}
  PROVE  \E m \in T : \A k \in T : m <= k
<1> DEFINE R == OpToRel(<, Nat)
<1>1. IsWellFoundedOn(R, Nat)
  BY NatLessThanWellFounded
<1>2. \E m \in T : \A k \in T : ~ (<<k, m>> \in R)
  <2> HIDE DEF R
  <2> QED BY <1>1, WFMin
<1>3. \A k, m \in Nat : k < m => <<k, m>> \in R
  BY DEF OpToRel
<1> HIDE DEF R
<1>4. PICK m \in T : \A k \in T : ~ (<<k, m>> \in R)
  BY <1>2
<1>5. ASSUME NEW k \in T PROVE m <= k
  <2>1. ~ (<<k, m>> \in R)
    BY <1>4
  <2>2. k \in Nat /\ m \in Nat
    OBVIOUS
  <2>3. ~ (k < m)
    BY <1>3, <2>1, <2>2
  <2>4. QED BY <2>2, <2>3
<1>6. QED
  BY <1>5

\* A set that holds 0 and the successor of each natural it holds is all of Nat.
LEMMA NatSetInduction ==
  ASSUME NEW T, 0 \in T, \A n \in Nat : n \in T => n + 1 \in T
  PROVE  Nat \subseteq T
<1> SUFFICES ASSUME Nat \ T # {} PROVE FALSE
  OBVIOUS
<1>1. PICK m \in Nat \ T : \A k \in Nat \ T : m <= k
  <2>1. Nat \ T \subseteq Nat
    OBVIOUS
  <2>2. QED BY <2>1, LeastNat
<1>2. m # 0
  BY <1>1
<1>3. m - 1 \in Nat /\ m - 1 \in T
  BY <1>1, <1>2
<1>4. (m - 1) + 1 \in T
  BY <1>3
<1>5. QED BY <1>1, <1>2, <1>4

-----------------------------------------------------------------------------
(***************************************************************************)
(* Chains and their digests.                                               *)
(***************************************************************************)

LEMMA LatestHashType ==
  ASSUME NEW C, NEW s \in Seq(Event(C))
  PROVE  LatestHash(s) \in Digest(C)
<1>1. CASE s = <<>>
  BY <1>1 DEF LatestHash, Digest, Null
<1>2. CASE s # <<>>
  <2>1. Len(s) \in 1..Len(s)
    BY <1>2
  <2>2. s[Len(s)] \in Event(C)
    BY <2>1
  <2>3. QED BY <1>2, <2>2 DEF LatestHash, Event
<1>3. QED BY <1>1, <1>2

LEMMA SealedEventType ==
  ASSUME NEW C, NEW p \in Digest(C), NEW c \in C
  PROVE  SealedEvent(p, c) \in Event(C)
BY DEF SealedEvent, Event, Digest

\* The first n contents of a chain, which the digest of event n must unfold to.
PrefixContents(events, n) == [i \in 1..n |-> events[i].content]

LEMMA PrefixContentsType ==
  ASSUME NEW C, NEW events \in Seq(Event(C)), NEW n \in 0..Len(events)
  PROVE  /\ PrefixContents(events, n) \in Seq(C)
         /\ Len(PrefixContents(events, n)) = n
         /\ \A i \in 1..n : PrefixContents(events, n)[i] = events[i].content
<1>1. \A i \in 1..n : events[i].content \in C
  <2>1. \A i \in 1..n : events[i] \in Event(C)
    OBVIOUS
  <2>2. QED BY <2>1 DEF Event
<1>2. n \in Nat
  OBVIOUS
<1>3. QED BY <1>1, <1>2 DEF PrefixContents

LEMMA PrefixContentsStep ==
  ASSUME NEW C, NEW events \in Seq(Event(C)), NEW n \in Nat, n + 1 <= Len(events)
  PROVE  PrefixContents(events, n + 1)
           = Append(PrefixContents(events, n), events[n + 1].content)
<1> DEFINE p == PrefixContents(events, n)
           q == PrefixContents(events, n + 1)
           c == events[n + 1].content
<1>1. /\ p \in Seq(C) /\ Len(p) = n
      /\ \A i \in 1..n : p[i] = events[i].content
  BY PrefixContentsType
<1>2. /\ q \in Seq(C) /\ Len(q) = n + 1
      /\ \A i \in 1..(n + 1) : q[i] = events[i].content
  BY PrefixContentsType
<1>3. c \in C
  <2>1. events[n + 1] \in Event(C)
    OBVIOUS
  <2>2. QED BY <2>1 DEF Event
<1> HIDE DEF p, q, c
<1>4. /\ Append(p, c) \in Seq(C) /\ Len(Append(p, c)) = n + 1
      /\ \A i \in 1..n : Append(p, c)[i] = p[i]
      /\ Append(p, c)[n + 1] = c
  BY <1>1, <1>3, AppendProperties
<1>5. \A i \in 1..(n + 1) : q[i] = Append(p, c)[i]
  <2>1. TAKE i \in 1..(n + 1)
  <2>2. CASE i \in 1..n
    BY <1>1, <1>2, <1>4, <2>2
  <2>3. CASE i = n + 1
    BY <1>2, <1>4, <2>3 DEF c
  <2>4. i \in 1..n \/ i = n + 1
    OBVIOUS
  <2>5. QED BY <2>2, <2>3, <2>4
<1>6. q = Append(p, c)
  BY <1>2, <1>4, <1>5, SeqEqual
<1>7. QED BY <1>6 DEF p, q, c

\* In a chain that verifies, the digest of event n unfolds to the first n contents.
LEMMA DigestUnfolds ==
  ASSUME NEW C, NEW events \in Seq(Event(C)), ChainVerifies(events)
  PROVE  \A n \in 1..Len(events) : events[n].eventHash = PrefixContents(events, n)
<1>1. \A i \in 1..Len(events) :
        /\ events[i].eventHash = Append(events[i].previousHash, events[i].content)
        /\ events[i].previousHash = IF i = 1 THEN Null ELSE events[i - 1].eventHash
  <2>1. TAKE i \in 1..Len(events)
  <2>2. EventVerifies(events, i)
    BY DEF ChainVerifies, BrokenPositions
  <2>3. QED
    BY <2>2 DEF EventVerifies, VerifyEventHash, VerifyChainLink, ComputeEventHash
<1> DEFINE Claim(n) == n + 1 <= Len(events)
                       => events[n + 1].eventHash = PrefixContents(events, n + 1)
           T == {n \in Nat : Claim(n)}
<1>2. 0 \in T
  <2>1. SUFFICES ASSUME 1 <= Len(events)
                 PROVE  events[1].eventHash = PrefixContents(events, 1)
    BY DEF T
  <2>2. events[1].eventHash = Append(Null, events[1].content)
    BY <1>1, <2>1
  <2>3. PrefixContents(events, 0) = Null
    <3>1. Len(PrefixContents(events, 0)) = 0 /\ PrefixContents(events, 0) \in Seq(C)
      BY PrefixContentsType
    <3>2. QED BY <3>1 DEF Null
  <2>4. PrefixContents(events, 0 + 1) = Append(PrefixContents(events, 0), events[0 + 1].content)
    BY <2>1, PrefixContentsStep
  <2>5. QED BY <2>2, <2>3, <2>4
<1>3. \A n \in Nat : n \in T => n + 1 \in T
  <2>1. SUFFICES ASSUME NEW n \in Nat, n \in T, (n + 1) + 1 <= Len(events)
                 PROVE  events[(n + 1) + 1].eventHash = PrefixContents(events, (n + 1) + 1)
    BY DEF T
  <2>2. n + 1 <= Len(events) /\ n + 1 \in 1..Len(events) /\ (n + 1) + 1 \in 1..Len(events)
    BY <2>1
  <2>3. events[n + 1].eventHash = PrefixContents(events, n + 1)
    BY <2>1, <2>2 DEF T
  <2>4. events[(n + 1) + 1].previousHash = events[n + 1].eventHash
    <3>1. (n + 1) + 1 # 1 /\ ((n + 1) + 1) - 1 = n + 1
      OBVIOUS
    <3>2. QED BY <1>1, <2>2, <3>1
  <2>5. PrefixContents(events, (n + 1) + 1)
          = Append(PrefixContents(events, n + 1), events[(n + 1) + 1].content)
    BY <2>1, PrefixContentsStep
  <2>6. QED BY <1>1, <2>2, <2>3, <2>4, <2>5
<1> HIDE DEF T
<1>4. Nat \subseteq T
  BY <1>2, <1>3, NatSetInduction
<1>5. TAKE n \in 1..Len(events)
<1>6. n - 1 \in Nat /\ (n - 1) + 1 = n
  OBVIOUS
<1>7. n - 1 \in T
  BY <1>4, <1>6
<1>8. QED BY <1>6, <1>7 DEF T

\* verifyChain accepts a chain only if the latest hash commits to its contents,
\* in order, nothing left out and nothing added.
THEOREM VerifiedHeadCommits ==
  ASSUME NEW C, NEW events \in Seq(Event(C)), ChainVerifies(events)
  PROVE  LatestHash(events) = Contents(events)
<1>1. Contents(events) = PrefixContents(events, Len(events))
  BY DEF Contents, PrefixContents
<1>2. CASE events = <<>>
  <2>1. Len(events) = 0 /\ Len(events) \in 0..Len(events)
    BY <1>2
  <2>2. Len(PrefixContents(events, Len(events))) = Len(events)
        /\ PrefixContents(events, Len(events)) \in Seq(C)
    BY <2>1, PrefixContentsType
  <2>3. QED BY <1>1, <1>2, <2>1, <2>2 DEF LatestHash, Null
<1>3. CASE events # <<>>
  <2>1. Len(events) \in 1..Len(events)
    BY <1>3
  <2>2. QED BY <1>1, <1>3, <2>1, DigestUnfolds DEF LatestHash
<1>4. QED BY <1>2, <1>3

\* The events that verifyChain counts as verified are a chain that verifies.
LEMMA VerifiedPrefix ==
  ASSUME NEW C, NEW events \in Seq(Event(C)), NEW n \in Nat, n <= VerifiedCount(events)
  PROVE  n <= Len(events) /\ ChainVerifies(SubSeq(events, 1, n))
<1> DEFINE B == BrokenPositions(events)
           m == CHOOSE i \in B : \A j \in B : i <= j
<1>1. B \subseteq 1..Len(events) /\ Len(events) \in Nat
  BY DEF BrokenPositions
<1>2. n <= Len(events) /\ \A i \in 1..n : i \notin B
  <2>1. CASE B = {}
    BY <1>1, <2>1 DEF VerifiedCount, ChainVerifies
  <2>2. CASE B # {}
    <3>1. B \subseteq Nat
      BY <1>1
    <3>2. \E i \in B : \A j \in B : i <= j
      <4> HIDE DEF B
      <4> QED BY <2>2, <3>1, LeastNat
    <3>3. m \in B /\ \A j \in B : m <= j
      BY <3>2
    <3>4. VerifiedCount(events) = m - 1
      BY <2>2 DEF VerifiedCount, ChainVerifies
    <3> HIDE DEF B, m
    <3>5. m \in 1..Len(events) /\ n <= m - 1
      BY <1>1, <3>3, <3>4
    <3>6. ASSUME NEW i \in 1..n, i \in B PROVE FALSE
      <4>1. m <= i
        BY <3>3, <3>6
      <4>2. QED BY <1>1, <3>5, <4>1
    <3>7. QED BY <1>1, <3>5, <3>6
  <2>3. QED BY <2>1, <2>2
<1> DEFINE s == SubSeq(events, 1, n)
<1>3. /\ Len(s) = n
      /\ \A i \in 1..n : s[i] = events[i]
  BY <1>1, <1>2
<1>4. \A i \in 1..n : EventVerifies(events, i)
  BY <1>1, <1>2 DEF BrokenPositions
<1>5. \A i \in 1..n : EventVerifies(s, i)
  <2> HIDE DEF s
  <2>1. TAKE i \in 1..n
  <2>2. i # 1 => i - 1 \in 1..n
    OBVIOUS
  <2>3. QED BY <1>3, <1>4, <2>2 DEF EventVerifies, VerifyChainLink
<1>6. QED BY <1>2, <1>3, <1>5 DEF ChainVerifies, BrokenPositions

\* Events that verify, from the first one on, are counted.
LEMMA VerifiedAtLeast ==
  ASSUME NEW C, NEW events \in Seq(Event(C)), NEW n \in Nat, n <= Len(events),
         \A i \in 1..n : EventVerifies(events, i)
  PROVE  VerifiedCount(events) >= n
<1> DEFINE B == BrokenPositions(events)
<1>1. B \subseteq 1..Len(events) /\ Len(events) \in Nat /\ \A i \in B : i \notin 1..n
  BY DEF BrokenPositions
<1>2. CASE B = {}
  BY <1>1, <1>2 DEF VerifiedCount, ChainVerifies
<1>3. CASE B # {}
  <2> DEFINE m == CHOOSE i \in B : \A j \in B : i <= j
  <2>1. B \subseteq Nat
    BY <1>1
  <2>2. \E i \in B : \A j \in B : i <= j
    <3> HIDE DEF B
    <3> QED BY <1>3, <2>1, LeastNat
  <2>3. m \in B
    BY <2>2
  <2>4. VerifiedCount(events) = m - 1
    BY <1>3 DEF VerifiedCount, ChainVerifies
  <2> HIDE DEF B, m
  <2>5. m \in Nat /\ m >= 1 /\ m \notin 1..n
    BY <1>1, <2>3
  <2>6. QED BY <2>4, <2>5
<1>4. QED BY <1>2, <1>3

\* Tamper evidence: two chains that verifyChain accepts and that end in the same
\* latest hash hold the same contents, links and digests at every position.  A
\* copy of the head digest kept elsewhere thus pins the whole history, unless
\* somebody finds a collision.
THEOREM SameHeadSameHistory ==
  ASSUME NEW C, NEW a \in Seq(Event(C)), NEW b \in Seq(Event(C)),
         ChainVerifies(a), ChainVerifies(b), LatestHash(a) = LatestHash(b)
  PROVE  /\ Len(a) = Len(b)
         /\ \A i \in 1..Len(a) :
              /\ a[i].content = b[i].content
              /\ a[i].eventHash = b[i].eventHash
              /\ a[i].previousHash = b[i].previousHash
<1>1. Contents(a) = Contents(b)
  BY VerifiedHeadCommits
<1>2. /\ Len(a) \in Nat /\ Len(b) \in Nat
      /\ DOMAIN Contents(a) = 1..Len(a) /\ DOMAIN Contents(b) = 1..Len(b)
      /\ \A i \in 1..Len(a) : Contents(a)[i] = a[i].content
      /\ \A i \in 1..Len(b) : Contents(b)[i] = b[i].content
  BY DEF Contents
<1>3. Len(a) = Len(b)
  <2>1. 1..Len(a) = 1..Len(b)
    BY <1>1, <1>2
  <2>2. QED BY <1>2, <2>1
<1>4. \A i \in 1..Len(a) : a[i].content = b[i].content
  <2>1. TAKE i \in 1..Len(a)
  <2>2. i \in 1..Len(b)
    BY <1>3
  <2>3. QED BY <1>1, <1>2, <2>2
<1>5. \A n \in 1..Len(a) : a[n].eventHash = b[n].eventHash
  <2>1. TAKE n \in 1..Len(a)
  <2>2. n \in 1..Len(b) /\ n \in Nat
    BY <1>3
  <2>3. a[n].eventHash = PrefixContents(a, n) /\ b[n].eventHash = PrefixContents(b, n)
    BY <2>2, DigestUnfolds
  <2>4. \A i \in 1..n : i \in 1..Len(a)
    BY <1>2, <2>2
  <2>5. PrefixContents(a, n) = PrefixContents(b, n)
    BY <1>4, <2>4 DEF PrefixContents
  <2>6. QED BY <2>3, <2>5
<1>6. \A i \in 1..Len(a) : a[i].previousHash = b[i].previousHash
  <2>1. TAKE i \in 1..Len(a)
  <2>2. i \in 1..Len(b)
    BY <1>3
  <2>3. EventVerifies(a, i) /\ EventVerifies(b, i)
    BY <2>2 DEF ChainVerifies, BrokenPositions
  <2>4. /\ a[i].previousHash = IF i = 1 THEN Null ELSE a[i - 1].eventHash
        /\ b[i].previousHash = IF i = 1 THEN Null ELSE b[i - 1].eventHash
    BY <2>3 DEF EventVerifies, VerifyChainLink
  <2>5. i # 1 => i - 1 \in 1..Len(a)
    BY <1>2
  <2>6. QED BY <1>5, <2>4, <2>5
<1>7. QED BY <1>3, <1>4, <1>5, <1>6
=============================================================================
