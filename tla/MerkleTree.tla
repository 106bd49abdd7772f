----------------------------- MODULE MerkleTree -----------------------------
(***************************************************************************)
(* The binary Merkle tree of src/src/events/merkle-tree.ts: its levels,    *)
(* its root, and proofs of inclusion.                                      *)
(*                                                                         *)
(* SHA-256 is idealised: a hash is what it is a hash of, <<data>> of a     *)
(* leaf and <<left, right>> of an internal node.  The two are told apart,  *)
(* as they are for leaves that are digests of events and no pairs of them. *)
(***************************************************************************)
EXTENDS Integers, SequencesExt

ZeroHash == <<>>   \* the root of an empty tree

HashLeaf(data) == <<data>>
HashPair(left, right) == <<left, right>>

\* Mutant of Parents: a last node without a neighbour is paired with the zero hash.
PaddedPairs(level) ==
  [i \in 1..((Len(level) + 1) \div 2) |->
     HashPair(level[2 * i - 1], IF 2 * i <= Len(level) THEN level[2 * i] ELSE ZeroHash)]

\* The level above: neighbours in pairs, a last one without a neighbour twice.
Parents(level) ==
  [i \in 1..((Len(level) + 1) \div 2) |->
     HashPair(level[2 * i - 1], level[IF 2 * i <= Len(level) THEN 2 * i ELSE 2 * i - 1])]

\* The level at each height, from the leaves up.
LevelAt(leafHashes) ==
  LET level[h \in 0..Len(leafHashes)] ==
        IF h = 0 THEN leafHashes ELSE Parents(level[h - 1])
  IN  level

\* The loop of buildLevels ends with the first level of a single node.
RootHeight(level) ==
  CHOOSE h \in DOMAIN level : Len(level[h]) = 1 /\ \A j \in 0..(h - 1) : Len(level[j]) > 1

BuildLevels(leafHashes) ==
  LET level == LevelAt(leafHashes) IN [h \in 1..(RootHeight(level) + 1) |-> level[h - 1]]

\* No levels without leaves.
Tree(leaves) ==
  IF leaves = <<>> THEN <<>> ELSE BuildLevels([i \in DOMAIN leaves |-> HashLeaf(leaves[i])])

GetRoot(levels) == IF levels = <<>> THEN ZeroHash ELSE Last(levels)[1]

\* The place above place i, and the one next to i, counted from 1.
Above(i) == (i + 1) \div 2
IsLeft(i) == i % 2 = 1

\* The sibling of the last node of an odd level is the node itself.
SiblingHash(level, i) ==
  LET j == IF IsLeft(i) THEN i + 1 ELSE i - 1 IN
    IF j <= Len(level) THEN level[j] ELSE level[i]

\* The place in each level above or at a leaf.
PlaceAt(levels, leaf) ==
  LET place[h \in 1..Len(levels)] == IF h = 1 THEN leaf ELSE Above(place[h - 1])
  IN  place

GetProof(levels, leaf) ==
  LET place == PlaceAt(levels, leaf) IN
    [leaf |-> levels[1][leaf],
     siblings |-> [h \in 1..(Len(levels) - 1) |->
       [hash |-> SiblingHash(levels[h], place[h]),
        position |-> IF IsLeft(place[h]) THEN "right" ELSE "left"]]]

Climb(current, sibling) ==
  IF sibling.position = "left" THEN HashPair(sibling.hash, current)
  ELSE HashPair(current, sibling.hash)

\* The hash the verifier holds after each sibling.
Climbed(leaf, siblings) ==
  LET current[h \in 0..Len(siblings)] ==
        IF h = 0 THEN leaf ELSE Climb(current[h - 1], siblings[h])
  IN  current

VerifyProof(leaf, proof, root) ==
  Climbed(leaf, proof.siblings)[Len(proof.siblings)] = root
=============================================================================
