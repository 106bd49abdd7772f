---------------------------- MODULE AnchoredTrees ----------------------------
(***************************************************************************)
(* What an anchor record is good for: the caller of ChainAnchoring anchors *)
(* the root of a MerkleTree over the digests of the events up to the chain *)
(* position, and an event is shown to be among them by a proof of          *)
(* inclusion against the anchored root.  The event at position n has the   *)
(* digest n here.                                                          *)
(***************************************************************************)
EXTENDS ChainAnchoring, MerkleTree

\* The tree at each chain position.
TreeAt == [p \in ChainPosition |-> Tree([n \in 1..p |-> n])]

MerkleRoot(record) == GetRoot(TreeAt[record.content.chainPosition])

\* Every proof that can be had of any tree.
Proofs == UNION {{GetProof(TreeAt[p], n) : n \in 1..p} : p \in ChainPosition}

\* The events that some proof shows to be under a root.
ProvedUnder(root) ==
  {n \in ChainPosition : \E proof \in Proofs :
     proof.leaf = HashLeaf(n) /\ VerifyProof(HashLeaf(n), proof, root)}

ProvedAt == [p \in ChainPosition |-> ProvedUnder(GetRoot(TreeAt[p]))]

-----------------------------------------------------------------------------
\* Of every record that verifies exactly the events up to its position can be
\* proved, by whichever proof of whichever tree, and each by the proof that the
\* tree of that position gives for its place.
AnchoredEventsProvable ==
  SameLog => \A r \in records :
    LET p == r.content.chainPosition IN
      /\ ProvedAt[p] = 1..p
      /\ Verify(r) => \A n \in 1..p :
           VerifyProof(HashLeaf(n), GetProof(TreeAt[p], n), MerkleRoot(r))
=============================================================================
