--------------------------- MODULE MCSignedAudit ---------------------------
(* Instances of SignedAudit for TLC: the bodies are signed ones. *)
EXTENDS SignedAudit

SignedBody == [payload : Payload, signedBy : Owner, signature : Signature]

\* Keys and payloads are interchangeable.
Interchangeable == Permutations(Key) \cup Permutations(Payload)
=============================================================================
