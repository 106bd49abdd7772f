-------------------------- MODULE MCIntegrityCheck --------------------------
(* An instance of IntegrityCheck for TLC: two releases, the second with one *)
(* file changed and one that its manifest no longer lists.                  *)
EXTENDS IntegrityCheck, TLC

TwoFiles == <<"hash-chain", "merkle-tree">>

TwoReleases ==
  "1.0" :> ("hash-chain" :> "h1" @@ "merkle-tree" :> "m1")
  @@ "1.1" :> ("merkle-tree" :> "m2")

Runtimes == {Capability, Capability \ {"ed25519"}}
=============================================================================
