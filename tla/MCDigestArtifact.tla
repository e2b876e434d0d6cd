-------------------------- MODULE MCDigestArtifact --------------------------
(* DigestArtifact for TLC: interchangeable Articles and requests. *)
EXTENDS DigestArtifact, TLC

Symmetry == Permutations(Articles) \union Permutations(Requests)
=============================================================================
