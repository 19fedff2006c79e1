----------------------------- MODULE MCJWKSCache -----------------------------
(* Two keys, two concurrent verifications.                                 *)
EXTENDS JWKSCache, TLC

VerifierSymmetry == Permutations(Verifier)
=============================================================================
