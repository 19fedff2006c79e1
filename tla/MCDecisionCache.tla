-------------------------- MODULE MCDecisionCache --------------------------
(* The decision cache of one replica on small instances.                   *)
EXTENDS DecisionCache

CONSTANTS k1, k2, alice, bob

\* One cache key per subject: a push for one leaves the other's alone.
MCSubjectOf == k1 :> alice @@ k2 :> bob

OneSubjectOf == k1 :> alice
=============================================================================
