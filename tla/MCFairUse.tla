----------------------------- MODULE MCFairUse ------------------------------
(* FairUse for TLC: up to two callers and two requests, all served by one  *)
(* instance.                                                               *)
EXTENDS FairUse, TLC

CONSTANTS r1, r2, i1, c1, c2

OneInstance == [r \in Requests |-> i1]

\* Requests on one instance are interchangeable.
RequestSymmetry == Permutations(Requests)

=============================================================================
