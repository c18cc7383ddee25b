--------------------------- MODULE MCOAuthTokens ----------------------------
(* OAuthTokens for TLC: the requests are model values, all served by one   *)
(* instance or spread over two.                                            *)
EXTENDS OAuthTokens, TLC

CONSTANTS r1, r2, i1, i2, c1, c2, u1

OneInstance == [r \in Reqs |-> i1]

TwoInstances == [r \in Reqs |-> IF r = r1 THEN i1 ELSE i2]

\* Requests on one instance are interchangeable.
RequestSymmetry == Permutations(Reqs)

=============================================================================
