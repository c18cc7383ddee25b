------------------------------ MODULE MCConsent ------------------------------
(* Consent for TLC: one browser with two tabs, registrations on one         *)
(* instance. The lifetimes are shortened and keep their order.              *)
EXTENDS Consent, TLC

CONSTANTS a, b, t1, t2, r1, r2, i1, home, unknown

OneInstance == [r \in Reqs |-> i1]

\* Accounts, tabs and requests are interchangeable.
Symmetry == Permutations(Users) \cup Permutations(Tabs) \cup Permutations(Reqs)

=============================================================================
