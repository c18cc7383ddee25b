--------------------------- MODULE GrantLifecycle ---------------------------
(***************************************************************************)
(* What the authorization server promises about one user approval,         *)
(* whatever tables and processes implement it: an approval is offered once *)
(* as a code, the code starts a line of tokens at most once, and a line    *)
(* that has ended never comes back.                                        *)
(*                                                                         *)
(* The module is abstract: it names no token, no client and no clock.      *)
(* OAuthTokens implements it, under the mapping given there.               *)
(***************************************************************************)

CONSTANT Grants    \* the identities of approvals

VARIABLE phase     \* phase[g]: how far the approval g has got

Phases == {"none", "offered", "active", "ended"}

TypeOK == phase \in [Grants -> Phases]

Init == phase = [g \in Grants |-> "none"]

-----------------------------------------------------------------------------

\* The user pressed Approve: a code for g exists.
Offer(g) ==
  /\ phase[g] = "none"
  /\ phase' = [phase EXCEPT ![g] = "offered"]

\* The code of g was exchanged: a line of tokens for g exists, or is being
\* written.
Redeem(g) ==
  /\ phase[g] = "offered"
  /\ phase' = [phase EXCEPT ![g] = "active"]

\* Approvals end: refused or expired codes, revoked or expired lines. One
\* statement on the store may end many of them.
Close(S) == phase' = [g \in Grants |-> IF g \in S THEN "ended" ELSE phase[g]]

Open == {g \in Grants : phase[g] \in {"offered", "active"}}

Next ==
  \/ \E g \in Grants : Offer(g) \/ Redeem(g)
  \/ \E S \in SUBSET Open : Close(S)

Spec == Init /\ [][Next]_phase

=============================================================================
