------------------------------ MODULE MCMailLane ----------------------------
(* MailLane for TLC: a few accounts, one or two tasks at a time. The gaps  *)
(* and the month are shortened.                                            *)
EXTENDS MailLane, TLC

CONSTANTS u1, u2, u3, t1, t2

\* Accounts are interchangeable, and so are tasks.
Symmetry == Permutations(Users) \cup Permutations(Tasks)

=============================================================================
