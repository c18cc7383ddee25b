---------------------------- MODULE MCCounters ----------------------------
(* Small instances of Counters for TLC. *)
EXTENDS Counters, TLC

\* A shared store makes nothing of the file, so it need not be tried without.
MCDeployments == {<<TRUE, TRUE>>, <<FALSE, TRUE>>, <<FALSE, FALSE>>}
MCCalls == {[t |-> 1, b |-> 2]}

Symmetry == Permutations(Routes) \cup Permutations(Tasks) \cup Permutations(Instances)
=============================================================================
