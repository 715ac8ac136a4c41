---------------------------- MODULE MCStressTest -----------------------------
(* Model values for the subscribers, and the symmetry between them.        *)
EXTENDS StressTest, TLC

CONSTANTS s1, s2

OneSub  == {s1}
TwoSubs == {s1, s2}

SubSymmetry == Permutations(Subs)
==============================================================================
