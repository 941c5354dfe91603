---------------------------- MODULE MCKeyLoading ----------------------------
(* Instances of KeyLoading for TLC.                                         *)
EXTENDS KeyLoading, TLC
CONSTANTS s1, s2, b1, p1, p2
Symm == Permutations(Loaders) \cup Permutations(Passes)
FairSpec == Spec /\ Fairness
=============================================================================
