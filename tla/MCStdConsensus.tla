-------------------------- MODULE MCStdConsensus --------------------------
(* Instances of StdConsensus for TLC: one client-facing node, symmetric    *)
(* followers.                                                              *)
EXTENDS StdConsensus, TLC

Followers == Nodes \ Primaries

\* The followers are interchangeable: no definition tells them apart.
FollowerSymmetry == Permutations(Followers)
===========================================================================
