----------------------------- MODULE MCSfuRoom -----------------------------
(* Three connections of any identity, one room or two.                     *)
EXTENDS SfuRoom, TLC

Symmetry == Permutations(Conns) \cup Permutations(Rooms)
============================================================================
