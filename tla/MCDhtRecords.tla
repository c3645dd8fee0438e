--------------------------- MODULE MCDhtRecords ---------------------------
(* Two nodes that both keep a key, two items, two jobs that overlap.       *)
EXTENDS DhtRecords, TLC

Symmetry == Permutations(Nodes) \cup Permutations(Items) 
            \cup Permutations(Jobs)
=============================================================================
