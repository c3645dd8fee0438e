------------------------- MODULE MCVariantConsensus -------------------------
(* Instances of VariantConsensus for TLC: a primary and two followers.     *)
EXTENDS VariantConsensus

CONSTANTS p, a, b, gone

\* One of the three endpoints, and one that names a peer that is
\* gone in place of a follower.
ClientLists == {<<p, a, b>>, <<p, a, gone>>}
=============================================================================
