--------------------------- MODULE MCNodeHandlers ---------------------------
(***************************************************************************)
(* NodeHandlers with one peer, whose signals carry a client's name or none.*)
(***************************************************************************)
EXTENDS NodeHandlers

CONSTANTS p1, a

ClientPairs == {<<p1, a>>, <<p1, NoClient>>}
=============================================================================
