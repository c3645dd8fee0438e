--------------------------- MODULE MCBlockStore ---------------------------
(* Instances of BlockStore for TLC: versions that grow, shrink, delete.    *)
EXTENDS BlockStore

CONSTANTS a, b \* two receivers

\* A large block of three slices, one slice, two large ones, a delete.
MCSize == <<3, 1, 2, 2>>

\* The receivers change: the second version drops one of them.
MCKeys == <<{a, b}, {a}, {a, b}, {}>>
===========================================================================
