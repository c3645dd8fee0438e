---------------------------- MODULE RecordKeeper ----------------------------
(***************************************************************************)
(* What the record store of a node promises whatever its queries do: it    *)
(* keeps what it has been given.  A record goes only when its author       *)
(* withdrew it, or with a trouble: a call that failed, a restart.          *)
(***************************************************************************)
EXTENDS Naturals

CONSTANTS Nodes, Items

VARIABLES kept,      \* kept[n]: the records node n is responsible for
          withdrawn, \* the records their authors have withdrawn
          troubles   \* how often something failed

keeping == <<kept, withdrawn, troubles>>

KeeperInit ==
    /\ kept \in [Nodes -> SUBSET Items]
    /\ withdrawn = {}
    /\ troubles = 0

\* A node learns records, and forgets none but those withdrawn.
Learn ==
    /\ kept' \in [Nodes -> SUBSET Items]
    /\ withdrawn \subseteq withdrawn' /\ withdrawn' \subseteq Items
    /\ \A n \in Nodes : kept[n] \ withdrawn' \subseteq kept'[n]
    /\ UNCHANGED troubles

\* One node may lose records.
Lose(n) ==
    /\ kept' \in [Nodes -> SUBSET Items]
    /\ \A m \in Nodes \ {n} : kept'[m] = kept[m]
    /\ troubles' = troubles + 1
    /\ UNCHANGED withdrawn

KeeperNext == Learn \/ \E n \in Nodes : Lose(n)

KeeperSpec == KeeperInit /\ [][KeeperNext]_keeping
=============================================================================
