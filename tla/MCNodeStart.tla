---------------------------- MODULE MCNodeStart ----------------------------
(***************************************************************************)
(* NodeStart with the configuration that works, one that differs in what   *)
(* the node's row and the other nodes are to be told, and one for each way *)
(* a configuration can be at fault.                                        *)
(***************************************************************************)
EXTENDS NodeStart, TLC

CONSTANTS me, far, near, bare, c1

Good ==
    [password |-> "secret", name |-> "peer", email |-> "mail",
     address |-> "here", websocket |-> FALSE, wss |-> FALSE, quic |-> FALSE,
     defaultPing |-> TRUE, protocol |-> TRUE, pushFile |-> TRUE,
     web |-> "plain", standalone |-> FALSE, turn |-> TRUE, turnHost |-> TRUE,
     bootstraps |-> <<near, me, far>>]

\* far is known from the first start only.
Moved == [Good EXCEPT !.name = "peer2", !.address = "there", !.wss = TRUE,
                      !.web = "cert", !.bootstraps = <<me, near>>]

Faulty ==
    {[Good EXCEPT !.password = "other"], [Good EXCEPT !.email = ""],
     [Good EXCEPT !.websocket = TRUE, !.wss = TRUE],
     [Good EXCEPT !.quic = TRUE, !.web = "noCert"],
     [Good EXCEPT !.defaultPing = FALSE], [Good EXCEPT !.protocol = FALSE],
     [Good EXCEPT !.pushFile = FALSE], [Good EXCEPT !.standalone = TRUE],
     [Good EXCEPT !.bootstraps = <<far, bare>>]}

MCConfigs == {Good, Moved} \cup Faulty
MCPeers == {far, near, bare}
MCWhere == (far :> "global" @@ near :> "local" @@ bare :> "none")
=============================================================================
