-------------------------- MODULE EndpointRecords --------------------------
(***************************************************************************)
(* What a node keeps of another node, the peer, in its table               *)
(* blc_peerendpoint: the record the peer sends of itself                   *)
(* (p2p/chain/action/dht/peerendpoint.go), the status that comes and goes  *)
(* with the routing table (libp2p/dht.go), and the check of times between  *)
(* the two (libp2p/dht/default.go, libp2p/ns/default.go).                  *)
(*                                                                         *)
(* LastUpdateTime of the peer's record is the time it was made; that of a  *)
(* row is the time of the last change of status here, which is later.  A   *)
(* kad-dht routing table calls PeerAdded and PeerRemoved with its lock     *)
(* held, one at a time.  PeerAdded also sends the node's own record, to    *)
(* the same effect on the other side, and goes on when it cannot.  The     *)
(* column of the PeerId is unique, so there is one row.                    *)
(***************************************************************************)
EXTENDS Naturals

CONSTANTS Slots,     \* PEERENDPOINT messages of the peer under way at a time
          MaxAddr,   \* bound on the changes of the peer's address
          MaxTime,   \* bound on the changes of status
          MaxSends,  \* bound on the messages of the peer
          MaxRestarts, \* bound on the restarts of the node
          NoRow      \* the peer has no row

ASSUME EndpointBoundsOK ==
    /\ MaxAddr \in Nat /\ MaxTime \in Nat /\ MaxSends \in Nat
    /\ MaxRestarts \in Nat

VARIABLES
    myself,  \* the peer's address, numbered as it changes
    inTable, \* the peer is in the routing table
    row,     \* the row of the peer
    call,    \* the place of PeerAdded or PeerRemoved and the row it has read
    slots,   \* slots[s]: the message under way in s or the PutLocal of it
    time,    \* the clock of the node
    sends, restarts

bounds == <<sends, restarts>>
endpointVars == <<myself, inTable, row, call, slots, time, bounds>>

\* A record of the peer: a row, or the value of a put.
Endpoint == [addr : 0 .. MaxAddr, stamp : 0 .. MaxTime, up : BOOLEAN]

NoAddr == [addr |-> 0, stamp |-> 0, up |-> TRUE]

Idle == [pc |-> "none", up |-> FALSE, rec |-> NoAddr]

\* seen: the stamp of the row when Select let the put pass.
NoPut == [pc |-> "none", rec |-> NoAddr, found |-> FALSE, seen |-> 0]

\* The types of the variables.
EndpointTypeOK ==
    /\ myself \in 0 .. MaxAddr
    /\ inTable \in BOOLEAN
    /\ row \in Endpoint \cup {NoRow}
    /\ call \in [pc : {"none", "read", "put"}, up : BOOLEAN, rec : Endpoint]
    /\ slots \in [Slots -> [pc : {"none", "sent", "check", "find", "write"},
                            rec : Endpoint, found : BOOLEAN,
                            seen : 0 .. MaxTime]]
    /\ time \in 0 .. MaxTime
    /\ sends \in 0 .. MaxSends /\ restarts \in 0 .. MaxRestarts

EndpointInit ==
    /\ myself = 0
    /\ inTable = FALSE
    /\ row = NoRow
    /\ call = Idle
    /\ slots = [s \in Slots |-> NoPut]
    /\ time = 0
    /\ sends = 0 /\ restarts = 0

----------------------------------------------------------------------------
(* The peer.                                                               *)

\* The peer starts again with another address.  Its LastUpdateTime stays.
upsertMyselfPeer ==
    /\ myself < MaxAddr
    /\ myself' = myself + 1
    /\ UNCHANGED <<inTable, row, call, slots, time, bounds>>

\* The peer has added the node to its own routing table.
PeerEndPoint(s) ==
    /\ slots[s].pc = "none" /\ sends < MaxSends
    /\ sends' = sends + 1
    /\ slots' = [slots EXCEPT ![s] = [NoPut EXCEPT
                  !.pc = "sent", !.rec.addr = myself]]
    /\ UNCHANGED <<myself, inTable, row, call, time, restarts>>

\* The stream ends before the message is read.
Lost(s) ==
    /\ slots[s].pc = "sent"
    /\ slots' = [slots EXCEPT ![s] = NoPut]
    /\ UNCHANGED <<myself, inTable, row, call, time, bounds>>

----------------------------------------------------------------------------
(* PutLocal.                                                               *)

Found == row # NoRow

\* Select refuses a record that is older than the row.
Select(rec) == Found => ~(rec.stamp < row.stamp)

\* Upsert of the row that was found, or of a new one, which fails when there
\* is a row by then.
PutRow(rec, found) == IF found \/ ~Found THEN rec ELSE row

----------------------------------------------------------------------------
(* peerEndPointAction.Receive.                                             *)

\* The answer does not wait for the goroutine of PutLocal.
Receive(s) ==
    /\ slots[s].pc = "sent"
    /\ slots' = [slots EXCEPT ![s].pc = "check"]
    /\ UNCHANGED <<myself, inTable, row, call, time, bounds>>

Check(s) ==
    /\ slots[s].pc = "check"
    /\ slots' = [slots EXCEPT ![s] =
                  IF Select(@.rec)
                  THEN [@ EXCEPT !.pc = "find",
                                 !.seen = IF Found THEN row.stamp ELSE 0]
                  ELSE NoPut]
    /\ UNCHANGED <<myself, inTable, row, call, time, bounds>>

Find(s) ==
    /\ slots[s].pc = "find"
    /\ slots' = [slots EXCEPT ![s] = [@ EXCEPT !.pc = "write", !.found = Found]]
    /\ UNCHANGED <<myself, inTable, row, call, time, bounds>>

Upsert(s) ==
    /\ slots[s].pc = "write"
    /\ row' = PutRow(slots[s].rec, slots[s].found)
    /\ slots' = [slots EXCEPT ![s] = NoPut]
    /\ UNCHANGED <<myself, inTable, call, time, bounds>>

----------------------------------------------------------------------------
(* The routing table and its callbacks.                                    *)

\* Fault: PeerAdded returns when its own message cannot be sent.
TryAddPeerGivesUp ==
    /\ ~inTable /\ call = Idle /\ time < MaxTime
    /\ inTable' = TRUE
    /\ call' \in {Idle, [Idle EXCEPT !.pc = "read", !.up = TRUE]}
    /\ UNCHANGED <<myself, row, slots, time, bounds>>

\* PeerAdded goes on with the row whether or not its message was sent.
TryAddPeer ==
    /\ ~inTable /\ call = Idle /\ time < MaxTime
    /\ inTable' = TRUE
    /\ call' = [Idle EXCEPT !.pc = "read", !.up = TRUE]
    /\ UNCHANGED <<myself, row, slots, time, bounds>>

RemovePeer ==
    /\ inTable /\ call = Idle /\ time < MaxTime
    /\ inTable' = FALSE
    /\ call' = [Idle EXCEPT !.pc = "read"]
    /\ UNCHANGED <<myself, row, slots, time, bounds>>

\* GetLocal, and the time for the loop.
PeerRead ==
    /\ call.pc = "read"
    /\ time' = time + 1
    /\ call' = IF Found THEN [call EXCEPT !.pc = "put", !.rec = row] ELSE Idle
    /\ UNCHANGED <<myself, inTable, row, slots, bounds>>

\* Fault: the status changes and LastUpdateTime does not.
MarkedSame(rec) == [rec EXCEPT !.up = call.up]

\* The row as the loop puts it.
Marked(rec) == [rec EXCEPT !.up = call.up, !.stamp = time]

\* PutLocal of the row as it was read: Select lets it pass, as no later time
\* is stored anywhere, and what was written since is lost.
PeerPut ==
    /\ call.pc = "put"
    /\ row' = PutRow(Marked(call.rec), Found)
    /\ call' = Idle
    /\ UNCHANGED <<myself, inTable, slots, time, bounds>>

\* The node starts again.  The routing table is empty, the row is as before.
RestartNode ==
    /\ restarts < MaxRestarts
    /\ restarts' = restarts + 1
    /\ inTable' = FALSE
    /\ call' = Idle
    /\ slots' = [s \in Slots |-> NoPut]
    /\ UNCHANGED <<myself, row, time, sends>>

EndpointNext ==
    \/ upsertMyselfPeer \/ TryAddPeer \/ RemovePeer
    \/ PeerRead \/ PeerPut \/ RestartNode
    \/ \E s \in Slots :
         \/ PeerEndPoint(s) \/ Lost(s)
         \/ Receive(s) \/ Check(s) \/ Find(s) \/ Upsert(s)

\* Goroutines run.
EndpointFairness ==
    /\ WF_endpointVars(PeerRead \/ PeerPut)
    /\ \A s \in Slots : WF_endpointVars(Check(s) \/ Find(s) \/ Upsert(s))

EndpointSpec == EndpointInit /\ [][EndpointNext]_endpointVars
EndpointFairSpec == EndpointSpec /\ EndpointFairness

----------------------------------------------------------------------------
(* Properties.                                                             *)

\* "当一个节点被从路由表中移出的时候，将peerendpoint的对应记录设置为down"
\* (libp2p/default.go:636-638, a node removed from the routing table is set
\* down): a message of the peer, however late it comes, sets such a row up
\* again only if its put had passed Select before the row was marked.
DownStaysDown ==
    [][Found /\ ~row.up /\ row'.up /\ call.pc # "put" =>
         \E s \in Slots :
           slots[s].pc = "write" /\ slots[s].seen < row.stamp]_endpointVars

\* A peer that stays in the routing table is in the end up for good in its
\* row, whatever removals, restarts and late messages came before: the
\* PeerRemoved of an earlier stay cannot come last.
StayingPeerUp == <>[]inTable => <>[](Found => row.up)
============================================================================
