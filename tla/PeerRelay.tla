----------------------------- MODULE PeerRelay -----------------------------
(***************************************************************************)
(* A chat message on its way from node to node to a client that changes    *)
(* its node (p2p/chain/handler/sender/default.go,                          *)
(* libp2p/pipe/handler/pool.go).                                           *)
(*                                                                         *)
(* Every node has a row of the client.  A node that changes its row puts   *)
(* the new one into the DHT; the puts reach the other nodes in any order,  *)
(* or never, and no node looks at which of two rows is the newer.  A node  *)
(* that has a chat for the client looks its own row up and hands the chat  *)
(* to the session, or to the node, that the row names; there is no count   *)
(* of hops.  Module ClientRelay has the handlers of one node in detail;    *)
(* here each of them is one step.  The queries are those of fault          *)
(* tolerance levels 0 and 1, which find the local row first.               *)
(***************************************************************************)
EXTENDS Naturals, FiniteSets

CONSTANTS Nodes,
          MaxSessions, \* bound on the sessions of the client
          MaxRowPuts,  \* bound on the puts under way
          MaxHalts,    \* bound on the restarts of the nodes
          MaxRefusals, \* bound on the streams that cannot be opened
          Nowhere

ASSUME HopsOK ==
    /\ MaxSessions \in Nat /\ MaxRowPuts \in Nat
    /\ MaxHalts \in Nat /\ MaxRefusals \in Nat
ASSUME NowhereOK == Nowhere \notin Nodes

VARIABLES
    home,     \* home[s]: the node session s was opened at, or Nowhere
    pooled,   \* the sessions in the pools of their nodes
    there,    \* whether the client is on its last session
    rowOf,    \* rowOf[n]: the PeerClient row at n
    rowPuts,  \* the rows on their way to other nodes
    hop,      \* the chat message
    halts, refusals

hopVars == <<home, pooled, there, rowOf, rowPuts, hop, halts, refusals>>

SessionIds == 1 .. MaxSessions

\* session: ConnectSessionId; that of a node without row is 0.
Row == [session : 0 .. MaxSessions, up : BOOLEAN]

\* at: the node that has the chat, or had it last; to: the session it is for.
Hop == [pc : {"new", "lookup", "forward", "stored", "delivered", "lost"},
        at : Nodes, to : 0 .. MaxSessions]

\* The types of the variables.
HopTypeOK ==
    /\ home \in [SessionIds -> Nodes \cup {Nowhere}]
    /\ pooled \subseteq {s \in SessionIds : home[s] # Nowhere}
    /\ there \in BOOLEAN
    /\ rowOf \in [Nodes -> Row]
    /\ rowPuts \subseteq [to : Nodes, row : Row]
    /\ hop \in Hop
    /\ halts \in 0 .. MaxHalts /\ refusals \in 0 .. MaxRefusals

HopInit ==
    /\ home = [s \in SessionIds |-> Nowhere]
    /\ pooled = {} /\ there = FALSE
    /\ rowOf = [n \in Nodes |-> [session |-> 0, up |-> FALSE]]
    /\ rowPuts = {}
    /\ hop \in [pc : {"new"}, at : Nodes, to : {0}]
    /\ halts = 0 /\ refusals = 0

----------------------------------------------------------------------------
(* The rows.                                                               *)

Opened == {s \in SessionIds : home[s] # Nowhere}
LastSession == Cardinality(Opened)
OnLast(s) == there /\ s = LastSession

\* PutValues at n: the table of n, and a request to every other node; those
\* beyond the bound are lost.
PutRow(n, row) ==
    LET new == rowPuts \cup {[to |-> m, row |-> row] : m \in Nodes \ {n}} IN
    /\ rowOf' = [rowOf EXCEPT ![n] = row]
    /\ rowPuts' = IF Cardinality(new) <= MaxRowPuts THEN new ELSE rowPuts

\* biz.RelaySend at n sends again what is stored there.
Resend(n) ==
    hop' = IF hop.pc = "stored" /\ hop.at = n THEN [hop EXCEPT !.pc = "lookup"]
           ELSE hop

\* The client leaves its session, if it has one, opens another at n and
\* sends CONNECT.
ConnectAt(n) ==
    /\ LastSession < MaxSessions
    /\ home' = [home EXCEPT ![LastSession + 1] = n]
    /\ pooled' = pooled \cup {LastSession + 1}
    /\ there' = TRUE
    /\ PutRow(n, [session |-> LastSession + 1, up |-> TRUE])
    /\ Resend(n)
    /\ UNCHANGED <<halts, refusals>>

\* CONNECT again, on a session that is open.
ConnectAgain ==
    /\ there /\ LastSession \in pooled
    /\ PutRow(home[LastSession], [session |-> LastSession, up |-> TRUE])
    /\ Resend(home[LastSession])
    /\ UNCHANGED <<home, pooled, there, halts, refusals>>

GoesAway ==
    /\ there /\ there' = FALSE
    /\ UNCHANGED <<home, pooled, rowOf, rowPuts, hop, halts, refusals>>

\* The end of a session is noticed: HandleDisconnected puts its row down.
Disconnected(s) ==
    /\ s \in pooled /\ ~OnLast(s)
    /\ pooled' = pooled \ {s}
    /\ IF rowOf[home[s]] = [session |-> s, up |-> TRUE]
       THEN PutRow(home[s], [session |-> s, up |-> FALSE])
       ELSE UNCHANGED <<rowOf, rowPuts>>
    /\ UNCHANGED <<home, there, hop, halts, refusals>>

\* Any message on the last session: UpdatePeerClient puts up a row that is
\* there and not up.
Updated ==
    /\ there /\ LastSession \in pooled
    /\ LET n == home[LastSession] IN
       /\ rowOf[n].session # 0 /\ ~rowOf[n].up
       /\ PutRow(n, [session |-> LastSession, up |-> TRUE])
    /\ UNCHANGED <<home, pooled, there, hop, halts, refusals>>

\* A put arrives; Select takes it.
RowArrives(p) ==
    /\ p \in rowPuts /\ rowPuts' = rowPuts \ {p}
    /\ rowOf' = [rowOf EXCEPT ![p.to] = p.row]
    /\ UNCHANGED <<home, pooled, there, hop, halts, refusals>>

RowLost(p) ==
    /\ p \in rowPuts /\ rowPuts' = rowPuts \ {p}
    /\ UNCHANGED <<home, pooled, there, rowOf, hop, halts, refusals>>

----------------------------------------------------------------------------
(* The chat.                                                               *)

\* Another client sends it to its node, whose Dispatch starts RelaySend.
SubmitChat ==
    /\ hop.pc = "new"
    /\ hop' = [hop EXCEPT !.pc = "lookup"]
    /\ UNCHANGED <<home, pooled, there, rowOf, rowPuts, halts, refusals>>

\* The rows GetValues finds: the local one, or those of the other nodes.
Found(n) ==
    IF rowOf[n].session # 0 THEN {rowOf[n]}
    ELSE {rowOf[m] : m \in {o \in Nodes : rowOf[o].session # 0}}

Keep(pc) == hop' = [hop EXCEPT !.pc = pc]

\* Fault: the active status of the row is not looked at.
LookupAnyRow ==
    /\ hop.pc = "lookup"
    /\ \/ \E row \in Found(hop.at) :
             hop' = [hop EXCEPT !.pc = "forward", !.to = row.session]
       \/ Found(hop.at) = {} /\ Keep("stored")
    /\ UNCHANGED <<home, pooled, there, rowOf, rowPuts, halts, refusals>>

\* Lookup: a row that is up, or nothing; the client is no node, so that
\* FindPeer finds nothing either, and the chat is stored.
LookupRow ==
    /\ hop.pc = "lookup"
    /\ \/ \E row \in Found(hop.at) :
             /\ row.up
             /\ hop' = [hop EXCEPT !.pc = "forward", !.to = row.session]
       \/ Found(hop.at) = {} /\ Keep("stored")
       \/ (\E row \in Found(hop.at) : ~row.up) /\ Keep("stored")
    /\ UNCHANGED <<home, pooled, there, rowOf, rowPuts, halts, refusals>>

\* ForwardPeerClient at the node of the session: what is written to a session
\* the client has left goes with it.
ForwardToSession ==
    /\ hop.pc = "forward" /\ home[hop.to] = hop.at
    /\ Keep(IF hop.to \notin pooled THEN "stored"
            ELSE IF OnLast(hop.to) THEN "delivered" ELSE "lost")
    /\ UNCHANGED <<home, pooled, there, rowOf, rowPuts, halts, refusals>>

\* GetRequestPipe opens a new stream for every message, or fails to.
StreamFails ==
    /\ refusals < MaxRefusals
    /\ refusals' = refusals + 1
    /\ Keep("stored")

\* Fault: the node a chat comes to keeps it for its own client.
ForwardPeerEndpointKept ==
    /\ hop.pc = "forward" /\ home[hop.to] # hop.at
    /\ \/ StreamFails
       \/ /\ hop' = [hop EXCEPT !.pc = "stored", !.at = home[hop.to]]
          /\ UNCHANGED refusals
    /\ UNCHANGED <<home, pooled, there, rowOf, rowPuts, halts>>

\* ForwardPeerEndpoint: over a stream to the node, where Dispatch finds that
\* the chat is not for it and starts RelaySend; without a stream it is stored.
ForwardPeerEndpoint ==
    /\ hop.pc = "forward" /\ home[hop.to] # hop.at
    /\ \/ StreamFails
       \/ /\ hop' = [hop EXCEPT !.pc = "lookup", !.at = home[hop.to]]
          /\ UNCHANGED refusals
    /\ UNCHANGED <<home, pooled, there, rowOf, rowPuts, halts>>

\* A node restarts: its sessions and what it was handing on are gone, and its
\* rows are put down, which no other node is told.
Halt(n) ==
    /\ halts < MaxHalts /\ halts' = halts + 1
    /\ pooled' = {s \in pooled : home[s] # n}
    /\ there' = (there /\ home[LastSession] # n)
    /\ rowOf' = [rowOf EXCEPT ![n].up = FALSE]
    /\ hop' = IF hop.at = n /\ hop.pc \in {"lookup", "forward"}
              THEN [hop EXCEPT !.pc = "lost"] ELSE hop
    /\ UNCHANGED <<home, rowPuts, refusals>>

HandOn == LookupRow \/ ForwardToSession \/ ForwardPeerEndpoint

HopStep ==
    \/ \E n \in Nodes : ConnectAt(n) \/ Halt(n)
    \/ ConnectAgain \/ GoesAway \/ Updated
    \/ \E s \in pooled : Disconnected(s)
    \/ \E p \in rowPuts : RowArrives(p) \/ RowLost(p)
    \/ SubmitChat

----------------------------------------------------------------------------
(* Properties.                                                             *)

\* Two nodes whose rows send the client's chats to each other.
Crossed ==
    \E m, n \in Nodes :
        /\ m # n /\ rowOf[m].up /\ rowOf[n].up
        /\ home[rowOf[m].session] = n /\ home[rowOf[n].session] = m

\* A chat that is handed from node to node, of which no count is kept, ends
\* with the client, in a table or with a connection or a node, unless two
\* nodes keep sending it to each other
\* (p2p/chain/handler/sender/default.go:42-69, 136-165).
HopsEnd ==
    hop.pc \in {"lookup", "forward"} ~>
        hop.pc \notin {"lookup", "forward"} \/ Crossed

\* The client is on its last session and every node's row says so.
Settled ==
    there /\ \A n \in Nodes : rowOf[n] = [session |-> LastSession, up |-> TRUE]

\* A client whose session all nodes agree on gets the chat, from whichever
\* node it starts, unless a stream fails or the rows change meanwhile.
HopsArrive ==
    hop.pc = "lookup" /\ Settled ~>
        hop.pc = "delivered" \/ ~Settled \/ refusals > 0

----------------------------------------------------------------------------
(* The inductive invariant.                                                *)

\* A row is of a session that was opened, or is the one of a node without row.
Known(row) == row.session \in Opened \/ (row.session = 0 /\ ~row.up)

\* All rows, and the session a chat is handed on to, are of opened sessions.
RowsKnown ==
    /\ \A n \in Nodes : Known(rowOf[n])
    /\ \A p \in rowPuts : Known(p.row)
    /\ hop.pc = "forward" => hop.to \in Opened

HopInv == HopTypeOK /\ RowsKnown
=============================================================================
