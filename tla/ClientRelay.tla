---------------------------- MODULE ClientRelay ----------------------------
(***************************************************************************)
(* How a node reaches one of its clients: the presence of the client       *)
(* (p2p/chain/handler/receiver/handler.go, p2p/chain/action/dht/connect.go)*)
(* and the relay of chat messages to it (p2p/chain/handler/sender,         *)
(* p2p/msg/service/biz).                                                   *)
(*                                                                         *)
(* One client with one PeerClient record is modelled.  It comes on         *)
(* websocket sessions, numbered in order; module WebsocketPool has the     *)
(* connections in detail.  What matters of them here: a connection handles *)
(* one message at a time, its last handler may outlive it, Close runs      *)
(* HandleDisconnected up to MaxCalls times, and the mutex of the pool      *)
(* keeps those calls and the accepts apart.                                *)
(*                                                                         *)
(* The fault tolerance level is 0 or 1, at which GetValues only reads: at  *)
(* level 2 the queries of CONNECT and Lookup take the rows out and put     *)
(* them back, which is the subject of module DhtRecords.  An access to the *)
(* record or to the message table may fail, except the two deletes (what   *)
(* they keep would be sent again) and the reads of Lookup.                 *)
(***************************************************************************)
EXTENDS Naturals, FiniteSets

CONSTANTS Sessions,    \* the sessions the client comes on, numbers
          Msgs,        \* chat messages other clients send to the client
          Relays,      \* slots for goroutines running biz.RelaySend
          Plain,       \* the sessions with other messages than CONNECT too
          Stay,        \* the session, if any, the client stays on in the end
          MaxCalls,    \* bound on the Close calls of a connection
          MaxCrashes,  \* bound on the restarts of the node
          NoSession

ASSUME SessionsOK == Sessions \subseteq Nat
ASSUME NoSessionOK == NoSession \notin Sessions
ASSUME StayOK == Stay \in Sessions \cup {NoSession}
ASSUME BoundsOK == MaxCalls \in Nat /\ MaxCrashes \in Nat /\ 0 \notin Relays

VARIABLES
    conn,      \* conn[s]: the connection; the pool holds it while it is open
               \* or gone, that is left by the client and not closed yet
    calls,     \* calls[s]: Close calls its goroutines have made
    clientIds, \* the keys of peerClientConnectionPool
    rec,       \* the PeerClient record: its session and active status
    reader,    \* reader[s]: the place of ReceiveRaw on s
    disc,      \* the running HandleDisconnected
    sends,     \* goroutines in RelaySend
    relays,    \* relays[i]: the place of biz.RelaySend in slot i
    outbox,    \* outbox[s]: messages in outChan of s
    stored,    \* blc_chainmessage
    submitted, delivered,
    lost,      \* history: lost with a connection or a restart, deleted or
               \* not stored
    crashes

client == <<conn, calls>>
presence == <<clientIds, rec>>
chat == <<sends, relays, outbox, stored, submitted, delivered, lost>>
vars == <<conn, calls, clientIds, rec, reader, disc, sends, relays, outbox,
          stored, submitted, delivered, lost, crashes>>

NoDisc == [session |-> NoSession, pc |-> "none"]

\* by: 0, or the slot of the biz.RelaySend that started the goroutine.
Send == [msg : Msgs, by : Relays \cup {0}, pc : {"lookup", "insert"},
         session : {NoSession}]
        \cup [msg : Msgs, by : Relays \cup {0}, pc : {"forward", "write"},
              session : Sessions]

\* The types of the variables.
TypeOK ==
    /\ conn \in [Sessions -> {"new", "open", "gone", "closed"}]
    /\ calls \in [Sessions -> 0 .. MaxCalls]
    /\ clientIds \subseteq Sessions
    /\ rec \in [session : Sessions \cup {NoSession}, up : BOOLEAN]
    /\ reader \in [Sessions -> [pc : {"idle", "store", "read", "write", "put"},
                                connect : BOOLEAN]]
    /\ disc \in [session : Sessions \cup {NoSession},
                 pc : {"none", "load", "read", "write"}]
    /\ sends \subseteq Send
    /\ relays \in [Relays -> {"none", "find", "delete"}]
    /\ outbox \in [Sessions -> SUBSET Msgs]
    /\ stored \subseteq Msgs
    /\ submitted \subseteq Msgs
    /\ delivered \subseteq Msgs
    /\ lost \subseteq Msgs
    /\ crashes \in 0 .. MaxCrashes

Idle == [pc |-> "idle", connect |-> FALSE]

\* No record: session is NoSession.
Init ==
    /\ conn = [s \in Sessions |-> "new"]
    /\ calls = [s \in Sessions |-> 0]
    /\ clientIds = {}
    /\ rec = [session |-> NoSession, up |-> FALSE]
    /\ reader = [s \in Sessions |-> Idle]
    /\ disc = NoDisc
    /\ sends = {}
    /\ relays = [i \in Relays |-> "none"]
    /\ outbox = [s \in Sessions |-> {}]
    /\ stored = {} /\ submitted = {} /\ delivered = {}
    /\ lost = {}
    /\ crashes = 0

----------------------------------------------------------------------------
(* The connections, in outline.                                            *)

InPool(s) == conn[s] \in {"open", "gone"}

\* websocketHandler waits for the mutex that HandleDisconnected runs under.
Open(s) ==
    /\ conn[s] = "new" /\ \A r \in Sessions : r < s => conn[r] # "new"
    /\ disc = NoDisc
    /\ conn' = [conn EXCEPT ![s] = "open"]
    /\ UNCHANGED <<calls, presence, reader, disc, chat, crashes>>

\* The client goes; the node has not noticed.
Leave(s) ==
    /\ conn[s] = "open" /\ s # Stay
    /\ conn' = [conn EXCEPT ![s] = "gone"]
    /\ UNCHANGED <<calls, presence, reader, disc, chat, crashes>>

\* A goroutine of the connection calls Close: the connection leaves the pool
\* with what is in its outChan, and disconnectedHandler is called.
CloseConnection(s) ==
    /\ conn[s] \in {"gone", "closed"}
    /\ calls[s] < MaxCalls
    /\ disc = NoDisc
    /\ conn' = [conn EXCEPT ![s] = "closed"]
    /\ calls' = [calls EXCEPT ![s] = @ + 1]
    /\ disc' = [session |-> s, pc |-> "load"]
    /\ lost' = lost \cup outbox[s]
    /\ outbox' = [outbox EXCEPT ![s] = {}]
    /\ UNCHANGED <<presence, reader, sends, relays, stored, submitted,
                   delivered, crashes>>

\* loopWrite writes a message to a client that is there.
Deliver(s, m) ==
    /\ conn[s] = "open" /\ m \in outbox[s]
    /\ delivered' = delivered \cup {m}
    /\ outbox' = [outbox EXCEPT ![s] = @ \ {m}]
    /\ UNCHANGED <<client, presence, reader, disc, sends, relays, stored,
                   submitted, lost, crashes>>

----------------------------------------------------------------------------
(* ReceiveRaw on a session: UpdatePeerClient, then perhaps CONNECT.        *)

At(s, pc) == reader' = [reader EXCEPT ![s].pc = pc]

\* The handling of a message of the client begins, CONNECT or another; one
\* that is read after the client has left counts as begun before.
ReceiveRaw(s, connect) ==
    /\ conn[s] = "open" /\ reader[s] = Idle
    /\ connect \/ s \in Plain
    /\ reader' = [reader EXCEPT ![s] = [pc |-> "store", connect |-> connect]]
    /\ UNCHANGED <<client, presence, disc, chat, crashes>>

\* The reader goes on to the action of the message.
Dispatch(s) ==
    reader' = [reader EXCEPT ![s] =
                 IF @.connect THEN [@ EXCEPT !.pc = "put"] ELSE Idle]

UpdateStore(s) ==
    /\ reader[s].pc = "store"
    /\ clientIds' = clientIds \cup {s}
    /\ At(s, "read")
    /\ UNCHANGED <<client, rec, disc, chat, crashes>>

\* GetLocals: only a record that is not up is updated.
UpdateRead(s) ==
    /\ reader[s].pc = "read"
    /\ \/ rec.session # NoSession /\ ~rec.up /\ At(s, "write")
       \/ (rec.session = NoSession \/ rec.up) /\ Dispatch(s)
    /\ UNCHANGED <<client, presence, disc, chat, crashes>>

\* PutValues writes the whole record.
UpdateWrite(s) ==
    /\ reader[s].pc = "write"
    /\ rec' = [session |-> s, up |-> TRUE]
    /\ Dispatch(s)
    /\ UNCHANGED <<client, clientIds, disc, chat, crashes>>

\* GetLocals or PutValues fails: the error is logged.
UpdateFails(s) ==
    /\ reader[s].pc \in {"read", "write"}
    /\ Dispatch(s)
    /\ UNCHANGED <<client, presence, disc, chat, crashes>>

\* Fault: a record that is up is left alone, as UpdatePeerClient does.
ConnectPutIfDown(s, i) ==
    /\ reader[s].pc = "put"
    /\ rec' = IF rec.up THEN rec ELSE [session |-> s, up |-> TRUE]
    /\ relays[i] = "none"
    /\ relays' = [relays EXCEPT ![i] = "find"]
    /\ reader' = [reader EXCEPT ![s] = Idle]
    /\ UNCHANGED <<client, clientIds, disc, sends, outbox, stored, submitted,
                   delivered, lost, crashes>>

\* connectAction.Receive stores the client's own record, which says it is up,
\* and starts biz.RelaySend.
ConnectPut(s, i) ==
    /\ reader[s].pc = "put"
    /\ rec' = [session |-> s, up |-> TRUE]
    /\ relays[i] = "none"
    /\ relays' = [relays EXCEPT ![i] = "find"]
    /\ reader' = [reader EXCEPT ![s] = Idle]
    /\ UNCHANGED <<client, clientIds, disc, sends, outbox, stored, submitted,
                   delivered, lost, crashes>>

\* PutValues fails: an error is returned and nothing is sent.
ConnectFails(s) ==
    /\ reader[s].pc = "put"
    /\ reader' = [reader EXCEPT ![s] = Idle]
    /\ UNCHANGED <<client, presence, disc, chat, crashes>>

----------------------------------------------------------------------------
(* HandleDisconnected.                                                     *)

DisconnectLoad ==
    /\ disc.pc = "load"
    /\ clientIds' = clientIds \ {disc.session}
    /\ disc' = IF disc.session \in clientIds THEN [disc EXCEPT !.pc = "read"]
               ELSE NoDisc
    /\ UNCHANGED <<client, rec, reader, chat, crashes>>

\* Only a record of the ended session that is up is put down.
DisconnectRead ==
    /\ disc.pc = "read"
    /\ disc' = IF rec.session = disc.session /\ rec.up
               THEN [disc EXCEPT !.pc = "write"] ELSE NoDisc
    /\ UNCHANGED <<client, presence, reader, chat, crashes>>

DisconnectWrite ==
    /\ disc.pc = "write"
    /\ rec' = [session |-> disc.session, up |-> FALSE]
    /\ disc' = NoDisc
    /\ UNCHANGED <<client, clientIds, reader, chat, crashes>>

\* GetLocals or PutValues fails: the record stays up.
DisconnectFails ==
    /\ disc.pc \in {"read", "write"}
    /\ disc' = NoDisc
    /\ UNCHANGED <<client, presence, reader, chat, crashes>>

----------------------------------------------------------------------------
(* RelaySend of one message, and biz.RelaySend of the stored ones.         *)

\* Another client sends a chat message; Dispatch starts RelaySend.
Submit(m) ==
    /\ m \notin submitted
    /\ submitted' = submitted \cup {m}
    /\ sends' = sends \cup
         {[msg |-> m, by |-> 0, pc |-> "lookup", session |-> NoSession]}
    /\ UNCHANGED <<client, presence, reader, disc, relays, outbox, stored,
                   delivered, lost, crashes>>

Step(g, pc, s) ==
    sends' = (sends \ {g}) \cup {[g EXCEPT !.pc = pc, !.session = s]}

\* Lookup finds the record up, or nothing; no other node knows the client.
Lookup(g) ==
    /\ g \in sends /\ g.pc = "lookup"
    /\ IF rec.up THEN Step(g, "forward", rec.session)
       ELSE Step(g, "insert", NoSession)
    /\ UNCHANGED <<client, presence, reader, disc, relays, outbox, stored,
                   submitted, delivered, lost, crashes>>

\* Fault: a message for a session without connection is given up.
ForwardPeerClientDrop(g) ==
    /\ g \in sends /\ g.pc = "forward"
    /\ IF InPool(g.session) THEN Step(g, "write", g.session)
       ELSE sends' = sends \ {g}
    /\ UNCHANGED <<client, presence, reader, disc, relays, outbox, stored,
                   submitted, delivered, lost, crashes>>

\* ForwardPeerClient looks for the connection of the session; without one the
\* message is stored.
ForwardPeerClient(g) ==
    /\ g \in sends /\ g.pc = "forward"
    /\ IF InPool(g.session) THEN Step(g, "write", g.session)
       ELSE Step(g, "insert", NoSession)
    /\ UNCHANGED <<client, presence, reader, disc, relays, outbox, stored,
                   submitted, delivered, lost, crashes>>

\* Write chooses among what is ready, room in outChan and a closed closeChan;
\* in the second case the message is stored.  The connection may have ended
\* since it was looked up, and nothing is taken from its channel any more.
Write(g) ==
    /\ g \in sends /\ g.pc = "write"
    /\ \/ /\ sends' = sends \ {g}
          /\ IF InPool(g.session)
             THEN /\ outbox' = [outbox EXCEPT ![g.session] = @ \cup {g.msg}]
                  /\ UNCHANGED lost
             ELSE lost' = lost \cup {g.msg} /\ UNCHANGED outbox
       \/ /\ conn[g.session] # "open"
          /\ Step(g, "insert", NoSession)
          /\ UNCHANGED <<outbox, lost>>
    /\ UNCHANGED <<client, presence, reader, disc, relays, stored, submitted,
                   delivered, crashes>>

\* The message table has one row per message.  The error of Insert is ignored.
Insert(g) ==
    /\ g \in sends /\ g.pc = "insert"
    /\ sends' = sends \ {g}
    /\ \/ stored' = stored \cup {g.msg} /\ UNCHANGED lost
       \/ lost' = lost \cup {g.msg} /\ UNCHANGED stored
    /\ UNCHANGED <<client, presence, reader, disc, relays, outbox, submitted,
                   delivered, crashes>>

\* Fault: the goroutines that send what was found are not started.
BizFindOnly(i) ==
    /\ relays[i] = "find"
    /\ relays' = [relays EXCEPT ![i] = "none"]
    /\ UNCHANGED <<client, presence, reader, disc, sends, outbox, stored,
                   submitted, delivered, lost, crashes>>

\* biz.RelaySend: Find, and one goroutine per message found.
BizFind(i) ==
    /\ relays[i] = "find"
    /\ relays' = [relays EXCEPT ![i] = "delete"]
    /\ sends' = sends \cup
         {[msg |-> m, by |-> i, pc |-> "lookup", session |-> NoSession] :
            m \in stored}
    /\ UNCHANGED <<client, presence, reader, disc, outbox, stored, submitted,
                   delivered, lost, crashes>>

\* Find fails, and nothing is sent or deleted.
BizFindFails(i) ==
    /\ relays[i] = "find"
    /\ relays' = [relays EXCEPT ![i] = "none"]
    /\ UNCHANGED <<client, presence, reader, disc, sends, outbox, stored,
                   submitted, delivered, lost, crashes>>

InHand(m) == \E g \in sends : g.msg = m

\* Delete removes every message of the client, found or not.
BizDelete(i) ==
    /\ relays[i] = "delete"
    /\ stored' = {}
    /\ lost' = lost \cup {m \in stored : ~InHand(m)}
    /\ relays' = [relays EXCEPT ![i] = "none"]
    /\ UNCHANGED <<client, presence, reader, disc, sends, outbox, submitted,
                   delivered, crashes>>

\* The daily DeleteTimeout deletes what was created before next week.
DeleteTimeout ==
    /\ stored # {}
    /\ stored' = {}
    /\ lost' = lost \cup stored
    /\ UNCHANGED <<client, presence, reader, disc, sends, relays, outbox,
                   submitted, delivered, crashes>>

\* A restart: connections, goroutines and peerClientConnectionPool are gone,
\* the tables stay, and every record is put down.  Stay is a session after
\* the last restart.
Restart ==
    /\ crashes < MaxCrashes
    /\ \A s \in Sessions : s = Stay => conn[s] = "new"
    /\ crashes' = crashes + 1
    /\ conn' = [s \in Sessions |-> IF InPool(s) THEN "closed" ELSE conn[s]]
    /\ calls' = [s \in Sessions |-> IF conn[s] = "new" THEN 0 ELSE MaxCalls]
    /\ clientIds' = {}
    /\ rec' = [rec EXCEPT !.up = FALSE]
    /\ reader' = [s \in Sessions |-> Idle]
    /\ disc' = NoDisc
    /\ lost' = lost \cup {g.msg : g \in sends} \cup UNION {outbox[s] : s \in Sessions}
    /\ sends' = {}
    /\ relays' = [i \in Relays |-> "none"]
    /\ outbox' = [s \in Sessions |-> {}]
    /\ UNCHANGED <<stored, submitted, delivered>>

Next ==
    \/ \E s \in Sessions :
         \/ Open(s) \/ Leave(s) \/ CloseConnection(s)
         \/ \E m \in Msgs : Deliver(s, m)
         \/ \E c \in BOOLEAN : ReceiveRaw(s, c)
         \/ UpdateStore(s) \/ UpdateRead(s) \/ UpdateWrite(s) \/ UpdateFails(s)
         \/ \E i \in Relays : ConnectPut(s, i)
         \/ ConnectFails(s)
    \/ DisconnectLoad \/ DisconnectRead \/ DisconnectWrite \/ DisconnectFails
    \/ \E m \in Msgs : Submit(m)
    \/ \E g \in sends :
         Lookup(g) \/ ForwardPeerClient(g) \/ Write(g) \/ Insert(g)
    \/ \E i \in Relays :  BizFind(i) \/ BizFindFails(i) \/ BizDelete(i)
    \/ DeleteTimeout
    \/ Restart

\* Goroutines run, a broken connection is noticed (WebsocketPool, Reclaimed),
\* the writer of an open one delivers, and a put or a Find that is tried again
\* and again succeeds.
Fairness ==
    /\ \A s \in Sessions :
         /\ WF_vars(CloseConnection(s))
         /\ \A m \in Msgs : WF_vars(Deliver(s, m))
         /\ WF_vars(UpdateStore(s) \/ UpdateRead(s) \/ UpdateWrite(s))
         /\ SF_vars(\E i \in Relays : ConnectPut(s, i))
    /\ WF_vars(DisconnectLoad \/ DisconnectRead \/ DisconnectWrite)
    /\ \A m \in Msgs, b \in Relays \cup {0} :
         WF_vars(\E g \in sends :
                   /\ g.msg = m /\ g.by = b
                   /\ Lookup(g) \/ ForwardPeerClient(g) \/ Write(g) \/ Insert(g))
    /\ \A i \in Relays : SF_vars(BizFind(i)) /\ WF_vars(BizDelete(i))

\* The client comes, leaves every session but Stay, on which it repeats CONNECT.
ClientFairness ==
    \A s \in Sessions :
      /\ WF_vars(Open(s)) /\ WF_vars(Leave(s))
      /\ s = Stay => SF_vars(ReceiveRaw(s, TRUE))

Spec == Init /\ [][Next]_vars
FairSpec == Spec /\ Fairness /\ ClientFairness

----------------------------------------------------------------------------
(* Properties.                                                             *)

\* A chat message is somewhere: stored, in the hands of a goroutine, in the
\* channel of a connection or delivered, unless a connection took it along (it
\* was in its channel, or was put there after it had ended), a restart or a
\* delete removed it, or it could not be stored.
Accounted ==
    \A m \in submitted :
      \/ m \in delivered \/ m \in stored \/ m \in lost
      \/ InHand(m)
      \/ \E s \in Sessions : m \in outbox[s]

\* A client that stays on a session and repeats CONNECT is in the end found
\* up under that session for good, whatever handlers and disconnections of
\* its older sessions are still under way.
SettlesUp == <>[](rec = [session |-> Stay, up |-> TRUE])

\* Such a client gets every message that is not lost on the way, those
\* stored while it was away included.
Relayed == \A m \in Msgs : (m \in submitted) ~> (m \in delivered \cup lost)
============================================================================
