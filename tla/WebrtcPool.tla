----------------------------- MODULE WebrtcPool -----------------------------
(***************************************************************************)
(* The pool of WebRTC peer connections of a node and the handlers of the   *)
(* signals it receives (webrtc/peer_connection_pool.go, signal.go,         *)
(* base_peer_connection.go, p2p/chain/action/dht/signal.go).               *)
(*                                                                         *)
(* Every signal is handled by a goroutine of its own, and neither the      *)
(* pool's maps nor a connection's fields have a lock: a handler is a slot, *)
(* and a step of it is one access to what the handlers share.  The pool is *)
(* a map of the peers, each with a map of its clients, so that a handler   *)
(* may use a peer's map which the pool has no more; a search of the two is *)
(* one step.  A panic of a handler, or two accesses to one Go map of which *)
(* one writes, stop the process; those that Go does not notice go on.      *)
(*                                                                         *)
(* A signal is known by what is left of it after Transform:                *)
(*   "nil"        the type is no string or empty: there is no signal;      *)
(*   "sdp"        type "sdp", whose Sdp Transform never sets;              *)
(*   "candidate"  type "candidate", whose Candidates are nil after JSON;   *)
(*   "data"       an offer or answer with its sdp, a renegotiation, or a   *)
(*                transceiver request;                                     *)
(*   "bare"       any other, without data.                                 *)
(* No client is called unknownClientId, so that no connection is re-keyed. *)
(***************************************************************************)
EXTENDS Naturals, FiniteSets

CONSTANTS Pairs,       \* pairs <<peerId, clientId>> of the senders
          Slots,       \* the signal handlers that may run at a time
          MaxSignals,  \* bound on the signals
          MaxRestarts, \* bound on the restarts
          NoClient,    \* the empty clientId, which a signal need not carry
          NoConn

ASSUME PairsOK == Pairs # {}
ASSUME SlotsOK == IsFiniteSet(Slots)
ASSUME SignalsOK == MaxSignals \in Nat /\ MaxRestarts \in Nat
ASSUME NoConnOK == NoConn \notin 1 .. MaxSignals

VARIABLES
    up,        \* whether the process runs
    ice,       \* whether a connection can be opened with the configured servers
    maps,      \* the peers that have a map in peerConnections
    pool,      \* pool[p]: the connection of the pair in the map of its peer
    conns,     \* conns[i]: the i-th connection made since the process started
    made,      \* their number
    handlers,  \* the signal handlers
    signals,   \* the signals received
    restarts,
    asked,     \* history: the pairs a candidate came from since the start
    replaced,  \* history: the connections another one was put over
    dropped,   \* history: those that went with the map of a peer, or that were
               \* put in one the pool had no more
    closing    \* history: the connections Close found not to be open

\* What no step of a handler changes, and where the connections are.
still == <<up, ice, signals, restarts, asked>>
places == <<maps, pool, replaced, dropped>>

pairVars == <<ice, maps, pool, conns, made, handlers, signals, restarts, asked,
              replaced, dropped, closing>>

Kinds == {"nil", "sdp", "candidate", "data", "bare"}

\* status "none" stands for Go's "".  negotiateStatus is only written.
Conn == [pair : Pairs, open : BOOLEAN, status : {"none", "init", "closed"},
         events : BOOLEAN]

\* At "orphan" and "old" a handler has a map of the peer that the pool had.
Steps == {"idle", "lookup", "check", "put", "map", "write", "orphan", "init",
          "on", "signal", "close", "closed", "emit", "remove", "take", "old",
          "drop"}

Peers == {p[1] : p \in Pairs}

\* outer: the connection of line 306, which the one of line 329 shadows.
Handler == [pc : Steps, kind : Kinds, pair : Pairs,
            outer : (1 .. MaxSignals) \cup {NoConn},
            conn : (1 .. MaxSignals) \cup {NoConn}]

\* The types of the pool's variables.
PoolTypeOK ==
    /\ up \in BOOLEAN /\ ice \in BOOLEAN
    /\ made \in 0 .. MaxSignals
    /\ maps \subseteq Peers
    /\ pool \in [Pairs -> (1 .. made) \cup {NoConn}]
    /\ conns \in [1 .. made -> Conn]
    /\ handlers \in [Slots -> Handler]
    /\ signals \in 0 .. MaxSignals
    /\ restarts \in 0 .. MaxRestarts
    /\ asked \subseteq Pairs
    /\ replaced \subseteq 1 .. made /\ dropped \subseteq 1 .. made
    /\ closing \subseteq 1 .. made

NoPool == [p \in Pairs |-> NoConn]
Idle == [pc |-> "idle", kind |-> "bare", pair |-> CHOOSE p \in Pairs : TRUE,
         outer |-> NoConn, conn |-> NoConn]

PoolInit ==
    /\ up = TRUE /\ ice \in BOOLEAN
    /\ maps = {} /\ pool = NoPool /\ conns = <<>> /\ made = 0
    /\ handlers = [s \in Slots |-> Idle]
    /\ signals = 0 /\ restarts = 0
    /\ asked = {} /\ replaced = {} /\ dropped = {} /\ closing = {}

----------------------------------------------------------------------------
Goto(s, pc) == handlers' = [handlers EXCEPT ![s].pc = pc]
Done(s) == handlers' = [handlers EXCEPT ![s] = Idle]

\* What is left of a process that stopped: its memory is gone.
Stop ==
    /\ up' = FALSE
    /\ maps' = {} /\ pool' = NoPool /\ conns' = <<>> /\ made' = 0
    /\ handlers' = [s \in Slots |-> Idle]
    /\ asked' = {} /\ replaced' = {} /\ dropped' = {} /\ closing' = {}
    /\ UNCHANGED <<ice, signals, restarts>>

\* signalAction.Receive: a goroutine per signal for this node.  The pair is
\* the extension's, when the signal carries one.
Receive(s) ==
    /\ handlers[s].pc = "idle" /\ signals < MaxSignals
    /\ \E p \in Pairs, k \in Kinds :
          /\ handlers' = [handlers EXCEPT
                 ![s] = [Idle EXCEPT !.pc = "lookup", !.kind = k, !.pair = p]]
          /\ asked' = IF k = "candidate" THEN asked \cup {p} ELSE asked
    /\ signals' = signals + 1
    /\ UNCHANGED <<up, ice, places, conns, made, restarts, closing>>

\* onWebrtcSignal up to line 323, which reads the type of a missing Sdp; line
\* 272 reads the type of a missing signal.
Lookup(s) ==
    /\ handlers[s].pc = "lookup"
    /\ \/ handlers[s].kind \in {"nil", "sdp"} /\ Stop
       \/ LET found == pool[handlers[s].pair] IN
          /\ handlers[s].kind \notin {"nil", "sdp"}
          /\ IF handlers[s].kind = "candidate"
             THEN handlers' = [handlers EXCEPT ![s].pc = "check",
                                               ![s].outer = found]
             ELSE IF found # NoConn
             THEN handlers' = [handlers EXCEPT ![s].pc = "signal",
                                               ![s].outer = found]
             ELSE Done(s)
          /\ UNCHANGED <<still, places, conns, made, closing>>

\* The end of the creation: the signal goes to the outer connection, if any.
Created(s) == IF handlers[s].outer = NoConn THEN Done(s) ELSE Goto(s, "signal")

\* Fault: only an offer makes a connection.
CheckOnly(s) ==
    /\ handlers[s].pc = "check"
    /\ IF pool[handlers[s].pair] = NoConn THEN Done(s) ELSE Created(s)
    /\ UNCHANGED <<still, places, conns, made, closing>>

\* createIfNotExist looks for the connection again.
Check(s) ==
    /\ handlers[s].pc = "check"
    /\ IF pool[handlers[s].pair] = NoConn THEN Goto(s, "put") ELSE Created(s)
    /\ UNCHANGED <<still, places, conns, made, closing>>

\* put, line 87: the map of the peer.
Put(s) ==
    /\ handlers[s].pc = "put"
    /\ Goto(s, IF handlers[s].pair[1] \in maps THEN "write" ELSE "map")
    /\ UNCHANGED <<still, places, conns, made, closing>>

\* The handlers, when the pool has the map of peer q no more that they use.
Detached(q) ==
    [t \in Slots |->
        IF handlers[t].pair[1] = q /\ handlers[t].pc = "write"
        THEN [handlers[t] EXCEPT !.pc = "orphan"]
        ELSE IF handlers[t].pair[1] = q /\ handlers[t].pc = "take"
        THEN [handlers[t] EXCEPT !.pc = "old"]
        ELSE handlers[t]]

\* The connections of peer q are those of a map the pool has no more.
DropMap(q) ==
    /\ pool' = [p \in Pairs |-> IF p[1] = q THEN NoConn ELSE pool[p]]
    /\ dropped' = dropped \cup
           ({pool[p] : p \in {r \in Pairs : r[1] = q}} \ {NoConn})

\* put, line 90: a new map of the peer, over one that came meanwhile.
NewMap(s) ==
    LET q == handlers[s].pair[1] IN
    /\ handlers[s].pc = "map"
    /\ maps' = maps \cup {q} /\ DropMap(q)
    /\ handlers' = [Detached(q) EXCEPT ![s].pc = "write"]
    /\ UNCHANGED <<still, conns, made, replaced, closing>>

\* put, line 97: the connection, over another if one came, in the map the
\* handler has.
Write(s) ==
    LET p == handlers[s].pair IN
    /\ handlers[s].pc \in {"write", "orphan"}
    /\ made' = made + 1
    /\ conns' = [i \in 1 .. made' |-> IF i <= made THEN conns[i]
                    ELSE [pair |-> p, open |-> FALSE, status |-> "none",
                          events |-> FALSE]]
    /\ \/ /\ handlers[s].pc = "write"
          /\ pool' = [pool EXCEPT ![p] = made']
          /\ replaced' = replaced \cup ({pool[p]} \ {NoConn})
          /\ UNCHANGED dropped
       \/ /\ handlers[s].pc = "orphan"
          /\ dropped' = dropped \cup {made'}
          /\ UNCHANGED <<pool, replaced>>
    /\ handlers' = [handlers EXCEPT ![s].pc = "init", ![s].conn = made']
    /\ UNCHANGED <<still, maps, closing>>

\* BasePeerConnection.Init; its error is ignored by the advanced one.
InitConn(s) ==
    LET i == handlers[s].conn IN
    /\ handlers[s].pc = "init"
    /\ conns' = IF ice THEN [conns EXCEPT ![i].open = TRUE, ![i].status = "init"]
                ELSE conns
    /\ Goto(s, "on")
    /\ UNCHANGED <<still, places, made, closing>>

\* AdvancedPeerConnection.Init registers the events, "closed" among them.
RegisterEvents(s) ==
    /\ handlers[s].pc = "on"
    /\ conns' = [conns EXCEPT ![handlers[s].conn].events = TRUE]
    /\ Created(s)
    /\ UNCHANGED <<still, places, made, closing>>

\* _onAnswerSignal: a closed connection ignores the signal; one with data ends
\* as "invalid signal data", whose type is never one of those it handles.
OnSignal(s) ==
    LET i == handlers[s].outer IN
    /\ handlers[s].pc = "signal"
    /\ IF conns[i].status # "closed" /\ handlers[s].kind # "data"
       THEN Goto(s, "close")
       ELSE Done(s)
    /\ UNCHANGED <<still, places, conns, made, closing>>

\* Close: an open connection is closed, set to nil, and then used.
Close(s) ==
    LET i == handlers[s].outer IN
    /\ handlers[s].pc = "close"
    /\ IF conns[i].status # "closed" /\ conns[i].open
       THEN Stop
       ELSE /\ IF conns[i].status = "closed" THEN Done(s) /\ UNCHANGED closing
               ELSE Goto(s, "closed") /\ closing' = closing \cup {i}
            /\ UNCHANGED <<still, places, conns, made>>

\* Close, from line 627.
CloseStatus(s) ==
    /\ handlers[s].pc = "closed"
    /\ conns' = [conns EXCEPT ![handlers[s].outer].status = "closed"]
    /\ Goto(s, "emit")
    /\ UNCHANGED <<still, places, made, closing>>

\* Emit: nobody is told while the event has no function.
EmitClosed(s) ==
    /\ handlers[s].pc = "emit"
    /\ IF conns[handlers[s].outer].events THEN Goto(s, "remove") ELSE Done(s)
    /\ UNCHANGED <<still, places, conns, made, closing>>

\* remove, line 124: the map of the peer, unless it is empty.
FindMap(s) ==
    LET q == conns[handlers[s].outer].pair[1] IN
    /\ handlers[s].pc = "remove"
    /\ IF \E p \in Pairs : p[1] = q /\ pool[p] # NoConn
       THEN Goto(s, "take") ELSE Done(s)
    /\ UNCHANGED <<still, places, conns, made, closing>>

\* Fault: the client is not passed on, and the whole peer is removed.
RemovedPeer(p) == [q \in Pairs |-> IF q[1] = p[1] THEN NoConn ELSE pool[q]]

\* The pool's entries that are left when remove takes pair p from them: with
\* no client, all of the peer.
Removed(p) ==
    [q \in Pairs |-> IF q = p \/ (p[2] = NoClient /\ q[1] = p[1])
                     THEN NoConn ELSE pool[q]]

\* remove, with no client: the map of the peer is deleted.
TakePeer(s) ==
    LET p == conns[handlers[s].outer].pair IN
    /\ handlers[s].pc \in {"take", "old"} /\ p[2] = NoClient
    /\ pool' = Removed(p) /\ maps' = maps \ {p[1]}
    /\ handlers' = [Detached(p[1]) EXCEPT ![s] = Idle]
    /\ UNCHANGED <<still, conns, made, replaced, dropped, closing>>

\* remove, lines 135 to 145: whichever connection the pair has in the map the
\* handler has, which is then empty or not.
TakePair(s) ==
    LET p == conns[handlers[s].outer].pair IN
    /\ handlers[s].pc \in {"take", "old"} /\ p[2] # NoClient
    /\ \/ /\ handlers[s].pc = "take" /\ pool' = Removed(p)
          /\ IF \E q \in Pairs : q[1] = p[1] /\ pool'[q] # NoConn
             THEN Done(s) ELSE Goto(s, "drop")
       \/ /\ handlers[s].pc = "old" /\ UNCHANGED pool
          /\ Done(s) \/ Goto(s, "drop")
    /\ UNCHANGED <<still, maps, conns, made, replaced, dropped, closing>>

\* remove, line 146: the map of the peer that is in the pool by now.
Drop(s) ==
    LET q == conns[handlers[s].outer].pair[1] IN
    /\ handlers[s].pc = "drop"
    /\ maps' = maps \ {q} /\ DropMap(q)
    /\ handlers' = [Detached(q) EXCEPT ![s] = Idle]
    /\ UNCHANGED <<still, conns, made, replaced, closing>>

\* The accesses of a handler to a map without a lock: <<map, write>>.
Access(s) ==
    LET h == handlers[s] IN
    CASE h.pc \in {"lookup", "check", "put", "remove"} ->
             {<<<<"pool", NoConn>>, FALSE>>}
      [] h.pc \in {"map", "write", "take", "drop"} ->
             {<<<<"pool", NoConn>>, TRUE>>}
      [] h.pc \in {"orphan", "old"} -> {<<<<"old", NoConn>>, TRUE>>}
      [] h.pc = "on" -> {<<<<"events", h.conn>>, TRUE>>}
      [] h.pc = "emit" -> {<<<<"events", h.outer>>, FALSE>>}
      [] OTHER -> {}

\* Go stops a process whose goroutines use a map at once, one of them writing.
RaceStop ==
    /\ \E s, t \in Slots :
          /\ s # t
          /\ \E a \in Access(s), b \in Access(t) : a[1] = b[1] /\ a[2]
    /\ Stop

\* A started process has an empty pool.
Restart ==
    /\ ~up /\ restarts < MaxRestarts
    /\ up' = TRUE /\ restarts' = restarts + 1
    /\ UNCHANGED <<ice, places, conns, made, handlers, signals, asked, closing>>

HandlerStep(s) ==
    \/ Lookup(s) \/ Check(s) \/ Put(s) \/ NewMap(s) \/ Write(s)
    \/ InitConn(s) \/ RegisterEvents(s)
    \/ OnSignal(s) \/ Close(s) \/ CloseStatus(s) \/ EmitClosed(s)
    \/ FindMap(s) \/ TakePeer(s) \/ TakePair(s) \/ Drop(s)

----------------------------------------------------------------------------
Quiet == \A s \in Slots : handlers[s].pc = "idle"

\* Whether the Close of connection j may take connection i out of the pool: it
\* removes by the name of the pair, and by the peer's when there is no client.
Takes(j, i) ==
    LET p == conns[j].pair IN
    \/ p = conns[i].pair /\ j <= i
    \/ p # conns[i].pair /\ p[2] = NoClient /\ p[1] = conns[i].pair[1]

\* A connection that is open is the one the pool has for its pair, unless a
\* racing handler put another over it or had the map of the peer at the same
\* time, it was opened while a Close of it ran, a Close of one made before it
\* ended late, or a Close of one without a client took all of the peer: these
\* ways are all a connection is lost and left open.
Reachable ==
    \A i \in 1 .. made :
        conns[i].open => \/ pool[conns[i].pair] = i
                         \/ i \in replaced \cup dropped
                         \/ \E j \in closing : Takes(j, i)

\* What took the connections of pair p out of the pool: a Close, of the pair
\* or of the peer, or a race for the map of the peer.
TakenOut(p) ==
    \/ \E i \in closing :
          \/ conns[i].pair = p
          \/ conns[i].pair[2] = NoClient /\ conns[i].pair[1] = p[1]
    \/ \E i \in dropped : conns[i].pair = p

\* Once a candidate of a pair has been handled, the pool of a process whose
\* servers work holds an open connection of it, or it was taken out.
CandidateKept ==
    up /\ ice /\ Quiet =>
        \A p \in asked : \/ \E i \in 1 .. made : pool[p] = i /\ conns[i].open
                         \/ TakenOut(p)

----------------------------------------------------------------------------
(* The inductive invariant.                                                *)

May(h) == h.pc \in {"lookup", "check", "put", "map", "write", "orphan"}

\* The handlers that may still make a connection.
Making == {s \in Slots : May(handlers[s])}

\* A handler makes a connection at most, and is there for one signal.
MakingInv == Cardinality(Making) + made <= signals

Opening(i) ==
    \/ conns[i].open
    \/ \E s \in Slots : handlers[s].pc = "init" /\ handlers[s].conn = i

\* The pool has a pair's own connections, which are open or about to be opened
\* if they can be.
EntriesInv ==
    \A p \in Pairs :
        pool[p] # NoConn => /\ conns[pool[p]].pair = p
                            /\ ice => Opening(pool[p])

Closing == {"closed", "emit", "remove", "take", "old", "drop"}

\* A handler works on connections of its pair that were made, none of them
\* after the one the pool has; one that closes has marked what it closes.
Works(h) ==
    /\ h.pc \in {"init", "on"} => h.conn \in 1 .. made
    /\ h.pc \in {"signal", "close"} \cup Closing => h.outer # NoConn
    /\ h.outer # NoConn =>
          /\ h.outer \in 1 .. made /\ conns[h.outer].pair = h.pair
          /\ pool[h.pair] # NoConn => h.outer <= pool[h.pair]
    /\ h.pc \in Closing => h.outer \in closing

WorkInv == \A s \in Slots : Works(handlers[s])

\* Reachable, of the connections that are not open too.
LostInv ==
    \A i \in 1 .. made :
        \/ pool[conns[i].pair] = i
        \/ i \in replaced \cup dropped
        \/ \E j \in closing : Takes(j, i)

\* A candidate is on its way to the pool, or its pair has a connection there,
\* or it was taken out.
AskedInv ==
    ice => \A p \in asked :
              \/ \E s \in Slots :
                    /\ May(handlers[s]) /\ handlers[s].kind = "candidate"
                    /\ handlers[s].pair = p
              \/ pool[p] # NoConn
              \/ TakenOut(p)

SignalInv ==
    PoolTypeOK /\ MakingInv /\ EntriesInv /\ WorkInv /\ LostInv /\ AskedInv
=============================================================================
