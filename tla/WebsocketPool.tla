--------------------------- MODULE WebsocketPool ---------------------------
(***************************************************************************)
(* The websocket server of go-colla-node                                   *)
(* (transport/websocket/stdhttp/server.go): the pool of connections by     *)
(* session, and per connection the goroutines loopRead, loopWrite and      *)
(* loopHeartbeat, its output channel and its close channel.                *)
(*                                                                         *)
(* A goroutine advances one blocking call at a time.  The test of isClosed *)
(* that opens a loop reads the flag without its lock, so it may miss a     *)
(* close; it is one step with the call that follows.  inChan holds at most *)
(* the message its only user, loopRead, is handling and is part of the     *)
(* place of that goroutine.                                                *)
(***************************************************************************)
EXTENDS Naturals, FiniteSets

CONSTANTS Sockets,   \* the connections, numbered in the order they come
          Sessions,  \* the sessions of the clients
          OutCap,    \* websocket.chanBufferSize, the capacity of outChan
          NoSocket, NoSession

ASSUME SocketsOK == Sockets \subseteq Nat /\ IsFiniteSet(Sockets)
ASSUME NoSocketOK == NoSocket \notin Sockets
ASSUME NoSessionOK == NoSession \notin Sessions
ASSUME OutCapOK == OutCap \in Nat \ {0}

VARIABLES
    sess,     \* sess[c]: the session of connection c
    pool,     \* WebsocketConnectionPool
    up,       \* up[c]: the remote client is still there
    sock,     \* sock[c]: WsConnect has not been closed here
    closed,   \* closed[c]: isClosed, and closeChan is closed
    out,      \* out[c]: the number of messages in outChan
    at,       \* at[c][g]: the place of goroutine g of c
    then,     \* then[c][g]: where g goes on after Close
    sender,   \* the connection SendRaw has looked up and writes to
    notified  \* history: connections disconnectedHandler was called for

socketVars == <<sess, pool, up, sock, closed, out, at, then, sender, notified>>

Goroutines == {"read", "write", "beat"}
Places == {"none", "read", "take", "respond", "write", "first", "beat",
            "shut", "forget", "notify", "done"}

Accepted(c) == sess[c] # NoSession

\* The types of the variables.
SocketTypeOK ==
    /\ sess \in [Sockets -> Sessions \cup {NoSession}]
    /\ pool \in [Sessions -> Sockets \cup {NoSocket}]
    /\ up \in [Sockets -> BOOLEAN]
    /\ sock \in [Sockets -> BOOLEAN]
    /\ closed \in [Sockets -> BOOLEAN]
    /\ out \in [Sockets -> 0 .. OutCap]
    /\ at \in [Sockets -> [Goroutines -> Places]]
    /\ then \in [Sockets -> [Goroutines -> {"read", "beat", "done"}]]
    /\ sender \in Sockets \cup {NoSocket}
    /\ notified \subseteq Sockets

SocketInit ==
    /\ sess = [c \in Sockets |-> NoSession]
    /\ pool = [s \in Sessions |-> NoSocket]
    /\ up = [c \in Sockets |-> FALSE]
    /\ sock = [c \in Sockets |-> FALSE]
    /\ closed = [c \in Sockets |-> FALSE]
    /\ out = [c \in Sockets |-> 0]
    /\ at = [c \in Sockets |-> [g \in Goroutines |-> "none"]]
    /\ then = [c \in Sockets |-> [g \in Goroutines |-> "done"]]
    /\ sender = NoSocket
    /\ notified = {}

----------------------------------------------------------------------------
(* Locks, channels and Close.                                              *)

\* The global mutex is held from the delete to the end of Close.
MutexFree == \A c \in Sockets, g \in Goroutines : at[c][g] # "notify"

\* The mutex of the connection is held from the close of closeChan on.
ConnMutexFree(c) == \A g \in Goroutines : at[c][g] \notin {"forget", "notify"}

Goto(c, g, place) == at' = [at EXCEPT ![c][g] = place]

\* Close begins with WsConnect.Close, before any lock is taken.
Close(c, g, next) ==
    /\ sock' = [sock EXCEPT ![c] = FALSE]
    /\ Goto(c, g, "shut")
    /\ then' = [then EXCEPT ![c][g] = next]

\* closeChan is closed once, under the mutex of the connection.
CloseShut(c, g) ==
    /\ at[c][g] = "shut"
    /\ ConnMutexFree(c)
    /\ closed' = [closed EXCEPT ![c] = TRUE]
    /\ Goto(c, g, "forget")
    /\ UNCHANGED <<sess, pool, up, sock, out, then, sender, notified>>

\* Fault: only the Close of loopRead removes the connection from the pool.
CloseForgetByReader(c, g) ==
    /\ at[c][g] = "forget"
    /\ MutexFree
    /\ pool' = [pool EXCEPT ![sess[c]] = IF g = "read" THEN NoSocket ELSE @]
    /\ Goto(c, g, "notify")
    /\ UNCHANGED <<sess, up, sock, closed, out, then, sender, notified>>

\* Whatever connection the session has in the pool is removed.
CloseForget(c, g) ==
    /\ at[c][g] = "forget"
    /\ MutexFree
    /\ pool' = [pool EXCEPT ![sess[c]] = NoSocket]
    /\ Goto(c, g, "notify")
    /\ UNCHANGED <<sess, up, sock, closed, out, then, sender, notified>>

\* disconnectedHandler runs under both locks, which its return releases.
CloseNotify(c, g) ==
    /\ at[c][g] = "notify"
    /\ notified' = notified \cup {c}
    /\ Goto(c, g, then[c][g])
    /\ then' = [then EXCEPT ![c][g] = "done"]
    /\ UNCHANGED <<sess, pool, up, sock, closed, out, sender>>

\* Write puts a message into outChan, if there is room.
Enqueue(c) == out[c] < OutCap /\ out' = [out EXCEPT ![c] = @ + 1]

----------------------------------------------------------------------------
(* websocketHandler and the goroutines.                                    *)

\* A client connects; its session may be one that is already connected.
websocketHandler(c, s) ==
    /\ ~Accepted(c)
    /\ \A b \in Sockets : b < c => Accepted(b)
    /\ MutexFree
    /\ sess' = [sess EXCEPT ![c] = s]
    /\ pool' = [pool EXCEPT ![s] = c]
    /\ up' = [up EXCEPT ![c] = TRUE]
    /\ sock' = [sock EXCEPT ![c] = TRUE]
    /\ at' = [at EXCEPT ![c] =
                [read |-> "read", write |-> "take", beat |-> "first"]]
    /\ UNCHANGED <<closed, out, then, sender, notified>>

\* loopRead finds the connection closed and returns.
ReadStop(c) ==
    /\ at[c]["read"] = "read" /\ closed[c]
    /\ Goto(c, "read", "done")
    /\ UNCHANGED <<sess, pool, up, sock, closed, out, then, sender,
                   notified>>

\* ReadMessage returns a message.
ReadMessage(c) ==
    /\ at[c]["read"] = "read" /\ sock[c]
    /\ Goto(c, "read", "take")
    /\ UNCHANGED <<sess, pool, up, sock, closed, out, then, sender, notified>>

\* A "ping" ends loopRead.
ReadPing(c) ==
    /\ at[c]["read"] = "read" /\ sock[c]
    /\ Goto(c, "read", "done")
    /\ UNCHANGED <<sess, pool, up, sock, closed, out, then, sender, notified>>

\* ReadMessage fails.
ReadError(c) ==
    /\ at[c]["read"] = "read" /\ (~up[c] \/ ~sock[c])
    /\ Close(c, "read", "done")
    /\ UNCHANGED <<sess, pool, up, closed, out, sender, notified>>

\* The message goes through inChan to messageHandler; the select of loopRead
\* may notice a close and end the loop, that of read goes back to it.
read(c) ==
    /\ at[c]["read"] = "take"
    /\ \/ Goto(c, "read", "respond") /\ UNCHANGED <<sock, then>>
       \/ closed[c] /\ Close(c, "read", "done")
       \/ closed[c] /\ Close(c, "read", "read")
    /\ UNCHANGED <<sess, pool, up, closed, out, sender, notified>>

\* Fault: the response waits for room in outChan whatever happens.
readRespondBlocking(c) ==
    /\ at[c]["read"] = "respond"
    /\ Goto(c, "read", "read")
    /\ Enqueue(c)
    /\ UNCHANGED <<sess, pool, up, sock, closed, then, sender, notified>>

\* The response is written to outChan; a close discards it.
readRespond(c) ==
    /\ at[c]["read"] = "respond"
    /\ Goto(c, "read", "read")
    /\ Enqueue(c) \/ (closed[c] /\ UNCHANGED out)
    /\ UNCHANGED <<sess, pool, up, sock, closed, then, sender, notified>>

\* loopWrite returns when it finds isClosed, takes a message, or closes.
WriteTake(c) ==
    /\ at[c]["write"] = "take"
    /\ \/ /\ out[c] > 0
          /\ out' = [out EXCEPT ![c] = @ - 1]
          /\ Goto(c, "write", "write")
          /\ UNCHANGED <<sock, then>>
       \/ closed[c] /\ Close(c, "write", "done") /\ UNCHANGED out
       \/ closed[c] /\ Goto(c, "write", "done") /\ UNCHANGED <<sock, then, out>>
    /\ UNCHANGED <<sess, pool, up, closed, sender, notified>>

\* WriteMessage succeeds, perhaps into the buffers of a dead connection.
WriteMessage(c) ==
    /\ at[c]["write"] = "write" /\ sock[c]
    /\ Goto(c, "write", "take")
    /\ UNCHANGED <<sess, pool, up, sock, closed, out, then, sender,
                   notified>>

\* WriteMessage fails.
WriteError(c) ==
    /\ at[c]["write"] = "write" /\ (~up[c] \/ ~sock[c])
    /\ Close(c, "write", "done")
    /\ UNCHANGED <<sess, pool, up, closed, out, sender, notified>>

\* The first heartbeat of loopHeartbeat; a failure closes and goes on.
BeatFirst(c) ==
    /\ at[c]["beat"] = "first"
    /\ \/ Enqueue(c) /\ Goto(c, "beat", "beat") /\ UNCHANGED <<sock, then>>
       \/ closed[c] /\ Close(c, "beat", "beat") /\ UNCHANGED out
       \/ closed[c] /\ Goto(c, "beat", "done") /\ UNCHANGED <<sock, then, out>>
    /\ UNCHANGED <<sess, pool, up, closed, sender, notified>>

\* A heartbeat after the interval; a failure closes and ends the loop.
Beat(c) ==
    /\ at[c]["beat"] = "beat"
    /\ \/ Enqueue(c) /\ Goto(c, "beat", "beat") /\ UNCHANGED <<sock, then>>
       \/ closed[c] /\ Close(c, "beat", "done") /\ UNCHANGED out
    /\ UNCHANGED <<sess, pool, up, closed, sender, notified>>

----------------------------------------------------------------------------
(* The rest of the node and the network.                                   *)

\* SendRaw looks the session up without a lock.
SendRaw(s) ==
    /\ sender = NoSocket /\ pool[s] # NoSocket
    /\ sender' = pool[s]
    /\ UNCHANGED <<sess, pool, up, sock, closed, out, at, then, notified>>

\* Fault: the write does not notice a close.
SendRawWriteBlocking ==
    /\ sender # NoSocket
    /\ Enqueue(sender)
    /\ sender' = NoSocket
    /\ UNCHANGED <<sess, pool, up, sock, closed, at, then, notified>>

\* It then writes to the connection it found, which may have been closed.
SendRawWrite ==
    /\ sender # NoSocket
    /\ Enqueue(sender) \/ (closed[sender] /\ UNCHANGED out)
    /\ sender' = NoSocket
    /\ UNCHANGED <<sess, pool, up, sock, closed, at, then, notified>>

\* The client goes away, with or without closing the connection.
Drop(c) ==
    /\ Accepted(c) /\ up[c]
    /\ up' = [up EXCEPT ![c] = FALSE]
    /\ UNCHANGED <<sess, pool, sock, closed, out, at, then, sender,
                   notified>>

CloseStep(c, g) == CloseShut(c, g) \/ CloseForget(c, g) \/ CloseNotify(c, g)

SocketNext ==
    \/ \E c \in Sockets, s \in Sessions : websocketHandler(c, s)
    \/ \E c \in Sockets, g \in Goroutines : CloseStep(c, g)
    \/ \E c \in Sockets :
         \/ ReadStop(c) \/ ReadMessage(c) \/ ReadPing(c) \/ ReadError(c)
         \/ read(c) \/ readRespond(c)
         \/ WriteTake(c) \/ WriteMessage(c) \/ WriteError(c)
         \/ BeatFirst(c) \/ Beat(c)
         \/ Drop(c)
    \/ \E s \in Sessions : SendRaw(s)
    \/ SendRawWrite

\* Goroutines are scheduled, mutexes are granted, and those blocked on a full
\* channel are served in turn, as Go's runtime does.  ReadMessage has no
\* deadline: only a local close is sure to end it.  Writes to a client that
\* has gone fail in the end (TCP gives up retransmitting).
SocketFairness ==
    /\ \A c \in Sockets :
         /\ WF_socketVars(ReadStop(c) \/ (~sock[c] /\ ReadError(c)))
         /\ WF_socketVars(read(c)) /\ SF_socketVars(readRespond(c))
         /\ WF_socketVars(WriteTake(c))
         /\ WF_socketVars(WriteMessage(c) \/ WriteError(c))
         /\ SF_socketVars(WriteError(c))
         /\ SF_socketVars(BeatFirst(c) \/ Beat(c))
         /\ \A g \in Goroutines : WF_socketVars(CloseStep(c, g))
    /\ SF_socketVars(SendRawWrite)

SocketSpec == SocketInit /\ [][SocketNext]_socketVars
SocketFairSpec == SocketSpec /\ SocketFairness

----------------------------------------------------------------------------
(* Properties.                                                             *)

Ended(c) == Accepted(c) /\ \A g \in Goroutines : at[c][g] = "done"

\* Once all three goroutines of a connection have ended, however each of
\* them came to its end, the pool does not hold the connection and
\* disconnectedHandler has been called for it: SendRaw and ForwardPeerClient
\* never write to a channel nobody empties.
EndedForgotten ==
    \A c \in Sockets : Ended(c) => pool[sess[c]] # c /\ c \in notified

\* When a client has gone, its goroutines end and its connection leaves the
\* pool, although ReadMessage has no deadline, a goroutine may be blocked on
\* a full outChan, and select may prefer outChan to closeChan: the heartbeat
\* finds out.
Reclaimed == \A c \in Sockets : (Accepted(c) /\ ~up[c]) ~> Ended(c)

\* SendRaw returns, with or without success.
SendRawReturns == (sender # NoSocket) ~> (sender = NoSocket)

----------------------------------------------------------------------------
(* The inductive invariant.                                                *)

\* A pool entry belongs to its session; a closed connection is in the pool
\* only until the goroutine that closed it goes on.
PoolInv ==
    \A s \in Sessions : pool[s] # NoSocket =>
      LET c == pool[s] IN
      /\ sess[c] = s
      /\ closed[c] => \E g \in Goroutines : at[c][g] = "forget"

\* Only Close, or the sight of a closed connection, ends loopWrite.
CloseInv ==
    \A c \in Sockets :
      /\ ~Accepted(c) => /\ \A g \in Goroutines : at[c][g] = "none"
                         /\ ~closed[c]
      /\ at[c]["write"] = "done" => closed[c]
      /\ \A g \in Goroutines : at[c][g] \in {"forget", "notify"} => closed[c]
      /\ closed[c] => \/ c \in notified
                      \/ \E g \in Goroutines : at[c][g] \in {"forget", "notify"}

SocketInv == SocketTypeOK /\ PoolInv /\ CloseInv
============================================================================
