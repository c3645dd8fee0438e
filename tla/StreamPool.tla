----------------------------- MODULE StreamPool -----------------------------
(***************************************************************************)
(* The pools of libp2p connections and pipes of a node (libp2p/pipe,       *)
(* libp2p/pipe/handler, libp2p/connmgr.go), and what the node sends to a   *)
(* client through them (sender.ForwardPeerClient).                         *)
(*                                                                         *)
(* One client comes on connections, numbered in order, and opens a stream  *)
(* for each request; it takes the first line on the stream for the answer. *)
(* A pipe reads one line, hands it to ReceiveRaw, writes the response and  *)
(* resets its stream.  Messages of others for the client are written to    *)
(* the pipe that ResponsePipePool has for its session.  The pool keeps     *)
(* that pipe after the reset: nothing calls handler.Close, for libp2p no   *)
(* longer notifies of closed streams.  Slots of streams are used again, a  *)
(* pipe whose stream was reset being DeadPipe from then on.                *)
(***************************************************************************)
EXTENDS Naturals, Sequences, FiniteSets

CONSTANTS Conns,       \* the connections of the client, numbers
          Streams,     \* slots for open streams, numbers
          Msgs,        \* messages others send to the client
          Chats,       \* those of type CHAT, which are stored
          Stay,        \* the connection, if any, the client stays on
          MaxCrashes,  \* bound on the restarts of the node
          NoConn, NoPipe, DeadPipe

ASSUME StreamConstantsOK ==
    /\ Conns \subseteq Nat /\ NoConn \notin Conns
    /\ Stay \in Conns \cup {NoConn}
    /\ Streams \subseteq Nat /\ NoPipe \notin Streams /\ DeadPipe \notin Streams
    /\ NoPipe # DeadPipe
    /\ Chats \subseteq Msgs /\ IsFiniteSet(Msgs)
    /\ MaxCrashes \in Nat

VARIABLES
    conn,      \* conn[c]: "new", "up" or "down"
    notice,    \* notice[c]: the place of the Disconnected notification
    network,   \* the sessions in NetworkConnectionPool
    response,  \* response[c]: the pipe of c in ResponsePipePool
    stream,    \* stream[s]: its connection, whether it is open, and the
               \* lines to the client
    accept,    \* accept[s]: CreatePipe has still to look at the pools
    reader,    \* reader[s]: the place of Pipe.Read
    rec,       \* the PeerClient record: session and active status
    sends,     \* sends[m]: the place of ForwardPeerClient with m
    stored,    \* blc_chainmessage
    gone,      \* history: messages that were on a stream when it ended, and
               \* those lost in a restart or because they were not stored
    crashes

pools == <<network, response>>
chat == <<sends, stored>>
vars == <<conn, notice, network, response, stream, accept, reader, rec, sends,
          stored, gone, crashes>>

Pipes == Streams \cup {NoPipe, DeadPipe}

\* A line to the client: the answer to the request on stream of, or a push.
Answer(s) == [of |-> s, msg |-> {}]
Push(m) == [of |-> NoPipe, msg |-> {m}]
Line == [of : Streams \cup {NoPipe}, msg : SUBSET Msgs]

Free == [conn |-> NoConn, open |-> FALSE, lines |-> << >>]
Unsent == [pc |-> "new", session |-> NoConn, pipe |-> NoPipe]

\* The types of the variables.
TypeOK ==
    /\ conn \in [Conns -> {"new", "up", "down"}]
    /\ notice \in [Conns -> {"none", "read", "write"}]
    /\ network \subseteq Conns
    /\ response \in [Conns -> Pipes]
    /\ stream \in [Streams -> [conn : Conns \cup {NoConn}, open : BOOLEAN,
                              lines : Seq(Line)]]
    /\ \A s \in Streams : Len(stream[s].lines) <= Cardinality(Msgs) + 1
    /\ accept \in [Streams -> BOOLEAN]
    /\ reader \in [Streams -> {"none", "read", "update", "write", "put",
                               "answer", "reset"}]
    /\ rec \in [session : Conns \cup {NoConn}, up : BOOLEAN]
    /\ sends \in [Msgs -> [pc : {"new", "pipe", "write", "done"},
                           session : Conns \cup {NoConn}, pipe : Pipes]]
    /\ stored \subseteq Chats /\ gone \subseteq Msgs
    /\ crashes \in 0 .. MaxCrashes

Init ==
    /\ conn = [c \in Conns |-> "new"]
    /\ notice = [c \in Conns |-> "none"]
    /\ network = {}
    /\ response = [c \in Conns |-> NoPipe]
    /\ stream = [s \in Streams |-> Free]
    /\ accept = [s \in Streams |-> FALSE]
    /\ reader = [s \in Streams |-> "none"]
    /\ rec = [session |-> NoConn, up |-> FALSE]
    /\ sends = [m \in Msgs |-> Unsent]
    /\ stored = {} /\ gone = {}
    /\ crashes = 0

----------------------------------------------------------------------------
(* The client and its connections.                                         *)

Connected(c) ==
    /\ conn[c] = "new" /\ \A d \in Conns : d < c => conn[d] # "new"
    /\ conn' = [conn EXCEPT ![c] = "up"]
    /\ UNCHANGED <<notice, pools, stream, accept, reader, rec, chat, gone, crashes>>

\* The messages in lines.
MsgsIn(lines) == UNION {lines[i].msg : i \in DOMAIN lines}

\* A pipe whose stream is gone is dead wherever it is held.
Dead(s, p) == IF p = s THEN DeadPipe ELSE p

\* The stream of slot s ends.  The client has read the first line, unless the
\* reset has come before; other lines are lost.
End(s) ==
    /\ stream' = [stream EXCEPT ![s] =
                    IF accept[s] THEN [Free EXCEPT !.conn = stream[s].conn]
                    ELSE Free]
    /\ gone' = gone \cup MsgsIn(stream[s].lines)
    /\ response' = [c \in Conns |-> Dead(s, response[c])]
    /\ sends' = [m \in Msgs |-> [sends[m] EXCEPT !.pipe = Dead(s, @)]]

Vacant(s) == ~accept[s] /\ reader[s] = "none"

\* The client opens a stream and writes a request.  The stream handler
\* starts the goroutine of Read before CreatePipe looks at the pools.
ClientOpens(s, c) ==
    /\ Vacant(s) /\ \A t \in Streams : t < s => ~Vacant(t)
    /\ conn[c] = "up"
    /\ stream' = [stream EXCEPT ![s] = [Free EXCEPT !.conn = c, !.open = TRUE]]
    /\ accept' = [accept EXCEPT ![s] = TRUE]
    /\ reader' = [reader EXCEPT ![s] = "read"]
    /\ UNCHANGED <<conn, notice, pools, rec, chat, gone, crashes>>

\* The connection ends, and libp2p starts the notification.
Disconnected(c) ==
    /\ conn[c] = "up" /\ c # Stay
    /\ conn' = [conn EXCEPT ![c] = "down"]
    /\ notice' = [notice EXCEPT ![c] = "read"]
    /\ UNCHANGED <<pools, stream, accept, reader, rec, chat, gone, crashes>>

----------------------------------------------------------------------------
(* handler.Disconnect.                                                     *)

\* Without an entry there is nothing to do; the entry goes, and the record
\* is read.
DisconnectRead(c) ==
    /\ notice[c] = "read"
    /\ network' = network \ {c}
    /\ notice' = [notice EXCEPT ![c] =
                    IF c \in network /\ rec.session = c THEN "write" ELSE "none"]
    /\ UNCHANGED <<conn, response, stream, accept, reader, rec, chat, gone, crashes>>

\* PutValues writes the whole record as it was read.
DisconnectWrite(c) ==
    /\ notice[c] = "write"
    /\ rec' = [session |-> c, up |-> FALSE]
    /\ notice' = [notice EXCEPT ![c] = "none"]
    /\ UNCHANGED <<conn, pools, stream, accept, reader, chat, gone, crashes>>

----------------------------------------------------------------------------
(* CreatePipe, for a stream the client has opened.                         *)

\* The pipe of an older stream stays in the pool.
CreatePipe(s) ==
    /\ accept[s]
    /\ LET c == stream[s].conn IN
       /\ network' = network \cup {c}
       /\ response' = IF response[c] = NoPipe
                      THEN [response EXCEPT ![c] = IF stream[s].open THEN s
                                                   ELSE DeadPipe]
                      ELSE response
    /\ accept' = [accept EXCEPT ![s] = FALSE]
    /\ stream' = IF stream[s].open THEN stream ELSE [stream EXCEPT ![s] = Free]
    /\ UNCHANGED <<conn, notice, reader, rec, chat, gone, crashes>>

----------------------------------------------------------------------------
(* Pipe.Read, HandleRaw and ReceiveRaw.                                    *)

At(s, pc) == reader' = [reader EXCEPT ![s] = pc]

\* Fault: the pipe in the pool is left there.
ReadLineOnly(s) ==
    /\ reader[s] = "read" /\ conn[stream[s].conn] = "up"
    /\ At(s, "update")
    /\ UNCHANGED <<conn, notice, pools, stream, accept, rec, chat, gone, crashes>>

\* A line is read, and HandleRaw puts its pipe in the place of any other of
\* the session.
ReadLine(s) ==
    /\ reader[s] = "read" /\ conn[stream[s].conn] = "up"
    /\ response' = [response EXCEPT ![stream[s].conn] = s]
    /\ At(s, "update")
    /\ UNCHANGED <<conn, notice, network, stream, accept, rec, chat, gone, crashes>>

\* Read returns an error when the connection is gone; nobody resets.
ReadFails(s) ==
    /\ reader[s] = "read" /\ conn[stream[s].conn] = "down"
    /\ At(s, "none")
    /\ End(s)
    /\ UNCHANGED <<conn, notice, network, accept, rec, stored, crashes>>

\* After UpdatePeerClient the message goes to its action, connect or another.
Dispatch(s, connect) == At(s, IF connect THEN "put" ELSE "answer")

\* UpdatePeerClient writes a record that is not up.
Update(s, connect) ==
    /\ reader[s] = "update"
    /\ ~(rec.session # NoConn /\ ~rec.up)
    /\ Dispatch(s, connect)
    /\ UNCHANGED <<conn, notice, pools, stream, accept, rec, chat, gone, crashes>>

UpdateRead(s) ==
    /\ reader[s] = "update"
    /\ rec.session # NoConn /\ ~rec.up
    /\ At(s, "write")
    /\ UNCHANGED <<conn, notice, pools, stream, accept, rec, chat, gone, crashes>>

UpdateWrite(s, connect) ==
    /\ reader[s] = "write"
    /\ rec' = [session |-> stream[s].conn, up |-> TRUE]
    /\ Dispatch(s, connect)
    /\ UNCHANGED <<conn, notice, pools, stream, accept, chat, gone, crashes>>

\* Fault: a record that is up is left alone.
ConnectPutIfDown(s) ==
    /\ reader[s] = "put"
    /\ rec' = IF rec.up THEN rec ELSE [session |-> stream[s].conn, up |-> TRUE]
    /\ At(s, "answer")
    /\ UNCHANGED <<conn, notice, pools, stream, accept, chat, gone, crashes>>

\* connectAction.Receive stores the client's record under the session.
ConnectPut(s) ==
    /\ reader[s] = "put"
    /\ rec' = [session |-> stream[s].conn, up |-> TRUE]
    /\ At(s, "answer")
    /\ UNCHANGED <<conn, notice, pools, stream, accept, chat, gone, crashes>>

\* A line written to an open stream of a connection that is up.
Writable(p) == p \in Streams /\ stream[p].open /\ conn[stream[p].conn] = "up"

Append1(p, line) ==
    stream' = [stream EXCEPT ![p].lines = Append(@, line)]

\* ReceiveRaw always has a response; it goes to the pipe of the request.
WriteAnswer(s) ==
    /\ reader[s] = "answer"
    /\ IF Writable(s) THEN Append1(s, Answer(s)) ELSE UNCHANGED stream
    /\ At(s, "reset")
    /\ UNCHANGED <<conn, notice, pools, accept, rec, chat, gone, crashes>>

Reset(s) ==
    /\ reader[s] = "reset"
    /\ At(s, "none")
    /\ End(s)
    /\ UNCHANGED <<conn, notice, network, accept, rec, stored, crashes>>

----------------------------------------------------------------------------
(* RelaySend and ForwardPeerClient of a message for the client.            *)

Done == [Unsent EXCEPT !.pc = "done"]

\* Only a chat message is stored, and the error of Insert is ignored.
Insert(m) ==
    /\ sends' = [sends EXCEPT ![m] = Done]
    /\ \/ m \in Chats /\ stored' = stored \cup {m} /\ UNCHANGED gone
       \/ gone' = gone \cup {m} /\ UNCHANGED stored

\* Lookup finds the record up, or nothing.
RelaySend(m) ==
    /\ sends[m].pc = "new"
    /\ \/ /\ rec.up
          /\ sends' = [sends EXCEPT ![m] =
                         [@ EXCEPT !.pc = "pipe", !.session = rec.session]]
          /\ UNCHANGED <<stored, gone>>
       \/ ~rec.up /\ Insert(m)
    /\ UNCHANGED <<conn, notice, pools, stream, accept, reader, rec, crashes>>

GetResponsePipe(m) ==
    /\ sends[m].pc = "pipe"
    /\ sends' = [sends EXCEPT ![m] =
                   [@ EXCEPT !.pc = "write",
                             !.pipe = response[sends[m].session]]]
    /\ UNCHANGED <<conn, notice, pools, stream, accept, reader, rec, stored,
                   gone, crashes>>

\* The pipe takes the line.
WritePush(m) ==
    /\ sends[m].pc = "write" /\ Writable(sends[m].pipe)
    /\ Append1(sends[m].pipe, Push(m))
    /\ sends' = [sends EXCEPT ![m] = Done]
    /\ UNCHANGED <<conn, notice, pools, accept, reader, rec, stored, gone, crashes>>

\* Fault: a write that fails is taken for a success.
WritePushGivesUp(m) ==
    /\ sends[m].pc = "write" /\ ~Writable(sends[m].pipe)
    /\ sends' = [sends EXCEPT ![m] = Done]
    /\ UNCHANGED <<conn, notice, pools, stream, accept, reader, rec, stored,
                   gone, crashes>>

WritePushFails(m) ==
    /\ sends[m].pc = "write" /\ ~Writable(sends[m].pipe)
    /\ Insert(m)
    /\ UNCHANGED <<conn, notice, pools, stream, accept, reader, rec, crashes>>

----------------------------------------------------------------------------
\* The process ends and is started again; a panic because two goroutines use
\* a map of the pools at a time is one cause.  The records are put down.  One
\* before the first connection changes nothing, one of the connection the
\* client stays on is left out.
Restart ==
    /\ crashes < MaxCrashes
    /\ \E c \in Conns : conn[c] # "new"
    /\ \A c \in Conns : c = Stay => conn[c] = "new"
    /\ crashes' = crashes + 1
    /\ conn' = [c \in Conns |-> IF conn[c] = "up" THEN "down" ELSE conn[c]]
    /\ notice' = [c \in Conns |-> "none"]
    /\ network' = {}
    /\ response' = [c \in Conns |-> NoPipe]
    /\ stream' = [s \in Streams |-> Free]
    /\ accept' = [s \in Streams |-> FALSE]
    /\ reader' = [s \in Streams |-> "none"]
    /\ rec' = [rec EXCEPT !.up = FALSE]
    /\ gone' = gone \cup (UNION {MsgsIn(stream[s].lines) : s \in Streams})
                 \cup {m \in Msgs : sends[m].pc \notin {"new", "done"}}
    /\ sends' = [m \in Msgs |-> IF sends[m].pc = "new" THEN Unsent
                                ELSE Done]
    /\ UNCHANGED stored

Next ==
    \/ \E c \in Conns :
         \/ Connected(c) \/ Disconnected(c)
         \/ DisconnectRead(c) \/ DisconnectWrite(c)
    \/ \E s \in Streams :
         \/ \E c \in Conns : ClientOpens(s, c)
         \/ \E connect \in BOOLEAN : Update(s, connect) \/ UpdateWrite(s, connect)
         \/ CreatePipe(s) \/ ReadLine(s) \/ ReadFails(s)
         \/ UpdateRead(s) \/ ConnectPut(s) \/ WriteAnswer(s) \/ Reset(s)
    \/ \E m \in Msgs :
         \/ RelaySend(m) \/ GetResponsePipe(m)
         \/ WritePush(m) \/ WritePushFails(m)
    \/ Restart

\* Goroutines run.  The client comes, leaves every connection but Stay, and
\* repeats CONNECT there.
Fairness ==
    /\ \A c \in Conns :
         /\ WF_vars(Connected(c)) /\ WF_vars(Disconnected(c))
         /\ WF_vars(DisconnectRead(c) \/ DisconnectWrite(c))
         /\ c = Stay => SF_vars(\E s \in Streams : ClientOpens(s, c))
    /\ \A s \in Streams :
         /\ WF_vars(CreatePipe(s))
         /\ WF_vars(\/ ReadLine(s) \/ ReadFails(s)
                    \/ \E b \in BOOLEAN : Update(s, b) \/ UpdateWrite(s, b)
                    \/ UpdateRead(s) \/ ConnectPut(s)
                    \/ WriteAnswer(s) \/ Reset(s))
    /\ SF_vars(\E s \in Streams : /\ stream[s].conn = Stay
                                  /\ Update(s, TRUE) \/ UpdateWrite(s, TRUE))

Spec == Init /\ [][Next]_vars
FairSpec == Spec /\ Fairness

----------------------------------------------------------------------------
(* Properties.                                                             *)

\* A message for the client is in the hands of its goroutine, stored, on an
\* open stream, read by the client, or among the losses that are possible: a
\* stream that was reset or a connection that ended before it was read, a
\* restart, an Insert that fails, and no place to store what is no chat message.
PushAccounted ==
    \A m \in Msgs : sends[m].pc = "done" =>
        \/ m \in stored \cup gone
        \/ \E s \in Streams : m \in MsgsIn(stream[s].lines)

\* A record that is up names a session with a pipe in the pool, through late
\* goroutines of ended connections and restarts: GetResponsePipe never comes
\* to open a stream of its own, on which no protocol would be negotiated
\* (pool.go:28-53).
RecordHasPipe == rec.up => response[rec.session] # NoPipe

\* A client that stays on a connection and repeats CONNECT is in the end
\* found up under its session for good, whatever disconnections and
\* handlers of its older connections are under way.
SettlesUp == <>[](rec = [session |-> Stay, up |-> TRUE])
============================================================================
