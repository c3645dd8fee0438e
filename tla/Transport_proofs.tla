-------------------------- MODULE Transport_proofs --------------------------
(***************************************************************************)
(* Proofs about the two transports by which clients reach a node: the pool *)
(* of pipes and their streams (StreamPool), for any connections, streams,  *)
(* messages and restarts, and the websocket server (WebsocketPool), for    *)
(* any number of connections and sessions and any capacity of outChan.     *)
(* The two share no state.                                                 *)
(***************************************************************************)
EXTENDS StreamPool, WebsocketPool, FiniteSetTheorems, SequenceTheorems, TLAPS

----------------------------------------------------------------------------
(* The pool of pipes.                                                      *)

StreamRecord == [conn : Conns \cup {NoConn}, open : BOOLEAN, lines : Seq(Line)]

\* The types of the variables, without the bound on the lines of a stream.
Types ==
    /\ conn \in [Conns -> {"new", "up", "down"}]
    /\ notice \in [Conns -> {"none", "read", "write"}]
    /\ network \subseteq Conns
    /\ response \in [Conns -> Pipes]
    /\ stream \in [Streams -> StreamRecord]
    /\ accept \in [Streams -> BOOLEAN]
    /\ reader \in [Streams -> {"none", "read", "update", "write", "put",
                               "answer", "reset"}]
    /\ rec \in [session : Conns \cup {NoConn}, up : BOOLEAN]
    /\ sends \in [Msgs -> [pc : {"new", "pipe", "write", "done"},
                           session : Conns \cup {NoConn}, pipe : Pipes]]
    /\ stored \subseteq Chats /\ gone \subseteq Msgs
    /\ crashes \in 0 .. MaxCrashes

\* A stream is open while its reader runs; a slot in use has a connection.
StreamInv ==
    \A s \in Streams :
        /\ stream[s].open <=> reader[s] # "none"
        /\ ~stream[s].open => stream[s].lines = << >>
        /\ reader[s] # "none" \/ accept[s] => stream[s].conn \in Conns

\* The places of a reader that has put its pipe in the pool.
Past == {"update", "write", "put", "answer", "reset"}

\* The session of a record that is up, of a message on its way and of a
\* reader that has read its line has a pipe in the pool.
PipeInv ==
    /\ rec.up => rec.session \in Conns /\ response[rec.session] # NoPipe
    /\ \A s \in Streams :
         reader[s] \in Past => response[stream[s].conn] # NoPipe
    /\ \A m \in Msgs : sends[m].pc = "pipe" => sends[m].session \in Conns

\* Each message is written once, and a stream has one answer.
Sent == {m \in Msgs : sends[m].pc = "done"}
LinesBound(s) == Cardinality(Sent) + IF reader[s] = "reset" THEN 1 ELSE 0
LinesInv == \A s \in Streams : Len(stream[s].lines) <= LinesBound(s)

\* The inductive invariant.
IInv == Types /\ StreamInv /\ PipeInv /\ LinesInv /\ PushAccounted

----------------------------------------------------------------------------
(* Lines.                                                                  *)

\* What Append does to the lines of a stream (pipe/default.go:109-123).
LEMMA AppendLine ==
    ASSUME NEW q \in Seq(Line), NEW l \in Line
    PROVE  /\ Append(q, l) \in Seq(Line)
           /\ Len(Append(q, l)) = Len(q) + 1
           /\ \A i \in DOMAIN Append(q, l) :
                \/ Append(q, l)[i] = l
                \/ i \in DOMAIN q /\ Append(q, l)[i] = q[i]
           /\ MsgsIn(q) \cup l.msg \subseteq MsgsIn(Append(q, l))
<1>1. /\ Append(q, l) \in Seq(Line)
      /\ Len(Append(q, l)) = Len(q) + 1
      /\ \A i \in 1 .. Len(q) : Append(q, l)[i] = q[i]
      /\ Append(q, l)[Len(q) + 1] = l
  BY AppendProperties
<1>2. DOMAIN q = 1 .. Len(q) /\ DOMAIN Append(q, l) = 1 .. (Len(q) + 1)
  BY <1>1
<1>3. Len(q) \in Nat
  OBVIOUS
<1>4. \A i \in DOMAIN Append(q, l) :
        \/ Append(q, l)[i] = l
        \/ i \in DOMAIN q /\ Append(q, l)[i] = q[i]
  BY <1>1, <1>2, <1>3
<1>5. ASSUME NEW m \in MsgsIn(q) PROVE m \in MsgsIn(Append(q, l))
  <2>1. PICK i \in DOMAIN q : m \in q[i].msg
    BY <1>5 DEF MsgsIn
  <2>2. i \in DOMAIN Append(q, l) /\ m \in Append(q, l)[i].msg
    BY <2>1, <1>1, <1>2, <1>3
  <2> QED BY <2>2 DEF MsgsIn
<1>6. ASSUME NEW m \in l.msg PROVE m \in MsgsIn(Append(q, l))
  <2>1. /\ Len(q) + 1 \in DOMAIN Append(q, l)
        /\ m \in Append(q, l)[Len(q) + 1].msg
    BY <1>1, <1>2, <1>3, <1>6
  <2> QED BY <2>1 DEF MsgsIn
<1> QED BY <1>1, <1>4, <1>5, <1>6

\* No line, no message.
LEMMA NoLines ==
    << >> \in Seq(Line) /\ Len(<< >>) = 0 /\ DOMAIN << >> = {} /\ MsgsIn(<< >>) = {}
BY DEF MsgsIn

\* The lines of a stream hold messages.
LEMMA LinesHoldMsgs ==
    ASSUME NEW q \in Seq(Line)
    PROVE  MsgsIn(q) \subseteq Msgs
<1>1. \A i \in DOMAIN q : q[i] \in Line
  OBVIOUS
<1> QED BY <1>1 DEF MsgsIn, Line

\* The lines that are written are of their type (handler.go:31-39).
LEMMA LineTypes ==
    /\ \A s \in Streams : Answer(s) \in Line /\ Answer(s).of = s
    /\ \A m \in Msgs : Push(m) \in Line /\ Push(m).of = NoPipe /\ m \in Push(m).msg
BY DEF Answer, Push, Line

\* A free slot is of its type.
LEMMA FreeType ==
    /\ Free \in StreamRecord /\ ~Free.open /\ Free.lines = << >>
    /\ \A c \in Conns : [Free EXCEPT !.conn = c] \in StreamRecord
    /\ \A c \in Conns : [Free EXCEPT !.conn = c, !.open = TRUE] \in StreamRecord
BY NoLines DEF Free, StreamRecord

\* More messages sent allow no fewer lines.
LEMMA SentGrows ==
    ASSUME Sent \subseteq Sent'
    PROVE  /\ Cardinality(Sent) \in Nat /\ Cardinality(Sent') \in Nat
           /\ Cardinality(Sent) <= Cardinality(Sent')
<1>1. IsFiniteSet(Msgs)
  BY StreamConstantsOK
<1>2. Sent \subseteq Msgs /\ Sent' \subseteq Msgs
  BY DEF Sent
<1>3. IsFiniteSet(Sent) /\ IsFiniteSet(Sent')
  BY <1>1, <1>2, FS_Subset
<1> QED BY <1>3, FS_Subset, FS_CardinalityType

\* The bound of the invariant is within that of TypeOK.
LEMMA LinesBounded == Types /\ LinesInv => TypeOK
<1> SUFFICES ASSUME Types, LinesInv PROVE TypeOK
  OBVIOUS
<1>1. Sent \subseteq Msgs /\ IsFiniteSet(Msgs)
  BY StreamConstantsOK DEF Sent
<1>2. /\ Cardinality(Sent) \in Nat /\ Cardinality(Msgs) \in Nat
      /\ Cardinality(Sent) <= Cardinality(Msgs)
  BY <1>1, FS_Subset, FS_CardinalityType
<1>3. ASSUME NEW s \in Streams
      PROVE  Len(stream[s].lines) <= Cardinality(Msgs) + 1
  <2>1. Len(stream[s].lines) \in Nat
    BY DEF Types, StreamRecord
  <2>2. Len(stream[s].lines) <= LinesBound(s)
    BY DEF LinesInv
  <2> QED BY <1>2, <2>1, <2>2 DEF LinesBound
<1> QED BY <1>3 DEF Types, TypeOK, StreamRecord

----------------------------------------------------------------------------
(* What steps have in common.                                              *)

\* A step that takes no message out of its place keeps them accounted for.
LEMMA AccountedKeeps ==
    ASSUME PushAccounted, stored \subseteq stored', gone \subseteq gone',
           \A s \in Streams : MsgsIn(stream[s].lines)
              \subseteq gone' \cup MsgsIn(stream'[s].lines),
           \A m \in Msgs : sends'[m].pc = "done" =>
              \/ sends[m].pc = "done" \/ m \in stored' \cup gone'
              \/ \E s \in Streams : m \in MsgsIn(stream'[s].lines)
    PROVE  PushAccounted'
BY DEF PushAccounted

\* The bound on the lines is a number.
LEMMA BoundIsNat == \A s \in Streams : LinesBound(s) \in Nat
<1>1. IsFiniteSet(Sent)
  BY StreamConstantsOK, FS_Subset DEF Sent
<1>2. Cardinality(Sent) \in Nat
  BY <1>1, FS_CardinalityType
<1> QED BY <1>2 DEF LinesBound

\* Lines that stay are within their bound while nothing that was sent is
\* unsent and no reader leaves the reset behind.
LEMMA LinesKeep ==
    ASSUME Types, LinesInv, Sent \subseteq Sent', NEW s \in Streams,
           stream'[s].lines = stream[s].lines,
           reader[s] = "reset" => reader'[s] = "reset"
    PROVE  Len(stream'[s].lines) <= LinesBound(s)'
<1>1. Len(stream[s].lines) \in Nat
  BY DEF Types, StreamRecord
<1>2. Len(stream[s].lines) <= LinesBound(s)
  BY DEF LinesInv
<1>3. /\ Cardinality(Sent) \in Nat /\ Cardinality(Sent') \in Nat
      /\ Cardinality(Sent) <= Cardinality(Sent')
  BY SentGrows
<1>4. LinesBound(s)' = Cardinality(Sent') + IF reader'[s] = "reset" THEN 1 ELSE 0
  BY DEF LinesBound
<1> QED BY <1>1, <1>2, <1>3, <1>4 DEF LinesBound

\* A stream without lines is within its bound.
LEMMA NoLinesKeep ==
    ASSUME Sent \subseteq Sent', NEW s \in Streams, stream'[s].lines = << >>
    PROVE  Len(stream'[s].lines) <= LinesBound(s)'
<1>1. Cardinality(Sent') \in Nat
  BY SentGrows
<1>2. LinesBound(s)' = Cardinality(Sent') + IF reader'[s] = "reset" THEN 1 ELSE 0
  BY DEF LinesBound
<1> QED BY <1>1, <1>2, NoLines

\* A step that leaves streams, readers and messages alone keeps what is said
\* of them.
LEMMA StreamsUnchanged ==
    ASSUME IInv, UNCHANGED <<stream, accept, reader, chat, gone>>
    PROVE  StreamInv' /\ LinesInv' /\ PushAccounted'
<1>1. StreamInv'
  BY DEF IInv, StreamInv
<1>2. LinesInv'
  BY DEF IInv, LinesInv, LinesBound, Sent, chat
<1>4. PushAccounted'
  BY DEF IInv, PushAccounted, chat
<1> QED BY <1>1, <1>2, <1>4

\* A reader that moves on before its reset (handler.go:18-39).
LEMMA ReaderMoves ==
    ASSUME IInv, NEW s \in Streams, NEW pc \in Past, At(s, pc), pc # "reset",
           reader[s] \notin {"none", "reset"},
           UNCHANGED <<stream, accept, chat, gone>>
    PROVE  /\ reader' \in [Streams -> {"none", "read", "update", "write", "put",
                                       "answer", "reset"}]
           /\ StreamInv' /\ LinesInv' /\ PushAccounted'
           /\ \A t \in Streams : t # s => reader'[t] = reader[t]
<1>1. reader \in [Streams -> {"none", "read", "update", "write", "put",
                              "answer", "reset"}]
  BY DEF IInv, Types
<1>2. /\ reader' \in [Streams -> {"none", "read", "update", "write", "put",
                                  "answer", "reset"}]
      /\ \A t \in Streams : reader'[t] = IF t = s THEN pc ELSE reader[t]
  BY <1>1 DEF At, Past
<1>3. StreamInv'
  BY <1>2 DEF IInv, StreamInv, Past
<1>4. Sent' = Sent
  BY DEF Sent, chat
<1>5. LinesInv'
  <2>1. ASSUME NEW t \in Streams PROVE Len(stream'[t].lines) <= LinesBound(t)'
    BY <1>2, <1>4, LinesKeep DEF IInv
  <2> QED BY <2>1 DEF LinesInv, LinesBound, Sent
<1>7. PushAccounted'
  BY DEF IInv, PushAccounted, chat
<1> QED BY <1>2, <1>3, <1>5, <1>7

----------------------------------------------------------------------------
(* The connections and the readers.                                        *)

\* A connection that begins or ends, and its notification, touch no stream
\* (connmgr.go:41-49, pool.go:152-180).
LEMMA ConnectionKeeps ==
    ASSUME IInv, NEW c \in Conns,
           \/ Connected(c) \/ Disconnected(c)
           \/ DisconnectRead(c) \/ DisconnectWrite(c)
    PROVE  IInv'
<1>1. StreamInv' /\ LinesInv' /\ PushAccounted'
  BY StreamsUnchanged
     DEF Connected, Disconnected, DisconnectRead, DisconnectWrite
<1>2. Types'
  <2>1. Types
    BY DEF IInv
  <2>2. CASE Connected(c)
    BY <2>1, <2>2 DEF Types, Connected, pools, chat, Pipes
  <2>3. CASE Disconnected(c)
    BY <2>1, <2>3 DEF Types, Disconnected, pools, chat, Pipes
  <2>4. CASE DisconnectRead(c)
    BY <2>1, <2>4 DEF Types, DisconnectRead, chat, Pipes
  <2>5. CASE DisconnectWrite(c)
    BY <2>1, <2>5 DEF Types, DisconnectWrite, pools, chat, Pipes
  <2> QED BY <2>2, <2>3, <2>4, <2>5
<1>3. PipeInv'
  <2>1. /\ UNCHANGED <<response, stream, reader, sends>>
        /\ rec' = rec \/ ~rec'.up
    BY DEF Connected, Disconnected, DisconnectRead, DisconnectWrite, pools, chat
  <2> QED BY <2>1 DEF IInv, PipeInv
<1> QED BY <1>1, <1>2, <1>3 DEF IInv

\* A line is read, and its pipe is the one in the pool (handler.go:18-29).
LEMMA ReadLineKeeps ==
    ASSUME IInv, NEW s \in Streams, ReadLine(s)
    PROVE  IInv'
<1>1. /\ reader' \in [Streams -> {"none", "read", "update", "write", "put",
                                  "answer", "reset"}]
      /\ StreamInv' /\ LinesInv' /\ PushAccounted'
      /\ \A t \in Streams : t # s => reader'[t] = reader[t]
  BY ReaderMoves DEF ReadLine, Past
<1>2. stream[s].conn \in Conns
  BY DEF IInv, StreamInv, ReadLine
<1>3. response \in [Conns -> Pipes]
  BY DEF IInv, Types
<1>4. /\ response' \in [Conns -> Pipes]
      /\ response'[stream[s].conn] = s
      /\ \A c \in Conns : response[c] # NoPipe => response'[c] # NoPipe
  BY <1>2, <1>3, StreamConstantsOK DEF ReadLine, Pipes
<1>5. Types'
  BY <1>1, <1>4 DEF IInv, Types, ReadLine, chat
<1>6. PipeInv'
  <2>1. ASSUME NEW t \in Streams, reader'[t] \in Past
        PROVE  response'[stream'[t].conn] # NoPipe
    <3>1. CASE t = s
      BY <1>4, <3>1, StreamConstantsOK DEF ReadLine
    <3>2. CASE t # s
      <4>1. reader[t] \in Past
        BY <1>1, <2>1, <3>2
      <4>2. stream[t].conn \in Conns /\ response[stream[t].conn] # NoPipe
        BY <4>1 DEF IInv, PipeInv, StreamInv, Past
      <4> QED BY <1>4, <4>2 DEF ReadLine
    <3> QED BY <3>1, <3>2
  <2> QED BY <1>4, <2>1 DEF IInv, PipeInv, ReadLine, chat
<1> QED BY <1>1, <1>5, <1>6 DEF IInv

\* UpdatePeerClient, CONNECT and the steps between them: whoever puts the
\* record up has a pipe in the pool (handler.go:27-52, connect.go:31-63).
LEMMA HandlerKeeps ==
    ASSUME IInv, NEW s \in Streams,
           \/ \E b \in BOOLEAN : Update(s, b) \/ UpdateWrite(s, b)
           \/ UpdateRead(s) \/ ConnectPut(s)
    PROVE  IInv'
<1>1. /\ UNCHANGED <<conn, notice, pools, stream, accept, chat, gone, crashes>>
      /\ reader[s] \in {"update", "write", "put"}
      /\ rec' = rec \/ rec' = [session |-> stream[s].conn, up |-> TRUE]
      /\ \E pc \in Past : pc # "reset" /\ At(s, pc)
  BY DEF Update, UpdateWrite, UpdateRead, ConnectPut, Dispatch, Past
<1>2. /\ reader' \in [Streams -> {"none", "read", "update", "write", "put",
                                  "answer", "reset"}]
      /\ StreamInv' /\ LinesInv' /\ PushAccounted'
      /\ \A t \in Streams : t # s => reader'[t] = reader[t]
  BY <1>1, ReaderMoves
<1>3. stream[s].conn \in Conns /\ response[stream[s].conn] # NoPipe
  BY <1>1 DEF IInv, StreamInv, PipeInv, Past
<1>4. Types'
  <2>1. rec' \in [session : Conns \cup {NoConn}, up : BOOLEAN]
    <3>1. CASE rec' = rec
      BY <3>1 DEF IInv, Types
    <3>2. CASE rec' = [session |-> stream[s].conn, up |-> TRUE]
      <4> DEFINE x == stream[s].conn
      <4>1. x \in Conns
        BY <1>3
      <4> HIDE DEF x
      <4>2. [session |-> x, up |-> TRUE]
              \in [session : Conns \cup {NoConn}, up : BOOLEAN]
        BY <4>1
      <4> QED BY <3>2, <4>2 DEF x
    <3> QED BY <1>1, <3>1, <3>2
  <2>2. Types
    BY DEF IInv
  <2> QED BY <1>1, <1>2, <2>1, <2>2 DEF Types, chat, pools
<1>5. PipeInv'
  <2>1. ASSUME NEW t \in Streams, reader'[t] \in Past
        PROVE  response'[stream'[t].conn] # NoPipe
    <3>1. CASE t = s
      BY <1>1, <1>3, <3>1 DEF pools
    <3>2. CASE t # s
      BY <1>1, <1>2, <2>1, <3>2 DEF IInv, PipeInv, pools
    <3> QED BY <3>1, <3>2
  <2>2. rec'.up => rec'.session \in Conns /\ response'[rec'.session] # NoPipe
    BY <1>1, <1>3 DEF IInv, PipeInv, pools
  <2> QED BY <1>1, <2>1, <2>2 DEF IInv, PipeInv, chat
<1> QED BY <1>2, <1>4, <1>5 DEF IInv

----------------------------------------------------------------------------
(* The streams.                                                            *)

\* A new stream takes a slot without lines (pipe/default.go:32-45).
LEMMA ClientOpensKeeps ==
    ASSUME IInv, NEW s \in Streams, NEW c \in Conns, ClientOpens(s, c)
    PROVE  IInv'
<1> DEFINE r == [Free EXCEPT !.conn = c, !.open = TRUE]
<1>1. r \in StreamRecord /\ r.open /\ r.conn = c /\ r.lines = << >>
  BY FreeType DEF Free
<1>2. /\ stream' = [stream EXCEPT ![s] = r]
      /\ reader[s] = "none" /\ ~accept[s]
  BY DEF ClientOpens, Vacant
<1> HIDE DEF r
<1>3. /\ stream' \in [Streams -> StreamRecord] /\ stream'[s] = r
      /\ \A t \in Streams : t # s => stream'[t] = stream[t]
  BY <1>1, <1>2 DEF IInv, Types
<1>4. /\ reader' \in [Streams -> {"none", "read", "update", "write", "put",
                                  "answer", "reset"}]
      /\ reader'[s] = "read"
      /\ \A t \in Streams : t # s => reader'[t] = reader[t]
      /\ accept' \in [Streams -> BOOLEAN]
      /\ \A t \in Streams : t # s => accept'[t] = accept[t]
  BY DEF IInv, Types, ClientOpens
<1>5. Types'
  BY <1>3, <1>4 DEF IInv, Types, ClientOpens, pools, chat, Pipes
<1>6. StreamInv'
  BY <1>1, <1>3, <1>4 DEF IInv, StreamInv
<1>7. PipeInv'
  BY <1>3, <1>4 DEF IInv, PipeInv, ClientOpens, pools, chat, Past
<1>8. LinesInv'
  <2>1. Sent' = Sent
    BY DEF Sent, ClientOpens, chat
  <2>2. ASSUME NEW t \in Streams PROVE Len(stream'[t].lines) <= LinesBound(t)'
    <3>1. CASE t = s
      BY <1>1, <1>3, <2>1, <3>1, NoLinesKeep
    <3>2. CASE t # s
      BY <1>3, <1>4, <2>1, <3>2, LinesKeep DEF IInv
    <3> QED BY <3>1, <3>2
  <2> QED BY <2>2 DEF LinesInv
<1>10. PushAccounted'
  <2>1. stream[s].lines = << >>
    BY <1>2 DEF IInv, StreamInv
  <2>2. \A t \in Streams :
          MsgsIn(stream[t].lines) \subseteq gone' \cup MsgsIn(stream'[t].lines)
    BY <1>3, <2>1, NoLines
  <2> QED BY <2>2, AccountedKeeps DEF IInv, ClientOpens, chat
<1> QED BY <1>5, <1>6, <1>7, <1>8, <1>10 DEF IInv

\* CreatePipe puts a pipe in the pool where there is none, and frees the slot
\* of a stream that has ended meanwhile (pool.go:108-140).
LEMMA CreatePipeKeeps ==
    ASSUME IInv, NEW s \in Streams, CreatePipe(s)
    PROVE  IInv'
<1>1. stream[s].conn \in Conns
  BY DEF IInv, StreamInv, CreatePipe
<1>2. response \in [Conns -> Pipes]
  BY DEF IInv, Types
<1>3. /\ response' \in [Conns -> Pipes]
      /\ \A c \in Conns : response[c] # NoPipe => response'[c] # NoPipe
  <2>1. CASE response[stream[s].conn] = NoPipe
    BY <1>1, <1>2, <2>1, StreamConstantsOK DEF CreatePipe, Pipes
  <2>2. CASE response[stream[s].conn] # NoPipe
    BY <1>2, <2>2 DEF CreatePipe
  <2> QED BY <2>1, <2>2
<1>4. /\ stream' \in [Streams -> StreamRecord]
      /\ \A t \in Streams : t # s => stream'[t] = stream[t]
      /\ stream'[s] = IF stream[s].open THEN stream[s] ELSE Free
  BY FreeType DEF IInv, Types, CreatePipe
<1>5. \A t \in Streams : /\ stream'[t].lines = stream[t].lines
                         /\ stream'[t].open <=> stream[t].open
  BY <1>4, FreeType DEF IInv, StreamInv, Types, StreamRecord
<1>6. /\ accept' \in [Streams -> BOOLEAN] /\ ~accept'[s]
      /\ \A t \in Streams : t # s => accept'[t] = accept[t]
  BY DEF IInv, Types, CreatePipe
<1>7. Types'
  BY <1>1, <1>3, <1>4, <1>6 DEF IInv, Types, CreatePipe, chat
<1>8. StreamInv'
  BY <1>4, <1>5, <1>6 DEF IInv, StreamInv, CreatePipe
<1>9. PipeInv'
  <2>1. ASSUME NEW t \in Streams, reader'[t] \in Past
        PROVE  response'[stream'[t].conn] # NoPipe
    <3>1. reader[t] \in Past
      BY <2>1 DEF CreatePipe
    <3>2. stream[t].open /\ stream[t].conn \in Conns
      BY <3>1 DEF IInv, StreamInv, Past
    <3>3. stream'[t] = stream[t]
      BY <1>4, <3>2
    <3> QED BY <1>3, <3>1, <3>2, <3>3 DEF IInv, PipeInv
  <2> QED BY <1>3, <2>1 DEF IInv, PipeInv, CreatePipe, chat
<1>10. LinesInv'
  <2>1. Sent' = Sent
    BY DEF Sent, CreatePipe, chat
  <2>2. ASSUME NEW t \in Streams PROVE Len(stream'[t].lines) <= LinesBound(t)'
    BY <1>5, <2>1, LinesKeep DEF IInv, CreatePipe
  <2> QED BY <2>2 DEF LinesInv
<1>12. PushAccounted'
  BY <1>5, AccountedKeeps DEF IInv, CreatePipe, chat
<1> QED BY <1>7, <1>8, <1>9, <1>10, <1>12 DEF IInv

\* A pipe that is dead is a pipe, and one in the pool stays one in the pool.
LEMMA DeadType ==
    ASSUME NEW s \in Streams, NEW p \in Pipes
    PROVE  Dead(s, p) \in Pipes /\ (p # NoPipe => Dead(s, p) # NoPipe)
BY StreamConstantsOK DEF Dead, Pipes

\* The end of a stream: its pipe is dead in the pool, its lines are counted
\* as gone (pipe/default.go:51-59).
LEMMA EndKeeps ==
    ASSUME IInv, NEW s \in Streams, ReadFails(s) \/ Reset(s)
    PROVE  IInv'
<1>1. /\ End(s) /\ At(s, "none") /\ reader[s] # "none"
      /\ UNCHANGED <<conn, notice, network, accept, rec, stored, crashes>>
  BY DEF ReadFails, Reset
<1>2. Types
  BY DEF IInv
<1>3. /\ stream' \in [Streams -> StreamRecord]
      /\ stream'[s].lines = << >> /\ ~stream'[s].open
      /\ accept[s] => stream'[s].conn = stream[s].conn
      /\ \A t \in Streams : t # s => stream'[t] = stream[t]
  <2>1. stream[s].conn \in Conns
    BY <1>1 DEF IInv, StreamInv
  <2>2. CASE accept[s]
    <3> DEFINE r == [Free EXCEPT !.conn = stream[s].conn]
    <3>1. /\ r \in StreamRecord /\ r.lines = << >> /\ ~r.open
          /\ r.conn = stream[s].conn
      BY <2>1, FreeType DEF Free
    <3>2. stream' = [stream EXCEPT ![s] = r]
      BY <1>1, <2>2 DEF End
    <3> HIDE DEF r
    <3> QED BY <1>2, <3>1, <3>2 DEF Types
  <2>3. CASE ~accept[s]
    <3>1. stream' = [stream EXCEPT ![s] = Free]
      BY <1>1, <2>3 DEF End
    <3> QED BY <1>2, <2>3, <3>1, FreeType DEF Types
  <2> QED BY <2>2, <2>3
<1>4. /\ response' \in [Conns -> Pipes]
      /\ \A c \in Conns : response[c] # NoPipe => response'[c] # NoPipe
  BY <1>1, <1>2, DeadType DEF Types, End
<1>5. /\ sends' \in [Msgs -> [pc : {"new", "pipe", "write", "done"},
                             session : Conns \cup {NoConn}, pipe : Pipes]]
      /\ \A m \in Msgs : /\ sends'[m].pc = sends[m].pc
                         /\ sends'[m].session = sends[m].session
  BY <1>1, <1>2, DeadType DEF Types, End
<1>6. /\ reader' \in [Streams -> {"none", "read", "update", "write", "put",
                                  "answer", "reset"}]
      /\ reader'[s] = "none"
      /\ \A t \in Streams : t # s => reader'[t] = reader[t]
  BY <1>1, <1>2 DEF Types, At
<1>7. gone' = gone \cup MsgsIn(stream[s].lines) /\ gone' \subseteq Msgs
  <2>1. stream[s].lines \in Seq(Line)
    BY <1>2 DEF Types, StreamRecord
  <2> QED BY <1>1, <1>2, <2>1, LinesHoldMsgs DEF Types, End
<1>8. Types'
  BY <1>1, <1>2, <1>3, <1>4, <1>5, <1>6, <1>7 DEF Types
<1>9. StreamInv'
  <2>1. ASSUME NEW t \in Streams
        PROVE  /\ stream'[t].open <=> reader'[t] # "none"
               /\ ~stream'[t].open => stream'[t].lines = << >>
               /\ reader'[t] # "none" \/ accept'[t] => stream'[t].conn \in Conns
    <3>1. CASE t = s
      BY <1>1, <1>3, <1>6, <3>1 DEF IInv, StreamInv
    <3>2. CASE t # s
      BY <1>1, <1>3, <1>6, <3>2 DEF IInv, StreamInv
    <3> QED BY <3>1, <3>2
  <2> QED BY <2>1 DEF StreamInv
<1>10. PipeInv'
  <2>1. ASSUME NEW t \in Streams, reader'[t] \in Past
        PROVE  response'[stream'[t].conn] # NoPipe
    <3>1. t # s
      BY <1>6, <2>1 DEF Past
    <3>2. /\ reader[t] \in Past /\ stream'[t] = stream[t]
          /\ stream[t].conn \in Conns
      BY <1>3, <1>6, <2>1, <3>1 DEF IInv, StreamInv, Past
    <3> QED BY <1>4, <3>2 DEF IInv, PipeInv
  <2>2. rec'.up => rec'.session \in Conns /\ response'[rec'.session] # NoPipe
    BY <1>1, <1>4 DEF IInv, PipeInv
  <2>3. \A m \in Msgs : sends'[m].pc = "pipe" => sends'[m].session \in Conns
    BY <1>5 DEF IInv, PipeInv
  <2> QED BY <2>1, <2>2, <2>3 DEF PipeInv
<1>11. LinesInv'
  <2>1. Sent' = Sent
    BY <1>5 DEF Sent
  <2>2. ASSUME NEW t \in Streams PROVE Len(stream'[t].lines) <= LinesBound(t)'
    <3>1. CASE t = s
      BY <1>3, <2>1, <3>1, NoLinesKeep
    <3>2. CASE t # s
      BY <1>2, <1>3, <1>6, <2>1, <3>2, LinesKeep DEF IInv
    <3> QED BY <3>1, <3>2
  <2> QED BY <2>2 DEF LinesInv
<1>13. PushAccounted'
  <2>1. \A t \in Streams :
          MsgsIn(stream[t].lines) \subseteq gone' \cup MsgsIn(stream'[t].lines)
    BY <1>3, <1>7
  <2> QED BY <1>1, <1>5, <1>7, <2>1, AccountedKeeps DEF IInv
<1> QED BY <1>8, <1>9, <1>10, <1>11, <1>13 DEF IInv

----------------------------------------------------------------------------
(* The writes.                                                             *)

\* A line that is written is the last of its stream (pipe/default.go:109-143).
LEMMA AppendStep ==
    ASSUME Types, NEW p \in Streams, NEW l \in Line, Append1(p, l)
    PROVE  /\ stream' \in [Streams -> StreamRecord]
           /\ \A t \in Streams : /\ stream'[t].conn = stream[t].conn
                                 /\ stream'[t].open = stream[t].open
                                 /\ MsgsIn(stream[t].lines)
                                      \subseteq MsgsIn(stream'[t].lines)
           /\ \A t \in Streams : t # p => stream'[t] = stream[t]
           /\ Len(stream'[p].lines) = Len(stream[p].lines) + 1
           /\ \A i \in DOMAIN stream'[p].lines :
                \/ stream'[p].lines[i] = l
                \/ /\ i \in DOMAIN stream[p].lines
                   /\ stream'[p].lines[i] = stream[p].lines[i]
           /\ l.msg \subseteq MsgsIn(stream'[p].lines)
<1> DEFINE q == stream[p].lines
           r == [stream[p] EXCEPT !.lines = Append(q, l)]
<1>1. q \in Seq(Line) /\ stream[p] \in StreamRecord
  BY DEF Types, StreamRecord
<1>2. /\ Append(q, l) \in Seq(Line)
      /\ Len(Append(q, l)) = Len(q) + 1
      /\ \A i \in DOMAIN Append(q, l) :
           \/ Append(q, l)[i] = l
           \/ i \in DOMAIN q /\ Append(q, l)[i] = q[i]
      /\ MsgsIn(q) \cup l.msg \subseteq MsgsIn(Append(q, l))
  <2> HIDE DEF q
  <2> QED BY <1>1, AppendLine
<1>3. /\ r \in StreamRecord /\ r.lines = Append(q, l)
      /\ r.conn = stream[p].conn /\ r.open = stream[p].open
  <2> HIDE DEF q
  <2> QED BY <1>1, <1>2 DEF StreamRecord
<1>4. stream' = [stream EXCEPT ![p] = r]
  BY DEF Append1
<1>5. /\ stream' \in [Streams -> StreamRecord] /\ stream'[p] = r
      /\ \A t \in Streams : t # p => stream'[t] = stream[t]
  <2> HIDE DEF r
  <2> QED BY <1>3, <1>4 DEF Types
<1>6. ASSUME NEW t \in Streams
      PROVE  /\ stream'[t].conn = stream[t].conn
             /\ stream'[t].open = stream[t].open
             /\ MsgsIn(stream[t].lines) \subseteq MsgsIn(stream'[t].lines)
  <2> HIDE DEF r
  <2>1. CASE t = p
    BY <1>2, <1>3, <1>5, <2>1
  <2>2. CASE t # p
    BY <1>5, <2>2
  <2> QED BY <2>1, <2>2
<1>7. stream'[p].lines = Append(q, l)
  BY <1>3, <1>5
<1> HIDE DEF r
<1> QED BY <1>2, <1>5, <1>6, <1>7

\* The response goes to the stream of its request, if it still can
\* (handler.go:30-39).
LEMMA WriteAnswerKeeps ==
    ASSUME IInv, NEW s \in Streams, WriteAnswer(s)
    PROVE  IInv'
<1>1. Types
  BY DEF IInv
<1>2. /\ reader' \in [Streams -> {"none", "read", "update", "write", "put",
                                  "answer", "reset"}]
      /\ reader[s] = "answer" /\ reader'[s] = "reset"
      /\ \A t \in Streams : t # s => reader'[t] = reader[t]
  BY <1>1 DEF Types, WriteAnswer, At
<1>3. \/ Append1(s, Answer(s)) \/ stream' = stream
  BY DEF WriteAnswer
<1>4. /\ stream' \in [Streams -> StreamRecord]
      /\ \A t \in Streams : /\ stream'[t].conn = stream[t].conn
                            /\ stream'[t].open = stream[t].open
                            /\ MsgsIn(stream[t].lines)
                                 \subseteq MsgsIn(stream'[t].lines)
      /\ \A t \in Streams : t # s => stream'[t] = stream[t]
  <2>1. CASE Append1(s, Answer(s))
    BY <1>1, <2>1, AppendStep, LineTypes
  <2>2. CASE stream' = stream
    BY <1>1, <2>2 DEF Types
  <2> QED BY <1>3, <2>1, <2>2
<1>5. Types'
  BY <1>1, <1>2, <1>4 DEF Types, WriteAnswer, pools, chat
<1>6. StreamInv'
  <2>1. reader'[s] # "none" /\ stream[s].open /\ stream[s].conn \in Conns
    BY <1>2 DEF IInv, StreamInv
  <2>2. ASSUME NEW t \in Streams
        PROVE  /\ stream'[t].open <=> reader'[t] # "none"
               /\ ~stream'[t].open => stream'[t].lines = << >>
               /\ reader'[t] # "none" \/ accept'[t] => stream'[t].conn \in Conns
    <3>1. CASE t = s
      BY <1>2, <1>4, <2>1, <3>1
    <3>2. CASE t # s
      BY <1>2, <1>4, <3>2 DEF IInv, StreamInv, WriteAnswer
    <3> QED BY <3>1, <3>2
  <2> QED BY <2>2 DEF StreamInv
<1>7. PipeInv'
  <2>1. ASSUME NEW t \in Streams, reader'[t] \in Past
        PROVE  response[stream[t].conn] # NoPipe
    BY <1>2, <2>1 DEF IInv, PipeInv, Past
  <2>2. \A t \in Streams : reader'[t] \in Past => response'[stream'[t].conn] # NoPipe
    BY <1>4, <2>1 DEF WriteAnswer, pools
  <2> QED BY <2>2 DEF IInv, PipeInv, WriteAnswer, pools, chat
<1>8. Sent' = Sent
  BY DEF Sent, WriteAnswer, chat
<1>9. LinesInv'
  <2>1. /\ Len(stream[s].lines) \in Nat
        /\ Len(stream[s].lines) <= LinesBound(s)
        /\ Len(stream'[s].lines) <= Len(stream[s].lines) + 1
    <3>1. Len(stream[s].lines) \in Nat
      BY <1>1 DEF Types, StreamRecord
    <3>2. CASE Append1(s, Answer(s))
      BY <1>1, <3>1, <3>2, AppendStep, LineTypes DEF IInv, LinesInv
    <3>3. CASE stream' = stream
      BY <3>1, <3>3 DEF IInv, LinesInv
    <3> QED BY <1>3, <3>2, <3>3
  <2>2. LinesBound(s)' = LinesBound(s) + 1 /\ LinesBound(s) \in Nat
    <3>1. Cardinality(Sent) \in Nat
      BY <1>8, SentGrows
    <3> QED BY <1>2, <1>8, <3>1 DEF LinesBound
  <2>3. Len(stream'[s].lines) \in Nat
    BY <1>4 DEF StreamRecord
  <2>4. ASSUME NEW t \in Streams PROVE Len(stream'[t].lines) <= LinesBound(t)'
    <3>1. CASE t = s
      BY <2>1, <2>2, <2>3, <3>1
    <3>2. CASE t # s
      BY <1>1, <1>2, <1>4, <1>8, <3>2, LinesKeep DEF IInv
    <3> QED BY <3>1, <3>2
  <2> QED BY <2>4 DEF LinesInv
<1>11. PushAccounted'
  <2>1. stored' = stored /\ gone' = gone /\ sends' = sends
    BY DEF WriteAnswer, chat
  <2> QED BY <1>4, <2>1, AccountedKeeps DEF IInv
<1> QED BY <1>5, <1>6, <1>7, <1>9, <1>11 DEF IInv

\* The places of the messages, and what Done puts there.
SendRecord == [pc : {"new", "pipe", "write", "done"},
               session : Conns \cup {NoConn}, pipe : Pipes]

\* A message that is done with, or not begun, is of its type.
LEMMA DoneType ==
    /\ Done \in SendRecord /\ Done.pc = "done"
    /\ Unsent \in SendRecord /\ Unsent.pc = "new"
BY DEF Done, Unsent, SendRecord, Pipes

\* One more message is done with.
LEMMA SentAdds ==
    ASSUME Types, NEW m \in Msgs, sends[m].pc # "done",
           sends' = [sends EXCEPT ![m] = Done]
    PROVE  /\ sends' \in [Msgs -> SendRecord]
           /\ sends'[m] = Done
           /\ \A n \in Msgs : n # m => sends'[n] = sends[n]
           /\ Sent \subseteq Sent'
           /\ Cardinality(Sent) \in Nat
           /\ Cardinality(Sent') = Cardinality(Sent) + 1
<1>1. sends \in [Msgs -> SendRecord]
  BY DEF Types, SendRecord
<1>2. /\ sends' \in [Msgs -> SendRecord] /\ sends'[m] = Done
      /\ \A n \in Msgs : n # m => sends'[n] = sends[n]
  BY <1>1, DoneType
<1>3. Sent' = Sent \cup {m} /\ m \notin Sent
  BY <1>2, DoneType DEF Sent
<1>4. IsFiniteSet(Sent)
  BY StreamConstantsOK, FS_Subset DEF Sent
<1>5. Cardinality(Sent) \in Nat /\ Cardinality(Sent \cup {m}) = Cardinality(Sent) + 1
  BY <1>3, <1>4, FS_AddElement, FS_CardinalityType
<1> QED BY <1>2, <1>3, <1>5

\* A message for the client is written to the pipe it was given
\* (sender/default.go:89-101).
LEMMA WritePushKeeps ==
    ASSUME IInv, NEW m \in Msgs, WritePush(m)
    PROVE  IInv'
<1> DEFINE p == sends[m].pipe
<1>1. Types
  BY DEF IInv
<1>2. /\ p \in Streams /\ stream[p].open /\ Append1(p, Push(m))
      /\ sends[m].pc # "done" /\ sends' = [sends EXCEPT ![m] = Done]
      /\ UNCHANGED <<conn, notice, pools, accept, reader, rec, stored, gone, crashes>>
  BY DEF WritePush, Writable
<1> HIDE DEF p
<1>3. /\ stream' \in [Streams -> StreamRecord]
      /\ \A t \in Streams : /\ stream'[t].conn = stream[t].conn
                            /\ stream'[t].open = stream[t].open
                            /\ MsgsIn(stream[t].lines)
                                 \subseteq MsgsIn(stream'[t].lines)
      /\ \A t \in Streams : t # p => stream'[t] = stream[t]
      /\ Len(stream'[p].lines) = Len(stream[p].lines) + 1
      /\ \A i \in DOMAIN stream'[p].lines :
           \/ stream'[p].lines[i] = Push(m)
           \/ /\ i \in DOMAIN stream[p].lines
              /\ stream'[p].lines[i] = stream[p].lines[i]
      /\ Push(m).msg \subseteq MsgsIn(stream'[p].lines)
  BY <1>1, <1>2, AppendStep, LineTypes
<1>4. /\ sends' \in [Msgs -> SendRecord] /\ sends'[m] = Done
      /\ \A n \in Msgs : n # m => sends'[n] = sends[n]
      /\ Sent \subseteq Sent' /\ Cardinality(Sent) \in Nat
      /\ Cardinality(Sent') = Cardinality(Sent) + 1
  BY <1>1, <1>2, SentAdds
<1>5. Types'
  BY <1>1, <1>2, <1>3, <1>4 DEF Types, pools, SendRecord
<1>6. StreamInv'
  <2>1. ASSUME NEW t \in Streams
        PROVE  /\ stream'[t].open <=> reader'[t] # "none"
               /\ ~stream'[t].open => stream'[t].lines = << >>
               /\ reader'[t] # "none" \/ accept'[t] => stream'[t].conn \in Conns
    <3>1. CASE t = p
      BY <1>2, <1>3, <3>1 DEF IInv, StreamInv
    <3>2. CASE t # p
      BY <1>2, <1>3, <3>2 DEF IInv, StreamInv
    <3> QED BY <3>1, <3>2
  <2> QED BY <2>1 DEF StreamInv
<1>7. PipeInv'
  <2>1. \A t \in Streams : reader'[t] \in Past => response'[stream'[t].conn] # NoPipe
    BY <1>2, <1>3 DEF IInv, PipeInv, pools
  <2>2. \A n \in Msgs : sends'[n].pc = "pipe" => sends'[n].session \in Conns
    BY <1>4, DoneType DEF IInv, PipeInv
  <2> QED BY <1>2, <2>1, <2>2 DEF IInv, PipeInv, pools
<1>8. LinesInv'
  <2>1. /\ Len(stream[p].lines) \in Nat
        /\ Len(stream[p].lines) <= LinesBound(p)
    BY <1>1, <1>2 DEF IInv, LinesInv, Types, StreamRecord
  <2>2. ASSUME NEW t \in Streams PROVE Len(stream'[t].lines) <= LinesBound(t)'
    <3>1. CASE t = p
      <4>1. LinesBound(t)' = Cardinality(Sent)
                               + 1 + IF reader[t] = "reset" THEN 1 ELSE 0
        BY <1>2, <1>4 DEF LinesBound
      <4>2. LinesBound(t) = Cardinality(Sent)
                              + IF reader[t] = "reset" THEN 1 ELSE 0
        BY DEF LinesBound
      <4> QED BY <1>3, <1>4, <2>1, <3>1, <4>1, <4>2
    <3>2. CASE t # p
      BY <1>1, <1>2, <1>3, <1>4, <3>2, LinesKeep DEF IInv
    <3> QED BY <3>1, <3>2
  <2> QED BY <2>2 DEF LinesInv
<1>10. PushAccounted'
  <2>1. m \in MsgsIn(stream'[p].lines)
    BY <1>3, LineTypes
  <2>2. \A n \in Msgs : sends'[n].pc = "done" =>
          \/ sends[n].pc = "done" \/ n \in stored' \cup gone'
          \/ \E s \in Streams : n \in MsgsIn(stream'[s].lines)
    BY <1>2, <1>4, <2>1
  <2> QED BY <1>2, <1>3, <2>2, AccountedKeeps DEF IInv
<1> QED BY <1>5, <1>6, <1>7, <1>8, <1>10 DEF IInv

\* The other steps of a message: to look up the client, to take a pipe from
\* the pool and to give up (message.go:206-247, sender/default.go:60-112).
LEMMA SendsKeeps ==
    ASSUME IInv, NEW m \in Msgs,
           RelaySend(m) \/ GetResponsePipe(m) \/ WritePushFails(m)
    PROVE  IInv'
<1>1. Types
  BY DEF IInv
<1>2. /\ UNCHANGED <<conn, notice, pools, stream, accept, reader, rec, crashes>>
      /\ sends[m].pc # "done"
  BY DEF RelaySend, GetResponsePipe, WritePushFails
<1>3. sends \in [Msgs -> SendRecord] /\ sends[m] \in SendRecord
  BY <1>1 DEF Types, SendRecord
<1>4. /\ sends' \in [Msgs -> SendRecord]
      /\ \A n \in Msgs : n # m => sends'[n] = sends[n]
      /\ sends'[m].pc = "pipe" => sends'[m].session \in Conns
      /\ Sent \subseteq Sent'
      /\ stored \subseteq stored' /\ stored' \subseteq Chats
      /\ gone \subseteq gone' /\ gone' \subseteq Msgs
      /\ sends'[m].pc = "done" => m \in stored' \cup gone'
  <2>1. CASE Insert(m)
    <3>1. sends' = [sends EXCEPT ![m] = Done]
      BY <2>1 DEF Insert
    <3>2. /\ sends' \in [Msgs -> SendRecord] /\ sends'[m] = Done
          /\ \A n \in Msgs : n # m => sends'[n] = sends[n]
          /\ Sent \subseteq Sent'
      BY <1>1, <1>2, <3>1, SentAdds
    <3>3. /\ stored \subseteq stored' /\ stored' \subseteq Chats
          /\ gone \subseteq gone' /\ gone' \subseteq Msgs
          /\ m \in stored' \cup gone'
      BY <1>1, <2>1 DEF Insert, Types
    <3>4. sends'[m].pc # "pipe"
      BY <3>2, DoneType
    <3> QED BY <3>2, <3>3, <3>4
  <2>2. CASE /\ sends[m].pc = "new" /\ rec.up /\ UNCHANGED <<stored, gone>>
             /\ sends' = [sends EXCEPT ![m] =
                            [@ EXCEPT !.pc = "pipe", !.session = rec.session]]
    <3> DEFINE r == [sends[m] EXCEPT !.pc = "pipe", !.session = rec.session]
    <3>1. rec.session \in Conns
      BY <2>2 DEF IInv, PipeInv
    <3>2. r \in SendRecord /\ r.pc = "pipe" /\ r.session \in Conns
      <4> DEFINE x == sends[m]
                 c == rec.session
      <4>1. x \in SendRecord /\ c \in Conns
        BY <1>3, <3>1
      <4> HIDE DEF x, c
      <4>2. LET y == [x EXCEPT !.pc = "pipe", !.session = c]
            IN  y \in SendRecord /\ y.pc = "pipe" /\ y.session \in Conns
        BY <4>1 DEF SendRecord
      <4> QED BY <4>2 DEF x, c
    <3>3. sends' = [sends EXCEPT ![m] = r]
      BY <2>2
    <3> HIDE DEF r
    <3>4. sends' \in [Msgs -> SendRecord] /\ sends'[m] = r
          /\ \A n \in Msgs : n # m => sends'[n] = sends[n]
      BY <1>3, <3>2, <3>3
    <3> QED BY <1>1, <1>2, <2>2, <3>2, <3>4 DEF Sent, Types
  <2>3. CASE GetResponsePipe(m)
    <3> DEFINE p == response[sends[m].session]
               r == [sends[m] EXCEPT !.pc = "write", !.pipe = p]
    <3>1. sends[m].session \in Conns
      BY <2>3 DEF IInv, PipeInv, GetResponsePipe
    <3>2. p \in Pipes
      BY <1>1, <3>1 DEF Types
    <3> HIDE DEF p
    <3>3. r \in SendRecord /\ r.pc = "write"
      <4> DEFINE x == sends[m]
      <4>1. x \in SendRecord
        BY <1>3
      <4> HIDE DEF x
      <4>2. LET y == [x EXCEPT !.pc = "write", !.pipe = p]
            IN  y \in SendRecord /\ y.pc = "write"
        BY <3>2, <4>1 DEF SendRecord
      <4> QED BY <4>2 DEF x
    <3>4. sends' = [sends EXCEPT ![m] = r]
      BY <2>3 DEF GetResponsePipe, p
    <3> HIDE DEF r
    <3>5. sends' \in [Msgs -> SendRecord] /\ sends'[m] = r
          /\ \A n \in Msgs : n # m => sends'[n] = sends[n]
      BY <1>3, <3>3, <3>4
    <3> QED BY <1>1, <1>2, <2>3, <3>3, <3>5 DEF Sent, Types, GetResponsePipe
  <2> QED BY <2>1, <2>2, <2>3 DEF RelaySend, WritePushFails
<1>5. Types'
  BY <1>1, <1>2, <1>4 DEF Types, pools, SendRecord
<1>6. StreamInv'
  BY <1>2 DEF IInv, StreamInv
<1>7. PipeInv'
  <2>1. \A n \in Msgs : sends'[n].pc = "pipe" => sends'[n].session \in Conns
    BY <1>4 DEF IInv, PipeInv
  <2> QED BY <1>2, <2>1 DEF IInv, PipeInv, pools
<1>8. LinesInv'
  <2>1. ASSUME NEW t \in Streams PROVE Len(stream'[t].lines) <= LinesBound(t)'
    BY <1>1, <1>2, <1>4, LinesKeep DEF IInv
  <2> QED BY <2>1 DEF LinesInv
<1>10. PushAccounted'
  <2>1. \A n \in Msgs : sends'[n].pc = "done" =>
          \/ sends[n].pc = "done" \/ n \in stored' \cup gone'
          \/ \E s \in Streams : n \in MsgsIn(stream'[s].lines)
    BY <1>4
  <2> QED BY <1>2, <1>4, <2>1, AccountedKeeps DEF IInv
<1> QED BY <1>5, <1>6, <1>7, <1>8, <1>10 DEF IInv

\* A restart empties the pools and puts the record down: what was on a stream
\* or in the hands of a goroutine is counted as gone.
LEMMA RestartKeeps == ASSUME IInv, Restart PROVE IInv'
<1>1. Types
  BY DEF IInv
<1>2. /\ stream' = [s \in Streams |-> Free]
      /\ accept' = [s \in Streams |-> FALSE]
      /\ reader' = [s \in Streams |-> "none"]
      /\ response' = [c \in Conns |-> NoPipe]
      /\ stored' = stored /\ ~rec'.up
      /\ rec' \in [session : Conns \cup {NoConn}, up : BOOLEAN]
  BY <1>1 DEF Restart, Types
<1>3. /\ sends' \in [Msgs -> SendRecord]
      /\ \A m \in Msgs : /\ sends'[m].pc # "pipe"
                         /\ sends'[m].pc = "done" <=> sends[m].pc # "new"
  BY DoneType DEF Restart
<1>4. gone' \subseteq Msgs
  <2>1. \A s \in Streams : MsgsIn(stream[s].lines) \subseteq Msgs
    BY <1>1, LinesHoldMsgs DEF Types, StreamRecord
  <2> QED BY <1>1, <2>1 DEF Restart, Types
<1>5. Sent \subseteq Sent'
  BY <1>3 DEF Sent
<1>6. Types'
  <2>1. stream' \in [Streams -> StreamRecord]
    BY <1>2, FreeType
  <2>2. /\ conn' \in [Conns -> {"new", "up", "down"}]
        /\ notice' \in [Conns -> {"none", "read", "write"}]
        /\ network' \subseteq Conns
    BY <1>1 DEF Types, Restart
  <2>3. crashes' \in 0 .. MaxCrashes
    BY <1>1, StreamConstantsOK DEF Types, Restart
  <2>4. response' \in [Conns -> Pipes]
    BY <1>2 DEF Pipes
  <2> QED BY <1>1, <1>2, <1>3, <1>4, <2>1, <2>2, <2>3, <2>4 DEF Types, SendRecord
<1>7. StreamInv'
  BY <1>2, FreeType DEF StreamInv
<1>8. PipeInv'
  BY <1>2, <1>3 DEF PipeInv, Past
<1>9. LinesInv'
  <2>1. ASSUME NEW t \in Streams PROVE Len(stream'[t].lines) <= LinesBound(t)'
    BY <1>2, <1>5, FreeType, NoLinesKeep
  <2> QED BY <2>1 DEF LinesInv
<1>11. PushAccounted'
  <2>1. ASSUME NEW m \in Msgs, sends'[m].pc = "done"
        PROVE  m \in stored' \cup gone'
    <3>1. CASE sends[m].pc = "done"
      BY <1>2, <3>1 DEF IInv, PushAccounted, Restart
    <3>2. CASE sends[m].pc # "done"
      BY <1>3, <2>1, <3>2 DEF Restart
    <3> QED BY <3>1, <3>2
  <2> QED BY <2>1 DEF PushAccounted
<1> QED BY <1>6, <1>7, <1>8, <1>9, <1>11 DEF IInv

----------------------------------------------------------------------------
(* The theorems.                                                           *)

\* The invariant holds before the client comes.
LEMMA InitIInv == Init => IInv
<1> SUFFICES ASSUME Init PROVE IInv
  OBVIOUS
<1>1. Types
  <2>1. stream \in [Streams -> StreamRecord] /\ sends \in [Msgs -> SendRecord]
    BY FreeType, DoneType DEF Init
  <2>2. rec \in [session : Conns \cup {NoConn}, up : BOOLEAN]
    BY DEF Init
  <2>3. /\ response \in [Conns -> Pipes] /\ network \subseteq Conns
        /\ conn \in [Conns -> {"new", "up", "down"}]
        /\ notice \in [Conns -> {"none", "read", "write"}]
        /\ accept \in [Streams -> BOOLEAN]
        /\ reader \in [Streams -> {"none", "read", "update", "write", "put",
                                   "answer", "reset"}]
    BY DEF Init, Pipes
  <2>4. stored \subseteq Chats /\ gone \subseteq Msgs /\ crashes \in 0 .. MaxCrashes
    BY StreamConstantsOK DEF Init
  <2> QED BY <2>1, <2>2, <2>3, <2>4 DEF Types, SendRecord
<1>2. StreamInv /\ PipeInv
  BY FreeType, DoneType DEF Init, StreamInv, PipeInv, Past
<1>3. LinesInv
  <2>1. ASSUME NEW s \in Streams PROVE Len(stream[s].lines) <= LinesBound(s)
    <3>1. stream[s].lines = << >>
      BY FreeType DEF Init
    <3>2. Len(stream[s].lines) = 0
      BY <3>1, NoLines
    <3>3. LinesBound(s) \in Nat
      BY BoundIsNat
    <3> QED BY <3>2, <3>3
  <2> QED BY <2>1 DEF LinesInv
<1>4. PushAccounted
  BY FreeType, DoneType, NoLines DEF Init, PushAccounted
<1> QED BY <1>1, <1>2, <1>3, <1>4 DEF IInv

\* Every step of the pools keeps the invariant.
LEMMA StepIInv == IInv /\ [Next]_vars => IInv'
<1> SUFFICES ASSUME IInv, [Next]_vars PROVE IInv'
  OBVIOUS
<1>1. ASSUME NEW c \in Conns,
             \/ Connected(c) \/ Disconnected(c)
             \/ DisconnectRead(c) \/ DisconnectWrite(c)
      PROVE  IInv'
  BY <1>1, ConnectionKeeps
<1>2. ASSUME NEW s \in Streams, NEW c \in Conns, ClientOpens(s, c) PROVE IInv'
  BY <1>2, ClientOpensKeeps
<1>3. ASSUME NEW s \in Streams,
             \/ \E b \in BOOLEAN : Update(s, b) \/ UpdateWrite(s, b)
             \/ UpdateRead(s) \/ ConnectPut(s)
      PROVE  IInv'
  BY <1>3, HandlerKeeps
<1>4. ASSUME NEW s \in Streams, CreatePipe(s) PROVE IInv'
  BY <1>4, CreatePipeKeeps
<1>5. ASSUME NEW s \in Streams, ReadLine(s) PROVE IInv'
  BY <1>5, ReadLineKeeps
<1>6. ASSUME NEW s \in Streams, ReadFails(s) \/ Reset(s) PROVE IInv'
  BY <1>6, EndKeeps
<1>7. ASSUME NEW s \in Streams, WriteAnswer(s) PROVE IInv'
  BY <1>7, WriteAnswerKeeps
<1>8. ASSUME NEW m \in Msgs, WritePush(m) PROVE IInv'
  BY <1>8, WritePushKeeps
<1>9. ASSUME NEW m \in Msgs,
             RelaySend(m) \/ GetResponsePipe(m) \/ WritePushFails(m)
      PROVE  IInv'
  BY <1>9, SendsKeeps
<1>10. CASE Restart
  BY <1>10, RestartKeeps
<1>11. CASE UNCHANGED vars
  <2>1. /\ UNCHANGED <<conn, notice, pools, stream, accept, reader, rec, chat,
                       gone, crashes>>
    BY <1>11 DEF vars, pools, chat
  <2>2. StreamInv' /\ LinesInv' /\ PushAccounted'
    BY <2>1, StreamsUnchanged
  <2>3. Types'
    BY <2>1 DEF IInv, Types, pools, chat
  <2>4. PipeInv'
    BY <2>1 DEF IInv, PipeInv, pools, chat
  <2> QED BY <2>2, <2>3, <2>4 DEF IInv
<1> QED BY <1>1, <1>2, <1>3, <1>4, <1>5, <1>6, <1>7, <1>8, <1>9, <1>10, <1>11
        DEF Next

\* The pools of pipes keep the inductive invariant (libp2p/pipe).
THEOREM Invariance == Spec => []IInv
<1>1. Init => IInv
  BY InitIInv
<1>2. IInv /\ [Next]_vars => IInv'
  BY StepIInv
<1> QED BY <1>1, <1>2, PTL DEF Spec

\* The variables keep their types, and a stream never holds more lines than
\* its answer and one line for each message.
THEOREM StreamTypes == Spec => []TypeOK
<1>1. IInv => TypeOK
  BY LinesBounded DEF IInv
<1> QED BY <1>1, Invariance, PTL

\* A client found up has a pipe in the pool, whatever late goroutines and
\* restarts there are (pool.go:28-53).
THEOREM UpHasPipe == Spec => []RecordHasPipe
<1>1. IInv => RecordHasPipe
  BY DEF IInv, PipeInv, RecordHasPipe
<1> QED BY <1>1, Invariance, PTL

\* No message for the client vanishes between the lookup of its session and
\* the write to its pipe (sender/default.go:60-112).
THEOREM PushesAccounted == Spec => []PushAccounted
<1>1. IInv => PushAccounted
  BY DEF IInv
<1> QED BY <1>1, Invariance, PTL

----------------------------------------------------------------------------
(* The websocket server.                                                   *)

USE DEF Goroutines, Places

\* Goto moves one goroutine and no other.
LEMMA GotoMoves ==
    ASSUME SocketTypeOK, NEW c \in Sockets, NEW g \in Goroutines,
           NEW p \in Places, Goto(c, g, p)
    PROVE  /\ at' \in [Sockets -> [Goroutines -> Places]]
           /\ at'[c][g] = p
           /\ \A b \in Sockets, h \in Goroutines :
                (b # c \/ h # g) => at'[b][h] = at[b][h]
  <1>1. at \in [Sockets -> [Goroutines -> Places]]
    BY DEF SocketTypeOK
  <1>2. at' = [at EXCEPT ![c] = [@ EXCEPT ![g] = p]]
    BY <1>1 DEF Goto
  <1>3. at[c] \in [Goroutines -> Places]
    BY <1>1
  <1>4. [at[c] EXCEPT ![g] = p] \in [Goroutines -> Places]
    BY <1>3
  <1>5. QED
    BY <1>1, <1>2, <1>3, <1>4

\* Close keeps the types and moves the goroutine to the mutex.
LEMMA CloseMoves ==
    ASSUME SocketTypeOK, NEW c \in Sockets, NEW g \in Goroutines,
           NEW n \in {"read", "beat", "done"}, Close(c, g, n)
    PROVE  /\ Goto(c, g, "shut")
           /\ sock' \in [Sockets -> BOOLEAN]
           /\ then' \in [Sockets -> [Goroutines -> {"read", "beat", "done"}]]
  <1>1. then \in [Sockets -> [Goroutines -> {"read", "beat", "done"}]]
    BY DEF SocketTypeOK
  <1>2. then' = [then EXCEPT ![c] = [@ EXCEPT ![g] = n]]
    BY <1>1 DEF Close
  <1>3. [then[c] EXCEPT ![g] = n] \in [Goroutines -> {"read", "beat", "done"}]
    BY <1>1
  <1>4. QED
    BY <1>1, <1>2, <1>3 DEF Close, SocketTypeOK

\* A message fits into the channel.
LEMMA EnqueueFits ==
    ASSUME SocketTypeOK, NEW c \in Sockets, Enqueue(c)
    PROVE  out' \in [Sockets -> 0 .. OutCap]
  BY OutCapOK DEF SocketTypeOK, Enqueue

\* The steps of a goroutine that are neither inside Close nor change what the
\* pool and the other connections look like.
Ordinary(c, g) ==
    /\ at[c][g] \notin {"none", "forget", "notify"}
    /\ \E p \in Places \ {"none", "forget", "notify"} :
         /\ Goto(c, g, p)
         /\ p = "done" /\ g = "write" => closed[c]
    /\ UNCHANGED <<sess, pool, closed, notified>>

\* An ordinary step keeps the invariant: no goroutine enters or leaves the
\* inside of Close.
LEMMA OrdinaryKeeps ==
    ASSUME SocketInv, NEW c \in Sockets, NEW g \in Goroutines, Ordinary(c, g)
    PROVE  PoolInv' /\ CloseInv'
  <1>1. PICK p \in Places \ {"none", "forget", "notify"} :
          Goto(c, g, p) /\ (p = "done" /\ g = "write" => closed[c])
    BY DEF Ordinary
  <1>2. /\ at'[c][g] = p
        /\ \A b \in Sockets, h \in Goroutines :
             (b # c \/ h # g) => at'[b][h] = at[b][h]
    BY <1>1, GotoMoves DEF SocketInv
  <1>3. \A b \in Sockets, h \in Goroutines :
          /\ at'[b][h] = "forget" <=> at[b][h] = "forget"
          /\ at'[b][h] = "notify" <=> at[b][h] = "notify"
          /\ at'[b][h] = "none" <=> at[b][h] = "none"
    BY <1>2 DEF Ordinary
  <1>4. /\ sess' = sess /\ pool' = pool
        /\ closed' = closed /\ notified' = notified
    BY DEF Ordinary
  <1>5. PoolInv'
    <2> SUFFICES ASSUME NEW s \in Sessions, pool[s] # NoSocket
                 PROVE  /\ sess[pool[s]] = s
                        /\ closed[pool[s]] => \E h \in Goroutines :
                                                at'[pool[s]][h] = "forget"
      BY <1>4 DEF PoolInv
    <2>1. pool[s] \in Sockets
      BY DEF SocketInv, SocketTypeOK
    <2>2. QED
      BY <2>1, <1>3 DEF SocketInv, PoolInv
  <1>6. CloseInv'
    <2> SUFFICES ASSUME NEW b \in Sockets
                 PROVE  /\ sess[b] = NoSession =>
                             /\ \A h \in Goroutines : at'[b][h] = "none"
                             /\ ~closed[b]
                        /\ at'[b]["write"] = "done" => closed[b]
                        /\ \A h \in Goroutines :
                             at'[b][h] \in {"forget", "notify"} => closed[b]
                        /\ closed[b] =>
                             \/ b \in notified
                             \/ \E h \in Goroutines :
                                  at'[b][h] \in {"forget", "notify"}
      BY <1>4 DEF CloseInv, Accepted
    <2>1. at'[b]["write"] = "done" => closed[b]
      BY <1>1, <1>2 DEF SocketInv, CloseInv
    <2>2. QED
      BY <2>1, <1>3 DEF SocketInv, CloseInv, Accepted
  <1>7. QED
    BY <1>5, <1>6

\* Each handler and goroutine step other than the inside of Close, the accept
\* and the sender is ordinary.
LEMMA GoroutineSteps ==
    ASSUME SocketInv, NEW c \in Sockets,
           \/ ReadStop(c) \/ ReadMessage(c) \/ ReadPing(c) \/ ReadError(c)
           \/ read(c) \/ readRespond(c)
           \/ WriteTake(c) \/ WriteMessage(c) \/ WriteError(c)
           \/ BeatFirst(c) \/ Beat(c)
    PROVE  SocketTypeOK' /\ \E g \in Goroutines : Ordinary(c, g)
  <1> USE DEF SocketInv
  <1>1. \A g \in Goroutines, p \in Places : Goto(c, g, p) =>
          at' \in [Sockets -> [Goroutines -> Places]]
    BY GotoMoves
  <1>2. \A g \in Goroutines, n \in {"read", "beat", "done"} : Close(c, g, n) =>
          /\ Goto(c, g, "shut")
          /\ sock' \in [Sockets -> BOOLEAN]
          /\ then' \in [Sockets -> [Goroutines -> {"read", "beat", "done"}]]
    BY CloseMoves
  <1>3. Enqueue(c) => out' \in [Sockets -> 0 .. OutCap]
    BY EnqueueFits
  <1>4. CASE ReadStop(c)
    BY <1>1, <1>4 DEF ReadStop, SocketTypeOK, Ordinary
  <1>5. CASE ReadMessage(c)
    BY <1>1, <1>5 DEF ReadMessage, SocketTypeOK, Ordinary
  <1>6. CASE ReadPing(c)
    BY <1>1, <1>6 DEF ReadPing, SocketTypeOK, Ordinary
  <1>7. CASE ReadError(c)
    BY <1>1, <1>2, <1>7 DEF ReadError, SocketTypeOK, Ordinary
  <1>8. CASE read(c)
    BY <1>1, <1>2, <1>8 DEF read, SocketTypeOK, Ordinary
  <1>9. CASE readRespond(c)
    BY <1>1, <1>3, <1>9 DEF readRespond, SocketTypeOK, Ordinary
  <1>10. CASE WriteTake(c)
    <2>1. out[c] > 0 /\ out' = [out EXCEPT ![c] = @ - 1] =>
            out' \in [Sockets -> 0 .. OutCap]
      BY OutCapOK DEF SocketTypeOK
    <2>2. QED
      BY <2>1, <1>1, <1>2, <1>10 DEF WriteTake, SocketTypeOK, Ordinary
  <1>11. CASE WriteMessage(c)
    BY <1>1, <1>11 DEF WriteMessage, SocketTypeOK, Ordinary
  <1>12. CASE WriteError(c)
    BY <1>1, <1>2, <1>12 DEF WriteError, SocketTypeOK, Ordinary
  <1>13. CASE BeatFirst(c)
    BY <1>1, <1>2, <1>3, <1>13 DEF BeatFirst, SocketTypeOK, Ordinary
  <1>14. CASE Beat(c)
    BY <1>1, <1>2, <1>3, <1>14 DEF Beat, SocketTypeOK, Ordinary
  <1>15. QED
    BY <1>4, <1>5, <1>6, <1>7, <1>8, <1>9, <1>10, <1>11, <1>12, <1>13, <1>14

\* A new connection replaces the entry of its session and is not closed.
LEMMA AcceptKeeps ==
    ASSUME SocketInv, NEW c \in Sockets, NEW s \in Sessions,
           websocketHandler(c, s)
    PROVE  SocketInv'
  <1> DEFINE start == [read |-> "read", write |-> "take", beat |-> "first"]
  <1>1. start \in [Goroutines -> Places]
    OBVIOUS
  <1>2. SocketTypeOK'
    BY <1>1 DEF SocketInv, SocketTypeOK, websocketHandler
  <1>3. /\ sess' = [sess EXCEPT ![c] = s]
        /\ pool' = [pool EXCEPT ![s] = c]
        /\ at' = [at EXCEPT ![c] = start]
        /\ closed' = closed /\ notified' = notified
        /\ sess[c] = NoSession
    BY DEF websocketHandler, Accepted
  <1>4. ~closed[c] /\ \A r \in Sessions : pool[r] # c
    BY <1>3, NoSessionOK, NoSocketOK
       DEF SocketInv, CloseInv, PoolInv, Accepted, SocketTypeOK
  <1>5. PoolInv'
    <2> SUFFICES ASSUME NEW r \in Sessions, pool'[r] # NoSocket
                 PROVE  /\ sess'[pool'[r]] = r
                        /\ closed[pool'[r]] => \E g \in Goroutines :
                                                 at'[pool'[r]][g] = "forget"
      BY <1>3 DEF PoolInv
    <2>1. CASE r = s
      BY <2>1, <1>3, <1>4 DEF SocketInv, SocketTypeOK
    <2>2. CASE r # s
      <3>1. pool'[r] = pool[r] /\ pool[r] \in Sockets /\ pool[r] # c
        BY <2>2, <1>3, <1>4 DEF SocketInv, SocketTypeOK
      <3>2. sess'[pool[r]] = sess[pool[r]] /\ at'[pool[r]] = at[pool[r]]
        BY <3>1, <1>3 DEF SocketInv, SocketTypeOK
      <3>3. QED
        BY <3>1, <3>2 DEF SocketInv, PoolInv
    <2>3. QED
      BY <2>1, <2>2
  <1>6. CloseInv'
    <2> SUFFICES ASSUME NEW b \in Sockets
                 PROVE  /\ sess'[b] = NoSession =>
                             /\ \A h \in Goroutines : at'[b][h] = "none"
                             /\ ~closed[b]
                        /\ at'[b]["write"] = "done" => closed[b]
                        /\ \A h \in Goroutines :
                             at'[b][h] \in {"forget", "notify"} => closed[b]
                        /\ closed[b] =>
                             \/ b \in notified
                             \/ \E h \in Goroutines :
                                  at'[b][h] \in {"forget", "notify"}
      BY <1>3 DEF CloseInv, Accepted
    <2>1. CASE b = c
      BY <2>1, <1>3, <1>4, NoSessionOK DEF SocketInv, SocketTypeOK
    <2>2. CASE b # c
      <3>1. sess'[b] = sess[b] /\ at'[b] = at[b]
        BY <2>2, <1>3 DEF SocketInv, SocketTypeOK
      <3>2. QED
        BY <3>1 DEF SocketInv, CloseInv, Accepted
    <2>3. QED
      BY <2>1, <2>2
  <1>7. QED
    BY <1>2, <1>5, <1>6 DEF SocketInv

\* Closing closeChan brings the goroutine to the removal.
LEMMA ShutKeeps ==
    ASSUME SocketInv, NEW c \in Sockets, NEW g \in Goroutines, CloseShut(c, g)
    PROVE  SocketInv'
  <1>1. /\ Goto(c, g, "forget") /\ at[c][g] = "shut"
        /\ closed' = [closed EXCEPT ![c] = TRUE]
        /\ sess' = sess /\ pool' = pool /\ notified' = notified
    BY DEF CloseShut
  <1>2. /\ at' \in [Sockets -> [Goroutines -> Places]]
        /\ at'[c][g] = "forget"
        /\ \A b \in Sockets, h \in Goroutines :
             (b # c \/ h # g) => at'[b][h] = at[b][h]
    BY <1>1, GotoMoves DEF SocketInv
  <1>3. SocketTypeOK'
    BY <1>1, <1>2 DEF SocketInv, SocketTypeOK, CloseShut
  <1>4. PoolInv'
    <2> SUFFICES ASSUME NEW s \in Sessions, pool[s] # NoSocket
                 PROVE  /\ sess[pool[s]] = s
                        /\ closed'[pool[s]] => \E h \in Goroutines :
                                                 at'[pool[s]][h] = "forget"
      BY <1>1 DEF PoolInv
    <2>1. pool[s] \in Sockets /\ sess[pool[s]] = s
      BY DEF SocketInv, SocketTypeOK, PoolInv
    <2>2. CASE pool[s] = c
      BY <2>1, <2>2, <1>2
    <2>3. CASE pool[s] # c
      <3>1. closed'[pool[s]] = closed[pool[s]]
        BY <2>1, <2>3, <1>1 DEF SocketInv, SocketTypeOK
      <3>2. QED
        BY <3>1, <2>1, <2>3, <1>2 DEF SocketInv, PoolInv
    <2>4. QED
      BY <2>2, <2>3
  <1>5. CloseInv'
    <2> SUFFICES ASSUME NEW b \in Sockets
                 PROVE  /\ sess[b] = NoSession =>
                             /\ \A h \in Goroutines : at'[b][h] = "none"
                             /\ ~closed'[b]
                        /\ at'[b]["write"] = "done" => closed'[b]
                        /\ \A h \in Goroutines :
                             at'[b][h] \in {"forget", "notify"} => closed'[b]
                        /\ closed'[b] =>
                             \/ b \in notified
                             \/ \E h \in Goroutines :
                                  at'[b][h] \in {"forget", "notify"}
      BY <1>1 DEF CloseInv, Accepted
    <2>1. CASE b = c
      <3>1. closed'[b] /\ sess[b] # NoSession
        BY <2>1, <1>1 DEF SocketInv, SocketTypeOK, CloseInv, Accepted
      <3>2. QED
        BY <3>1, <2>1, <1>2
    <2>2. CASE b # c
      <3>1. closed'[b] = closed[b]
        BY <2>2, <1>1 DEF SocketInv, SocketTypeOK
      <3>2. \A h \in Goroutines : at'[b][h] = at[b][h]
        BY <2>2, <1>2
      <3>3. QED
        BY <3>1, <3>2 DEF SocketInv, CloseInv, Accepted
    <2>3. QED
      BY <2>1, <2>2
  <1>6. QED
    BY <1>3, <1>4, <1>5 DEF SocketInv

\* After the removal no entry of the session is left.
LEMMA ForgetKeeps ==
    ASSUME SocketInv, NEW c \in Sockets, NEW g \in Goroutines, CloseForget(c, g)
    PROVE  SocketInv'
  <1>1. /\ Goto(c, g, "notify") /\ at[c][g] = "forget"
        /\ pool' = [pool EXCEPT ![sess[c]] = NoSocket]
        /\ sess' = sess /\ closed' = closed /\ notified' = notified
    BY DEF CloseForget
  <1>2. /\ at' \in [Sockets -> [Goroutines -> Places]]
        /\ at'[c][g] = "notify"
        /\ \A b \in Sockets, h \in Goroutines :
             (b # c \/ h # g) => at'[b][h] = at[b][h]
    BY <1>1, GotoMoves DEF SocketInv
  <1>3. SocketTypeOK'
    BY <1>1, <1>2 DEF SocketInv, SocketTypeOK, CloseForget
  <1>4. PoolInv'
    <2> SUFFICES ASSUME NEW s \in Sessions, pool'[s] # NoSocket
                 PROVE  /\ sess[pool'[s]] = s
                        /\ closed[pool'[s]] => \E h \in Goroutines :
                                                 at'[pool'[s]][h] = "forget"
      BY <1>1 DEF PoolInv
    <2>1. pool'[s] = pool[s] /\ s # sess[c] /\ pool[s] \in Sockets
      BY <1>1 DEF SocketInv, SocketTypeOK
    <2>2. sess[pool[s]] = s /\ pool[s] # c
      BY <2>1 DEF SocketInv, PoolInv
    <2>3. QED
      BY <2>1, <2>2, <1>2 DEF SocketInv, PoolInv
  <1>5. CloseInv'
    <2> SUFFICES ASSUME NEW b \in Sockets
                 PROVE  /\ sess[b] = NoSession =>
                             /\ \A h \in Goroutines : at'[b][h] = "none"
                             /\ ~closed[b]
                        /\ at'[b]["write"] = "done" => closed[b]
                        /\ \A h \in Goroutines :
                             at'[b][h] \in {"forget", "notify"} => closed[b]
                        /\ closed[b] =>
                             \/ b \in notified
                             \/ \E h \in Goroutines :
                                  at'[b][h] \in {"forget", "notify"}
      BY <1>1 DEF CloseInv, Accepted
    <2>1. CASE b = c
      <3>1. closed[b] /\ sess[b] # NoSession
        BY <2>1, <1>1 DEF SocketInv, CloseInv, Accepted
      <3>2. QED
        BY <3>1, <2>1, <1>2
    <2>2. CASE b # c
      BY <2>2, <1>2 DEF SocketInv, CloseInv, Accepted
    <2>3. QED
      BY <2>1, <2>2
  <1>6. QED
    BY <1>3, <1>4, <1>5 DEF SocketInv

\* The return of Close leaves a closed connection that was announced.
LEMMA NotifyKeeps ==
    ASSUME SocketInv, NEW c \in Sockets, NEW g \in Goroutines, CloseNotify(c, g)
    PROVE  SocketInv'
  <1>1. /\ Goto(c, g, then[c][g]) /\ at[c][g] = "notify"
        /\ notified' = notified \cup {c}
        /\ then' = [then EXCEPT ![c][g] = "done"]
        /\ sess' = sess /\ closed' = closed /\ pool' = pool
    BY DEF CloseNotify
  <1>2. then[c][g] \in {"read", "beat", "done"}
    BY DEF SocketInv, SocketTypeOK
  <1>3. /\ at' \in [Sockets -> [Goroutines -> Places]]
        /\ at'[c][g] = then[c][g]
        /\ \A b \in Sockets, h \in Goroutines :
             (b # c \/ h # g) => at'[b][h] = at[b][h]
    BY <1>1, <1>2, GotoMoves DEF SocketInv
  <1>4. then' \in [Sockets -> [Goroutines -> {"read", "beat", "done"}]]
    <2>1. then \in [Sockets -> [Goroutines -> {"read", "beat", "done"}]]
      BY DEF SocketInv, SocketTypeOK
    <2>2. then' = [then EXCEPT ![c] = [@ EXCEPT ![g] = "done"]]
      BY <2>1, <1>1
    <2>3. [then[c] EXCEPT ![g] = "done"]
            \in [Goroutines -> {"read", "beat", "done"}]
      BY <2>1
    <2>4. QED
      BY <2>1, <2>2, <2>3
  <1>5. SocketTypeOK'
    BY <1>1, <1>3, <1>4 DEF SocketInv, SocketTypeOK, CloseNotify
  <1>6. PoolInv'
    <2> SUFFICES ASSUME NEW s \in Sessions, pool[s] # NoSocket
                 PROVE  /\ sess[pool[s]] = s
                        /\ closed[pool[s]] => \E h \in Goroutines :
                                                at'[pool[s]][h] = "forget"
      BY <1>1 DEF PoolInv
    <2>1. pool[s] \in Sockets
      BY DEF SocketInv, SocketTypeOK
    <2>2. QED
      BY <2>1, <1>1, <1>3 DEF SocketInv, PoolInv
  <1>7. CloseInv'
    <2> SUFFICES ASSUME NEW b \in Sockets
                 PROVE  /\ sess[b] = NoSession =>
                             /\ \A h \in Goroutines : at'[b][h] = "none"
                             /\ ~closed[b]
                        /\ at'[b]["write"] = "done" => closed[b]
                        /\ \A h \in Goroutines :
                             at'[b][h] \in {"forget", "notify"} => closed[b]
                        /\ closed[b] =>
                             \/ b \in notified'
                             \/ \E h \in Goroutines :
                                  at'[b][h] \in {"forget", "notify"}
      BY <1>1 DEF CloseInv, Accepted
    <2>1. CASE b = c
      <3>1. closed[b] /\ sess[b] # NoSession /\ b \in notified'
        BY <2>1, <1>1 DEF SocketInv, CloseInv, Accepted
      <3>2. QED
        BY <3>1
    <2>2. CASE b # c
      BY <2>2, <1>1, <1>3 DEF SocketInv, CloseInv, Accepted
    <2>3. QED
      BY <2>1, <2>2
  <1>8. QED
    BY <1>5, <1>6, <1>7 DEF SocketInv

\* A step that leaves the pool, the flags and the goroutines alone.
LEMMA FramedKeeps ==
    ASSUME SocketInv, UNCHANGED <<sess, pool, closed, at, notified>>
    PROVE  PoolInv' /\ CloseInv'
  BY DEF SocketInv, PoolInv, CloseInv, Accepted

\* Every step keeps the inductive invariant.
THEOREM SocketInvariance == SocketSpec => []SocketInv
  <1>1. SocketInit => SocketInv
    <2> SUFFICES ASSUME SocketInit PROVE SocketInv
      OBVIOUS
    <2>1. SocketTypeOK
      BY OutCapOK DEF SocketInit, SocketTypeOK
    <2>2. PoolInv
      BY DEF SocketInit, PoolInv
    <2>3. CloseInv
      BY DEF SocketInit, CloseInv, Accepted
    <2>4. QED
      BY <2>1, <2>2, <2>3 DEF SocketInv
  <1>2. SocketInv /\ [SocketNext]_socketVars => SocketInv'
    <2> SUFFICES ASSUME SocketInv, [SocketNext]_socketVars PROVE SocketInv'
      OBVIOUS
    <2>1. ASSUME NEW c \in Sockets, NEW s \in Sessions, websocketHandler(c, s)
          PROVE  SocketInv'
      BY <2>1, AcceptKeeps
    <2>2. ASSUME NEW c \in Sockets, NEW g \in Goroutines, CloseStep(c, g)
          PROVE  SocketInv'
      BY <2>2, ShutKeeps, ForgetKeeps, NotifyKeeps DEF CloseStep
    <2>3. ASSUME NEW c \in Sockets,
                 \/ ReadStop(c) \/ ReadMessage(c) \/ ReadPing(c) \/ ReadError(c)
                 \/ read(c) \/ readRespond(c)
                 \/ WriteTake(c) \/ WriteMessage(c) \/ WriteError(c)
                 \/ BeatFirst(c) \/ Beat(c)
          PROVE  SocketInv'
      BY <2>3, GoroutineSteps, OrdinaryKeeps DEF SocketInv
    <2>4. ASSUME NEW c \in Sockets, Drop(c) PROVE SocketInv'
      <3>1. SocketTypeOK'
        BY <2>4 DEF SocketInv, SocketTypeOK, Drop
      <3>2. QED
        BY <3>1, <2>4, FramedKeeps DEF SocketInv, Drop
    <2>5. ASSUME NEW s \in Sessions, SendRaw(s) PROVE SocketInv'
      <3>1. SocketTypeOK'
        BY <2>5 DEF SocketInv, SocketTypeOK, SendRaw
      <3>2. QED
        BY <3>1, <2>5, FramedKeeps DEF SocketInv, SendRaw
    <2>6. CASE SendRawWrite
      <3>1. sender \in Sockets
        BY <2>6 DEF SocketInv, SocketTypeOK, SendRawWrite
      <3>2. out' \in [Sockets -> 0 .. OutCap]
        BY <2>6, <3>1, EnqueueFits DEF SocketInv, SocketTypeOK, SendRawWrite
      <3>3. SocketTypeOK'
        BY <2>6, <3>2 DEF SocketInv, SocketTypeOK, SendRawWrite
      <3>4. QED
        BY <3>3, <2>6, FramedKeeps DEF SocketInv, SendRawWrite
    <2>7. CASE UNCHANGED socketVars
      <3>1. SocketTypeOK'
        BY <2>7 DEF SocketInv, SocketTypeOK, socketVars
      <3>2. QED
        BY <3>1, <2>7, FramedKeeps DEF SocketInv, socketVars
    <2>8. QED
      BY <2>1, <2>2, <2>3, <2>4, <2>5, <2>6, <2>7 DEF SocketNext
  <1>3. QED
    BY <1>1, <1>2, PTL DEF SocketSpec

\* The variables of the pool and of the connections keep their types.
THEOREM PoolTypes == SocketSpec => []SocketTypeOK
  <1>1. SocketInv => SocketTypeOK
    BY DEF SocketInv
  <1>2. QED
    BY <1>1, SocketInvariance, PTL

\* A connection whose goroutines have all ended is out of the pool and its
\* end was announced, whichever of them called Close and however often.
THEOREM EndedConnections == SocketSpec => []EndedForgotten
  <1>1. SocketInv => EndedForgotten
    <2> SUFFICES ASSUME SocketInv, NEW c \in Sockets, Ended(c)
                 PROVE  pool[sess[c]] # c /\ c \in notified
      BY DEF EndedForgotten
    <2>1. sess[c] \in Sessions
      BY DEF SocketInv, SocketTypeOK, Ended, Accepted
    <2>2. \A g \in Goroutines : at[c][g] = "done"
      BY DEF Ended
    <2>3. closed[c]
      BY <2>2 DEF SocketInv, CloseInv
    <2>4. c \in notified
      BY <2>2, <2>3 DEF SocketInv, CloseInv
    <2>5. pool[sess[c]] # c
      BY <2>1, <2>2, <2>3, NoSocketOK DEF SocketInv, PoolInv
    <2>6. QED
      BY <2>4, <2>5
  <1>2. QED
    BY <1>1, SocketInvariance, PTL
=============================================================================
