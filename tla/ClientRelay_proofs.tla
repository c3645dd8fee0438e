------------------------- MODULE ClientRelay_proofs -------------------------
(* Proofs that a chat message of the relay is never unaccounted for, for   *)
(* any sessions, messages and resend slots.                                *)
EXTENDS ClientRelay, TLAPS

\* A record that is up names a session.
UpHasSession == rec.up => rec.session # NoSession

\* A HandleDisconnected that runs is of a session.
DiscHasSession == disc.pc # "none" => disc.session # NoSession

\* The inductive invariant.
IInv == TypeOK /\ UpHasSession /\ DiscHasSession /\ Accounted

\* Where a message may be.
Somewhere(m) ==
    \/ m \in delivered \/ m \in stored \/ m \in lost
    \/ InHand(m)
    \/ \E s \in Sessions : m \in outbox[s]

\* The variables that hold messages keep their types.
ChatOK ==
    /\ sends \subseteq Send
    /\ relays \in [Relays -> {"none", "find", "delete"}]
    /\ outbox \in [Sessions -> SUBSET Msgs]
    /\ stored \subseteq Msgs /\ submitted \subseteq Msgs
    /\ delivered \subseteq Msgs /\ lost \subseteq Msgs

\* The variables of the client and its record keep their types.
PresenceOK ==
    /\ conn \in [Sessions -> {"new", "open", "gone", "closed"}]
    /\ calls \in [Sessions -> 0 .. MaxCalls]
    /\ clientIds \subseteq Sessions
    /\ rec \in [session : Sessions \cup {NoSession}, up : BOOLEAN]
    /\ reader \in [Sessions -> [pc : {"idle", "store", "read", "write", "put"},
                                connect : BOOLEAN]]
    /\ disc \in [session : Sessions \cup {NoSession},
                 pc : {"none", "load", "read", "write"}]
    /\ crashes \in 0 .. MaxCrashes

----------------------------------------------------------------------------
(* What steps have in common.                                              *)

\* TypeOK is made of its two halves.
LEMMA TypeParts == TypeOK <=> ChatOK /\ PresenceOK
BY DEF TypeOK, ChatOK, PresenceOK

\* Accounted says of every message submitted where it is.
LEMMA AccountedIs == Accounted <=> \A m \in submitted : Somewhere(m)
BY DEF Accounted, Somewhere

\* A goroutine that moves on is a goroutine still (sender/default.go:136-152).
LEMMA StepType ==
    ASSUME ChatOK, NEW g \in sends, NEW pc, NEW s, Step(g, pc, s),
           \/ pc = "insert" /\ s = NoSession
           \/ pc \in {"forward", "write"} /\ s \in Sessions
    PROVE  /\ sends' \subseteq Send
           /\ \A m : InHand(m) => InHand(m)'
<1> DEFINE h == [g EXCEPT !.pc = pc, !.session = s]
<1>1. g \in Send
  BY DEF ChatOK
<1>2. h \in Send /\ h.msg = g.msg
  BY <1>1 DEF Send
<1>3. sends' = (sends \ {g}) \cup {h}
  BY DEF Step
<1>4. sends' \subseteq Send
  BY <1>2, <1>3 DEF ChatOK
<1>5. ASSUME NEW m, InHand(m) PROVE InHand(m)'
  <2> HIDE DEF h
  <2>1. PICK k \in sends : k.msg = m
    BY <1>5 DEF InHand
  <2> QED BY <2>1, <1>2, <1>3 DEF InHand
<1> QED BY <1>4, <1>5

\* A step that leaves the messages alone keeps their part of the invariant.
LEMMA ChatUnchanged ==
    ASSUME IInv, UNCHANGED chat
    PROVE  ChatOK' /\ Accounted'
<1>1. ChatOK'
  BY TypeParts DEF IInv, chat, ChatOK
<1>2. Accounted'
  BY DEF IInv, chat, Accounted, InHand
<1> QED BY <1>1, <1>2

\* A step that leaves the client and its record alone keeps theirs.
LEMMA PresenceUnchanged ==
    ASSUME IInv, UNCHANGED <<client, presence, reader, disc, crashes>>
    PROVE  PresenceOK' /\ UpHasSession' /\ DiscHasSession'
<1>1. PresenceOK'
  BY TypeParts DEF IInv, client, presence, PresenceOK
<1>2. UpHasSession' /\ DiscHasSession'
  BY DEF IInv, client, presence, UpHasSession, DiscHasSession
<1> QED BY <1>1, <1>2

----------------------------------------------------------------------------
(* The connections and the record.                                         *)

\* The invariant holds initially.
LEMMA InitIInv == Init => IInv
<1> SUFFICES ASSUME Init PROVE IInv
  OBVIOUS
<1>1. ChatOK
  BY DEF Init, ChatOK
<1>2. PresenceOK
  BY BoundsOK DEF Init, PresenceOK, Idle, NoDisc
<1>3. UpHasSession /\ DiscHasSession /\ Accounted
  BY DEF Init, UpHasSession, DiscHasSession, NoDisc, Accounted
<1> QED BY <1>1, <1>2, <1>3, TypeParts DEF IInv

\* Opening and leaving a connection keep the invariant (server.go:229-242).
LEMMA ConnectionKeeps ==
    ASSUME IInv, NEW s \in Sessions, Open(s) \/ Leave(s)
    PROVE  IInv'
<1>1. ChatOK' /\ Accounted'
  BY ChatUnchanged DEF Open, Leave
<1>2. PresenceOK'
  BY TypeParts DEF IInv, PresenceOK, Open, Leave, presence
<1>3. UpHasSession' /\ DiscHasSession'
  BY DEF IInv, UpHasSession, DiscHasSession, Open, Leave, presence
<1> QED BY <1>1, <1>2, <1>3 DEF IInv, TypeOK, ChatOK, PresenceOK

\* Close counts what was in outChan as lost (server.go:293-308).
LEMMA CloseKeeps ==
    ASSUME IInv, NEW s \in Sessions, CloseConnection(s)
    PROVE  IInv'
<1>1. ChatOK'
  BY TypeParts DEF IInv, ChatOK, CloseConnection
<1>2. calls[s] \in 0 .. MaxCalls /\ calls[s] + 1 \in 0 .. MaxCalls
  BY TypeParts, BoundsOK DEF IInv, PresenceOK, CloseConnection
<1>3. PresenceOK'
  BY <1>2, TypeParts DEF IInv, PresenceOK, CloseConnection, presence
<1>4. UpHasSession' /\ DiscHasSession'
  BY NoSessionOK DEF IInv, UpHasSession, DiscHasSession, CloseConnection,
                     presence
<1>5. ASSUME NEW m \in submitted' PROVE Somewhere(m)'
  <2>1. Somewhere(m)
    BY <1>5, AccountedIs DEF IInv, CloseConnection
  <2>2. CASE \E r \in Sessions : m \in outbox[r]
    <3>1. PICK r \in Sessions : m \in outbox[r]
      BY <2>2
    <3>2. CASE r = s
      BY <3>1, <3>2 DEF CloseConnection, Somewhere
    <3>3. CASE r # s
      BY <3>1, <3>3, TypeParts DEF CloseConnection, Somewhere, IInv, ChatOK
    <3> QED BY <3>2, <3>3
  <2>3. CASE ~\E r \in Sessions : m \in outbox[r]
    BY <2>1, <2>3 DEF CloseConnection, Somewhere, InHand
  <2> QED BY <2>2, <2>3
<1>6. Accounted'
  BY <1>5, AccountedIs DEF Somewhere, Accounted, InHand
<1> QED BY <1>1, <1>3, <1>4, <1>6 DEF IInv, TypeOK, ChatOK, PresenceOK

\* Delivering a message only moves it (server.go:380-393).
LEMMA DeliverKeeps ==
    ASSUME IInv, NEW s \in Sessions, NEW m \in Msgs, Deliver(s, m)
    PROVE  IInv'
<1>1. ChatOK'
  BY TypeParts DEF IInv, ChatOK, Deliver
<1>2. PresenceOK' /\ UpHasSession' /\ DiscHasSession'
  BY PresenceUnchanged DEF Deliver
<1>3. ASSUME NEW n \in submitted' PROVE Somewhere(n)'
  <2>1. Somewhere(n)
    BY <1>3, AccountedIs DEF IInv, Deliver
  <2>2. CASE \E r \in Sessions : n \in outbox[r]
    <3>1. PICK r \in Sessions : n \in outbox[r]
      BY <2>2
    <3>2. CASE n = m
      BY <3>2 DEF Deliver, Somewhere
    <3>3. CASE n # m
      <4>1. n \in outbox'[r]
        BY <3>1, <3>3, TypeParts DEF Deliver, IInv, ChatOK
      <4> QED BY <4>1 DEF Somewhere
    <3> QED BY <3>2, <3>3
  <2>3. CASE ~\E r \in Sessions : n \in outbox[r]
    BY <2>1, <2>3 DEF Deliver, Somewhere, InHand
  <2> QED BY <2>2, <2>3
<1>4. Accounted'
  BY <1>3 DEF Somewhere, Accounted, InHand
<1> QED BY <1>1, <1>2, <1>4 DEF IInv, TypeOK, ChatOK, PresenceOK

\* A handler of the client moves on (handler.go:12-35).
LEMMA ReaderKeeps ==
    ASSUME IInv, NEW s \in Sessions,
           \/ \E c \in BOOLEAN : ReceiveRaw(s, c)
           \/ UpdateStore(s) \/ UpdateRead(s) \/ UpdateFails(s)
           \/ ConnectFails(s)
    PROVE  IInv'
<1>1. ChatOK' /\ Accounted'
  BY ChatUnchanged DEF ReceiveRaw, UpdateStore, UpdateRead, UpdateFails,
                       ConnectFails
<1>2. reader' \in [Sessions -> [pc : {"idle", "store", "read", "write", "put"},
                                connect : BOOLEAN]]
  <2>1. reader \in [Sessions -> [pc : {"idle", "store", "read", "write", "put"},
                                 connect : BOOLEAN]]
    BY TypeParts DEF IInv, PresenceOK
  <2>2. \/ \E c \in BOOLEAN :
             reader' = [reader EXCEPT ![s] = [pc |-> "store", connect |-> c]]
        \/ At(s, "read") \/ At(s, "write") \/ Dispatch(s)
        \/ reader' = [reader EXCEPT ![s] = Idle]
    BY DEF ReceiveRaw, UpdateStore, UpdateRead, UpdateFails, ConnectFails
  <2>3. CASE \E c \in BOOLEAN :
             reader' = [reader EXCEPT ![s] = [pc |-> "store", connect |-> c]]
    BY <2>1, <2>3
  <2>4. CASE At(s, "read") \/ At(s, "write")
    BY <2>1, <2>4 DEF At
  <2>5. CASE Dispatch(s)
    BY <2>1, <2>5 DEF Dispatch, Idle
  <2>6. CASE reader' = [reader EXCEPT ![s] = Idle]
    BY <2>1, <2>6 DEF Idle
  <2> QED BY <2>2, <2>3, <2>4, <2>5, <2>6
<1>3. PresenceOK'
  BY <1>2, TypeParts DEF IInv, PresenceOK, ReceiveRaw, UpdateStore, UpdateRead,
                         UpdateFails, ConnectFails, client, presence
<1>4. UpHasSession' /\ DiscHasSession'
  BY DEF IInv, UpHasSession, DiscHasSession, ReceiveRaw, UpdateStore, UpdateRead,
         UpdateFails, ConnectFails, presence
<1> QED BY <1>1, <1>3, <1>4 DEF IInv, TypeOK, ChatOK, PresenceOK

\* UpdatePeerClient writes the session of its message (handler.go:36-52).
LEMMA UpdateWriteKeeps ==
    ASSUME IInv, NEW s \in Sessions, UpdateWrite(s)
    PROVE  IInv'
<1>1. ChatOK' /\ Accounted'
  BY ChatUnchanged DEF UpdateWrite
<1>2. PresenceOK'
  BY TypeParts DEF IInv, PresenceOK, UpdateWrite, Dispatch, Idle, client
<1>3. UpHasSession' /\ DiscHasSession'
  BY NoSessionOK DEF IInv, UpHasSession, DiscHasSession, UpdateWrite
<1> QED BY <1>1, <1>2, <1>3 DEF IInv, TypeOK, ChatOK, PresenceOK

\* CONNECT writes its session and starts a resend (connect.go:31-63).
LEMMA ConnectPutKeeps ==
    ASSUME IInv, NEW s \in Sessions, NEW i \in Relays, ConnectPut(s, i)
    PROVE  IInv'
<1>1. ChatOK'
  BY TypeParts DEF IInv, ChatOK, ConnectPut
<1>2. Accounted'
  BY DEF IInv, Accounted, InHand, ConnectPut
<1>3. PresenceOK'
  BY TypeParts DEF IInv, PresenceOK, ConnectPut, Idle, client
<1>4. UpHasSession' /\ DiscHasSession'
  BY NoSessionOK DEF IInv, UpHasSession, DiscHasSession, ConnectPut
<1> QED BY <1>1, <1>2, <1>3, <1>4 DEF IInv, TypeOK, ChatOK, PresenceOK

\* HandleDisconnected touches the record and nothing in the relay
\* (handler.go:54-83).
LEMMA DisconnectKeeps ==
    ASSUME IInv,
           DisconnectLoad \/ DisconnectRead \/ DisconnectWrite \/ DisconnectFails
    PROVE  IInv'
<1>1. ChatOK' /\ Accounted'
  BY ChatUnchanged DEF DisconnectLoad, DisconnectRead, DisconnectWrite,
                       DisconnectFails
<1>2. PresenceOK'
  <2>1. PresenceOK
    BY TypeParts DEF IInv
  <2>2. CASE DisconnectLoad
    BY <2>1, <2>2 DEF PresenceOK, DisconnectLoad, NoDisc, client
  <2>3. CASE DisconnectRead
    BY <2>1, <2>3 DEF PresenceOK, DisconnectRead, NoDisc, client, presence
  <2>4. CASE DisconnectWrite
    BY <2>1, <2>4 DEF PresenceOK, DisconnectWrite, NoDisc, client
  <2>5. CASE DisconnectFails
    BY <2>1, <2>5 DEF PresenceOK, DisconnectFails, NoDisc, client, presence
  <2> QED BY <2>2, <2>3, <2>4, <2>5
<1>3. UpHasSession' /\ DiscHasSession'
  BY TypeParts DEF IInv, PresenceOK, UpHasSession, DiscHasSession, DisconnectLoad,
         DisconnectRead, DisconnectWrite, DisconnectFails, NoDisc, presence
<1> QED BY <1>1, <1>2, <1>3 DEF IInv, TypeOK, ChatOK, PresenceOK

----------------------------------------------------------------------------
(* The messages.                                                           *)

\* A new message is in the hands of its goroutine (dispatch.go:16-25).
LEMMA SubmitKeeps ==
    ASSUME IInv, NEW m \in Msgs, Submit(m)
    PROVE  IInv'
<1> DEFINE h == [msg |-> m, by |-> 0, pc |-> "lookup", session |-> NoSession]
<1>1. h \in Send /\ h.msg = m /\ sends' = sends \cup {h}
  BY DEF Send, Submit
<1>2. ChatOK'
  <2> HIDE DEF h
  <2> QED BY <1>1, TypeParts DEF IInv, ChatOK, Submit
<1>3. PresenceOK' /\ UpHasSession' /\ DiscHasSession'
  BY PresenceUnchanged DEF Submit
<1>4. ASSUME NEW n \in submitted' PROVE Somewhere(n)'
  <2> HIDE DEF h
  <2>1. CASE n = m
    BY <1>1, <2>1 DEF Somewhere, InHand
  <2>2. CASE n # m
    <3>1. Somewhere(n)
      BY <1>4, <2>2, AccountedIs DEF IInv, Submit
    <3>2. InHand(n) => InHand(n)'
      BY <1>1 DEF InHand
    <3> QED BY <3>1, <3>2 DEF Somewhere, Submit
  <2> QED BY <2>1, <2>2
<1>5. Accounted'
  BY <1>4 DEF Somewhere, Accounted, InHand
<1> QED BY <1>2, <1>3, <1>5 DEF IInv, TypeOK, ChatOK, PresenceOK

\* A goroutine that moves on, nothing else, keeps the invariant.
LEMMA MoveKeeps ==
    ASSUME IInv, NEW g \in sends, NEW pc, NEW s, Step(g, pc, s),
           \/ pc = "insert" /\ s = NoSession
           \/ pc \in {"forward", "write"} /\ s \in Sessions,
           UNCHANGED <<client, presence, reader, disc, relays, outbox, stored,
                       submitted, delivered, lost, crashes>>
    PROVE  IInv'
<1>1. ChatOK
  BY TypeParts DEF IInv
<1>2. sends' \subseteq Send /\ \A m : InHand(m) => InHand(m)'
  BY <1>1, StepType
<1>3. ChatOK'
  BY <1>1, <1>2 DEF ChatOK
<1>4. PresenceOK' /\ UpHasSession' /\ DiscHasSession'
  BY PresenceUnchanged
<1>5. ASSUME NEW m \in submitted' PROVE Somewhere(m)'
  <2>1. Somewhere(m)
    BY <1>5, AccountedIs DEF IInv
  <2> QED BY <2>1, <1>2 DEF Somewhere
<1>6. Accounted'
  BY <1>5 DEF Somewhere, Accounted, InHand
<1> QED BY <1>3, <1>4, <1>6 DEF IInv, TypeOK, ChatOK, PresenceOK

\* Lookup finds a session or nothing (sender/default.go:172-203).
LEMMA LookupKeeps ==
    ASSUME IInv, NEW g, Lookup(g)
    PROVE  IInv'
<1>1. g \in sends
  BY DEF Lookup
<1>2. CASE rec.up
  <2>1. rec.session \in Sessions
    BY <1>2, TypeParts DEF IInv, PresenceOK, UpHasSession
  <2> QED BY <1>1, <1>2, <2>1, MoveKeeps DEF Lookup
<1>3. CASE ~rec.up
  BY <1>1, <1>3, MoveKeeps DEF Lookup
<1> QED BY <1>2, <1>3

\* The goroutine that ends with its message put away somewhere.
LEMMA PutAway ==
    ASSUME IInv, NEW g \in sends, sends' = sends \ {g}, Somewhere(g.msg)',
           \A r \in Sessions : outbox[r] \subseteq outbox'[r],
           stored \subseteq stored', lost \subseteq lost',
           UNCHANGED <<submitted, delivered>>
    PROVE  Accounted'
<1>1. ASSUME NEW m \in submitted' PROVE Somewhere(m)'
  <2>1. Somewhere(m)
    BY <1>1, AccountedIs DEF IInv
  <2>2. CASE m = g.msg
    BY <2>2
  <2>3. CASE m # g.msg
    <3>1. InHand(m) => InHand(m)'
      BY <2>3 DEF InHand
    <3> QED BY <2>1, <3>1 DEF Somewhere
  <2> QED BY <2>2, <2>3
<1> QED BY <1>1 DEF Somewhere, Accounted, InHand

\* A goroutine goes on to write to a connection of the pool, or to the table
\* (sender/default.go:71-95).
LEMMA ForwardKeeps ==
    ASSUME IInv, NEW g, ForwardPeerClient(g)
    PROVE  IInv'
<1>1. g \in sends /\ g \in Send /\ g.pc = "forward"
  BY TypeParts DEF ForwardPeerClient, IInv, ChatOK
<1>2. g.session \in Sessions
  BY <1>1 DEF Send
<1>3. CASE InPool(g.session)
  BY <1>1, <1>2, <1>3, MoveKeeps DEF ForwardPeerClient
<1>4. CASE ~InPool(g.session)
  BY <1>1, <1>4, MoveKeeps DEF ForwardPeerClient
<1> QED BY <1>3, <1>4

\* A message is put in an outChan, that of an ended connection included, or
\* goes on to the table (server.go:282-291).
LEMMA WriteKeeps ==
    ASSUME IInv, NEW g, Write(g)
    PROVE  IInv'
<1>1. g \in sends /\ g \in Send /\ g.pc = "write"
  BY TypeParts DEF Write, IInv, ChatOK
<1>2. g.session \in Sessions /\ g.msg \in Msgs
  BY <1>1 DEF Send
<1>3. CASE Step(g, "insert", NoSession) /\ UNCHANGED <<outbox, lost>>
  BY <1>1, <1>3, MoveKeeps DEF Write
<1>4. CASE /\ sends' = sends \ {g}
           /\ \/ /\ outbox' = [outbox EXCEPT ![g.session] = @ \cup {g.msg}]
                 /\ UNCHANGED lost
              \/ lost' = lost \cup {g.msg} /\ UNCHANGED outbox
  <2>1. ChatOK'
    BY <1>2, <1>4, TypeParts DEF IInv, ChatOK, Write
  <2>2. PresenceOK' /\ UpHasSession' /\ DiscHasSession'
    BY PresenceUnchanged DEF Write
  <2>3. outbox \in [Sessions -> SUBSET Msgs]
    BY TypeParts DEF IInv, ChatOK
  <2>4. g.msg \in outbox'[g.session] \/ g.msg \in lost'
    BY <1>2, <1>4, <2>3
  <2>5. /\ \A r \in Sessions : outbox[r] \subseteq outbox'[r]
        /\ lost \subseteq lost'
    BY <1>4, <2>3
  <2>6. Somewhere(g.msg)'
    BY <1>2, <2>4 DEF Somewhere
  <2>7. Accounted'
    BY <1>1, <1>4, <2>5, <2>6, PutAway DEF Write
  <2> QED BY <2>1, <2>2, <2>7 DEF IInv, TypeOK, ChatOK, PresenceOK
<1> QED BY <1>3, <1>4 DEF Write

\* The table takes the message, or it is lost (sender/default.go:110-116,162).
LEMMA InsertKeeps ==
    ASSUME IInv, NEW g, Insert(g)
    PROVE  IInv'
<1>1. g \in sends /\ g.msg \in Msgs
  BY TypeParts DEF Insert, IInv, ChatOK, Send
<1>2. ChatOK'
  BY <1>1, TypeParts DEF IInv, ChatOK, Insert
<1>3. PresenceOK' /\ UpHasSession' /\ DiscHasSession'
  BY PresenceUnchanged DEF Insert
<1>4. Somewhere(g.msg)'
  BY DEF Somewhere, Insert
<1>5. Accounted'
  BY <1>1, <1>4, PutAway DEF Insert
<1> QED BY <1>2, <1>3, <1>5 DEF IInv, TypeOK, ChatOK, PresenceOK

\* A resend starts a goroutine for each stored message (biz/default.go:13-32).
LEMMA BizFindKeeps ==
    ASSUME IInv, NEW i \in Relays, BizFind(i)
    PROVE  IInv'
<1> DEFINE H == {[msg |-> m, by |-> i, pc |-> "lookup", session |-> NoSession] :
                   m \in stored}
<1>1. stored \subseteq Msgs
  BY TypeParts DEF IInv, ChatOK
<1>2. H \subseteq Send /\ sends' = sends \cup H
  BY <1>1 DEF Send, BizFind
<1>3. ChatOK'
  <2> HIDE DEF H
  <2> QED BY <1>2, TypeParts DEF IInv, ChatOK, BizFind
<1>4. PresenceOK' /\ UpHasSession' /\ DiscHasSession'
  BY PresenceUnchanged DEF BizFind
<1>5. Accounted'
  <2> HIDE DEF H
  <2> QED BY <1>2 DEF IInv, Accounted, InHand, BizFind
<1> QED BY <1>3, <1>4, <1>5 DEF IInv, TypeOK, ChatOK, PresenceOK

\* A resend whose Find fails changes nothing (biz/default.go:17-20).
LEMMA BizFindFailsKeeps ==
    ASSUME IInv, NEW i \in Relays, BizFindFails(i)
    PROVE  IInv'
<1>1. ChatOK'
  BY TypeParts DEF IInv, ChatOK, BizFindFails
<1>2. PresenceOK' /\ UpHasSession' /\ DiscHasSession'
  BY PresenceUnchanged DEF BizFindFails
<1>3. Accounted'
  BY DEF IInv, Accounted, InHand, BizFindFails
<1> QED BY <1>1, <1>2, <1>3 DEF IInv, TypeOK, ChatOK, PresenceOK

\* What a delete removes is in the hands of a goroutine or counted as lost
\* (biz/default.go:34-52).
LEMMA DeleteKeeps ==
    ASSUME IInv, DeleteTimeout \/ \E i \in Relays : BizDelete(i)
    PROVE  IInv'
<1>1. ChatOK'
  BY TypeParts DEF IInv, ChatOK, BizDelete, DeleteTimeout
<1>2. PresenceOK' /\ UpHasSession' /\ DiscHasSession'
  BY PresenceUnchanged DEF BizDelete, DeleteTimeout
<1>3. /\ \A m \in stored : InHand(m) \/ m \in lost'
      /\ lost \subseteq lost'
      /\ UNCHANGED <<sends, outbox, submitted, delivered>>
  BY DEF BizDelete, DeleteTimeout
<1>4. Accounted'
  BY <1>3 DEF IInv, Accounted, InHand
<1> QED BY <1>1, <1>2, <1>4 DEF IInv, TypeOK, ChatOK, PresenceOK

\* A restart loses what goroutines and channels hold (peerclient.go:61-75).
LEMMA RestartKeeps ==
    ASSUME IInv, Restart
    PROVE  IInv'
<1>1. ChatOK /\ PresenceOK
  BY TypeParts DEF IInv
<1>2. lost' \subseteq Msgs
  <2>1. {g.msg : g \in sends} \subseteq Msgs
    BY <1>1 DEF ChatOK, Send
  <2>2. UNION {outbox[s] : s \in Sessions} \subseteq Msgs
    BY <1>1 DEF ChatOK
  <2> QED BY <1>1, <2>1, <2>2 DEF ChatOK, Restart
<1>3. ChatOK'
  BY <1>1, <1>2 DEF ChatOK, Restart
<1>4. crashes' \in 0 .. MaxCrashes /\ calls' \in [Sessions -> 0 .. MaxCalls]
  BY <1>1, BoundsOK DEF PresenceOK, Restart
<1>5. PresenceOK'
  BY <1>1, <1>4 DEF PresenceOK, Restart, Idle, NoDisc
<1>6. UpHasSession' /\ DiscHasSession'
  BY <1>1 DEF UpHasSession, DiscHasSession, Restart, NoDisc, PresenceOK
<1>7. ASSUME NEW m \in submitted'
      PROVE  m \in delivered' \/ m \in stored' \/ m \in lost'
  <2>1. Somewhere(m)
    BY <1>7, AccountedIs DEF IInv, Restart
  <2>2. InHand(m) => m \in lost'
    BY DEF InHand, Restart
  <2>3. (\E s \in Sessions : m \in outbox[s]) => m \in lost'
    BY DEF Restart
  <2>4. delivered' = delivered /\ stored' = stored /\ lost \subseteq lost'
    BY DEF Restart
  <2> QED BY <2>1, <2>2, <2>3, <2>4 DEF Somewhere
<1>8. Accounted'
  BY <1>7 DEF Accounted
<1> QED BY <1>3, <1>5, <1>6, <1>8 DEF IInv, TypeOK, ChatOK, PresenceOK

----------------------------------------------------------------------------
(* Theorems.                                                               *)

\* Every step keeps the invariant.
LEMMA StepIInv == IInv /\ [Next]_vars => IInv'
<1> SUFFICES ASSUME IInv, [Next]_vars PROVE IInv'
  OBVIOUS
<1>1. CASE UNCHANGED vars
  <2>1. ChatOK' /\ Accounted'
    BY <1>1, ChatUnchanged DEF vars, chat
  <2>2. PresenceOK' /\ UpHasSession' /\ DiscHasSession'
    BY <1>1, PresenceUnchanged DEF vars, client, presence
  <2> QED BY <2>1, <2>2 DEF IInv, TypeOK, ChatOK, PresenceOK
<1>2. ASSUME NEW s \in Sessions,
             \/ Open(s) \/ Leave(s) \/ CloseConnection(s)
             \/ \E m \in Msgs : Deliver(s, m)
             \/ \E c \in BOOLEAN : ReceiveRaw(s, c)
             \/ UpdateStore(s) \/ UpdateRead(s) \/ UpdateWrite(s)
             \/ UpdateFails(s) \/ ConnectFails(s)
             \/ \E i \in Relays : ConnectPut(s, i)
      PROVE  IInv'
  BY <1>2, ConnectionKeeps, CloseKeeps, DeliverKeeps, ReaderKeeps,
     UpdateWriteKeeps, ConnectPutKeeps
<1>3. CASE DisconnectLoad \/ DisconnectRead \/ DisconnectWrite
              \/ DisconnectFails
  BY <1>3, DisconnectKeeps
<1>4. CASE \E m \in Msgs : Submit(m)
  BY <1>4, SubmitKeeps
<1>5. CASE \E g \in sends :
             Lookup(g) \/ ForwardPeerClient(g) \/ Write(g) \/ Insert(g)
  BY <1>5, LookupKeeps, ForwardKeeps, WriteKeeps, InsertKeeps
<1>6. CASE \E i \in Relays : BizFind(i) \/ BizFindFails(i) \/ BizDelete(i)
  BY <1>6, BizFindKeeps, BizFindFailsKeeps, DeleteKeeps
<1>7. CASE DeleteTimeout
  BY <1>7, DeleteKeeps
<1>8. CASE Restart
  BY <1>8, RestartKeeps
<1> QED BY <1>1, <1>2, <1>3, <1>4, <1>5, <1>6, <1>7, <1>8 DEF Next

\* The inductive invariant holds in every reachable state.
THEOREM Invariance == Spec => []IInv
<1> QED BY InitIInv, StepIInv, PTL DEF Spec

\* Every variable of presence and relay keeps its type: a goroutine that
\* forwards has a session, because a record that is up names one.
THEOREM RelayTypes == Spec => []TypeOK
<1>1. IInv => TypeOK
  BY DEF IInv
<1> QED BY <1>1, Invariance, PTL

\* However presence, relay, resends, deletes and restarts interleave, and with
\* a connection that ends between its lookup and the Write, a chat message is
\* somewhere or among the named losses (sender/default.go:71-116,
\* server.go:282-291, biz/default.go:13-52).
THEOREM NothingVanishes == Spec => []Accounted
<1>1. IInv => Accounted
  BY DEF IInv
<1> QED BY <1>1, Invariance, PTL
============================================================================
