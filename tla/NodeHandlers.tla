---------------------------- MODULE NodeHandlers ----------------------------
(***************************************************************************)
(* The handlers of one process: those of the signals (WebrtcPool), of the  *)
(* chat messages for a client that is here (P2pChat) and of the requests   *)
(* about rooms (RoomService) run as goroutines beside each other, and      *)
(* share the process.  None of them recovers a panic, so that one of a     *)
(* signal's or a room's handler ends the others under way.  A chat for a   *)
(* client elsewhere is handed on by the nodes (PeerRelay).  The variable   *)
(* load says which of these a behaviour is about.                          *)
(***************************************************************************)
EXTENDS WebrtcPool, P2pChat, RoomService, PeerRelay

CONSTANT MaxBoth  \* bound on the signals of a process that also gets chats

VARIABLE load  \* what a behaviour's peers send

vars == <<up, load, pairVars, chatVars, roomVars, hopVars>>

Loads == {"signals", "chats", "both", "rooms", "hops"}

\* The types of the variables.
TypeOK ==
    /\ load \in Loads
    /\ PoolTypeOK /\ ChatTypeOK /\ RoomTypeOK /\ HopTypeOK

Init ==
    /\ load \in Loads
    /\ PoolInit /\ ChatInit /\ RoomInit /\ HopInit
    /\ load \in {"chats", "rooms", "hops"} => ice
    /\ load # "rooms" => keys
    /\ load # "hops" => hop.at = CHOOSE n \in Nodes : TRUE

----------------------------------------------------------------------------
\* The pool's steps; those that stop the process end the other handlers too.
Pool(A) ==
    /\ up /\ A
    /\ IF up' THEN UNCHANGED <<chatVars, roomVars>> ELSE StopChats /\ StopManage
    /\ UNCHANGED <<load, hopVars>>

Chatting(A) == up /\ A /\ UNCHANGED <<up, load, pairVars, roomVars, hopVars>>
Managing(A) == up /\ A /\ UNCHANGED <<up, load, pairVars, chatVars, hopVars>>

SignalArrives ==
    /\ load \in {"signals", "both"} /\ (load = "both" => signals < MaxBoth)
    /\ Pool(\E s \in Slots : Receive(s))

ChatArrives ==
    /\ load \in {"chats", "both"}
    /\ Chatting(\E c \in Chats : ReceiveChat(c))

ManageArrives == load = "rooms" /\ Managing(\E r \in Asks : ReceiveManage(r))

HandleSignal(s) == Pool(HandlerStep(s))
HandleChat(c) == Chatting(ChatStep(c))

\* A request with fewer names than identities stops the process.
HandleManage(r) ==
    \/ Managing(ManageStep(r))
    \/ NamesMissing(r) /\ Pool(Stop)

MapsRace == Pool(RaceStop)
TokensExpire == load = "chats" /\ Chatting(Expire)
ProcessRestarts == Restart /\ UNCHANGED <<load, chatVars, roomVars, hopVars>>

\* What the client and the nodes do, and a node that hands the chat on.
HopsGoOn ==
    /\ load = "hops" /\ HopStep
    /\ UNCHANGED <<up, load, pairVars, chatVars, roomVars>>

HandleHop == HandOn /\ UNCHANGED <<up, load, pairVars, chatVars, roomVars>>

Next ==
    \/ SignalArrives \/ ChatArrives \/ ManageArrives
    \/ \E s \in Slots : HandleSignal(s)
    \/ \E c \in Chats : HandleChat(c)
    \/ \E r \in Asks : HandleManage(r)
    \/ MapsRace \/ TokensExpire \/ ProcessRestarts
    \/ HopsGoOn \/ HandleHop

\* A goroutine of a chat or a room that can run on does, whether or not those
\* of the signals do; what the peers, the vendor, the servers and the operator
\* do is left open.
Spec ==
    /\ Init /\ [][Next]_vars
    /\ \A c \in Chats : WF_vars(HandleChat(c))
    /\ \A r \in Asks : WF_vars(HandleManage(r))
    /\ WF_vars(HandleHop)

----------------------------------------------------------------------------
\* What makes a process stop: a signal, or a request without its names.
Panicked == signals > 0 \/ \E r \in Asks : asks[r].names < asks[r].people

\* Every chat that is received is handled to its end, with its push, every
\* request about rooms is answered, or their process stops, which only a
\* signal or another such request can make it do; and a chat that is handed
\* on from node to node comes to its end.
HandlersEnd ==
    /\ \A c \in Chats :
          chats[c].pc = "deliver" ~>
              chats[c].pc = "done" \/ (chats[c].pc = "lost" /\ Panicked)
    /\ \A r \in Asks :
          asks[r].pc = "call" ~>
              asks[r].pc = "done" \/ (asks[r].pc = "lost" /\ Panicked)
    /\ HopsEnd

----------------------------------------------------------------------------
\* The inductive invariant; what the handlers share is the process alone.
NodeInv == load \in Loads /\ SignalInv /\ ChatInv /\ RoomInv /\ HopInv
=============================================================================
