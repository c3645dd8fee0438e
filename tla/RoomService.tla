---------------------------- MODULE RoomService ----------------------------
(***************************************************************************)
(* The MANAGEROOM requests of clients, which a node hands to a LiveKit     *)
(* server (p2p/chain/action/dht/manageroom.go, livekit/default.go).  Each  *)
(* is handled by a goroutine with one call of the server; a new room gets  *)
(* a token for every identity and one for "anonymous", signed here.  The   *)
(* server is external: it has rooms, answers or fails, and may have done   *)
(* what it fails to answer.                                                *)
(***************************************************************************)
EXTENDS Naturals, FiniteSets

CONSTANTS Asks,         \* slots for the requests
          RoomNames,
          MaxFailures,  \* bound on the calls of the server that fail
          NoName        \* stands for ""

ASSUME FailuresOK == MaxFailures \in Nat
ASSUME NoNameOK == NoName \notin RoomNames

VARIABLES
    asks,     \* asks[r]: a request and its answer
    rooms,    \* the rooms of the server
    keys,     \* whether the configuration has the server's API key
    failures,
    had,      \* history: rooms the server had since request r came
    lacked    \* history: rooms it did not have at some time since then

roomVars == <<asks, rooms, keys, failures, had, lacked>>

Manage == {"create", "delete", "list", "listParticipants", "other"}

\* people, names: how many identities and names the request has; told: the
\* rooms in the answer; tokens: how many it has; status: of the answer.
Ask == [pc : {"new", "call", "tokens", "done", "lost"}, type : Manage,
        room : RoomNames \cup {NoName}, people : 0 .. 1, names : 0 .. 1,
        told : SUBSET RoomNames, tokens : 0 .. 2, status : {"ok", "refused"}]

\* The types of the variables.
RoomTypeOK ==
    /\ asks \in [Asks -> Ask]
    /\ rooms \subseteq RoomNames /\ keys \in BOOLEAN
    /\ failures \in 0 .. MaxFailures
    /\ had \in [Asks -> SUBSET RoomNames]
    /\ lacked \in [Asks -> SUBSET RoomNames]

RoomInit ==
    /\ asks = [r \in Asks |->
                 [pc |-> "new", type |-> "other", room |-> NoName, people |-> 0,
                  names |-> 0, told |-> {}, tokens |-> 0, status |-> "ok"]]
    /\ rooms = {} /\ keys \in BOOLEAN /\ failures = 0
    /\ had = [r \in Asks |-> {}] /\ lacked = [r \in Asks |-> {}]

----------------------------------------------------------------------------
\* The server's rooms become `new`; the requests under way have seen both.
Serve(new) ==
    /\ rooms' = new
    /\ had' = [r \in Asks |-> had[r] \cup new]
    /\ lacked' = [r \in Asks |-> lacked[r] \cup (RoomNames \ new)]

ServeNothing == UNCHANGED <<rooms, had, lacked>>

\* A request that names no room, or a room without a time to stay empty, is
\* refused before the server is asked; one of no known type is answered as it
\* came.
Refused(type, room, timeout) ==
    \/ type \in {"create", "delete", "listParticipants"} /\ room = NoName
    \/ type = "create" /\ ~timeout

\* What a request has beyond what its type asks for makes no difference.
ReceiveManage(r) ==
    /\ asks[r].pc = "new"
    /\ \E type \in Manage, room \in RoomNames \cup {NoName},
          timeout \in BOOLEAN, people, names \in 0 .. 1 :
          /\ type # "create" => timeout /\ people = 0 /\ names = 0
          /\ type \in {"list", "other"} => room = NoName
          /\ asks' = [asks EXCEPT ![r] =
                     [@ EXCEPT !.type = type, !.room = room, !.people = people,
                               !.names = names,
                        !.status = IF Refused(type, room, timeout)
                                   THEN "refused" ELSE "ok",
                        !.pc = IF Refused(type, room, timeout) \/ type = "other"
                               THEN "done" ELSE "call"]]
    /\ had' = [had EXCEPT ![r] = rooms]
    /\ lacked' = [lacked EXCEPT ![r] = RoomNames \ rooms]
    /\ UNCHANGED <<rooms, keys, failures>>

\* Without its key the client signs no token, and the server refuses calls.
CreateToken == IF keys THEN 1 ELSE 0

Calls(r, type) == asks[r].pc = "call" /\ asks[r].type = type

\* The answer to r goes out, or it goes on at pc, with these rooms.
Answer(r, pc, told) ==
    asks' = [asks EXCEPT ![r].pc = pc, ![r].told = told]

\* The call of r fails, after the server has made `new` its rooms or before.
CallFails(r, new) ==
    /\ IF keys THEN failures < MaxFailures /\ failures' = failures + 1
       ELSE UNCHANGED failures
    /\ \/ keys /\ Serve(new)
       \/ ServeNothing

\* CreateRoom; a room of that name is there already, or is made.
CreateRoom(r) ==
    /\ Calls(r, "create")
    /\ \/ /\ keys /\ Serve(rooms \cup {asks[r].room})
          /\ Answer(r, "tokens", {asks[r].room}) /\ UNCHANGED failures
       \/ CallFails(r, rooms \cup {asks[r].room}) /\ Answer(r, "done", {})
    /\ UNCHANGED keys

\* CreateTokens takes the name of each identity from beside it, which panics
\* where there are fewer names.
NamesMissing(r) == asks[r].pc = "tokens" /\ asks[r].names < asks[r].people

CreateTokens(r) ==
    /\ asks[r].pc = "tokens" /\ ~NamesMissing(r)
    /\ asks' = [asks EXCEPT ![r].pc = "done",
                    ![r].tokens = (asks[r].people + 1) * CreateToken]
    /\ UNCHANGED <<rooms, keys, failures, had, lacked>>

\* Fault: the answer names the room although the server has failed.
DeleteRoomUnheard(r) ==
    /\ Calls(r, "delete")
    /\ \/ /\ keys /\ Serve(rooms \ {asks[r].room}) /\ UNCHANGED failures
       \/ CallFails(r, rooms \ {asks[r].room})
    /\ Answer(r, "done", {asks[r].room})
    /\ UNCHANGED keys

\* DeleteRoom; the answer names the room if the server has said so.
DeleteRoom(r) ==
    /\ Calls(r, "delete")
    /\ \/ /\ keys /\ Serve(rooms \ {asks[r].room})
          /\ Answer(r, "done", {asks[r].room}) /\ UNCHANGED failures
       \/ CallFails(r, rooms \ {asks[r].room}) /\ Answer(r, "done", {})
    /\ UNCHANGED keys

\* ListRooms.
ListRooms(r) ==
    /\ Calls(r, "list")
    /\ \/ keys /\ Answer(r, "done", rooms) /\ ServeNothing /\ UNCHANGED failures
       \/ CallFails(r, rooms) /\ Answer(r, "done", {})
    /\ UNCHANGED keys

\* ListParticipants, of a room the server has.
ListParticipants(r) ==
    /\ Calls(r, "listParticipants")
    /\ \/ /\ keys /\ asks[r].room \in rooms
          /\ Answer(r, "done", {asks[r].room})
          /\ ServeNothing /\ UNCHANGED failures
       \/ /\ keys /\ asks[r].room \notin rooms
          /\ Answer(r, "done", {}) /\ ServeNothing /\ UNCHANGED failures
       \/ CallFails(r, rooms) /\ Answer(r, "done", {})
    /\ UNCHANGED keys

ManageStep(r) ==
    \/ CreateRoom(r) \/ CreateTokens(r) \/ DeleteRoom(r) \/ ListRooms(r)
    \/ ListParticipants(r)

\* The requests a process that stops has under way are not answered.
StopManage ==
    /\ asks' = [r \in Asks |->
                  IF asks[r].pc \in {"call", "tokens"}
                  THEN [asks[r] EXCEPT !.pc = "lost"] ELSE asks[r]]
    /\ UNCHANGED <<rooms, keys, failures, had, lacked>>

----------------------------------------------------------------------------
\* An answer tells the truth about the server at some time since its request
\* came, whatever other requests and failures come between: the room that was
\* made was there, the one deleted was gone, those listed were there; and the
\* tokens are one for each identity and one more, for a room that was there
\* (manageroom.go:72-111).
RoomsTold ==
    \A r \in Asks :
        asks[r].pc = "done" =>
          /\ asks[r].type = "delete" => asks[r].told \subseteq lacked[r]
          /\ asks[r].type # "delete" => asks[r].told \subseteq had[r]
          /\ asks[r].tokens # 0 =>
                /\ asks[r].type = "create" /\ asks[r].room \in had[r]
                /\ asks[r].tokens = asks[r].people + 1

----------------------------------------------------------------------------
(* The inductive invariant.                                                *)

\* What r has been told so far is true, and what it asks for has a name.
AskInv ==
    \A r \in Asks :
        /\ asks[r].type = "delete" => asks[r].told \subseteq lacked[r]
        /\ asks[r].type # "delete" => asks[r].told \subseteq had[r]
        /\ asks[r].pc # "new" => rooms \subseteq had[r]
        /\ asks[r].pc \in {"new", "call"} => asks[r].told = {}
        /\ asks[r].pc = "call" /\ asks[r].type # "list" =>
              asks[r].room \in RoomNames
        /\ asks[r].pc = "tokens" =>
              asks[r].type = "create" /\ asks[r].room \in had[r]
        /\ asks[r].pc # "done" => asks[r].tokens = 0
        /\ asks[r].tokens # 0 =>
              /\ asks[r].type = "create" /\ asks[r].room \in had[r]
              /\ asks[r].tokens = asks[r].people + 1

RoomInv == RoomTypeOK /\ AskInv
=============================================================================
