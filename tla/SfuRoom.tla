------------------------------ MODULE SfuRoom ------------------------------
(***************************************************************************)
(* The rooms of the selective forwarding unit (webrtc/sfu.go): a pool that *)
(* maps a room to its Sfu, and in each Sfu the table of members, that of   *)
(* publishers with the subscribers of each, and that of subscribers.       *)
(*                                                                         *)
(* Join, Leave and Destroy hold the lock of the pool from end to end, so   *)
(* each is one step.  What makes them hard is that a join may fail between *)
(* two tables and undoes nothing, and that an Sfu which was destroyed goes *)
(* on as the object its members' callbacks hold.  pion's PeerConnection is *)
(* external: whether a track can be created or added is its choice.        *)
(***************************************************************************)
EXTENDS Naturals, FiniteSets

CONSTANTS Conns,     \* the AdvancedPeerConnections; Init gives each its id
          Rooms,
          MaxSfus,   \* bound: Sfus created
          MaxFails,  \* bound: calls of CreateTrack and AddTrack that fail
          NoSfu

Sfus == 1 .. MaxSfus
Identities == {"publisher", "subscriber", "pubsub"}

ASSUME RoomConstantsOK ==
    /\ MaxSfus \in Nat /\ MaxFails \in Nat /\ NoSfu \notin Nat
    /\ IsFiniteSet(Conns)

VARIABLES
    room,        \* room[c], identity[c]: the Room c was created with
    identity,
    sfus,        \* sfus[r]: the Sfu of room r in the pool
    created,     \* how many Sfus were created
    members,     \* members[u]: peerConnections of Sfu u
    publishers,  \* the publishers of u
    listed,      \* listed[u][p]: the subscribers in the list of publisher p
    subscribers,
    tracks,      \* connections that send a track
    served,      \* history: served[u]: members whose join reported no error
    hooked,      \* connections with the track callback of an Sfu
    fails,
    running      \* the process has not crashed

tables == <<sfus, members, publishers, listed, subscribers, served>>
setting == <<room, identity>>
sfuVars == <<room, identity, sfus, created, members, publishers, listed,
          subscribers, tracks, served, hooked, fails, running>>

\* The types of the variables.
SfuTypeOK ==
    /\ room \in [Conns -> Rooms] /\ identity \in [Conns -> Identities]
    /\ sfus \in [Rooms -> Sfus \cup {NoSfu}]
    /\ created \in 0 .. MaxSfus
    /\ members \in [Sfus -> SUBSET Conns]
    /\ publishers \in [Sfus -> SUBSET Conns]
    /\ listed \in [Sfus -> [Conns -> SUBSET Conns]]
    /\ subscribers \in [Sfus -> SUBSET Conns]
    /\ tracks \subseteq Conns
    /\ served \in [Sfus -> SUBSET Conns]
    /\ hooked \subseteq Conns
    /\ fails \in 0 .. MaxFails
    /\ running \in BOOLEAN

SfuInit ==
    /\ room \in [Conns -> Rooms] /\ identity \in [Conns -> Identities]
    /\ sfus = [r \in Rooms |-> NoSfu]
    /\ created = 0
    /\ members = [u \in Sfus |-> {}]
    /\ publishers = [u \in Sfus |-> {}]
    /\ listed = [u \in Sfus |-> [c \in Conns |-> {}]]
    /\ subscribers = [u \in Sfus |-> {}]
    /\ tracks = {}
    /\ served = [u \in Sfus |-> {}]
    /\ hooked = {}
    /\ fails = 0 /\ running = TRUE

Publishes(c) == identity[c] \in {"publisher", "pubsub"}
Subscribes(c) == identity[c] \in {"subscriber", "pubsub"}

----------------------------------------------------------------------------
(* Joining.                                                                *)

\* Get, or Create of a new Sfu: u is the one Join goes on with.
SfuFound(r, u) ==
    \/ /\ sfus[r] = u
       /\ UNCHANGED <<sfus, created>>
    \/ /\ sfus[r] = NoSfu /\ u = created + 1 /\ u \in Sfus
       /\ sfus' = [sfus EXCEPT ![r] = u]
       /\ created' = u

\* The publishers of u with a list of c's: all subscribers but c itself.
publish(c, u) ==
    /\ publishers' = IF Publishes(c)
                     THEN [publishers EXCEPT ![u] = @ \cup {c}]
                     ELSE publishers

\* The lists after c has joined the lists of the publishers in reached.
Lists(c, u, reached) ==
    [p \in Conns |->
       IF p = c /\ Publishes(c) THEN subscribers[u] \ {c}
       ELSE IF p \in reached THEN listed[u][p] \cup {c}
       ELSE listed[u][p]]

subscribe(c, u, reached) ==
    /\ subscribers' = IF Subscribes(c)
                      THEN [subscribers EXCEPT ![u] = @ \cup {c}]
                      ELSE subscribers
    /\ listed' = [listed EXCEPT ![u] = Lists(c, u, reached)]

\* The publishers subscribe goes through.
Others(c, u) == IF Subscribes(c) THEN publishers[u] \ {c} ELSE {}

\* Sfu.join of a connection that is not a member, as far as subscribe got.
Enter(c, u, reached) ==
    /\ c \notin members[u]
    /\ members' = [members EXCEPT ![u] = @ \cup {c}]
    /\ publish(c, u)
    /\ subscribe(c, u, reached)

\* Nothing has to be forwarded to c yet: no publisher sends a track.
Join(c) ==
    /\ running
    /\ \E u \in Sfus :
         /\ SfuFound(room[c], u)
         /\ Enter(c, u, Others(c, u))
         /\ Others(c, u) \cap tracks = {}
         /\ served' = [served EXCEPT ![u] = @ \cup {c}]
    /\ hooked' = hooked \cup {c}
    /\ UNCHANGED <<setting, tracks, fails, running>>

\* Fault: a join that fails is reported as a success.
JoinFailsUnnoticed(c) ==
    /\ running /\ fails < MaxFails
    /\ \E u \in Sfus : \E reached \in SUBSET Others(c, u) :
         /\ SfuFound(room[c], u)
         /\ Enter(c, u, reached)
         /\ reached \cap tracks # {}
         /\ served' = [served EXCEPT ![u] = @ \cup {c}]
    /\ fails' = fails + 1
    /\ UNCHANGED <<setting, tracks, hooked, running>>

\* CreateTrack fails for a publisher that sends a track, on the way through
\* the publishers in the order of a map, or AddTrack after it: join returns
\* the error, and the tables stay as far as they got.
JoinFails(c) ==
    /\ running /\ fails < MaxFails
    /\ \E u \in Sfus : \E reached \in SUBSET Others(c, u) :
         /\ SfuFound(room[c], u)
         /\ Enter(c, u, reached)
         /\ reached \cap tracks # {}
    /\ fails' = fails + 1
    /\ UNCHANGED <<setting, tracks, served, hooked, running>>

\* AddTrack writes to a map that nobody makes once pion has taken the track:
\* the process panics.
JoinPanics(c) ==
    /\ running
    /\ sfus[room[c]] # NoSfu
    /\ LET u == sfus[room[c]] IN
       c \notin members[u] /\ Others(c, u) \cap tracks # {}
    /\ running' = FALSE
    /\ UNCHANGED <<setting, tables, created, tracks, hooked, fails>>

----------------------------------------------------------------------------
(* Leaving.                                                                *)

\* Fault: the lists of the other publishers are left alone.
leaveOwn(c, u) ==
    /\ c \in members[u]
    /\ members' = [members EXCEPT ![u] = @ \ {c}]
    /\ publishers' = [publishers EXCEPT ![u] = @ \ {c}]
    /\ subscribers' = [subscribers EXCEPT ![u] = @ \ {c}]
    /\ listed' = [listed EXCEPT ![u] = [@ EXCEPT ![c] = {}]]
    /\ served' = [served EXCEPT ![u] = @ \ {c}]

leave(c, u) ==
    /\ c \in members[u]
    /\ members' = [members EXCEPT ![u] = @ \ {c}]
    /\ publishers' = [publishers EXCEPT ![u] = @ \ {c}]
    /\ subscribers' = [subscribers EXCEPT ![u] = @ \ {c}]
    /\ listed' = [listed EXCEPT ![u] =
                    [p \in Conns |-> IF p = c THEN {} ELSE @[p] \ {c}]]
    /\ served' = [served EXCEPT ![u] = @ \ {c}]

\* The room goes with its last member.
Leave(c) ==
    /\ running
    /\ sfus[room[c]] # NoSfu
    /\ LET u == sfus[room[c]] IN
       /\ leave(c, u)
       /\ sfus' = IF members[u] = {c} THEN [sfus EXCEPT ![room[c]] = NoSfu]
                  ELSE sfus
    /\ UNCHANGED <<setting, created, tracks, hooked, fails, running>>

\* Destroy drops the room and tells nobody.
Destroy(r) ==
    /\ running
    /\ sfus[r] # NoSfu
    /\ sfus' = [sfus EXCEPT ![r] = NoSfu]
    /\ UNCHANGED <<setting, created, members, publishers, listed, subscribers,
                   tracks, served, hooked, fails, running>>

----------------------------------------------------------------------------
(* Tracks.                                                                 *)

\* The remote end of c sends a track.  Without a callback of an Sfu the
\* event only goes to the pool of connections.
TrackArrives(c) ==
    /\ running
    /\ c \notin tracks /\ c \notin hooked
    /\ tracks' = tracks \cup {c}
    /\ UNCHANGED <<setting, tables, created, hooked, fails, running>>

\* The callback picks some other member, or c itself, without the lock;
\* the new track cannot be created or added there.
TrackFails(c) ==
    /\ running /\ fails < MaxFails
    /\ c \notin tracks /\ c \in hooked
    /\ tracks' = tracks \cup {c}
    /\ fails' = fails + 1
    /\ UNCHANGED <<setting, tables, created, hooked, running>>

\* Once pion has taken the track AddTrack panics, as in a join.
TrackPanics(c) ==
    /\ running
    /\ c \notin tracks /\ c \in hooked
    /\ running' = FALSE
    /\ UNCHANGED <<setting, tables, created, tracks, hooked, fails>>

SfuNext ==
    \/ \E c \in Conns :
         \/ Join(c) \/ JoinFails(c) \/ JoinPanics(c) \/ Leave(c)
         \/ TrackArrives(c) \/ TrackFails(c) \/ TrackPanics(c)
    \/ \E r \in Rooms : Destroy(r)

SfuSpec == SfuInit /\ [][SfuNext]_sfuVars

----------------------------------------------------------------------------
(* Properties.                                                             *)

\* The tables of an Sfu agree, through joins that fail half-way, leaves and
\* destroyed rooms: whoever is in one is a member, and a publisher's list
\* has subscribers other than itself only, so nothing is ever forwarded to
\* a connection that has left (sfu.go:154-173, 180-209, 271-325).
TablesAgree ==
    \A u \in Sfus :
        /\ publishers[u] \subseteq members[u]
        /\ subscribers[u] \subseteq members[u]
        /\ \A p \in Conns :
             /\ listed[u][p] \subseteq subscribers[u] \ {p}
             /\ p \notin publishers[u] => listed[u][p] = {}

\* A subscriber whose join reported no error is in the list of every other
\* publisher of its Sfu, whichever of the two came first and however the
\* joins of others have failed (sfu.go:190-196, 286-293).
EveryoneServed ==
    \A u \in Sfus : \A s \in served[u] \cap subscribers[u] :
        \A p \in publishers[u] \ {s} : s \in listed[u][p]

\* A room in the pool has a member, a failed first join included, and its
\* members were created for that room; the room goes when they have left
\* (sfu.go:350-371, 400-404).
RoomsInhabited ==
    \A r \in Rooms :
        sfus[r] # NoSfu =>
            /\ members[sfus[r]] # {}
            /\ \A c \in members[sfus[r]] : room[c] = r
============================================================================
