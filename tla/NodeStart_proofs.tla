--------------------------- MODULE NodeStart_proofs ---------------------------
(* Proofs about the start of a node, for any configurations, peers and       *)
(* messages, and any number of starts.                                       *)
EXTENDS NodeStart, TLAPS

\* The phases after the node's row is written, and those after the DHT is made.
Written == {"streams", "dht", "bootstrap", "push", "up"}
Served == {"bootstrap", "push", "up"}

\* What libp2p.Start has done when it reaches a phase.
Phase ==
    /\ pc \in {"key", "host", "row"} => mem.peerId = NoKey
    /\ pc = "key" => ~mem.found
    /\ pc \in {"host", "row"} =>
          IF mem.found THEN mem.key \in Identities ELSE rows = {} \/ misread
    /\ pc \in Written => MyRow \in rows /\ mem.peerId = mem.key
    /\ pc \in Written \ {"streams"} => mem.streams
    /\ mem.dht <=> pc \in Served
    /\ pc = "up" => mem.push
    /\ dialling # {} => pc \in {"push", "up"}

\* The PeerId in a message is a row's, if there is one; a request of the TURN
\* server goes straight to its handler.
Messages ==
    \A s \in Slots :
        /\ slots[s].stamp \in {NoKey} \cup Identities
        /\ slots[s].at \in {"update", "dispatch"} => slots[s].kind # "turn"

\* A row that is there is read, unless the read fails.
Cached ==
    /\ mem.found => rows # {}
    /\ pc = "key" /\ mem.cached = "empty" => rows = {} \/ blind

\* A peer to dial whose address names no place is one of the configuration.
Dials ==
    /\ \A p \in endpoints \cup connected : Where[p] # "none"
    /\ \A p \in dialling :
          Where[p] = "none" => p \in PeerInfosFromConf \ {Me}

\* The inductive invariant.
IInv ==
    /\ TypeOK /\ Phase /\ OneIdentity /\ KnowsItself /\ Messages /\ Cached
    /\ Dials

----------------------------------------------------------------------------
(* The values.                                                              *)

\* A slot with no message is a handler like the others.
LEMMA IdleHandler == Idle \in Handler /\ Idle.stamp = NoKey /\ Idle.at = "idle"
<1>1. (CHOOSE c \in Clients : TRUE) \in Clients
  BY StartAssumption
<1> QED BY <1>1 DEF Idle, Handler, Kinds, NoKey

\* The globals of a process that has not begun.
LEMMA ClearedGlobals ==
    /\ Cleared \in Globals
    /\ Cleared.peerId = NoKey /\ Cleared.cached = "none"
    /\ ~Cleared.dht /\ ~Cleared.found
BY DEF Cleared, Globals, NoKey

\* A configuration has the settings the start reads.
LEMMA ConfigSettings ==
    ASSUME NEW c \in Configs
    PROVE  /\ Profile(c) \in Profiles /\ c.password \in STRING
           /\ c.bootstraps \in Seq(Peers \cup {Me})
<1>1. c \in Settings
  BY StartAssumption
<1> QED BY <1>1 DEF Settings, Profile, Profiles

\* PeerInfosFromConf names peers and the node itself.
LEMMA ConfPeers ==
    ASSUME config \in Configs
    PROVE  PeerInfosFromConf \ {Me} \subseteq Peers
<1>1. config.bootstraps \in Seq(Peers \cup {Me})
  BY ConfigSettings
<1> QED BY <1>1 DEF PeerInfosFromConf

\* The first state has the inductive invariant.
LEMMA InitIInv == Init => IInv
<1> SUFFICES ASSUME Init PROVE IInv
  OBVIOUS
<1>1. TypeOK
  <2>1. [c \in Clients |-> [stored |-> FALSE, up |-> FALSE, at |-> NoKey]]
           \in [Clients -> ClientRow]
    BY DEF ClientRow, NoKey
  <2>2. [starts |-> 0, events |-> 0] \in [starts : Nat, events : Nat]
    OBVIOUS
  <2>3. [s \in Slots |-> Idle] \in [Slots -> Handler]
    BY IdleHandler
  <2> QED BY <2>1, <2>2, <2>3, ClearedGlobals DEF Init, TypeOK
<1>2. Phase /\ KnowsItself /\ Cached /\ Dials
  BY ClearedGlobals
     DEF Init, Phase, KnowsItself, Cached, Dials, Written, Served, alive, Phases
<1>3. OneIdentity /\ Messages
  BY IdleHandler DEF Init, OneIdentity, Messages
<1> QED BY <1>1, <1>2, <1>3 DEF IInv

----------------------------------------------------------------------------
(* The process.                                                             *)

\* The bounds count in numbers.
LEMMA Counting ==
    ASSUME IInv, Happens \/ Fail \/ UNCHANGED counts
    PROVE  counts' \in [starts : Nat, events : Nat]
BY DEF IInv, TypeOK, Happens, Fail

\* The end of the process keeps the invariant: the rows are the next life's.
LEMMA EndIInv ==
    ASSUME IInv, NEW how \in {"off", "stopped"}, End(how),
           Fail \/ UNCHANGED counts
    PROVE  IInv'
<1>1. TypeOK'
  BY IdleHandler, ClearedGlobals, Counting DEF IInv, TypeOK, End, store
<1>2. Phase' /\ KnowsItself' /\ Cached' /\ Dials'
  BY ClearedGlobals
     DEF IInv, End, store, Phase, KnowsItself, Cached, Dials, Written, Served,
         alive, Phases, PeerInfosFromConf
<1>3. OneIdentity'
  BY DEF IInv, OneIdentity, Identities, End, store
<1>4. Messages'
  BY IdleHandler DEF IInv, Messages, Identities, End, store
<1> QED BY <1>1, <1>2, <1>3, <1>4 DEF IInv

\* A new start has the rows, and no more.
LEMMA LaunchIInv ==
    ASSUME IInv, NEW c \in Configs, Launch(c)
    PROVE  IInv'
<1> DEFINE m == [Cleared EXCEPT !.web = "starting", !.turn = TurnListens(c)]
<1>1. /\ m \in Globals /\ m.peerId = NoKey /\ m.cached = "none"
      /\ ~m.dht /\ ~m.found
  <2>1. TurnListens(c) \in BOOLEAN
    BY StartAssumption DEF TurnListens, Settings
  <2> QED BY <2>1 DEF Cleared, Globals, NoKey
<1>2. mem' = m /\ pc' = "key" /\ config' = c
  BY DEF Launch
<1> HIDE DEF m
<1>3. /\ clients' \in [Clients -> ClientRow]
      /\ \A k \in Clients : clients'[k].at = clients[k].at
  BY DEF Launch, Disconnected, IInv, TypeOK, ClientRow
<1>4. /\ UNCHANGED <<slots, dialling, rows, endpoints, connected, reachable,
                     generated, announced, tried, unsaved, misread, blind>>
      /\ counts' \in [starts : Nat, events : Nat] /\ known' = {}
      /\ pc \notin Phases
  BY DEF Launch, network, IInv, TypeOK, alive
<1>5. TypeOK'
  BY <1>1, <1>2, <1>3, <1>4 DEF IInv, TypeOK, Phases
<1>6. dialling = {}
  BY <1>4 DEF IInv, Phase, Phases
<1>7. Phase' /\ KnowsItself' /\ Cached' /\ Dials'
  BY <1>1, <1>2, <1>4, <1>6
     DEF IInv, Phase, KnowsItself, Cached, Dials, Written, Served, alive, Phases
<1>8. OneIdentity' /\ Messages'
  BY <1>3, <1>4 DEF IInv, OneIdentity, Messages, Identities
<1> QED BY <1>5, <1>7, <1>8 DEF IInv

\* A panic and a kill are ends.
LEMMA StopIInv == ASSUME IInv, Stop \/ StopFailing \/ Kill PROVE IInv'
BY EndIInv DEF Stop, StopFailing, Kill

\* The goroutine of main either registers the paths or stops the process.
LEMMA StartWebIInv == ASSUME IInv, StartWeb PROVE IInv'
<1>1. CASE Stop
  BY <1>1, StopIInv
<1>2. CASE ~Stop
  <2>1. PICK w \in {"listening", "failed"} : mem' = [mem EXCEPT !.web = w]
    BY <1>2 DEF StartWeb
  <2>2. counts' \in [starts : Nat, events : Nat]
    BY <1>2, Counting DEF StartWeb
  <2>3. /\ mem' \in Globals /\ mem'.key = mem.key /\ mem'.found = mem.found
        /\ mem'.peerId = mem.peerId /\ mem'.streams = mem.streams
        /\ mem'.dht = mem.dht /\ mem'.push = mem.push /\ mem'.cached = mem.cached
    BY <2>1 DEF IInv, TypeOK, Globals
  <2>4. UNCHANGED <<pc, config, slots, dialling, rows, clients, endpoints,
                    connected, reachable, generated, announced, known, tried,
                    unsaved, misread, blind>>
    BY <1>2 DEF StartWeb, store, network, history
  <2>5. TypeOK'
    BY <2>2, <2>3, <2>4 DEF IInv, TypeOK
  <2>6. alive
    BY <1>2 DEF StartWeb
  <2>7. Phase' /\ KnowsItself' /\ Cached' /\ Dials'
    BY <2>3, <2>4, <2>6 DEF IInv, Phase, KnowsItself, Cached, Dials, alive,
       PeerInfosFromConf, Identities, MyRow
  <2>8. OneIdentity' /\ Messages'
    BY <2>4 DEF IInv, OneIdentity, Messages, Identities
  <2> QED BY <2>5, <2>7, <2>8 DEF IInv
<1> QED BY <1>1, <1>2

----------------------------------------------------------------------------
(* libp2p.Start.                                                            *)

\* The steps of the start leave the messages alone; those that leave the row and
\* the dialling alone too keep the invariant once they keep the phase's.
LEMMA SameRow ==
    ASSUME IInv, UNCHANGED <<startRest, dialling, rows, known>>,
           Fail \/ UNCHANGED counts,
           mem' \in Globals, mem'.cached = mem.cached, generated' \in Nat,
           pc' \in Phases, Phase', mem'.found => rows # {},
           pc' # "key", mem.cached = "empty" => ~mem'.found \/ blind,
           misread' \in BOOLEAN, misread => misread'
    PROVE  IInv'
<1>1. UNCHANGED <<config, slots, dialling, rows, clients, endpoints, connected,
                  reachable, announced, known, tried, unsaved, blind>>
  BY DEF startRest, network
<1>2. TypeOK'
  BY <1>1, Counting DEF IInv, TypeOK
<1>3. OneIdentity' /\ Messages'
  BY <1>1 DEF IInv, OneIdentity, Messages, Identities
<1>4. KnowsItself' /\ Cached'
  BY <1>1 DEF KnowsItself, Cached
<1>5. Dials'
  BY <1>1 DEF IInv, Dials, PeerInfosFromConf
<1> QED BY <1>2, <1>3, <1>4, <1>5 DEF IInv

\* getMyselfPeer: a key pair is in memory, a row's if a row could be read.
LEMMA MyselfKeyIInv == ASSUME IInv, MyselfKey PROVE IInv'
<1>1. CASE Stop \/ StopFailing
  BY <1>1, StopIInv
<1>2. CASE ~Stop /\ LoadKey
  <2>1. PICK r \in rows :
           /\ pc' = "host"
           /\ mem' = [mem EXCEPT !.key = r.key, !.found = TRUE]
           /\ UNCHANGED <<startRest, dialling, rows, generated, known, misread,
                          counts>>
    BY <1>2 DEF LoadKey
  <2>2. pc = "key" /\ rows # {} /\ r.key \in Nat /\ r.key \in Identities
    BY <2>1 DEF MyselfKey, IInv, TypeOK, SelfRow, Identities
  <2>3. /\ mem' \in Globals /\ mem'.key = r.key /\ mem'.found
        /\ mem'.peerId = mem.peerId /\ mem'.dht = mem.dht
        /\ mem'.cached = mem.cached
    BY <2>1, <2>2 DEF IInv, TypeOK, Globals
  <2>4. Phase'
    <3>1. Identities' = Identities
      BY <2>1 DEF Identities
    <3> QED BY <2>1, <2>2, <2>3, <3>1
            DEF IInv, Phase, Written, Served, alive, Phases
  <2>5. /\ mem.cached = "empty" => blind
        /\ generated' \in Nat /\ pc' \in Phases
        /\ misread' = misread /\ misread' \in BOOLEAN
    BY <2>1, <2>2 DEF IInv, Cached, TypeOK, Phases
  <2> QED BY <2>1, <2>2, <2>3, <2>4, <2>5, SameRow
<1>3. CASE ~Stop /\ ~StopFailing /\ CreateKey
  <2>1. /\ pc = "key" /\ pc' = "host"
        /\ Fail \/ UNCHANGED counts
        /\ misread' = (misread \/ rows # {})
        /\ generated' = generated + 1
        /\ mem' = [mem EXCEPT !.key = generated']
        /\ UNCHANGED <<startRest, dialling, rows, known>>
    BY <1>3 DEF CreateKey, MyselfKey
  <2>2. generated' \in Nat
    BY <2>1 DEF IInv, TypeOK
  <2>3. /\ mem' \in Globals /\ mem'.key = generated' /\ mem'.found = mem.found
        /\ mem'.peerId = mem.peerId /\ mem'.dht = mem.dht
        /\ mem'.cached = mem.cached
    BY <2>1, <2>2 DEF IInv, TypeOK, Globals
  <2>4. /\ ~mem.found /\ pc' \in Phases
        /\ misread' \in BOOLEAN /\ misread => misread'
    BY <2>1 DEF IInv, Phase, Phases, TypeOK
  <2>5. Phase'
    BY <2>1, <2>2, <2>3, <2>4 DEF IInv, Phase, Written, Served, alive, Phases
  <2> QED BY <2>1, <2>2, <2>3, <2>4, <2>5, SameRow
<1> QED BY <1>1, <1>2, <1>3 DEF MyselfKey

\* The host, the stream handler, the DHT and the push client: each sets its own
\* global and goes on.
LEMMA HostIInv ==
    ASSUME IInv, NewHost \/ ChainProtocolStream \/ NewPeerEndpointDHT \/ RegisterPush
    PROVE  IInv'
<1>1. CASE Stop \/ StopFailing
  BY <1>1, StopIInv
<1>2. CASE ~Stop /\ ~StopFailing
  <2>1. UNCHANGED <<startRest, dialling, rows, generated, known, misread,
                    counts>>
    BY <1>2 DEF NewHost, ChainProtocolStream, NewPeerEndpointDHT, RegisterPush
  <2>2. \/ pc = "host" /\ pc' = "row" /\ mem' = mem
        \/ pc = "streams" /\ pc' = "dht" /\ mem' = [mem EXCEPT !.streams = TRUE]
        \/ pc = "dht" /\ pc' = "bootstrap" /\ mem' = [mem EXCEPT !.dht = TRUE]
        \/ pc = "push" /\ pc' = "up" /\ mem' = [mem EXCEPT !.push = TRUE]
    BY <1>2 DEF NewHost, ChainProtocolStream, NewPeerEndpointDHT, RegisterPush
  <2>3. /\ mem' \in Globals /\ mem'.key = mem.key /\ mem'.found = mem.found
        /\ mem'.peerId = mem.peerId /\ mem'.cached = mem.cached
        /\ mem.streams => mem'.streams
        /\ pc = "streams" => mem'.streams
        /\ mem'.dht <=> mem.dht \/ pc = "dht"
        /\ pc = "push" => mem'.push
    <3>1. mem \in Globals
      BY DEF IInv, TypeOK
    <3>2. CASE pc = "host" /\ mem' = mem
      BY <3>1, <3>2 DEF Globals
    <3>3. CASE pc = "streams" /\ mem' = [mem EXCEPT !.streams = TRUE]
      BY <3>1, <3>3 DEF Globals
    <3>4. CASE pc = "dht" /\ mem' = [mem EXCEPT !.dht = TRUE]
      BY <3>1, <3>4 DEF Globals
    <3>5. CASE pc = "push" /\ mem' = [mem EXCEPT !.push = TRUE]
      BY <3>1, <3>5 DEF Globals
    <3> QED BY <2>2, <3>2, <3>3, <3>4, <3>5
  <2>4. /\ UNCHANGED <<rows, dialling, config, misread>>
        /\ Identities' = Identities /\ MyRow' = MyRow
    BY <2>1, <2>3 DEF startRest, Identities, MyRow
  <2>5. Phase'
    BY <2>2, <2>3, <2>4 DEF IInv, Phase, Written, Served, alive, Phases
  <2>6. /\ generated' \in Nat /\ pc' \in Phases /\ pc' # "key"
        /\ misread' \in BOOLEAN
    BY <2>1, <2>2 DEF IInv, TypeOK, Phases
  <2>7. /\ mem'.found => rows # {}
        /\ mem.cached = "empty" => ~mem'.found \/ blind
    BY <2>3 DEF IInv, Cached, KnowsItself
  <2> QED BY <2>1, <2>3, <2>5, <2>6, <2>7, SameRow
<1> QED BY <1>1, <1>2

\* upsertMyselfPeer: the row it writes has the key pair of this process, and
\* there is none beside it unless a read failed.
LEMMA UpsertIInv == ASSUME IInv, UpsertMyselfPeer PROVE IInv'
<1>1. CASE Stop \/ StopFailing
  BY <1>1, StopIInv
<1>2. CASE ~Stop /\ ~StopFailing
  <2>1. /\ pc = "row" /\ pc' = "streams"
        /\ rows' = {r \in rows : r.key # mem.key} \cup {MyRow}
        /\ unsaved' = unsaved \ {mem.key}
        /\ mem' = [mem EXCEPT !.peerId = mem.key]
        /\ UNCHANGED <<config, slots, clients, endpoints, network, announced,
                       tried, blind, dialling, generated, known, misread, counts>>
    BY <1>2 DEF UpsertMyselfPeer
  <2>2. UNCHANGED <<config, slots, dialling, clients, endpoints, connected,
                    reachable, generated, announced, known, tried, misread,
                    blind, counts>>
    BY <2>1 DEF network
  <2>3. /\ mem' \in Globals /\ mem'.key = mem.key /\ mem'.found = mem.found
        /\ mem'.peerId = mem.key /\ mem'.cached = mem.cached
        /\ mem'.dht = mem.dht
    BY <2>1 DEF IInv, TypeOK, Globals
  <2>4. /\ MyRow \in SelfRow /\ MyRow.key = mem.key /\ MyRow' = MyRow
        /\ MyRow \in rows'
    BY <2>1, <2>2, <2>3, ConfigSettings
       DEF MyRow, SelfRow, IInv, TypeOK, Globals
  <2>5. TypeOK'
    BY <2>1, <2>2, <2>3, <2>4 DEF IInv, TypeOK, Phases
  <2>6. Identities' = Identities \cup {mem.key}
    BY <2>1, <2>4 DEF Identities
  <2>7. Phase'
    BY <2>1, <2>2, <2>3, <2>4 DEF IInv, Phase, Written, Served, alive, Phases
  <2>8. OneIdentity'
    <3>1. /\ announced' \subseteq Identities' \cup unsaved'
          /\ {clients'[c].at : c \in Clients} \subseteq {NoKey} \cup Identities'
      BY <2>1, <2>2, <2>6 DEF IInv, OneIdentity
    <3>2. ASSUME ~misread, NEW q \in rows' PROVE q.key = mem.key
      <4>1. \A r, t \in rows : r.key = t.key
        BY <3>2 DEF IInv, OneIdentity
      <4>2. rows = {} \/ mem.key \in Identities
        BY <2>1, <3>2 DEF IInv, Phase
      <4>3. \A r \in rows : r.key = mem.key
        BY <4>1, <4>2 DEF Identities
      <4> QED BY <2>1, <2>4, <4>3
    <3>3. ~misread' => \A q, r \in rows' : q.key = r.key
      BY <2>2, <3>2
    <3> QED BY <3>1, <3>3 DEF OneIdentity
  <2>9. Messages'
    BY <2>2, <2>6 DEF IInv, Messages
  <2>10. KnowsItself' /\ Cached'
    BY <2>1, <2>2, <2>3, <2>4 DEF IInv, KnowsItself, Cached
  <2>11. Dials'
    BY <2>2 DEF IInv, Dials, PeerInfosFromConf
  <2> QED BY <2>5, <2>7, <2>8, <2>9, <2>10, <2>11 DEF IInv
<1> QED BY <1>1, <1>2

\* Bootstrap dials peers of the configuration, and peers with a row, which have
\* been connected.
LEMMA BootstrapIInv == ASSUME IInv, Bootstrap PROVE IInv'
<1>1. UNCHANGED <<config, slots, rows, clients, endpoints, connected, reachable,
                  generated, mem, announced, tried, unsaved, misread, blind>>
  BY DEF Bootstrap, startRest, network
<1>2. PICK reads \in BOOLEAN :
         /\ IF reads THEN UNCHANGED counts ELSE Fail
         /\ dialling' = PeerInfos(reads)
         /\ known' = (PeerInfosFromConf \ {Me}) \cup PeerInfosFromStore(reads)
  BY DEF Bootstrap
<1> pc = "bootstrap" /\ pc' = "push"
  BY DEF Bootstrap
<1>3. PeerInfosFromConf \ {Me} \subseteq Peers
  BY ConfPeers DEF IInv, TypeOK
<1>4. dialling' \subseteq Peers /\ known' \subseteq Peers
  BY <1>2, <1>3 DEF IInv, TypeOK, PeerInfos, PeerInfosFromStore
<1>5. TypeOK'
  BY <1>1, <1>2, <1>4, Counting DEF IInv, TypeOK, Phases
<1>6. Phase' /\ OneIdentity' /\ KnowsItself' /\ Messages' /\ Cached'
  BY <1>1, <1>2 DEF IInv, Phase, OneIdentity, KnowsItself, Messages, Cached,
     Written, Served, alive, Phases, Identities, MyRow
<1>7. PeerInfosFromConf' = PeerInfosFromConf
  BY <1>1 DEF PeerInfosFromConf
<1>8. Dials'
  BY <1>1, <1>2, <1>7 DEF IInv, Dials, PeerInfos, PeerInfosFromStore
<1> QED BY <1>5, <1>6, <1>8 DEF IInv

----------------------------------------------------------------------------
(* The other nodes.                                                         *)

\* A connection is made by a process that has written its row, or shows an
\* identity that has none.
LEMMA Connecting ==
    ASSUME IInv, NEW p \in Peers, Where[p] # "none",
           pc = "row" \/ pc \in Written, Connected(p)
    PROVE  /\ connected' \subseteq Peers /\ announced' \subseteq Nat
           /\ unsaved' \subseteq Nat
           /\ announced' \subseteq Identities \cup unsaved'
           /\ \A q \in connected' : Where[q] # "none"
<1>1. mem.key \in Nat
  BY DEF IInv, TypeOK, Globals
<1>2. mem.key \in Identities \cup unsaved'
  <2>1. CASE pc = "row"
    BY <2>1 DEF IInv, Phase, Connected
  <2>2. CASE pc \in Written
    BY <2>2 DEF IInv, Phase, Identities, MyRow
  <2> QED BY <2>1, <2>2
<1> QED BY <1>1, <1>2 DEF IInv, TypeOK, OneIdentity, Dials, Connected

\* The peers come and go.
LEMMA NetworkIInv ==
    ASSUME IInv, NEW p \in Peers,
           Dial(p) \/ Refresh(p) \/ Join(p) \/ Record(p) \/ Change(p)
    PROVE  IInv'
<1>1. CASE Stop
  BY <1>1, StopIInv
<1>2. CASE ~Stop
  <2>1. /\ UNCHANGED <<pc, config, mem, slots, rows, clients, generated, known,
                       misread, blind>>
        /\ dialling' \subseteq dialling
    BY <1>2 DEF Dial, Refresh, Join, Record, Change, netRest, store, history
  <2>2. /\ connected' \subseteq Peers /\ announced' \subseteq Nat
        /\ unsaved' \subseteq Nat
        /\ announced' \subseteq Identities \cup unsaved'
        /\ \A q \in connected' : Where[q] # "none"
    <3>1. CASE connected' \subseteq connected /\ UNCHANGED <<announced, unsaved>>
      BY <3>1 DEF IInv, TypeOK, Dials, OneIdentity
    <3>2. CASE Connected(p) /\ (Dial(p) \/ Refresh(p) \/ Join(p))
      <4>1. Where[p] # "none"
        BY <1>2, <3>2 DEF Dial, Refresh, Join
      <4>2. pc = "row" \/ pc \in Written
        BY <1>2, <3>2 DEF Dial, Refresh, Join, IInv, Phase, Phases, Written, Served
      <4> QED BY <3>2, <4>1, <4>2, Connecting
    <3>3. CASE ~Connected(p) \/ Record(p) \/ Change(p)
      <4>1. connected' \subseteq connected /\ UNCHANGED <<announced, unsaved>>
        BY <1>2, <3>3 DEF Dial, Refresh, Join, Record, Change, history
      <4> QED BY <3>1, <4>1
    <3> QED BY <1>2, <3>2, <3>3
  <2>3. endpoints' \subseteq endpoints \cup connected
    BY <1>2 DEF Dial, Refresh, Join, Record, Change, store
  <2>4. /\ reachable' \subseteq Peers /\ tried' \subseteq Peers
        /\ counts' \in [starts : Nat, events : Nat]
    <3>1. CASE Change(p)
      BY <3>1, Counting DEF Change, history, IInv, TypeOK
    <3>2. CASE ~Change(p)
      BY <1>2, <3>2 DEF Dial, Refresh, Join, Record, netRest, IInv, TypeOK
    <3> QED BY <3>1, <3>2
  <2>5. TypeOK'
    BY <2>1, <2>2, <2>3, <2>4 DEF IInv, TypeOK
  <2>6. Phase' /\ KnowsItself' /\ Messages' /\ Cached'
    BY <2>1 DEF IInv, Phase, KnowsItself, Messages, Cached, alive, Identities,
       MyRow
  <2>7. OneIdentity'
    BY <2>1, <2>2 DEF IInv, OneIdentity, Identities
  <2>8. Dials'
    <3>1. PeerInfosFromConf' = PeerInfosFromConf
      BY <2>1 DEF PeerInfosFromConf
    <3> QED BY <2>1, <2>2, <2>3, <3>1 DEF IInv, Dials
  <2> QED BY <2>5, <2>6, <2>7, <2>8 DEF IInv
<1> QED BY <1>1, <1>2

----------------------------------------------------------------------------
(* Messages.                                                                *)

\* What keeps the invariant while a message is handled.
LEMMA MessageStep ==
    ASSUME IInv, UNCHANGED lasting,
           \/ UNCHANGED <<mem, blind>>
           \/ \E reads \in BOOLEAN :
                 /\ mem' = [mem EXCEPT !.cached = GetFromCache(reads)]
                 /\ blind' = (blind \/ ~reads),
           Happens \/ Fail \/ UNCHANGED counts,
           clients' \in [Clients -> ClientRow],
           \A c \in Clients : clients'[c].at \in {NoKey} \cup Identities,
           slots' \in [Slots -> Handler], Messages'
    PROVE  IInv'
<1>1. UNCHANGED <<pc, config, dialling, rows, endpoints, connected, reachable,
                  generated, announced, known, tried, unsaved, misread>>
  BY DEF lasting, network
<1>2. /\ mem' \in Globals /\ mem'.key = mem.key /\ mem'.found = mem.found
      /\ mem'.peerId = mem.peerId /\ mem'.streams = mem.streams
      /\ mem'.dht = mem.dht /\ mem'.push = mem.push
      /\ mem'.cached = "empty" => mem.cached = "empty" \/ rows = {} \/ blind'
      /\ blind' \in BOOLEAN /\ blind => blind'
  <2>1. ASSUME NEW reads \in BOOLEAN
        PROVE  /\ GetFromCache(reads) \in {"none", "empty", "known"}
               /\ GetFromCache(reads) = "empty" =>
                     mem.cached = "empty" \/ rows = {} \/ ~reads
    BY DEF GetFromCache, IInv, TypeOK, Globals
  <2>2. CASE UNCHANGED <<mem, blind>>
    BY <2>2 DEF IInv, TypeOK
  <2>3. CASE \E reads \in BOOLEAN :
                /\ mem' = [mem EXCEPT !.cached = GetFromCache(reads)]
                /\ blind' = (blind \/ ~reads)
    <3>1. PICK reads \in BOOLEAN :
             /\ mem' = [mem EXCEPT !.cached = GetFromCache(reads)]
             /\ blind' = (blind \/ ~reads)
      BY <2>3
    <3> DEFINE v == GetFromCache(reads)
    <3>2. /\ v \in {"none", "empty", "known"}
          /\ v = "empty" => mem.cached = "empty" \/ rows = {} \/ ~reads
      BY <2>1
    <3>3. mem' = [mem EXCEPT !.cached = v]
      BY <3>1
    <3> HIDE DEF v
    <3> QED BY <3>1, <3>2, <3>3 DEF IInv, TypeOK, Globals
  <2> QED BY <2>2, <2>3
<1>3. TypeOK'
  BY <1>1, <1>2, Counting DEF IInv, TypeOK
<1>4. Phase'
  BY <1>1, <1>2 DEF IInv, Phase, Identities, MyRow
<1>5. OneIdentity'
  BY <1>1 DEF IInv, OneIdentity, Identities
<1>6. KnowsItself' /\ Cached'
  BY <1>1, <1>2 DEF IInv, KnowsItself, Cached
<1>7. Dials'
  BY <1>1 DEF IInv, Dials, PeerInfosFromConf
<1> QED BY <1>3, <1>4, <1>5, <1>6, <1>7 DEF IInv

\* A message comes in.
LEMMA ReceiveIInv ==
    ASSUME IInv, NEW s \in Slots, NEW k \in Kinds, NEW c \in Clients,
           NEW http \in BOOLEAN, Receive(s, k, c, http)
    PROVE  IInv'
<1> DEFINE h == [at |-> IF k = "turn" THEN "act" ELSE "update", kind |-> k,
                 client |-> c, stamp |-> Stamp, http |-> http]
<1>1. UNCHANGED <<mem, clients, msgRest>> /\ slots' = [slots EXCEPT ![s] = h]
  BY DEF Receive
<1>2. Happens
  BY DEF Receive
<1>3. Stamp \in Nat
  BY DEF Stamp, IInv, TypeOK, Globals
<1>4. Stamp \in {NoKey} \cup Identities
  BY DEF Receive, Stamp, IInv, Phase, Phases, Written, alive, Identities, MyRow
<1>5. /\ h \in Handler /\ h.stamp \in {NoKey} \cup Identities
      /\ h.at \in {"update", "dispatch"} => h.kind # "turn"
  BY <1>3, <1>4 DEF Handler
<1> HIDE DEF h
<1>6. slots' \in [Slots -> Handler]
  BY <1>1, <1>5 DEF IInv, TypeOK
<1>7. UNCHANGED <<rows, mem, blind, lasting>>
  BY <1>1 DEF msgRest, lasting
<1>8. Messages'
  BY <1>1, <1>5, <1>7 DEF IInv, Messages, TypeOK, Identities
<1>9. /\ clients' \in [Clients -> ClientRow]
      /\ \A d \in Clients : clients'[d].at \in {NoKey} \cup Identities
  BY <1>1 DEF IInv, TypeOK, OneIdentity
<1> QED BY <1>1, <1>7, <1>2, <1>6, <1>8, <1>9, MessageStep

\* A slot that goes on or ends keeps what its message is.
LEMMA SlotKept ==
    ASSUME IInv, rows' = rows, NEW s \in Slots,
           \/ Done(s)
           \/ slots[s].at = "update" /\ Goto(s, "dispatch")
           \/ slots' = [slots EXCEPT ![s].at = "act",
                            ![s].http = @ /\ slots[s].kind # "chat"]
    PROVE  slots' \in [Slots -> Handler] /\ Messages'
<1>1. /\ slots'[s] \in Handler
      /\ slots'[s].stamp \in {NoKey, slots[s].stamp}
      /\ slots'[s].at \in {"update", "dispatch"} => slots'[s].kind # "turn"
      /\ slots' = [slots EXCEPT ![s] = slots'[s]]
  <2> slots \in [Slots -> Handler] /\ slots[s] \in Handler
    BY DEF IInv, TypeOK
  <2>1. CASE Done(s)
    BY <2>1, IdleHandler DEF Done
  <2>2. CASE slots[s].at = "update" /\ Goto(s, "dispatch")
    <3>1. slots[s].kind # "turn"
      BY <2>2 DEF IInv, Messages
    <3> QED BY <2>2, <3>1 DEF Goto, Handler
  <2>3. CASE slots' = [slots EXCEPT ![s].at = "act",
                           ![s].http = @ /\ slots[s].kind # "chat"]
    <3> DEFINE b == slots[s].http /\ slots[s].kind # "chat"
    <3>1. b \in BOOLEAN
      OBVIOUS
    <3>2. slots' = [slots EXCEPT ![s] = [slots[s] EXCEPT !.at = "act", !.http = b]]
      BY <2>3
    <3> HIDE DEF b
    <3> QED BY <3>1, <3>2 DEF Handler
  <2> QED BY <2>1, <2>2, <2>3
<1>2. slots' \in [Slots -> Handler]
  BY <1>1 DEF IInv, TypeOK
<1>3. Messages'
  BY <1>1 DEF IInv, Messages, TypeOK, Identities
<1> QED BY <1>2, <1>3

\* The steps of a handler keep the invariant: what they write into a row is the
\* PeerId of this node, or none.
LEMMA HandleIInv == ASSUME IInv, NEW s \in Slots, Handle(s) PROVE IInv'
<1>1. CASE Stop
  BY <1>1, StopIInv
<1>2. CASE ~Stop
  <2>1. UNCHANGED lasting /\ (Fail \/ UNCHANGED counts)
    BY <1>2 DEF Handle, UpdatePeerClient, Dispatch, Act, Connect, Consensus,
       Forward, AuthHandler, Panic, msgRest
  <2>2. \/ UNCHANGED <<mem, blind>>
        \/ \E reads \in BOOLEAN :
              /\ mem' = [mem EXCEPT !.cached = GetFromCache(reads)]
              /\ blind' = (blind \/ ~reads)
    BY <1>2 DEF Handle, UpdatePeerClient, Dispatch, Act, Connect, Consensus,
       Forward, AuthHandler, Panic, msgRest
  <2>3. \/ Done(s)
        \/ slots[s].at = "update" /\ Goto(s, "dispatch")
        \/ slots' = [slots EXCEPT ![s].at = "act",
                         ![s].http = @ /\ slots[s].kind # "chat"]
    BY <1>2 DEF Handle, UpdatePeerClient, Dispatch, Act, Connect, Consensus,
       Forward, AuthHandler, Panic
  <2>4. rows' = rows
    BY <2>1 DEF lasting
  <2>5. slots' \in [Slots -> Handler] /\ Messages'
    BY <2>3, <2>4, SlotKept
  <2>7. /\ clients' \in [Clients -> ClientRow]
        /\ \A c \in Clients : clients'[c].at \in {NoKey} \cup Identities
    <3>1. slots[s].client \in Clients /\ slots[s].stamp \in Nat
      BY DEF IInv, TypeOK, Handler
    <3>2. slots[s].stamp \in {NoKey} \cup Identities
      BY DEF IInv, Messages
    <3>3. \A c \in Clients : clients[c].at \in {NoKey} \cup Identities
      BY DEF IInv, OneIdentity
    <3>4. \/ clients' = clients
          \/ clients' = [clients EXCEPT ![slots[s].client].up = TRUE,
                                        ![slots[s].client].at = slots[s].stamp]
          \/ clients' = [clients EXCEPT ![slots[s].client] =
                [stored |-> TRUE, up |-> TRUE, at |-> slots[s].stamp]]
      BY <1>2 DEF Handle, UpdatePeerClient, Dispatch, Act, Connect, Consensus,
         Forward, AuthHandler, Panic
    <3>5. clients \in [Clients -> ClientRow]
      BY DEF IInv, TypeOK
    <3>6. CASE clients' = clients
      BY <3>3, <3>5, <3>6
    <3> DEFINE d == slots[s].client
               r == slots[s].stamp
    <3>7. CASE clients' = [clients EXCEPT ![d].up = TRUE, ![d].at = r]
      <4>1. [clients[d] EXCEPT !.up = TRUE, !.at = r] \in ClientRow
        BY <3>1, <3>5 DEF ClientRow
      <4>2. [clients[d] EXCEPT !.up = TRUE, !.at = r].at = r
        BY <3>1, <3>5 DEF ClientRow
      <4>3. clients' = [clients EXCEPT ![d] = [clients[d] EXCEPT !.up = TRUE, !.at = r]]
        BY <3>7, <3>1, <3>5
      <4> HIDE DEF d, r
      <4> QED BY <4>1, <4>2, <4>3, <3>1, <3>2, <3>3, <3>5 DEF d, r
    <3>8. CASE clients' = [clients EXCEPT ![d] = [stored |-> TRUE, up |-> TRUE, at |-> r]]
      BY <3>8, <3>1, <3>2, <3>3, <3>5 DEF ClientRow
    <3> QED BY <3>4, <3>6, <3>7, <3>8
  <2> QED BY <2>1, <2>2, <2>5, <2>7, MessageStep
<1> QED BY <1>1, <1>2

----------------------------------------------------------------------------
(* The theorems.                                                            *)

\* Every step keeps the inductive invariant.
LEMMA StepIInv == IInv /\ [Next]_vars => IInv'
<1> SUFFICES ASSUME IInv, [Next]_vars PROVE IInv'
  OBVIOUS
<1>1. ASSUME NEW c \in Configs, Launch(c) PROVE IInv'
  BY <1>1, LaunchIInv
<1>2. CASE StartWeb
  BY <1>2, StartWebIInv
<1>3. CASE Start
  BY <1>3, MyselfKeyIInv, HostIInv, UpsertIInv, BootstrapIInv DEF Start
<1>4. CASE Kill
  BY <1>4, StopIInv
<1>5. ASSUME NEW p \in Peers,
             Dial(p) \/ Refresh(p) \/ Join(p) \/ Record(p) \/ Change(p)
      PROVE  IInv'
  BY <1>5, NetworkIInv
<1>6. ASSUME NEW s \in Slots, NEW k \in Kinds, NEW c \in Clients,
             NEW http \in BOOLEAN, Receive(s, k, c, http)
      PROVE  IInv'
  BY <1>6, ReceiveIInv
<1>7. ASSUME NEW s \in Slots, Handle(s) PROVE IInv'
  BY <1>7, HandleIInv
<1>8. CASE UNCHANGED vars
  <2>1. UNCHANGED <<pc, config, mem, slots, dialling, rows, clients, endpoints,
                    connected, reachable, generated, announced, known, tried,
                    unsaved, misread, blind, counts>>
    BY <1>8 DEF vars, store, network, history
  <2>2. TypeOK' /\ OneIdentity' /\ KnowsItself' /\ Messages' /\ Cached'
    BY <2>1 DEF IInv, TypeOK, OneIdentity, KnowsItself, Messages, Cached,
       Identities
  <2>3. Phase' /\ Dials'
    BY <2>1 DEF IInv, Phase, Dials, PeerInfosFromConf, Identities, MyRow
  <2> QED BY <2>2, <2>3 DEF IInv
<1> QED BY <1>1, <1>2, <1>3, <1>4, <1>5, <1>6, <1>7, <1>8 DEF Next

\* The node's starts, kills, messages and failing calls keep the inductive
\* invariant (libp2p/default.go:330-617).
THEOREM Invariance == Spec => []IInv
<1> QED BY InitIInv, StepIInv, PTL DEF Spec

\* The variables keep their types.
THEOREM StartTypes == Spec => []TypeOK
<1>1. IInv => TypeOK
  BY DEF IInv
<1> QED BY <1>1, Invariance, PTL

\* The other nodes and the clients' rows only ever know the node by an identity
\* that has a row, in whatever life, or by that of a process that ended between
\* its host and its row; and only a failed read makes a second identity
\* (libp2p/default.go:346-463, 515-617).
THEOREM IdentityKept == Spec => []OneIdentity
<1>1. IInv => OneIdentity
  BY DEF IInv
<1> QED BY <1>1, Invariance, PTL

\* A node that found its row when it started knows itself, unless the read that
\* filled its cache has failed (myselfpeer.go:69-97).
THEOREM RestartKnowsItself == Spec => []KnowsItself
<1>1. IInv => KnowsItself
  BY DEF IInv
<1> QED BY <1>1, Invariance, PTL

\* When libp2p.Start returns, everything a handler uses is there, whatever came
\* in between (libp2p/default.go:430-513).
THEOREM StartedIsReady == Spec => []UpMeansReady
<1>1. IInv => UpMeansReady
  BY DEF IInv, Phase, UpMeansReady, Written, Served
<1> QED BY <1>1, Invariance, PTL

\* A process stops by itself only on a wrong configuration, on a call for its
\* host, its row or its DHT that fails, or on a message that came before the
\* start was done.
LEMMA StepStops ==
    ASSUME IInv, [Next]_vars, pc' = "stopped", pc # "stopped"
    PROVE  \/ Misconfigured
           \/ pc \in {"host", "row", "dht"} /\ counts' # counts
           \/ /\ pc # "up"
              /\ \E s \in Slots : slots[s].at # "idle" /\ slots[s].kind # "turn"
<1>0. Happens => counts' # counts
  BY DEF Happens, IInv, TypeOK
<1>1. CASE StartWeb
  BY <1>1 DEF StartWeb, Misconfigured
<1>2. CASE Start
  BY <1>0, <1>2 DEF Start, StopFailing, Fail, MyselfKey, LoadKey, CreateKey, NewHost, UpsertMyselfPeer,
     ChainProtocolStream, NewPeerEndpointDHT, Bootstrap, RegisterPush,
     Misconfigured
<1>3. ASSUME NEW p \in Peers,
             Dial(p) \/ Refresh(p) \/ Join(p) \/ Record(p) \/ Change(p)
      PROVE  Misconfigured
  <2>1. p \in dialling /\ Where[p] = "none"
    BY <1>3 DEF Dial, Refresh, Join, Record, Change, netRest
  <2> QED BY <2>1 DEF IInv, Dials, Misconfigured
<1>4. ASSUME NEW s \in Slots, Handle(s)
      PROVE  /\ pc # "up" /\ slots[s].at # "idle" /\ slots[s].kind # "turn"
  <2>1. /\ slots[s].at = "update" \/ slots[s].kind # "turn"
        /\ slots[s].at \in {"update", "act"}
        /\ ~mem.dht \/ ~mem.push
    BY <1>4 DEF Handle, UpdatePeerClient, Dispatch, Act, Connect, Consensus,
       Forward, AuthHandler, Panic, Needed, msgRest, lasting
  <2> QED BY <2>1 DEF IInv, Messages, Phase, Served
<1>5. ~(\E c \in Configs : Launch(c)) /\ ~Kill /\ pc' # pc
  BY DEF Launch, Kill, End
<1>6. \A s \in Slots, k \in Kinds, c \in Clients, http \in BOOLEAN :
         ~Receive(s, k, c, http)
  BY <1>5 DEF Receive, msgRest, lasting
<1> QED BY <1>1, <1>2, <1>3, <1>4, <1>5, <1>6 DEF Next, vars

\* The process's own panics are accounted for (libp2p/default.go:430-513,
\* std/default.go:90, peerclient.go:430).
THEOREM StopsExplained == Spec => Stops
<1>1. IInv /\ [Next]_vars =>
        [ pc' = "stopped" /\ pc # "stopped" =>
            \/ Misconfigured
            \/ pc \in {"host", "row", "dht"} /\ counts' # counts
            \/ /\ pc # "up"
               /\ \E s \in Slots : slots[s].at # "idle" /\ slots[s].kind # "turn"
        ]_vars
  BY StepStops
<1> QED BY <1>1, Invariance, PTL DEF Spec, Stops
=============================================================================
