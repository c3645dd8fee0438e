----------------------------- MODULE NodeStart -----------------------------
(***************************************************************************)
(* The start of a node and its restarts (main.go, libp2p/default.go,       *)
(* libp2p/bootstrap.go, libp2p/dht.go).                                    *)
(*                                                                         *)
(* main starts the websocket and HTTP server in a goroutine and then calls *)
(* libp2p.Start, which sets the globals of the process one after another:  *)
(* the key pair, the libp2p host, the node's own row and PeerId, the       *)
(* stream handler, the DHT, the push client.  Nothing makes the server     *)
(* wait: a message is handled with the globals it finds.  The row of       *)
(* MyselfPeer, the PeerClient rows and the PeerEndpoint rows outlive the   *)
(* process, which can be killed between any two steps, be stopped by its   *)
(* own panic, and be started again with another configuration.  A call of  *)
(* the database or of the network can fail; much of the code goes on as if *)
(* there were nothing to be read or to be written.                         *)
(*                                                                         *)
(* A key pair is a number: the n-th the node has generated; the identity   *)
(* (PeerId) derived from it is the same number.                            *)
(***************************************************************************)
EXTENDS Naturals, Sequences

CONSTANTS
    Configs,     \* the configurations the operator starts the node with
    Peers,       \* the other nodes
    Where,       \* of each: where its address points
    Me,          \* stands for this node's own address in a configuration
    Clients,     \* the clients that connect
    Slots,       \* the messages that can be handled at a time
    MaxStarts,   \* bound on the starts
    MaxEvents    \* bound on the messages, the changes of what is reachable
                 \* and the calls that fail

NoKey == 0

\* The settings the start depends on.  web: how the HTTP server is to serve.
Settings ==
    [password : STRING, name : STRING, email : STRING, address : STRING,
     websocket : BOOLEAN, wss : BOOLEAN, quic : BOOLEAN,
     defaultPing : BOOLEAN, protocol : BOOLEAN, pushFile : BOOLEAN,
     web : {"plain", "domain", "cert", "noCert"}, standalone : BOOLEAN,
     turn : BOOLEAN, turnHost : BOOLEAN, bootstraps : Seq(Peers \cup {Me})]

ASSUME StartAssumption ==
    /\ Configs \subseteq Settings
    /\ Where \in [Peers -> {"global", "local", "none"}]
    /\ Me \notin Peers /\ Clients # {}
    /\ MaxStarts \in Nat /\ MaxEvents \in Nat

VARIABLES
    pc,         \* what libp2p.Start does next
    config,     \* the configuration of this start
    mem,        \* the globals of the process
    slots,      \* the messages being handled
    dialling,   \* the peers Bootstrap's goroutines have yet to dial
    rows,       \* database: this node's rows of MyselfPeer
    clients,    \* database: its PeerClient rows
    endpoints,  \* database: the peers with a PeerEndpoint row
    connected,  \* the peers with a libp2p connection
    reachable,  \* the peers that are up
    generated,  \* the key pairs generated so far
    announced,  \* history: the identities the other nodes have seen
    known,      \* history: the peers this start was to dial
    tried,      \* history: the peers it has dialled
    unsaved,    \* history: the identities seen that have no row
    misread,    \* history: a start took its row for missing
    blind,      \* history: this process did so when it filled its cache
    counts      \* the starts and the events so far

store == <<rows, clients, endpoints>>
network == <<connected, reachable>>
history == <<announced, known, tried, unsaved, misread, blind>>
vars == <<pc, config, mem, slots, dialling, store, network, generated,
          history, counts>>

----------------------------------------------------------------------------
(* Types and the initial state.                                            *)

Phases == {"key", "host", "row", "streams", "dht", "bootstrap", "push", "up"}
alive == pc \in Phases

\* web: stdhttp.Start; found: getMyselfPeer read the row; cached: the
\* MyselfPeer in MemCache, of which only whether it is empty matters.
Globals ==
    [web : {"off", "starting", "listening", "failed"}, turn : BOOLEAN,
     key : Nat, found : BOOLEAN, peerId : Nat, streams : BOOLEAN,
     dht : BOOLEAN, push : BOOLEAN, cached : {"none", "empty", "known"}]

Cleared ==
    [web |-> "off", turn |-> FALSE, key |-> NoKey, found |-> FALSE,
     peerId |-> NoKey, streams |-> FALSE, dht |-> FALSE, push |-> FALSE,
     cached |-> "none"]

Kinds == {"connect", "consensus", "chat", "push", "turn"}

\* stamp: the PeerId ReceiveRaw put in; http: net/http recovers a panic.
Handler ==
    [at : {"idle", "update", "dispatch", "act"}, kind : Kinds,
     client : Clients, stamp : Nat, http : BOOLEAN]

Idle == [at |-> "idle", kind |-> "turn", client |-> CHOOSE c \in Clients : TRUE,
         stamp |-> NoKey, http |-> FALSE]

\* at: ConnectPeerId.
ClientRow == [stored : BOOLEAN, up : BOOLEAN, at : Nat]

Profiles == [name : STRING, email : STRING, address : STRING]
Profile(c) == [name |-> c.name, email |-> c.email, address |-> c.address]

\* Nothing keeps the table of MyselfPeer from having two rows.
SelfRow == [key : Nat, password : STRING, profile : Profiles]
Identities == {r.key : r \in rows}

\* The types of the variables.
TypeOK ==
    /\ pc \in Phases \cup {"off", "stopped"}
    /\ config \in Configs
    /\ mem \in Globals
    /\ slots \in [Slots -> Handler]
    /\ dialling \subseteq Peers
    /\ rows \subseteq SelfRow
    /\ clients \in [Clients -> ClientRow]
    /\ endpoints \subseteq Peers /\ connected \subseteq Peers
    /\ reachable \subseteq Peers
    /\ generated \in Nat
    /\ announced \subseteq Nat /\ known \subseteq Peers /\ tried \subseteq Peers
    /\ unsaved \subseteq Nat /\ misread \in BOOLEAN /\ blind \in BOOLEAN
    /\ counts \in [starts : Nat, events : Nat]

Init ==
    /\ pc = "off" /\ config \in Configs
    /\ mem = Cleared /\ slots = [s \in Slots |-> Idle]
    /\ dialling = {} /\ rows = {}
    /\ clients = [c \in Clients |-> [stored |-> FALSE, up |-> FALSE,
                                     at |-> NoKey]]
    /\ endpoints = {} /\ connected = {}
    /\ reachable = {p \in Peers : Where[p] # "none"}
    /\ generated = 0 /\ announced = {} /\ known = {} /\ tried = {}
    /\ unsaved = {} /\ misread = FALSE /\ blind = FALSE
    /\ counts = [starts |-> 0, events |-> 0]

----------------------------------------------------------------------------
(* The process: its start, its end.                                        *)

\* The process ends; what its goroutines did ends with it.
End(how) ==
    /\ pc' = how
    /\ mem' = Cleared /\ slots' = [s \in Slots |-> Idle]
    /\ dialling' = {} /\ connected' = {} /\ tried' = {} /\ blind' = FALSE
    /\ UNCHANGED <<config, store, reachable, generated, announced, known,
                   unsaved, misread>>

Happens ==
    /\ counts.events < MaxEvents
    /\ counts' = [counts EXCEPT !.events = @ + 1]

\* A call of the database or of the network fails.
Fail == Happens

\* An unrecovered panic; one on a call that failed.
Stop == End("stopped") /\ UNCHANGED counts
StopFailing == End("stopped") /\ Fail

\* The process is killed, or its host goes down.
Kill == alive /\ End("off") /\ UNCHANGED counts

\* The PeerClient service's init: no client is connected yet.
Disconnected == [c \in Clients |-> [clients[c] EXCEPT !.up = FALSE]]

\* turnServer.Start: an address in use or missing is logged, no more.
TurnListens(c) == c.turn /\ c.turnHost

\* The packages' init functions, whose calls are taken to succeed, and main.
Launch(c) ==
    /\ ~alive /\ counts.starts < MaxStarts
    /\ config' = c /\ pc' = "key"
    /\ mem' = [Cleared EXCEPT !.web = "starting", !.turn = TurnListens(c)]
    /\ clients' = Disconnected
    /\ counts' = [counts EXCEPT !.starts = @ + 1]
    /\ known' = {}
    /\ UNCHANGED <<slots, dialling, rows, endpoints, network, generated,
                   announced, tried, unsaved, misread, blind>>

\* HttpListenAndServeTLS wants both files.
HasCertificate(c) == c.web # "noCert"

\* stdhttp.Start: a server that cannot serve, or listen, is logged, no more.
Serves(c) == HasCertificate(c)

\* The goroutine of main.  In "standalone" mode the package's init has started
\* another, and the second to register the paths panics.
StartWeb ==
    /\ alive /\ mem.web = "starting"
    /\ \/ config.standalone /\ Stop
       \/ /\ ~config.standalone
          /\ \/ /\ Serves(config) /\ mem' = [mem EXCEPT !.web = "listening"]
                /\ UNCHANGED counts
             \/ /\ mem' = [mem EXCEPT !.web = "failed"]
                /\ IF Serves(config) THEN Fail ELSE UNCHANGED counts
          /\ UNCHANGED <<pc, config, slots, dialling, store, network,
                         generated, history>>

----------------------------------------------------------------------------
(* libp2p.Start, step by step.                                             *)

startRest == <<config, slots, clients, endpoints, network, announced, tried,
               unsaved, blind>>

\* Fault: a row the password does not open gives way to a new key pair.
LoadKeyOrNew ==
    \E r \in rows :
        /\ IF r.password = config.password
           THEN /\ mem' = [mem EXCEPT !.key = r.key, !.found = TRUE]
                /\ UNCHANGED generated
           ELSE /\ generated' = generated + 1
                /\ mem' = [mem EXCEPT !.key = generated']
        /\ pc' = "host"
        /\ UNCHANGED <<startRest, dialling, rows, known, misread, counts>>

\* getMyselfPeer: the key pair of a row, which the password opens.  If there
\* are two rows the database chooses.
LoadKey ==
    \E r \in rows :
        \/ r.password # config.password /\ Stop
        \/ /\ r.password = config.password
           /\ mem' = [mem EXCEPT !.key = r.key, !.found = TRUE]
           /\ pc' = "host"
           /\ UNCHANGED <<startRest, dialling, rows, generated, known, misread,
                          counts>>

\* Without a row, or one that could be read, a new key pair, which so far only
\* this process has.
CreateKey ==
    \/ /\ "" \in {config.name, config.email}
       /\ (rows = {} /\ Stop) \/ StopFailing
    \/ /\ config.name # "" /\ config.email # ""
       /\ (rows = {} /\ UNCHANGED counts) \/ Fail
       /\ misread' = (misread \/ rows # {})
       /\ generated' = generated + 1
       /\ mem' = [mem EXCEPT !.key = generated']
       /\ pc' = "host"
       /\ UNCHANGED <<startRest, dialling, rows, known>>

MyselfKey ==
    /\ pc = "key"
    /\ \/ config.password = "" /\ Stop
       \/ config.password # "" /\ (LoadKey \/ CreateKey)

\* listenAddr, for a configuration that lists no address itself.
Addresses(c) ==
    {"ws"} \cup (IF c.websocket THEN {} ELSE {"tcp"})
           \cup (IF c.wss THEN {"wss"} ELSE {})

\* The transports p2pOptions registers; none leaves libp2p its own.
Registered(c) ==
    (IF c.quic THEN <<"quic">> ELSE <<>>)
    \o (IF c.websocket THEN <<"ws">> ELSE <<>>)
    \o (IF c.wss THEN <<"tcp", "ws">> ELSE <<>>)

\* p2pOptions without the default ping calls a host that is not there yet.
\* Its security, connection manager, NAT, relay and address options stop
\* nothing.
OptionsBuilt(c) == c.defaultPing

\* libp2p.New: no protocol has two transports, and one address has one.
HostListens(c) ==
    LET ts == Registered(c) IN
    /\ \A i, j \in 1 .. Len(ts) : ts[i] = ts[j] => i = j
    /\ \/ Len(ts) = 0
       \/ \E i \in 1 .. Len(ts) :
             ts[i] \in Addresses(c) \/ (ts[i] = "ws" /\ "wss" \in Addresses(c))

\* From here on other nodes can connect; the ports may be in use.
NewHost ==
    /\ pc = "host"
    /\ \/ ~(OptionsBuilt(config) /\ HostListens(config)) /\ Stop
       \/ StopFailing
       \/ /\ OptionsBuilt(config) /\ HostListens(config)
          /\ pc' = "row"
          /\ UNCHANGED <<startRest, mem, dialling, rows, generated, known,
                         misread, counts>>

MyRow == [key |-> mem.key, password |-> config.password,
          profile |-> Profile(config)]

\* upsertMyselfPeer: a new row is inserted, one that was found is made to say
\* what the configuration says; then the process knows its PeerId.
UpsertMyselfPeer ==
    /\ pc = "row"
    /\ \/ mem.found /\ (config.name = "" \/ config.email = "") /\ Stop
       \/ MyRow \notin rows /\ StopFailing
       \/ /\ mem.found => config.name # "" /\ config.email # ""
          /\ rows' = {r \in rows : r.key # mem.key} \cup {MyRow}
          /\ unsaved' = unsaved \ {mem.key}
          /\ mem' = [mem EXCEPT !.peerId = mem.key]
          /\ pc' = "streams"
          /\ UNCHANGED <<config, slots, clients, endpoints, network, announced,
                         tried, blind, dialling, generated, known, misread,
                         counts>>

ChainProtocolStream ==
    /\ pc = "streams"
    /\ \/ ~config.protocol /\ Stop
       \/ /\ config.protocol
          /\ mem' = [mem EXCEPT !.streams = TRUE]
          /\ pc' = "dht"
          /\ UNCHANGED <<startRest, dialling, rows, generated, known, misread,
                         counts>>

NewPeerEndpointDHT ==
    /\ pc = "dht"
    /\ \/ StopFailing
       \/ /\ mem' = [mem EXCEPT !.dht = TRUE]
          /\ pc' = "bootstrap"
          /\ UNCHANGED <<startRest, dialling, rows, generated, known, misread,
                         counts>>

\* The configured peers, except those at an address of this host.
PeerInfosFromConf == {config.bootstraps[i] : i \in 1 .. Len(config.bootstraps)}

\* The peers of the table: its rows' addresses can be read, for upsert wrote
\* them, each at its own node.  A read that fails gives none.
PeerInfosFromStore(reads) == IF reads THEN endpoints ELSE {}

\* Fault: the peers of earlier lives are left out.
PeerInfosOfConf(reads) == {p \in PeerInfosFromConf \ {Me} : Where[p] # "local"}

\* GetPeerInfos, without the node itself, which Bootstrap skips.
PeerInfos(reads) ==
    {p \in PeerInfosFromConf \ {Me} : Where[p] # "local"}
    \cup PeerInfosFromStore(reads)

\* Bootstrap: a goroutine for each of them.
Bootstrap ==
    /\ pc = "bootstrap"
    /\ \E reads \in BOOLEAN :
          /\ IF reads THEN UNCHANGED counts ELSE Fail
          /\ dialling' = PeerInfos(reads)
          /\ known' = (PeerInfosFromConf \ {Me}) \cup PeerInfosFromStore(reads)
    /\ pc' = "push"
    /\ UNCHANGED <<startRest, mem, rows, generated, misread>>

\* The push client last: without its file the node stops after all.
RegisterPush ==
    /\ pc = "push"
    /\ \/ ~config.pushFile /\ Stop
       \/ /\ config.pushFile
          /\ mem' = [mem EXCEPT !.push = TRUE]
          /\ pc' = "up"
          /\ UNCHANGED <<startRest, dialling, rows, generated, known, misread,
                         counts>>

Start ==
    \/ MyselfKey \/ NewHost \/ UpsertMyselfPeer \/ ChainProtocolStream
    \/ NewPeerEndpointDHT \/ Bootstrap \/ RegisterPush

----------------------------------------------------------------------------
(* The other nodes.                                                        *)

netRest == <<pc, config, mem, slots, rows, clients, generated, known, misread,
             blind, counts>>

\* A connection: the peer sees this node's identity.
Connected(p) ==
    /\ connected' = connected \cup {p}
    /\ announced' = announced \cup {mem.key}
    /\ unsaved' = IF pc = "row" /\ ~mem.found THEN unsaved \cup {mem.key} ELSE unsaved

\* A goroutine of Bootstrap, one attempt.  A configured address that names a
\* peer and no place has no Addrs[0].
Dial(p) ==
    /\ p \in dialling
    /\ \/ Where[p] = "none" /\ Stop
       \/ /\ Where[p] # "none"
          /\ dialling' = dialling \ {p}
          /\ \/ /\ Where[p] = "local"
                /\ UNCHANGED <<connected, announced, unsaved, tried>>
             \/ /\ Where[p] = "global"
                /\ tried' = tried \cup {p}
                /\ IF p \in reachable THEN Connected(p)
                   ELSE UNCHANGED <<connected, announced, unsaved>>
          /\ UNCHANGED <<netRest, endpoints, reachable>>

\* Fault: the options keep the first configured peer.
RefreshPeersFirst ==
    IF config.bootstraps = <<>> THEN {} ELSE {Head(config.bootstraps)} \ {Me}

\* dhtOptions gives the DHT an option per configured peer, and each replaces
\* the one before.
RefreshPeers ==
    IF config.bootstraps = <<>> THEN {}
    ELSE {config.bootstraps[Len(config.bootstraps)]} \ {Me}

\* The DHT, whose table is empty, turns to the peer it was configured with.
Refresh(p) ==
    /\ mem.dht /\ connected = {}
    /\ p \in RefreshPeers \cap reachable /\ Where[p] # "none"
    /\ Connected(p)
    /\ UNCHANGED <<netRest, dialling, endpoints, reachable, tried>>

\* A peer dials this node, whose host listens.
Join(p) ==
    /\ pc \in Phases \ {"key", "host"}
    /\ p \in reachable \ connected /\ Where[p] = "global"
    /\ Connected(p)
    /\ UNCHANGED <<netRest, dialling, endpoints, reachable, tried>>

\* A peer that finds this node speak the DHT's protocol sends its PEERENDPOINT
\* message; a row that cannot be written is lost.
Record(p) ==
    /\ mem.dht /\ p \in connected \ endpoints
    /\ endpoints' = endpoints \cup {p}
    /\ UNCHANGED <<netRest, dialling, connected, reachable, announced, unsaved,
                   tried>>

\* A peer goes down, or comes up again.
Change(p) ==
    /\ Happens
    /\ Where[p] # "none"
    /\ \/ p \in reachable /\ reachable' = reachable \ {p}
       \/ p \notin reachable /\ reachable' = reachable \cup {p}
    /\ connected' = connected \cap reachable'
    /\ UNCHANGED <<pc, config, mem, slots, dialling, store, generated, history>>

----------------------------------------------------------------------------
(* Messages.                                                               *)

lasting == <<pc, config, dialling, rows, endpoints, network, generated,
             announced, known, tried, unsaved, misread>>
msgRest == <<lasting, blind>>

Goto(s, at) == slots' = [slots EXCEPT ![s].at = at]
Done(s) == slots' = [slots EXCEPT ![s] = Idle]

\* A nil global is used: net/http recovers for receiveHandler, nothing does
\* for the loops of a websocket or a stream.
Panic(s) ==
    \/ ~slots[s].http /\ Stop
    \/ slots[s].http /\ Done(s) /\ UNCHANGED <<mem, clients, counts, msgRest>>

\* ReceiveRaw writes the PeerId of the moment into the message.
Stamp == mem.peerId

\* A message comes in, over HTTP (receiveHandler), a websocket or a stream; the
\* TURN server's requests to authenticate are its own.
Receive(s, k, c, http) ==
    /\ alive /\ slots[s].at = "idle" /\ Happens
    /\ IF k = "turn" THEN mem.turn /\ ~http
       ELSE mem.web = "listening" \/ (mem.streams /\ ~http)
    /\ slots' = [slots EXCEPT ![s] =
           [at |-> IF k = "turn" THEN "act" ELSE "update", kind |-> k,
            client |-> c, stamp |-> Stamp, http |-> http]]
    /\ UNCHANGED <<mem, clients, msgRest>>

\* UpdatePeerClient: a row of the sender is read through the DHT's validator;
\* one that is not up is made so, unless the table cannot be read or written.
UpdatePeerClient(s) ==
    LET c == slots[s].client IN
    /\ slots[s].at = "update"
    /\ \/ clients[c].stored /\ ~mem.dht /\ Panic(s)
       \/ /\ clients[c].stored => mem.dht
          /\ clients' = IF clients[c].stored /\ ~clients[c].up
                        THEN [clients EXCEPT ![c].up = TRUE,
                                             ![c].at = slots[s].stamp]
                        ELSE clients
          /\ Goto(s, "dispatch")
          /\ UNCHANGED <<mem, counts, msgRest>>
       \/ /\ Fail /\ Goto(s, "dispatch")
          /\ UNCHANGED <<mem, clients, msgRest>>

\* IsMyself finds the empty PeerId in every other.
IsMyself == mem.peerId = NoKey

\* Dispatch: a message for another node's client is relayed by a goroutine of
\* its own, unless it is taken for one to this node; then no handler keeps it.
Dispatch(s) ==
    /\ slots[s].at = "dispatch"
    /\ IF slots[s].kind = "chat" /\ IsMyself
       THEN Done(s)
       ELSE slots' = [slots EXCEPT ![s].at = "act",
                          ![s].http = @ /\ slots[s].kind # "chat"]
    /\ UNCHANGED <<mem, clients, counts, msgRest>>

\* ConnectAction: PutValues goes through the DHT.
Connect(s) ==
    /\ slots[s].kind = "connect"
    /\ \/ ~mem.dht /\ Panic(s)
       \/ /\ mem.dht
          /\ clients' = [clients EXCEPT ![slots[s].client] =
                             [stored |-> TRUE, up |-> TRUE, at |-> slots[s].stamp]]
          /\ Done(s)
          /\ UNCHANGED <<mem, counts, msgRest>>
       \/ /\ mem.dht /\ Fail /\ Done(s)
          /\ UNCHANGED <<mem, clients, msgRest>>

\* Fault: the cache is filled with the row only once the node is up.
GetFromCacheLate(reads) ==
    CASE mem.cached # "none" -> mem.cached
      [] rows # {} /\ reads /\ pc = "up" -> "known"
      [] OTHER -> "empty"

\* MyselfPeerService.GetFromCache: what is found first is kept; a read that
\* fails finds nothing.
GetFromCache(reads) ==
    CASE mem.cached # "none" -> mem.cached
      [] rows # {} /\ reads -> "known"
      [] OTHER -> "empty"

\* StdConsensus.ReceiveConsensus: refused without MyselfPeer, else the
\* neighbours are asked of the DHT's table.
Consensus(s) ==
    /\ slots[s].kind = "consensus"
    /\ \E reads \in BOOLEAN :
          LET nilTable == GetFromCache(reads) = "known" /\ ~mem.dht IN
          /\ reads \/ mem.cached = "none"
          /\ \/ nilTable /\ ~slots[s].http /\ Stop
             \/ /\ nilTable => slots[s].http
                /\ mem' = [mem EXCEPT !.cached = GetFromCache(reads)]
                /\ blind' = (blind \/ ~reads)
                /\ IF reads THEN UNCHANGED counts ELSE Fail
                /\ Done(s)
                /\ UNCHANGED <<clients, lasting>>

\* Lookup, for a relay; the push client, for a notification.
Needed(k) == IF k = "chat" THEN mem.dht ELSE mem.push

Forward(s) ==
    /\ slots[s].kind \in {"chat", "push"}
    /\ \/ ~Needed(slots[s].kind) /\ Panic(s)
       \/ /\ Needed(slots[s].kind) /\ Done(s)
          /\ UNCHANGED <<mem, clients, counts, msgRest>>

\* Fault: the DHT is asked for the client's row whether it is there or not.
AuthHandlerAsking(s) ==
    /\ slots[s].kind = "turn"
    /\ \/ ~mem.dht /\ Panic(s)
       \/ mem.dht /\ Done(s) /\ UNCHANGED <<mem, clients, counts, msgRest>>

\* authHandler: the client's row if there is a DHT, the configured users else.
AuthHandler(s) ==
    /\ slots[s].kind = "turn"
    /\ Done(s) /\ UNCHANGED <<mem, clients, counts, msgRest>>

Act(s) ==
    /\ slots[s].at = "act"
    /\ Connect(s) \/ Consensus(s) \/ Forward(s) \/ AuthHandler(s)

Handle(s) == UpdatePeerClient(s) \/ Dispatch(s) \/ Act(s)

----------------------------------------------------------------------------
Next ==
    \/ \E c \in Configs : Launch(c)
    \/ StartWeb \/ Start \/ Kill
    \/ \E p \in Peers : Dial(p) \/ Refresh(p) \/ Join(p) \/ Record(p) \/ Change(p)
    \/ \E s \in Slots, k \in Kinds, c \in Clients, http \in BOOLEAN :
          Receive(s, k, c, http)
    \/ \E s \in Slots : Handle(s)

Spec == Init /\ [][Next]_vars

\* The goroutines of the process run on; whether it is started, killed or sent
\* messages is left open.  The DHT refreshes its table again and again.
FairSpec ==
    /\ Spec
    /\ WF_vars(StartWeb \/ Start)
    /\ WF_vars(\E p \in Peers : Dial(p))
    /\ WF_vars(\E p \in Peers : Refresh(p))

----------------------------------------------------------------------------
(* Properties.                                                             *)

\* A client's row names an identity of a row of this node's, and so does what
\* another node has seen, in every later life too, except the key pair of a
\* process that ended between its host and its row.  The node has one identity
\* as long as no start took its row for missing (libp2p/default.go:346-463).
OneIdentity ==
    /\ announced \subseteq Identities \cup unsaved
    /\ {clients[c].at : c \in Clients} \subseteq {NoKey} \cup Identities
    /\ ~misread => \A q, r \in rows : q.key = r.key

\* A node that is up has everything a handler uses, and a row of its says what
\* this start's configuration says, under the key pair the host runs with.
UpMeansReady ==
    pc = "up" =>
        /\ mem.streams /\ mem.dht /\ mem.push
        /\ mem.peerId = mem.key /\ MyRow \in rows

\* A node does not know itself, and refuses every consensus request until it
\* is started again, only in the life that inserted its row, where a request
\* that came before had the empty answer cached, or after the read that was to
\* fill the cache has failed (myselfpeer.go:69-97).
KnowsItself ==
    mem.cached = "empty" => ~mem.found \/ blind

Misconfigured ==
    \/ config.standalone \/ ~OptionsBuilt(config) \/ ~HostListens(config)
    \/ ~config.protocol \/ ~config.pushFile
    \/ "" \in {config.password, config.name, config.email}
    \/ \E r \in rows : r.password # config.password
    \/ \E p \in PeerInfosFromConf \ {Me} : Where[p] = "none"

\* A process stops by itself only when its configuration is at fault, when its
\* host, its row or its DHT could not be made, or when a message other than
\* TURN's came before the start was done.
Stops ==
    [][ pc' = "stopped" /\ pc # "stopped" =>
            \/ Misconfigured
            \/ pc \in {"host", "row", "dht"} /\ counts' # counts
            \/ /\ pc # "up"
               /\ \E s \in Slots : slots[s].at # "idle" /\ slots[s].kind # "turn"
      ]_vars

\* A node that stays up dials every peer it is configured with and every peer
\* that ever sent it its record, whichever life that was in, if it could read
\* the records.
Tried ==
    pc = "up" ~> (pc # "up" \/ {p \in known : Where[p] = "global"} \subseteq tried)

Refreshable ==
    {p \in PeerInfosFromConf \cap reachable :
        Where[p] # "none" /\ p = config.bootstraps[Len(config.bootstraps)]}

\* A node that stays up, and is alone, is connected again while the last peer
\* of its configuration is up; the others are dialled once, at the start.
Joined ==
    (pc = "up" /\ Refreshable # {}) ~> (pc # "up" \/ connected # {} \/ Refreshable = {})
=============================================================================
