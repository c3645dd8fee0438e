# go-colla-node in TLA+

A verification development for the peer endpoint (the "node") of the Colla
network: TLA+ models of the node's protocols, the TLC runs that check them on
small instances, and theorems that TLAPS proves for every instance.

The section *Inventory* describes the system, *Modules* what is modelled and
how it corresponds to the code, *Runs* and *Bounds* what TLC checks, *Fairness*
what the liveness properties assume, *Proofs* what is proved, *What the models
show* what a reader of the code may want to know, *Not modelled* what is left
out and why.

## Inventory

A node keeps a data base (xorm), takes part in a Kademlia DHT (libp2p), accepts
web clients over websockets and libp2p streams, relays messages between clients
and nodes, stores data blocks under a small replication protocol, and has the
beginnings of a media server on WebRTC.

| component | state it keeps | operations | hard behaviour | what makes it correct |
|---|---|---|---|---|
| std consensus (`consensus/std`) | `MemCache`: pending block per (block, slice), reply log per (primary, block, slice, follower) | ReceiveConsensus, ReceiveCommited, ReceiveReply, finalCommit | replies handled concurrently, several submissions of one block, lost messages, restart, one object shared by several goroutines | a commit rests on enough followers that stored the block, the client is told only afterwards |
| pbft and raft variants (`consensus/pbft`, `consensus/raft`) | as std, with prepared logs | the handlers of each phase | the count of answers while a second submission replaces the block | a decision stands on answers that were asked for |
| block store (`p2p/chain/service`) | rows of blc_datablock, blc_transactionkey, blc_peertransaction, content files | StoreValue, DeleteExpiredDB, QueryValue, PutPTs | slices arrive independently; later steps fail after earlier ones were written | what was acknowledged stays readable; slices, keys and transactions agree |
| DHT records (`libp2p/dht`, `libp2p/datastore`, `libp2p/ns`) | the same tables, seen as DHT records | PutLocal, PutValue, GetValues, the queries, Put and Get | a level-2 query deletes the local rows, asks the network, restores them | a query loses nothing and finds what others hold |
| endpoint records (`libp2p/dht.go`, `peerendpoint.go`) | blc_peerendpoint, routing table | PEERENDPOINT, PeerAdded, PeerRemoved | late messages against changes of status, two clocks | a removed peer stays down, a staying one is up |
| websocket transport (`transport/websocket/stdhttp`) | pool by session id, three goroutines and two channels per connection | websocketHandler, loopRead, loopWrite, loopHeartbeat, Close, SendRaw | goroutines close a connection one after the other | an ended connection is forgotten, nobody stays blocked |
| libp2p streams (`libp2p/pipe`) | pools of connections and pipes | CreatePipe, Read, Write, Connected, Disconnected | late goroutines of an ended connection, pipes of reset streams | a client that is up has a pipe; answers stay on their stream |
| client presence (`p2p/chain/handler/receiver`, `connect.go`) | PeerClient records, client pool | ReceiveRaw, UpdatePeerClient, HandleDisconnected, CONNECT | disconnect of an old session after the client returned | the record names a session the client uses |
| message relay (`p2p/chain/handler/sender`, `p2p/msg/service/biz`) | blc_chainmessage | RelaySend, Lookup, ForwardPeerClient, ForwardPeerEndpoint, biz.RelaySend, DeleteTimeout | client connects while a message is stored; nodes disagree on where it is | a chat is delivered, stored or among named losses; it does not circle |
| message dispatch and encryption (`p2p/chain/handler`) | handler table | Dispatch, Encrypt, GetPublicKey, Decrypt | several rows with keys, messages before the start is done | a sealed message opens at its target |
| DHT actions (`p2p/chain/action/dht`) | none of their own; the vendor's token | the handler of each message type | handlers race for a global token | one notification per chat |
| WebRTC peers (`webrtc`) | maps of connections per peer and client | onWebrtcSignal, create, Init, Close, remove | a goroutine per signal and no lock | a connection that is open can be found |
| SFU rooms (`webrtc/sfu.go`) | per room: members, publishers with lists, subscribers | Join, Leave, Destroy | joins that fail half-way, rooms destroyed under their members | the tables of a room agree |
| LiveKit rooms (`livekit`, `manageroom.go`) | none; the server's rooms | create, delete, list | a server that fails after it has acted | an answer tells what was so |
| libp2p host, TURN (`libp2p`, `turn`, `main.go`) | the globals of the process, MyselfPeer | Start step by step, Bootstrap, authHandler | messages before the start is done, kills between two steps, reads whose failure goes unnoticed | one identity as long as the row can be read |
| media, mail, SIP, proxies | little or none | | | |

How they interact: a message from a websocket or a stream goes through
`ReceiveRaw` to the presence update and then to `Dispatch`, which hands it to the
action of its type or, if it is for another, to `sender.RelaySend`; that looks the
target up in the PeerClient records and writes to the websocket pool, to a pipe,
to another node, or, failing all, to the message table. The consensus handlers
are registered like actions; they call the block store, whose writes go on to
the DHT as PeerTransaction records. `main` starts the server beside
`libp2p.Start`, on whose globals every handler depends.

## Modules

| module | models | composed in | proofs |
|---|---|---|---|
| `StdConsensus` | `consensus/std` with `MemCache`, its messages and `StoreValue` of one slice, on several nodes | implements `QuorumCommit` | `StdConsensus_proofs` |
| `VariantConsensus` | `consensus/raft` and `consensus/pbft`, as far as their messages get | | `VariantConsensus_proofs` |
| `BlockStore` | one block on one node: slices, files, keys, transactions | | `BlockStore_proofs` |
| `DhtRecords` | the records of one key on the nodes that keep it | implements `RecordKeeper` | `Records_proofs` |
| `EndpointRecords` | the row of one other node | | `Records_proofs` |
| `WebsocketPool` | `stdhttp/server.go`: pool, goroutines, channels | | `Transport_proofs` |
| `StreamPool` | `libp2p/pipe`, its pools, and pushes to a client on streams | | `Transport_proofs` |
| `ClientRelay` | presence of one client and the relay of chats to it, on one node | | `ClientRelay_proofs` |
| `PeerRelay` | a chat handed from node to node after a client that moves | `NodeHandlers` | `NodeServices_proofs` |
| `P2pChat`, `Sealing` | the receipt of a chat and its push; how it is sealed and opened | `NodeHandlers` | `NodeServices_proofs` |
| `WebrtcPool` | the connections a node makes for signals | `NodeHandlers` | `NodeServices_proofs` |
| `RoomService` | MANAGEROOM and the LiveKit server | `NodeHandlers` | `NodeServices_proofs` |
| `SfuRoom` | the tables of the rooms | | `NodeServices_proofs` |
| `NodeStart` | the start of a node, its restarts and what comes in meanwhile | | `NodeStart_proofs` |
| `MC...` | constants and symmetry for TLC | | |

`QuorumCommit` and `RecordKeeper` are abstract specifications: what the std
consensus promises a client, and what a record store promises whatever its
queries do. `NodeHandlers` puts the handlers of one process beside each other:
none of them recovers a panic, so that one handler's end is the end of all. A
proof module with two components in it has both modules' names in scope, so
`EndpointRecords`, `WebsocketPool` and `SfuRoom` carry their name in `EndpointInit`,
`SocketNext`, `SfuSpec` and the like.

The modules cut the system along its own seams. `StdConsensus` has many nodes,
overlapping versions and one slice, for what the followers' answers mean;
`BlockStore` has one node and every row of a block, for what a store leaves
behind; `DhtRecords` has the rows of one key on several nodes, for what a query
does to them. `ClientRelay` takes from `WebsocketPool` that a connection whose
client has gone is closed in the end (`Reclaimed`), and `PeerRelay` takes each
handler of `ClientRelay` as one step.

`PROJECT.json` names for each definition the lines it translates. An operator
whose comment begins with *Fault* is not used by the specification: it is the
definition after it with a plausible mistake, kept to show that the properties
notice.

### StdConsensus

`block[s]` is the `*DataBlock` a CONSENSUS message was decoded into on its
primary; the send goroutines, `MemCache` (`cached`) and `finalCommit` share that
pointer, which is why `full` (the payload is still there) belongs to the
submission and not to a message. `replyLog` is the set of `ConsensusLog`s in
`MemCache`. Each send goroutine is a member of `outbox`, each call of `StoreValue`
a member of `tasks` (`check`, `spill`, `upsert`: the accesses to the table between
which another call may run), each `ReceiveReply` a member of `handlers` (`record`,
`count`, `commit`, `clean`: its four uses of `MemCache`). A lost message, a failing
write (`StoreMayFail`) and a restart, which clears `MemCache` and every goroutine
of the node and keeps its table, are actions or branches.

A row number stands for the primary key of a row: two calls that both find no
row insert one each, as nothing in the table is unique on block and slice.

### VariantConsensus

One slice of one block of one primary, whose submissions share every key of
`MemCache`. A behaviour runs one variant, chosen at the start, so that the two
share the definitions the code copied from one to the other. `ReceivePrepared` is
taken in steps (read, record, count), as concurrent handlers interleave there;
the others use the shared state once. The module ends where the messages of this
commit end: raft's `ReceiveCommited` stops at a nil data block, pbft's logs carry
no PeerIds.

### BlockStore

A version is its `CreateTimestamp`. `StoreValue(v)` starts one goroutine per slice, as
the client sends one message per slice; `PutLocal(v, i)` is the read repair of one
slice; `DeleteExpiredDB` is one expired block of a pass. `calls[i].pc` names what
comes next: `select`, `check` (Get and the checks), `clear`, `drop`, `unkey`,
`untrack` (the delete), `spill`, `upsert`, `trim`, `trimtrack` (slices the old
version had beyond the new), `key` (TransactionKeys), `track` (the slice's own
PeerTransaction). A write whose result the code does not look at goes on
whether or not it took place; one it checks returns an error.

Two things the code leaves behind, the files of the slices a shorter version
drops and the keys of the receivers it drops, stay in the model as well; `Exact`
does not ask for their removal.

Assumptions of the model: `Upsert` of a row that has an id writes every column
(it is defined in go-colla-core, which is not part of this repository); a
failing owner or signature check is one of the faults; `Get` does not fail. Jobs
follow one another; that two overlap on one slice is `StdConsensus`'s subject.

### DhtRecords and RecordKeeper

The items are the rows one key stands for: the clients of a peer, the
transactions of a business number or of a sender, the slices of a block. The
`kind` of the key and the fault tolerance `level` are chosen at the start. A
query is a job with the places `read` (local rows), `delete` (level 2 deletes
them), `ask` (`SearchValue` over the nodes, with its read repairs), `restore`,
`store` (what came back goes into the tables) and `answer`; `put` sends a row to
another node. The rows of one record are accessed in one step.

`RecordKeeper` has one variable, the records kept, and lets one go only when it was
withdrawn or after a trouble. The mapping is `Kept`: the rows of the tables with
what a query that deleted them still has to put back. That is the point of the
refinement: between the delete and the restore the table alone would break the
promise, and with one failure or restart it is broken for good.

### EndpointRecords

The row of one other node, the peer, and three parties that write it: messages
PEERENDPOINT with the peer's record (`slots`, a slot each: `sent`, `check`, `find`,
`write`), and the routing table's PeerAdded and PeerRemoved (`call`: `read`, `put`). The
record carries the time it was made at the peer, which is before any time of this
node's and so 0; a row carries the time its status last changed here, from `time`.

### WebsocketPool

`at[c][g]` is the blocking call goroutine `g` of connection `c` is at: ReadMessage
(`read`), the send of an answer (`respond`), the select of `loopWrite` (`take`,
`write`), the first and the later heartbeats (`first`, `beat`), and inside Close
the socket close (`shut`), the wait for the global mutex (`forget`) and
`disconnectedHandler` (`notify`). `then` says where the goroutine goes after
Close: only some paths return from the loop. Messages are counted in `out`;
their content is `ClientRelay`'s subject. A "ping" makes `loopRead` return
without Close (`ReadPing`), as lines 343-349 do.

### StreamPool

One client on connections numbered in order, with a stream per request. A pipe's
goroutine goes from `CreatePipe` (which runs after `Read` was started in a goroutine)
through `ReadLine`, the presence update, the answer and `Reset`. `ResponsePipePool`
keeps a pipe after its reset, since nothing calls `handler.Close`; slots of
streams are used again, and `DeadPipe` stands for a pooled pipe whose slot has a
new owner. `sends[m]` is the goroutine of another client's message.

### ClientRelay

One client, one `PeerClient` record, sessions numbered in order. The record is
read and written whole: `UpdatePeerClient` is `UpdateStore` (the pool of
sessions), `UpdateRead`, `UpdateWrite`; `HandleDisconnected` is `DisconnectLoad`,
`DisconnectRead`, `DisconnectWrite`. `RelaySend` is `Lookup`, `ForwardPeerClient`
(the look at the pool), `Write`, `Insert`: between the look and the write the
connection may end, and the select of `Write` then takes either channel.
`biz.RelaySend` is `BizFind`, `BizDelete`, with a `RelaySend` goroutine per message
found. An access to the record or to the message table may fail (`UpdateFails`,
`ConnectFails`, `DisconnectFails`, `BizFindFails`, a branch of `Insert`).

Six losses are in the code and named in the model as `lost`: what is in
`outChan` when its connection closes, what `Write` puts into the `outChan` of a
connection that has ended, what an `Insert` whose error nobody looks at has not
stored, what `BizDelete` deletes without having found it, what `DeleteTimeout`
deletes (its limit lies in the future, so every stored message), and what
goroutines held at a restart.

The fault tolerance level is 0 or 1. At level 2 the reads of CONNECT and of
`Lookup` delete the rows and put them back, which is the subject of `DhtRecords`;
the two together are not modelled.

### SfuRoom

Join, Leave and Destroy hold the lock of the pool, so each is one step. What
interleaves are the joins that fail half-way (`JoinFails`, with the tables it had
reached), the callbacks of connections that hold an Sfu which was destroyed, and
rooms created again under the same name. `AddTrack` writes to a map nobody makes,
so that the process stops once a track is forwarded (`JoinPanics`, `TrackPanics`).

### NodeHandlers and its modules

`load` says what a behaviour is about: signals, chats, both, rooms or hops. Two
kinds of handlers are put beside each other where one can end the other: a
signal's panic ends a chat's handler. What the handlers share is the process
alone (`halted`), and the invariants of the modules are conjuncts of `NodeInv`.

`WebrtcPool` takes a handler of a signal access by access, as neither the pool's
maps nor a connection's fields have a lock. The pool is a map of the peers (`maps`),
each with a map of its clients: a put is the lookup of the peer's map (`Put`), a
new one if there is none (`NewMap`) and the entry (`Write`), and a remove looks the
map up (`FindMap`), drops it whole when the signal named no client (`TakePeer`), or
takes the pair out (`TakePair`) and drops a map that is then empty (`Drop`). A
handler may so write into a map the pool has no more (`orphan`, `old`). `P2pChat` has the handler of a chat
from Decrypt to the push, with one token for all handlers of a vendor. `Sealing`
is stateless: `Encrypt`, `GetPublicKey` and `Decrypt` as operators, and the row
whose key is chosen (`LatestKey`, a walk over the rows that keeps the later of
two), over keys that are old, new or missing. `RoomService` has one call of the
LiveKit server per request, which may act and then fail to answer. `PeerRelay`
has the nodes' rows of one client, the puts of it that are late or lost, and a
chat that goes where each node's row says.

### NodeStart

`pc` is what `libp2p.Start` does next; the globals (`mem`) are set in the order of the code,
and a message that comes in (`slots`, one goroutine each) uses those it finds. The
rows outlive the process: a step that writes one and a kill in the next step are
the crash cases. A configuration says which parts are on, and which of them
cannot work; it may be another at the next start. A call may fail (`Fail`): the
reads of the node's rows (`CreateKey`, `GetFromCache`) and of the peers'
(`PeerInfosFromStore`), whose errors are discarded, then find nothing; a host, a
row or a DHT that cannot be made stops the process (`StopFailing`); a server that
cannot listen, and a client's row that cannot be read or written, leave it running.
`rows` is a set, as a start that read nothing inserts a second row. The host listens
from `NewHost` on, so that peers join (`Join`) before the row is written.

## Runs

| run | question | properties |
|---|---|---|
| `StdFaults` | do losses, failures, a crash and a second submission, a delete, break the quorum? | `QuorumApplied`, `DurableCommit`, `ToldAfterCommit`, `ImplementsQuorumCommit` |
| `StdAnswered` | is a client answered when nothing fails, for a large block too? | `Answered` |
| `VariantConsensus` | are the answers recorded those asked for, all of them, and does raft decide? | `AnswersProposed`, `EveryAnswerRecorded`, `DecisionReached` |
| `BlockStore` | does an acknowledged version stay as sent, and nothing else stay? | `Complete`, `Exact`, `OrderlyAccepted` |
| `DhtRecords` | does a query lose a record, and does it find what others hold? | `NonLocalFound`, `ImplementsRecordKeeper` |
| `EndpointRecords` | does a late message set a removed peer up, and is a staying peer up in the end? | `DownStaysDown`, `StayingPeerUp` |
| `WsPool` | does a client that has gone free its goroutines, its senders and its entry? | `EndedForgotten`, `Reclaimed`, `SendRawReturns` |
| `StreamPool` | the same for streams: where is a message, is a client found? | `PushAccounted`, `RecordHasPipe`, `SettlesUp` |
| `Relay` | is no message lost but in the ways named, and does a client that stays get what was stored? | `Accounted`, `SettlesUp`, `Relayed` |
| `SfuRoom` | do the tables agree, and is everyone served who was told so? | `TablesAgree`, `EveryoneServed` |
| `NodeHandlers` | what do the handlers of a process do to each other? | `TypeOK`, `Reachable`, `CandidateKept`, `NotifiedOnce`, `RoomsTold`, `SealedOpens`, `HandlersEnd`, `HopsArrive` |
| `NodeStart` | how many identities, does it know itself, when does it stop, whom does it dial? | `OneIdentity`, `KnowsItself`, `Stops`, `Tried`, `Joined` |

All hold. A property is stated over each definition's comment in its module,
with what it excepts; the exceptions are behaviour of the code, and are gathered
under *What the models show*. The type invariants of the modules with proofs, and
`RoomsInhabited` and `UpMeansReady`, are theorems and not repeated by TLC; those of
`DhtRecords` and `VariantConsensus` document the types only.

Every property has an entry under *mutants* in `PROJECT.json`: a definition, a
plausible mistake in the code it translates, and the property that TLC then finds
violated.

## Bounds

- *Std consensus.* Three nodes (four for `StdAnswered`) are a primary and enough
  followers that the quorum of two is neither all nor one; two submissions are
  what a stale reply needs, and the second is a delete. One crash. The followers
  are symmetric: no definition tells one from another, and only safety is
  checked under symmetry. `StdAnswered` has one large block, whose payload leaves
  the shared object while it is being sent.
- *Variants.* Three nodes, and in the lists a client sends one more that no
  longer exists; two submissions, one crash, one restart.
- *Block store.* Four versions of 3, 1, 2, 2 slices: the sizes shrink, grow and
  stay, the large payloads are those of the first and the third, the receivers
  lose and regain a member, the last version is a delete. One fault, one repair,
  one expiry pass and one version out of order, in any combination. The type is
  any but ChatAttach.
- *DHT records.* Two nodes and two items are enough for one record to be here,
  there or on both, and for a key of which a node has a part; two jobs at a time,
  one put from outside, one trouble; every kind of key at every level.
- *Endpoint records.* Two messages under way and four in all, three addresses,
  times up to four, one restart. A late message is one made before the removal:
  two are enough to have one late and one current.
- *Websocket pool.* One connection and a channel of two, so that it is empty,
  half full and full. That a late Close meets a second connection of the session
  is a case of the proof, which has any number of connections.
- *Client relay.* Two sessions, the older ending and the one the client stays on;
  one message, one relay slot; `MaxCalls` 2 allows the second, late Close; one
  restart. Messages other than CONNECT come on the older session only (`Plain`):
  what they may do to the record is done by a late handler.
- *Stream pool.* Two connections and two streams at a time: one client moving,
  with a goroutine left behind; one message, one restart.
- *SFU rooms.* Three connections (publisher, subscriber and one more), two rooms,
  each Sfu created again once, two failures. Connections and rooms are symmetric.
- *Node handlers.* One peer, with a client's name and without, three signal handlers at a time and
  three signals (one beside chats), one restart: of two handlers that miss each
  other's connection a third can find one of the two; two chats, one expired token, two
  troubles; two requests about two rooms and one failure of the server; two
  nodes, two sessions, two puts of the row, one halt, one refused put. A chat
  circles between two nodes or more; two are the smallest case.
- *Node start.* Two starts, so that every phase is met once with and once without
  a row; two events (a message, a peer that goes or comes, a call that fails);
  eleven configurations, each with one thing
  that makes the start go another way; a bootstrap peer far away, one near and one
  without its id. With two starts a node comes to have two rows, but is not started
  again with them: that it then takes either is a case of the proof.

The theorems have none of these bounds: every safety property of the runs is
proved for any number of nodes, clients, slices, messages and faults, under the
assumptions named in *Proofs*.

Every configuration turns deadlock checking off: submissions, connections,
messages, jobs and starts are used up in the end and the system then rests.

## Fairness

- `StdConsensus`: weak fairness of the send goroutines, of deliveries, of the
  calls of StoreValue and of the reply handlers, each taken as a whole: goroutines
  are scheduled and a stream delivers. Loss and failure are off in the run that
  uses it, `StdAnswered`: with them an answer is not promised, as a lost message
  is only logged and never sent again.
- `VariantConsensus`: the same per node, in behaviours that are not `faulty`: once a
  message was lost or a process stopped, neither `EveryAnswerRecorded` nor
  `DecisionReached` promises anything.
- `WebsocketPool`: the goroutines run and mutexes are granted (weak fairness); a
  goroutine blocked on a channel is served in turn, as Go's channels queue their
  waiters (strong fairness of `readRespond`, of the heartbeat and of
  `SendRawWrite`); writing to a client that has gone fails in the end, as TCP
  gives up retransmitting (strong fairness of `WriteError`). No fairness makes
  ReadMessage return before the socket is closed on this side, since it has no
  deadline: it is the heartbeat that must find out.
- `ClientRelay`: the goroutines as above. `ClientFairness` is an assumption about the
  client, not about the node: it leaves its older sessions, stays on `Stay` and
  repeats CONNECT there. It is needed: a late handler of an older session may
  overwrite the record a CONNECT has written, and `UpdatePeerClient` does not
  correct a record that is up, so only another CONNECT does. Accesses to the
  tables may fail, and not for ever: of the puts of CONNECT and the finds of
  `biz.RelaySend`, which every CONNECT repeats, one succeeds in the end (strong
  fairness of `ConnectPut` and `BizFind`).
- `StreamPool`: the goroutines of connections and pipes are weakly fair; of the
  client the same is assumed as above, that it opens streams on `Stay` again and
  again and sends CONNECT on some of them (strong fairness of `ClientOpens` and of
  the branch of `Update` that a CONNECT takes).
- `EndpointRecords`: the callbacks of the routing table and the message goroutines.
  Nothing makes the peer send or the table change.
- `NodeHandlers`: the goroutine of each chat and request, and the hops of a chat.
  A signal's handler is not fair, as no liveness property is about signals. Peers, the vendor and the operator are not fair; the calls of a server
  return, in success or failure.
- `NodeStart`: the start and the server's goroutine, the dialling, and the refresh
  of the DHT, which kad-dht repeats on a timer. Whether the process is started,
  killed or sent a message is open.

## Proofs

`tlapm` checks every proof to its last leaf. The theorems hold for all values of
the constants under the named assumptions of each module (`ConstantsOK`,
`NoBlockOK`; `PrimaryOK`, `SubsOK`, `BoundsOK`, `ListsOK`; `StoreConstantsOK`, `NoneOK`;
`KindsOK`, `NodesOK`; `EndpointBoundsOK`; `SocketsOK`, `NoSocketOK`, `NoSessionOK`,
`OutCapOK`; `SessionsOK`, `StayOK`; `StreamConstantsOK`; `RoomConstantsOK`; `PairsOK`,
`SlotsOK`, `SignalsOK`, `NoConnOK`; `VendorOK`; `FailuresOK`, `NoNameOK`; `HopsOK`,
`NowhereOK`; `StartAssumption`): quorum sizes, capacities and bounds are natural
numbers, a model value is not one of the things it stands against, sets whose size
matters are finite. TLC evaluates them in every run of their module.

Two theorems have a hypothesis more: `QuorumPromise` is for `Big = {}`, and
`InOrderAccepted` for `~Attach`. Both are exceptions the code makes: a large payload
is moved out of the object its commit is sent from, and StoreValue refuses to
shorten or delete a ChatAttach (see *What the models show*).

| property of a run | theorem | module |
|---|---|---|
| `QuorumApplied`, `DurableCommit`, `ToldAfterCommit`, `ImplementsQuorumCommit` | `CommitHasQuorum`, `CommitIsDurable`, `ConfirmationIsSound`, `QuorumPromise` | `StdConsensus_proofs` |
| `AnswersProposed` | `AnswersAreAskedFor` | `VariantConsensus_proofs` |
| `Complete`, `Exact`, `OrderlyAccepted` | `AcknowledgedComplete`, `NothingLeftBehind`, `InOrderAccepted` | `BlockStore_proofs` |
| `NonLocalFound`, `ImplementsRecordKeeper`, `DownStaysDown` | `QueriesReachOut`, `NoRecordLost`, `DownWhenRemoved` | `Records_proofs` |
| `EndedForgotten`, `RecordHasPipe`, `PushAccounted` | `EndedConnections`, `UpHasPipe`, `PushesAccounted` | `Transport_proofs` |
| `Accounted` | `NothingVanishes` | `ClientRelay_proofs` |
| `TypeOK`, `Reachable`, `CandidateKept`, `NotifiedOnce`, `RoomsTold`, `SealedOpens` | `NodeTypes`, `OpenIsReachable`, `CandidatesKept`, `PushedOnce`, `RoomsAreTold`, `SealedIsOpened` | `NodeServices_proofs` |
| `TablesAgree`, `EveryoneServed` | `TablesAlwaysAgree`, `EveryoneAlwaysServed` | `NodeServices_proofs` |
| `OneIdentity`, `KnowsItself`, `Stops` | `IdentityKept`, `RestartKnowsItself`, `StopsExplained` | `NodeStart_proofs` |

That is every safety property of the runs: invariants, the action properties
`DownStaysDown` and `Stops`, and the two refinements. The type invariants of all
components, `RoomsInhabited` and `UpMeansReady` are theorems too.

Each proof module has one lemma per action, or per group of actions that change
the same part of the state, *the invariant is kept*; then `Init => IInv`, the
step, and the theorems, which only read the invariant. Each inductive invariant
was checked by TLC on the run of its module before it was proved.

**StdConsensus_proofs.** `QuorumApplied` speaks of a commit; what makes it true
happened before it on other nodes. `IInv` carries that along: a COMMITED message
and a `commited` task have the payload their submission has (`BlockInv`,
`NetInv`, `TaskInv`), so a follower that replies has applied it; a reply in
flight, in a log or in a handler names a follower that has (`NetInv`, `LogInv`,
`HandlerInv`); hence the peers a handler counts are a quorum (`HandlerInv`) and
stay one in `commits` (`CommitInv`); a `final` task has a commit (`TaskInv`), and so
has what a client is told (`ToldInv`). The logs do not name the version, so the
vote is for *some* submission of that primary (`Vote`); with one submission it is
that one, which gives `CommitIsDurable`. Large payloads are excepted throughout,
because the shared object may be emptied before it is sent. `QuorumPromise` reads the
same invariant under the mapping: a submission is the abstract client's request,
an upsert is a save, a commit is the commit, and the answer to the client the
confirmation; every other action changes none of the mapped variables.

**VariantConsensus_proofs.** `AnswersProposed` speaks of rows, which a handler writes
two steps after it was sent the answer. `VariantInv` says of everything that speaks
of an answer of follower f to submission s, whether a message, a handler between
its steps or a row, that s chose f and asked it (`Proposed`), and that the node that
has it is one which is to have it (`Expects`).

**BlockStore_proofs.** `Complete` speaks of the state after every goroutine of a
version has returned, and of every state after that. `StoreInv` says what the
goroutine of each slice has stored at each of its places, so that all of them at
`ok` are a complete version (`FinishKeeps`). `CurrentInv` says that once a version
is complete nothing that runs gets past the checks at its slices: a store of an
older version stops at the timestamp of the row, a repair at `Select`. From this
follows `BeyondCurrent`: whoever is past its checks works on a slice the current
version does not have, is therefore not the first slice's goroutine, and so does
not delete, trim or write keys. `CallInv` says which places a job may be at. The
eleven actions of a goroutine share one lemma, `Move`, with its cases `MoveOwn`
(touches its own slice) and `MoveFirst` (no version is current).

`Exact` and `OrderlyAccepted` are about behaviours in which versions come in order
and nothing fails, and need the history of the whole store. `OrderlyInv` names the
version w that the last job left: between jobs the store is exactly w's
(`Resting`); while a version replaces it each slice is w's until its own goroutine
writes it (`Replacing`), and of the slices beyond the new size the goroutine of the
first has removed what its place says (`Ahead`); a delete or a pass has emptied what
its place says (`Emptying`). `Met` is the hinge: the SliceSize that Get returned is
w's, so that the loops of the delete and of the shorter version reach all of w. A
ChatAttach fails at these loops; by then everything else is done and it has no
PeerTransaction (`NoTracks`), so `Exact` holds for it as well, without a hypothesis.

**Records_proofs.** For `DhtRecords`: a delete on its way is of items their author
has withdrawn (`PutsInv`), rows are put aside at level 2 only and never for blocks,
and a query that is alone on its node asks with no rows there (`Consistent`). From it
`QueriesReachOut`, and the refinement of `RecordKeeper`, action by action: what a job
holds between the delete and the restore counts as kept, so that neither changes
the mapped variable, and a restart or a failing restore is a trouble there.

For `EndpointRecords`, `DownStaysDown` compares two times that are stamped at
different moments. A row that is down was stamped by this node (`DownIsStamped`,
from `PutIsTimed`: a callback that writes has a time to put), what the peer sends
carries no time of this node (`Unstamped`), and what passed `Select` did so against a
row without one (`PassedEarly`): a put that still sets such a row up had passed
before the row was marked.

**Transport_proofs.** For `StreamPool`, `RecordHasPipe` rests on the order in which a
request is handled: a reader that has its line has put its pipe in the pool, so
whatever it then writes to the record names a session with a pipe (`PipeInv`), and
a disconnection sets down what it drops. `StreamInv` says when a stream is open,
and `LinesInv` bounds what can be on it, which makes the types inductive.

For `WebsocketPool`, `EndedForgotten` is not inductive: a connection could be
closed, with all goroutines ended, and still be in the pool. `PoolInv` says that a
closed connection is in the pool only while a goroutine is on its way to remove
it; `CloseInv` that `loopWrite` ends only on a closed connection, and that a closed
one was announced or is about to be.

**ClientRelay_proofs.** `Accounted` is about messages; what it rests on is about
presence: a row that is up names a session (`UpHasSession`), and a disconnection
under way is of one (`DiscHasSession`), so that a write always has a channel to go
to, were it that of a connection that has ended. Each action then either leaves a
message where it is or moves it to another of the places `Accounted` lists
(`Somewhere`), the losses included; that there are no others is the theorem.

**NodeServices_proofs.** `NodeInv` is one invariant per kind of handler, and a lemma
shows that the steps of one kind leave the others'.

- Signals. `Reachable` is about connections that are open; whether one is lost is
  decided before it is opened, so `LostInv` states it of every connection made.
  It needs to know on what a handler works: on connections of its own pair, none
  made after the one in the pool, and marked once it closes them (`Works`), and in
  which map it is (`maps`, `dropped`). For `CandidateKept`, a candidate is with a
  handler that may still make a connection, or its pair has one, or it was taken
  out (`AskedInv`), and what the pool has is open or about to be (`EntriesInv`).
  `MakingInv` counts: a handler makes at most one connection per signal, which
  bounds their numbers.
- Chats. `PushInv` says how many notifications a chat has at each place of the push,
  and that the token in hand at the last try is not older than the last one that
  expired; a chat disturbed by an expiry or a trouble is excepted by the property.
- Rooms. `AskInv` extends the property to requests that are not done.
- Hops. Rows, and the row a chat is handed on to, are of sessions opened before.
- Sealing. `SealedOpens` rests on `NewestIsChosen`: the walk over the rows
  (`LatestKey`) returns the newest that has a key. It is a recursive function over
  the positions, and its value is computed step by step, as the lists of the model
  have three rows at most; for lists of any length it would take an induction.
- `SfuRoom`: `TablesAgree` and `EveryoneServed` become inductive with three facts: who
  is in a publisher's or subscriber's table is a member (`ServedAreMembers`), an Sfu
  has members of its own room only (`RoomsApart`), and an Sfu that is in the pool is
  inhabited (`RoomsInhabited`), a theorem of its own.

That a late Close of an *earlier* connection takes the entry of a later one
(`Takes`) is a result of the proof: with two handlers at a time it does not
happen, and the proof for `TakePair` did not go through without it. With three
handlers TLC has a behaviour that does it, and the run has three since.

**NodeStart_proofs.** `Phase` says what `Start` has done at each of its phases, which
globals and rows are there, that a process whose key pair is in no row found none
or misread it (`misread`), and that from the row on its key pair is a row's. With
`Messages` (a handler has seen no more than there was), `Cached` and `Dials` it gives
`IdentityKept`, `RestartKnowsItself` and `StartedIsReady`. `Stops` is an action property:
one step per action shows from the invariant that the process ends by itself only
for one of the reasons the property lists.

Model-checked only: liveness, which is outside the prover's reach (`Answered`,
`EveryAnswerRecorded`, `DecisionReached`, `Reclaimed`, `SendRawReturns`, `SettlesUp`, `Relayed`,
`StayingPeerUp`, `HandlersEnd`, `HopsArrive`, `Tried`, `Joined`), and the refinement of
`QuorumCommit` with a large payload.

## What the models show

What a property excepts, or a definition had to say to be faithful:

*Consensus and block store.*

- A reply log's key has no version (`std/default.go:244`), so a second submission
  made before the first is committed can be committed on replies to the first.
  `QuorumApplied` says what holds in spite of that, `DurableCommit` what holds of a
  block submitted once.
- `StoreValue` compares timestamps with a row it read earlier
  (`datablock.go:219,253`): of three calls that overlap the oldest value may stay.
- Whether an answer is for a delete is read from the payload, which for a large
  P2pChat block `StoreValue` has just moved to a file.
- The loops that delete PeerTransactions in StoreValue and Put (271, 317) have not
  the guard for ChatAttach the code has at 471.
- A delete leaves no tombstone (286): an older version that comes later is stored.
- `DeleteExpiredDB` (453) deletes by block what it collected before; rows with
  ExpireDate 0, which never expire elsewhere, are among them.

- raft's count of the answers (`raft/default.go:257`) keeps the log it found for an
  earlier peer, so that every peer after it in the list counts, and is of the list
  of the submission now cached: it may commit before the majority that the comment
  at 263 says was received. `DecisionReached` says only that it comes to a decision.

*Connections and presence.*

- Close deletes the pool entry of its session, whatever connection it holds
  (`server.go:305`), and is called up to three times for a connection: a late one
  removes the newer connection of the session.
- A "ping" ends `loopRead` (347) although the comment at 344 says it is ignored.
- `SendRaw` reads the pool map without the mutex its writers hold (250).
- A message can be put into the channel of a connection that has ended, and `Write`
  says it was sent: the pool was looked at before (`sender/default.go:80`), and the
  select of `server.go:284` has room in `outChan` as well as a closed `closeChan`.
- The errors of the two Inserts of messages (`sender/default.go:112,162`) are ignored:
  such a message is nowhere.
- `biz.RelaySend` deletes by target, not what it found (35, comment at 12).
- Standalone mode registers the paths of the server twice, and stops.

*Between nodes.*

- A row's LastUpdateTime is this node's once its status changed
  (`ns/default.go:193`, `libp2p/default.go:424`, `dht.go:315,337`): the peer's newer
  address is refused if it was sent before that.
- Two nodes whose rows name each other pass a chat back and forth
  (`sender/default.go:148`), as the validator's check of times is commented out
  (`ns/default.go:220-250`); `HandlersEnd` excepts such rows (`Crossed`).
- A chat stored at a node to which the client does not come back is not sent
  again (`biz:13`).
- `FindPeer` returns addresses and no peer id (`peerendpoint.go:114`): a message for
  a node found that way is not forwarded (`sender/default.go:154`).
- An answer to PEERENDPOINT or FINDPEER has no TargetPeerId; `RelaySend` refuses it.

*Handlers and start.*

- A connection that is open is in the pool, except in these ways (`Reachable`):
  another handler of its pair put one over it; it was opened while a Close of it
  ran; a late Close of an earlier one took the entry by the pair's name; a Close of
  one whose signal named no client took the whole peer, the open connections of its
  other clients included (`peer_connection_pool.go:131`); or the map of the peer was
  replaced or dropped while it was put in (87-98, 146).
- The connection created for an unknown peer is shadowed
  (`peer_connection_pool.go:332`); a second Close of one panics; an empty PeerId is
  contained in every other (`global.go:72`).
- More identities than names panic (`livekit/default.go:64`).
- The signature of a sealed message is made over the clear payload and compared
  with what came, before it is opened (`base.go:69,169`): it would be refused if a
  key of its sender were found, and none is for a node.
- A chat is notified though it could not be stored (`p2pChat.go:42`).
- Of the BootstrapPeers options the last one counts (`dht.go:43`).
- The error of the read of the node's row is discarded (`libp2p/default.go:346`): a
  node that could not read it takes a new identity, with a second row beside the
  first, of which any is read at the next start (`OneIdentity`, `misread`).
- The host listens (456) before the row is inserted (554): a node killed in between
  loses a key pair whose identity another may have seen (`unsaved`); no client's row
  names it.
- The error of the read that fills the cache of MyselfPeer is discarded too
  (`myselfpeer.go:86`): the node refuses every consensus request until it is started
  again (`KnowsItself`, `blind`). The peers' rows that could not be read are not
  dialled (`bootstrap.go:44`).
- A host, a row or a DHT that cannot be made stops the process (456, 554, 608, 626).
- A missing push file stops the node as its last step, everything else running.

## Not modelled

- *The network below a message.* Kademlia's routing, libp2p's streams, pion's ICE
  and DTLS are external; the models have what the code uses of them.
- *Cryptography and encodings.* `Sealing` has who can open what; a check that fails
  elsewhere is an error branch.
- *Data races*, except those on the maps of `WebrtcPool`, where concurrent access
  stops the process: elsewhere an access is atomic.
- *Code nothing reaches at this commit.* The calls of LiveKit's `default.go` that have
  no caller; the branches behind `Transform`, which drops sdp and candidates; the
  media and the data-channel slices (encoding/binary refuses the Go `int` fields of
  their header); pubsub, whose Subscribe has no caller; the ion adapter, commented
  out; the fasthttp copy of the websocket server, mail and SIP, which nothing
  imports.
- *Failing accesses* where what follows is a repetition or no step at all: the two
  deletes of `biz.RelaySend` and `DeleteTimeout`, the reads of `Lookup`, the calls of
  the packages' init functions, the writes of peers' rows. A search of the two maps
  of `WebrtcPool` is one step, and a row of a peer has the address its own node wrote,
  which can be parsed (`bootstrap.go:47`).
- *Presence at fault tolerance level 2*, where CONNECT and `Lookup` take a client's rows
  out while they ask the network: `DhtRecords` has the queries, not with the presence.
- *Glue without state.* HTTP handlers, reverse proxies, FINDPEER, the options that
  `Start` only passes on, configuration, addresses it lists itself.
- *In the block store*, jobs of one block that overlap on several slices, the owner
  rule for P2pChat deletes, the list queries. *In the DHT*, the copies of a client's
  record beyond what `DhtRecords` and `PeerRelay` have, the records of chain apps.

`PROJECT.json` lists the hazards of the code, each with the properties about it;
a note says what of a hazard they leave open. What would be worth doing next:
jobs of one block that overlap in `BlockStore`; the refinement of `QuorumCommit`
for large payloads, which needs an abstract specification in which a commit may
carry an emptied block; and the safety half of the liveness properties (what a
`Reclaimed` connection's goroutines hold at each step) as invariants of their own.
