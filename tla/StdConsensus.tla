--------------------------- MODULE StdConsensus ---------------------------
(***************************************************************************)
(* The std consensus of go-colla-node (consensus/std/default.go): the      *)
(* primary chosen by the client caches a data block in MemCache, sends it  *)
(* to a few near peers, counts their replies, and once StdMinPeerNum of    *)
(* them have answered stores the block itself and answers the client.      *)
(*                                                                         *)
(* One block slice is modelled: every key of MemCache and of the store     *)
(* holds BlockId and SliceNumber, so blocks do not interact.  A submission *)
(* is one CONSENSUS message of the client, that is one *DataBlock object   *)
(* of the primary; its version is its CreateTimestamp.  Handlers and       *)
(* goroutines advance one shared access at a time.                         *)
(***************************************************************************)
EXTENDS Naturals, FiniteSets

CONSTANTS Nodes,         \* the peer endpoints
          Primaries,     \* those a client connects to
          Subs,          \* the submissions a behaviour may contain, numbers
          Timestamps,    \* the values of CreateTimestamp
          Chat,          \* timestamps of the blocks of type P2pChat
          Attach,        \* timestamps of the blocks of type ChatAttach
          Deletes,       \* timestamps of the blocks sent with no payload
          Big,           \* timestamps whose payload exceeds PayloadLimit
          Expires,       \* timestamps whose ExpireDate is not zero
          PeerNum,       \* config.ConsensusParams.PeerNum
          StdMinPeerNum, \* config.ConsensusParams.StdMinPeerNum
          StoreMayFail,  \* whether the database or the DHT may fail
          Lossy,         \* whether a connection may lose a message
          MaxCrashes,    \* bound on the crashes of a behaviour
          NoBlock, NoSub

ASSUME ConstantsOK ==
    /\ IsFiniteSet(Nodes)
    /\ Primaries \subseteq Nodes
    /\ Subs \subseteq Nat
    /\ Timestamps \subseteq Nat \ {0}
    /\ PeerNum \in Nat /\ StdMinPeerNum \in Nat /\ MaxCrashes \in Nat
    /\ Deletes \subseteq Expires /\ Deletes \cap Big = {}
    /\ StoreMayFail \in BOOLEAN /\ Lossy \in BOOLEAN
    /\ NoSub \notin Subs \cup Nodes

VARIABLES
    block,    \* block[s]: the primary's object of submission s
    cached,   \* cached[n]: the data block MemCache of n holds
    replyLog, \* replyLog[n]: the CONSENSUS_REPLY logs in MemCache of n
    outbox,   \* send goroutines that have not marshalled their block yet
    net,      \* messages in flight
    tasks,    \* goroutines inside StoreValue
    handlers, \* ReceiveReply handlers that have read the cached block
    store,    \* store[n][r]: timestamp of row r of blc_datablock, 0 if none
    applied,  \* history: <<n, s>> when node n has stored submission s, or
              \* removed the block as s, a delete, asks
    commits,  \* history: commit decisions with the replies they counted
    told,     \* history: the CONSENSUS_REPLY sent to the client
    crashes

vars == <<block, cached, replyLog, outbox, net, tasks, handlers, store,
          applied, commits, told, crashes>>

----------------------------------------------------------------------------
(* The shape of the state.                                                 *)

Block == [ts : Timestamps, primary : Nodes, peers : SUBSET Nodes,
          full : BOOLEAN]

ASSUME NoBlockOK == NoBlock \notin Block

Commited == [type : {"COMMITED"}, to : Nodes, from : Nodes, sub : Subs,
             full : BOOLEAN]
Reply == [type : {"REPLY"}, to : Nodes, from : Nodes, sub : Subs,
          hash : Timestamps \cup {0}]

\* by: the peer whose message started the goroutine.
Task == [kind : {"direct", "commited", "final"}, node : Nodes, by : Nodes,
         sub : Subs, full : BOOLEAN, row : Subs,
         pc : {"check", "spill", "upsert"}]

Handler == [node : Nodes, from : Nodes, sub : Subs,
            hash : Timestamps \cup {0}, blk : Subs,
            keys : SUBSET Nodes, pc : {"record", "count", "commit", "clean"}]

Log == [peer : Nodes, hash : Timestamps \cup {0}, sub : Subs]

\* The types of the variables.
TypeOK ==
    /\ block \in [Subs -> Block \cup {NoBlock}]
    /\ cached \in [Nodes -> Subs \cup {NoSub}]
    /\ replyLog \in [Nodes -> SUBSET Log]
    /\ outbox \subseteq [sub : Subs, to : Nodes]
    /\ net \subseteq Commited \cup Reply
    /\ tasks \subseteq Task
    /\ handlers \subseteq Handler
    /\ store \in [Nodes -> [Subs -> Timestamps \cup {0}]]
    /\ applied \subseteq Nodes \X Subs
    /\ commits \subseteq [sub : Subs, quorum : SUBSET Nodes]
    /\ told \subseteq [sub : Subs, delete : BOOLEAN]
    /\ crashes \in 0 .. MaxCrashes

Init ==
    /\ block = [s \in Subs |-> NoBlock]
    /\ cached = [n \in Nodes |-> NoSub]
    /\ replyLog = [n \in Nodes |-> {}]
    /\ outbox = {} /\ net = {} /\ tasks = {} /\ handlers = {}
    /\ store = [n \in Nodes |-> [r \in Subs |-> 0]]
    /\ applied = {} /\ commits = {} /\ told = {}
    /\ crashes = 0

----------------------------------------------------------------------------
(* Helpers.                                                                *)

Submitted(s) == block[s] # NoBlock

\* PayloadHash, empty (0) for a block without payload.
PayloadHash(ts) == IF ts \in Deletes THEN 0 ELSE ts

\* The peers NearestConsensusPeer may return: at most PeerNum others.
NearestConsensusPeer(n) ==
    {P \in SUBSET (Nodes \ {n}) : Cardinality(P) <= PeerNum}

\* The condition under which ReceiveConsensus asks other peers.
Consults(ts, P) == ts \notin Attach /\ StdMinPeerNum > 0 /\ P # {}

\* A commited task owns its block; the others share the primary's object.
Full(t) == IF t.kind = "commited" THEN t.full ELSE block[t.sub].full

\* The signature covers the payload, else ExpireDate, else nothing.
EmptyAccepted(ts) == ts \in Deletes \/ ts \notin Expires

NewTask(kind, n, by, s, full) ==
    [kind |-> kind, node |-> n, by |-> by, sub |-> s, full |-> full,
     row |-> s, pc |-> "check"]

----------------------------------------------------------------------------
(* The primary and the client.                                             *)

\* ReceiveConsensus: cache the block and start one sender per peer, or
\* store it at once.
ReceiveConsensus(s, n, ts, P) ==
    /\ ~Submitted(s)
    /\ \A r \in Subs : r < s => Submitted(r)
    /\ block' = [block EXCEPT ![s] =
                   [ts |-> ts, primary |-> n, peers |-> P,
                    full |-> ts \notin Deletes]]
    /\ \/ /\ Consults(ts, P)
          /\ cached' = [cached EXCEPT ![n] = s]
          /\ outbox' = outbox \cup {[sub |-> s, to |-> p] : p \in P}
          /\ UNCHANGED tasks
       \/ /\ ~Consults(ts, P)
          /\ tasks' = tasks \cup {NewTask("direct", n, n, s, TRUE)}
          /\ UNCHANGED <<cached, outbox>>
    /\ UNCHANGED <<replyLog, net, handlers, store, applied, commits, told,
                   crashes>>

\* The goroutine of ConsensusDataBlock marshals the block it points to.
ConsensusDataBlock(o) ==
    /\ o \in outbox
    /\ outbox' = outbox \ {o}
    /\ net' = net \cup {[type |-> "COMMITED", to |-> o.to,
                         from |-> block[o.sub].primary, sub |-> o.sub,
                         full |-> block[o.sub].full]}
    /\ UNCHANGED <<block, cached, replyLog, tasks, handlers, store, applied,
                   commits, told, crashes>>

\* Fault: the follower answers before it has stored the block.
ReceiveCommitedEarlyReply(m) ==
    /\ m \in net /\ m.type = "COMMITED"
    /\ net' = (net \ {m}) \cup
                {[type |-> "REPLY", to |-> m.from, from |-> m.to,
                  sub |-> m.sub, hash |-> PayloadHash(block[m.sub].ts)]}
    /\ tasks' = tasks \cup {NewTask("commited", m.to, m.from, m.sub, m.full)}
    /\ UNCHANGED <<block, cached, replyLog, outbox, handlers, store, applied,
                   commits, told, crashes>>

\* ReceiveCommited: a follower decodes the block and enters StoreValue.
ReceiveCommited(m) ==
    /\ m \in net /\ m.type = "COMMITED"
    /\ net' = net \ {m}
    /\ tasks' = tasks \cup {NewTask("commited", m.to, m.from, m.sub, m.full)}
    /\ UNCHANGED <<block, cached, replyLog, outbox, handlers, store, applied,
                   commits, told, crashes>>

----------------------------------------------------------------------------
(* StoreValue, and what its three callers do with its result.              *)

\* StoreValue returns nil.
Return(t) ==
    /\ tasks' = tasks \ {t}
    /\ \/ /\ t.kind = "commited"
          /\ net' = net \cup {[type |-> "REPLY", to |-> block[t.sub].primary,
                               from |-> t.node, sub |-> t.sub,
                               hash |-> PayloadHash(block[t.sub].ts)]}
          /\ UNCHANGED told
       \/ /\ t.kind # "commited"
          /\ told' = told \cup {[sub |-> t.sub,
                                 delete |-> /\ t.kind = "final"
                                            /\ block[t.sub].ts \in Chat
                                            /\ ~Full(t)]}
          /\ UNCHANGED net

\* StoreValue returns an error: no reply is sent.
ReturnError(t) ==
    /\ tasks' = tasks \ {t}
    /\ UNCHANGED <<net, told>>

\* A TransactionKey or the PeerTransaction may fail after the row is stored.
ReturnAfterWrite(t) ==
    \/ Return(t)
    \/ StoreMayFail /\ ReturnError(t)

Goto(t, pc, row) ==
    /\ tasks' = (tasks \ {t}) \cup {[t EXCEPT !.pc = pc, !.row = row]}
    /\ UNCHANGED <<net, told>>

\* A final or direct task moves a large payload to FileContent.
Spills(t) == t.kind # "commited" /\ block[t.sub].ts \in Big

\* A block that arrives empty is applied if it was submitted as a delete.
Apply(t) ==
    applied' = IF block[t.sub].ts \in Deletes
               THEN applied \cup {<<t.node, t.sub>>} ELSE applied

\* Get and the checks on the row it returns.
StoreCheck(t) ==
    /\ t \in tasks /\ t.pc = "check"
    /\ LET ts   == block[t.sub].ts
           rows == {r \in Subs : store[t.node][r] # 0}
           next == IF Spills(t) THEN "spill" ELSE "upsert"
       IN \/ /\ rows = {} /\ Full(t)
             /\ Goto(t, next, t.sub)
             /\ UNCHANGED <<store, applied>>
          \/ /\ rows = {} /\ ~Full(t)
             /\ Return(t)
             /\ Apply(t)
             /\ UNCHANGED store
          \/ \E r \in rows :
               \/ /\ \/ ts <= store[t.node][r]
                     \/ ~Full(t) /\ ~EmptyAccepted(ts)
                     \/ StoreMayFail
                  /\ ReturnError(t)
                  /\ UNCHANGED <<store, applied>>
               \/ /\ ts > store[t.node][r]
                  /\ ~Full(t) /\ EmptyAccepted(ts)
                  /\ store' = [store EXCEPT ![t.node] = [x \in Subs |-> 0]]
                  /\ Apply(t)
                  /\ ReturnAfterWrite(t)
               \/ /\ ts > store[t.node][r]
                  /\ Full(t)
                  /\ Goto(t, next, r)
                  /\ UNCHANGED <<store, applied>>
    /\ UNCHANGED <<block, cached, replyLog, outbox, handlers, commits,
                   crashes>>

\* FileContent.Write, then TransportPayload = "" in the shared object.
StoreSpill(t) ==
    /\ t \in tasks /\ t.pc = "spill"
    /\ block' = [block EXCEPT ![t.sub].full = FALSE]
    /\ Goto(t, "upsert", t.row)
    /\ UNCHANGED <<cached, replyLog, outbox, handlers, store, applied, commits,
                   crashes>>

\* Upsert: insert a row of its own, or update the row Get returned.
StoreUpsert(t) ==
    /\ t \in tasks /\ t.pc = "upsert"
    /\ \/ /\ t.row = t.sub \/ store[t.node][t.row] # 0
          /\ store' = [store EXCEPT ![t.node][t.row] = block[t.sub].ts]
          /\ applied' = applied \cup {<<t.node, t.sub>>}
          /\ ReturnAfterWrite(t)
       \/ /\ \/ t.row # t.sub /\ store[t.node][t.row] = 0
             \/ StoreMayFail
          /\ ReturnError(t)
          /\ UNCHANGED <<store, applied>>
    /\ UNCHANGED <<block, cached, replyLog, outbox, handlers, commits,
                   crashes>>

----------------------------------------------------------------------------
(* ReceiveReply, one access to MemCache at a time.                         *)

Advance(h, pc, keys) ==
    handlers' = (handlers \ {h}) \cup {[h EXCEPT !.pc = pc, !.keys = keys]}

\* The handler reads the cached block; without one it returns.
ReceiveReply(m) ==
    /\ m \in net /\ m.type = "REPLY"
    /\ m.from # m.to
    /\ net' = net \ {m}
    /\ \/ /\ cached[m.to] # NoSub
          /\ handlers' = handlers \cup
               {[node |-> m.to, from |-> m.from, sub |-> m.sub,
                 hash |-> m.hash, blk |-> cached[m.to], keys |-> {},
                 pc |-> "record"]}
       \/ cached[m.to] = NoSub /\ UNCHANGED handlers
    /\ UNCHANGED <<block, cached, replyLog, outbox, tasks, store, applied,
                   commits, told, crashes>>

\* Find the log of this peer, or cache the one just received.
ReplyRecord(h) ==
    /\ h \in handlers /\ h.pc = "record"
    /\ LET found == {l \in replyLog[h.node] : l.peer = h.from}
       IN \/ /\ found = {}
             /\ replyLog' = [replyLog EXCEPT ![h.node] = @ \cup
                  {[peer |-> h.from, hash |-> h.hash, sub |-> h.sub]}]
             /\ Advance(h, "count", {})
          \/ /\ \E l \in found : h.hash = 0 \/ l.hash = h.hash
             /\ Advance(h, "count", {})
             /\ UNCHANGED replyLog
          \/ /\ \E l \in found : h.hash # 0 /\ l.hash # h.hash
             /\ handlers' = handlers \ {h}
             /\ UNCHANGED replyLog
    /\ UNCHANGED <<block, cached, outbox, net, tasks, store, applied, commits,
                   told, crashes>>

\* Fault: one log that is found stands for all (cacheLog not reset).
RepliedAny(h) == {p \in block[h.blk].peers : replyLog[h.node] # {}}

\* The peers of the block whose reply is cached.
Replied(h) ==
    {p \in block[h.blk].peers : \E l \in replyLog[h.node] : l.peer = p}

\* Fault: the primary counts as one of the StdMinPeerNum peers.
EnoughWithPrimary(h) == 1 + Cardinality(Replied(h)) >= StdMinPeerNum

\* Fault: the count has to exceed the quorum.
EnoughStrict(h) == 1 + Cardinality(Replied(h)) > StdMinPeerNum + 1

\* count starts at one, for the primary itself.
Enough(h) == 1 + Cardinality(Replied(h)) >= StdMinPeerNum + 1

ReplyCount(h) ==
    /\ h \in handlers /\ h.pc = "count"
    /\ \/ Enough(h) /\ Advance(h, "commit", Replied(h))
       \/ ~Enough(h) /\ handlers' = handlers \ {h}
    /\ UNCHANGED <<block, cached, replyLog, outbox, net, tasks, store, applied,
                   commits, told, crashes>>

\* Delete whatever block the cache holds and start finalCommit.
ReplyCommit(h) ==
    /\ h \in handlers /\ h.pc = "commit"
    /\ cached' = [cached EXCEPT ![h.node] = NoSub]
    /\ tasks' = tasks \cup {NewTask("final", h.node, h.from, h.blk, TRUE)}
    /\ commits' = commits \cup {[sub |-> h.blk, quorum |-> h.keys]}
    /\ Advance(h, "clean", h.keys)
    /\ UNCHANGED <<block, replyLog, outbox, net, store, applied, told, crashes>>

\* Delete the logs that were counted.
ReplyClean(h) ==
    /\ h \in handlers /\ h.pc = "clean"
    /\ replyLog' = [replyLog EXCEPT ![h.node] =
                      {l \in @ : l.peer \notin h.keys}]
    /\ handlers' = handlers \ {h}
    /\ UNCHANGED <<block, cached, outbox, net, tasks, store, applied, commits,
                   told, crashes>>

----------------------------------------------------------------------------
(* Failures.                                                               *)

\* A stopped process keeps its database and nothing else.
Crash(n) ==
    /\ crashes < MaxCrashes
    /\ crashes' = crashes + 1
    /\ cached' = [cached EXCEPT ![n] = NoSub]
    /\ replyLog' = [replyLog EXCEPT ![n] = {}]
    /\ outbox' = {o \in outbox : block[o.sub].primary # n}
    /\ tasks' = {t \in tasks : t.node # n}
    /\ handlers' = {h \in handlers : h.node # n}
    /\ UNCHANGED <<block, net, store, applied, commits, told>>

\* A send that fails is logged and forgotten.
Lose(m) ==
    /\ Lossy /\ m \in net
    /\ net' = net \ {m}
    /\ UNCHANGED <<block, cached, replyLog, outbox, tasks, handlers, store,
                   applied, commits, told, crashes>>

----------------------------------------------------------------------------

Submit == \E s \in Subs, n \in Primaries, ts \in Timestamps :
             \E P \in NearestConsensusPeer(n) : ReceiveConsensus(s, n, ts, P)

Deliver == \E m \in net : ReceiveCommited(m) \/ ReceiveReply(m)

Storing == \E t \in tasks : StoreCheck(t) \/ StoreSpill(t) \/ StoreUpsert(t)

Counting == \E h \in handlers :
               \/ ReplyRecord(h) \/ ReplyCount(h)
               \/ ReplyCommit(h) \/ ReplyClean(h)

Next ==
    \/ Submit
    \/ \E o \in outbox : ConsensusDataBlock(o)
    \/ Deliver
    \/ Storing
    \/ Counting
    \/ \E n \in Nodes : Crash(n)
    \/ \E m \in net : Lose(m)

Spec == Init /\ [][Next]_vars

\* The Go scheduler runs every goroutine, a stream delivers what it carries.
Fairness ==
    /\ WF_vars(\E o \in outbox : ConsensusDataBlock(o))
    /\ WF_vars(Deliver)
    /\ WF_vars(Storing)
    /\ WF_vars(Counting)

FairSpec == Spec /\ Fairness

----------------------------------------------------------------------------
(* Properties.                                                             *)

\* A block whose payload StoreValue leaves in place.
Small(s) == block[s].ts \notin Big

\* No other submission of the block has reached the primary of s.
Solo(s) == \A r \in Subs :
             Submitted(r) /\ block[r].primary = block[s].primary => r = s

\* ReceiveReply decides to commit only on StdMinPeerNum distinct followers,
\* each of which has applied a submission of this primary (or was sent one
\* with a large payload).
QuorumApplied ==
    \A c \in commits :
      /\ Cardinality(c.quorum) >= StdMinPeerNum
      /\ \A p \in c.quorum : \E s \in Subs :
           /\ Submitted(s) /\ block[s].primary = block[c.sub].primary
           /\ Small(s) => <<p, s>> \in applied

\* The commit of a block submitted once to its primary is durable: that many
\* followers have applied exactly this submission.
DurableCommit ==
    \A c \in commits :
      Solo(c.sub) /\ Small(c.sub) =>
        Cardinality({p \in block[c.sub].peers : <<p, c.sub>> \in applied})
          >= StdMinPeerNum

\* A client is told of a block only after its primary has applied it and,
\* where followers were consulted, after a commit decision on it.
ToldAfterCommit ==
    \A t \in told :
      /\ Small(t.sub) => <<block[t.sub].primary, t.sub>> \in applied
      /\ Consults(block[t.sub].ts, block[t.sub].peers) =>
           \E c \in commits : c.sub = t.sub

\* A block with enough followers is eventually confirmed to its client.
Answered ==
    \A s \in Subs :
      (/\ Submitted(s)
       /\ Cardinality(block[s].peers) >= StdMinPeerNum) ~>
      (\E t \in told : t.sub = s)

\* The consensus implements QuorumCommit while no payload is large.
Asked(s) == IF Submitted(s) THEN block[s].primary ELSE NoSub

Abstract == INSTANCE QuorumCommit WITH
    Nobody <- NoSub,
    asked <- [s \in Subs |-> Asked(s)],
    alone <- {s \in Subs : /\ Submitted(s)
                           /\ ~Consults(block[s].ts, block[s].peers)},
    committed <- {c.sub : c \in commits},
    saved <- applied,
    confirmed <- {t.sub : t \in told}

\* Every step of the handlers is one step of the quorum promise, or none.
ImplementsQuorumCommit == Abstract!AbsSpec

----------------------------------------------------------------------------
(* The inductive invariant: what each part of the state knows of the       *)
(* submission it speaks of.                                                *)

\* Node n, asked to take part in s, has applied it if s is small.
Applied(n, s) == Small(s) => <<n, s>> \in applied

\* Follower p has applied a submission of primary n.
Vote(p, n) ==
    \E s \in Subs : Submitted(s) /\ block[s].primary = n /\ Applied(p, s)

\* A payload is empty only if it was submitted empty, or is large.
Whole(s, full) == Small(s) => (full <=> block[s].ts \notin Deletes)

Quorum(Q, s) ==
    /\ Q \subseteq block[s].peers
    /\ Cardinality(Q) >= StdMinPeerNum
    /\ \A p \in Q : Vote(p, block[s].primary)

Committed(s) == \E c \in commits : c.sub = s

BlockInv == \A s \in Subs : Submitted(s) => Whole(s, block[s].full)

CacheInv ==
    \A n \in Nodes : cached[n] # NoSub =>
      /\ Submitted(cached[n]) /\ block[cached[n]].primary = n

OutboxInv == \A o \in outbox : Submitted(o.sub)

NetInv ==
    \A m \in net :
      /\ Submitted(m.sub)
      /\ m.type = "COMMITED" => Whole(m.sub, m.full)
      /\ m.type = "REPLY" => /\ m.to = block[m.sub].primary
                             /\ Applied(m.from, m.sub)

TaskInv ==
    \A t \in tasks :
      /\ Submitted(t.sub)
      /\ t.kind = "commited" => Whole(t.sub, t.full)
      /\ t.kind # "commited" => t.node = block[t.sub].primary
      /\ t.kind = "final" => Committed(t.sub)
      /\ t.kind = "direct" => ~Consults(block[t.sub].ts, block[t.sub].peers)
      /\ t.pc = "spill" => ~Small(t.sub)

LogInv ==
    \A n \in Nodes : \A l \in replyLog[n] :
      /\ Submitted(l.sub) /\ block[l.sub].primary = n
      /\ Applied(l.peer, l.sub)

HandlerInv ==
    \A h \in handlers :
      /\ Submitted(h.sub) /\ block[h.sub].primary = h.node
      /\ Applied(h.from, h.sub)
      /\ Submitted(h.blk) /\ block[h.blk].primary = h.node
      /\ h.pc \in {"commit", "clean"} => Quorum(h.keys, h.blk)

CommitInv == \A c \in commits : Submitted(c.sub) /\ Quorum(c.quorum, c.sub)

ToldInv ==
    \A t \in told :
      /\ Submitted(t.sub)
      /\ Applied(block[t.sub].primary, t.sub)
      /\ Consults(block[t.sub].ts, block[t.sub].peers) => Committed(t.sub)

\* A primary consults others, and caches only blocks it consults others on.
Consulted(s) == Consults(block[s].ts, block[s].peers)

RoleInv ==
    /\ \A s \in Subs : Submitted(s) => block[s].primary \notin block[s].peers
    /\ \A n \in Nodes : cached[n] # NoSub => Consulted(cached[n])
    /\ \A h \in handlers : Consulted(h.blk)

IInv ==
    /\ TypeOK
    /\ BlockInv /\ CacheInv /\ OutboxInv /\ NetInv /\ TaskInv
    /\ LogInv /\ HandlerInv /\ CommitInv /\ ToldInv /\ RoleInv
============================================================================
