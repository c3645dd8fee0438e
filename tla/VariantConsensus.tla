-------------------------- MODULE VariantConsensus --------------------------
(***************************************************************************)
(* The raft and the pbft variants of the consensus (consensus/raft and     *)
(* consensus/pbft/default.go), as far as their messages get.               *)
(*                                                                         *)
(* One block slice of one primary is modelled: submissions of it share     *)
(* every key of MemCache, and differ in their payload hash.  A behaviour   *)
(* runs one variant, chosen at the start.  ReceivePrepared reads, records  *)
(* and counts in separate steps, as concurrent handlers do; the other      *)
(* handlers access the shared state once.                                  *)
(*                                                                         *)
(* ReceiveCommited of raft stops the process at a nil data block, and no   *)
(* log of pbft carries PeerIds, so that its ReceivePrepared ends once the  *)
(* log is recorded: what lies behind is never reached, and has no action.  *)
(***************************************************************************)
EXTENDS Naturals, FiniteSets, Sequences

CONSTANTS Nodes,      \* the peer endpoints
          Primary,    \* the one the client sends to
          Subs,       \* the submissions of the block, numbers
          Gone,       \* peers a client may name that are no endpoints now
          Lists,      \* the PeerIds a client may put into its block
          PeerNum,    \* config.ConsensusParams.PeerNum
          MaxCrashes, \* bound on the crashes that are no panics
          MaxRestarts, \* bound on the restarts
          NoSub, NoHash

ASSUME PrimaryOK == Primary \in Nodes
ASSUME SubsOK == Subs \subseteq Nat /\ Subs \cap {NoSub, NoHash} = {}
ASSUME BoundsOK == MaxCrashes \in Nat /\ MaxRestarts \in Nat

VARIABLES
    variant,  \* "raft" or "pbft"
    faulty,   \* whether messages may be lost and processes may crash
    list,     \* list[s]: the PeerIds of submission s as the client sent it (raft;
              \* pbft puts the chosen peers there)
    taken,    \* the submissions the primary has taken
    chosen,   \* chosen[s]: the peers the primary chose for s, if enough
    cached,   \* cached[n]: the data block in MemCache of n (raft)
    logs,     \* logs[n][f]: the PREPARED log of f in MemCache of n
    rows,     \* rows[n]: the rows of blc_consensuslog of n
    handlers, \* ReceivePrepared handlers that have read the log
    net,      \* messages in flight
    up,       \* the processes that run
    stops,    \* stops[n]: whether n ran on so far, or how it last stopped
    crashes, restarts

memory == <<cached, logs, handlers>>
vars == <<variant, faulty, list, taken, chosen, cached, logs, rows, handlers,
          net, up, stops, crashes, restarts>>

Followers == Nodes \ {Primary}
Peers == Nodes \cup Gone

ASSUME ListsOK == Lists \subseteq Seq(Peers)

\* A log in MemCache, by the submission whose payload hash it has; NoHash is
\* the COMMITED log, which is put under the key of a PREPARED one.
CacheLog == Subs \cup {NoSub, NoHash}

Preprepared == [type : {"PREPREPARED"}, from : {Primary}, to : Followers,
                sub : Subs]
Prepared == [type : {"PREPARED"}, from : Followers, to : Nodes, sub : Subs]
\* The log of a decision has no hash, so that all of them are the same.
Commited == [type : {"COMMITED"}, from : {Primary}, to : Followers,
             sub : {NoSub}]

Row == [from : Nodes, status : {"PREPARED", "COMMITED"},
        sub : Subs \cup {NoSub}]

\* found: whether MemCache had the log.
Handler == [node : Nodes, from : Followers, sub : Subs, found : BOOLEAN,
            pc : {"record", "count"}]

\* The types of the variables.
TypeOK ==
    /\ variant \in {"raft", "pbft"} /\ faulty \in BOOLEAN
    /\ list \in [Subs -> Lists \cup {<<>>}]
    /\ taken \subseteq Subs
    /\ chosen \in [Subs -> SUBSET Nodes]
    /\ cached \in [Nodes -> Subs \cup {NoSub}]
    /\ logs \in [Nodes -> [Peers -> CacheLog]]
    /\ rows \in [Nodes -> SUBSET Row]
    /\ handlers \subseteq Handler
    /\ net \subseteq Preprepared \cup Prepared \cup Commited
    /\ up \subseteq Nodes
    /\ stops \in [Nodes -> {"no", "crash", "panic"}]
    /\ crashes \in 0 .. MaxCrashes /\ restarts \in 0 .. MaxRestarts

NoLogs == [f \in Peers |-> NoSub]

Init ==
    /\ variant \in {"raft", "pbft"} /\ faulty \in BOOLEAN
    /\ list = [s \in Subs |-> <<>>]
    /\ taken = {} /\ chosen = [s \in Subs |-> {}]
    /\ cached = [n \in Nodes |-> NoSub]
    /\ logs = [n \in Nodes |-> NoLogs]
    /\ rows = [n \in Nodes |-> {}]
    /\ handlers = {} /\ net = {}
    /\ up = Nodes /\ stops = [n \in Nodes |-> "no"]
    /\ crashes = 0 /\ restarts = 0

----------------------------------------------------------------------------
(* The processes.                                                          *)

\* What stands in MemCache and every handler go with the process.
Stop(n, how) ==
    /\ up' = up \ {n}
    /\ stops' = [stops EXCEPT ![n] = how]
    /\ cached' = [cached EXCEPT ![n] = NoSub]
    /\ logs' = [logs EXCEPT ![n] = NoLogs]
    /\ handlers' = {h \in handlers : h.node # n}

\* Only the primary crashes: a follower reads nothing of what it caches, so
\* that one that crashes is one whose messages are lost.
Crash ==
    /\ faulty /\ Primary \in up /\ crashes < MaxCrashes
    /\ crashes' = crashes + 1
    /\ Stop(Primary, "crash")
    /\ UNCHANGED <<variant, faulty, list, taken, chosen, rows, net, restarts>>

Restart(n) ==
    /\ n \notin up /\ restarts < MaxRestarts
    /\ restarts' = restarts + 1
    /\ up' = up \cup {n}
    /\ UNCHANGED <<variant, faulty, list, taken, chosen, memory, rows, net, stops,
                   crashes>>

----------------------------------------------------------------------------
(* The handlers.                                                           *)

\* ChooseConsensusPeer: a run of rows of up to PeerNum peer endpoints.
ChooseConsensusPeer == {P \in SUBSET Nodes : Cardinality(P) <= PeerNum}

Message(type, from, to, s) == [type |-> type, from |-> from, to |-> to, sub |-> s]

\* The submission goes to the peers chosen, if they are more than two.  With
\* fewer the client is refused, but the block is cached.
ReceiveConsensus(s, P, L) ==
    /\ Primary \in up
    /\ s \notin taken /\ \A r \in Subs : r < s => r \in taken
    /\ taken' = taken \cup {s}
    /\ cached' = IF variant = "raft" THEN [cached EXCEPT ![Primary] = s]
                 ELSE cached
    /\ list' = IF variant = "raft" THEN [list EXCEPT ![s] = L] ELSE list
    /\ LET to == IF Cardinality(P) > 2 THEN P ELSE {}
       IN  /\ chosen' = [chosen EXCEPT ![s] = to]
           /\ net' = net \cup
                {Message("PREPREPARED", Primary, n, s) : n \in to \ {Primary}}
    /\ UNCHANGED <<variant, faulty, logs, rows, handlers, up, stops,
                   crashes, restarts>>

\* Fault: a follower of pbft answers its primary only.
AnswersPrimary(n, s) == {Message("PREPARED", n, Primary, s)}

\* A follower of raft answers its primary, one of pbft every peer chosen.
Answers(n, s) ==
    {Message("PREPARED", n, g, s) :
       g \in IF variant = "raft" THEN {Primary} ELSE chosen[s] \ {n}}

\* The log looked up has status PREPREPARED, the one stored PREPARED: every
\* proposal is answered.  In raft the answer and the block are cached.
ReceivePreprepared(m) ==
    /\ m \in net /\ m.type = "PREPREPARED" /\ m.to \in up
    /\ net' = (net \ {m}) \cup Answers(m.to, m.sub)
    /\ IF variant = "raft"
       THEN /\ logs' = [logs EXCEPT ![m.to][m.to] = m.sub]
            /\ cached' = [cached EXCEPT ![m.to] = m.sub]
       ELSE UNCHANGED <<logs, cached>>
    /\ UNCHANGED <<variant, faulty, list, taken, chosen, rows, handlers, up,
                   stops, crashes, restarts>>

\* The log found must have the hash of the message.
ReceivePrepared(m) ==
    /\ m \in net /\ m.type = "PREPARED" /\ m.to \in up
    /\ LET log == logs[m.to][m.from]
           h(pc) == [node |-> m.to, from |-> m.from, sub |-> m.sub,
                     found |-> log # NoSub, pc |-> pc]
       IN  handlers' = handlers \cup
             CASE log = NoSub -> {h("record")}
               [] log = m.sub /\ variant = "raft" -> {h("count")}
               [] OTHER -> {}
    /\ net' = net \ {m}
    /\ UNCHANGED <<variant, faulty, list, taken, chosen, cached, logs, rows, up,
                   stops, crashes, restarts>>

\* Fault: the row has the payload hash of the data block cached now.
RecordPreparedCurrent(h) ==
    /\ h \in handlers /\ h.pc = "record"
    /\ LET s == IF cached[h.node] = NoSub THEN h.sub ELSE cached[h.node]
       IN  rows' = [rows EXCEPT ![h.node] = @ \cup
             {[from |-> h.from, status |-> "PREPARED", sub |-> s]}]
    /\ logs' = [logs EXCEPT ![h.node][h.from] = h.sub]
    /\ handlers' = (handlers \ {h}) \cup
         IF variant = "raft" THEN {[h EXCEPT !.pc = "count"]} ELSE {}
    /\ UNCHANGED <<variant, faulty, list, taken, chosen, cached, net, up, stops,
                   crashes, restarts>>

\* The row and the log are written whatever was written since the log was
\* read.
RecordPrepared(h) ==
    /\ h \in handlers /\ h.pc = "record"
    /\ rows' = [rows EXCEPT ![h.node] = @ \cup
         {[from |-> h.from, status |-> "PREPARED", sub |-> h.sub]}]
    /\ logs' = [logs EXCEPT ![h.node][h.from] = h.sub]
    /\ handlers' = (handlers \ {h}) \cup
         IF variant = "raft" THEN {[h EXCEPT !.pc = "count"]} ELSE {}
    /\ UNCHANGED <<variant, faulty, list, taken, chosen, cached, net, up, stops,
                   crashes, restarts>>

\* Fault: only answers to the submission cached now count.
CountedCurrent(L, found) ==
    Cardinality({i \in DOMAIN L : logs[Primary][L[i]] = cached[Primary]})

\* cacheLog keeps what an earlier turn of the loop, or the lookup before it,
\* has found: from the first log found on every peer of the list counts,
\* answered or not.
Counted(L, found) ==
    Cardinality({i \in DOMAIN L : found \/ \E j \in 1 .. i :
                                             logs[Primary][L[j]] # NoSub})

\* Without its data block the primary stops.  A decision puts the COMMITED
\* log under the key of the last peer of the list, and is repeated by every
\* later answer.
CountPrepared(h) ==
    /\ h \in handlers /\ h.pc = "count"
    /\ IF cached[Primary] = NoSub
       THEN Stop(Primary, "panic") /\ UNCHANGED net
       ELSE LET L == list[cached[Primary]]
            IN  /\ handlers' = handlers \ {h}
                /\ IF Len(L) > 2 /\ 1 + Counted(L, h.found) > 2 * (Len(L) \div 3)
                   THEN /\ logs' = [logs EXCEPT ![Primary][L[Len(L)]] = NoHash]
                        /\ net' = net \cup
                             {Message("COMMITED", Primary, n, NoSub) :
                                n \in Followers \cap {L[i] : i \in DOMAIN L}}
                   ELSE UNCHANGED <<logs, net>>
                /\ UNCHANGED <<cached, up, stops>>
    /\ UNCHANGED <<variant, faulty, list, taken, chosen, rows, crashes, restarts>>

\* The row of the decision is inserted, and the process stops at the nil data
\* block behind it.
ReceiveCommited(m) ==
    /\ m \in net /\ m.type = "COMMITED" /\ m.to \in up
    /\ rows' = [rows EXCEPT ![m.to] = @ \cup
         {[from |-> Primary, status |-> "COMMITED", sub |-> NoSub]}]
    /\ net' = net \ {m}
    /\ Stop(m.to, "panic")
    /\ UNCHANGED <<variant, faulty, list, taken, chosen, crashes, restarts>>

Next ==
    \/ \E s \in Subs, P \in ChooseConsensusPeer, L \in Lists :
         ReceiveConsensus(s, P, L)
    \/ \E m \in net : \/ ReceivePreprepared(m) \/ ReceivePrepared(m)
                      \/ ReceiveCommited(m)
    \/ \E h \in handlers : RecordPrepared(h) \/ CountPrepared(h)
    \/ Crash
    \/ \E n \in Nodes : Restart(n)

Spec == Init /\ [][Next]_vars

\* Each node receives its messages and runs its handlers, unless the behaviour
\* is a faulty one: a send that fails is only logged, and its message stays in
\* net for good.
Fairness ==
    \A n \in Nodes :
      /\ WF_vars(\E m \in net :
                   /\ ~faulty /\ m.to = n
                   /\ ReceivePreprepared(m) \/ ReceivePrepared(m) \/ ReceiveCommited(m))
      /\ WF_vars(\E h \in handlers :
                   h.node = n /\ (RecordPrepared(h) \/ CountPrepared(h)))

FairSpec == Spec /\ Fairness

----------------------------------------------------------------------------
(* Properties.                                                             *)

\* A node that has recorded the answer of a follower to a submission was
\* asked to by it: the submission was proposed to that follower, and to this
\* node unless it is the primary.
AnswersProposed ==
    \A n \in Nodes : \A r \in rows[n] :
      r.status = "PREPARED" =>
        /\ r.from \in chosen[r.sub]
        /\ n \in chosen[r.sub] \cup {Primary}

\* While no message is lost and no process stops, a follower to which a
\* submission is proposed gets an answer recorded: by raft at the primary, by
\* pbft at every other peer chosen.
EveryAnswerRecorded ==
    \A f \in Followers : \A n \in Nodes \ {f} :
      (\E s \in taken :
         /\ ~faulty /\ f \in chosen[s]
         /\ n \in IF variant = "raft" THEN {Primary} ELSE chosen[s])
      ~> \/ \E g \in Nodes : stops[g] # "no"
         \/ \E r \in rows[n] : r.from = f /\ r.status = "PREPARED"

\* While no message is lost and no process crashes, a raft primary that has
\* proposed a submission decides in the end, and a follower records that:
\* neither handlers that record and count at the same time nor a second
\* submission of the block, whose list is then counted by and whose answers
\* are refused, keep it from it.  (With lists on which peers that answer come
\* early enough.  It may decide too early: see Counted.)
DecisionReached ==
    (variant = "raft" /\ ~faulty /\ \E s \in taken : chosen[s] # {})
      ~> \E f \in Followers : \E r \in rows[f] : r.status = "COMMITED"

----------------------------------------------------------------------------
(* The inductive invariant: whatever speaks of an answer of follower f to  *)
(* submission s at node n, f was asked to by s and n is to have the answer. *)

Proposed(s, f) == s \in taken /\ f \in chosen[s]

Expects(n, s) == n \in chosen[s] \cup {Primary}

NetInv ==
    \A m \in net :
      /\ m.type = "PREPREPARED" => Proposed(m.sub, m.to)
      /\ m.type = "PREPARED" => Proposed(m.sub, m.from) /\ Expects(m.to, m.sub)

HandlersInv ==
    \A h \in handlers : Proposed(h.sub, h.from) /\ Expects(h.node, h.sub)

RowsInv ==
    \A n \in Nodes : \A r \in rows[n] :
      r.status = "PREPARED" => Proposed(r.sub, r.from) /\ Expects(n, r.sub)

VariantInv == TypeOK /\ NetInv /\ HandlersInv /\ RowsInv
=============================================================================
