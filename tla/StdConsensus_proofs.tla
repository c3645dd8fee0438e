------------------------ MODULE StdConsensus_proofs ------------------------
(***************************************************************************)
(* The proofs about StdConsensus, for every set of nodes, every number of  *)
(* submissions and every choice of faults: type correctness, the inductive *)
(* invariant IInv, and the safety properties that follow from it.          *)
(***************************************************************************)
EXTENDS StdConsensus, FiniteSetTheorems, TLAPS

\* Types hold initially: the node starts with an empty cache and table.
LEMMA InitTypeOK == Init => TypeOK
  BY ConstantsOK DEF Init, TypeOK

\* A task that leaves StoreValue, with or without a reply, keeps its types.
LEMMA ReturnTypes ==
    ASSUME TypeOK, NEW t \in tasks, Submitted(t.sub),
           Return(t) \/ ReturnError(t)
    PROVE  /\ tasks' \subseteq Task
           /\ net' \subseteq Commited \cup Reply
           /\ told' \subseteq [sub : Subs, delete : BOOLEAN]
  <1>1. t \in Task /\ block[t.sub] \in Block
    BY DEF TypeOK, Submitted, Task
  <1>2. tasks' \subseteq Task
    BY DEF TypeOK, Return, ReturnError
  <1>3. CASE Return(t) /\ t.kind = "commited"
    <2>1. PayloadHash(block[t.sub].ts) \in Timestamps \cup {0}
      BY <1>1 DEF PayloadHash, Block
    <2> DEFINE m == [type |-> "REPLY", to |-> block[t.sub].primary,
                     from |-> t.node, sub |-> t.sub,
                     hash |-> PayloadHash(block[t.sub].ts)]
    <2>2. m \in Reply
      BY <1>1, <2>1 DEF Reply, Block, Task
    <2>3. net' = net \cup {m} /\ told' = told
      BY <1>3 DEF Return
    <2>4. QED
      BY <1>2, <2>2, <2>3 DEF TypeOK
  <1>4. CASE Return(t) /\ t.kind # "commited"
    <2> DEFINE e == [sub |-> t.sub,
                     delete |-> /\ t.kind = "final"
                                /\ block[t.sub].ts \in Chat
                                /\ ~Full(t)]
    <2>1. e \in [sub : Subs, delete : BOOLEAN]
      BY <1>1 DEF Task
    <2>2. net' = net /\ told' = told \cup {e}
      BY <1>4 DEF Return
    <2>3. QED
      BY <1>2, <2>1, <2>2 DEF TypeOK
  <1>5. CASE ReturnError(t)
    BY <1>2, <1>5 DEF TypeOK, ReturnError
  <1>6. QED
    BY <1>3, <1>4, <1>5

\* A task that moves on inside StoreValue keeps its types.
LEMMA GotoTypes ==
    ASSUME TypeOK, NEW t \in tasks, NEW r \in Subs,
           NEW pc \in {"check", "spill", "upsert"}, Goto(t, pc, r)
    PROVE  /\ tasks' \subseteq Task
           /\ net' \subseteq Commited \cup Reply
           /\ told' \subseteq [sub : Subs, delete : BOOLEAN]
  <1>1. [t EXCEPT !.pc = pc, !.row = r] \in Task
    BY DEF TypeOK, Task
  <1>2. QED
    BY <1>1 DEF TypeOK, Goto

\* Every object a goroutine or a message refers to has been submitted.
Refs ==
    /\ \A n \in Nodes : cached[n] # NoSub => Submitted(cached[n])
    /\ \A o \in outbox : Submitted(o.sub)
    /\ \A m \in net : Submitted(m.sub)
    /\ \A t \in tasks : Submitted(t.sub)
    /\ \A h \in handlers : Submitted(h.sub) /\ Submitted(h.blk)

\* StoreValue keeps the types.
LEMMA StoringTypes ==
    ASSUME TypeOK, Refs, NEW t \in tasks,
           StoreCheck(t) \/ StoreSpill(t) \/ StoreUpsert(t)
    PROVE  TypeOK'
  <1>1. t \in Task /\ Submitted(t.sub) /\ block[t.sub] \in Block
    BY DEF TypeOK, Refs, Submitted, Task
  <1>2. t.node \in Nodes /\ t.sub \in Subs /\ t.row \in Subs
        /\ block[t.sub].ts \in Timestamps
    BY <1>1 DEF Task, Block
  <1>3. CASE StoreCheck(t)
    <2> DEFINE next == IF Spills(t) THEN "spill" ELSE "upsert"
    <2>1. next \in {"check", "spill", "upsert"}
      OBVIOUS
    <2>2. /\ store' \in [Nodes -> [Subs -> Timestamps \cup {0}]]
          /\ applied' \subseteq Nodes \X Subs
      BY <1>2, <1>3 DEF StoreCheck, Apply, TypeOK
    <2>3. \/ Return(t) \/ ReturnError(t)
          \/ \E r \in Subs : Goto(t, next, r)
      BY <1>2, <1>3 DEF StoreCheck, ReturnAfterWrite
    <2>4. /\ tasks' \subseteq Task /\ net' \subseteq Commited \cup Reply
          /\ told' \subseteq [sub : Subs, delete : BOOLEAN]
      <3>1. CASE Return(t) \/ ReturnError(t)
        BY <1>1, <3>1, ReturnTypes
      <3>2. CASE \E r \in Subs : Goto(t, next, r)
        BY <2>1, <3>2, GotoTypes
      <3>3. QED
        BY <2>3, <3>1, <3>2
    <2>5. QED
      BY <1>3, <2>2, <2>4 DEF StoreCheck, TypeOK
  <1>4. CASE StoreSpill(t)
    <2>1. [block[t.sub] EXCEPT !.full = FALSE] \in Block
      BY <1>1 DEF Block
    <2>2. block' \in [Subs -> Block \cup {NoBlock}]
      BY <1>2, <1>4, <2>1 DEF StoreSpill, TypeOK
    <2>3. /\ tasks' \subseteq Task /\ net' \subseteq Commited \cup Reply
          /\ told' \subseteq [sub : Subs, delete : BOOLEAN]
      BY <1>2, <1>4, GotoTypes DEF StoreSpill
    <2>4. QED
      BY <1>4, <2>2, <2>3 DEF StoreSpill, TypeOK
  <1>5. CASE StoreUpsert(t)
    <2>1. /\ store' \in [Nodes -> [Subs -> Timestamps \cup {0}]]
          /\ applied' \subseteq Nodes \X Subs
      BY <1>2, <1>5 DEF StoreUpsert, TypeOK
    <2>2. Return(t) \/ ReturnError(t)
      BY <1>5 DEF StoreUpsert, ReturnAfterWrite
    <2>3. /\ tasks' \subseteq Task /\ net' \subseteq Commited \cup Reply
          /\ told' \subseteq [sub : Subs, delete : BOOLEAN]
      BY <1>1, <2>2, ReturnTypes
    <2>4. QED
      BY <1>5, <2>1, <2>3 DEF StoreUpsert, TypeOK
  <1>6. QED
    BY <1>3, <1>4, <1>5

\* ReceiveReply keeps the types at each of its steps.
LEMMA CountingTypes ==
    ASSUME TypeOK, Refs, NEW h \in handlers,
           \/ ReplyRecord(h) \/ ReplyCount(h)
           \/ ReplyCommit(h) \/ ReplyClean(h)
    PROVE  TypeOK'
  <1>1. h \in Handler /\ block[h.blk] \in Block
    BY DEF TypeOK, Refs, Submitted, Handler
  <1>2. /\ h.node \in Nodes /\ h.from \in Nodes /\ h.sub \in Subs
        /\ h.blk \in Subs /\ h.keys \subseteq Nodes
        /\ h.hash \in Timestamps \cup {0}
    BY <1>1 DEF Handler
  <1>3. ASSUME NEW pc \in {"record", "count", "commit", "clean"},
               NEW Q \in SUBSET Nodes
        PROVE  [h EXCEPT !.pc = pc, !.keys = Q] \in Handler
    BY <1>1 DEF Handler
  <1>4. CASE ReplyRecord(h)
    <2>1. [peer |-> h.from, hash |-> h.hash, sub |-> h.sub] \in Log
      BY <1>2 DEF Log
    <2>2. replyLog' \in [Nodes -> SUBSET Log]
      BY <1>2, <1>4, <2>1 DEF ReplyRecord, TypeOK
    <2>3. handlers' \subseteq Handler
      BY <1>3, <1>4 DEF ReplyRecord, Advance, TypeOK
    <2>4. QED
      BY <1>4, <2>2, <2>3 DEF ReplyRecord, TypeOK
  <1>5. CASE ReplyCount(h)
    <2>1. Replied(h) \in SUBSET Nodes
      BY <1>1 DEF Replied, Block
    <2>2. handlers' \subseteq Handler
      BY <1>3, <1>5, <2>1 DEF ReplyCount, Advance, TypeOK
    <2>3. QED
      BY <1>5, <2>2 DEF ReplyCount, TypeOK
  <1>6. CASE ReplyCommit(h)
    <2>1. NewTask("final", h.node, h.from, h.blk, TRUE) \in Task
      BY <1>2 DEF NewTask, Task
    <2>2. [sub |-> h.blk, quorum |-> h.keys]
            \in [sub : Subs, quorum : SUBSET Nodes]
      BY <1>2
    <2>3. handlers' \subseteq Handler
      BY <1>2, <1>3, <1>6 DEF ReplyCommit, Advance, TypeOK
    <2>4. cached' \in [Nodes -> Subs \cup {NoSub}]
      BY <1>6 DEF ReplyCommit, TypeOK
    <2>5. QED
      BY <1>6, <2>1, <2>2, <2>3, <2>4 DEF ReplyCommit, TypeOK
  <1>7. CASE ReplyClean(h)
    <2>1. replyLog' \in [Nodes -> SUBSET Log]
      BY <1>7 DEF ReplyClean, TypeOK
    <2>2. handlers' \subseteq Handler
      BY <1>7 DEF ReplyClean, TypeOK
    <2>3. QED
      BY <1>7, <2>1, <2>2 DEF ReplyClean, TypeOK
  <1>8. QED
    BY <1>4, <1>5, <1>6, <1>7

\* The remaining steps keep the types: a submission, a send, a delivery, a
\* crash and a loss.
LEMMA NextTypes == TypeOK /\ Refs /\ [Next]_vars => TypeOK'
  <1> SUFFICES ASSUME TypeOK, Refs, [Next]_vars PROVE TypeOK'
    OBVIOUS
  <1>1. ASSUME NEW s \in Subs, NEW n \in Primaries, NEW ts \in Timestamps,
               NEW P \in NearestConsensusPeer(n), ReceiveConsensus(s, n, ts, P)
        PROVE  TypeOK'
    <2>1. n \in Nodes /\ P \subseteq Nodes
      BY ConstantsOK DEF NearestConsensusPeer
    <2>2. [ts |-> ts, primary |-> n, peers |-> P, full |-> ts \notin Deletes]
            \in Block
      BY <2>1 DEF Block
    <2>3. block' \in [Subs -> Block \cup {NoBlock}]
      BY <1>1, <2>2 DEF ReceiveConsensus, TypeOK
    <2>4. NewTask("direct", n, n, s, TRUE) \in Task
      BY <2>1 DEF NewTask, Task
    <2>5. /\ cached' \in [Nodes -> Subs \cup {NoSub}]
          /\ tasks' \subseteq Task
      BY <1>1, <2>1, <2>4 DEF ReceiveConsensus, TypeOK
    <2>6. {[sub |-> s, to |-> p] : p \in P} \subseteq [sub : Subs, to : Nodes]
      BY <2>1
    <2>7. outbox' \subseteq [sub : Subs, to : Nodes]
      BY <1>1, <2>6 DEF ReceiveConsensus, TypeOK
    <2>8. QED
      BY <1>1, <2>3, <2>5, <2>7 DEF ReceiveConsensus, TypeOK
  <1>2. ASSUME NEW o \in outbox, ConsensusDataBlock(o) PROVE TypeOK'
    <2>1. o.sub \in Subs /\ o.to \in Nodes /\ block[o.sub] \in Block
      BY DEF TypeOK, Refs, Submitted
    <2>2. [type |-> "COMMITED", to |-> o.to, from |-> block[o.sub].primary,
           sub |-> o.sub, full |-> block[o.sub].full] \in Commited
      BY <2>1 DEF Commited, Block
    <2>3. QED
      BY <1>2, <2>2 DEF ConsensusDataBlock, TypeOK
  <1>3. ASSUME NEW m \in net, ReceiveCommited(m) PROVE TypeOK'
    <2>1. m \in Commited
      BY <1>3 DEF ReceiveCommited, TypeOK, Reply
    <2>2. NewTask("commited", m.to, m.from, m.sub, m.full) \in Task
      BY <2>1 DEF NewTask, Task, Commited
    <2>3. QED
      BY <1>3, <2>2 DEF ReceiveCommited, TypeOK
  <1>4. ASSUME NEW m \in net, ReceiveReply(m) PROVE TypeOK'
    <2>1. m \in Reply
      BY <1>4 DEF ReceiveReply, TypeOK, Commited
    <2>2. cached[m.to] # NoSub =>
            [node |-> m.to, from |-> m.from, sub |-> m.sub, hash |-> m.hash,
             blk |-> cached[m.to], keys |-> {}, pc |-> "record"] \in Handler
      BY <2>1 DEF Handler, Reply, TypeOK
    <2>3. QED
      BY <1>4, <2>2 DEF ReceiveReply, TypeOK
  <1>5. ASSUME NEW n \in Nodes, Crash(n) PROVE TypeOK'
    <2>1. /\ cached' \in [Nodes -> Subs \cup {NoSub}]
          /\ replyLog' \in [Nodes -> SUBSET Log]
          /\ crashes' \in 0 .. MaxCrashes
      BY <1>5, ConstantsOK DEF Crash, TypeOK
    <2>2. QED
      BY <1>5, <2>1 DEF Crash, TypeOK
  <1>6. ASSUME NEW m \in net, Lose(m) PROVE TypeOK'
    BY <1>6 DEF Lose, TypeOK
  <1>7. CASE Storing
    BY <1>7, StoringTypes DEF Storing
  <1>8. CASE Counting
    BY <1>8, CountingTypes DEF Counting
  <1>9. CASE UNCHANGED vars
    BY <1>9 DEF vars, TypeOK
  <1>10. QED
    BY <1>1, <1>2, <1>3, <1>4, <1>5, <1>6, <1>7, <1>8, <1>9
       DEF Next, Submit, Deliver

----------------------------------------------------------------------------
(* What no step undoes.                                                    *)

\* Submissions keep their identity, and the history only grows.
Grows ==
    /\ \A s \in Subs : Submitted(s) =>
         /\ Submitted(s)'
         /\ block'[s].primary = block[s].primary
         /\ block'[s].peers = block[s].peers
         /\ block'[s].ts = block[s].ts
    /\ applied \subseteq applied'
    /\ commits \subseteq commits'

\* No step changes the identity of a submission or forgets history.
LEMMA NextGrows == TypeOK /\ Refs /\ [Next]_vars => Grows
  <1> SUFFICES ASSUME TypeOK, Refs, [Next]_vars PROVE Grows
    OBVIOUS
  <1>1. ASSUME NEW s \in Subs, NEW n \in Primaries, NEW ts \in Timestamps,
               NEW P \in NearestConsensusPeer(n), ReceiveConsensus(s, n, ts, P)
        PROVE  Grows
    BY <1>1 DEF ReceiveConsensus, Grows, Submitted, TypeOK
  <1>2. ASSUME NEW t \in tasks, StoreSpill(t) PROVE Grows
    <2>1. t.sub \in Subs /\ block[t.sub] \in Block
      BY DEF TypeOK, Refs, Submitted, Task
    <2>2. [block[t.sub] EXCEPT !.full = FALSE] \in Block
      BY <2>1 DEF Block
    <2>3. block' = [block EXCEPT ![t.sub] =
                      [block[t.sub] EXCEPT !.full = FALSE]]
      BY <1>2 DEF StoreSpill
    <2>4. block'[t.sub] # NoBlock
      BY <2>1, <2>2, <2>3, NoBlockOK DEF TypeOK
    <2>5. /\ block'[t.sub].primary = block[t.sub].primary
          /\ block'[t.sub].peers = block[t.sub].peers
          /\ block'[t.sub].ts = block[t.sub].ts
      BY <2>1, <2>3 DEF TypeOK, Block
    <2>6. \A s \in Subs : s # t.sub => block'[s] = block[s]
      BY <2>3 DEF TypeOK
    <2>7. QED
      BY <1>2, <2>4, <2>5, <2>6 DEF StoreSpill, Grows, Submitted
  <1>3. ASSUME UNCHANGED block, applied \subseteq applied',
               commits \subseteq commits'
        PROVE  Grows
    BY <1>3 DEF Grows, Submitted
  <1>4. ASSUME NEW t \in tasks, StoreCheck(t) \/ StoreUpsert(t) PROVE Grows
    BY <1>3, <1>4 DEF StoreCheck, StoreUpsert, Apply
  <1>5. CASE Counting
    BY <1>3, <1>5
       DEF Counting, ReplyRecord, ReplyCount, ReplyCommit, ReplyClean
  <1>6. ASSUME NEW o \in outbox, ConsensusDataBlock(o) PROVE Grows
    BY <1>3, <1>6 DEF ConsensusDataBlock
  <1>7. ASSUME NEW m \in net, ReceiveCommited(m) \/ ReceiveReply(m)
        PROVE  Grows
    BY <1>3, <1>7 DEF ReceiveCommited, ReceiveReply
  <1>8. ASSUME NEW n \in Nodes, Crash(n) PROVE Grows
    BY <1>3, <1>8 DEF Crash
  <1>9. ASSUME NEW m \in net, Lose(m) PROVE Grows
    BY <1>3, <1>9 DEF Lose
  <1>10. CASE UNCHANGED vars
    BY <1>3, <1>10 DEF vars
  <1>11. QED
    BY <1>1, <1>2, <1>4, <1>5, <1>6, <1>7, <1>8, <1>9, <1>10
       DEF Next, Submit, Deliver, Storing

\* What is known of a submission stays known.
LEMMA Stable ==
    ASSUME Grows, NEW s \in Subs, Submitted(s)
    PROVE  /\ \A n \in Nodes : Applied(n, s) => Applied(n, s)'
           /\ \A full \in BOOLEAN : Whole(s, full) => Whole(s, full)'
           /\ Committed(s) => Committed(s)'
           /\ Small(s) <=> Small(s)'
           /\ Submitted(s)'
           /\ block'[s].primary = block[s].primary
           /\ block'[s].peers = block[s].peers
           /\ block'[s].ts = block[s].ts
  BY DEF Grows, Applied, Whole, Committed, Small

\* A follower that has applied a submission of a primary remains one.
LEMMA StableVote ==
    ASSUME Grows, NEW p \in Nodes, NEW n \in Nodes, Vote(p, n)
    PROVE  Vote(p, n)'
  <1>1. PICK s \in Subs : Submitted(s) /\ block[s].primary = n /\ Applied(p, s)
    BY DEF Vote
  <1>2. Submitted(s)' /\ block'[s].primary = n /\ Applied(p, s)'
    BY <1>1, Stable
  <1>3. QED
    BY <1>2 DEF Vote

\* A quorum remains one, as its members have applied what they did.
LEMMA StableQuorum ==
    ASSUME TypeOK, Grows, NEW s \in Subs, Submitted(s), NEW Q \in SUBSET Nodes,
           Quorum(Q, s)
    PROVE  Quorum(Q, s)'
  <1> DEFINE n == block[s].primary
  <1>1. n \in Nodes
    BY DEF TypeOK, Submitted, Block
  <1>2. block'[s].primary = n /\ block'[s].peers = block[s].peers
    BY Stable
  <1>3. ASSUME NEW m \in Nodes, m = n, NEW p \in Q PROVE Vote(p, m)'
    BY <1>3, StableVote DEF Quorum
  <1>4. ASSUME NEW p \in Q PROVE Vote(p, block[s].primary)'
    BY <1>1, <1>2, <1>3 DEF Vote
  <1>5. QED
    BY <1>2, <1>4 DEF Quorum

----------------------------------------------------------------------------
(* The inductive invariant.  One lemma per part: an element that was there *)
(* keeps what was known of it (Stable), and a step that adds one           *)
(* establishes it.                                                         *)

\* The parts of the invariant say that what is referred to was submitted.
LEMMA InvRefs == IInv => Refs
  BY DEF IInv, Refs, CacheInv, OutboxInv, NetInv, TaskInv, HandlerInv, TypeOK

\* Nothing has been submitted initially.
LEMMA InitInv == Init => IInv
  <1> SUFFICES ASSUME Init PROVE IInv
    OBVIOUS
  <1>1. TypeOK
    BY InitTypeOK
  <1>2. \A s \in Subs : ~Submitted(s)
    BY DEF Init, Submitted
  <1>3. BlockInv
    BY <1>2 DEF BlockInv
  <1>4. CacheInv /\ OutboxInv /\ NetInv /\ TaskInv /\ LogInv /\ HandlerInv
        /\ CommitInv /\ ToldInv /\ RoleInv
    BY <1>2 DEF Init, CacheInv, OutboxInv, NetInv, TaskInv, LogInv,
                HandlerInv, CommitInv, ToldInv, RoleInv
  <1>5. QED
    BY <1>1, <1>3, <1>4 DEF IInv

\* StoreValue empties only a payload that is large.
LEMMA BlockStep == IInv /\ [Next]_vars /\ Grows => BlockInv'
  <1> SUFFICES ASSUME IInv, [Next]_vars, Grows, NEW s \in Subs, Submitted(s)'
               PROVE  Whole(s, block[s].full)'
    BY DEF BlockInv
  <1> USE DEF IInv
  <1>1. CASE block'[s] = block[s]
    BY <1>1 DEF BlockInv, Submitted, Whole, Small
  <1>2. ASSUME NEW n \in Primaries, NEW r \in Subs, NEW ts \in Timestamps,
               NEW P \in NearestConsensusPeer(n), ReceiveConsensus(r, n, ts, P)
        PROVE  Whole(s, block[s].full)'
    BY <1>1, <1>2 DEF ReceiveConsensus, TypeOK, Whole, Small
  <1>3. ASSUME NEW t \in tasks, StoreSpill(t)
        PROVE  Whole(s, block[s].full)'
    <2>1. t.sub \in Subs /\ Submitted(t.sub) /\ ~Small(t.sub)
      BY <1>3 DEF StoreSpill, TypeOK, Task, TaskInv
    <2>2. CASE s = t.sub
      <3>1. ~Small(s)'
        BY <2>1, <2>2, Stable
      <3>2. QED
        BY <3>1 DEF Whole
    <2>3. CASE s # t.sub
      BY <1>1, <1>3, <2>3 DEF StoreSpill, TypeOK
    <2>4. QED
      BY <2>2, <2>3
  <1>4. \/ block' = block
        \/ \E r \in Subs, n \in Primaries, ts \in Timestamps :
              \E P \in NearestConsensusPeer(n) : ReceiveConsensus(r, n, ts, P)
        \/ \E t \in tasks : StoreSpill(t)
    BY DEF Next, vars, Submit, Deliver, Storing, Counting, ConsensusDataBlock,
           ReceiveCommited, ReceiveReply, StoreCheck, StoreUpsert, ReplyRecord,
           ReplyCount, ReplyCommit, ReplyClean, Crash, Lose
  <1>5. QED
    BY <1>1, <1>2, <1>3, <1>4

\* A primary caches the blocks it was given itself.
LEMMA CacheStep == IInv /\ [Next]_vars /\ Grows => CacheInv'
  <1> SUFFICES ASSUME IInv, [Next]_vars, Grows, NEW n \in Nodes,
                      cached'[n] # NoSub
               PROVE  /\ Submitted(cached[n])'
                      /\ block'[cached'[n]].primary = n
    BY DEF CacheInv
  <1> USE DEF IInv
  <1>1. CASE cached'[n] = cached[n]
    <2>1. cached[n] \in Subs /\ Submitted(cached[n])
          /\ block[cached[n]].primary = n
      BY <1>1 DEF CacheInv, TypeOK
    <2>2. QED
      BY <1>1, <2>1 DEF Grows, Submitted
  <1>2. ASSUME NEW m \in Primaries, NEW r \in Subs, NEW ts \in Timestamps,
               NEW P \in NearestConsensusPeer(m), ReceiveConsensus(r, m, ts, P)
        PROVE  /\ Submitted(cached[n])'
               /\ block'[cached'[n]].primary = n
    <2>1. CASE cached'[n] # cached[n]
      <3>1. n = m /\ cached'[n] = r
        BY <1>2, <2>1 DEF ReceiveConsensus, TypeOK
      <3>2. block'[r] = [ts |-> ts, primary |-> m, peers |-> P,
                         full |-> ts \notin Deletes]
        BY <1>2 DEF ReceiveConsensus, TypeOK
      <3>3. block'[r] \in Block
        BY <3>2, ConstantsOK DEF Block, NearestConsensusPeer
      <3>4. QED
        BY <3>1, <3>2, <3>3, NoBlockOK DEF Submitted
    <2>2. QED
      BY <1>1, <2>1
  <1>3. \/ cached'[n] = cached[n] \/ cached'[n] = NoSub
        \/ \E r \in Subs, m \in Primaries, ts \in Timestamps :
              \E P \in NearestConsensusPeer(m) : ReceiveConsensus(r, m, ts, P)
    BY DEF Next, vars, Submit, Deliver, Storing, Counting,
           ConsensusDataBlock, ReceiveCommited, ReceiveReply, StoreCheck,
           StoreSpill, StoreUpsert, ReplyRecord, ReplyCount, ReplyCommit,
           ReplyClean, Crash, Lose, TypeOK
  <1>4. QED
    BY <1>1, <1>2, <1>3

\* A sender is started for a block that was submitted.
LEMMA OutboxStep == IInv /\ [Next]_vars /\ Grows => OutboxInv'
  <1> SUFFICES ASSUME IInv, [Next]_vars, Grows, NEW o \in outbox'
               PROVE  Submitted(o.sub)'
    BY DEF OutboxInv
  <1> USE DEF IInv
  <1>1. CASE o \in outbox
    <2>1. o.sub \in Subs /\ Submitted(o.sub)
      BY <1>1 DEF OutboxInv, TypeOK
    <2>2. QED
      BY <2>1, Stable
  <1>2. ASSUME NEW m \in Primaries, NEW r \in Subs, NEW ts \in Timestamps,
               NEW P \in NearestConsensusPeer(m), ReceiveConsensus(r, m, ts, P),
               o \notin outbox
        PROVE  Submitted(o.sub)'
    <2>1. PICK p \in P : o = [sub |-> r, to |-> p]
      BY <1>2 DEF ReceiveConsensus
    <2>2. block'[r] = [ts |-> ts, primary |-> m, peers |-> P,
                       full |-> ts \notin Deletes]
      BY <1>2 DEF ReceiveConsensus, TypeOK
    <2>3. block'[r] \in Block
      BY <2>2, ConstantsOK DEF Block, NearestConsensusPeer
    <2>4. QED
      BY <2>1, <2>3, NoBlockOK DEF Submitted
  <1>3. \/ outbox' \subseteq outbox
        \/ \E r \in Subs, m \in Primaries, ts \in Timestamps :
              \E P \in NearestConsensusPeer(m) : ReceiveConsensus(r, m, ts, P)
    BY DEF Next, vars, Submit, Deliver, Storing, Counting, ConsensusDataBlock,
           ReceiveCommited, ReceiveReply, StoreCheck, StoreSpill, StoreUpsert,
           ReplyRecord, ReplyCount, ReplyCommit, ReplyClean, Crash, Lose
  <1>4. QED
    BY <1>1, <1>2, <1>3

\* A node that newly answers after StoreValue has applied the block.
LEMMA ReturnApplies ==
    ASSUME IInv, Grows, NEW t \in tasks, net' # net \/ told' # told,
           StoreCheck(t) \/ StoreUpsert(t)
    PROVE  Return(t) /\ Applied(t.node, t.sub)'
  <1> USE DEF IInv
  <1>1. /\ t \in Task /\ t.node \in Nodes /\ t.sub \in Subs
        /\ Submitted(t.sub) /\ block[t.sub] \in Block
    BY DEF TypeOK, TaskInv, Task, Submitted
  <1>2. block' = block
    BY DEF StoreCheck, StoreUpsert
  <1>3. ~ReturnError(t)
    BY DEF ReturnError
  <1>4. ASSUME NEW pc, NEW r, Goto(t, pc, r) PROVE FALSE
    BY <1>4 DEF Goto
  <1>5. CASE StoreUpsert(t)
    BY <1>3, <1>5 DEF StoreUpsert, ReturnAfterWrite, Applied
  <1>6. CASE StoreCheck(t)
    <2>1. Return(t) /\ Apply(t) /\ ~Full(t)
      BY <1>3, <1>4, <1>6 DEF StoreCheck, ReturnAfterWrite
    <2>2. Whole(t.sub, Full(t))
      BY <1>1 DEF Full, TaskInv, BlockInv, Task
    <2>3. Small(t.sub) => block[t.sub].ts \in Deletes
      BY <2>1, <2>2 DEF Whole
    <2>4. QED
      BY <1>2, <2>1, <2>3 DEF Apply, Applied, Small
  <1>7. QED
    BY <1>5, <1>6

\* A message is of a submission, and a reply of one that was applied.
LEMMA NetStep == IInv /\ [Next]_vars /\ Grows => NetInv'
  <1> SUFFICES ASSUME IInv, [Next]_vars, Grows, NEW m \in net'
               PROVE  /\ Submitted(m.sub)'
                      /\ m.type = "COMMITED" => Whole(m.sub, m.full)'
                      /\ m.type = "REPLY" => /\ m.to = block'[m.sub].primary
                                             /\ Applied(m.from, m.sub)'
    BY DEF NetInv
  <1> USE DEF IInv
  <1>1. CASE m \in net
    <2>1. m.sub \in Subs /\ Submitted(m.sub)
      BY <1>1 DEF TypeOK, NetInv, Commited, Reply
    <2>2. CASE m.type = "COMMITED"
      <3>1. m.full \in BOOLEAN
        BY <1>1, <2>2 DEF TypeOK, Commited, Reply
      <3>2. QED
        BY <1>1, <2>1, <2>2, <3>1, Stable DEF NetInv
    <2>3. CASE m.type = "REPLY"
      <3>1. m.from \in Nodes
        BY <1>1, <2>3 DEF TypeOK, Commited, Reply
      <3>2. QED
        BY <1>1, <2>1, <2>3, <3>1, Stable DEF NetInv
    <2>4. QED
      BY <2>1, <2>2, <2>3, Stable
  <1>2. ASSUME NEW o \in outbox, ConsensusDataBlock(o), m \notin net
        PROVE  Submitted(m.sub)' /\ Whole(m.sub, m.full)'
               /\ m.type = "COMMITED"
    <2>1. o.sub \in Subs /\ Submitted(o.sub) /\ block[o.sub].full \in BOOLEAN
      BY DEF TypeOK, OutboxInv, Submitted, Block
    <2>2. m = [type |-> "COMMITED", to |-> o.to,
               from |-> block[o.sub].primary, sub |-> o.sub,
               full |-> block[o.sub].full]
      BY <1>2 DEF ConsensusDataBlock
    <2>3. QED
      BY <2>1, <2>2, Stable DEF BlockInv
  <1>3. ASSUME NEW t \in tasks, StoreCheck(t) \/ StoreUpsert(t), m \notin net
        PROVE  /\ Submitted(m.sub)' /\ m.type = "REPLY"
               /\ m.to = block'[m.sub].primary
               /\ Applied(m.from, m.sub)'
    <2>1. t.sub \in Subs /\ Submitted(t.sub)
      BY DEF TypeOK, TaskInv, Task
    <2>2. Return(t) /\ Applied(t.node, t.sub)'
      BY <1>3, ReturnApplies
    <2>3. m = [type |-> "REPLY", to |-> block[t.sub].primary,
               from |-> t.node, sub |-> t.sub,
               hash |-> PayloadHash(block[t.sub].ts)]
      BY <1>3, <2>2 DEF Return
    <2>4. QED
      BY <2>1, <2>2, <2>3, Stable
  <1>4. \/ m \in net
        \/ \E o \in outbox : ConsensusDataBlock(o)
        \/ \E t \in tasks : StoreCheck(t) \/ StoreUpsert(t)
    BY DEF Next, vars, Submit, Deliver, Storing, Counting, ReceiveConsensus,
           ReceiveCommited, ReceiveReply, StoreSpill, Goto, ReplyRecord,
           ReplyCount, ReplyCommit, ReplyClean, Crash, Lose
  <1>5. QED
    BY <1>1, <1>2, <1>3, <1>4

\* The client is told what the primary applied, after its commit.
LEMMA ToldStep == IInv /\ [Next]_vars /\ Grows => ToldInv'
  <1> SUFFICES ASSUME IInv, [Next]_vars, Grows, NEW e \in told'
               PROVE  /\ Submitted(e.sub)'
                      /\ Applied(block[e.sub].primary, e.sub)'
                      /\ Consults(block'[e.sub].ts, block'[e.sub].peers) =>
                           Committed(e.sub)'
    BY DEF ToldInv, Consults
  <1> USE DEF IInv
  <1>1. ASSUME NEW s \in Subs, Submitted(s), Applied(block[s].primary, s),
               Consults(block[s].ts, block[s].peers) => Committed(s), e.sub = s
        PROVE  /\ Submitted(e.sub)'
               /\ Applied(block[e.sub].primary, e.sub)'
               /\ Consults(block'[e.sub].ts, block'[e.sub].peers) =>
                    Committed(e.sub)'
    <2>1. block[s].primary \in Nodes
      BY <1>1 DEF TypeOK, Submitted, Block
    <2>2. Applied(block[s].primary, s) => Applied(block[s].primary, s)'
      BY <1>1, <2>1, Stable DEF Applied
    <2>3. QED
      BY <1>1, <2>2, Stable
  <1>2. CASE e \in told
    BY <1>1, <1>2 DEF ToldInv, TypeOK
  <1>3. ASSUME NEW t \in tasks, StoreCheck(t) \/ StoreUpsert(t), e \notin told
        PROVE  /\ Submitted(e.sub)'
               /\ Applied(block[e.sub].primary, e.sub)'
               /\ Consults(block'[e.sub].ts, block'[e.sub].peers) =>
                    Committed(e.sub)'
    <2>1. t.sub \in Subs /\ Submitted(t.sub)
      BY DEF TypeOK, TaskInv, Task
    <2>2. Return(t) /\ Applied(t.node, t.sub)' /\ block' = block
      BY <1>3, ReturnApplies DEF StoreCheck, StoreUpsert
    <2>3. e.sub = t.sub /\ t.kind # "commited"
      BY <1>3, <2>2 DEF Return
    <2>4. t.node = block[t.sub].primary
      BY <2>3 DEF TaskInv
    <2>5. Consults(block[t.sub].ts, block[t.sub].peers) => Committed(t.sub)
      BY <2>3 DEF TaskInv, TypeOK, Task
    <2>6. QED
      BY <2>1, <2>2, <2>3, <2>4, <2>5, Stable DEF Applied
  <1>4. e \in told \/ \E t \in tasks : StoreCheck(t) \/ StoreUpsert(t)
    BY DEF Next, vars, Submit, Deliver, Storing, Counting, ReceiveConsensus,
           ConsensusDataBlock, ReceiveCommited, ReceiveReply, StoreSpill, Goto,
           ReplyRecord, ReplyCount, ReplyCommit, ReplyClean, Crash, Lose
  <1>5. QED
    BY <1>2, <1>3, <1>4

\* A reply log is of a peer that applied a submission of this primary.
LEMMA LogStep == IInv /\ [Next]_vars /\ Grows => LogInv'
  <1> SUFFICES ASSUME IInv, [Next]_vars, Grows, NEW n \in Nodes,
                      NEW l \in replyLog'[n]
               PROVE  /\ Submitted(l.sub)' /\ block'[l.sub].primary = n
                      /\ Applied(l.peer, l.sub)'
    BY DEF LogInv
  <1> USE DEF IInv
  <1>1. ASSUME NEW s \in Subs, NEW p \in Nodes, Submitted(s),
               block[s].primary = n, Applied(p, s)
        PROVE  /\ Submitted(s)' /\ block'[s].primary = n /\ Applied(p, s)'
    BY <1>1, Stable
  <1>2. CASE l \in replyLog[n]
    <2>1. l.sub \in Subs /\ l.peer \in Nodes
      BY <1>2 DEF TypeOK, Log
    <2>2. QED
      BY <1>1, <1>2, <2>1 DEF LogInv
  <1>3. ASSUME NEW h \in handlers, ReplyRecord(h), l \notin replyLog[n]
        PROVE  /\ Submitted(l.sub)' /\ block'[l.sub].primary = n
               /\ Applied(l.peer, l.sub)'
    <2>1. n = h.node /\ l = [peer |-> h.from, hash |-> h.hash, sub |-> h.sub]
      BY <1>3 DEF ReplyRecord, TypeOK
    <2>2. h.sub \in Subs /\ h.from \in Nodes
      BY DEF TypeOK, Handler
    <2>3. QED
      BY <1>1, <2>1, <2>2 DEF HandlerInv
  <1>4. l \in replyLog[n] \/ \E h \in handlers : ReplyRecord(h)
    <2>1. ASSUME NEW h \in handlers, ReplyClean(h) PROVE l \in replyLog[n]
      BY <2>1 DEF ReplyClean, TypeOK
    <2>2. ASSUME NEW x \in Nodes, Crash(x) PROVE l \in replyLog[n]
      BY <2>2 DEF Crash, TypeOK
    <2>3. \/ replyLog' = replyLog
          \/ \E h \in handlers : ReplyRecord(h) \/ ReplyClean(h)
          \/ \E x \in Nodes : Crash(x)
      BY DEF Next, vars, Submit, Deliver, Storing, Counting, ReceiveConsensus,
             ConsensusDataBlock, ReceiveCommited, ReceiveReply, StoreCheck,
             StoreSpill, StoreUpsert, ReplyCount, ReplyCommit, Lose
    <2>4. QED
      BY <2>1, <2>2, <2>3
  <1>5. QED
    BY <1>2, <1>3, <1>4

\* A full count of replies is a quorum.
LEMMA EnoughIsQuorum ==
    ASSUME IInv, NEW h \in handlers, Enough(h)
    PROVE  Quorum(Replied(h), h.blk)
  <1> USE DEF IInv
  <1>1. /\ h.node \in Nodes /\ h.blk \in Subs /\ block[h.blk] \in Block
        /\ block[h.blk].primary = h.node
    BY DEF TypeOK, HandlerInv, Handler, Submitted
  <1>2. Replied(h) \subseteq Nodes /\ Replied(h) \subseteq block[h.blk].peers
    BY <1>1 DEF Replied, Block
  <1>3. Cardinality(Replied(h)) \in Nat
    BY <1>2, FS_Subset, FS_CardinalityType, ConstantsOK
  <1>4. Cardinality(Replied(h)) >= StdMinPeerNum
    BY <1>3, ConstantsOK DEF Enough
  <1>5. ASSUME NEW p \in Replied(h) PROVE Vote(p, h.node)
    <2>1. PICK l \in replyLog[h.node] : l.peer = p
      BY DEF Replied
    <2>2. /\ l.sub \in Subs /\ Submitted(l.sub)
          /\ block[l.sub].primary = h.node /\ Applied(p, l.sub)
      BY <1>1, <2>1 DEF TypeOK, LogInv, Log
    <2>3. QED
      BY <2>2 DEF Vote
  <1>6. QED
    BY <1>1, <1>2, <1>4, <1>5 DEF Quorum

\* A handler past its count has a quorum of the block it read.
LEMMA HandlerStep == IInv /\ [Next]_vars /\ Grows => HandlerInv'
  <1> DEFINE Known(h) ==
        /\ Submitted(h.sub) /\ block[h.sub].primary = h.node
        /\ Applied(h.from, h.sub)
        /\ Submitted(h.blk) /\ block[h.blk].primary = h.node
  <1> SUFFICES ASSUME IInv, [Next]_vars, Grows, NEW h \in handlers'
               PROVE  /\ Known(h)'
                      /\ h.pc \in {"commit", "clean"} =>
                           Quorum(h.keys, h.blk)'
    BY DEF HandlerInv
  <1> USE DEF IInv
  <1>1. ASSUME NEW g \in handlers, h.node = g.node, h.from = g.from,
               h.sub = g.sub, h.blk = g.blk
        PROVE  Known(h)'
    <2>1. /\ g.sub \in Subs /\ g.blk \in Subs /\ g.from \in Nodes
      BY DEF TypeOK, Handler
    <2>2. Known(g)
      BY DEF HandlerInv
    <2>3. QED
      BY <1>1, <2>1, <2>2, Stable
  <1>2. ASSUME NEW g \in handlers, h.blk = g.blk, h.keys \subseteq Nodes,
               Quorum(h.keys, h.blk)
        PROVE  Quorum(h.keys, h.blk)'
    <2>1. g.blk \in Subs /\ Submitted(g.blk)
      BY DEF TypeOK, Handler, HandlerInv
    <2>2. QED
      BY <1>2, <2>1, StableQuorum
  <1>3. CASE h \in handlers
    <2>1. Known(h)'
      BY <1>1, <1>3
    <2>2. h.keys \subseteq Nodes
      BY <1>3 DEF TypeOK, Handler
    <2>3. QED
      BY <1>2, <1>3, <2>1, <2>2 DEF HandlerInv
  <1>4. ASSUME NEW m \in net, ReceiveReply(m), h \notin handlers
        PROVE  Known(h)' /\ h.pc = "record"
    <2>1. /\ cached[m.to] # NoSub
          /\ h = [node |-> m.to, from |-> m.from, sub |-> m.sub,
                  hash |-> m.hash, blk |-> cached[m.to], keys |-> {},
                  pc |-> "record"]
      BY <1>4 DEF ReceiveReply
    <2>2. m.type = "REPLY" /\ m.to \in Nodes /\ m.from \in Nodes
          /\ m.sub \in Subs /\ cached[m.to] \in Subs
      BY <1>4, <2>1 DEF ReceiveReply, TypeOK, Commited, Reply
    <2>3. Known(h)
      BY <2>1, <2>2 DEF NetInv, CacheInv
    <2>4. QED
      BY <2>1, <2>2, <2>3, Stable
  <1>5. ASSUME NEW g \in handlers, h \notin handlers,
               \/ ReplyRecord(g) \/ ReplyCount(g)
               \/ ReplyCommit(g) \/ ReplyClean(g)
        PROVE  /\ Known(h)'
               /\ h.pc \in {"commit", "clean"} => Quorum(h.keys, h.blk)'
    <2>1. g \in Handler
      BY DEF TypeOK
    <2>2. PICK pc, Q : /\ h = [g EXCEPT !.pc = pc, !.keys = Q]
                       /\ \/ pc = "count"
                          \/ pc = "commit" /\ Q = Replied(g) /\ Enough(g)
                          \/ pc = "clean" /\ Q = g.keys /\ g.pc = "commit"
      BY <1>5 DEF ReplyRecord, ReplyCount, ReplyCommit, ReplyClean, Advance
    <2>3. /\ h.node = g.node /\ h.from = g.from /\ h.sub = g.sub
          /\ h.blk = g.blk /\ h.pc = pc /\ h.keys = Q
      BY <2>1, <2>2 DEF Handler
    <2>4. Known(h)'
      BY <1>1, <2>3
    <2>5. CASE pc = "commit"
      <3>1. Quorum(h.keys, h.blk)
        BY <2>2, <2>3, <2>5, EnoughIsQuorum
      <3>2. h.keys \subseteq Nodes
        <4>1. block[g.blk] \in Block
          BY DEF TypeOK, HandlerInv, Handler, Submitted
        <4>2. QED
          BY <2>2, <2>3, <2>5, <4>1 DEF Replied, Block
      <3>3. QED
        BY <1>2, <2>3, <2>4, <3>1, <3>2
    <2>6. CASE pc = "clean"
      <3>1. Quorum(h.keys, h.blk) /\ h.keys \subseteq Nodes
        BY <2>1, <2>2, <2>3, <2>6 DEF HandlerInv, Handler
      <3>2. QED
        BY <1>2, <2>3, <2>4, <3>1
    <2>7. QED
      BY <2>2, <2>3, <2>4, <2>5, <2>6
  <1>6. \/ h \in handlers
        \/ \E m \in net : ReceiveReply(m)
        \/ \E g \in handlers : \/ ReplyRecord(g) \/ ReplyCount(g)
                               \/ ReplyCommit(g) \/ ReplyClean(g)
    BY DEF Next, vars, Submit, Deliver, Storing, Counting, ReceiveConsensus,
           ConsensusDataBlock, ReceiveCommited, StoreCheck, StoreSpill,
           StoreUpsert, Crash, Lose
  <1>7. QED
    BY <1>3, <1>4, <1>5, <1>6

\* A commit decision is recorded with the quorum of its handler.
LEMMA CommitStep == IInv /\ [Next]_vars /\ Grows => CommitInv'
  <1> SUFFICES ASSUME IInv, [Next]_vars, Grows, NEW c \in commits'
               PROVE  Submitted(c.sub)' /\ Quorum(c.quorum, c.sub)'
    BY DEF CommitInv
  <1> USE DEF IInv
  <1>1. ASSUME NEW s \in Subs, NEW Q \in SUBSET Nodes, Submitted(s),
               Quorum(Q, s)
        PROVE  Submitted(s)' /\ Quorum(Q, s)'
    BY <1>1, Stable, StableQuorum
  <1>2. CASE c \in commits
    <2>1. c.sub \in Subs /\ c.quorum \in SUBSET Nodes
      BY <1>2 DEF TypeOK
    <2>2. QED
      BY <1>1, <1>2, <2>1 DEF CommitInv
  <1>3. ASSUME NEW h \in handlers, ReplyCommit(h), c \notin commits
        PROVE  Submitted(c.sub)' /\ Quorum(c.quorum, c.sub)'
    <2>1. h.blk \in Subs /\ h.keys \in SUBSET Nodes
      BY DEF TypeOK, Handler
    <2>2. Submitted(h.blk) /\ Quorum(h.keys, h.blk)
      BY <1>3 DEF ReplyCommit, HandlerInv
    <2>3. c = [sub |-> h.blk, quorum |-> h.keys]
      BY <1>3 DEF ReplyCommit
    <2>4. QED
      BY <1>1, <2>1, <2>2, <2>3
  <1>4. c \in commits \/ \E h \in handlers : ReplyCommit(h)
    BY DEF Next, vars, Submit, Deliver, Storing, Counting, ReceiveConsensus,
           ConsensusDataBlock, ReceiveCommited, ReceiveReply, StoreCheck,
           StoreSpill, StoreUpsert, ReplyRecord, ReplyCount, ReplyClean, Crash,
           Lose
  <1>5. QED
    BY <1>2, <1>3, <1>4

\* A StoreValue of finalCommit follows a commit of the same block.
LEMMA TaskStep == IInv /\ [Next]_vars /\ Grows => TaskInv'
  <1> DEFINE Known(t) ==
        /\ Submitted(t.sub)
        /\ t.kind = "commited" => Whole(t.sub, t.full)
        /\ t.kind # "commited" => t.node = block[t.sub].primary
        /\ t.kind = "final" => Committed(t.sub)
        /\ t.kind = "direct" =>
             ~Consults(block[t.sub].ts, block[t.sub].peers)
        /\ t.pc = "spill" => ~Small(t.sub)
  <1> SUFFICES ASSUME IInv, [Next]_vars, Grows, NEW t \in tasks'
               PROVE  Known(t)'
    BY DEF TaskInv
  <1> USE DEF IInv
  <1>1. ASSUME NEW u \in Task, Known(u) PROVE Known(u)'
    <2>1. u.sub \in Subs /\ u.full \in BOOLEAN /\ Submitted(u.sub)
      BY <1>1 DEF Task
    <2>2. Consults(block[u.sub].ts, block[u.sub].peers)
          <=> Consults(block'[u.sub].ts, block'[u.sub].peers)
      BY <2>1, Stable
    <2>3. QED
      BY <1>1, <2>1, <2>2, Stable DEF Consults
  <1>2. CASE t \in tasks
    BY <1>1, <1>2 DEF TypeOK, TaskInv
  <1>3. ASSUME NEW n \in Primaries, NEW r \in Subs, NEW ts \in Timestamps,
               NEW P \in NearestConsensusPeer(n), ReceiveConsensus(r, n, ts, P),
               t \notin tasks
        PROVE  Known(t)'
    <2>1. t = NewTask("direct", n, n, r, TRUE) /\ ~Consults(ts, P)
      BY <1>3 DEF ReceiveConsensus
    <2>2. block'[r] = [ts |-> ts, primary |-> n, peers |-> P,
                       full |-> ts \notin Deletes]
      BY <1>3 DEF ReceiveConsensus, TypeOK
    <2>3. block'[r] \in Block
      BY <2>2, ConstantsOK DEF Block, NearestConsensusPeer
    <2>4. QED
      BY <2>1, <2>2, <2>3, NoBlockOK DEF NewTask, Submitted, Consults
  <1>4. ASSUME NEW m \in net, ReceiveCommited(m), t \notin tasks PROVE Known(t)'
    <2>1. t = NewTask("commited", m.to, m.from, m.sub, m.full)
      BY <1>4 DEF ReceiveCommited
    <2>2. NewTask("commited", m.to, m.from, m.sub, m.full) \in Task
      BY <1>4 DEF ReceiveCommited, TypeOK, Reply, NewTask, Task, Commited
    <2>3. Known(t)
      BY <1>4, <2>1 DEF ReceiveCommited, NetInv, NewTask
    <2>4. QED
      BY <1>1, <2>1, <2>2, <2>3
  <1>5. ASSUME NEW h \in handlers, ReplyCommit(h), t \notin tasks PROVE Known(t)'
    <2>1. t = NewTask("final", h.node, h.from, h.blk, TRUE)
      BY <1>5 DEF ReplyCommit
    <2>2. h.blk \in Subs /\ Submitted(h.blk) /\ block[h.blk].primary = h.node
      BY DEF TypeOK, Handler, HandlerInv
    <2>3. Committed(h.blk)'
      <3> DEFINE c == [sub |-> h.blk, quorum |-> h.keys]
      <3>1. c \in commits' /\ c.sub = h.blk
        BY <1>5 DEF ReplyCommit
      <3>2. QED
        BY <3>1, Zenon DEF Committed
    <2>4. /\ t.sub = h.blk /\ t.kind = "final" /\ t.node = h.node
          /\ t.pc = "check"
      BY <2>1 DEF NewTask
    <2>5. Submitted(h.blk)' /\ block'[h.blk].primary = block[h.blk].primary
      BY <2>2, Stable
    <2>6. Submitted(t.sub)' /\ Committed(t.sub)'
      BY <2>3, <2>4, <2>5
    <2>7. QED
      BY <2>2, <2>4, <2>5, <2>6
  <1>6. ASSUME NEW u \in tasks, NEW r, NEW pc \in {"upsert", "spill"},
               t = [u EXCEPT !.pc = pc, !.row = r], pc = "spill" => Spills(u)
        PROVE  Known(t)'
    <2>1. t = [u EXCEPT !.pc = pc, !.row = r] /\ u \in Task
      BY <1>6 DEF TypeOK
    <2>2. /\ t.sub = u.sub /\ t.kind = u.kind /\ t.full = u.full
          /\ t.node = u.node /\ t.pc = pc
      BY <2>1 DEF Task
    <2>3. pc = "spill" => ~Small(u.sub)
      BY <1>6 DEF Spills, Small
    <2>4. Known([u EXCEPT !.pc = "check"])
      BY <2>1 DEF TaskInv, Task
    <2>5. Known([u EXCEPT !.pc = "check"])'
      <3>1. [u EXCEPT !.pc = "check"] \in Task
        BY <2>1 DEF Task
      <3>2. QED
        BY <1>1, <2>4, <3>1
    <2>6. u.sub \in Subs /\ Submitted(u.sub)
      BY <2>1 DEF Task, TaskInv
    <2>7. pc = "spill" => ~Small(u.sub)'
      BY <2>3, <2>6, Stable
    <2>8. QED
      BY <2>1, <2>2, <2>5, <2>7 DEF Task
  <1> HIDE DEF IInv, Known
  <1>7. ASSUME NEW u \in tasks, StoreCheck(u) \/ StoreSpill(u) \/ StoreUpsert(u)
        PROVE  Known(t)'
    <2>1. ASSUME Return(u) \/ ReturnError(u) PROVE t \in tasks
      BY <2>1 DEF Return, ReturnError
    <2>2. CASE StoreCheck(u)
      <3> DEFINE next == IF Spills(u) THEN "spill" ELSE "upsert"
      <3>1. ASSUME NEW r, Goto(u, next, r), t \notin tasks PROVE Known(t)'
        <4>1. PICK pc \in {"upsert", "spill"} :
                pc = next /\ (pc = "spill" => Spills(u))
          OBVIOUS
        <4>2. t = [u EXCEPT !.pc = pc, !.row = r]
          BY <3>1, <4>1 DEF Goto
        <4>3. QED
          BY <1>6, <4>1, <4>2
      <3>2. (\E r : Goto(u, next, r)) \/ Return(u) \/ ReturnError(u)
        BY <2>2 DEF StoreCheck, ReturnAfterWrite
      <3>3. QED
        BY <1>2, <2>1, <3>1, <3>2
    <2>3. CASE StoreSpill(u)
      <3>1. t \in tasks \/ t = [u EXCEPT !.pc = "upsert", !.row = u.row]
        BY <2>3 DEF StoreSpill, Goto
      <3>2. QED
        BY <1>2, <1>6, <3>1
    <2>4. CASE StoreUpsert(u)
      BY <1>2, <2>1, <2>4 DEF StoreUpsert, ReturnAfterWrite
    <2>5. QED
      BY <1>7, <2>2, <2>3, <2>4
  <1>8. \/ t \in tasks
        \/ \E r \in Subs, n \in Primaries, ts \in Timestamps :
              \E P \in NearestConsensusPeer(n) : ReceiveConsensus(r, n, ts, P)
        \/ \E m \in net : ReceiveCommited(m)
        \/ \E h \in handlers : ReplyCommit(h)
        \/ \E u \in tasks : StoreCheck(u) \/ StoreSpill(u) \/ StoreUpsert(u)
    BY DEF Next, vars, Submit, Deliver, Storing, Counting, ConsensusDataBlock,
           ReceiveReply, ReplyRecord, ReplyCount, ReplyClean, Crash, Lose
  <1>9. QED
    BY <1>2, <1>3, <1>4, <1>5, <1>7, <1>8

\* ReceiveConsensus asks peers other than the primary, and caches the block
\* only when it asks some; a handler works on a block it found cached.
LEMMA RoleStep == IInv /\ [Next]_vars /\ Grows => RoleInv'
  <1> SUFFICES ASSUME IInv, [Next]_vars, Grows PROVE RoleInv'
    OBVIOUS
  <1> USE DEF IInv
  <1>1. ASSUME NEW s \in Subs, Submitted(s)
        PROVE  /\ block'[s].primary \notin block'[s].peers
               /\ Consulted(s) => Consulted(s)'
    BY <1>1, Stable DEF RoleInv, Consulted, Consults
  <1>2. CASE Submit
    <2>1. PICK n \in Primaries, r \in Subs, ts \in Timestamps :
            \E P \in NearestConsensusPeer(n) : ReceiveConsensus(r, n, ts, P)
      BY <1>2 DEF Submit
    <2>2. PICK P \in NearestConsensusPeer(n) : ReceiveConsensus(r, n, ts, P)
      BY <2>1
    <2>3. /\ block' = [block EXCEPT ![r] = [ts |-> ts, primary |-> n,
                                           peers |-> P,
                                           full |-> ts \notin Deletes]]
          /\ handlers' = handlers
          /\ \/ cached' = cached
             \/ cached' = [cached EXCEPT ![n] = r] /\ Consults(ts, P)
      BY <2>2 DEF ReceiveConsensus
    <2>4. block'[r].primary = n /\ block'[r].peers = P /\ block'[r].ts = ts
      BY <2>3 DEF TypeOK
    <2>5. \A s \in Subs : s # r => block'[s] = block[s]
      BY <2>3 DEF TypeOK
    <2>6. \A s \in Subs : Submitted(s)' =>
            block'[s].primary \notin block'[s].peers
      BY <2>4, <2>5 DEF NearestConsensusPeer, RoleInv, Submitted
    <2>7. ASSUME NEW x \in Nodes, cached'[x] # NoSub PROVE Consulted(cached[x])'
      <3>1. CASE cached'[x] = cached[x]
        BY <1>1, <2>7, <3>1 DEF CacheInv, RoleInv, TypeOK, Consulted
      <3>2. CASE cached'[x] # cached[x]
        BY <2>3, <2>4, <3>2 DEF TypeOK, Consulted, Consults
      <3>3. QED
        BY <3>1, <3>2
    <2>8. ASSUME NEW h \in handlers' PROVE Consulted(h.blk)'
      BY <1>1, <2>3 DEF HandlerInv, RoleInv, TypeOK, Handler
    <2>9. QED
      BY <2>6, <2>7, <2>8 DEF RoleInv
  <1>3. CASE ~Submit
    <2>1. \A s \in Subs : Submitted(s)' => Submitted(s)
      <3>1. CASE block' = block
        BY <3>1 DEF Submitted
      <3>2. ASSUME NEW t \in tasks, StoreSpill(t)
            PROVE  \A s \in Subs : Submitted(s)' => Submitted(s)
        BY <3>2 DEF StoreSpill, TypeOK, TaskInv, Submitted, Task
      <3>3. QED
        BY <1>3, <3>1, <3>2
           DEF Next, vars, Deliver, Storing, Counting, ConsensusDataBlock,
               ReceiveCommited, ReceiveReply, StoreCheck, StoreUpsert,
               ReplyRecord, ReplyCount, ReplyCommit, ReplyClean, Crash, Lose
    <2>2. ASSUME NEW x \in Nodes, cached'[x] # NoSub PROVE Consulted(cached[x])'
      <3>1. cached'[x] = cached[x]
        BY <1>3, <2>2
           DEF Next, vars, Deliver, Storing, Counting, ConsensusDataBlock,
               ReceiveCommited, ReceiveReply, StoreCheck, StoreSpill,
               StoreUpsert, ReplyRecord, ReplyCount, ReplyCommit, ReplyClean,
               Crash, Lose, TypeOK
      <3>2. QED
        BY <1>1, <2>2, <3>1 DEF CacheInv, RoleInv, TypeOK, Consulted
    <2>3. ASSUME NEW h \in handlers' PROVE Consulted(h.blk)'
      <3>1. ASSUME NEW g \in handlers, h.blk = g.blk PROVE Consulted(h.blk)'
        BY <1>1, <3>1 DEF HandlerInv, RoleInv, TypeOK, Handler
      <3>2. ASSUME NEW m \in net, ReceiveReply(m), h \notin handlers
            PROVE  Consulted(h.blk)'
        <4>1. cached[m.to] # NoSub /\ h.blk = cached[m.to] /\ m.to \in Nodes
          BY <3>2 DEF ReceiveReply, TypeOK, Commited, Reply
        <4>2. cached[m.to] \in Subs /\ Submitted(cached[m.to])
              /\ Consulted(cached[m.to])
          BY <4>1 DEF TypeOK, CacheInv, RoleInv
        <4>3. QED
          BY <1>1, <4>1, <4>2 DEF Consulted
      <3>3. ASSUME NEW g \in handlers, \/ ReplyRecord(g) \/ ReplyCount(g)
                                       \/ ReplyCommit(g) \/ ReplyClean(g)
            PROVE  \E k \in handlers : h.blk = k.blk
        <4>1. g \in Handler
          BY DEF TypeOK
        <4>2. h \in handlers \/ \E pc, Q : h = [g EXCEPT !.pc = pc, !.keys = Q]
          BY <3>3 DEF ReplyRecord, ReplyCount, ReplyCommit, ReplyClean, Advance
        <4>3. ASSUME NEW pc, NEW Q, h = [g EXCEPT !.pc = pc, !.keys = Q]
              PROVE  h.blk = g.blk
          BY <4>1, <4>3 DEF Handler
        <4>4. QED
          BY <4>2, <4>3
      <3>4. \/ h \in handlers
            \/ \E m \in net : ReceiveReply(m)
            \/ \E g \in handlers : \/ ReplyRecord(g) \/ ReplyCount(g)
                                   \/ ReplyCommit(g) \/ ReplyClean(g)
        BY <1>3 DEF Next, vars, Deliver, Storing, Counting, ConsensusDataBlock,
                    ReceiveCommited, StoreCheck, StoreSpill, StoreUpsert,
                    Crash, Lose
      <3>5. QED
        BY <3>1, <3>2, <3>3, <3>4
    <2>4. QED
      BY <1>1, <2>1, <2>2, <2>3 DEF RoleInv
  <1>4. QED
    BY <1>2, <1>3

----------------------------------------------------------------------------
(* The refinement of QuorumCommit, while no payload is large.              *)

\* QuorumCommit counts voters as FiniteSets does.
LEMMA AbsCardinality ==
    ASSUME NEW S PROVE Abstract!Cardinality(S) = Cardinality(S)
  BY Zenon DEF Abstract!Cardinality, Cardinality

\* What the abstract state is made of: while submissions keep their identity
\* it changes only with the histories.
LEMMA AbsUnchanged ==
    ASSUME block' = block
    PROVE  /\ [s \in Subs |-> Asked(s)]' = [s \in Subs |-> Asked(s)]
           /\ {s \in Subs : Submitted(s)
                 /\ ~Consults(block[s].ts, block[s].peers)}'
              = {s \in Subs : Submitted(s)
                 /\ ~Consults(block[s].ts, block[s].peers)}
  BY DEF Asked, Submitted, Consults

\* The submissions named by a history to which one entry is added.
LEMMA SubsAdded ==
    ASSUME NEW S, NEW e
    PROVE  {c.sub : c \in S \cup {e}} = {c.sub : c \in S} \cup {e.sub}
  OBVIOUS

\* A step that leaves submissions and histories alone is a stutter.
LEMMA AbsStutter ==
    ASSUME block' = block, applied' = applied, commits' = commits,
           told' = told
    PROVE  UNCHANGED Abstract!absVars
  BY AbsUnchanged DEF Abstract!absVars

\* ReceiveConsensus is Ask: the primary is asked once per submission.
LEMMA SubmitAsks ==
    ASSUME IInv, NEW n \in Primaries, NEW s \in Subs, NEW ts \in Timestamps,
           NEW P \in NearestConsensusPeer(n), ReceiveConsensus(s, n, ts, P)
    PROVE  Abstract!Ask(s, n)
  <1> DEFINE asked == [r \in Subs |-> Asked(r)]
             alone == {r \in Subs : /\ Submitted(r)
                                    /\ ~Consults(block[r].ts, block[r].peers)}
             new == [ts |-> ts, primary |-> n, peers |-> P,
                     full |-> ts \notin Deletes]
  <1>1. /\ ~Submitted(s) /\ block' = [block EXCEPT ![s] = new]
        /\ applied' = applied /\ commits' = commits /\ told' = told
    BY DEF ReceiveConsensus
  <1>2. new \in Block /\ new # NoBlock
    <2>1. n \in Nodes /\ P \in SUBSET Nodes /\ (ts \notin Deletes) \in BOOLEAN
      BY ConstantsOK DEF NearestConsensusPeer
    <2>2. new \in Block
      BY <2>1 DEF Block
    <2>3. QED
      BY <2>2, NoBlockOK
  <1>3. /\ block'[s] = new
        /\ \A r \in Subs : r # s => block'[r] = block[r]
    BY <1>1 DEF IInv, TypeOK
  <1>4. asked[s] = NoSub
    BY <1>1 DEF Asked
  <1>5. asked' = [asked EXCEPT ![s] = n]
    <2>1. ASSUME NEW r \in Subs
          PROVE  Asked(r)' = IF r = s THEN n ELSE Asked(r)
      BY <1>2, <1>3 DEF Asked, Submitted
    <2>2. QED
      BY <2>1
  <1>6. alone' \in {alone, alone \cup {s}}
    <2>1. ASSUME NEW r \in Subs, r # s PROVE r \in alone' <=> r \in alone
      BY <1>3, <2>1 DEF Submitted, Consults
    <2>2. s \notin alone
      BY <1>1
    <2>3. QED
      BY <2>1, <2>2
  <1>7. QED
    BY <1>1, <1>4, <1>5, <1>6 DEF Abstract!Ask

\* A StoreValue step is Save when it writes, Confirm when it also answers the
\* client, and otherwise changes nothing the promise speaks of.
LEMMA StoringSaves ==
    ASSUME IInv, Grows, Big = {}, NEW t \in tasks,
           StoreCheck(t) \/ StoreUpsert(t)
    PROVE  \/ Abstract!Save(t.node, t.sub) \/ Abstract!Confirm(t.sub)
           \/ UNCHANGED Abstract!absVars
  <1>1. /\ t \in Task /\ t.node \in Nodes /\ t.sub \in Subs
        /\ Submitted(t.sub) /\ block[t.sub] \in Block
    BY DEF IInv, TypeOK, TaskInv, Task, Submitted
  <1>2. block' = block /\ commits' = commits
    BY DEF StoreCheck, StoreUpsert
  <1>3. applied' = applied \/ applied' = applied \cup {<<t.node, t.sub>>}
    BY DEF StoreCheck, StoreUpsert, Apply
  <1>4. Asked(t.sub) = block[t.sub].primary /\ Asked(t.sub) # NoSub
    BY <1>1, ConstantsOK DEF Asked, Block
  <1>5. CASE told' = told
    BY <1>1, <1>2, <1>3, <1>4, <1>5, AbsUnchanged, AbsStutter
       DEF Abstract!Save
  <1>6. CASE told' # told
    <2>1. Return(t) /\ Applied(t.node, t.sub)'
      BY <1>6, ReturnApplies
    <2>2. t.kind # "commited"
          /\ \E d \in BOOLEAN :
               told' = told \cup {[sub |-> t.sub, delete |-> d]}
      BY <1>6, <2>1 DEF Return
    <2>3. t.node = Asked(t.sub)
      BY <1>4, <2>2 DEF IInv, TaskInv
    <2>4. applied' = applied \cup {<<Asked(t.sub), t.sub>>}
      BY <1>2, <1>3, <2>1, <2>3 DEF Applied, Small
    <2>5. {e.sub : e \in told'} = {e.sub : e \in told} \cup {t.sub}
      <3>1. PICK d \in BOOLEAN :
              told' = told \cup {[sub |-> t.sub, delete |-> d]}
        BY <2>2
      <3> DEFINE e == [sub |-> t.sub, delete |-> d]
      <3>2. told' = told \cup {e} /\ e.sub = t.sub
        BY <3>1
      <3> HIDE DEF e
      <3>3. QED
        BY <3>2, SubsAdded
    <2>6. \/ t.sub \in {c.sub : c \in commits}
          \/ t.sub \in {s \in Subs : Submitted(s)
                           /\ ~Consults(block[s].ts, block[s].peers)}
      <3>1. CASE t.kind = "final"
        BY <3>1 DEF IInv, TaskInv, Committed
      <3>2. CASE t.kind = "direct"
        BY <1>1, <3>2 DEF IInv, TaskInv
      <3>3. QED
        BY <1>1, <2>2, <3>1, <3>2 DEF Task
    <2>7. QED
      BY <1>1, <1>2, <2>4, <2>5, <2>6, AbsUnchanged DEF Abstract!Confirm
  <1>7. QED
    BY <1>5, <1>6

\* The decision of ReceiveReply is Commit: the peers it counted are voters.
LEMMA DecisionCommits ==
    ASSUME IInv, Big = {}, NEW h \in handlers, ReplyCommit(h)
    PROVE  Abstract!Commit(h.blk)
  <1> DEFINE s == h.blk
  <1>1. /\ s \in Subs /\ Submitted(s) /\ block[s] \in Block
        /\ h.keys \subseteq Nodes
    BY DEF IInv, TypeOK, HandlerInv, Handler, Submitted
  <1>2. /\ block' = block /\ applied' = applied /\ told' = told
        /\ commits' = commits \cup {[sub |-> s, quorum |-> h.keys]}
        /\ h.pc = "commit"
    BY DEF ReplyCommit
  <1>3. Quorum(h.keys, s) /\ Consulted(s)
        /\ block[s].primary \notin block[s].peers
    BY <1>1, <1>2 DEF IInv, HandlerInv, RoleInv
  <1>4. \A r \in Subs : Submitted(r) => Asked(r) = block[r].primary
    BY DEF Asked
  <1>5. h.keys \subseteq Abstract!Voters(s)
    <2> SUFFICES ASSUME NEW p \in h.keys PROVE p \in Abstract!Voters(s)
      OBVIOUS
    <2>1. p \in Nodes \ {Asked(s)}
      BY <1>1, <1>3, <1>4 DEF Quorum
    <2>2. PICK r \in Subs : /\ Submitted(r)
                            /\ block[r].primary = block[s].primary
                            /\ Applied(p, r)
      BY <1>3 DEF Quorum, Vote
    <2>3. Asked(r) = Asked(s) /\ <<p, r>> \in applied
      BY <1>1, <1>4, <2>2 DEF Applied, Small
    <2>4. QED
      BY <1>1, <2>1, <2>3 DEF Abstract!Voters
  <1>6. Cardinality(Abstract!Voters(s)) >= StdMinPeerNum
    <2>1. IsFiniteSet(Abstract!Voters(s))
      BY FS_Subset, ConstantsOK DEF Abstract!Voters
    <2>2. /\ Cardinality(h.keys) <= Cardinality(Abstract!Voters(s))
          /\ Cardinality(h.keys) \in Nat
          /\ Cardinality(Abstract!Voters(s)) \in Nat
      BY <1>5, <2>1, FS_Subset, FS_CardinalityType
    <2>3. QED
      BY <1>3, <2>2, ConstantsOK DEF Quorum
  <1>7. Asked(s) # NoSub
    BY <1>1, <1>4, ConstantsOK DEF Block
  <1>8. {c.sub : c \in commits'} = {c.sub : c \in commits} \cup {s}
    <2> DEFINE e == [sub |-> s, quorum |-> h.keys]
    <2>1. commits' = commits \cup {e} /\ e.sub = s
      BY <1>2
    <2> HIDE DEF e
    <2>2. QED
      BY <2>1, SubsAdded
  <1>9. QED
    BY <1>1, <1>2, <1>3, <1>6, <1>7, <1>8, AbsUnchanged, AbsCardinality
       DEF Abstract!Commit, Consulted

----------------------------------------------------------------------------
(* The theorems.                                                           *)

\* IInv holds in every reachable state.
THEOREM Invariance == Spec => []IInv
  <1>1. Init => IInv
    BY InitInv
  <1>2. IInv /\ [Next]_vars => IInv'
    <2> SUFFICES ASSUME IInv, [Next]_vars PROVE IInv'
      OBVIOUS
    <2>1. TypeOK /\ Refs
      BY InvRefs DEF IInv
    <2>2. TypeOK' /\ Grows
      BY <2>1, NextTypes, NextGrows
    <2>3. BlockInv' /\ CacheInv' /\ OutboxInv' /\ NetInv' /\ TaskInv'
      BY <2>2, BlockStep, CacheStep, OutboxStep, NetStep, TaskStep
    <2>4. LogInv' /\ HandlerInv' /\ CommitInv' /\ ToldInv' /\ RoleInv'
      BY <2>2, LogStep, HandlerStep, CommitStep, ToldStep, RoleStep
    <2>5. QED
      BY <2>2, <2>3, <2>4 DEF IInv
  <1>3. QED
    BY <1>1, <1>2, PTL DEF Spec

\* Every variable keeps its type.
THEOREM TypeCorrect == Spec => []TypeOK
  <1>1. IInv => TypeOK
    BY DEF IInv
  <1>2. QED
    BY <1>1, Invariance, PTL

\* A commit counts StdMinPeerNum followers, each of which has applied a
\* submission of the same primary.
THEOREM CommitHasQuorum == Spec => []QuorumApplied
  <1>1. IInv => QuorumApplied
    BY DEF IInv, CommitInv, Quorum, Vote, Applied, QuorumApplied
  <1>2. QED
    BY <1>1, Invariance, PTL

\* A block submitted once to its primary is on StdMinPeerNum followers when
\* the primary commits it.
THEOREM CommitIsDurable == Spec => []DurableCommit
  <1>1. IInv => DurableCommit
    <2> SUFFICES ASSUME IInv, NEW c \in commits, Solo(c.sub), Small(c.sub)
                 PROVE  Cardinality({p \in block[c.sub].peers :
                                       <<p, c.sub>> \in applied})
                          >= StdMinPeerNum
      BY DEF DurableCommit
    <2> DEFINE D == {p \in block[c.sub].peers : <<p, c.sub>> \in applied}
    <2>1. /\ c.sub \in Subs /\ Submitted(c.sub) /\ Quorum(c.quorum, c.sub)
          /\ block[c.sub] \in Block
      BY DEF IInv, TypeOK, CommitInv, Submitted
    <2>2. ASSUME NEW p \in c.quorum PROVE <<p, c.sub>> \in applied
      <3>1. PICK s \in Subs : /\ Submitted(s) /\ Applied(p, s)
                              /\ block[s].primary = block[c.sub].primary
        BY <2>1 DEF Quorum, Vote
      <3>2. s = c.sub
        BY <3>1 DEF Solo
      <3>3. QED
        BY <3>1, <3>2 DEF Applied
    <2>3. c.quorum \subseteq D
      BY <2>1, <2>2 DEF Quorum
    <2>4. IsFiniteSet(D)
      BY <2>1, FS_Subset, ConstantsOK DEF Block
    <2>5. /\ Cardinality(c.quorum) <= Cardinality(D)
          /\ Cardinality(c.quorum) \in Nat /\ Cardinality(D) \in Nat
      BY <2>3, <2>4, FS_Subset, FS_CardinalityType
    <2>6. Cardinality(c.quorum) >= StdMinPeerNum
      BY <2>1 DEF Quorum
    <2>7. QED
      BY <2>5, <2>6, ConstantsOK
  <1>2. QED
    BY <1>1, Invariance, PTL

\* The client is told of a block only after the primary has applied it and,
\* where followers were asked, after a commit.
THEOREM ConfirmationIsSound == Spec => []ToldAfterCommit
  <1>1. IInv => ToldAfterCommit
    BY DEF IInv, ToldInv, Applied, Committed, ToldAfterCommit
  <1>2. QED
    BY <1>1, Invariance, PTL

\* While no payload exceeds PayloadLimit, every step of the handlers is one
\* step of QuorumCommit or none: the client asks, nodes save, and the primary
\* commits with a quorum of followers before it confirms.
THEOREM QuorumPromise ==
    ASSUME Big = {}
    PROVE  Spec => ImplementsQuorumCommit
  <1>1. Init => Abstract!AbsInit
    BY DEF Init, Abstract!AbsInit, Asked, Submitted
  <1>2. IInv /\ [Next]_vars => [Abstract!AbsNext]_(Abstract!absVars)
    <2> SUFFICES ASSUME IInv, [Next]_vars
                 PROVE  [Abstract!AbsNext]_(Abstract!absVars)
      OBVIOUS
    <2>1. Grows
      BY InvRefs, NextGrows DEF IInv
    <2>2. CASE Submit
      <3>1. PICK s \in Subs, n \in Primaries, ts \in Timestamps :
              \E P \in NearestConsensusPeer(n) : ReceiveConsensus(s, n, ts, P)
        BY <2>2 DEF Submit
      <3>2. n \in Nodes /\ Abstract!Ask(s, n)
        BY <3>1, SubmitAsks, ConstantsOK
      <3>3. QED
        BY <3>2 DEF Abstract!AbsNext
    <2>3. CASE Storing
      <3>1. PICK t \in tasks : StoreCheck(t) \/ StoreSpill(t) \/ StoreUpsert(t)
        BY <2>3 DEF Storing
      <3>2. ~StoreSpill(t)
        BY DEF StoreSpill, IInv, TaskInv, Small
      <3>3. t.node \in Nodes /\ t.sub \in Subs
        BY DEF IInv, TypeOK, Task
      <3>4. QED
        BY <2>1, <3>1, <3>2, <3>3, StoringSaves DEF Abstract!AbsNext
    <2>4. ASSUME NEW h \in handlers, ReplyCommit(h)
          PROVE  [Abstract!AbsNext]_(Abstract!absVars)
      <3>1. h.blk \in Subs /\ Abstract!Commit(h.blk)
        BY <2>4, DecisionCommits DEF IInv, TypeOK, Handler
      <3>2. QED
        BY <3>1 DEF Abstract!AbsNext
    <2>5. CASE /\ block' = block /\ applied' = applied /\ commits' = commits
               /\ told' = told
      BY <2>5, AbsStutter
    <2>6. QED
      BY <2>2, <2>3, <2>4, <2>5
         DEF Next, vars, Deliver, Counting, ConsensusDataBlock,
             ReceiveCommited, ReceiveReply, ReplyRecord, ReplyCount,
             ReplyClean, Crash, Lose
  <1>3. QED
    BY <1>1, <1>2, Invariance, PTL
       DEF Spec, ImplementsQuorumCommit, Abstract!AbsSpec
============================================================================
