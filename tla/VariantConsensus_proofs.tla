---------------------- MODULE VariantConsensus_proofs ----------------------
(***************************************************************************)
(* Proofs about VariantConsensus, for any endpoints, submissions and lists *)
(* of peers a client may send: the types of both variants, and who an      *)
(* answer that is recorded was asked of.                                   *)
(***************************************************************************)
EXTENDS VariantConsensus, SequenceTheorems, TLAPS

----------------------------------------------------------------------------
(* Types.                                                                  *)

\* Both variants start with empty caches and tables.
LEMMA InitTypes == Init => TypeOK
  BY SubsOK, BoundsOK DEF Init, TypeOK, NoLogs, CacheLog

\* A message in flight is of its type, and of a submission unless it is the
\* COMMITED one.
LEMMA MessageTypes ==
    ASSUME TypeOK, NEW m \in net
    PROVE  /\ m.type = "PREPREPARED" => m \in Preprepared
           /\ m.type = "PREPARED" => m \in Prepared
           /\ m.type = "COMMITED" => m \in Commited
  BY DEF TypeOK, Preprepared, Prepared, Commited

\* A process that stops keeps the types of what is left.
LEMMA StopTypes ==
    ASSUME TypeOK, NEW n \in Nodes, NEW how \in {"crash", "panic"}, Stop(n, how)
    PROVE  /\ up' \subseteq Nodes
           /\ stops' \in [Nodes -> {"no", "crash", "panic"}]
           /\ cached' \in [Nodes -> Subs \cup {NoSub}]
           /\ logs' \in [Nodes -> [Peers -> CacheLog]]
           /\ handlers' \subseteq handlers
  <1>1. NoLogs \in [Peers -> CacheLog]
    BY DEF NoLogs, CacheLog
  <1>2. QED
    BY <1>1 DEF Stop, TypeOK

\* The proposals of ReceiveConsensus go to followers.
LEMMA ConsensusTypes ==
    ASSUME TypeOK, NEW s \in Subs, NEW P \in ChooseConsensusPeer, NEW L \in Lists,
           ReceiveConsensus(s, P, L)
    PROVE  TypeOK'
  <1> DEFINE to == IF Cardinality(P) > 2 THEN P ELSE {}
             sent == {Message("PREPREPARED", Primary, n, s) : n \in to \ {Primary}}
  <1>1. to \in SUBSET Nodes
    BY DEF ChooseConsensusPeer
  <1>2. sent \subseteq Preprepared
    BY <1>1 DEF Message, Preprepared, Followers
  <1>3. /\ net' = net \cup sent /\ chosen' = [chosen EXCEPT ![s] = to]
        /\ taken' = taken \cup {s}
    BY DEF ReceiveConsensus
  <1>4. cached' \in [Nodes -> Subs \cup {NoSub}]
    BY PrimaryOK DEF ReceiveConsensus, TypeOK
  <1>5. list' \in [Subs -> Lists \cup {<<>>}]
    BY DEF ReceiveConsensus, TypeOK
  <1>6. /\ net' \subseteq Preprepared \cup Prepared \cup Commited
        /\ chosen' \in [Subs -> SUBSET Nodes] /\ taken' \subseteq Subs
    <2> HIDE DEF to, sent
    <2> QED
      BY <1>1, <1>2, <1>3 DEF TypeOK
  <1>7. QED
    BY <1>4, <1>5, <1>6 DEF ReceiveConsensus, TypeOK

\* An answer goes from the follower to the primary or a peer chosen.
LEMMA AnswerTypes ==
    ASSUME TypeOK, NEW n \in Followers, NEW s \in Subs
    PROVE  /\ Answers(n, s) \subseteq Prepared
           /\ \A m \in Answers(n, s) :
                m.from = n /\ m.sub = s /\ m.to \in chosen[s] \cup {Primary}
  <1>1. ASSUME NEW g \in Nodes
        PROVE  /\ Message("PREPARED", n, g, s) \in Prepared
               /\ Message("PREPARED", n, g, s).from = n
               /\ Message("PREPARED", n, g, s).sub = s
               /\ Message("PREPARED", n, g, s).to = g
    BY DEF Message, Prepared
  <1>2. chosen[s] \in SUBSET Nodes
    BY DEF TypeOK
  <1>3. ASSUME NEW m \in Answers(n, s)
        PROVE  \E g \in chosen[s] \cup {Primary} :
                 m = Message("PREPARED", n, g, s)
    BY DEF Answers
  <1>4. QED
    BY <1>1, <1>2, <1>3, PrimaryOK

LEMMA PreparingTypes ==
    ASSUME TypeOK, NEW m \in net, ReceivePreprepared(m)
    PROVE  TypeOK'
  <1>1. m \in Preprepared
    BY MessageTypes DEF ReceivePreprepared
  <1>2. m.to \in Followers /\ m.to \in Nodes /\ m.to \in Peers /\ m.sub \in Subs
    BY <1>1 DEF Preprepared, Followers, Peers
  <1>3. net' \subseteq Preprepared \cup Prepared \cup Commited
    BY <1>2, AnswerTypes DEF ReceivePreprepared, TypeOK
  <1>4. logs' \in [Nodes -> [Peers -> CacheLog]]
    <2>1. logs \in [Nodes -> [Peers -> CacheLog]] /\ m.sub \in CacheLog
      BY <1>2 DEF TypeOK, CacheLog
    <2>2. \/ logs' = [logs EXCEPT ![m.to][m.to] = m.sub]
          \/ logs' = logs
      BY DEF ReceivePreprepared
    <2>3. QED
      BY <1>2, <2>1, <2>2
  <1>5. cached' \in [Nodes -> Subs \cup {NoSub}]
    BY <1>2 DEF ReceivePreprepared, TypeOK
  <1>6. QED
    BY <1>3, <1>4, <1>5 DEF ReceivePreprepared, TypeOK

\* A handler that read the log of its message works on that message.
LEMMA NewHandler ==
    ASSUME TypeOK, NEW m \in net, ReceivePrepared(m), NEW h \in handlers'
    PROVE  \/ h \in handlers
           \/ /\ h \in Handler /\ h.node = m.to /\ h.from = m.from
              /\ h.sub = m.sub
  <1>1. m \in Prepared
    BY MessageTypes DEF ReceivePrepared
  <1>2. PICK found \in BOOLEAN, pc \in {"record", "count"} :
          \/ h \in handlers
          \/ h = [node |-> m.to, from |-> m.from, sub |-> m.sub,
                  found |-> found, pc |-> pc]
    BY DEF ReceivePrepared
  <1>3. [node |-> m.to, from |-> m.from, sub |-> m.sub, found |-> found,
         pc |-> pc] \in Handler
    BY <1>1 DEF Prepared, Handler
  <1>4. QED
    BY <1>2, <1>3

\* Recording an answer keeps the types, and moves a raft handler on.
LEMMA RecordTypes ==
    ASSUME TypeOK, NEW h \in handlers, RecordPrepared(h)
    PROVE  TypeOK'
  <1>1. h \in Handler
    BY DEF TypeOK
  <1>2. /\ h.node \in Nodes /\ h.from \in Followers /\ h.from \in Nodes
        /\ h.from \in Peers /\ h.sub \in Subs
    BY <1>1 DEF Handler, Followers, Peers
  <1>3. [from |-> h.from, status |-> "PREPARED", sub |-> h.sub] \in Row
    BY <1>2 DEF Row
  <1>4. rows' \in [Nodes -> SUBSET Row]
    BY <1>2, <1>3 DEF RecordPrepared, TypeOK
  <1>5. logs' \in [Nodes -> [Peers -> CacheLog]]
    BY <1>2 DEF RecordPrepared, TypeOK, CacheLog
  <1>6. [h EXCEPT !.pc = "count"] \in Handler
    BY <1>1 DEF Handler
  <1>7. handlers' \subseteq Handler
    BY <1>6 DEF RecordPrepared, TypeOK
  <1>8. QED
    BY <1>4, <1>5, <1>7 DEF RecordPrepared, TypeOK

\* The list the primary counts by names peers, in a sequence.
LEMMA CountedList ==
    ASSUME TypeOK, cached[Primary] # NoSub
    PROVE  /\ list[cached[Primary]] \in Seq(Peers)
           /\ Len(list[cached[Primary]]) \in Nat
           /\ \A i \in 1 .. Len(list[cached[Primary]]) :
                list[cached[Primary]][i] \in Peers
  <1>1. cached[Primary] \in Subs
    BY PrimaryOK DEF TypeOK
  <1>2. list[cached[Primary]] \in Lists \cup {<<>>}
    BY <1>1 DEF TypeOK
  <1>3. <<>> \in Seq(Peers)
    OBVIOUS
  <1>4. list[cached[Primary]] \in Seq(Peers)
    BY <1>2, <1>3, ListsOK
  <1>5. QED
    BY <1>4

\* CountPrepared stops the primary, decides, or only ends.
LEMMA CountTypes ==
    ASSUME TypeOK, NEW h \in handlers, CountPrepared(h)
    PROVE  TypeOK'
  <1>1. CASE cached[Primary] = NoSub
    <2>1. Stop(Primary, "panic") /\ UNCHANGED net
      BY <1>1 DEF CountPrepared
    <2>2. QED
      BY <2>1, StopTypes, PrimaryOK DEF CountPrepared, TypeOK
  <1>2. CASE cached[Primary] # NoSub
    <2> DEFINE L == list[cached[Primary]]
    <2>1. /\ L \in Seq(Peers) /\ Len(L) \in Nat
          /\ \A i \in 1 .. Len(L) : L[i] \in Peers
      BY <1>2, CountedList
    <2>2. /\ handlers' = handlers \ {h} /\ UNCHANGED <<cached, up, stops>>
      BY <1>2 DEF CountPrepared
    <2>3. \/ UNCHANGED <<logs, net>>
          \/ /\ Len(L) > 2
             /\ logs' = [logs EXCEPT ![Primary][L[Len(L)]] = NoHash]
             /\ net' = net \cup
                  {Message("COMMITED", Primary, n, NoSub) :
                     n \in Followers \cap {L[i] : i \in DOMAIN L}}
      BY <1>2 DEF CountPrepared
    <2>4. logs' \in [Nodes -> [Peers -> CacheLog]]
      <3>1. Len(L) > 2 => L[Len(L)] \in Peers
        BY <2>1
      <3> HIDE DEF L
      <3>2. QED
        BY <2>3, <3>1, PrimaryOK DEF TypeOK, CacheLog
    <2>5. net' \subseteq Preprepared \cup Prepared \cup Commited
      <3>1. \A n \in Followers : Message("COMMITED", Primary, n, NoSub) \in Commited
        BY DEF Message, Commited
      <3> HIDE DEF L
      <3>2. QED
        BY <2>3, <3>1 DEF TypeOK
    <2>6. QED
      BY <2>2, <2>4, <2>5 DEF CountPrepared, TypeOK
  <1>3. QED
    BY <1>1, <1>2

LEMMA NextTypes == TypeOK /\ [Next]_vars => TypeOK'
  <1> SUFFICES ASSUME TypeOK, [Next]_vars PROVE TypeOK'
    OBVIOUS
  <1>1. ASSUME NEW m \in net, ReceivePrepared(m) PROVE TypeOK'
    <2>1. handlers' \subseteq Handler
      BY <1>1, NewHandler DEF TypeOK
    <2>2. QED
      BY <1>1, <2>1 DEF ReceivePrepared, TypeOK
  <1>2. ASSUME NEW m \in net, ReceiveCommited(m) PROVE TypeOK'
    <2>1. m.to \in Nodes
      BY <1>2, MessageTypes DEF ReceiveCommited, Commited, Followers
    <2>2. [from |-> Primary, status |-> "COMMITED", sub |-> NoSub] \in Row
      BY PrimaryOK DEF Row
    <2>3. rows' \in [Nodes -> SUBSET Row]
      BY <1>2, <2>1, <2>2 DEF ReceiveCommited, TypeOK
    <2>4. QED
      BY <1>2, <2>1, <2>3, StopTypes DEF ReceiveCommited, TypeOK
  <1>3. CASE Crash
    <2>1. crashes' \in 0 .. MaxCrashes
      BY <1>3, BoundsOK DEF Crash, TypeOK
    <2>2. QED
      BY <1>3, <2>1, StopTypes, PrimaryOK DEF Crash, TypeOK
  <1>4. ASSUME NEW n \in Nodes, Restart(n) PROVE TypeOK'
    <2>1. restarts' \in 0 .. MaxRestarts /\ up' \subseteq Nodes
      BY <1>4, BoundsOK DEF Restart, TypeOK
    <2>2. QED
      BY <1>4, <2>1 DEF Restart, TypeOK, memory
  <1>5. CASE UNCHANGED vars
    BY <1>5 DEF vars, TypeOK
  <1>6. QED
    BY <1>1, <1>2, <1>3, <1>4, <1>5, ConsensusTypes, PreparingTypes,
       RecordTypes, CountTypes DEF Next

----------------------------------------------------------------------------
(* Who an answer was asked of.                                             *)

\* Submissions are proposed once: what is known of one stays known.
LEMMA ProposedStays ==
    ASSUME TypeOK, [Next]_vars, NEW s \in Subs, NEW f, NEW n
    PROVE  /\ Proposed(s, f) => Proposed(s, f)'
           /\ Proposed(s, f) /\ Expects(n, s) => Expects(n, s)'
  <1>1. ASSUME NEW r \in Subs, NEW P \in ChooseConsensusPeer, NEW L \in Lists,
               ReceiveConsensus(r, P, L)
        PROVE  /\ taken \subseteq taken'
               /\ s \in taken => chosen'[s] = chosen[s]
    BY <1>1 DEF ReceiveConsensus, TypeOK
  <1>2. \/ taken' = taken /\ chosen' = chosen
        \/ \E r \in Subs, P \in ChooseConsensusPeer, L \in Lists :
             ReceiveConsensus(r, P, L)
    BY DEF Next, vars, ReceivePreprepared, ReceivePrepared, RecordPrepared,
           CountPrepared, ReceiveCommited, Crash, Restart
  <1>3. taken \subseteq taken' /\ (s \in taken => chosen'[s] = chosen[s])
    BY <1>1, <1>2
  <1>4. QED
    BY <1>3 DEF Proposed, Expects

\* A proposal goes to a peer chosen, and an answer to one that expects it.
LEMMA NetStep == VariantInv /\ [Next]_vars => NetInv'
  <1> SUFFICES ASSUME VariantInv, [Next]_vars, NEW m \in net'
               PROVE  /\ m.type = "PREPREPARED" => Proposed(m.sub, m.to)'
                      /\ m.type = "PREPARED" =>
                           Proposed(m.sub, m.from)' /\ Expects(m.to, m.sub)'
    BY DEF NetInv
  <1> USE DEF VariantInv
  <1>1. CASE m \in net
    <2>1. m.type \in {"PREPREPARED", "PREPARED"} => m.sub \in Subs
      BY <1>1, MessageTypes DEF Preprepared, Prepared
    <2>2. QED
      BY <1>1, <2>1, ProposedStays DEF NetInv
  <1>2. ASSUME NEW s \in Subs, NEW P \in ChooseConsensusPeer, NEW L \in Lists,
               ReceiveConsensus(s, P, L), m \notin net
        PROVE  m.type = "PREPREPARED" /\ Proposed(m.sub, m.to)'
    <2> DEFINE to == IF Cardinality(P) > 2 THEN P ELSE {}
    <2>1. PICK n \in to : m = Message("PREPREPARED", Primary, n, s)
      BY <1>2 DEF ReceiveConsensus
    <2>2. m.type = "PREPREPARED" /\ m.sub = s /\ m.to = n
      BY <2>1 DEF Message
    <2>3. s \in taken' /\ chosen'[s] = to
      BY <1>2 DEF ReceiveConsensus, TypeOK
    <2>4. QED
      BY <2>2, <2>3 DEF Proposed
  <1>3. ASSUME NEW q \in net, ReceivePreprepared(q), m \notin net
        PROVE  /\ m.type = "PREPARED"
               /\ Proposed(m.sub, m.from)' /\ Expects(m.to, m.sub)'
    <2>1. q.to \in Followers /\ q.sub \in Subs /\ Proposed(q.sub, q.to)
      BY <1>3, MessageTypes DEF ReceivePreprepared, Preprepared, NetInv
    <2>2. m \in Answers(q.to, q.sub)
      BY <1>3 DEF ReceivePreprepared
    <2>3. /\ m.from = q.to /\ m.sub = q.sub /\ Expects(m.to, m.sub)
          /\ m.type = "PREPARED"
      BY <2>1, <2>2, AnswerTypes DEF Expects, Prepared
    <2>4. QED
      BY <2>1, <2>3, ProposedStays
  <1>4. ASSUME NEW h \in handlers, CountPrepared(h), m \notin net
        PROVE  m.type = "COMMITED"
    <2>1. CASE cached[Primary] = NoSub
      BY <1>4, <2>1 DEF CountPrepared
    <2>2. CASE cached[Primary] # NoSub
      <3> DEFINE L == list[cached[Primary]]
      <3>1. \/ net' = net
            \/ net' = net \cup
                 {Message("COMMITED", Primary, n, NoSub) :
                    n \in Followers \cap {L[i] : i \in DOMAIN L}}
        BY <1>4, <2>2 DEF CountPrepared
      <3>2. PICK n \in Followers : m = Message("COMMITED", Primary, n, NoSub)
        <4> HIDE DEF L
        <4> QED
          BY <1>4, <3>1
      <3>3. QED
        BY <3>2 DEF Message
    <2>3. QED
      BY <2>1, <2>2
  <1>5. \/ m \in net
        \/ \E s \in Subs, P \in ChooseConsensusPeer, L \in Lists :
             ReceiveConsensus(s, P, L)
        \/ \E q \in net : ReceivePreprepared(q)
        \/ \E h \in handlers : CountPrepared(h)
    BY DEF Next, vars, ReceivePrepared, RecordPrepared, ReceiveCommited, Crash,
           Restart
  <1>6. QED
    BY <1>1, <1>2, <1>3, <1>4, <1>5

\* A handler works on the answer of its message.
LEMMA HandlersStep == VariantInv /\ [Next]_vars => HandlersInv'
  <1> SUFFICES ASSUME VariantInv, [Next]_vars, NEW h \in handlers'
               PROVE  Proposed(h.sub, h.from)' /\ Expects(h.node, h.sub)'
    BY DEF HandlersInv
  <1> USE DEF VariantInv
  <1>1. ASSUME NEW g \in handlers, h.sub = g.sub, h.from = g.from,
               h.node = g.node
        PROVE  Proposed(h.sub, h.from)' /\ Expects(h.node, h.sub)'
    <2>1. g.sub \in Subs /\ Proposed(g.sub, g.from) /\ Expects(g.node, g.sub)
      BY DEF TypeOK, Handler, HandlersInv
    <2>2. QED
      BY <1>1, <2>1, ProposedStays
  <1>2. ASSUME NEW m \in net, ReceivePrepared(m), h \notin handlers
        PROVE  Proposed(h.sub, h.from)' /\ Expects(h.node, h.sub)'
    <2>1. h.node = m.to /\ h.from = m.from /\ h.sub = m.sub
      BY <1>2, NewHandler
    <2>2. m.sub \in Subs /\ Proposed(m.sub, m.from) /\ Expects(m.to, m.sub)
      BY <1>2, MessageTypes DEF ReceivePrepared, Prepared, NetInv
    <2>3. QED
      BY <2>1, <2>2, ProposedStays
  <1>3. ASSUME NEW g \in handlers, RecordPrepared(g), h \notin handlers
        PROVE  Proposed(h.sub, h.from)' /\ Expects(h.node, h.sub)'
    <2>1. h = [g EXCEPT !.pc = "count"] /\ g \in Handler
      BY <1>3 DEF RecordPrepared, TypeOK
    <2>2. QED
      BY <1>1, <2>1 DEF Handler
  <1>4. \/ h \in handlers
        \/ \E m \in net : ReceivePrepared(m)
        \/ \E g \in handlers : RecordPrepared(g)
    BY DEF Next, vars, ReceiveConsensus, ReceivePreprepared, CountPrepared,
           ReceiveCommited, Crash, Restart, memory, Stop
  <1>5. QED
    BY <1>1, <1>2, <1>3, <1>4

\* A row is that of the handler which recorded it.
LEMMA RowsStep == VariantInv /\ [Next]_vars => RowsInv'
  <1> SUFFICES ASSUME VariantInv, [Next]_vars, NEW n \in Nodes,
                      NEW r \in rows'[n], r.status = "PREPARED"
               PROVE  Proposed(r.sub, r.from)' /\ Expects(n, r.sub)'
    BY DEF RowsInv
  <1> USE DEF VariantInv
  <1>1. CASE r \in rows[n]
    <2>1. Proposed(r.sub, r.from) /\ Expects(n, r.sub)
      BY <1>1 DEF RowsInv
    <2>2. r.sub \in Subs
      BY <2>1 DEF Proposed, TypeOK
    <2>3. QED
      BY <2>1, <2>2, ProposedStays
  <1>2. ASSUME NEW h \in handlers, RecordPrepared(h), r \notin rows[n]
        PROVE  Proposed(r.sub, r.from)' /\ Expects(n, r.sub)'
    <2>1. /\ n = h.node
          /\ r = [from |-> h.from, status |-> "PREPARED", sub |-> h.sub]
      BY <1>2 DEF RecordPrepared, TypeOK
    <2>2. h.sub \in Subs /\ Proposed(h.sub, h.from) /\ Expects(h.node, h.sub)
      BY DEF TypeOK, Handler, HandlersInv
    <2>3. QED
      BY <2>1, <2>2, ProposedStays
  <1>3. ASSUME NEW m \in net, ReceiveCommited(m) PROVE r \in rows[n]
    BY <1>3 DEF ReceiveCommited, TypeOK
  <1>4. \/ r \in rows[n]
        \/ \E h \in handlers : RecordPrepared(h)
        \/ \E m \in net : ReceiveCommited(m)
    BY DEF Next, vars, ReceiveConsensus, ReceivePreprepared, ReceivePrepared,
           CountPrepared, Crash, Restart
  <1>5. QED
    BY <1>1, <1>2, <1>3, <1>4

----------------------------------------------------------------------------
(* The theorems.                                                           *)

\* In both variants the variables keep their types, and what is in flight, in
\* a handler or in a table speaks of answers that were asked for
\* (raft/default.go:136-330, pbft/default.go:120-283).
THEOREM VariantInvariant == Spec => []VariantInv
  <1>1. Init => VariantInv
    BY InitTypes DEF Init, VariantInv, NetInv, HandlersInv, RowsInv
  <1>2. VariantInv /\ [Next]_vars => VariantInv'
    BY NextTypes, NetStep, HandlersStep, RowsStep DEF VariantInv
  <1>3. QED
    BY <1>1, <1>2, PTL DEF Spec

\* A recorded answer was asked for by the submission it answers, and is
\* recorded where it was to go.
THEOREM AnswersAreAskedFor == Spec => []AnswersProposed
  <1>1. VariantInv => AnswersProposed
    BY DEF VariantInv, RowsInv, Proposed, Expects, AnswersProposed
  <1>2. QED
    BY <1>1, VariantInvariant, PTL
=============================================================================
