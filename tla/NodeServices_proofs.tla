------------------------- MODULE NodeServices_proofs -------------------------
(***************************************************************************)
(* Proofs about what a node does for its clients: the handlers of signals, *)
(* chats and requests about rooms, and a chat that is handed from node to  *)
(* node (NodeHandlers), for any slots, chats, requests, nodes and bounds;  *)
(* and the rooms of the forwarding unit (SfuRoom), for any connections,    *)
(* rooms and bounds, whatever joins fail.  The two share no state.         *)
(***************************************************************************)
EXTENDS SfuRoom, NodeHandlers, FiniteSetTheorems, TLAPS

----------------------------------------------------------------------------
(* The handlers of signals.                                                *)

USE DEF still, places

\* The handler of no signal is one of nothing.
LEMMA IdleHandler ==
    /\ Idle \in Handler
    /\ Idle.pc = "idle" /\ Idle.outer = NoConn /\ Idle.conn = NoConn
  <1>1. (CHOOSE p \in Pairs : TRUE) \in Pairs
    BY PairsOK
  <1>2. QED
    BY <1>1 DEF Idle, Handler, Steps, Kinds

\* The shape of a handler.
LEMMA HandlerFields ==
    ASSUME PoolTypeOK, NEW s \in Slots
    PROVE  /\ handlers[s] \in Handler
           /\ handlers[s].pc \in Steps /\ handlers[s].kind \in Kinds
           /\ handlers[s].pair \in Pairs
           /\ handlers[s].outer \in (1 .. MaxSignals) \cup {NoConn}
           /\ handlers[s].conn \in (1 .. MaxSignals) \cup {NoConn}
  BY DEF PoolTypeOK, Handler

\* Moving a handler on keeps its type.
LEMMA GotoTypes ==
    ASSUME PoolTypeOK, NEW s \in Slots, NEW pc \in Steps, Goto(s, pc)
    PROVE  /\ handlers' \in [Slots -> Handler]
           /\ handlers'[s] = [handlers[s] EXCEPT !.pc = pc]
           /\ \A t \in Slots : t # s => handlers'[t] = handlers[t]
  <1>1. [handlers[s] EXCEPT !.pc = pc] \in Handler
    BY DEF PoolTypeOK, Handler
  <1>2. QED
    BY <1>1 DEF Goto, PoolTypeOK

\* A handler that ends is idle.
LEMMA DoneTypes ==
    ASSUME PoolTypeOK, NEW s \in Slots, Done(s)
    PROVE  /\ handlers' \in [Slots -> Handler]
           /\ handlers'[s] = Idle
           /\ \A t \in Slots : t # s => handlers'[t] = handlers[t]
  BY IdleHandler DEF Done, PoolTypeOK

\* The set of the handlers that may still make a connection is finite.
LEMMA MakingFinite == IsFiniteSet(Making) /\ Cardinality(Making) \in Nat
  <1>1. Making \subseteq Slots
    BY DEF Making
  <1>2. QED
    BY <1>1, SlotsOK, FS_Subset, FS_CardinalityType

\* One more handler makes at most one more that may make a connection.
LEMMA MakingGrows ==
    ASSUME PoolTypeOK, NEW s \in Slots, Making' \subseteq Making \cup {s}
    PROVE  /\ Cardinality(Making') \in Nat
           /\ Cardinality(Making') <= Cardinality(Making) + 1
  <1>1. IsFiniteSet(Making) /\ Cardinality(Making) \in Nat
    BY MakingFinite
  <1>2. IsFiniteSet(Making \cup {s})
    BY <1>1, FS_AddElement
  <1>3. Cardinality(Making \cup {s}) <= Cardinality(Making) + 1
    BY <1>1, FS_AddElement
  <1>4. QED
    BY <1>1, <1>2, <1>3, FS_Subset, FS_CardinalityType

\* Where no handler begins to, none more may make a connection.
LEMMA MakingShrinks ==
    ASSUME Making' \subseteq Making
    PROVE  /\ Cardinality(Making') \in Nat
           /\ Cardinality(Making') <= Cardinality(Making)
  BY MakingFinite, FS_Subset, FS_CardinalityType

\* Of one that has made its connection there is one less.
LEMMA MakingEnds ==
    ASSUME NEW s \in Making, Making' \subseteq Making \ {s}
    PROVE  /\ Cardinality(Making') \in Nat
           /\ Cardinality(Making') + 1 <= Cardinality(Making)
  <1>1. IsFiniteSet(Making \ {s})
        /\ Cardinality(Making \ {s}) = Cardinality(Making) - 1
    BY MakingFinite, FS_RemoveElement
  <1>2. QED
    BY <1>1, MakingFinite, FS_Subset, FS_CardinalityType

\* A process that has stopped has nothing to keep.
LEMMA StopKeeps == SignalInv /\ Stop => SignalInv'
  <1> SUFFICES ASSUME SignalInv, Stop PROVE SignalInv'
    OBVIOUS
  <1>1. PoolTypeOK
    BY DEF SignalInv
  <1>2. /\ up' = FALSE /\ maps' = {} /\ pool' = NoPool /\ conns' = <<>> /\ made' = 0
        /\ handlers' = [s \in Slots |-> Idle]
        /\ asked' = {} /\ replaced' = {} /\ dropped' = {} /\ closing' = {}
        /\ ice' = ice /\ signals' = signals /\ restarts' = restarts
    BY DEF Stop
  <1>3. PoolTypeOK'
    <2>1. handlers' \in [Slots -> Handler]
      BY <1>2, IdleHandler
    <2>2. 0 \in 0 .. MaxSignals
      BY SignalsOK
    <2>3. <<>> \in [1 .. 0 -> Conn]
      OBVIOUS
    <2>4. QED
      BY <1>1, <1>2, <2>1, <2>2, <2>3 DEF PoolTypeOK, NoPool
  <1>4. \A s \in Slots : handlers'[s] = Idle
    BY <1>2
  <1>5. MakingInv'
    <2>1. Making' = {}
      BY <1>4, IdleHandler DEF Making, May
    <2>2. Cardinality(Making') = 0
      BY <2>1, FS_EmptySet
    <2>3. QED
      BY <1>1, <1>2, <2>2 DEF MakingInv, PoolTypeOK
  <1>6. EntriesInv'
    BY <1>2 DEF EntriesInv, NoPool
  <1>7. WorkInv'
    BY <1>4, IdleHandler DEF WorkInv, Works, Closing
  <1>8. LostInv' /\ AskedInv'
    BY <1>2 DEF LostInv, AskedInv
  <1>9. QED
    BY <1>3, <1>5, <1>6, <1>7, <1>8 DEF SignalInv

\* A signal comes to a handler that was idle.
LEMMA ReceiveKeeps ==
    ASSUME SignalInv, NEW s \in Slots, Receive(s)
    PROVE  SignalInv'
  <1>1. PoolTypeOK
    BY DEF SignalInv
  <1>2. PICK p \in Pairs, k \in Kinds :
          /\ handlers' = [handlers EXCEPT
                 ![s] = [Idle EXCEPT !.pc = "lookup", !.kind = k, !.pair = p]]
          /\ asked' = IF k = "candidate" THEN asked \cup {p} ELSE asked
    BY DEF Receive
  <1>3. /\ handlers[s].pc = "idle" /\ signals < MaxSignals
        /\ signals' = signals + 1
        /\ UNCHANGED <<up, ice, places, conns, made, restarts, closing>>
    BY DEF Receive
  <1> DEFINE h == [Idle EXCEPT !.pc = "lookup", !.kind = k, !.pair = p]
  <1>4. /\ h \in Handler /\ h.pc = "lookup" /\ h.kind = k /\ h.pair = p
        /\ h.outer = NoConn
    BY IdleHandler DEF Handler, Steps
  <1>5. handlers' = [handlers EXCEPT ![s] = h]
    BY <1>2
  <1> HIDE DEF h
  <1>6. /\ handlers' \in [Slots -> Handler] /\ handlers'[s] = h
        /\ \A t \in Slots : t # s => handlers'[t] = handlers[t]
    BY <1>1, <1>4, <1>5 DEF PoolTypeOK
  <1>7. PoolTypeOK'
    <2>1. signals' \in 0 .. MaxSignals /\ asked' \subseteq Pairs
      BY <1>1, <1>2, <1>3, SignalsOK DEF PoolTypeOK
    <2>2. QED
      BY <1>1, <1>3, <1>6, <2>1 DEF PoolTypeOK
  <1>8. MakingInv'
    <2>1. Making' \subseteq Making \cup {s}
      BY <1>6 DEF Making, May
    <2>2. QED
      BY <1>1, <1>3, <2>1, MakingGrows, MakingFinite
         DEF SignalInv, MakingInv, PoolTypeOK
  <1>9. EntriesInv'
    BY <1>3, <1>6 DEF SignalInv, EntriesInv, Opening
  <1>10. WorkInv'
    BY <1>3, <1>4, <1>6 DEF SignalInv, WorkInv, Works, Closing
  <1>11. LostInv'
    BY <1>3 DEF SignalInv, LostInv, Takes
  <1>12. AskedInv'
    BY <1>2, <1>3, <1>4, <1>6 DEF SignalInv, AskedInv, TakenOut, May
  <1>13. QED
    BY <1>7, <1>8, <1>9, <1>10, <1>11, <1>12 DEF SignalInv

\* A step of handler s that leaves the pool's entries alone, opens and closes
\* nothing it should not, and leaves s with connections it may work on.
LEMMA StepKeeps ==
    ASSUME SignalInv, NEW s \in Slots,
           UNCHANGED <<still, places, made>>,
           handlers' \in [Slots -> Handler],
           \A t \in Slots : t # s => handlers'[t] = handlers[t],
           conns' \in [1 .. made -> Conn],
           \A i \in 1 .. made : /\ conns'[i].pair = conns[i].pair
                                /\ conns[i].open => conns'[i].open,
           closing \subseteq closing', closing' \subseteq 1 .. made,
           May(handlers'[s]) => May(handlers[s]),
           ice /\ handlers[s].pc = "init" => conns'[handlers[s].conn].open,
           May(handlers[s]) /\ handlers[s].kind = "candidate" =>
             \/ /\ May(handlers'[s]) /\ handlers'[s].kind = "candidate"
                /\ handlers'[s].pair = handlers[s].pair
             \/ pool[handlers[s].pair] # NoConn,
           Works(handlers[s])'
    PROVE  SignalInv'
  <1>1. PoolTypeOK /\ PoolTypeOK'
    BY DEF SignalInv, PoolTypeOK
  <1>2. MakingInv'
    <2>1. Making' \subseteq Making
      BY DEF Making, May
    <2>2. QED
      BY <1>1, <2>1, MakingShrinks, MakingFinite
         DEF SignalInv, MakingInv, PoolTypeOK
  <1>3. EntriesInv'
    <2>1. ASSUME NEW i \in 1 .. made, ice, Opening(i)
          PROVE  Opening(i)'
      BY <2>1 DEF Opening
    <2>2. ASSUME NEW p \in Pairs, pool[p] # NoConn
          PROVE  pool[p] \in 1 .. made
      BY <1>1, <2>2 DEF PoolTypeOK
    <2>3. QED
      BY <2>1, <2>2 DEF SignalInv, EntriesInv
  <1>4. WorkInv'
    <2>1. ASSUME NEW t \in Slots, t # s PROVE Works(handlers[t])'
      <3>1. Works(handlers[t]) /\ handlers'[t] = handlers[t]
        BY <2>1 DEF SignalInv, WorkInv
      <3>2. handlers[t].pair \in Pairs
        BY <1>1, HandlerFields
      <3>3. QED
        BY <3>1, <3>2 DEF Works
    <2>2. QED
      BY <2>1 DEF WorkInv
  <1>5. LostInv'
    <2>1. closing \subseteq 1 .. made /\ LostInv
      BY <1>1 DEF PoolTypeOK, SignalInv
    <2> SUFFICES ASSUME NEW i \in 1 .. made
                 PROVE  \/ pool[conns[i].pair] = i
                        \/ i \in replaced \cup dropped
                        \/ \E j \in closing' : Takes(j, i)'
      BY DEF LostInv
    <2>2. ASSUME NEW j \in closing, Takes(j, i) PROVE Takes(j, i)'
      BY <2>1, <2>2 DEF Takes
    <2>3. QED
      BY <2>1, <2>2 DEF LostInv
  <1>6. AskedInv'
    <2>1. closing \subseteq 1 .. made
      BY <1>1 DEF PoolTypeOK
    <2>2. ASSUME NEW p \in asked, TakenOut(p) PROVE TakenOut(p)'
      BY <1>1, <2>1, <2>2 DEF TakenOut, PoolTypeOK
    <2>3. QED
      BY <2>1, <2>2 DEF SignalInv, AskedInv
  <1>7. QED
    BY <1>1, <1>2, <1>3, <1>4, <1>5, <1>6 DEF SignalInv

\* What a handler works on, and the pool's entry of its pair.
LEMMA WorkFacts ==
    ASSUME SignalInv, NEW s \in Slots
    PROVE  /\ PoolTypeOK /\ Works(handlers[s])
           /\ handlers[s] \in Handler /\ handlers[s].pair \in Pairs
           /\ made \in Nat /\ NoConn \notin 1 .. made
           /\ \A p \in Pairs : pool[p] # NoConn => pool[p] \in 1 .. made
           /\ \A i \in 1 .. made : conns[i] \in Conn /\ conns[i].pair \in Pairs
  <1>1. PoolTypeOK /\ made \in 0 .. MaxSignals
    BY DEF SignalInv, PoolTypeOK
  <1>2. NoConn \notin 1 .. made
    BY <1>1, NoConnOK, SignalsOK
  <1>3. \A i \in 1 .. made : conns[i] \in Conn /\ conns[i].pair \in Pairs
    BY <1>1 DEF PoolTypeOK, Conn
  <1>4. QED
    BY <1>1, <1>2, <1>3, HandlerFields DEF SignalInv, WorkInv, PoolTypeOK

\* Where a handler that found no connection goes on.
Creating == {"put", "map", "write"}

\* A handler that moves on to a place where it works on what it had.
LEMMA MovesOn ==
    ASSUME SignalInv, NEW s \in Slots, NEW pc \in Steps, Goto(s, pc),
           UNCHANGED <<still, places, conns, made>>,
           closing \subseteq closing', closing' \subseteq 1 .. made,
           handlers[s].pc # "init",
           pc \in Creating \/ pc \in {"signal", "close"} \cup Closing,
           pc \in Creating => May(handlers[s]),
           pc \notin Creating =>
             /\ ~May(handlers[s]) \/ pool[handlers[s].pair] # NoConn
             /\ handlers[s].outer # NoConn,
           pc \in Closing => handlers[s].outer \in closing'
    PROVE  SignalInv'
  <1>1. /\ handlers' \in [Slots -> Handler]
        /\ handlers'[s] = [handlers[s] EXCEPT !.pc = pc]
        /\ \A t \in Slots : t # s => handlers'[t] = handlers[t]
    BY GotoTypes, WorkFacts
  <1>2. handlers[s] \in Handler /\ Works(handlers[s])
    BY WorkFacts
  <1>3. /\ handlers'[s].pc = pc /\ handlers'[s].kind = handlers[s].kind
        /\ handlers'[s].pair = handlers[s].pair
        /\ handlers'[s].outer = handlers[s].outer
        /\ handlers'[s].conn = handlers[s].conn
    BY <1>1, <1>2 DEF Handler
  <1>4. Works(handlers[s])'
    BY <1>2, <1>3 DEF Works, Creating, Closing
  <1>5. /\ May(handlers'[s]) => May(handlers[s])
        /\ May(handlers[s]) => pc \in Creating \/ pool[handlers[s].pair] # NoConn
        /\ pc \in Creating => May(handlers'[s])
    BY <1>3 DEF May, Creating, Closing
  <1>6. conns' \in [1 .. made -> Conn]
    BY WorkFacts DEF PoolTypeOK
  <1>7. QED
    BY <1>1, <1>3, <1>4, <1>5, <1>6, StepKeeps

\* A handler that ends.
LEMMA EndKeeps ==
    ASSUME SignalInv, NEW s \in Slots, Done(s),
           UNCHANGED <<still, places, conns, made, closing>>,
           handlers[s].pc # "init",
           May(handlers[s]) /\ handlers[s].kind = "candidate" =>
             pool[handlers[s].pair] # NoConn
    PROVE  SignalInv'
  <1>1. /\ handlers' \in [Slots -> Handler]
        /\ handlers'[s] = Idle
        /\ \A t \in Slots : t # s => handlers'[t] = handlers[t]
    BY DoneTypes, WorkFacts
  <1>2. Works(handlers[s])' /\ ~May(handlers'[s])
    BY <1>1, IdleHandler DEF Works, Closing, May
  <1>3. conns' \in [1 .. made -> Conn] /\ closing' \subseteq 1 .. made
    BY WorkFacts DEF PoolTypeOK
  <1>4. QED
    BY <1>1, <1>2, <1>3, StepKeeps

\* Looking the pool up.
LEMMA LookupKeeps ==
    ASSUME SignalInv, NEW s \in Slots, Lookup(s)
    PROVE  SignalInv'
  <1> DEFINE found == pool[handlers[s].pair]
  <1>1. CASE Stop
    BY <1>1, StopKeeps
  <1>2. CASE ~Stop
    <2>1. /\ handlers[s].pc = "lookup"
          /\ UNCHANGED <<still, places, conns, made, closing>>
      BY <1>2 DEF Lookup
    <2>2. \/ /\ handlers[s].kind = "candidate"
             /\ handlers' = [handlers EXCEPT ![s].pc = "check",
                                             ![s].outer = found]
          \/ /\ handlers[s].kind # "candidate" /\ found # NoConn
             /\ handlers' = [handlers EXCEPT ![s].pc = "signal",
                                             ![s].outer = found]
          \/ handlers[s].kind # "candidate" /\ Done(s)
      BY <1>2 DEF Lookup
    <2>3. ASSUME NEW pc \in {"check", "signal"},
                 pc = "check" <=> handlers[s].kind = "candidate",
                 pc = "signal" => found # NoConn,
                 handlers' = [handlers EXCEPT ![s].pc = pc, ![s].outer = found]
          PROVE  SignalInv'
      <3>1. /\ PoolTypeOK /\ handlers[s] \in Handler
            /\ handlers[s].pair \in Pairs
            /\ found # NoConn => found \in 1 .. made
        BY WorkFacts
      <3>2. found \in (1 .. MaxSignals) \cup {NoConn}
        BY <3>1, SignalsOK DEF PoolTypeOK
      <3> HIDE DEF found
      <3>3. handlers' = [handlers EXCEPT
                           ![s] = [@ EXCEPT !.pc = pc, !.outer = found]]
        BY <2>3, <3>1 DEF PoolTypeOK
      <3>4. [handlers[s] EXCEPT !.pc = pc, !.outer = found] \in Handler
        BY <3>1, <3>2 DEF Handler, Steps
      <3>5. /\ handlers' \in [Slots -> Handler]
            /\ \A t \in Slots : t # s => handlers'[t] = handlers[t]
            /\ handlers'[s] = [handlers[s] EXCEPT !.pc = pc, !.outer = found]
        BY <3>1, <3>3, <3>4 DEF PoolTypeOK
      <3>6. /\ handlers'[s].pc = pc /\ handlers'[s].outer = found
            /\ handlers'[s].kind = handlers[s].kind
            /\ handlers'[s].pair = handlers[s].pair
        BY <3>1, <3>5 DEF Handler
      <3>7. found # NoConn =>
              /\ conns[found].pair = handlers[s].pair
              /\ found \in 1 .. made /\ found <= pool[handlers[s].pair]
        BY <3>1, WorkFacts DEF SignalInv, EntriesInv, found
      <3>8. Works(handlers[s])'
        BY <2>1, <2>3, <3>6, <3>7 DEF Works, Closing
      <3>9. /\ May(handlers'[s]) => May(handlers[s])
            /\ handlers[s].kind = "candidate" => May(handlers'[s])
        BY <2>1, <2>3, <3>6 DEF May
      <3>10. conns' \in [1 .. made -> Conn] /\ closing' \subseteq 1 .. made
        BY <2>1, <3>1 DEF PoolTypeOK
      <3>11. QED
        BY <2>1, <3>5, <3>6, <3>8, <3>9, <3>10, StepKeeps
    <2>4. QED
      BY <2>1, <2>2, <2>3, EndKeeps
  <1>3. QED
    BY <1>1, <1>2

\* The end of a creation that changes no connection.
LEMMA CheckKeeps ==
    ASSUME SignalInv, NEW s \in Slots, Check(s)
    PROVE  SignalInv'
  <1>1. /\ handlers[s].pc = "check"
        /\ UNCHANGED <<still, places, conns, made, closing>>
    BY DEF Check
  <1>2. closing' \subseteq 1 .. made
    BY <1>1, WorkFacts DEF PoolTypeOK
  <1>3. CASE pool[handlers[s].pair] = NoConn
    <2>1. Goto(s, "put") /\ "put" \in Steps
      BY <1>3 DEF Check, Steps
    <2>2. QED
      BY <1>1, <1>2, <2>1, MovesOn DEF Creating, Closing, May
  <1>4. CASE pool[handlers[s].pair] # NoConn
    <2>1. CASE handlers[s].outer = NoConn
      <3>1. Done(s)
        BY <1>4, <2>1 DEF Check, Created
      <3>2. QED
        BY <1>1, <1>4, <3>1, EndKeeps
    <2>2. CASE handlers[s].outer # NoConn
      <3>1. Goto(s, "signal") /\ "signal" \in Steps
        BY <1>4, <2>2 DEF Check, Created, Steps
      <3>2. QED
        BY <1>1, <1>2, <1>4, <2>2, <3>1, MovesOn DEF Creating, Closing
    <2>3. QED
      BY <2>1, <2>2
  <1>5. QED
    BY <1>3, <1>4

\* A signal that goes to its connection.
LEMMA OnSignalKeeps ==
    ASSUME SignalInv, NEW s \in Slots, OnSignal(s)
    PROVE  SignalInv'
  <1>1. /\ handlers[s].pc = "signal"
        /\ UNCHANGED <<still, places, conns, made, closing>>
        /\ Goto(s, "close") \/ Done(s)
    BY DEF OnSignal
  <1>2. closing' \subseteq 1 .. made /\ handlers[s].outer # NoConn
    BY <1>1, WorkFacts DEF PoolTypeOK, Works, Closing
  <1>3. ~May(handlers[s]) /\ "close" \in Steps
    BY <1>1 DEF May, Steps
  <1>4. CASE Goto(s, "close")
    BY <1>1, <1>2, <1>3, <1>4, MovesOn DEF Creating, Closing
  <1>5. CASE Done(s)
    BY <1>1, <1>3, <1>5, EndKeeps
  <1>6. QED
    BY <1>1, <1>4, <1>5

\* A Close that finds its connection open stops the process; another marks it.
LEMMA CloseKeeps ==
    ASSUME SignalInv, NEW s \in Slots, Close(s)
    PROVE  SignalInv'
  <1> DEFINE i == handlers[s].outer
  <1>1. CASE Stop
    BY <1>1, StopKeeps
  <1>2. CASE ~Stop
    <2>1. /\ handlers[s].pc = "close"
          /\ UNCHANGED <<still, places, conns, made>>
          /\ \/ Done(s) /\ UNCHANGED closing
             \/ Goto(s, "closed") /\ closing' = closing \cup {i}
      BY <1>2 DEF Close
    <2>2. /\ ~May(handlers[s]) /\ "closed" \in Steps
          /\ i # NoConn /\ i \in 1 .. made /\ closing \subseteq 1 .. made
      BY <2>1, WorkFacts DEF May, Steps, Works, Closing, PoolTypeOK
    <2>3. CASE Done(s) /\ UNCHANGED closing
      BY <2>1, <2>2, <2>3, EndKeeps
    <2>4. CASE Goto(s, "closed") /\ closing' = closing \cup {i}
      BY <2>1, <2>2, <2>4, MovesOn DEF Creating, Closing
    <2>5. QED
      BY <2>1, <2>3, <2>4
  <1>3. QED
    BY <1>1, <1>2

\* The event of a Close.
LEMMA EmitKeeps ==
    ASSUME SignalInv, NEW s \in Slots, EmitClosed(s)
    PROVE  SignalInv'
  <1>1. /\ handlers[s].pc = "emit"
        /\ UNCHANGED <<still, places, conns, made, closing>>
        /\ Goto(s, "remove") \/ Done(s)
    BY DEF EmitClosed
  <1>2. /\ closing' \subseteq 1 .. made /\ handlers[s].outer # NoConn
        /\ handlers[s].outer \in closing
    BY <1>1, WorkFacts DEF PoolTypeOK, Works, Closing
  <1>3. ~May(handlers[s]) /\ "remove" \in Steps
    BY <1>1 DEF May, Steps
  <1>4. CASE Goto(s, "remove")
    BY <1>1, <1>2, <1>3, <1>4, MovesOn DEF Creating, Closing
  <1>5. CASE Done(s)
    BY <1>1, <1>3, <1>5, EndKeeps
  <1>6. QED
    BY <1>1, <1>4, <1>5

\* A step of a handler that sets fields of a connection, but its pair, and
\* does not close it.
LEMMA FieldKeeps ==
    ASSUME SignalInv, NEW s \in Slots,
           NEW pc \in {"on", "signal", "emit", "idle"},
           Goto(s, pc) \/ (pc = "idle" /\ Done(s)),
           UNCHANGED <<still, places, made, closing>>,
           conns' \in [1 .. made -> Conn],
           \A i \in 1 .. made : /\ conns'[i].pair = conns[i].pair
                                /\ conns[i].open => conns'[i].open,
           handlers[s].pc \in {"init", "on", "closed"},
           ice /\ handlers[s].pc = "init" => conns'[handlers[s].conn].open,
           pc = "on" => handlers[s].pc = "init",
           pc = "signal" => handlers[s].outer # NoConn,
           pc = "emit" => handlers[s].pc = "closed"
    PROVE  SignalInv'
  <1>1. PoolTypeOK /\ handlers[s] \in Handler /\ Works(handlers[s])
    BY WorkFacts
  <1>2. /\ handlers' \in [Slots -> Handler]
        /\ \A t \in Slots : t # s => handlers'[t] = handlers[t]
        /\ \/ pc = "idle" /\ handlers'[s] = Idle
           \/ handlers'[s] = [handlers[s] EXCEPT !.pc = pc]
    <2>1. pc \in Steps
      BY DEF Steps
    <2>2. CASE Goto(s, pc)
      BY <1>1, <2>1, <2>2, GotoTypes
    <2>3. CASE pc = "idle" /\ Done(s)
      BY <1>1, <2>3, DoneTypes
    <2>4. QED
      BY <2>2, <2>3
  <1>3. \/ handlers'[s].pc = "idle" /\ handlers'[s].outer = NoConn
        \/ /\ handlers'[s].pc = pc /\ handlers'[s].pair = handlers[s].pair
           /\ handlers'[s].outer = handlers[s].outer
           /\ handlers'[s].conn = handlers[s].conn
    BY <1>1, <1>2, IdleHandler DEF Handler
  <1>4. Works(handlers[s])'
    BY <1>1, <1>3 DEF Works, Closing
  <1>5. ~May(handlers'[s]) /\ ~May(handlers[s])
    BY <1>3 DEF May
  <1>6. closing' \subseteq 1 .. made
    BY <1>1 DEF PoolTypeOK
  <1>7. QED
    BY <1>2, <1>4, <1>5, <1>6, StepKeeps

\* A connection keeps its type when fields of it are set.
LEMMA FieldTypes ==
    ASSUME PoolTypeOK, NEW i \in 1 .. made, NEW c \in Conn,
           c.pair = conns[i].pair, conns[i].open => c.open,
           conns' = [conns EXCEPT ![i] = c]
    PROVE  /\ conns' \in [1 .. made -> Conn] /\ conns'[i] = c
           /\ \A j \in 1 .. made : /\ conns'[j].pair = conns[j].pair
                                   /\ conns[j].open => conns'[j].open
  BY DEF PoolTypeOK

\* A connection is opened, if it can be.
LEMMA InitKeeps ==
    ASSUME SignalInv, NEW s \in Slots, InitConn(s)
    PROVE  SignalInv'
  <1> DEFINE i == handlers[s].conn
             c == [conns[i] EXCEPT !.open = TRUE, !.status = "init"]
  <1>1. /\ handlers[s].pc = "init" /\ Goto(s, "on")
        /\ UNCHANGED <<still, places, made, closing>>
    BY DEF InitConn
  <1>2. PoolTypeOK /\ i \in 1 .. made /\ conns[i] \in Conn
    BY <1>1, WorkFacts DEF Works
  <1>3. c \in Conn /\ c.pair = conns[i].pair /\ c.open = TRUE
    BY <1>2 DEF Conn
  <1>4. IF ice THEN conns' = [conns EXCEPT ![i] = c] ELSE conns' = conns
    <2>1. ice => conns' = [conns EXCEPT ![i].open = TRUE, ![i].status = "init"]
      BY DEF InitConn
    <2>2. ~ice => conns' = conns
      BY DEF InitConn
    <2>3. QED
      BY <1>2, <2>1, <2>2 DEF PoolTypeOK
  <1> HIDE DEF c
  <1>5. /\ conns' \in [1 .. made -> Conn] /\ (ice => conns'[i].open)
        /\ \A j \in 1 .. made : /\ conns'[j].pair = conns[j].pair
                                /\ conns[j].open => conns'[j].open
    <2>1. CASE ice
      BY <1>2, <1>3, <1>4, <2>1, FieldTypes
    <2>2. CASE ~ice
      BY <1>2, <1>4, <2>2 DEF PoolTypeOK
    <2>3. QED
      BY <2>1, <2>2
  <1>6. QED
    BY <1>1, <1>5, FieldKeeps

\* Its events are registered.
LEMMA RegisterKeeps ==
    ASSUME SignalInv, NEW s \in Slots, RegisterEvents(s)
    PROVE  SignalInv'
  <1> DEFINE i == handlers[s].conn
             c == [conns[i] EXCEPT !.events = TRUE]
  <1>1. /\ handlers[s].pc = "on" /\ Created(s)
        /\ UNCHANGED <<still, places, made, closing>>
        /\ conns' = [conns EXCEPT ![i] = c]
    BY DEF RegisterEvents
  <1>2. PoolTypeOK /\ i \in 1 .. made /\ conns[i] \in Conn
    BY <1>1, WorkFacts DEF Works
  <1>3. c \in Conn /\ c.pair = conns[i].pair /\ c.open = conns[i].open
    BY <1>2 DEF Conn
  <1> HIDE DEF c
  <1>4. /\ conns' \in [1 .. made -> Conn]
        /\ \A j \in 1 .. made : /\ conns'[j].pair = conns[j].pair
                                /\ conns[j].open => conns'[j].open
    BY <1>1, <1>2, <1>3, FieldTypes
  <1>5. \/ Done(s)
        \/ Goto(s, "signal") /\ handlers[s].outer # NoConn
    BY <1>1 DEF Created
  <1>6. QED
    BY <1>1, <1>4, <1>5, FieldKeeps

\* A connection a handler closes is marked closed.
LEMMA StatusKeeps ==
    ASSUME SignalInv, NEW s \in Slots, CloseStatus(s)
    PROVE  SignalInv'
  <1> DEFINE i == handlers[s].outer
             c == [conns[i] EXCEPT !.status = "closed"]
  <1>1. /\ handlers[s].pc = "closed" /\ Goto(s, "emit")
        /\ UNCHANGED <<still, places, made, closing>>
        /\ conns' = [conns EXCEPT ![i] = c]
    BY DEF CloseStatus
  <1>2. PoolTypeOK /\ i \in 1 .. made /\ conns[i] \in Conn
    BY <1>1, WorkFacts DEF Works, Closing
  <1>3. c \in Conn /\ c.pair = conns[i].pair /\ c.open = conns[i].open
    BY <1>2 DEF Conn
  <1> HIDE DEF c
  <1>4. /\ conns' \in [1 .. made -> Conn]
        /\ \A j \in 1 .. made : /\ conns'[j].pair = conns[j].pair
                                /\ conns[j].open => conns'[j].open
    BY <1>1, <1>2, <1>3, FieldTypes
  <1>5. QED
    BY <1>1, <1>4, FieldKeeps

\* A handler that puts looks for the map of its peer.
LEMMA PutKeeps ==
    ASSUME SignalInv, NEW s \in Slots, Put(s)
    PROVE  SignalInv'
  <1>1. /\ handlers[s].pc = "put"
        /\ UNCHANGED <<still, places, conns, made, closing>>
    BY DEF Put
  <1>2. closing' \subseteq 1 .. made /\ May(handlers[s])
    BY <1>1, WorkFacts DEF PoolTypeOK, May
  <1>3. PICK pc \in {"map", "write"} : Goto(s, pc)
    BY DEF Put
  <1>4. pc \in Steps
    BY DEF Steps
  <1>5. QED
    BY <1>1, <1>2, <1>3, <1>4, MovesOn DEF Creating, Closing

\* What a handler that goes on keeps, and one whose map went.
Moved(g, h) ==
    /\ h.kind = g.kind /\ h.pair = g.pair
    /\ h.outer = g.outer /\ h.conn = g.conn
    /\ (May(h) <=> May(g)) /\ (h.pc \in Closing <=> g.pc \in Closing)
    /\ h.pc \in {"init", "on", "signal", "close"} => h.pc = g.pc
    /\ g.pc = "init" => h.pc = "init"

\* The handlers whose map went keep what they work on.
LEMMA DetachedFacts ==
    ASSUME PoolTypeOK, NEW q
    PROVE  /\ Detached(q) \in [Slots -> Handler]
           /\ \A t \in Slots : Moved(handlers[t], Detached(q)[t])
  <1>1. ASSUME NEW t \in Slots
        PROVE  /\ Detached(q)[t] \in Handler
               /\ Moved(handlers[t], Detached(q)[t])
    <2>1. handlers[t] \in Handler
      BY DEF PoolTypeOK
    <2>2. ASSUME NEW g \in {"write", "take"}, handlers[t].pc = g,
                 NEW pc \in {"orphan", "old"},
                 g = "write" => pc = "orphan", g = "take" => pc = "old"
          PROVE  /\ [handlers[t] EXCEPT !.pc = pc] \in Handler
                 /\ Moved(handlers[t], [handlers[t] EXCEPT !.pc = pc])
      BY <2>1, <2>2 DEF Handler, Steps, Moved, May, Closing
    <2>3. Moved(handlers[t], handlers[t])
      BY DEF Moved
    <2>4. CASE handlers[t].pair[1] = q /\ handlers[t].pc = "write"
      BY <2>2, <2>4 DEF Detached
    <2>5. CASE handlers[t].pair[1] = q /\ handlers[t].pc = "take"
      BY <2>2, <2>5 DEF Detached
    <2>6. CASE ~(/\ handlers[t].pair[1] = q
                 /\ handlers[t].pc \in {"write", "take"})
      BY <2>1, <2>3, <2>6 DEF Detached
    <2>7. QED
      BY <2>4, <2>5, <2>6
  <1>2. Detached(q) = [t \in Slots |-> Detached(q)[t]]
    BY DEF Detached
  <1>3. QED
    BY <1>1, <1>2

\* A step that takes connections out of the pool, whichever handlers it moves:
\* each of them was in a map that went, or was closed, or named by a Close.
LEMMA TakenKeeps ==
    ASSUME SignalInv, NEW s \in Slots,
           UNCHANGED <<still, conns, made, replaced, closing>>,
           maps' \subseteq Peers,
           handlers' \in [Slots -> Handler],
           \A t \in Slots : t # s => Moved(handlers[t], handlers'[t]),
           \/ Moved(handlers[s], handlers'[s])
           \/ /\ handlers'[s] = Idle
              /\ ~May(handlers[s]) /\ handlers[s].pc # "init",
           dropped \subseteq dropped', dropped' \subseteq 1 .. made,
           pool' \in [Pairs -> (1 .. made) \cup {NoConn}],
           \A p \in Pairs :
              \/ pool'[p] = pool[p]
              \/ /\ pool'[p] = NoConn
                 /\ pool[p] \in dropped' \/ \E j \in closing : Takes(j, pool[p])
    PROVE  SignalInv'
  <1>1. /\ PoolTypeOK /\ made \in Nat /\ NoConn \notin 1 .. made
        /\ \A p \in Pairs : pool[p] # NoConn => pool[p] \in 1 .. made
        /\ \A i \in 1 .. made : conns[i].pair \in Pairs
    BY WorkFacts
  <1>2. PoolTypeOK'
    BY <1>1 DEF PoolTypeOK
  <1>3. ~May(Idle) /\ Idle.pc \notin Closing
        /\ Idle.pc \notin {"init", "on", "signal", "close"}
    BY IdleHandler DEF May, Closing
  <1>4. MakingInv'
    <2>1. Making' \subseteq Making
      BY <1>3 DEF Making, Moved
    <2>2. QED
      BY <1>1, <2>1, MakingShrinks, MakingFinite
         DEF SignalInv, MakingInv, PoolTypeOK
  <1>5. EntriesInv'
    <2>1. ASSUME NEW i \in 1 .. made, Opening(i) PROVE Opening(i)'
      <3>1. ASSUME NEW t \in Slots, handlers[t].pc = "init"
            PROVE  handlers'[t].pc = "init" /\ handlers'[t].conn = handlers[t].conn
        BY <3>1 DEF Moved
      <3>2. QED
        BY <2>1, <3>1 DEF Opening
    <2>2. ASSUME NEW p \in Pairs, pool'[p] # NoConn
          PROVE  pool'[p] = pool[p] /\ pool[p] \in 1 .. made
      BY <1>1, <2>2
    <2>3. QED
      BY <2>1, <2>2 DEF SignalInv, EntriesInv
  <1>6. WorkInv'
    <2>1. ASSUME NEW t \in Slots PROVE Works(handlers[t])'
      <3>1. Works(handlers[t]) /\ handlers[t].pair \in Pairs
        BY WorkFacts
      <3>2. CASE Moved(handlers[t], handlers'[t])
        BY <3>1, <3>2 DEF Works, Moved
      <3>3. CASE handlers'[t] = Idle
        BY <1>3, <3>3, IdleHandler DEF Works
      <3>4. QED
        BY <3>2, <3>3
    <2>2. QED
      BY <2>1 DEF WorkInv
  <1>7. closing \subseteq 1 .. made /\ asked \subseteq Pairs
    BY <1>1 DEF PoolTypeOK
  <1>8. LostInv'
    <2>1. ASSUME NEW i \in 1 .. made
          PROVE  \/ pool'[conns[i].pair] = i
                 \/ i \in replaced \cup dropped'
                 \/ \E j \in closing : Takes(j, i)
      <3>1. CASE pool[conns[i].pair] = i
        BY <1>1, <3>1
      <3>2. CASE pool[conns[i].pair] # i
        BY <3>2 DEF SignalInv, LostInv
      <3>3. QED
        BY <3>1, <3>2
    <2>2. \A i, j \in 1 .. made : Takes(j, i)' <=> Takes(j, i)
      BY DEF Takes
    <2>3. QED
      BY <1>7, <2>1, <2>2 DEF LostInv
  <1>9. AskedInv'
    <2> SUFFICES ASSUME ice, NEW p \in asked
                 PROVE  \/ \E t \in Slots :
                              /\ May(handlers'[t])
                              /\ handlers'[t].kind = "candidate"
                              /\ handlers'[t].pair = p
                        \/ pool'[p] # NoConn
                        \/ TakenOut(p)'
      BY DEF AskedInv
    <2>1. p \in Pairs
      BY <1>7
    <2>2. CASE TakenOut(p)
      BY <2>2 DEF TakenOut
    <2>3. CASE \E t \in Slots : /\ May(handlers[t])
                                /\ handlers[t].kind = "candidate"
                                /\ handlers[t].pair = p
      BY <2>3 DEF Moved
    <2>4. CASE pool[p] # NoConn /\ pool'[p] = NoConn
      <3>1. pool[p] \in 1 .. made /\ conns[pool[p]].pair = p
        BY <1>1, <2>1, <2>4 DEF SignalInv, EntriesInv
      <3>2. CASE pool[p] \in dropped'
        BY <3>1, <3>2 DEF TakenOut
      <3>3. CASE \E j \in closing : Takes(j, pool[p])
        BY <3>1, <3>3 DEF TakenOut, Takes
      <3>4. QED
        BY <2>1, <2>4, <3>2, <3>3
    <2>5. QED
      BY <2>2, <2>3, <2>4 DEF SignalInv, AskedInv
  <1>10. QED
    BY <1>2, <1>4, <1>5, <1>6, <1>8, <1>9 DEF SignalInv

\* What goes with the map of a peer.
LEMMA DropMapFacts ==
    ASSUME PoolTypeOK, NEW q, DropMap(q)
    PROVE  /\ pool' \in [Pairs -> (1 .. made) \cup {NoConn}]
           /\ dropped \subseteq dropped' /\ dropped' \subseteq 1 .. made
           /\ \A p \in Pairs :
                 pool'[p] = pool[p] \/ (pool'[p] = NoConn /\ pool[p] \in dropped')
  BY DEF PoolTypeOK, DropMap

\* A new map of a peer takes the place of another.
LEMMA NewMapKeeps ==
    ASSUME SignalInv, NEW s \in Slots, NewMap(s)
    PROVE  SignalInv'
  <1> DEFINE q == handlers[s].pair[1]
             d == Detached(q)
             h == [d[s] EXCEPT !.pc = "write"]
  <1>1. /\ handlers[s].pc = "map" /\ maps' = maps \cup {q} /\ DropMap(q)
        /\ handlers' = [d EXCEPT ![s].pc = "write"]
        /\ UNCHANGED <<still, conns, made, replaced, closing>>
    BY DEF NewMap
  <1>2. PoolTypeOK /\ handlers[s].pair \in Pairs /\ handlers[s] \in Handler
    BY WorkFacts
  <1>3. d \in [Slots -> Handler] /\ \A t \in Slots : Moved(handlers[t], d[t])
    BY <1>2, DetachedFacts
  <1>4. d[s] = handlers[s]
    BY <1>1 DEF Detached
  <1>5. maps' \subseteq Peers
    BY <1>1, <1>2 DEF PoolTypeOK, Peers
  <1> HIDE DEF d, q
  <1>6. h \in Handler /\ Moved(handlers[s], h)
    BY <1>1, <1>2, <1>4 DEF Handler, Steps, Moved, May, Closing
  <1>7. /\ handlers' \in [Slots -> Handler] /\ handlers'[s] = h
        /\ \A t \in Slots : t # s => handlers'[t] = d[t]
    <2>1. handlers' = [d EXCEPT ![s] = h]
      BY <1>1, <1>3
    <2> HIDE DEF h
    <2>2. QED
      BY <1>3, <1>6, <2>1
  <1>8. QED
    BY <1>1, <1>2, <1>3, <1>5, <1>6, <1>7, DropMapFacts, TakenKeeps

\* A connection is made for a handler that is there for a signal of its own,
\* and put over what the map it has holds.
LEMMA WriteKeeps ==
    ASSUME SignalInv, NEW s \in Slots, Write(s)
    PROVE  SignalInv'
  <1> DEFINE p == handlers[s].pair
             c == [pair |-> p, open |-> FALSE, status |-> "none",
                   events |-> FALSE]
  <1>1. /\ handlers[s].pc \in {"write", "orphan"} /\ made' = made + 1
        /\ conns' = [i \in 1 .. made' |-> IF i <= made THEN conns[i] ELSE c]
        /\ \/ /\ pool' = [pool EXCEPT ![p] = made']
              /\ replaced' = replaced \cup ({pool[p]} \ {NoConn})
              /\ dropped' = dropped
           \/ /\ dropped' = dropped \cup {made'}
              /\ UNCHANGED <<pool, replaced>>
        /\ handlers' = [handlers EXCEPT ![s].pc = "init", ![s].conn = made']
        /\ UNCHANGED <<still, maps, closing>>
    BY DEF Write
  <1>2. /\ PoolTypeOK /\ Works(handlers[s]) /\ handlers[s] \in Handler
        /\ p \in Pairs /\ made \in Nat /\ NoConn \notin 1 .. made
        /\ \A q \in Pairs : pool[q] # NoConn => pool[q] \in 1 .. made
        /\ \A i \in 1 .. made : conns[i] \in Conn /\ conns[i].pair \in Pairs
    BY WorkFacts
  <1>3. s \in Making /\ May(handlers[s])
    BY <1>1 DEF Making, May
  <1>4. made + 1 <= MaxSignals /\ made + 1 \in 1 .. MaxSignals
    <2>1. /\ Cardinality(Making) \in Nat /\ Cardinality(Making) # 0
      BY <1>3, MakingFinite, FS_EmptySet
    <2>2. signals \in 0 .. MaxSignals /\ Cardinality(Making) + made <= signals
      BY <1>2 DEF PoolTypeOK, SignalInv, MakingInv
    <2>3. QED
      BY <1>2, <2>1, <2>2, SignalsOK
  <1>5. made' # NoConn
    BY <1>1, <1>4, NoConnOK
  <1>6. c \in Conn /\ c.pair = p /\ c.open = FALSE
    BY <1>2 DEF Conn
  <1> HIDE DEF p, c
  <1>7. /\ conns' \in [1 .. made' -> Conn] /\ conns'[made'] = c
        /\ \A i \in 1 .. made : conns'[i] = conns[i] /\ i \in 1 .. made'
        /\ made' \in 1 .. made'
        /\ \A i \in 1 .. made' : i \in 1 .. made \/ i = made'
    BY <1>1, <1>2, <1>6
  <1> DEFINE h == [handlers[s] EXCEPT !.pc = "init", !.conn = made']
  <1>8. /\ h \in Handler /\ h.pc = "init" /\ h.conn = made'
        /\ h.outer = handlers[s].outer /\ h.pair = p
        /\ h.kind = handlers[s].kind
    BY <1>1, <1>2, <1>4 DEF Handler, Steps, p
  <1>9. /\ handlers' \in [Slots -> Handler] /\ handlers'[s] = h
        /\ \A t \in Slots : t # s => handlers'[t] = handlers[t]
    <2>1. handlers' = [handlers EXCEPT ![s] = h]
      BY <1>1, <1>2 DEF PoolTypeOK
    <2> HIDE DEF h
    <2>2. QED
      BY <1>2, <1>8, <2>1 DEF PoolTypeOK
  <1> HIDE DEF h
  <1>10. /\ pool' \in [Pairs -> (1 .. made') \cup {NoConn}]
         /\ \/ /\ pool'[p] = made' /\ dropped' = dropped
               /\ replaced' = replaced \cup ({pool[p]} \ {NoConn})
            \/ /\ pool'[p] = pool[p] /\ replaced' = replaced
               /\ dropped' = dropped \cup {made'}
         /\ \A q \in Pairs : q # p => pool'[q] = pool[q]
    BY <1>1, <1>2, <1>7 DEF PoolTypeOK
  <1>11. PoolTypeOK'
    <2>1. replaced' \subseteq 1 .. made' /\ dropped' \subseteq 1 .. made'
      BY <1>2, <1>7, <1>10 DEF PoolTypeOK
    <2>2. closing' \subseteq 1 .. made' /\ made' \in 0 .. MaxSignals
      BY <1>1, <1>2, <1>4, <1>7, SignalsOK DEF PoolTypeOK
    <2>3. QED
      BY <1>1, <1>2, <1>7, <1>9, <1>10, <2>1, <2>2 DEF PoolTypeOK
  <1>12. MakingInv'
    <2>1. Making' \subseteq Making \ {s}
      BY <1>8, <1>9 DEF Making, May
    <2>2. /\ Cardinality(Making') \in Nat
          /\ Cardinality(Making') + 1 <= Cardinality(Making)
      BY <1>3, <2>1, MakingEnds
    <2>3. QED
      BY <1>1, <1>2, <2>2, MakingFinite
         DEF SignalInv, MakingInv, PoolTypeOK
  <1>13. EntriesInv'
    <2>2. ASSUME NEW i \in 1 .. made, NEW j, j = i, Opening(i)
          PROVE  Opening(j)'
      BY <1>1, <1>7, <1>9, <2>2 DEF Opening
    <2>3. ASSUME NEW q \in Pairs, pool'[q] # NoConn
          PROVE  conns'[pool'[q]].pair = q /\ (ice => Opening(pool[q])')
      <3>1. CASE q = p /\ pool'[q] = made'
        <4>1. ASSUME NEW j, j = made' PROVE Opening(j)'
          BY <1>8, <1>9, <4>1 DEF Opening
        <4>2. QED
          BY <1>6, <1>7, <3>1, <4>1
      <3>2. CASE pool'[q] = pool[q]
        <4>1. pool[q] # NoConn /\ pool[q] \in 1 .. made
          BY <1>2, <2>3, <3>2
        <4>2. conns[pool[q]].pair = q /\ (ice => Opening(pool[q]))
          BY <4>1 DEF SignalInv, EntriesInv
        <4>3. QED
          BY <1>7, <2>2, <3>2, <4>1, <4>2
      <3>3. QED
        BY <1>10, <3>1, <3>2
    <2>4. QED
      BY <1>1, <2>3 DEF EntriesInv
  <1>14. WorkInv'
    <2>1. ASSUME NEW t \in Slots PROVE Works(handlers[t])'
      <3>1. Works(handlers[t]) /\ handlers[t].pair \in Pairs
        BY WorkFacts
      <3>2. handlers[t].outer # NoConn =>
              /\ handlers[t].outer \in 1 .. made /\ handlers[t].outer <= made
              /\ conns'[handlers[t].outer].pair = handlers[t].pair
              /\ pool'[handlers[t].pair] # NoConn =>
                    handlers[t].outer <= pool'[handlers[t].pair]
        BY <1>1, <1>2, <1>7, <1>10, <3>1 DEF Works
      <3>3. CASE t = s
        BY <1>1, <1>7, <1>8, <1>9, <3>1, <3>2, <3>3 DEF Works, Closing, p
      <3>4. CASE t # s
        BY <1>1, <1>7, <1>9, <3>1, <3>2, <3>4 DEF Works
      <3>5. QED
        BY <3>3, <3>4
    <2>2. QED
      BY <2>1 DEF WorkInv
  <1>15. LostInv'
    <2>1. ASSUME NEW i \in 1 .. made
          PROVE  \/ pool'[conns'[i].pair] = i
                 \/ i \in replaced' \cup dropped'
                 \/ \E j \in closing' : Takes(j, i)'
      <3>1. conns'[i] = conns[i] /\ conns[i].pair \in Pairs /\ i # NoConn
        BY <1>2, <1>7
      <3>2. CASE pool[conns[i].pair] = i
        BY <1>10, <3>1, <3>2
      <3>3. CASE i \in replaced \cup dropped
        BY <1>10, <3>3
      <3>4. CASE \E j \in closing : Takes(j, i)
        <4>1. PICK j \in closing : Takes(j, i)
          BY <3>4
        <4>2. j \in 1 .. made /\ conns'[j] = conns[j]
          BY <1>2, <1>7 DEF PoolTypeOK
        <4>3. Takes(j, i)'
          BY <3>1, <4>1, <4>2 DEF Takes
        <4>4. QED
          BY <1>1, <4>3
      <3>5. QED
        BY <3>2, <3>3, <3>4 DEF SignalInv, LostInv
    <2>2. pool'[conns'[made'].pair] = made' \/ made' \in dropped'
      BY <1>6, <1>7, <1>10
    <2>3. \A i \in 1 .. made' : \/ pool'[conns'[i].pair] = i
                                \/ i \in replaced' \cup dropped'
                                \/ \E j \in closing' : Takes(j, i)'
      BY <1>7, <2>1, <2>2
    <2>4. QED
      BY <2>3 DEF LostInv
  <1>16. AskedInv'
    <2>1. ASSUME NEW q \in asked, ice
          PROVE  \/ \E t \in Slots :
                      /\ May(handlers'[t]) /\ handlers'[t].kind = "candidate"
                      /\ handlers'[t].pair = q
                 \/ pool'[q] # NoConn
                 \/ TakenOut(q)'
      <3>1. q \in Pairs
        BY <1>2 DEF PoolTypeOK
      <3>2. CASE q = p
        <4>1. conns'[made'].pair = q
          BY <1>6, <1>7, <3>2
        <4>2. QED
          BY <1>5, <1>10, <3>2, <4>1 DEF TakenOut
      <3>3. CASE q # p
        <4>1. CASE \E t \in Slots :
                      /\ May(handlers[t]) /\ handlers[t].kind = "candidate"
                      /\ handlers[t].pair = q
          BY <1>9, <3>3, <4>1 DEF p
        <4>2. CASE pool[q] # NoConn
          BY <1>10, <3>1, <3>3, <4>2
        <4>3. CASE TakenOut(q)
          <5>1. /\ closing \subseteq 1 .. made /\ dropped \subseteq 1 .. made
                /\ dropped \subseteq dropped' /\ closing' = closing
            BY <1>1, <1>2, <1>10 DEF PoolTypeOK
          <5>2. QED
            BY <1>7, <4>3, <5>1 DEF TakenOut
        <4>4. QED
          BY <2>1, <4>1, <4>2, <4>3 DEF SignalInv, AskedInv
      <3>4. QED
        BY <3>2, <3>3
    <2>2. QED
      BY <1>1, <2>1 DEF AskedInv
  <1>17. QED
    BY <1>11, <1>12, <1>13, <1>14, <1>15, <1>16 DEF SignalInv

\* A handler that removes works on a connection it closed, of its own pair, and
\* made no later than the one the pool has of the pair.
LEMMA RemoverFacts ==
    ASSUME SignalInv, NEW s \in Slots, handlers[s].pc \in Closing
    PROVE  LET o == handlers[s].outer IN
           /\ o \in 1 .. made /\ o \in closing /\ o # NoConn
           /\ conns[o].pair = handlers[s].pair /\ handlers[s].pair \in Pairs
           /\ pool[conns[o].pair] # NoConn => o <= pool[conns[o].pair]
           /\ ~May(handlers[s]) /\ handlers[s].pc # "init"
  BY WorkFacts DEF Works, May, Closing

\* A Close looks for the map of its peer.
LEMMA FindMapKeeps ==
    ASSUME SignalInv, NEW s \in Slots, FindMap(s)
    PROVE  SignalInv'
  <1>1. /\ handlers[s].pc = "remove"
        /\ Goto(s, "take") \/ Done(s)
        /\ UNCHANGED <<still, places, conns, made, closing>>
    BY DEF FindMap
  <1>2. /\ handlers[s].pc \in Closing /\ closing' \subseteq 1 .. made
        /\ "take" \in Steps
    BY <1>1, WorkFacts DEF PoolTypeOK, Closing, Steps
  <1>3. CASE Goto(s, "take")
    BY <1>1, <1>2, <1>3, RemoverFacts, MovesOn DEF Creating, Closing
  <1>4. CASE Done(s)
    BY <1>1, <1>2, <1>4, RemoverFacts, EndKeeps
  <1>5. QED
    BY <1>1, <1>3, <1>4

\* The handlers after one that takes the map of a peer out and ends.
LEMMA TakerEnds ==
    ASSUME PoolTypeOK, NEW s \in Slots, NEW q,
           handlers' = [Detached(q) EXCEPT ![s] = Idle]
    PROVE  /\ handlers' \in [Slots -> Handler] /\ handlers'[s] = Idle
           /\ \A t \in Slots : t # s => Moved(handlers[t], handlers'[t])
  <1> DEFINE d == Detached(q)
  <1>1. d \in [Slots -> Handler] /\ \A t \in Slots : Moved(handlers[t], d[t])
    BY DetachedFacts
  <1>2. handlers' = [d EXCEPT ![s] = Idle] /\ Idle \in Handler
    BY IdleHandler
  <1> HIDE DEF d
  <1>3. QED
    BY <1>1, <1>2

\* What a remove leaves in the pool, and what it takes out.
LEMMA RemovedFacts ==
    ASSUME SignalInv, NEW s \in Slots, handlers[s].pc \in Closing,
           pool' = Removed(conns[handlers[s].outer].pair)
    PROVE  /\ pool' \in [Pairs -> (1 .. made) \cup {NoConn}]
           /\ \A p \in Pairs :
                 \/ pool'[p] = pool[p]
                 \/ /\ pool'[p] = NoConn
                    /\ \E j \in closing : Takes(j, pool[p])
  <1> DEFINE o == handlers[s].outer
             r == conns[o].pair
  <1>1. /\ o \in closing /\ PoolTypeOK
        /\ pool[r] # NoConn => o <= pool[r]
    BY RemoverFacts, WorkFacts
  <1> HIDE DEF o
  <1>2. pool' = [q \in Pairs |-> IF q = r \/ (r[2] = NoClient /\ q[1] = r[1])
                                 THEN NoConn ELSE pool[q]]
    BY DEF Removed, o
  <1>3. ASSUME NEW p \in Pairs, pool'[p] # pool[p]
        PROVE  pool'[p] = NoConn /\ Takes(o, pool[p])
    <2>1. /\ pool'[p] = NoConn /\ pool[p] # NoConn
          /\ p = r \/ (r[2] = NoClient /\ p[1] = r[1])
      BY <1>2, <1>3
    <2>2. conns[pool[p]].pair = p
      BY <2>1 DEF SignalInv, EntriesInv
    <2>3. QED
      BY <1>1, <2>1, <2>2 DEF Takes
  <1>4. QED
    BY <1>1, <1>2, <1>3 DEF PoolTypeOK

\* A Close of a connection without a client takes all of the peer.
LEMMA TakePeerKeeps ==
    ASSUME SignalInv, NEW s \in Slots, TakePeer(s)
    PROVE  SignalInv'
  <1>1. /\ handlers[s].pc \in Closing
        /\ pool' = Removed(conns[handlers[s].outer].pair)
        /\ maps' \subseteq maps
        /\ UNCHANGED <<still, conns, made, replaced, dropped, closing>>
    BY DEF TakePeer, Closing
  <1>2. PICK q : handlers' = [Detached(q) EXCEPT ![s] = Idle]
    BY DEF TakePeer
  <1>3. /\ PoolTypeOK /\ maps' \subseteq Peers /\ dropped' \subseteq 1 .. made
    BY <1>1, WorkFacts DEF PoolTypeOK
  <1>4. QED
    BY <1>1, <1>2, <1>3, RemoverFacts, RemovedFacts, TakerEnds, TakenKeeps

\* Another takes what its map has of the pair.
LEMMA TakePairKeeps ==
    ASSUME SignalInv, NEW s \in Slots, TakePair(s)
    PROVE  SignalInv'
  <1>1. /\ handlers[s].pc \in {"take", "old"}
        /\ handlers[s].pc \in Closing /\ "drop" \in Steps
        /\ Done(s) \/ Goto(s, "drop")
        /\ \/ pool' = Removed(conns[handlers[s].outer].pair)
           \/ UNCHANGED pool
        /\ UNCHANGED <<still, maps, conns, made, replaced, dropped, closing>>
    BY DEF TakePair, Closing, Steps
  <1>2. /\ PoolTypeOK /\ maps' \subseteq Peers /\ dropped' \subseteq 1 .. made
        /\ pool \in [Pairs -> (1 .. made) \cup {NoConn}]
        /\ handlers[s] \in Handler
    BY <1>1, WorkFacts DEF PoolTypeOK
  <1>3. ASSUME NEW t \in Slots, handlers'[t] = handlers[t]
        PROVE  Moved(handlers[t], handlers'[t])
    BY <1>3 DEF Moved
  <1>4. /\ handlers' \in [Slots -> Handler]
        /\ \A t \in Slots : t # s => handlers'[t] = handlers[t]
        /\ handlers'[s] = Idle \/ Moved(handlers[s], handlers'[s])
    <2>1. CASE Done(s)
      BY <1>2, <2>1, DoneTypes
    <2>2. CASE Goto(s, "drop")
      <3>1. /\ handlers' \in [Slots -> Handler]
            /\ \A t \in Slots : t # s => handlers'[t] = handlers[t]
            /\ handlers'[s] = [handlers[s] EXCEPT !.pc = "drop"]
        BY <1>1, <1>2, <2>2, GotoTypes
      <3>2. QED
        BY <1>1, <1>2, <3>1 DEF Handler, Moved, May, Closing
    <2>3. QED
      BY <1>1, <2>1, <2>2
  <1>5. /\ pool' \in [Pairs -> (1 .. made) \cup {NoConn}]
        /\ \A p \in Pairs :
              \/ pool'[p] = pool[p]
              \/ pool'[p] = NoConn /\ \E j \in closing : Takes(j, pool[p])
    BY <1>1, <1>2, RemovedFacts
  <1>6. ~May(handlers[s]) /\ handlers[s].pc # "init"
    BY <1>1 DEF May
  <1>7. QED
    BY <1>1, <1>2, <1>3, <1>4, <1>5, <1>6, TakenKeeps

\* The map of a peer whose last connection a Close took goes, with what was put
\* in it meanwhile.
LEMMA DropKeeps ==
    ASSUME SignalInv, NEW s \in Slots, Drop(s)
    PROVE  SignalInv'
  <1> DEFINE q == conns[handlers[s].outer].pair[1]
  <1>1. /\ handlers[s].pc \in Closing /\ DropMap(q) /\ maps' \subseteq maps
        /\ handlers' = [Detached(q) EXCEPT ![s] = Idle]
        /\ UNCHANGED <<still, conns, made, replaced, closing>>
    BY DEF Drop, Closing
  <1>2. PoolTypeOK /\ maps' \subseteq Peers
    BY <1>1, WorkFacts DEF PoolTypeOK
  <1> HIDE DEF q
  <1>3. QED
    BY <1>1, <1>2, RemoverFacts, DropMapFacts, TakerEnds, TakenKeeps

\* Every step of a handler of signals keeps the invariant.
LEMMA SignalStep ==
    ASSUME SignalInv, NEW s \in Slots, Receive(s) \/ HandlerStep(s)
    PROVE  SignalInv'
  BY ReceiveKeeps, LookupKeeps, CheckKeeps, PutKeeps, NewMapKeeps, WriteKeeps,
     InitKeeps, RegisterKeeps, OnSignalKeeps, CloseKeeps, StatusKeeps, EmitKeeps,
     FindMapKeeps, TakePeerKeeps, TakePairKeeps, DropKeeps
     DEF HandlerStep

\* So do a restart and the steps of the other handlers.
LEMMA SignalRests ==
    SignalInv /\ (Restart \/ UNCHANGED <<up, pairVars>>) => SignalInv'
  <1> SUFFICES ASSUME SignalInv, Restart \/ UNCHANGED <<up, pairVars>>
               PROVE  SignalInv'
    OBVIOUS
  <1>1. /\ UNCHANGED <<ice, places, conns, made, handlers, signals, asked,
                       closing>>
        /\ up' \in BOOLEAN /\ restarts' \in 0 .. MaxRestarts
    <2>1. CASE Restart
      BY <2>1, SignalsOK DEF Restart, SignalInv, PoolTypeOK
    <2>2. CASE UNCHANGED <<up, pairVars>>
      BY <2>2 DEF pairVars, SignalInv, PoolTypeOK
    <2>3. QED
      BY <2>1, <2>2
  <1>2. PoolTypeOK'
    BY <1>1 DEF SignalInv, PoolTypeOK
  <1>3. MakingInv' /\ EntriesInv' /\ WorkInv' /\ LostInv' /\ AskedInv'
    BY <1>1 DEF SignalInv, MakingInv, Making, May, EntriesInv, Opening,
                WorkInv, Works, LostInv, Takes, AskedInv,
                TakenOut
  <1>4. QED
    BY <1>2, <1>3 DEF SignalInv

----------------------------------------------------------------------------
(* The handlers of chats.                                                  *)

\* A step of the handler of c leaves every other chat as far as it was, when no
\* token expires by it.
LEMMA OthersKeep ==
    ASSUME ChatInv, NEW c \in Chats, ChatTypeOK',
           \A d \in Chats : d # c => /\ chats'[d] = chats[d]
                                    /\ notified'[d] = notified[d],
           oldest' = oldest, disturbed \subseteq disturbed',
           \A d \in Chats : /\ d # c /\ At(d, "again") /\ d \notin disturbed'
                            /\ token >= oldest
                            => token' >= oldest,
           Pushed(c)',
           chats'[c].pc \notin {"new", "deliver", "lost"} => chats'[c].opened
    PROVE  ChatInv'
  <1>1. PushInv'
    <2>1. ASSUME NEW d \in Chats, d # c PROVE Pushed(d)'
      <3>1. Pushed(d) /\ chats'[d] = chats[d] /\ notified'[d] = notified[d]
        BY <2>1 DEF ChatInv, PushInv
      <3>2. QED
        BY <2>1, <3>1 DEF Pushed, At, Running, Asked
    <2>2. QED
      BY <2>1 DEF PushInv
  <1>2. OpenedInv'
    BY DEF ChatInv, OpenedInv
  <1>3. QED
    BY <1>1, <1>2 DEF ChatInv

\* What is known of one chat.
LEMMA ChatFacts ==
    ASSUME ChatInv, NEW c \in Chats
    PROVE  /\ ChatTypeOK /\ Pushed(c)
           /\ chats[c] \in Chat /\ chats[c].got \in 0 .. issued
           /\ chats[c].vendor \in Vendors /\ notified[c] \in 0 .. 2
           /\ issued \in Nat /\ token \in Nat /\ oldest \in Nat
           /\ troubles \in Nat /\ expiries \in Nat
           /\ chats[c].pc \notin {"new", "deliver", "lost"} => chats[c].opened
  BY DEF ChatInv, ChatTypeOK, PushInv, OpenedInv, Chat

\* A chat that goes on at pc.
LEMMA ChatMoves ==
    ASSUME ChatTypeOK, NEW c \in Chats,
           NEW pc \in {"deliver", "source", "push", "fetch", "store", "again",
                       "done"},
           ChatGoto(c, pc)
    PROVE  /\ chats' \in [Chats -> Chat]
           /\ \A d \in Chats : chats'[d].got = chats[d].got
           /\ \A d \in Chats : d # c => chats'[d] = chats[d]
           /\ chats'[c].pc = pc /\ chats'[c].vendor = chats[c].vendor
           /\ chats'[c].opened = chats[c].opened
  <1>1. /\ [chats[c] EXCEPT !.pc = pc] \in Chat
        /\ [chats[c] EXCEPT !.pc = pc].pc = pc
        /\ [chats[c] EXCEPT !.pc = pc].got = chats[c].got
        /\ [chats[c] EXCEPT !.pc = pc].vendor = chats[c].vendor
        /\ [chats[c] EXCEPT !.pc = pc].opened = chats[c].opened
    BY DEF ChatTypeOK, Chat
  <1>2. chats' = [chats EXCEPT ![c] = [chats[c] EXCEPT !.pc = pc]]
    BY DEF ChatGoto, ChatTypeOK
  <1> DEFINE new == [chats[c] EXCEPT !.pc = pc]
  <1> HIDE DEF new
  <1>3. QED
    BY <1>1, <1>2 DEF ChatTypeOK, new

\* With sealing as it is between nodes, every message opens.
LEMMA NodesOpen == \A opens \in NodeMessageOpens : opens = TRUE
  <1>1. ASSUME NEW wanted \in BOOLEAN, NEW long \in BOOLEAN,
               NEW target \in {NoKey, "new"}, NEW own \in {"old", "new"}
        PROVE  Opens(wanted, long, target, own) = TRUE
    <2>1. GetPublicKey(<<>>, own) = NoKey
      BY DEF GetPublicKey, EndpointKey
    <2>2. QED
      BY <2>1 DEF Opens, Decrypt, Verified
  <1>2. QED
    <2> SUFFICES ASSUME NEW opens \in NodeMessageOpens PROVE opens = TRUE
      OBVIOUS
    <2>1. PICK wanted \in BOOLEAN, long \in BOOLEAN, target \in {NoKey, "new"},
               own \in {"old", "new"} :
            opens = Opens(wanted, long, target, own)
      BY DEF NodeMessageOpens
    <2>2. QED
      BY <1>1, <2>1

\* A chat comes, is delivered, and finds the vendor of its target.
LEMMA ComingKeeps ==
    ASSUME ChatInv, NEW c \in Chats, ReceiveChat(c) \/ Deliver(c) \/ Source(c)
    PROVE  ChatInv'
  <1>1. /\ ChatTypeOK /\ Pushed(c) /\ chats[c] \in Chat
        /\ chats[c].got \in 0 .. issued
    BY ChatFacts
  <1>2. UNCHANGED vendorVars
    BY DEF ReceiveChat, Deliver, Source
  <1>3. PICK new \in Chat :
          /\ chats' = [chats EXCEPT ![c] = new] /\ new.got = chats[c].got
          /\ \/ new.pc = "deliver" /\ At(c, "new")
             \/ new.pc = "source" /\ new.opened /\ At(c, "deliver")
             \/ /\ new.pc \in {"done", "push"} /\ At(c, "source")
                /\ new.opened = chats[c].opened
                /\ new.pc = "push" => new.vendor \in {"plain", "token"}
                /\ new.pc = "done" => new.vendor = "none"
    <2>1. CASE ReceiveChat(c)
      <3>1. chats' = [chats EXCEPT ![c] = [@ EXCEPT !.pc = "deliver"]]
        BY <1>1, <2>1 DEF ReceiveChat, ChatGoto, ChatTypeOK
      <3>2. [chats[c] EXCEPT !.pc = "deliver"] \in Chat
        BY <1>1 DEF Chat
      <3>3. QED
        BY <1>1, <2>1, <3>1, <3>2 DEF ReceiveChat, Chat
    <2>2. CASE Deliver(c)
      <3>1. PICK opens \in NodeMessageOpens :
              chats' = [chats EXCEPT ![c].pc = "source", ![c].opened = opens]
        BY <2>2 DEF Deliver
      <3>2. opens = TRUE
        BY NodesOpen
      <3>3. chats' = [chats EXCEPT ![c] =
                        [@ EXCEPT !.pc = "source", !.opened = TRUE]]
        BY <1>1, <3>1, <3>2 DEF ChatTypeOK
      <3>4. [chats[c] EXCEPT !.pc = "source", !.opened = TRUE] \in Chat
        BY <1>1 DEF Chat
      <3>5. QED
        BY <1>1, <2>2, <3>3, <3>4 DEF Deliver, Chat
    <2>3. CASE Source(c)
      <3>1. PICK v \in Vendors :
              chats' = [chats EXCEPT ![c].vendor = v,
                          ![c].pc = IF v = "none" THEN "done" ELSE "push"]
        BY <2>3 DEF Source
      <3> DEFINE new == [chats[c] EXCEPT !.vendor = v,
                           !.pc = IF v = "none" THEN "done" ELSE "push"]
      <3>2. chats' = [chats EXCEPT ![c] = new]
        BY <1>1, <3>1 DEF ChatTypeOK
      <3>3. /\ new \in Chat /\ new.got = chats[c].got
            /\ new.opened = chats[c].opened /\ new.vendor = v
            /\ new.pc = IF v = "none" THEN "done" ELSE "push"
        BY <1>1 DEF Chat
      <3> HIDE DEF new
      <3>4. QED
        BY <2>3, <3>2, <3>3 DEF Source, Vendors
    <2>4. QED
      BY <2>1, <2>2, <2>3
  <1>4. chats'[c] = new /\ \A d \in Chats : d # c => chats'[d] = chats[d]
    BY <1>1, <1>3 DEF ChatTypeOK
  <1>5. ChatTypeOK'
    BY <1>1, <1>2, <1>3, <1>4 DEF ChatTypeOK, vendorVars
  <1>6. Pushed(c)'
    BY <1>1, <1>2, <1>3, <1>4 DEF Pushed, At, Running, Asked, vendorVars
  <1>7. chats'[c].pc \notin {"new", "deliver", "lost"} => chats'[c].opened
    BY <1>3, <1>4, ChatFacts DEF At
  <1>8. QED
    BY <1>2, <1>4, <1>5, <1>6, <1>7, OthersKeep DEF vendorVars

\* The three outcomes of a call of PushNotice by a handler that was at `from`:
\* the chat is notified, refused, or touched by a call that failed.
LEMMA NoticeKeeps ==
    ASSUME ChatInv, NEW c \in Chats, NEW next \in {"fetch", "done"},
           PushNotice(c, next),
           \/ At(c, "push") /\ chats[c].vendor = "plain" /\ next = "done"
           \/ At(c, "push") /\ chats[c].vendor = "token" /\ next = "fetch"
           \/ At(c, "again") /\ next = "done"
    PROVE  ChatInv'
  <1>1. /\ ChatTypeOK /\ Pushed(c) /\ chats[c] \in Chat
        /\ notified[c] \in 0 .. 2 /\ chats[c].opened
        /\ token \in Nat /\ oldest \in Nat /\ chats[c].vendor \in Vendors
    BY ChatFacts DEF At
  <1>2. /\ UNCHANGED <<token, issued, oldest, expiries>>
        /\ ChatGoto(c, next) \/ ChatGoto(c, "done")
    BY DEF PushNotice
  <1>3. notified[c] <= 1 /\ (c \notin disturbed => notified[c] = 0)
    BY <1>1 DEF Pushed, At, Running
  <1>4. \/ /\ Accepted(c) /\ ChatGoto(c, "done")
           /\ notified' = [notified EXCEPT ![c] = notified[c] + 1]
           /\ UNCHANGED <<troubles, disturbed>>
        \/ /\ ~Accepted(c) /\ ChatGoto(c, next)
           /\ UNCHANGED <<notified, troubles, disturbed>>
        \/ /\ ChatGoto(c, next) /\ troubles' = troubles + 1
           /\ troubles < MaxTroubles /\ disturbed' = disturbed \cup {c}
           /\ \/ notified' = notified
              \/ notified' = [notified EXCEPT ![c] = notified[c] + 1]
    BY DEF PushNotice, Trouble
  <1>5. PICK pc \in {"fetch", "done"} : ChatGoto(c, pc) /\ pc \in {next, "done"}
    BY <1>2
  <1>6. /\ chats' \in [Chats -> Chat]
        /\ \A d \in Chats : chats'[d].got = chats[d].got
        /\ \A d \in Chats : d # c => chats'[d] = chats[d]
        /\ chats'[c].pc = pc /\ chats'[c].vendor = chats[c].vendor
        /\ chats'[c].opened = chats[c].opened
    BY <1>1, <1>5, ChatMoves
  <1>7. /\ notified' \in [Chats -> 0 .. 2]
        /\ \A d \in Chats : d # c => notified'[d] = notified[d]
        /\ notified'[c] \in {notified[c], notified[c] + 1}
    BY <1>1, <1>3, <1>4 DEF ChatTypeOK
  <1>8. /\ troubles' \in 0 .. MaxTroubles /\ disturbed \subseteq disturbed'
        /\ disturbed' \subseteq Chats
    BY <1>1, <1>4, VendorOK DEF ChatTypeOK
  <1>9. ChatTypeOK'
    BY <1>1, <1>2, <1>6, <1>7, <1>8 DEF ChatTypeOK
  <1>10. Pushed(c)'
    <2>1. CASE c \in disturbed'
      <3>1. At(c, "again") => chats'[c].pc = "done"
        BY <1>5, <1>6 DEF At
      <3>2. At(c, "push") => notified[c] = 0
        BY <1>1 DEF Pushed, At
      <3>3. QED
        BY <1>3, <1>6, <1>7, <2>1, <3>1, <3>2 DEF Pushed, At
    <2>2. CASE c \notin disturbed'
      <3>1. notified[c] = 0 /\ c \notin disturbed
        BY <1>3, <1>8, <2>2
      <3>2. \/ /\ Accepted(c) /\ ChatGoto(c, "done")
               /\ notified' = [notified EXCEPT ![c] = notified[c] + 1]
            \/ ~Accepted(c) /\ ChatGoto(c, next) /\ notified' = notified
        BY <1>4, <2>2
      <3>3. CASE /\ Accepted(c) /\ ChatGoto(c, "done")
                 /\ notified' = [notified EXCEPT ![c] = notified[c] + 1]
        <4>1. chats'[c].pc = "done"
          BY <1>1, <3>3, ChatMoves
        <4>2. notified'[c] = 1
          BY <1>1, <3>1, <3>3 DEF ChatTypeOK
        <4>3. QED
          BY <4>1, <4>2 DEF Pushed, At, Running, Asked
      <3>4. CASE ~Accepted(c) /\ ChatGoto(c, next) /\ notified' = notified
        <4>1. At(c, "push") /\ chats[c].vendor = "token" /\ next = "fetch"
          BY <1>1, <3>1, <3>4 DEF Pushed, At, Accepted
        <4>2. chats'[c].pc = "fetch" /\ chats'[c].vendor = "token"
          BY <1>1, <3>4, <4>1, ChatMoves
        <4>3. QED
          BY <3>1, <3>4, <4>2 DEF Pushed, At, Running, Asked
      <3>5. QED
        BY <3>2, <3>3, <3>4
    <2>3. QED
      BY <2>1, <2>2
  <1>11. QED
    BY <1>1, <1>2, <1>6, <1>7, <1>8, <1>9, <1>10, OthersKeep

\* A token that is fetched is valid at first.
LEMMA FetchKeeps ==
    ASSUME ChatInv, NEW c \in Chats, Fetch(c)
    PROVE  ChatInv'
  <1>1. /\ ChatTypeOK /\ Pushed(c) /\ chats[c] \in Chat
        /\ notified[c] \in 0 .. 2 /\ chats[c].opened
        /\ issued \in Nat /\ At(c, "fetch") /\ chats[c].pc = "fetch"
    BY ChatFacts DEF Fetch, At
  <1>2. /\ UNCHANGED <<token, oldest, expiries, notified>>
        /\ \/ /\ issued' = issued + 1 /\ UNCHANGED <<troubles, disturbed>>
              /\ chats' = [chats EXCEPT ![c].pc = "store", ![c].got = issued']
           \/ /\ troubles < MaxTroubles /\ troubles' = troubles + 1
              /\ disturbed' = disturbed \cup {c}
              /\ ChatGoto(c, "done") /\ UNCHANGED issued
    BY DEF Fetch, Trouble
  <1>3. CASE /\ issued' = issued + 1 /\ UNCHANGED <<troubles, disturbed>>
             /\ chats' = [chats EXCEPT ![c].pc = "store", ![c].got = issued']
    <2> DEFINE new == [chats[c] EXCEPT !.pc = "store", !.got = issued']
    <2>1. chats' = [chats EXCEPT ![c] = new]
      BY <1>1, <1>3 DEF ChatTypeOK
    <2>2. /\ new \in Chat /\ new.got = issued + 1 /\ new.pc = "store"
          /\ new.vendor = chats[c].vendor /\ new.opened = chats[c].opened
      <3>1. issued' = issued + 1 /\ issued + 1 \in Nat
        BY <1>1, <1>3
      <3>2. chats[c] \in Chat
        BY <1>1
      <3>3. QED
        BY <3>1, <3>2 DEF Chat
    <2> HIDE DEF new
    <2>3. /\ chats' \in [Chats -> Chat] /\ chats'[c] = new
          /\ \A d \in Chats : d # c => chats'[d] = chats[d]
      BY <1>1, <2>1, <2>2 DEF ChatTypeOK
    <2>4. ChatTypeOK'
      <3>1. \A d \in Chats : chats'[d].got \in 0 .. issued'
        BY <1>1, <1>3, <2>2, <2>3 DEF ChatTypeOK
      <3>2. QED
        BY <1>1, <1>2, <1>3, <2>3, <3>1 DEF ChatTypeOK
    <2>5. new.got >= oldest
      BY <1>1, <2>2 DEF ChatTypeOK
    <2>6. Pushed(c)'
      BY <1>1, <1>2, <1>3, <2>2, <2>3, <2>5 DEF Pushed, At, Running, Asked
    <2>7. QED
      BY <1>1, <1>2, <1>3, <2>2, <2>3, <2>4, <2>6, OthersKeep
  <1>4. CASE /\ troubles < MaxTroubles /\ troubles' = troubles + 1
             /\ disturbed' = disturbed \cup {c}
             /\ ChatGoto(c, "done") /\ UNCHANGED issued
    <2>1. /\ chats' \in [Chats -> Chat]
          /\ \A d \in Chats : chats'[d].got = chats[d].got
          /\ \A d \in Chats : d # c => chats'[d] = chats[d]
          /\ chats'[c].pc = "done" /\ chats'[c].opened = chats[c].opened
      BY <1>1, <1>4, ChatMoves
    <2>2. ChatTypeOK'
      BY <1>1, <1>2, <1>4, <2>1, VendorOK DEF ChatTypeOK
    <2>3. Pushed(c)'
      BY <1>4, <2>1 DEF Pushed, At
    <2>4. QED
      BY <1>1, <1>2, <1>4, <2>1, <2>2, <2>3, OthersKeep
  <1>5. QED
    BY <1>2, <1>3, <1>4

\* The token stored may have expired, which touches all that use it.
LEMMA StoreKeeps ==
    ASSUME ChatInv, NEW c \in Chats, Store(c)
    PROVE  ChatInv'
  <1>1. /\ ChatTypeOK /\ Pushed(c) /\ chats[c] \in Chat
        /\ notified[c] \in 0 .. 2 /\ chats[c].opened /\ oldest \in Nat
        /\ chats[c].got \in 0 .. issued /\ chats[c].got \in Nat
        /\ At(c, "store") /\ chats[c].pc = "store"
    BY ChatFacts DEF Store, At
  <1>2. /\ ChatGoto(c, "again") /\ token' = chats[c].got
        /\ UNCHANGED <<issued, oldest, expiries, troubles, notified>>
        /\ disturbed' = IF chats[c].got < oldest THEN disturbed \cup Running
                        ELSE disturbed
    BY DEF Store
  <1>3. /\ chats' \in [Chats -> Chat]
        /\ \A d \in Chats : chats'[d].got = chats[d].got
        /\ \A d \in Chats : d # c => chats'[d] = chats[d]
        /\ chats'[c].pc = "again" /\ chats'[c].opened = chats[c].opened
    BY <1>1, <1>2, ChatMoves
  <1>4. ChatTypeOK'
    BY <1>1, <1>2, <1>3 DEF ChatTypeOK, Running
  <1>5. \A d \in Running : d \notin disturbed' => token' >= oldest
    BY <1>1, <1>2
  <1>6. c \in Running /\ disturbed \subseteq disturbed'
    BY <1>1, <1>2 DEF Running
  <1>7. Pushed(c)'
    BY <1>1, <1>2, <1>3, <1>5, <1>6 DEF Pushed, At, Running, Asked
  <1>8. \A d \in Chats : At(d, "again") => d \in Running
    BY DEF At, Running
  <1>9. QED
    BY <1>1, <1>2, <1>3, <1>4, <1>5, <1>6, <1>7, <1>8, OthersKeep

\* The vendor drops its tokens: whoever is under way is touched.
LEMMA ExpireKeeps == ChatInv /\ Expire => ChatInv'
  <1> SUFFICES ASSUME ChatInv, Expire PROVE ChatInv'
    OBVIOUS
  <1>1. /\ expiries < MaxExpiries /\ expiries' = expiries + 1
        /\ oldest' = issued + 1 /\ disturbed' = disturbed \cup Running
        /\ UNCHANGED <<chats, token, issued, troubles, notified>>
    BY DEF Expire
  <1>2. ChatTypeOK'
    BY <1>1, VendorOK DEF ChatInv, ChatTypeOK, Running
  <1>3. PushInv'
    <2>1. ASSUME NEW d \in Chats PROVE Pushed(d)'
      <3>1. Pushed(d)
        BY DEF ChatInv, PushInv
      <3>2. d \notin disturbed' => d \notin Running /\ d \notin disturbed
        BY <1>1
      <3>3. QED
        BY <1>1, <3>1, <3>2 DEF Pushed, At, Running, Asked
    <2>2. QED
      BY <2>1 DEF PushInv
  <1>4. OpenedInv'
    BY <1>1 DEF ChatInv, OpenedInv
  <1>5. QED
    BY <1>2, <1>3, <1>4 DEF ChatInv

\* The chats under way are lost with their process, and its token is.
LEMMA StopChatsKeeps == ChatInv /\ StopChats => ChatInv'
  <1> SUFFICES ASSUME ChatInv, StopChats PROVE ChatInv'
    OBVIOUS
  <1>1. /\ chats' = [c \in Chats |-> IF c \in Running
                       THEN [chats[c] EXCEPT !.pc = "lost"] ELSE chats[c]]
        /\ token' = 0
        /\ UNCHANGED <<issued, oldest, expiries, troubles, notified, disturbed>>
    BY DEF StopChats
  <1>2. ASSUME NEW d \in Chats
        PROVE  /\ chats'[d] \in Chat /\ chats'[d].got \in 0 .. issued
               /\ Pushed(d)'
               /\ chats'[d].pc \notin {"new", "deliver", "lost"} =>
                     chats'[d].opened
    <2>1. /\ chats[d] \in Chat /\ Pushed(d) /\ notified[d] \in 0 .. 2
          /\ chats[d].got \in 0 .. issued
          /\ chats[d].pc \notin {"new", "deliver", "lost"} => chats[d].opened
      BY ChatFacts
    <2>2. CASE d \in Running
      <3>1. chats'[d] = [chats[d] EXCEPT !.pc = "lost"]
        BY <1>1, <2>2
      <3>2. /\ chats'[d] \in Chat /\ chats'[d].pc = "lost"
            /\ chats'[d].got = chats[d].got
        BY <2>1, <3>1 DEF Chat
      <3>3. notified[d] <= 1
        BY <2>1, <2>2 DEF Pushed, Running, Chat, At
      <3>4. Pushed(d)'
        BY <1>1, <2>1, <3>2, <3>3 DEF Pushed, At, Running, Asked
      <3>5. QED
        BY <2>1, <3>2, <3>4
    <2>3. CASE d \notin Running
      <3>1. chats'[d] = chats[d]
        BY <1>1, <2>3
      <3>2. chats[d].pc \in {"new", "done", "lost"}
        BY <2>3 DEF Running
      <3>3. Pushed(d)'
        BY <1>1, <2>1, <3>1, <3>2 DEF Pushed, At, Running, Asked
      <3>4. QED
        BY <2>1, <3>1, <3>3
    <2>4. QED
      BY <2>2, <2>3
  <1>3. chats' \in [Chats -> Chat]
    <2> DEFINE new(c) == IF c \in Running THEN [chats[c] EXCEPT !.pc = "lost"]
                         ELSE chats[c]
    <2>1. ASSUME NEW c \in Chats PROVE new(c) \in Chat
      BY <1>1, <1>2
    <2>2. chats' = [c \in Chats |-> new(c)]
      BY <1>1
    <2> HIDE DEF new
    <2>3. QED
      BY <2>1, <2>2
  <1>4. ChatTypeOK'
    BY <1>1, <1>2, <1>3 DEF ChatInv, ChatTypeOK
  <1>5. QED
    BY <1>2, <1>4 DEF ChatInv, PushInv, OpenedInv

\* Every step of a chat's handler keeps the invariant.
LEMMA ChatKeeps ==
    ASSUME ChatInv, NEW c \in Chats, ReceiveChat(c) \/ ChatStep(c)
    PROVE  ChatInv'
  <1>1. CASE PushPlain(c)
    BY <1>1, NoticeKeeps DEF PushPlain
  <1>2. CASE PushToken(c)
    BY <1>2, NoticeKeeps DEF PushToken
  <1>3. CASE Again(c)
    BY <1>3, NoticeKeeps DEF Again
  <1>4. QED
    BY <1>1, <1>2, <1>3, ComingKeeps, FetchKeeps, StoreKeeps DEF ChatStep

\* So do the steps that touch no chat.
LEMMA ChatRests == ChatInv /\ UNCHANGED chatVars => ChatInv'
  <1> SUFFICES ASSUME ChatInv, UNCHANGED chatVars PROVE ChatInv'
    OBVIOUS
  <1>1. /\ UNCHANGED <<chats, token, issued, oldest, expiries, troubles>>
        /\ UNCHANGED <<notified, disturbed>>
    BY DEF chatVars
  <1>2. QED
    BY <1>1 DEF ChatInv, ChatTypeOK, PushInv, Pushed, OpenedInv, At, Running,
                Asked

----------------------------------------------------------------------------
(* The requests about rooms.                                               *)

\* What is known of one request.
LEMMA AskFacts ==
    ASSUME RoomInv, NEW r \in Asks
    PROVE  /\ RoomTypeOK /\ asks[r] \in Ask
           /\ asks[r].told \subseteq RoomNames /\ rooms \subseteq RoomNames
           /\ had[r] \subseteq RoomNames /\ lacked[r] \subseteq RoomNames
           /\ asks[r].pc # "new" => rooms \subseteq had[r]
  BY DEF RoomInv, RoomTypeOK, AskInv, Ask

\* A step in which one request goes on, or none, and the server may change.
LEMMA RoomStepKeeps ==
    ASSUME RoomInv, NEW r \in Asks, NEW a \in Ask,
           asks' = [asks EXCEPT ![r] = a],
           keys' = keys, failures' \in 0 .. MaxFailures,
           \/ ServeNothing
           \/ rooms' \subseteq RoomNames /\ Serve(rooms'),
           a.type = asks[r].type, a.room = asks[r].room, a.pc # "new",
           a.people = asks[r].people,
           asks[r].pc \in {"call", "tokens"}, a.pc \in {"tokens", "done"},
           a.type = "delete" => a.told \subseteq lacked'[r],
           a.type # "delete" => a.told \subseteq had'[r],
           a.pc = "tokens" => a.type = "create" /\ a.room \in had'[r],
           a.pc = "tokens" => a.tokens = 0,
           a.tokens # 0 => /\ a.type = "create" /\ a.room \in had'[r]
                           /\ a.tokens = a.people + 1
    PROVE  RoomInv'
  <1>1. /\ asks' \in [Asks -> Ask] /\ asks'[r] = a
        /\ \A q \in Asks : q # r => asks'[q] = asks[q]
    BY DEF RoomInv, RoomTypeOK
  <1>2. /\ rooms' \subseteq RoomNames
        /\ had' \in [Asks -> SUBSET RoomNames]
        /\ lacked' \in [Asks -> SUBSET RoomNames]
        /\ \A q \in Asks : had[q] \subseteq had'[q]
        /\ \A q \in Asks : lacked[q] \subseteq lacked'[q]
        /\ \A q \in Asks : rooms \subseteq had[q] => rooms' \subseteq had'[q]
    <2>1. CASE ServeNothing
      BY <2>1 DEF ServeNothing, RoomInv, RoomTypeOK
    <2>2. CASE rooms' \subseteq RoomNames /\ Serve(rooms')
      BY <2>2 DEF Serve, RoomInv, RoomTypeOK
    <2>3. QED
      BY <2>1, <2>2
  <1>3. RoomTypeOK'
    BY <1>1, <1>2 DEF RoomInv, RoomTypeOK
  <1>4. AskInv'
    BY <1>1, <1>2 DEF RoomInv, AskInv
  <1>5. QED
    BY <1>3, <1>4 DEF RoomInv

\* The call of r has come back, and the server has changed or not.
LEMMA AnswerKeeps ==
    ASSUME RoomInv, NEW r \in Asks, NEW pc \in {"tokens", "done"},
           NEW told \in SUBSET RoomNames, Answer(r, pc, told),
           asks[r].pc = "call", keys' = keys, failures' \in 0 .. MaxFailures,
           \/ ServeNothing
           \/ rooms' \subseteq RoomNames /\ Serve(rooms'),
           asks[r].type = "delete" => told \subseteq lacked'[r],
           asks[r].type # "delete" => told \subseteq had'[r],
           pc = "tokens" => asks[r].type = "create" /\ asks[r].room \in had'[r]
    PROVE  RoomInv'
  <1> DEFINE a == [asks[r] EXCEPT !.pc = pc, !.told = told]
  <1>1. RoomTypeOK /\ asks[r] \in Ask /\ asks[r].tokens = 0
    BY AskFacts DEF RoomInv, AskInv
  <1>2. asks' = [asks EXCEPT ![r] = a]
    BY <1>1 DEF Answer, RoomTypeOK
  <1>3. /\ a \in Ask /\ a.pc = pc /\ a.told = told /\ a.tokens = 0
        /\ a.type = asks[r].type /\ a.room = asks[r].room
        /\ a.people = asks[r].people
    BY <1>1 DEF Ask
  <1> HIDE DEF a
  <1>4. QED
    BY <1>2, <1>3, RoomStepKeeps

\* A call that fails is within the bound and changes the server or not.
LEMMA FailureTypes ==
    ASSUME RoomInv, NEW r \in Asks, NEW new \in SUBSET RoomNames,
           CallFails(r, new)
    PROVE  /\ failures' \in 0 .. MaxFailures
           /\ \/ ServeNothing
              \/ rooms' \subseteq RoomNames /\ Serve(rooms')
  <1>1. failures' \in 0 .. MaxFailures
    BY FailuresOK DEF CallFails, RoomInv, RoomTypeOK
  <1>2. ServeNothing \/ Serve(new)
    BY DEF CallFails
  <1>3. Serve(new) => rooms' = new
    BY DEF Serve
  <1>4. QED
    BY <1>1, <1>2, <1>3

\* A call that fails is answered with nothing.
LEMMA FailureKeeps ==
    ASSUME RoomInv, NEW r \in Asks, NEW new \in SUBSET RoomNames,
           CallFails(r, new), Answer(r, "done", {}), asks[r].pc = "call",
           keys' = keys
    PROVE  RoomInv'
  BY FailureTypes, AnswerKeeps

\* Every request's step tells what the server has, or had.
LEMMA ManageKeeps ==
    ASSUME RoomInv, NEW r \in Asks, ManageStep(r)
    PROVE  RoomInv'
  <1>1. /\ RoomTypeOK /\ asks[r] \in Ask /\ rooms \in SUBSET RoomNames
        /\ had[r] \subseteq RoomNames /\ lacked[r] \subseteq RoomNames
        /\ failures \in 0 .. MaxFailures
    BY AskFacts DEF RoomTypeOK
  <1>2. ASSUME NEW type \in Manage, Calls(r, type)
        PROVE  /\ asks[r].pc = "call" /\ asks[r].type = type
               /\ rooms \subseteq had[r]
               /\ type # "list" => asks[r].room \in RoomNames
    BY <1>2 DEF Calls, RoomInv, AskInv
  <1>3. \A new : Serve(new) => /\ rooms' = new /\ had'[r] = had[r] \cup new
                              /\ lacked'[r] = lacked[r] \cup (RoomNames \ new)
    BY DEF Serve
  <1>4. ServeNothing => had'[r] = had[r] /\ lacked'[r] = lacked[r]
    BY DEF ServeNothing
  <1>5. CASE CreateRoom(r)
    <2>1. /\ asks[r].pc = "call" /\ asks[r].type = "create"
          /\ asks[r].room \in RoomNames /\ keys' = keys
      BY <1>2, <1>5 DEF CreateRoom, Manage
    <2> DEFINE new == rooms \cup {asks[r].room}
    <2>2. new \in SUBSET RoomNames
      BY <1>1, <2>1
    <2>3. CASE /\ Serve(new) /\ UNCHANGED failures
               /\ Answer(r, "tokens", {asks[r].room})
      BY <1>1, <1>3, <2>1, <2>2, <2>3, AnswerKeeps
    <2>4. CASE CallFails(r, new) /\ Answer(r, "done", {})
      BY <2>1, <2>2, <2>4, FailureKeeps
    <2>5. QED
      BY <1>5, <2>3, <2>4 DEF CreateRoom
  <1>6. CASE DeleteRoom(r)
    <2>1. /\ asks[r].pc = "call" /\ asks[r].type = "delete"
          /\ asks[r].room \in RoomNames /\ keys' = keys
      BY <1>2, <1>6 DEF DeleteRoom, Manage
    <2> DEFINE new == rooms \ {asks[r].room}
    <2>2. new \in SUBSET RoomNames
      BY <1>1, <2>1
    <2>3. CASE /\ Serve(new) /\ UNCHANGED failures
               /\ Answer(r, "done", {asks[r].room})
      BY <1>1, <1>3, <2>1, <2>2, <2>3, AnswerKeeps
    <2>4. CASE CallFails(r, new) /\ Answer(r, "done", {})
      BY <2>1, <2>2, <2>4, FailureKeeps
    <2>5. QED
      BY <1>6, <2>3, <2>4 DEF DeleteRoom
  <1>7. CASE ListRooms(r)
    <2>1. /\ asks[r].pc = "call" /\ asks[r].type = "list"
          /\ rooms \subseteq had[r] /\ keys' = keys
      BY <1>2, <1>7 DEF ListRooms, Manage
    <2>2. CASE Answer(r, "done", rooms) /\ ServeNothing /\ UNCHANGED failures
      BY <1>1, <1>4, <2>1, <2>2, AnswerKeeps
    <2>3. CASE CallFails(r, rooms) /\ Answer(r, "done", {})
      BY <1>1, <2>1, <2>3, FailureKeeps
    <2>4. QED
      BY <1>7, <2>2, <2>3 DEF ListRooms
  <1>8. CASE ListParticipants(r)
    <2>1. /\ asks[r].pc = "call" /\ asks[r].type = "listParticipants"
          /\ rooms \subseteq had[r] /\ keys' = keys
      BY <1>2, <1>8 DEF ListParticipants, Manage
    <2>2. CASE /\ asks[r].room \in rooms /\ Answer(r, "done", {asks[r].room})
               /\ ServeNothing /\ UNCHANGED failures
      BY <1>1, <1>4, <2>1, <2>2, AnswerKeeps
    <2>3. CASE Answer(r, "done", {}) /\ ServeNothing /\ UNCHANGED failures
      BY <1>1, <1>4, <2>1, <2>3, AnswerKeeps
    <2>4. CASE CallFails(r, rooms) /\ Answer(r, "done", {})
      BY <1>1, <2>1, <2>4, FailureKeeps
    <2>5. QED
      BY <1>8, <2>2, <2>3, <2>4 DEF ListParticipants
  <1>9. CASE CreateTokens(r)
    <2> DEFINE n == (asks[r].people + 1) * CreateToken
               a == [asks[r] EXCEPT !.pc = "done", !.tokens = n]
    <2>1. /\ asks[r].pc = "tokens"
          /\ UNCHANGED <<rooms, keys, failures, had, lacked>>
          /\ asks' = [asks EXCEPT ![r] = a]
      BY <1>1, <1>9 DEF CreateTokens, RoomTypeOK
    <2>2. /\ asks[r].type = "create" /\ asks[r].room \in had[r]
          /\ asks[r].told \subseteq had[r]
      BY <2>1 DEF RoomInv, AskInv
    <2>3. asks[r].people \in 0 .. 1
      BY <1>1 DEF Ask
    <2>4. n \in 0 .. 2 /\ (n # 0 => n = asks[r].people + 1)
      BY <2>3 DEF CreateToken
    <2> HIDE DEF n
    <2>5. /\ a \in Ask /\ a.pc = "done" /\ a.tokens = n
          /\ a.told = asks[r].told /\ a.type = "create"
          /\ a.room = asks[r].room /\ a.people = asks[r].people
      BY <1>1, <2>2, <2>4 DEF Ask
    <2> HIDE DEF a
    <2>6. ServeNothing /\ failures' \in 0 .. MaxFailures
      BY <1>1, <2>1 DEF ServeNothing
    <2>7. QED
      BY <2>1, <2>2, <2>4, <2>5, <2>6, RoomStepKeeps
  <1>10. QED
    BY <1>5, <1>6, <1>7, <1>8, <1>9 DEF ManageStep

\* A request comes, and is refused, answered or goes to the server.
LEMMA ReceiveManageKeeps ==
    ASSUME RoomInv, NEW r \in Asks, ReceiveManage(r)
    PROVE  RoomInv'
  <1>1. /\ RoomTypeOK /\ asks[r] \in Ask /\ asks[r].pc = "new"
        /\ asks[r].told = {} /\ asks[r].tokens = 0
        /\ had' = [had EXCEPT ![r] = rooms]
        /\ lacked' = [lacked EXCEPT ![r] = RoomNames \ rooms]
        /\ UNCHANGED <<rooms, keys, failures>>
    BY AskFacts DEF ReceiveManage, RoomInv, AskInv
  <1>2. PICK type \in Manage, name \in RoomNames \cup {NoName},
             timeout \in BOOLEAN, people, names \in 0 .. 1 :
          /\ type # "create" => timeout /\ people = 0 /\ names = 0
          /\ type \in {"list", "other"} => name = NoName
          /\ asks' = [asks EXCEPT ![r] =
                     [@ EXCEPT !.type = type, !.room = name, !.people = people,
                               !.names = names,
                        !.status = IF Refused(type, name, timeout)
                                   THEN "refused" ELSE "ok",
                        !.pc = IF Refused(type, name, timeout) \/ type = "other"
                               THEN "done" ELSE "call"]]
    BY DEF ReceiveManage
  <1> DEFINE no == Refused(type, name, timeout)
             a == [asks[r] EXCEPT !.type = type, !.room = name,
                     !.people = people, !.names = names,
                     !.status = IF no THEN "refused" ELSE "ok",
                     !.pc = IF no \/ type = "other" THEN "done" ELSE "call"]
  <1>3. asks' = [asks EXCEPT ![r] = a]
    BY <1>1, <1>2 DEF RoomTypeOK
  <1>4. /\ a \in Ask /\ a.type = type /\ a.room = name /\ a.told = {}
        /\ a.tokens = 0
        /\ a.pc = IF no \/ type = "other" THEN "done" ELSE "call"
    <2> HIDE DEF no
    <2> QED
      BY <1>1 DEF Ask
  <1>5. a.pc = "call" /\ type # "list" => name \in RoomNames
    BY <1>4 DEF Refused, Manage
  <1> HIDE DEF a, no
  <1>6. /\ asks' \in [Asks -> Ask] /\ asks'[r] = a
        /\ \A q \in Asks : q # r => asks'[q] = asks[q]
    BY <1>1, <1>3, <1>4 DEF RoomTypeOK
  <1>7. /\ had' \in [Asks -> SUBSET RoomNames] /\ had'[r] = rooms
        /\ lacked' \in [Asks -> SUBSET RoomNames]
        /\ \A q \in Asks : q # r => had'[q] = had[q] /\ lacked'[q] = lacked[q]
    BY <1>1 DEF RoomTypeOK
  <1>8. RoomTypeOK'
    BY <1>1, <1>6, <1>7 DEF RoomTypeOK
  <1>9. AskInv'
    <2>1. a.pc \in {"done", "call"}
      BY <1>4
    <2>2. QED
      BY <1>1, <1>4, <1>5, <1>6, <1>7, <2>1 DEF RoomInv, AskInv
  <1>10. QED
    BY <1>8, <1>9 DEF RoomInv

\* A process that stops answers nobody.
LEMMA StopManageKeeps == RoomInv /\ StopManage => RoomInv'
  <1> SUFFICES ASSUME RoomInv, StopManage PROVE RoomInv'
    OBVIOUS
  <1> DEFINE new(r) == IF asks[r].pc \in {"call", "tokens"}
                       THEN [asks[r] EXCEPT !.pc = "lost"] ELSE asks[r]
  <1>1. /\ asks' = [r \in Asks |-> new(r)]
        /\ UNCHANGED <<rooms, keys, failures, had, lacked>>
    BY DEF StopManage
  <1>2. ASSUME NEW r \in Asks
        PROVE  /\ new(r) \in Ask /\ new(r).type = asks[r].type
               /\ new(r).told = asks[r].told /\ new(r).room = asks[r].room
               /\ new(r).tokens = asks[r].tokens
               /\ new(r).people = asks[r].people
               /\ \/ new(r).pc = asks[r].pc
                  \/ new(r).pc = "lost" /\ asks[r].pc \in {"call", "tokens"}
    BY AskFacts DEF Ask
  <1> HIDE DEF new
  <1>3. asks' \in [Asks -> Ask] /\ \A r \in Asks : asks'[r] = new(r)
    BY <1>1, <1>2
  <1>4. RoomTypeOK'
    BY <1>1, <1>3 DEF RoomInv, RoomTypeOK
  <1>5. AskInv'
    BY <1>1, <1>2, <1>3 DEF RoomInv, AskInv
  <1>6. QED
    BY <1>4, <1>5 DEF RoomInv

\* So do the steps that touch no request.
LEMMA RoomRests == RoomInv /\ UNCHANGED roomVars => RoomInv'
  <1> SUFFICES ASSUME RoomInv, UNCHANGED roomVars PROVE RoomInv'
    OBVIOUS
  <1>1. UNCHANGED <<asks, rooms, keys, failures, had, lacked>>
    BY DEF roomVars
  <1>2. QED
    BY <1>1 DEF RoomInv, RoomTypeOK, AskInv

----------------------------------------------------------------------------
(* The chat on its way from node to node.                                  *)

\* The sessions that were opened are counted among those there may be.
LEMMA LastSessionType ==
    /\ IsFiniteSet(Opened) /\ Opened \subseteq SessionIds
    /\ LastSession \in 0 .. MaxSessions
  <1>1. /\ IsFiniteSet(SessionIds)
        /\ Cardinality(SessionIds) = MaxSessions
    <2>1. IsFiniteSet(1 .. MaxSessions)
          /\ Cardinality(1 .. MaxSessions) = MaxSessions
      BY HopsOK, FS_Interval
    <2>2. QED
      BY <2>1 DEF SessionIds
  <1>2. Opened \subseteq SessionIds
    BY DEF Opened
  <1>3. QED
    BY <1>1, <1>2, HopsOK, FS_Subset, FS_CardinalityType DEF LastSession

\* What is known of the nodes' rows and of the chat.
LEMMA HopFacts ==
    ASSUME HopInv
    PROVE  /\ HopTypeOK /\ hop \in Hop
           /\ hop.pc \in {"new", "lookup", "forward", "stored", "delivered",
                          "lost"}
           /\ hop.at \in Nodes /\ hop.to \in 0 .. MaxSessions
           /\ \A n \in Nodes : rowOf[n] \in Row /\ Known(rowOf[n])
           /\ \A p \in rowPuts :
                 p.to \in Nodes /\ p.row \in Row /\ Known(p.row)
           /\ \A s \in Opened : s \in 0 .. MaxSessions /\ home[s] \in Nodes
           /\ hop.pc = "forward" => hop.to \in Opened
  BY DEF HopInv, HopTypeOK, RowsKnown, Hop, Opened, SessionIds

\* A put of a known row leaves known rows, wherever it arrives.
LEMMA PutRowKnown ==
    ASSUME HopInv, NEW n \in Nodes, NEW row \in Row, PutRow(n, row),
           Opened \subseteq Opened', Known(row)'
    PROVE  /\ rowOf' \in [Nodes -> Row]
           /\ rowPuts' \subseteq [to : Nodes, row : Row]
           /\ \A m \in Nodes : Known(rowOf[m])'
           /\ \A p \in rowPuts' : Known(p.row)'
  <1> DEFINE new == rowPuts \cup {[to |-> m, row |-> row] : m \in Nodes \ {n}}
  <1>1. /\ rowOf' = [rowOf EXCEPT ![n] = row]
        /\ rowPuts' = new \/ rowPuts' = rowPuts
    BY DEF PutRow
  <1>2. /\ rowOf \in [Nodes -> Row] /\ rowPuts \subseteq [to : Nodes, row : Row]
        /\ \A m \in Nodes : Known(rowOf[m])
        /\ \A p \in rowPuts : Known(p.row)
    BY DEF HopInv, HopTypeOK, RowsKnown
  <1>3. row.session \in Opened' \/ (row.session = 0 /\ ~row.up)
    BY DEF Known
  <1>4. \A p \in new : p \in rowPuts \/ (p.to \in Nodes /\ p.row = row)
    OBVIOUS
  <1>5. new \subseteq [to : Nodes, row : Row]
    BY <1>2
  <1> HIDE DEF new
  <1>6. \A p \in rowPuts' : p \in rowPuts \/ p.row = row
    BY <1>1, <1>4
  <1>7. \A m \in Nodes : rowOf'[m] = rowOf[m] \/ rowOf'[m] = row
    BY <1>1, <1>2
  <1>8. rowOf' \in [Nodes -> Row] /\ rowPuts' \subseteq [to : Nodes, row : Row]
    BY <1>1, <1>2, <1>5
  <1>9. QED
    BY <1>2, <1>3, <1>6, <1>7, <1>8 DEF Known

\* What a node sends again is looked up before it is handed on.
LEMMA ResendKnown ==
    ASSUME HopInv, NEW n \in Nodes, Resend(n), Opened \subseteq Opened'
    PROVE  hop' \in Hop /\ (hop'.pc = "forward" => hop'.to \in Opened')
  <1>1. CASE hop.pc = "stored" /\ hop.at = n
    BY <1>1, HopFacts DEF Resend, Hop
  <1>2. CASE ~(hop.pc = "stored" /\ hop.at = n)
    BY <1>2, HopFacts DEF Resend
  <1>3. QED
    BY <1>1, <1>2

\* The sessions that were opened are the same while their nodes are.
LEMMA OpenedRests == home' = home => Opened' = Opened
  BY DEF Opened

\* The client opens another session.
LEMMA ConnectAtKeeps ==
    ASSUME HopInv, NEW n \in Nodes, ConnectAt(n)
    PROVE  HopInv'
  <1>0. LastSession + 1 \in SessionIds
    BY LastSessionType, HopsOK DEF ConnectAt, SessionIds
  <1>2. PICK s \in SessionIds : s = LastSession + 1
    BY <1>0
  <1>1. /\ home' = [home EXCEPT ![s] = n]
        /\ pooled' = pooled \cup {s} /\ there' = TRUE
        /\ PutRow(n, [session |-> s, up |-> TRUE]) /\ Resend(n)
        /\ UNCHANGED <<halts, refusals>>
    BY <1>2 DEF ConnectAt
  <1>3. /\ home \in [SessionIds -> Nodes \cup {Nowhere}]
        /\ pooled \subseteq {t \in SessionIds : home[t] # Nowhere}
    BY DEF HopInv, HopTypeOK
  <1>4. /\ home' \in [SessionIds -> Nodes \cup {Nowhere}] /\ home'[s] = n
        /\ \A t \in SessionIds : t # s => home'[t] = home[t]
    BY <1>1, <1>2, <1>3
  <1>5. Opened \subseteq Opened' /\ s \in Opened'
    BY <1>2, <1>4, NowhereOK DEF Opened
  <1>6. pooled' \subseteq {t \in SessionIds : home'[t] # Nowhere}
    BY <1>1, <1>2, <1>3, <1>4, NowhereOK
  <1> DEFINE row == [session |-> s, up |-> TRUE]
  <1>7. row \in Row /\ Known(row)'
    BY <1>2, <1>5, HopsOK DEF Row, Known, SessionIds
  <1> HIDE DEF row
  <1>8. PutRow(n, row)
    BY <1>1 DEF row
  <1>9. /\ rowOf' \in [Nodes -> Row]
        /\ rowPuts' \subseteq [to : Nodes, row : Row]
        /\ \A m \in Nodes : Known(rowOf[m])'
        /\ \A p \in rowPuts' : Known(p.row)'
    BY <1>5, <1>7, <1>8, PutRowKnown
  <1>10. hop' \in Hop /\ (hop'.pc = "forward" => hop'.to \in Opened')
    BY <1>1, <1>5, ResendKnown
  <1>11. HopTypeOK'
    BY <1>1, <1>4, <1>6, <1>9, <1>10 DEF HopInv, HopTypeOK
  <1>12. RowsKnown'
    BY <1>9, <1>10 DEF RowsKnown
  <1>13. QED
    BY <1>11, <1>12 DEF HopInv

\* A step that opens no session, puts no unknown row and hands the chat on to
\* an opened session only.
LEMMA HopStepKeeps ==
    ASSUME HopInv, home' = home, pooled' \subseteq pooled, there' \in BOOLEAN,
           rowOf' \in [Nodes -> Row], \A n \in Nodes : Known(rowOf'[n]),
           rowPuts' \subseteq [to : Nodes, row : Row],
           \A p \in rowPuts' : Known(p.row),
           hop' \in Hop, hop'.pc = "forward" => hop'.to \in Opened,
           halts' \in 0 .. MaxHalts, refusals' \in 0 .. MaxRefusals
    PROVE  HopInv'
  <1>1. Opened' = Opened
    BY OpenedRests
  <1>2. HopTypeOK'
    BY DEF HopInv, HopTypeOK
  <1>3. RowsKnown'
    BY <1>1 DEF RowsKnown, Known
  <1>4. QED
    BY <1>2, <1>3 DEF HopInv

\* A step that puts a row of a session that was opened.
LEMMA PutRowKeeps ==
    ASSUME HopInv, NEW n \in Nodes, NEW s \in Opened, NEW row \in Row,
           PutRow(n, row), row.session = s,
           home' = home, pooled' \subseteq pooled, there' \in BOOLEAN,
           hop' \in Hop, hop'.pc = "forward" => hop'.to \in Opened,
           UNCHANGED <<halts, refusals>>
    PROVE  HopInv'
  <1>1. Opened' = Opened
    BY OpenedRests
  <1>2. Known(row)'
    BY <1>1 DEF Known
  <1>3. /\ rowOf' \in [Nodes -> Row]
        /\ rowPuts' \subseteq [to : Nodes, row : Row]
        /\ \A m \in Nodes : Known(rowOf[m])'
        /\ \A p \in rowPuts' : Known(p.row)'
    BY <1>1, <1>2, PutRowKnown
  <1>4. HopTypeOK'
    BY <1>3 DEF HopInv, HopTypeOK
  <1>5. RowsKnown'
    BY <1>1, <1>3 DEF RowsKnown
  <1>6. QED
    BY <1>4, <1>5 DEF HopInv

\* The row of an opened session.
LEMMA SessionRow ==
    ASSUME HopInv, NEW s \in Opened, NEW u \in BOOLEAN
    PROVE  [session |-> s, up |-> u] \in Row
  BY HopFacts DEF Row

\* Of a session that is in a pool the client may send CONNECT or anything else.
LEMMA SessionKeeps ==
    ASSUME HopInv, ConnectAgain \/ Updated
    PROVE  HopInv'
  <1>1. LastSession \in pooled /\ pooled \subseteq Opened
    BY DEF ConnectAgain, Updated, HopInv, HopTypeOK, Opened
  <1>2. PICK s \in Opened : s = LastSession
    BY <1>1
  <1>3. PICK n \in Nodes : n = home[s]
    BY HopFacts
  <1> DEFINE row == [session |-> s, up |-> TRUE]
  <1>4. row \in Row /\ row.session = s
    BY SessionRow
  <1> HIDE DEF row
  <1>5. /\ Resend(n) \/ UNCHANGED hop
        /\ UNCHANGED <<home, pooled, there, halts, refusals>>
    BY <1>2, <1>3 DEF ConnectAgain, Updated, row
  <1>6. PutRow(n, row)
    BY <1>2, <1>3 DEF ConnectAgain, Updated, row
  <1>7. Opened' = Opened
    BY <1>5, OpenedRests
  <1>8. hop' \in Hop /\ (hop'.pc = "forward" => hop'.to \in Opened)
    BY <1>5, <1>7, ResendKnown, HopFacts
  <1>9. there' \in BOOLEAN
    BY <1>5 DEF HopInv, HopTypeOK
  <1>10. QED
    BY <1>4, <1>5, <1>6, <1>8, <1>9, PutRowKeeps

\* The end of a session is noticed at its node.
LEMMA DisconnectedKeeps ==
    ASSUME HopInv, NEW s \in pooled, Disconnected(s)
    PROVE  HopInv'
  <1>1. s \in Opened
    BY DEF HopInv, HopTypeOK, Opened
  <1>2. PICK n \in Nodes : n = home[s]
    BY <1>1, HopFacts
  <1> DEFINE row == [session |-> s, up |-> FALSE]
  <1>3. row \in Row /\ row.session = s
    BY <1>1, SessionRow
  <1> HIDE DEF row
  <1>4. /\ PutRow(n, row) \/ UNCHANGED <<rowOf, rowPuts>>
        /\ pooled' \subseteq pooled
        /\ UNCHANGED <<home, there, hop, halts, refusals>>
    BY <1>2 DEF Disconnected, row
  <1>5. hop' \in Hop /\ (hop'.pc = "forward" => hop'.to \in Opened)
    BY <1>4, HopFacts
  <1>6. there' \in BOOLEAN
    BY <1>4 DEF HopInv, HopTypeOK
  <1>7. CASE PutRow(n, row)
    BY <1>1, <1>3, <1>4, <1>5, <1>6, <1>7, PutRowKeeps
  <1>8. CASE UNCHANGED <<rowOf, rowPuts>>
    BY <1>4, <1>5, <1>6, <1>8, HopStepKeeps DEF HopInv, HopTypeOK, RowsKnown
  <1>9. QED
    BY <1>4, <1>7, <1>8

\* A row on its way is known where it arrives, or is lost.
LEMMA RowComes ==
    ASSUME HopInv, NEW p \in rowPuts, RowArrives(p) \/ RowLost(p)
    PROVE  HopInv'
  <1>1. /\ rowPuts' = rowPuts \ {p}
        /\ UNCHANGED <<home, pooled, there, hop, halts, refusals>>
        /\ rowOf' = rowOf \/ rowOf' = [rowOf EXCEPT ![p.to] = p.row]
    BY DEF RowArrives, RowLost
  <1>2. /\ p.to \in Nodes /\ p.row \in Row /\ Known(p.row)
        /\ \A n \in Nodes : Known(rowOf[n])
        /\ \A q \in rowPuts : Known(q.row)
    BY HopFacts
  <1>3. rowOf \in [Nodes -> Row]
    BY DEF HopInv, HopTypeOK
  <1>4. /\ rowOf' \in [Nodes -> Row]
        /\ \A n \in Nodes : rowOf'[n] = rowOf[n] \/ rowOf'[n] = p.row
    BY <1>1, <1>2, <1>3
  <1>5. \A n \in Nodes : Known(rowOf'[n])
    BY <1>2, <1>4
  <1>6. hop' \in Hop /\ (hop'.pc = "forward" => hop'.to \in Opened)
    BY <1>1, HopFacts
  <1>7. QED
    BY <1>1, <1>2, <1>4, <1>5, <1>6, HopStepKeeps DEF HopInv, HopTypeOK

\* The client goes, or another one sends it a chat.
LEMMA ClientKeeps ==
    ASSUME HopInv, GoesAway \/ SubmitChat
    PROVE  HopInv'
  <1>1. /\ UNCHANGED <<home, pooled, rowOf, rowPuts, halts, refusals>>
        /\ there' \in BOOLEAN
        /\ hop' = hop \/ hop' = [hop EXCEPT !.pc = "lookup"]
    BY DEF GoesAway, SubmitChat, HopInv, HopTypeOK
  <1>2. hop' \in Hop /\ (hop'.pc = "forward" => hop'.to \in Opened)
    BY <1>1, HopFacts DEF Hop
  <1>3. QED
    BY <1>1, <1>2, HopStepKeeps DEF HopInv, HopTypeOK, RowsKnown

\* A node restarts, and its rows are put down.
LEMMA HaltKeeps ==
    ASSUME HopInv, NEW n \in Nodes, Halt(n)
    PROVE  HopInv'
  <1>1. /\ halts < MaxHalts /\ halts' = halts + 1
        /\ pooled' \subseteq pooled
        /\ rowOf' = [rowOf EXCEPT ![n].up = FALSE]
        /\ hop' = [hop EXCEPT !.pc = "lost"] \/ hop' = hop
        /\ UNCHANGED <<home, rowPuts, refusals>>
    BY DEF Halt
  <1>2. there' \in BOOLEAN
    BY DEF Halt, HopInv, HopTypeOK
  <1>3. hop' \in Hop /\ (hop'.pc = "forward" => hop'.to \in Opened)
    BY <1>1, HopFacts DEF Hop
  <1>4. rowOf \in [Nodes -> Row] /\ \A m \in Nodes : Known(rowOf[m])
    BY HopFacts DEF HopTypeOK
  <1>5. /\ rowOf' \in [Nodes -> Row]
        /\ \A m \in Nodes : rowOf'[m].session = rowOf[m].session
        /\ \A m \in Nodes : rowOf'[m].up => rowOf[m].up
    <2>1. [rowOf[n] EXCEPT !.up = FALSE] \in Row
      BY <1>4 DEF Row
    <2>2. rowOf' = [rowOf EXCEPT ![n] = [rowOf[n] EXCEPT !.up = FALSE]]
      BY <1>1, <1>4
    <2>3. QED
      BY <1>4, <2>1, <2>2 DEF Row
  <1>6. \A m \in Nodes : Known(rowOf'[m])
    BY <1>4, <1>5 DEF Known
  <1>7. halts' \in 0 .. MaxHalts
    BY <1>1, HopsOK DEF HopInv, HopTypeOK
  <1>8. QED
    BY <1>1, <1>2, <1>3, <1>5, <1>6, <1>7, HopStepKeeps
       DEF HopInv, HopTypeOK, RowsKnown

\* The row a node finds is its own or another's; one that is up is of a session
\* that was opened.
LEMMA FoundKnown ==
    ASSUME HopInv, NEW n \in Nodes, NEW row \in Found(n), row.up
    PROVE  row.session \in Opened /\ row.session \in 0 .. MaxSessions
  <1>1. \E m \in Nodes : row = rowOf[m]
    BY DEF Found
  <1>2. QED
    BY <1>1, HopFacts DEF Known

\* The chat is looked up, handed to a session or on to another node.
LEMMA HandOnKeeps ==
    ASSUME HopInv, HandOn
    PROVE  HopInv'
  <1>1. UNCHANGED <<home, pooled, there, rowOf, rowPuts, halts>>
    BY DEF HandOn, LookupRow, ForwardToSession, ForwardPeerEndpoint
  <1>2. refusals' \in 0 .. MaxRefusals
    <2>1. \/ refusals' = refusals
          \/ refusals < MaxRefusals /\ refusals' = refusals + 1
      BY DEF HandOn, LookupRow, ForwardToSession, ForwardPeerEndpoint,
             StreamFails
    <2>2. refusals \in 0 .. MaxRefusals
      BY DEF HopInv, HopTypeOK
    <2>3. QED
      BY <2>1, <2>2, HopsOK
  <1>3. ASSUME NEW pc \in {"stored", "delivered", "lost"}, Keep(pc)
        PROVE  hop' \in Hop /\ hop'.pc # "forward"
    BY <1>3, HopFacts DEF Keep, Hop
  <1>4. hop' \in Hop /\ (hop'.pc = "forward" => hop'.to \in Opened)
    <2>1. CASE LookupRow
      <3>1. ASSUME NEW row \in Found(hop.at), row.up,
                   hop' = [hop EXCEPT !.pc = "forward", !.to = row.session]
            PROVE  hop' \in Hop /\ hop'.to \in Opened
        <4>1. row.session \in Opened /\ row.session \in 0 .. MaxSessions
          BY <3>1, HopFacts, FoundKnown
        <4>2. QED
          BY <3>1, <4>1, HopFacts DEF Hop
      <3>2. QED
        BY <1>3, <2>1, <3>1 DEF LookupRow
    <2>2. CASE ForwardToSession
      BY <1>3, <2>2 DEF ForwardToSession
    <2>3. CASE ForwardPeerEndpoint
      <3>1. CASE StreamFails
        BY <1>3, <3>1 DEF StreamFails
      <3>2. CASE hop' = [hop EXCEPT !.pc = "lookup", !.at = home[hop.to]]
        <4>1. home[hop.to] \in Nodes
          BY <2>3, HopFacts DEF ForwardPeerEndpoint
        <4>2. QED
          BY <3>2, <4>1, HopFacts DEF Hop
      <3>3. QED
        BY <2>3, <3>1, <3>2 DEF ForwardPeerEndpoint
    <2>4. QED
      BY <2>1, <2>2, <2>3 DEF HandOn
  <1>5. QED
    BY <1>1, <1>2, <1>4, HopStepKeeps DEF HopInv, HopTypeOK, RowsKnown

\* Every step of the client and the nodes keeps the invariant.
LEMMA HopKeeps == HopInv /\ (HopStep \/ HandOn) => HopInv'
  BY ConnectAtKeeps, HaltKeeps, SessionKeeps, DisconnectedKeeps, RowComes,
     ClientKeeps, HandOnKeeps DEF HopStep

\* So do the steps that touch none of it.
LEMMA HopRests == HopInv /\ UNCHANGED hopVars => HopInv'
  <1> SUFFICES ASSUME HopInv, UNCHANGED hopVars PROVE HopInv'
    OBVIOUS
  <1>1. UNCHANGED <<home, pooled, there, rowOf, rowPuts, hop, halts, refusals>>
    BY DEF hopVars
  <1>2. QED
    BY <1>1 DEF HopInv, HopTypeOK, RowsKnown, Known, Opened

----------------------------------------------------------------------------
(* The keys messages are sealed with.                                      *)

\* The rows whose times are all known.
Timed == {r \in KeyRow : r.key # NoKey /\ r.updated # 0 /\ r.accessed # 0}

\* Among rows whose times are known, the row that is kept is one of the two,
\* neither of them is newer, and nothing that was not newer than the one chosen
\* is newer than it.
LEMMA LaterChosen ==
    ASSUME NEW row \in Timed, NEW chosen \in Timed
    PROVE  /\ Later(row, chosen) \in {row, chosen}
           /\ ~Newer(row, Later(row, chosen))
           /\ ~Newer(chosen, Later(row, chosen))
           /\ \A r \in Timed :
                 ~Newer(r, chosen) => ~Newer(r, Later(row, chosen))
  BY DEF Timed, KeyRow, Later, Newer

\* The keys of one, two and three rows, the choices in their order.
LEMMA KeyOfRows ==
    ASSUME NEW rows, NEW n \in 1 .. 3, Len(rows) = n
    PROVE  /\ n = 1 => LatestKey(rows) = rows[1].key
           /\ n = 2 => LatestKey(rows) = Later(rows[2], rows[1]).key
           /\ n = 3 => LatestKey(rows) =
                          Later(rows[3], Later(rows[2], rows[1])).key
  <1> DEFINE first == [key |-> NoKey, updated |-> 0, accessed |-> 0]
             Step(f) == [i \in 0 .. n |-> IF i = 0 THEN first
                                          ELSE Later(rows[i], f[i - 1])]
             chosen == CHOOSE f : f = Step(f)
             one == rows[1]
             two == Later(rows[2], one)
             three == Later(rows[3], two)
             all == [i \in 0 .. n |-> IF i = 0 THEN first ELSE IF i = 1 THEN one
                                    ELSE IF i = 2 THEN two ELSE three]
  <1>1. LatestKey(rows) = chosen[n].key
    BY DEF LatestKey
  <1>2. Later(rows[1], first) = one
    BY DEF Later
  <1> HIDE DEF first, one, two, three
  <1>3. all = Step(all)
    <2>1. ASSUME NEW i \in 0 .. n
          PROVE  all[i] = IF i = 0 THEN first ELSE Later(rows[i], all[i - 1])
      BY <1>2 DEF one, two, three
    <2> HIDE DEF all
    <2>2. Step(all) = [i \in 0 .. n |-> all[i]]
      BY <2>1
    <2>3. all = [i \in 0 .. n |-> all[i]]
      BY DEF all
    <2>4. QED
      BY <2>2, <2>3
  <1> HIDE DEF all
  <1>4. chosen = Step(chosen)
    BY <1>3
  <1> HIDE DEF chosen
  <1>5. \A i \in 0 .. n : chosen[i] = IF i = 0 THEN first
                                      ELSE Later(rows[i], chosen[i - 1])
    BY <1>4
  <1>6. /\ chosen[1] = one
        /\ n >= 2 => chosen[2] = two
        /\ n >= 3 => chosen[3] = three
    BY <1>2, <1>5 DEF two, three, one
  <1>7. QED
    BY <1>1, <1>6 DEF one, two, three

\* With all times known the key of the newest row is chosen, whatever the order
\* the rows were found in.
LEMMA NewestIsChosen == NewestChosen
  <1> SUFFICES ASSUME NEW rows \in SeqOf(Timed, 3), rows # <<>>
               PROVE  \E i \in DOMAIN rows :
                         /\ rows[i].key = LatestKey(rows)
                         /\ \A j \in DOMAIN rows : ~Newer(rows[j], rows[i])
    BY DEF NewestChosen, Timed
  <1>1. PICK n \in 0 .. 3 : rows \in [1 .. n -> Timed]
    BY DEF SeqOf
  <1>2. rows \in Seq(Timed) /\ Len(rows) = n /\ DOMAIN rows = 1 .. n
    BY <1>1
  <1>3. n \in 1 .. 3
    BY <1>2
  <1>4. \A i \in 1 .. n : rows[i] \in Timed
    BY <1>1
  <1>5. ASSUME NEW r \in Timed PROVE ~Newer(r, r)
    BY <1>5 DEF Timed, KeyRow, Newer
  <1>6. CASE n = 1
    <2>1. rows[1].key = LatestKey(rows)
      BY <1>2, <1>3, <1>6, KeyOfRows
    <2>2. QED
      BY <1>2, <1>4, <1>5, <1>6, <2>1
  <1> DEFINE two == Later(rows[2], rows[1])
  <1>7. n >= 2 => /\ two \in {rows[1], rows[2]} /\ two \in Timed
                  /\ ~Newer(rows[1], two) /\ ~Newer(rows[2], two)
    BY <1>4, LaterChosen
  <1>8. CASE n = 2
    <2>1. two.key = LatestKey(rows)
      BY <1>2, <1>3, <1>8, KeyOfRows
    <2> HIDE DEF two
    <2>2. QED
      BY <1>2, <1>7, <1>8, <2>1
  <1> DEFINE three == Later(rows[3], two)
  <1>9. CASE n = 3
    <2>1. three.key = LatestKey(rows)
      BY <1>2, <1>3, <1>9, KeyOfRows
    <2> HIDE DEF two
    <2>2. /\ three \in {two, rows[3]} /\ ~Newer(rows[3], three)
          /\ \A r \in Timed : ~Newer(r, two) => ~Newer(r, three)
      BY <1>4, <1>7, <1>9, LaterChosen
    <2> HIDE DEF three
    <2>3. three \in {rows[1], rows[2], rows[3]}
      BY <1>7, <1>9, <2>2
    <2>4. ~Newer(rows[1], three) /\ ~Newer(rows[2], three)
      BY <1>4, <1>7, <1>9, <2>2
    <2>5. QED
      BY <1>2, <1>9, <2>1, <2>2, <2>3, <2>4
  <1>10. QED
    BY <1>3, <1>6, <1>8, <1>9

----------------------------------------------------------------------------
(* The node.                                                               *)

\* A process starts with no signal handler, no connection and no pair.
LEMMA PoolStarts == PoolInit => SignalInv
  <1> SUFFICES ASSUME PoolInit PROVE SignalInv
    OBVIOUS
  <1>1. /\ up = TRUE /\ ice \in BOOLEAN
        /\ maps = {} /\ pool = NoPool /\ conns = <<>>
        /\ made = 0 /\ handlers = [s \in Slots |-> Idle]
        /\ signals = 0 /\ restarts = 0
        /\ asked = {} /\ replaced = {} /\ dropped = {} /\ closing = {}
    BY DEF PoolInit
  <1>2. PoolTypeOK
    <2>1. handlers \in [Slots -> Handler]
      BY <1>1, IdleHandler
    <2>2. 0 \in 0 .. MaxSignals /\ 0 \in 0 .. MaxRestarts
      BY SignalsOK
    <2>3. <<>> \in [1 .. 0 -> Conn]
      OBVIOUS
    <2>4. QED
      BY <1>1, <2>1, <2>2, <2>3 DEF PoolTypeOK, NoPool
  <1>3. \A s \in Slots : handlers[s] = Idle
    BY <1>1
  <1>4. MakingInv
    <2>1. Making = {}
      BY <1>3, IdleHandler DEF Making, May
    <2>2. Cardinality(Making) = 0
      BY <2>1, FS_EmptySet
    <2>3. QED
      BY <1>1, <2>2 DEF MakingInv
  <1>5. EntriesInv
    BY <1>1 DEF EntriesInv, NoPool
  <1>6. WorkInv
    BY <1>3, IdleHandler DEF WorkInv, Works, Closing
  <1>7. LostInv /\ AskedInv
    BY <1>1 DEF LostInv, AskedInv
  <1>8. QED
    BY <1>2, <1>4, <1>5, <1>6, <1>7 DEF SignalInv

\* No chat has been received.
LEMMA ChatsStart == ChatInit => ChatInv
  <1> SUFFICES ASSUME ChatInit PROVE ChatInv
    OBVIOUS
  <1>1. \A c \in Chats : /\ chats[c].pc = "new" /\ chats[c].got = 0
                         /\ chats[c] \in Chat /\ notified[c] = 0
    BY DEF ChatInit, Chat, Vendors
  <1>2. ChatTypeOK
    <2>1. chats \in [Chats -> Chat]
      BY DEF ChatInit, Chat, Vendors
    <2>2. QED
      BY <1>1, <2>1, VendorOK DEF ChatInit, ChatTypeOK
  <1>3. PushInv /\ OpenedInv
    BY <1>1 DEF PushInv, Pushed, OpenedInv, At, Running, Asked
  <1>4. QED
    BY <1>2, <1>3 DEF ChatInv

\* No request has come, and the server has no room.
LEMMA RoomsStart == RoomInit => RoomInv
  <1> SUFFICES ASSUME RoomInit PROVE RoomInv
    OBVIOUS
  <1> DEFINE a == [pc |-> "new", type |-> "other", room |-> NoName,
                   people |-> 0, names |-> 0, told |-> {}, tokens |-> 0,
                   status |-> "ok"]
  <1>1. /\ a \in Ask /\ a.pc = "new" /\ a.told = {} /\ a.tokens = 0
    BY DEF Ask, Manage
  <1>2. asks = [r \in Asks |-> a]
    BY DEF RoomInit
  <1> HIDE DEF a
  <1>3. asks \in [Asks -> Ask] /\ \A r \in Asks : asks[r] = a
    BY <1>1, <1>2
  <1>4. RoomTypeOK
    <2>1. /\ rooms = {} /\ keys \in BOOLEAN /\ failures = 0
          /\ had = [r \in Asks |-> {}] /\ lacked = [r \in Asks |-> {}]
      BY DEF RoomInit
    <2>2. [r \in Asks |-> {}] \in [Asks -> SUBSET RoomNames]
      OBVIOUS
    <2>3. QED
      BY <1>3, <2>1, <2>2, FailuresOK DEF RoomTypeOK
  <1>5. AskInv
    BY <1>1, <1>3 DEF AskInv
  <1>6. QED
    BY <1>4, <1>5 DEF RoomInv

\* The client has no session, and the nodes have no row of it.
LEMMA HopsStart == HopInit => HopInv
  <1> SUFFICES ASSUME HopInit PROVE HopInv
    OBVIOUS
  <1>1. hop \in Hop /\ hop.pc = "new"
    BY HopsOK DEF HopInit, Hop
  <1>2. \A n \in Nodes : rowOf[n].session = 0 /\ ~rowOf[n].up
    BY DEF HopInit
  <1>3. rowOf \in [Nodes -> Row]
    BY HopsOK DEF HopInit, Row
  <1>4. HopTypeOK
    <2>1. /\ home = [s \in SessionIds |-> Nowhere] /\ pooled = {}
          /\ there = FALSE /\ rowPuts = {} /\ halts = 0 /\ refusals = 0
      BY DEF HopInit
    <2>2. home \in [SessionIds -> Nodes \cup {Nowhere}]
      BY <2>1
    <2>3. 0 \in 0 .. MaxHalts /\ 0 \in 0 .. MaxRefusals
      BY HopsOK
    <2>4. QED
      BY <1>1, <1>3, <2>1, <2>2, <2>3 DEF HopTypeOK
  <1>5. RowsKnown
    BY <1>1, <1>2 DEF HopInit, RowsKnown, Known
  <1>6. QED
    BY <1>4, <1>5 DEF HopInv

\* A node starts in the invariant.
LEMMA NodeStarts == Init => NodeInv
  BY PoolStarts, ChatsStart, RoomsStart, HopsStart DEF Init, NodeInv

\* A step of the pool either leaves the other handlers alone or, where it stops
\* the process, ends them.
LEMMA PoolKeeps ==
    ASSUME NodeInv, UNCHANGED <<load, hopVars>>, SignalInv',
           (UNCHANGED <<chatVars, roomVars>>) \/ (StopChats /\ StopManage)
    PROVE  NodeInv'
  <1>1. load' \in Loads /\ HopInv'
    BY HopRests DEF NodeInv, Loads
  <1>2. ChatInv' /\ RoomInv'
    BY ChatRests, RoomRests, StopChatsKeeps, StopManageKeeps DEF NodeInv
  <1>3. QED
    BY <1>1, <1>2 DEF NodeInv

\* Every step of the node keeps its invariant.
LEMMA NodeKeeps == NodeInv /\ [Next]_vars => NodeInv'
  <1> SUFFICES ASSUME NodeInv, [Next]_vars PROVE NodeInv'
    OBVIOUS
  <1>1. load \in Loads /\ SignalInv /\ ChatInv /\ RoomInv /\ HopInv
    BY DEF NodeInv
  <1>2. CASE SignalArrives
    <2>1. PICK s \in Slots : Receive(s)
      BY <1>2 DEF SignalArrives, Pool
    <2>2. SignalInv'
      BY <1>1, <2>1, ReceiveKeeps
    <2>3. QED
      BY <1>2, <2>2, PoolKeeps DEF SignalArrives, Pool
  <1>3. ASSUME NEW s \in Slots, HandleSignal(s) PROVE NodeInv'
    <2>1. SignalInv'
      BY <1>1, <1>3, SignalStep DEF HandleSignal, Pool
    <2>2. QED
      BY <1>3, <2>1, PoolKeeps DEF HandleSignal, Pool
  <1>4. CASE MapsRace
    <2>1. SignalInv'
      BY <1>1, <1>4, StopKeeps DEF MapsRace, Pool, RaceStop
    <2>2. QED
      BY <1>4, <2>1, PoolKeeps DEF MapsRace, Pool
  <1>5. CASE ProcessRestarts
    <2>1. SignalInv'
      BY <1>1, <1>5, SignalRests DEF ProcessRestarts
    <2>2. QED
      BY <1>5, <2>1, PoolKeeps DEF ProcessRestarts
  <1>6. CASE ChatArrives
    <2>1. ChatInv'
      BY <1>1, <1>6, ChatKeeps DEF ChatArrives, Chatting
    <2>2. UNCHANGED <<up, load, pairVars, roomVars, hopVars>>
      BY <1>6 DEF ChatArrives, Chatting
    <2>3. QED
      BY <1>1, <2>1, <2>2, SignalRests, RoomRests, HopRests DEF NodeInv, Loads
  <1>7. ASSUME NEW c \in Chats, HandleChat(c) PROVE NodeInv'
    <2>1. ChatInv'
      BY <1>1, <1>7, ChatKeeps DEF HandleChat, Chatting
    <2>2. UNCHANGED <<up, load, pairVars, roomVars, hopVars>>
      BY <1>7 DEF HandleChat, Chatting
    <2>3. QED
      BY <1>1, <2>1, <2>2, SignalRests, RoomRests, HopRests DEF NodeInv, Loads
  <1>8. CASE TokensExpire
    <2>1. ChatInv'
      BY <1>1, <1>8, ExpireKeeps DEF TokensExpire, Chatting
    <2>2. UNCHANGED <<up, load, pairVars, roomVars, hopVars>>
      BY <1>8 DEF TokensExpire, Chatting
    <2>3. QED
      BY <1>1, <2>1, <2>2, SignalRests, RoomRests, HopRests DEF NodeInv, Loads
  <1>9. CASE ManageArrives
    <2>1. RoomInv'
      BY <1>1, <1>9, ReceiveManageKeeps DEF ManageArrives, Managing
    <2>2. UNCHANGED <<up, load, pairVars, chatVars, hopVars>>
      BY <1>9 DEF ManageArrives, Managing
    <2>3. QED
      BY <1>1, <2>1, <2>2, SignalRests, ChatRests, HopRests DEF NodeInv, Loads
  <1>10. ASSUME NEW r \in Asks, HandleManage(r) PROVE NodeInv'
    <2>1. CASE Managing(ManageStep(r))
      <3>1. RoomInv'
        BY <1>1, <2>1, ManageKeeps DEF Managing
      <3>2. UNCHANGED <<up, load, pairVars, chatVars, hopVars>>
        BY <2>1 DEF Managing
      <3>3. QED
        BY <1>1, <3>1, <3>2, SignalRests, ChatRests, HopRests
           DEF NodeInv, Loads
    <2>2. CASE Pool(Stop)
      <3>1. SignalInv'
        BY <1>1, <2>2, StopKeeps DEF Pool
      <3>2. QED
        BY <2>2, <3>1, PoolKeeps DEF Pool
    <2>3. QED
      BY <1>10, <2>1, <2>2 DEF HandleManage
  <1>11. CASE HopsGoOn \/ HandleHop
    <2>1. HopInv'
      BY <1>1, <1>11, HopKeeps DEF HopsGoOn, HandleHop
    <2>2. UNCHANGED <<up, load, pairVars, chatVars, roomVars>>
      BY <1>11 DEF HopsGoOn, HandleHop
    <2>3. QED
      BY <1>1, <2>1, <2>2, SignalRests, ChatRests, RoomRests DEF NodeInv, Loads
  <1>12. CASE UNCHANGED vars
    BY <1>1, <1>12, SignalRests, ChatRests, RoomRests, HopRests
       DEF vars, NodeInv, Loads
  <1>13. QED
    BY <1>2, <1>3, <1>4, <1>5, <1>6, <1>7, <1>8, <1>9, <1>10, <1>11, <1>12
       DEF Next

\* Whatever the order of the handlers' steps: the signal handlers work on
\* connections of their pair, a push has come as far as its handler, a request
\* has been told the truth, and a chat is handed on to a session there was.
THEOREM NodeInvariant == Spec => []NodeInv
  <1>1. Init => NodeInv
    BY NodeStarts
  <1>2. NodeInv /\ [Next]_vars => NodeInv'
    BY NodeKeeps
  <1>3. QED
    BY <1>1, <1>2, PTL DEF Spec

\* The variables of a node have their types.
THEOREM NodeTypes == Spec => []TypeOK
  <1>1. NodeInv => TypeOK
    BY DEF NodeInv, TypeOK, SignalInv, ChatInv, RoomInv, HopInv
  <1>2. QED
    BY <1>1, NodeInvariant, PTL

\* A connection that is open is in the pool, unless another was put over it,
\* two handlers had the map of its peer at once, or a Close found it, one made
\* before it or one of the peer without a client not to be open
\* (peer_connection_pool.go:82-98, 123-150).
THEOREM OpenIsReachable == Spec => []Reachable
  <1>1. NodeInv => Reachable
    BY DEF NodeInv, SignalInv, LostInv, Reachable
  <1>2. QED
    BY <1>1, NodeInvariant, PTL

\* Once its handlers are done, a process that can open connections has an open
\* one for every pair a candidate came from, or a Close or a race for the map
\* of its peer took it out.
THEOREM CandidatesKept == Spec => []CandidateKept
  <1>1. NodeInv => CandidateKept
    <2> SUFFICES ASSUME NodeInv, up, ice, Quiet, NEW p \in asked
                 PROVE  \/ \E i \in 1 .. made : pool[p] = i /\ conns[i].open
                        \/ TakenOut(p)
      BY DEF CandidateKept
    <2>1. PoolTypeOK /\ EntriesInv /\ AskedInv
      BY DEF NodeInv, SignalInv
    <2>2. p \in Pairs /\ pool[p] \in (1 .. made) \cup {NoConn}
      BY <2>1 DEF PoolTypeOK
    <2>3. \A s \in Slots : ~May(handlers[s]) /\ handlers[s].pc # "init"
      BY DEF Quiet, May
    <2>4. CASE pool[p] # NoConn
      <3>1. Opening(pool[p])
        BY <2>1, <2>2, <2>4 DEF EntriesInv
      <3>2. conns[pool[p]].open
        BY <2>3, <3>1 DEF Opening
      <3>3. QED
        BY <2>2, <2>4, <3>2
    <2>5. CASE TakenOut(p)
      BY <2>5
    <2>6. QED
      BY <2>1, <2>3, <2>4, <2>5 DEF AskedInv
  <1>2. QED
    BY <1>1, NodeInvariant, PTL

\* A chat's notification is sent once, unless the vendor failed or a token
\* expired on the way, and never more than twice.
THEOREM PushedOnce == Spec => []NotifiedOnce
  <1>1. NodeInv => NotifiedOnce
    <2> SUFFICES ASSUME NodeInv, NEW c \in Chats
                 PROVE  /\ Asked(c) /\ c \notin disturbed => notified[c] = 1
                        /\ notified[c] > 1 => /\ c \in disturbed
                                             /\ notified[c] = 2
      BY DEF NotifiedOnce
    <2>1. Pushed(c) /\ notified[c] \in 0 .. 2
      BY DEF NodeInv, ChatInv, PushInv, ChatTypeOK
    <2>2. QED
      BY <2>1 DEF Pushed
  <1>2. QED
    BY <1>1, NodeInvariant, PTL

\* An answer about rooms is true of the server at some time since it was asked.
THEOREM RoomsAreTold == Spec => []RoomsTold
  <1>1. NodeInv => RoomsTold
    BY DEF NodeInv, RoomInv, AskInv, RoomsTold
  <1>2. QED
    BY <1>1, NodeInvariant, PTL

\* What a node seals for another has been opened before the consensus and the
\* push get it, and the key it is sealed with is the newest.
THEOREM SealedIsOpened == Spec => []SealedOpens
  <1>1. NodeInv => SealedOpens
    BY NewestIsChosen DEF NodeInv, ChatInv, OpenedInv, SealedOpens
  <1>2. QED
    BY <1>1, NodeInvariant, PTL

----------------------------------------------------------------------------
(* The rooms of the forwarding unit.                                       *)

\* A connection whose join reported no error is a member until it leaves.
ServedAreMembers == \A u \in Sfus : served[u] \subseteq members[u]

\* Two rooms have different Sfus, all created; one still to be is empty.
RoomsApart ==
    /\ \A r \in Rooms : sfus[r] # NoSfu => sfus[r] \in 1 .. created
    /\ \A r, s \in Rooms : sfus[r] # NoSfu /\ sfus[r] = sfus[s] => r = s
    /\ \A u \in Sfus : u > created => members[u] = {}

\* The inductive invariant.
SfuInv == SfuTypeOK /\ TablesAgree /\ ServedAreMembers /\ EveryoneServed
            /\ RoomsApart /\ RoomsInhabited

----------------------------------------------------------------------------
(* Types.                                                                  *)

\* The lists after a join are sets of connections (sfu.go:188-196, 283-293).
LEMMA ListsType ==
    ASSUME SfuTypeOK, NEW c \in Conns, NEW u \in Sfus, NEW reached
    PROVE  Lists(c, u, reached) \in [Conns -> SUBSET Conns]
BY DEF SfuTypeOK, Lists

\* The tables keep their types when a connection enters (sfu.go:54-72).
LEMMA EnterType ==
    ASSUME SfuTypeOK, NEW c \in Conns, NEW u \in Sfus, NEW reached,
           Enter(c, u, reached)
    PROVE  /\ members' \in [Sfus -> SUBSET Conns]
           /\ publishers' \in [Sfus -> SUBSET Conns]
           /\ listed' \in [Sfus -> [Conns -> SUBSET Conns]]
           /\ subscribers' \in [Sfus -> SUBSET Conns]
<1>1. Lists(c, u, reached) \in [Conns -> SUBSET Conns]
  BY ListsType
<1>2. listed' = [listed EXCEPT ![u] = Lists(c, u, reached)]
  BY DEF Enter, subscribe
<1>3. listed' \in [Sfus -> [Conns -> SUBSET Conns]]
  BY <1>1, <1>2 DEF SfuTypeOK
<1>4. /\ members' \in [Sfus -> SUBSET Conns]
      /\ publishers' \in [Sfus -> SUBSET Conns]
      /\ subscribers' \in [Sfus -> SUBSET Conns]
  BY DEF SfuTypeOK, Enter, publish, subscribe
<1> QED BY <1>3, <1>4

\* The pool keeps its type when a room is found or created (sfu.go:358-364).
LEMMA SfuFoundType ==
    ASSUME SfuTypeOK, NEW r \in Rooms, NEW u \in Sfus, SfuFound(r, u)
    PROVE  sfus' \in [Rooms -> Sfus \cup {NoSfu}] /\ created' \in 0 .. MaxSfus
BY RoomConstantsOK DEF SfuTypeOK, SfuFound, Sfus

\* The tables keep their types when a connection leaves (sfu.go:154-173).
LEMMA LeaveType ==
    ASSUME SfuTypeOK, NEW c \in Conns, NEW u \in Sfus, leave(c, u)
    PROVE  /\ members' \in [Sfus -> SUBSET Conns]
           /\ publishers' \in [Sfus -> SUBSET Conns]
           /\ listed' \in [Sfus -> [Conns -> SUBSET Conns]]
           /\ subscribers' \in [Sfus -> SUBSET Conns]
           /\ served' \in [Sfus -> SUBSET Conns]
BY DEF SfuTypeOK, leave

\* Every step keeps the types: a failure needs one left of the bound.
LEMMA TypeStep ==
    ASSUME SfuTypeOK, [SfuNext]_sfuVars
    PROVE  SfuTypeOK'
<1>1. ASSUME NEW c \in Conns, Join(c) PROVE SfuTypeOK'
  <2>1. room[c] \in Rooms BY DEF SfuTypeOK
  <2>2. PICK u \in Sfus : /\ SfuFound(room[c], u)
                          /\ Enter(c, u, Others(c, u))
                          /\ served' = [served EXCEPT ![u] = @ \cup {c}]
    BY <1>1 DEF Join
  <2>3. served' \in [Sfus -> SUBSET Conns] BY <2>2 DEF SfuTypeOK
  <2>4. sfus' \in [Rooms -> Sfus \cup {NoSfu}] /\ created' \in 0 .. MaxSfus
    BY <2>1, <2>2, SfuFoundType
  <2>5. /\ members' \in [Sfus -> SUBSET Conns]
        /\ publishers' \in [Sfus -> SUBSET Conns]
        /\ listed' \in [Sfus -> [Conns -> SUBSET Conns]]
        /\ subscribers' \in [Sfus -> SUBSET Conns]
    BY <2>2, EnterType
  <2> QED BY <1>1, <2>3, <2>4, <2>5 DEF Join, SfuTypeOK, setting
<1>2. ASSUME NEW c \in Conns, JoinFails(c) PROVE SfuTypeOK'
  <2>1. room[c] \in Rooms BY DEF SfuTypeOK
  <2>2. PICK u \in Sfus : \E reached \in SUBSET Others(c, u) :
                             SfuFound(room[c], u) /\ Enter(c, u, reached)
    BY <1>2 DEF JoinFails
  <2>3. PICK reached \in SUBSET Others(c, u) :
             SfuFound(room[c], u) /\ Enter(c, u, reached)
    BY <2>2
  <2>4. sfus' \in [Rooms -> Sfus \cup {NoSfu}] /\ created' \in 0 .. MaxSfus
    BY <2>1, <2>3, SfuFoundType
  <2>5. /\ members' \in [Sfus -> SUBSET Conns]
        /\ publishers' \in [Sfus -> SUBSET Conns]
        /\ listed' \in [Sfus -> [Conns -> SUBSET Conns]]
        /\ subscribers' \in [Sfus -> SUBSET Conns]
    BY <2>3, EnterType
  <2>6. fails' \in 0 .. MaxFails
    BY <1>2, RoomConstantsOK DEF JoinFails, SfuTypeOK
  <2> QED BY <1>2, <2>4, <2>5, <2>6 DEF JoinFails, SfuTypeOK, setting
<1>3. ASSUME NEW c \in Conns, Leave(c) PROVE SfuTypeOK'
  <2> DEFINE u == sfus[room[c]]
  <2>1. room[c] \in Rooms /\ u \in Sfus BY <1>3 DEF SfuTypeOK, Leave
  <2>2. leave(c, u) BY <1>3 DEF Leave
  <2>3. sfus' \in [Rooms -> Sfus \cup {NoSfu}]
    BY <1>3, <2>1 DEF Leave, SfuTypeOK
  <2>4. /\ members' \in [Sfus -> SUBSET Conns]
        /\ publishers' \in [Sfus -> SUBSET Conns]
        /\ listed' \in [Sfus -> [Conns -> SUBSET Conns]]
        /\ subscribers' \in [Sfus -> SUBSET Conns]
        /\ served' \in [Sfus -> SUBSET Conns]
    BY <2>1, <2>2, LeaveType
  <2> QED BY <1>3, <2>3, <2>4 DEF Leave, SfuTypeOK, setting
<1>4. ASSUME NEW r \in Rooms, Destroy(r) PROVE SfuTypeOK'
  BY <1>4 DEF Destroy, SfuTypeOK, setting
<1>5. ASSUME NEW c \in Conns,
             JoinPanics(c) \/ TrackArrives(c) \/ TrackPanics(c)
      PROVE  SfuTypeOK'
  BY <1>5 DEF JoinPanics, TrackArrives, TrackPanics, SfuTypeOK, tables, setting
<1>6. ASSUME NEW c \in Conns, TrackFails(c) PROVE SfuTypeOK'
  BY <1>6, RoomConstantsOK DEF TrackFails, SfuTypeOK, tables, setting
<1>7. CASE UNCHANGED sfuVars
  BY <1>7 DEF sfuVars, SfuTypeOK
<1> QED BY <1>1, <1>2, <1>3, <1>4, <1>5, <1>6, <1>7 DEF SfuNext

----------------------------------------------------------------------------
(* The tables.                                                             *)

\* A connection that enters, however far subscribe gets, leaves the tables
\* of its Sfu in agreement: a list is touched only if it subscribes, and it
\* is not its own (sfu.go:54-72).
LEMMA EnterTables ==
    ASSUME SfuTypeOK, TablesAgree, NEW c \in Conns, NEW u \in Sfus,
           NEW reached \in SUBSET Others(c, u), Enter(c, u, reached)
    PROVE  TablesAgree'
<1>1. listed' = [listed EXCEPT ![u] = Lists(c, u, reached)]
  BY DEF Enter, subscribe
<1>2. ASSUME NEW v \in Sfus, v # u
      PROVE  /\ publishers'[v] = publishers[v] /\ members'[v] = members[v]
             /\ subscribers'[v] = subscribers[v] /\ listed'[v] = listed[v]
  BY <1>1, <1>2 DEF SfuTypeOK, Enter, publish, subscribe
<1>3. /\ members'[u] = members[u] \cup {c}
      /\ publishers'[u] = publishers[u] \cup (IF Publishes(c) THEN {c} ELSE {})
      /\ subscribers'[u]
            = subscribers[u] \cup (IF Subscribes(c) THEN {c} ELSE {})
      /\ \A p \in Conns : listed'[u][p] = Lists(c, u, reached)[p]
  BY <1>1 DEF SfuTypeOK, Enter, publish, subscribe
<1>4. /\ publishers'[u] \subseteq members'[u]
      /\ subscribers'[u] \subseteq members'[u]
  BY <1>3 DEF TablesAgree
<1>5. ASSUME NEW p \in Conns
      PROVE  /\ listed'[u][p] \subseteq subscribers'[u] \ {p}
             /\ p \notin publishers'[u] => listed'[u][p] = {}
  <2>1. CASE p = c /\ Publishes(c)
    BY <1>3, <2>1 DEF Lists
  <2>2. CASE ~(p = c /\ Publishes(c)) /\ p \in reached
    <3>1. listed'[u][p] = listed[u][p] \cup {c} BY <1>3, <2>2 DEF Lists
    <3>2. p # c /\ p \in publishers[u] /\ Subscribes(c)
      BY <2>2 DEF Others
    <3> QED BY <1>3, <3>1, <3>2 DEF TablesAgree
  <2>3. CASE ~(p = c /\ Publishes(c)) /\ p \notin reached
    <3>1. listed'[u][p] = listed[u][p] BY <1>3, <2>3 DEF Lists
    <3> QED BY <1>3, <2>3, <3>1 DEF TablesAgree
  <2> QED BY <2>1, <2>2, <2>3
<1>6. ASSUME NEW v \in Sfus
      PROVE  /\ publishers'[v] \subseteq members'[v]
             /\ subscribers'[v] \subseteq members'[v]
             /\ \A p \in Conns :
                  /\ listed'[v][p] \subseteq subscribers'[v] \ {p}
                  /\ p \notin publishers'[v] => listed'[v][p] = {}
  <2>1. CASE v = u BY <2>1, <1>4, <1>5
  <2>2. CASE v # u BY <2>2, <1>2 DEF TablesAgree
  <2> QED BY <2>1, <2>2
<1> QED BY <1>6 DEF TablesAgree

\* Entering serves whoever was served, and the entering connection itself
\* when subscribe got through all publishers (sfu.go:188-196, 283-293).
LEMMA EnterServes ==
    ASSUME SfuTypeOK, TablesAgree, ServedAreMembers, EveryoneServed,
           NEW c \in Conns, NEW u \in Sfus,
           NEW reached \in SUBSET Others(c, u), Enter(c, u, reached),
           \/ served' = served
           \/ /\ reached = Others(c, u)
              /\ served' = [served EXCEPT ![u] = @ \cup {c}]
    PROVE  EveryoneServed' /\ ServedAreMembers'
<1>1. listed' = [listed EXCEPT ![u] = Lists(c, u, reached)]
  BY DEF Enter, subscribe
<1>2. ASSUME NEW v \in Sfus, v # u
      PROVE  /\ publishers'[v] = publishers[v] /\ members'[v] = members[v]
             /\ subscribers'[v] = subscribers[v] /\ listed'[v] = listed[v]
             /\ served'[v] = served[v]
  BY <1>1, <1>2 DEF SfuTypeOK, Enter, publish, subscribe
<1>3. /\ members'[u] = members[u] \cup {c}
      /\ publishers'[u] = publishers[u] \cup (IF Publishes(c) THEN {c} ELSE {})
      /\ subscribers'[u]
            = subscribers[u] \cup (IF Subscribes(c) THEN {c} ELSE {})
      /\ \A p \in Conns : listed'[u][p] = Lists(c, u, reached)[p]
      /\ c \notin members[u]
  BY <1>1 DEF SfuTypeOK, Enter, publish, subscribe
<1>4. /\ served'[u] \subseteq served[u] \cup {c}
      /\ c \in served'[u] => reached = Others(c, u)
  BY <1>3 DEF SfuTypeOK, ServedAreMembers
<1>5. ServedAreMembers'
  <2> SUFFICES ASSUME NEW v \in Sfus PROVE served'[v] \subseteq members'[v]
    BY DEF ServedAreMembers
  <2> QED BY <1>2, <1>3, <1>4 DEF ServedAreMembers
<1>6. ASSUME NEW s \in served'[u] \cap subscribers'[u],
             NEW p \in publishers'[u] \ {s}
      PROVE  s \in listed'[u][p]
  <2>1. p \in Conns
    BY <1>3 DEF SfuTypeOK
  <2>2. CASE s = c
    <3>1. c \notin subscribers[u] /\ Subscribes(c)
      BY <1>3, <2>2 DEF TablesAgree
    <3>2. p # c /\ p \in publishers[u]
      BY <1>3, <2>2
    <3>3. p \in reached BY <1>4, <2>2, <3>1, <3>2 DEF Others
    <3> QED BY <1>3, <2>1, <2>2, <3>2, <3>3 DEF Lists
  <2>3. CASE s # c
    <3>1. s \in served[u] /\ s \in subscribers[u] BY <1>3, <1>4, <2>3
    <3>2. CASE p = c
      <4>1. Publishes(c) BY <1>3, <3>2 DEF TablesAgree
      <4> QED BY <1>3, <2>1, <2>3, <3>1, <3>2, <4>1 DEF Lists
    <3>3. CASE p # c
      <4>1. p \in publishers[u] \ {s} BY <1>3, <3>3
      <4>2. s \in listed[u][p] BY <3>1, <4>1 DEF EveryoneServed
      <4> QED BY <1>3, <2>1, <3>3, <4>2 DEF Lists
    <3> QED BY <3>2, <3>3
  <2> QED BY <2>2, <2>3
<1>7. EveryoneServed'
  <2> SUFFICES ASSUME NEW v \in Sfus,
                      NEW s \in served'[v] \cap subscribers'[v],
                      NEW p \in publishers'[v] \ {s}
               PROVE  s \in listed'[v][p]
    BY DEF EveryoneServed
  <2>1. CASE v = u BY <1>6, <2>1
  <2>2. CASE v # u BY <1>2, <2>2 DEF EveryoneServed
  <2> QED BY <2>1, <2>2
<1> QED BY <1>5, <1>7

\* A connection that leaves is taken out of every table of its Sfu, so that
\* they agree again and the others stay served (sfu.go:154-173).
LEMMA LeaveTables ==
    ASSUME SfuTypeOK, TablesAgree, ServedAreMembers, EveryoneServed,
           NEW c \in Conns, NEW u \in Sfus, leave(c, u)
    PROVE  TablesAgree' /\ ServedAreMembers' /\ EveryoneServed'
<1>1. ASSUME NEW v \in Sfus, v # u
      PROVE  /\ publishers'[v] = publishers[v] /\ members'[v] = members[v]
             /\ subscribers'[v] = subscribers[v] /\ listed'[v] = listed[v]
             /\ served'[v] = served[v]
  BY <1>1 DEF SfuTypeOK, leave
<1>2. /\ members'[u] = members[u] \ {c}
      /\ publishers'[u] = publishers[u] \ {c}
      /\ subscribers'[u] = subscribers[u] \ {c}
      /\ served'[u] = served[u] \ {c}
      /\ \A p \in Conns :
            listed'[u][p] = IF p = c THEN {} ELSE listed[u][p] \ {c}
  BY DEF SfuTypeOK, leave
<1>3. TablesAgree'
  <2> SUFFICES ASSUME NEW v \in Sfus
               PROVE  /\ publishers'[v] \subseteq members'[v]
                      /\ subscribers'[v] \subseteq members'[v]
                      /\ \A p \in Conns :
                           /\ listed'[v][p] \subseteq subscribers'[v] \ {p}
                           /\ p \notin publishers'[v] => listed'[v][p] = {}
    BY DEF TablesAgree
  <2>1. CASE v = u
    <3>1. /\ publishers[u] \subseteq members[u]
          /\ subscribers[u] \subseteq members[u]
          /\ \A p \in Conns : /\ listed[u][p] \subseteq subscribers[u] \ {p}
                              /\ p \notin publishers[u] => listed[u][p] = {}
      BY DEF TablesAgree
    <3>2. publishers'[u] \subseteq members'[u]
           /\ subscribers'[u] \subseteq members'[u]
      BY <1>2, <3>1
    <3>3. ASSUME NEW p \in Conns
          PROVE  /\ listed'[u][p] \subseteq subscribers'[u] \ {p}
                 /\ p \notin publishers'[u] => listed'[u][p] = {}
      <4>1. CASE p = c BY <1>2, <4>1
      <4>2. CASE p # c
        <5>1. listed'[u][p] = listed[u][p] \ {c} BY <1>2, <4>2
        <5>2. /\ listed[u][p] \subseteq subscribers[u] \ {p}
              /\ p \notin publishers[u] => listed[u][p] = {}
          BY <3>1
        <5>3. subscribers'[u] = subscribers[u] \ {c}
              /\ publishers'[u] = publishers[u] \ {c}
          BY <1>2
        <5> QED BY <4>2, <5>1, <5>2, <5>3
      <4> QED BY <4>1, <4>2
    <3> QED BY <2>1, <3>2, <3>3
  <2>2. CASE v # u BY <1>1, <2>2 DEF TablesAgree
  <2> QED BY <2>1, <2>2
<1>4. ServedAreMembers'
  <2> SUFFICES ASSUME NEW v \in Sfus PROVE served'[v] \subseteq members'[v]
    BY DEF ServedAreMembers
  <2> QED BY <1>1, <1>2 DEF ServedAreMembers
<1>5. EveryoneServed'
  <2> SUFFICES ASSUME NEW v \in Sfus,
                      NEW s \in served'[v] \cap subscribers'[v],
                      NEW p \in publishers'[v] \ {s}
               PROVE  s \in listed'[v][p]
    BY DEF EveryoneServed
  <2>1. CASE v = u
    <3>1. p \in publishers[u] \ {s} /\ p # c /\ p \in Conns
      BY <1>2, <2>1 DEF SfuTypeOK
    <3>2. s \in served[u] \cap subscribers[u] /\ s # c
      BY <1>2, <2>1
    <3>3. s \in listed[u][p] BY <3>1, <3>2 DEF EveryoneServed
    <3> QED BY <1>2, <2>1, <3>1, <3>2, <3>3
  <2>2. CASE v # u BY <1>1, <2>2 DEF EveryoneServed
  <2> QED BY <2>1, <2>2
<1> QED BY <1>3, <1>4, <1>5

----------------------------------------------------------------------------
(* Rooms.                                                                  *)

\* A found Sfu belongs to no other room, one created now to no room yet; it
\* then has the entered member, created for that room (sfu.go:350-371).
LEMMA EnterRooms ==
    ASSUME SfuTypeOK, RoomsApart, RoomsInhabited, NEW c \in Conns,
           NEW u \in Sfus, NEW reached, SfuFound(room[c], u),
           Enter(c, u, reached), UNCHANGED setting
    PROVE  RoomsApart' /\ RoomsInhabited'
<1>1. /\ members'[u] = members[u] \cup {c}
      /\ \A v \in Sfus \ {u} : members'[v] = members[v]
      /\ room' = room /\ room[c] \in Rooms
      /\ created \in Nat
  BY RoomConstantsOK DEF SfuTypeOK, Enter, setting
<1>2. CASE sfus[room[c]] = u /\ UNCHANGED <<sfus, created>>
  <2>1. u \in 1 .. created
    BY <1>1, <1>2, RoomConstantsOK DEF RoomsApart, Sfus
  <2>2. RoomsApart'
    <3>1. \A v \in Sfus : v > created' => members'[v] = {}
      BY <1>1, <1>2, <2>1 DEF RoomsApart, Sfus
    <3> QED BY <1>2, <3>1 DEF RoomsApart
  <2>3. RoomsInhabited'
    <3> SUFFICES ASSUME NEW r \in Rooms, sfus[r] # NoSfu
                 PROVE  /\ members'[sfus[r]] # {}
                        /\ \A d \in members'[sfus[r]] : room[d] = r
      BY <1>1, <1>2 DEF RoomsInhabited
    <3>1. CASE r = room[c] BY <1>1, <1>2, <3>1 DEF RoomsInhabited
    <3>2. CASE r # room[c]
      <4>1. sfus[r] # u /\ sfus[r] \in Sfus
        BY <1>1, <1>2, <3>2 DEF RoomsApart, SfuTypeOK
      <4> QED BY <1>1, <4>1 DEF RoomsInhabited
    <3> QED BY <3>1, <3>2
  <2> QED BY <2>2, <2>3
<1>3. CASE /\ sfus[room[c]] = NoSfu /\ u = created + 1
           /\ sfus' = [sfus EXCEPT ![room[c]] = u] /\ created' = u
  <2>1. /\ sfus'[room[c]] = u
        /\ \A r \in Rooms : r # room[c] => sfus'[r] = sfus[r]
    BY <1>1, <1>3 DEF SfuTypeOK
  <2>2. \A r \in Rooms : r # room[c] /\ sfus[r] # NoSfu
           => sfus[r] \in 1 .. created /\ sfus[r] # u /\ sfus[r] \in Sfus
    BY <1>1, <1>3 DEF RoomsApart, SfuTypeOK
  <2>3. members[u] = {} BY <1>1, <1>3 DEF RoomsApart
  <2>4. RoomsApart'
    <3>1. \A v \in Sfus : v > created' => members'[v] = {}
      BY <1>1, <1>3 DEF RoomsApart, Sfus
    <3>2. \A r \in Rooms : sfus'[r] # NoSfu => sfus'[r] \in 1 .. created'
      BY <1>1, <1>3, <2>1, <2>2
    <3>3. \A r, s \in Rooms :
              sfus'[r] # NoSfu /\ sfus'[r] = sfus'[s] => r = s
      BY <2>1, <2>2 DEF RoomsApart
    <3> QED BY <3>1, <3>2, <3>3 DEF RoomsApart
  <2>5. RoomsInhabited'
    <3> SUFFICES ASSUME NEW r \in Rooms, sfus'[r] # NoSfu
                 PROVE  /\ members'[sfus'[r]] # {}
                        /\ \A d \in members'[sfus'[r]] : room[d] = r
      BY <1>1 DEF RoomsInhabited
    <3>1. CASE r = room[c] BY <1>1, <2>1, <2>3, <3>1
    <3>2. CASE r # room[c]
      BY <1>1, <2>1, <2>2, <3>2 DEF RoomsInhabited
    <3> QED BY <3>1, <3>2
  <2> QED BY <2>4, <2>5
<1> QED BY <1>2, <1>3 DEF SfuFound

\* A room loses its last member and its place in the pool in one step
\* (sfu.go:386-415).
LEMMA LeaveRooms ==
    ASSUME SfuTypeOK, RoomsApart, RoomsInhabited, NEW c \in Conns, Leave(c)
    PROVE  RoomsApart' /\ RoomsInhabited'
<1> DEFINE u == sfus[room[c]]
<1>1. /\ room[c] \in Rooms /\ u \in Sfus /\ leave(c, u) /\ u # NoSfu
      /\ created' = created /\ room' = room
      /\ sfus' = IF members[u] = {c} THEN [sfus EXCEPT ![room[c]] = NoSfu]
                 ELSE sfus
  BY DEF Leave, SfuTypeOK, setting
<1>2. /\ members'[u] = members[u] \ {c}
      /\ \A v \in Sfus \ {u} : members'[v] = members[v]
  BY <1>1 DEF leave, SfuTypeOK
<1>3. \A r \in Rooms : sfus'[r] # NoSfu => sfus'[r] = sfus[r]
  BY <1>1 DEF SfuTypeOK
<1>4. RoomsApart'
  <2>1. \A v \in Sfus : v > created' => members'[v] = {}
    BY <1>1, <1>2 DEF RoomsApart
  <2>2. \A r \in Rooms : sfus'[r] # NoSfu => sfus'[r] \in 1 .. created'
    BY <1>1, <1>3 DEF RoomsApart
  <2>3. \A r, s \in Rooms : sfus'[r] # NoSfu /\ sfus'[r] = sfus'[s] => r = s
    BY <1>3 DEF RoomsApart
  <2> QED BY <2>1, <2>2, <2>3 DEF RoomsApart
<1>5. RoomsInhabited'
  <2> SUFFICES ASSUME NEW r \in Rooms, sfus'[r] # NoSfu
               PROVE  /\ members'[sfus[r]] # {}
                      /\ \A d \in members'[sfus[r]] : room[d] = r
    BY <1>1, <1>3 DEF RoomsInhabited
  <2>1. sfus[r] # NoSfu /\ sfus[r] \in Sfus BY <1>3 DEF SfuTypeOK
  <2>2. CASE r = room[c]
    <3>1. members[u] # {c} BY <1>1, <2>2 DEF SfuTypeOK
    <3>2. c \in members[u] BY <1>1 DEF leave
    <3>3. members'[u] # {} BY <1>2, <3>1, <3>2
    <3> QED BY <1>2, <2>1, <2>2, <3>3 DEF RoomsInhabited
  <2>3. CASE r # room[c]
    <3>1. sfus[r] # u BY <1>1, <2>1, <2>3 DEF RoomsApart
    <3> QED BY <1>2, <2>1, <3>1 DEF RoomsInhabited
  <2> QED BY <2>2, <2>3
<1> QED BY <1>4, <1>5

----------------------------------------------------------------------------
(* The invariant.                                                          *)

\* What the properties are about; a step that leaves it alone keeps them.
shared == <<room, sfus, created, members, publishers, listed, subscribers,
            served>>

\* A step of tracks or failures alone touches no table (sfu.go:83-148).
LEMMA SharedUnchanged ==
    ASSUME SfuInv, UNCHANGED shared
    PROVE  /\ TablesAgree' /\ ServedAreMembers' /\ EveryoneServed'
           /\ RoomsApart' /\ RoomsInhabited'
BY DEF SfuInv, shared, TablesAgree, ServedAreMembers, EveryoneServed,
       RoomsApart, RoomsInhabited

\* The inductive invariant holds at the start: there is no Sfu.
LEMMA InitSfuInv == SfuInit => SfuInv
<1> SUFFICES ASSUME SfuInit PROVE SfuInv
  OBVIOUS
<1>1. SfuTypeOK BY RoomConstantsOK DEF SfuInit, SfuTypeOK, Sfus
<1>2. /\ TablesAgree /\ ServedAreMembers /\ EveryoneServed
      /\ RoomsApart /\ RoomsInhabited
  BY DEF SfuInit, TablesAgree, ServedAreMembers, EveryoneServed,
         RoomsApart, RoomsInhabited
<1> QED BY <1>1, <1>2 DEF SfuInv

\* Every step keeps the inductive invariant.
LEMMA StepSfuInv == SfuInv /\ [SfuNext]_sfuVars => SfuInv'
<1> SUFFICES ASSUME SfuInv, [SfuNext]_sfuVars PROVE SfuInv'
  OBVIOUS
<1>0. SfuTypeOK' BY TypeStep DEF SfuInv
<1>1. ASSUME NEW c \in Conns, Join(c) PROVE SfuInv'
  <2>1. PICK u \in Sfus : /\ SfuFound(room[c], u)
                          /\ Enter(c, u, Others(c, u))
                          /\ served' = [served EXCEPT ![u] = @ \cup {c}]
    BY <1>1 DEF Join
  <2> DEFINE reached == Others(c, u)
  <2>2. reached \in SUBSET Others(c, u) OBVIOUS
  <2>3. TablesAgree' BY <2>1, <2>2, EnterTables DEF SfuInv
  <2>4. EveryoneServed' /\ ServedAreMembers'
    BY <2>1, <2>2, EnterServes DEF SfuInv
  <2>5. RoomsApart' /\ RoomsInhabited'
    BY <1>1, <2>1, EnterRooms DEF SfuInv, Join
  <2> QED BY <1>0, <2>3, <2>4, <2>5 DEF SfuInv
<1>2. ASSUME NEW c \in Conns, JoinFails(c) PROVE SfuInv'
  <2>1. PICK u \in Sfus : \E reached \in SUBSET Others(c, u) :
                             SfuFound(room[c], u) /\ Enter(c, u, reached)
    BY <1>2 DEF JoinFails
  <2>2. PICK reached \in SUBSET Others(c, u) :
             SfuFound(room[c], u) /\ Enter(c, u, reached)
    BY <2>1
  <2>3. TablesAgree' BY <2>2, EnterTables DEF SfuInv
  <2>4. EveryoneServed' /\ ServedAreMembers'
    BY <1>2, <2>2, EnterServes DEF SfuInv, JoinFails
  <2>5. RoomsApart' /\ RoomsInhabited'
    BY <1>2, <2>2, EnterRooms DEF SfuInv, JoinFails
  <2> QED BY <1>0, <2>3, <2>4, <2>5 DEF SfuInv
<1>3. ASSUME NEW c \in Conns, Leave(c) PROVE SfuInv'
  <2>1. sfus[room[c]] \in Sfus /\ leave(c, sfus[room[c]])
    BY <1>3 DEF Leave, SfuInv, SfuTypeOK
  <2>2. TablesAgree' /\ ServedAreMembers' /\ EveryoneServed'
    BY <2>1, LeaveTables DEF SfuInv
  <2>3. RoomsApart' /\ RoomsInhabited' BY <1>3, LeaveRooms DEF SfuInv
  <2> QED BY <1>0, <2>2, <2>3 DEF SfuInv
<1>4. ASSUME NEW r \in Rooms, Destroy(r) PROVE SfuInv'
  <2>1. /\ UNCHANGED <<room, created, members, publishers, listed,
                       subscribers, served>>
        /\ sfus' = [sfus EXCEPT ![r] = NoSfu]
    BY <1>4 DEF Destroy, setting
  <2>2. TablesAgree' /\ ServedAreMembers' /\ EveryoneServed'
    BY <2>1 DEF SfuInv, TablesAgree, ServedAreMembers, EveryoneServed
  <2>3. \A s \in Rooms : sfus'[s] # NoSfu => sfus'[s] = sfus[s]
    BY <2>1 DEF SfuInv, SfuTypeOK
  <2>4. RoomsApart' BY <2>1, <2>3 DEF SfuInv, RoomsApart
  <2>5. RoomsInhabited' BY <2>1, <2>3 DEF SfuInv, RoomsInhabited
  <2> QED BY <1>0, <2>2, <2>4, <2>5 DEF SfuInv
<1>5. ASSUME NEW c \in Conns,
             \/ JoinPanics(c) \/ TrackArrives(c)
             \/ TrackFails(c) \/ TrackPanics(c)
      PROVE  SfuInv'
  <2>1. UNCHANGED shared
    BY <1>5 DEF JoinPanics, TrackArrives, TrackFails, TrackPanics, shared,
                tables, setting
  <2> QED BY <1>0, <2>1, SharedUnchanged DEF SfuInv
<1>6. CASE UNCHANGED sfuVars
  <2>1. UNCHANGED shared BY <1>6 DEF sfuVars, shared
  <2> QED BY <1>0, <2>1, SharedUnchanged DEF SfuInv
<1> QED BY <1>1, <1>2, <1>3, <1>4, <1>5, <1>6 DEF SfuNext

\* The inductive invariant holds in every state.
THEOREM SfuInvariant == SfuSpec => []SfuInv
<1> QED BY InitSfuInv, StepSfuInv, PTL DEF SfuSpec

\* The variables keep their types, the failures their bound.
THEOREM TypeCorrect == SfuSpec => []SfuTypeOK
<1>1. SfuInv => SfuTypeOK BY DEF SfuInv
<1> QED BY <1>1, SfuInvariant, PTL

\* The tables of every Sfu agree in every state: joins that fail half-way
\* and rooms destroyed under their members included (sfu.go:54-81, 154-173,
\* 417-431).
THEOREM TablesAlwaysAgree == SfuSpec => []TablesAgree
<1>1. SfuInv => TablesAgree BY DEF SfuInv
<1> QED BY <1>1, SfuInvariant, PTL

\* A subscriber that was told it joined is in the list of every other
\* publisher of its Sfu, in every state (sfu.go:190-196, 286-293).
THEOREM EveryoneAlwaysServed == SfuSpec => []EveryoneServed
<1>1. SfuInv => EveryoneServed BY DEF SfuInv
<1> QED BY <1>1, SfuInvariant, PTL

\* A room in the pool has a member, and only members created for it
\* (sfu.go:350-371, 400-404).
THEOREM RoomsAlwaysInhabited == SfuSpec => []RoomsInhabited
<1>1. SfuInv => RoomsInhabited BY DEF SfuInv
<1> QED BY <1>1, SfuInvariant, PTL
==============================================================================
