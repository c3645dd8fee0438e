------------------------ MODULE BlockStore_proofs ------------------------
(***************************************************************************)
(* The proofs about BlockStore, for any number of slices, versions and     *)
(* receivers and any bounds.                                               *)
(***************************************************************************)
EXTENDS BlockStore, TLAPS

USE DEF Slices

LEMMA SizeType ==
    ASSUME NEW v \in Versions
    PROVE  Size[v] \in Slices /\ Size[v] \in 0 .. MaxSlices
  <1>1. MaxSlices \in Nat
    BY StoreConstantsOK
  <1>2. Size[v] \in Slices
    BY StoreConstantsOK
  <1>3. QED
    BY <1>1, <1>2

LEMMA JobSize ==
    ASSUME TypeOK, job # None
    PROVE  /\ job \in Job
           /\ Size[job.ver] \in Slices
           /\ Beyond(1) \subseteq Slices /\ Keys[job.ver] \subseteq Peers
  <1>1. job \in Job
    BY DEF TypeOK
  <1>2. job.ver \in Versions
    BY <1>1 DEF Job
  <1>3. QED
    BY <1>1, <1>2, StoreConstantsOK DEF Beyond

\* The goroutine of slice i goes on as c; the others stay where they are.
Moves(i, c) == c \in Call /\ calls' = [calls EXCEPT ![i] = c]

LEMMA GotoMoves ==
    ASSUME TypeOK, NEW i \in Slices, calls[i] # None, NEW pc \in Pcs,
           Goto(i, pc)
    PROVE  Moves(i, [calls[i] EXCEPT !.pc = pc])
  <1>1. calls[i] \in Call
    BY DEF TypeOK
  <1>2. [calls[i] EXCEPT !.pc = pc] \in Call
    BY <1>1 DEF Call
  <1>3. QED
    BY <1>2 DEF Goto, Moves, TypeOK

LEMMA LoopMoves ==
    ASSUME TypeOK, NEW i \in Slices, calls[i] # None, NEW pc \in Pcs,
           NEW todo \in (SUBSET Slices) \cup (SUBSET Peers), Loop(i, pc, todo)
    PROVE  Moves(i, [calls[i] EXCEPT !.pc = pc, !.todo = todo])
  <1>1. calls[i] \in Call
    BY DEF TypeOK
  <1>2. [calls[i] EXCEPT !.pc = pc, !.todo = todo] \in Call
    BY <1>1 DEF Call
  <1>3. calls' = [calls EXCEPT ![i] = [@ EXCEPT !.pc = pc, !.todo = todo]]
    BY DEF Loop, TypeOK
  <1>4. QED
    BY <1>2, <1>3 DEF Moves, TypeOK

\* After a move, one goroutine is new and it is not None.
LEMMA Moved ==
    ASSUME TypeOK, NEW i \in Slices, NEW c, Moves(i, c)
    PROVE  /\ calls' \in [Slices -> Call \cup {None}]
           /\ calls'[i] = c /\ c # None
           /\ \A k \in Slices \ {i} : calls'[k] = calls[k]
  BY NoneOK DEF Moves, TypeOK

\* A move to a place the job allows keeps CallInv.
LEMMA MoveKeepsCall ==
    ASSUME IInv, NEW i \in Slices, NEW c, Moves(i, c), Elsewhere,
           CallAt(i, c)
    PROVE  CallInv'
  <1>1. /\ calls'[i] = c
        /\ \A k \in Slices \ {i} : calls'[k] = calls[k]
    BY Moved DEF IInv
  <1>2. job' = job /\ used' = used
    BY DEF Elsewhere
  <1> SUFFICES ASSUME NEW k \in Slices, calls'[k] # None
               PROVE  CallAt(k, calls[k])'
    BY DEF CallInv
  <1>3. CASE k = i
    BY <1>1, <1>2, <1>3 DEF CallAt, Deleting, Beyond
  <1>4. CASE k # i
    <2>1. calls'[k] = calls[k]
      BY <1>1, <1>4
    <2>2. CallAt(k, calls[k])
      BY <2>1 DEF IInv, CallInv
    <2>3. QED
      BY <1>2, <2>1, <2>2 DEF CallAt, Deleting, Beyond
  <1>5. QED
    BY <1>3, <1>4

\* What the stored slice of another goroutine looks like is left alone.
Spares(k) == rows'[k] = rows[k] /\ files'[k] = files[k] /\ pts'[k] = pts[k]

\* A move that records its own progress and spares the other slices of the
\* version keeps StoreInv; only the first slice's goroutine touches the keys.
LEMMA MoveKeepsStore ==
    ASSUME IInv, NEW i \in Slices, NEW c, Moves(i, c), Elsewhere,
           Storing /\ i <= Size[job.ver] => Progress(i, c)',
           Storing => \A k \in Slices \ {i} : k <= Size[job.ver] => Spares(k),
           i = 1 \/ tks' = tks
    PROVE  StoreInv'
  <1>1. /\ calls'[i] = c /\ c # None
        /\ \A k \in Slices \ {i} : calls'[k] = calls[k]
    BY Moved DEF IInv
  <1>2. job' = job
    BY DEF Elsewhere
  <1> SUFFICES ASSUME Storing, NEW k \in 1 .. Size[job.ver]
               PROVE  calls'[k] # None /\ Progress(k, calls[k])'
    BY <1>2 DEF StoreInv, Storing
  <1>3. Size[job.ver] \in Slices
    BY JobSize DEF IInv, Storing
  <1>4. k \in Slices /\ k <= Size[job.ver]
    BY <1>3, StoreConstantsOK
  <1>5. CASE k = i
    BY <1>1, <1>2, <1>4, <1>5 DEF Progress, Stored, Keyed
  <1>6. CASE k # i
    <2>1. calls'[k] = calls[k] /\ Spares(k)
      BY <1>1, <1>4, <1>6
    <2>2. calls[k] # None /\ Progress(k, calls[k])
      BY DEF IInv, StoreInv
    <2>3. k = 1 => tks' = tks
      BY <1>6
    <2>4. QED
      BY <1>2, <2>1, <2>2, <2>3 DEF Progress, Stored, Keyed, Spares
  <1>7. QED
    BY <1>5, <1>6

\* A move that is turned down, or happens beyond the current version, and
\* spares what that version has left keeps CurrentInv.
LEMMA MoveKeepsCurrent ==
    ASSUME IInv, NEW i \in Slices, NEW c, Moves(i, c), Elsewhere,
           current # 0 =>
             /\ i <= Size[current] => TurnedDown(c)
             /\ tks' = tks
             /\ \A k \in 1 .. Size[current] : Spares(k)
    PROVE  CurrentInv'
  <1>1. /\ calls'[i] = c
        /\ \A k \in Slices \ {i} : calls'[k] = calls[k]
    BY Moved DEF IInv
  <1>2. job' = job /\ used' = used /\ current' = current
    BY DEF Elsewhere
  <1> SUFFICES ASSUME current # 0
               PROVE  CurrentInv'
    BY <1>2 DEF CurrentInv
  <1>3. current \in Versions /\ Size[current] \in Slices
    BY StoreConstantsOK DEF IInv, TypeOK
  <1>4. \A k \in 1 .. Size[current] : Kept(k, current)'
    BY <1>2 DEF IInv, CurrentInv, Kept, Stored, Spares
  <1>5. Keyed(Keys[current], current)'
    BY <1>2 DEF IInv, CurrentInv, Keyed
  <1>6. ASSUME job # None, NEW k \in 1 .. Size[current], calls'[k] # None
        PROVE  TurnedDown(calls[k])'
    <2>1. k \in Slices /\ k <= Size[current]
      BY <1>3, StoreConstantsOK
    <2>2. k = i => TurnedDown(c)
      BY <2>1
    <2>3. k # i => calls'[k] = calls[k] /\ TurnedDown(calls[k])
      BY <1>1, <1>6, <2>1 DEF IInv, CurrentInv
    <2>4. QED
      BY <1>1, <1>2, <2>2, <2>3 DEF TurnedDown
  <1>7. QED
    BY <1>2, <1>4, <1>5, <1>6 DEF IInv, CurrentInv

\* A goroutine past its checks is beyond the current version, if there is one.
LEMMA BeyondCurrent ==
    ASSUME IInv, NEW i \in Slices, calls[i] # None, current # 0,
           calls[i].pc \notin {"select", "check", "ok", "error"}
    PROVE  i > Size[current] /\ i # 1 /\ ~Deleting
  <1>1. job # None
    BY DEF IInv, CallInv, CallAt
  <1>2. Size[current] \in Slices
    BY StoreConstantsOK DEF IInv, TypeOK
  <1>3. i > Size[current]
    <2> SUFFICES ASSUME i \in 1 .. Size[current]
                 PROVE  FALSE
      BY <1>2
    <2>1. TurnedDown(calls[i])
      BY <1>1 DEF IInv, CurrentInv
    <2>2. QED
      BY <2>1 DEF TurnedDown
  <1>4. i # 1
    BY <1>2, <1>3
  <1>5. ~Deleting
    BY <1>4 DEF IInv, CallInv, CallAt, TypeOK, Call, Pcs
  <1>6. QED
    BY <1>3, <1>4, <1>5

StoredTypes ==
    /\ rows \in [Slices -> Row \cup {None}]
    /\ files \in [Slices -> Versions \cup {0}]
    /\ tks \in [Peers -> Versions \cup {0}]
    /\ pts \in [Slices -> Versions \cup {0}]

\* What an action of a goroutine has to show, all together.
LEMMA Move ==
    ASSUME IInv, NEW i \in Slices, NEW c, Moves(i, c), Elsewhere,
           NoFault \/ Fault, StoredTypes', CallAt(i, c),
           Storing /\ i <= Size[job.ver] => Progress(i, c)',
           Storing => \A k \in Slices \ {i} : k <= Size[job.ver] => Spares(k),
           i = 1 \/ tks' = tks,
           current # 0 =>
             /\ i <= Size[current] => TurnedDown(c)
             /\ tks' = tks
             /\ \A k \in 1 .. Size[current] : Spares(k)
    PROVE  IInv'
  <1>1. TypeOK'
    <2>1. calls' \in [Slices -> Call \cup {None}]
      BY Moved DEF IInv
    <2>2. faults' \in 0 .. MaxFaults
      BY StoreConstantsOK DEF IInv, TypeOK, NoFault, Fault
    <2>3. QED
      BY <2>1, <2>2 DEF IInv, TypeOK, StoredTypes, Elsewhere
  <1>2. CallInv'
    BY MoveKeepsCall
  <1>3. StoreInv'
    BY MoveKeepsStore
  <1>4. CurrentInv'
    BY MoveKeepsCurrent
  <1>5. QED
    BY <1>1, <1>2, <1>3, <1>4 DEF IInv

\* One past its checks that touches its own slice only, keys in the first.
LEMMA MoveOwn ==
    ASSUME IInv, NEW i \in Slices, NEW c, Moves(i, c), Elsewhere,
           NoFault \/ Fault, StoredTypes', CallAt(i, c),
           calls[i] # None,
           calls[i].pc \notin {"select", "check", "ok", "error"},
           Storing /\ i <= Size[job.ver] => Progress(i, c)',
           \A k \in Slices \ {i} : Spares(k),
           i = 1 \/ tks' = tks
    PROVE  IInv'
  <1>1. ASSUME current # 0
        PROVE  /\ ~ (i <= Size[current])
               /\ tks' = tks
               /\ \A k \in 1 .. Size[current] : Spares(k)
    <2>1. Size[current] \in Slices
      BY <1>1, StoreConstantsOK DEF IInv, TypeOK
    <2>2. i > Size[current] /\ i # 1
      BY <1>1, BeyondCurrent
    <2>3. \A k \in 1 .. Size[current] : k \in Slices \ {i}
      BY <2>1, <2>2, StoreConstantsOK
    <2>4. QED
      BY <2>1, <2>2, <2>3, StoreConstantsOK
  <1>2. QED
    BY <1>1, Move

\* One of the first slice past its checks: no version is current.
LEMMA MoveFirst ==
    ASSUME IInv, NEW i \in Slices, NEW c, Moves(i, c), Elsewhere,
           NoFault \/ Fault, StoredTypes', CallAt(i, c),
           calls[i] # None, i = 1,
           calls[i].pc \notin {"select", "check", "ok", "error"},
           Storing => Progress(i, c)',
           Storing => \A k \in Slices \ {i} : k <= Size[job.ver] => Spares(k)
    PROVE  IInv'
  <1>1. current = 0
    BY BeyondCurrent
  <1>2. QED
    BY <1>1, Move

----------------------------------------------------------------------------
(* The checks.                                                             *)

LEMMA SelectKeeps ==
    ASSUME IInv, NEW i \in Slices, Select(i)
    PROVE  IInv'
  <1>1. calls[i] # None /\ calls[i].pc = "select"
    BY DEF Select, At
  <1>2. CallAt(i, calls[i])
    BY <1>1 DEF IInv, CallInv
  <1> DEFINE c(pc) == [calls[i] EXCEPT !.pc = pc]
  <1>3. calls[i] \in Call
    BY <1>1 DEF IInv, TypeOK
  <1>4. \A k \in Slices : Spares(k)
    BY DEF Select, stored, Spares
  <1>5. NoFault /\ Elsewhere /\ StoredTypes' /\ tks' = tks
    BY DEF Select, stored, StoredTypes, IInv, TypeOK
  <1>6. ASSUME NEW pc \in {"ok", "check"}, Goto(i, pc),
               pc = "check" => rows[i] = None \/ ~ (job.ver <= rows[i].ver)
        PROVE  IInv'
    <2>1. Moves(i, c(pc))
      BY <1>1, <1>6, GotoMoves DEF IInv, Pcs
    <2>2. c(pc).pc = pc
      BY <1>3 DEF Call
    <2>3. CallAt(i, c(pc))
      BY <1>1, <1>2, <2>2 DEF CallAt
    <2>4. ~Storing
      BY <1>1, <1>2 DEF CallAt, Storing
    <2>5. ASSUME current # 0
          PROVE  /\ i <= Size[current] => TurnedDown(c(pc))
                 /\ \A k \in 1 .. Size[current] : Spares(k)
      <3>1. Size[current] \in Slices
        BY <2>5, StoreConstantsOK DEF IInv, TypeOK
      <3>2. i <= Size[current] =>
              rows[i] = [ver |-> current, inFile |-> current \in Big]
        BY <2>5 DEF IInv, CurrentInv, Kept, Stored
      <3>3. rows[i] # None => rows[i] \in Row
        BY DEF IInv, TypeOK
      <3>4. [ver |-> current, inFile |-> current \in Big] \in Row
        BY <2>5 DEF IInv, TypeOK, Row
      <3>5. i <= Size[current] => pc = "ok"
        BY <1>2, <1>6, <2>5, <3>2, <3>4, NoneOK
           DEF IInv, CurrentInv, CallAt
      <3>6. job.kind = "repair"
        BY <1>1, <1>2 DEF CallAt
      <3>7. QED
        BY <1>4, <2>2, <3>1, <3>5, <3>6, StoreConstantsOK DEF TurnedDown
    <2>6. QED
      BY <1>4, <1>5, <2>1, <2>3, <2>4, <2>5, Move
  <1>7. QED
    BY <1>6 DEF Select

LEMMA StoreCheckKeeps ==
    ASSUME IInv, NEW i \in Slices, StoreCheck(i)
    PROVE  IInv'
  <1>1. calls[i] # None /\ calls[i].pc = "check"
    BY DEF StoreCheck, At
  <1>2. CallAt(i, calls[i])
    BY <1>1 DEF IInv, CallInv
  <1>3. calls[i] \in Call
    BY <1>1 DEF IInv, TypeOK
  <1>4. \A k \in Slices : Spares(k)
    BY DEF StoreCheck, stored, Spares
  <1>5. /\ NoFault \/ Fault
        /\ Elsewhere /\ StoredTypes' /\ tks' = tks
    BY DEF StoreCheck, stored, StoredTypes, IInv, TypeOK
  <1>6. job \in Job /\ job.ver \in Versions /\ job # None
    <2>1. job # None
      BY <1>2 DEF CallAt
    <2>2. QED
      BY <2>1, JobSize DEF IInv, Job
  \* At a slice of the current version the job is a store of an older one.
  <1>7. ASSUME current # 0, i <= Size[current]
        PROVE  /\ rows[i] # None /\ rows[i].ver = current
               /\ job.kind = "store" /\ job.ver <= rows[i].ver
    <2>1. rows[i] = [ver |-> current, inFile |-> current \in Big]
      BY <1>7 DEF IInv, CurrentInv, Kept, Stored
    <2>2. [ver |-> current, inFile |-> current \in Big] \in Row
      BY <1>7 DEF IInv, TypeOK, Row
    <2>3. TurnedDown(calls[i]) /\ job.ver <= current
      BY <1>1, <1>6, <1>7 DEF IInv, CurrentInv
    <2>4. QED
      BY <1>1, <2>1, <2>2, <2>3, NoneOK DEF TurnedDown
  <1>8. ASSUME NEW c, Moves(i, c), c.pc \in Pcs,
               c.pc = "clear" => i = 1 /\ Deleting,
               c.pc \in {"spill", "upsert"} => ~Deleting,
               c.pc = "spill" => job.ver \in Big,
               c.pc = "upsert" => job.ver \notin Big,
               c.pc = "ok" => Deleting,
               c.pc \in {"clear", "spill", "upsert", "ok", "error"},
               current # 0 /\ i <= Size[current] => c.pc = "error"
        PROVE  IInv'
    <2>1. CallAt(i, c)
      BY <1>2, <1>8 DEF CallAt
    <2>2. Storing => Progress(i, c)'
      BY <1>5, <1>8 DEF Storing, Deleting, Progress, Elsewhere
    <2>3. ASSUME current # 0
          PROVE  /\ i <= Size[current] => TurnedDown(c)
                 /\ \A k \in 1 .. Size[current] : Spares(k)
      <3>1. Size[current] \in Slices
        BY <2>3, StoreConstantsOK DEF IInv, TypeOK
      <3>2. QED
        BY <1>4, <1>7, <1>8, <2>3, <3>1, StoreConstantsOK DEF TurnedDown
    <2>4. QED
      BY <1>4, <1>5, <1>8, <2>1, <2>2, <2>3, Move
  <1>9. ASSUME NEW pc \in {"clear", "spill", "upsert", "ok", "error"},
               Goto(i, pc)
        PROVE  /\ Moves(i, [calls[i] EXCEPT !.pc = pc])
               /\ [calls[i] EXCEPT !.pc = pc].pc = pc
    BY <1>1, <1>3, <1>9, GotoMoves DEF IInv, Pcs, Call
  <1>10. CASE rows[i] = None /\ Goto(i, IF job.ver \in Deletes THEN "ok"
                                        ELSE Spills)
    <2>1. job.kind # "expire"
      BY <1>1, <1>2 DEF CallAt
    <2> DEFINE pc == IF job.ver \in Deletes THEN "ok" ELSE Spills
    <2>2. /\ pc \in {"ok", "spill", "upsert"}
          /\ pc = "ok" <=> job.ver \in Deletes
          /\ pc = "spill" => job.ver \in Big
          /\ pc = "upsert" => job.ver \notin Big
      BY StoreConstantsOK DEF Spills
    <2>3. Goto(i, pc)
      BY <1>10
    <2> HIDE DEF pc
    <2>4. /\ Moves(i, [calls[i] EXCEPT !.pc = pc])
          /\ [calls[i] EXCEPT !.pc = pc].pc = pc
      BY <1>9, <2>2, <2>3
    <2> DEFINE c == [calls[i] EXCEPT !.pc = pc]
    <2> HIDE DEF c
    <2>5. Moves(i, c) /\ c.pc = pc
      BY <2>4 DEF c
    <2>6. pc \in Pcs
      BY <2>2 DEF Pcs
    <2>7. ~ (current # 0 /\ i <= Size[current])
      BY <1>7, <1>10
    <2>8. QED
      BY <1>8, <2>1, <2>2, <2>5, <2>6, <2>7 DEF Deleting
  <1>11. CASE Goto(i, "error")
    BY <1>8, <1>9, <1>11 DEF Pcs
  <1>12. CASE /\ rows[i] # None
              /\ job.kind = "repair" \/ job.ver > rows[i].ver
              /\ calls' = [calls EXCEPT
                   ![i].pc = IF job.ver \notin Deletes THEN Spills
                             ELSE IF i = 1 THEN "clear" ELSE "ok",
                   ![i].found = TRUE,
                   ![i].old = Size[rows[i].ver]]
    <2> DEFINE pc == IF job.ver \notin Deletes THEN Spills
                     ELSE IF i = 1 THEN "clear" ELSE "ok"
               c == [calls[i] EXCEPT !.pc = pc, !.found = TRUE,
                                     !.old = Size[rows[i].ver]]
    <2>1. job.kind # "expire"
      BY <1>1, <1>2 DEF CallAt
    <2>2. /\ pc \in {"ok", "spill", "upsert", "clear"}
          /\ pc \in {"ok", "clear"} <=> job.ver \in Deletes
          /\ pc = "clear" => i = 1
          /\ pc = "spill" => job.ver \in Big
          /\ pc = "upsert" => job.ver \notin Big
      BY StoreConstantsOK DEF Spills
    <2>3. rows[i].ver \in Versions
      BY <1>12 DEF IInv, TypeOK, Row
    <2>4. Size[rows[i].ver] \in 0 .. MaxSlices
      BY <2>3, SizeType
    <2>5. calls' = [calls EXCEPT ![i] =
                      [@ EXCEPT !.pc = pc, !.found = TRUE,
                                !.old = Size[rows[i].ver]]]
      BY <1>12
    <2> HIDE DEF pc
    <2>6. pc \in Pcs
      BY <2>2 DEF Pcs
    <2>7. c \in Call /\ c.pc = pc
      BY <1>3, <2>4, <2>6 DEF Call
    <2>8. Moves(i, c)
      BY <2>5, <2>7 DEF Moves, IInv, TypeOK
    <2>9. ~ (current # 0 /\ i <= Size[current])
      BY <1>6, <1>7, <1>12, <2>3, StoreConstantsOK
    <2> HIDE DEF c
    <2>10. QED
      BY <1>8, <2>1, <2>2, <2>6, <2>7, <2>8, <2>9 DEF Deleting
  <1>13. QED
    BY <1>10, <1>11, <1>12 DEF StoreCheck

----------------------------------------------------------------------------
(* Deleting and storing.                                                   *)

\* What is known of a goroutine that runs.
LEMMA Running ==
    ASSUME IInv, NEW i \in Slices, calls[i] # None
    PROVE  /\ calls[i] \in Call /\ CallAt(i, calls[i])
           /\ job \in Job /\ job.ver \in Versions
           /\ Size[job.ver] \in Slices /\ Keys[job.ver] \subseteq Peers
           /\ Storing /\ i <= Size[job.ver] => Progress(i, calls[i])
  <1>1. calls[i] \in Call /\ CallAt(i, calls[i])
    BY DEF IInv, CallInv, TypeOK
  <1>2. /\ job \in Job /\ job.ver \in Versions
        /\ Size[job.ver] \in Slices /\ Keys[job.ver] \subseteq Peers
    BY <1>1, JobSize DEF CallAt, Job, IInv
  <1>3. ASSUME Storing, i <= Size[job.ver]
        PROVE  Progress(i, calls[i])
    <2>1. i \in 1 .. Size[job.ver]
      BY <1>2, <1>3, StoreConstantsOK
    <2>2. QED
      BY <1>3, <2>1 DEF IInv, StoreInv
  <1>4. QED
    BY <1>1, <1>2, <1>3

\* The steps of a delete: nothing is being stored, and no version is current.
LEMMA DeleteMoves ==
    ASSUME IInv, NEW i \in Slices, calls[i] # None,
           calls[i].pc \in {"clear", "drop", "unkey", "untrack"},
           NEW c, Moves(i, c), CallAt(i, c), Elsewhere,
           NoFault \/ Fault, StoredTypes'
    PROVE  IInv'
  <1>1. i = 1 /\ ~Storing
    BY DEF IInv, CallInv, CallAt, Deleting, Storing
  <1>2. QED
    BY <1>1, MoveFirst

LEMMA ClearFilesKeeps ==
    ASSUME IInv, NEW i \in Slices, ClearFiles(i)
    PROVE  IInv'
  <1> DEFINE c == [calls[i] EXCEPT !.pc = "drop"]
  <1>1. calls[i] # None /\ calls[i].pc = "clear"
    BY DEF ClearFiles, At
  <1>2. Moves(i, c)
    BY <1>1, GotoMoves DEF ClearFiles, IInv, Pcs
  <1>3. c.pc = "drop" /\ CallAt(i, calls[i])
    BY <1>1, Running DEF Call
  <1>4. CallAt(i, c)
    BY <1>1, <1>3 DEF CallAt
  <1>5. StoredTypes' /\ Elsewhere /\ (NoFault \/ Fault)
    BY DEF ClearFiles, Unchecked, StoredTypes, IInv, TypeOK
  <1>6. QED
    BY <1>1, <1>2, <1>4, <1>5, DeleteMoves

LEMMA DropRowsKeeps ==
    ASSUME IInv, NEW i \in Slices, DropRows(i)
    PROVE  IInv'
  <1> DEFINE c == [calls[i] EXCEPT !.pc = "unkey"]
  <1>1. calls[i] # None /\ calls[i].pc = "drop"
    BY DEF DropRows, At
  <1>2. Moves(i, c)
    BY <1>1, GotoMoves DEF DropRows, IInv, Pcs
  <1>3. c.pc = "unkey" /\ CallAt(i, calls[i])
    BY <1>1, Running DEF Call
  <1>4. CallAt(i, c)
    BY <1>1, <1>3 DEF CallAt
  <1>5. StoredTypes' /\ Elsewhere /\ (NoFault \/ Fault)
    BY DEF DropRows, Unchecked, StoredTypes, IInv, TypeOK
  <1>6. QED
    BY <1>1, <1>2, <1>4, <1>5, DeleteMoves

LEMMA DropKeysKeeps ==
    ASSUME IInv, NEW i \in Slices, DropKeys(i)
    PROVE  IInv'
  <1>1. calls[i] # None /\ calls[i].pc = "unkey"
    BY DEF DropKeys, At
  <1>2. calls[i] \in Call /\ CallAt(i, calls[i])
    BY <1>1, Running
  <1>3. StoredTypes' /\ Elsewhere /\ (NoFault \/ Fault)
    BY DEF DropKeys, Unchecked, StoredTypes, IInv, TypeOK
  <1>4. CASE Goto(i, "ok")
    <2> DEFINE c == [calls[i] EXCEPT !.pc = "ok"]
    <2>1. Moves(i, c) /\ c.pc = "ok"
      BY <1>1, <1>2, <1>4, GotoMoves DEF IInv, Pcs, Call
    <2>2. CallAt(i, c)
      BY <1>1, <1>2, <2>1 DEF CallAt
    <2>3. QED
      BY <1>1, <1>3, <2>1, <2>2, DeleteMoves
  <1>5. CASE Loop(i, "untrack", Tracked(i))
    <2> DEFINE c == [calls[i] EXCEPT !.pc = "untrack", !.todo = Tracked(i)]
    <2>1. Tracked(i) \subseteq Slices
      BY <1>2, StoreConstantsOK DEF Tracked, Call
    <2>2. Moves(i, c)
      BY <1>1, <1>5, <2>1, LoopMoves DEF IInv, Pcs
    <2>3. c.pc = "untrack" /\ c.todo = Tracked(i)
      BY <1>2 DEF Call
    <2>4. CallAt(i, c)
      BY <1>1, <1>2, <2>1, <2>3 DEF CallAt
    <2>5. QED
      BY <1>1, <1>3, <2>2, <2>4, DeleteMoves
  <1>6. QED
    BY <1>4, <1>5 DEF DropKeys

LEMMA SpillKeeps ==
    ASSUME IInv, NEW i \in Slices, Spill(i)
    PROVE  IInv'
  <1>1. calls[i] # None /\ calls[i].pc = "spill"
    BY DEF Spill, At
  <1>2. /\ calls[i] \in Call /\ CallAt(i, calls[i])
        /\ job.ver \in Versions
    BY <1>1, Running
  <1>3. StoredTypes' /\ Elsewhere /\ (NoFault \/ Fault) /\ tks' = tks
    BY <1>2 DEF Spill, StoredTypes, IInv, TypeOK
  <1>4. \A k \in Slices \ {i} : Spares(k)
    BY DEF Spill, Spares, IInv, TypeOK
  <1>5. ASSUME NEW pc \in {"upsert", "error"}, Goto(i, pc),
               pc = "upsert" /\ job.kind = "store" => files'[i] = job.ver
        PROVE  IInv'
    <2> PICK c : c = [calls[i] EXCEPT !.pc = pc]
      OBVIOUS
    <2>1. Moves(i, c) /\ c.pc = pc
      BY <1>1, <1>2, <1>5, GotoMoves DEF IInv, Pcs, Call
    <2>2. CallAt(i, c)
      BY <1>1, <1>2, <2>1 DEF CallAt
    <2>3. Storing /\ i <= Size[job.ver] => Progress(i, c)'
      BY <1>3, <1>5, <2>1 DEF Storing, Progress, Elsewhere
    <2>4. QED
      BY <1>1, <1>3, <1>4, <2>1, <2>2, <2>3, MoveOwn
  <1>6. CASE files' = [files EXCEPT ![i] = job.ver] /\ Goto(i, "upsert")
    BY <1>5, <1>6 DEF IInv, TypeOK
  <1>7. CASE Goto(i, IF job.kind = "store" THEN "error" ELSE "upsert")
    BY <1>5, <1>7
  <1>8. QED
    BY <1>6, <1>7 DEF Spill

\* A slice that has been stored goes on to the keys or to its tracking.
LEMMA GotoKeysMoves ==
    ASSUME IInv, NEW i \in Slices, calls[i] # None, GotoKeys(i), ~Deleting
    PROVE  \E c : /\ Moves(i, c) /\ CallAt(i, c)
                  /\ c.pc \in {"key", "ok", "track"}
                  /\ c.pc = "ok" => Attach
                  /\ c.pc = "key" => c.todo = Keys[job.ver]
                  /\ i = 1 /\ c.pc # "key" => Keys[job.ver] = {}
  <1>1. /\ calls[i] \in Call /\ CallAt(i, calls[i])
        /\ Keys[job.ver] \subseteq Peers
    BY Running
  <1>2. CASE i = 1 /\ Keys[job.ver] # {}
    <2> PICK todo : todo = Keys[job.ver]
      OBVIOUS
    <2> PICK c : c = [calls[i] EXCEPT !.pc = "key", !.todo = todo]
      OBVIOUS
    <2>1. Loop(i, "key", todo)
      BY <1>2 DEF GotoKeys
    <2>2. Moves(i, c)
      <3>1. "key" \in Pcs
        BY DEF Pcs
      <3>2. todo \in (SUBSET Slices) \cup (SUBSET Peers)
        BY <1>1
      <3>3. Moves(i, [calls[i] EXCEPT !.pc = "key", !.todo = todo])
        BY <2>1, <3>1, <3>2, LoopMoves DEF IInv
      <3>4. QED
        BY <3>3
    <2>3. c.pc = "key" /\ c.todo = Keys[job.ver]
      BY <1>1 DEF Call
    <2>4. CallAt(i, c)
      BY <1>1, <1>2, <2>3 DEF CallAt
    <2>5. QED
      BY <2>2, <2>3, <2>4
  <1>3. CASE ~ (i = 1 /\ Keys[job.ver] # {})
    <2> DEFINE pc == IF Attach THEN "ok" ELSE "track"
    <2> PICK c : c = [calls[i] EXCEPT !.pc = pc, !.todo = {}]
      OBVIOUS
    <2>1. Loop(i, pc, {})
      BY <1>3 DEF GotoKeys
    <2>2. pc \in {"ok", "track"} /\ (pc = "ok" => Attach)
      OBVIOUS
    <2> HIDE DEF pc
    <2>3. pc \in Pcs /\ {} \in (SUBSET Slices) \cup (SUBSET Peers)
      BY <2>2 DEF Pcs
    <2>4. Moves(i, c)
      BY <2>1, <2>3, LoopMoves DEF IInv
    <2>5. c.pc = pc
      BY <1>1 DEF Call
    <2>6. CallAt(i, c)
      BY <1>1, <2>2, <2>5 DEF CallAt
    <2>7. QED
      BY <1>3, <2>2, <2>4, <2>5, <2>6
  <1>4. QED
    BY <1>2, <1>3

\* A failed call keeps what it has stored.
LEMMA FailKeeps ==
    ASSUME IInv, NEW i \in Slices, calls[i] # None,
           calls[i].pc \notin {"select", "check", "ok", "error"},
           Goto(i, "error"), Elsewhere, NoFault \/ Fault, StoredTypes',
           \A k \in Slices \ {i} : Spares(k), tks' = tks
    PROVE  IInv'
  <1> PICK c : c = [calls[i] EXCEPT !.pc = "error"]
    OBVIOUS
  <1>1. calls[i] \in Call /\ CallAt(i, calls[i])
    BY Running
  <1>2. Moves(i, c) /\ c.pc = "error"
    BY <1>1, GotoMoves DEF IInv, Pcs, Call
  <1>3. CallAt(i, c) /\ Progress(i, c)'
    BY <1>1, <1>2 DEF CallAt, Progress
  <1>4. QED
    BY <1>2, <1>3, MoveOwn

LEMMA UpsertKeeps ==
    ASSUME IInv, NEW i \in Slices, Upsert(i)
    PROVE  IInv'
  <1>1. calls[i] # None /\ calls[i].pc = "upsert"
    BY DEF Upsert, At
  <1>2. /\ calls[i] \in Call /\ CallAt(i, calls[i])
        /\ job.ver \in Versions /\ ~Deleting
        /\ Storing /\ i <= Size[job.ver] => Progress(i, calls[i])
    BY <1>1, Running DEF CallAt
  <1>3. StoredTypes' /\ Elsewhere /\ (NoFault \/ Fault) /\ tks' = tks
    <2>1. [ver |-> job.ver, inFile |-> job.ver \in Big] \in Row
      BY <1>2 DEF Row
    <2>2. rows' \in [Slices -> Row \cup {None}]
      BY <2>1 DEF Upsert, IInv, TypeOK
    <2>3. QED
      BY <2>2 DEF Upsert, StoredTypes, IInv, TypeOK
  <1>4. \A k \in Slices \ {i} : Spares(k)
    BY DEF Upsert, Spares, IInv, TypeOK
  <1>5. ASSUME rows'[i] = [ver |-> job.ver, inFile |-> job.ver \in Big],
               files' = files, Storing /\ i <= Size[job.ver]
        PROVE  Stored(i, job.ver)'
    BY <1>1, <1>2, <1>3, <1>5 DEF Stored, Elsewhere, Progress
  <1>6. CASE Goto(i, "error")
    BY <1>1, <1>3, <1>4, <1>6, FailKeeps
  <1>7. CASE /\ rows' = [rows EXCEPT ![i] = [ver |-> job.ver,
                                             inFile |-> job.ver \in Big]]
             /\ files' = files
             /\ i = 1 /\ Goto(i, "trim")
    <2> PICK c : c = [calls[i] EXCEPT !.pc = "trim"]
      OBVIOUS
    <2>1. Moves(i, c) /\ c.pc = "trim"
      BY <1>1, <1>2, <1>7, GotoMoves DEF IInv, Pcs, Call
    <2>2. CallAt(i, c)
      BY <1>2, <1>7, <2>1 DEF CallAt
    <2>3. Storing /\ i <= Size[job.ver] => Progress(i, c)'
      BY <1>5, <1>7, <2>1 DEF Progress, IInv, TypeOK
    <2>4. QED
      BY <1>1, <1>3, <1>4, <2>1, <2>2, <2>3, MoveOwn
  <1>8. CASE /\ rows' = [rows EXCEPT ![i] = [ver |-> job.ver,
                                             inFile |-> job.ver \in Big]]
             /\ files' = files
             /\ GotoKeys(i)
    <2>1. PICK c : /\ Moves(i, c) /\ CallAt(i, c)
                   /\ c.pc \in {"key", "ok", "track"}
                   /\ c.pc = "ok" => Attach
                   /\ c.pc = "key" => c.todo = Keys[job.ver]
                   /\ i = 1 /\ c.pc # "key" => Keys[job.ver] = {}
      BY <1>1, <1>2, <1>8, GotoKeysMoves
    <2>2. job' = job
      BY <1>3 DEF Elsewhere
    <2>3. Storing /\ i <= Size[job.ver] => Progress(i, c)'
      BY <1>5, <1>8, <2>1, <2>2 DEF Progress, Keyed, IInv, TypeOK
    <2>4. QED
      BY <1>1, <1>3, <1>4, <2>1, <2>3, MoveOwn
  <1>9. QED
    BY <1>6, <1>7, <1>8 DEF Upsert

LEMMA TrimKeeps ==
    ASSUME IInv, NEW i \in Slices, Trim(i)
    PROVE  IInv'
  <1> PICK c : c = [calls[i] EXCEPT !.pc = "trimtrack", !.todo = Extra(i)]
    OBVIOUS
  <1>1. calls[i] # None /\ calls[i].pc = "trim"
    BY DEF Trim, At
  <1>2. /\ calls[i] \in Call /\ CallAt(i, calls[i])
        /\ Size[job.ver] \in Slices
        /\ Storing /\ i <= Size[job.ver] => Progress(i, calls[i])
    BY <1>1, Running
  <1>3. Extra(i) \subseteq Beyond(i) /\ Beyond(i) \subseteq Slices
    BY <1>2, StoreConstantsOK DEF Extra, Beyond, Call
  <1>4. StoredTypes' /\ Elsewhere /\ (NoFault \/ Fault)
    BY DEF Trim, Unchecked, StoredTypes, IInv, TypeOK
  <1>5. \A k \in Slices : k <= Size[job.ver] => Spares(k)
    BY <1>2, StoreConstantsOK DEF Trim, Unchecked, Beyond, Spares
  <1>6. Moves(i, c) /\ c.pc = "trimtrack" /\ c.todo = Extra(i)
    <2>1. Loop(i, "trimtrack", Extra(i)) /\ "trimtrack" \in Pcs
      BY DEF Trim, Pcs
    <2>2. Extra(i) \in (SUBSET Slices) \cup (SUBSET Peers)
      BY <1>3
    <2>3. Moves(i, [calls[i] EXCEPT !.pc = "trimtrack", !.todo = Extra(i)])
      BY <1>1, <2>1, <2>2, LoopMoves DEF IInv
    <2>4. QED
      BY <1>2, <2>3 DEF Call
  <1>7. CallAt(i, c)
    BY <1>1, <1>2, <1>3, <1>6 DEF CallAt
  <1>8. i = 1
    BY <1>1, <1>2 DEF CallAt
  <1>9. Storing => Progress(i, c)'
    <2>1. i <= Size[job.ver] /\ job' = job
      BY <1>2, <1>4, <1>8, StoreConstantsOK DEF Elsewhere
    <2>2. Spares(i)
      BY <1>5, <2>1
    <2>3. QED
      BY <1>1, <1>2, <1>6, <2>1, <2>2 DEF Progress, Stored, Spares
  <1>10. QED
    BY <1>1, <1>4, <1>5, <1>6, <1>7, <1>8, <1>9, MoveFirst

LEMMA UntrackKeeps ==
    ASSUME IInv, NEW i \in Slices, Untrack(i)
    PROVE  IInv'
  <1>1. calls[i] # None /\ calls[i].pc \in {"untrack", "trimtrack"}
    BY DEF Untrack, At
  <1>2. /\ calls[i] \in Call /\ CallAt(i, calls[i]) /\ job \in Job
        /\ Size[job.ver] \in Slices
        /\ Storing /\ i <= Size[job.ver] => Progress(i, calls[i])
    BY <1>1, Running
  <1>3. i = 1 /\ (Storing => calls[i].pc = "trimtrack")
    BY <1>1, <1>2 DEF CallAt, Storing, Deleting
  <1>4. calls[i].todo \subseteq Slices
    BY <1>1, <1>2 DEF CallAt, Beyond
  <1>5. PICK k \in calls[i].todo :
          \/ /\ pts' = [pts EXCEPT ![k] = 0]
             /\ CASE calls[i].todo \ {k} # {} ->
                       Loop(i, calls[i].pc, calls[i].todo \ {k})
                  [] calls[i].todo \ {k} = {} /\ At(i, "untrack") ->
                       Loop(i, "ok", {})
                  [] OTHER -> GotoKeys(i)
          \/ /\ pts' \in {pts, [pts EXCEPT ![k] = 0]}
             /\ Goto(i, "error")
    BY DEF Untrack
  <1>6. StoredTypes' /\ Elsewhere /\ (NoFault \/ Fault)
    BY <1>4, <1>5 DEF Untrack, StoredTypes, IInv, TypeOK
  <1>7. rows' = rows /\ files' = files /\ tks' = tks /\ job' = job
    BY DEF Untrack, Elsewhere
  <1>8. Storing => \A j \in Slices : j <= Size[job.ver] => Spares(j)
    <2> SUFFICES ASSUME Storing, NEW j \in Slices, j <= Size[job.ver]
                 PROVE  Spares(j)
      OBVIOUS
    <2>1. Size[job.ver] < k
      BY <1>2, <1>3 DEF CallAt, Beyond
    <2>2. k # j
      BY <1>2, <2>1, StoreConstantsOK
    <2>3. QED
      BY <1>4, <1>5, <1>7, <2>2 DEF Spares, IInv, TypeOK
  \* It is enough to say where the goroutine goes.
  <1>9. ASSUME NEW c, Moves(i, c), CallAt(i, c),
               Storing => c.pc \in {"trimtrack", "error", "key", "ok", "track"},
               Storing /\ c.pc = "ok" => Attach,
               Storing /\ c.pc = "key" => c.todo = Keys[job.ver],
               Storing /\ c.pc \in {"ok", "track"} => Keys[job.ver] = {}
        PROVE  IInv'
    <2>1. ASSUME Storing
          PROVE  Progress(i, c)'
      <3>1. i <= Size[job.ver]
        BY <1>2, <1>3, StoreConstantsOK
      <3>2. Stored(i, job.ver)
        BY <1>1, <1>2, <1>3, <2>1, <3>1 DEF Progress
      <3>3. Stored(i, job.ver)'
        BY <1>7, <3>2 DEF Stored
      <3>4. QED
        BY <1>7, <1>9, <2>1, <3>3 DEF Progress, Keyed
    <2>2. QED
      BY <1>1, <1>3, <1>6, <1>8, <1>9, <2>1, MoveFirst
  <1>10. CASE Goto(i, "error")
    <2> PICK c : c = [calls[i] EXCEPT !.pc = "error"]
      OBVIOUS
    <2>1. Moves(i, c) /\ c.pc = "error"
      BY <1>1, <1>2, <1>10, GotoMoves DEF IInv, Pcs, Call
    <2>2. CallAt(i, c)
      BY <1>2, <2>1 DEF CallAt
    <2>3. QED
      BY <1>9, <2>1, <2>2
  <1>11. CASE Loop(i, calls[i].pc, calls[i].todo \ {k})
    <2> PICK rest : rest = calls[i].todo \ {k}
      OBVIOUS
    <2> PICK c : c = [calls[i] EXCEPT !.pc = calls[i].pc, !.todo = rest]
      OBVIOUS
    <2>1. Moves(i, c)
      <3>1. calls[i].pc \in Pcs /\ Loop(i, calls[i].pc, rest)
        BY <1>1, <1>11 DEF Pcs
      <3>2. rest \in (SUBSET Slices) \cup (SUBSET Peers)
        BY <1>4
      <3>3. Moves(i, [calls[i] EXCEPT !.pc = calls[i].pc, !.todo = rest])
        BY <1>1, <3>1, <3>2, LoopMoves DEF IInv
      <3>4. QED
        BY <3>3
    <2>2. c.pc = calls[i].pc /\ c.todo = rest
      BY <1>2 DEF Call
    <2>3. CallAt(i, c)
      BY <1>1, <1>2, <2>2 DEF CallAt
    <2>4. QED
      BY <1>1, <1>3, <1>9, <2>1, <2>2, <2>3
  <1>12. CASE At(i, "untrack") /\ Loop(i, "ok", {})
    <2> PICK c : c = [calls[i] EXCEPT !.pc = "ok", !.todo = {}]
      OBVIOUS
    <2>1. Moves(i, c)
      <3>1. "ok" \in Pcs /\ {} \in (SUBSET Slices) \cup (SUBSET Peers)
        BY DEF Pcs
      <3>2. Moves(i, [calls[i] EXCEPT !.pc = "ok", !.todo = {}])
        BY <1>1, <1>12, <3>1, LoopMoves DEF IInv
      <3>3. QED
        BY <3>2
    <2>2. c.pc = "ok"
      BY <1>2 DEF Call
    <2>3. CallAt(i, c) /\ ~Storing
      BY <1>2, <1>3, <1>12, <2>2 DEF CallAt, At
    <2>4. QED
      BY <1>9, <2>1, <2>3
  <1>13. CASE ~At(i, "untrack") /\ GotoKeys(i)
    <2>1. ~Deleting
      BY <1>1, <1>2, <1>13 DEF CallAt, At
    <2>2. PICK c : /\ Moves(i, c) /\ CallAt(i, c)
                   /\ c.pc \in {"key", "ok", "track"}
                   /\ c.pc = "ok" => Attach
                   /\ c.pc = "key" => c.todo = Keys[job.ver]
                   /\ i = 1 /\ c.pc # "key" => Keys[job.ver] = {}
      BY <1>1, <1>13, <2>1, GotoKeysMoves
    <2>3. QED
      BY <1>3, <1>9, <2>2
  <1>14. QED
    BY <1>5, <1>10, <1>11, <1>12, <1>13

LEMMA KeyKeeps ==
    ASSUME IInv, NEW i \in Slices, Key(i)
    PROVE  IInv'
  <1>1. calls[i] # None /\ calls[i].pc = "key"
    BY DEF Key, At
  <1>2. /\ calls[i] \in Call /\ CallAt(i, calls[i])
        /\ job.ver \in Versions /\ Keys[job.ver] \subseteq Peers
        /\ Storing /\ i <= Size[job.ver] => Progress(i, calls[i])
    BY <1>1, Running
  <1>3. i = 1 /\ calls[i].todo \subseteq Keys[job.ver]
    BY <1>1, <1>2 DEF CallAt
  <1>4. \A k \in Slices : Spares(k)
    BY DEF Key, Spares
  <1>5. StoredTypes' /\ Elsewhere /\ (NoFault \/ Fault)
    BY <1>2, <1>3 DEF Key, StoredTypes, IInv, TypeOK
  <1>6. CASE Goto(i, "error") /\ UNCHANGED tks
    BY <1>1, <1>4, <1>5, <1>6, FailKeeps
  <1>7. ASSUME NEW p \in calls[i].todo, tks' = [tks EXCEPT ![p] = job.ver],
               NEW pc, pc = IF calls[i].todo \ {p} # {} THEN "key"
                            ELSE IF Attach THEN "ok" ELSE "track",
               Loop(i, pc, calls[i].todo \ {p})
        PROVE  IInv'
    <2> PICK rest : rest = calls[i].todo \ {p}
      OBVIOUS
    <2> PICK c : c = [calls[i] EXCEPT !.pc = pc, !.todo = rest]
      OBVIOUS
    <2>1. pc \in Pcs /\ pc \in {"key", "ok", "track"}
      BY <1>7 DEF Pcs
    <2>2. Moves(i, c)
      <3>1. rest \in (SUBSET Slices) \cup (SUBSET Peers)
        BY <1>2, <1>3
      <3>2. Moves(i, [calls[i] EXCEPT !.pc = pc, !.todo = rest])
        BY <1>1, <1>7, <2>1, <3>1, LoopMoves DEF IInv
      <3>3. QED
        BY <3>2
    <2>3. c.pc = pc /\ c.todo = rest
      BY <1>2 DEF Call
    <2>4. CallAt(i, c)
      BY <1>1, <1>2, <1>3, <2>1, <2>3 DEF CallAt
    <2>5. ASSUME Storing, i <= Size[job.ver]
          PROVE  Progress(i, c)'
      <3>1. job' = job /\ Stored(i, job.ver)'
        BY <1>1, <1>2, <1>4, <1>5, <2>5
           DEF Progress, Stored, Spares, Elsewhere
      <3>2. \A q \in Keys[job.ver] \ rest : tks'[q] = job.ver
        BY <1>1, <1>2, <1>3, <1>7, <2>5 DEF Progress, Keyed, IInv, TypeOK
      <3>3. pc # "key" => rest = {}
        BY <1>7
      <3>4. pc = "ok" => Attach
        BY <1>7
      <3>5. QED
        BY <2>1, <2>3, <3>1, <3>2, <3>3, <3>4 DEF Progress, Keyed
    <2>6. QED
      BY <1>1, <1>3, <1>4, <1>5, <2>2, <2>4, <2>5, MoveOwn
  <1>8. QED
    BY <1>6, <1>7 DEF Key

LEMMA TrackKeeps ==
    ASSUME IInv, NEW i \in Slices, Track(i)
    PROVE  IInv'
  <1>1. calls[i] # None /\ calls[i].pc = "track"
    BY DEF Track, At
  <1>2. /\ calls[i] \in Call /\ CallAt(i, calls[i])
        /\ job.ver \in Versions
        /\ Storing /\ i <= Size[job.ver] => Progress(i, calls[i])
    BY <1>1, Running
  <1>3. \A k \in Slices \ {i} : Spares(k)
    BY DEF Track, Spares, IInv, TypeOK
  <1>4. StoredTypes' /\ Elsewhere /\ (NoFault \/ Fault) /\ tks' = tks
    BY <1>2 DEF Track, StoredTypes, IInv, TypeOK
  <1>5. CASE Goto(i, "error")
    BY <1>1, <1>3, <1>4, <1>5, FailKeeps
  <1>6. CASE Goto(i, "ok") /\ pts' = [pts EXCEPT ![i] = job.ver]
    <2> PICK c : c = [calls[i] EXCEPT !.pc = "ok"]
      OBVIOUS
    <2>1. Moves(i, c) /\ c.pc = "ok"
      BY <1>1, <1>2, <1>6, GotoMoves DEF IInv, Pcs, Call
    <2>2. CallAt(i, c)
      BY <1>2, <2>1 DEF CallAt
    <2>3. ASSUME Storing, i <= Size[job.ver]
          PROVE  Progress(i, c)'
      <3>1. job' = job /\ Stored(i, job.ver)'
        BY <1>1, <1>2, <1>4, <2>3 DEF Track, Progress, Stored, Elsewhere
      <3>2. i = 1 => Keyed(Keys[job.ver], job.ver)'
        BY <1>1, <1>2, <1>4, <2>3, <3>1 DEF Progress, Keyed
      <3>3. pts'[i] = job.ver
        BY <1>6 DEF IInv, TypeOK
      <3>4. QED
        BY <2>1, <3>1, <3>2, <3>3 DEF Progress, Keyed
    <2>4. QED
      BY <1>1, <1>3, <1>4, <2>1, <2>2, <2>3, MoveOwn
  <1>7. QED
    BY <1>5, <1>6 DEF Track

----------------------------------------------------------------------------
(* The jobs.                                                               *)

LEMMA NewCallType ==
    ASSUME NEW pc \in Pcs, NEW old \in 0 .. MaxSlices
    PROVE  NewCall(pc, old) \in Call /\ NewCall(pc, old).pc = pc
  BY DEF NewCall, Call

LEMMA StoreValueKeeps ==
    ASSUME IInv, NEW v \in Versions, StoreValue(v)
    PROVE  IInv'
  <1> DEFINE c == NewCall("check", 0)
  <1>1. c \in Call /\ c.pc = "check"
    BY NewCallType, StoreConstantsOK DEF Pcs
  <1> HIDE DEF c
  <1>2. /\ UNCHANGED stored
        /\ job' = [kind |-> "store", ver |-> v]
        /\ calls' = [i \in Slices |-> IF i <= Size[v] THEN c ELSE None]
        /\ used' = used \cup {v}
        /\ current' = IF v > current THEN 0 ELSE current
    BY DEF StoreValue, Start, c
  <1>3. job' \in Job /\ job' # None
    BY <1>2, NoneOK DEF Job
  <1>4. TypeOK'
    <2>1. calls' \in [Slices -> Call \cup {None}]
      BY <1>1, <1>2
    <2>2. late' \in 0 .. MaxLate
      BY StoreConstantsOK DEF StoreValue, IInv, TypeOK
    <2>3. QED
      BY <1>2, <1>3, <2>1, <2>2
         DEF StoreValue, Start, stored, IInv, TypeOK
  <1>5. Size[v] \in Slices
    BY SizeType
  <1>6. CallInv'
    <2> SUFFICES ASSUME NEW i \in Slices, calls'[i] # None
                 PROVE  CallAt(i, calls[i])'
      BY DEF CallInv
    <2>1. calls'[i] = c /\ i <= Size[v]
      BY <1>2
    <2>2. QED
      BY <1>1, <1>2, <1>3, <2>1 DEF CallAt
  <1>7. StoreInv'
    <2> SUFFICES ASSUME NEW i \in 1 .. Size[v]
                 PROVE  calls'[i] # None /\ Progress(i, calls[i])'
      BY <1>2 DEF StoreInv
    <2>1. i \in Slices /\ i <= Size[v]
      BY <1>5, StoreConstantsOK
    <2>2. calls'[i] = c /\ c # None
      BY <1>1, <1>2, <2>1, NoneOK
    <2>3. QED
      BY <1>1, <2>2 DEF Progress
  <1>8. CurrentInv'
    <2> SUFFICES ASSUME current' # 0
                 PROVE  CurrentInv'
      BY DEF CurrentInv
    <2>1. current' = current /\ v <= current /\ current \in Versions
      BY <1>2, StoreConstantsOK DEF IInv, TypeOK
    <2>2. /\ current \in used' /\ current \notin Deletes
          /\ \A i \in 1 .. Size[current] : Kept(i, current)'
          /\ Keyed(Keys[current], current)'
      BY <1>2, <2>1
         DEF IInv, CurrentInv, Kept, Stored, Keyed, stored
    <2>3. ASSUME NEW i \in 1 .. Size[current], calls'[i] # None
          PROVE  TurnedDown(calls[i])'
      <3>1. Size[current] \in Slices
        BY <2>1, SizeType
      <3>2. i \in Slices
        BY <3>1, StoreConstantsOK
      <3>3. calls'[i] = c
        BY <1>2, <2>3, <3>2
      <3>4. QED
        BY <1>1, <1>2, <3>3 DEF TurnedDown
    <2>4. QED
      BY <1>2, <2>1, <2>2, <2>3 DEF CurrentInv
  <1>9. QED
    BY <1>4, <1>6, <1>7, <1>8 DEF IInv

LEMMA PutLocalKeeps ==
    ASSUME IInv, NEW v \in Versions, NEW i \in Slices, PutLocal(v, i)
    PROVE  IInv'
  <1> DEFINE c == NewCall("select", 0)
  <1>1. c \in Call /\ c.pc = "select"
    BY NewCallType, StoreConstantsOK DEF Pcs
  <1> HIDE DEF c
  <1>2. /\ UNCHANGED stored /\ used' = used
        /\ job' = [kind |-> "repair", ver |-> v]
        /\ calls' = [NoCalls EXCEPT ![i] = c]
        /\ current' = IF v > current THEN 0 ELSE current
        /\ i <= Size[v]
    BY DEF PutLocal, Start, c
  <1>3. job' \in Job /\ job' # None
    BY <1>2, NoneOK DEF Job
  <1>4. /\ calls' \in [Slices -> Call \cup {None}]
        /\ \A k \in Slices : calls'[k] # None => k = i /\ calls'[k] = c
    BY <1>1, <1>2 DEF NoCalls
  <1>5. TypeOK'
    <2>1. repairs' \in 0 .. MaxRepairs
      BY StoreConstantsOK DEF PutLocal, IInv, TypeOK
    <2>2. QED
      BY <1>2, <1>3, <1>4, <2>1
         DEF PutLocal, Start, stored, IInv, TypeOK
  <1>6. CallInv'
    <2> SUFFICES ASSUME NEW k \in Slices, calls'[k] # None
                 PROVE  CallAt(k, calls[k])'
      BY DEF CallInv
    <2>1. calls'[k] = c /\ k = i
      BY <1>4
    <2>2. QED
      BY <1>1, <1>2, <1>3, <2>1 DEF CallAt
  <1>7. StoreInv'
    BY <1>2 DEF StoreInv, Storing
  <1>8. CurrentInv'
    <2> SUFFICES ASSUME current' # 0
                 PROVE  CurrentInv'
      BY DEF CurrentInv
    <2>1. current' = current /\ v <= current /\ current \in Versions
      BY <1>2, StoreConstantsOK DEF IInv, TypeOK
    <2>2. /\ current \in used' /\ current \notin Deletes
          /\ \A k \in 1 .. Size[current] : Kept(k, current)'
          /\ Keyed(Keys[current], current)'
      BY <1>2, <2>1
         DEF IInv, CurrentInv, Kept, Stored, Keyed, stored
    <2>3. ASSUME NEW k \in 1 .. Size[current], calls'[k] # None
          PROVE  TurnedDown(calls[k])'
      <3>1. Size[current] \in Slices
        BY <2>1, SizeType
      <3>2. k \in Slices
        BY <3>1, StoreConstantsOK
      <3>3. calls'[k] = c
        BY <1>4, <2>3, <3>2
      <3>4. QED
        BY <1>1, <1>2, <3>3 DEF TurnedDown
    <2>4. QED
      BY <1>2, <2>1, <2>2, <2>3 DEF CurrentInv
  <1>9. QED
    BY <1>5, <1>6, <1>7, <1>8 DEF IInv

LEMMA DeleteExpiredDBKeeps ==
    ASSUME IInv, DeleteExpiredDB
    PROVE  IInv'
  <1> PICK v : v = rows[1].ver
    OBVIOUS
  <1> DEFINE c == NewCall("clear", Size[v])
  <1>1. 1 \in Slices
    BY StoreConstantsOK
  <1>2. v \in Versions
    BY <1>1 DEF DeleteExpiredDB, IInv, TypeOK, Row
  <1>3. c \in Call /\ c.pc = "clear"
    BY <1>2, NewCallType, SizeType DEF Pcs
  <1> HIDE DEF c
  <1>4. /\ UNCHANGED stored /\ used' = used
        /\ job' = [kind |-> "expire", ver |-> v]
        /\ calls' = [NoCalls EXCEPT ![1] = c]
        /\ current' = 0
    BY DEF DeleteExpiredDB, Start, c
  <1>5. job' \in Job /\ job' # None
    BY <1>2, <1>4, NoneOK DEF Job
  <1>6. /\ calls' \in [Slices -> Call \cup {None}]
        /\ \A k \in Slices : calls'[k] # None => k = 1 /\ calls'[k] = c
    BY <1>3, <1>4 DEF NoCalls
  <1>7. TypeOK'
    <2>1. passes' \in 0 .. MaxPasses
      BY StoreConstantsOK DEF DeleteExpiredDB, IInv, TypeOK
    <2>2. QED
      BY <1>4, <1>5, <1>6, <2>1
         DEF DeleteExpiredDB, Start, stored, IInv, TypeOK
  <1>8. CallInv'
    <2> SUFFICES ASSUME NEW k \in Slices, calls'[k] # None
                 PROVE  CallAt(k, calls[k])'
      BY DEF CallInv
    <2>1. calls'[k] = c /\ k = 1
      BY <1>6
    <2>2. QED
      BY <1>3, <1>4, <1>5, <2>1 DEF CallAt, Deleting
  <1>9. StoreInv' /\ CurrentInv'
    BY <1>4 DEF StoreInv, Storing, CurrentInv
  <1>10. QED
    BY <1>7, <1>8, <1>9 DEF IInv

\* What StoreInv is for: when every goroutine of a store has returned and
\* none of them failed, the version is stored.
LEMMA FinishKeeps ==
    ASSUME IInv, Finish
    PROVE  IInv'
  <1>1. /\ UNCHANGED stored /\ UNCHANGED used /\ UNCHANGED bounds
        /\ job # None /\ job' = None /\ calls' = NoCalls
    BY DEF Finish
  <1>2. /\ job \in Job /\ job.ver \in Versions
        /\ Size[job.ver] \in Slices /\ Size[job.ver] >= 1
    BY <1>1, JobSize, StoreConstantsOK DEF IInv, Job
  <1>3. \A i \in Slices : calls'[i] = None
    BY <1>1 DEF NoCalls
  <1>4. TypeOK'
    <2>1. calls' \in [Slices -> Call \cup {None}]
      BY <1>1 DEF NoCalls
    <2>2. current' \in Versions \cup {0} /\ emptied' \in BOOLEAN
      BY <1>2 DEF Finish, IInv, TypeOK
    <2>3. QED
      BY <1>1, <2>1, <2>2 DEF stored, bounds, IInv, TypeOK
  <1>5. CallInv' /\ StoreInv'
    BY <1>1, <1>3 DEF CallInv, StoreInv, Storing
  <1>6. ASSUME current' = current
        PROVE  CurrentInv'
    <2> SUFFICES ASSUME current' # 0
                 PROVE  CurrentInv'
      BY DEF CurrentInv
    <2>1. /\ current \in used' /\ current \notin Deletes
          /\ \A k \in 1 .. Size[current] : Kept(k, current)'
          /\ Keyed(Keys[current], current)'
      BY <1>1, <1>6
         DEF IInv, CurrentInv, Kept, Stored, Keyed, stored
    <2>2. QED
      BY <1>1, <1>6, <2>1 DEF CurrentInv
  <1>7. ASSUME current' = job.ver, job.kind = "store",
               job.ver \notin Deletes,
               \A i \in Slices : calls[i] # None => calls[i].pc = "ok"
        PROVE  CurrentInv'
    <2> PICK v : v = job.ver
      OBVIOUS
    <2>1. ASSUME NEW i \in 1 .. Size[v]
          PROVE  /\ i \in Slices /\ calls[i] # None /\ calls[i].pc = "ok"
                 /\ Progress(i, calls[i]) /\ CallAt(i, calls[i])
      <3>1. i \in Slices
        BY <1>2, StoreConstantsOK
      <3>2. calls[i] # None /\ Progress(i, calls[i])
        BY <1>1, <1>7 DEF IInv, StoreInv, Storing
      <3>3. QED
        BY <1>7, <3>1, <3>2 DEF IInv, CallInv
    <2>2. \A i \in 1 .. Size[v] : Kept(i, v)'
      BY <1>1, <2>1 DEF Progress, Kept, Stored, stored
    <2>3. 1 \in 1 .. Size[v]
      BY <1>2
    <2>4. calls[1].pc = "ok" /\ Progress(1, calls[1]) /\ CallAt(1, calls[1])
      BY <2>1, <2>3
    <2>5. v \in used /\ Keyed(Keys[v], v)
      BY <1>7, <2>4 DEF Progress, CallAt
    <2>6. Keyed(Keys[v], v)'
      BY <1>1, <2>5 DEF Keyed, stored
    <2>7. QED
      BY <1>1, <1>7, <2>2, <2>5, <2>6 DEF CurrentInv, Kept, Stored, Keyed
  <1>8. CurrentInv'
    BY <1>6, <1>7 DEF Finish
  <1>9. QED
    BY <1>4, <1>5, <1>8 DEF IInv

LEMMA CrashKeeps ==
    ASSUME IInv, Crash
    PROVE  IInv'
  <1>1. /\ UNCHANGED stored /\ UNCHANGED history
        /\ UNCHANGED <<repairs, passes, late>>
        /\ job' = None /\ calls' = NoCalls
    BY DEF Crash
  <1>2. TypeOK'
    <2>1. calls' \in [Slices -> Call \cup {None}]
      BY <1>1 DEF NoCalls
    <2>2. faults' \in 0 .. MaxFaults
      BY StoreConstantsOK DEF Crash, Fault, IInv, TypeOK
    <2>3. QED
      BY <1>1, <2>1, <2>2 DEF stored, history, IInv, TypeOK
  <1>3. CallInv' /\ StoreInv'
    BY <1>1 DEF CallInv, StoreInv, Storing, NoCalls
  <1>4. CurrentInv'
    BY <1>1
       DEF IInv, CurrentInv, Kept, Stored, Keyed, stored, history
  <1>5. QED
    BY <1>2, <1>3, <1>4 DEF IInv

----------------------------------------------------------------------------
(* The theorems.                                                           *)

\* Init establishes the invariant and every step of Next keeps it.
THEOREM Inductive == Spec => []IInv
  <1>1. ASSUME Init
        PROVE  IInv
    <2>1. TypeOK
      <3>1. 0 \in 0 .. MaxFaults /\ 0 \in 0 .. MaxRepairs
        BY StoreConstantsOK
      <3>2. 0 \in 0 .. MaxPasses /\ 0 \in 0 .. MaxLate
        BY StoreConstantsOK
      <3>3. QED
        BY <1>1, <3>1, <3>2 DEF Init, TypeOK
    <2>2. CallInv /\ StoreInv /\ CurrentInv
      BY <1>1 DEF Init, CallInv, StoreInv, Storing, CurrentInv
    <2>3. QED
      BY <2>1, <2>2 DEF IInv
  <1>2. ASSUME IInv, [Next]_vars
        PROVE  IInv'
    <2>1. CASE \E v \in Versions : StoreValue(v)
      BY <1>2, <2>1, StoreValueKeeps
    <2>2. CASE \E v \in Versions, i \in Slices : PutLocal(v, i)
      BY <1>2, <2>2, PutLocalKeeps
    <2>3. CASE DeleteExpiredDB
      BY <1>2, <2>3, DeleteExpiredDBKeeps
    <2>4. CASE \E i \in Slices : Step(i)
      <3> PICK i \in Slices : Step(i)
        BY <2>4
      <3>1. CASE Select(i)
        BY <1>2, <3>1, SelectKeeps
      <3>2. CASE StoreCheck(i)
        BY <1>2, <3>2, StoreCheckKeeps
      <3>3. CASE ClearFiles(i)
        BY <1>2, <3>3, ClearFilesKeeps
      <3>4. CASE DropRows(i)
        BY <1>2, <3>4, DropRowsKeeps
      <3>5. CASE DropKeys(i)
        BY <1>2, <3>5, DropKeysKeeps
      <3>6. CASE Spill(i)
        BY <1>2, <3>6, SpillKeeps
      <3>7. CASE Upsert(i)
        BY <1>2, <3>7, UpsertKeeps
      <3>8. CASE Trim(i)
        BY <1>2, <3>8, TrimKeeps
      <3>9. CASE Untrack(i)
        BY <1>2, <3>9, UntrackKeeps
      <3>10. CASE Key(i)
        BY <1>2, <3>10, KeyKeeps
      <3>11. CASE Track(i)
        BY <1>2, <3>11, TrackKeeps
      <3>12. QED
        BY <3>1, <3>2, <3>3, <3>4, <3>5, <3>6, <3>7, <3>8, <3>9, <3>10,
           <3>11 DEF Step
    <2>5. CASE Finish
      BY <1>2, <2>5, FinishKeeps
    <2>6. CASE Crash
      BY <1>2, <2>6, CrashKeeps
    <2>7. CASE UNCHANGED vars
      BY <1>2, <2>7
         DEF vars, IInv, TypeOK, CallInv, CallAt, Deleting, Beyond, StoreInv,
             Storing, Progress, Stored, Keyed, CurrentInv, Kept, TurnedDown
    <2>8. QED
      BY <1>2, <2>1, <2>2, <2>3, <2>4, <2>5, <2>6, <2>7 DEF Next
  <1>3. QED
    BY <1>1, <1>2, PTL DEF Spec

\* The variables of a node's block store keep their types.
THEOREM StoreTypes == Spec => []TypeOK
  <1>1. IInv => TypeOK
    BY DEF IInv
  <1>2. QED
    BY <1>1, Inductive, PTL

\* A version of which every slice was acknowledged stays readable as it was
\* sent through failed stores, crashes, late versions and read repair.
THEOREM AcknowledgedComplete == Spec => []Complete
  <1>1. IInv => Complete
    <2> SUFFICES ASSUME IInv, current # 0
                 PROVE  Complete
      BY DEF Complete
    <2>1. \A p \in Keys[current] : tks[p] = current
      BY DEF IInv, CurrentInv, Keyed
    <2>2. ASSUME NEW i \in 1 .. Size[current]
          PROVE  /\ rows[i] # None /\ Read(i) = current
                 /\ ~Attach => pts[i] = current
      <3>1. Kept(i, current)
        BY DEF IInv, CurrentInv
      <3>2. [ver |-> current, inFile |-> current \in Big] \in Row
        BY DEF IInv, TypeOK, Row
      <3>3. rows[i] # None
        BY <3>1, <3>2, NoneOK DEF Kept, Stored
      <3>4. rows[i].ver = current /\ (rows[i].inFile => files[i] = current)
        <4> PICK f : f = (current \in Big)
          OBVIOUS
        <4>1. rows[i] = [ver |-> current, inFile |-> f]
          BY <3>1 DEF Kept, Stored
        <4>2. rows[i].ver = current /\ rows[i].inFile = f
          BY <4>1
        <4>3. QED
          BY <3>1, <4>2 DEF Kept, Stored
      <3>5. QED
        BY <3>1, <3>3, <3>4 DEF Kept, Read
    <2>3. QED
      BY <2>1, <2>2 DEF Complete
  <1>2. QED
    BY <1>1, Inductive, PTL

----------------------------------------------------------------------------
(* Versions sent in order, and no fault: the slices of a store.            *)

\* What the goroutines of other slices look at is left alone.
Same(k) == rows'[k] = rows[k] /\ pts'[k] = pts[k]

\* A slice whose row and PeerTransaction stay is as it was.
LEMMA SameKeeps ==
    ASSUME NEW k \in Slices, NEW w, Same(k)
    PROVE  (Before(k, w) => Before(k, w)') /\ (Blank(k) => Blank(k)')
  BY DEF Same, Before, RowOf, Blank, Untracked

\* Counters only count up: an orderly history has no fault in it.
LEMMA NoFaultYet ==
    ASSUME TypeOK, Elsewhere, NoFault \/ Fault, Orderly'
    PROVE  Orderly /\ NoFault
  BY StoreConstantsOK DEF TypeOK, Elsewhere, NoFault, Fault, Orderly

\* A stored slice is a row of its version.
LEMMA StoredRow ==
    ASSUME NEW k \in Slices, NEW v \in Versions, Stored(k, v)
    PROVE  rows[k] # None /\ rows[k].ver = v
  <1> PICK f : f = (v \in Big)
    OBVIOUS
  <1>1. rows[k] = [ver |-> v, inFile |-> f]
    BY DEF Stored
  <1>2. [ver |-> v, inFile |-> v \in Big] \in Row
    BY DEF Row
  <1>3. QED
    BY <1>1, <1>2, NoneOK

\* A slice the store of w has not reached is empty.
LEMMA Unreached ==
    ASSUME NEW k \in Slices, NEW w, Before(k, w), ~Has(w, k)
    PROVE  Blank(k)
  BY DEF Before, RowOf, Blank, Untracked

\* A move of one goroutine in the replacement of w.
LEMMA ReplaceMove ==
    ASSUME IInv, job # None, NEW w, Replacing(w), Elsewhere,
           NEW i \in Slices, NEW c, Moves(i, c), c.pc # "check",
           c.pc = "error" => Attach /\ i = 1 /\ RowOf(i, job.ver)',
           c.pc \in {"spill", "upsert"} => Before(i, w)' /\ Met(i, w, c),
           \A k \in Slices \ {i} : k <= Size[job.ver] \/ i # 1 => Same(k),
           i = 1 => Ahead(w, c)',
           i <= Size[job.ver]
    PROVE  Replacing(w)'
  <1>1. /\ calls'[i] = c
        /\ \A k \in Slices \ {i} : calls'[k] = calls[k]
    BY Moved DEF IInv
  <1>2. job' = job
    BY DEF Elsewhere
  <1>3. Size[job.ver] \in Slices
    BY JobSize DEF IInv
  <1>4. ASSUME NEW k \in 1 .. Size[job.ver]
        PROVE  /\ FailsOnlyAsAttach(k)'
               /\ calls'[k].pc = "error" => RowOf(k, job.ver)'
               /\ calls'[k].pc = "check" => calls'[k] = NewCall("check", 0)
               /\ calls'[k].pc \in {"check", "spill", "upsert"} =>
                    Before(k, w)'
               /\ calls'[k].pc \in {"spill", "upsert"} =>
                    Met(k, w, calls'[k])
    <2>1. k \in Slices /\ k <= Size[job.ver]
      BY <1>3, StoreConstantsOK
    <2>2. CASE k = i
      BY <1>1, <1>2, <2>2 DEF FailsOnlyAsAttach, At, RowOf
    <2>3. CASE k # i
      <3>1. calls'[k] = calls[k] /\ Same(k)
        BY <1>1, <2>1, <2>3
      <3>2. /\ FailsOnlyAsAttach(k)
            /\ calls[k].pc = "error" => RowOf(k, job.ver)
            /\ calls[k].pc = "check" => calls[k] = NewCall("check", 0)
            /\ calls[k].pc \in {"check", "spill", "upsert"} => Before(k, w)
            /\ calls[k].pc \in {"spill", "upsert"} => Met(k, w, calls[k])
        BY DEF Replacing
      <3>3. Before(k, w) => Before(k, w)'
        BY <2>1, <3>1, SameKeeps
      <3>4. QED
        BY <1>2, <3>1, <3>2, <3>3
           DEF FailsOnlyAsAttach, At, Same, RowOf
    <2>4. QED
      BY <2>2, <2>3
  <1>5. Ahead(w, calls[1])'
    <2>1. CASE i = 1
      BY <1>1, <2>1 DEF Ahead
    <2>2. CASE i # 1
      <3>1. 1 \in Slices /\ Beyond(1) \subseteq Slices
        BY StoreConstantsOK DEF Beyond
      <3>2. calls'[1] = calls[1] /\ Beyond(1)' = Beyond(1)
        BY <1>1, <1>2, <2>2, <3>1 DEF Beyond
      <3>3. \A k \in Beyond(1) : k \in Slices \ {i}
        BY <1>3, <3>1, StoreConstantsOK DEF Beyond
      <3>4. \A k \in Beyond(1) : Same(k)
        BY <2>2, <3>3
      <3>5. \A k \in Beyond(1) :
              (Before(k, w) => Before(k, w)') /\ (Blank(k) => Blank(k)')
        BY <3>1, <3>4, SameKeeps
      <3>6. Ahead(w, calls[1])
        BY DEF Replacing
      <3>7. QED
        BY <3>2, <3>4, <3>5, <3>6 DEF Ahead, Same, Untracked
    <2>3. QED
      BY <2>1, <2>2
  <1>6. w < job'.ver
    BY <1>2 DEF Replacing
  <1>7. QED
    BY <1>2, <1>4, <1>5, <1>6 DEF Replacing, Met, RowOf


\* A goroutine that runs in a replacement, and what is known of its slice.
LEMMA ReplaceRunning ==
    ASSUME IInv, ~Deleting, job.kind # "repair", NEW w, Replacing(w),
           NEW i \in Slices, calls[i] # None
    PROVE  /\ job # None /\ job.kind = "store" /\ job.ver \notin Deletes
           /\ calls[i] \in Call /\ CallAt(i, calls[i])
           /\ job.ver \in Versions /\ Size[job.ver] \in Slices
           /\ i <= Size[job.ver]
           /\ calls[i].pc = "check" => calls[i] = NewCall("check", 0)
           /\ calls[i].pc \in {"check", "spill", "upsert"} => Before(i, w)
           /\ calls[i].pc \in {"spill", "upsert"} => Met(i, w, calls[i])
           /\ i = 1 => Ahead(w, calls[i])
           /\ w < job.ver
           /\ \A k \in Beyond(1) : k \in Slices \ {i}
  <1>1. /\ calls[i] \in Call /\ CallAt(i, calls[i])
        /\ job \in Job /\ job.ver \in Versions /\ Size[job.ver] \in Slices
    BY Running
  <1>2. job # None /\ job.kind = "store" /\ job.ver \notin Deletes
    BY <1>1 DEF CallAt, Deleting, Job
  <1>3. i <= Size[job.ver]
    BY <1>1, <1>2 DEF CallAt
  <1>4. i \in 1 .. Size[job.ver]
    BY <1>1, <1>3, StoreConstantsOK
  <1>5. \A k \in Beyond(1) : k \in Slices \ {i}
    BY <1>1, <1>3, StoreConstantsOK DEF Beyond
  <1>6. QED
    BY <1>1, <1>2, <1>3, <1>4, <1>5 DEF Replacing

\* The checks find what version w has left of the slice and let it pass.
LEMMA CheckReplaces ==
    ASSUME IInv, ~Deleting, job.kind # "repair", NEW w \in used \cup {0},
           Replacing(w), NoFault, NEW i \in Slices, StoreCheck(i)
    PROVE  Replacing(w)'
  <1>1. calls[i] # None /\ calls[i].pc = "check"
    BY DEF StoreCheck, At
  <1>2. /\ job # None /\ job.kind = "store" /\ job.ver \notin Deletes
        /\ calls[i] \in Call /\ calls[i] = NewCall("check", 0)
        /\ job.ver \in Versions /\ Size[job.ver] \in Slices
        /\ i <= Size[job.ver] /\ Before(i, w) /\ w < job.ver
        /\ i = 1 => Ahead(w, calls[i])
        /\ \A k \in Beyond(1) : k \in Slices \ {i}
    BY <1>1, ReplaceRunning
  <1>3. calls[i].found = FALSE /\ calls[i].old = 0
    BY <1>2 DEF NewCall
  <1>4. w \in Nat /\ (w # 0 => w \in Versions)
    BY StoreConstantsOK DEF IInv, TypeOK
  <1>5. \A k \in Slices : Same(k) /\ (Before(k, w) => Before(k, w)')
    BY SameKeeps DEF StoreCheck, stored, Same
  <1>6. Elsewhere /\ job' = job
    BY DEF StoreCheck, Elsewhere
  <1>7. Spills \in {"spill", "upsert"}
    BY DEF Spills
  <1> PICK pc : pc = Spills
    OBVIOUS
  <1>8. ASSUME NEW c, Moves(i, c), c.pc = pc, Met(i, w, c)
        PROVE  Replacing(w)'
    <2>1. i = 1 => Ahead(w, c)'
      <3>1. i = 1 => \A k \in Beyond(1) : Before(k, w)'
        BY <1>1, <1>2, <1>5 DEF Ahead
      <3>2. Beyond(1)' = Beyond(1)
        BY <1>6 DEF Beyond
      <3>3. QED
        BY <1>7, <1>8, <3>1, <3>2 DEF Ahead
    <2>2. QED
      BY <1>2, <1>5, <1>6, <1>7, <1>8, <2>1, ReplaceMove
  <1>9. CASE rows[i] = None /\ Goto(i, Spills)
    <2>1. ~Has(w, i)
      BY <1>2, <1>9 DEF Before, RowOf
    <2> PICK c : c = [calls[i] EXCEPT !.pc = pc]
      OBVIOUS
    <2>2. Moves(i, c)
      BY <1>1, <1>7, <1>9, GotoMoves DEF IInv, Pcs
    <2>3. c.pc = pc /\ c.found = FALSE /\ c.old = 0
      BY <1>2, <1>3 DEF Call
    <2>4. QED
      BY <1>8, <2>1, <2>2, <2>3 DEF Met
  <1>10. CASE /\ rows[i] # None
              /\ calls' = [calls EXCEPT ![i].pc = Spills, ![i].found = TRUE,
                                        ![i].old = Size[rows[i].ver]]
    <2>1. Has(w, i) /\ rows[i].ver = w
      BY <1>2, <1>10 DEF Before, RowOf
    <2>2. Size[w] \in 0 .. MaxSlices
      BY <1>4, <2>1, SizeType DEF Has
    <2> PICK c : c = [calls[i] EXCEPT !.pc = pc, !.found = TRUE,
                                      !.old = Size[w]]
      OBVIOUS
    <2>3. c \in Call /\ c.pc = pc /\ c.found = TRUE /\ c.old = Size[w]
      BY <1>2, <1>7, <2>2 DEF Call, Pcs
    <2>4. calls' = [calls EXCEPT ![i] = [@ EXCEPT !.pc = pc, !.found = TRUE,
                                                  !.old = Size[w]]]
      BY <1>10, <2>1
    <2>5. Moves(i, c)
      BY <2>3, <2>4 DEF Moves, IInv, TypeOK
    <2>6. QED
      BY <1>8, <2>1, <2>3, <2>5 DEF Met
  <1>11. rows[i] # None => ~ (job.ver <= rows[i].ver)
    <2>1. job.ver \in Nat
      BY <1>2, StoreConstantsOK
    <2>2. rows[i] # None => rows[i].ver = w
      BY <1>2 DEF Before, RowOf
    <2>3. QED
      BY <1>2, <1>4, <2>1, <2>2
  <1>12. ~Fault
    BY StoreConstantsOK DEF NoFault, Fault, IInv, TypeOK
  <1>13. QED
    BY <1>2, <1>9, <1>10, <1>11, <1>12 DEF StoreCheck

\* The payload goes to FileContent first: the row is still that of w.
LEMMA SpillReplaces ==
    ASSUME IInv, ~Deleting, job.kind # "repair", NEW w, Replacing(w),
           NoFault, NEW i \in Slices, Spill(i)
    PROVE  Replacing(w)'
  <1>1. calls[i] # None /\ calls[i].pc = "spill"
    BY DEF Spill, At
  <1>2. /\ job # None /\ calls[i] \in Call
        /\ i <= Size[job.ver] /\ Before(i, w) /\ Met(i, w, calls[i])
        /\ i = 1 => Ahead(w, calls[i])
        /\ \A k \in Beyond(1) : k \in Slices \ {i}
    BY <1>1, ReplaceRunning
  <1>3. \A k \in Slices : Same(k) /\ (Before(k, w) => Before(k, w)')
    BY SameKeeps DEF Spill, Same
  <1>4. Elsewhere /\ job' = job
    BY DEF Spill, Elsewhere
  <1>5. ~Fault
    BY StoreConstantsOK DEF NoFault, Fault, IInv, TypeOK
  <1> PICK c : c = [calls[i] EXCEPT !.pc = "upsert"]
    OBVIOUS
  <1>6. Moves(i, c)
    BY <1>1, <1>5, GotoMoves DEF Spill, IInv, Pcs
  <1>7. c.pc = "upsert" /\ Met(i, w, c)
    BY <1>2 DEF Call, Met
  <1>8. i = 1 => Ahead(w, c)'
    <2>1. i = 1 => \A k \in Beyond(1) : Before(k, w)'
      BY <1>1, <1>2, <1>3 DEF Ahead
    <2>2. Beyond(1)' = Beyond(1)
      BY <1>4 DEF Beyond
    <2>3. QED
      BY <1>7, <2>1, <2>2 DEF Ahead
  <1>9. QED
    BY <1>2, <1>3, <1>4, <1>6, <1>7, <1>8, ReplaceMove

\* The row is replaced; when w is no longer than the new version, nothing
\* of w is left beyond it.
LEMMA UpsertReplaces ==
    ASSUME IInv, ~Deleting, job.kind # "repair", NEW w \in used \cup {0},
           Replacing(w), NoFault, NEW i \in Slices, Upsert(i)
    PROVE  Replacing(w)'
  <1>1. calls[i] # None /\ calls[i].pc = "upsert"
    BY DEF Upsert, At
  <1>2. /\ job # None /\ calls[i] \in Call /\ Size[job.ver] \in Slices
        /\ i <= Size[job.ver] /\ Before(i, w) /\ Met(i, w, calls[i])
        /\ i = 1 => Ahead(w, calls[i])
        /\ \A k \in Beyond(1) : k \in Slices \ {i}
    BY <1>1, ReplaceRunning
  <1>3. \A k \in Slices \ {i} : /\ Same(k)
                                /\ Before(k, w) => Before(k, w)'
                                /\ Blank(k) => Blank(k)'
    BY SameKeeps DEF Upsert, Same, IInv, TypeOK
  <1>4. Elsewhere /\ job' = job /\ Beyond(1)' = Beyond(1)
    BY DEF Upsert, Elsewhere, Beyond
  <1>5. ~Fault
    BY StoreConstantsOK DEF NoFault, Fault, IInv, TypeOK
  <1>6. i = 1 => \A k \in Beyond(1) : Before(k, w)
    BY <1>1, <1>2 DEF Ahead
  <1>7. CASE i = 1 /\ Size[job.ver] < calls[i].old /\ Goto(i, "trim")
    <2> PICK c : c = [calls[i] EXCEPT !.pc = "trim"]
      OBVIOUS
    <2>1. Moves(i, c)
      BY <1>1, <1>7, GotoMoves DEF IInv, Pcs
    <2>2. c.pc = "trim" /\ c.old = calls[i].old
      BY <1>2 DEF Call
    <2>3. Has(w, i) /\ calls[i].old = Size[w]
      BY <1>2, <1>7, StoreConstantsOK DEF Met
    <2>4. Ahead(w, c)'
      BY <1>2, <1>3, <1>4, <1>6, <1>7, <2>2, <2>3 DEF Ahead, Has
    <2>5. QED
      BY <1>2, <1>3, <1>4, <2>1, <2>2, <2>4, ReplaceMove
  <1>8. CASE /\ ~ (i = 1 /\ Size[job.ver] < calls[i].old)
             /\ GotoKeys(i)
    <2>1. PICK c : /\ Moves(i, c)
                   /\ c.pc \in {"key", "ok", "track"}
      BY <1>1, <1>8, GotoKeysMoves
    <2>2. ASSUME i = 1, NEW k \in Beyond(1)
          PROVE  Blank(k)'
      <3>1. k \in Slices /\ k > Size[job.ver] /\ Before(k, w)
        BY <1>2, <1>6, <2>2 DEF Beyond
      <3>2. ~Has(w, k)
        <4> SUFFICES ASSUME Has(w, k)
                     PROVE  FALSE
          OBVIOUS
        <4>1. w \in Versions /\ Size[w] \in Slices
          BY StoreConstantsOK DEF Has, IInv, TypeOK
        <4>2. Has(w, i)
          BY <2>2, <3>1, <4>1, StoreConstantsOK DEF Has
        <4>3. calls[i].old = Size[w]
          BY <1>2, <4>2 DEF Met
        <4>4. QED
          BY <1>2, <1>8, <2>2, <3>1, <4>1, <4>3, StoreConstantsOK DEF Has
      <3>3. QED
        BY <1>2, <1>3, <3>1, <3>2, Unreached
    <2>3. i = 1 => Ahead(w, c)'
      BY <1>4, <2>1, <2>2 DEF Ahead
    <2>4. QED
      BY <1>2, <1>3, <1>4, <2>1, <2>3, ReplaceMove
  <1>9. ~ (calls[i].found /\ rows[i] = None)
    BY <1>2 DEF Met, Before, RowOf
  <1>10. QED
    BY <1>5, <1>7, <1>8, <1>9 DEF Upsert

\* The rows beyond the new version go first, then their PeerTransactions.
LEMMA TrimReplaces ==
    ASSUME IInv, ~Deleting, job.kind # "repair", NEW w \in used \cup {0},
           Replacing(w), NoFault, NEW i \in Slices, Trim(i)
    PROVE  Replacing(w)'
  <1>1. calls[i] # None /\ calls[i].pc = "trim"
    BY DEF Trim, At
  <1>2. /\ job # None /\ calls[i] \in Call /\ Size[job.ver] \in Slices
        /\ CallAt(i, calls[i]) /\ i <= Size[job.ver]
        /\ i = 1 => Ahead(w, calls[i])
        /\ \A k \in Beyond(1) : k \in Slices \ {i}
    BY <1>1, ReplaceRunning
  <1>3. i = 1 /\ Beyond(i) = Beyond(1)
    BY <1>1, <1>2 DEF CallAt
  <1>4. Elsewhere /\ job' = job /\ Beyond(1)' = Beyond(1)
    BY DEF Trim, Elsewhere, Beyond
  <1>5. ~Fault
    BY StoreConstantsOK DEF NoFault, Fault, IInv, TypeOK
  <1>6. /\ rows' = [k \in Slices |-> IF k \in Beyond(1) THEN None
                                     ELSE rows[k]]
        /\ pts' = pts /\ Loop(i, "trimtrack", Extra(i))
    BY <1>3, <1>5 DEF Trim, Unchecked
  <1>7. w # 0 /\ calls[i].old = Size[w] /\ Size[w] \in Slices
        /\ \A k \in Beyond(1) : Before(k, w)
    BY <1>1, <1>2, <1>3, StoreConstantsOK DEF Ahead, IInv, TypeOK
  <1> PICK todo : todo = Extra(i)
    OBVIOUS
  <1>8. todo \in (SUBSET Slices) \cup (SUBSET Peers)
    BY <1>2, <1>7, StoreConstantsOK DEF Extra
  <1> PICK c : c = [calls[i] EXCEPT !.pc = "trimtrack", !.todo = todo]
    OBVIOUS
  <1>9. Moves(i, c)
    BY <1>1, <1>6, <1>8, LoopMoves DEF IInv, Pcs
  <1>10. c.pc = "trimtrack" /\ c.todo = todo
    BY <1>2 DEF Call
  <1>11. ASSUME NEW k \in Beyond(1), k \notin todo
         PROVE  Untracked(k)'
    <2>1. k \in Slices /\ k > Size[job.ver]
      BY <1>2, <1>11 DEF Beyond
    <2>2. ~Has(w, k)
      BY <1>2, <1>7, <1>11, <2>1, StoreConstantsOK DEF Extra, Has
    <2>3. Blank(k)
      BY <1>7, <2>1, <2>2, Unreached
    <2>4. QED
      BY <1>6, <2>3 DEF Blank, Untracked
  <1>12. \A k \in Beyond(1) : rows'[k] = None
    BY <1>2, <1>6
  <1>13. Ahead(w, c)'
    BY <1>4, <1>10, <1>11, <1>12 DEF Ahead
  <1>14. \A k \in Slices \ {i} : k <= Size[job.ver] => Same(k)
    <2> SUFFICES ASSUME NEW k \in Slices, k <= Size[job.ver]
                 PROVE  Same(k)
      OBVIOUS
    <2>1. k \notin Beyond(1)
      BY <1>2, StoreConstantsOK DEF Beyond
    <2>2. QED
      BY <1>6, <2>1 DEF Same
  <1>15. QED
    BY <1>2, <1>3, <1>4, <1>9, <1>10, <1>13, <1>14, ReplaceMove

\* Where a round of either loop over PeerTransactions may go.
UntrackedTo(i, c) ==
    \/ Attach /\ pts' = pts /\ c.pc = "error"
    \/ /\ ~Attach
       /\ \E k \in calls[i].todo :
            /\ pts' = [pts EXCEPT ![k] = 0]
            /\ \/ /\ c.pc = calls[i].pc
                  /\ c.todo = calls[i].todo \ {k}
               \/ /\ calls[i].todo = {k} /\ calls[i].pc = "untrack"
                  /\ c.pc = "ok"
               \/ /\ calls[i].todo = {k} /\ calls[i].pc = "trimtrack"
                  /\ c.pc \in {"key", "ok", "track"}

\* One round of either loop over PeerTransactions, when nothing else fails.
LEMMA UntrackMoves ==
    ASSUME IInv, NoFault, NEW i \in Slices, Untrack(i)
    PROVE  /\ calls[i] # None /\ calls[i].pc \in {"untrack", "trimtrack"}
           /\ i = 1 /\ calls[i].todo \subseteq Slices
           /\ UNCHANGED <<rows, tks>> /\ Elsewhere
           /\ \E c : Moves(i, c) /\ UntrackedTo(i, c)
  <1>1. calls[i] # None /\ calls[i].pc \in {"untrack", "trimtrack"}
    BY DEF Untrack, At
  <1>2. calls[i] \in Call /\ CallAt(i, calls[i])
    BY <1>1, Running
  <1>3. i = 1 /\ calls[i].todo \subseteq Slices
    BY <1>1, <1>2 DEF CallAt, Beyond
  <1>4. ~Fault /\ (PutPTsKnows <=> ~Attach)
    BY StoreConstantsOK DEF NoFault, Fault, PutPTsKnows, IInv, TypeOK
  <1>5. UNCHANGED <<rows, tks>> /\ Elsewhere
    BY DEF Untrack
  <1>6. CASE Attach
    <2> PICK c : c = [calls[i] EXCEPT !.pc = "error"]
      OBVIOUS
    <2>1. Goto(i, "error") /\ pts' = pts
      BY <1>4, <1>6 DEF Untrack
    <2>2. Moves(i, [calls[i] EXCEPT !.pc = "error"])
      BY <1>1, <2>1, GotoMoves DEF IInv, Pcs
    <2>3. c.pc = "error"
      BY <1>2 DEF Call
    <2>4. QED
      BY <1>1, <1>3, <1>5, <1>6, <2>1, <2>2, <2>3 DEF UntrackedTo
  <1>7. CASE ~Attach
    <2>1. PICK k \in calls[i].todo :
            /\ pts' = [pts EXCEPT ![k] = 0]
            /\ CASE calls[i].todo \ {k} # {} ->
                      Loop(i, calls[i].pc, calls[i].todo \ {k})
                 [] calls[i].todo \ {k} = {} /\ At(i, "untrack") ->
                      Loop(i, "ok", {})
                 [] OTHER -> GotoKeys(i)
      BY <1>4, <1>7 DEF Untrack
    <2> PICK rest : rest = calls[i].todo \ {k}
      OBVIOUS
    <2>2. CASE rest # {} /\ Loop(i, calls[i].pc, rest)
      <3> PICK c : c = [calls[i] EXCEPT !.pc = calls[i].pc, !.todo = rest]
        OBVIOUS
      <3>1. /\ calls[i].pc \in Pcs
            /\ rest \in (SUBSET Slices) \cup (SUBSET Peers)
        BY <1>1, <1>3 DEF Pcs
      <3>2. Moves(i, [calls[i] EXCEPT !.pc = calls[i].pc, !.todo = rest])
        BY <1>1, <2>2, <3>1, LoopMoves DEF IInv
      <3>3. c.pc = calls[i].pc /\ c.todo = rest
        BY <1>2 DEF Call
      <3>4. QED
        BY <1>1, <1>3, <1>5, <1>7, <2>1, <3>2, <3>3 DEF UntrackedTo
    <2>3. CASE rest = {} /\ At(i, "untrack") /\ Loop(i, "ok", {})
      <3> PICK c : c = [calls[i] EXCEPT !.pc = "ok", !.todo = {}]
        OBVIOUS
      <3>1. "ok" \in Pcs /\ {} \in (SUBSET Slices) \cup (SUBSET Peers)
        BY DEF Pcs
      <3>2. Moves(i, [calls[i] EXCEPT !.pc = "ok", !.todo = {}])
        BY <1>1, <2>3, <3>1, LoopMoves DEF IInv
      <3>3. c.pc = "ok" /\ calls[i].todo = {k} /\ calls[i].pc = "untrack"
        BY <1>2, <2>1, <2>3 DEF Call, At
      <3>4. QED
        BY <1>1, <1>3, <1>5, <1>7, <2>1, <3>2, <3>3 DEF UntrackedTo
    <2>4. CASE rest = {} /\ ~At(i, "untrack") /\ GotoKeys(i)
      <3>1. calls[i].todo = {k} /\ calls[i].pc = "trimtrack"
        BY <1>1, <2>1, <2>4 DEF At
      <3>2. ~Deleting
        BY <1>2, <3>1 DEF CallAt
      <3>3. PICK c : /\ Moves(i, c)
                     /\ c.pc \in {"key", "ok", "track"}
        BY <1>1, <2>4, <3>2, GotoKeysMoves
      <3>4. QED
        BY <1>1, <1>3, <1>5, <1>7, <2>1, <3>1, <3>3 DEF UntrackedTo
    <2>5. QED
      BY <2>1, <2>2, <2>3, <2>4
  <1>8. QED
    BY <1>6, <1>7

\* The loop over the PeerTransactions beyond the new version.
LEMMA UntrackReplaces ==
    ASSUME IInv, ~Deleting, job.kind # "repair", NEW w \in used \cup {0},
           Replacing(w), NoFault, NEW i \in Slices, Untrack(i)
    PROVE  Replacing(w)'
  <1>1. /\ calls[i] # None /\ calls[i].pc \in {"untrack", "trimtrack"}
        /\ i = 1 /\ calls[i].todo \subseteq Slices
        /\ UNCHANGED <<rows, tks>> /\ Elsewhere
    BY UntrackMoves
  <1>2. /\ job # None /\ CallAt(i, calls[i]) /\ Size[job.ver] \in Slices
        /\ i <= Size[job.ver] /\ Ahead(w, calls[i])
        /\ \A k \in Beyond(1) : k \in Slices
    BY <1>1, ReplaceRunning
  <1>3. calls[i].pc = "trimtrack" /\ calls[i].todo \subseteq Beyond(1)
    BY <1>1, <1>2 DEF CallAt
  <1>4. PICK c : Moves(i, c) /\ UntrackedTo(i, c)
    BY UntrackMoves
  <1>5. job' = job /\ Beyond(1)' = Beyond(1)
    BY <1>1 DEF Elsewhere, Beyond
  <1>6. CASE Attach /\ pts' = pts /\ c.pc = "error"
    <2>1. Ahead(w, c)'
      BY <1>1, <1>2, <1>3, <1>5, <1>6 DEF Ahead, Blank, Untracked
    <2>2. \A j \in Slices : Same(j)
      BY <1>1, <1>6 DEF Same
    <2>3. RowOf(i, job.ver)'
      <3>1. Storing /\ job.ver \in Versions
        BY <1>1, ReplaceRunning DEF Storing
      <3>2. Stored(i, job.ver)
        BY <1>1, <1>2, <1>3, <3>1, Running DEF Progress
      <3>3. rows[i] # None /\ rows[i].ver = job.ver
        BY <3>1, <3>2, StoredRow
      <3>4. Has(job.ver, i)
        BY <1>2, <3>1, StoreConstantsOK DEF Has
      <3>5. QED
        BY <1>1, <1>5, <3>3, <3>4 DEF RowOf, Has
    <2>4. QED
      BY <1>1, <1>2, <1>4, <1>6, <2>1, <2>2, <2>3, ReplaceMove
  <1>7. ASSUME NEW k \in calls[i].todo, pts' = [pts EXCEPT ![k] = 0],
               \/ c.pc = "trimtrack" /\ c.todo = calls[i].todo \ {k}
               \/ calls[i].todo = {k} /\ c.pc \in {"key", "ok", "track"}
        PROVE  Replacing(w)'
    <2>1. \A j \in Beyond(1) :
            /\ rows'[j] = None
            /\ j \notin calls[i].todo \ {k} => Untracked(j)'
      BY <1>1, <1>2, <1>3, <1>7 DEF Ahead, Untracked, IInv, TypeOK
    <2>2. Ahead(w, c)'
      BY <1>5, <1>7, <2>1 DEF Ahead, Blank
    <2>3. \A j \in Slices : j <= Size[job.ver] => Same(j)
      <3> SUFFICES ASSUME NEW j \in Slices, j <= Size[job.ver]
                   PROVE  Same(j)
        OBVIOUS
      <3>1. k # j
        BY <1>2, <1>3, StoreConstantsOK DEF Beyond
      <3>2. QED
        BY <1>1, <1>7, <3>1 DEF Same, IInv, TypeOK
    <2>4. QED
      BY <1>1, <1>2, <1>4, <1>7, <2>2, <2>3, ReplaceMove
  <1>8. QED
    BY <1>3, <1>4, <1>6, <1>7 DEF UntrackedTo

\* The keys touch no slice.
LEMMA KeyReplaces ==
    ASSUME IInv, ~Deleting, job.kind # "repair", NEW w \in used \cup {0},
           Replacing(w), NoFault, NEW i \in Slices, Key(i)
    PROVE  Replacing(w)'
  <1>1. calls[i] # None /\ calls[i].pc = "key"
    BY DEF Key, At
  <1>2. /\ job # None /\ calls[i] \in Call /\ CallAt(i, calls[i])
        /\ i <= Size[job.ver]
        /\ i = 1 => Ahead(w, calls[i])
        /\ \A k \in Beyond(1) : k \in Slices
    BY <1>1, ReplaceRunning
  <1>3. i = 1 /\ calls[i].todo \subseteq Peers
    BY <1>1, <1>2, Running DEF CallAt
  <1>4. \A k \in Slices : Same(k) /\ (Blank(k) => Blank(k)')
    BY SameKeeps DEF Key, Same
  <1>5. Elsewhere /\ job' = job /\ Beyond(1)' = Beyond(1)
    BY DEF Key, Elsewhere, Beyond
  <1>6. ~Fault
    BY StoreConstantsOK DEF NoFault, Fault, IInv, TypeOK
  <1>7. PICK p \in calls[i].todo :
          Loop(i, IF calls[i].todo \ {p} # {} THEN "key"
                  ELSE IF Attach THEN "ok" ELSE "track",
               calls[i].todo \ {p})
    BY <1>6 DEF Key
  <1> PICK rest : rest = calls[i].todo \ {p}
    OBVIOUS
  <1> PICK pc : pc = IF rest # {} THEN "key"
                     ELSE IF Attach THEN "ok" ELSE "track"
    OBVIOUS
  <1>8. pc \in Pcs /\ pc \in {"key", "ok", "track"}
    BY DEF Pcs
  <1> PICK c : c = [calls[i] EXCEPT !.pc = pc, !.todo = rest]
    OBVIOUS
  <1>9. Moves(i, [calls[i] EXCEPT !.pc = pc, !.todo = rest])
    <2>1. rest \in (SUBSET Slices) \cup (SUBSET Peers)
      BY <1>3
    <2>2. Loop(i, pc, rest)
      BY <1>7
    <2>3. QED
      BY <1>1, <1>8, <2>1, <2>2, LoopMoves DEF IInv
  <1>10. Moves(i, c) /\ c.pc = pc
    BY <1>2, <1>9 DEF Call
  <1>11. Ahead(w, c)'
    BY <1>1, <1>2, <1>3, <1>4, <1>5, <1>8, <1>10 DEF Ahead
  <1>12. QED
    BY <1>2, <1>3, <1>4, <1>5, <1>8, <1>10, <1>11, ReplaceMove

\* The slice's own PeerTransaction.
LEMMA TrackReplaces ==
    ASSUME IInv, ~Deleting, job.kind # "repair", NEW w \in used \cup {0},
           Replacing(w), NoFault, NEW i \in Slices, Track(i)
    PROVE  Replacing(w)'
  <1>1. calls[i] # None /\ calls[i].pc = "track"
    BY DEF Track, At
  <1>2. /\ job # None /\ calls[i] \in Call
        /\ i <= Size[job.ver]
        /\ i = 1 => Ahead(w, calls[i])
        /\ \A k \in Beyond(1) : k \in Slices \ {i}
    BY <1>1, ReplaceRunning
  <1>3. \A k \in Slices \ {i} : Same(k) /\ (Blank(k) => Blank(k)')
    BY SameKeeps DEF Track, Same, IInv, TypeOK
  <1>4. Elsewhere /\ job' = job /\ Beyond(1)' = Beyond(1)
    BY DEF Track, Elsewhere, Beyond
  <1>5. ~Fault
    BY StoreConstantsOK DEF NoFault, Fault, IInv, TypeOK
  <1> PICK c : c = [calls[i] EXCEPT !.pc = "ok"]
    OBVIOUS
  <1>6. Moves(i, c)
    BY <1>1, <1>5, GotoMoves DEF Track, IInv, Pcs
  <1>7. c.pc = "ok"
    BY <1>2 DEF Call
  <1>8. i = 1 => Ahead(w, c)'
    BY <1>1, <1>2, <1>3, <1>4, <1>7 DEF Ahead
  <1>9. QED
    BY <1>2, <1>3, <1>4, <1>6, <1>7, <1>8, ReplaceMove

----------------------------------------------------------------------------
(* The same for a delete and a pass, which the first slice carries out.    *)

\* A move of one goroutine; the others' wait or have nothing to do.
LEMMA EmptyMove ==
    ASSUME IInv, NEW w, Emptying(w), Elsewhere,
           NEW i \in Slices, NEW c, Moves(i, c),
           c.pc = "error" => Attach /\ i = 1,
           i = 1 => Emptied(w, c)',
           i # 1 => UNCHANGED <<rows, tks, pts>>
    PROVE  Emptying(w)'
  <1>1. /\ calls'[i] = c /\ c # None
        /\ \A k \in Slices \ {i} : calls'[k] = calls[k]
    BY Moved DEF IInv
  <1>2. job' = job
    BY DEF Elsewhere
  <1>3. 1 \in Slices
    BY StoreConstantsOK
  <1>4. \A k \in Slices : FailsOnlyAsAttach(k)'
    BY <1>1 DEF Emptying, FailsOnlyAsAttach, At
  <1>5. calls'[1] # None /\ Emptied(w, calls[1])'
    <2>1. CASE i = 1
      BY <1>1, <2>1 DEF Emptied
    <2>2. CASE i # 1
      BY <1>1, <1>3, <2>2
         DEF Emptying, Emptied, Before, RowOf, NoKeys, Untracked
    <2>3. QED
      BY <2>1, <2>2
  <1>6. QED
    BY <1>2, <1>4, <1>5 DEF Emptying

\* A goroutine that runs in a delete or a pass, and what is known of it.
LEMMA EmptyRunning ==
    ASSUME IInv, Deleting, job.kind # "repair", NEW w \in used \cup {0},
           Emptying(w), NEW i \in Slices, calls[i] # None
    PROVE  /\ calls[i] \in Call /\ CallAt(i, calls[i])
           /\ job.ver \in Nat /\ w \in Nat
           /\ w # 0 => w \in Versions /\ Size[w] \in Slices
           /\ job.kind = "store" => job.ver \in Deletes /\ w < job.ver
           /\ i = 1 => Emptied(w, calls[i])
           /\ rows[i] # None => Has(w, i) /\ rows[i].ver = w
  <1>1. /\ calls[i] \in Call /\ CallAt(i, calls[i])
        /\ job.ver \in Nat
    BY Running, StoreConstantsOK
  <1>2. w \in Nat /\ (w # 0 => w \in Versions /\ Size[w] \in Slices)
    BY StoreConstantsOK DEF IInv, TypeOK
  <1>3. job.kind = "store" => job.ver \in Deletes /\ w < job.ver
    BY DEF Deleting, Emptying
  <1>4. rows[i] # None => Has(w, i) /\ rows[i].ver = w
    <2>1. 1 \in Slices
      BY StoreConstantsOK
    <2>2. calls[1] # None /\ Emptied(w, calls[1])
      BY DEF Emptying
    <2>3. calls[1] \in Call /\ CallAt(1, calls[1])
      BY <2>1, <2>2, Running
    <2>4. calls[1].pc \in {"check", "clear", "drop", "unkey", "untrack", "ok",
                          "error"}
      BY <2>2, <2>3 DEF CallAt, Call, Pcs
    <2>5. Before(i, w) \/ rows[i] = None
      BY <2>2, <2>4 DEF Emptied
    <2>6. QED
      BY <2>5 DEF Before, RowOf
  <1>5. QED
    BY <1>1, <1>2, <1>3, <1>4 DEF Emptying

\* The checks let a delete pass; an empty store has nothing to delete.
LEMMA CheckEmpties ==
    ASSUME IInv, Deleting, job.kind # "repair", NEW w \in used \cup {0},
           Emptying(w), NoFault, NEW i \in Slices, StoreCheck(i)
    PROVE  Emptying(w)'
  <1>1. calls[i] # None /\ calls[i].pc = "check"
    BY DEF StoreCheck, At
  <1>2. /\ calls[i] \in Call /\ CallAt(i, calls[i])
        /\ job.ver \in Nat /\ w \in Nat
        /\ w # 0 => w \in Versions /\ Size[w] \in Slices
        /\ job.kind = "store" => job.ver \in Deletes /\ w < job.ver
        /\ i = 1 => Emptied(w, calls[i])
        /\ rows[i] # None => Has(w, i) /\ rows[i].ver = w
    BY <1>1, EmptyRunning
  <1>3. job # None /\ job \in Job
    BY <1>2, JobSize DEF CallAt, IInv
  <1>4. job.kind = "store" /\ job.ver \in Deletes /\ w < job.ver
    BY <1>1, <1>2, <1>3 DEF CallAt, Job
  <1>5. Elsewhere /\ UNCHANGED <<rows, tks, pts>>
    BY DEF StoreCheck, stored
  <1>6. ~Fault
    BY StoreConstantsOK DEF NoFault, Fault, IInv, TypeOK
  <1>7. i = 1 =>
          (\A k \in Slices : Before(k, w)) /\ (w = 0 => NoKeys)
    BY <1>1, <1>2 DEF Emptied
  <1>8. CASE rows[i] = None /\ Goto(i, "ok")
    <2> PICK c : c = [calls[i] EXCEPT !.pc = "ok"]
      OBVIOUS
    <2>1. Moves(i, c)
      BY <1>1, <1>8, GotoMoves DEF IInv, Pcs
    <2>2. c.pc = "ok"
      BY <1>2 DEF Call
    <2>3. ASSUME i = 1
          PROVE  Emptied(w, c)'
      <3>1. w = 0
        BY <1>2, <1>7, <1>8, <2>3, StoreConstantsOK DEF Before, RowOf, Has
      <3>2. NoKeys /\ \A k \in Slices : Blank(k)
        BY <1>7, <2>3, <3>1, Unreached DEF Has
      <3>3. QED
        BY <1>5, <2>2, <3>2 DEF Emptied, NoKeys, Blank,
             Untracked
    <2>4. QED
      BY <1>5, <2>1, <2>2, <2>3, EmptyMove
  <1>9. CASE /\ rows[i] # None
             /\ calls' = [calls EXCEPT
                  ![i].pc = IF job.ver \notin Deletes THEN Spills
                            ELSE IF i = 1 THEN "clear" ELSE "ok",
                  ![i].found = TRUE,
                  ![i].old = Size[rows[i].ver]]
    <2> PICK pc : pc = IF i = 1 THEN "clear" ELSE "ok"
      OBVIOUS
    <2>1. w # 0 /\ rows[i].ver = w /\ Size[w] \in 0 .. MaxSlices
      BY <1>2, <1>9, SizeType DEF Has
    <2> PICK c : c = [calls[i] EXCEPT !.pc = pc, !.found = TRUE,
                                      !.old = Size[w]]
      OBVIOUS
    <2>2. c \in Call /\ c.pc = pc /\ c.old = Size[w]
      BY <1>2, <2>1 DEF Call, Pcs
    <2>3. calls' = [calls EXCEPT ![i] = [@ EXCEPT !.pc = pc, !.found = TRUE,
                                                  !.old = Size[w]]]
      BY <1>4, <1>9, <2>1
    <2>4. Moves(i, c)
      BY <2>2, <2>3 DEF Moves, IInv, TypeOK
    <2>5. i = 1 => Emptied(w, c)'
      BY <1>5, <1>7, <2>1, <2>2 DEF Emptied, Before, RowOf
    <2>6. c.pc # "error"
      BY <2>2
    <2>7. i # 1 => UNCHANGED <<rows, tks, pts>>
      BY <1>5
    <2>8. Emptying(w)'
      BY <1>5, <2>4, <2>5, <2>6, <2>7, EmptyMove
    <2>9. QED
      BY <2>8
  <1>10. rows[i] # None => ~ (job.ver <= rows[i].ver)
    BY <1>2, <1>4
  <1>11. QED
    BY <1>4, <1>6, <1>8, <1>9, <1>10 DEF StoreCheck

\* The payloads in FileContent go first.
LEMMA ClearFilesEmpties ==
    ASSUME IInv, Deleting, job.kind # "repair", NEW w \in used \cup {0},
           Emptying(w), NoFault, NEW i \in Slices, ClearFiles(i)
    PROVE  Emptying(w)'
  <1>1. calls[i] # None /\ calls[i].pc = "clear"
    BY DEF ClearFiles, At
  <1>2. /\ calls[i] \in Call /\ CallAt(i, calls[i])
        /\ i = 1 => Emptied(w, calls[i])
    BY <1>1, EmptyRunning
  <1> PICK c : c = [calls[i] EXCEPT !.pc = "drop"]
    OBVIOUS
  <1>3. Moves(i, c)
    BY <1>1, GotoMoves DEF ClearFiles, IInv, Pcs
  <1>4. c.pc = "drop" /\ c.old = calls[i].old /\ i = 1
    BY <1>1, <1>2 DEF Call, CallAt
  <1>5. Elsewhere /\ UNCHANGED <<rows, tks, pts>>
    BY DEF ClearFiles
  <1>6. Emptied(w, c)'
    BY <1>1, <1>2, <1>4, <1>5 DEF Emptied, Before, RowOf, NoKeys
  <1>7. QED
    BY <1>3, <1>4, <1>5, <1>6, EmptyMove

\* Then the rows of all slices; w had PeerTransactions up to its size only.
LEMMA DropRowsEmpties ==
    ASSUME IInv, Deleting, job.kind # "repair", NEW w \in used \cup {0},
           Emptying(w), NoFault, NEW i \in Slices, DropRows(i)
    PROVE  Emptying(w)'
  <1>1. calls[i] # None /\ calls[i].pc = "drop"
    BY DEF DropRows, At
  <1>2. /\ calls[i] \in Call /\ CallAt(i, calls[i])
        /\ i = 1 => Emptied(w, calls[i])
        /\ w # 0 => w \in Versions /\ Size[w] \in Slices
    BY <1>1, EmptyRunning
  <1> PICK c : c = [calls[i] EXCEPT !.pc = "unkey"]
    OBVIOUS
  <1>3. Moves(i, c)
    BY <1>1, GotoMoves DEF DropRows, IInv, Pcs
  <1>4. c.pc = "unkey" /\ c.old = calls[i].old /\ i = 1
    BY <1>1, <1>2 DEF Call, CallAt
  <1>5. ~Fault
    BY StoreConstantsOK DEF NoFault, Fault, IInv, TypeOK
  <1>6. /\ Elsewhere /\ UNCHANGED <<tks, pts>>
        /\ rows' = [k \in Slices |-> None]
    BY <1>5 DEF DropRows, Unchecked
  <1>7. w # 0 /\ c.old = Size[w] /\ \A k \in Slices : Before(k, w)
    BY <1>1, <1>2, <1>4 DEF Emptied
  <1>8. \A k \in Slices : k > c.old => Untracked(k)
    BY <1>2, <1>7, StoreConstantsOK DEF Before, Has, Untracked
  <1>9. Emptied(w, c)'
    BY <1>4, <1>6, <1>8 DEF Emptied, Untracked
  <1>10. QED
    BY <1>3, <1>4, <1>6, <1>9, EmptyMove

\* Then the keys.
LEMMA DropKeysEmpties ==
    ASSUME IInv, Deleting, job.kind # "repair", NEW w \in used \cup {0},
           Emptying(w), NoFault, NEW i \in Slices, DropKeys(i)
    PROVE  Emptying(w)'
  <1>1. calls[i] # None /\ calls[i].pc = "unkey"
    BY DEF DropKeys, At
  <1>2. /\ calls[i] \in Call /\ CallAt(i, calls[i])
        /\ i = 1 => Emptied(w, calls[i])
    BY <1>1, EmptyRunning
  <1>3. i = 1
    BY <1>1, <1>2 DEF CallAt
  <1>4. ~Fault
    BY StoreConstantsOK DEF NoFault, Fault, IInv, TypeOK
  <1>5. /\ Elsewhere /\ UNCHANGED <<rows, pts>>
        /\ tks' = [p \in Peers |-> 0]
    BY <1>4 DEF DropKeys, Unchecked
  <1>6. NoKeys' /\ \A k \in Slices : rows'[k] = None
    BY <1>1, <1>2, <1>3, <1>5 DEF Emptied, NoKeys
  <1>7. \A k \in Slices : k \notin Tracked(i) => Untracked(k)'
    BY <1>1, <1>2, <1>3, <1>5, StoreConstantsOK
       DEF Emptied, Tracked, Untracked, Call
  <1>8. CASE Tracked(i) = {} /\ Goto(i, "ok")
    <2> PICK c : c = [calls[i] EXCEPT !.pc = "ok"]
      OBVIOUS
    <2>1. Moves(i, c)
      BY <1>1, <1>8, GotoMoves DEF IInv, Pcs
    <2>2. c.pc = "ok"
      BY <1>2 DEF Call
    <2>3. Emptied(w, c)'
      BY <1>6, <1>7, <1>8, <2>2 DEF Emptied
    <2>4. QED
      BY <1>3, <1>5, <2>1, <2>2, <2>3, EmptyMove
  <1>9. CASE Loop(i, "untrack", Tracked(i))
    <2> PICK todo : todo = Tracked(i)
      OBVIOUS
    <2>1. todo \in (SUBSET Slices) \cup (SUBSET Peers)
      BY <1>2, StoreConstantsOK DEF Tracked, Call
    <2> PICK c : c = [calls[i] EXCEPT !.pc = "untrack", !.todo = todo]
      OBVIOUS
    <2>2. Moves(i, c)
      BY <1>1, <1>9, <2>1, LoopMoves DEF IInv, Pcs
    <2>3. c.pc = "untrack" /\ c.todo = todo
      BY <1>2 DEF Call
    <2>4. Emptied(w, c)'
      BY <1>6, <1>7, <2>3 DEF Emptied
    <2>5. QED
      BY <1>3, <1>5, <2>2, <2>3, <2>4, EmptyMove
  <1>10. QED
    BY <1>8, <1>9 DEF DropKeys

\* And the PeerTransactions, one slice at a time.
LEMMA UntrackEmpties ==
    ASSUME IInv, Deleting, job.kind # "repair", NEW w \in used \cup {0},
           Emptying(w), NoFault, NEW i \in Slices, Untrack(i)
    PROVE  Emptying(w)'
  <1>1. /\ calls[i] # None /\ calls[i].pc \in {"untrack", "trimtrack"}
        /\ i = 1 /\ calls[i].todo \subseteq Slices
        /\ UNCHANGED <<rows, tks>> /\ Elsewhere
    BY UntrackMoves
  <1>2. CallAt(i, calls[i]) /\ Emptied(w, calls[i])
    BY <1>1, EmptyRunning
  <1>3. calls[i].pc = "untrack"
    BY <1>1, <1>2 DEF CallAt
  <1>4. PICK c : Moves(i, c) /\ UntrackedTo(i, c)
    BY UntrackMoves
  <1>5. NoKeys' /\ \A j \in Slices : rows'[j] = None
    BY <1>1, <1>2, <1>3 DEF Emptied, NoKeys
  <1>6. CASE Attach /\ c.pc = "error"
    <2>1. Emptied(w, c)'
      BY <1>5, <1>6 DEF Emptied, Untracked
    <2>2. QED
      BY <1>1, <1>4, <1>6, <2>1, EmptyMove
  <1>7. ASSUME NEW k \in calls[i].todo, pts' = [pts EXCEPT ![k] = 0],
               \/ c.pc = "untrack" /\ c.todo = calls[i].todo \ {k}
               \/ calls[i].todo = {k} /\ c.pc = "ok"
        PROVE  Emptying(w)'
    <2>1. \A j \in Slices \ (calls[i].todo \ {k}) : Untracked(j)'
      BY <1>1, <1>2, <1>3, <1>7 DEF Emptied, Untracked, IInv, TypeOK
    <2>2. Emptied(w, c)'
      BY <1>5, <1>7, <2>1 DEF Emptied
    <2>3. QED
      BY <1>1, <1>4, <1>7, <2>2, EmptyMove
  <1>8. QED
    BY <1>3, <1>4, <1>6, <1>7 DEF UntrackedTo

----------------------------------------------------------------------------
(* The jobs, and the theorems.                                             *)

\* Every step of a goroutine keeps OrderlyInv.
LEMMA StepKeepsOrder ==
    ASSUME IInv, OrderlyInv, NEW i \in Slices, Step(i)
    PROVE  OrderlyInv'
  <1> SUFFICES ASSUME Orderly'
               PROVE  \E w \in used' \cup {0} :
                        IF job' = None THEN Resting(w)' ELSE Working(w)'
    BY DEF OrderlyInv
  <1>1. Elsewhere /\ (NoFault \/ Fault)
    BY DEF Step, Select, StoreCheck, ClearFiles, DropRows, DropKeys,
           Unchecked, Spill, Upsert, Trim, Untrack, Key, Track
  <1>2. Orderly /\ NoFault
    BY <1>1, NoFaultYet DEF IInv
  <1>3. calls[i] # None
    BY DEF Step, Select, StoreCheck, ClearFiles, DropRows, DropKeys, Spill,
           Upsert, Trim, Untrack, Key, Track, At
  <1>4. CallAt(i, calls[i]) /\ job # None
    BY <1>3, Running DEF CallAt
  <1>5. PICK w \in used \cup {0} : Working(w)
    BY <1>2, <1>4 DEF OrderlyInv
  <1>6. job.kind # "repair"
    BY <1>5 DEF Working
  <1>7. CASE Deleting
    <2>1. Emptying(w)
      BY <1>5, <1>7 DEF Working
    <2>2. calls[i].pc \notin {"select", "spill", "upsert", "trim", "key",
                              "track"}
      BY <1>4, <1>6, <1>7 DEF CallAt
    <2>3. /\ StoreCheck(i) => Emptying(w)'
          /\ ClearFiles(i) => Emptying(w)'
          /\ DropRows(i) => Emptying(w)'
          /\ DropKeys(i) => Emptying(w)'
          /\ Untrack(i) => Emptying(w)'
      BY <1>2, <1>6, <1>7, <2>1, CheckEmpties, ClearFilesEmpties,
         DropRowsEmpties, DropKeysEmpties, UntrackEmpties
    <2>4. Emptying(w)'
      BY <2>2, <2>3 DEF Step, Select, Spill, Upsert, Trim, Key, Track, At
    <2>5. Working(w)'
      BY <1>1, <1>5, <1>7, <2>4 DEF Working, Deleting, Elsewhere
    <2>6. QED
      BY <1>1, <1>4, <2>5 DEF Elsewhere
  <1>8. CASE ~Deleting
    <2>1. Replacing(w)
      BY <1>5, <1>8 DEF Working
    <2>2. calls[i].pc \notin {"select", "clear", "drop", "unkey"}
      BY <1>4, <1>6, <1>8 DEF CallAt
    <2>3. /\ StoreCheck(i) => Replacing(w)'
          /\ Spill(i) => Replacing(w)'
          /\ Upsert(i) => Replacing(w)'
          /\ Trim(i) => Replacing(w)'
          /\ Untrack(i) => Replacing(w)'
          /\ Key(i) => Replacing(w)'
          /\ Track(i) => Replacing(w)'
      BY <1>2, <1>6, <1>8, <2>1, CheckReplaces, SpillReplaces,
         UpsertReplaces, TrimReplaces, UntrackReplaces, KeyReplaces,
         TrackReplaces
    <2>4. Replacing(w)'
      BY <2>2, <2>3 DEF Step, Select, ClearFiles, DropRows, DropKeys, At
    <2>5. Working(w)'
      BY <1>1, <1>5, <1>8, <2>4 DEF Working, Deleting, Elsewhere
    <2>6. QED
      BY <1>1, <1>4, <2>5 DEF Elsewhere
  <1>9. QED
    BY <1>7, <1>8

\* A new version comes to a store that the one before it has left whole.
LEMMA StoreValueKeepsOrder ==
    ASSUME IInv, OrderlyInv, NEW v \in Versions, StoreValue(v)
    PROVE  OrderlyInv'
  <1> SUFFICES ASSUME Orderly'
               PROVE  \E w \in used' \cup {0} :
                        IF job' = None THEN Resting(w)' ELSE Working(w)'
    BY DEF OrderlyInv
  <1> PICK c : c = NewCall("check", 0)
    OBVIOUS
  <1>1. /\ job = None /\ job' = [kind |-> "store", ver |-> v]
        /\ calls' = [i \in Slices |-> IF i <= Size[v] THEN c ELSE None]
        /\ emptied' = FALSE /\ UNCHANGED stored
        /\ used' = used \cup {v}
        /\ current' = IF v > current THEN 0 ELSE current
        /\ UNCHANGED <<faults, repairs>>
    BY DEF StoreValue, Start
  <1>2. c.pc = "check"
    BY DEF NewCall
  <1>3. c # None /\ job' \in Job /\ job' # None
    <2>1. c \in Call
      BY NewCallType, StoreConstantsOK DEF Pcs
    <2>2. job' \in Job
      BY <1>1 DEF Job
    <2>3. QED
      BY <2>1, <2>2, NoneOK
  <1>4. late' = late /\ \A u \in used : u < v
    BY StoreConstantsOK DEF StoreValue, Orderly, IInv, TypeOK
  <1>5. PICK w \in used \cup {0} : Resting(w)
    BY <1>1, <1>4 DEF OrderlyInv, Orderly
  <1>6. w < v /\ current' = 0
    <2>1. v \in Nat \ {0} /\ current \in {0, w}
      BY <1>5, StoreConstantsOK DEF Resting
    <2>2. QED
      BY <1>1, <1>4, <2>1
  <1>7. Size[v] \in Slices /\ 1 \in Slices
    BY StoreConstantsOK
  <1>8. calls'[1] = c
    BY <1>1, <1>7, StoreConstantsOK
  <1>9. /\ \A i \in Slices : Before(i, w)'
        /\ w = 0 => NoKeys'
    BY <1>1, <1>5 DEF Resting, Before, RowOf, NoKeys, stored
  <1>10. Emptying(w)'
    <2>1. \A i \in Slices : FailsOnlyAsAttach(i)'
      BY <1>1, <1>2 DEF FailsOnlyAsAttach, At
    <2>2. Emptied(w, c)'
      BY <1>2, <1>9 DEF Emptied
    <2>3. QED
      BY <1>1, <1>3, <1>6, <1>8, <2>1, <2>2 DEF Emptying, Emptied
  <1>11. Replacing(w)'
    <2>1. \A i \in 1 .. Size[v] : i \in Slices /\ calls'[i] = c
      BY <1>1, <1>7, StoreConstantsOK
    <2>2. Beyond(1)' \subseteq Slices
      BY DEF Beyond
    <2>3. Ahead(w, c)'
      BY <1>2, <1>9, <2>2 DEF Ahead
    <2>4. Ahead(w, calls[1])'
      BY <1>8, <2>3 DEF Ahead
    <2>5. QED
      BY <1>1, <1>2, <1>6, <1>9, <2>1, <2>4
         DEF Replacing, FailsOnlyAsAttach, At
  <1>12. Working(w)'
    BY <1>1, <1>6, <1>10, <1>11 DEF Working
  <1>13. QED
    BY <1>1, <1>3, <1>12

\* A pass comes to a version that is whole.
LEMMA DeleteExpiredDBKeepsOrder ==
    ASSUME IInv, OrderlyInv, DeleteExpiredDB
    PROVE  OrderlyInv'
  <1> SUFFICES ASSUME Orderly'
               PROVE  \E w \in used' \cup {0} :
                        IF job' = None THEN Resting(w)' ELSE Working(w)'
    BY DEF OrderlyInv
  <1>1. /\ job = None /\ job' = [kind |-> "expire", ver |-> rows[1].ver]
        /\ calls' = [NoCalls EXCEPT ![1] = NewCall("clear",
                                                   Size[rows[1].ver])]
        /\ emptied' = FALSE /\ UNCHANGED stored
        /\ used' = used /\ current' = 0 /\ rows[1] # None
        /\ UNCHANGED <<faults, repairs, late>>
    BY DEF DeleteExpiredDB, Start
  <1>2. PICK w \in used \cup {0} : Resting(w)
    BY <1>1 DEF OrderlyInv, Orderly
  <1>3. 1 \in Slices
    BY StoreConstantsOK
  <1>4. w # 0 /\ rows[1].ver = w
    BY <1>1, <1>2, <1>3 DEF Resting, Before, RowOf, Has
  <1>5. w \in Versions
    BY <1>4 DEF IInv, TypeOK
  <1> PICK c : c = NewCall("clear", Size[w])
    OBVIOUS
  <1>6. c.pc = "clear" /\ c.old = Size[w]
    BY DEF NewCall
  <1>7. c # None /\ job' \in Job /\ job' # None
    <2>1. c \in Call
      BY <1>5, NewCallType, SizeType DEF Pcs
    <2>2. job' \in Job
      BY <1>1, <1>4, <1>5 DEF Job
    <2>3. QED
      BY <2>1, <2>2, NoneOK
  <1>8. /\ calls'[1] = c
        /\ \A i \in Slices : calls'[i] \in {None, c}
    BY <1>1, <1>3, <1>4 DEF NoCalls
  <1>9. \A i \in Slices : Before(i, w)'
    BY <1>1, <1>2 DEF Resting, Before, RowOf, stored
  <1>10. Emptying(w)'
    <2>1. \A i \in Slices : FailsOnlyAsAttach(i)'
      BY <1>6, <1>8 DEF FailsOnlyAsAttach, At
    <2>2. Emptied(w, c)'
      BY <1>4, <1>6, <1>9 DEF Emptied
    <2>3. QED
      BY <1>1, <1>7, <1>8, <2>1, <2>2 DEF Emptying, Emptied
  <1>11. Working(w)'
    BY <1>1, <1>10 DEF Working, Deleting
  <1>12. QED
    BY <1>1, <1>7, <1>11

\* A job that ends has left its version whole, or the store empty.
LEMMA FinishKeepsOrder ==
    ASSUME IInv, OrderlyInv, Finish
    PROVE  OrderlyInv'
  <1> SUFFICES ASSUME Orderly'
               PROVE  \E w \in used' \cup {0} :
                        IF job' = None THEN Resting(w)' ELSE Working(w)'
    BY DEF OrderlyInv
  <1>1. /\ job # None /\ job' = None
        /\ UNCHANGED stored /\ used' = used /\ UNCHANGED bounds
        /\ \A i \in Slices : calls[i] # None => calls[i].pc \in {"ok", "error"}
    BY DEF Finish
  <1>2. PICK w \in used \cup {0} : Working(w)
    BY <1>1 DEF OrderlyInv, Orderly, bounds
  <1>3. current = 0 /\ job.kind # "repair"
    BY <1>2 DEF Working
  <1>4. 1 \in Slices
    BY StoreConstantsOK
  <1>5. CASE Deleting
    <2>1. Emptying(w)
      BY <1>2, <1>5 DEF Working
    <2>2. Emptied(w, calls[1]) /\ calls[1].pc \in {"ok", "error"}
      BY <1>1, <1>4, <2>1 DEF Emptying
    <2>3. \A i \in Slices : Before(i, 0)'
      BY <1>1, <2>2 DEF Emptied, Before, RowOf, Has, Untracked, stored
    <2>4. NoKeys'
      BY <1>1, <2>2 DEF Emptied, NoKeys, stored
    <2>5. current' = 0
      BY <1>3, <1>5 DEF Finish, Deleting
    <2>6. Resting(0)'
      BY <2>3, <2>4, <2>5 DEF Resting
    <2>7. QED
      BY <1>1, <2>6
  <1>6. CASE ~Deleting
    <2>1. Replacing(w) /\ Storing
      BY <1>1, <1>2, <1>3, <1>6, JobSize
         DEF Working, Deleting, Storing, IInv, Job
    <2> PICK v : v = job.ver
      OBVIOUS
    <2>2. v \in Versions /\ v # 0 /\ Size[v] \in Slices
      BY <1>1, JobSize, StoreConstantsOK DEF IInv, Job
    <2>3. ASSUME NEW i \in 1 .. Size[v]
          PROVE  /\ i \in Slices /\ calls[i] # None
                 /\ calls[i].pc \in {"ok", "error"} /\ Before(i, v)
      <3>1. i \in Slices /\ Has(v, i)
        BY <2>2, StoreConstantsOK DEF Has
      <3>2. calls[i] # None /\ Progress(i, calls[i])
        BY <2>1 DEF IInv, StoreInv
      <3>3. calls[i].pc \in {"ok", "error"}
        BY <1>1, <3>1, <3>2
      <3>4. CASE calls[i].pc = "ok"
        <4>1. Stored(i, v) /\ (Attach \/ pts[i] = v)
          BY <3>2, <3>4 DEF Progress
        <4>2. rows[i] # None /\ rows[i].ver = v
          BY <2>2, <3>1, <4>1, StoredRow
        <4>3. QED
          BY <3>1, <3>2, <3>4, <4>1, <4>2 DEF Before, RowOf
      <3>5. CASE calls[i].pc = "error"
        <4>1. Attach /\ RowOf(i, v)
          BY <2>1, <3>2, <3>5 DEF Replacing, FailsOnlyAsAttach, At
        <4>2. QED
          BY <3>1, <3>2, <3>5, <4>1 DEF Before
      <3>6. QED
        BY <3>3, <3>4, <3>5
    <2>4. 1 \in 1 .. Size[v]
      BY <2>2, StoreConstantsOK
    <2>5. v \in used /\ \A k \in Beyond(1) : Blank(k)
      <3>1. CallAt(1, calls[1]) /\ calls[1].pc \in {"ok", "error"}
        BY <1>4, <2>3, <2>4 DEF IInv, CallInv
      <3>2. QED
        BY <2>1, <3>1 DEF CallAt, Storing, Replacing, Ahead
    <2>6. ASSUME NEW i \in Slices
          PROVE  Before(i, v)'
      <3>1. CASE i <= Size[v]
        <4>1. i \in 1 .. Size[v]
          BY <2>2, <3>1, StoreConstantsOK
        <4>2. QED
          BY <1>1, <2>3, <4>1 DEF Before, RowOf, stored
      <3>2. CASE ~ (i <= Size[v])
        <4>1. Blank(i)
          BY <2>2, <2>5, <3>2, StoreConstantsOK DEF Beyond
        <4>2. QED
          BY <1>1, <3>2, <4>1
             DEF Before, RowOf, Has, Blank, Untracked, stored
      <3>3. QED
        BY <3>1, <3>2
    <2>7. current' \in {0, v} /\ emptied' = FALSE
      BY <1>3, <1>6 DEF Finish, Deleting
    <2>8. Resting(v)'
      BY <2>2, <2>6, <2>7 DEF Resting
    <2>9. QED
      BY <1>1, <2>5, <2>8
  <1>7. QED
    BY <1>5, <1>6

\* OrderlyInv holds at the start and every step keeps it, next to IInv.
THEOREM OrderlyInductive == Spec => []OrderlyInv
  <1>1. ASSUME Init
        PROVE  OrderlyInv
    <2>1. Resting(0)
      BY <1>1 DEF Init, Resting, Before, RowOf, Has, NoKeys
    <2>2. QED
      BY <1>1, <2>1 DEF Init, OrderlyInv
  <1>2. ASSUME IInv, OrderlyInv, [Next]_vars
        PROVE  OrderlyInv'
    <2>1. ASSUME NEW v \in Versions, NEW i \in Slices, PutLocal(v, i)
          PROVE  OrderlyInv'
      BY <1>2, <2>1, StoreConstantsOK
         DEF PutLocal, OrderlyInv, Orderly, IInv, TypeOK
    <2>2. CASE Crash
      BY <1>2, <2>2, StoreConstantsOK
         DEF Crash, Fault, OrderlyInv, Orderly, IInv, TypeOK
    <2>3. CASE UNCHANGED vars
      BY <1>2, <2>3
         DEF vars, OrderlyInv, Orderly, Resting, Before, RowOf, NoKeys,
             Working, Deleting, Emptying, Emptied, FailsOnlyAsAttach, At,
             Replacing, Ahead, Beyond, Blank, Untracked, Met
    <2>4. QED
      BY <1>2, <2>1, <2>2, <2>3, StoreValueKeepsOrder,
         DeleteExpiredDBKeepsOrder, StepKeepsOrder, FinishKeepsOrder DEF Next
  <1>3. QED
    BY <1>1, <1>2, Inductive, PTL DEF Spec

\* A ChatAttach never has a PeerTransaction.
THEOREM NeverTracked == Spec => []NoTracks
  <1>1. Init => NoTracks
    BY DEF Init, NoTracks, At
  <1>2. ASSUME IInv, NoTracks, [Next]_vars
        PROVE  NoTracks'
    <2> SUFFICES ASSUME Attach, NEW k \in Slices
                 PROVE  pts'[k] = 0 /\ ~At(k, "track")'
      BY DEF NoTracks
    <2>1. pts[k] = 0 /\ ~At(k, "track") /\ \A i \in Slices : ~At(i, "track")
      BY <1>2 DEF NoTracks
    <2>2. CASE UNCHANGED <<stored, calls>>
      BY <2>1, <2>2 DEF stored, At
    <2>3. ASSUME calls' = NoCalls, UNCHANGED stored
          PROVE  pts'[k] = 0 /\ ~At(k, "track")'
      BY <2>1, <2>3 DEF stored, NoCalls, At
    <2>4. ASSUME NEW v \in Versions, StoreValue(v)
          PROVE  pts'[k] = 0 /\ ~At(k, "track")'
      BY <2>1, <2>4 DEF StoreValue, Start, NewCall, stored, At
    <2>5. ASSUME NEW v \in Versions, NEW i \in Slices, PutLocal(v, i)
          PROVE  pts'[k] = 0 /\ ~At(k, "track")'
      BY <2>1, <2>5 DEF PutLocal, Start, NewCall, NoCalls, stored, At
    <2>6. CASE DeleteExpiredDB
      BY <2>1, <2>6 DEF DeleteExpiredDB, Start, NewCall, NoCalls, stored, At
    <2>7. ASSUME NEW i \in Slices, Step(i)
          PROVE  pts'[k] = 0 /\ ~At(k, "track")'
      <3>1. calls[i] # None /\ calls[i] \in Call /\ ~Track(i)
        BY <2>1, <2>7, Running, <1>2
           DEF Step, Select, StoreCheck, ClearFiles, DropRows, DropKeys,
               Spill, Upsert, Trim, Untrack, Key, Track, At
      <3>2. ASSUME NEW pc \in Pcs \ {"track"}, Goto(i, pc)
            PROVE  ~At(k, "track")'
        BY <1>2, <2>1, <3>1, <3>2 DEF Goto, At, IInv, TypeOK, Call
      <3>3. ASSUME NEW pc \in Pcs \ {"track"}, NEW todo, Loop(i, pc, todo)
            PROVE  ~At(k, "track")'
        BY <1>2, <2>1, <3>1, <3>3 DEF Loop, At, IInv, TypeOK, Call
      <3>4. Spills \in Pcs \ {"track"}
        BY DEF Spills, Pcs
      <3>5. GotoKeys(i) => ~At(k, "track")'
        BY <3>3 DEF GotoKeys, Pcs
      <3>6. CASE Select(i)
        BY <2>1, <3>2, <3>6 DEF Select, stored, Pcs
      <3>7. CASE StoreCheck(i)
        <4> PICK pc : pc = IF job.ver \notin Deletes THEN Spills
                           ELSE IF i = 1 THEN "clear" ELSE "ok"
          OBVIOUS
        <4>1. pc \in Pcs \ {"track"}
          BY <3>4 DEF Pcs
        <4>2. ASSUME calls' = [calls EXCEPT ![i].pc = pc, ![i].found = TRUE,
                                            ![i].old = Size[rows[i].ver]]
              PROVE  ~At(k, "track")'
          BY <1>2, <2>1, <3>1, <4>1, <4>2 DEF At, IInv, TypeOK, Call
        <4>3. \/ Goto(i, IF job.ver \in Deletes THEN "ok" ELSE Spills)
              \/ Goto(i, "error")
              \/ calls' = [calls EXCEPT ![i].pc = pc, ![i].found = TRUE,
                                        ![i].old = Size[rows[i].ver]]
          BY <3>7 DEF StoreCheck
        <4>4. ~At(k, "track")'
          BY <3>2, <3>4, <4>2, <4>3 DEF Pcs
        <4>5. QED
          BY <2>1, <3>7, <4>4 DEF StoreCheck, stored
      <3>8. CASE ClearFiles(i) \/ DropRows(i)
        BY <2>1, <3>2, <3>8 DEF ClearFiles, DropRows, Pcs
      <3>9. CASE DropKeys(i)
        BY <2>1, <3>2, <3>3, <3>9 DEF DropKeys, Pcs
      <3>10. CASE Spill(i)
        BY <2>1, <3>2, <3>10 DEF Spill, Pcs
      <3>11. CASE Upsert(i)
        BY <2>1, <3>2, <3>5, <3>11 DEF Upsert, Pcs
      <3>12. CASE Trim(i)
        BY <2>1, <3>3, <3>12 DEF Trim, Pcs
      <3>13. CASE Untrack(i)
        BY <2>1, <3>2, <3>13 DEF Untrack, PutPTsKnows, Pcs
      <3>14. CASE Key(i)
        BY <2>1, <3>2, <3>3, <3>14 DEF Key, Pcs
      <3>15. QED
        BY <2>7, <3>1, <3>6, <3>7, <3>8, <3>9, <3>10, <3>11, <3>12, <3>13,
           <3>14 DEF Step
    <2>8. CASE Finish \/ Crash
      BY <2>3, <2>8 DEF Finish, Crash
    <2>9. QED
      BY <1>2, <2>2, <2>4, <2>5, <2>6, <2>7, <2>8 DEF Next, vars, stored
  <1>3. QED
    BY <1>1, <1>2, Inductive, PTL DEF Spec

\* When versions come in order and nothing fails, a delete or a pass leaves
\* nothing of the block and a shorter version nothing beyond its size.
THEOREM NothingLeftBehind == Spec => []Exact
  <1>1. IInv /\ NoTracks /\ OrderlyInv => Exact
    <2> SUFFICES ASSUME IInv, NoTracks, OrderlyInv, Orderly
                 PROVE  /\ emptied => /\ \A i \in Slices :
                                           rows[i] = None /\ pts[i] = 0
                                      /\ \A p \in Peers : tks[p] = 0
                        /\ current # 0 => \A i \in Slices :
                             i > Size[current] => rows[i] = None /\ pts[i] = 0
      BY DEF Exact
    <2>1. PICK w \in used \cup {0} :
            IF job = None THEN Resting(w) ELSE Working(w)
      BY DEF OrderlyInv
    <2>2. CASE job # None
      BY <2>1, <2>2 DEF Working
    <2>3. CASE job = None
      <3>1. \A i \in Slices : ~Has(w, i) => rows[i] = None /\ pts[i] = 0
        BY <2>1, <2>3, Unreached DEF Resting, Blank, Untracked, NoTracks
      <3>2. emptied => w = 0 /\ NoKeys
        BY <2>1, <2>3 DEF Resting
      <3>3. current # 0 => current = w /\ Size[current] \in Slices
        BY <2>1, <2>3, StoreConstantsOK DEF Resting, IInv, TypeOK
      <3>4. QED
        BY <3>1, <3>2, <3>3, StoreConstantsOK DEF Has, NoKeys
    <2>4. QED
      BY <2>2, <2>3
  <1>2. QED
    BY <1>1, Inductive, NeverTracked, OrderlyInductive, PTL

\* And none of them is turned down, unless it is a ChatAttach, which StoreValue
\* fails to delete and to shorten.
THEOREM InOrderAccepted == ASSUME ~Attach PROVE Spec => []OrderlyAccepted
  <1>1. IInv /\ OrderlyInv => OrderlyAccepted
    <2> SUFFICES ASSUME IInv, OrderlyInv, Orderly, NEW i \in Slices,
                        At(i, "error")
                 PROVE  FALSE
      BY DEF OrderlyAccepted
    <2>1. calls[i] # None /\ calls[i].pc = "error"
      BY DEF At
    <2>2. job # None
      BY <2>1, Running DEF CallAt
    <2>3. PICK w \in used \cup {0} : Working(w)
      BY <2>2 DEF OrderlyInv
    <2>4. CASE Deleting
      BY <2>3, <2>4 DEF Working, Emptying, FailsOnlyAsAttach
    <2>5. CASE ~Deleting
      <3>1. Replacing(w) /\ job.kind # "repair"
        BY <2>3, <2>5 DEF Working
      <3>2. i <= Size[job.ver] /\ Size[job.ver] \in Slices
        BY <2>1, <2>5, <3>1, ReplaceRunning
      <3>3. i \in 1 .. Size[job.ver]
        BY <3>2, StoreConstantsOK
      <3>4. QED
        BY <3>1, <3>3 DEF Replacing, FailsOnlyAsAttach
    <2>6. QED
      BY <2>4, <2>5
  <1>2. QED
    BY <1>1, Inductive, OrderlyInductive, PTL
==========================================================================
