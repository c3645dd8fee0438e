---------------------------- MODULE BlockStore ----------------------------
(***************************************************************************)
(* What a node keeps of one data block: the rows of blc_datablock, one per *)
(* slice, the payloads moved to FileContent, the TransactionKeys and the   *)
(* PeerTransactions.  Three kinds of job change them: StoreValue, once per *)
(* slice of a version (p2p/chain/service/datablock.go), the read repair of *)
(* a query, PutLocal and then Put (libp2p/datastore/xorm/default.go), and  *)
(* a pass of DeleteExpiredDB.                                              *)
(*                                                                         *)
(* The slices of one version are stored by goroutines of their own and     *)
(* interleave; jobs do not overlap (StdConsensus has the writes of one     *)
(* slice overlap).  A version is its CreateTimestamp; ExpireDate is not    *)
(* modelled: a row may expire at any time.                                 *)
(***************************************************************************)
EXTENDS Naturals, FiniteSets

CONSTANTS MaxSlices,  \* bound on SliceSize
          Versions,   \* the versions of the block, by CreateTimestamp
          Size,       \* Size[v]: the SliceSize of version v
          Deletes,    \* versions sent without payload
          Big,        \* versions whose payloads exceed PayloadLimit
          Peers,      \* peers a TransactionKey may be for
          Keys,       \* Keys[v]: those version v has one for
          Attach,     \* whether BlockType is ChatAttach
          MaxFaults, MaxRepairs, MaxPasses, MaxLate, \* bounds
          None

Slices == 1 .. MaxSlices

ASSUME StoreConstantsOK ==
    /\ MaxSlices \in Nat \ {0}
    /\ Versions \subseteq Nat \ {0}
    /\ Size \in [Versions -> Slices]
    /\ Deletes \subseteq Versions /\ Big \subseteq Versions \ Deletes
    /\ Keys \in [Versions -> SUBSET Peers]
    /\ Attach \in BOOLEAN
    /\ MaxFaults \in Nat /\ MaxRepairs \in Nat
    /\ MaxPasses \in Nat /\ MaxLate \in Nat

VARIABLES
    rows,    \* rows[i]: the row of slice i
    files,   \* files[i]: the version whose payload FileContent holds, or 0
    tks,     \* tks[p]: the version whose key the row for peer p holds, or 0
    pts,     \* pts[i]: the version of the PeerTransaction of slice i, or 0
    job,     \* the job that is running
    calls,   \* calls[i]: its goroutine for slice i
    used,    \* history: versions submitted to this node
    current, \* history: the version acknowledged in full, not superseded
    emptied, \* history: the last job has deleted the block
    faults, repairs, passes, late

stored == <<rows, files, tks, pts>>
history == <<used, current, emptied>>
bounds == <<faults, repairs, passes, late>>
vars == <<rows, files, tks, pts, job, calls, used, current, emptied, faults,
          repairs, passes, late>>

Row == [ver : Versions, inFile : BOOLEAN]
Job == [kind : {"store", "repair", "expire"}, ver : Versions]

Pcs == {"select", "check", "clear", "drop", "unkey", "untrack", "spill",
        "upsert", "trim", "trimtrack", "key", "track", "ok", "error"}

\* found, old: whether Get found a row, and its SliceSize; todo: what the
\* loop at pc has left.
Call == [pc : Pcs,
         found : BOOLEAN, old : 0 .. MaxSlices,
         todo : (SUBSET Slices) \cup (SUBSET Peers)]

ASSUME NoneOK == None \notin Row /\ None \notin Job /\ None \notin Call

\* The types of the variables.
TypeOK ==
    /\ rows \in [Slices -> Row \cup {None}]
    /\ files \in [Slices -> Versions \cup {0}]
    /\ tks \in [Peers -> Versions \cup {0}]
    /\ pts \in [Slices -> Versions \cup {0}]
    /\ job \in Job \cup {None}
    /\ calls \in [Slices -> Call \cup {None}]
    /\ used \subseteq Versions
    /\ current \in Versions \cup {0}
    /\ emptied \in BOOLEAN
    /\ faults \in 0 .. MaxFaults /\ repairs \in 0 .. MaxRepairs
    /\ passes \in 0 .. MaxPasses /\ late \in 0 .. MaxLate

Init ==
    /\ rows = [i \in Slices |-> None]
    /\ files = [i \in Slices |-> 0]
    /\ tks = [p \in Peers |-> 0]
    /\ pts = [i \in Slices |-> 0]
    /\ job = None
    /\ calls = [i \in Slices |-> None]
    /\ used = {} /\ current = 0 /\ emptied = FALSE
    /\ faults = 0 /\ repairs = 0 /\ passes = 0 /\ late = 0

----------------------------------------------------------------------------
(* Helpers.                                                                *)

NoCalls == [i \in Slices |-> None]

At(i, pc) == calls[i] # None /\ calls[i].pc = pc

NewCall(pc, old) == [pc |-> pc, found |-> FALSE, old |-> old, todo |-> {}]

Goto(i, pc) == calls' = [calls EXCEPT ![i].pc = pc]

\* Go to a loop over a set.
Loop(i, pc, todo) == calls' = [calls EXCEPT ![i].pc = pc, ![i].todo = todo]

Fault == faults < MaxFaults /\ faults' = faults + 1

NoFault == UNCHANGED faults

Elsewhere == UNCHANGED <<job, used, current, emptied, repairs, passes, late>>

\* What a query returns for slice i: QueryValue and xorm get fill an empty
\* payload from FileContent.
Read(i) == IF rows[i].inFile THEN files[i] ELSE rows[i].ver

\* PutPTs knows no transaction type for ChatAttach.
PutPTsKnows == ~Attach

----------------------------------------------------------------------------
(* The jobs.                                                               *)

\* Nothing else runs; what a job leaves is for it to establish.
Start(j, c) ==
    /\ job = None
    /\ job' = j /\ calls' = c
    /\ emptied' = FALSE
    /\ UNCHANGED stored

\* A client's version reaches StoreValue, one goroutine per slice.
StoreValue(v) ==
    /\ v \notin used
    /\ Start([kind |-> "store", ver |-> v],
             [i \in Slices |-> IF i <= Size[v] THEN NewCall("check", 0)
                               ELSE None])
    /\ used' = used \cup {v}
    /\ current' = IF v > current THEN 0 ELSE current
    /\ \/ /\ \A u \in used : u < v
          /\ UNCHANGED late
       \/ /\ \E u \in used : u > v
          /\ late < MaxLate /\ late' = late + 1
    /\ UNCHANGED <<faults, repairs, passes>>

\* A query hands a record another node has answered to PutLocal.
PutLocal(v, i) ==
    /\ v \notin Deletes /\ i <= Size[v]
    /\ repairs < MaxRepairs /\ repairs' = repairs + 1
    /\ Start([kind |-> "repair", ver |-> v],
             [NoCalls EXCEPT ![i] = NewCall("select", 0)])
    /\ current' = IF v > current THEN 0 ELSE current
    /\ UNCHANGED <<used, faults, passes, late>>

\* A pass finds an expired row; only that of the first slice matters.
DeleteExpiredDB ==
    /\ rows[1] # None
    /\ passes < MaxPasses /\ passes' = passes + 1
    /\ Start([kind |-> "expire", ver |-> rows[1].ver],
             [NoCalls EXCEPT ![1] = NewCall("clear", Size[rows[1].ver])])
    /\ current' = 0
    /\ UNCHANGED <<used, faults, repairs, late>>

\* Every goroutine has returned.
Finish ==
    LET mine == {i \in Slices : calls[i] # None}
        ok   == \A i \in mine : calls[i].pc = "ok"
        gone == job.kind = "expire" \/ job.ver \in Deletes
    IN /\ job # None
       /\ \A i \in mine : calls[i].pc \in {"ok", "error"}
       /\ job' = None /\ calls' = NoCalls
       /\ current' = IF ok /\ job.kind = "store" /\ ~gone THEN job.ver
                     ELSE current
       /\ emptied' = (ok /\ gone)
       /\ UNCHANGED <<stored, used, bounds>>

\* The process stops and keeps its database and its files.
Crash ==
    /\ job # None
    /\ Fault
    /\ job' = None /\ calls' = NoCalls
    /\ UNCHANGED <<stored, history, repairs, passes, late>>

----------------------------------------------------------------------------
(* The checks.                                                             *)

\* PutLocal: Select skips the record unless it is newer than the row.
Select(i) ==
    /\ At(i, "select")
    /\ Goto(i, IF rows[i] # None /\ job.ver <= rows[i].ver
               THEN "ok" ELSE "check")
    /\ NoFault /\ UNCHANGED stored /\ Elsewhere

Spills == IF job.ver \in Big THEN "spill" ELSE "upsert"

\* Fault: the timestamps are not compared.
StoreCheckNoTimestamp(i) ==
    /\ At(i, "check")
    /\ calls' = [calls EXCEPT ![i].pc = Spills, ![i].found = rows[i] # None]
    /\ NoFault /\ UNCHANGED stored /\ Elsewhere

\* Get, and the checks on what it returns.
StoreCheck(i) ==
    /\ At(i, "check")
    /\ LET old == rows[i]
           v   == job.ver
       IN \/ /\ old = None
             /\ Goto(i, IF v \in Deletes THEN "ok" ELSE Spills)
             /\ NoFault
          \/ /\ old # None /\ job.kind = "store"
             /\ v <= old.ver
             /\ Goto(i, "error") /\ NoFault
          \/ /\ old # None  \* owner, public key or signature
             /\ Goto(i, "error") /\ Fault
          \/ /\ old # None /\ (job.kind = "repair" \/ v > old.ver)
             /\ calls' = [calls EXCEPT
                  ![i].pc = IF v \notin Deletes THEN Spills
                            ELSE IF i = 1 THEN "clear" ELSE "ok",
                  ![i].found = TRUE,
                  ![i].old = Size[old.ver]]
             /\ NoFault
    /\ UNCHANGED stored /\ Elsewhere

----------------------------------------------------------------------------
(* Deleting: the result of a write of nil and of Delete is not looked at.  *)

\* A call goes on whether or not its write took place.
Unchecked(i, effect, nothing) ==
    \/ effect /\ NoFault
    \/ nothing /\ Fault

ClearFiles(i) ==
    /\ At(i, "clear")
    /\ Unchecked(i, files' = [k \in Slices |->
                                IF k <= calls[i].old THEN 0 ELSE files[k]],
                 UNCHANGED files)
    /\ Goto(i, "drop")
    /\ UNCHANGED <<rows, tks, pts>> /\ Elsewhere

DropRows(i) ==
    /\ At(i, "drop")
    /\ Unchecked(i, rows' = [k \in Slices |-> None], UNCHANGED rows)
    /\ Goto(i, "unkey")
    /\ UNCHANGED <<files, tks, pts>> /\ Elsewhere

\* Fault: the slices the delete names itself.
TrackedOfDelete(i) ==
    IF job.kind = "expire" /\ Attach THEN {} ELSE 1 .. Size[job.ver]

\* The slices whose PeerTransactions a delete removes.
Tracked(i) ==
    IF job.kind = "expire" /\ Attach THEN {} ELSE 1 .. calls[i].old

DropKeys(i) ==
    /\ At(i, "unkey")
    /\ Unchecked(i, tks' = [p \in Peers |-> 0], UNCHANGED tks)
    /\ IF Tracked(i) = {} THEN Goto(i, "ok")
       ELSE Loop(i, "untrack", Tracked(i))
    /\ UNCHANGED <<rows, files, pts>> /\ Elsewhere

----------------------------------------------------------------------------
(* Storing.                                                                *)

\* FileContent.Write of a large payload; Put does not look at its result.
Spill(i) ==
    /\ At(i, "spill")
    /\ \/ /\ files' = [files EXCEPT ![i] = job.ver]
          /\ Goto(i, "upsert") /\ NoFault
       \/ /\ Goto(i, IF job.kind = "store" THEN "error" ELSE "upsert")
          /\ Fault /\ UNCHANGED files
    /\ UNCHANGED <<rows, tks, pts>> /\ Elsewhere

\* The keys come with the first slice; ChatAttach has no PeerTransaction.
GotoKeys(i) ==
    IF i = 1 /\ Keys[job.ver] # {} THEN Loop(i, "key", Keys[job.ver])
    ELSE Loop(i, IF Attach THEN "ok" ELSE "track", {})

\* Upsert: insert a row, or update the row that Get returned.
Upsert(i) ==
    /\ At(i, "upsert")
    /\ \/ /\ ~calls[i].found \/ rows[i] # None
          /\ rows' = [rows EXCEPT ![i] = [ver |-> job.ver,
                                          inFile |-> job.ver \in Big]]
          /\ IF i = 1 /\ Size[job.ver] < calls[i].old THEN Goto(i, "trim")
             ELSE GotoKeys(i)
          /\ NoFault
       \/ /\ calls[i].found /\ rows[i] = None
          /\ Goto(i, "error") /\ NoFault /\ UNCHANGED rows
       \/ /\ Goto(i, "error") /\ Fault /\ UNCHANGED rows
    /\ UNCHANGED <<files, tks, pts>> /\ Elsewhere

\* Fault: the condition on SliceNumber is forgotten.
BeyondAll(i) == Slices

\* The slices with SliceNumber > SliceSize.
Beyond(i) == {k \in Slices : Size[job.ver] < k}

\* The slices whose PeerTransactions a shorter version removes.
Extra(i) == (Size[job.ver] + 1) .. calls[i].old

Trim(i) ==
    /\ At(i, "trim")
    /\ Unchecked(i, rows' = [k \in Slices |-> IF k \in Beyond(i) THEN None
                                              ELSE rows[k]],
                 UNCHANGED rows)
    /\ Loop(i, "trimtrack", Extra(i))
    /\ UNCHANGED <<files, tks, pts>> /\ Elsewhere

\* PutPTs of a deleted PeerTransaction, for one slice of either loop.
Untrack(i) ==
    /\ At(i, "untrack") \/ At(i, "trimtrack")
    /\ \E k \in calls[i].todo :
         LET rest == calls[i].todo \ {k}
         IN \/ /\ PutPTsKnows
               /\ pts' = [pts EXCEPT ![k] = 0]
               /\ CASE rest # {}        -> Loop(i, calls[i].pc, rest)
                    [] rest = {} /\ At(i, "untrack") -> Loop(i, "ok", {})
                    [] OTHER            -> GotoKeys(i)
               /\ NoFault
            \/ /\ ~PutPTsKnows
               /\ Goto(i, "error") /\ UNCHANGED pts /\ NoFault
            \/ /\ PutPTsKnows
               /\ pts' \in {pts, [pts EXCEPT ![k] = 0]}
               /\ Goto(i, "error") /\ Fault
    /\ UNCHANGED <<rows, files, tks>> /\ Elsewhere

\* Get and Upsert of one TransactionKey.
Key(i) ==
    /\ At(i, "key")
    /\ \E p \in calls[i].todo :
         LET rest == calls[i].todo \ {p}
         IN \/ /\ tks' = [tks EXCEPT ![p] = job.ver]
               /\ Loop(i, IF rest # {} THEN "key" ELSE IF Attach THEN "ok"
                          ELSE "track", rest)
               /\ NoFault
            \/ Goto(i, "error") /\ Fault /\ UNCHANGED tks
    /\ UNCHANGED <<rows, files, pts>> /\ Elsewhere

\* PutPTs of the slice's own PeerTransaction: the local write, then the DHT.
Track(i) ==
    /\ At(i, "track")
    /\ \/ /\ pts' = [pts EXCEPT ![i] = job.ver]
          /\ Goto(i, "ok") /\ NoFault
       \/ /\ pts' \in {pts, [pts EXCEPT ![i] = job.ver]}
          /\ Goto(i, "error") /\ Fault
    /\ UNCHANGED <<rows, files, tks>> /\ Elsewhere

----------------------------------------------------------------------------

Step(i) ==
    \/ Select(i) \/ StoreCheck(i)
    \/ ClearFiles(i) \/ DropRows(i) \/ DropKeys(i)
    \/ Spill(i) \/ Upsert(i) \/ Trim(i) \/ Untrack(i) \/ Key(i) \/ Track(i)

Next ==
    \/ \E v \in Versions : StoreValue(v)
    \/ \E v \in Versions, i \in Slices : PutLocal(v, i)
    \/ DeleteExpiredDB
    \/ \E i \in Slices : Step(i)
    \/ Finish
    \/ Crash

Spec == Init /\ [][Next]_vars

----------------------------------------------------------------------------
(* Properties.                                                             *)

\* A version all of whose slices were acknowledged stays readable as it was
\* sent, whatever failed before it and whatever late or repaired records of
\* older versions come after it: every payload, every TransactionKey of a
\* receiver and every PeerTransaction is that version's.
Complete ==
    current # 0 =>
      /\ \A i \in 1 .. Size[current] :
           /\ rows[i] # None /\ Read(i) = current
           /\ ~Attach => pts[i] = current
      /\ \A p \in Keys[current] : tks[p] = current

\* No fault, no repair and no version out of order.
Orderly == faults = 0 /\ repairs = 0 /\ late = 0

\* Then nothing of another version is left: a delete or a pass of
\* DeleteExpiredDB removes every row, key and PeerTransaction, and a shorter
\* version the slices beyond its size (the second loop of StoreValue).
Exact ==
    Orderly =>
      /\ emptied => /\ \A i \in Slices : rows[i] = None /\ pts[i] = 0
                    /\ \A p \in Peers : tks[p] = 0
      /\ current # 0 => \A i \in Slices : i > Size[current] =>
                           rows[i] = None /\ pts[i] = 0

\* And no call fails: versions sent in order are all accepted.  PutPTs must
\* not be asked for a ChatAttach, which needs no PeerTransaction.
OrderlyAccepted == Orderly => \A i \in Slices : ~At(i, "error")

----------------------------------------------------------------------------
(* The inductive invariant behind Complete.                                *)

\* Slice i is stored as version v.
Stored(i, v) ==
    /\ rows[i] = [ver |-> v, inFile |-> v \in Big]
    /\ v \in Big => files[i] = v

Keyed(P, v) == \A p \in P : tks[p] = v

Deleting == job.kind = "expire" \/ job.ver \in Deletes

\* Where the goroutine of slice i may be, for which job.
CallAt(i, c) ==
    /\ job # None
    /\ job.kind # "expire" => i <= Size[job.ver]
    /\ job.kind = "store" => job.ver \in used
    /\ c.pc \in {"clear", "drop", "unkey", "untrack"} => i = 1 /\ Deleting
    /\ c.pc \in {"spill", "upsert", "trim", "trimtrack", "key", "track"} =>
         ~Deleting
    /\ c.pc \in {"trim", "trimtrack", "key"} => i = 1
    /\ c.pc = "untrack" => c.todo \subseteq Slices
    /\ c.pc = "trimtrack" => c.todo \subseteq Beyond(i)
    /\ c.pc = "key" => c.todo \subseteq Keys[job.ver]
    /\ c.pc = "spill" => job.ver \in Big
    /\ c.pc = "select" => job.kind = "repair"
    /\ c.pc = "check" => job.kind # "expire"

CallInv == \A i \in Slices : calls[i] # None => CallAt(i, calls[i])

\* What the goroutine of slice i has stored so far.
Progress(i, c) ==
    /\ c.pc = "upsert" /\ job.ver \in Big => files[i] = job.ver
    /\ c.pc \in {"trim", "trimtrack", "key", "track", "ok"} =>
         Stored(i, job.ver)
    /\ c.pc = "ok" /\ ~Attach => pts[i] = job.ver
    /\ i = 1 /\ c.pc = "key" => Keyed(Keys[job.ver] \ c.todo, job.ver)
    /\ i = 1 /\ c.pc \in {"track", "ok"} => Keyed(Keys[job.ver], job.ver)

\* The job stores a version that has a payload.
Storing == job # None /\ job.kind = "store" /\ job.ver \notin Deletes

StoreInv ==
    Storing => \A i \in 1 .. Size[job.ver] :
                 calls[i] # None /\ Progress(i, calls[i])

\* Slice i is what an acknowledged version v has left.
Kept(i, v) == Stored(i, v) /\ (~Attach => pts[i] = v)

\* Where a goroutine may be at a slice of a newer version.
TurnedDown(c) ==
    c.pc \in IF job.kind = "store" THEN {"check", "error"}
             ELSE {"select", "ok", "error"}

\* The current version is stored, and what runs now can only be turned down
\* at its slices.
CurrentInv ==
    current # 0 =>
      /\ current \in used /\ current \notin Deletes
      /\ \A i \in 1 .. Size[current] : Kept(i, current)
      /\ Keyed(Keys[current], current)
      /\ job # None =>
           /\ job.kind # "expire" /\ job.ver <= current
           /\ \A i \in 1 .. Size[current] :
                calls[i] # None => TurnedDown(calls[i])

IInv == TypeOK /\ CallInv /\ StoreInv /\ CurrentInv

----------------------------------------------------------------------------
(* The inductive invariant behind Exact and OrderlyAccepted: what an       *)
(* orderly job finds, and what it has left of it.  The PeerTransactions of *)
(* a ChatAttach come to nothing: its delete and its shorter version fail   *)
(* there, in the goroutine of the first slice, when the rest is done.      *)

NoTracks ==
    Attach => \A i \in Slices : pts[i] = 0 /\ ~At(i, "track")

FailsOnlyAsAttach(i) == At(i, "error") => Attach /\ i = 1

\* Slice i is one of version w, or of none for 0, the empty store.
Has(w, i) == w # 0 /\ i <= Size[w]

\* Slice i is as version w has left it.
RowOf(i, w) ==
    IF Has(w, i) THEN rows[i] # None /\ rows[i].ver = w
    ELSE rows[i] = None

Before(i, w) ==
    /\ RowOf(i, w)
    /\ Attach \/ pts[i] = IF Has(w, i) THEN w ELSE 0

Untracked(i) == Attach \/ pts[i] = 0

Blank(i) == rows[i] = None /\ Untracked(i)

NoKeys == \A p \in Peers : tks[p] = 0

\* No job runs, and the store is as version w has left it.
Resting(w) ==
    /\ \A i \in Slices : Before(i, w)
    /\ w = 0 => NoKeys
    /\ current \in {0, w} /\ (emptied => w = 0)

\* A goroutine has found what version w left of its slice.
Met(i, w, c) ==
    IF Has(w, i) THEN c.found /\ c.old = Size[w] ELSE ~c.found /\ c.old = 0

\* What the goroutine of the first slice has left of w beyond the size of the
\* version that replaces it.
Ahead(w, c) ==
    /\ c.pc = "trim" => w # 0 /\ c.old = Size[w]
    /\ \A k \in Beyond(1) :
         /\ c.pc \in {"check", "spill", "upsert", "trim"} => Before(k, w)
         /\ c.pc = "trimtrack" =>
              rows[k] = None /\ (k \notin c.todo => Untracked(k))
         /\ c.pc \in {"key", "track", "ok", "error"} => Blank(k)

\* A version with a payload replaces w, slice by slice.
Replacing(w) ==
    /\ w < job.ver
    /\ \A i \in 1 .. Size[job.ver] :
         /\ FailsOnlyAsAttach(i)
         /\ calls[i].pc = "error" => RowOf(i, job.ver)
         /\ calls[i].pc = "check" => calls[i] = NewCall("check", 0)
         /\ calls[i].pc \in {"check", "spill", "upsert"} => Before(i, w)
         /\ calls[i].pc \in {"spill", "upsert"} => Met(i, w, calls[i])
    /\ Ahead(w, calls[1])

\* What the goroutine of the first slice has left of w in a delete or a pass,
\* which take away the rows, the keys and then the PeerTransactions.
Emptied(w, c) ==
    /\ c.pc \in {"check", "clear", "drop"} =>
         (\A k \in Slices : Before(k, w)) /\ (w = 0 => NoKeys)
    /\ c.pc \in {"clear", "drop"} => w # 0 /\ c.old = Size[w]
    /\ c.pc \in {"unkey", "untrack", "ok", "error"} =>
         \A k \in Slices : rows[k] = None
    /\ c.pc = "unkey" => \A k \in Slices : k > c.old => Untracked(k)
    /\ c.pc = "untrack" => \A k \in Slices \ c.todo : Untracked(k)
    /\ c.pc \in {"ok", "error"} => \A k \in Slices : Untracked(k)
    /\ c.pc \in {"untrack", "ok", "error"} => NoKeys

Emptying(w) ==
    /\ job.kind = "store" => w < job.ver
    /\ calls[1] # None
    /\ \A i \in Slices : FailsOnlyAsAttach(i)
    /\ Emptied(w, calls[1])

\* A job comes to a store that the one before has left whole.
Working(w) ==
    /\ current = 0 /\ ~emptied /\ job.kind # "repair"
    /\ IF Deleting THEN Emptying(w) ELSE Replacing(w)

OrderlyInv ==
    Orderly =>
      \E w \in used \cup {0} :
        IF job = None THEN Resting(w) ELSE Working(w)
============================================================================
