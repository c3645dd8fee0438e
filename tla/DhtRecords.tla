----------------------------- MODULE DhtRecords -----------------------------
(***************************************************************************)
(* The records of one DHT key on the nodes that keep it: how they are put  *)
(* (libp2p/dht/default.go), stored (libp2p/datastore/xorm/default.go over  *)
(* libp2p/datastore/handler/dispatch.go) and queried                       *)
(* (p2p/dht/service/peerclient.go, p2p/chain/action/dht/queryvalue.go).    *)
(*                                                                         *)
(* A key stands for several rows, the items: the clients of a peer, the    *)
(* transactions of a business number, the slices of a block.  The kinds of *)
(* key differ in what the validator and the datastore do with them.  The   *)
(* kad-dht library is external: its PutValue and SearchValue are modelled  *)
(* by what the code uses of them.  The rows of one record are read and     *)
(* written in one step; the properties are about which items there are,    *)
(* not about which of two racing versions of an item wins.                 *)
(***************************************************************************)
EXTENDS Naturals, FiniteSets

CONSTANTS Nodes,
          Items,
          Jobs,        \* slots for queries and updates that are running
          Kinds,       \* the kinds of key to consider
          Levels,      \* the values of FaultTolerantLevel to consider
          MaxVersion, MaxJobs, MaxPuts, MaxTroubles, \* bounds
          None

AllKinds == {"client", "src", "chat", "block"}

ASSUME KindsOK == Kinds \subseteq AllKinds /\ Levels \subseteq 0 .. 2
ASSUME NodesOK == IsFiniteSet(Nodes)
ASSUME BoundsOK ==
    /\ MaxVersion \in Nat \ {0} /\ MaxJobs \in Nat
    /\ MaxPuts \in Nat /\ MaxTroubles \in Nat

VARIABLES
    kind,      \* the kind of the key
    level,     \* FaultTolerantLevel
    rows,      \* rows[n][i]: the version of item i in the tables of n, or 0
    puts,      \* PUT_VALUE requests on their way
    jobs,      \* jobs[k]: the query or update in slot k
    version,   \* the last version an author has made
    withdrawn, \* history: items deleted by their author
    started, troubles

setting == <<kind, level>>
author == <<version, withdrawn>>
vars == <<kind, level, rows, puts, jobs, version, withdrawn, started, troubles>>

Versions == 0 .. MaxVersion
Rec == [Items -> Versions]
NoRec == [i \in Items |-> 0]
Present(r) == {i \in Items : r[i] # 0}

\* list: the value is a JSON array, as a datastore returns it; a put of the
\* code carries one entity.
Put == [to : Nodes, recs : Rec, del : BOOLEAN, list : BOOLEAN]

\* recs: the rows the loop at pc has left, read before or received; clean:
\* nobody has stored a row here since the delete; missed: what another node
\* that was reached holds and the answer does not have.
Job == [node : Nodes,
        pc : {"read", "delete", "ask", "restore", "store", "answer", "put"},
        recs : Rec, clean : BOOLEAN, missed : SUBSET Items]

ASSUME NoneOK == None \notin Job

\* The types of the variables.
TypeOK ==
    /\ kind \in AllKinds /\ level \in 0 .. 2
    /\ rows \in [Nodes -> Rec]
    /\ puts \subseteq Put
    /\ jobs \in [Jobs -> Job \cup {None}]
    /\ version \in Versions
    /\ withdrawn \subseteq Items
    /\ started \in 0 .. MaxJobs
    /\ troubles \in 0 .. MaxTroubles

\* What earlier puts have left, some of which reached one node only.
Init ==
    /\ kind \in Kinds /\ level \in Levels
    /\ rows \in [Nodes -> [Items -> {0, 1}]]
    /\ puts = {}
    /\ jobs = [k \in Jobs |-> None]
    /\ version = 1
    /\ withdrawn = {}
    /\ started = 0 /\ troubles = 0

----------------------------------------------------------------------------
(* The validators and the datastore.                                       *)

Single(i, v) == [NoRec EXCEPT ![i] = v]

Transaction == kind \in {"src", "chat"}

\* Whether Get finds a record: for the keys of chats, group files and
\* channels it returns an array even when no row matches.
HasRecord(r) == Present(r) # {} \/ kind = "chat"

\* Select of a new value against the stored one.  That of blocks parses the
\* new value as one entity and refuses an array with an error; the others
\* always take the new value.
SelectsNew(recs, list, old) ==
    kind = "block" /\ HasRecord(old) =>
        /\ ~list
        /\ \A i \in Present(recs) : old[i] < recs[i]

\* Put upserts each entity under its own key; one that is marked deleted
\* goes if it is there.
Stored(old, recs, del) ==
    [i \in Items |-> IF recs[i] = 0 THEN old[i]
                     ELSE IF del THEN 0 ELSE recs[i]]

\* The rows of n change to r; the jobs there that had deleted theirs and
\* have not asked yet are not alone any more.
Write(n, r) == rows' = [rows EXCEPT ![n] = r]

Dirty(j, n) ==
    IF j # None /\ j.node = n /\ j.pc = "ask" THEN [j EXCEPT !.clean = FALSE]
    ELSE j

Trouble == troubles < MaxTroubles /\ troubles' = troubles + 1
Fine == UNCHANGED troubles

Others(n) == Nodes \ {n}

\* A request may never be handled; those beyond MaxPuts are lost at once.
SendPuts(new) ==
    puts' = IF Cardinality(puts \cup new) <= MaxPuts THEN puts \cup new
            ELSE puts

----------------------------------------------------------------------------
(* Putting.                                                                *)

\* The requests PutValue sends to the closest peers.  Without any peer
\* GetClosestPeers fails, which the code hides for most kinds.
Requests(n, recs, del) ==
    {[to |-> m, recs |-> recs, del |-> del, list |-> FALSE] : m \in Others(n)}

\* PutValue: locally if Select allows, then to the closest peers.
PutValue(n, recs, del) ==
    IF SelectsNew(recs, FALSE, rows[n])
    THEN /\ Write(n, Stored(rows[n], recs, del))
         /\ SendPuts(Requests(n, recs, del))
    ELSE UNCHANGED <<rows, puts>>

\* A new version of an item is put.
NewVersion(n, i) ==
    /\ version < MaxVersion
    /\ version' = version + 1
    /\ PutValue(n, Single(i, version + 1), FALSE)
    /\ jobs' = [k \in Jobs |-> Dirty(jobs[k], n)]
    /\ UNCHANGED <<setting, withdrawn, started>> /\ Fine

\* By CONNECT, or by StoreValue's PutPTs.
PutNew(n, i) == kind # "block" /\ NewVersion(n, i)

\* By PUTVALUE, for what is not a peer client.
PutEntity(n, i) == kind = "block" /\ NewVersion(n, i)

\* PutPTs with Status Deleted.
Withdraw(n, i) ==
    /\ Transaction
    /\ i \notin withdrawn
    /\ withdrawn' = withdrawn \cup {i}
    /\ PutValue(n, Single(i, version), TRUE)
    /\ jobs' = [k \in Jobs |-> Dirty(jobs[k], n)]
    /\ UNCHANGED <<setting, version, started>> /\ Fine

\* A node handles a PUT_VALUE request: of PutValue, or of a read repair.
HandlePut(p) ==
    /\ p \in puts
    /\ puts' = puts \ {p}
    /\ IF SelectsNew(p.recs, p.list, rows[p.to])
       THEN /\ Write(p.to, Stored(rows[p.to], p.recs, p.del))
            /\ jobs' = [k \in Jobs |-> Dirty(jobs[k], p.to)]
       ELSE UNCHANGED <<rows, jobs>>
    /\ UNCHANGED <<setting, author, started>> /\ Fine

----------------------------------------------------------------------------
(* Jobs.                                                                   *)

Goto(k, pc) == jobs' = [jobs EXCEPT ![k].pc = pc]
End(k) == jobs' = [jobs EXCEPT ![k] = None]
At(k, pc) == jobs[k] # None /\ jobs[k].pc = pc

NewJob(n, pc, recs) ==
    [node |-> n, pc |-> pc, recs |-> recs, clean |-> TRUE, missed |-> {}]

Start(k, job) ==
    /\ jobs[k] = None /\ started < MaxJobs
    /\ jobs' = [jobs EXCEPT ![k] = job]
    /\ started' = started + 1
    /\ UNCHANGED <<setting, rows, puts, author>> /\ Fine

JobElsewhere == UNCHANGED <<setting, author, started>>

\* Where a query begins.  QUERYVALUE does nothing at level 1.
QueryFrom == IF level = 2 THEN "read"
             ELSE IF level = 1 /\ kind # "client" THEN "answer" ELSE "ask"

Query(k, n) == Start(k, NewJob(n, QueryFrom, NoRec))

\* FINDCLIENT; Lookup, GetPublicKey and CONNECT query the same way.
FindClient(k, n) == kind = "client" /\ Query(k, n)

\* QUERYVALUE, of the index of blocks or of the slices of one.  A condition
\* that lacks what names the key is refused before anything is done.
QueryIndex(k, n) == Transaction /\ Query(k, n)
QueryBlocks(k, n) == kind = "block" /\ Query(k, n)

\* The rows a query puts aside.  GetLocalDBs is called with slice number 0,
\* which no slice has: for blocks nothing is put aside.
Locals(n) == IF kind = "block" THEN NoRec ELSE rows[n]

\* GetLocals, GetLocalPTs, GetLocalDBs; reading the datastore may fail.
ReadLocals(k) ==
    /\ At(k, "read")
    /\ LET r == Locals(jobs[k].node) IN
       jobs' = [jobs EXCEPT ![k].recs = r,
                            ![k].pc = IF Present(r) = {} THEN "ask"
                                      ELSE "delete"]
    /\ UNCHANGED <<rows, puts>> /\ JobElsewhere /\ Fine

ReadLocalsFails(k) ==
    /\ At(k, "read")
    /\ Trouble /\ End(k)
    /\ UNCHANGED <<rows, puts>> /\ JobElsewhere

\* Fault: the rows are read and not deleted.
DeleteNothing(k) ==
    /\ At(k, "delete")
    /\ Goto(k, "ask")
    /\ UNCHANGED <<rows, puts>> /\ JobElsewhere /\ Fine

\* Delete of the rows read, as they are by now.  Its result is ignored.
DeleteLocals(k) ==
    /\ At(k, "delete")
    /\ LET n == jobs[k].node IN
       Write(n, [i \in Items |-> IF jobs[k].recs[i] # 0 THEN 0
                                 ELSE rows[n][i]])
    /\ jobs' = [jobs EXCEPT ![k].pc = "ask",
                    ![k].clean = Present(rows[jobs[k].node])
                                 \subseteq Present(jobs[k].recs)]
    /\ UNCHANGED puts /\ JobElsewhere /\ Fine

DeleteLocalsFails(k) ==
    /\ At(k, "delete")
    /\ Trouble
    /\ jobs' = [jobs EXCEPT ![k].pc = "ask", ![k].clean = FALSE]
    /\ UNCHANGED <<rows, puts>> /\ JobElsewhere

----------------------------------------------------------------------------
(* GetValues.                                                              *)

\* SearchValue takes the local record first and a later one only if Select
\* of the two returns the later, which no validator does: the first record
\* is the only one.
FirstRecord(n) ==
    IF HasRecord(rows[n]) THEN {n} ELSE {m \in Others(n) : HasRecord(rows[m])}

\* The read repair of SearchValue: the record goes to the peers without it.
Repairs(n, r) ==
    {[to |-> m, recs |-> r, del |-> FALSE, list |-> TRUE] :
        m \in {o \in Others(n) : rows[o] # r}}

\* Where a query goes on with the record r: at level 2 the rows put aside
\* are put back, and for blocks those received are stored.
AfterAsk(j, r) ==
    IF level # 2 THEN [j EXCEPT !.pc = "answer"]
    ELSE IF kind = "block" THEN [j EXCEPT !.pc = "store", !.recs = r]
    ELSE [j EXCEPT !.pc = "restore"]

\* The answer has the rows put aside and those of r.
Received(k, r, others) ==
    LET j == AfterAsk(jobs[k], r) IN
    jobs' = [jobs EXCEPT ![k] =
               [j EXCEPT !.missed = IF jobs[k].clean
                                    THEN others \ (Present(jobs[k].recs)
                                                   \cup Present(r))
                                    ELSE {},
                         !.clean = TRUE]]

\* The network is reached: the record of node m is the value.
Ask(k, m) ==
    /\ At(k, "ask")
    /\ m \in FirstRecord(jobs[k].node)
    /\ LET n == jobs[k].node IN
       /\ Received(k, rows[m], UNION {Present(rows[o]) : o \in Others(n)})
       /\ SendPuts(Repairs(n, rows[m]))
    /\ UNCHANGED rows /\ JobElsewhere /\ Fine

\* GETVALUE of the key: the record goes into the answer as it is, and what
\* stays of the search is its read repair.
GetValue(n) ==
    /\ started < MaxJobs /\ started' = started + 1
    /\ \E m \in FirstRecord(n) : SendPuts(Repairs(n, rows[m]))
    /\ UNCHANGED <<setting, author, rows, jobs>> /\ Fine

\* No other node answers: the local record or nothing is the value.
AskNobody(k) ==
    /\ At(k, "ask")
    /\ LET n == jobs[k].node IN
       Received(k, IF HasRecord(rows[n]) THEN rows[n] ELSE NoRec, {})
    /\ UNCHANGED <<rows, puts>> /\ JobElsewhere /\ Fine

\* SearchValue fails; the query returns at once.  A failed lookup counts as
\* an empty answer, except for the kinds the list of prefixes leaves out.
AskFails(k) ==
    /\ At(k, "ask")
    /\ Trouble /\ End(k)
    /\ UNCHANGED <<rows, puts>> /\ JobElsewhere

----------------------------------------------------------------------------
(* Putting back, and the answer.                                           *)

\* One iteration of PutLocals, PutLocalPTs, and for blocks PutLocalDBs of
\* what was received: PutLocal of one record.
PutLocal(k, i) ==
    /\ \/ At(k, "restore") \/ At(k, "store")
    /\ jobs[k].recs[i] # 0
    /\ LET n == jobs[k].node
           new == Single(i, jobs[k].recs[i])
           job == [jobs[k] EXCEPT !.recs[i] = 0] IN
       IF SelectsNew(new, FALSE, rows[n])
       THEN /\ Write(n, Stored(rows[n], new, FALSE))
            /\ jobs' = [x \in Jobs |->
                          IF x = k THEN job ELSE Dirty(jobs[x], n)]
       ELSE jobs' = [jobs EXCEPT ![k] = job] /\ UNCHANGED rows
    /\ UNCHANGED puts /\ JobElsewhere /\ Fine

\* An error ends the loop and the query.
PutLocalFails(k) ==
    /\ \/ At(k, "restore") \/ At(k, "store")
    /\ Present(jobs[k].recs) # {}
    /\ Trouble /\ End(k)
    /\ UNCHANGED <<rows, puts>> /\ JobElsewhere

\* Fault: the return stands inside the loop.
LoopEndsEarly(k) ==
    /\ \/ At(k, "restore") \/ At(k, "store")
    /\ Goto(k, "answer")
    /\ UNCHANGED <<rows, puts>> /\ JobElsewhere /\ Fine

LoopEnds(k) ==
    /\ \/ At(k, "restore") \/ At(k, "store")
    /\ Present(jobs[k].recs) = {}
    /\ Goto(k, "answer")
    /\ UNCHANGED <<rows, puts>> /\ JobElsewhere /\ Fine

Respond(k) ==
    /\ At(k, "answer")
    /\ End(k)
    /\ UNCHANGED <<rows, puts>> /\ JobElsewhere /\ Fine

----------------------------------------------------------------------------
(* PUTVALUE for a peer client: every row of the peer is changed.           *)

\* GetLocals finds the rows; without any the action answers NoLocalPCs.
UpdateClients(k, n) ==
    /\ kind = "client" /\ Present(rows[n]) # {}
    /\ version < MaxVersion /\ version' = version + 1
    /\ jobs[k] = None /\ started < MaxJobs /\ started' = started + 1
    /\ LET new == [i \in Items |-> IF rows[n][i] = 0 THEN 0 ELSE version + 1]
       IN jobs' = [jobs EXCEPT ![k] = NewJob(n, "put", new)]
    /\ UNCHANGED <<setting, rows, puts, withdrawn>> /\ Fine

\* PutValues of one row.
UpdatePut(k, i) ==
    /\ At(k, "put") /\ jobs[k].recs[i] # 0
    /\ LET j == jobs[k]
           left == [j EXCEPT !.recs[i] = 0] IN
       /\ PutValue(j.node, Single(i, j.recs[i]), FALSE)
       /\ jobs' = [x \in Jobs |->
                     IF x # k THEN Dirty(jobs[x], j.node)
                     ELSE IF Present(left.recs) = {} THEN None ELSE left]
    /\ JobElsewhere /\ Fine

\* The node restarts: what its goroutines held is gone.
Restart(n) ==
    /\ \E k \in Jobs : jobs[k] # None /\ jobs[k].node = n
    /\ Trouble
    /\ jobs' = [k \in Jobs |-> IF jobs[k] # None /\ jobs[k].node = n THEN None
                               ELSE jobs[k]]
    /\ UNCHANGED <<setting, rows, puts, author, started>>

----------------------------------------------------------------------------
JobStep(k) ==
    \/ ReadLocals(k) \/ DeleteLocals(k)
    \/ \E m \in Nodes : Ask(k, m)
    \/ AskNobody(k)
    \/ \E i \in Items : PutLocal(k, i) \/ UpdatePut(k, i)
    \/ LoopEnds(k) \/ Respond(k)

JobFails(k) ==
    \/ ReadLocalsFails(k) \/ DeleteLocalsFails(k) \/ AskFails(k)
    \/ PutLocalFails(k)

Next ==
    \/ \E n \in Nodes, i \in Items :
         PutNew(n, i) \/ PutEntity(n, i) \/ Withdraw(n, i)
    \/ \E p \in puts : HandlePut(p)
    \/ \E k \in Jobs, n \in Nodes :
         \/ FindClient(k, n) \/ QueryIndex(k, n) \/ QueryBlocks(k, n)
         \/ UpdateClients(k, n)
    \/ \E k \in Jobs : JobStep(k) \/ JobFails(k)
    \/ \E n \in Nodes : GetValue(n) \/ Restart(n)

Spec == Init /\ [][Next]_vars

----------------------------------------------------------------------------
(* Properties.                                                             *)

\* What a query still has to put back.
Holds(j) ==
    IF j # None /\ j.pc \in {"ask", "restore"} THEN Present(j.recs) ELSE {}

Held(n) == UNION {Holds(jobs[k]) :
                    k \in {x \in Jobs : jobs[x] # None /\ jobs[x].node = n}}

Kept == [n \in Nodes |-> Present(rows[n]) \cup Held(n)]

Keeper == INSTANCE RecordKeeper WITH kept <- Kept

\* However queries that take rows out of the tables and put them back
\* overlap with each other, with puts and with read repairs: without a
\* failure or a restart no node loses a record that was not withdrawn
\* (peerclient.go:248-270, queryvalue.go:127-155).
ImplementsRecordKeeper == Keeper!KeeperSpec

\* A level-2 query of peer clients or of collections returns what the other
\* node holds beside the local rows: it must have got the local rows out of
\* SearchValue's way (peerclient.go:258, queryvalue.go:140).  A row stored
\* here meanwhile defeats it, and so does a failed delete.
NonLocalFound ==
    \A k \in Jobs :
        At(k, "answer") /\ level = 2 /\ kind \in {"client", "src"}
        /\ Cardinality(Nodes) = 2
        => jobs[k].missed = {}

----------------------------------------------------------------------------
(* The inductive invariant.                                                *)

\* A delete on its way is of items their author has withdrawn.
PutsInv == \A p \in puts : p.del => Present(p.recs) \subseteq withdrawn

\* The queries NonLocalFound is about.
Aside == level = 2 /\ kind \in {"client", "src"}

\* Rows are put aside at level 2 only, and never for blocks; a query that is
\* alone on its node asks with no rows there.
Consistent(j) ==
    /\ j.pc \in {"read", "delete", "restore"} => level = 2
    /\ j.pc \in {"delete", "restore"} => kind # "block"
    /\ j.pc = "ask" /\ (level # 2 \/ kind = "block") => Present(j.recs) = {}
    /\ Aside /\ j.pc = "ask" /\ j.clean => Present(rows[j.node]) = {}
    /\ Aside /\ Cardinality(Nodes) = 2 => j.missed = {}

JobsInv == \A k \in Jobs : jobs[k] # None => Consistent(jobs[k])

RecordsInv == TypeOK /\ PutsInv /\ JobsInv
=============================================================================
