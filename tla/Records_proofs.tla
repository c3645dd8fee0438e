-------------------------- MODULE Records_proofs --------------------------
(***************************************************************************)
(* Proofs about the two kinds of DHT record that are modelled: those of    *)
(* one key on the nodes that keep it (DhtRecords), for any nodes, items,   *)
(* jobs and bounds, and the row of a peer (EndpointRecords), for any       *)
(* number of messages under way and any bounds.  The two share no state.   *)
(***************************************************************************)
EXTENDS DhtRecords, EndpointRecords, FiniteSetTheorems, TLAPS

----------------------------------------------------------------------------
(* DhtRecords: records and jobs.                                           *)

\* The shape of a job that runs.
LEMMA JobFields ==
    ASSUME TypeOK, NEW k \in Jobs, jobs[k] # None
    PROVE  /\ jobs[k] \in Job
           /\ jobs[k].node \in Nodes /\ jobs[k].recs \in Rec
           /\ jobs[k].clean \in BOOLEAN /\ jobs[k].missed \in SUBSET Items
           /\ jobs[k].pc \in {"read", "delete", "ask", "restore", "store",
                              "answer", "put"}
  BY DEF TypeOK, Job

\* A record with one entity.
LEMMA SingleType ==
    ASSUME NEW i \in Items, NEW v \in Versions
    PROVE  /\ Single(i, v) \in Rec
           /\ \A x \in Items : Single(i, v)[x] = IF x = i THEN v ELSE 0
  BY BoundsOK DEF Single, NoRec, Rec, Versions

\* Put of the datastore: what it stores, and what is left of what was there.
LEMMA StoredRows ==
    ASSUME NEW old \in Rec, NEW recs \in Rec, NEW del \in BOOLEAN
    PROVE  /\ Stored(old, recs, del) \in Rec
           /\ Present(old) \ Present(recs)
                \subseteq Present(Stored(old, recs, del))
           /\ ~del => Present(old) \cup Present(recs)
                        \subseteq Present(Stored(old, recs, del))
  BY BoundsOK DEF Stored, Rec, Versions, Present

\* A store on the same node only tells a job that it is not alone.
LEMMA DirtyJob ==
    ASSUME TypeOK, NEW k \in Jobs, NEW n \in Nodes
    PROVE  /\ Dirty(jobs[k], n) \in Job \cup {None}
           /\ Dirty(jobs[k], n) = None <=> jobs[k] = None
           /\ jobs[k] # None =>
                /\ Dirty(jobs[k], n).node = jobs[k].node
                /\ Dirty(jobs[k], n).pc = jobs[k].pc
                /\ Dirty(jobs[k], n).recs = jobs[k].recs
                /\ Dirty(jobs[k], n).missed = jobs[k].missed
                /\ jobs[k].pc = "ask" /\ Dirty(jobs[k], n).clean =>
                     jobs[k].node # n /\ jobs[k].clean
  <1>1. CASE jobs[k] # None /\ jobs[k].node = n /\ jobs[k].pc = "ask"
    <2>1. jobs[k] \in Job
      BY <1>1, JobFields
    <2>2. Dirty(jobs[k], n) = [jobs[k] EXCEPT !.clean = FALSE]
      BY <1>1 DEF Dirty
    <2>3. [jobs[k] EXCEPT !.clean = FALSE] \in Job
      BY <2>1 DEF Job
    <2>4. QED
      BY <1>1, <2>1, <2>2, <2>3, NoneOK DEF Job
  <1>2. CASE ~(jobs[k] # None /\ jobs[k].node = n /\ jobs[k].pc = "ask")
    BY <1>2 DEF Dirty, TypeOK
  <1>3. QED
    BY <1>1, <1>2

----------------------------------------------------------------------------
(* DhtRecords: types.                                                      *)

\* The tables hold what earlier puts have left, and nothing runs.
LEMMA InitTypes == Init => TypeOK
  BY KindsOK, BoundsOK DEF Init, TypeOK, Rec, Versions

\* PutValue stores at n if Select allows, and asks the closest peers.
LEMMA PutValueTypes ==
    ASSUME TypeOK, NEW n \in Nodes, NEW recs \in Rec, NEW del \in BOOLEAN,
           PutValue(n, recs, del)
    PROVE  rows' \in [Nodes -> Rec] /\ puts' \subseteq Put
  <1>1. rows[n] \in Rec /\ Stored(rows[n], recs, del) \in Rec
    BY StoredRows DEF TypeOK
  <1>2. ASSUME NEW m \in Nodes
        PROVE  [to |-> m, recs |-> recs, del |-> del, list |-> FALSE] \in Put
    BY DEF Put
  <1>3. Requests(n, recs, del) \subseteq Put
    BY <1>2 DEF Requests, Others
  <1>4. QED
    BY <1>1, <1>3 DEF PutValue, SendPuts, Write, TypeOK

\* One job moves on.
LEMMA OneJob ==
    ASSUME TypeOK, NEW k \in Jobs, NEW j \in Job \cup {None},
           jobs' = [jobs EXCEPT ![k] = j]
    PROVE  /\ jobs' \in [Jobs -> Job \cup {None}]
           /\ jobs'[k] = j
           /\ \A x \in Jobs : x # k => jobs'[x] = jobs[x]
  BY DEF TypeOK

\* A step of a job that waits at pc "ask" when the network has answered.
LEMMA AnswerTypes ==
    ASSUME TypeOK, NEW k \in Jobs, At(k, "ask"), NEW r \in Rec,
           NEW others \in SUBSET Items, Received(k, r, others)
    PROVE  /\ jobs'[k] \in Job
           /\ jobs'[k].node = jobs[k].node
           /\ jobs'[k].clean = TRUE
           /\ jobs'[k].missed = IF jobs[k].clean
                                THEN others \ (Present(jobs[k].recs)
                                                 \cup Present(r))
                                ELSE {}
           /\ level # 2 => jobs'[k].pc = "answer"
           /\ level = 2 /\ kind = "block" => jobs'[k].pc = "store"
           /\ level = 2 /\ kind # "block" =>
                jobs'[k].pc = "restore" /\ jobs'[k].recs = jobs[k].recs
           /\ \A x \in Jobs : x # k => jobs'[x] = jobs[x]
           /\ jobs' \in [Jobs -> Job \cup {None}]
  <1> DEFINE m == IF jobs[k].clean
                  THEN others \ (Present(jobs[k].recs) \cup Present(r))
                  ELSE {}
             j == AfterAsk(jobs[k], r)
  <1>1. jobs[k] \in Job
    BY JobFields DEF At
  <1>2. /\ j \in Job /\ j.node = jobs[k].node
        /\ level # 2 => j.pc = "answer"
        /\ level = 2 /\ kind = "block" => j.pc = "store"
        /\ level = 2 /\ kind # "block" =>
             j.pc = "restore" /\ j.recs = jobs[k].recs
    BY <1>1 DEF AfterAsk, Job
  <1>3. m \in SUBSET Items
    OBVIOUS
  <1>4. jobs' = [jobs EXCEPT ![k] = [j EXCEPT !.missed = m, !.clean = TRUE]]
    BY DEF Received
  <1> HIDE DEF m, j
  <1> DEFINE a == [j EXCEPT !.missed = m, !.clean = TRUE]
  <1>5. /\ a \in Job /\ a.node = j.node /\ a.pc = j.pc /\ a.recs = j.recs
        /\ a.missed = m /\ a.clean = TRUE
    BY <1>2, <1>3 DEF Job
  <1>6. /\ jobs' \in [Jobs -> Job \cup {None}] /\ jobs'[k] = a
        /\ \A x \in Jobs : x # k => jobs'[x] = jobs[x]
    BY <1>4, <1>5, OneJob
  <1>7. QED
    BY <1>2, <1>5, <1>6 DEF m

\* PutLocal and UpdatePut: one row less is left to the loop.
LEMMA LoopJob ==
    ASSUME TypeOK, NEW k \in Jobs, jobs[k] # None, NEW i \in Items,
           NEW j, j = [jobs[k] EXCEPT !.recs[i] = 0]
    PROVE  /\ j \in Job /\ j.node = jobs[k].node /\ j.pc = jobs[k].pc
           /\ j.clean = jobs[k].clean /\ j.missed = jobs[k].missed
           /\ Present(jobs[k].recs) \subseteq Present(j.recs) \cup {i}
           /\ Present(j.recs) \subseteq Present(jobs[k].recs)
  <1>1. jobs[k] \in Job
    BY JobFields
  <1>2. [jobs[k].recs EXCEPT ![i] = 0] \in Rec
    BY <1>1, BoundsOK DEF Job, Rec, Versions
  <1>3. /\ j.recs = [jobs[k].recs EXCEPT ![i] = 0] /\ j.node = jobs[k].node
        /\ j.pc = jobs[k].pc /\ j.clean = jobs[k].clean
        /\ j.missed = jobs[k].missed /\ j \in Job
    BY <1>1, <1>2 DEF Job
  <1>4. QED
    BY <1>1, <1>3 DEF Present, Rec, Job

\* Jobs that hear of a store on n, job k excepted.
LEMMA ToldJobs ==
    ASSUME TypeOK, NEW n \in Nodes, NEW k \in Jobs, NEW j \in Job \cup {None},
           jobs' = [x \in Jobs |-> IF x = k THEN j ELSE Dirty(jobs[x], n)]
    PROVE  jobs' \in [Jobs -> Job \cup {None}]
  BY DirtyJob

\* The rows and requests a new version or a withdrawal leaves.
LEMMA PutTypes ==
    ASSUME TypeOK, NEW n \in Nodes, NEW i \in Items,
           NewVersion(n, i) \/ Withdraw(n, i)
    PROVE  TypeOK'
  <1>1. jobs' \in [Jobs -> Job \cup {None}]
    <2>1. jobs' = [k \in Jobs |-> Dirty(jobs[k], n)]
      BY DEF NewVersion, Withdraw
    <2>2. QED
      BY <2>1, DirtyJob
  <1>2. CASE NewVersion(n, i)
    <2>1. version + 1 \in Versions
      BY <1>2, BoundsOK DEF NewVersion, TypeOK, Versions
    <2>2. rows' \in [Nodes -> Rec] /\ puts' \subseteq Put
      BY <1>2, <2>1, SingleType, PutValueTypes DEF NewVersion
    <2>3. QED
      BY <1>1, <1>2, <2>1, <2>2 DEF NewVersion, TypeOK, setting, Fine
  <1>3. CASE Withdraw(n, i)
    <2>1. rows' \in [Nodes -> Rec] /\ puts' \subseteq Put
      BY <1>3, SingleType, PutValueTypes DEF Withdraw, TypeOK
    <2>2. QED
      BY <1>1, <1>3, <2>1 DEF Withdraw, TypeOK, setting, Fine
  <1>4. QED
    BY <1>2, <1>3

\* A handled request keeps the types, whether Select lets it pass or not.
LEMMA HandlePutTypes ==
    ASSUME TypeOK, NEW p \in puts, HandlePut(p) PROVE TypeOK'
  <1>1. /\ p.to \in Nodes /\ p.recs \in Rec /\ p.del \in BOOLEAN
        /\ rows[p.to] \in Rec
    BY DEF TypeOK, Put
  <1>2. Stored(rows[p.to], p.recs, p.del) \in Rec
    BY <1>1, StoredRows
  <1>3. rows' \in [Nodes -> Rec]
    BY <1>1, <1>2 DEF HandlePut, Write, TypeOK
  <1>4. jobs' \in [Jobs -> Job \cup {None}]
    BY <1>1, DirtyJob DEF HandlePut, TypeOK
  <1>5. QED
    BY <1>3, <1>4 DEF HandlePut, TypeOK, setting, author, Fine

\* A query or an update starts in a free slot.
LEMMA NewJobType ==
    ASSUME NEW n \in Nodes, NEW recs \in Rec,
           NEW pc \in {"read", "ask", "answer", "put"}
    PROVE  NewJob(n, pc, recs) \in Job
  BY DEF NewJob, Job

\* A query starts with no rows put aside.
LEMMA NoRecType == NoRec \in Rec /\ Present(NoRec) = {}
  BY BoundsOK DEF NoRec, Rec, Versions, Present

Starts(k, n) ==
    \/ FindClient(k, n) \/ QueryIndex(k, n) \/ QueryBlocks(k, n)

\* What a query or an update starts with has the types of a job.
LEMMA StartTypes ==
    ASSUME TypeOK, NEW k \in Jobs, NEW n \in Nodes,
           Starts(k, n) \/ UpdateClients(k, n)
    PROVE  TypeOK'
  <1>1. CASE Starts(k, n)
    <2>1. NewJob(n, QueryFrom, NoRec) \in Job
      BY NewJobType, NoRecType DEF QueryFrom
    <2>2. QED
      BY <1>1, <2>1, BoundsOK
         DEF Starts, FindClient, QueryIndex, QueryBlocks, Query, Start, TypeOK,
             setting, author, Fine
  <1>2. CASE UpdateClients(k, n)
    <2>1. version + 1 \in Versions
      BY <1>2, BoundsOK DEF UpdateClients, TypeOK, Versions
    <2> DEFINE new == [i \in Items |-> IF rows[n][i] = 0 THEN 0
                                       ELSE version + 1]
    <2>2. new \in Rec
      BY <2>1, BoundsOK DEF Rec, Versions
    <2>3. NewJob(n, "put", new) \in Job
      BY <2>2, NewJobType
    <2>4. jobs' = [jobs EXCEPT ![k] = NewJob(n, "put", new)]
      BY <1>2 DEF UpdateClients
    <2>5. jobs' \in [Jobs -> Job \cup {None}]
      BY <2>3, <2>4, OneJob
    <2>6. started' \in 0 .. MaxJobs
      BY <1>2, BoundsOK DEF UpdateClients, TypeOK
    <2>7. QED
      BY <1>2, <2>1, <2>5, <2>6 DEF UpdateClients, TypeOK, setting, Fine
  <1>3. QED
    BY <1>1, <1>2

\* The steps of a query before the network is asked.
LEMMA LocalTypes ==
    ASSUME TypeOK, NEW k \in Jobs,
           \/ ReadLocals(k) \/ DeleteLocals(k) \/ DeleteLocalsFails(k)
           \/ LoopEnds(k)
    PROVE  TypeOK'
  <1>1. jobs[k] # None /\ jobs[k] \in Job /\ jobs[k].node \in Nodes
    BY JobFields DEF ReadLocals, DeleteLocals, DeleteLocalsFails, LoopEnds, At
  <1>2. CASE ReadLocals(k)
    <2> DEFINE rs == Locals(jobs[k].node)
               pc == IF Present(rs) = {} THEN "ask" ELSE "delete"
    <2>1. rs \in Rec
      BY <1>1, NoRecType DEF Locals, TypeOK
    <2>2. jobs' = [jobs EXCEPT ![k] = [@ EXCEPT !.recs = rs, !.pc = pc]]
      BY <1>2 DEF ReadLocals
    <2>3. [jobs[k] EXCEPT !.recs = rs, !.pc = pc] \in Job
      BY <1>1, <2>1 DEF Job
    <2>4. QED
      BY <1>2, <2>2, <2>3
         DEF ReadLocals, TypeOK, setting, author, JobElsewhere, Fine
  <1>3. CASE DeleteLocals(k)
    <2> DEFINE n == jobs[k].node
               left == [i \in Items |-> IF jobs[k].recs[i] # 0 THEN 0
                                        ELSE rows[n][i]]
               c == Present(rows[n]) \subseteq Present(jobs[k].recs)
    <2>1. left \in Rec
      BY <1>1, BoundsOK DEF TypeOK, Rec, Versions
    <2>2. jobs' = [jobs EXCEPT ![k] = [@ EXCEPT !.pc = "ask", !.clean = c]]
      BY <1>3 DEF DeleteLocals
    <2>3. c \in BOOLEAN
      OBVIOUS
    <2>4. [jobs[k] EXCEPT !.pc = "ask", !.clean = c] \in Job
      <3> HIDE DEF c
      <3> QED
        BY <1>1, <2>3 DEF Job
    <2>5. rows' = [rows EXCEPT ![n] = left]
      BY <1>3 DEF DeleteLocals, Write
    <2>6. rows' \in [Nodes -> Rec]
      BY <1>1, <2>1, <2>5 DEF TypeOK
    <2>7. jobs' \in [Jobs -> Job \cup {None}]
      BY <2>2, <2>4 DEF TypeOK
    <2>8. QED
      BY <1>3, <2>6, <2>7
         DEF DeleteLocals, TypeOK, setting, author, JobElsewhere, Fine
  <1>4. CASE DeleteLocalsFails(k)
    <2>1. [jobs[k] EXCEPT !.pc = "ask", !.clean = FALSE] \in Job
      BY <1>1 DEF Job
    <2>2. jobs' = [jobs EXCEPT ![k] = [@ EXCEPT !.pc = "ask", !.clean = FALSE]]
      BY <1>4 DEF DeleteLocalsFails
    <2>3. QED
      BY <1>4, <2>1, <2>2, BoundsOK
         DEF DeleteLocalsFails, TypeOK, setting, author, JobElsewhere, Trouble
  <1>5. CASE LoopEnds(k)
    <2>1. [jobs[k] EXCEPT !.pc = "answer"] \in Job
      BY <1>1 DEF Job
    <2>2. jobs' = [jobs EXCEPT ![k] = [@ EXCEPT !.pc = "answer"]]
      BY <1>5 DEF LoopEnds, Goto
    <2>3. QED
      BY <1>5, <2>1, <2>2
         DEF LoopEnds, TypeOK, setting, author, JobElsewhere, Fine
  <1>6. QED
    BY <1>2, <1>3, <1>4, <1>5

\* A read repair sends the record it found.
LEMMA RepairTypes ==
    ASSUME TypeOK, NEW n \in Nodes, NEW rec \in Rec
    PROVE  /\ Repairs(n, rec) \subseteq Put
           /\ \A p \in Repairs(n, rec) : ~p.del
  <1>1. ASSUME NEW m \in Nodes
        PROVE  [to |-> m, recs |-> rec, del |-> FALSE, list |-> TRUE] \in Put
    BY DEF Put
  <1>2. QED
    BY <1>1 DEF Repairs, Others

\* The answer of the network, or of nobody, keeps the types.
LEMMA AskTypes ==
    ASSUME TypeOK, NEW k \in Jobs,
           (\E m \in Nodes : Ask(k, m)) \/ AskNobody(k)
    PROVE  TypeOK'
  <1> DEFINE n == jobs[k].node
  <1>1. At(k, "ask") /\ n \in Nodes
    BY JobFields DEF Ask, AskNobody, At
  <1>2. ASSUME NEW m \in Nodes, Ask(k, m) PROVE TypeOK'
    <2>1. rows[m] \in Rec
      BY DEF TypeOK
    <2>2. UNION {Present(rows[o]) : o \in Others(n)} \in SUBSET Items
      BY DEF Present
    <2>3. jobs' \in [Jobs -> Job \cup {None}]
      BY <1>1, <1>2, <2>1, <2>2, AnswerTypes DEF Ask
    <2>4. puts' \subseteq Put
      BY <1>1, <1>2, <2>1, RepairTypes DEF Ask, SendPuts, TypeOK
    <2>5. QED
      BY <1>2, <2>3, <2>4 DEF Ask, TypeOK, setting, author, JobElsewhere, Fine
  <1>3. CASE AskNobody(k)
    <2>1. PICK found \in Rec : Received(k, found, {})
      <3>1. (IF HasRecord(rows[n]) THEN rows[n] ELSE NoRec) \in Rec
        BY <1>1, NoRecType DEF TypeOK
      <3>2. QED
        BY <1>3, <3>1 DEF AskNobody
    <2>2. jobs' \in [Jobs -> Job \cup {None}]
      BY <1>1, <2>1, AnswerTypes
    <2>3. QED
      BY <1>3, <2>2 DEF AskNobody, TypeOK, setting, author, JobElsewhere, Fine
  <1>4. QED
    BY <1>2, <1>3

\* PutLocal and UpdatePut store one row of the loop.
LEMMA LoopTypes ==
    ASSUME TypeOK, NEW k \in Jobs, NEW i \in Items,
           PutLocal(k, i) \/ UpdatePut(k, i)
    PROVE  TypeOK'
  <1> DEFINE n == jobs[k].node
             v == jobs[k].recs[i]
             j == [jobs[k] EXCEPT !.recs[i] = 0]
  <1>1. jobs[k] # None
    BY DEF PutLocal, UpdatePut, At
  <1>2. n \in Nodes /\ v \in Versions /\ Single(i, v) \in Rec
    BY <1>1, JobFields, SingleType DEF Rec
  <1>3. j \in Job
    BY <1>1, LoopJob
  <1>4. CASE PutLocal(k, i)
    <2>1. Stored(rows[n], Single(i, v), FALSE) \in Rec
      BY <1>2, StoredRows DEF TypeOK
    <2>2. rows' \in [Nodes -> Rec]
      BY <1>2, <1>4, <2>1 DEF PutLocal, Write, TypeOK
    <2>3. \/ jobs' = [x \in Jobs |-> IF x = k THEN j ELSE Dirty(jobs[x], n)]
          \/ jobs' = [jobs EXCEPT ![k] = j]
      BY <1>4 DEF PutLocal
    <2>4. jobs' \in [Jobs -> Job \cup {None}]
      <3> HIDE DEF j, n
      <3> QED
        BY <1>2, <1>3, <2>3, ToldJobs, OneJob
    <2>5. QED
      BY <1>4, <2>2, <2>4
         DEF PutLocal, TypeOK, setting, author, JobElsewhere, Fine
  <1>5. CASE UpdatePut(k, i)
    <2>1. rows' \in [Nodes -> Rec] /\ puts' \subseteq Put
      BY <1>2, <1>5, PutValueTypes DEF UpdatePut
    <2>2. PICK l \in Job \cup {None} :
            jobs' = [x \in Jobs |-> IF x = k THEN l ELSE Dirty(jobs[x], n)]
      <3> DEFINE l == IF Present(j.recs) = {} THEN None ELSE j
      <3>1. jobs' = [x \in Jobs |-> IF x # k THEN Dirty(jobs[x], n)
                                    ELSE l]
        BY <1>5 DEF UpdatePut
      <3>2. l \in Job \cup {None}
        BY <1>3
      <3> HIDE DEF l, n
      <3>3. QED
        BY <3>1, <3>2
    <2>3. jobs' \in [Jobs -> Job \cup {None}]
      BY <1>2, <2>2, ToldJobs
    <2>4. QED
      BY <1>5, <2>1, <2>3 DEF UpdatePut, TypeOK, setting, author,
                              JobElsewhere, Fine
  <1>6. QED
    BY <1>4, <1>5

\* A query that ends, with its answer or an error, and a restart.
Ends(k) == ReadLocalsFails(k) \/ AskFails(k) \/ PutLocalFails(k) \/ Respond(k)

\* Ends and restarts keep the types: they only remove jobs.
LEMMA EndTypes ==
    ASSUME TypeOK,
           (\E k \in Jobs : Ends(k)) \/ (\E n \in Nodes : Restart(n))
    PROVE  TypeOK'
  <1>1. jobs' \in [Jobs -> Job \cup {None}]
    BY DEF Ends, ReadLocalsFails, AskFails, PutLocalFails, Respond, End,
           Restart, TypeOK
  <1>2. QED
    BY <1>1, BoundsOK
       DEF Ends, ReadLocalsFails, AskFails, PutLocalFails, Respond, Restart,
           TypeOK, setting, author, JobElsewhere, Fine, Trouble

\* GETVALUE keeps the types: it leaves a read repair.
LEMMA GetValueTypes ==
    ASSUME TypeOK, NEW n \in Nodes, GetValue(n) PROVE TypeOK'
  <1>1. PICK m \in Nodes : SendPuts(Repairs(n, rows[m]))
    BY DEF GetValue, FirstRecord, Others
  <1>2. puts' \subseteq Put
    BY <1>1, RepairTypes DEF SendPuts, TypeOK
  <1>3. QED
    BY <1>2, BoundsOK DEF GetValue, TypeOK, setting, author, Fine

\* The steps of the system, as these lemmas take them apart.
LEMMA NextSteps ==
    ASSUME Next
    PROVE  \/ \E n \in Nodes, i \in Items : NewVersion(n, i) \/ Withdraw(n, i)
           \/ \E p \in puts : HandlePut(p)
           \/ \E k \in Jobs, n \in Nodes : Starts(k, n) \/ UpdateClients(k, n)
           \/ \E k \in Jobs : \/ ReadLocals(k) \/ DeleteLocals(k)
                              \/ DeleteLocalsFails(k) \/ LoopEnds(k)
           \/ \E k \in Jobs : (\E m \in Nodes : Ask(k, m)) \/ AskNobody(k)
           \/ \E k \in Jobs, i \in Items : PutLocal(k, i) \/ UpdatePut(k, i)
           \/ \E k \in Jobs : Ends(k)
           \/ \E n \in Nodes : Restart(n)
           \/ \E n \in Nodes : GetValue(n)
  BY DEF Next, JobStep, JobFails, PutNew, PutEntity, Starts, Ends

\* Every step keeps the types.
LEMMA NextTypes == TypeOK /\ [Next]_vars => TypeOK'
  <1>1. CASE UNCHANGED vars
    BY <1>1 DEF vars, TypeOK
  <1>2. ASSUME TypeOK, Next PROVE TypeOK'
    BY <1>2, NextSteps, PutTypes, HandlePutTypes, StartTypes, LocalTypes,
       AskTypes, LoopTypes, EndTypes, GetValueTypes
  <1>3. QED
    BY <1>1, <1>2

----------------------------------------------------------------------------
(* DhtRecords: the inductive invariant.                                    *)

\* The kind of the key and the level never change.
LEMMA SettingKept == [Next]_vars => kind' = kind /\ level' = level
  BY DEF Next, vars, JobStep, JobFails, PutNew, PutEntity, NewVersion,
         Withdraw, HandlePut, FindClient, QueryIndex, QueryBlocks, Query,
         Start, UpdateClients, ReadLocals, DeleteLocals, Ask, AskNobody,
         PutLocal, UpdatePut, LoopEnds, Respond, ReadLocalsFails,
         DeleteLocalsFails, AskFails, PutLocalFails, GetValue, Restart,
         setting, JobElsewhere

\* What is withdrawn stays withdrawn.
LEMMA WithdrawnKept == [Next]_vars => withdrawn \subseteq withdrawn'
  BY DEF Next, vars, JobStep, JobFails, PutNew, PutEntity, NewVersion,
         Withdraw, HandlePut, FindClient, QueryIndex, QueryBlocks, Query,
         Start, UpdateClients, ReadLocals, DeleteLocals, Ask, AskNobody,
         PutLocal, UpdatePut, LoopEnds, Respond, ReadLocalsFails,
         DeleteLocalsFails, AskFails, PutLocalFails, GetValue, Restart,
         author, JobElsewhere

\* A request of PutValue carries what was put.
LEMMA NewRequests ==
    ASSUME NEW n, NEW recs, NEW del, PutValue(n, recs, del),
           NEW p \in puts', p \notin puts
    PROVE  p.recs = recs /\ p.del = del
  <1>1. p \in Requests(n, recs, del)
    BY DEF PutValue, SendPuts
  <1>2. PICK m : p = [to |-> m, recs |-> recs, del |-> del, list |-> FALSE]
    BY <1>1 DEF Requests
  <1>3. QED
    BY <1>2

\* Only Withdraw sends deletes, of the item it withdraws.
LEMMA PutsStep == RecordsInv /\ [Next]_vars => PutsInv'
  <1> SUFFICES ASSUME RecordsInv, [Next]_vars, NEW p \in puts', p.del
               PROVE  Present(p.recs) \subseteq withdrawn'
    BY DEF PutsInv
  <1> USE DEF RecordsInv
  <1>1. CASE p \in puts
    BY <1>1, WithdrawnKept DEF PutsInv
  <1>2. ASSUME NEW n \in Nodes, NEW i \in Items, Withdraw(n, i)
        PROVE  p \in puts \/ Present(p.recs) \subseteq withdrawn'
    <2>1. p \in puts \/ p.recs = Single(i, version)
      BY <1>2, NewRequests DEF Withdraw
    <2>2. Present(Single(i, version)) \subseteq {i}
      BY SingleType DEF Present, TypeOK
    <2>3. i \in withdrawn'
      BY <1>2 DEF Withdraw
    <2>4. QED
      BY <2>1, <2>2, <2>3
  <1>3. ASSUME NEW n \in Nodes, NEW recs, PutValue(n, recs, FALSE)
        PROVE  p \in puts
    BY <1>3, NewRequests
  <1>4. ASSUME NEW n \in Nodes, NEW m \in Nodes,
               SendPuts(Repairs(n, rows[m]))
        PROVE  p \in puts
    <2>1. rows[m] \in Rec
      BY DEF TypeOK
    <2>2. QED
      BY <1>4, <2>1, RepairTypes DEF SendPuts
  <1>5. ASSUME NEW k \in Jobs, NEW m \in Nodes, Ask(k, m) PROVE p \in puts
    BY <1>4, <1>5, JobFields DEF Ask, At
  <1>6. ASSUME NEW n \in Nodes, GetValue(n) PROVE p \in puts
    BY <1>4, <1>6 DEF GetValue, FirstRecord, Others
  <1>7. ASSUME NEW k \in Jobs, NEW i \in Items, UpdatePut(k, i)
        PROVE  p \in puts
    BY <1>3, <1>7, JobFields DEF UpdatePut, At
  <1>8. \/ p \in puts
        \/ \E n \in Nodes, i \in Items : NewVersion(n, i) \/ Withdraw(n, i)
        \/ \E k \in Jobs, m \in Nodes : Ask(k, m)
        \/ \E k \in Jobs, i \in Items : UpdatePut(k, i)
        \/ \E n \in Nodes : GetValue(n)
    BY NextSteps
       DEF vars, HandlePut, Starts, FindClient, QueryIndex, QueryBlocks, Query,
           Start, UpdateClients, ReadLocals, DeleteLocals, DeleteLocalsFails,
           LoopEnds, AskNobody, PutLocal, Ends, ReadLocalsFails, AskFails,
           PutLocalFails, Respond, Restart
  <1>9. QED
    BY <1>1, <1>2, <1>3, <1>5, <1>6, <1>7, <1>8 DEF NewVersion

\* A job that a step leaves alone stays consistent if its node gets no rows,
\* and so does one that was told of them.
LEMMA Undisturbed ==
    ASSUME TypeOK, kind' = kind, level' = level, NEW k \in Jobs,
           jobs[k] # None, Consistent(jobs[k]), jobs'[k] = jobs[k],
           Present(rows'[jobs[k].node]) \subseteq Present(rows[jobs[k].node])
    PROVE  Consistent(jobs[k])'
  BY DEF Consistent, Aside

\* A job whose node gets rows is told of them, and stays consistent.
LEMMA Told ==
    ASSUME TypeOK, kind' = kind, level' = level,
           NEW k \in Jobs, NEW n \in Nodes, jobs[k] # None,
           Consistent(jobs[k]), jobs'[k] = Dirty(jobs[k], n),
           \A m \in Nodes : m # n => rows'[m] = rows[m]
    PROVE  Consistent(jobs[k])'
  <1>1. /\ jobs'[k].pc = jobs[k].pc /\ jobs'[k].recs = jobs[k].recs
        /\ jobs'[k].node = jobs[k].node /\ jobs'[k].missed = jobs[k].missed
        /\ jobs[k].pc = "ask" /\ jobs'[k].clean =>
             jobs[k].node # n /\ jobs[k].clean
    BY DirtyJob
  <1>2. jobs[k].node \in Nodes
    BY JobFields
  <1>3. QED
    BY <1>1, <1>2 DEF Consistent, Aside

\* Steps that store at one node, and tell its jobs.
LEMMA PuttingStep ==
    ASSUME RecordsInv, kind' = kind, level' = level,
           \/ \E n \in Nodes, i \in Items : NewVersion(n, i) \/ Withdraw(n, i)
           \/ \E p \in puts : HandlePut(p)
    PROVE  JobsInv'
  <1> USE DEF RecordsInv
  <1>1. PICK n \in Nodes :
          /\ \A m \in Nodes : m # n => rows'[m] = rows[m]
          /\ \/ jobs' = [k \in Jobs |-> Dirty(jobs[k], n)]
             \/ jobs' = jobs /\ rows' = rows
    <2>1. ASSUME NEW n \in Nodes, NEW i \in Items,
                 NewVersion(n, i) \/ Withdraw(n, i)
          PROVE  /\ \A m \in Nodes : m # n => rows'[m] = rows[m]
                 /\ jobs' = [k \in Jobs |-> Dirty(jobs[k], n)]
      BY <2>1 DEF NewVersion, Withdraw, PutValue, Write, TypeOK
    <2>2. ASSUME NEW p \in puts, HandlePut(p)
          PROVE  /\ p.to \in Nodes
                 /\ \A m \in Nodes : m # p.to => rows'[m] = rows[m]
                 /\ \/ jobs' = [k \in Jobs |-> Dirty(jobs[k], p.to)]
                    \/ jobs' = jobs /\ rows' = rows
      BY <2>2 DEF HandlePut, Write, TypeOK, Put
    <2>3. QED
      BY <2>1, <2>2
  <1>2. SUFFICES ASSUME NEW k \in Jobs, jobs'[k] # None
                 PROVE  Consistent(jobs[k])'
    BY DEF JobsInv
  <1>3. jobs[k] # None
    BY <1>1, <1>2, DirtyJob
  <1>4. Consistent(jobs[k])
    BY <1>3 DEF JobsInv
  <1>5. QED
    BY <1>1, <1>3, <1>4, Told, Undisturbed

\* Steps that change one job and store nothing.
LEMMA OneJobStep ==
    ASSUME RecordsInv, kind' = kind, level' = level, NEW k \in Jobs,
           \A x \in Jobs : x # k => jobs'[x] = jobs[x],
           \A n \in Nodes : Present(rows'[n]) \subseteq Present(rows[n]),
           jobs'[k] # None => Consistent(jobs[k])'
    PROVE  JobsInv'
  <1> SUFFICES ASSUME NEW x \in Jobs, jobs'[x] # None PROVE Consistent(jobs[x])'
    BY DEF JobsInv
  <1>1. CASE x # k
    BY <1>1, Undisturbed, JobFields DEF RecordsInv, JobsInv
  <1>2. QED
    BY <1>1

\* A query starts with no rows put aside, and at level 2 by reading them.
LEMMA StartStep ==
    ASSUME RecordsInv, kind' = kind, level' = level, NEW k \in Jobs,
           NEW n \in Nodes, Starts(k, n) \/ UpdateClients(k, n)
    PROVE  JobsInv'
  <1> USE DEF RecordsInv
  <1>1. rows' = rows
    BY DEF Starts, FindClient, QueryIndex, QueryBlocks, Query, Start,
           UpdateClients
  <1>2. PICK pc, recs :
          /\ jobs' = [jobs EXCEPT ![k] = NewJob(n, pc, recs)]
          /\ \/ pc = QueryFrom /\ recs = NoRec
             \/ pc = "put"
    BY DEF Starts, FindClient, QueryIndex, QueryBlocks, Query, Start,
           UpdateClients
  <1>3. jobs'[k] = NewJob(n, pc, recs)
    BY <1>2 DEF TypeOK
  <1>4. Consistent(jobs[k])'
    <2>1. /\ jobs'[k].pc = pc /\ jobs'[k].recs = recs /\ jobs'[k].missed = {}
      BY <1>3 DEF NewJob
    <2>2. QED
      BY <1>2, <2>1, NoRecType DEF Consistent, Aside, QueryFrom
  <1>5. QED
    BY <1>1, <1>2, <1>4, OneJobStep DEF TypeOK

\* DeleteLocals leaves no row when it deleted all there were.
LEMMA LocalStep ==
    ASSUME RecordsInv, kind' = kind, level' = level, NEW k \in Jobs,
           \/ ReadLocals(k) \/ DeleteLocals(k) \/ DeleteLocalsFails(k)
           \/ LoopEnds(k)
    PROVE  JobsInv'
  <1> USE DEF RecordsInv
  <1> DEFINE n == jobs[k].node
  <1>1. jobs[k] # None /\ jobs[k] \in Job /\ n \in Nodes /\ Consistent(jobs[k])
    BY JobFields
       DEF ReadLocals, DeleteLocals, DeleteLocalsFails, LoopEnds, At, JobsInv
  <1>2. \A x \in Jobs : x # k => jobs'[x] = jobs[x]
    BY DEF ReadLocals, DeleteLocals, DeleteLocalsFails, LoopEnds, Goto, TypeOK
  <1>3. CASE ReadLocals(k)
    <2> DEFINE rs == Locals(n)
               pc == IF Present(rs) = {} THEN "ask" ELSE "delete"
    <2>1. /\ jobs' = [jobs EXCEPT ![k] = [@ EXCEPT !.recs = rs, !.pc = pc]]
          /\ rows' = rows /\ jobs[k].pc = "read"
      BY <1>3 DEF ReadLocals, At
    <2>2. /\ jobs'[k].pc = pc /\ jobs'[k].recs = rs /\ jobs'[k].node = n
          /\ jobs'[k].missed = jobs[k].missed
      BY <1>1, <2>1 DEF TypeOK, Job
    <2>3. level = 2
      BY <1>1, <2>1 DEF Consistent
    <2>4. kind = "block" => Present(rs) = {}
      BY NoRecType DEF Locals
    <2>5. kind # "block" => rs = rows[n]
      BY DEF Locals
    <2>6. Consistent(jobs[k])'
      BY <1>1, <2>1, <2>2, <2>3, <2>4, <2>5 DEF Consistent, Aside
    <2>7. QED
      BY <1>2, <2>1, <2>6, OneJobStep
  <1>4. CASE DeleteLocals(k)
    <2> DEFINE left == [i \in Items |-> IF jobs[k].recs[i] # 0 THEN 0
                                        ELSE rows[n][i]]
               c == Present(rows[n]) \subseteq Present(jobs[k].recs)
    <2>1. /\ jobs' = [jobs EXCEPT ![k] = [@ EXCEPT !.pc = "ask", !.clean = c]]
          /\ jobs[k].pc = "delete"
          /\ rows' = [rows EXCEPT ![n] = left]
      BY <1>4 DEF DeleteLocals, At, Write
    <2>2. /\ jobs'[k].pc = "ask" /\ jobs'[k].clean = c /\ jobs'[k].node = n
          /\ jobs'[k].missed = jobs[k].missed
      <3> HIDE DEF c
      <3> QED
        BY <1>1, <2>1 DEF TypeOK, Job
    <2>3. rows'[n] = left /\ \A m \in Nodes : m # n => rows'[m] = rows[m]
      BY <1>1, <2>1 DEF TypeOK
    <2>4. /\ Present(left) \subseteq Present(rows[n])
          /\ c => Present(left) = {}
      BY DEF Present
    <2>5. level = 2 /\ kind # "block"
      BY <1>1, <2>1 DEF Consistent
    <2>6. Consistent(jobs[k])'
      <3> HIDE DEF c, left
      <3> QED
        BY <1>1, <2>2, <2>3, <2>4, <2>5 DEF Consistent, Aside
    <2>7. \A m \in Nodes : Present(rows'[m]) \subseteq Present(rows[m])
      <3> HIDE DEF left
      <3> QED
        BY <2>3, <2>4
    <2>8. QED
      BY <1>2, <2>6, <2>7, OneJobStep
  <1>5. CASE DeleteLocalsFails(k)
    <2>1. /\ jobs' = [jobs EXCEPT ![k] =
                         [@ EXCEPT !.pc = "ask", !.clean = FALSE]]
          /\ rows' = rows /\ jobs[k].pc = "delete"
      BY <1>5 DEF DeleteLocalsFails, At
    <2>2. /\ jobs'[k].pc = "ask" /\ jobs'[k].clean = FALSE
          /\ jobs'[k].missed = jobs[k].missed
      BY <1>1, <2>1 DEF TypeOK, Job
    <2>3. Consistent(jobs[k])'
      BY <1>1, <2>1, <2>2 DEF Consistent, Aside
    <2>4. QED
      BY <1>2, <2>1, <2>3, OneJobStep
  <1>6. CASE LoopEnds(k)
    <2>1. /\ jobs' = [jobs EXCEPT ![k] = [@ EXCEPT !.pc = "answer"]]
          /\ rows' = rows
      BY <1>6 DEF LoopEnds, Goto
    <2>2. jobs'[k].pc = "answer" /\ jobs'[k].missed = jobs[k].missed
      BY <1>1, <2>1 DEF TypeOK, Job
    <2>3. Consistent(jobs[k])'
      BY <1>1, <2>2 DEF Consistent, Aside
    <2>4. QED
      BY <1>2, <2>1, <2>3, OneJobStep
  <1>7. QED
    BY <1>3, <1>4, <1>5, <1>6

\* Of two nodes, the other one is the only one.
LEMMA TheOther ==
    ASSUME Cardinality(Nodes) = 2, NEW n \in Nodes, NEW m \in Others(n),
           NEW o \in Others(n)
    PROVE  o = m
  <1>1. IsFiniteSet(Nodes \ {n}) /\ Cardinality(Nodes \ {n}) = 1
    BY NodesOK, FS_RemoveElement
  <1>2. PICK x : Nodes \ {n} = {x}
    BY <1>1, FS_Singleton
  <1>3. QED
    BY <1>2 DEF Others

\* Without rows of its own the query is answered by the other node.
LEMMA AskStep ==
    ASSUME RecordsInv, kind' = kind, level' = level, NEW k \in Jobs,
           (\E m \in Nodes : Ask(k, m)) \/ AskNobody(k)
    PROVE  JobsInv'
  <1> USE DEF RecordsInv
  <1> DEFINE n == jobs[k].node
  <1>1. /\ At(k, "ask") /\ rows' = rows /\ jobs[k] # None /\ n \in Nodes
        /\ jobs[k].pc = "ask" /\ Consistent(jobs[k])
    BY JobFields DEF Ask, AskNobody, At, JobsInv
  <1>2. PICK found \in Rec, others \in SUBSET Items :
          /\ Received(k, found, others)
          /\ Aside /\ Cardinality(Nodes) = 2 /\ jobs[k].clean =>
               others \subseteq Present(found)
    <2>1. ASSUME NEW m \in Nodes, Ask(k, m)
          PROVE  LET others == UNION {Present(rows[o]) : o \in Others(n)} IN
                 /\ rows[m] \in Rec /\ others \in SUBSET Items
                 /\ Received(k, rows[m], others)
                 /\ Aside /\ Cardinality(Nodes) = 2 /\ jobs[k].clean =>
                      others \subseteq Present(rows[m])
      <3> DEFINE others == UNION {Present(rows[o]) : o \in Others(n)}
      <3>1. rows[m] \in Rec /\ others \in SUBSET Items
        BY DEF TypeOK, Present
      <3>2. m \in FirstRecord(n) /\ Received(k, rows[m], others)
        BY <2>1 DEF Ask
      <3>3. ASSUME Aside, Cardinality(Nodes) = 2, jobs[k].clean
            PROVE  others \subseteq Present(rows[m])
        <4>1. Present(rows[n]) = {}
          BY <1>1, <3>3 DEF Consistent
        <4>2. m \in Others(n)
          BY <3>2, <3>3, <4>1 DEF FirstRecord, HasRecord, Aside
        <4>3. QED
          BY <1>1, <3>3, <4>2, TheOther
      <3>4. QED
        BY <3>1, <3>2, <3>3
    <2>2. CASE AskNobody(k)
      <3>1. (IF HasRecord(rows[n]) THEN rows[n] ELSE NoRec) \in Rec
        BY <1>1, NoRecType DEF TypeOK
      <3>2. QED
        BY <2>2, <3>1 DEF AskNobody
    <2>3. QED
      BY <2>1, <2>2
  <1>3. /\ jobs'[k].missed = IF jobs[k].clean
                             THEN others \ (Present(jobs[k].recs)
                                              \cup Present(found))
                             ELSE {}
        /\ level # 2 => jobs'[k].pc = "answer"
        /\ level = 2 /\ kind = "block" => jobs'[k].pc = "store"
        /\ level = 2 /\ kind # "block" => jobs'[k].pc = "restore"
        /\ \A x \in Jobs : x # k => jobs'[x] = jobs[x]
    BY <1>1, <1>2, AnswerTypes
  <1>4. Consistent(jobs[k])'
    BY <1>2, <1>3 DEF Consistent, Aside
  <1>5. QED
    BY <1>1, <1>3, <1>4, OneJobStep

\* The loop stores where the query runs, and tells the other jobs there.
LEMMA LoopStep ==
    ASSUME RecordsInv, kind' = kind, level' = level, NEW k \in Jobs,
           NEW i \in Items, PutLocal(k, i) \/ UpdatePut(k, i)
    PROVE  JobsInv'
  <1> USE DEF RecordsInv
  <1> DEFINE n == jobs[k].node
             j == [jobs[k] EXCEPT !.recs[i] = 0]
  <1>1. /\ jobs[k] # None /\ n \in Nodes /\ Consistent(jobs[k])
        /\ jobs[k].pc \in {"restore", "store", "put"}
    BY JobFields DEF PutLocal, UpdatePut, At, JobsInv
  <1>2. /\ j.pc = jobs[k].pc /\ j.missed = jobs[k].missed
    BY <1>1, LoopJob
  <1>3. \A m \in Nodes : m # n => rows'[m] = rows[m]
    BY DEF PutLocal, UpdatePut, PutValue, Write, TypeOK
  <1>4. \/ jobs'[k] = j
        \/ jobs'[k] = None
    BY DEF PutLocal, UpdatePut, TypeOK
  <1>5. ASSUME NEW x \in Jobs, x # k
        PROVE  \/ jobs'[x] = Dirty(jobs[x], n)
               \/ jobs'[x] = jobs[x] /\ rows' = rows
    BY <1>5 DEF PutLocal, UpdatePut, TypeOK
  <1> SUFFICES ASSUME NEW x \in Jobs, jobs'[x] # None PROVE Consistent(jobs[x])'
    BY DEF JobsInv
  <1>6. CASE x = k
    <2>1. jobs'[k].pc = jobs[k].pc /\ jobs'[k].missed = jobs[k].missed
      BY <1>2, <1>4, <1>6
    <2>2. QED
      BY <1>1, <1>6, <2>1 DEF Consistent, Aside
  <1>7. CASE x # k
    <2>1. jobs[x] # None /\ Consistent(jobs[x])
      BY <1>1, <1>5, <1>7, DirtyJob DEF JobsInv
    <2>2. QED
      BY <1>1, <1>3, <1>5, <1>7, <2>1, Told, Undisturbed
  <1>8. QED
    BY <1>6, <1>7

\* A query that ends, a restart and GETVALUE leave the other jobs alone.
LEMMA EndStep ==
    ASSUME RecordsInv, kind' = kind, level' = level,
           \/ \E k \in Jobs : Ends(k) \/ \E n \in Nodes : Restart(n)
           \/ \E n \in Nodes : Restart(n) \/ GetValue(n)
           \/ UNCHANGED vars
    PROVE  JobsInv'
  <1> USE DEF RecordsInv
  <1> SUFFICES ASSUME NEW k \in Jobs, jobs'[k] # None PROVE Consistent(jobs[k])'
    BY DEF JobsInv
  <1>1. rows' = rows /\ jobs'[k] = jobs[k]
    BY DEF Ends, ReadLocalsFails, AskFails, PutLocalFails, Respond, End,
           Restart, GetValue, TypeOK, vars
  <1>2. QED
    BY <1>1, Undisturbed DEF JobsInv

\* The types, what is known of the deletes on their way and of each running
\* query hold in every reachable state (peerclient.go:248-270,
\* queryvalue.go:127-155).
THEOREM RecordsInvariant == Spec => []RecordsInv
  <1>1. Init => RecordsInv
    BY InitTypes DEF Init, RecordsInv, PutsInv, JobsInv
  <1>2. RecordsInv /\ [Next]_vars => RecordsInv'
    <2> SUFFICES ASSUME RecordsInv, [Next]_vars PROVE RecordsInv'
      OBVIOUS
    <2>1. TypeOK' /\ PutsInv'
      BY NextTypes, PutsStep DEF RecordsInv
    <2>2. kind' = kind /\ level' = level
      BY SettingKept
    <2>3. JobsInv'
      BY <2>2, NextSteps, PuttingStep, StartStep, LocalStep, AskStep, LoopStep,
         EndStep
    <2>4. QED
      BY <2>1, <2>3 DEF RecordsInv
  <1>3. QED
    BY <1>1, <1>2, PTL DEF Spec

\* A level-2 query that is alone on its node misses nothing the other node
\* holds.
THEOREM QueriesReachOut == Spec => []NonLocalFound
  <1>1. RecordsInv => NonLocalFound
    BY DEF RecordsInv, JobsInv, Consistent, Aside, NonLocalFound, At
  <1>2. QED
    BY <1>1, RecordsInvariant, PTL

----------------------------------------------------------------------------
(* DhtRecords: the refinement of RecordKeeper.                             *)

\* Job k of node n has item i put aside, and will put it back.
HeldAt(k, n, i) == jobs[k] # None /\ jobs[k].node = n /\ i \in Holds(jobs[k])

\* An item is held at a node when one of its jobs holds it.
LEMMA HeldItems ==
    ASSUME NEW n \in Nodes, NEW i
    PROVE  i \in Held(n) <=> \E k \in Jobs : HeldAt(k, n, i)
  BY DEF Held, HeldAt

\* A node keeps what is in its tables and what its jobs put aside.
LEMMA KeptItems ==
    ASSUME NEW n \in Nodes, NEW i
    PROVE  i \in Kept[n] <=> \/ i \in Present(rows[n])
                             \/ \E k \in Jobs : HeldAt(k, n, i)
  BY HeldItems DEF Kept

\* Kept is a set of items for every node.
LEMMA KeptType == Kept \in [Nodes -> SUBSET Items]
  BY DEF Kept, Held, Holds, Present

\* A step that fails nowhere and keeps what was held or stored.
LEMMA Keeps ==
    ASSUME TypeOK', withdrawn \subseteq withdrawn', Fine,
           \A n \in Nodes, i \in Items : i \in Present(rows[n]) =>
             \/ i \in Present(rows'[n]) \/ i \in withdrawn'
             \/ \E k \in Jobs : HeldAt(k, n, i)',
           \A k \in Jobs, n \in Nodes, i \in Items : HeldAt(k, n, i) =>
             HeldAt(k, n, i)' \/ i \in Present(rows'[n]) \/ i \in withdrawn'
    PROVE  Keeper!Learn
  <1>1. Kept \in [Nodes -> SUBSET Items] /\ Kept' \in [Nodes -> SUBSET Items]
    BY KeptType DEF Kept, Held, Holds, Present
  <1>2. ASSUME NEW n \in Nodes, NEW i \in Items
        PROVE  i \in Kept'[n] <=>
                 i \in Present(rows'[n]) \/ \E k \in Jobs : HeldAt(k, n, i)'
    BY DEF Kept, Held, HeldAt, Holds
  <1>3. ASSUME NEW n \in Nodes, NEW i \in Kept[n], i \notin withdrawn'
        PROVE  i \in Kept'[n]
    BY <1>1, <1>2, <1>3, KeptItems
  <1>4. withdrawn' \subseteq Items
    BY DEF TypeOK
  <1>5. QED
    BY <1>1, <1>3, <1>4 DEF Keeper!Learn, Fine

\* A failure or a restart costs one node what it had put aside.
LEMMA Loses ==
    ASSUME NEW n \in Nodes, rows' = rows, withdrawn' = withdrawn, Trouble,
           \A k \in Jobs, m \in Nodes, i \in Items :
             m # n => (HeldAt(k, m, i) <=> HeldAt(k, m, i)')
    PROVE  Keeper!Lose(n)
  <1>1. Kept \in [Nodes -> SUBSET Items] /\ Kept' \in [Nodes -> SUBSET Items]
    BY KeptType DEF Kept, Held, Holds, Present
  <1>2. ASSUME NEW m \in Nodes, m # n PROVE Kept'[m] = Kept[m]
    <2>1. ASSUME NEW i \in Items PROVE i \in Kept'[m] <=> i \in Kept[m]
      <3>1. i \in Kept'[m] <=>
              i \in Present(rows'[m]) \/ \E k \in Jobs : HeldAt(k, m, i)'
        BY DEF Kept, Held, HeldAt, Holds
      <3>2. QED
        BY <1>2, <3>1, KeptItems
    <2>2. QED
      BY <1>1, <2>1
  <1>3. QED
    BY <1>1, <1>2 DEF Keeper!Lose, Trouble

\* A job that a step leaves where it is holds what it held.
LEMMA HoldsOn ==
    ASSUME TypeOK, NEW k \in Jobs,
           \/ jobs'[k] = jobs[k]
           \/ \E n \in Nodes : jobs'[k] = Dirty(jobs[k], n)
    PROVE  \A m \in Nodes, i \in Items : HeldAt(k, m, i) <=> HeldAt(k, m, i)'
  <1>1. CASE jobs'[k] = jobs[k]
    BY <1>1 DEF HeldAt, Holds
  <1>2. ASSUME NEW n \in Nodes, jobs'[k] = Dirty(jobs[k], n)
        PROVE  \A m \in Nodes, i \in Items :
                 HeldAt(k, m, i) <=> HeldAt(k, m, i)'
    BY <1>2, DirtyJob DEF HeldAt, Holds
  <1>3. QED
    BY <1>1, <1>2

\* Rows put keep the others, deletes take out what was withdrawn.
LEMMA PutKeeps ==
    ASSUME RecordsInv, [Next]_vars, TypeOK',
           \/ \E n \in Nodes, i \in Items : NewVersion(n, i) \/ Withdraw(n, i)
           \/ \E p \in puts : HandlePut(p)
    PROVE  Keeper!Learn
  <1> USE DEF RecordsInv
  <1>1. Fine
    BY DEF NewVersion, Withdraw, HandlePut
  <1>2. \A k \in Jobs : \/ jobs'[k] = jobs[k]
                        \/ \E n \in Nodes : jobs'[k] = Dirty(jobs[k], n)
    BY DEF NewVersion, Withdraw, HandlePut, TypeOK, Put
  <1>3. PICK n \in Nodes, recs \in Rec, del \in BOOLEAN :
          /\ \/ rows' = [rows EXCEPT ![n] = Stored(rows[n], recs, del)]
             \/ rows' = rows
          /\ del => Present(recs) \subseteq withdrawn'
    <2>1. ASSUME NEW n \in Nodes, NEW i \in Items, NewVersion(n, i)
          PROVE  /\ Single(i, version + 1) \in Rec
                 /\ \/ rows' = [rows EXCEPT ![n] =
                         Stored(rows[n], Single(i, version + 1), FALSE)]
                    \/ rows' = rows
      <3>1. version + 1 \in Versions
        BY <2>1, BoundsOK DEF NewVersion, TypeOK, Versions
      <3>2. QED
        BY <2>1, <3>1, SingleType DEF NewVersion, PutValue, Write
    <2>2. ASSUME NEW n \in Nodes, NEW i \in Items, Withdraw(n, i)
          PROVE  /\ Single(i, version) \in Rec
                 /\ Present(Single(i, version)) \subseteq withdrawn'
                 /\ \/ rows' = [rows EXCEPT ![n] =
                                  Stored(rows[n], Single(i, version), TRUE)]
                    \/ rows' = rows
      <3>1. /\ Single(i, version) \in Rec
            /\ Present(Single(i, version)) \subseteq {i}
        BY SingleType DEF TypeOK, Present
      <3>2. QED
        BY <2>2, <3>1 DEF Withdraw, PutValue, Write
    <2>3. ASSUME NEW p \in puts, HandlePut(p)
          PROVE  /\ p.to \in Nodes /\ p.recs \in Rec /\ p.del \in BOOLEAN
                 /\ p.del => Present(p.recs) \subseteq withdrawn'
                 /\ \/ rows' = [rows EXCEPT ![p.to] =
                                  Stored(rows[p.to], p.recs, p.del)]
                    \/ rows' = rows
      <3>1. p.to \in Nodes /\ p.recs \in Rec /\ p.del \in BOOLEAN
        BY DEF TypeOK, Put
      <3>2. p.del => Present(p.recs) \subseteq withdrawn'
        BY WithdrawnKept DEF PutsInv
      <3>3. QED
        BY <2>3, <3>1, <3>2 DEF HandlePut, Write
    <2>4. QED
      BY <2>1, <2>2, <2>3
  <1>4. ASSUME NEW m \in Nodes, NEW i \in Present(rows[m])
        PROVE  i \in Present(rows'[m]) \/ i \in withdrawn'
    <2>1. CASE rows'[m] = rows[m]
      BY <2>1
    <2>2. CASE m = n /\ rows'[m] = Stored(rows[n], recs, del)
      <3>1. rows[n] \in Rec
        BY DEF TypeOK
      <3>2. QED
        BY <1>3, <2>2, <3>1, StoredRows
    <2>3. QED
      BY <1>3, <2>1, <2>2 DEF TypeOK
  <1>5. QED
    BY <1>1, <1>2, <1>4, HoldsOn, WithdrawnKept, Keeps

\* What one job does, when the rows stay or are put aside.
LEMMA JobKeeps ==
    ASSUME TypeOK, TypeOK', Fine, withdrawn' = withdrawn, NEW k \in Jobs,
           \A x \in Jobs : x # k => jobs'[x] = jobs[x],
           \A n \in Nodes, i \in Items : i \in Present(rows[n]) =>
             i \in Present(rows'[n]) \/ HeldAt(k, n, i)',
           \A n \in Nodes, i \in Items : HeldAt(k, n, i) => HeldAt(k, n, i)'
    PROVE  Keeper!Learn
  BY HoldsOn, Keeps

\* DeleteLocals takes out of the tables what its own query holds.
LEMMA LocalKeeps ==
    ASSUME RecordsInv, TypeOK', NEW k \in Jobs,
           ReadLocals(k) \/ DeleteLocals(k) \/ LoopEnds(k)
    PROVE  Keeper!Learn
  <1> USE DEF RecordsInv
  <1> DEFINE n == jobs[k].node
  <1>1. /\ jobs[k] # None /\ jobs[k] \in Job /\ n \in Nodes
        /\ Fine /\ withdrawn' = withdrawn
        /\ \A x \in Jobs : x # k => jobs'[x] = jobs[x]
    BY JobFields DEF ReadLocals, DeleteLocals, LoopEnds, At, Goto, TypeOK,
                     JobElsewhere, author
  <1>2. CASE ReadLocals(k) \/ LoopEnds(k)
    <2>1. rows' = rows /\ \A m \in Nodes, i \in Items : ~HeldAt(k, m, i)
      BY <1>2 DEF ReadLocals, LoopEnds, At, HeldAt, Holds
    <2>2. QED
      BY <1>1, <2>1, JobKeeps
  <1>3. CASE DeleteLocals(k)
    <2> DEFINE left == [i \in Items |-> IF jobs[k].recs[i] # 0 THEN 0
                                        ELSE rows[n][i]]
               c == Present(rows[n]) \subseteq Present(jobs[k].recs)
    <2>1. /\ jobs' = [jobs EXCEPT ![k] = [@ EXCEPT !.pc = "ask", !.clean = c]]
          /\ jobs[k].pc = "delete"
          /\ rows' = [rows EXCEPT ![n] = left]
      BY <1>3 DEF DeleteLocals, At, Write
    <2>2. /\ jobs'[k].pc = "ask" /\ jobs'[k].node = n
          /\ jobs'[k].recs = jobs[k].recs /\ jobs'[k] # None
      <3>1. [jobs[k] EXCEPT !.pc = "ask", !.clean = c] \in Job
        <4>1. c \in BOOLEAN
          OBVIOUS
        <4> HIDE DEF c
        <4>2. QED
          BY <1>1, <4>1 DEF Job
      <3> HIDE DEF c
      <3>2. QED
        BY <1>1, <2>1, <3>1, NoneOK DEF TypeOK, Job
    <2>3. rows'[n] = left /\ \A m \in Nodes : m # n => rows'[m] = rows[m]
      BY <1>1, <2>1 DEF TypeOK
    <2>4. Present(rows[n]) \subseteq Present(left) \cup Present(jobs[k].recs)
      BY DEF Present
    <2>5. \A m \in Nodes, i \in Items : ~HeldAt(k, m, i)
      BY <2>1 DEF HeldAt, Holds
    <2>6. \A m \in Nodes, i \in Present(jobs[k].recs) :
            m = n => HeldAt(k, m, i)'
      BY <2>2 DEF HeldAt, Holds
    <2>7. \A m \in Nodes, i \in Items : i \in Present(rows[m]) =>
             i \in Present(rows'[m]) \/ HeldAt(k, m, i)'
      <3> SUFFICES ASSUME NEW m \in Nodes, NEW i \in Present(rows[m])
                   PROVE  i \in Present(rows'[m]) \/ HeldAt(k, m, i)'
        OBVIOUS
      <3> HIDE DEF left
      <3>1. CASE m = n
        BY <2>3, <2>4, <2>6, <3>1
      <3>2. CASE m # n
        BY <2>3, <3>2
      <3>3. QED
        BY <3>1, <3>2
    <2>8. QED
      BY <1>1, <2>5, <2>7, JobKeeps
  <1>4. QED
    BY <1>2, <1>3

\* The rows put aside stay aside while the network is asked.
LEMMA AskKeeps ==
    ASSUME RecordsInv, TypeOK', NEW k \in Jobs,
           (\E m \in Nodes : Ask(k, m)) \/ AskNobody(k)
    PROVE  Keeper!Learn
  <1> USE DEF RecordsInv
  <1> DEFINE n == jobs[k].node
  <1>1. /\ At(k, "ask") /\ rows' = rows /\ Fine /\ withdrawn' = withdrawn
        /\ jobs[k] # None /\ n \in Nodes /\ jobs[k].pc = "ask"
        /\ Consistent(jobs[k])
    BY JobFields DEF Ask, AskNobody, At, JobsInv, JobElsewhere, author
  <1>2. PICK found \in Rec, others \in SUBSET Items :
          Received(k, found, others)
    <2>1. /\ \A m \in Nodes : rows[m] \in Rec
          /\ (IF HasRecord(rows[n]) THEN rows[n] ELSE NoRec) \in Rec
          /\ UNION {Present(rows[o]) : o \in Others(n)} \in SUBSET Items
      BY <1>1, NoRecType DEF TypeOK, Present
    <2>2. QED
      BY <2>1 DEF Ask, AskNobody
  <1>3. /\ jobs'[k] \in Job /\ jobs'[k].node = n
        /\ level = 2 /\ kind # "block" =>
             jobs'[k].pc = "restore" /\ jobs'[k].recs = jobs[k].recs
        /\ \A x \in Jobs : x # k => jobs'[x] = jobs[x]
    BY <1>1, <1>2, AnswerTypes
  <1>4. ASSUME NEW m \in Nodes, NEW i \in Items, HeldAt(k, m, i)
        PROVE  HeldAt(k, m, i)'
    <2>1. i \in Present(jobs[k].recs) /\ m = n
      BY <1>1, <1>4 DEF HeldAt, Holds
    <2>2. level = 2 /\ kind # "block"
      BY <1>1, <2>1 DEF Consistent, TypeOK
    <2>3. QED
      BY <1>3, <2>1, <2>2, NoneOK DEF HeldAt, Holds
  <1>5. QED
    BY <1>1, <1>3, <1>4, JobKeeps

\* PutLocal stores what the job stops holding.
LEMMA LoopKeeps ==
    ASSUME RecordsInv, TypeOK', NEW k \in Jobs, NEW i \in Items,
           PutLocal(k, i) \/ UpdatePut(k, i)
    PROVE  Keeper!Learn
  <1> USE DEF RecordsInv
  <1> DEFINE n == jobs[k].node
             v == jobs[k].recs[i]
             new == Single(i, v)
             j == [jobs[k] EXCEPT !.recs[i] = 0]
  <1>1. /\ jobs[k] # None /\ n \in Nodes /\ Consistent(jobs[k])
        /\ jobs[k].pc \in {"restore", "store", "put"} /\ v # 0
        /\ withdrawn' = withdrawn /\ Fine
    BY JobFields DEF PutLocal, UpdatePut, At, JobsInv, JobElsewhere, author
  <1>2. /\ new \in Rec /\ Present(new) = {i}
    <2>1. v \in Versions
      BY <1>1, JobFields DEF Rec
    <2>2. QED
      BY <1>1, <2>1, SingleType DEF Present
  <1>3. /\ j.pc = jobs[k].pc /\ j.node = n /\ j \in Job
        /\ Present(jobs[k].recs) \subseteq Present(j.recs) \cup {i}
    BY <1>1, LoopJob
  <1>4. \/ rows' = [rows EXCEPT ![n] = Stored(rows[n], new, FALSE)]
        \/ rows' = rows /\ ~SelectsNew(new, FALSE, rows[n])
    BY DEF PutLocal, UpdatePut, PutValue, Write
  <1>5. /\ Present(rows[n]) \subseteq Present(rows'[n])
        /\ \A m \in Nodes : m # n => rows'[m] = rows[m]
        /\ kind # "block" => i \in Present(rows'[n])
    <2>1. CASE rows' = [rows EXCEPT ![n] = Stored(rows[n], new, FALSE)]
      <3>1. rows[n] \in Rec /\ rows'[n] = Stored(rows[n], new, FALSE)
        BY <1>1, <2>1 DEF TypeOK
      <3>2. Present(rows[n]) \cup Present(new) \subseteq Present(rows'[n])
        BY <1>2, <3>1, StoredRows
      <3>3. QED
        BY <1>1, <1>2, <2>1, <3>2 DEF TypeOK
    <2>2. CASE rows' = rows /\ ~SelectsNew(new, FALSE, rows[n])
      BY <2>2 DEF SelectsNew
    <2>3. QED
      BY <1>4, <2>1, <2>2
  <1>6. ASSUME NEW x \in Jobs, x # k
        PROVE  \/ jobs'[x] = jobs[x]
               \/ \E m \in Nodes : jobs'[x] = Dirty(jobs[x], m)
    BY <1>1, <1>6 DEF PutLocal, UpdatePut, TypeOK
  <1>7. ASSUME NEW m \in Nodes, NEW y \in Items, HeldAt(k, m, y)
        PROVE  HeldAt(k, m, y)' \/ y \in Present(rows'[m])
    <2>1. m = n /\ y \in Present(jobs[k].recs) /\ jobs[k].pc = "restore"
      BY <1>1, <1>7 DEF HeldAt, Holds
    <2>2. kind # "block"
      BY <1>1, <2>1 DEF Consistent
    <2>3. jobs'[k] = j
      BY <2>1 DEF PutLocal, UpdatePut, At, TypeOK
    <2>4. CASE y = i
      BY <1>5, <2>1, <2>2, <2>4
    <2>5. CASE y \in Present(j.recs)
      BY <1>3, <2>1, <2>3, <2>5, NoneOK DEF HeldAt, Holds
    <2>6. QED
      BY <1>3, <2>1, <2>4, <2>5
  <1>8. \A x \in Jobs, m \in Nodes, y \in Items : HeldAt(x, m, y) =>
          HeldAt(x, m, y)' \/ y \in Present(rows'[m]) \/ y \in withdrawn'
    BY <1>6, <1>7, HoldsOn
  <1>9. \A m \in Nodes, y \in Items : y \in Present(rows[m]) =>
          y \in Present(rows'[m])
    BY <1>5
  <1>10. QED
    BY <1>1, <1>8, <1>9, Keeps

\* A query that starts, answers or only searches keeps what there is.
LEMMA RestKeeps ==
    ASSUME RecordsInv, TypeOK',
           \/ \E k \in Jobs, n \in Nodes : Starts(k, n) \/ UpdateClients(k, n)
           \/ \E k \in Jobs : Respond(k)
           \/ \E n \in Nodes : GetValue(n)
    PROVE  Keeper!Learn
  <1> USE DEF RecordsInv
  <1>1. rows' = rows /\ withdrawn' = withdrawn /\ Fine
    BY DEF Starts, FindClient, QueryIndex, QueryBlocks, Query, Start,
           UpdateClients, Respond, GetValue, author, JobElsewhere
  <1>2. ASSUME NEW k \in Jobs
        PROVE  \/ jobs'[k] = jobs[k]
               \/ \A n \in Nodes, i \in Items : ~HeldAt(k, n, i)
    BY DEF Starts, FindClient, QueryIndex, QueryBlocks, Query, Start,
           UpdateClients, Respond, At, End, GetValue, HeldAt, Holds, TypeOK
  <1>3. QED
    BY <1>1, <1>2, HoldsOn, Keeps

\* A failure loses at most what its own node had put aside.
LEMMA FailureLoses ==
    ASSUME RecordsInv,
           \/ \E k \in Jobs : \/ ReadLocalsFails(k) \/ DeleteLocalsFails(k)
                              \/ AskFails(k) \/ PutLocalFails(k)
           \/ \E n \in Nodes : Restart(n)
    PROVE  \E n \in Nodes : Keeper!Lose(n)
  <1> USE DEF RecordsInv
  <1>1. rows' = rows /\ withdrawn' = withdrawn /\ Trouble
    BY DEF ReadLocalsFails, DeleteLocalsFails, AskFails, PutLocalFails,
           Restart, JobElsewhere, author
  <1>2. ASSUME NEW k \in Jobs,
               \/ ReadLocalsFails(k) \/ DeleteLocalsFails(k)
               \/ AskFails(k) \/ PutLocalFails(k)
        PROVE  \E n \in Nodes : Keeper!Lose(n)
    <2> DEFINE n == jobs[k].node
    <2>1. jobs[k] # None /\ jobs[k] \in Job /\ n \in Nodes
      BY <1>2, JobFields
         DEF ReadLocalsFails, DeleteLocalsFails, AskFails, PutLocalFails, At
    <2>2. \A x \in Jobs : x # k => jobs'[x] = jobs[x]
      BY <1>2 DEF ReadLocalsFails, DeleteLocalsFails, AskFails, PutLocalFails,
                  End, TypeOK
    <2>3. jobs'[k] = None \/ jobs'[k].node = n
      <3>1. CASE DeleteLocalsFails(k)
        <4>1. jobs' = [jobs EXCEPT ![k] =
                         [@ EXCEPT !.pc = "ask", !.clean = FALSE]]
          BY <3>1 DEF DeleteLocalsFails
        <4>2. QED
          BY <2>1, <4>1 DEF TypeOK, Job
      <3>2. QED
        BY <1>2, <3>1 DEF ReadLocalsFails, AskFails, PutLocalFails, End, TypeOK
    <2>4. \A m \in Nodes, i \in Items :
            m # n => ~HeldAt(k, m, i) /\ ~HeldAt(k, m, i)'
      BY <2>3 DEF HeldAt
    <2>5. QED
      BY <1>1, <2>1, <2>2, <2>4, HoldsOn, Loses
  <1>3. ASSUME NEW n \in Nodes, Restart(n) PROVE Keeper!Lose(n)
    <2>1. ASSUME NEW k \in Jobs
          PROVE  jobs'[k] = jobs[k]
                 \/ \A m \in Nodes, i \in Items :
                      m # n => ~HeldAt(k, m, i) /\ ~HeldAt(k, m, i)'
      BY <1>3 DEF Restart, HeldAt
    <2>2. QED
      BY <1>1, <1>3, <2>1, HoldsOn, Loses
  <1>4. QED
    BY <1>2, <1>3

\* Whatever queries, puts and read repairs overlap, no node loses a record
\* that was not withdrawn, except by a failure or a restart of its own.
THEOREM NoRecordLost == Spec => ImplementsRecordKeeper
  <1>1. Init => Keeper!KeeperInit
    BY KeptType DEF Init, Keeper!KeeperInit
  <1>2. RecordsInv /\ RecordsInv' /\ [Next]_vars
          => [Keeper!KeeperNext]_(Keeper!keeping)
    <2> SUFFICES ASSUME RecordsInv, TypeOK', [Next]_vars
                 PROVE  [Keeper!KeeperNext]_(Keeper!keeping)
      BY DEF RecordsInv
    <2>1. CASE UNCHANGED vars
      BY <2>1 DEF vars, Keeper!keeping, Kept, Held, Holds
    <2>2. CASE Next
      <3>1. Keeper!Learn \/ \E n \in Nodes : Keeper!Lose(n)
        BY <2>2, NextSteps, PutKeeps, LocalKeeps, AskKeeps, LoopKeeps,
           RestKeeps, FailureLoses
           DEF Ends
      <3>2. QED
        BY <3>1 DEF Keeper!KeeperNext
    <2>3. QED
      BY <2>1, <2>2
  <1>3. QED
    BY <1>1, <1>2, RecordsInvariant, PTL
       DEF Spec, ImplementsRecordKeeper, Keeper!KeeperSpec

----------------------------------------------------------------------------
(* EndpointRecords: the row of a peer.                                     *)

\* A row that is down carries a time of this node.
DownIsStamped == Found => (~row.up => row.stamp > 0)

\* A callback that has read the row has a time of this node to put in it, and
\* the bound leaves one for a callback that has yet to read it.
PutIsTimed ==
    /\ call.pc = "read" => time < MaxTime
    /\ call.pc = "put" => time > 0

\* A message carries the time the peer's record was made, and passes Select
\* only while the row carries no later one.
PassedEarly == \A s \in Slots : slots[s].rec.up /\ slots[s].seen = 0

\* The records of the peer that are under way carry no time of this node.
Unstamped == \A s \in Slots : slots[s].rec.stamp = 0

\* The inductive invariant.
EndpointInv ==
    /\ EndpointTypeOK
    /\ DownIsStamped /\ PutIsTimed /\ PassedEarly /\ Unstamped

\* A put in some slot.
SlotStates == [pc : {"none", "sent", "check", "find", "write"},
              rec : Endpoint, found : BOOLEAN, seen : 0 .. MaxTime]

\* The bounds hold an address and a time of zero (libp2p/default.go:420-424).
LEMMA ZeroTypes ==
    /\ 0 \in 0 .. MaxAddr /\ 0 \in 0 .. MaxTime
    /\ NoAddr \in Endpoint /\ NoPut \in SlotStates
    /\ Idle \in [pc : {"none", "read", "put"}, up : BOOLEAN, rec : Endpoint]
<1>1. 0 \in 0 .. MaxAddr /\ 0 \in 0 .. MaxTime
  BY EndpointBoundsOK
<1>2. NoAddr \in Endpoint
  BY <1>1 DEF NoAddr, Endpoint
<1>3. NoPut \in SlotStates
  BY <1>1, <1>2 DEF NoPut, SlotStates
<1>4. Idle \in [pc : {"none", "read", "put"}, up : BOOLEAN, rec : Endpoint]
  BY <1>2 DEF Idle
<1> QED BY <1>1, <1>2, <1>3, <1>4

\* Initially there is no row and nothing is under way.
LEMMA InitEndpoint == EndpointInit => EndpointInv
<1> SUFFICES ASSUME EndpointInit PROVE EndpointInv
  OBVIOUS
<1>1. EndpointTypeOK
  <2>1. slots \in [Slots -> SlotStates]
    BY ZeroTypes DEF EndpointInit
  <2>2. 0 \in 0 .. MaxSends /\ 0 \in 0 .. MaxRestarts
    BY EndpointBoundsOK
  <2> QED BY <2>1, <2>2, ZeroTypes DEF EndpointInit, EndpointTypeOK, SlotStates
<1>2. DownIsStamped /\ PutIsTimed
  BY DEF EndpointInit, DownIsStamped, PutIsTimed, Found, Idle
<1>3. PassedEarly /\ Unstamped
  BY DEF EndpointInit, PassedEarly, Unstamped, NoPut, NoAddr
<1> QED BY <1>1, <1>2, <1>3 DEF EndpointInv

\* A message that a slot takes, moves on or drops keeps what is known of the
\* slots: it is of the record as the peer made it, or was there before.
LEMMA SlotStep ==
    ASSUME EndpointInv, NEW s \in Slots, NEW p \in SlotStates,
           p.rec.up, p.rec.stamp = 0, p.seen = 0,
           slots' = [slots EXCEPT ![s] = p]
    PROVE  slots' \in [Slots -> SlotStates] /\ PassedEarly' /\ Unstamped'
<1>1. slots \in [Slots -> SlotStates]
  BY DEF EndpointInv, EndpointTypeOK, SlotStates
<1>2. \A t \in Slots : slots'[t] = IF t = s THEN p ELSE slots[t]
  BY <1>1
<1>3. slots' \in [Slots -> SlotStates]
  BY <1>1
<1>4. PassedEarly'
  BY <1>2 DEF EndpointInv, PassedEarly
<1>5. Unstamped'
  BY <1>2 DEF EndpointInv, Unstamped
<1> QED BY <1>3, <1>4, <1>5

\* What Select lets pass finds no row that carries a time of this node, as
\* the record carries none (ns/default.go:193).
LEMMA SelectPasses ==
    ASSUME EndpointInv, NEW s \in Slots, Select(slots[s].rec), Found
    PROVE  row.stamp = 0
<1>1. row \in Endpoint
  BY DEF EndpointInv, EndpointTypeOK, Found
<1>2. row.stamp \in Nat
  BY <1>1, EndpointBoundsOK DEF Endpoint
<1>3. slots[s].rec.stamp = 0
  BY DEF EndpointInv, Unstamped
<1> QED BY <1>2, <1>3 DEF Select

\* A change of a record that keeps its type (dht.go:313-316).
LEMMA MarkedType ==
    ASSUME EndpointInv, call.pc = "put"
    PROVE  /\ Marked(call.rec) \in Endpoint
           /\ Marked(call.rec).stamp = time
           /\ Marked(call.rec).up = call.up
BY DEF EndpointInv, EndpointTypeOK, Marked, Endpoint

\* Every step preserves the invariant.
LEMMA StepEndpoint == EndpointInv /\ [EndpointNext]_endpointVars => EndpointInv'
<1> SUFFICES ASSUME EndpointInv, [EndpointNext]_endpointVars PROVE EndpointInv'
  OBVIOUS
<1>1. slots \in [Slots -> SlotStates]
  BY DEF EndpointInv, EndpointTypeOK, SlotStates
<1>2. CASE upsertMyselfPeer
  <2>1. EndpointTypeOK'
    BY <1>2, EndpointBoundsOK DEF EndpointInv, EndpointTypeOK,
                                  upsertMyselfPeer, bounds
  <2>2. DownIsStamped' /\ PutIsTimed' /\ PassedEarly' /\ Unstamped'
    BY <1>2 DEF EndpointInv, upsertMyselfPeer, DownIsStamped, PutIsTimed,
                PassedEarly, Unstamped, Found
  <2> QED BY <2>1, <2>2 DEF EndpointInv
<1>3. CASE TryAddPeer \/ RemovePeer
  <2>1. /\ call'.pc = "read" /\ time' = time /\ time < MaxTime
        /\ row' = row /\ slots' = slots
    BY <1>3 DEF TryAddPeer, RemovePeer, Idle
  <2>2. EndpointTypeOK'
    BY <1>3, ZeroTypes DEF EndpointInv, EndpointTypeOK, TryAddPeer,
                           RemovePeer, bounds, Idle
  <2>3. DownIsStamped' /\ PutIsTimed' /\ PassedEarly' /\ Unstamped'
    BY <2>1 DEF EndpointInv, DownIsStamped, PutIsTimed, PassedEarly,
                Unstamped, Found
  <2> QED BY <2>2, <2>3 DEF EndpointInv
<1>4. CASE PeerRead
  <2>1. /\ call.pc = "read" /\ time' = time + 1
        /\ row' = row /\ slots' = slots /\ call'.pc \in {"put", "none"}
    BY <1>4 DEF PeerRead, Idle, EndpointInv, EndpointTypeOK
  <2>2. time' \in 0 .. MaxTime /\ time' > 0
    BY <2>1, EndpointBoundsOK DEF EndpointInv, EndpointTypeOK, PutIsTimed
  <2>3. call' \in [pc : {"none", "read", "put"}, up : BOOLEAN, rec : Endpoint]
    <3>1. CASE Found
      BY <1>4, <3>1 DEF PeerRead, Found, EndpointInv, EndpointTypeOK
    <3>2. CASE ~Found
      BY <1>4, <3>2, ZeroTypes DEF PeerRead
    <3> QED BY <3>1, <3>2
  <2>4. EndpointTypeOK'
    BY <1>4, <2>2, <2>3 DEF EndpointInv, EndpointTypeOK, PeerRead, bounds
  <2>5. DownIsStamped' /\ PutIsTimed' /\ PassedEarly' /\ Unstamped'
    BY <2>1, <2>2 DEF EndpointInv, DownIsStamped, PutIsTimed, PassedEarly,
                      Unstamped, Found
  <2> QED BY <2>4, <2>5 DEF EndpointInv
<1>5. CASE PeerPut
  <2>1. /\ call.pc = "put" /\ row' = Marked(call.rec) /\ slots' = slots
        /\ call' = Idle /\ time' = time
    BY <1>5 DEF PeerPut, PutRow
  <2>2. row' \in Endpoint /\ row'.stamp > 0
    BY <2>1, MarkedType DEF EndpointInv, PutIsTimed
  <2>3. EndpointTypeOK'
    BY <1>5, <2>1, <2>2, ZeroTypes DEF EndpointInv, EndpointTypeOK, PeerPut,
                                       bounds
  <2>4. DownIsStamped' /\ PutIsTimed' /\ PassedEarly' /\ Unstamped'
    BY <2>1, <2>2 DEF EndpointInv, DownIsStamped, PutIsTimed, PassedEarly,
                      Unstamped, Idle
  <2> QED BY <2>3, <2>4 DEF EndpointInv
<1>6. CASE RestartNode
  <2>1. slots' \in [Slots -> SlotStates]
    BY <1>6, ZeroTypes DEF RestartNode
  <2>2. EndpointTypeOK'
    <3>1. restarts' \in 0 .. MaxRestarts
      BY <1>6, EndpointBoundsOK DEF EndpointInv, EndpointTypeOK, RestartNode
    <3> QED BY <1>6, <2>1, <3>1, ZeroTypes
               DEF EndpointInv, EndpointTypeOK, RestartNode, SlotStates
  <2>3. DownIsStamped' /\ PutIsTimed'
    BY <1>6 DEF EndpointInv, RestartNode, DownIsStamped, PutIsTimed, Found,
                Idle
  <2>4. PassedEarly' /\ Unstamped'
    BY <1>6 DEF RestartNode, PassedEarly, Unstamped, NoPut, NoAddr
  <2> QED BY <2>2, <2>3, <2>4 DEF EndpointInv
<1>7. ASSUME NEW s \in Slots, PeerEndPoint(s) PROVE EndpointInv'
  <2> DEFINE p == [NoPut EXCEPT !.pc = "sent", !.rec.addr = myself]
  <2>1. p \in SlotStates /\ p.rec.up /\ p.rec.stamp = 0 /\ p.seen = 0
    BY ZeroTypes DEF SlotStates, NoPut, NoAddr, Endpoint, EndpointInv,
                     EndpointTypeOK
  <2>2. slots' = [slots EXCEPT ![s] = p]
    BY <1>7 DEF PeerEndPoint
  <2>3. slots' \in [Slots -> SlotStates] /\ PassedEarly' /\ Unstamped'
    <3> HIDE DEF p
    <3> QED BY <2>1, <2>2, SlotStep
  <2>4. EndpointTypeOK'
    BY <1>7, <2>3, EndpointBoundsOK DEF EndpointInv, EndpointTypeOK,
                                        PeerEndPoint, bounds, SlotStates
  <2>5. DownIsStamped' /\ PutIsTimed'
    BY <1>7 DEF EndpointInv, PeerEndPoint, DownIsStamped, PutIsTimed, Found
  <2> QED BY <2>3, <2>4, <2>5 DEF EndpointInv
<1>8. ASSUME NEW s \in Slots, Lost(s) PROVE EndpointInv'
  <2> DEFINE p == NoPut
  <2>1. p \in SlotStates /\ p.rec.up /\ p.rec.stamp = 0 /\ p.seen = 0
    BY ZeroTypes DEF NoPut, NoAddr
  <2>2. slots' = [slots EXCEPT ![s] = p]
    BY <1>8 DEF Lost
  <2>3. slots' \in [Slots -> SlotStates] /\ PassedEarly' /\ Unstamped'
    <3> HIDE DEF p
    <3> QED BY <2>1, <2>2, SlotStep
  <2>4. EndpointTypeOK'
    BY <1>8, <2>3 DEF EndpointInv, EndpointTypeOK, Lost, bounds, SlotStates
  <2>5. DownIsStamped' /\ PutIsTimed'
    BY <1>8 DEF EndpointInv, Lost, DownIsStamped, PutIsTimed, Found
  <2> QED BY <2>3, <2>4, <2>5 DEF EndpointInv
<1>9. ASSUME NEW s \in Slots, Receive(s) PROVE EndpointInv'
  <2> DEFINE p == [slots[s] EXCEPT !.pc = "check"]
  <2>1. p \in SlotStates /\ p.rec.up /\ p.rec.stamp = 0 /\ p.seen = 0
    BY <1>1, <1>9 DEF SlotStates, EndpointInv, PassedEarly, Unstamped
  <2>2. slots' = [slots EXCEPT ![s] = p]
    BY <1>9 DEF Receive
  <2>3. slots' \in [Slots -> SlotStates] /\ PassedEarly' /\ Unstamped'
    <3> HIDE DEF p
    <3> QED BY <2>1, <2>2, SlotStep
  <2>4. EndpointTypeOK'
    BY <1>9, <2>3 DEF EndpointInv, EndpointTypeOK, Receive, bounds, SlotStates
  <2>5. DownIsStamped' /\ PutIsTimed'
    BY <1>9 DEF EndpointInv, Receive, DownIsStamped, PutIsTimed, Found
  <2> QED BY <2>3, <2>4, <2>5 DEF EndpointInv
<1>10. ASSUME NEW s \in Slots, Check(s) PROVE EndpointInv'
  <2> DEFINE q == [slots[s] EXCEPT !.pc = "find",
                       !.seen = IF Found THEN row.stamp ELSE 0]
             p == IF Select(slots[s].rec) THEN q ELSE NoPut
  <2>1. p \in SlotStates /\ p.rec.up /\ p.rec.stamp = 0 /\ p.seen = 0
    <3>1. ASSUME Select(slots[s].rec)
          PROVE  q \in SlotStates /\ q.rec.up /\ q.rec.stamp = 0 /\ q.seen = 0
      <4>1. (IF Found THEN row.stamp ELSE 0) = 0
        BY <3>1, SelectPasses
      <4> QED BY <4>1, <1>1, ZeroTypes DEF SlotStates, EndpointInv,
                                           PassedEarly, Unstamped
    <3> QED BY <3>1, ZeroTypes DEF NoPut, NoAddr
  <2>2. slots' = [slots EXCEPT ![s] = p]
    BY <1>1, <1>10 DEF Check
  <2>3. slots' \in [Slots -> SlotStates] /\ PassedEarly' /\ Unstamped'
    <3> HIDE DEF p
    <3> QED BY <2>1, <2>2, SlotStep
  <2>4. EndpointTypeOK'
    BY <1>10, <2>3 DEF EndpointInv, EndpointTypeOK, Check, bounds, SlotStates
  <2>5. DownIsStamped' /\ PutIsTimed'
    BY <1>10 DEF EndpointInv, Check, DownIsStamped, PutIsTimed, Found
  <2> QED BY <2>3, <2>4, <2>5 DEF EndpointInv
<1>11. ASSUME NEW s \in Slots, Find(s) PROVE EndpointInv'
  <2> DEFINE p == [slots[s] EXCEPT !.pc = "write", !.found = Found]
  <2>1. p \in SlotStates /\ p.rec.up /\ p.rec.stamp = 0 /\ p.seen = 0
    BY <1>1, <1>11 DEF SlotStates, EndpointInv, PassedEarly, Unstamped, Found
  <2>2. slots' = [slots EXCEPT ![s] = p]
    BY <1>11 DEF Find
  <2>3. slots' \in [Slots -> SlotStates] /\ PassedEarly' /\ Unstamped'
    <3> HIDE DEF p
    <3> QED BY <2>1, <2>2, SlotStep
  <2>4. EndpointTypeOK'
    BY <1>11, <2>3 DEF EndpointInv, EndpointTypeOK, Find, bounds, SlotStates
  <2>5. DownIsStamped' /\ PutIsTimed'
    BY <1>11 DEF EndpointInv, Find, DownIsStamped, PutIsTimed, Found
  <2> QED BY <2>3, <2>4, <2>5 DEF EndpointInv
<1>12. ASSUME NEW s \in Slots, Upsert(s) PROVE EndpointInv'
  <2>1. slots' = [slots EXCEPT ![s] = NoPut]
    BY <1>12 DEF Upsert
  <2>2. slots' \in [Slots -> SlotStates] /\ PassedEarly' /\ Unstamped'
    <3>1. NoPut.rec.up /\ NoPut.rec.stamp = 0 /\ NoPut.seen = 0
      BY DEF NoPut, NoAddr
    <3> QED BY <3>1, <2>1, ZeroTypes, SlotStep
  <2>3. slots[s].rec \in Endpoint /\ slots[s].rec.up
    BY <1>1 DEF SlotStates, EndpointInv, PassedEarly
  <2>4. row' = row \/ row' = slots[s].rec
    BY <1>12 DEF Upsert, PutRow
  <2>5. EndpointTypeOK'
    BY <1>12, <2>2, <2>3, <2>4 DEF EndpointInv, EndpointTypeOK, Upsert,
                                   bounds, SlotStates
  <2>6. DownIsStamped'
    BY <2>3, <2>4 DEF EndpointInv, DownIsStamped, Found
  <2>7. PutIsTimed'
    BY <1>12 DEF EndpointInv, Upsert, PutIsTimed
  <2> QED BY <2>2, <2>5, <2>6, <2>7 DEF EndpointInv
<1>13. CASE UNCHANGED endpointVars
  BY <1>13 DEF EndpointInv, EndpointTypeOK, DownIsStamped, PutIsTimed,
               PassedEarly, Unstamped, Found, endpointVars, bounds
<1> QED
  BY <1>2, <1>3, <1>4, <1>5, <1>6, <1>7, <1>8, <1>9, <1>10, <1>11, <1>12, <1>13
     DEF EndpointNext

\* The inductive invariant holds in every reachable state: no record of the
\* peer carries a time of this node, and a row that is down does.
THEOREM EndpointInvariance == EndpointSpec => []EndpointInv
<1> QED BY InitEndpoint, StepEndpoint, PTL DEF EndpointSpec

\* The row of a peer, the callback and the messages keep their types.
THEOREM EndpointTypes == EndpointSpec => []EndpointTypeOK
<1>1. EndpointInv => EndpointTypeOK
  BY DEF EndpointInv
<1> QED BY <1>1, EndpointInvariance, PTL

\* A row that a removal has set down is set up by a message only if its put
\* had passed Select before (libp2p/default.go:636-638, ns/default.go:193).
THEOREM DownWhenRemoved == EndpointSpec => DownStaysDown
<1>1. ASSUME EndpointInv, [EndpointNext]_endpointVars,
             Found, ~row.up, row'.up, call.pc # "put"
      PROVE  \E s \in Slots : slots[s].pc = "write" /\ slots[s].seen < row.stamp
  <2>1. row' # row
    BY <1>1
  <2>2. PICK s \in Slots : Upsert(s)
    BY <1>1, <2>1 DEF EndpointNext, endpointVars, upsertMyselfPeer,
                      TryAddPeer, RemovePeer, PeerRead, PeerPut, RestartNode,
                      PeerEndPoint, Lost, Receive, Check, Find
  <2>3. slots[s].pc = "write" /\ slots[s].seen = 0
    BY <1>1, <2>2 DEF Upsert, EndpointInv, PassedEarly
  <2>4. row.stamp > 0
    BY <1>1 DEF EndpointInv, DownIsStamped
  <2> QED BY <2>3, <2>4
<1>2. EndpointInv /\ [EndpointNext]_endpointVars =>
        [Found /\ ~row.up /\ row'.up /\ call.pc # "put" =>
           \E s \in Slots :
             slots[s].pc = "write" /\ slots[s].seen < row.stamp]_endpointVars
  BY <1>1
<1> QED BY <1>2, EndpointInvariance, PTL DEF EndpointSpec, DownStaysDown
=============================================================================
