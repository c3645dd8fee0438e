--------------------------- MODULE QuorumCommit ---------------------------
(***************************************************************************)
(* What the std consensus promises for the versions of one block that      *)
(* carry a small payload: a primary commits a submission only after        *)
(* StdMinPeerNum followers have saved something it sent them, and it       *)
(* confirms to the client only what it has saved itself, after the commit. *)
(* Since the reply logs of a primary do not name the version they answer,  *)
(* a follower that saved any submission of the primary counts.             *)
(***************************************************************************)
EXTENDS Naturals, FiniteSets

CONSTANTS Nodes, Subs, StdMinPeerNum, Nobody

VARIABLES
    asked,     \* asked[s]: the primary that received submission s
    alone,     \* the submissions whose primary consults no follower
    saved,     \* <<n, s>> when node n has saved submission s
    committed, \* the submissions a primary has decided to commit
    confirmed  \* the submissions a client was told are stored

absVars == <<asked, alone, saved, committed, confirmed>>

AbsInit ==
    /\ asked = [s \in Subs |-> Nobody]
    /\ alone = {} /\ saved = {} /\ committed = {} /\ confirmed = {}

Ask(s, n) ==
    /\ asked[s] = Nobody
    /\ asked' = [asked EXCEPT ![s] = n]
    /\ alone' \in {alone, alone \cup {s}}
    /\ UNCHANGED <<saved, committed, confirmed>>

\* A node saves a submission: a follower, or a primary that answers nobody.
Save(n, s) ==
    /\ asked[s] # Nobody
    /\ saved' = saved \cup {<<n, s>>}
    /\ UNCHANGED <<asked, alone, committed, confirmed>>

\* The followers that have saved something this primary sent.
Voters(s) ==
    {p \in Nodes \ {asked[s]} :
       \E r \in Subs : asked[r] = asked[s] /\ <<p, r>> \in saved}

Commit(s) ==
    /\ asked[s] # Nobody /\ s \notin alone
    /\ Cardinality(Voters(s)) >= StdMinPeerNum
    /\ committed' = committed \cup {s}
    /\ UNCHANGED <<asked, alone, saved, confirmed>>

\* The primary saves its own copy and answers the client.
Confirm(s) ==
    /\ s \in committed \cup alone
    /\ saved' = saved \cup {<<asked[s], s>>}
    /\ confirmed' = confirmed \cup {s}
    /\ UNCHANGED <<asked, alone, committed>>

AbsNext ==
    \E s \in Subs :
      \/ \E n \in Nodes : Ask(s, n) \/ Save(n, s)
      \/ Commit(s) \/ Confirm(s)

AbsSpec == AbsInit /\ [][AbsNext]_absVars
===========================================================================
