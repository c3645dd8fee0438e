------------------------------ MODULE Sealing ------------------------------
(***************************************************************************)
(* How a message is sealed by the node that sends it and opened by the     *)
(* node that handles it (p2p/chain/handler/base.go): operators, without    *)
(* state.  Keys, payloads and signatures stand for themselves; what is     *)
(* kept of a signature is what it was made over.                           *)
(***************************************************************************)
EXTENDS Naturals, SequencesExt

NoKey == "none"

\* A row of a PeerClient: its public key and its times, 0 for none.
KeyRow == [key : {NoKey, "old", "new"}, updated : 0 .. 2, accessed : 0 .. 2]

\* Whether a row replaces the one chosen so far.  A time that is missing
\* replaces nothing and is not replaced.
Newer(row, than) ==
    /\ row.updated # 0 /\ than.updated # 0
    /\ \/ row.updated > than.updated
       \/ /\ row.updated = than.updated
          /\ row.accessed # 0 /\ than.accessed # 0
          /\ row.accessed > than.accessed

\* The row that is kept of the one chosen so far and the next one.
Later(row, chosen) ==
    IF chosen.key = NoKey \/ Newer(row, chosen) THEN row ELSE chosen

\* The key of the rows a query has found, in their order.
LatestKey(rows) ==
    LET chosen[i \in 0 .. Len(rows)] ==
            IF i = 0 THEN [key |-> NoKey, updated |-> 0, accessed |-> 0]
            ELSE Later(rows[i], chosen[i - 1])
    IN chosen[Len(rows)].key

\* Fault: the row of the node is asked for by its own kind of key.
EndpointKeyFound(own) == own

\* PeerEndpointService.GetValue asks the DHT for the key of a client, which
\* no node has.
EndpointKey(own) == NoKey

\* GetPublicKey of a client with these rows, or of a node with this key.
GetPublicKey(rows, own) ==
    IF rows # <<>> THEN LatestKey(rows) ELSE EndpointKey(own)

\* What travels.  clear: the payload itself, beside which a transport payload
\* is empty; over: what the signature was made over, the clear payload or
\* what is sent; by: the key it was made with.
Sent == [clear : BOOLEAN, sealed : BOOLEAN, zipped : BOOLEAN,
         over : {"nothing", "clear", "sent"}, by : {NoKey, "old", "new"},
         previous : BOOLEAN]

\* Encrypt, by the node that made the message; what others made goes on as it
\* came.  Without the target's key the payload goes in the clear.
Encrypt(wanted, long, targetKey, by) ==
    IF wanted /\ targetKey = NoKey
    THEN [clear |-> TRUE, sealed |-> FALSE, zipped |-> FALSE,
          over |-> "nothing", by |-> NoKey, previous |-> FALSE]
    ELSE [clear |-> FALSE, sealed |-> wanted, zipped |-> long,
          over |-> IF wanted THEN "clear" ELSE "nothing",
          by |-> IF wanted THEN by ELSE NoKey, previous |-> FALSE]

\* The signature is compared with what came, before it is opened; a second
\* one, by the key before, is accepted too.  What cannot be compared is opened
\* all the same.
Verified(s, srcKey) ==
    srcKey = NoKey \/ (s.over = "sent" /\ (s.by = srcKey \/ s.previous))

\* Decrypt: whether the message has its payload afterwards.
Decrypt(s, srcKey, mine) ==
    s.clear \/ ~s.sealed \/ (Verified(s, srcKey) /\ mine)

\* Whether what a node with this key has sealed for this one is opened here.
Opens(wanted, long, target, own) ==
    Decrypt(Encrypt(wanted, long, target, own), GetPublicKey(<<>>, own), TRUE)

\* What comes of any message, with or without sealing, long or short, and any
\* key.
NodeMessageOpens ==
    {Opens(wanted, long, target, own) :
        wanted, long \in BOOLEAN,
        target \in {NoKey, "new"}, own \in {"old", "new"}}

----------------------------------------------------------------------------
(* Properties.                                                             *)

\* With all times known, the key chosen is that of a row no other is newer
\* than, whatever the order of the rows.
NewestChosen ==
    \A rows \in SeqOf({r \in KeyRow : /\ r.key # NoKey
                                     /\ r.updated # 0 /\ r.accessed # 0}, 3) :
        rows # <<>> =>
            \E i \in DOMAIN rows :
                /\ rows[i].key = LatestKey(rows)
                /\ \A j \in DOMAIN rows : ~Newer(rows[j], rows[i])
=============================================================================
