------------------------------ MODULE P2pChat ------------------------------
(***************************************************************************)
(* The receipt of a P2PCHAT message by the node its target is known to,    *)
(* and the push notification of the target                                 *)
(* (p2p/chain/action/dht/p2pChat.go, p2p/chain/handler/base.go).           *)
(*                                                                         *)
(* Receive decrypts the message, hands it to the std consensus (module     *)
(* StdConsensus; its error is dropped here) and pushes the notification.   *)
(* HUAWEI, OPPO and VIVO want an access token, which one global variable   *)
(* per vendor holds: it is fetched when a push is refused, without a lock, *)
(* and every handler of the vendor uses what it finds there.  Apple,       *)
(* Xiaomi and Meizu are pushed to once.  One token vendor is modelled; the *)
(* three functions differ in the code that stands for success.             *)
(***************************************************************************)
EXTENDS Naturals, Sealing

CONSTANTS Chats,       \* the chat messages received
          MaxExpiries, \* bound on the times the vendor drops its tokens
          MaxTroubles  \* bound on the calls of a vendor that fail

ASSUME VendorOK == MaxExpiries \in Nat /\ MaxTroubles \in Nat

VARIABLES
    chats,     \* the handlers of the chat messages
    token,     \* global.Global.HuaweiAccessToken; 0 stands for ""
    issued,    \* the vendor's tokens so far
    oldest,    \* the tokens from this one on are valid
    expiries, troubles,
    notified,  \* history: the notifications of each chat the vendor sent
    disturbed  \* history: the chats a failed call or an expiry may have touched

chatVars == <<chats, token, issued, oldest, expiries, troubles, notified,
              disturbed>>

Vendors == {"none", "plain", "token"}

\* got: the token fetched, before it is stored; opened: whether the payload
\* has been.
Chat == [pc : {"new", "deliver", "source", "push", "fetch", "store", "again",
               "done", "lost"},
         vendor : Vendors, got : Nat, opened : BOOLEAN]

\* The types of the chat's variables.
ChatTypeOK ==
    /\ chats \in [Chats -> Chat]
    /\ issued \in Nat /\ token \in 0 .. issued /\ oldest \in 1 .. issued + 1
    /\ \A c \in Chats : chats[c].got \in 0 .. issued
    /\ expiries \in 0 .. MaxExpiries /\ troubles \in 0 .. MaxTroubles
    /\ notified \in [Chats -> 0 .. 2]
    /\ disturbed \subseteq Chats

ChatInit ==
    /\ chats = [c \in Chats |-> [pc |-> "new", vendor |-> "none", got |-> 0,
                              opened |-> FALSE]]
    /\ token = 0 /\ issued = 0 /\ oldest = 1
    /\ expiries = 0 /\ troubles = 0
    /\ notified = [c \in Chats |-> 0] /\ disturbed = {}

Running == {c \in Chats : chats[c].pc \notin {"new", "done", "lost"}}

----------------------------------------------------------------------------
At(c, pc) == chats[c].pc = pc
ChatGoto(c, pc) == chats' = [chats EXCEPT ![c].pc = pc]

vendorVars == <<token, issued, oldest, expiries, troubles, notified, disturbed>>

\* Lookup found a client of the target that is up.
ReceiveChat(c) ==
    /\ At(c, "new") /\ ChatGoto(c, "deliver")
    /\ UNCHANGED vendorVars

\* Decrypt and ReceiveConsensus: whether they succeed is not looked at.  The
\* chats are sealed as nodes seal them.
Deliver(c) ==
    /\ At(c, "deliver")
    /\ \E opens \in NodeMessageOpens :
          chats' = [chats EXCEPT ![c].pc = "source", ![c].opened = opens]
    /\ UNCHANGED vendorVars

\* The client's type names its vendor; there is no push for another type, or
\* without a local row of the sender, whose name the notification gives.
Source(c) ==
    /\ At(c, "source")
    /\ \E v \in Vendors :
          chats' = [chats EXCEPT ![c].vendor = v,
                        ![c].pc = IF v = "none" THEN "done" ELSE "push"]
    /\ UNCHANGED vendorVars

\* PushNotice, with the global token of the moment.
Accepted(c) == chats[c].vendor = "plain" \/ token >= oldest

\* A call of a vendor fails; it may have been served all the same.
Trouble(c) ==
    /\ troubles < MaxTroubles
    /\ troubles' = troubles + 1
    /\ disturbed' = disturbed \cup {c}

\* A call of PushNotice, after which a chat that was refused goes on at `next`.
PushNotice(c, next) ==
    /\ \/ /\ Accepted(c)
          /\ notified' = [notified EXCEPT ![c] = @ + 1] /\ ChatGoto(c, "done")
          /\ UNCHANGED <<troubles, disturbed>>
       \/ /\ ~Accepted(c) /\ ChatGoto(c, next)
          /\ UNCHANGED <<notified, troubles, disturbed>>
       \/ /\ Trouble(c) /\ ChatGoto(c, next)
          /\ notified' \in {notified} \cup
                 (IF Accepted(c) THEN {[notified EXCEPT ![c] = @ + 1]} ELSE {})
    /\ UNCHANGED <<token, issued, oldest, expiries>>

\* pushApple, pushXiaomi and pushMeizu push once, for good or ill.
PushPlain(c) ==
    /\ At(c, "push") /\ chats[c].vendor = "plain"
    /\ PushNotice(c, "done")

\* Fault: a push that was refused is repeated before the token is fetched.
PushRepeating(c) ==
    /\ At(c, "push") /\ chats[c].vendor = "token"
    /\ PushNotice(c, "push")

\* pushHuawei, pushOppo and pushVivo, the first push: with the token of the
\* moment; refused, a new one is wanted.
PushToken(c) ==
    /\ At(c, "push") /\ chats[c].vendor = "token"
    /\ PushNotice(c, "fetch")

\* GetAccessToken; without a token the chat is given up.
Fetch(c) ==
    /\ At(c, "fetch")
    /\ \/ /\ issued' = issued + 1
          /\ chats' = [chats EXCEPT ![c].pc = "store", ![c].got = issued']
          /\ UNCHANGED <<troubles, disturbed>>
       \/ Trouble(c) /\ ChatGoto(c, "done") /\ UNCHANGED issued
    /\ UNCHANGED <<token, oldest, expiries, notified>>

\* Fault: the token fetched is not stored.
Forget(c) ==
    /\ At(c, "store") /\ ChatGoto(c, "again")
    /\ UNCHANGED vendorVars

\* The global token is set, over one a faster handler may have stored; where it
\* has expired meanwhile, the handlers that find it are touched.
Store(c) ==
    /\ At(c, "store") /\ ChatGoto(c, "again")
    /\ token' = chats[c].got
    /\ disturbed' = IF chats[c].got < oldest THEN disturbed \cup Running
                    ELSE disturbed
    /\ UNCHANGED <<issued, oldest, expiries, troubles, notified>>

\* Fault: the second push is taken for the first.
AgainFirst(c) == At(c, "again") /\ PushNotice(c, "fetch")

\* The second push, whose result is not looked at.
Again(c) == At(c, "again") /\ PushNotice(c, "done")

\* The vendor drops the tokens it has issued.
Expire ==
    /\ expiries < MaxExpiries
    /\ expiries' = expiries + 1
    /\ oldest' = issued + 1
    /\ disturbed' = disturbed \cup Running
    /\ UNCHANGED <<chats, token, issued, troubles, notified>>

\* The handlers of a process that stops are gone, and so is its token.
StopChats ==
    /\ chats' = [c \in Chats |-> IF c \in Running
                    THEN [chats[c] EXCEPT !.pc = "lost"] ELSE chats[c]]
    /\ token' = 0
    /\ UNCHANGED <<issued, oldest, expiries, troubles, notified, disturbed>>

ChatStep(c) ==
    \/ Deliver(c) \/ Source(c) \/ PushPlain(c) \/ PushToken(c)
    \/ Fetch(c) \/ Store(c) \/ Again(c)

----------------------------------------------------------------------------
Asked(c) == chats[c].pc = "done" /\ chats[c].vendor # "none"

\* A notification is sent exactly once for a chat that asked for it, however
\* the handlers race for the token, unless a call of the vendor failed, a token
\* expired under way, or another handler stored one that had expired
\* meanwhile; and never more than twice.
NotifiedOnce ==
    \A c \in Chats :
        /\ Asked(c) /\ c \notin disturbed => notified[c] = 1
        /\ notified[c] > 1 => c \in disturbed /\ notified[c] = 2

\* What a node seals for another opens there before the consensus and the push
\* get it, with the newest key of the rows that are found.  The signature is
\* made over the payload before it is compressed and encrypted, and compared
\* after (base.go:69, 169): that no message is refused hangs on the key of a
\* node never being found.
SealedOpens ==
    \A c \in Chats :
        chats[c].pc \notin {"new", "deliver", "lost"} =>
            NewestChosen /\ chats[c].opened

----------------------------------------------------------------------------
(* The inductive invariant.                                                *)

\* How far the push of c has come, and with a token of which age.
Pushed(c) ==
    /\ chats[c].pc \in {"new", "deliver", "source", "push"} => notified[c] = 0
    /\ At(c, "push") => chats[c].vendor \in {"plain", "token"}
    /\ chats[c].pc \in {"fetch", "store", "again", "lost"} => notified[c] <= 1
    /\ c \notin disturbed =>
          /\ c \in Running => notified[c] = 0
          /\ Asked(c) => notified[c] = 1
          /\ notified[c] <= 1
          /\ At(c, "fetch") => chats[c].vendor = "token"
          /\ At(c, "store") => chats[c].got >= oldest
          /\ At(c, "again") => token >= oldest

PushInv == \A c \in Chats : Pushed(c)

\* What is delivered has been opened.
OpenedInv ==
    \A c \in Chats :
        chats[c].pc \notin {"new", "deliver", "lost"} => chats[c].opened

ChatInv == ChatTypeOK /\ PushInv /\ OpenedInv
=============================================================================
