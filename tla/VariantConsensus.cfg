\* Two submissions of one block to a primary with two followers, one crash.
CONSTANTS
    p = p
    a = a
    b = b
    gone = gone
    Nodes = {p, a, b}
    Primary = p
    Gone = {gone}
    Subs = {1, 2}
    Lists <- ClientLists
    PeerNum = 3
    MaxCrashes = 1
    MaxRestarts = 1
    NoSub = NoSub
    NoHash = NoHash
SPECIFICATION FairSpec
INVARIANT AnswersProposed
PROPERTIES EveryAnswerRecorded DecisionReached
\* Every message may have been handled.
CHECK_DEADLOCK FALSE
