\* The gloox back end under an orderly messenger.
\* The system stops when the messenger has no packet left to send.
SPECIFICATION FairSpec
CONSTANTS
    alice = alice
    bob = bob
    NoId = NoId
    BackEnd = "gloox"
    Ids <- TwoIds
    Versions <- TwoVersions
    SessionIds <- TwoSessionIds
    Leftover = Leftover
    Orderly = TRUE
    MaxAsked = 5
    MaxDownstream = 2
INVARIANT
    OrderlyGetsItsSession
PROPERTY
    LoginCompletes
CHECK_DEADLOCK FALSE
