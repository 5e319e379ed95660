\* The mock back end under a messenger that keeps no order.
\* The system stops when the messenger has no packet left to send.
SPECIFICATION Spec
CONSTANTS
    alice = alice
    bob = bob
    NoId = NoId
    BackEnd = "mock"
    Ids <- TwoIds
    Versions <- TwoVersions
    SessionIds <- TwoSessionIds
    Leftover = Leftover
    Orderly = FALSE
    MaxAsked = 4
    MaxDownstream = 2
INVARIANTS
    TypeOK
    SessionPacketsAreStamped
    InformedRequestsAreServed
PROPERTY
    OneSession
CHECK_DEADLOCK FALSE
