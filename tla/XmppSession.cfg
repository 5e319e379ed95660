\* A login and what follows, with every way a server may answer.
\* The system stops when an exception ends the process or the pump returns.
SPECIFICATION FairSpec
CONSTANTS
    Offers <- MCOffers
    MaxUnread = 1
    MaxUnasked = 1
INVARIANTS
    TypeOK
    SessionNeedsAcceptance
    NoSecretInClear
PROPERTIES
    IsLink
    SessionHasAskedForRoster
    MessengerIsServed
    LineLossDetaches
    LoginEnds
CHECK_DEADLOCK FALSE
