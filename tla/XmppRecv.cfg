SPECIFICATION Spec
CONSTANTS
    Offers <- MCOffers
    MaxUnread = 1
    MaxUnasked = 1
INVARIANT RecvReturnsState
CHECK_DEADLOCK FALSE
