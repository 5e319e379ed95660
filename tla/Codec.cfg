\* Short strings of every kind and private messages, some too large to relay.
\* The system stops when an exception ends it.
SPECIFICATION Spec
CONSTANTS
    Payload <- AllPayloads
    HeaderSize = 4
    MaxSize = 44
    MaxInt = 127
    Leftovers <- AnyLeftovers
    Behind <- AfterPayload
INVARIANTS
    TypeOK
    RelayIsFaithful
PROPERTIES
    ParserAdvances
    ReplyIsReadable
CHECK_DEADLOCK FALSE
