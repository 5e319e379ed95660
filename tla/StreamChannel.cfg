\* The messenger sends whenever it likes: packets are dispatched in order.
\* The system stops when the messenger has no packet left to send.
SPECIFICATION FairSpec
CONSTANTS
    HeaderSize <- ShortHeader
    SizeAt <- MiddleByte
    PayloadSizes = {0, 2}
    MaxPackets = 3
INVARIANTS
    TypeOK
    BacklogOnlyFromSurplus
PROPERTIES
    IsChannel
    PatientIsServed
    GoneIsDetached
CHECK_DEADLOCK FALSE
