\* Capacity divides the number of counter values; clear() may run while the
\* producer is anywhere inside push(), and keeps out of pop().
SPECIFICATION FairSpec
CONSTANTS
    LengthOf <- Lengths
    Packets <- Ids
    Capacities = {2, 8}
    HeaderBytes = 2
    MaxPacketBytes = 4
    OutCapacity = 3
    SizeMod = 16
    ClearDuringPush = TRUE
    ClearDuringPop = FALSE
INVARIANTS
    TypeOK
    RingInvariant
    RecordsChained
    RecordsIntact
    NoTornAccess
    RoomIsExact
    CountsEven
    CountMatchesAtRest
PROPERTIES
    ImplementsFifo
    Drains
