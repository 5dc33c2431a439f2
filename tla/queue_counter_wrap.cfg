\* A capacity that does not divide the number of counter values.
SPECIFICATION Spec
CONSTANTS
    LengthOf <- Lengths
    Packets <- Ids
    Capacities = {7}
    HeaderBytes = 2
    MaxPacketBytes = 4
    OutCapacity = 4
    SizeMod = 16
    ClearDuringPush = FALSE
    ClearDuringPop = FALSE
INVARIANTS
    RecordsIntact
