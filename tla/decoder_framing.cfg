\* All packets of up to five bytes over four kinds of header.
SPECIFICATION FairSpec
CONSTANTS
    Headers <- AllHeaders
    HeaderBytes = 2
    MaxBytes = 5
INVARIANTS
    TypeOK
    FramesDisjoint
    FramesFound
    WorkIsBounded
    FormatIsOfLastFrame
PROPERTY
    PacketEnds
