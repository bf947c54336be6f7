\* One receiver, UntilDecode (Pedersen and BFKW), two blocks of rank two.
SPECIFICATION MCSpec
CONSTANTS
    Receiver = {r1}
    Peer = {p1}
    NoPeer = NoPeer
    NumBlocks = 2
    Vec <- PlaneVec
    Span <- PlaneSpan
    ForwardWhen = "UntilDecode"
    MaxRecv = 7
INVARIANTS
    TypeOK
    BlockIsolation
    NoIngestError
    DecodedInOrder
    NothingLost
    NothingOutOfTurn
    AnnouncedOnce
    ForwardPolicy
    NothingInvented
PROPERTIES
    SuppliedNodeDecodes
CHECK_DEADLOCK FALSE
