\* UntilDecode, rank two, one packet per block from the proposer (MeshDegree 1).
SPECIFICATION FairNetSpec
CONSTANTS
    Receiver = {r1, r2}
    Proposer = p0
    Peer = {p0, r1, r2}
    NoPeer = NoPeer
    NumBlocks = 1
    Vec <- PlaneVec
    Span <- PlaneSpan
    ForwardWhen = "UntilDecode"
    MeshDegree = 1
    InitialLinks <- AllLinks
    Lossy = FALSE
PROPERTIES
    EveryReceiverDecodes
CHECK_DEADLOCK FALSE
