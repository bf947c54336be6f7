\* The baseline strategy on a network that loses nothing, everyone a target.
SPECIFICATION FairNetSpec
CONSTANTS
    Receiver = {r1, r2}
    Proposer = p0
    Peer = {p0, r1, r2}
    NoPeer = NoPeer
    NumBlocks = 2
    Vec <- WholeVec
    Span <- WholeSpan
    ForwardWhen = "AfterDecode"
    MeshDegree = 2
    InitialLinks <- AllLinks
    Lossy = FALSE
INVARIANTS
    BehindProposer
PROPERTIES
    EveryReceiverDecodes
CHECK_DEADLOCK FALSE
