\* Two receivers, a lossy network that comes up link by link, UntilDecode.
SPECIFICATION NetSpec
CONSTANTS
    Receiver = {r1, r2}
    Proposer = p0
    Peer = {p0, r1, r2}
    NoPeer = NoPeer
    NumBlocks = 1
    Vec <- PlaneVec
    Span <- PlaneSpan
    ForwardWhen = "UntilDecode"
    MeshDegree = 2
    InitialLinks <- NoLinks
    Lossy = TRUE
INVARIANTS
    NetTypeOK
    NoInformationCreated
    DecodableOnly
CHECK_DEADLOCK FALSE
