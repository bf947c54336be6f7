\* The documented meaning of UntilDecode, on one receiver.
SPECIFICATION MCSpec
CONSTANTS
    Receiver = {r1}
    Peer = {p1}
    NoPeer = NoPeer
    NumBlocks = 1
    Vec <- PlaneVec
    Span <- PlaneSpan
    ForwardWhen = "UntilDecode"
    MaxRecv = 4
INVARIANTS
    ForwardsEveryRankIncrease
CHECK_DEADLOCK FALSE
