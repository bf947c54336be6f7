SPECIFICATION SimSpec
CONSTANTS
    Node = {n0, n1, n2, n3}
    Proposer = n0
    Degree = 2
    Delay = 1
    zero = zero
    e1 = e1
    e2 = e2
    e12 = e12
    Vec <- PlaneVec
    Span <- PlaneSpan
    ForwardWhen = "UntilDecode"
INVARIANTS
    SimTypeOK
    PacketsAccounted
    ForwardsAsDocumented
    NothingMadeUp
PROPERTIES
    PathSpec
SYMMETRY Alike
CHECK_DEADLOCK FALSE
