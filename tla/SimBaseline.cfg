\* Every mesh of four nodes of degree two, the baseline strategy.
SPECIFICATION FairSimSpec
CONSTANTS
    Node = {n0, n1, n2, n3}
    Proposer = n0
    Degree = 2
    Delay = 1
    zero = zero
    e1 = e1
    e2 = e2
    e12 = e12
    Vec <- WholeVec
    Span <- WholeSpan
    ForwardWhen = "AfterDecode"
INVARIANTS
    NobodyLeftOut
    ReportIsRight
PROPERTIES
    Terminates
CHECK_DEADLOCK FALSE
