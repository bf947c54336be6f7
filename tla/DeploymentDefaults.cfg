\* Eight ports, so that both the p2p and the metrics ports of four nodes fill them.
SPECIFICATION Spec
CONSTANTS
    NumPorts = 8
    NodeCounts = {2, 4}
    Keys <- TwoStreams
    Ports = {1, 5}
    BlockSizes = {1}
    Strategies = {"baseline", "bfkw"}
    DefaultBlockSize = 2
    DefaultNumBlocks = 2
INVARIANTS
    ProposerOnlyFields
