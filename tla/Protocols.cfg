\* Bytes of four values, one to an element; six elements to a block, three of them padding.
SPECIFICATION Spec
CONSTANTS
    P = 5
    N = 2
    Base = 4
    DataBytes = 1
    HeaderBytes = 1
    Half = 2
    Slack = 5
    Limit = 3
    BlockSize = 1
    Blocks <- TwoBlocks
INVARIANTS
    ProtocolTypeOK
    NeverPanics
    DecodesProposed
    PeersUnderstand
    TwinsAgree
CHECK_DEADLOCK FALSE
