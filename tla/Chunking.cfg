\* Windows of two bytes of four values; blocks of up to four bytes, one too long.
SPECIFICATION Spec
CONSTANTS
    P = 17
    N = 2
    Base = 4
    DataBytes = 2
    HeaderBytes = 1
    Half = 2
    Slack = 5
    Limit = 3
    MaxBlockSize = 4
INVARIANTS
    NeverOverflows
    RoundTrip
    LengthIsTight
CHECK_DEADLOCK FALSE
