SPECIFICATION Spec
CONSTANTS
    P = 3
    N = 3
    Original <- ThreeChunks
    Scheme = "BFKW"
INVARIANTS
    EchelonForm
    DecodesOriginal
    ReencodedVerifies
    KeepsTheUseful
PROPERTY
    ImplementsSpan
