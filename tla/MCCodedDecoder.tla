--------------------------- MODULE MCCodedDecoder --------------------------
\* A small block for the decoder: three chunks of two elements.
EXTENDS CodedDecoder

ThreeChunks == <<<<1, 2>>, <<0, 1>>, <<2, 2>>>>
=============================================================================
