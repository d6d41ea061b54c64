SPECIFICATION StreamSpec
CONSTANTS
    H1 = 3
    H2 = 2
    Bytes = {0, 1, 2, 3}
    MaxDataLength = 1
    Checksum <- MCChecksum
    MaxBuffer = 8
    MaxChunk = 2
    MaxStream = 8
INVARIANTS
    CutsAreInvisible
    GoodFramesAreFound
    BufferIsBounded
