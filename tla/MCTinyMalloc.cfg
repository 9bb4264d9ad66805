SPECIFICATION Spec
CONSTANTS
    LowerPow = 2
    UpperPow = 5
    InfoSize = 8
    BootBytes = 32
    ChunkBytes = 64
    LargeUnit = 64
    Requests = {1, 8, 32, 65, 129}
    MaxLive = 3
    MaxChunks = 7
INVARIANTS TypeOK  ChunksKept InfoInReserve FreeFinds
CHECK_DEADLOCK FALSE
