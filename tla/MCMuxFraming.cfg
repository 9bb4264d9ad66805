SPECIFICATION FairSpec
CONSTANTS
    HeaderSize = 2
    MaxPacketSize = 4
    MaxSize = 5
    NPackets = 4
    Split = FALSE
INVARIANTS TypeOK BufferFits FramesWhole HandledExactly
PROPERTY CallReturns
CHECK_DEADLOCK FALSE
