SPECIFICATION FairSpec
CONSTANTS
    HeaderSize = 2
    MaxPacketSize = 4
    MaxSize = 4
    NPackets = 2
    Split = TRUE
INVARIANT FramesWhole
CHECK_DEADLOCK FALSE
