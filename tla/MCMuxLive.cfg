SPECIFICATION FairSpec
CONSTANTS
    SeqMod = 8
    Sizes <- RefuseOrAccept
    MaxOpens <- OneEach
    MaxSends <- OneEach
    MaxFails = 1
INVARIANT BoundedInv
PROPERTIES OpenAnswered CloseReachesPeer
CHECK_DEADLOCK FALSE
