SPECIFICATION FairSpec
CONSTANTS
    SeqMod = 4
    Sizes <- Accept
    MaxOpens <- OneEach
    MaxSends <- ServerSends
    MaxFails = 1
INVARIANTS TypeOK OpenAssertionsHold SequenceHolds EndsAgree NakHitsNoLiveChannel
CHECK_DEADLOCK FALSE
