SPECIFICATION FairSpec
CONSTANTS
    N = 2
    MaxCalls = 1
    MaxSignals = 0
    ExitCodes = {0}
    QLen = 4
PROPERTY CarrierStops
CHECK_DEADLOCK FALSE
