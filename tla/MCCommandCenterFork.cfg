SPECIFICATION ForkSpec
CONSTANTS
    N = 2
    MaxCalls = 1
    MaxSignals = 0
    ExitCodes = {0}
    QLen = 4
INVARIANT OwnAnswer
CHECK_DEADLOCK FALSE
