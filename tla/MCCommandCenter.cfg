SPECIFICATION FairSpec
CONSTANTS
    N = 2
    MaxCalls = 2
    MaxSignals = 1
    ExitCodes = {0, 1}
    QLen = 2
INVARIANTS TypeOK  
PROPERTIES CallsAnswered ExecEnds StopHeeded
CHECK_DEADLOCK FALSE
