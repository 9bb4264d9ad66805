SPECIFICATION Spec
CONSTANTS
    NPaths = 2
    MaxFd = 2
    BufSizes = {1, 3, 8}
    data_buf_size = 10
    QueueMax = 2
INVARIANTS TypeOK  
PROPERTIES CarrierKeepsNone AnswerArrives
CHECK_DEADLOCK FALSE
