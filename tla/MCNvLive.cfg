SPECIFICATION Spec
CONSTANTS
    pNVM_DataTable <- MCTable
    Value <- MCOneValue
    v1 = v1
    BLANK = BLANK
    TORN = TORN
    NONE = NONE
    PAGE = 12
    SECTORS = 2
    gNvMinimumFreeBytesCountStart_c = 4
    gNvPendingSavesQueueSize_c = 1
    Circumstances <- MCNone
    MAX_COUNTER = 3
    MAX_LOSS = 0
    MAX_CRITICAL = 1
INVARIANTS EraseSparesActive RequestsKept FitsAfterCopy
PROPERTY RequestsServed
