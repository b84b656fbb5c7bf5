SPECIFICATION Spec
CONSTANTS
    pNVM_DataTable <- MCUnevenTable
    Value <- MCOneValue
    v1 = v1
    BLANK = BLANK
    TORN = TORN
    NONE = NONE
    PAGE = 18
    SECTORS = 2
    gNvMinimumFreeBytesCountStart_c = 3
    gNvPendingSavesQueueSize_c = 1
    Circumstances <- MCNone
    MAX_COUNTER = 2
    MAX_LOSS = 1
    MAX_CRITICAL = 0
INVARIANT MetaSpaceKept
