SPECIFICATION Spec
CONSTANTS
    pNVM_DataTable <- MCSmallTable
    Value <- MCValue
    v1 = v1
    BLANK = BLANK
    TORN = TORN
    NONE = NONE
    PAGE = 10
    SECTORS = 2
    gNvMinimumFreeBytesCountStart_c = 3
    gNvPendingSavesQueueSize_c = 1
    Circumstances <- MCNone
    MAX_COUNTER = 3
    MAX_LOSS = 1
    MAX_CRITICAL = 0
INVARIANTS TypeOK WarmEqualsCold ProgramsBlankCells
 
