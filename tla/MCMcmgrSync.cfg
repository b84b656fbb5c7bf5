SPECIFICATION FairSpec
CONSTANTS
    DATA <- MCData
    STARTS = 2
    STOPS = 0
    KICKS = 2
    APP_EVENTS = 1
    MODES = {"sync"}
    RETRY = TRUE
    EARLY_EVENTS = FALSE
    RESET_KEEPS = {FALSE}
    NoData = NoData
    NoWord = NoWord
INVARIANTS TypeOK
PROPERTIES NoUnreadWordOverwritten SyncStartConfirmed StartReturns TriggerEventReturns
