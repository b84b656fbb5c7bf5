SPECIFICATION FairSpec
CONSTANTS
    DATA <- MCData
    STARTS = 3
    STOPS = 2
    KICKS = 0
    APP_EVENTS = 0
    MODES = {"sync", "async"}
    RETRY = FALSE
    EARLY_EVENTS = FALSE
    RESET_KEEPS = {FALSE}
    NoData = NoData
    NoWord = NoWord
INVARIANTS StartupDataIntact OneHandshakeWord
PROPERTIES StartupDataArrives
