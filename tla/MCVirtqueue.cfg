SPECIFICATION Spec
CONSTANTS
    NENTRIES = 3
    IDX_MOD = 6
    PREFILL = "used"
    NoDesc = NoDesc
INVARIANTS TypeOK NoBufferLost SingleOwner
PROPERTIES NoOverwrite ImplementsExchange
