SPECIFICATION Spec
CONSTANTS
    NENTRIES = 2
    IDX_MOD = 4
    MasterTasks = {m1}
    RemoteTasks = {r1}
    MASTER_MSGS = 2
    REMOTE_MSGS = 2
    TIMEOUTS = {0}
    MASTER_EPTS = {"queue", "release"}
    REMOTE_EPTS = {"queue"}
    HANDSHAKE = "ready"
    DEINIT = {}
    RL_BLOCK = RL_BLOCK
    NoDesc = NoDesc
    NoTask = NoTask
    NoWord = NoWord
    Empty = Empty
INVARIANTS ExclusiveAccess
