SPECIFICATION FairSpec
CONSTANTS
    NENTRIES = 2
    IDX_MOD = 4
    MasterTasks = {m1}
    RemoteTasks = {r1}
    MASTER_MSGS = 3
    REMOTE_MSGS = 1
    TIMEOUTS = {1, RL_BLOCK}
    MASTER_EPTS = {"queue"}
    REMOTE_EPTS = {"queue"}
    HANDSHAKE = "announce"
    DEINIT = {}
    RL_BLOCK = RL_BLOCK
    NoDesc = NoDesc
    NoTask = NoTask
    NoWord = NoWord
    Empty = Empty
INVARIANT HeldMessagesIntact
PROPERTIES EventuallyDelivered  LinkComesUp
