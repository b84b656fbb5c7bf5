SPECIFICATION Spec
CONSTANTS
    NENTRIES = 2
    IDX_MOD = 4
    MasterTasks = {m1, m2}
    RemoteTasks = {r1}
    MASTER_MSGS = 3
    REMOTE_MSGS = 1
    TIMEOUTS = {1}
    MASTER_EPTS = {"queue"}
    REMOTE_EPTS = {"release"}
    HANDSHAKE = "none"
    DEINIT = {"remote"}
    RL_BLOCK = RL_BLOCK
    NoDesc = NoDesc
    NoTask = NoTask
    NoWord = NoWord
    Empty = Empty
SYMMETRY MCSymmetry
INVARIANTS TypeOK InOrderDelivery RingsUsable
PROPERTY VringsImplemented
