SPECIFICATION FairSpec
CONSTANTS
    Slaves = {s1, s2}
    RegularMaster = M
    Settings <- TiesOrKill
    MasterGone = 4
    MasterRequest = 2
    SlavePolling = 1
    Mastering = 1
INVARIANTS RegularMasterRules HeardInTime
PROPERTY Settles
CHECK_DEADLOCK FALSE
