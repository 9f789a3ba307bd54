SPECIFICATION Spec
CONSTANTS
    Slaves = {s1, s2}
    RegularMaster = M
    Settings <- Redraws
    MasterGone = 4
    MasterRequest = 2
    SlavePolling = 1
    Mastering = 1
SYMMETRY SlaveSymmetry
INVARIANT OneMaster
CHECK_DEADLOCK FALSE
