SPECIFICATION LossySpec
CONSTANTS
    Slaves = {s1, s2}
    Votes = {1, 2, 3}
    MasterGone = 0
    MasterRequest = 0
    SlavePolling = 0
    Mastering = 0
SYMMETRY SlaveSymmetry
INVARIANTS TimersFitState PollIsAhead
PROPERTY OnlyByPoll
