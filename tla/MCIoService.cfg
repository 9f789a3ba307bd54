SPECIFICATION FairSpec
CONSTANTS
    Fd = {f1}
    MaxNotify = 3
INVARIANTS
    NoLostRegistration
    NoOrphanInterest
    EventsMatchJobs
PROPERTIES
    KeepsRegistry
    ReadyJobIsCalled
    StopReturns
CHECK_DEADLOCK FALSE
