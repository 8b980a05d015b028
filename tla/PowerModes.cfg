\* Every mode, boost, fault and restart, and what must happen in the end.
SPECIFICATION FairSpec
CONSTANTS
    MaxTicks = 2
    MinTicks = 1
    RetryTicks = 1
    BoostLimit = 3
    MaxBreaks = 2
    NoFile = NoFile
    Requests <- MCRequests
    ConfigFiles <- MCFiles
    Defaults <- MCDefaults
    FaultSets <- MCFaultSets
INVARIANTS TypeOK FloorAllOrNothing NoBoostWhenForbidden NeverOversleeps CacheIsTrue NodesFollowModes
PROPERTIES BaselineRestored DestructorReturns
