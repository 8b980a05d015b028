\* poll() between a wall clock that is set twice, failing samples and re-entry.
SPECIFICATION FairSpec
CONSTANTS
    Sensors <- MCSensors
    Offsets <- MCOffsets
    MaxCounts <- MCMaxCounts
    Skew = 1
    Tolerance = 2
    MaxAge = 6
    FirstOffset = 0
    Ticks = {7}
    Future = 2
    kPollMaxBufferSize = 2
    FirstBoot = 2
    MaxBoot = 9
    MaxSteps = 2
    MaxFaults = 1
    MaxQueue = 2
INVARIANTS DeliveredTimesRight DropsJustified
PROPERTIES PollComesBack
CHECK_DEADLOCK FALSE
