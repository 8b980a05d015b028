\* One step of the wall clock while an event waits in the library.
SPECIFICATION Spec
CONSTANTS
    Sensors <- MCSensors
    Offsets <- MCOffsets
    MaxCounts <- MCMaxCounts
    Skew = 1
    Tolerance = 2
    MaxAge = 6
    FirstOffset = 0
    Ticks = {7}
    Future = 2
    kPollMaxBufferSize = 2
    FirstBoot = 2
    MaxBoot = 9
    MaxSteps = 1
    MaxFaults = 1
    MaxQueue = 2
INVARIANTS CaptureTimeKept
CHECK_DEADLOCK FALSE
