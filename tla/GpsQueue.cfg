\* The queue between the sensor service and gpsd, at and beyond its capacity.
SPECIFICATION FairSpec
CONSTANTS
    Capacity = 3
    ReadCounts = {1, 2, 4}
    SensorList <- MCSensorList
    PeriodsUs <- MCPeriodsUs
    MaxInt = 9
    DefaultPeriod = 5
    MaxSamples = 8
INVARIANTS ReadableIffWaiting RecentInOrder QueueOutlivesUse
PROPERTIES ListStable SamplesLeave
