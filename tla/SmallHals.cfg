\* Four small components, each by itself.
SPECIFICATION MCSpec
CONSTANTS
    LightStates <- MCLightStates
    t1 = t1  t2 = t2
    Callers = {t1, t2}
    kRetryCount = 2
    kMinSerialLength = 2
    kMaxSerialLength = 4
    Slots <- MCSlots
    MaxSwitches = 2
    Replaced = 2
    Rows = 3
    MaxRuns = 3
INVARIANTS IndicatorTellsMostUrgent LowPowerSaves SerialInstalled InstallRepeatable
CHECK_DEADLOCK FALSE
