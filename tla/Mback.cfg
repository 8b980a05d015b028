\* mBack: taps against the mechanical key, and the migration of the settings.
SPECIFICATION MCSpec
CONSTANTS
    PHYSICAL_HOME_TAP_COOLDOWN_MS = 1
    MaxTime = 4
    MaxPresses = 2
    MaxQueue = 1
    input = input  looper = looper  screen = screen
    Migrators = {input, looper, screen}
    Screen = screen
    Last = 2
    Fallback <- MCFallback
    Legacy <- MCLegacy
    Pickable = {1}
    Choices = {7}
    NULL = NULL
    MaxFailures = 1
INVARIANTS PressIsNotATap MigrationFaithful
CHECK_DEADLOCK FALSE
