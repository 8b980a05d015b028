\* The service thread and the vendor's worker around cancel, and enumerations.
SPECIFICATION Spec
CONSTANTS
    FLYME_MAX_TEMPLATES = 2
    Ids = {0, 1, 2}
    NULL = NULL
INVARIANTS CanceledExactlyOnce EnumerationComplete StandardSlots
