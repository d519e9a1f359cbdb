SPECIFICATION Spec
CONSTANTS
    WATCHDOG_STRIKES = 2
    MaxFaults = 2
    Keys = {k1, k2}
    NullKey = NullKey
    Backends = {b1, b2}
    Readers = {r1}
    MaxVersion = 3
INVARIANTS TypeOK StaleOnlyIfCounted SilenceNoticed
PROPERTIES HealthySpared ServiceReturns StopCompletes
CHECK_DEADLOCK FALSE
