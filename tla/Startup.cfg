SPECIFICATION StartupSpec
CONSTANTS
    Environments <- Started
    Requests = {r1, r2}
INVARIANTS
    ProductionServesHardened
    ServesAsConfigured
    StopsCleanly
PROPERTIES
    StopEnds
