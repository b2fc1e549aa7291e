SPECIFICATION ScriptsSpec
CONSTANTS
    Sources = {"g1"}
    PoolSize = 1
    CallTimeout = 1
    FaultThreshold = 2
    MaxOutstandingWaits = 1
    Deferred = {"d1"}
PROPERTIES
    BootEnables
CHECK_DEADLOCK FALSE
