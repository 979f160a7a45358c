SPECIFICATION PortalSpec
CONSTANTS
    a1 = a1  a2 = a2  a3 = a3  k1 = k1  k2 = k2  c1 = c1  c2 = c2
    Acquirers <- MCAcquirers
    Keys <- MCKeys
    MaxConcurrency = 1
    IdleEviction = 1
    MaxMade = 2
    MaxTime = 2
    Calls <- MCCalls
    Worker = a1
    RetryLimit = 1
    KeyOf <- MCKeyOf
    Scenarios <- MCScenarios
CHECK_DEADLOCK FALSE
INVARIANTS PoolSafe PortalFaithful
PROPERTIES CallsReturn
