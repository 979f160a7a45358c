SPECIFICATION FairSpec
CONSTANTS
    j1 = j1  j2 = j2  w1 = w1  w2 = w2  NoJob = NoJob
    Jobs <- MCJobs
    Unhandled <- MCUnhandled
    Workers <- MCWorkers
    RetryLimit = 1
    Timeout = 1
    MaxTime = 2
    MaxOutages = 1
CHECK_DEADLOCK FALSE
INVARIANTS OneCopy LateWorkBounded
PROPERTIES ImplementsJobService JobsSettle
