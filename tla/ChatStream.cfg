SPECIFICATION FairStreamSpec
CONSTANTS
    Stores = {"memory", "postgres"}
    Sends <- TextThenNone
    MaxRetries = 1
    BufferCap = 12
    MaxEvents = 1
    MaxRestarts = 1
    PromptNotice = TRUE
CHECK_DEADLOCK FALSE
INVARIANTS FramesDelivered MemoryKeeps
PROPERTIES StreamsEnd
