SPECIFICATION StreamSpec
CONSTANTS
    Stores = {"memory"}
    Sends <- OneText
    MaxRetries = 1
    BufferCap = 12
    MaxEvents = 1
    MaxRestarts = 0
    PromptNotice = TRUE
INVARIANTS RunOnce
CHECK_DEADLOCK FALSE
