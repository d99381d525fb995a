SPECIFICATION DrainSafeSpec
CONSTANTS
    Tasks = {t1}
    WorkerCount = 0
    RetryCount = 0
    Backoff = 60
    NoResponse = NoResponse
    Answers = {200, 503}
    MaxHours = 0
INVARIANTS
    IdleWasIdle
CHECK_DEADLOCK FALSE
