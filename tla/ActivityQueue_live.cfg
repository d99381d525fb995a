SPECIFICATION Spec
CONSTANTS
    Tasks = {t1, t2}
    WorkerCount = 0
    RetryCount = 1
    Backoff = 60
    NoResponse = NoResponse
    Answers = {200, 503}
    MaxHours = 0
INVARIANTS
    NothingLost
PROPERTIES
    KeepsPromise
    PromiseFulfilled
    ShutdownReturns
CHECK_DEADLOCK FALSE
