SPECIFICATION DrainSpec
CONSTANTS
    Tasks = {t1, t2}
    WorkerCount = 1
    RetryCount = 0
    Backoff = 60
    NoResponse = NoResponse
    Answers = {200, 503}
    MaxHours = 0
INVARIANTS
    IdleSnapshotMissesNoSettledWork
    IdleIsConfirmed
PROPERTIES
    WaitReturns
CHECK_DEADLOCK FALSE
