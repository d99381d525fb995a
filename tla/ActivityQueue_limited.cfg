SPECIFICATION MCSpec
CONSTANTS
    Tasks = {t1, t2, t3}
    WorkerCount = 2
    RetryCount = 1
    Backoff = 60
    NoResponse = NoResponse
    Answers = {200, 404, 503}
    MaxHours = 1
SYMMETRY Symmetry
INVARIANTS
    TypeOK
    CountersMatchWork
    OutcomesNotOvercounted
    InFlightBounded
    MessagesNotDuplicated
    AttemptSchedule
    VerdictFollowsAnswer
    ShutdownDrains
