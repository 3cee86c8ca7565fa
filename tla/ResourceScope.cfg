SPECIFICATION FairSpec
CONSTANTS
    WallTime = 1
    ScopeRuntime = 3
    ProcessWaitDelay = 1
    TeardownTimeout = 2
    TeardownCommandTimeout = 1
    PollInterval = 1
    TasksMax = 2
    Horizon = 10
INVARIANTS
    TypeOK
    DeadlineRespected
    CleanReturnIsEmpty
PROPERTIES
    FullTeardownReserve
    RunReturns
    ScopeDies
    ImplementsContainedRun
CHECK_DEADLOCK FALSE
