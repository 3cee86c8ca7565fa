SPECIFICATION FairSpec
CONSTANTS
    Timeout = 3
    ProcessWaitDelay = 2
    MaxReportBytes = 2
    MaxStderrBytes = 1
    MaxWritten = 4
INVARIANTS
    TypeOK
    ReportIsComplete
    LimitsExact
    RunnerIsTimely
PROPERTIES
    RunnerReturns
CHECK_DEADLOCK FALSE
