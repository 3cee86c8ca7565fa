\* A killed broker and the scope it leaves behind.
SPECIFICATION Spec
CONSTANTS
    WallTime = 1
    ScopeRuntime = 3
    ProcessWaitDelay = 1
    TeardownTimeout = 2
    TeardownCommandTimeout = 1
    PollInterval = 1
    TasksMax = 2
    Horizon = 10
PROPERTIES
    NoScanAfterClose
CHECK_DEADLOCK FALSE
