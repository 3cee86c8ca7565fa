SPECIFICATION FairSpec
CONSTANTS
    MemoryMaxBytes = 2
    MemorySwapBytes = 0
    TasksMax = 2
    ScopeRuntime = 2
    OpenFilesMax = 3
    maxInstalledPlugins = 2
    Statuses = {3}
    static = static
    dynamic = dynamic
    planted = planted
    Inodes = {static, dynamic, planted}
    File <- MCFile
    Inputs <- MCInputs
INVARIANTS
    TypeOK
    ReadOnlyContained
    OnlyTrustedRuns
    SuccessIsDelivered
PROPERTIES
    OutputIsFinal
    BrokerEnds
CHECK_DEADLOCK FALSE
