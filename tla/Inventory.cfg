SPECIFICATION Spec
CONSTANTS
    None = None
    Ino = {0, 1, 2, 3, 4, 5}
    Root = 0
    Names = {1, 2}
    Bodies <- MCBodies
    Changes <- MCChanges
    GitDatabase <- MCGitDatabase
    Trees <- MCTrees
    MaxFiles = 3
    MaxDepth = 1
    MaxFileBytes = 2
    MaxReadBytes = 3
    MaxBinaryFileBytes = 2
    MaxBinaryReadBytes = 2
    MaxMutations = 2
INVARIANTS
    TypeOK
    ReportIsOneTree
    NothingOmitted
    BudgetsHold
    FileCountBound
PROPERTIES
    ImplementsStableScan
CHECK_DEADLOCK FALSE
