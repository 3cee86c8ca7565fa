\* The reported mode of a directory against the tree between the two passes.
SPECIFICATION Spec
CONSTANTS
    None = None
    Ino = {0, 1, 2, 3, 4, 5}
    Root = 0
    Names = {1, 2}
    Bodies <- MCBodies
    Changes <- MCChanges
    GitDatabase <- MCGitDatabase
    Trees <- StillTrees
    MaxFiles = 4
    MaxDepth = 1
    MaxFileBytes = 2
    MaxReadBytes = 3
    MaxBinaryFileBytes = 2
    MaxBinaryReadBytes = 2
    MaxMutations = 1
INVARIANTS
    DirectoryModeFaithful
CHECK_DEADLOCK FALSE
