\* Two handlers and every fault: what holds under all interleavings.
SPECIFICATION Spec
CONSTANTS
    p1 = p1
    p2 = p2
    Dir <- Dirs
    Link <- Links
    Canon <- CanonOf
    Tmp <- TmpDir
    Builtin <- Builtins
    Default <- Defaults
    ShareDir <- ShareDirs
    MountPath <- Mounts
    NoPath = NoPath
    UserLists <- Lists1
    Proc <- Procs
    MaxChanges = 2
    Faults = {"crash", "save", "yaml"}
SYMMETRY Symmetry
INVARIANTS
    TypeOK
    
    
    
CHECK_DEADLOCK FALSE
