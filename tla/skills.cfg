\* Two handlers, five requests and every fault.
SPECIFICATION Spec
CONSTANTS
    p1 = p1
    p2 = p2
    NameOrder <- Order
    OddNames <- Odd
    DotNames <- Dots
    Fold <- FoldOf
    SkillDirs <- Trees
    Allowed <- Shared
    Request <- Requests
    Backup <- Old
    Proc <- Procs
    MaxRequests = 5
    Faults = {"copy", "rename", "crash"}
SYMMETRY Symmetry
INVARIANTS
    InstalledIsKept
    
    RefusedInstallsNothing
    InstalledCanBeDeleted
CHECK_DEADLOCK FALSE
