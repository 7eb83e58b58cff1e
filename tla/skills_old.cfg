\* One handler and no fault: a skill named <other>.old.
SPECIFICATION Spec
CONSTANTS
    p1 = p1
    p2 = p2
    NameOrder <- Order
    OddNames <- Odd
    DotNames <- Dots
    Fold <- FoldOf
    SkillDirs <- Trees
    Allowed <- Shared
    Request <- Requests
    Backup <- Old
    Proc <- OneProc
    MaxRequests = 3
    Faults = {}
INVARIANT
    OnlyNamedIsOverwritten
CHECK_DEADLOCK FALSE
