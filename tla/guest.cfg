\* Two services, two handlers, every fault.
SPECIFICATION Spec
CONSTANTS
    s1 = s1
    s2 = s2
    i1 = i1
    i2 = i2
    p1 = p1
    p2 = p2
    NoImage = NoImage
    Svc <- TwoSvcs
    Managed <- OneSvc
    Image <- Images
    Proc <- Procs
    MaxMounts = 2
    Faults = {"nerdctl", "health", "save", "restart", "reboot"}
SYMMETRY Symmetry
INVARIANTS
    TypeOK
    ExcludedIsHidden
    OrphansExplained
    
    StoppedMeansStopped
PROPERTIES
    ImplementsLife
