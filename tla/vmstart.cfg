\* Two handlers, two versions and two events.
SPECIFICATION Spec
CONSTANTS
    p1 = p1
    p2 = p2
    x1 = x1
    x2 = x2
    x3 = x3
    Proc <- Procs
    Port <- Ports
    FirstPort = x1
    PrefixOf <- Prefixes
    Size <- Sizes
    Nobody = Nobody
    MaxEvents = 2
    Faults = {"cancel", "yaml"}
SYMMETRY Symmetry
INVARIANTS
    TypeOK
    
    GuestIsUpToDate

    
CHECK_DEADLOCK FALSE
