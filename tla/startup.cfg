\* Two processes, three starts, four ports, another program that takes some.
SPECIFICATION Spec
CONSTANTS
    p1 = p1
    p2 = p2
    x1 = x1
    x2 = x2
    x3 = x3
    x4 = x4
    Proc <- Procs
    Port <- Ports
    NoPort = NoPort
    Nobody = Nobody
    Other = Other
    MaxStarts = 3
    MaxTaken = 1
    Faults = {"crash", "slow"}
SYMMETRY Symmetry
INVARIANTS
    OneServer
    NextStartLoads
    
CHECK_DEADLOCK FALSE
