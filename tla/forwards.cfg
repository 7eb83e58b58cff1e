\* Three forwards of one guest port over one host port, with a crash.
SPECIFICATION FairSpec
CONSTANTS
    h1 = h1
    h2 = h2
    g1 = g1
    g2 = g2
    p1 = p1
    p2 = p2
    None = 0
    Id <- Ids
    HostPort <- HostPorts
    GuestPort <- GuestPorts
    Proc <- Procs
    MaxCrashes = 1
    Faults = {"ssh", "guest", "id"}
INVARIANTS
    TypeOK
    ForwardIsFound
    

    
CHECK_DEADLOCK FALSE
