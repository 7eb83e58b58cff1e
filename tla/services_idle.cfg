SPECIFICATION FairSpec
CONSTANTS
    s1 = s1
    s2 = s2
    p1 = p1
    p2 = p2
    NoSvc = NoSvc
    Svc <- TwoServices
    Proc <- OneProc
    Timed <- TwoServices
    Legacy <- TwoServices
    Ops = {"chat", "stop"}
    Faults = {"ensure", "guest"}
INVARIANTS
    DiskMirrorsTable
    
PROPERTIES
    IdleStopOnlyWhenIdle
    IdleServiceStops
    SlotEventuallyFree
