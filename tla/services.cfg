\* All requests, all faults, safety.
SPECIFICATION Spec
CONSTANTS
    s1 = s1
    s2 = s2
    p1 = p1
    p2 = p2
    NoSvc = NoSvc
    Svc <- OneService
    Proc <- TwoProcs
    Timed <- OneService
    Legacy <- NoServices
    Ops = {"create", "delete", "stop", "start", "resume", "chat", "restart"}
    Faults = {"ensure", "guest", "save", "crash", "vm", "recreate"}
SYMMETRY ProcSymmetry
INVARIANTS
    TypeOK
    SlotExclusive
    ReasonMatchesState
    
PROPERTIES
    ManualStopWins
