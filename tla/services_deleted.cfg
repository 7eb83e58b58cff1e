SPECIFICATION Spec
CONSTANTS
    s1 = s1
    s2 = s2
    p1 = p1
    p2 = p2
    NoSvc = NoSvc
    Svc <- OneService
    Proc <- TwoProcs
    Timed <- OneService
    Legacy <- OneService
    Ops = {"delete", "start"}
    Faults = {}
INVARIANT
    DeletedStaysDeleted
