\* One host port, three tunnels, two handlers; ssh and the guest may fail.
\* With fairness: also what must happen in the end.
SPECIFICATION FairSpec
CONSTANTS
    t1 = t1
    t2 = t2
    t3 = t3
    h1 = h1
    g1 = g1
    g2 = g2
    p1 = p1
    p2 = p2
    NoTunnel = NoTunnel
    NoPort = NoPort
    Id <- Ids
    GuestPort <- GuestPorts
    Proc <- Procs
    HostPort <- OneHostPort
    Faults = {"guest", "ssh"}
INVARIANTS
    TypeOK
    IndexMatches
PROPERTIES
    LiveStaysIndexed
    DeadTunnelsLeave
    DeletedTunnelsEnd
