\* An answer overtaken by a push costs a host its service for good.
SPECIFICATION FairSpec
CONSTANTS
    m1 = m1
    h1 = h1
    h2 = h2
    Mods <- MCMods
    Hosts <- MCHosts
    NoHost = NoHost
    DnsPeer = DnsPeer
    ReporterPeer = ReporterPeer
    LinksMayClose = FALSE
    MaxChanges = 1
    MaxCalls = 1
    ProbeNum = 1
    InitSucc = 1
    InitErr = 1
    ErrNum = 1
    ErrDen = 2
    SuccNum = 1
    SuccDen = 2
    WindowNum = 1
    WindowDen = 2
    ContinErrLimit = 1
    ContinSuccLimit = 1
PROPERTY UpdatesAreServed
CHECK_DEADLOCK FALSE
