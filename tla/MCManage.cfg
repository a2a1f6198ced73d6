\* One module, two hosts that come and go, links that may be lost.
SPECIFICATION FairSpec
CONSTANTS
    m1 = m1
    h1 = h1
    h2 = h2
    Mods <- MCMods
    Hosts <- MCHosts
    NoHost = NoHost
    DnsPeer = DnsPeer
    ReporterPeer = ReporterPeer
    LinksMayClose = TRUE
    MaxChanges = 1
    MaxCalls = 1
    ProbeNum = 1
    InitSucc = 1
    InitErr = 1
    ErrNum = 1
    ErrDen = 2
    SuccNum = 1
    SuccDen = 2
    WindowNum = 1
    WindowDen = 2
    ContinErrLimit = 1
    ContinSuccLimit = 1
INVARIANT EmptyMeansPulling
INVARIANT PullingIsUnderWay
PROPERTY PullsEnd
PROPERTY UpdatesAreNoticed
PROPERTY KeepsPromise
CHECK_DEADLOCK FALSE
