\* Two hosts, every threshold small enough to be crossed both ways.
SPECIFICATION FairBalancerSpec
CONSTANTS
    h1 = h1
    h2 = h2
    Hosts <- MCHosts
    NoHost = NoHost
    Silent = Silent
    ProbeNum = 2
    InitSucc = 2
    InitErr = 1
    ErrNum = 1
    ErrDen = 3
    SuccNum = 1
    SuccDen = 2
    WindowNum = 2
    WindowDen = 3
    ContinErrLimit = 2
    ContinSuccLimit = 2
    MaxReports = 4
INVARIANTS
    ListsPlaceHosts
    NoVerdictPending
PROPERTIES
    HostsTakeTurns
    ProbesAreRationed
    SuccessDoesNotOverload
CHECK_DEADLOCK FALSE
