SPECIFICATION FairSpec
CONSTANTS
    Clients = {c1, c2}
    Base = base
    l1 = l1
    l2 = l2
    IoLoops <- MCIoLoops
    FileLimits = {1, 2}
INVARIANTS
    ServerKeepsOrder
    ConnectionIsCurrent
PROPERTIES
    ClientsAreServed
    EndsAreNoticed
CHECK_DEADLOCK FALSE
