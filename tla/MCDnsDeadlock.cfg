\* publish and makePublishMap take the two locks in opposite orders.
SPECIFICATION FairSpec
CONSTANTS
    w1 = w1
    w2 = w2
    NumClients = 1
    NumMods = 1
    Workers = {w1}
    ClientsMayLeave = TRUE
    MaxChecks = 2
    MaxRequests = 1
PROPERTY MonitoringGoesOn
CHECK_DEADLOCK FALSE
