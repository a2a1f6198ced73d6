\* Checks at any time, while clients come and go and the pool works.
SPECIFICATION FairSpec
CONSTANTS
    w1 = w1
    w2 = w2
    NumClients = 2
    NumMods = 1
    Workers <- MCWorkers
    ClientsMayLeave = TRUE
    MaxChecks = 2
    MaxRequests = 2
INVARIANT OnlineStaySubscribed
INVARIANT LatestIsSent
PROPERTY ChangesReachClients
CHECK_DEADLOCK FALSE
