SPECIFICATION Spec
CONSTANTS
    Word = 12
    MaxLen = 40
    Workers = 2
    Modules <- MCModules
    Hosts <- MCHosts
    HostLists <- MCHostLists
    LocalIp = 127
    Retcodes <- MCRetcodes
    Reports <- MCReports
    Strays = {9}
    Chunks = {3, 16}
    MaxAsked = 2
    MaxPushes = 1
INVARIANTS
    HandledAsSent
    NothingIsLeft
    AnswersAreAsked
    BytesMerge
CHECK_DEADLOCK FALSE
