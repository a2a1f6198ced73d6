SPECIFICATION FairSpec
CONSTANTS
    Workers = {w1, w2}
    Producers = {loop}
    Loop = loop
    Tasks = {1, 2, 3}
    NoTask = 0
    Nobody = nobody
    MaxReports = 3
    h1 = h1
    h2 = h2
    ResultsOf <- MCResultsOf
INVARIANTS
    NoSleeperIsNeeded
    RowsGoBackOnlyTogether
PROPERTIES
    KeepsPoolPromise
    ReportsSettle
CHECK_DEADLOCK FALSE
