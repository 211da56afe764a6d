\* Two measurements, two processes, two releases, with fairness.
SPECIFICATION FairSpec
CONSTANTS
    p1 = p1  p2 = p2  c1 = c1  c2 = c2  t1 = t1  t2 = t2
    NoTx = NoTx
    Items = {1, 2}
    Processes = {p1, p2}
    Creators = {c1, c2}
    Triggers = {t1, t2}
    ItemOf <- TwoItems
    HostOf <- FirstHost
    MaxRetries = 2
    BatchSize = 2
    MaxRelease = 2
    MaxRestarts = 1
INVARIANTS
    TypeOK
    OneIndexer
    CompletedIsIndexed
    VectorsAreRecorded
    RowsRest
PROPERTIES PendingIsSettled
