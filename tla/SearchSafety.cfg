SPECIFICATION Spec
CONSTANTS
    a = a
    b = b
    w1 = w1
    w2 = w2
    here = here
    there = there
    Workers <- TwoWorkers
    Stations <- TwoStations
    Positions <- HereAndThere
    CellOf <- OneCell
    Dist <- DistBoth
    Radii = {9800, 10000}
    Pages = {1}
    Limits = {2}
    Payloads <- ItemsPerCharger
    Miss = Miss
    PoolSize = 1
    KepcoConfigured = TRUE
    Loadable <- TwoStations
    UpsertAccepted = TRUE
    DbMayFail = TRUE
SYMMETRY Symmetry
INVARIANTS
    TypeOK
    CachedWithinBucket
    AnswersWithinRadius
    SessionsDoNotLeak
    SearchInv
