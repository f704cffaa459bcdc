SPECIFICATION Spec
CONSTANTS
    a = a
    b = b
    w1 = w1
    w2 = w2
    here = here
    there = there
    Workers <- OneWorker
    Stations <- TwoStations
    Positions <- Here
    CellOf <- OneCell
    Dist <- DistHere
    Radii = {10000}
    Pages = {1}
    Limits = {2}
    Payloads <- ItemOrders
    Miss = Miss
    PoolSize = 2
    KepcoConfigured = TRUE
    Loadable <- TwoStations
    UpsertAccepted = TRUE
    DbMayFail = FALSE
INVARIANT
    UpsertsAccompanyBackfill
