SPECIFICATION Spec
CONSTANTS
    s = s
    t = t
    c1 = c1
    c2 = c2
    w1 = w1
    w2 = w2
    Workers <- OneWorker
    Stations <- OneStation
    Chargers <- TwoChargers
    StationOf <- AllAt
    Payloads <- Single
    Loadable = {}
    FreshWindow = 1
    DetailTTL = 1
    MaxLatency = 1
    MaxClock = 4
    UpsertAccepted = TRUE
    DbMayFail = FALSE
INVARIANT
    InsertHasItsStation
