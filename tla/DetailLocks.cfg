SPECIFICATION FairSpec
CONSTANTS
    s = s
    t = t
    c1 = c1
    c2 = c2
    w1 = w1
    w2 = w2
    Workers <- TwoWorkers
    Stations <- TwoStations
    Chargers <- TwoChargers
    StationOf <- AllAt
    Payloads <- Orders
    Loadable <- OneStation
    FreshWindow = 1
    DetailTTL = 1
    MaxLatency = 0
    MaxClock = 0
    UpsertAccepted = TRUE
    DbMayFail = TRUE
INVARIANT
    NoDeadlockedSet
    ListsAreOfTheirStation
PROPERTY
    EveryRequestAnswered
