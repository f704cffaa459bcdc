SPECIFICATION Spec
CONSTANTS
    s = s
    t = t
    c = c
    d = d
    x = x
    y = y
    inc = inc
    back = back
    Scripts <- OnlyIncremental
    Incremental <- OnlyIncremental
    Addresses <- OneAddress
    Route <- FullRoute
    Stations <- TwoStations
    Chargers <- TwoChargers
    StationOf <- AtTheirs
    Listings <- Dated
    Loadable = {}
    MaxRetries = 2
    MaxClock = 1
    Faults = FALSE
INVARIANT
    RunsAgainSafely
