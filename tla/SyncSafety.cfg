SPECIFICATION FairSpec
CONSTANTS
    s = s
    t = t
    c = c
    d = d
    x = x
    y = y
    inc = inc
    back = back
    Scripts <- Both
    Incremental <- OnlyIncremental
    Addresses <- TwoAddresses
    Route <- BothRoutes
    Stations <- TwoStations
    Chargers <- TwoChargers
    StationOf <- AtTheirs
    Listings <- Overlapping
    Loadable <- TwoStations
    MaxRetries = 2
    MaxClock = 1
    Faults = TRUE
INVARIANTS
    TypeOK
    OneRowEach
    DoneMeansStored
PROPERTIES
    ListingsAreStoredWhole
    EveryRunEnds
