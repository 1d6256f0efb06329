CONSTANTS
    Users = {u1}
    Seats = {s1}
    Categories = {c1}
    Holds = {h1}
    Orders = {k1}
    SeatLists <- OneSeat
    Quota <- SeatQuota
    EventLimit = 2
    DefaultLimit = 1
    DayPasses = FALSE
    MaxReleases = 2
    Keys = {i1}
    Reapers = {}
    Cancellers = {}
    BatchSize = 1
    MaxFaults = 1
    None = None
CHECK_DEADLOCK FALSE
SPECIFICATION FairSpec
PROPERTY CommittedReachesPostgres
