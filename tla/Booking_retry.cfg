CONSTANTS
    Users = {u1}
    Seats = {s1}
    Categories = {c1}
    Holds = {h1}
    Orders = {k1, k2}
    SeatLists <- OneSeat
    Quota <- SeatQuota
    EventLimit = 2
    DefaultLimit = 1
    DayPasses = FALSE
    MaxReleases = 1
    Keys = {i1}
    Reapers = {}
    Cancellers = {}
    BatchSize = 1
    MaxFaults = 0
    None = None
CHECK_DEADLOCK FALSE
SPECIFICATION Spec
INVARIANT OneOrderPerKey
