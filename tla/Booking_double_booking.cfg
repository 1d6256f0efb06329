CONSTANTS
    Users = {u1, u2}
    Seats = {s1}
    Categories = {c1}
    Holds = {h1, h2}
    Orders = {k1, k2}
    SeatLists <- OneSeat
    Quota <- SeatQuota
    EventLimit = 2
    DefaultLimit = 1
    DayPasses = FALSE
    MaxReleases = 2
    Keys = {i1, i2}
    Reapers = {r1}
    Cancellers = {}
    BatchSize = 1
    MaxFaults = 0
    None = None
CHECK_DEADLOCK FALSE
SPECIFICATION Spec
INVARIANT NoDoubleBooking
