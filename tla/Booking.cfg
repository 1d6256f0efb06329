CONSTANTS
    Users = {u1}
    Seats = {s1, s2}
    Categories = {c1}
    Holds = {h1, h2}
    Orders = {k1, k2}
    SeatLists <- OneSeatOrTwo
    Quota <- SeatQuota
    EventLimit = 2
    DefaultLimit = 1
    DayPasses = FALSE
    MaxReleases = 1
    Keys = {i1}
    Reapers = {r1}
    Cancellers = {d1}
    BatchSize = 1
    MaxFaults = 1
    None = None
CHECK_DEADLOCK FALSE
SYMMETRY ServiceSymmetry
SPECIFICATION Spec
INVARIANTS
    ServiceTypeOK
    OrdersAreBacked
    SaleKeepsRow
    HoldCanBeCommitted
    LiveHoldHasRow
