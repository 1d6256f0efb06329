CONSTANTS
    Users = {u1}
    Seats = {s1, s2}
    Categories = {c1, c2}
    Holds = {h1, h2}
    Orders = {k1, k2}
    SeatLists <- OneSeat
    Quota <- OneEach
    EventLimit = 2
    DefaultLimit = 1
    DayPasses = FALSE
    MaxReleases = 1
    Keys = {k1, k2}
    Reapers = {}
    Cancellers = {}
    BatchSize = 1
    MaxFaults = 1
    Homes = {home}
    Checkouts = {shop}
    Buyer <- OneBuyer
    None = None
CHECK_DEADLOCK FALSE
SPECIFICATION StoreSpec
INVARIANTS
    StoreTypeOK
    PhaseTellsRequests
    OneOrderPerHoldUnlessDoubted
    OrderListsSoldSeatsUnlessDoubted
SYMMETRY Alike
CONSTRAINT TwoPagesOnlyUndisturbed
PROPERTY InventorySpec
