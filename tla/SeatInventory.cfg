CONSTANTS
    Users = {u1, u2}
    Seats = {s1, s2, s3}
    Categories = {c1}
    Holds = {h1, h2}
    Orders = {k1, k2, k3}
    SeatLists <- OneSeatOrTwo
    Quota <- SeatQuota
    EventLimit = 2
    DefaultLimit = 1
    DayPasses = TRUE
    MaxReleases = 2
    None = None
SYMMETRY BuyerSymmetry
CHECK_DEADLOCK FALSE
SPECIFICATION RedisSpec
INVARIANTS
    RedisTypeOK
    InventoryInv
    CounterConservation
    LiveHoldKept
    SaleStands
    NoDoubleSaleUnlessReleased
    ShortByRepeatsOnly
    SoldCountsSales
    TicketCapWhenClean
    HeldCoversSeatsWhenClean
PROPERTY OwnershipSpec
