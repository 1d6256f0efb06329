CONSTANTS
    Users = {u1, u2}
    Events = {e1, e2}
    Workers = {w1}
    Homes = {home}
    Checkouts = {shop}
    FirstEvent = e1
    Ttl = 2
    Grace = 3
    Leeway = 1
    CookieMin = 1
    PageTtl = 2
    MaxSkew = 1
    MaxTime = 3
    MaxTokens = 2
    MaxFaults = 1
    None = None
CHECK_DEADLOCK FALSE
SYMMETRY UserSymmetry
CONSTRAINT OneSide
SPECIFICATION Spec
INVARIANTS
    TypeOK
    ConsumedOnlyWithoutKey
    DeadCookieIsShort
    PoppedGetTokens
    TabsAreOneUser
