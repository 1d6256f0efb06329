CONSTANTS
    Users = {u1, u2}
    Admitters = {a1}
    Crons = {}
    OnSaleAt = None
    MaxSkew = 0
    Capacity = 1
    Refill = 1
    BatchMax = 1
    MaxTime = 0
    MaxJoins = 3
    MaxFaults = 0
    None = None
CHECK_DEADLOCK FALSE
SYMMETRY UserSymmetry
SPECIFICATION Spec
INVARIANTS
    PollsWithinBucket
