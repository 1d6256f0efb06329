CONSTANTS
    Users = {u1, u2, u3}
    Admitters = {a1}
    Crons = {}
    OnSaleAt = None
    MaxSkew = 0
    Capacity = 2
    Refill = 1
    BatchMax = 2
    MaxTime = 0
    MaxJoins = 4
    MaxFaults = 0
    None = None
CHECK_DEADLOCK FALSE
SYMMETRY UserSymmetry
SPECIFICATION Spec
INVARIANTS
    FifoAlways
