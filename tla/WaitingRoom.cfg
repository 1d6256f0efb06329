CONSTANTS
    Users = {u1, u2}
    Admitters = {a1, a2}
    Crons = {c1}
    OnSaleAt = 1
    MaxSkew = 1
    Capacity = 2
    Refill = 1
    BatchMax = 2
    MaxTime = 1
    MaxJoins = 2
    MaxFaults = 1
    None = None
CHECK_DEADLOCK FALSE
SYMMETRY UserSymmetry
CONSTRAINT OneTroubleAndClocks
SPECIFICATION Spec
INVARIANTS
    TypeOK
    QueuedUntilAdmitted
    WatermarkBehindAdmissions
    BucketHonoured
    FifoUntilAdmission
