SPECIFICATION Spec
CONSTANTS
    ann = ann  bob = bob  office = office
    r1 = r1  r2 = r2  r3 = r3  r4 = r4
    None = None
    Requests = {r1, r2, r3, r4}
    Users = {}
    Addresses = {office}
    User <- Unsigned
    Address <- Office
    Rate = 1
    Burst = 1
    Unit = 3
    Second = 2
    IdleTTL = 4
    Horizon = 7
    MaxLag = 1
INVARIANTS TypeOK AnyWindowWithinBudget DeniedOnlyWhenSpent RetryAfterIsEnough IdleBucketsReclaimed
SYMMETRY Interchangeable
CHECK_DEADLOCK FALSE
