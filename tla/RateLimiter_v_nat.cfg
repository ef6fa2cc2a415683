SPECIFICATION Spec
CONSTANTS
    ann = ann  bob = bob  office = office
    r1 = r1  r2 = r2  r3 = r3  r4 = r4
    None = None
    Requests = {r1, r2, r3, r4}
    Users <- MCUsers
    Addresses = {office}
    User <- TwoUsers
    Address <- Office
    Rate = 2
    Burst = 2
    Unit = 3
    Second = 2
    IdleTTL = 4
    Horizon = 7
    MaxLag = 1
INVARIANT NoThrottlingByOthers
CHECK_DEADLOCK FALSE
