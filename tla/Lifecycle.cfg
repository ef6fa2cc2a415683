SPECIFICATION FairSpec
CONSTANTS
    r1 = r1  r2 = r2  r3 = r3
    Requests = {r1, r2, r3}
    Buffer = 1
    Limiters = 2
INVARIANTS PoolOutlivesItsUsers NilMeansClean
PROPERTIES GracefulDrainLosesNothing ProcessExits
