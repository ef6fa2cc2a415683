SPECIFICATION Spec
CONSTANTS
    t1 = t1  t3 = t3  t4 = t4  t5 = t5
    ann = ann  bob = bob
    r1 = r1  r2 = r2  r3 = r3  r4 = r4  r5 = r5  r6 = r6
    NoRow = NoRow
    Users = {ann, bob}
    NewId <- NewIds
    Actor <- AllAnn
    SeedUser <- SeedOne
    Kind <- AllKinds
    Tokens = {t1, t3}
    Requests = {r1, r6}
    MaxArrivals = 2
INVARIANTS LogoutAllEndsEverySession
