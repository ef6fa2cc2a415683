SPECIFICATION Spec
CONSTANTS
    p1 = p1
    c1 = c1  c2 = c2  c3 = c3  c4 = c4
    ann = ann  bob = bob  root = root
    r1 = r1  r2 = r2  r3 = r3  r4 = r4 r5 = r5
    NoRow = NoRow
    Users = {ann, bob, root}
    Admins <- MCAdmins
    PostAuthor <- MCPostAuthor
    NewId <- NewIds
    Posts = {p1}
    Comments = {c1, c2, c3}
    Seed <- SeedThread
    SeedStatus <- AllPublished
    Requests = {r1, r2, r3, r4, r5}
    Kind <- PostWork
    Actor <- PostActors
INVARIANTS TypeOK NoLiveCommentOnDeletedPost CounterExact PostDeletedOnce
PROPERTIES DeletedStaysAsItWas OnlyOwnersWrite
