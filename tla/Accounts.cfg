SPECIFICATION FairSpec
CONSTANTS
    r1 = r1  r2 = r2  r3 = r3
    ann = ann  Ann = Ann  eve = eve  bob = bob  b1 = b1
    pw = pw  px = px  long = long
    None = None
    Requests = {r1, r2, r3}
    MaxConns = 1
    MaxArrivals = 3
    Names = {ann, Ann, eve, bob}
    Folded <- Fold
    Passwords = {pw, px, long}
    Long = {long}
    Erasable = {b1}
    Seeds <- OneSeed
    Menu <- Calls
INVARIANTS TypeOK OneAccountPerIdentity AcknowledgedAccountWorks AnswerMatchesEffect
PROPERTIES EveryRequestEnds
