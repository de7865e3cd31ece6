SPECIFICATION MCSpec
CONSTANTS
    Processes = {p1, p2}
    Upgrader = p1
    OldVersion = 1
    Foreign = {9, 18}
    MaxOpens = 5
    Requests = {r1, r2}
    Lone = r1
    ClockSkew = 1
    MaxKeys = 2
    MaxTime = 3
    MaxStarts = 1
INVARIANTS TypesOK StoreOpensWhole KeyCacheFollowsIssuer ActsUnderMembership
PROPERTY RequestsAnswered
CHECK_DEADLOCK FALSE
