CONSTANTS
    User = {u1}
    Group = {g1, g2}
    Role = {r1}
    Permission = {p1}
    Request = {q1}
    AdminRequest = {a1}
    NoGroup = NoGroup
    MaxDepth = 2
    CacheMayFail = TRUE
SPECIFICATION FairSpec
INVARIANTS TypeOK Fresh
PROPERTY CacheConverges
