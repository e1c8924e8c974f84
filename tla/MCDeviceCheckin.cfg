CONSTANTS
    Checkin = {c1, c2}
    User = {u1, u2}
    Nobody = Nobody
    Ref = {r1, r2}
    Resource = {d1}
    NoResource = NoResource
    Factors = 2
    MaxEvents = 2
    MaxDay = 1
    ForeignKeys = TRUE
    DbMayFail = TRUE
SYMMETRY CheckinSymmetry
SPECIFICATION Spec
INVARIANTS TypeOK StatusDeserved NoSecondFirst
CHECK_DEADLOCK FALSE
