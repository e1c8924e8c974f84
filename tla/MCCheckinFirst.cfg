CONSTANTS
    Checkin = {c1}
    User = {u1}
    Nobody = Nobody
    Ref = {r1}
    Resource = {d1}
    NoResource = NoResource
    Factors = 1
    MaxEvents = 1
    MaxDay = 1
    ForeignKeys = TRUE
    DbMayFail = FALSE
SPECIFICATION Spec
INVARIANT AlreadyMeansAnother
CHECK_DEADLOCK FALSE
