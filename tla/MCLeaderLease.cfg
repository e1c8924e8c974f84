CONSTANTS
    Instance = {i1, i2}
    NoOne = NoOne
    Gone = Gone
    Duration = 3
    MaxCall = 2
    Spread = 1
    Driver = {"matched", "changed"}
    DbMayFail = TRUE
    MayCrash = TRUE
SPECIFICATION FairSpec
INVARIANTS TypeOK OneLeader LeaderHoldsRow AnswerIsTruth
PROPERTIES ImplementsSingleLeader Takeover
