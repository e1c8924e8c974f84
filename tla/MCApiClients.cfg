CONSTANTS
    Account = {u1}
    Client = {c1}
    Call = {q1, q2}
    Grants <- MCGrants
    Resource <- MCResource
    Served = {"queryEvents", "createClient", "deleteClient", "createUser"}
    MaxScopes = 2
    DbMayFail = TRUE
SPECIFICATION AccessSpec
SYMMETRY Symmetry
INVARIANTS AccessTypeOK NoEscalation Gatekept
