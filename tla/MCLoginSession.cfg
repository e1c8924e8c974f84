CONSTANTS
    Default = default
    Request = {p1, p2}
    Password = {default, pw1}
    MaxAttempts = 2
    Status = {"active", "disabled"}
    MFA = TRUE
    MayFail = TRUE
    MaxFaults = 1
    MaxFailures = 3
    MaxSessions = 2
SPECIFICATION Spec
SYMMETRY Symmetry
INVARIANTS TypeOK GuessesBounded LoggedOutStaysOut ResetForcesChange
CHECK_DEADLOCK FALSE
