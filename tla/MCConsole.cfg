SPECIFICATION Spec
CONSTANTS
    Grants <- MCGrants
    MaxArg = 1
    MaxLoads = 3
    MaxOps = 2
INVARIANTS
    TypeOK
    ShowsWhatItActsOn
    ReadsOwnWrites
    HiddenNotRefused
