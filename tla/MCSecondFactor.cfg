CONSTANTS
    Handler = {q1, q2, q3}
    Key = {k1, k2}
    DbMayFail = TRUE
    MaxSecrets = 2
    MaxCeremonies = 1
SPECIFICATION FactorSpec
SYMMETRY Symmetry
INVARIANTS FactorTypeOK EnabledHasFactor FactorAsked
PROPERTY KeysKept
