SPECIFICATION FairSpec
CONSTANTS
    Instance = {i1, i2}
    Tab = {t1}
    Announcement = {a0, a1}
    Old = {a0}
    AuditEvent = {e1}
    BellSize = 1
    MaxFaults = 1
INVARIANTS
    TypeOK
    DeliveryDiscipline
    BellIsRight
PROPERTY
    LinksSettle
CHECK_DEADLOCK FALSE
