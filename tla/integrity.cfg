SPECIFICATION Spec
CONSTANTS
    File = {"f", "g"}
    Content = {"c1", "c2"}
    Type = "PROTECTED"
    ALERT_INTERVALS <- Intervals
    FirstDisks <- Disks
    MaxChanges = 2
INVARIANTS
    TypeOK
    AlertStands
    ScanMissesNothing
    ClosedIsOnRecord
PROPERTIES
    AlertEscalates
