SPECIFICATION Spec
CONSTANTS
    Files = {f1, f2}
    MaxKey = 2
    Absent = Absent
    Torn = Torn
    Broken = Broken
    NoFile = NoFile
CHECK_DEADLOCK FALSE
INVARIANTS
    TypeOK
    DataKept
    OneKey
    ScratchCleaned
