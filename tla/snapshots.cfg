SPECIFICATION Spec
CONSTANTS
    Files = {f1, f2}
    c1 = c1
    c2 = c2
    Contents = {c1, c2}
    Size <- Sizes
    Tags = {t1, t2}
    Absent = Absent
    Torn = Torn
    NoSnap = NoSnap
    MaxDepth = 2
    MaxEdits = 2
    MaxLapses = 2
SYMMETRY Symmetry
CHECK_DEADLOCK FALSE
INVARIANTS
    CopiesComplete
    RestoreReport
    RepairHeals
