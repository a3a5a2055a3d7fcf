SPECIFICATION Spec
CONSTANTS
    Names = {n1, n2}
    MaxData = 2
    MaxSalt = 1
    Absent = Absent
    Dir = Dir
    Plain = Plain
    Garbled = Garbled
SYMMETRY Symmetry
INVARIANTS
    TypeOK
    Retention
    ScanFreezes
    ReadsBack
