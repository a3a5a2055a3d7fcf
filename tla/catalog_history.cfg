SPECIFICATION Spec
CONSTANTS
    Procs = {p1}
    Names = {n1, n2}
    Passwords = {a}
    ShortPasswords = {}
    NoPass = NoPass
    Broken = Broken
    NoVault = NoVault
    NoCatalog = NoCatalog
    WORM_BITS = {"WRITE"}
    MAX_VAULTS = 2
    MAX_PASS_ATTEMPTS = 1
    LoadMayFail = FALSE
    MaxId = 2
    MaxFails = 0
SYMMETRY NameSymmetry
CHECK_DEADLOCK FALSE
INVARIANTS
    UniqueKeys
    AckedVaultSurvives
    ScanIrrevocable
PROPERTIES
    IdsAreFresh
