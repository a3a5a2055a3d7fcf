SPECIFICATION Spec
CONSTANTS
    Procs = {p1, p2}
    Names = {n1}
    Passwords = {a, b}
    ShortPasswords = {b}
    NoPass = NoPass
    Broken = Broken
    NoVault = NoVault
    NoCatalog = NoCatalog
    WORM_BITS = {}
    MAX_VAULTS = 1
    MAX_PASS_ATTEMPTS = 1
    LoadMayFail = TRUE
    MaxId = 1
    MaxFails = 1
VIEW CatalogView
SYMMETRY ProcSymmetry
CHECK_DEADLOCK FALSE
INVARIANTS
    TypeOK
    LockoutConsistent
PROPERTIES
    LockedIsFrozen
