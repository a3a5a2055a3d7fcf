SPECIFICATION Spec
CONSTANTS
    v1 = v1
    v2 = v2
    Vaults = {v1, v2}
    MaxSlots = 2
    MaxSessions = 2
    Scan = {v2}
    None = None
    First <- MCFirst
INVARIANTS
    TypeOK
    ServesOwnVault
    PhysicalLock
PROPERTIES
    VaultsKept
    SessionsWindUp
