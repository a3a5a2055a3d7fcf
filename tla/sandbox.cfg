SPECIFICATION SandboxSpec
CHECK_DEADLOCK FALSE
INVARIANTS
    TypeOK
    ProgramIsolated
    NothingLeftBehind
    FailureReported
PROPERTIES
    SessionEnds
