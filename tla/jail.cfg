SPECIFICATION JailSpec
CONSTANTS
    BindPaths = {"home", "secret", "usr"}
    MaxBinds = 2
    MaxOptions = 2
    MaxLapses = 1
INVARIANTS
    LastWordHolds
    OptionsHonoured
