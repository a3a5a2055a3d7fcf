SPECIFICATION JailSpec
CONSTANTS
    BindPaths = {"secret"}
    MaxBinds = 1
    MaxOptions = 1
    MaxLapses = 0
INVARIANT
    BlacklistBlinds
