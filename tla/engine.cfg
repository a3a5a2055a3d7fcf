SPECIFICATION EngineSpec
CONSTANTS
    ENGINE_TREE_DEPTH <- Depths
    ENGINE_TREE_BRANCH <- Branches
    BinaryFrom = 2
    ENGINE_MAX_DECOY_NODES = 3
    MaxDamage = 2
INVARIANTS
    AppliedIsComplete
    ValidatedIsComplete
