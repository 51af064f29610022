SPECIFICATION Spec
CONSTANTS
    killer = killer
    nameless = nameless
    healthy = healthy
    flawed = flawed
    walk = walk
    Assets <- HealthyOnly
    Killers <- None
    Flawed <- None
    Hashless <- None
    Shallow <- None
    Passes <- TwoPasses
    Covered <- Classes
    Fatal <- NothingFatal
    Unmarked <- AnimationPass
    NodePasses <- BothPasses
    FreshBatch = 2
    MaxVersion = 2
    MaxMishaps = 4
    Deaths <- DeathsOutsideReset
    Reverts = TRUE
INVARIANT CheckpointHasRows
CHECK_DEADLOCK FALSE
