\* A killer that a post-pass loads as well, and no mishap at all.
SPECIFICATION FairSpec
CONSTANTS
    killer = killer
    nameless = nameless
    healthy = healthy
    flawed = flawed
    walk = walk
    Assets <- KillerOnly
    Killers <- KillerOnly
    Flawed <- None
    Hashless <- None
    Shallow <- None
    Passes <- TwoPasses
    Covered <- Classes
    Fatal <- FatalVersions
    Unmarked <- AnimationPass
    NodePasses <- BothPasses
    FreshBatch = 2
    MaxVersion = 2
    MaxMishaps = 0
    Deaths <- DeathsOutsideReset
    Reverts = FALSE
PROPERTY CrashLoopEnds
CHECK_DEADLOCK FALSE
