SPECIFICATION FairSpec
CONSTANTS
    killer = killer
    nameless = nameless
    healthy = healthy
    flawed = flawed
    walk = walk
    Assets <- FiveAssets
    Killers <- AllKillers
    Flawed <- FlawedAssets
    Hashless <- HashlessAssets
    Shallow <- AnimationOnly
    Passes <- TwoPasses
    Covered <- Classes
    Fatal <- FatalVersions
    Unmarked <- AnimationPass
    NodePasses <- BothPasses
    FreshBatch = 2
    MaxVersion = 2
    MaxMishaps = 1
    Deaths <- DeathsOutsideReset
    Reverts = FALSE
INVARIANTS
    TypeOK
    GivenUpAfterTwo
    CheckpointMeansRows
    CompleteAccountsForAll
    SentinelRowsOnce
    HealthyIsNeverSkipped
PROPERTIES
    IndexedRowsAreKept
    IndexCompletes
CHECK_DEADLOCK FALSE
