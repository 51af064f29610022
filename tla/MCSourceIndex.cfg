\* Two edits while runs are on, and faults of every kind in any number.
SPECIFICATION FairSpec
CONSTANTS
    MaxCode = 3
    Faults <- EveryFault
INVARIANTS
    TypeOK
    WriterIsAlone
    ServedIsFresh
PROPERTY RunEnds
