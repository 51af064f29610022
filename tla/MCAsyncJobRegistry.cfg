\* Four submissions would add nothing: three jobs overflow a registry of two.
SPECIFICATION FairSpec
CONSTANTS
    j1 = j1
    j2 = j2
    j3 = j3
    Jobs <- AllJobs
    Cancellable <- CancellableJobs
    Capacity = 2
INVARIANTS
    TypeOK
    WithinCapacity
    NoAbandonedRow
    NoFalseComplete
PROPERTIES
    ImplementsLifecycle
    CancellationIsAnswered
\* Every producer ends.
CHECK_DEADLOCK FALSE
