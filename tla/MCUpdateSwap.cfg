\* Deaths of the editor and failing writes at any point, one script at a time.
SPECIFICATION Spec
CONSTANTS
    MaxRelease = 3
    Kind <- OneOfEachKind
    Scripts = {s1}
    Faults <- DeathAndDisk
INVARIANTS
    TypeOK
    UserDataSurvives
    RollbackIsPossible
    RecordIsNewer
PROPERTY
    ImplementsAtomicUpdate
\* A plugin that was installed from a torn staging directory is not loaded any
\* more: nothing is left to happen.
CHECK_DEADLOCK FALSE
