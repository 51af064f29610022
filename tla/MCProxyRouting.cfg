SPECIFICATION Spec
CONSTANTS
    Conditions <- AllConditions
    InboxBound = 2
INVARIANTS
    TypeOK
    LiveSurfaceIsWithdrawn
    LiveAttemptsRespectBackoff
PROPERTIES
    PollerHonorsBackoff
