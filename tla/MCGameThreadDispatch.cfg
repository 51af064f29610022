\* The protocol between the worker and the game thread, all kinds of pass.
CONSTANT Plan <- CodePlan
SPECIFICATION FairSpec
INVARIANTS
    TypeOK
    PayloadNeedsFrame
    NoTriggerOnPooledEvent
PROPERTIES
    OnlyABareWaitHangs
    EveryRunIsReported
    ImplementsSequentialRun
\* A run ends, and with a bare wait Deinitialize may never return.
CHECK_DEADLOCK FALSE
