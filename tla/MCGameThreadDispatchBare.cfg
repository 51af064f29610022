\* Shutdown with the waits the code has.
CONSTANT Plan <- CodePlan
SPECIFICATION FairSpec
PROPERTY DeinitializeCompletes
CHECK_DEADLOCK FALSE
