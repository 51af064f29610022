SPECIFICATION FairSpec
CONSTANTS
    Conditions <- TwoConditions
    InboxBound = 1
PROPERTIES
    DeadEndpointBecomesKnown
    ReadyEndpointBecomesKnown
    CloseLeadsToExit
