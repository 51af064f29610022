SPECIFICATION FairSpec
CONSTANTS
    Conditions <- AllConditions
    InboxBound = 1
PROPERTIES
    ReadyEndpointServesLiveTools
