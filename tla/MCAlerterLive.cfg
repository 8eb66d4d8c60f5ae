CONSTANTS
    Keys <- MCKeys
    Scopes <- MCScopes
    ScopeOf <- MCScopeOf
    AuthScope = "auth"
    RecoveryModes = {TRUE}
SPECIFICATION FairSpec
PROPERTIES
    PersistentConditionIsReported
    EndedConditionRecovers
    ReportedConditionIsSaved
