CONSTANTS
    Keys <- MCKeys
    Scopes <- MCScopes
    ScopeOf <- MCScopeOf
    AuthScope = "auth"
    RecoveryModes = {TRUE, FALSE}
SPECIFICATION Spec
INVARIANTS
    LedgerAgreesWithRecipient
    SendsOnlyNews
    CleanIsDurable
PROPERTIES
    RecoversOnlyWhatWasMeasured
    EachKeyFollowsItsLifecycle
