SPECIFICATION Spec
CONSTANTS
    MemoryPercent = 90
    DiskPercent = 85
    TotalTCP = 3
    ServiceTCP = 2
    MaxInt = 7
    MaxHours = 1000
    MaxUint = 200
    ControlObjects = {"/tab"}
    MemoryFacts <- MCMemoryFacts
    DiskFacts <- MCDiskFacts
    TCPFacts <- MCTCPFacts
    AuthResponses <- MCAuthResponses
    QuotaAnswers <- MCQuotaAnswers
    VersionAnswers <- MCVersionAnswers
INVARIANTS
    NothingUnhealthyIsSilent
    ReportAgreesWithAlerts
    RefusalsAreKnown
    UpdateAdviceFollowsSemVer
PROPERTIES
    RecoveriesAreMeasured
    AlertsNameOneObject
