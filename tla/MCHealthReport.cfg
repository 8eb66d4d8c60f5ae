CONSTANTS
    Interval = 3
    RetryInterval = 2
    MaxTime = 8
SPECIFICATION ReportSpec
INVARIANTS
    ScheduleIsAccepted
    RemembersDeliveries
PROPERTIES
    ReportsAreSpaced
    RetriesAreSpaced
