CONSTANTS
    LogFileModes = {TRUE, FALSE}
    Levels = {"info"}
SPECIFICATION FairSpec
CHECK_DEADLOCK FALSE
INVARIANTS
    CycleIsComplete
    CancellationIsTerminal
    OneShotReportsFailures
PROPERTIES
    CyclesKeepComing
    CancellationEndsTheProcess
