SPECIFICATION Spec
CONSTANTS
    MaxInt64 = 127
    Megabyte = 32
    Configurations <- MCConfigurations
    Directories <- MCDirectories
    Files <- MCFiles
INVARIANTS
    AcceptedConfigurationStarts
    FailureChangesNothing
    SelectedModeAlone
CHECK_DEADLOCK FALSE
