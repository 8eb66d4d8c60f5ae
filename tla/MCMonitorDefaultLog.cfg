CONSTANTS
    LogFileModes = {FALSE}
    Levels = {"info"}
SPECIFICATION Spec
CHECK_DEADLOCK FALSE
INVARIANT
    ErrorsDoNotTerminateTheDaemon
