CONSTANTS
    Callers = {c1}
    Routes <- MCRoutes
    Pause = 3
    Timeout = 1
SPECIFICATION Spec
PROPERTY
    AlertsDoNotBlockReports
