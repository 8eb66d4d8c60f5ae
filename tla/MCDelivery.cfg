CONSTANTS
    Callers = {c1, c2}
    Routes <- MCRoutes
    Pause = 3
    Timeout = 1
SPECIFICATION FairSpec
INVARIANTS
    SecondCopyIsALostAnswer
PROPERTIES
    CooldownIsKept
    EachCallKeepsThePromise
    NoChannelIsAbandoned
