CONSTANTS
    Savers = {alerter, healthreport}
    NoSaver = NoSaver
    MaxVersion = 4
SPECIFICATION Spec
INVARIANTS
    SurvivorsKeepPromises
PROPERTIES
    NameMovesForward
    ImplementsAtomicStore
