SPECIFICATION Spec
CONSTANTS
    Limits <- MCLimits
    MaxByte = 8
INVARIANTS
    LimitsHold
    NewestSurvive
