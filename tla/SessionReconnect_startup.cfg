SPECIFICATION Spec
CONSTANTS
    MaxDials = 3
    MaxTroubles = 2
INVARIANT StartupFailureSurvived
CHECK_DEADLOCK FALSE
