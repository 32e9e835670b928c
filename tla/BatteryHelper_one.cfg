SPECIFICATION HelperSpec
CONSTANTS
    Callers = {c1}
    Percents <- MCPercents
    MaxFailures = 2
INVARIANTS HelperTypeOK IntermediateValid DeniedWroteNothing FailedRangeExplained
PROPERTY EveryRequestAnswered
CHECK_DEADLOCK FALSE
