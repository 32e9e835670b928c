SPECIFICATION HelperSpec
CONSTANTS
    Callers = {c1, c2}
    Percents <- MCPercents
    MaxFailures = 0
INVARIANT IntermediateValid
CHECK_DEADLOCK FALSE
