SPECIFICATION Spec
CONSTANTS
    full = full
    care = care
    odd = odd
    b1 = b1
    None = None
    Batteries = {b1}
    Ranges <- MCRanges
    Full = full
    EndsFull = {full}
    Policies = {care}
    DefaultPolicy = care
    Torn = {odd}
    Readback <- MCExact
    MaxOps = 1
    MaxFaults = 0
PROPERTY CalibrationMarkerKept
