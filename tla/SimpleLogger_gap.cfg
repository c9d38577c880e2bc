\* The number that get_count returns when an archive may be missing.
SPECIFICATION Spec
CONSTANTS
    Radix = 2
    ReadMayFail = FALSE
    MaxLines = 4
    MaxFaults = 2
INVARIANT CountIsMinimum
\* The program ends.
CHECK_DEADLOCK FALSE
