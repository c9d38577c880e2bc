\* Signals at any moment, failures of read, kills, restarts, deleted archives,
\* files that look like archives, calls that fail.
SPECIFICATION Spec
CONSTANTS
    Radix = 2
    ReadMayFail = TRUE
    MaxLines = 4
    MaxFaults = 3
INVARIANTS
    TypeOK
    NothingLost
    ExitStatus
    Chronological
PROPERTIES
    FilesSurvive
    SighupServed
\* The program ends.
CHECK_DEADLOCK FALSE
