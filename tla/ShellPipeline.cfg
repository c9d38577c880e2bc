\* Every line of up to three commands; open, pipe, fork and dup may fail.
SPECIFICATION Spec
CONSTANTS
    MaxCommands = 3
    PipeCapacity = 1
    InputBlocks = 2
    MayFail = TRUE
INVARIANTS
    TypeOK
    OwnEndsOnly
    DescriptorsBalanced
    NoEarlyEnd
PROPERTIES
    PipelineEnds
\* The shell exits at end of input.
CHECK_DEADLOCK FALSE
