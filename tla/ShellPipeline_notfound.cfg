\* Where the message of a command that is not found goes.
SPECIFICATION Spec
CONSTANTS
    MaxCommands = 3
    PipeCapacity = 1
    InputBlocks = 1
    MayFail = FALSE
INVARIANT ErrorsOnTerminal
\* The shell exits at end of input.
CHECK_DEADLOCK FALSE
