\* Both shells, two lines, and every call that may fail fails somewhere.
SPECIFICATION Spec
CONSTANTS
    MaxLines = 2
    MayFail = {"open", "fork", "dup", "waitpid"}
INVARIANTS
    TypeOK
    HeapBalanced
    DescriptorsBalanced
    Transcript
PROPERTIES
    CommandEnds
\* The shell exits at end of input.
CHECK_DEADLOCK FALSE
