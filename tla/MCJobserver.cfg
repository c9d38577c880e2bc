\* Three nested directories, four executables, two tokens; any call may fail.
SPECIFICATION Spec
CONSTANTS
    top = top
    sub = sub
    subsub = subsub
    f1 = f1
    f2 = f2
    f3 = f3
    f4 = f4
    Dirs <- ThreeDirs
    Root = top
    Parent <- ChainOfThree
    Files <- FourFiles
    DirOf <- FourPlaced
    K <- KOfArgument
    INT_MAX = 127
    MaxDigits = 4
    PipeCapacity = 2
    CallsMayFail = TRUE
INVARIANTS
    JobLimit
    EndsMatchRoles
    TokensConserved
    SigpipeIsHarmless
    ExitMeansBuilt
PROPERTIES
    Completes
    ImplementsPool
\* The program ends, or waits for ever for tokens that are lost.
CHECK_DEADLOCK FALSE
