\* Clients call uthread_start from any fiber.
SPECIFICATION Spec
CONSTANTS
    main = main
    a1 = a1
    a2 = a2
    a3 = a3
    a4 = a4
    Contexts <- FourContexts
    Initial = main
    TailStarts = FALSE
INVARIANTS
    OneRing
    ListInv
PROPERTIES
    FreesOnlyFinished
    EveryFiberRuns
\* The process stops when main returns or malloc fails.
CHECK_DEADLOCK FALSE
