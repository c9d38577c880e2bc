\* Clients call uthread_start from the tail fiber only.
SPECIFICATION Spec
CONSTANTS
    main = main
    a1 = a1
    a2 = a2
    a3 = a3
    a4 = a4
    Contexts <- FiveContexts
    Initial = main
    TailStarts = TRUE
INVARIANTS
    NoWildReturn
    TryJoinExact
PROPERTIES
    EveryFinishedIsFreed
    RefinesRoundRobin
\* The process stops when main returns or malloc fails.
CHECK_DEADLOCK FALSE
