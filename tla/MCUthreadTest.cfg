SPECIFICATION TestSpec
CONSTANTS
    main = main
    a1 = a1
    a2 = a2
    a3 = a3
    a4 = a4
    Contexts <- FiveContexts
    Initial = main
    TailStarts = FALSE
INVARIANT RunsInOrder
PROPERTIES
    TestEnds
    StartsFromTail
\* The test ends.
CHECK_DEADLOCK FALSE
