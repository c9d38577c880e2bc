\* Every wrapper with every value; up to two calls of f below main; main and a
\* fiber, with two depths of the stack.
SPECIFICATION Spec
CONSTANTS
    Words = {0, 1, 2}
    Results <- KernelResults
    MaxDepth = 2
    Limits = {0, 2, 1024}
    Fibers = {1, 2}
    Initial = 1
    StackWords = 14
    Depths = {10, 12}
INVARIANTS
    CallsAreAnswered
    BacktraceIsTheStack
    SwitchIsInvisible
\* A program exits, and a backtrace ends.
CHECK_DEADLOCK FALSE
