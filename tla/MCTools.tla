------------------------------ MODULE MCTools ------------------------------
(***************************************************************************)
(* An instance of Syscall, one of Backtrace and one of UthreadSwitch.      *)
(* They have nothing in common; in a behaviour one of them runs.           *)
(***************************************************************************)
EXTENDS Syscall, Backtrace, UthreadSwitch

\* Both ends of the errors and of what is none, and one between.
KernelResults == {-4095, -2, -1, 0, 1, 2147479552}

VARIABLE tool

vars == <<tool, syscallVars, backtraceVars, switchVars>>

\* A backtrace that is not used.
NoBacktrace ==
    /\ image = CHOOSE i \in Images : TRUE
    /\ stack = <<>>
    /\ limit = 0
    /\ at = "done"
    /\ recorded = <<>>
    /\ printed = <<>>

Init ==
    /\ SyscallInit
    /\ SwitchInit
    /\ \/ tool = "backtrace" /\ BacktraceInit
       \/ tool \in {"syscall", "uthread_switch"} /\ NoBacktrace

Next ==
    \/ tool = "syscall" /\ SyscallNext /\ UNCHANGED <<tool, backtraceVars, switchVars>>
    \/ tool = "backtrace" /\ BacktraceNext /\ UNCHANGED <<tool, syscallVars, switchVars>>
    \/ tool = "uthread_switch" /\ SwitchNext /\ UNCHANGED <<tool, syscallVars, backtraceVars>>

Spec == Init /\ [][Next]_vars
============================================================================
