------------------------------ MODULE Syscall ------------------------------
(***************************************************************************)
(* 10_syscall.c: the wrappers a program without libc calls the kernel      *)
(* through.  A call has three steps: the wrapper loads the registers, the  *)
(* kernel does what the registers say, set_ret turns the result into the   *)
(* value and errno of a C function.                                        *)
(*                                                                         *)
(* The wrappers keep the result in an int.  That loses nothing: the kernel *)
(* transfers at most 2147479552 bytes in one read or write.                *)
(***************************************************************************)
EXTENDS Integers, Sequences

CONSTANTS
    Words,      \* bound: the values arguments and registers may have, with 0
    Results     \* bound: what the kernel may return in rax

SYS_CALL_ERROR_SMALLEST == -4095
SYS_CALL_ERROR_BIGGEST == -1
C_ERROR == -1
NULL == 0
MAX_RW_COUNT == 2147479552

ASSUME WordsAssumption == 0 \in Words
ASSUME ResultsAssumption == Results \subseteq SYS_CALL_ERROR_SMALLEST .. MAX_RW_COUNT

VARIABLES
    pc,          \* where the program is
    call,        \* the C call being made
    registers,   \* those the kernel looks at
    performed,   \* what the kernel did for it
    value,       \* what the C function returned
    errno,
    failed       \* whether a call failed since the program last cleared errno

syscallVars == <<pc, call, registers, performed, value, errno, failed>>

Registers == {"rax", "rdi", "rsi", "rdx", "r10"}

Nothing == [name |-> "nothing", arguments |-> <<>>]

SyscallInit ==
    /\ pc = "program"
    /\ call = Nothing
    /\ registers = [r \in Registers |-> 0]
    /\ performed = Nothing
    /\ value = 0
    /\ errno = 0
    /\ failed = FALSE

----------------------------------------------------------------------------
(* The wrappers.  What the assembly names no operand for holds anything.   *)

Syscall(name, arguments, operands) ==
    /\ pc = "program"
    /\ pc' = "kernel"
    /\ call' = [name |-> name, arguments |-> arguments]
    /\ \E anything \in [Registers \ DOMAIN operands -> Words] :
          registers' = [r \in Registers |->
                           IF r \in DOMAIN operands THEN operands[r] ELSE anything[r]]
    /\ UNCHANGED <<performed, value, errno, failed>>

open(pathname, flags) ==
    Syscall("open", <<pathname, flags>>,
            [rax |-> 2, rdi |-> pathname, rsi |-> flags, rdx |-> 0])

read(fd, buf, count) ==
    Syscall("read", <<fd, buf, count>>, [rax |-> 0, rdi |-> fd, rsi |-> buf, rdx |-> count])

write(fd, buf, count) ==
    Syscall("write", <<fd, buf, count>>, [rax |-> 1, rdi |-> fd, rsi |-> buf, rdx |-> count])

pipe(pipefd) == Syscall("pipe", <<pipefd>>, [rax |-> 22, rdi |-> pipefd])

close(fd) == Syscall("close", <<fd>>, [rax |-> 3, rdi |-> fd])

dup(oldfd) == Syscall("dup", <<oldfd>>, [rax |-> 32, rdi |-> oldfd])

exit(status) == Syscall("exit", <<status>>, [rax |-> 60, rdi |-> status])

fork == Syscall("fork", <<>>, [rax |-> 57])

waitpid(pid, wstatus, options) ==
    Syscall("waitpid", <<pid, wstatus, options>>,
            [rax |-> 61, rdi |-> pid, rsi |-> wstatus, rdx |-> options, r10 |-> NULL])

execve(filename, argv, envp) ==
    Syscall("execve", <<filename, argv, envp>>,
            [rax |-> 59, rdi |-> filename, rsi |-> argv, rdx |-> envp])

----------------------------------------------------------------------------
(* The kernel: which call a number names, and the registers it takes.      *)

CallOf(number) ==
    CASE number = 0  -> [name |-> "read",   from |-> <<"rdi", "rsi", "rdx">>]
      [] number = 1  -> [name |-> "write",  from |-> <<"rdi", "rsi", "rdx">>]
      [] number = 2  -> [name |-> "open",   from |-> <<"rdi", "rsi", "rdx">>]
      [] number = 3  -> [name |-> "close",  from |-> <<"rdi">>]
      [] number = 22 -> [name |-> "pipe",   from |-> <<"rdi">>]
      [] number = 32 -> [name |-> "dup",    from |-> <<"rdi">>]
      [] number = 57 -> [name |-> "fork",   from |-> <<>>]
      [] number = 59 -> [name |-> "execve", from |-> <<"rdi", "rsi", "rdx">>]
      [] number = 60 -> [name |-> "exit",   from |-> <<"rdi">>]
      [] number = 61 -> [name |-> "wait4",  from |-> <<"rdi", "rsi", "rdx", "r10">>]

IsError(result) == result < 0

\* exit never comes back to the program, and execve only when it failed.
Kernel ==
    /\ pc = "kernel"
    /\ LET c == CallOf(registers.rax)
       IN  /\ performed' = [name |-> c.name,
                            arguments |-> [i \in DOMAIN c.from |-> registers[c.from[i]]]]
           /\ \/ /\ c.name # "exit"
                 /\ \E result \in Results :
                       /\ c.name = "execve" => IsError(result)
                       /\ registers' = [registers EXCEPT !.rax = result]
                 /\ pc' = "returning"
              \/ /\ c.name \in {"exit", "execve"}
                 /\ pc' = "ended"
                 /\ UNCHANGED registers
    /\ UNCHANGED <<call, value, errno, failed>>

----------------------------------------------------------------------------
\* Mutant: the last error of the range is taken for a result.
SetRetOffByOne(ret) ==
    IF ret > SYS_CALL_ERROR_SMALLEST /\ ret <= SYS_CALL_ERROR_BIGGEST
    THEN [value |-> C_ERROR, errno |-> -C_ERROR]
    ELSE [value |-> ret, errno |-> errno]

\* ret is C_ERROR already when errno is computed from it.
set_ret(ret) ==
    IF ret >= SYS_CALL_ERROR_SMALLEST /\ ret <= SYS_CALL_ERROR_BIGGEST
    THEN [value |-> C_ERROR, errno |-> -C_ERROR]
    ELSE [value |-> ret, errno |-> errno]

\* The return from the wrapper.  What it loaded is not used again.
Return ==
    /\ pc = "returning"
    /\ pc' = "program"
    /\ value' = set_ret(registers.rax).value
    /\ errno' = set_ret(registers.rax).errno
    /\ failed' = (failed \/ IsError(registers.rax))
    /\ call' = Nothing
    /\ performed' = Nothing
    /\ registers' = [r \in Registers |-> IF r = "rax" THEN registers.rax ELSE 0]

\* The program assigns 0 to errno, in order to test it after some calls.
ClearErrno ==
    /\ pc = "program"
    /\ errno' = 0
    /\ failed' = FALSE
    /\ UNCHANGED <<pc, call, registers, performed, value>>

SyscallNext ==
    \/ \E a, b, c \in Words :
          \/ open(a, b) \/ read(a, b, c) \/ write(a, b, c) \/ pipe(a) \/ close(a)
          \/ dup(a) \/ exit(a) \/ waitpid(a, b, c) \/ execve(a, b, c)
    \/ fork
    \/ Kernel \/ Return \/ ClearErrno

SyscallSpec == SyscallInit /\ [][SyscallNext]_syscallVars

----------------------------------------------------------------------------
\* What the manual says a C function asks of the kernel: the call of its name
\* with its arguments, the mode of open and the rusage of wait4 added.
Asked ==
    CASE call.name = "waitpid" -> [name |-> "wait4", arguments |-> Append(call.arguments, NULL)]
      [] call.name = "open" -> [name |-> "open", arguments |-> Append(call.arguments, 0)]
      [] OTHER -> call

\* The kernel does what the C call says, whatever earlier calls and the compiler
\* left in the registers.  Afterwards the program can trust the sign of the value
\* and errno as a mark: the value is negative exactly when the call failed, and
\* errno differs from 0 exactly when some call failed since the program cleared
\* it, for every error number and however many successes came after.  (Which
\* error it was errno does not tell.)
CallsAreAnswered ==
    /\ pc \in {"returning", "ended"} => performed = Asked
    /\ pc = "program" =>
          /\ errno # 0 <=> failed
          /\ value = IF IsError(registers.rax) THEN C_ERROR ELSE registers.rax
============================================================================
