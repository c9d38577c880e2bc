--------------------------- MODULE UthreadSwitch ---------------------------
(***************************************************************************)
(* 12_uthread.s: the registers and the stack words behind the frames of    *)
(* Uthread.  Every fiber has a stack of its own, an array of words with    *)
(* index 0 at the lowest address; rsp is an index, and is 16-byte aligned  *)
(* when it is even.  A word is <<what it is, whose it is, a version>>.     *)
(***************************************************************************)
EXTENDS Integers, Sequences

CONSTANTS
    Fibers, Initial,   \* the contexts, and main's
    StackWords,        \* STACK_FRAME_SIZE / 8, smaller here
    Depths             \* bound: where rsp may be in client code

ASSUME SwitchAssumption ==
    /\ Initial \in Fibers
    /\ StackWords \in Nat /\ StackWords % 2 = 0 /\ StackWords >= 10
    /\ \A d \in Depths : d \in 9 .. StackWords - 1 /\ d % 2 = 0

VARIABLES
    processor,   \* its registers, but for rsp and rip
    rsp,         \* its stack pointer, an index in the stack of running
    rip,         \* where it is: a word that was popped by ret
    running,     \* the fiber whose stack it is on
    memory,      \* the stacks
    saved,       \* the field rsp of each context
    left         \* what each fiber has to find when it runs again

switchVars == <<processor, rsp, rip, running, memory, saved, left>>

CalleeSaved == {"rbx", "rbp", "r12", "r13", "r14", "r15"}
StackedRegisters == CalleeSaved \cup {"rdi", "rsi"}

\* The order in which uthread_switch pushes.
Pushed == <<"rdi", "rsi", "rbx", "rbp", "r12", "r13", "r14", "r15">>

Client == <<"client", Initial, 0>>
Unwritten == <<"unwritten", Initial, 0>>
Unused == [kind |-> "unused"]
Running == [kind |-> "running"]

SwitchInit ==
    /\ processor = [r \in StackedRegisters |-> <<r, Initial, 0>>]
    /\ rsp \in Depths
    /\ rip = Client
    /\ running = Initial
    /\ memory = [t \in Fibers |-> [k \in 0 .. StackWords - 1 |-> Unwritten]]
    /\ saved = [t \in Fibers |-> 0]
    /\ left = [t \in Fibers |-> IF t = Initial THEN Running ELSE Unused]

\* Client code computes in every register and calls or returns to another depth,
\* where it has a variable on the stack.
ClientWorks ==
    /\ rip = Client
    /\ \E n \in {0, 1}, d \in Depths :
          /\ processor' = [r \in StackedRegisters |-> <<r, running, n>>]
          /\ rsp' = d
          /\ memory' = [memory EXCEPT ![running][d] = <<"variable", running, n>>]
    /\ left' = [left EXCEPT ![running] = Running]
    /\ UNCHANGED <<rip, running, saved>>

\* create sets the stack pointer, uthread_prepare writes nine words above it.
uthread_prepare(t) ==
    /\ rip = Client
    /\ left[t].kind = "unused"
    /\ LET start == StackWords - 10
       IN  /\ saved' = [saved EXCEPT ![t] = start]
           /\ memory' = [memory EXCEPT
                  ![t][start] = processor["r15"], ![t][start + 1] = processor["r14"],
                  ![t][start + 2] = processor["r13"], ![t][start + 3] = processor["r12"],
                  ![t][start + 4] = processor["rbp"], ![t][start + 5] = processor["rbx"],
                  ![t][start + 6] = <<"data", t, 0>>, ![t][start + 7] = <<"f", t, 0>>,
                  ![t][start + 8] = <<"uthread_handle", Initial, 0>>]
    /\ left' = [left EXCEPT ![t] = [kind |-> "fresh"]]
    /\ UNCHANGED <<processor, rsp, rip, running>>

\* Mutant: rbx and rbp are popped in the order they were pushed.
PopsSwapped(top) ==
    [r \in StackedRegisters |->
        memory'[running'][top + CASE r = "r15" -> 0 [] r = "r14" -> 1 [] r = "r13" -> 2
                             [] r = "r12" -> 3 [] r = "rbx" -> 4 [] r = "rbp" -> 5
                             [] r = "rsi" -> 6 [] r = "rdi" -> 7]]

\* The pops of uthread_switch.
Popped(top) ==
    [r \in StackedRegisters |->
        memory'[running'][top + CASE r = "r15" -> 0 [] r = "r14" -> 1 [] r = "r13" -> 2
                             [] r = "r12" -> 3 [] r = "rbp" -> 4 [] r = "rbx" -> 5
                             [] r = "rsi" -> 6 [] r = "rdi" -> 7]]

\* The call of uthread_switch pushes the return address, uthread_switch eight
\* registers; then it pops eight from the stack of t and returns into it.
uthread_switch(t, leaves) ==
    /\ rip = Client
    /\ left[t].kind # "unused"
    /\ memory' = [memory EXCEPT ![running] =
           [k \in 0 .. StackWords - 1 |->
               IF k = rsp - 1 THEN Client
               ELSE IF k \in rsp - 9 .. rsp - 2 THEN processor[Pushed[rsp - 1 - k]]
               ELSE @[k]]]
    /\ saved' = [saved EXCEPT ![running] = rsp - 9]
    /\ running' = t
    /\ processor' = Popped(saved'[t])
    /\ rip' = memory'[t][saved'[t] + 8]
    /\ rsp' = saved'[t] + 9
    /\ left' = [left EXCEPT ![running] = leaves]

\* What a fiber that calls uthread_switch may rely on afterwards.
Suspended ==
    [kind |-> "suspended", registers |-> [r \in CalleeSaved |-> processor[r]],
     rsp |-> rsp, stack |-> [k \in rsp .. StackWords - 1 |-> memory[running][k]]]

uthread_yield == \E t \in Fibers : uthread_switch(t, Suspended)

\* The function of the fiber is over; its stack is free, and may be used again.
FiberEnds ==
    /\ running # Initial
    /\ \E t \in Fibers \ {running} : uthread_switch(t, Unused)

\* uthread_handle has called the function.
uthread_handle ==
    /\ rip = <<"uthread_handle", Initial, 0>>
    /\ rip' = Client
    /\ rsp' \in Depths
    /\ left' = [left EXCEPT ![running] = Running]
    /\ UNCHANGED <<processor, running, memory, saved>>

SwitchNext ==
    \/ ClientWorks \/ (\E t \in Fibers : uthread_prepare(t))
    \/ uthread_yield \/ FiberEnds \/ uthread_handle

SwitchSpec == SwitchInit /\ [][SwitchNext]_switchVars

----------------------------------------------------------------------------
\* The switch is invisible to the fiber: whatever the others did in between, it
\* finds in the registers a function call has to preserve, in its stack pointer
\* and in every word of its stack above it what it left there.  A fresh fiber,
\* also one on a stack that another one used, enters uthread_handle with its
\* function and data as arguments and the stack pointer as the calling convention
\* has it, one word below a 16-byte boundary and within its stack.
SwitchIsInvisible ==
    LET l == left[running]
    IN  /\ l.kind = "suspended" =>
              /\ rip = Client
              /\ rsp = l.rsp
              /\ \A r \in CalleeSaved : processor[r] = l.registers[r]
              /\ \A k \in DOMAIN l.stack : memory[running][k] = l.stack[k]
        /\ l.kind = "fresh" =>
              /\ rip = <<"uthread_handle", Initial, 0>>
              /\ processor["rdi"] = <<"f", running, 0>> /\ processor["rsi"] = <<"data", running, 0>>
              /\ rsp % 2 = 1 /\ rsp < StackWords
============================================================================
