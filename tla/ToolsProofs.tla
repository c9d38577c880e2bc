----------------------------- MODULE ToolsProofs -----------------------------
(***************************************************************************)
(* Proofs about Syscall, UthreadSwitch and Backtrace: for any values of    *)
(* arguments and registers and any result of the kernel; for any fibers,   *)
(* depths of their stacks and size of the stacks; for any depth of the     *)
(* calls and size of the array.                                            *)
(***************************************************************************)
EXTENDS Syscall, UthreadSwitch, Backtrace, Induction, FiniteSetTheorems

----------------------------------------------------------------------------
(* Syscall.                                                                *)

\* The call that the kernel would find in the registers.
InRegisters ==
    LET c == CallOf(registers.rax)
    IN  [name |-> c.name, arguments |-> [i \in DOMAIN c.from |-> registers[c.from[i]]]]

(***************************************************************************)
(* The inductive invariant: between the load of the registers and the      *)
(* kernel they hold what was asked; CallsAreAnswered says nothing of that  *)
(* moment.                                                                 *)
(***************************************************************************)
SyscallInv ==
    /\ pc \in {"program", "kernel", "returning", "ended"}
    /\ DOMAIN registers = Registers
    /\ pc = "kernel" => InRegisters = Asked
    /\ pc \in {"returning", "ended"} => performed = Asked
    /\ pc = "returning" => registers.rax \in Results
    /\ errno # 0 <=> failed
    /\ pc = "program" =>
          value = IF IsError(registers.rax) THEN C_ERROR ELSE registers.rax

\* What a wrapper loads is what was asked of it: one case for each call.
LEMMA LoadedIsAsked ==
    ASSUME SyscallInv, NEW name, NEW arguments, NEW operands, Syscall(name, arguments, operands),
           DOMAIN operands \subseteq Registers, "rax" \in DOMAIN operands,
           LET c == CallOf(operands.rax)
           IN  /\ \A i \in DOMAIN c.from : c.from[i] \in DOMAIN operands
               /\ Asked' = [name |-> c.name,
                            arguments |-> [i \in DOMAIN c.from |-> operands[c.from[i]]]]
    PROVE  SyscallInv'
<1> DEFINE c == CallOf(operands["rax"])
<1>1. \A r \in DOMAIN operands : registers'[r] = operands[r]
  BY DEF Syscall
<1>2. registers'["rax"] = operands["rax"]
  BY <1>1
<1>3. CallOf(registers.rax)' = c
  BY <1>2 DEF CallOf
<1> HIDE DEF c
<1>4. [i \in DOMAIN c.from |-> registers'[c.from[i]]] = [i \in DOMAIN c.from |-> operands[c.from[i]]]
  BY <1>1 DEF c
<1>5. InRegisters' = Asked'
  BY <1>3, <1>4 DEF InRegisters, c
<1>6. DOMAIN registers' = Registers
  BY DEF Syscall
<1> QED BY <1>5, <1>6 DEF SyscallInv, Syscall
\* The calls with three arguments, and those with one.
LEMMA ThreeOperands ==
    ASSUME SyscallInv, NEW name, NEW arguments, NEW number, NEW a, NEW b, NEW c, NEW asked,
           Syscall(name, arguments, [rax |-> number, rdi |-> a, rsi |-> b, rdx |-> c]),
           CallOf(number) = [name |-> asked, from |-> <<"rdi", "rsi", "rdx">>],
           Asked' = [name |-> asked, arguments |-> <<a, b, c>>]
    PROVE  SyscallInv'
<1> DEFINE operands == [rax |-> number, rdi |-> a, rsi |-> b, rdx |-> c]
           from == <<"rdi", "rsi", "rdx">>
<1>1. [i \in DOMAIN from |-> operands[from[i]]] = <<a, b, c>>
  OBVIOUS
<1>2. DOMAIN operands = {"rax", "rdi", "rsi", "rdx"} /\ operands.rax = number
  OBVIOUS
<1>3. \A i \in DOMAIN from : from[i] \in {"rdi", "rsi", "rdx"}
  OBVIOUS
<1>4. Syscall(name, arguments, operands) /\ CallOf(number) = [name |-> asked, from |-> from]
  OBVIOUS
<1> HIDE DEF operands, from
<1> QED BY <1>1, <1>2, <1>3, <1>4, LoadedIsAsked DEF Registers

\* A wrapper of a call with one operand asks the kernel for what its caller named.
LEMMA OneOperand ==
    ASSUME SyscallInv, NEW name, NEW arguments, NEW number, NEW a, NEW asked,
           Syscall(name, arguments, [rax |-> number, rdi |-> a]),
           CallOf(number) = [name |-> asked, from |-> <<"rdi">>],
           Asked' = [name |-> asked, arguments |-> <<a>>]
    PROVE  SyscallInv'
<1> DEFINE operands == [rax |-> number, rdi |-> a]
           from == <<"rdi">>
<1>1. [i \in DOMAIN from |-> operands[from[i]]] = <<a>>
  OBVIOUS
<1>2. DOMAIN operands = {"rax", "rdi"} /\ operands.rax = number
  OBVIOUS
<1>3. \A i \in DOMAIN from : from[i] = "rdi"
  OBVIOUS
<1>4. Syscall(name, arguments, operands) /\ CallOf(number) = [name |-> asked, from |-> from]
  OBVIOUS
<1> HIDE DEF operands, from
<1> QED BY <1>1, <1>2, <1>3, <1>4, LoadedIsAsked DEF Registers

\* Every wrapper asks the kernel for what its caller named.
LEMMA CallInv ==
    ASSUME SyscallInv, NEW a, NEW b, NEW c,
           \/ open(a, b) \/ read(a, b, c) \/ write(a, b, c) \/ pipe(a) \/ close(a)
           \/ dup(a) \/ exit(a) \/ execve(a, b, c)
    PROVE  SyscallInv'
<1>1. CASE open(a, b)
  <2>1. Syscall("open", <<a, b>>, [rax |-> 2, rdi |-> a, rsi |-> b, rdx |-> 0])
    BY <1>1 DEF open
  <2>2. Asked' = [name |-> "open", arguments |-> <<a, b, 0>>]
    BY <2>1 DEF Asked, Syscall
  <2>3. CallOf(2) = [name |-> "open", from |-> <<"rdi", "rsi", "rdx">>]
    BY DEF CallOf
  <2> QED BY <2>1, <2>2, <2>3, ThreeOperands
<1>2. CASE read(a, b, c)
  <2>1. Syscall("read", <<a, b, c>>, [rax |-> 0, rdi |-> a, rsi |-> b, rdx |-> c])
    BY <1>2 DEF read
  <2>2. Asked' = [name |-> "read", arguments |-> <<a, b, c>>]
    BY <2>1 DEF Asked, Syscall
  <2>3. CallOf(0) = [name |-> "read", from |-> <<"rdi", "rsi", "rdx">>]
    BY DEF CallOf
  <2> QED BY <2>1, <2>2, <2>3, ThreeOperands
<1>3. CASE write(a, b, c)
  <2>1. Syscall("write", <<a, b, c>>, [rax |-> 1, rdi |-> a, rsi |-> b, rdx |-> c])
    BY <1>3 DEF write
  <2>2. Asked' = [name |-> "write", arguments |-> <<a, b, c>>]
    BY <2>1 DEF Asked, Syscall
  <2>3. CallOf(1) = [name |-> "write", from |-> <<"rdi", "rsi", "rdx">>]
    BY DEF CallOf
  <2> QED BY <2>1, <2>2, <2>3, ThreeOperands
<1>4. CASE execve(a, b, c)
  <2>1. Syscall("execve", <<a, b, c>>, [rax |-> 59, rdi |-> a, rsi |-> b, rdx |-> c])
    BY <1>4 DEF execve
  <2>2. Asked' = [name |-> "execve", arguments |-> <<a, b, c>>]
    BY <2>1 DEF Asked, Syscall
  <2>3. CallOf(59) = [name |-> "execve", from |-> <<"rdi", "rsi", "rdx">>]
    BY DEF CallOf
  <2> QED BY <2>1, <2>2, <2>3, ThreeOperands
<1>5. CASE pipe(a)
  <2>1. Syscall("pipe", <<a>>, [rax |-> 22, rdi |-> a])
    BY <1>5 DEF pipe
  <2>2. Asked' = [name |-> "pipe", arguments |-> <<a>>]
    BY <2>1 DEF Asked, Syscall
  <2>3. CallOf(22) = [name |-> "pipe", from |-> <<"rdi">>]
    BY DEF CallOf
  <2> QED BY <2>1, <2>2, <2>3, OneOperand
<1>6. CASE close(a)
  <2>1. Syscall("close", <<a>>, [rax |-> 3, rdi |-> a])
    BY <1>6 DEF close
  <2>2. Asked' = [name |-> "close", arguments |-> <<a>>]
    BY <2>1 DEF Asked, Syscall
  <2>3. CallOf(3) = [name |-> "close", from |-> <<"rdi">>]
    BY DEF CallOf
  <2> QED BY <2>1, <2>2, <2>3, OneOperand
<1>7. CASE dup(a)
  <2>1. Syscall("dup", <<a>>, [rax |-> 32, rdi |-> a])
    BY <1>7 DEF dup
  <2>2. Asked' = [name |-> "dup", arguments |-> <<a>>]
    BY <2>1 DEF Asked, Syscall
  <2>3. CallOf(32) = [name |-> "dup", from |-> <<"rdi">>]
    BY DEF CallOf
  <2> QED BY <2>1, <2>2, <2>3, OneOperand
<1>8. CASE exit(a)
  <2>1. Syscall("exit", <<a>>, [rax |-> 60, rdi |-> a])
    BY <1>8 DEF exit
  <2>2. Asked' = [name |-> "exit", arguments |-> <<a>>]
    BY <2>1 DEF Asked, Syscall
  <2>3. CallOf(60) = [name |-> "exit", from |-> <<"rdi">>]
    BY DEF CallOf
  <2> QED BY <2>1, <2>2, <2>3, OneOperand
<1> QED BY <1>1, <1>2, <1>3, <1>4, <1>5, <1>6, <1>7, <1>8

\* fork has none.
LEMMA ForkInv ==
    ASSUME SyscallInv, fork
    PROVE  SyscallInv'
<1> DEFINE operands == [rax |-> 57]
           from == <<>>
<1>1. [i \in DOMAIN from |-> operands[from[i]]] = <<>>
  OBVIOUS
<1>2. DOMAIN operands = {"rax"} /\ operands.rax = 57 /\ \A i \in DOMAIN from : FALSE
  OBVIOUS
<1>3. Syscall("fork", <<>>, operands)
  BY DEF fork
<1>4. Asked' = [name |-> "fork", arguments |-> <<>>]
  BY <1>3 DEF Asked, Syscall
<1>5. CallOf(57) = [name |-> "fork", from |-> from]
  BY DEF CallOf
<1>6. DOMAIN operands \subseteq Registers /\ "rax" \in DOMAIN operands
  BY <1>2 DEF Registers
<1> HIDE DEF operands, from
<1> DEFINE c == CallOf(operands.rax)
<1>7. c = [name |-> "fork", from |-> from]
  BY <1>2, <1>5
<1>8. [i \in DOMAIN c.from |-> operands[c.from[i]]] = <<>>
  BY <1>1, <1>7
<1>9. \A i \in DOMAIN c.from : c.from[i] \in DOMAIN operands
  BY <1>2, <1>7
<1>10. Asked' = [name |-> c.name, arguments |-> [i \in DOMAIN c.from |-> operands[c.from[i]]]]
  BY <1>4, <1>7, <1>8
<1> QED BY <1>3, <1>6, <1>9, <1>10, LoadedIsAsked

\* waitpid is wait4 with NULL in r10.
LEMMA WaitInv ==
    ASSUME SyscallInv, NEW a, NEW b, NEW c, waitpid(a, b, c)
    PROVE  SyscallInv'
<1> DEFINE operands == [rax |-> 61, rdi |-> a, rsi |-> b, rdx |-> c, r10 |-> NULL]
           from == <<"rdi", "rsi", "rdx", "r10">>
<1>1. [i \in DOMAIN from |-> operands[from[i]]] = <<a, b, c, NULL>>
  OBVIOUS
<1>2. DOMAIN operands = {"rax", "rdi", "rsi", "rdx", "r10"} /\ operands.rax = 61
  OBVIOUS
<1>3. \A i \in DOMAIN from : from[i] \in {"rdi", "rsi", "rdx", "r10"}
  OBVIOUS
<1>4. Syscall("waitpid", <<a, b, c>>, operands)
  BY DEF waitpid
<1>5. Asked' = [name |-> "wait4", arguments |-> <<a, b, c, NULL>>]
  BY <1>4 DEF Asked, Syscall
<1>6. CallOf(61) = [name |-> "wait4", from |-> from]
  BY DEF CallOf
<1> HIDE DEF operands, from
<1> QED BY <1>1, <1>2, <1>3, <1>4, <1>5, <1>6, LoadedIsAsked DEF Registers

\* Every step keeps the invariant of the wrappers.
LEMMA SyscallStep == SyscallInv /\ [SyscallNext]_syscallVars => SyscallInv'
<1> SUFFICES ASSUME SyscallInv, [SyscallNext]_syscallVars PROVE SyscallInv'
  OBVIOUS
<1>1. CASE UNCHANGED syscallVars
  <2>1. InRegisters' = InRegisters
    <3>1. registers' = registers
      BY <1>1 DEF syscallVars
    <3>2. CallOf(registers.rax)' = CallOf(registers.rax)
      BY <3>1 DEF CallOf
    <3> QED BY <3>1, <3>2 DEF InRegisters
  <2>2. Asked' = Asked
    BY <1>1 DEF syscallVars, Asked
  <2> QED BY <1>1, <2>1, <2>2 DEF syscallVars, SyscallInv, IsError
<1>2. ASSUME NEW a \in Words, NEW b \in Words, NEW c \in Words,
             \/ open(a, b) \/ read(a, b, c) \/ write(a, b, c) \/ pipe(a) \/ close(a)
             \/ dup(a) \/ exit(a) \/ waitpid(a, b, c) \/ execve(a, b, c)
      PROVE  SyscallInv'
  BY <1>2, CallInv, WaitInv
<1>3. CASE fork
  BY <1>3, ForkInv
<1>4. CASE Kernel
  <2>1. performed' = InRegisters /\ InRegisters = Asked /\ Asked' = Asked
    BY <1>4 DEF Kernel, InRegisters, SyscallInv, Asked
  <2>2. /\ pc' \in {"returning", "ended"}
        /\ pc' = "returning" => registers'.rax \in Results
        /\ DOMAIN registers' = Registers
    BY <1>4 DEF Kernel, SyscallInv, Registers
  <2>3. errno' = errno /\ failed' = failed
    BY <1>4 DEF Kernel
  <2> QED BY <2>1, <2>2, <2>3 DEF SyscallInv
<1>5. CASE Return
  <2>1. /\ pc' = "program" /\ DOMAIN registers' = Registers
        /\ registers'.rax = registers.rax
    BY <1>5 DEF Return, Registers
  <2>2. registers.rax \in SYS_CALL_ERROR_SMALLEST .. MAX_RW_COUNT
    BY <1>5, ResultsAssumption DEF Return, SyscallInv
  <2> DEFINE rax == registers.rax
  <2>3. /\ value' = set_ret(rax).value /\ errno' = set_ret(rax).errno
        /\ failed' = (failed \/ IsError(rax))
    BY <1>5 DEF Return
  <2> HIDE DEF rax
  <2>4. rax \in Int /\ -4095 <= rax
    <3>1. SYS_CALL_ERROR_SMALLEST = -4095 /\ MAX_RW_COUNT \in Int
      BY DEF SYS_CALL_ERROR_SMALLEST, MAX_RW_COUNT
    <3> QED BY <2>2, <3>1 DEF rax
  <2>5. /\ errno' # 0 <=> failed'
        /\ value' = IF rax < 0 THEN -1 ELSE rax
    <3>1. CASE rax < 0
      <4>1. set_ret(rax) = [value |-> -1, errno |-> 1]
        BY <2>4, <3>1 DEF set_ret, SYS_CALL_ERROR_SMALLEST, SYS_CALL_ERROR_BIGGEST, C_ERROR
      <4>2. value' = -1 /\ errno' # 0
        BY <2>3, <4>1
      <4>3. IsError(rax)
        BY <3>1 DEF IsError
      <4>4. failed'
        BY <2>3, <4>3, Zenon
      <4>5. value' = IF rax < 0 THEN -1 ELSE rax
        BY <3>1, <4>2
      <4> QED BY <4>2, <4>4, <4>5, Zenon
    <3>2. CASE ~(rax < 0)
      <4>1. set_ret(rax) = [value |-> rax, errno |-> errno]
        BY <2>4, <3>2 DEF set_ret, SYS_CALL_ERROR_SMALLEST, SYS_CALL_ERROR_BIGGEST
      <4>2. value' = rax /\ errno' = errno /\ failed' = (failed \/ FALSE)
        BY <2>3, <3>2, <4>1 DEF IsError
      <4>3. errno # 0 <=> failed
        BY DEF SyscallInv
      <4> QED BY <3>2, <4>2, <4>3
    <3> QED BY <3>1, <3>2
  <2>6. value' = IF registers'.rax < 0 THEN -1 ELSE registers'.rax
    BY <2>1, <2>5 DEF rax
  <2>7. value' = IF IsError(registers'.rax) THEN C_ERROR ELSE registers'.rax
    BY <2>6 DEF IsError, C_ERROR
  <2>8. (IF IsError(registers.rax) THEN C_ERROR ELSE registers.rax)'
             = IF IsError(registers'.rax) THEN C_ERROR ELSE registers'.rax
    BY DEF IsError, C_ERROR
  <2>9. value' = (IF IsError(registers.rax) THEN C_ERROR ELSE registers.rax)'
    BY <2>7, <2>8
  <2> QED BY <2>1, <2>5, <2>9 DEF SyscallInv
<1>6. CASE ClearErrno
  BY <1>6 DEF ClearErrno, SyscallInv
<1> QED BY <1>1, <1>2, <1>3, <1>4, <1>5, <1>6 DEF SyscallNext

(***************************************************************************)
(* Every wrapper asks the kernel for the call of its name with its         *)
(* arguments, whatever was in the registers, and the sign of its value and *)
(* errno tell the program what came of it.                                 *)
(***************************************************************************)
THEOREM CallsAreAnsweredCorrect == SyscallSpec => []CallsAreAnswered
<1>1. SyscallInit => SyscallInv
  <2> SUFFICES ASSUME SyscallInit PROVE SyscallInv
    OBVIOUS
  <2>1. DOMAIN registers = Registers /\ registers.rax = 0
    BY DEF SyscallInit, Registers
  <2> QED BY <2>1 DEF SyscallInit, SyscallInv, IsError
<1>2. SyscallInv => CallsAreAnswered
  BY DEF SyscallInv, CallsAreAnswered
<1> QED BY <1>1, <1>2, SyscallStep, PTL DEF SyscallSpec
----------------------------------------------------------------------------
(* UthreadSwitch.                                                          *)

\* Where uthread_switch finds a register, counted from the stack pointer.
SlotOf(r) ==
    CASE r = "r15" -> 0 [] r = "r14" -> 1 [] r = "r13" -> 2 [] r = "r12" -> 3
      [] r = "rbp" -> 4 [] r = "rbx" -> 5

\* What a fiber t that does not run has to find, l, is on its stack below sp.
Resumable(l, words, sp, t) ==
    /\ l.kind \in {"unused", "fresh", "suspended"}
    /\ l.kind = "suspended" =>
          /\ l.rsp \in Depths /\ sp = l.rsp - 9
          /\ DOMAIN l.stack = l.rsp .. StackWords - 1
          /\ \A k \in DOMAIN l.stack : words[k] = l.stack[k]
          /\ words[sp + 8] = Client
          /\ \A r \in CalleeSaved : words[sp + SlotOf(r)] = l.registers[r]
    /\ l.kind = "fresh" =>
          /\ sp = StackWords - 10
          /\ words[sp + 6] = <<"data", t, 0>> /\ words[sp + 7] = <<"f", t, 0>>
          /\ words[sp + 8] = <<"uthread_handle", Initial, 0>>

(***************************************************************************)
(* The inductive invariant.  SwitchIsInvisible is about the fiber that     *)
(* runs; that it will hold for one that runs later has to be on its stack  *)
(* all the time in between, while others write to theirs.                  *)
(***************************************************************************)
SwitchInv ==
    /\ running \in Fibers
    /\ DOMAIN processor = StackedRegisters
    /\ DOMAIN memory = Fibers /\ DOMAIN saved = Fibers /\ DOMAIN left = Fibers
    /\ \A t \in Fibers : DOMAIN memory[t] = 0 .. StackWords - 1
    /\ rip = Client => rsp \in Depths
    /\ left[running].kind \in {"running", "suspended", "fresh"}
    /\ SwitchIsInvisible
    /\ \A t \in Fibers \ {running} : Resumable(left[t], memory[t], saved[t], t)

\* A stack pointer leaves room on the stack for what uthread_switch pushes.
LEMMA DepthType == \A d \in Depths : d \in Int /\ d >= 9 /\ d <= StackWords - 1
BY SwitchAssumption

\* The push of what the fiber that leaves will need.
LEMMA PushesSuspend ==
    ASSUME SwitchInv, NEW t \in Fibers, NEW leaves, uthread_switch(t, leaves)
    PROVE  /\ DOMAIN memory' = Fibers /\ DOMAIN saved' = Fibers /\ DOMAIN left' = Fibers
           /\ \A u \in Fibers : DOMAIN memory'[u] = 0 .. StackWords - 1
           /\ \A u \in Fibers \ {running} :
                 memory'[u] = memory[u] /\ saved'[u] = saved[u] /\ left'[u] = left[u]
           /\ left'[running] = leaves
           /\ Resumable(Suspended, memory'[running], saved'[running], running)
<1> DEFINE pushed == [k \in 0 .. StackWords - 1 |->
               IF k = rsp - 1 THEN Client
               ELSE IF k \in rsp - 9 .. rsp - 2 THEN processor[Pushed[rsp - 1 - k]]
               ELSE memory[running][k]]
<1>1. /\ memory' = [memory EXCEPT ![running] = pushed]
      /\ saved' = [saved EXCEPT ![running] = rsp - 9]
      /\ left' = [left EXCEPT ![running] = leaves]
      /\ rip = Client
  BY DEF uthread_switch
<1>2. rsp \in Int /\ rsp >= 9 /\ rsp <= StackWords - 1 /\ StackWords \in Nat /\ rsp \in Depths
  BY <1>1, DepthType, SwitchAssumption DEF SwitchInv
<1>3. /\ pushed[rsp - 1] = Client
      /\ \A k \in rsp .. StackWords - 1 : pushed[k] = memory[running][k]
  BY <1>2
<1>4. ASSUME NEW n \in 0 .. 7 PROVE pushed[rsp - 9 + n] = processor[Pushed[8 - n]]
  <2>1. rsp - 9 + n \in 0 .. StackWords - 1 /\ rsp - 9 + n \in rsp - 9 .. rsp - 2
        /\ rsp - 9 + n # rsp - 1 /\ rsp - 1 - (rsp - 9 + n) = 8 - n
    BY <1>2
  <2> QED BY <2>1
<1>5. /\ DOMAIN pushed = 0 .. StackWords - 1
      /\ memory'[running] = pushed /\ saved'[running] = rsp - 9 /\ left'[running] = leaves
  BY <1>1 DEF SwitchInv
<1> HIDE DEF pushed
<1>6. \A r \in CalleeSaved : SlotOf(r) \in 0 .. 7 /\ Pushed[8 - SlotOf(r)] = r
  BY DEF CalleeSaved, SlotOf, Pushed
<1>7. \A r \in CalleeSaved : pushed[rsp - 9 + SlotOf(r)] = processor[r]
  BY <1>4, <1>6
<1>8. Resumable(Suspended, pushed, rsp - 9, running)
  <2>1. rsp - 9 + 8 = rsp - 1
    BY <1>2
  <2> QED BY <1>2, <1>3, <1>7, <2>1 DEF Resumable, Suspended
<1>9. /\ DOMAIN memory' = Fibers /\ DOMAIN saved' = Fibers /\ DOMAIN left' = Fibers
      /\ \A u \in Fibers \ {running} :
            memory'[u] = memory[u] /\ saved'[u] = saved[u] /\ left'[u] = left[u]
  BY <1>1 DEF SwitchInv
<1>10. \A u \in Fibers : DOMAIN memory'[u] = 0 .. StackWords - 1
  BY <1>5, <1>9 DEF SwitchInv
<1> QED BY <1>5, <1>8, <1>9, <1>10

\* The pop of what the fiber that goes on needs.
LEMMA PopsResume ==
    ASSUME SwitchInv, NEW t \in Fibers, NEW leaves, uthread_switch(t, leaves),
           Resumable(left'[t], memory'[t], saved'[t], t), left'[t].kind # "unused"
    PROVE  /\ running' = t /\ DOMAIN processor' = StackedRegisters
           /\ rip' = Client => rsp' \in Depths
           /\ left'[t].kind \in {"running", "suspended", "fresh"}
           /\ SwitchIsInvisible'
<1> DEFINE sp == saved'[t]
           l == left'[t]
           words == memory'[t]
<1>1. /\ running' = t /\ rip' = words[sp + 8] /\ rsp' = sp + 9 /\ processor' = Popped(sp)
  BY DEF uthread_switch
<1>2. /\ DOMAIN processor' = StackedRegisters
      /\ \A r \in CalleeSaved : processor'[r] = words[sp + SlotOf(r)]
      /\ processor'["rsi"] = words[sp + 6] /\ processor'["rdi"] = words[sp + 7]
  BY <1>1 DEF Popped, StackedRegisters, CalleeSaved, SlotOf
<1>3. Resumable(l, words, sp, t) /\ l.kind # "unused"
  OBVIOUS
<1> HIDE DEF sp, l, words
<1>4. CASE l.kind = "suspended"
  <2>1. /\ l.rsp \in Depths /\ sp = l.rsp - 9 /\ words[sp + 8] = Client
        /\ \A r \in CalleeSaved : words[sp + SlotOf(r)] = l.registers[r]
        /\ \A k \in DOMAIN l.stack : words[k] = l.stack[k]
    BY <1>3, <1>4 DEF Resumable
  <2>2. rsp' = l.rsp /\ rip' = Client
    BY <1>1, <2>1, DepthType
  <2>3. SwitchIsInvisible'
    BY <1>1, <1>2, <1>4, <2>1, <2>2 DEF SwitchIsInvisible, l, words
  <2> QED BY <1>1, <1>2, <1>4, <2>1, <2>2, <2>3 DEF l
<1>5. CASE l.kind = "fresh"
  <2>1. /\ sp = StackWords - 10
        /\ words[sp + 6] = <<"data", t, 0>> /\ words[sp + 7] = <<"f", t, 0>>
        /\ words[sp + 8] = <<"uthread_handle", Initial, 0>>
    BY <1>3, <1>5 DEF Resumable
  <2>2. rsp' = StackWords - 1 /\ StackWords \in Nat /\ StackWords % 2 = 0
    BY <1>1, <2>1, SwitchAssumption
  <2>3. rsp' % 2 = 1 /\ rsp' < StackWords
    BY <2>2
  <2>4. rip' # Client
    BY <1>1, <2>1 DEF Client
  <2>5. SwitchIsInvisible'
    BY <1>1, <1>2, <1>5, <2>1, <2>3 DEF SwitchIsInvisible, l
  <2> QED BY <1>1, <1>2, <1>5, <2>4, <2>5 DEF l
<1> QED BY <1>3, <1>4, <1>5 DEF Resumable

\* A yield, switching to the next fiber, keeps the invariant.
LEMMA YieldSwitches == SwitchInv /\ uthread_yield => SwitchInv'
<1> SUFFICES ASSUME SwitchInv, NEW t \in Fibers, uthread_switch(t, Suspended)
             PROVE  SwitchInv'
  BY DEF uthread_yield
<1>1. left[t].kind # "unused"
  BY DEF uthread_switch
<1>2. Resumable(left'[t], memory'[t], saved'[t], t) /\ left'[t].kind # "unused"
  <2>1. CASE t = running
    <3>1. Resumable(left'[t], memory'[t], saved'[t], t) /\ left'[t] = Suspended
      BY <2>1, PushesSuspend
    <3> QED BY <3>1 DEF Suspended
  <2>2. CASE t # running
    BY <1>1, <2>2, PushesSuspend DEF SwitchInv
  <2> QED BY <2>1, <2>2
<1>3. /\ running' = t /\ DOMAIN processor' = StackedRegisters
      /\ rip' = Client => rsp' \in Depths
      /\ left'[t].kind \in {"running", "suspended", "fresh"}
      /\ SwitchIsInvisible'
  BY <1>2, PopsResume
<1>4. ASSUME NEW u \in Fibers \ {t} PROVE Resumable(left'[u], memory'[u], saved'[u], u)
  <2>1. CASE u = running
    BY <2>1, PushesSuspend
  <2>2. CASE u # running
    BY <2>2, PushesSuspend DEF SwitchInv
  <2> QED BY <2>1, <2>2
<1> QED BY <1>3, <1>4, PushesSuspend DEF SwitchInv

\* The end of a fiber, which also switches to the next, keeps the invariant.
LEMMA EndSwitches == SwitchInv /\ FiberEnds => SwitchInv'
<1> SUFFICES ASSUME SwitchInv, NEW t \in Fibers \ {running}, uthread_switch(t, Unused)
             PROVE  SwitchInv'
  BY DEF FiberEnds
<1>1. left[t].kind # "unused"
  BY DEF uthread_switch
<1>2. Resumable(left'[t], memory'[t], saved'[t], t) /\ left'[t].kind # "unused"
  BY <1>1, PushesSuspend DEF SwitchInv
<1>3. /\ running' = t /\ DOMAIN processor' = StackedRegisters
      /\ rip' = Client => rsp' \in Depths
      /\ left'[t].kind \in {"running", "suspended", "fresh"}
      /\ SwitchIsInvisible'
  BY <1>2, PopsResume
<1>4. ASSUME NEW u \in Fibers \ {t} PROVE Resumable(left'[u], memory'[u], saved'[u], u)
  <2>1. CASE u = running
    <3>1. left'[u] = Unused
      BY <2>1, PushesSuspend
    <3> QED BY <3>1 DEF Resumable, Unused
  <2>2. CASE u # running
    BY <2>2, PushesSuspend DEF SwitchInv
  <2> QED BY <2>1, <2>2
<1> QED BY <1>3, <1>4, PushesSuspend DEF SwitchInv

\* create and uthread_prepare write to the stack of a fiber that does not run.
LEMMA PrepareSwitches ==
    ASSUME SwitchInv, NEW t \in Fibers, uthread_prepare(t)
    PROVE  SwitchInv'
<1>1. /\ left[t].kind = "unused" /\ UNCHANGED <<processor, rsp, rip, running>>
      /\ saved' = [saved EXCEPT ![t] = StackWords - 10]
      /\ left' = [left EXCEPT ![t] = [kind |-> "fresh"]]
  BY Zenon DEF uthread_prepare
<1>2. /\ left[running].kind # "unused"
      /\ DOMAIN memory = Fibers /\ DOMAIN saved = Fibers /\ DOMAIN left = Fibers
      /\ \A u \in Fibers : DOMAIN memory[u] = 0 .. StackWords - 1
  BY DEF SwitchInv
<1>3. t # running
  BY <1>1, <1>2
<1> DEFINE start == StackWords - 10
           word6 == <<"data", t, 0>>
           word7 == <<"f", t, 0>>
           word8 == <<"uthread_handle", Initial, 0>>
           prepared == [memory[t] EXCEPT
                  ![start] = processor["r15"], ![start + 1] = processor["r14"],
                  ![start + 2] = processor["r13"], ![start + 3] = processor["r12"],
                  ![start + 4] = processor["rbp"], ![start + 5] = processor["rbx"],
                  ![start + 6] = word6, ![start + 7] = word7, ![start + 8] = word8]
<1>4. memory' = [memory EXCEPT ![t] = prepared]
  BY DEF uthread_prepare
<1>5. start \in 0 .. StackWords - 1 /\ start + 6 \in 0 .. StackWords - 1
      /\ start + 7 \in 0 .. StackWords - 1 /\ start + 8 \in 0 .. StackWords - 1 /\ start \in Int
  BY SwitchAssumption
<1>6. /\ DOMAIN prepared = 0 .. StackWords - 1
      /\ prepared[start + 6] = word6 /\ prepared[start + 7] = word7 /\ prepared[start + 8] = word8
  <2> DEFINE pushed == [memory[t] EXCEPT
                 ![start] = processor["r15"], ![start + 1] = processor["r14"],
                 ![start + 2] = processor["r13"], ![start + 3] = processor["r12"],
                 ![start + 4] = processor["rbp"], ![start + 5] = processor["rbx"]]
  <2>1. prepared = [pushed EXCEPT ![start + 6] = word6, ![start + 7] = word7, ![start + 8] = word8]
    OBVIOUS
  <2>2. DOMAIN pushed = 0 .. StackWords - 1
    BY DEF SwitchInv
  <2> HIDE DEF prepared, pushed, word6, word7, word8
  <2>3. start + 6 # start + 7 /\ start + 6 # start + 8 /\ start + 7 # start + 8
    BY <1>5
  <2> QED BY <1>5, <2>1, <2>2, <2>3
<1> HIDE DEF prepared
<1>7. memory'[t] = prepared /\ \A u \in Fibers \ {t} : memory'[u] = memory[u]
  BY <1>4 DEF SwitchInv
<1>8. /\ saved'[t] = start /\ left'[t] = [kind |-> "fresh"]
      /\ \A u \in Fibers \ {t} : saved'[u] = saved[u] /\ left'[u] = left[u]
      /\ DOMAIN memory' = Fibers /\ DOMAIN saved' = Fibers /\ DOMAIN left' = Fibers
  BY <1>1, <1>4 DEF SwitchInv
<1>9. Resumable(left'[t], memory'[t], saved'[t], t)
  BY <1>6, <1>7, <1>8 DEF Resumable
<1>10. \A u \in Fibers \ {running} : Resumable(left'[u], memory'[u], saved'[u], u)
  BY <1>7, <1>8, <1>9 DEF SwitchInv
<1>11. SwitchIsInvisible'
  BY <1>1, <1>3, <1>7, <1>8 DEF SwitchInv, SwitchIsInvisible
<1>12. ASSUME NEW u \in Fibers PROVE DOMAIN memory'[u] = 0 .. StackWords - 1
  <2>1. CASE u = t
    BY <1>6, <1>7, <2>1
  <2>2. CASE u # t
    BY <1>2, <1>7, <2>2
  <2> QED BY <2>1, <2>2
<1> QED BY <1>1, <1>3, <1>8, <1>10, <1>11, <1>12 DEF SwitchInv

\* Every step of the switch keeps the invariant.
LEMMA SwitchStep == SwitchInv /\ [SwitchNext]_switchVars => SwitchInv'
<1> SUFFICES ASSUME SwitchInv, [SwitchNext]_switchVars PROVE SwitchInv'
  OBVIOUS
<1>1. CASE UNCHANGED switchVars
  BY <1>1 DEF switchVars, SwitchInv, SwitchIsInvisible
<1>2. CASE ClientWorks
  <2>1. PICK d \in Depths, n \in {0, 1} :
           /\ processor' = [r \in StackedRegisters |-> <<r, running, n>>]
           /\ rsp' = d
           /\ memory' = [memory EXCEPT ![running][d] = <<"variable", running, n>>]
    BY <1>2 DEF ClientWorks
  <2>2. left' = [left EXCEPT ![running] = Running] /\ UNCHANGED <<rip, running, saved>>
    BY <1>2 DEF ClientWorks
  <2>3. left'[running] = Running /\ left'[running].kind = "running"
    BY <2>2 DEF SwitchInv, Running
  <2>4. \A u \in Fibers \ {running} : left'[u] = left[u] /\ memory'[u] = memory[u]
    BY <2>1, <2>2 DEF SwitchInv
  <2>5. DOMAIN memory' = Fibers /\ \A u \in Fibers : DOMAIN memory'[u] = 0 .. StackWords - 1
    BY <2>1 DEF SwitchInv
  <2>6. SwitchIsInvisible'
    BY <2>2, <2>3 DEF SwitchIsInvisible
  <2> QED BY <2>1, <2>2, <2>3, <2>4, <2>5, <2>6 DEF SwitchInv
<1>3. ASSUME NEW t \in Fibers, uthread_prepare(t) PROVE SwitchInv'
  BY <1>3, PrepareSwitches
<1>4. CASE uthread_yield
  BY <1>4, YieldSwitches
<1>5. CASE FiberEnds
  BY <1>5, EndSwitches
<1>6. CASE uthread_handle
  <2>1. /\ rsp' \in Depths /\ left' = [left EXCEPT ![running] = Running]
        /\ UNCHANGED <<processor, running, memory, saved>>
    BY <1>6 DEF uthread_handle
  <2>2. left'[running] = Running /\ left'[running].kind = "running"
    BY <2>1 DEF SwitchInv, Running
  <2>3. SwitchIsInvisible'
    BY <2>1, <2>2 DEF SwitchIsInvisible
  <2>4. \A u \in Fibers \ {running} : left'[u] = left[u]
    BY <2>1 DEF SwitchInv
  <2> QED BY <2>1, <2>2, <2>3, <2>4 DEF SwitchInv
<1> QED BY <1>1, <1>2, <1>3, <1>4, <1>5, <1>6 DEF SwitchNext

(***************************************************************************)
(* A fiber that is switched away from and back to finds every register a   *)
(* call preserves and every word of its stack as it left them, and a new   *)
(* one finds its function and its data, however many fibers there are and  *)
(* however deep on their stacks they switch.                               *)
(***************************************************************************)
THEOREM SwitchIsInvisibleCorrect == SwitchSpec => []SwitchIsInvisible
<1>1. SwitchInit => SwitchInv
  <2> SUFFICES ASSUME SwitchInit PROVE SwitchInv
    OBVIOUS
  <2>1. running = Initial /\ left[Initial] = Running /\ left[Initial].kind = "running"
    BY SwitchAssumption DEF SwitchInit, Running
  <2>2. \A t \in Fibers \ {Initial} : left[t] = Unused
    BY DEF SwitchInit
  <2>3. \A t \in Fibers \ {Initial} : Resumable(left[t], memory[t], saved[t], t)
    BY <2>2 DEF Resumable, Unused
  <2>4. SwitchIsInvisible
    BY <2>1 DEF SwitchIsInvisible
  <2> QED BY <2>1, <2>3, <2>4, SwitchAssumption DEF SwitchInit, SwitchInv
<1>2. SwitchInv => SwitchIsInvisible
  BY DEF SwitchInv
<1> QED BY <1>1, <1>2, SwitchStep, PTL DEF SwitchSpec----------------------------------------------------------------------------
(* Backtrace.                                                              *)

\* The entries of a symbol table, and what the search has found so far.
SymbolEntries == [name : Names \cup {"printf", "table"}, bind : {"LOCAL", "GLOBAL"},
                  type : {"FUNC", "OBJECT"}, value : Nat]
NothingFound == [name |-> "", value |-> 0]
Found == SymbolEntries \cup {NothingFound}

\* A symbol the search accepts, and one step of it.
Qualifies(s, addr) == s.bind \in {"GLOBAL", "WEAK"} /\ s.type = "FUNC" /\ s.value <= addr
Better(best, s, addr) ==
    IF s.bind \in {"GLOBAL", "WEAK"} /\ s.type = "FUNC" /\ s.value >= best.value /\ s.value <= addr
    THEN s ELSE best

\* The results of the search after each symbol.
Search(g, addr) ==
    /\ g \in [0 .. Len(Symbols) -> Found]
    /\ g[0] = NothingFound
    /\ \A k \in 0 .. Len(Symbols) - 1 : g[k + 1] = Better(g[k], Symbols[k + 1], addr)

\* Every function of the program has a position in the text, and no two the same.
LEMMA TextPositions ==
    ASSUME image \in Images
    PROVE  /\ \A n \in Names : \E i \in 1 .. 3 : image.text[i] = n /\ Start(n) = 2 * i
           /\ \A n, m \in Names : Start(n) = Start(m) => n = m
           /\ DOMAIN image.symtab = 1 .. 3
           /\ \A i \in 1 .. 3 : image.symtab[i] \in Names
           /\ \A n \in Names : \E i \in 1 .. 3 : image.symtab[i] = n
           /\ EndOfText = 8
<1>1. Cardinality(Names) = 3
  <2>1. IsFiniteSet({"main"}) /\ Cardinality({"main"}) = 1
    BY FS_Singleton
  <2>2. IsFiniteSet({"main"} \cup {"f"}) /\ Cardinality({"main"} \cup {"f"}) = 2
    BY <2>1, FS_AddElement
  <2>3. Cardinality({"main"} \cup {"f"} \cup {"print_backtrace"}) = 3
    BY <2>2, FS_AddElement
  <2>4. Names = {"main"} \cup {"f"} \cup {"print_backtrace"}
    BY DEF Names
  <2> QED BY <2>3, <2>4
<1>2. \A o \in Orders : /\ o \in [1 .. 3 -> Names]
                        /\ \A i, j \in 1 .. 3 : i # j => o[i] # o[j]
  BY <1>1 DEF Orders, SetToSeqs
<1>3. image.text \in Orders /\ image.symtab \in Orders
  BY DEF Images
<1>4. ASSUME NEW o \in Orders, NEW n \in Names PROVE \E i \in 1 .. 3 : o[i] = n
  <2>1. o[1] \in Names /\ o[2] \in Names /\ o[3] \in Names
        /\ o[1] # o[2] /\ o[1] # o[3] /\ o[2] # o[3]
    BY <1>2
  <2> QED BY <2>1 DEF Names
<1>5. ASSUME NEW n \in Names PROVE \E i \in 1 .. 3 : image.text[i] = n /\ Start(n) = 2 * i
  <2> DEFINE i == CHOOSE i \in DOMAIN image.text : image.text[i] = n
  <2>1. DOMAIN image.text = 1 .. 3
    BY <1>2, <1>3
  <2>2. i \in 1 .. 3 /\ image.text[i] = n
    BY <1>3, <1>4, <2>1
  <2> QED BY <2>2 DEF Start
<1>6. ASSUME NEW n \in Names, NEW m \in Names, Start(n) = Start(m) PROVE n = m
  <2>1. PICK i \in 1 .. 3 : image.text[i] = n /\ Start(n) = 2 * i
    BY <1>5
  <2>2. PICK j \in 1 .. 3 : image.text[j] = m /\ Start(m) = 2 * j
    BY <1>5
  <2>3. 2 * i = 2 * j
    BY <1>6, <2>1, <2>2
  <2>4. i = j
    BY <2>3
  <2> QED BY <2>1, <2>2, <2>4
<1>7. EndOfText = 8
  BY <1>1 DEF EndOfText
<1> QED BY <1>2, <1>3, <1>4, <1>5, <1>6, <1>7

\* What is in the symbol table.
LEMMA SymbolsAre ==
    ASSUME image \in Images
    PROVE  /\ Symbols \in Seq(SymbolEntries)
           /\ \A k \in 1 .. Len(Symbols) :
                 \/ Symbols[k].type = "OBJECT"
                 \/ Symbols[k].value = 0
                 \/ Symbols[k].name \in Names /\ Symbols[k].value = Start(Symbols[k].name)
           /\ \A n \in Names : \E k \in 1 .. Len(Symbols) :
                 Symbols[k] = Function(n, IF n = "f" /\ image.static THEN "LOCAL" ELSE "GLOBAL")
<1> DEFINE first == IF image.imports
                    THEN <<[name |-> "printf", bind |-> "GLOBAL", type |-> "FUNC", value |-> 0]>>
                    ELSE <<>>
           bind(n) == IF n = "f" /\ image.static THEN "LOCAL" ELSE "GLOBAL"
           middle == [i \in 1 .. 3 |-> Function(image.symtab[i], bind(image.symtab[i]))]
           object == [name |-> "table", bind |-> "GLOBAL", type |-> "OBJECT", value |-> EndOfText]
<1>1. ASSUME NEW n \in Names PROVE Start(n) \in Nat
  <2>1. PICK i \in 1 .. 3 : image.text[i] = n /\ Start(n) = 2 * i
    BY TextPositions
  <2>2. 2 * i \in Nat
    OBVIOUS
  <2> QED BY <2>1, <2>2
<1>2. ASSUME NEW n \in Names
      PROVE  Function(n, bind(n)) \in SymbolEntries
             /\ Function(n, bind(n)).name = n /\ Function(n, bind(n)).value = Start(n)
  <2>1. bind(n) \in {"LOCAL", "GLOBAL"}
    OBVIOUS
  <2> HIDE DEF bind
  <2> QED BY <1>1, <2>1 DEF Function, SymbolEntries
<1>3. object \in SymbolEntries /\ object.type = "OBJECT"
  <2>1. EndOfText \in Nat
    BY TextPositions
  <2> QED BY <2>1 DEF SymbolEntries
<1>4. /\ first \in Seq(SymbolEntries)
      /\ \A k \in 1 .. Len(first) : first[k].value = 0
  <2> DEFINE printf == [name |-> "printf", bind |-> "GLOBAL", type |-> "FUNC", value |-> 0]
  <2>1. printf \in SymbolEntries /\ printf.value = 0
    BY DEF SymbolEntries
  <2>2. first = IF image.imports THEN <<printf>> ELSE <<>>
    OBVIOUS
  <2> HIDE DEF printf, first
  <2> QED BY <2>1, <2>2
<1>5. middle \in [1 .. 3 -> SymbolEntries]
  BY <1>2, TextPositions
<1>6. middle \in Seq(SymbolEntries) /\ Len(middle) = 3
  BY <1>5
<1>7. Symbols = first \o middle \o <<object>>
  BY TextPositions DEF Symbols
<1>8. \A n \in Names : \E i \in 1 .. 3 : middle[i] = Function(n, bind(n))
  BY TextPositions
<1>9. \A i \in 1 .. 3 : middle[i].name \in Names /\ middle[i].value = Start(middle[i].name)
  BY <1>2, TextPositions
<1> HIDE DEF first, middle, object, bind
<1> DEFINE both == first \o middle
<1>10. /\ both \in Seq(SymbolEntries) /\ Len(both) = Len(first) + 3
       /\ \A k \in 1 .. Len(first) : both[k] = first[k]
       /\ \A i \in 1 .. 3 : both[Len(first) + i] = middle[i]
  <2>1. /\ both \in Seq(SymbolEntries) /\ Len(both) = Len(first) + 3
        /\ \A k \in 1 .. Len(first) + 3 :
              both[k] = IF k <= Len(first) THEN first[k] ELSE middle[k - Len(first)]
    <3>1. first \in Seq(SymbolEntries) /\ middle \in Seq(SymbolEntries)
      BY <1>4, <1>6
    <3>2. /\ both \in Seq(SymbolEntries) /\ Len(both) = Len(first) + Len(middle)
          /\ \A k \in 1 .. Len(first) + Len(middle) :
                both[k] = IF k <= Len(first) THEN first[k] ELSE middle[k - Len(first)]
      BY <3>1, ConcatProperties
    <3> HIDE DEF both
    <3> QED BY <1>6, <3>2
  <2>2. Len(first) \in Nat
    BY <1>4
  <2>3. ASSUME NEW k \in 1 .. Len(first) PROVE both[k] = first[k]
    <3>1. k \in 1 .. Len(first) + 3 /\ k <= Len(first)
      BY <2>2
    <3> HIDE DEF both
    <3> QED BY <2>1, <3>1
  <2>4. ASSUME NEW i \in 1 .. 3 PROVE both[Len(first) + i] = middle[i]
    <3>1. /\ Len(first) + i \in 1 .. Len(first) + 3 /\ ~(Len(first) + i <= Len(first))
          /\ (Len(first) + i) - Len(first) = i
      BY <2>2
    <3> HIDE DEF both
    <3> QED BY <2>1, <3>1
  <2> QED BY <2>1, <2>3, <2>4
<1>11. Len(first) \in Nat
  BY <1>4
<1> HIDE DEF both
<1>12. /\ Symbols \in Seq(SymbolEntries) /\ Len(Symbols) = Len(first) + 4
       /\ \A k \in 1 .. Len(first) + 3 : Symbols[k] = both[k]
       /\ Symbols[Len(first) + 4] = object
  BY <1>3, <1>7, <1>10 DEF both
<1>13. ASSUME NEW k \in 1 .. Len(Symbols)
       PROVE  \/ Symbols[k].type = "OBJECT"
              \/ Symbols[k].value = 0
              \/ Symbols[k].name \in Names /\ Symbols[k].value = Start(Symbols[k].name)
  <2>1. CASE k <= Len(first)
    <3>1. k \in 1 .. Len(first) /\ k \in 1 .. Len(first) + 3
      BY <1>11, <2>1
    <3> QED BY <1>4, <1>10, <1>12, <3>1
  <2>2. CASE k > Len(first) /\ k < Len(first) + 4
    <3>1. k - Len(first) \in 1 .. 3 /\ Len(first) + (k - Len(first)) = k /\ k \in 1 .. Len(first) + 3
      BY <1>11, <2>2
    <3>2. Symbols[k] = middle[k - Len(first)]
      BY <1>10, <1>12, <3>1
    <3> QED BY <1>9, <3>1, <3>2
  <2>3. CASE k = Len(first) + 4
    BY <1>3, <1>12, <2>3
  <2>4. k \in Nat /\ k <= Len(first) + 4
    BY <1>11, <1>12
  <2> QED BY <1>11, <2>1, <2>2, <2>3, <2>4
<1>14. ASSUME NEW n \in Names
       PROVE  \E k \in 1 .. Len(Symbols) : Symbols[k] = Function(n, bind(n))
  <2>1. PICK i \in 1 .. 3 : middle[i] = Function(n, bind(n))
    BY <1>8
  <2>2. Len(first) + i \in 1 .. Len(first) + 3 /\ Len(first) + i \in 1 .. Len(Symbols)
    BY <1>11, <1>12
  <2>3. Symbols[Len(first) + i] = middle[i]
    BY <1>10, <1>12, <2>2
  <2> QED BY <2>1, <2>2, <2>3
<1> QED BY <1>12, <1>13, <1>14 DEF bind
(***************************************************************************)
(* The loop of get_name_position goes through the table from its start.    *)
(***************************************************************************)
LEMMA PositionSearches ==
    ASSUME image \in Images, NEW addr \in Nat
    PROVE  \E g : Search(g, addr) /\ get_name_position(addr) = g[Len(Symbols)].name
<1> DEFINE seq == Symbols
           n == Len(seq)
           step == [p \in Found \X SymbolEntries |-> Better(p[1], p[2], addr)]
           IsFold(h) == h = [s \in SUBSET (1 .. n) |->
                                IF s = {} THEN NothingFound
                                ELSE Better(h[s \ {Max(s)}], seq[Max(s)], addr)]
           iter == CHOOSE h : IsFold(h)
<1>0. seq \in Seq(SymbolEntries) /\ n \in Nat /\ DOMAIN seq = 1 .. n
      /\ \A k \in 1 .. n : seq[k] \in SymbolEntries
  BY SymbolsAre, ElementOfSeq
<1>1. ASSUME NEW b \in Found, NEW s \in SymbolEntries
      PROVE  Better(b, s, addr) \in Found /\ step[<<b, s>>] = Better(b, s, addr)
  BY DEF Better, Found
<1>2. step \in [Found \X SymbolEntries -> Found]
  <2>1. \A p \in Found \X SymbolEntries : Better(p[1], p[2], addr) \in Found
    BY <1>1
  <2> QED BY <2>1
<1>3. NothingFound \in Found /\ n <= n
  BY <1>0 DEF Found
<1>4. get_name_position(addr) = iter[1 .. n].name
  BY <1>0 DEF get_name_position, FoldLeft, MapThenFoldSet, Better, NothingFound
<1> HIDE DEF step, seq, n
<1>5. \A s \in SUBSET (1 .. n) : s # {} => Max(s) \in s /\ s \ {Max(s)} \in SUBSET (1 .. n)
  <2> TAKE s \in SUBSET (1 .. n)
  <2> HAVE s # {}
  <2>1. s \in SUBSET Nat /\ \A m \in s : m <= n
    BY <1>0
  <2> QED BY <1>0, <2>1, Largest
<1>6. \E h : IsFold(h)
  <2>1. PICK h \in [SUBSET (1 .. n) -> Found] : Folds(h, NothingFound, step, seq, n)
    BY <1>0, <1>2, <1>3, FoldsExist DEF n
  <2>2. ASSUME NEW s \in SUBSET (1 .. n), s # {}
        PROVE  step[<<h[s \ {Max(s)}], seq[Max(s)]>>] = Better(h[s \ {Max(s)}], seq[Max(s)], addr)
    <3>1. h[s \ {Max(s)}] \in Found /\ seq[Max(s)] \in SymbolEntries
      BY <1>0, <1>5, <2>1, <2>2
    <3> QED BY <1>1, <3>1
  <2> DEFINE e(s) == IF s = {} THEN NothingFound ELSE Better(h[s \ {Max(s)}], seq[Max(s)], addr)
  <2>3. \A s \in SUBSET (1 .. n) : h[s] = e(s)
    BY <2>1, <2>2 DEF Folds
  <2> HIDE DEF e
  <2>4. h = [s \in SUBSET (1 .. n) |-> e(s)]
    BY <2>1, <2>3
  <2>5. IsFold(h)
    BY <2>4 DEF e
  <2> HIDE DEF IsFold
  <2> QED BY <2>5
<1>7. IsFold(iter)
  BY <1>6, Zenon
<1> HIDE DEF iter
<1>8. iter[{}] = NothingFound
  BY <1>7
<1>9. ASSUME NEW s \in SUBSET (1 .. n), s # {}, iter[s \ {Max(s)}] \in Found
      PROVE  iter[s] = step[<<iter[s \ {Max(s)}], seq[Max(s)]>>]
  <2>1. seq[Max(s)] \in SymbolEntries
    BY <1>0, <1>5, <1>9
  <2>2. iter[s] = Better(iter[s \ {Max(s)}], seq[Max(s)], addr)
    BY <1>7, <1>9
  <2> QED BY <1>1, <1>9, <2>1, <2>2
<1> HIDE DEF IsFold
<1>10. FoldsWithin(iter, Found, NothingFound, step, seq)
  BY <1>8, <1>9 DEF FoldsWithin, n
<1>11. PICK g : Runs(g, Found, NothingFound, step, seq) /\ iter[1 .. n] = g[n]
  <2>1. IsRunOf(iter[1 .. Len(seq)], Found, NothingFound, step, seq)
    BY <1>0, <1>2, <1>3, <1>10, FoldsRun
  <2> QED BY <2>1 DEF IsRunOf, n
<1>12. Search(g, addr)
  <2>1. ASSUME NEW k \in 0 .. n - 1 PROVE g[k + 1] = Better(g[k], seq[k + 1], addr)
    <3>1. k \in 0 .. n /\ k + 1 \in 1 .. n
      BY <1>0
    <3>2. g[k] \in Found /\ seq[k + 1] \in SymbolEntries
      BY <1>0, <1>11, <3>1 DEF Runs, n
    <3>3. g[k + 1] = step[<<g[k], seq[k + 1]>>]
      BY <1>11 DEF Runs, n
    <3> QED BY <1>1, <3>2, <3>3
  <2> QED BY <1>11, <2>1 DEF Runs, Search, n, seq
<1> QED BY <1>4, <1>11, <1>12 DEF n, seq

\* Position 0 in the search is no symbol and lies below all of them.
LEMMA NothingValue == NothingFound.value = 0
BY DEF NothingFound

(***************************************************************************)
(* It finds the function whose first instruction an address follows, if    *)
(* that one is global, in whatever order the text and the table are.       *)
(***************************************************************************)
LEMMA PositionFound ==
    ASSUME image \in Images, NEW f \in Names, f = "f" => ~image.static
    PROVE  get_name_position(Start(f) + 1) = f
<1> DEFINE addr == Start(f) + 1
           n == Len(Symbols)
<1>1. PICK p \in 1 .. 3 : image.text[p] = f /\ Start(f) = 2 * p
  BY TextPositions
<1>2. addr = 2 * p + 1 /\ addr \in Nat
  BY <1>1
<1> HIDE DEF addr
<1>3. PICK g : Search(g, addr) /\ get_name_position(addr) = g[n].name
  BY <1>2, PositionSearches
<1>4. n \in Nat /\ \A k \in 1 .. n : Symbols[k] \in SymbolEntries
  BY SymbolsAre, ElementOfSeq
<1> HIDE DEF n
<1> DEFINE So(k) == /\ g[k] = NothingFound \/ \E m \in 1 .. n : g[k] = Symbols[m] /\ Qualifies(g[k], addr)
                    /\ \A m \in 1 .. k : Qualifies(Symbols[m], addr) => Symbols[m].value <= g[k].value
           P == {k \in Nat : k <= n => So(k)}
<1>5. \A k \in 0 .. n : g[k].value \in Nat
  <2>1. ASSUME NEW v \in Found PROVE v.value \in Nat
    <3>1. CASE v \in SymbolEntries
      BY <3>1 DEF SymbolEntries
    <3>2. CASE v = NothingFound
      BY <3>2, NothingValue
    <3> QED BY <3>1, <3>2 DEF Found
  <2>2. \A k \in 0 .. n : g[k] \in Found
    BY <1>3 DEF Search, n
  <2> QED BY <2>1, <2>2
<1>6. 0 \in P
  BY <1>3 DEF Search
<1>7. ASSUME NEW k \in P PROVE k + 1 \in P
  <2> SUFFICES ASSUME k + 1 <= n PROVE So(k + 1)
    OBVIOUS
  <2>1. k \in 0 .. n - 1 /\ k + 1 \in 1 .. n /\ k \in 0 .. n /\ k + 1 \in 0 .. n /\ So(k)
    BY <1>4
  <2> DEFINE s == Symbols[k + 1]
  <2>2. g[k + 1] = Better(g[k], s, addr)
    BY <1>3, <2>1 DEF Search, n
  <2>3. s.value \in Nat /\ g[k].value \in Nat
    BY <1>4, <1>5, <2>1 DEF SymbolEntries
  <2>4. \A m \in 1 .. k + 1 : m \in 1 .. k \/ m = k + 1
    BY <2>1
  <2>5. CASE Qualifies(s, addr) /\ s.value >= g[k].value
    <3>1. g[k + 1] = s
      BY <2>2, <2>5 DEF Better, Qualifies
    <3>2. ASSUME NEW m \in 1 .. k, Qualifies(Symbols[m], addr)
          PROVE  Symbols[m].value <= s.value
      <4>1. m \in 1 .. n /\ Symbols[m].value <= g[k].value
        BY <1>4, <2>1, <3>2
      <4>2. Symbols[m].value \in Nat
        BY <1>4, <4>1 DEF SymbolEntries
      <4> QED BY <2>3, <2>5, <4>1, <4>2
    <3>3. s.value <= s.value
      BY <2>3
    <3> HIDE DEF s
    <3>4. \A m \in 1 .. k + 1 : Qualifies(Symbols[m], addr) => Symbols[m].value <= s.value
      BY <2>4, <3>2, <3>3 DEF s
    <3> QED BY <2>1, <2>5, <3>1, <3>4 DEF s
  <2>6. CASE ~(Qualifies(s, addr) /\ s.value >= g[k].value)
    <3>1. g[k + 1] = g[k]
      BY <2>2, <2>6 DEF Better, Qualifies
    <3>2. Qualifies(s, addr) => s.value <= g[k].value
      BY <2>3, <2>6
    <3> QED BY <2>1, <2>4, <3>1, <3>2
  <2> QED BY <2>5, <2>6
<1>8. P \in SUBSET Nat
  OBVIOUS
<1> HIDE DEF P
<1>9. P = Nat
  BY <1>6, <1>7, <1>8, SetInduction
<1>10. So(n)
  <2>1. n \in P /\ n <= n
    BY <1>4, <1>9
  <2> QED BY <2>1 DEF P
<1>11. PICK m \in 1 .. n : Symbols[m] = Function(f, "GLOBAL")
  <2>1. PICK m \in 1 .. Len(Symbols) :
           Symbols[m] = Function(f, IF f = "f" /\ image.static THEN "LOCAL" ELSE "GLOBAL")
    BY SymbolsAre
  <2> QED BY <2>1 DEF n
<1>12. Symbols[m].value = Start(f) /\ Qualifies(Symbols[m], addr)
  BY <1>1, <1>2, <1>11 DEF Function, Qualifies
<1>13. Start(f) <= g[n].value
  BY <1>10, <1>12
<1>14. g[n].value # 0
  <2>1. 2 * p <= g[n].value /\ 2 * p > 0
    BY <1>1, <1>13
  <2> QED BY <2>1
<1>15. PICK l \in 1 .. n : g[n] = Symbols[l] /\ Qualifies(g[n], addr)
  <2>1. g[n] # NothingFound
    BY <1>14, NothingValue
  <2> QED BY <1>10, <2>1
<1>16. g[n].name \in Names /\ g[n].value = Start(g[n].name)
  <2>1. \/ Symbols[l].type = "OBJECT"
        \/ Symbols[l].value = 0
        \/ Symbols[l].name \in Names /\ Symbols[l].value = Start(Symbols[l].name)
    BY SymbolsAre DEF n
  <2> QED BY <1>14, <1>15, <2>1 DEF Qualifies
<1>17. PICK q \in 1 .. 3 : Start(g[n].name) = 2 * q
  BY <1>16, TextPositions
<1>18. 2 * p <= 2 * q /\ 2 * q <= 2 * p + 1
  BY <1>1, <1>2, <1>13, <1>15, <1>16, <1>17 DEF Qualifies
<1>19. p = q
  BY <1>18
<1>20. Start(g[n].name) = Start(f)
  BY <1>1, <1>17, <1>19
<1>21. g[n].name = f
  BY <1>16, <1>20, TextPositions
<1> QED BY <1>3, <1>21 DEF addr
\* addr2name gives the name of the function that made the call.
LEMMA FrameNamed ==
    ASSUME image \in Images, ~image.stripped, image.intact,
           NEW f \in Names, f = "f" => ~image.static
    PROVE  addr2name(Start(f) + 1) = {f}
<1> DEFINE T == {"", ".text", ".symtab", ".strtab", ".shstrtab"}
           a == <<"", ".text">>
           b == <<".symtab", ".strtab">>
           c == <<".shstrtab">>
<1>1. /\ a \in Seq(T) /\ Len(a) = 2
      /\ b \in Seq(T) /\ Len(b) = 2 /\ b[1] = ".symtab" /\ b[2] = ".strtab"
      /\ c \in Seq(T) /\ Len(c) = 1
  OBVIOUS
<1>2. Sections = (a \o b) \o c
  BY DEF Sections
<1> HIDE DEF a, b, c, T
<1>3. /\ a \o b \in Seq(T) /\ Len(a \o b) = 4
      /\ (a \o b)[3] = ".symtab" /\ (a \o b)[4] = ".strtab"
  <2> DEFINE ab == a \o b
  <2>1. /\ ab \in Seq(T) /\ Len(ab) = 2 + 2
        /\ \A i \in 1 .. 2 + 2 : ab[i] = IF i <= 2 THEN a[i] ELSE b[i - 2]
    <3>0. a \in Seq(T) /\ b \in Seq(T)
      BY <1>1
    <3>1. /\ ab \in Seq(T) /\ Len(ab) = Len(a) + Len(b)
          /\ \A i \in 1 .. Len(a) + Len(b) :
                ab[i] = IF i <= Len(a) THEN a[i] ELSE b[i - Len(a)]
      BY <3>0, ConcatProperties
    <3> HIDE DEF ab
    <3> QED BY <1>1, <3>1
  <2> HIDE DEF ab
  <2>2. ab[3] = b[3 - 2] /\ ab[4] = b[4 - 2]
    BY <2>1
  <2>3. 3 - 2 = 1 /\ 4 - 2 = 2 /\ 2 + 2 = 4
    OBVIOUS
  <2>4. ab[3] = b[1] /\ ab[4] = b[2]
    BY <2>2, <2>3
  <2> QED BY <1>1, <2>1, <2>3, <2>4 DEF ab
<1>6. /\ Sections \in Seq(T) /\ Len(Sections) = 5
      /\ Sections[3] = ".symtab" /\ Sections[4] = ".strtab"
  <2> DEFINE ab == a \o b
  <2>1. ab \in Seq(T) /\ Len(ab) = 4 /\ ab[3] = ".symtab" /\ ab[4] = ".strtab"
        /\ Sections = ab \o c
    BY <1>2, <1>3
  <2> HIDE DEF ab
  <2>2. /\ Sections \in Seq(T) /\ Len(Sections) = Len(ab) + Len(c)
        /\ \A i \in 1 .. Len(ab) + Len(c) :
              Sections[i] = IF i <= Len(ab) THEN ab[i] ELSE c[i - Len(ab)]
    <3>1. ab \in Seq(T) /\ c \in Seq(T)
      BY <1>1, <2>1
    <3>2. /\ ab \o c \in Seq(T) /\ Len(ab \o c) = Len(ab) + Len(c)
          /\ \A i \in 1 .. Len(ab) + Len(c) :
                (ab \o c)[i] = IF i <= Len(ab) THEN ab[i] ELSE c[i - Len(ab)]
      BY <3>1, ConcatProperties
    <3> QED BY <2>1, <3>2
  <2>3. Sections[3] = ab[3] /\ Sections[4] = ab[4] /\ Len(Sections) = 5
    BY <1>1, <2>1, <2>2
  <2> QED BY <2>1, <2>2, <2>3
<1>7. 3 \in DOMAIN Sections /\ 4 \in DOMAIN Sections
  BY <1>6
<1>8. \A s : (\E i \in DOMAIN Sections : Sections[i] = s) => Sections[get_section_header(s)] = s
  BY DEF get_section_header, ToSet
<1>9. /\ Sections[get_section_header(".symtab")] = ".symtab"
      /\ Sections[get_section_header(".strtab")] = ".strtab"
  BY <1>6, <1>7, <1>8
<1>4. get_name_position(Start(f) + 1) = f
  BY PositionFound
<1>5. f # ""
  BY DEF Names
<1> QED BY <1>4, <1>5, <1>9 DEF addr2name

\* The frames of a stack, from the innermost to main's, and only the last is main's.
LEMMA StackShape ==
    ASSUME stack \in Stacks
    PROVE  /\ Len(stack) \in Nat /\ DOMAIN stack = 1 .. Len(stack)
           /\ \A i \in 1 .. Len(stack) :
                 stack[i].name \in Names /\ (stack[i].name = "main" <=> i = Len(stack))
<1>0. PICK n \in 0 .. MaxDepth :
         stack \in {[i \in 1 .. n + 2 |->
                        [name |-> IF i = 1 THEN "print_backtrace" ELSE IF i = n + 2 THEN "main" ELSE "f",
                         last |-> l[i]]] : l \in {m \in [1 .. n + 2 -> BOOLEAN] : ~m[1]}}
  BY DEF Stacks
<1>1. PICK l \in [1 .. n + 2 -> BOOLEAN] :
         stack = [i \in 1 .. n + 2 |->
                     [name |-> IF i = 1 THEN "print_backtrace" ELSE IF i = n + 2 THEN "main" ELSE "f",
                      last |-> l[i]]]
  BY <1>0
<1>2. n \in Nat
  BY MaxDepthAssumption
<1>3. DOMAIN stack = 1 .. n + 2 /\ n + 2 \in Nat
  BY <1>1, <1>2
<1>4. Len(stack) = n + 2
  BY <1>3
<1>5. \A i \in 1 .. n + 2 :
         stack[i].name = IF i = 1 THEN "print_backtrace" ELSE IF i = n + 2 THEN "main" ELSE "f"
  BY <1>1
<1>6. 1 # n + 2
  BY <1>2
<1> HIDE DEF Stacks
<1> QED BY <1>3, <1>4, <1>5, <1>6 DEF Names

\* The addresses backtrace meets.
LEMMA ChainShape ==
    ASSUME image \in Images, stack \in Stacks
    PROVE  /\ Len(Chain) = Len(stack) + 1
           /\ \A i \in 1 .. Len(stack) : Chain[i] = ReturnAddress(stack[i])
<1> DEFINE frames == [i \in DOMAIN stack |-> ReturnAddress(stack[i])]
           A == {frames[i] : i \in DOMAIN stack} \cup {Library}
<1>1. Len(stack) \in Nat /\ DOMAIN stack = 1 .. Len(stack)
  BY StackShape
<1>2. frames \in [1 .. Len(stack) -> A] /\ DOMAIN frames = 1 .. Len(stack)
  BY <1>1
<1>3. \A i \in 1 .. Len(stack) : frames[i] = ReturnAddress(stack[i])
  BY <1>1
<1>4. Library \in A /\ Chain = frames \o <<Library>>
  BY DEF Chain
<1> HIDE DEF frames, A
<1>5. frames \in Seq(A) /\ Len(frames) = Len(stack)
  BY <1>1, <1>2
<1>6. <<Library>> \in Seq(A) /\ Len(<<Library>>) = 1
  BY <1>4
<1>7. /\ Len(Chain) = Len(stack) + 1
      /\ \A i \in 1 .. Len(stack) + 1 : Chain[i] = IF i <= Len(stack) THEN frames[i]
                                                   ELSE <<Library>>[i - Len(stack)]
  BY <1>4, <1>5, <1>6, ConcatProperties
<1>8. ASSUME NEW i \in 1 .. Len(stack) PROVE Chain[i] = ReturnAddress(stack[i])
  <2>1. i \in 1 .. Len(stack) + 1 /\ i <= Len(stack)
    BY <1>1
  <2> QED BY <1>3, <1>7, <2>1
<1> QED BY <1>7, <1>8

\* How many addresses print_backtrace gets.
Recordable == IF limit < Len(stack) THEN limit ELSE Len(stack)

(***************************************************************************)
(* The inductive invariant: how far the walk and the printing are.         *)
(***************************************************************************)
WalkInv ==
    /\ at \in {"walk", "print"} => Len(recorded) <= limit
    /\ at = "walk" => printed = <<>> /\ Len(recorded) < Len(stack)
    /\ at \in {"print", "done"} => Len(recorded) = Recordable
    /\ at = "done" => Len(printed) = Recordable
    /\ at \notin {"crashed", "exited"}
    /\ printed \in Seq(Names)
    /\ Len(printed) <= Recordable
    /\ \A i \in 1 .. Len(printed) : printed[i] = stack[i].name

BacktraceInv ==
    /\ image \in Images
    /\ stack \in Stacks
    /\ limit \in Nat
    /\ recorded \in Seq({Chain[i] : i \in 1 .. Len(Chain)})
    /\ Len(recorded) <= Len(Chain)
    /\ \A i \in 1 .. Len(recorded) : recorded[i] = Chain[i]
    /\ Nameable => WalkInv

\* The walk starts in the invariant.
LEMMA BacktraceStarts == BacktraceInit => BacktraceInv
<1> SUFFICES ASSUME BacktraceInit PROVE BacktraceInv
  OBVIOUS
<1>1. image \in Images /\ stack \in Stacks /\ limit \in Nat
  BY LimitsAssumption DEF BacktraceInit
<1>2. at = "walk" /\ recorded = <<>> /\ printed = <<>>
  BY DEF BacktraceInit
<1>3. Len(stack) \in Nat /\ Len(Chain) = Len(stack) + 1
  BY <1>1, StackShape, ChainShape
<1>4. Len(stack) > 0
  <2>1. PICK n \in 0 .. MaxDepth : DOMAIN stack = 1 .. n + 2
    BY <1>1 DEF Stacks
  <2>2. 1 \in 1 .. n + 2
    BY MaxDepthAssumption
  <2> QED BY <1>1, <1>3, <2>1, <2>2, StackShape
<1>5. Recordable >= 0
  BY <1>1, <1>3 DEF Recordable
<1>6. WalkInv
  BY <1>1, <1>2, <1>4, <1>5 DEF WalkInv
<1> QED BY <1>1, <1>2, <1>3, <1>6 DEF BacktraceInv

\* The executable, the stack and the size of the array do not change.
LEMMA SameStack ==
    ASSUME UNCHANGED <<image, stack, limit>>
    PROVE  Chain' = Chain /\ Nameable' = Nameable /\ Recordable' = Recordable
BY DEF Chain, ReturnAddress, Start, Library, EndOfText, Nameable, Recordable

\* The names of the addresses on the stack.
LEMMA AddressNamed ==
    ASSUME BacktraceInv, Nameable, NEW i \in 1 .. Len(stack)
    PROVE  addr2name(Chain[i]) = {stack[i].name}
<1>1. stack[i].name \in Names /\ i \in DOMAIN stack
  BY StackShape DEF BacktraceInv
<1>2. ~image.stripped /\ image.intact /\ ~stack[i].last /\ (stack[i].name = "f" => ~image.static)
  BY <1>1 DEF Nameable
<1>3. Chain[i] = Start(stack[i].name) + 1
  BY <1>2, ChainShape DEF BacktraceInv, ReturnAddress
<1>4. image \in Images
  BY DEF BacktraceInv
<1> QED BY <1>1, <1>2, <1>3, <1>4, FrameNamed

\* Their lengths.
LEMMA Lengths ==
    ASSUME BacktraceInv
    PROVE  /\ limit \in Nat /\ Len(stack) \in Nat /\ Len(Chain) = Len(stack) + 1
           /\ Len(recorded) \in Nat
<1>1. image \in Images /\ stack \in Stacks /\ limit \in Nat
  BY DEF BacktraceInv
<1>2. Len(recorded) \in Nat
  BY DEF BacktraceInv
<1> QED BY <1>1, <1>2, StackShape, ChainShape

\* Recording a return address keeps the invariant.
LEMMA FrameRecorded == BacktraceInv /\ NextFrame => BacktraceInv'
<1> SUFFICES ASSUME BacktraceInv, NextFrame PROVE BacktraceInv'
  OBVIOUS
<1> DEFINE k == Len(recorded)
           A == {Chain[i] : i \in 1 .. Len(Chain)}
<1>1. UNCHANGED <<image, stack, limit, printed>> /\ at = "walk" /\ k # limit /\ k < Len(Chain)
      /\ recorded' = Append(recorded, Chain[k + 1])
  BY DEF NextFrame
<1>2. Chain' = Chain /\ Nameable' = Nameable /\ Recordable' = Recordable
  BY <1>1, SameStack
<1>3. recorded \in Seq(A) /\ k \in Nat /\ limit \in Nat /\ Len(stack) \in Nat /\ Len(Chain) = Len(stack) + 1
  BY Lengths DEF BacktraceInv
<1>4. k + 1 \in 1 .. Len(Chain) /\ Chain[k + 1] \in A
  BY <1>1, <1>3
<1> HIDE DEF A
<1>5. /\ recorded' \in Seq(A) /\ Len(recorded') = k + 1
      /\ \A i \in 1 .. k : recorded'[i] = recorded[i]
      /\ recorded'[k + 1] = Chain[k + 1]
  BY <1>1, <1>3, <1>4
<1>6. \A i \in 1 .. k + 1 : recorded'[i] = Chain[i]
  <2>1. \A i \in 1 .. k : recorded[i] = Chain[i]
    BY DEF BacktraceInv
  <2>2. ASSUME NEW i \in 1 .. k + 1 PROVE recorded'[i] = Chain[i]
    <3>1. i \in 1 .. k \/ i = k + 1
      BY <1>3
    <3> QED BY <1>5, <2>1, <3>1
  <2> QED BY <2>2
<1>7. ASSUME Nameable PROVE WalkInv'
  <2>1. WalkInv /\ k < Len(stack) /\ k <= limit
    BY <1>1, <1>7 DEF BacktraceInv, WalkInv
  <2>2. k + 1 \in 1 .. Len(stack) /\ k + 1 <= limit
    BY <1>1, <1>3, <2>1
  <2>3. addr2name(Chain[k + 1]) = {stack[k + 1].name}
    BY <1>7, <2>2, AddressNamed
  <2>4. stack[k + 1].name \in Names /\ (stack[k + 1].name = "main" <=> k + 1 = Len(stack))
    <3>1. stack \in Stacks
      BY DEF BacktraceInv
    <3> QED BY <2>2, <3>1, StackShape
  <2>5. at' = CASE stack[k + 1].name = "" -> "exited"
                [] stack[k + 1].name = "main" -> "print"
                [] OTHER -> "walk"
    BY <2>3 DEF NextFrame
  <2>6. stack[k + 1].name # ""
    BY <2>4 DEF Names
  <2>7. at' = IF k + 1 = Len(stack) THEN "print" ELSE "walk"
    BY <2>4, <2>5, <2>6
  <2>8. k + 1 = Len(stack) => k + 1 = Recordable
    BY <1>3, <2>2 DEF Recordable
  <2>9. k + 1 # Len(stack) => k + 1 < Len(stack)
    BY <1>3, <2>2
  <2> HIDE DEF k
  <2>10. /\ Len(recorded') <= limit'
         /\ at' = "walk" => printed' = <<>> /\ Len(recorded') < Len(stack')
         /\ at' \in {"print", "done"} => Len(recorded') = Recordable'
         /\ at' \notin {"done", "crashed", "exited"}
    BY <1>1, <1>2, <1>5, <2>1, <2>2, <2>7, <2>8, <2>9 DEF WalkInv
  <2> QED BY <1>1, <1>2, <2>1, <2>10 DEF WalkInv
<1> QED BY <1>1, <1>2, <1>3, <1>4, <1>5, <1>6, <1>7 DEF BacktraceInv, A

\* Printing a name keeps the invariant.
LEMMA NamePrinted == BacktraceInv /\ print_backtrace => BacktraceInv'
<1> SUFFICES ASSUME BacktraceInv, print_backtrace PROVE BacktraceInv'
  OBVIOUS
<1> DEFINE k == Len(printed)
<1>1. UNCHANGED <<image, stack, limit, recorded>> /\ at = "print" /\ k < Len(recorded)
  BY DEF print_backtrace
<1>2. Chain' = Chain /\ Nameable' = Nameable /\ Recordable' = Recordable
  BY <1>1, SameStack
<1>3. limit \in Nat /\ Len(stack) \in Nat /\ Len(Chain) = Len(stack) + 1 /\ Len(recorded) \in Nat
  BY Lengths
<1>4. ASSUME Nameable PROVE WalkInv'
  <2>1. WalkInv /\ Len(recorded) = Recordable /\ Recordable \in Nat /\ Recordable <= Len(stack)
        /\ printed \in Seq(Names) /\ k \in Nat
    BY <1>1, <1>3, <1>4 DEF BacktraceInv, WalkInv, Recordable
  <2>2. k + 1 \in 1 .. Len(recorded) /\ k + 1 \in 1 .. Len(stack) /\ k + 1 <= Recordable
    BY <1>1, <1>3, <2>1
  <2>3. recorded[k + 1] = Chain[k + 1]
    BY <2>2 DEF BacktraceInv
  <2>4. addr2name(recorded[k + 1]) = {stack[k + 1].name}
    BY <1>4, <2>2, <2>3, AddressNamed
  <2>5. stack[k + 1].name \in Names /\ stack[k + 1].name # ""
    <3>1. stack[k + 1].name \in Names
      BY <2>2, StackShape DEF BacktraceInv
    <3> QED BY <3>1 DEF Names
  <2>6. printed' = Append(printed, stack[k + 1].name) /\ at' = at
    BY <2>4, <2>5 DEF print_backtrace
  <2>7. /\ printed' \in Seq(Names) /\ Len(printed') = k + 1
        /\ \A i \in 1 .. k : printed'[i] = printed[i]
        /\ printed'[k + 1] = stack[k + 1].name
    <3> DEFINE name == stack[k + 1].name
    <3>1. name \in Names /\ printed' = Append(printed, name)
      BY <2>5, <2>6
    <3> HIDE DEF name
    <3>2. /\ printed' \in Seq(Names) /\ Len(printed') = k + 1
          /\ \A i \in 1 .. k : printed'[i] = printed[i]
          /\ printed'[k + 1] = name
      BY <2>1, <3>1
    <3> QED BY <3>2 DEF name
  <2>8. \A i \in 1 .. k + 1 : printed'[i] = stack[i].name
    <3>1. \A i \in 1 .. k + 1 : i \in 1 .. k \/ i = k + 1
      BY <2>1
    <3> QED BY <2>1, <2>7, <3>1 DEF WalkInv
  <2> HIDE DEF k
  <2> QED BY <1>1, <1>2, <2>1, <2>2, <2>6, <2>7, <2>8 DEF WalkInv
<1> QED BY <1>1, <1>2, <1>4 DEF BacktraceInv

\* Every step of the backtrace keeps the invariant.
LEMMA BacktraceStep == BacktraceInv /\ [BacktraceNext]_backtraceVars => BacktraceInv'
<1> SUFFICES ASSUME BacktraceInv, [BacktraceNext]_backtraceVars PROVE BacktraceInv'
  OBVIOUS
<1>1. limit \in Nat /\ Len(stack) \in Nat /\ Len(Chain) = Len(stack) + 1 /\ Len(recorded) \in Nat
  BY Lengths
<1>2. CASE UNCHANGED backtraceVars
  <2>1. UNCHANGED <<image, stack, limit, recorded, printed, at>>
    BY <1>2 DEF backtraceVars
  <2>2. Chain' = Chain /\ Nameable' = Nameable /\ Recordable' = Recordable
    BY <2>1, SameStack
  <2> QED BY <2>1, <2>2 DEF BacktraceInv, WalkInv
<1>3. CASE NextFrame
  BY <1>3, FrameRecorded
<1>4. CASE NoFrame
  <2>1. UNCHANGED <<image, stack, limit, recorded, printed>> /\ at = "walk"
        /\ Len(recorded) = Len(Chain)
    BY <1>4 DEF NoFrame
  <2>2. Chain' = Chain /\ Nameable' = Nameable
    BY <2>1, SameStack
  <2>3. Nameable => Len(recorded) < Len(stack)
    BY <2>1 DEF BacktraceInv, WalkInv
  <2>4. ~Nameable
    BY <1>1, <2>1, <2>3
  <2> QED BY <2>1, <2>2, <2>4 DEF BacktraceInv
<1>5. CASE LimitReached
  <2>1. UNCHANGED <<image, stack, limit, recorded, printed>> /\ at = "walk" /\ at' = "print"
        /\ Len(recorded) = limit
    BY <1>5 DEF LimitReached
  <2>2. Chain' = Chain /\ Nameable' = Nameable /\ Recordable' = Recordable
    BY <2>1, SameStack
  <2>3. Nameable => Len(recorded) = Recordable
    BY <2>1 DEF BacktraceInv, WalkInv, Recordable
  <2>4. Nameable => WalkInv'
    BY <1>1, <2>1, <2>2, <2>3 DEF BacktraceInv, WalkInv
  <2> QED BY <2>1, <2>2, <2>4 DEF BacktraceInv
<1>6. CASE print_backtrace
  BY <1>6, NamePrinted
<1>7. CASE PrintEnds
  <2>1. UNCHANGED <<image, stack, limit, recorded, printed>> /\ at = "print" /\ at' = "done"
        /\ Len(printed) = Len(recorded)
    BY <1>7 DEF PrintEnds
  <2>2. Chain' = Chain /\ Nameable' = Nameable /\ Recordable' = Recordable
    BY <2>1, SameStack
  <2>3. Nameable => WalkInv'
    BY <2>1, <2>2 DEF BacktraceInv, WalkInv
  <2> QED BY <2>1, <2>2, <2>3 DEF BacktraceInv
<1> QED BY <1>2, <1>3, <1>4, <1>5, <1>6, <1>7 DEF BacktraceNext

(***************************************************************************)
(* What backtrace records is on the stack; and if the table has a name for *)
(* every frame, print_backtrace prints the names of the frames up to main  *)
(* or to the end of the array, however deep the calls, whatever the size   *)
(* of the array and in whatever order the functions and their symbols are. *)
(***************************************************************************)
THEOREM BacktraceIsTheStackCorrect == BacktraceSpec => []BacktraceIsTheStack
<1>1. BacktraceInv => BacktraceIsTheStack
  <2> SUFFICES ASSUME BacktraceInv PROVE BacktraceIsTheStack
    OBVIOUS
  <2> DEFINE A == {Chain[i] : i \in 1 .. Len(Chain)}
             k == Len(recorded)
  <2>1. recorded \in Seq(A) /\ k \in Nat /\ k <= Len(Chain) /\ \A i \in 1 .. k : recorded[i] = Chain[i]
    BY DEF BacktraceInv
  <2>2. SubSeq(recorded, 1, k) = SubSeq(Chain, 1, k)
    <3> HIDE DEF A
    <3>1. SubSeq(recorded, 1, k) = [i \in 1 .. k |-> recorded[i]]
      BY <2>1
    <3>2. SubSeq(Chain, 1, k) = [i \in 1 .. k |-> Chain[i]]
      BY <2>1
    <3> QED BY <2>1, <3>1, <3>2
  <2>3. IsPrefix(recorded, Chain)
    BY <2>1, <2>2 DEF IsPrefix
  <2>4. ASSUME Nameable, at = "done"
        PROVE  printed = [i \in 1 .. (IF limit < Len(stack) THEN limit ELSE Len(stack)) |-> stack[i].name]
    <3>1. /\ printed \in Seq(Names) /\ Len(printed) = Recordable
          /\ \A i \in 1 .. Len(printed) : printed[i] = stack[i].name
      BY <2>4 DEF BacktraceInv, WalkInv
    <3>2. printed = [i \in 1 .. Recordable |-> printed[i]]
      BY <3>1
    <3> QED BY <3>1, <3>2 DEF Recordable
  <2>5. Nameable => at \notin {"crashed", "exited"}
    BY DEF BacktraceInv, WalkInv
  <2> QED BY <2>3, <2>4, <2>5 DEF BacktraceIsTheStack
<1> QED BY <1>1, BacktraceStarts, BacktraceStep, PTL DEF BacktraceSpec
============================================================================
