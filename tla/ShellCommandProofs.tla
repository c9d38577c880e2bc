------------------------- MODULE ShellCommandProofs -------------------------
(***************************************************************************)
(* Theorems about ShellCommand for every number of lines and every set of  *)
(* calls that may fail.                                                    *)
(*                                                                         *)
(* The inductive invariant IInv says which blocks and which descriptors    *)
(* the shell and the child have at each place.  It also says that a child  *)
(* lives only while the shell is in parent_work, so that the line the      *)
(* child frees its memory for is the line the shell forked it for.         *)
(*                                                                         *)
(* TalkInv, on top of it, compares what was shown with what was typed: the *)
(* screen is what the lines so far ask for, with the answer to the last    *)
(* one only when that line is Done, which it is from the end of the child  *)
(* on.  When stdout is not a terminal it compares the messages shown or in *)
(* the shell's buffer; the child's buffer has copies of the latter.        *)
(*                                                                         *)
(* ForkedInv says when a line has a child.  From it follow the two halves  *)
(* of CommandEnds that are not about fairness: the shell or its child can  *)
(* always go on, and every step takes the line further.                    *)
(***************************************************************************)
EXTENDS ShellCommand, Induction

\* The line as long as fork, in either shell.
Arguments == {"tokens", "argument_list"}
Saved == IF line.output_redir THEN {"saved_stdout_fd"} ELSE {}
ChildAlive == child.pc \notin {"unborn", "exited", "aborted"}

HistoryInv ==
    /\ Len(history) <= MaxLines + 1
    /\ shell.pc # "exited" => Len(history) <= MaxLines
    /\ shell.pc # "prompt" => Len(history) > 0
    /\ history # <<>> /\ program = "Shell_1" => ~line.input_redir /\ ~line.output_redir
    /\ shell.pc \in {"open_in", "open_out", "fork", "close", "wait"} => line.kind = "run"
    /\ shell.pc = "exec_command" => line.kind \in {"empty", "wrong", "run"}
    /\ shell.pc = "exec_command" /\ program = "Shell_1" => line.kind # "wrong"
    /\ program = "Shell_1" => shell.pc \notin {"open_in", "open_out", "close"}

ShellInv ==
    /\ shell.pc # "aborted"
    /\ shell.stdin = "inherited" /\ shell.stdout = "inherited"
    /\ shell.pc \in {"prompt", "exec_command", "wait", "open_in"} => shell.fds = {}
    /\ shell.pc = "open_out" => shell.fds = IF line.input_redir THEN {"in_fd"} ELSE {}
    /\ shell.pc \in {"fork", "close"} => shell.fds = Redirections
    /\ shell.pc \in {"prompt", "exited"} => shell.heap = {}
    /\ shell.pc = "exec_command" => shell.heap = Tokens(line)
    /\ shell.pc = "open_in" => shell.heap = Arguments
    /\ shell.pc = "open_out" =>
          shell.heap = Arguments \cup IF line.input_redir THEN {"in_file_name"} ELSE {}
    /\ shell.pc \in {"fork", "close", "wait"} => shell.heap = Arguments \cup FileNames
    /\ tty => shell.buffer = <<>>

ChildInv ==
    /\ child.pc # "aborted"
    /\ ChildAlive => shell.pc \in {"close", "wait"}
    /\ program = "Shell_1" => child.pc \notin {"save_stdout", "dup2", "close"}
    /\ child.pc \in {"exited", "running"} => child.heap = {}
    /\ child.pc \in {"save_stdout", "dup2", "close", "execute"} =>
          child.heap = Arguments \cup FileNames
    /\ child.pc = "save_stdout" => child.fds = Redirections
    /\ child.pc \in {"dup2", "close"} => child.fds = Redirections \cup Saved
    /\ child.pc \in {"execute", "running"} => child.fds \subseteq {"saved_stdout_fd"}
    /\ child.pc = "execute" => child.fds = Saved
    /\ child.pc \in {"save_stdout", "dup2"} => child.stdin = "inherited" /\ child.stdout = "inherited"
    /\ child.pc \in {"close", "execute", "running"} =>
          /\ child.stdin = IF line.input_redir THEN "in_fd" ELSE "inherited"
          /\ child.stdout = IF line.output_redir THEN "out_fd" ELSE "inherited"
    /\ tty => child.buffer = <<>>

IInv ==
    /\ TypeOK
    /\ HistoryInv
    /\ ShellInv
    /\ ChildInv
----------------------------------------------------------------------------
(* Processes.                                                              *)

(***************************************************************************)
(* A process with its program counter moved.                               *)
(***************************************************************************)
LEMMA ProcessType ==
    ASSUME NEW P, NEW pc \in P
    PROVE  Process(pc) \in Processes(P)
BY EmptySeq DEF Process, Processes

(***************************************************************************)
(* Free of allocated blocks takes them out of the heap and does no more.   *)
(***************************************************************************)
LEMMA FreeBlocks ==
    ASSUME NEW P, NEW p \in Processes(P), NEW B, B \subseteq p.heap
    PROVE  /\ Free(p, B) \in Processes(P)
           /\ Free(p, B).pc = p.pc /\ Free(p, B).heap = p.heap \ B /\ Free(p, B).fds = p.fds
           /\ Free(p, B).stdin = p.stdin /\ Free(p, B).stdout = p.stdout
           /\ Free(p, B).buffer = p.buffer
BY DEF Free, Processes

(***************************************************************************)
(* Exit of a process that did not abort leaves its heap to the kernel and  *)
(* closes its descriptors.                                                 *)
(***************************************************************************)
LEMMA ExitProcess ==
    ASSUME NEW P, "exited" \in P, NEW p \in Processes(P), p.pc # "aborted"
    PROVE  /\ Exit(p) \in Processes(P)
           /\ Exit(p).pc = "exited" /\ Exit(p).heap = p.heap /\ Exit(p).fds = {}
           /\ Exit(p).stdin = p.stdin /\ Exit(p).stdout = p.stdout /\ Exit(p).buffer = <<>>
BY EmptySeq DEF Exit, Processes

(***************************************************************************)
(* FREE_MEMORY with the memory of a line that was opened: nothing is left. *)
(***************************************************************************)
LEMMA FreeMemory ==
    ASSUME NEW P, NEW p \in Processes(P), p.heap = Arguments \cup FileNames
    PROVE  /\ FREE_MEMORY(p) \in Processes(P)
           /\ FREE_MEMORY(p).pc = p.pc /\ FREE_MEMORY(p).heap = {} /\ FREE_MEMORY(p).fds = p.fds
           /\ FREE_MEMORY(p).stdin = p.stdin /\ FREE_MEMORY(p).stdout = p.stdout
           /\ FREE_MEMORY(p).buffer = p.buffer
<1>1. {"tokens", "argument_list"} \cup FileNames \subseteq p.heap
  BY DEF Arguments
<1> QED BY <1>1, FreeBlocks DEF FREE_MEMORY, Arguments

(***************************************************************************)
(* Every way out through EXIT_FAIL frees the memory of the line once,      *)
(* whether the redirected files are still open or not.                     *)
(***************************************************************************)
LEMMA ExitFail ==
    ASSUME NEW P, "exited" \in P, NEW p \in Processes(P), p.pc \notin {"exited", "aborted"},
           p.heap = Arguments \cup FileNames
    PROVE  /\ EXIT_FAIL_WITHOUT_CLOSE(p) \in Processes(P)
           /\ EXIT_FAIL_WITHOUT_CLOSE(p).pc = "exited" /\ EXIT_FAIL_WITHOUT_CLOSE(p).heap = {}
           /\ EXIT_FAIL_WITHOUT_CLOSE(p).stdin = p.stdin
           /\ EXIT_FAIL_WITHOUT_CLOSE(p).stdout = p.stdout
           /\ EXIT_FAIL_WITHOUT_CLOSE(p).buffer = <<>>
           /\ EXIT_FAIL_2(p) \in Processes(P)
           /\ EXIT_FAIL_2(p).pc = "exited" /\ EXIT_FAIL_2(p).heap = {}
           /\ EXIT_FAIL_2(p).stdin = p.stdin /\ EXIT_FAIL_2(p).stdout = p.stdout
           /\ EXIT_FAIL_2(p).buffer = <<>>
<1> DEFINE q == FREE_MEMORY(p)
           e == EXIT_FAIL_WITHOUT_CLOSE(p)
           r == [p EXCEPT !.fds = @ \ Redirections]
<1>1. /\ q \in Processes(P) /\ q.pc = p.pc /\ q.heap = {}
      /\ q.stdin = p.stdin /\ q.stdout = p.stdout
  BY FreeMemory
<1>2. /\ e \in Processes(P) /\ e.pc = "exited" /\ e.heap = {} /\ e.buffer = <<>>
      /\ e.stdin = p.stdin /\ e.stdout = p.stdout
  <2> HIDE DEF q
  <2>1. e = Exit(q)
    BY DEF q, EXIT_FAIL_WITHOUT_CLOSE
  <2> QED BY <1>1, <2>1, ExitProcess
<1>3. CASE Redirections \subseteq p.fds
  <2>1. CLOSE(p) = r /\ r \in Processes(P) /\ r.pc = p.pc /\ r.heap = p.heap
        /\ r.stdin = p.stdin /\ r.stdout = p.stdout
    BY <1>3 DEF CLOSE, Processes
  <2> DEFINE s == FREE_MEMORY(r)
  <2> HIDE DEF r
  <2>2. s \in Processes(P) /\ s.pc = r.pc /\ s.heap = {} /\ s.stdin = r.stdin /\ s.stdout = r.stdout
    BY <2>1, FreeMemory
  <2>3. EXIT_FAIL_2(p) = Exit(s)
    BY <2>1 DEF EXIT_FAIL_2, Gone
  <2> HIDE DEF s
  <2>4. /\ Exit(s) \in Processes(P) /\ Exit(s).pc = "exited" /\ Exit(s).heap = {}
        /\ Exit(s).stdin = p.stdin /\ Exit(s).stdout = p.stdout /\ Exit(s).buffer = <<>>
    BY <2>1, <2>2, ExitProcess
  <2> HIDE DEF e
  <2> QED BY <1>2, <2>3, <2>4 DEF e
<1>4. CASE ~(Redirections \subseteq p.fds)
  <2>1. CLOSE(p) = e
    BY <1>4 DEF CLOSE
  <2>2. EXIT_FAIL_2(p) = e
    BY <1>2, <2>1 DEF EXIT_FAIL_2, Gone
  <2> HIDE DEF e
  <2> QED BY <1>2, <2>2 DEF e
<1> QED BY <1>3, <1>4

----------------------------------------------------------------------------
(* The lines.                                                              *)

\* The line as the code uses it is the same, and so is the number of lines.
SameLine ==
    /\ Len(history') = Len(history)
    /\ line'.kind = line.kind /\ line'.found = line.found
    /\ line'.input_redir = line.input_redir /\ line'.output_redir = line.output_redir

(***************************************************************************)
(* A call that fails leaves the line alone.                                *)
(***************************************************************************)
LEMMA FaultKeepsLine ==
    ASSUME history \in Seq(Lines), Len(history) > 0, NEW call \in MayFail, Fault(call)
    PROVE  history' \in Seq(Lines) /\ SameLine
<1> DEFINE n == Len(history)
           l == [history[n] EXCEPT !.fault = call]
<1>1. n \in Nat /\ n \in 1 .. Len(history)
  BY LenProperties
<1>2. history[n] \in Lines
  BY <1>1, ElementOfSeq
<1>3. /\ l \in Lines
      /\ l.kind = history[n].kind /\ l.found = history[n].found
      /\ l.input_redir = history[n].input_redir /\ l.output_redir = history[n].output_redir
  BY <1>2 DEF Lines
<1>4. history' = [history EXCEPT ![n] = l]
  BY DEF Fault
<1> HIDE DEF l, n
<1>5. history' \in Seq(Lines) /\ Len(history') = Len(history) /\ history'[n] = l
  BY <1>1, <1>3, <1>4, ExceptSeq DEF n
<1> QED BY <1>3, <1>5 DEF SameLine, line, n

(***************************************************************************)
(* A line that is read.                                                    *)
(***************************************************************************)
LEMMA AppendLine ==
    ASSUME history \in Seq(Lines), NEW l \in Lines, history' = Append(history, l)
    PROVE  /\ history' \in Seq(Lines) /\ Len(history') = Len(history) + 1 /\ line' = l
           /\ Len(history) \in Nat /\ history' # <<>>
<1>1. /\ history' \in Seq(Lines) /\ Len(history') = Len(history) + 1
      /\ history'[Len(history) + 1] = l
  BY AppendProperties
<1>2. Len(history) \in Nat
  BY LenProperties
<1>3. history' # <<>>
  BY <1>1, <1>2, EmptySeq
<1> QED BY <1>1, <1>2, <1>3 DEF line

(***************************************************************************)
(* What the code computes from the line is the same for the same line.     *)
(***************************************************************************)
LEMMA SameLineSameSets ==
    ASSUME SameLine
    PROVE  /\ Redirections' = Redirections /\ FileNames' = FileNames /\ Saved' = Saved
           /\ Tokens(line)' = Tokens(line)
BY DEF SameLine, Redirections, FileNames, Saved, Tokens

(***************************************************************************)
(* Messages.                                                               *)
(***************************************************************************)
LEMMA OneMessage ==
    ASSUME NEW k \in 1 .. MaxLines + 1, NEW text \in Texts
    PROVE  <<[line |-> k, text |-> text]>> \in Seq(Messages)
BY DEF Messages

\* A printed message changes the buffer and the screen and nothing else of the
\* shell.
LEMMA Printed ==
    ASSUME NEW q \in Processes(ShellPlaces), NEW m \in Seq(Messages),
           screen \in Seq(Messages), PrintAndGoOn(q, m)
    PROVE  /\ shell' \in Processes(ShellPlaces) /\ screen' \in Seq(Messages)
           /\ shell'.pc = q.pc /\ shell'.heap = q.heap /\ shell'.fds = q.fds
           /\ shell'.stdin = q.stdin /\ shell'.stdout = q.stdout
           /\ tty => shell'.buffer = q.buffer
<1>1. screen \o m \in Seq(Messages) /\ q.buffer \o m \in Seq(Messages)
  BY ConcatProperties DEF Processes
<1>2. CASE tty
  BY <1>1, <1>2 DEF PrintAndGoOn
<1>3. CASE ~tty
  BY <1>1, <1>3 DEF PrintAndGoOn, Processes
<1> QED BY <1>2, <1>3

\* What a flush of the buffer leaves on the screen is again messages.
LEMMA WrittenType ==
    ASSUME NEW p, NEW m \in Seq(Messages), screen \in Seq(Messages)
    PROVE  Written(p, m) \in Seq(Messages)
BY ConcatProperties DEF Written

----------------------------------------------------------------------------
(* The invariant.                                                          *)

(***************************************************************************)
(* The initial states have the invariant.                                  *)
(***************************************************************************)
LEMMA InitIInv == Init => IInv
<1> SUFFICES ASSUME Init PROVE IInv
  OBVIOUS
<1>1. /\ shell \in Processes(ShellPlaces) /\ child \in Processes(ChildPlaces)
      /\ history \in Seq(Lines) /\ screen \in Seq(Messages) /\ Len(history) = 0
  BY ProcessType, EmptySeq DEF Init, ShellPlaces, ChildPlaces
<1>2. TypeOK
  BY <1>1 DEF TypeOK, Init
<1>3. HistoryInv
  BY <1>1, MaxLinesAssumption DEF HistoryInv, Init, Process
<1>4. ShellInv /\ ChildInv
  BY DEF ShellInv, ChildInv, ChildAlive, Init, Process
<1> QED BY <1>2, <1>3, <1>4 DEF IInv

(***************************************************************************)
(* A child that does not live has nothing to keep.                         *)
(***************************************************************************)
LEMMA NoChild ==
    ASSUME IInv, ~ChildAlive, child' = child, tty' = tty
    PROVE  ChildInv'
<1>1. child.pc \in {"unborn", "exited"} /\ child.pc = "exited" => child.heap = {}
  BY DEF IInv, ChildInv, ChildAlive
<1> QED BY <1>1 DEF IInv, ChildInv, ChildAlive

(***************************************************************************)
(* A child that lives is not touched by a step of the shell that stays in  *)
(* parent_work.                                                            *)
(***************************************************************************)
LEMMA OtherChild ==
    ASSUME IInv, child' = child, UNCHANGED <<program, tty>>, SameLine,
           shell'.pc \in {"close", "wait"}
    PROVE  ChildInv'
BY SameLineSameSets DEF IInv, ChildInv, ChildAlive, SameLine

(***************************************************************************)
(* A step of the child leaves the shell alone.                             *)
(***************************************************************************)
LEMMA OtherShell ==
    ASSUME IInv, history # <<>>, history' # <<>>, shell' = shell, UNCHANGED <<program, tty>>, SameLine
    PROVE  HistoryInv' /\ ShellInv'
<1>1. HistoryInv'
  BY DEF IInv, HistoryInv, SameLine
<1>2. ShellInv'
  BY SameLineSameSets DEF IInv, ShellInv, SameLine
<1> QED BY <1>1, <1>2

(***************************************************************************)
(* An empty history has no line.                                           *)
(***************************************************************************)
LEMMA SomeLine ==
    ASSUME IInv, shell.pc # "prompt"
    PROVE  /\ history # <<>> /\ Len(history) \in 1 .. MaxLines + 1 /\ line \in Lines
           /\ shell.pc # "exited" => Len(history) <= MaxLines
<1>1. Len(history) \in Nat /\ Len(history) > 0 /\ Len(history) <= MaxLines + 1
  BY LenProperties DEF IInv, TypeOK, HistoryInv
<1>2. history # <<>>
  BY <1>1, EmptySeq
<1>3. line \in Lines
  BY <1>1, ElementOfSeq DEF IInv, TypeOK, line
<1> QED BY <1>1, <1>2, <1>3, MaxLinesAssumption DEF IInv, HistoryInv

(***************************************************************************)
(* The shell is done with a line: it prompts or it exits, and has freed    *)
(* what it allocated.                                                      *)
(***************************************************************************)
LEMMA ShellDone ==
    ASSUME IInv, shell.pc \notin {"prompt", "exited"}, ~ChildAlive, child' = child,
           UNCHANGED <<program, tty>>, history' \in Seq(Lines), SameLine,
           screen' \in Seq(Messages), shell' \in Processes(ShellPlaces),
           shell'.pc \in {"prompt", "exited"}, shell'.heap = {}, shell'.pc = "prompt" => shell'.fds = {},
           shell'.stdin = "inherited", shell'.stdout = "inherited", tty => shell'.buffer = <<>>
    PROVE  IInv'
<1>1. history # <<>> /\ Len(history) \in 1 .. MaxLines + 1 /\ Len(history) <= MaxLines
  BY SomeLine
<1>2. TypeOK'
  BY DEF IInv, TypeOK
<1>3. HistoryInv'
  BY <1>1 DEF IInv, HistoryInv, SameLine
<1>4. ShellInv'
  BY DEF ShellInv
<1> QED BY <1>2, <1>3, <1>4, NoChild DEF IInv

(***************************************************************************)
(* The shell goes on with a line before it forks.                          *)
(***************************************************************************)
LEMMA ShellGoesOn ==
    ASSUME IInv, shell.pc \notin {"prompt", "exited"}, ~ChildAlive, child' = child,
           UNCHANGED <<program, tty, history, screen>>, shell' \in Processes(ShellPlaces),
           shell'.pc \in {"open_in", "open_out", "fork"},
           shell'.stdin = shell.stdin, shell'.stdout = shell.stdout, shell'.buffer = shell.buffer,
           line.kind = "run", program = "Shell_1" => shell'.pc = "fork",
           ShellInv'
    PROVE  IInv'
<1>1. history # <<>> /\ Len(history) \in 1 .. MaxLines + 1 /\ Len(history) <= MaxLines
  BY SomeLine
<1>2. line' = line
  BY DEF line
<1>3. TypeOK'
  BY DEF IInv, TypeOK
<1>4. HistoryInv'
  BY <1>1, <1>2 DEF IInv, HistoryInv
<1> QED BY <1>3, <1>4, NoChild DEF IInv

(***************************************************************************)
(* main reads a line.                                                      *)
(***************************************************************************)
LEMMA MainStep == IInv /\ (get_user_line \/ EndOfInput) => IInv'
<1> SUFFICES ASSUME IInv, get_user_line \/ EndOfInput PROVE IInv'
  OBVIOUS
<1>0. shell.pc = "prompt"
  BY Zenon DEF get_user_line, EndOfInput
<1>1. shell.pc = "prompt" /\ TypeOK /\ Len(history) \in 0 .. MaxLines /\ MaxLines \in Nat
  BY <1>0, LenProperties, MaxLinesAssumption DEF IInv, TypeOK, HistoryInv
<1>2. /\ shell.heap = {} /\ shell.fds = {} /\ shell.stdin = "inherited"
      /\ shell.stdout = "inherited" /\ (tty => shell.buffer = <<>>)
      /\ shell \in Processes(ShellPlaces) /\ screen \in Seq(Messages) /\ shell.buffer \in Seq(Messages)
  BY <1>1 DEF IInv, ShellInv, TypeOK, Processes
<1>3. UNCHANGED <<program, tty>>
  BY Zenon DEF get_user_line, EndOfInput
<1>4. Len(history) + 1 \in 1 .. MaxLines + 1
  BY <1>1
<1>5. CASE get_user_line
  <2>0. Len(history) < MaxLines
    BY <1>5, Zenon DEF get_user_line
  <2>1. PICK l \in Typable :
           /\ l.kind # "eof" /\ history' = Append(history, l)
           /\ PrintAndGoOn([shell EXCEPT !.pc = "exec_command", !.heap = Tokens(l)],
                           <<[line |-> Len(history) + 1, text |-> "$ "]>>)
    BY <1>5, Zenon DEF get_user_line
  <2>2. l \in Lines /\ l.kind \in {"empty", "wrong", "run"}
        /\ (program = "Shell_1" => ~l.input_redir /\ ~l.output_redir /\ l.kind # "wrong")
    BY <2>1 DEF Typable, Lines
  <2>3. history' \in Seq(Lines) /\ Len(history') = Len(history) + 1 /\ line' = l /\ history' # <<>>
    BY <1>1, <2>1, <2>2, AppendLine DEF TypeOK
  <2> DEFINE q == [shell EXCEPT !.pc = "exec_command", !.heap = Tokens(l)]
             m == <<[line |-> Len(history) + 1, text |-> "$ "]>>
  <2>4. /\ q \in Processes(ShellPlaces) /\ q.pc = "exec_command" /\ q.heap = Tokens(l)
        /\ q.fds = {} /\ q.stdin = "inherited" /\ q.stdout = "inherited" /\ q.buffer = shell.buffer
    BY <1>2 DEF Processes, ShellPlaces, Tokens, Blocks
  <2>5. m \in Seq(Messages)
    BY <1>4, OneMessage DEF Texts
  <2>6. PrintAndGoOn(q, m)
    BY <2>1
  <2> HIDE DEF q, m
  <2>7. /\ shell' \in Processes(ShellPlaces) /\ screen' \in Seq(Messages)
        /\ shell'.pc = "exec_command" /\ shell'.heap = Tokens(l) /\ shell'.fds = {}
        /\ shell'.stdin = "inherited" /\ shell'.stdout = "inherited" /\ (tty => shell'.buffer = <<>>)
    BY <1>2, <2>4, <2>5, <2>6, Printed
  <2>8. child' = Process("unborn")
    BY <1>5 DEF get_user_line
  <2>9. TypeOK'
    BY <1>1, <1>3, <2>3, <2>7, <2>8, ProcessType DEF TypeOK, ChildPlaces
  <2>10. HistoryInv'
    BY <1>1, <1>3, <2>0, <2>2, <2>3, <2>7 DEF HistoryInv
  <2>11. ShellInv' /\ ChildInv'
    BY <1>3, <2>3, <2>7, <2>8 DEF ShellInv, ChildInv, ChildAlive, Process, Tokens
  <2> QED BY <2>9, <2>10, <2>11 DEF IInv
<1>6. CASE EndOfInput
  <2>1. PICK l \in Typable : l.kind = "eof" /\ history' = Append(history, l)
    BY <1>6 DEF EndOfInput
  <2>2. l \in Lines /\ ~l.input_redir /\ ~l.output_redir
    BY <2>1 DEF Typable
  <2>3. history' \in Seq(Lines) /\ Len(history') = Len(history) + 1 /\ line' = l /\ history' # <<>>
    BY <1>1, <2>1, <2>2, AppendLine DEF TypeOK
  <2>4. /\ shell' \in Processes(ShellPlaces)
        /\ shell'.pc = "exited" /\ shell'.heap = {} /\ shell'.fds = {} /\ shell'.buffer = <<>>
        /\ shell'.stdin = "inherited" /\ shell'.stdout = "inherited"
    BY <1>1, <1>2, <1>6, ExitProcess DEF EndOfInput, ShellPlaces
  <2>5. screen' \in Seq(Messages)
    <3> DEFINE a == [line |-> Len(history) + 1, text |-> "$ "]
               b == [line |-> Len(history) + 1, text |-> "\n"]
    <3>1. a \in Messages /\ b \in Messages
      BY <1>4 DEF Messages, Texts
    <3> HIDE DEF a, b
    <3>2. <<a, b>> \in Seq(Messages)
      BY <3>1
    <3>3. screen \o shell.buffer \in Seq(Messages)
      BY <1>2, ConcatProperties
    <3>4. (screen \o shell.buffer) \o <<a, b>> \in Seq(Messages)
      BY <3>2, <3>3, ConcatProperties
    <3> QED BY <1>6, <3>4 DEF EndOfInput, a, b
  <2>6. child' = child
    BY <1>6 DEF EndOfInput
  <2>7. TypeOK'
    BY <1>1, <1>3, <2>3, <2>4, <2>5, <2>6 DEF TypeOK
  <2>8. HistoryInv'
    BY <1>1, <1>3, <2>2, <2>3, <2>4 DEF HistoryInv
  <2>9. ShellInv'
    BY <2>4 DEF ShellInv
  <2>10. ~ChildAlive
    BY <1>1 DEF IInv, ChildInv
  <2> QED BY <1>3, <2>6, <2>7, <2>8, <2>9, <2>10, NoChild DEF IInv
<1> QED BY <1>5, <1>6

(***************************************************************************)
(* EXIT_FAIL and the end of parent_work in Shell_1 free the arguments and  *)
(* then the tokens.                                                        *)
(***************************************************************************)
LEMMA FreeArguments_1 ==
    ASSUME NEW P, NEW p \in Processes(P), p.heap = Arguments, line.kind = "run"
    PROVE  LET q == tokenizer_free(FREE_ARGUMENTS_1(p))
           IN  /\ q \in Processes(P) /\ q.pc = p.pc /\ q.heap = {} /\ q.fds = p.fds
               /\ q.stdin = p.stdin /\ q.stdout = p.stdout /\ q.buffer = p.buffer
<1> DEFINE r == FREE_ARGUMENTS_1(p)
<1>1. /\ r \in Processes(P) /\ r.pc = p.pc /\ r.heap = {"tokens"} /\ r.fds = p.fds
      /\ r.stdin = p.stdin /\ r.stdout = p.stdout /\ r.buffer = p.buffer
  BY FreeBlocks DEF FREE_ARGUMENTS_1, Arguments
<1>2. Tokens(line) = {"tokens"}
  BY DEF Tokens
<1> HIDE DEF r
<1> QED BY <1>1, <1>2, FreeBlocks DEF tokenizer_free, r

\* EXIT_FAIL_1 frees what the child holds and ends it.
LEMMA ExitFail_1 ==
    ASSUME NEW P, "exited" \in P, NEW p \in Processes(P), p.pc # "aborted",
           p.heap = Arguments, line.kind = "run"
    PROVE  /\ EXIT_FAIL_1(p) \in Processes(P)
           /\ EXIT_FAIL_1(p).pc = "exited" /\ EXIT_FAIL_1(p).heap = {}
           /\ EXIT_FAIL_1(p).stdin = p.stdin /\ EXIT_FAIL_1(p).stdout = p.stdout
           /\ EXIT_FAIL_1(p).buffer = <<>>
<1> DEFINE q == tokenizer_free(FREE_ARGUMENTS_1(p))
<1>1. /\ q \in Processes(P) /\ q.pc = p.pc /\ q.heap = {}
      /\ q.stdin = p.stdin /\ q.stdout = p.stdout
  BY FreeArguments_1
<1>2. EXIT_FAIL_1(p) = Exit(q)
  BY DEF EXIT_FAIL_1
<1> HIDE DEF q
<1> QED BY <1>1, <1>2, ExitProcess

(***************************************************************************)
(* The way back to the prompt.                                             *)
(***************************************************************************)
LEMMA Prompted ==
    ASSUME NEW p \in Processes(ShellPlaces), p.pc \notin {"exited", "aborted"}
    PROVE  /\ Prompt(p) \in Processes(ShellPlaces)
           /\ Prompt(p).pc = "prompt" /\ Prompt(p).heap = p.heap /\ Prompt(p).fds = p.fds
           /\ Prompt(p).stdin = p.stdin /\ Prompt(p).stdout = p.stdout
           /\ Prompt(p).buffer = p.buffer
BY DEF Prompt, Gone, Processes, ShellPlaces

(***************************************************************************)
(* When stdout is the terminal the buffer is empty, and what is printed is *)
(* written.                                                                *)
(***************************************************************************)
LEMMA ShellExitsType ==
    ASSUME TypeOK, NEW q, ShellExits(q)
    PROVE  shell' = q /\ screen' \in Seq(Messages)
BY WrittenType DEF ShellExits, TypeOK, Processes

----------------------------------------------------------------------------
(* 01_Shell_1.c                                                            *)

(***************************************************************************)
(* What IInv says of the shell at the places of Shell_1.                   *)
(***************************************************************************)
LEMMA ShellState ==
    ASSUME IInv
    PROVE  /\ TypeOK /\ shell \in Processes(ShellPlaces) /\ shell.stdin = "inherited"
           /\ shell.stdout = "inherited" /\ (tty => shell.buffer = <<>>)
           /\ history \in Seq(Lines) /\ screen \in Seq(Messages)
           /\ shell.pc \notin {"close", "wait"} => ~ChildAlive
BY DEF IInv, TypeOK, ShellInv, ChildInv

(***************************************************************************)
(* Every step of Shell_1 in the parent keeps the invariant.                *)
(***************************************************************************)
LEMMA Shell1Step ==
    IInv /\ (exec_command_1 \/ FORK_1 \/ FORK_1_fails \/ WAIT_CHILD_1 \/ WAIT_CHILD_1_fails) => IInv'
<1>1. ASSUME IInv, exec_command_1 PROVE IInv'
  <2>1. /\ program = "Shell_1" /\ shell.pc = "exec_command" /\ line.kind \in {"empty", "run"}
        /\ shell.heap = Tokens(line) /\ shell.fds = {} /\ ~ChildAlive
        /\ ~line.input_redir /\ ~line.output_redir
    BY <1>1, ShellState, SomeLine DEF exec_command_1, IInv, HistoryInv, ShellInv
  <2>2. UNCHANGED <<program, tty, history, child, screen>> /\ SameLine
    BY <1>1 DEF exec_command_1, SameLine, line
  <2>3. CASE line.kind = "empty"
    <3> DEFINE q == tokenizer_free(shell)
    <3>1. /\ q \in Processes(ShellPlaces) /\ q.pc = shell.pc /\ q.heap = {} /\ q.fds = {}
          /\ q.stdin = shell.stdin /\ q.stdout = shell.stdout /\ q.buffer = shell.buffer
      BY <1>1, <2>1, ShellState, FreeBlocks DEF tokenizer_free
    <3>2. shell' = Prompt(q)
      BY <1>1, <2>3 DEF exec_command_1
    <3> HIDE DEF q
    <3>3. /\ shell' \in Processes(ShellPlaces) /\ shell'.pc = "prompt" /\ shell'.heap = {}
          /\ shell'.fds = {} /\ shell'.stdin = "inherited" /\ shell'.stdout = "inherited"
          /\ (tty => shell'.buffer = <<>>)
      BY <1>1, <2>1, <3>1, <3>2, Prompted, ShellState
    <3> QED BY <1>1, <2>1, <2>2, <3>3, ShellState, ShellDone
  <2>4. CASE line.kind = "run"
    <3>1. /\ shell' \in Processes(ShellPlaces) /\ shell'.pc = "fork"
          /\ shell'.heap = Arguments /\ shell'.fds = {} /\ shell'.stdin = shell.stdin
          /\ shell'.stdout = shell.stdout /\ shell'.buffer = shell.buffer
      BY <1>1, <2>1, <2>4, ShellState
      DEF exec_command_1, Processes, ShellPlaces, Tokens, Arguments, Blocks
    <3>2. Redirections' = {} /\ FileNames' = {}
      BY <2>1, <2>2, SameLineSameSets DEF Redirections, FileNames
    <3>3. ShellInv'
      BY <1>1, <2>2, <3>1, <3>2, ShellState DEF ShellInv, Arguments
    <3> QED BY <1>1, <2>1, <2>2, <2>4, <3>1, <3>3, ShellGoesOn
  <2> QED BY <2>1, <2>3, <2>4
<1>2. ASSUME IInv, FORK_1 PROVE IInv'
  <2>1. /\ program = "Shell_1" /\ shell.pc = "fork" /\ line.kind = "run" /\ history # <<>>
        /\ Len(history) <= MaxLines /\ Len(history) \in 1 .. MaxLines + 1
        /\ shell.heap = Arguments \cup FileNames /\ shell.fds = Redirections
        /\ ~line.input_redir /\ ~line.output_redir
    BY <1>2, SomeLine DEF FORK_1, IInv, HistoryInv, ShellInv
  <2>2. UNCHANGED <<program, tty, history, screen>> /\ SameLine
    BY <1>2 DEF FORK_1, SameLine, line
  <2>3. Redirections = {} /\ FileNames = {}
    BY <2>1 DEF Redirections, FileNames
  <2>4. /\ shell' \in Processes(ShellPlaces) /\ child' \in Processes(ChildPlaces)
        /\ shell'.pc = "wait" /\ shell'.heap = Arguments /\ shell'.fds = {}
        /\ shell'.stdin = "inherited" /\ shell'.stdout = "inherited" /\ (tty => shell'.buffer = <<>>)
        /\ child'.pc = "execute" /\ child'.heap = Arguments /\ child'.fds = {}
        /\ child'.stdin = "inherited" /\ child'.stdout = "inherited" /\ (tty => child'.buffer = <<>>)
    BY <1>2, <2>1, <2>3, ShellState DEF FORK_1, Processes, ShellPlaces, ChildPlaces
  <2>5. TypeOK'
    BY <1>2, <2>2, <2>4 DEF IInv, TypeOK
  <2>6. HistoryInv'
    BY <2>1, <2>2, <2>4, MaxLinesAssumption DEF HistoryInv, SameLine
  <2>7. ShellInv'
    BY <2>2, <2>3, <2>4, SameLineSameSets DEF ShellInv
  <2>8. ChildInv'
    <3>1. Saved' = {} /\ ~line'.input_redir /\ ~line'.output_redir
      BY <2>1, <2>2 DEF Saved, SameLine
    <3> QED BY <2>1, <2>2, <2>3, <2>4, <3>1, SameLineSameSets DEF ChildInv, ChildAlive
  <2> QED BY <2>5, <2>6, <2>7, <2>8 DEF IInv
<1>3. ASSUME IInv, FORK_1_fails PROVE IInv'
  <2>1. /\ program = "Shell_1" /\ shell.pc = "fork" /\ line.kind = "run" /\ history # <<>>
        /\ Len(history) > 0
        /\ shell.heap = Arguments /\ ~ChildAlive
    BY <1>3, SomeLine, ShellState DEF FORK_1_fails, IInv, HistoryInv, ShellInv, FileNames
  <2>2. history' \in Seq(Lines) /\ SameLine /\ UNCHANGED <<program, tty, child>>
    <3>1. "fork" \in MayFail /\ Fault("fork") /\ UNCHANGED <<program, tty, child>>
      BY <1>3 DEF FORK_1_fails
    <3>2. history \in Seq(Lines)
      BY <1>3, ShellState
    <3> QED BY <2>1, <3>1, <3>2, FaultKeepsLine
  <2>3. shell' = EXIT_FAIL_1(shell) /\ screen' \in Seq(Messages)
    BY <1>3, ShellState, ShellExitsType DEF FORK_1_fails
  <2>4. /\ shell' \in Processes(ShellPlaces) /\ shell'.pc = "exited" /\ shell'.heap = {}
        /\ shell'.stdin = "inherited" /\ shell'.stdout = "inherited" /\ shell'.buffer = <<>>
    BY <1>3, <2>1, <2>3, ShellState, ExitFail_1 DEF ShellPlaces
  <2> QED BY <1>3, <2>1, <2>2, <2>3, <2>4, ShellDone
<1>4. ASSUME IInv, WAIT_CHILD_1 PROVE IInv'
  <2>1. /\ program = "Shell_1" /\ shell.pc = "wait" /\ line.kind = "run" /\ history # <<>>
        /\ shell.heap = Arguments /\ shell.fds = {} /\ ~ChildAlive
    BY <1>4, SomeLine, ShellState
    DEF WAIT_CHILD_1, IInv, HistoryInv, ShellInv, FileNames, Gone, ChildAlive
  <2>2. UNCHANGED <<program, tty, history, child, screen>> /\ SameLine
    BY <1>4 DEF WAIT_CHILD_1, SameLine, line
  <2> DEFINE q == tokenizer_free(FREE_ARGUMENTS_1(shell))
  <2>3. /\ q \in Processes(ShellPlaces) /\ q.pc = shell.pc /\ q.heap = {} /\ q.fds = shell.fds
        /\ q.stdin = shell.stdin /\ q.stdout = shell.stdout /\ q.buffer = shell.buffer
    BY <1>4, <2>1, ShellState, FreeArguments_1
  <2>4. shell' = Prompt(q)
    BY <1>4 DEF WAIT_CHILD_1
  <2> HIDE DEF q
  <2>5. /\ shell' \in Processes(ShellPlaces) /\ shell'.pc = "prompt" /\ shell'.heap = {}
        /\ shell'.fds = {} /\ shell'.stdin = "inherited" /\ shell'.stdout = "inherited"
        /\ (tty => shell'.buffer = <<>>)
    BY <1>4, <2>1, <2>3, <2>4, Prompted, ShellState
  <2> QED BY <1>4, <2>1, <2>2, <2>5, ShellState, ShellDone
<1>5. ASSUME IInv, WAIT_CHILD_1_fails PROVE IInv'
  <2>1. /\ program = "Shell_1" /\ shell.pc = "wait" /\ line.kind = "run" /\ history # <<>>
        /\ shell.heap = Arguments /\ ~ChildAlive
    BY <1>5, SomeLine, ShellState
    DEF WAIT_CHILD_1_fails, IInv, HistoryInv, ShellInv, FileNames, Gone, ChildAlive
  <2>2. UNCHANGED <<program, tty, history, child>> /\ SameLine
    BY <1>5 DEF WAIT_CHILD_1_fails, SameLine, line
  <2>3. shell' = EXIT_FAIL_1(shell) /\ screen' \in Seq(Messages)
    BY <1>5, ShellState, ShellExitsType DEF WAIT_CHILD_1_fails
  <2>4. /\ shell' \in Processes(ShellPlaces) /\ shell'.pc = "exited" /\ shell'.heap = {}
        /\ shell'.stdin = "inherited" /\ shell'.stdout = "inherited" /\ shell'.buffer = <<>>
    BY <1>5, <2>1, <2>3, ShellState, ExitFail_1 DEF ShellPlaces
  <2> QED BY <1>5, <2>1, <2>2, <2>3, <2>4, ShellState, ShellDone
<1> QED BY <1>1, <1>2, <1>3, <1>4, <1>5
----------------------------------------------------------------------------
(* 02_Shell_2.c                                                            *)

(***************************************************************************)
(* OPEN_FAILURE prints its message and goes back to the prompt.            *)
(***************************************************************************)
LEMMA PrintedAndPrompted ==
    ASSUME IInv, shell.pc \notin {"prompt", "exited"}, ~ChildAlive, child' = child,
           UNCHANGED <<program, tty>>, history' \in Seq(Lines), SameLine,
           NEW q \in Processes(ShellPlaces), q.pc \notin {"exited", "aborted"},
           q.heap = {}, q.fds = {}, q.stdin = "inherited", q.stdout = "inherited",
           tty => q.buffer = <<>>,
           NEW text \in Texts, PrintAndGoOn(Prompt(q), <<Message(text)>>)
    PROVE  IInv'
<1> DEFINE p == Prompt(q)
           m == <<Message(text)>>
<1>1. /\ p \in Processes(ShellPlaces) /\ p.pc = "prompt" /\ p.heap = {} /\ p.fds = {}
      /\ p.stdin = "inherited" /\ p.stdout = "inherited" /\ (tty => p.buffer = <<>>)
  BY Prompted
<1>2. m \in Seq(Messages)
  <2>1. Len(history) \in 1 .. MaxLines + 1
    BY SomeLine
  <2> QED BY <2>1, OneMessage DEF Message
<1>3. PrintAndGoOn(p, m) /\ screen \in Seq(Messages)
  BY ShellState
<1> HIDE DEF p, m
<1>4. /\ shell' \in Processes(ShellPlaces) /\ screen' \in Seq(Messages)
      /\ shell'.pc = "prompt" /\ shell'.heap = {} /\ shell'.fds = {}
      /\ shell'.stdin = "inherited" /\ shell'.stdout = "inherited" /\ (tty => shell'.buffer = <<>>)
  BY <1>1, <1>2, <1>3, Printed
<1> QED BY <1>4, ShellDone

(***************************************************************************)
(* CHECK_EMPTY, CHECK_SYNTAX, ALLOCATE_ARGUMENTS and the two OPENs keep    *)
(* the invariant.                                                          *)
(***************************************************************************)
LEMMA OpenStep ==
    IInv /\ (exec_command_2 \/ OPEN_input \/ INPUT_OPEN_FAILURE \/ OPEN_output \/ OUTPUT_OPEN_FAILURE)
        => IInv'
<1>1. ASSUME IInv, exec_command_2 PROVE IInv'
  <2>1. /\ program = "Shell_2" /\ shell.pc = "exec_command"
        /\ line.kind \in {"empty", "wrong", "run"}
        /\ shell.heap = Tokens(line) /\ shell.fds = {} /\ ~ChildAlive
    BY <1>1, ShellState DEF exec_command_2, IInv, HistoryInv, ShellInv
  <2>2. UNCHANGED <<program, tty, history, child>> /\ SameLine /\ history' \in Seq(Lines)
    BY <1>1, ShellState DEF exec_command_2, SameLine, line
  <2> DEFINE q == tokenizer_free(shell)
  <2>3. /\ q \in Processes(ShellPlaces) /\ q.pc = "exec_command" /\ q.heap = {} /\ q.fds = {}
        /\ q.stdin = "inherited" /\ q.stdout = "inherited" /\ (tty => q.buffer = <<>>)
    BY <1>1, <2>1, ShellState, FreeBlocks DEF tokenizer_free
  <2>4. CASE line.kind = "empty"
    <3>1. shell' = Prompt(q) /\ screen' = screen
      BY <1>1, <2>4 DEF exec_command_2
    <3> HIDE DEF q
    <3>2. /\ shell' \in Processes(ShellPlaces) /\ shell'.pc = "prompt" /\ shell'.heap = {}
          /\ shell'.fds = {} /\ shell'.stdin = "inherited" /\ shell'.stdout = "inherited"
          /\ (tty => shell'.buffer = <<>>)
      BY <2>3, <3>1, Prompted
    <3> QED BY <1>1, <2>1, <2>2, <3>1, <3>2, ShellState, ShellDone
  <2>5. CASE line.kind = "wrong"
    <3>1. PrintAndGoOn(Prompt(q), <<Message("Syntax error\n")>>)
      BY <1>1, <2>5 DEF exec_command_2
    <3> HIDE DEF q
    <3>2. "Syntax error\n" \in Texts
      BY DEF Texts
    <3> QED BY <1>1, <2>1, <2>2, <2>3, <3>1, <3>2, PrintedAndPrompted
  <2>6. CASE line.kind = "run"
    <3>1. screen' = screen /\ shell' = [shell EXCEPT !.pc = "open_in", !.heap = @ \cup {"argument_list"}]
      BY <1>1, <2>6 DEF exec_command_2
    <3>2. /\ shell' \in Processes(ShellPlaces) /\ shell'.pc = "open_in"
          /\ shell'.heap = Arguments /\ shell'.fds = {} /\ shell'.stdin = shell.stdin
          /\ shell'.stdout = shell.stdout /\ shell'.buffer = shell.buffer
      BY <1>1, <2>1, <2>6, <3>1, ShellState DEF Processes, ShellPlaces, Tokens, Arguments, Blocks
    <3>3. ShellInv'
      BY <1>1, <2>2, <3>2, ShellState DEF ShellInv
    <3> QED BY <1>1, <2>1, <2>2, <2>6, <3>1, <3>2, <3>3, ShellGoesOn
  <2> QED BY <2>1, <2>4, <2>5, <2>6
<1>2. ASSUME IInv, OPEN_input PROVE IInv'
  <2>1. /\ program # "Shell_1" /\ shell.pc = "open_in" /\ line.kind = "run" /\ ~ChildAlive
        /\ shell.heap = Arguments /\ shell.fds = {}
    BY <1>2, ShellState DEF OPEN_input, IInv, HistoryInv, ShellInv
  <2>2. UNCHANGED <<program, tty, history, child, screen>> /\ line' = line
    BY <1>2 DEF OPEN_input, line
  <2>3. /\ shell' \in Processes(ShellPlaces) /\ shell'.pc = "open_out"
        /\ shell'.heap = Arguments \cup IF line.input_redir THEN {"in_file_name"} ELSE {}
        /\ shell'.fds = IF line.input_redir THEN {"in_fd"} ELSE {}
        /\ shell'.stdin = shell.stdin
        /\ shell'.stdout = shell.stdout /\ shell'.buffer = shell.buffer
    BY <1>2, <2>1, ShellState DEF OPEN_input, Processes, ShellPlaces, Blocks, Descriptors
  <2>4. ShellInv'
    BY <1>2, <2>2, <2>3, ShellState DEF ShellInv
  <2> QED BY <1>2, <2>1, <2>2, <2>3, <2>4, ShellGoesOn
<1>3. ASSUME IInv, INPUT_OPEN_FAILURE PROVE IInv'
  <2>1. /\ shell.pc = "open_in" /\ line.input_redir /\ ~ChildAlive
        /\ shell.heap = Arguments /\ shell.fds = {} /\ Len(history) > 0
    BY <1>3, ShellState DEF INPUT_OPEN_FAILURE, IInv, HistoryInv, ShellInv
  <2>2. history' \in Seq(Lines) /\ SameLine /\ UNCHANGED <<program, tty, child>>
    <3>1. "open" \in MayFail /\ Fault("open") /\ UNCHANGED <<program, tty, child>>
      BY <1>3 DEF INPUT_OPEN_FAILURE
    <3>2. history \in Seq(Lines)
      BY <1>3, ShellState
    <3> QED BY <2>1, <3>1, <3>2, FaultKeepsLine
  <2> DEFINE named == [shell EXCEPT !.heap = @ \cup {"in_file_name"}]
             freed == Free(named, {"in_file_name", "tokens", "argument_list"})
  <2>3. PrintAndGoOn(Prompt(freed), <<Message("I/O error\n")>>)
    BY <1>3 DEF INPUT_OPEN_FAILURE
  <2>4. /\ named \in Processes(ShellPlaces) /\ named.pc = "open_in"
        /\ named.heap = {"in_file_name", "tokens", "argument_list"} /\ named.fds = {}
        /\ named.stdin = "inherited" /\ named.stdout = "inherited" /\ named.buffer = shell.buffer
    BY <1>3, <2>1, ShellState DEF Processes, Blocks, Arguments
  <2> HIDE DEF named
  <2>5. /\ freed \in Processes(ShellPlaces) /\ freed.pc = "open_in" /\ freed.heap = {}
        /\ freed.fds = {} /\ freed.stdin = "inherited" /\ freed.stdout = "inherited"
        /\ (tty => freed.buffer = <<>>)
    BY <1>3, <2>4, ShellState, FreeBlocks
  <2> HIDE DEF freed
  <2>6. "I/O error\n" \in Texts
    BY DEF Texts
  <2> QED BY <1>3, <2>1, <2>2, <2>3, <2>5, <2>6, PrintedAndPrompted
<1>4. ASSUME IInv, OPEN_output PROVE IInv'
  <2>1. /\ program # "Shell_1" /\ shell.pc = "open_out" /\ line.kind = "run" /\ ~ChildAlive
        /\ shell.heap = Arguments \cup IF line.input_redir THEN {"in_file_name"} ELSE {}
        /\ shell.fds = IF line.input_redir THEN {"in_fd"} ELSE {}
    BY <1>4, ShellState DEF OPEN_output, IInv, HistoryInv, ShellInv
  <2>2. UNCHANGED <<program, tty, history, child, screen>> /\ line' = line /\ SameLine
    BY <1>4 DEF OPEN_output, line, SameLine
  <2>3. /\ shell' \in Processes(ShellPlaces) /\ shell'.pc = "fork"
        /\ shell'.heap = Arguments \cup FileNames /\ shell'.fds = Redirections
        /\ shell'.stdin = shell.stdin
        /\ shell'.stdout = shell.stdout /\ shell'.buffer = shell.buffer
    BY <1>4, <2>1, ShellState
    DEF OPEN_output, Processes, ShellPlaces, Blocks, Descriptors, FileNames, Redirections
  <2>4. ShellInv'
    BY <1>4, <2>2, <2>3, ShellState, SameLineSameSets DEF ShellInv
  <2> QED BY <1>4, <2>1, <2>2, <2>3, <2>4, ShellGoesOn
<1>5. ASSUME IInv, OUTPUT_OPEN_FAILURE PROVE IInv'
  <2>1. /\ shell.pc = "open_out" /\ line.output_redir /\ ~ChildAlive
        /\ shell.heap = Arguments \cup IF line.input_redir THEN {"in_file_name"} ELSE {}
        /\ shell.fds = (IF line.input_redir THEN {"in_fd"} ELSE {})
        /\ Len(history) > 0
    BY <1>5, ShellState DEF OUTPUT_OPEN_FAILURE, IInv, HistoryInv, ShellInv
  <2>2. history' \in Seq(Lines) /\ SameLine /\ UNCHANGED <<program, tty, child>>
    <3>1. "open" \in MayFail /\ Fault("open") /\ UNCHANGED <<program, tty, child>>
      BY <1>5 DEF OUTPUT_OPEN_FAILURE
    <3>2. history \in Seq(Lines)
      BY <1>5, ShellState
    <3> QED BY <2>1, <3>1, <3>2, FaultKeepsLine
  <2> DEFINE named == [shell EXCEPT !.heap = @ \cup {"out_file_name"}]
             closed == CLOSE_INPUT(named)
             freed == FREE_MEMORY(closed)
  <2>3. /\ named \in Processes(ShellPlaces) /\ named.pc = "open_out"
        /\ named.heap = Arguments \cup FileNames
        /\ named.fds = (IF line.input_redir THEN {"in_fd"} ELSE {})
        /\ named.stdin = "inherited" /\ named.stdout = "inherited" /\ named.buffer = shell.buffer
    BY <1>5, <2>1, ShellState DEF Processes, Blocks, FileNames
  <2> HIDE DEF named
  <2>4. /\ closed \in Processes(ShellPlaces) /\ closed.pc = "open_out"
        /\ closed.heap = Arguments \cup FileNames /\ closed.fds = {}
        /\ closed.stdin = "inherited" /\ closed.stdout = "inherited"
        /\ closed.buffer = shell.buffer
    BY <2>3 DEF CLOSE_INPUT, Processes
  <2>5. PrintAndGoOn(Prompt(IF Gone(closed) THEN closed ELSE freed), <<Message("I/O error\n")>>)
    BY <1>5 DEF OUTPUT_OPEN_FAILURE, named
  <2> HIDE DEF closed
  <2>6. /\ freed \in Processes(ShellPlaces) /\ freed.pc = "open_out" /\ freed.heap = {}
        /\ freed.fds = {} /\ freed.stdin = "inherited" /\ freed.stdout = "inherited"
        /\ (tty => freed.buffer = <<>>)
    BY <1>5, <2>4, ShellState, FreeMemory
  <2>7. (IF Gone(closed) THEN closed ELSE freed) = freed
    BY <2>4 DEF Gone
  <2> HIDE DEF freed
  <2>8. "I/O error\n" \in Texts /\ PrintAndGoOn(Prompt(freed), <<Message("I/O error\n")>>)
    BY <2>5, <2>7 DEF Texts
  <2> QED BY <1>5, <2>1, <2>2, <2>6, <2>8, PrintedAndPrompted
<1> QED BY <1>1, <1>2, <1>3, <1>4, <1>5

(***************************************************************************)
(* CLOSE of files that are open closes them and cannot fail.               *)
(***************************************************************************)
LEMMA CloseFiles ==
    ASSUME NEW P, NEW p \in Processes(P), Redirections \subseteq p.fds
    PROVE  /\ CLOSE(p) \in Processes(P) /\ CLOSE(p).pc = p.pc /\ CLOSE(p).heap = p.heap
           /\ CLOSE(p).fds = p.fds \ Redirections
           /\ CLOSE(p).stdin = p.stdin /\ CLOSE(p).stdout = p.stdout /\ CLOSE(p).buffer = p.buffer
BY DEF CLOSE, Processes

(***************************************************************************)
(* FORK, CLOSE and WAIT_CHILD in the parent keep the invariant.            *)
(***************************************************************************)
LEMMA ParentStep ==
    IInv /\ (FORK_2 \/ FORK_2_fails \/ parent_CLOSE \/ WAIT_CHILD_2 \/ WAIT_CHILD_2_fails) => IInv'
<1>1. ASSUME IInv, FORK_2 PROVE IInv'
  <2>1. /\ program = "Shell_2" /\ shell.pc = "fork" /\ line.kind = "run" /\ history # <<>>
        /\ Len(history) <= MaxLines /\ Len(history) \in 1 .. MaxLines + 1
        /\ shell.heap = Arguments \cup FileNames /\ shell.fds = Redirections
    BY <1>1, SomeLine DEF FORK_2, IInv, HistoryInv, ShellInv
  <2>2. UNCHANGED <<program, tty, history, screen>> /\ SameLine
    BY <1>1 DEF FORK_2, SameLine, line
  <2>3. /\ shell' \in Processes(ShellPlaces) /\ child' \in Processes(ChildPlaces)
        /\ shell'.pc = "close" /\ shell'.heap = Arguments \cup FileNames /\ shell'.fds = Redirections
        /\ shell'.stdin = "inherited" /\ shell'.stdout = "inherited" /\ (tty => shell'.buffer = <<>>)
        /\ child'.pc = "save_stdout" /\ child'.heap = Arguments \cup FileNames
        /\ child'.fds = Redirections
        /\ child'.stdin = "inherited" /\ child'.stdout = "inherited" /\ (tty => child'.buffer = <<>>)
    BY <1>1, <2>1, ShellState DEF FORK_2, Processes, ShellPlaces, ChildPlaces
  <2>4. TypeOK'
    BY <1>1, <2>2, <2>3 DEF IInv, TypeOK
  <2>5. HistoryInv'
    BY <2>1, <2>2, <2>3, MaxLinesAssumption DEF HistoryInv, SameLine
  <2>6. ShellInv'
    BY <2>2, <2>3, SameLineSameSets DEF ShellInv
  <2>7. ChildInv'
    BY <2>1, <2>2, <2>3, SameLineSameSets DEF ChildInv, ChildAlive
  <2> QED BY <2>4, <2>5, <2>6, <2>7 DEF IInv
<1>2. ASSUME IInv, FORK_2_fails PROVE IInv'
  <2>1. /\ shell.pc = "fork" /\ Len(history) > 0
        /\ shell.heap = Arguments \cup FileNames /\ ~ChildAlive
    BY <1>2, ShellState DEF FORK_2_fails, IInv, HistoryInv, ShellInv
  <2>2. history' \in Seq(Lines) /\ SameLine /\ UNCHANGED <<program, tty, child>>
    <3>1. "fork" \in MayFail /\ Fault("fork") /\ UNCHANGED <<program, tty, child>>
      BY <1>2 DEF FORK_2_fails
    <3>2. history \in Seq(Lines)
      BY <1>2, ShellState
    <3> QED BY <2>1, <3>1, <3>2, FaultKeepsLine
  <2>3. shell' = EXIT_FAIL_2(shell) /\ screen' \in Seq(Messages)
    BY <1>2, ShellState, ShellExitsType DEF FORK_2_fails
  <2>4. /\ shell' \in Processes(ShellPlaces) /\ shell'.pc = "exited" /\ shell'.heap = {}
        /\ shell'.stdin = "inherited" /\ shell'.stdout = "inherited" /\ shell'.buffer = <<>>
    BY <1>2, <2>1, <2>3, ShellState, ExitFail DEF ShellPlaces
  <2> QED BY <1>2, <2>1, <2>2, <2>3, <2>4, ShellDone
<1>3. ASSUME IInv, parent_CLOSE PROVE IInv'
  <2>1. /\ program # "Shell_1" /\ shell.pc = "close" /\ line.kind = "run" /\ history # <<>>
        /\ Len(history) <= MaxLines /\ Len(history) \in 1 .. MaxLines + 1
        /\ shell.heap = Arguments \cup FileNames /\ shell.fds = Redirections
    BY <1>3, SomeLine DEF parent_CLOSE, IInv, HistoryInv, ShellInv
  <2> DEFINE closed == CLOSE(shell)
  <2>2. /\ closed \in Processes(ShellPlaces) /\ closed.pc = "close"
        /\ closed.heap = Arguments \cup FileNames /\ closed.fds = {}
        /\ closed.stdin = "inherited" /\ closed.stdout = "inherited" /\ closed.buffer = shell.buffer
    BY <1>3, <2>1, ShellState, CloseFiles
  <2>3. shell' = [closed EXCEPT !.pc = "wait"] /\ screen' = screen
    BY <1>3, <2>2 DEF parent_CLOSE, Gone
  <2>4. UNCHANGED <<program, tty, history, child, screen>> /\ SameLine
    BY <1>3, <2>3 DEF parent_CLOSE, SameLine, line
  <2> HIDE DEF closed
  <2>5. /\ shell' \in Processes(ShellPlaces) /\ shell'.pc = "wait"
        /\ shell'.heap = Arguments \cup FileNames /\ shell'.fds = {}
        /\ shell'.stdin = "inherited" /\ shell'.stdout = "inherited" /\ (tty => shell'.buffer = <<>>)
    BY <1>3, <2>2, <2>3, ShellState DEF Processes, ShellPlaces
  <2>6. TypeOK'
    BY <1>3, <2>4, <2>5 DEF IInv, TypeOK
  <2>7. HistoryInv'
    BY <2>1, <2>4, <2>5, MaxLinesAssumption DEF HistoryInv, SameLine
  <2>8. ShellInv'
    BY <2>4, <2>5, SameLineSameSets DEF ShellInv
  <2> QED BY <1>3, <2>4, <2>5, <2>6, <2>7, <2>8, OtherChild DEF IInv
<1>4. ASSUME IInv, WAIT_CHILD_2 PROVE IInv'
  <2>1. /\ shell.pc = "wait" /\ ~ChildAlive
        /\ shell.heap = Arguments \cup FileNames /\ shell.fds = {}
    BY <1>4 DEF WAIT_CHILD_2, IInv, ShellInv, Gone, ChildAlive
  <2>2. UNCHANGED <<program, tty, history, child, screen>> /\ SameLine
    BY <1>4 DEF WAIT_CHILD_2, SameLine, line
  <2> DEFINE q == FREE_MEMORY(shell)
  <2>3. /\ q \in Processes(ShellPlaces) /\ q.pc = shell.pc /\ q.heap = {} /\ q.fds = shell.fds
        /\ q.stdin = shell.stdin /\ q.stdout = shell.stdout /\ q.buffer = shell.buffer
    BY <1>4, <2>1, ShellState, FreeMemory
  <2>4. shell' = Prompt(q)
    BY <1>4 DEF WAIT_CHILD_2
  <2> HIDE DEF q
  <2>5. /\ shell' \in Processes(ShellPlaces) /\ shell'.pc = "prompt" /\ shell'.heap = {}
        /\ shell'.fds = {} /\ shell'.stdin = "inherited" /\ shell'.stdout = "inherited"
        /\ (tty => shell'.buffer = <<>>)
    BY <1>4, <2>1, <2>3, <2>4, Prompted, ShellState
  <2> QED BY <1>4, <2>1, <2>2, <2>5, ShellState, ShellDone
<1>5. ASSUME IInv, WAIT_CHILD_2_fails PROVE IInv'
  <2>1. /\ shell.pc = "wait" /\ ~ChildAlive
        /\ shell.heap = Arguments \cup FileNames
    BY <1>5 DEF WAIT_CHILD_2_fails, IInv, ShellInv, Gone, ChildAlive
  <2>2. UNCHANGED <<program, tty, history, child>> /\ SameLine
    BY <1>5 DEF WAIT_CHILD_2_fails, SameLine, line
  <2>3. shell' = EXIT_FAIL_2(shell) /\ screen' \in Seq(Messages)
    BY <1>5, ShellState, ShellExitsType DEF WAIT_CHILD_2_fails
  <2>4. /\ shell' \in Processes(ShellPlaces) /\ shell'.pc = "exited" /\ shell'.heap = {}
        /\ shell'.stdin = "inherited" /\ shell'.stdout = "inherited" /\ shell'.buffer = <<>>
    BY <1>5, <2>1, <2>3, ShellState, ExitFail DEF ShellPlaces
  <2> QED BY <1>5, <2>1, <2>2, <2>3, <2>4, ShellState, ShellDone
<1> QED BY <1>1, <1>2, <1>3, <1>4, <1>5

----------------------------------------------------------------------------
(* The child.                                                              *)

(***************************************************************************)
(* What IInv says of a living child: the shell is in parent_work, and the  *)
(* line is the one the child was forked for.                               *)
(***************************************************************************)
LEMMA ChildState ==
    ASSUME IInv, ChildAlive
    PROVE  /\ TypeOK /\ child \in Processes(ChildPlaces) /\ (tty => child.buffer = <<>>)
           /\ history \in Seq(Lines) /\ screen \in Seq(Messages) /\ child.buffer \in Seq(Messages)
           /\ shell.pc \in {"close", "wait"} /\ history # <<>>
           /\ Len(history) \in 1 .. MaxLines + 1 /\ Len(history) <= MaxLines
BY SomeLine DEF IInv, TypeOK, ChildInv, Processes

(***************************************************************************)
(* A child that exits has freed what it inherited.                         *)
(***************************************************************************)
LEMMA ChildDone ==
    ASSUME IInv, ChildAlive, shell' = shell, UNCHANGED <<program, tty>>,
           history' \in Seq(Lines), SameLine,
           NEW q \in Processes(ChildPlaces), q.pc = "exited", q.heap = {}, q.buffer = <<>>,
           NEW m \in Seq(Messages), ChildExits(q, m)
    PROVE  IInv'
<1>1. child' = q /\ screen' \in Seq(Messages)
  <2>1. child.buffer \o m \in Seq(Messages)
    BY ChildState, ConcatProperties
  <2> DEFINE all == child.buffer \o m
  <2>2. child' = q /\ screen' = Written(q, all)
    BY DEF ChildExits
  <2>3. screen \in Seq(Messages) /\ all \in Seq(Messages)
    BY <2>1, ChildState
  <2> HIDE DEF all
  <2> QED BY <2>2, <2>3, WrittenType
<1>2. TypeOK'
  BY <1>1 DEF IInv, TypeOK
<1>3. history' # <<>>
  BY ChildState, EmptySeq DEF SameLine
<1>4. HistoryInv' /\ ShellInv'
  BY <1>3, ChildState, OtherShell
<1>5. ChildInv'
  BY <1>1, ChildState DEF ChildInv, ChildAlive
<1> QED BY <1>2, <1>4, <1>5 DEF IInv

(***************************************************************************)
(* A child that goes on.                                                   *)
(***************************************************************************)
LEMMA ChildGoesOn ==
    ASSUME IInv, ChildAlive, UNCHANGED <<program, tty, history, shell, screen>>,
           child' \in Processes(ChildPlaces), ChildInv'
    PROVE  IInv'
<1>1. TypeOK'
  BY DEF IInv, TypeOK
<1>2. HistoryInv' /\ ShellInv'
  BY ChildState, OtherShell DEF SameLine, line
<1> QED BY <1>1, <1>2 DEF IInv

(***************************************************************************)
(* The messages of the child.                                              *)
(***************************************************************************)
LEMMA ChildMessages ==
    ASSUME IInv, ChildAlive
    PROVE  /\ <<Message("Command not found\n")>> \in Seq(Messages)
           /\ <<Message("output")>> \in Seq(Messages)
<1>1. Len(history) \in 1 .. MaxLines + 1
  BY ChildState
<1>2. "Command not found\n" \in Texts /\ "output" \in Texts
  BY DEF Texts
<1> QED BY <1>1, <1>2, OneMessage DEF Message

(***************************************************************************)
(* Every step of the child keeps the invariant.                            *)
(***************************************************************************)
LEMMA ChildStep == IInv /\ Child => IInv'
<1>1. ASSUME IInv, EXECUTE_1 PROVE IInv'
  <2>1. /\ program = "Shell_1" /\ child.pc = "execute" /\ ChildAlive
        /\ UNCHANGED <<program, tty, history, shell>>
    BY <1>1 DEF EXECUTE_1, ChildAlive
  <2>2. /\ child \in Processes(ChildPlaces) /\ line.kind = "run"
        /\ ~line.input_redir /\ ~line.output_redir
    BY <1>1, <2>1, ChildState DEF IInv, HistoryInv
  <2>3. /\ child.heap = Arguments /\ child.fds = {} /\ child.stdin = "inherited"
        /\ child.stdout = "inherited"
    BY <1>1, <2>1, <2>2 DEF IInv, ChildInv, FileNames, Saved
  <2>4. CASE line.found
    <3> DEFINE q == Executed(child)
    <3>1. child' = q /\ screen' = screen
      BY <1>1, <2>4 DEF EXECUTE_1
    <3>2. /\ q \in Processes(ChildPlaces) /\ q.pc = "running" /\ q.heap = {}
          /\ q.fds = {} /\ q.stdin = "inherited" /\ q.stdout = "inherited" /\ q.buffer = <<>>
      BY <2>2, <2>3, EmptySeq DEF Executed, Processes, ChildPlaces
    <3>3. /\ child' \in Processes(ChildPlaces) /\ child'.pc = "running" /\ child'.heap = {}
          /\ child'.fds = {} /\ child'.stdin = "inherited" /\ child'.stdout = "inherited"
          /\ child'.buffer = <<>> /\ screen' = screen
      BY <3>1, <3>2
    <3>4. line' = line /\ shell' = shell
      BY <2>1 DEF line
    <3>5. shell.pc \in {"close", "wait"}
      BY <1>1, <2>1, ChildState
    <3>6. ChildInv'
      BY <2>2, <3>3, <3>4, <3>5 DEF ChildInv
    <3> QED BY <1>1, <2>1, <3>3, <3>6, ChildGoesOn
  <2>5. CASE ~line.found
    <3> DEFINE q == EXIT_FAIL_1(child)
               m == <<Message("Command not found\n")>>
    <3>1. ChildExits(q, m)
      BY <1>1, <2>5 DEF EXECUTE_1
    <3>2. q \in Processes(ChildPlaces) /\ q.pc = "exited" /\ q.heap = {} /\ q.buffer = <<>>
      BY <2>1, <2>2, <2>3, ExitFail_1 DEF ChildPlaces
    <3>3. m \in Seq(Messages) /\ SameLine /\ history' \in Seq(Lines)
      BY <1>1, <2>1, ChildMessages, ChildState DEF SameLine, line
    <3> HIDE DEF q, m
    <3> QED BY <1>1, <2>1, <3>1, <3>2, <3>3, ChildDone
  <2> QED BY <2>4, <2>5
<1>2. ASSUME IInv, SAVE_STDOUT PROVE IInv'
  <2>1. /\ child.pc = "save_stdout" /\ ChildAlive
        /\ UNCHANGED <<program, tty, history, shell, screen>> /\ SameLine
    BY <1>2 DEF SAVE_STDOUT, ChildAlive, SameLine, line
  <2>2. /\ child \in Processes(ChildPlaces) /\ child.fds = Redirections /\ (tty => child.buffer = <<>>)
        /\ child.heap = Arguments \cup FileNames
        /\ child.stdin = "inherited" /\ child.stdout = "inherited" /\ program # "Shell_1"
    BY <1>2, <2>1, ChildState DEF IInv, ChildInv
  <2>3. /\ child' \in Processes(ChildPlaces) /\ child'.pc = "dup2"
        /\ child'.fds = Redirections \cup Saved
        /\ child'.heap = child.heap /\ child'.stdin = child.stdin /\ child'.stdout = child.stdout
        /\ child'.buffer = child.buffer
    BY <1>2, <2>2 DEF SAVE_STDOUT, Processes, ChildPlaces, Descriptors, Saved
  <2>4. ChildInv'
    BY <1>2, <2>1, <2>2, <2>3, ChildState, SameLineSameSets DEF ChildInv, ChildAlive
  <2> QED BY <1>2, <2>1, <2>3, <2>4, ChildGoesOn
<1>3. ASSUME IInv, SAVE_STDOUT_fails PROVE IInv'
  <2>1. /\ child.pc = "save_stdout" /\ ChildAlive /\ UNCHANGED <<program, tty, shell>>
        /\ "dup" \in MayFail /\ Fault("dup") /\ ChildExits(EXIT_FAIL_2(child), <<>>)
    BY <1>3 DEF SAVE_STDOUT_fails, ChildAlive
  <2>2. child \in Processes(ChildPlaces) /\ history \in Seq(Lines) /\ Len(history) > 0
    <3>1. /\ child \in Processes(ChildPlaces) /\ history \in Seq(Lines)
          /\ Len(history) \in 1 .. MaxLines + 1
      BY <1>3, <2>1, ChildState
    <3> QED BY <3>1, MaxLinesAssumption
  <2>6. child.heap = Arguments \cup FileNames
    BY <1>3, <2>1 DEF IInv, ChildInv
  <2>3. history' \in Seq(Lines) /\ SameLine
    BY <2>1, <2>2, FaultKeepsLine
  <2> DEFINE q == EXIT_FAIL_2(child)
  <2>4. q \in Processes(ChildPlaces) /\ q.pc = "exited" /\ q.heap = {} /\ q.buffer = <<>>
    BY <2>1, <2>2, <2>6, ExitFail DEF ChildPlaces
  <2>5. ChildExits(q, <<>>)
    BY <2>1
  <2>7. <<>> \in Seq(Messages)
    BY EmptySeq
  <2> HIDE DEF q
  <2> QED BY <1>3, <2>1, <2>2, <2>3, <2>4, <2>5, <2>7, ChildDone
<1>4. ASSUME IInv, DUP2 PROVE IInv'
  <2>1. /\ child.pc = "dup2" /\ ChildAlive /\ UNCHANGED <<program, tty, history, shell>> /\ SameLine
    BY <1>4 DEF DUP2, ChildAlive, SameLine, line
  <2>2. /\ child \in Processes(ChildPlaces) /\ child.fds = Redirections \cup Saved
        /\ child.heap = Arguments \cup FileNames /\ (tty => child.buffer = <<>>)
        /\ child.stdin = "inherited" /\ child.stdout = "inherited" /\ program # "Shell_1"
    BY <1>4, <2>1, ChildState DEF IInv, ChildInv
  <2>3. /\ child' \in Processes(ChildPlaces) /\ child'.pc = "close"
        /\ child'.fds = child.fds /\ child'.heap = child.heap /\ child'.buffer = child.buffer
        /\ child'.stdin = IF line.input_redir THEN "in_fd" ELSE "inherited"
        /\ child'.stdout = IF line.output_redir THEN "out_fd" ELSE "inherited"
        /\ screen' = screen
    BY <1>4, <2>2 DEF DUP2, Processes, ChildPlaces
  <2>4. ChildInv'
    BY <1>4, <2>1, <2>2, <2>3, ChildState, SameLineSameSets DEF ChildInv, ChildAlive, SameLine
  <2> QED BY <1>4, <2>1, <2>3, <2>4, ChildGoesOn
<1>5. ASSUME IInv, child_CLOSE PROVE IInv'
  <2>1. /\ child.pc = "close" /\ ChildAlive /\ UNCHANGED <<program, tty, history, shell>> /\ SameLine
    BY <1>5 DEF child_CLOSE, ChildAlive, SameLine, line
  <2>2. /\ child \in Processes(ChildPlaces) /\ child.fds = Redirections \cup Saved
        /\ child.heap = Arguments \cup FileNames /\ (tty => child.buffer = <<>>)
        /\ child.stdin = (IF line.input_redir THEN "in_fd" ELSE "inherited")
        /\ child.stdout = (IF line.output_redir THEN "out_fd" ELSE "inherited")
        /\ program # "Shell_1"
    BY <1>5, <2>1, ChildState DEF IInv, ChildInv
  <2> DEFINE closed == CLOSE(child)
  <2>3. /\ closed \in Processes(ChildPlaces) /\ closed.pc = "close" /\ closed.heap = child.heap
        /\ closed.fds = child.fds \ Redirections /\ closed.buffer = child.buffer
        /\ closed.stdin = child.stdin /\ closed.stdout = child.stdout
    BY <2>1, <2>2, CloseFiles
  <2>4. child' = [closed EXCEPT !.pc = "execute"] /\ screen' = screen
    BY <1>5, <2>3 DEF child_CLOSE, Gone
  <2> HIDE DEF closed
  <2>5. closed.fds = Saved
    BY <2>2, <2>3 DEF Redirections, Saved
  <2>6. /\ child' \in Processes(ChildPlaces) /\ child'.pc = "execute" /\ child'.fds = Saved
        /\ child'.heap = child.heap /\ child'.buffer = child.buffer
        /\ child'.stdin = child.stdin /\ child'.stdout = child.stdout
    BY <2>3, <2>4, <2>5 DEF Processes, ChildPlaces
  <2>7. Saved' \subseteq {"saved_stdout_fd"}
    BY DEF Saved
  <2>8. ChildInv'
    BY <1>5, <2>1, <2>2, <2>6, <2>7, ChildState, SameLineSameSets DEF ChildInv, ChildAlive, SameLine
  <2> QED BY <1>5, <2>1, <2>4, <2>6, <2>8, ChildGoesOn
<1>6. ASSUME IInv, EXECUTE_2 PROVE IInv'
  <2>1. /\ child.pc = "execute" /\ ChildAlive /\ UNCHANGED <<program, tty, history, shell>> /\ SameLine
        /\ program = "Shell_2"
    BY <1>6 DEF EXECUTE_2, ChildAlive, SameLine, line
  <2>2. /\ child \in Processes(ChildPlaces) /\ child.fds = Saved
        /\ child.heap = Arguments \cup FileNames
        /\ child.stdin = (IF line.input_redir THEN "in_fd" ELSE "inherited")
        /\ child.stdout = (IF line.output_redir THEN "out_fd" ELSE "inherited")
    BY <1>6, <2>1, ChildState DEF IInv, ChildInv
  <2>3. CASE line.found
    <3>1. child' = Executed(child) /\ screen' = screen
      BY <1>6, <2>3 DEF EXECUTE_2
    <3>2. /\ child' \in Processes(ChildPlaces) /\ child'.pc = "running" /\ child'.heap = {}
          /\ child'.fds = Saved /\ child'.stdin = child.stdin /\ child'.stdout = child.stdout
          /\ child'.buffer = <<>>
      BY <2>2, <3>1, EmptySeq DEF Executed, Processes, ChildPlaces
    <3>3. Saved \subseteq {"saved_stdout_fd"}
      BY DEF Saved
    <3>4. ChildInv'
      BY <1>6, <2>1, <2>2, <3>2, <3>3, ChildState DEF ChildInv, ChildAlive, SameLine
    <3> QED BY <1>6, <2>1, <3>1, <3>2, <3>4, ChildGoesOn
  <2>4. CASE ~line.found
    <3> DEFINE restored == RESTORE_STDOUT(child)
               q == EXIT_FAIL_WITHOUT_CLOSE(restored)
               m == <<Message("Command not found\n")>>
    <3>1. /\ restored \in Processes(ChildPlaces) /\ restored.pc = "execute"
          /\ restored.heap = Arguments \cup FileNames
      BY <2>1, <2>2 DEF RESTORE_STDOUT, Saved, Processes
    <3>2. ChildExits(q, m)
      BY <1>6, <2>4, <3>1 DEF EXECUTE_2, Gone
    <3> HIDE DEF restored
    <3>3. q \in Processes(ChildPlaces) /\ q.pc = "exited" /\ q.heap = {} /\ q.buffer = <<>>
      BY <3>1, ExitFail DEF ChildPlaces
    <3>4. m \in Seq(Messages) /\ history' \in Seq(Lines)
      BY <1>6, <2>1, ChildMessages, ChildState
    <3> HIDE DEF q, m
    <3> QED BY <1>6, <2>1, <3>2, <3>3, <3>4, ChildDone
  <2> QED BY <2>3, <2>4
<1>7. ASSUME IInv, RunProgram PROVE IInv'
  <2>1. /\ child.pc = "running" /\ ChildAlive /\ UNCHANGED <<program, tty, history, shell>> /\ SameLine
    BY <1>7 DEF RunProgram, ChildAlive, SameLine, line
  <2>2. child \in Processes(ChildPlaces) /\ child.heap = {} /\ history' \in Seq(Lines)
    BY <1>7, <2>1, ChildState DEF IInv, ChildInv
  <2> DEFINE q == Exit(child)
             m == <<Message("output")>>
  <2>3. ChildExits(q, m) /\ m \in Seq(Messages)
    BY <1>7, <2>1, ChildMessages DEF RunProgram
  <2>4. q \in Processes(ChildPlaces) /\ q.pc = "exited" /\ q.heap = {} /\ q.buffer = <<>>
    BY <2>1, <2>2, ExitProcess DEF ChildPlaces
  <2> HIDE DEF q, m
  <2> QED BY <1>7, <2>1, <2>2, <2>3, <2>4, ChildDone
<1> QED BY <1>1, <1>2, <1>3, <1>4, <1>5, <1>6, <1>7 DEF Child

----------------------------------------------------------------------------
(* The theorems.                                                           *)

(***************************************************************************)
(* The invariant is inductive.                                             *)
(***************************************************************************)
LEMMA IInvStep == IInv /\ [Next]_vars => IInv'
<1>1. ASSUME IInv, UNCHANGED vars PROVE IInv'
  <2>1. UNCHANGED <<program, tty, history, shell, child, screen>> /\ SameLine
    BY <1>1 DEF vars, SameLine, line
  <2>2. TypeOK'
    BY <1>1, <2>1 DEF IInv, TypeOK
  <2>3. HistoryInv'
    BY <1>1, <2>1 DEF IInv, HistoryInv, line
  <2>4. ShellInv' /\ ChildInv'
    BY <1>1, <2>1, SameLineSameSets DEF IInv, ShellInv, ChildInv, ChildAlive, SameLine
  <2> QED BY <2>2, <2>3, <2>4 DEF IInv
<1>2. ASSUME IInv, Shell PROVE IInv'
  BY <1>2, Shell1Step, OpenStep, ParentStep DEF Shell
<1> QED BY <1>1, <1>2, MainStep, ChildStep DEF Next

(***************************************************************************)
(* At each place the shell and the child have the blocks and descriptors   *)
(* IInv names, and the child lives only while the shell is in parent_work. *)
(***************************************************************************)
THEOREM InvariantCorrect == Spec => []IInv
BY InitIInv, IInvStep, PTL DEF Spec

(***************************************************************************)
(* The processes, the lines and the messages stay within their types.      *)
(***************************************************************************)
THEOREM TypeCorrect == Spec => []TypeOK
<1>1. IInv => TypeOK
  BY DEF IInv
<1> QED BY <1>1, InvariantCorrect, PTL

(***************************************************************************)
(* However many lines are typed and whatever fails, every block is freed   *)
(* exactly once, in the shell and in the child.                            *)
(***************************************************************************)
THEOREM HeapCorrect == Spec => []HeapBalanced
<1>1. IInv => HeapBalanced
  BY DEF IInv, ShellInv, ChildInv, HeapBalanced
<1> QED BY <1>1, InvariantCorrect, PTL

(***************************************************************************)
(* The descriptors of a line do not outlive it in the shell, and a command *)
(* runs with its files as its streams and with no other copy of them.      *)
(***************************************************************************)
THEOREM DescriptorsCorrect == Spec => []DescriptorsBalanced
<1>1. IInv => DescriptorsBalanced
  BY DEF IInv, ShellInv, ChildInv, DescriptorsBalanced
<1> QED BY <1>1, InvariantCorrect, PTL

(***************************************************************************)
(* The child never runs concurrently with the shell's loop: while it lives *)
(* the shell is in parent_work, and on a terminal nothing is left in the   *)
(* buffer that fork copies, so nothing is printed twice.                   *)
(***************************************************************************)
THEOREM NothingToPrintTwice ==
    Spec => [](/\ ChildAlive => shell.pc \in {"close", "wait"}
               /\ tty => shell.buffer = <<>> /\ child.buffer = <<>>)
<1>1. IInv => /\ ChildAlive => shell.pc \in {"close", "wait"}
              /\ tty => shell.buffer = <<>> /\ child.buffer = <<>>
  BY DEF IInv, ShellInv, ChildInv
<1> QED BY <1>1, InvariantCorrect, PTL
----------------------------------------------------------------------------
(* What the user is shown.                                                 *)

Utterances == [line : Nat, text : Texts]

(***************************************************************************)
(* The answer to a line is none or one of the messages.                    *)
(***************************************************************************)
LEMMA AnswerType == ASSUME NEW l \in Lines PROVE Answer(l) \in Seq(Texts)
<1>1. ASSUME NEW t \in Texts PROVE <<t>> \in Seq(Texts)
  BY <1>1
<1>2. <<>> \in Seq(Texts)
  BY EmptySeq
<1>3. /\ "Syntax error\n" \in Texts /\ "\n" \in Texts /\ "I/O error\n" \in Texts
      /\ "Command not found\n" \in Texts /\ "output" \in Texts
  BY Zenon DEF Texts
<1> QED BY <1>1, <1>2, <1>3, Zenon DEF Answer

(***************************************************************************)
(* Messages about a line, and what they are of none and of one text.       *)
(***************************************************************************)
LEMMA SaidType ==
    ASSUME NEW k \in Nat, NEW texts \in Seq(Texts)
    PROVE  Said(k, texts) \in Seq(Utterances)
<1> DEFINE n == Len(texts)
           said == [i \in 1 .. n |-> [line |-> k, text |-> texts[i]]]
<1>1. n \in Nat /\ DOMAIN texts = 1 .. n /\ \A i \in 1 .. n : texts[i] \in Texts
  OBVIOUS
<1>2. said \in [1 .. n -> Utterances]
  BY <1>1 DEF Utterances
<1>3. Said(k, texts) = said
  BY <1>1 DEF Said
<1> HIDE DEF said
<1> QED BY <1>1, <1>2, <1>3, SeqDef

\* No text makes no message.
LEMMA SaidNothing == \A k : Said(k, <<>>) = <<>>
BY DEF Said

\* One text makes one.
LEMMA SaidOnce == \A k, text : Said(k, <<text>>) = <<[line |-> k, text |-> text]>>
BY DEF Said

\* The prompt.
LEMMA AskedType == \A k \in Nat : Asked(k) \in Seq(Utterances)
<1>1. "$ " \in Texts
  BY Zenon DEF Texts
<1>2. ASSUME NEW t \in Texts PROVE <<t>> \in Seq(Texts)
  BY <1>2
<1>3. <<"$ ">> \in Seq(Texts)
  BY <1>1, <1>2, Zenon
<1> QED BY <1>3, SaidType, Zenon DEF Asked

(***************************************************************************)
(* What is shown of one line.                                              *)
(***************************************************************************)
Block(k, l, done) == Asked(k) \o Said(k, IF done THEN Answer(l) ELSE <<>>)

\* A sequence of messages.
LEMMA BlockType ==
    ASSUME NEW k \in Nat, NEW l \in Lines, NEW done \in BOOLEAN
    PROVE  /\ Block(k, l, done) \in Seq(Utterances)
           /\ Block(k, l, TRUE) = Asked(k) \o Said(k, Answer(l))
           /\ Block(k, l, FALSE) = Asked(k)
<1>1. Asked(k) \in Seq(Utterances)
  BY AskedType
<1>2. Said(k, Answer(l)) \in Seq(Utterances)
  BY AnswerType, SaidType
<1>3. Said(k, <<>>) = <<>>
  BY SaidNothing
<1>4. \A a \in Seq(Utterances), b \in Seq(Utterances) : a \o b \in Seq(Utterances) /\ a \o <<>> = a
  OBVIOUS
<1>5. Asked(k) \o Said(k, Answer(l)) \in Seq(Utterances) /\ Asked(k) \o <<>> = Asked(k)
  BY <1>1, <1>2, <1>4
<1> QED BY <1>1, <1>3, <1>5, Zenon DEF Block

(***************************************************************************)
(* A line more: what was shown of the others stays, and each is done.      *)
(***************************************************************************)
LEMMA ConversationAppend ==
    ASSUME NEW h \in Seq(Lines), NEW l \in Lines, NEW done \in BOOLEAN
    PROVE  /\ Conversation(h, TRUE) \in Seq(Utterances)
           /\ Conversation(Append(h, l), done) = Conversation(h, TRUE) \o Block(Len(h) + 1, l, done)
<1> DEFINE n == Len(h)
           V == Seq(Utterances)
           all == Append(h, l)
           old == [k \in 1 .. n |-> Block(k, h[k], TRUE)]
           new == Block(n + 1, l, done)
           shown == [k \in 1 .. n + 1 |-> Block(k, all[k], k < n + 1 \/ done)]
<1>1. n \in Nat /\ DOMAIN h = 1 .. n /\ \A k \in 1 .. n : h[k] \in Lines
  OBVIOUS
<1>2. /\ all \in Seq(Lines) /\ Len(all) = n + 1 /\ DOMAIN all = 1 .. n + 1 /\ all[n + 1] = l
      /\ \A k \in 1 .. n : all[k] = h[k]
  BY AppendProperties
<1>3. new \in V
  <2>1. n + 1 \in Nat
    BY <1>1
  <2> QED BY <2>1, BlockType, Zenon
<1>4. old \in Seq(V)
  <2>1. ASSUME NEW k \in 1 .. n PROVE Block(k, h[k], TRUE) \in V
    <3>1. k \in Nat /\ h[k] \in Lines /\ TRUE \in BOOLEAN
      BY <1>1
    <3> QED BY <3>1, BlockType, Zenon
  <2> HIDE DEF V
  <2>2. old \in [1 .. n -> V]
    BY <2>1
  <2> HIDE DEF old
  <2> QED BY <1>1, <2>2, SeqDef
<1>5. Conversation(h, TRUE) = FlattenSeq(old)
  <2>1. \A k \in DOMAIN h : Asked(k) \o Said(k, IF k < Len(h) \/ TRUE THEN Answer(h[k]) ELSE <<>>)
                              = Block(k, h[k], TRUE)
    BY DEF Block
  <2>2. [k \in DOMAIN h |-> Asked(k) \o Said(k, IF k < Len(h) \/ TRUE THEN Answer(h[k]) ELSE <<>>)]
           = old
    BY <1>1, <2>1
  <2> HIDE DEF old
  <2> QED BY <2>2, Zenon DEF Conversation
<1>6. Conversation(all, done) = FlattenSeq(shown)
  <2>1. \A k \in DOMAIN all : Asked(k) \o Said(k, IF k < Len(all) \/ done THEN Answer(all[k]) ELSE <<>>)
                                = Block(k, all[k], k < n + 1 \/ done)
    BY <1>2 DEF Block
  <2>2. [k \in DOMAIN all |-> Asked(k) \o Said(k, IF k < Len(all) \/ done THEN Answer(all[k]) ELSE <<>>)]
           = shown
    <3> HIDE DEF all
    <3> QED BY <1>2, <2>1
  <2> HIDE DEF shown, all
  <2> QED BY <2>2, Zenon DEF Conversation
<1> HIDE DEF all
<1>7. shown = Append(old, new)
  <2>1. /\ Append(old, new) \in Seq(V) /\ Len(Append(old, new)) = n + 1
        /\ \A k \in 1 .. n : Append(old, new)[k] = old[k]
        /\ Append(old, new)[n + 1] = new
    <3>1. Len(old) = n
      BY <1>1
    <3> HIDE DEF old, new, V
    <3> QED BY <1>3, <1>4, <3>1, AppendProperties
  <2>2. ASSUME NEW k \in 1 .. n + 1 PROVE shown[k] = Append(old, new)[k]
    <3>1. shown[k] = Block(k, all[k], k < n + 1 \/ done)
      OBVIOUS
    <3>2. CASE k <= n
      <4>1. k \in 1 .. n /\ k < n + 1
        BY <1>1, <3>2
      <4>2. Append(old, new)[k] = Block(k, h[k], TRUE) /\ all[k] = h[k]
        BY <1>2, <2>1, <4>1
      <4>3. (k < n + 1 \/ done) = TRUE
        BY <4>1
      <4> QED BY <3>1, <4>2, <4>3
    <3>3. CASE ~(k <= n)
      <4>1. k = n + 1 /\ ~(k < n + 1)
        BY <1>1, <3>3
      <4>2. (k < n + 1 \/ done) = done
        BY <4>1
      <4> HIDE DEF shown, old
      <4> QED BY <1>2, <2>1, <3>1, <4>1, <4>2
    <3> QED BY <3>2, <3>3
  <2>3. shown \in Seq(V) /\ Len(shown) = n + 1
    <3>1. DOMAIN shown = 1 .. n + 1 /\ n + 1 \in Nat
      BY <1>1
    <3>2. ASSUME NEW k \in 1 .. n + 1 PROVE shown[k] \in V
      <4>1. Append(old, new)[k] \in V
        <5> HIDE DEF old, new, V
        <5> QED BY <1>1, <2>1
      <4> QED BY <2>2, <4>1, Zenon
    <3>3. shown = [k \in 1 .. n + 1 |-> shown[k]]
      OBVIOUS
    <3> HIDE DEF shown, V
    <3>4. shown \in [1 .. n + 1 -> V]
      BY <3>2, <3>3
    <3> QED BY <3>1, <3>4, SeqDef
  <2> HIDE DEF old, new, shown, V
  <2> QED BY <2>1, <2>2, <2>3, SeqEqual
<1>8. FlattenSeq(Append(old, new)) = FlattenSeq(old) \o new /\ FlattenSeq(old) \in V
  <2> HIDE DEF old, new
  <2> QED BY <1>3, <1>4, FlattenAppend
<1> HIDE DEF old, new, shown
<1> QED BY <1>5, <1>6, <1>7, <1>8 DEF all, new

(***************************************************************************)
(* A sequence is its beginning and its last element.                       *)
(***************************************************************************)
LEMMA LastAppended ==
    ASSUME NEW S, NEW g \in Seq(S), NEW x \in S, NEW s \in Seq(S),
           Len(s) = Len(g) + 1, s[Len(g) + 1] = x, \A k \in 1 .. Len(g) : s[k] = g[k]
    PROVE  s = Append(g, x)
<1> DEFINE t == Append(g, x)
<1>1. /\ t \in Seq(S) /\ Len(t) = Len(g) + 1 /\ t[Len(g) + 1] = x
      /\ \A k \in 1 .. Len(g) : t[k] = g[k]
  BY AppendProperties
<1>2. Len(g) \in Nat
  OBVIOUS
<1> HIDE DEF t
<1>3. ASSUME NEW k \in 1 .. Len(s) PROVE s[k] = t[k]
  <2>1. k \in 1 .. Len(g) \/ k = Len(g) + 1
    BY <1>2
  <2> QED BY <1>1, <2>1
<1>4. Len(s) = Len(t)
  BY <1>1
<1>5. s = t
  BY <1>1, <1>3, <1>4, SeqEqual, Zenon
<1> QED BY <1>5 DEF t

\* Three parts of what is shown, one after the other.
LEMMA Regroup ==
    \A a, b, c \in Seq(Utterances) : (a \o b) \o c = a \o (b \o c)
<1> TAKE a, b, c \in Seq(Utterances)
<1> QED BY ConcatAssociative

\* Another last element leaves the others as they are.
LEMMA LastReplaced ==
    ASSUME NEW S, NEW s \in Seq(S), Len(s) > 0, NEW x \in S
    PROVE  LET t == [s EXCEPT ![Len(s)] = x]
           IN  /\ t \in Seq(S) /\ Len(t) = Len(s) /\ t[Len(s)] = x
               /\ \A k \in 1 .. Len(s) : k # Len(s) => t[k] = s[k]
<1> DEFINE t == [s EXCEPT ![Len(s)] = x]
<1>1. Len(s) \in 1 .. Len(s)
  OBVIOUS
<1>2. /\ t \in Seq(S) /\ Len(t) = Len(s)
      /\ \A k \in 1 .. Len(s) : t[k] = IF k = Len(s) THEN x ELSE s[k]
  BY <1>1, ExceptSeq
<1> HIDE DEF t
<1>3. t[Len(s)] = x /\ \A k \in 1 .. Len(s) : k # Len(s) => t[k] = s[k]
  BY <1>1, <1>2
<1> QED BY <1>2, <1>3 DEF t

(***************************************************************************)
(* When the last line is done its answer follows what was shown.           *)
(***************************************************************************)
LEMMA ConversationEnds ==
    ASSUME NEW h \in Seq(Lines), Len(h) > 0, NEW l \in Lines,
           NEW h2, h2 = [h EXCEPT ![Len(h)] = l]
    PROVE  /\ Conversation(h, FALSE) \in Seq(Utterances)
           /\ Conversation(h2, TRUE) = Conversation(h, FALSE) \o Said(Len(h), Answer(l))
<1> DEFINE n == Len(h)
           g == [k \in 1 .. n - 1 |-> h[k]]
<1>1. n \in Nat /\ n - 1 \in Nat /\ n \in 1 .. n /\ DOMAIN h = 1 .. n /\ (n - 1) + 1 = n
      /\ \A k \in 1 .. n : h[k] \in Lines
  OBVIOUS
<1>2. g \in Seq(Lines) /\ Len(g) = n - 1
  <2>1. g \in [1 .. n - 1 -> Lines]
    BY <1>1
  <2>2. Len(g) = n - 1
    BY <1>1
  <2> HIDE DEF g
  <2> QED BY <1>1, <2>1, <2>2, SeqDef
<1>3. \A k \in 1 .. n - 1 : k \in 1 .. n /\ k # n /\ g[k] = h[k]
  <2>1. \A k \in 1 .. n - 1 : g[k] = h[k]
    OBVIOUS
  <2> HIDE DEF g, n
  <2>2. n \in Nat
    BY <1>1
  <2>3. \A k \in 1 .. n - 1 : k \in 1 .. n /\ k # n
    BY <2>2
  <2> QED BY <2>1, <2>3
<1> HIDE DEF g
<1>4. h = Append(g, h[n])
  <2>1. h[n] \in Lines /\ Len(h) = Len(g) + 1 /\ h[Len(g) + 1] = h[n]
    BY <1>1, <1>2
  <2> QED BY <1>2, <1>3, <2>1, LastAppended
<1>5. h2 = Append(g, l)
  <2>1. h2 \in Seq(Lines) /\ Len(h2) = n /\ h2[n] = l
        /\ \A k \in 1 .. n : k # n => h2[k] = h[k]
    BY LastReplaced
  <2>2. Len(h2) = Len(g) + 1 /\ h2[Len(g) + 1] = l
    BY <1>1, <1>2, <2>1
  <2>3. \A k \in 1 .. Len(g) : h2[k] = g[k]
    BY <1>2, <1>3, <2>1
  <2> QED BY <1>2, <2>1, <2>2, <2>3, LastAppended
<1> DEFINE c == Conversation(g, TRUE)
<1>6. c \in Seq(Utterances) /\ Conversation(h, FALSE) = c \o Block(n, h[n], FALSE)
  <2>1. FALSE \in BOOLEAN /\ h[n] \in Lines
    BY <1>1
  <2>2. c \in Seq(Utterances)
        /\ Conversation(Append(g, h[n]), FALSE) = c \o Block(Len(g) + 1, h[n], FALSE)
    BY <1>2, <2>1, ConversationAppend
  <2> QED BY <1>1, <1>2, <1>4, <2>2
<1>7. Conversation(h2, TRUE) = c \o Block(n, l, TRUE)
  <2>1. TRUE \in BOOLEAN
    OBVIOUS
  <2>2. Conversation(Append(g, l), TRUE) = c \o Block(Len(g) + 1, l, TRUE)
    BY <1>2, <2>1, ConversationAppend
  <2> QED BY <1>1, <1>2, <1>5, <2>2
<1> HIDE DEF c
<1>8. Block(n, h[n], FALSE) = Asked(n) /\ Block(n, l, TRUE) = Asked(n) \o Said(n, Answer(l))
  <2>1. h[n] \in Lines /\ n \in Nat /\ TRUE \in BOOLEAN
    BY <1>1
  <2> QED BY <2>1, BlockType, Zenon
<1>9. Asked(n) \in Seq(Utterances) /\ Said(n, Answer(l)) \in Seq(Utterances)
  BY <1>1, AskedType, AnswerType, SaidType
<1>10. c \o Asked(n) \in Seq(Utterances)
  <2> DEFINE a == Asked(n)
  <2>1. c \in Seq(Utterances) /\ a \in Seq(Utterances)
    BY <1>6, <1>9
  <2> HIDE DEF a, n
  <2>2. c \o a \in Seq(Utterances)
    BY <2>1, ConcatProperties
  <2> QED BY <2>2 DEF a
<1>11. (c \o Asked(n)) \o Said(n, Answer(l)) = c \o (Asked(n) \o Said(n, Answer(l)))
  <2> DEFINE a == Asked(n)
             b == Said(n, Answer(l))
  <2>1. c \in Seq(Utterances) /\ a \in Seq(Utterances) /\ b \in Seq(Utterances)
    BY <1>6, <1>9
  <2> HIDE DEF a, b, n
  <2>2. (c \o a) \o b = c \o (a \o b)
    BY <2>1, Regroup, Zenon
  <2> QED BY <2>2 DEF a, b
<1>12. Conversation(h, FALSE) \in Seq(Utterances)
  BY <1>6, <1>8, <1>10, Zenon
<1>13. Conversation(h2, TRUE) = Conversation(h, FALSE) \o Said(n, Answer(l))
  BY <1>6, <1>7, <1>8, <1>11, Zenon
<1> QED BY <1>12, <1>13

(***************************************************************************)
(* The members of two sequences one after the other.                       *)
(***************************************************************************)
LEMMA MembersOfBoth ==
    ASSUME NEW S, NEW T, NEW a \in Seq(S), NEW b \in Seq(T)
    PROVE  ToSet(a \o b) = ToSet(a) \cup ToSet(b)
<1> DEFINE m == Len(a)
           n == Len(b)
           c == a \o b
<1>1. /\ m \in Nat /\ n \in Nat /\ DOMAIN a = 1 .. m /\ DOMAIN b = 1 .. n
      /\ DOMAIN c = 1 .. m + n
      /\ \A k \in 1 .. m : c[k] = a[k]
      /\ \A k \in 1 .. n : m + k \in 1 .. m + n /\ c[m + k] = b[k]
  OBVIOUS
<1> HIDE DEF c, m, n
<1>2. ASSUME NEW k \in 1 .. m + n
      PROVE  k \in 1 .. m \/ \E j \in 1 .. n : k = m + j
  <2>1. CASE k <= m
    BY <1>1, <2>1
  <2>2. CASE ~(k <= m)
    <3>1. k - m \in 1 .. n /\ k = m + (k - m)
      BY <1>1, <2>2
    <3> QED BY <3>1
  <2> QED BY <2>1, <2>2
<1>3. 1 .. m \subseteq 1 .. m + n
  BY <1>1
<1>4. ASSUME NEW x \in ToSet(c) PROVE x \in ToSet(a) \cup ToSet(b)
  <2>1. PICK k \in 1 .. m + n : x = c[k]
    BY <1>1, <1>4 DEF ToSet
  <2>2. CASE k \in 1 .. m
    BY <1>1, <2>1, <2>2 DEF ToSet
  <2>3. CASE \E j \in 1 .. n : k = m + j
    BY <1>1, <2>1, <2>3 DEF ToSet
  <2> QED BY <1>2, <2>2, <2>3
<1>5. ASSUME NEW x \in ToSet(a) PROVE x \in ToSet(c)
  BY <1>1, <1>3, <1>5 DEF ToSet
<1>6. ASSUME NEW x \in ToSet(b) PROVE x \in ToSet(c)
  BY <1>1, <1>6 DEF ToSet
<1>7. ToSet(c) = ToSet(a) \cup ToSet(b)
  BY <1>4, <1>5, <1>6
<1> QED BY <1>7 DEF c

(***************************************************************************)
(* The last line is done: nothing more will be printed about it.           *)
(***************************************************************************)
Done ==
    \/ shell.pc \in {"prompt", "exited"}
    \/ shell.pc \in {"close", "wait"} /\ child.pc = "exited"

\* What was shown and what is still in the buffer of the shell, compared with
\* what the user should have been shown.
Told(shown, held, conversation) ==
    IF tty THEN shown = conversation
    ELSE ToSet(shown) \cup ToSet(held) = ToSet(conversation)

\* What the child has in its buffer is a copy; the shell has it too.
TalkInv ==
    /\ ~Done => line.fault = "none"
    /\ ToSet(child.buffer) \subseteq ToSet(shell.buffer)
    /\ ~ChildAlive => child.buffer = <<>>
    /\ shell.pc = "exited" => shell.buffer = <<>>
    /\ Told(screen, shell.buffer, Conversation(history, Done))

(***************************************************************************)
(* The messages in the buffers and on the screen.                          *)
(***************************************************************************)
LEMMA Output ==
    ASSUME IInv
    PROVE  /\ screen \in Seq(Messages) /\ shell.buffer \in Seq(Messages)
           /\ child.buffer \in Seq(Messages) /\ shell.stdout = "inherited"
           /\ tty => shell.buffer = <<>> /\ child.buffer = <<>>
BY DEF IInv, TypeOK, ShellInv, ChildInv, Processes

\* Nothing is a member of an empty sequence.
LEMMA NoMembers == ToSet(<<>>) = {}
BY DEF ToSet

(***************************************************************************)
(* What the shell prints is on the terminal, or in its buffer.             *)
(***************************************************************************)
LEMMA PrintTold ==
    ASSUME IInv, NEW q \in Processes(ShellPlaces), q.buffer = shell.buffer,
           NEW m \in Seq(Messages), NEW c \in Seq(Utterances),
           Told(screen, shell.buffer, c), PrintAndGoOn(q, m)
    PROVE  Told(screen', shell'.buffer, c \o m) /\ shell'.pc = q.pc
<1>1. CASE tty
  BY <1>1 DEF PrintAndGoOn, Told
<1>2. CASE ~tty
  <2>1. screen' = screen /\ shell'.buffer = shell.buffer \o m /\ shell'.pc = q.pc
    BY <1>2 DEF PrintAndGoOn, Processes
  <2>2. ToSet(shell.buffer \o m) = ToSet(shell.buffer) \cup ToSet(m)
    BY Output, MembersOfBoth
  <2>3. ToSet(c \o m) = ToSet(c) \cup ToSet(m)
    BY MembersOfBoth
  <2> QED BY <1>2, <2>1, <2>2, <2>3 DEF Told
<1> QED BY <1>1, <1>2

(***************************************************************************)
(* The shell's exit writes out its buffer.                                 *)
(***************************************************************************)
LEMMA ExitTold ==
    ASSUME IInv, NEW q, q.buffer = <<>>, NEW c,
           Told(screen, shell.buffer, c), ShellExits(q)
    PROVE  Told(screen', shell'.buffer, c) /\ shell' = q
<1>1. screen' = screen \o shell.buffer /\ shell' = q
  BY Output DEF ShellExits, Written
<1>2. CASE tty
  <2>1. \A s \in Seq(Messages) : s \o <<>> = s
    OBVIOUS
  <2> QED BY <1>1, <1>2, <2>1, Output DEF Told
<1>3. CASE ~tty
  <2>1. ToSet(screen \o shell.buffer) = ToSet(screen) \cup ToSet(shell.buffer)
    BY Output, MembersOfBoth
  <2> QED BY <1>1, <1>3, <2>1, NoMembers DEF Told
<1> QED BY <1>2, <1>3

(***************************************************************************)
(* The child's exit writes what it copied from the shell once more, and    *)
(* then its message.                                                       *)
(***************************************************************************)
LEMMA ChildTold ==
    ASSUME IInv, NEW q, NEW m \in Seq(Messages), NEW c \in Seq(Utterances),
           ToSet(child.buffer) \subseteq ToSet(shell.buffer),
           Told(screen, shell.buffer, c), ChildExits(q, m)
    PROVE  /\ child' = q
           /\ q.stdout = "inherited" => Told(screen', shell.buffer, c \o m)
           /\ q.stdout # "inherited" => Told(screen', shell.buffer, c)
<1> DEFINE all == child.buffer \o m
<1>1. child' = q /\ screen' = IF q.stdout = "inherited" THEN screen \o all ELSE screen
  BY Zenon DEF ChildExits, Written
<1>2. CASE q.stdout # "inherited"
  BY <1>1, <1>2
<1>3. CASE q.stdout = "inherited" /\ tty
  <2>1. all = m
    <3>1. <<>> \o m = m
      OBVIOUS
    <3> QED BY <1>3, <3>1, Output
  <2> HIDE DEF all
  <2> QED BY <1>1, <1>3, <2>1 DEF Told
<1>4. CASE q.stdout = "inherited" /\ ~tty
  <2>1. all \in Seq(Messages) /\ ToSet(all) = ToSet(child.buffer) \cup ToSet(m)
    BY Output, MembersOfBoth, ConcatProperties
  <2> HIDE DEF all
  <2>2. ToSet(screen \o all) = ToSet(screen) \cup ToSet(all)
    BY <2>1, Output, MembersOfBoth
  <2>3. ToSet(c \o m) = ToSet(c) \cup ToSet(m)
    BY MembersOfBoth
  <2>4. screen' = screen \o all
    BY <1>1, <1>4
  <2> QED BY <1>1, <1>4, <2>1, <2>2, <2>3, <2>4 DEF Told
<1> QED BY <1>2, <1>3, <1>4

(***************************************************************************)
(* A step that shows nothing new about any line.                           *)
(***************************************************************************)
LEMMA Quiet ==
    ASSUME IInv, TalkInv, tty' = tty, history' = history, NEW done \in BOOLEAN,
           Done <=> done, Done' <=> done,
           Told(screen', shell'.buffer, Conversation(history, done)),
           ToSet(child'.buffer) \subseteq ToSet(shell'.buffer),
           ~ChildAlive' => child'.buffer = <<>>,
           shell'.pc = "exited" => shell'.buffer = <<>>
    PROVE  TalkInv'
<1>1. line' = line /\ (~Done' => line'.fault = "none")
  BY DEF line, TalkInv
<1>2. Done' = done
  BY DEF Done
<1>3. Conversation(history, Done)' = Conversation(history, done)
  BY <1>2
<1>4. Told(screen, shell.buffer, Conversation(history, Done))'
  BY <1>3 DEF Told
<1> QED BY <1>1, <1>4 DEF TalkInv

\* What was shown does not change, so nor does what should have been.
LEMMA ToldSame ==
    ASSUME TalkInv, NEW done \in BOOLEAN, Done <=> done,
           screen' = screen, shell'.buffer = shell.buffer
    PROVE  Told(screen', shell'.buffer, Conversation(history, done))
<1>1. Done = done
  BY DEF Done
<1> QED BY <1>1 DEF TalkInv

(***************************************************************************)
(* A step with which a line is done, and its answer shown.                 *)
(***************************************************************************)
LEMMA LineEnds ==
    ASSUME IInv, TalkInv, ~Done, Done', tty' = tty, NEW l \in Lines,
           history' = [history EXCEPT ![Len(history)] = l],
           Told(screen', shell'.buffer,
                Conversation(history, FALSE) \o Said(Len(history), Answer(l))),
           child'.buffer = <<>>, shell'.pc = "exited" => shell'.buffer = <<>>
    PROVE  TalkInv'
<1>1. history \in Seq(Lines) /\ Len(history) > 0
  BY SomeLine, ShellState DEF Done
<1>2. Conversation(history', TRUE) = Conversation(history, FALSE) \o Said(Len(history), Answer(l))
  BY <1>1, ConversationEnds
<1>3. Done' = TRUE
  BY DEF Done
<1>4. Conversation(history, Done)' = Conversation(history', TRUE)
  BY <1>3
<1>5. Told(screen, shell.buffer, Conversation(history, Done))'
  BY <1>2, <1>4 DEF Told
<1> QED BY <1>5, NoMembers DEF TalkInv

(***************************************************************************)
(* What should have been shown before the line is done.                    *)
(***************************************************************************)
LEMMA NotDone ==
    ASSUME IInv, TalkInv, ~Done
    PROVE  /\ history \in Seq(Lines) /\ Len(history) > 0 /\ Len(history) \in 1 .. MaxLines + 1
           /\ line \in Lines /\ line.fault = "none"
           /\ Conversation(history, FALSE) \in Seq(Utterances)
           /\ Told(screen, shell.buffer, Conversation(history, FALSE))
           /\ history = [history EXCEPT ![Len(history)] = line]
           /\ shell.pc \in ShellPlaces \ {"prompt", "exited"}
<1>1. shell.pc \in ShellPlaces \ {"prompt", "exited"}
  BY ShellState DEF Done, Processes
<1>2. /\ history \in Seq(Lines) /\ Len(history) > 0 /\ Len(history) \in 1 .. MaxLines + 1
      /\ line \in Lines
  BY <1>1, SomeLine, ShellState
<1>3. Done = FALSE
  BY DEF Done
<1>4. Told(screen, shell.buffer, Conversation(history, FALSE))
  BY <1>3 DEF TalkInv
<1>5. Conversation(history, FALSE) \in Seq(Utterances)
  BY <1>2, ConversationEnds
<1>6. history = [history EXCEPT ![Len(history)] = line]
  BY <1>2 DEF line
<1> QED BY <1>1, <1>2, <1>4, <1>5, <1>6 DEF TalkInv

(***************************************************************************)
(* The line with the call that failed.                                     *)
(***************************************************************************)
LEMMA FaultLine ==
    ASSUME history \in Seq(Lines), Len(history) > 0, NEW call \in MayFail, Fault(call)
    PROVE  \E l \in Lines : /\ history' = [history EXCEPT ![Len(history)] = l]
                            /\ l.fault = call /\ l.kind = line.kind
<1> DEFINE n == Len(history)
           l == [history[n] EXCEPT !.fault = call]
<1>1. n \in 1 .. Len(history)
  BY LenProperties
<1>2. history[n] \in Lines
  BY <1>1, ElementOfSeq
<1>3. l \in Lines /\ l.fault = call /\ l.kind = line.kind
  BY <1>2 DEF Lines, line
<1>4. history' = [history EXCEPT ![n] = l]
  BY DEF Fault
<1> QED BY <1>3, <1>4

\* What a printed message says.
LEMMA MessageSaid == \A t : <<Message(t)>> = Said(Len(history), <<t>>)
BY SaidOnce DEF Message

(***************************************************************************)
(* The answers.                                                            *)
(***************************************************************************)
LEMMA AnswerIs ==
    ASSUME NEW l
    PROVE  /\ l.kind = "empty" => Answer(l) = <<>>
           /\ l.fault \in {"fork", "dup"} => Answer(l) = <<>>
           /\ l.kind = "wrong" /\ l.fault = "none" => Answer(l) = <<"Syntax error\n">>
           /\ l.kind = "eof" /\ l.fault = "none" => Answer(l) = <<"\n">>
           /\ l.kind = "run" /\ l.fault = "open" => Answer(l) = <<"I/O error\n">>
           /\ l.kind = "run" /\ l.fault = "none" /\ ~l.found => Answer(l) = <<"Command not found\n">>
           /\ l.kind = "run" /\ l.fault = "none" /\ l.found =>
                 Answer(l) = IF l.output_redir THEN <<>> ELSE <<"output">>
BY Zenon DEF Answer

(***************************************************************************)
(* A step of the shell while the line is not done and nothing is printed.  *)
(***************************************************************************)
LEMMA QuietShell ==
    ASSUME IInv, TalkInv, ~Done, ~Done', UNCHANGED <<tty, history, screen>>,
           shell'.buffer = shell.buffer, shell'.pc # "exited",
           ToSet(child'.buffer) \subseteq ToSet(shell.buffer),
           ~ChildAlive' => child'.buffer = <<>>
    PROVE  TalkInv'
<1>1. Told(screen', shell'.buffer, Conversation(history, FALSE))
  BY ToldSame
<1> QED BY <1>1, Quiet

(***************************************************************************)
(* The line is done and there is no answer.                                *)
(***************************************************************************)
LEMMA Unanswered ==
    ASSUME IInv, TalkInv, ~Done, Done', tty' = tty, NEW l \in Lines, Answer(l) = <<>>,
           history' = [history EXCEPT ![Len(history)] = l],
           Told(screen', shell'.buffer, Conversation(history, FALSE)),
           child'.buffer = <<>>, shell'.pc = "exited" => shell'.buffer = <<>>
    PROVE  TalkInv'
<1> DEFINE c == Conversation(history, FALSE)
<1>1. Said(Len(history), Answer(l)) = <<>>
  BY SaidNothing
<1>2. c \in Seq(Utterances)
  BY NotDone
<1> HIDE DEF c
<1>3. c \o Said(Len(history), Answer(l)) = c
  BY <1>1, <1>2
<1>4. Told(screen', shell'.buffer, c \o Said(Len(history), Answer(l)))
  BY <1>3 DEF c
<1> QED BY <1>4, LineEnds DEF c

(***************************************************************************)
(* The shell prints the answer and goes back to its prompt.                *)
(***************************************************************************)
LEMMA ShellAnswers ==
    ASSUME IInv, TalkInv, ~Done, ~ChildAlive, UNCHANGED <<tty, child>>,
           NEW l \in Lines, history' = [history EXCEPT ![Len(history)] = l],
           NEW q \in Processes(ShellPlaces), q.pc = "prompt", q.buffer = shell.buffer,
           NEW text \in Texts, Answer(l) = <<text>>, PrintAndGoOn(q, <<Message(text)>>)
    PROVE  TalkInv'
<1> DEFINE c == Conversation(history, FALSE)
           m == <<Message(text)>>
<1>1. c \in Seq(Utterances) /\ Told(screen, shell.buffer, c) /\ Len(history) \in 1 .. MaxLines + 1
  BY NotDone
<1>2. m \in Seq(Messages)
  BY <1>1, OneMessage DEF Message
<1>3. m = Said(Len(history), Answer(l))
  BY MessageSaid
<1>4. PrintAndGoOn(q, m)
  OBVIOUS
<1> HIDE DEF c, m
<1>5. Told(screen', shell'.buffer, c \o m) /\ shell'.pc = "prompt"
  BY <1>1, <1>2, <1>4, PrintTold
<1>6. Told(screen', shell'.buffer, c \o Said(Len(history), Answer(l)))
  BY <1>3, <1>5
<1>7. Done'
  BY <1>5 DEF Done
<1>8. child'.buffer = <<>>
  BY DEF TalkInv
<1> QED BY <1>5, <1>6, <1>7, <1>8, LineEnds DEF c

(***************************************************************************)
(* A call fails and the shell exits without an answer.                     *)
(***************************************************************************)
LEMMA ShellFails ==
    ASSUME IInv, TalkInv, ~Done, ~ChildAlive, UNCHANGED <<tty, child>>, Fault("fork"),
           "fork" \in MayFail, NEW q, q.pc = "exited", q.buffer = <<>>, ShellExits(q)
    PROVE  TalkInv'
<1>1. PICK l \in Lines : history' = [history EXCEPT ![Len(history)] = l] /\ l.fault = "fork"
  BY NotDone, FaultLine
<1>2. Answer(l) = <<>>
  BY <1>1, AnswerIs
<1>3. Told(screen', shell'.buffer, Conversation(history, FALSE)) /\ shell' = q
  BY NotDone, ExitTold
<1>4. Done' /\ child'.buffer = <<>>
  BY <1>3 DEF Done, TalkInv
<1> QED BY <1>1, <1>2, <1>3, <1>4, Unanswered

(***************************************************************************)
(* The child prints the answer, if any, and exits.                         *)
(***************************************************************************)
LEMMA ChildAnswers ==
    ASSUME IInv, TalkInv, ChildAlive, UNCHANGED <<tty, shell>>,
           NEW l \in Lines, history' = [history EXCEPT ![Len(history)] = l],
           NEW q, q.pc = "exited", q.buffer = <<>>,
           NEW m \in Seq(Messages), ChildExits(q, m),
           IF q.stdout = "inherited" THEN m = Said(Len(history), Answer(l)) ELSE Answer(l) = <<>>
    PROVE  TalkInv'
<1> DEFINE c == Conversation(history, FALSE)
<1>1. ~Done /\ shell.pc \in {"close", "wait"}
  BY ChildState DEF Done, ChildAlive
<1>2. c \in Seq(Utterances) /\ Told(screen, shell.buffer, c)
  BY <1>1, NotDone
<1> HIDE DEF c
<1>3. ToSet(child.buffer) \subseteq ToSet(shell.buffer)
  BY DEF TalkInv
<1>4. /\ child' = q
      /\ q.stdout = "inherited" => Told(screen', shell'.buffer, c \o m)
      /\ q.stdout # "inherited" => Told(screen', shell'.buffer, c)
  BY <1>2, <1>3, ChildTold
<1>5. Done' /\ child'.buffer = <<>> /\ shell'.pc # "exited"
  BY <1>1, <1>4 DEF Done
<1>6. CASE q.stdout = "inherited"
  <2>1. Told(screen', shell'.buffer, c \o Said(Len(history), Answer(l)))
    BY <1>4, <1>6
  <2> QED BY <1>1, <1>5, <2>1, LineEnds DEF c
<1>7. CASE q.stdout # "inherited"
  <2>1. Answer(l) = <<>>
    BY <1>7
  <2> QED BY <1>1, <1>4, <1>5, <1>7, <2>1, Unanswered DEF c
<1> QED BY <1>6, <1>7

(***************************************************************************)
(* A line was done before the step, and nothing is printed.                *)
(***************************************************************************)
LEMMA StaysDone ==
    ASSUME IInv, TalkInv, Done, Done', ~ChildAlive, UNCHANGED <<tty, child, history>>,
           Told(screen', shell'.buffer, Conversation(history, TRUE)),
           shell'.pc = "exited" => shell'.buffer = <<>>
    PROVE  TalkInv'
<1>1. child.buffer = <<>>
  BY DEF TalkInv
<1> QED BY <1>1, NoMembers, Quiet

(***************************************************************************)
(* The first state: nothing was typed and nothing shown.                   *)
(***************************************************************************)
LEMMA InitTalks == Init => TalkInv
<1> SUFFICES ASSUME Init PROVE TalkInv
  OBVIOUS
<1>1. /\ history = <<>> /\ screen = <<>> /\ shell.pc = "prompt" /\ shell.buffer = <<>>
      /\ child.buffer = <<>>
  BY DEF Init, Process
<1>2. Done = TRUE
  BY <1>1 DEF Done
<1>3. Conversation(history, Done) = <<>>
  <2>1. FlattenSeq(<<>>) = <<>>
    BY DEF FlattenSeq
  <2>2. [k \in DOMAIN <<>> |-> Asked(k) \o Said(k, IF k < Len(<<>>) \/ TRUE
                                                    THEN Answer(<<>>[k]) ELSE <<>>)] = <<>>
    OBVIOUS
  <2>3. Conversation(<<>>, TRUE) = <<>>
    BY <2>1, <2>2, Zenon DEF Conversation
  <2> QED BY <1>1, <1>2, <2>3
<1>4. Told(screen, shell.buffer, Conversation(history, Done))
  BY <1>1, <1>3 DEF Told
<1> QED BY <1>1, <1>2, <1>4, NoMembers DEF TalkInv

\* Two messages, one after the other.
LEMMA TwoInTurn == \A a, b : <<a>> \o <<b>> = <<a, b>>
<1> SUFFICES ASSUME NEW a, NEW b PROVE <<a>> \o <<b>> = <<a, b>>
  OBVIOUS
<1> DEFINE S == {a, b}
           s == <<a>>
           u == <<b>>
           both == <<a, b>>
<1>1. s \in Seq(S) /\ u \in Seq(S) /\ Len(s) = 1 /\ Len(u) = 1 /\ s[1] = a /\ u[1] = b
  OBVIOUS
<1>2. both \in Seq(S) /\ Len(both) = 2 /\ both[1] = a /\ both[2] = b
  OBVIOUS
<1> HIDE DEF s, u, both, S
<1> DEFINE w == s \o u
<1>3. /\ w \in Seq(S) /\ Len(w) = Len(s) + Len(u)
      /\ \A k \in 1 .. Len(s) + Len(u) : w[k] = IF k <= Len(s) THEN s[k] ELSE u[k - Len(s)]
  BY <1>1, ConcatProperties
<1> HIDE DEF w
<1>4. w \in Seq(S) /\ Len(w) = 2 /\ \A k \in 1 .. 2 : w[k] = both[k]
  <2>1. Len(w) = 2 /\ w[1] = s[1] /\ w[2] = u[1]
    BY <1>1, <1>3
  <2> QED BY <1>1, <1>2, <1>3, <2>1
<1>5. w = both
  BY <1>2, <1>4, SeqEqual
<1> QED BY <1>5 DEF w, s, u, both

(***************************************************************************)
(* main shows a prompt when the line before is done.                       *)
(***************************************************************************)
LEMMA MainTalks == IInv /\ TalkInv /\ (get_user_line \/ EndOfInput) => TalkInv'
<1> SUFFICES ASSUME IInv, TalkInv, get_user_line \/ EndOfInput PROVE TalkInv'
  OBVIOUS
<1> DEFINE n == Len(history)
           c == Conversation(history, TRUE)
<1>1. shell.pc = "prompt" /\ tty' = tty
  BY Zenon DEF get_user_line, EndOfInput
<1>2. /\ history \in Seq(Lines) /\ n \in 0 .. MaxLines /\ n + 1 \in 1 .. MaxLines + 1 /\ n + 1 \in Nat
      /\ shell \in Processes(ShellPlaces) /\ ~ChildAlive /\ child.buffer = <<>>
  <2>1. history \in Seq(Lines) /\ shell \in Processes(ShellPlaces) /\ ~ChildAlive
    BY <1>1, ShellState
  <2>2. n \in Nat /\ n <= MaxLines
    BY <1>1, <2>1, LenProperties DEF IInv, HistoryInv
  <2> QED BY <2>1, <2>2, MaxLinesAssumption DEF TalkInv
<1>3. Told(screen, shell.buffer, c)
  <2>1. Done = TRUE
    BY <1>1 DEF Done
  <2> QED BY <2>1 DEF TalkInv
<1>4. ASSUME NEW l \in Lines
      PROVE  /\ c \in Seq(Utterances)
             /\ Conversation(Append(history, l), FALSE) = c \o Asked(n + 1)
             /\ Conversation(Append(history, l), TRUE) = c \o (Asked(n + 1) \o Said(n + 1, Answer(l)))
  <2>1. FALSE \in BOOLEAN /\ TRUE \in BOOLEAN
    OBVIOUS
  <2> QED BY <1>2, <2>1, ConversationAppend, BlockType, Zenon
<1> HIDE DEF n, c
<1> DEFINE a == [line |-> n + 1, text |-> "$ "]
           b == [line |-> n + 1, text |-> "\n"]
<1>5. Asked(n + 1) = <<a>> /\ Said(n + 1, <<"\n">>) = <<b>>
  BY SaidOnce, Zenon DEF Asked
<1>6. <<a>> \in Seq(Messages) /\ <<b>> \in Seq(Messages)
  <2>1. "$ " \in Texts /\ "\n" \in Texts
    BY Zenon DEF Texts
  <2> QED BY <1>2, <2>1, OneMessage, Zenon
<1>7. CASE get_user_line
  <2>1. PICK l \in Typable :
           /\ l.kind # "eof" /\ history' = Append(history, l)
           /\ PrintAndGoOn([shell EXCEPT !.pc = "exec_command", !.heap = Tokens(l)], <<a>>)
    BY <1>7, Zenon DEF get_user_line, n
  <2>2. l \in Lines /\ l.fault = "none"
    BY <2>1 DEF Typable
  <2> DEFINE q == [shell EXCEPT !.pc = "exec_command", !.heap = Tokens(l)]
             m == <<a>>
  <2>3. q \in Processes(ShellPlaces) /\ q.pc = "exec_command" /\ q.buffer = shell.buffer
    BY <1>2 DEF Processes, ShellPlaces, Tokens, Blocks
  <2>4. m \in Seq(Messages) /\ PrintAndGoOn(q, m) /\ m = Asked(n + 1)
    BY <1>5, <1>6, <2>1
  <2> HIDE DEF q, m, a, b
  <2>5. Told(screen', shell'.buffer, c \o m) /\ shell'.pc = "exec_command"
    BY <1>3, <1>4, <2>2, <2>3, <2>4, PrintTold
  <2>6. Done' = FALSE
    BY <2>5 DEF Done
  <2>7. Conversation(history, Done)' = c \o m
    BY <1>4, <2>1, <2>2, <2>4, <2>6
  <2>8. Told(screen, shell.buffer, Conversation(history, Done))'
    BY <1>1, <2>5, <2>7 DEF Told
  <2>9. line'.fault = "none"
    BY <1>2, <2>1, <2>2, AppendLine
  <2>10. child'.buffer = <<>>
    BY <1>7 DEF get_user_line, Process
  <2> QED BY <2>5, <2>8, <2>9, <2>10, NoMembers DEF TalkInv
<1>8. CASE EndOfInput
  <2>1. PICK l \in Typable : l.kind = "eof" /\ history' = Append(history, l)
    BY <1>8 DEF EndOfInput
  <2>2. l \in Lines /\ l.fault = "none"
    BY <2>1 DEF Typable
  <2>3. /\ screen' = screen \o shell.buffer \o <<a, b>>
        /\ shell' = Exit(shell) /\ child' = child
    BY <1>8, Zenon DEF EndOfInput, n
  <2> DEFINE m == <<a, b>>
             s == screen \o shell.buffer
  <2>4. m = Asked(n + 1) \o Said(n + 1, Answer(l)) /\ m \in Seq(Messages)
    <3>1. Answer(l) = <<"\n">>
      BY <2>1, <2>2, AnswerIs, Zenon
    <3>2. Said(n + 1, Answer(l)) = <<b>>
      BY <1>5, <3>1
    <3>3. <<a>> \o <<b>> = <<a, b>>
      BY TwoInTurn
    <3> HIDE DEF a, b
    <3>4. <<a>> \o <<b>> \in Seq(Messages)
      BY <1>6, ConcatProperties
    <3> QED BY <1>5, <3>2, <3>3, <3>4
  <2>5. shell'.pc = "exited" /\ shell'.buffer = <<>>
    BY <1>1, <1>2, <2>3, ExitProcess DEF ShellPlaces
  <2>6. Done' = TRUE
    BY <2>5 DEF Done
  <2>7. screen' = s \o m
    BY <2>3
  <2> HIDE DEF a, b, m
  <2>8. Conversation(history, Done)' = c \o m
    BY <1>4, <2>1, <2>2, <2>4, <2>6
  <2>9. s \in Seq(Messages) /\ ToSet(s) = ToSet(screen) \cup ToSet(shell.buffer)
    BY Output, ConcatProperties, MembersOfBoth
  <2>10. tty => s = screen
    <3>1. \A u \in Seq(Messages) : u \o <<>> = u
      OBVIOUS
    <3> QED BY <3>1, Output
  <2> HIDE DEF s
  <2>11. s \in Seq(Messages) /\ m \in Seq(Messages) /\ c \in Seq(Utterances)
    BY <1>4, <2>2, <2>4, <2>9
  <2>12. ToSet(s \o m) = ToSet(s) \cup ToSet(m) /\ ToSet(c \o m) = ToSet(c) \cup ToSet(m)
    BY <2>11, MembersOfBoth
  <2>13. Told(screen', shell'.buffer, c \o m)
    BY <1>3, <2>5, <2>7, <2>9, <2>10, <2>12, NoMembers DEF Told
  <2>14. Told(screen, shell.buffer, Conversation(history, Done))'
    BY <1>1, <2>8, <2>13 DEF Told
  <2> QED BY <1>2, <2>3, <2>5, <2>6, <2>14, NoMembers DEF TalkInv
<1> QED BY <1>7, <1>8

(***************************************************************************)
(* Before fork the line is not done, and the child of the line before has  *)
(* nothing more to say.                                                    *)
(***************************************************************************)
LEMMA BeforeFork ==
    ASSUME IInv, TalkInv, shell.pc \in {"exec_command", "open_in", "open_out", "fork"}
    PROVE  ~Done /\ ~ChildAlive /\ child.buffer = <<>> /\ shell \in Processes(ShellPlaces)
BY ShellState DEF Done, TalkInv

\* When the child was waited for, the line is done.
LEMMA Waited ==
    ASSUME IInv, TalkInv, shell.pc = "wait", Gone(child)
    PROVE  /\ Done /\ ~ChildAlive /\ shell \in Processes(ShellPlaces)
           /\ Told(screen, shell.buffer, Conversation(history, TRUE))
<1>1. child.pc = "exited" /\ shell \in Processes(ShellPlaces)
  BY ShellState DEF IInv, ChildInv, Gone
<1>2. Done = TRUE
  BY <1>1 DEF Done
<1> QED BY <1>1, <1>2 DEF TalkInv, ChildAlive

(***************************************************************************)
(* A line without tokens has no answer.                                    *)
(***************************************************************************)
LEMMA EmptyTalks ==
    ASSUME IInv, TalkInv, shell.pc = "exec_command", line.kind = "empty",
           shell' = Prompt(tokenizer_free(shell)), UNCHANGED <<tty, history, child, screen>>
    PROVE  TalkInv'
<1> DEFINE q == tokenizer_free(shell)
<1>1. ~Done /\ ~ChildAlive /\ child.buffer = <<>> /\ shell \in Processes(ShellPlaces)
  BY BeforeFork
<1>2. q \in Processes(ShellPlaces) /\ q.pc = "exec_command" /\ q.buffer = shell.buffer
  <2>1. Tokens(line) \subseteq shell.heap
    BY DEF IInv, ShellInv
  <2> QED BY <1>1, <2>1, FreeBlocks DEF tokenizer_free
<1>3. shell' = Prompt(q)
  OBVIOUS
<1> HIDE DEF q
<1>4. shell'.pc = "prompt" /\ shell'.buffer = shell.buffer
  BY <1>2, <1>3, Prompted
<1>5. Done'
  BY <1>4 DEF Done
<1>6. line \in Lines /\ Answer(line) = <<>> /\ history' = [history EXCEPT ![Len(history)] = line]
  BY <1>1, NotDone, AnswerIs
<1>7. Told(screen', shell'.buffer, Conversation(history, FALSE))
  BY <1>1, <1>4, NotDone
<1> QED BY <1>1, <1>4, <1>5, <1>6, <1>7, Unanswered

(***************************************************************************)
(* The steps of Shell_1 in the parent.                                     *)
(***************************************************************************)
LEMMA Shell1Talks ==
    IInv /\ TalkInv /\ (exec_command_1 \/ FORK_1 \/ FORK_1_fails \/ WAIT_CHILD_1 \/ WAIT_CHILD_1_fails)
        => TalkInv'
<1>1. ASSUME IInv, TalkInv, exec_command_1 PROVE TalkInv'
  <2>1. /\ shell.pc = "exec_command" /\ UNCHANGED <<tty, history, child, screen>>
        /\ ~Done /\ ~ChildAlive /\ child.buffer = <<>> /\ shell \in Processes(ShellPlaces)
    BY <1>1, BeforeFork DEF exec_command_1
  <2>2. CASE line.kind = "empty"
    <3>1. shell' = Prompt(tokenizer_free(shell))
      BY <1>1, <2>2 DEF exec_command_1
    <3> QED BY <1>1, <2>1, <2>2, <3>1, EmptyTalks
  <2>3. CASE line.kind # "empty"
    <3>1. shell'.pc = "fork" /\ shell'.buffer = shell.buffer
      BY <1>1, <2>1, <2>3 DEF exec_command_1, Processes
    <3>2. ~Done'
      BY <3>1 DEF Done
    <3> QED BY <1>1, <2>1, <3>1, <3>2, NoMembers, QuietShell
  <2> QED BY <2>2, <2>3
<1>2. ASSUME IInv, TalkInv, FORK_1 PROVE TalkInv'
  <2>1. /\ UNCHANGED <<tty, history, screen>> /\ ~Done /\ shell \in Processes(ShellPlaces)
    BY <1>2, BeforeFork DEF FORK_1
  <2>2. /\ shell'.pc = "wait" /\ shell'.buffer = shell.buffer
        /\ child'.pc = "execute" /\ child'.buffer = shell.buffer
    BY <1>2, <2>1 DEF FORK_1, Processes
  <2>3. ~Done' /\ ChildAlive'
    BY <2>2 DEF Done, ChildAlive
  <2> QED BY <1>2, <2>1, <2>2, <2>3, QuietShell
<1>3. ASSUME IInv, TalkInv, FORK_1_fails PROVE TalkInv'
  <2>1. /\ UNCHANGED <<tty, child>> /\ "fork" \in MayFail /\ Fault("fork")
        /\ shell.pc = "fork" /\ program = "Shell_1" /\ ~Done /\ ~ChildAlive
        /\ shell \in Processes(ShellPlaces) /\ ShellExits(EXIT_FAIL_1(shell))
    BY <1>3, BeforeFork DEF FORK_1_fails
  <2>2. shell.heap = Arguments /\ line.kind = "run"
    BY <1>3, <2>1, SomeLine DEF IInv, HistoryInv, ShellInv, FileNames
  <2> DEFINE q == EXIT_FAIL_1(shell)
  <2>3. q.pc = "exited" /\ q.buffer = <<>>
    BY <2>1, <2>2, ExitFail_1 DEF ShellPlaces
  <2> HIDE DEF q
  <2> QED BY <1>3, <2>1, <2>3, ShellFails DEF q
<1>4. ASSUME IInv, TalkInv, WAIT_CHILD_1 PROVE TalkInv'
  <2>1. /\ UNCHANGED <<tty, history, child, screen>> /\ shell.pc = "wait" /\ program = "Shell_1"
        /\ Done /\ ~ChildAlive /\ shell \in Processes(ShellPlaces)
        /\ Told(screen, shell.buffer, Conversation(history, TRUE))
    BY <1>4, Waited DEF WAIT_CHILD_1
  <2>2. shell.heap = Arguments /\ line.kind = "run"
    BY <1>4, <2>1, SomeLine DEF IInv, HistoryInv, ShellInv, FileNames
  <2> DEFINE q == tokenizer_free(FREE_ARGUMENTS_1(shell))
  <2>3. q \in Processes(ShellPlaces) /\ q.pc = "wait" /\ q.buffer = shell.buffer
    BY <2>1, <2>2, FreeArguments_1
  <2>4. shell' = Prompt(q)
    BY <1>4 DEF WAIT_CHILD_1
  <2> HIDE DEF q
  <2>5. shell'.pc = "prompt" /\ shell'.buffer = shell.buffer
    BY <2>3, <2>4, Prompted
  <2>6. Done'
    BY <2>5 DEF Done
  <2> QED BY <1>4, <2>1, <2>5, <2>6, StaysDone
<1>5. ASSUME IInv, TalkInv, WAIT_CHILD_1_fails PROVE TalkInv'
  <2>1. /\ UNCHANGED <<tty, history, child>> /\ shell.pc = "wait" /\ program = "Shell_1"
        /\ Done /\ ~ChildAlive /\ shell \in Processes(ShellPlaces)
        /\ Told(screen, shell.buffer, Conversation(history, TRUE))
        /\ ShellExits(EXIT_FAIL_1(shell))
    BY <1>5, Waited DEF WAIT_CHILD_1_fails
  <2>2. shell.heap = Arguments /\ line.kind = "run"
    BY <1>5, <2>1, SomeLine DEF IInv, HistoryInv, ShellInv, FileNames
  <2> DEFINE q == EXIT_FAIL_1(shell)
  <2>3. q.pc = "exited" /\ q.buffer = <<>>
    BY <2>1, <2>2, ExitFail_1 DEF ShellPlaces
  <2>4. ShellExits(q)
    BY <2>1
  <2> HIDE DEF q
  <2>5. Told(screen', shell'.buffer, Conversation(history, TRUE)) /\ shell' = q
    BY <1>5, <2>1, <2>3, <2>4, ExitTold
  <2>6. Done'
    BY <2>3, <2>5 DEF Done
  <2> QED BY <1>5, <2>1, <2>3, <2>5, <2>6, StaysDone
<1> QED BY <1>1, <1>2, <1>3, <1>4, <1>5

(***************************************************************************)
(* A file that cannot be opened is an I/O error to the user.               *)
(***************************************************************************)
LEMMA OpenFailed ==
    ASSUME IInv, TalkInv, ~Done, ~ChildAlive, UNCHANGED <<tty, child>>, "open" \in MayFail,
           Fault("open"), line.kind = "run",
           NEW p \in Processes(ShellPlaces), p.pc = "prompt", p.buffer = shell.buffer,
           PrintAndGoOn(p, <<Message("I/O error\n")>>)
    PROVE  TalkInv'
<1>1. PICK l \in Lines : /\ history' = [history EXCEPT ![Len(history)] = l]
                         /\ l.fault = "open" /\ l.kind = "run"
  <2>1. history \in Seq(Lines) /\ Len(history) > 0
    BY NotDone
  <2>2. \E l \in Lines : /\ history' = [history EXCEPT ![Len(history)] = l]
                        /\ l.fault = "open" /\ l.kind = line.kind
    BY <2>1, FaultLine
  <2> QED BY <2>2
<1>2. Answer(l) = <<"I/O error\n">>
  BY <1>1, AnswerIs, Zenon
<1>3. "I/O error\n" \in Texts
  BY Zenon DEF Texts
<1> QED BY <1>1, <1>2, <1>3, ShellAnswers, Zenon

(***************************************************************************)
(* CHECK_EMPTY, CHECK_SYNTAX and the two OPENs.                            *)
(***************************************************************************)
LEMMA OpenTalks ==
    IInv /\ TalkInv
        /\ (exec_command_2 \/ OPEN_input \/ INPUT_OPEN_FAILURE \/ OPEN_output \/ OUTPUT_OPEN_FAILURE)
        => TalkInv'
<1>1. ASSUME IInv, TalkInv, exec_command_2 PROVE TalkInv'
  <2>1. /\ shell.pc = "exec_command" /\ UNCHANGED <<tty, history, child>>
        /\ ~Done /\ ~ChildAlive /\ child.buffer = <<>> /\ shell \in Processes(ShellPlaces)
    BY <1>1, BeforeFork DEF exec_command_2
  <2>2. line.kind \in {"empty", "wrong", "run"} /\ Tokens(line) \subseteq shell.heap
    BY <1>1, <2>1 DEF IInv, HistoryInv, ShellInv
  <2>3. CASE line.kind = "empty"
    <3>1. shell' = Prompt(tokenizer_free(shell)) /\ screen' = screen
      BY <1>1, <2>3 DEF exec_command_2
    <3> QED BY <1>1, <2>1, <2>3, <3>1, EmptyTalks
  <2>4. CASE line.kind = "wrong"
    <3> DEFINE q == tokenizer_free(shell)
               p == Prompt(q)
    <3>1. q \in Processes(ShellPlaces) /\ q.pc = "exec_command" /\ q.buffer = shell.buffer
      BY <2>1, <2>2, FreeBlocks DEF tokenizer_free
    <3>2. PrintAndGoOn(p, <<Message("Syntax error\n")>>)
      BY <1>1, <2>4 DEF exec_command_2
    <3> HIDE DEF q
    <3>3. p \in Processes(ShellPlaces) /\ p.pc = "prompt" /\ p.buffer = shell.buffer
      BY <3>1, Prompted
    <3> HIDE DEF p
    <3>4. "Syntax error\n" \in Texts
      BY Zenon DEF Texts
    <3>5. line \in Lines /\ line.fault = "none" /\ history' = [history EXCEPT ![Len(history)] = line]
      BY <1>1, <2>1, NotDone
    <3>6. Answer(line) = <<"Syntax error\n">>
      BY <2>4, <3>5, AnswerIs, Zenon
    <3> QED BY <1>1, <2>1, <3>2, <3>3, <3>4, <3>5, <3>6, ShellAnswers, Zenon
  <2>5. CASE line.kind = "run"
    <3>1. screen' = screen /\ shell' = [shell EXCEPT !.pc = "open_in", !.heap = @ \cup {"argument_list"}]
      BY <1>1, <2>5 DEF exec_command_2
    <3>2. shell'.pc = "open_in" /\ shell'.buffer = shell.buffer
      BY <2>1, <3>1 DEF Processes
    <3>3. ~Done'
      BY <3>2 DEF Done
    <3> QED BY <1>1, <2>1, <3>1, <3>2, <3>3, NoMembers, QuietShell
  <2> QED BY <2>2, <2>3, <2>4, <2>5
<1>2. ASSUME IInv, TalkInv, OPEN_input PROVE TalkInv'
  <2>1. /\ UNCHANGED <<tty, history, child, screen>>
        /\ ~Done /\ ~ChildAlive /\ child.buffer = <<>> /\ shell \in Processes(ShellPlaces)
    BY <1>2, BeforeFork DEF OPEN_input
  <2>2. shell'.pc = "open_out" /\ shell'.buffer = shell.buffer
    BY <1>2, <2>1 DEF OPEN_input, Processes
  <2>3. ~Done'
    BY <2>2 DEF Done
  <2> QED BY <1>2, <2>1, <2>2, <2>3, NoMembers, QuietShell
<1>3. ASSUME IInv, TalkInv, INPUT_OPEN_FAILURE PROVE TalkInv'
  <2>1. /\ UNCHANGED <<tty, child>> /\ "open" \in MayFail /\ Fault("open") /\ shell.pc = "open_in"
        /\ ~Done /\ ~ChildAlive /\ shell \in Processes(ShellPlaces)
    BY <1>3, BeforeFork DEF INPUT_OPEN_FAILURE
  <2>2. shell.heap = Arguments /\ line.kind = "run"
    BY <1>3, <2>1 DEF IInv, HistoryInv, ShellInv
  <2> DEFINE named == [shell EXCEPT !.heap = @ \cup {"in_file_name"}]
             freed == Free(named, {"in_file_name", "tokens", "argument_list"})
             p == Prompt(freed)
  <2>3. PrintAndGoOn(p, <<Message("I/O error\n")>>)
    BY <1>3 DEF INPUT_OPEN_FAILURE
  <2>4. /\ named \in Processes(ShellPlaces) /\ named.pc = "open_in" /\ named.buffer = shell.buffer
        /\ named.heap = {"in_file_name", "tokens", "argument_list"}
    BY <2>1, <2>2 DEF Processes, Blocks, Arguments
  <2> HIDE DEF named
  <2>5. freed \in Processes(ShellPlaces) /\ freed.pc = "open_in" /\ freed.buffer = shell.buffer
    BY <2>4, FreeBlocks
  <2> HIDE DEF freed
  <2>6. p \in Processes(ShellPlaces) /\ p.pc = "prompt" /\ p.buffer = shell.buffer
    BY <2>5, Prompted
  <2> HIDE DEF p
  <2> QED BY <1>3, <2>1, <2>2, <2>3, <2>6, OpenFailed
<1>4. ASSUME IInv, TalkInv, OPEN_output PROVE TalkInv'
  <2>1. /\ UNCHANGED <<tty, history, child, screen>>
        /\ ~Done /\ ~ChildAlive /\ child.buffer = <<>> /\ shell \in Processes(ShellPlaces)
    BY <1>4, BeforeFork DEF OPEN_output
  <2>2. shell'.pc = "fork" /\ shell'.buffer = shell.buffer
    BY <1>4, <2>1 DEF OPEN_output, Processes
  <2>3. ~Done'
    BY <2>2 DEF Done
  <2> QED BY <1>4, <2>1, <2>2, <2>3, NoMembers, QuietShell
<1>5. ASSUME IInv, TalkInv, OUTPUT_OPEN_FAILURE PROVE TalkInv'
  <2>1. /\ UNCHANGED <<tty, child>> /\ "open" \in MayFail /\ Fault("open") /\ shell.pc = "open_out"
        /\ line.output_redir /\ ~Done /\ ~ChildAlive /\ shell \in Processes(ShellPlaces)
    BY <1>5, BeforeFork DEF OUTPUT_OPEN_FAILURE
  <2>2. /\ shell.heap = Arguments \cup IF line.input_redir THEN {"in_file_name"} ELSE {}
        /\ shell.fds = (IF line.input_redir THEN {"in_fd"} ELSE {})
        /\ line.kind = "run"
    BY <1>5, <2>1 DEF IInv, HistoryInv, ShellInv
  <2> DEFINE named == [shell EXCEPT !.heap = @ \cup {"out_file_name"}]
             closed == CLOSE_INPUT(named)
             freed == FREE_MEMORY(closed)
             p == Prompt(freed)
  <2>3. /\ named \in Processes(ShellPlaces) /\ named.pc = "open_out"
        /\ named.heap = Arguments \cup FileNames /\ named.buffer = shell.buffer
        /\ named.fds = (IF line.input_redir THEN {"in_fd"} ELSE {})
    BY <2>1, <2>2 DEF Processes, Blocks, FileNames
  <2> HIDE DEF named
  <2>4. /\ closed \in Processes(ShellPlaces) /\ closed.pc = "open_out"
        /\ closed.heap = Arguments \cup FileNames /\ closed.buffer = shell.buffer
    BY <2>3 DEF CLOSE_INPUT, Processes
  <2>5. PrintAndGoOn(Prompt(IF Gone(closed) THEN closed ELSE freed), <<Message("I/O error\n")>>)
    BY <1>5 DEF OUTPUT_OPEN_FAILURE, named
  <2> HIDE DEF closed
  <2>6. ~Gone(closed)
    BY <2>4 DEF Gone
  <2>7. PrintAndGoOn(p, <<Message("I/O error\n")>>)
    BY <2>5, <2>6, Zenon
  <2>8. freed \in Processes(ShellPlaces) /\ freed.pc = "open_out" /\ freed.buffer = shell.buffer
    BY <2>4, FreeMemory
  <2> HIDE DEF freed
  <2>9. p \in Processes(ShellPlaces) /\ p.pc = "prompt" /\ p.buffer = shell.buffer
    BY <2>8, Prompted
  <2> HIDE DEF p
  <2> QED BY <1>5, <2>1, <2>2, <2>7, <2>9, OpenFailed
<1> QED BY <1>1, <1>2, <1>3, <1>4, <1>5

(***************************************************************************)
(* The steps of Shell_2 in the parent.                                     *)
(***************************************************************************)
LEMMA ParentTalks ==
    IInv /\ TalkInv
        /\ (FORK_2 \/ FORK_2_fails \/ parent_CLOSE \/ WAIT_CHILD_2 \/ WAIT_CHILD_2_fails)
        => TalkInv'
<1>1. ASSUME IInv, TalkInv, FORK_2 PROVE TalkInv'
  <2>1. /\ UNCHANGED <<tty, history, screen>> /\ ~Done /\ shell \in Processes(ShellPlaces)
    BY <1>1, BeforeFork DEF FORK_2
  <2>2. /\ shell'.pc = "close" /\ shell'.buffer = shell.buffer
        /\ child'.pc = "save_stdout" /\ child'.buffer = shell.buffer
    BY <1>1, <2>1 DEF FORK_2, Processes
  <2>3. ~Done' /\ ChildAlive'
    BY <2>2 DEF Done, ChildAlive
  <2> QED BY <1>1, <2>1, <2>2, <2>3, QuietShell
<1>2. ASSUME IInv, TalkInv, FORK_2_fails PROVE TalkInv'
  <2>1. /\ UNCHANGED <<tty, child>> /\ "fork" \in MayFail /\ Fault("fork")
        /\ shell.pc = "fork" /\ ~Done /\ ~ChildAlive
        /\ shell \in Processes(ShellPlaces) /\ ShellExits(EXIT_FAIL_2(shell))
    BY <1>2, BeforeFork DEF FORK_2_fails
  <2>2. shell.heap = Arguments \cup FileNames
    BY <1>2, <2>1 DEF IInv, ShellInv
  <2> DEFINE q == EXIT_FAIL_2(shell)
  <2>3. q.pc = "exited" /\ q.buffer = <<>>
    BY <2>1, <2>2, ExitFail DEF ShellPlaces
  <2> HIDE DEF q
  <2> QED BY <1>2, <2>1, <2>3, ShellFails DEF q
<1>3. ASSUME IInv, TalkInv, parent_CLOSE PROVE TalkInv'
  <2>1. /\ shell.pc = "close" /\ UNCHANGED <<tty, history, child>>
        /\ shell \in Processes(ShellPlaces) /\ Redirections \subseteq shell.fds
    BY <1>3, ShellState DEF parent_CLOSE, IInv, ShellInv
  <2> DEFINE closed == CLOSE(shell)
  <2>2. closed \in Processes(ShellPlaces) /\ closed.pc = "close" /\ closed.buffer = shell.buffer
    BY <2>1, CloseFiles
  <2>3. shell' = [closed EXCEPT !.pc = "wait"] /\ screen' = screen
    BY <1>3, <2>2 DEF parent_CLOSE, Gone
  <2> HIDE DEF closed
  <2>4. shell'.pc = "wait" /\ shell'.buffer = shell.buffer
    BY <2>2, <2>3 DEF Processes
  <2>5. /\ ToSet(child'.buffer) \subseteq ToSet(shell'.buffer)
        /\ ~ChildAlive' => child'.buffer = <<>>
    BY <1>3, <2>1, <2>4 DEF TalkInv, ChildAlive
  <2>6. CASE child.pc = "exited"
    <3>1. Done /\ Done'
      BY <2>1, <2>4, <2>6 DEF Done
    <3>2. Told(screen', shell'.buffer, Conversation(history, TRUE))
      BY <1>3, <2>3, <2>4, <3>1, ToldSame
    <3> QED BY <1>3, <2>1, <2>4, <2>5, <3>1, <3>2, Quiet
  <2>7. CASE child.pc # "exited"
    <3>1. ~Done /\ ~Done'
      BY <2>1, <2>4, <2>7 DEF Done
    <3>2. Told(screen', shell'.buffer, Conversation(history, FALSE))
      BY <1>3, <2>3, <2>4, <3>1, ToldSame
    <3> QED BY <1>3, <2>1, <2>4, <2>5, <3>1, <3>2, Quiet
  <2> QED BY <2>6, <2>7
<1>4. ASSUME IInv, TalkInv, WAIT_CHILD_2 PROVE TalkInv'
  <2>1. /\ UNCHANGED <<tty, history, child, screen>> /\ shell.pc = "wait"
        /\ Done /\ ~ChildAlive /\ shell \in Processes(ShellPlaces)
        /\ Told(screen, shell.buffer, Conversation(history, TRUE))
    BY <1>4, Waited DEF WAIT_CHILD_2
  <2>2. shell.heap = Arguments \cup FileNames
    BY <1>4, <2>1 DEF IInv, ShellInv
  <2> DEFINE q == FREE_MEMORY(shell)
  <2>3. q \in Processes(ShellPlaces) /\ q.pc = "wait" /\ q.buffer = shell.buffer
    BY <2>1, <2>2, FreeMemory
  <2>4. shell' = Prompt(q)
    BY <1>4 DEF WAIT_CHILD_2
  <2> HIDE DEF q
  <2>5. shell'.pc = "prompt" /\ shell'.buffer = shell.buffer
    BY <2>3, <2>4, Prompted
  <2>6. Done'
    BY <2>5 DEF Done
  <2> QED BY <1>4, <2>1, <2>5, <2>6, StaysDone
<1>5. ASSUME IInv, TalkInv, WAIT_CHILD_2_fails PROVE TalkInv'
  <2>1. /\ UNCHANGED <<tty, history, child>> /\ shell.pc = "wait"
        /\ Done /\ ~ChildAlive /\ shell \in Processes(ShellPlaces)
        /\ Told(screen, shell.buffer, Conversation(history, TRUE))
        /\ ShellExits(EXIT_FAIL_2(shell))
    BY <1>5, Waited DEF WAIT_CHILD_2_fails
  <2>2. shell.heap = Arguments \cup FileNames
    BY <1>5, <2>1 DEF IInv, ShellInv
  <2> DEFINE q == EXIT_FAIL_2(shell)
  <2>3. q.pc = "exited" /\ q.buffer = <<>>
    BY <2>1, <2>2, ExitFail DEF ShellPlaces
  <2>4. ShellExits(q)
    BY <2>1
  <2> HIDE DEF q
  <2>5. Told(screen', shell'.buffer, Conversation(history, TRUE)) /\ shell' = q
    BY <1>5, <2>1, <2>3, <2>4, ExitTold
  <2>6. Done'
    BY <2>3, <2>5 DEF Done
  <2> QED BY <1>5, <2>1, <2>3, <2>5, <2>6, StaysDone
<1> QED BY <1>1, <1>2, <1>3, <1>4, <1>5

(***************************************************************************)
(* Only a program that was found runs.                                     *)
(***************************************************************************)
Found == child.pc = "running" => line.found

\* No step of the shell starts a program.
LEMMA ShellFound == IInv /\ Found /\ (get_user_line \/ EndOfInput \/ Shell) => Found'
<1>1. ASSUME UNCHANGED <<history, child>>, Found PROVE Found'
  BY <1>1 DEF Found, line
<1>2. ASSUME IInv, child' = child, shell.pc \notin {"close", "wait"} PROVE Found'
  BY <1>2, ShellState DEF Found, ChildAlive
<1>3. ASSUME get_user_line PROVE Found'
  BY <1>3 DEF Found, get_user_line, Process
<1>4. ASSUME IInv, FORK_1 \/ FORK_2 PROVE Found'
  <2>1. child'.pc \in {"execute", "save_stdout"}
    BY <1>4, ShellState DEF FORK_1, FORK_2, Processes
  <2> QED BY <2>1 DEF Found
<1>5. ASSUME IInv,
             EndOfInput \/ FORK_1_fails \/ FORK_2_fails \/ INPUT_OPEN_FAILURE \/ OUTPUT_OPEN_FAILURE
      PROVE  Found'
  BY <1>2, <1>5 DEF EndOfInput, FORK_1_fails, FORK_2_fails, INPUT_OPEN_FAILURE, OUTPUT_OPEN_FAILURE
<1>6. ASSUME Found,
             \/ exec_command_1 \/ WAIT_CHILD_1 \/ WAIT_CHILD_1_fails
             \/ exec_command_2 \/ OPEN_input \/ OPEN_output
             \/ parent_CLOSE \/ WAIT_CHILD_2 \/ WAIT_CHILD_2_fails
      PROVE  Found'
  BY <1>1, <1>6
     DEF exec_command_1, WAIT_CHILD_1, WAIT_CHILD_1_fails, exec_command_2, OPEN_input, OPEN_output,
         parent_CLOSE, WAIT_CHILD_2, WAIT_CHILD_2_fails
<1> QED BY <1>3, <1>4, <1>5, <1>6 DEF Shell

(***************************************************************************)
(* A step of the child on its way to the command.                          *)
(***************************************************************************)
LEMMA QuietChild ==
    ASSUME IInv, TalkInv, ChildAlive, UNCHANGED <<tty, history, shell, screen>>,
           ChildAlive', child'.buffer \in {child.buffer, <<>>}
    PROVE  TalkInv'
<1>1. ~Done /\ ~Done' /\ shell.pc # "exited"
  BY ChildState DEF Done, ChildAlive
<1>2. ToSet(child'.buffer) \subseteq ToSet(shell.buffer)
  BY NoMembers DEF TalkInv
<1> QED BY <1>1, <1>2, QuietShell

(***************************************************************************)
(* A child that calls exit after its last message, or without one.         *)
(***************************************************************************)
LEMMA ChildSays ==
    ASSUME IInv, TalkInv, ChildAlive, UNCHANGED <<tty, shell, history>>,
           NEW q, q.pc = "exited", q.buffer = <<>>,
           NEW text \in {"Command not found\n", "output"}, ChildExits(q, <<Message(text)>>),
           IF q.stdout = "inherited" THEN Answer(line) = <<text>> ELSE Answer(line) = <<>>
    PROVE  TalkInv' /\ child'.pc = "exited"
<1> DEFINE m == <<Message(text)>>
<1>1. ~Done
  BY ChildState DEF Done, ChildAlive
<1>2. line \in Lines /\ history' = [history EXCEPT ![Len(history)] = line]
  BY <1>1, NotDone
<1>3. m \in Seq(Messages)
  BY ChildMessages
<1>4. m = Said(Len(history), <<text>>)
  BY MessageSaid
<1>5. ChildExits(q, m)
  OBVIOUS
<1>6. child' = q
  BY DEF ChildExits
<1> HIDE DEF m
<1>7. IF q.stdout = "inherited" THEN m = Said(Len(history), Answer(line)) ELSE Answer(line) = <<>>
  BY <1>4
<1>8. TalkInv'
  BY <1>2, <1>3, <1>5, <1>7, ChildAnswers
<1> QED BY <1>6, <1>8

(***************************************************************************)
(* The steps of the child.                                                 *)
(***************************************************************************)
LEMMA ChildTalks == IInv /\ TalkInv /\ Found /\ Child => TalkInv' /\ Found'
<1> USE DEF Found
<1>1. ASSUME IInv, TalkInv, EXECUTE_1 PROVE TalkInv' /\ Found'
  <2>1. /\ program = "Shell_1" /\ child.pc = "execute" /\ ChildAlive
        /\ UNCHANGED <<tty, history, shell>> /\ line' = line
    BY <1>1 DEF EXECUTE_1, ChildAlive, line
  <2>2. /\ child \in Processes(ChildPlaces) /\ line.kind = "run"
        /\ ~line.input_redir /\ ~line.output_redir
    BY <1>1, <2>1, ChildState DEF IInv, HistoryInv
  <2>3. child.heap = Arguments /\ child.stdout = "inherited"
    BY <1>1, <2>1, <2>2 DEF IInv, ChildInv, FileNames
  <2>4. CASE line.found
    <3>1. child' = Executed(child) /\ screen' = screen
      BY <1>1, <2>4 DEF EXECUTE_1
    <3>2. child'.pc = "running" /\ child'.buffer = <<>>
      BY <2>2, <3>1 DEF Executed, Processes
    <3>3. ChildAlive'
      BY <3>2 DEF ChildAlive
    <3> QED BY <1>1, <2>1, <2>4, <3>1, <3>2, <3>3, QuietChild
  <2>5. CASE ~line.found
    <3> DEFINE q == EXIT_FAIL_1(child)
    <3>1. ChildExits(q, <<Message("Command not found\n")>>)
      BY <1>1, <2>5 DEF EXECUTE_1
    <3>2. q.pc = "exited" /\ q.buffer = <<>> /\ q.stdout = "inherited"
      BY <2>1, <2>2, <2>3, ExitFail_1 DEF ChildPlaces
    <3>3. line.fault = "none"
      BY <1>1, <2>1, ChildState, NotDone DEF Done, ChildAlive
    <3>4. Answer(line) = <<"Command not found\n">>
      BY <2>2, <2>5, <3>3, AnswerIs, Zenon
    <3> HIDE DEF q
    <3>5. TalkInv' /\ child'.pc = "exited"
      BY <1>1, <2>1, <3>1, <3>2, <3>4, ChildSays, Zenon
    <3> QED BY <3>5
  <2> QED BY <2>4, <2>5
<1>2. ASSUME IInv, TalkInv, SAVE_STDOUT PROVE TalkInv' /\ Found'
  <2>1. ChildAlive /\ UNCHANGED <<tty, history, shell, screen>>
    BY <1>2 DEF SAVE_STDOUT, ChildAlive
  <2>2. child'.pc = "dup2" /\ child'.buffer = child.buffer
    BY <1>2, <2>1, ChildState DEF SAVE_STDOUT, Processes
  <2>3. ChildAlive'
    BY <2>2 DEF ChildAlive
  <2> QED BY <1>2, <2>1, <2>2, <2>3, QuietChild
<1>3. ASSUME IInv, TalkInv, SAVE_STDOUT_fails PROVE TalkInv' /\ Found'
  <2>1. /\ child.pc = "save_stdout" /\ ChildAlive /\ UNCHANGED <<tty, shell>>
        /\ "dup" \in MayFail /\ Fault("dup") /\ ChildExits(EXIT_FAIL_2(child), <<>>)
    BY <1>3 DEF SAVE_STDOUT_fails, ChildAlive
  <2>2. ~Done
    BY <1>3, <2>1, ChildState DEF Done, ChildAlive
  <2>3. history \in Seq(Lines) /\ Len(history) > 0
    BY <1>3, <2>2, NotDone
  <2>4. PICK l \in Lines : history' = [history EXCEPT ![Len(history)] = l] /\ l.fault = "dup"
    BY <2>1, <2>3, FaultLine
  <2>5. Answer(l) = <<>>
    BY <2>4, AnswerIs, Zenon
  <2>6. child \in Processes(ChildPlaces) /\ child.heap = Arguments \cup FileNames
    BY <1>3, <2>1, ChildState DEF IInv, ChildInv
  <2> DEFINE q == EXIT_FAIL_2(child)
             m == <<>>
  <2>7. q.pc = "exited" /\ q.buffer = <<>>
    BY <2>1, <2>6, ExitFail DEF ChildPlaces
  <2>8. ChildExits(q, m) /\ child' = q
    BY <2>1 DEF ChildExits
  <2>9. m \in Seq(Messages) /\ m = Said(Len(history), Answer(l))
    BY <2>5, SaidNothing
  <2> HIDE DEF q, m
  <2>10. TalkInv'
    BY <1>3, <2>1, <2>4, <2>5, <2>7, <2>8, <2>9, ChildAnswers
  <2> QED BY <2>7, <2>8, <2>10
<1>4. ASSUME IInv, TalkInv, DUP2 PROVE TalkInv' /\ Found'
  <2>1. /\ child.pc = "dup2" /\ ChildAlive /\ UNCHANGED <<tty, history, shell>>
    BY <1>4 DEF DUP2, ChildAlive
  <2>2. child \in Processes(ChildPlaces) /\ Redirections \subseteq child.fds
    BY <1>4, <2>1, ChildState DEF IInv, ChildInv
  <2>3. child'.pc = "close" /\ child'.buffer = child.buffer /\ screen' = screen
    BY <1>4, <2>2 DEF DUP2, Processes
  <2>4. ChildAlive'
    BY <2>3 DEF ChildAlive
  <2> QED BY <1>4, <2>1, <2>3, <2>4, QuietChild
<1>5. ASSUME IInv, TalkInv, child_CLOSE PROVE TalkInv' /\ Found'
  <2>1. /\ child.pc = "close" /\ ChildAlive /\ UNCHANGED <<tty, history, shell>>
    BY <1>5 DEF child_CLOSE, ChildAlive
  <2>2. child \in Processes(ChildPlaces) /\ Redirections \subseteq child.fds
    BY <1>5, <2>1, ChildState DEF IInv, ChildInv
  <2> DEFINE closed == CLOSE(child)
  <2>3. closed \in Processes(ChildPlaces) /\ closed.pc = "close" /\ closed.buffer = child.buffer
    BY <2>1, <2>2, CloseFiles
  <2>4. child' = [closed EXCEPT !.pc = "execute"] /\ screen' = screen
    BY <1>5, <2>3 DEF child_CLOSE, Gone
  <2> HIDE DEF closed
  <2>5. child'.pc = "execute" /\ child'.buffer = child.buffer
    BY <2>3, <2>4 DEF Processes
  <2>6. ChildAlive'
    BY <2>5 DEF ChildAlive
  <2> QED BY <1>5, <2>1, <2>4, <2>5, <2>6, QuietChild
<1>6. ASSUME IInv, TalkInv, EXECUTE_2 PROVE TalkInv' /\ Found'
  <2>1. /\ child.pc = "execute" /\ ChildAlive /\ UNCHANGED <<tty, history, shell>> /\ line' = line
    BY <1>6 DEF EXECUTE_2, ChildAlive, line
  <2>2. /\ child \in Processes(ChildPlaces) /\ child.fds = Saved
        /\ child.heap = Arguments \cup FileNames
        /\ child.stdout = (IF line.output_redir THEN "out_fd" ELSE "inherited")
        /\ line.kind = "run"
    BY <1>6, <2>1, ChildState DEF IInv, HistoryInv, ChildInv
  <2>3. CASE line.found
    <3>1. child' = Executed(child) /\ screen' = screen
      BY <1>6, <2>3 DEF EXECUTE_2
    <3>2. child'.pc = "running" /\ child'.buffer = <<>>
      BY <2>2, <3>1 DEF Executed, Processes
    <3>3. ChildAlive'
      BY <3>2 DEF ChildAlive
    <3> QED BY <1>6, <2>1, <2>3, <3>1, <3>2, <3>3, QuietChild
  <2>4. CASE ~line.found
    <3> DEFINE restored == RESTORE_STDOUT(child)
               q == EXIT_FAIL_WITHOUT_CLOSE(restored)
    <3>1. /\ restored \in Processes(ChildPlaces) /\ restored.pc = "execute"
          /\ restored.heap = Arguments \cup FileNames /\ restored.stdout = "inherited"
      BY <2>1, <2>2 DEF RESTORE_STDOUT, Saved, Processes
    <3>2. ChildExits(q, <<Message("Command not found\n")>>)
      BY <1>6, <2>4, <3>1 DEF EXECUTE_2, Gone
    <3> HIDE DEF restored
    <3>3. q.pc = "exited" /\ q.buffer = <<>> /\ q.stdout = "inherited"
      BY <3>1, ExitFail DEF ChildPlaces
    <3>4. line.fault = "none"
      BY <1>6, <2>1, ChildState, NotDone DEF Done, ChildAlive
    <3>5. Answer(line) = <<"Command not found\n">>
      BY <2>2, <2>4, <3>4, AnswerIs, Zenon
    <3> HIDE DEF q
    <3>6. TalkInv' /\ child'.pc = "exited"
      BY <1>6, <2>1, <3>2, <3>3, <3>5, ChildSays, Zenon
    <3> QED BY <3>6
  <2> QED BY <2>3, <2>4
<1>7. ASSUME IInv, TalkInv, Found, RunProgram PROVE TalkInv' /\ Found'
  <2>1. /\ child.pc = "running" /\ ChildAlive /\ UNCHANGED <<tty, history, shell>> /\ line.found
    BY <1>7 DEF RunProgram, ChildAlive
  <2>2. /\ child \in Processes(ChildPlaces) /\ line.kind = "run"
        /\ child.stdout = (IF line.output_redir THEN "out_fd" ELSE "inherited")
    BY <1>7, <2>1, ChildState DEF IInv, HistoryInv, ChildInv
  <2> DEFINE q == Exit(child)
  <2>3. ChildExits(q, <<Message("output")>>)
    BY <1>7 DEF RunProgram
  <2>4. q.pc = "exited" /\ q.buffer = <<>> /\ q.stdout = child.stdout
    BY <2>1, <2>2, ExitProcess DEF ChildPlaces
  <2>5. line.fault = "none"
    BY <1>7, <2>1, ChildState, NotDone DEF Done, ChildAlive
  <2>6. Answer(line) = IF line.output_redir THEN <<>> ELSE <<"output">>
    BY <2>1, <2>2, <2>5, AnswerIs, Zenon
  <2>7. IF q.stdout = "inherited" THEN Answer(line) = <<"output">> ELSE Answer(line) = <<>>
    BY <2>2, <2>4, <2>6
  <2> HIDE DEF q
  <2>8. TalkInv' /\ child'.pc = "exited"
    BY <1>7, <2>1, <2>3, <2>4, <2>7, ChildSays, Zenon
  <2> QED BY <2>8
<1> QED BY <1>1, <1>2, <1>3, <1>4, <1>5, <1>6, <1>7 DEF Child

(***************************************************************************)
(* Every step keeps what was shown in agreement with what was typed.       *)
(***************************************************************************)
LEMMA TalkStep == IInv /\ TalkInv /\ Found /\ [Next]_vars => TalkInv' /\ Found'
<1>1. ASSUME TalkInv, Found, UNCHANGED vars PROVE TalkInv' /\ Found'
  <2>1. UNCHANGED <<tty, history, shell, child, screen>>
    BY <1>1 DEF vars
  <2>2. line' = line /\ Done' = Done /\ ChildAlive' = ChildAlive
    BY <2>1 DEF line, Done, ChildAlive
  <2>3. Told(screen, shell.buffer, Conversation(history, Done))'
    BY <1>1, <2>1, <2>2 DEF TalkInv, Told
  <2> QED BY <1>1, <2>1, <2>2, <2>3 DEF TalkInv, Found
<1>2. ASSUME IInv, TalkInv, Shell PROVE TalkInv'
  BY <1>2, Shell1Talks, OpenTalks, ParentTalks DEF Shell
<1> QED BY <1>1, <1>2, MainTalks, ShellFound, ChildTalks DEF Next

(***************************************************************************)
(* On a terminal every line gets its prompt and then its answer, each once *)
(* and before the next prompt, although two processes write them; and when *)
(* stdout is not a terminal, by the end of the shell nothing is missing    *)
(* and nothing else is there.                                              *)
(***************************************************************************)
THEOREM TranscriptCorrect == Spec => []Transcript
<1>1. ASSUME IInv, TalkInv PROVE Transcript
  <2>1. ASSUME tty
        PROVE  \/ screen = Conversation(history, TRUE)
               \/ shell.pc # "prompt" /\ screen = Conversation(history, FALSE)
    <3>1. screen = Conversation(history, Done)
      BY <1>1, <2>1 DEF TalkInv, Told
    <3>2. Done = TRUE \/ (Done = FALSE /\ shell.pc # "prompt")
      BY DEF Done
    <3> QED BY <3>1, <3>2
  <2>2. ASSUME ~tty, Gone(shell)
        PROVE  ToSet(screen) = ToSet(Conversation(history, TRUE))
    <3>1. shell.pc = "exited" /\ shell.buffer = <<>>
      BY <1>1, <2>2 DEF IInv, ShellInv, Gone, TalkInv
    <3>2. Done = TRUE
      BY <3>1 DEF Done
    <3>3. Told(screen, shell.buffer, Conversation(history, TRUE))
      BY <1>1, <3>2 DEF TalkInv
    <3> QED BY <2>2, <3>1, <3>3, NoMembers DEF Told
  <2> QED BY <2>1, <2>2 DEF Transcript
<1>2. Init => Found
  BY DEF Init, Found, Process
<1> QED BY <1>1, <1>2, InvariantCorrect, InitTalks, TalkStep, PTL DEF Spec----------------------------------------------------------------------------
(* The shell is not left waiting, and a line takes few steps.              *)

\* The guards of the steps of the shell, and of those of its child.
ShellCan ==
    \/ shell.pc = "exec_command" /\ (program = "Shell_2" => line.kind \in {"empty", "wrong", "run"})
    \/ shell.pc \in {"open_in", "open_out", "fork", "close"}
    \/ shell.pc = "wait" /\ Gone(child)

ChildCan == child.pc \in {"save_stdout", "dup2", "close", "execute", "running"}

\* A line has no child until it is forked, and then it has one.
ForkedInv ==
    /\ shell.pc \in {"exec_command", "open_in", "open_out", "fork"} => child.pc = "unborn"
    /\ shell.pc \in {"close", "wait"} => child.pc # "unborn"

\* How far a line is; at the prompt and at the end of the shell it is done.
ShellRank ==
    [place \in {"exec_command", "open_in", "open_out", "fork", "close", "wait"} |->
        CASE place = "exec_command" -> 0 [] place = "open_in" -> 1 [] place = "open_out" -> 2
          [] place = "fork" -> 3 [] place = "close" -> 4 [] place = "wait" -> 5]

ChildRank ==
    [place \in ChildPlaces |->
        CASE place = "unborn" -> 0 [] place = "save_stdout" -> 1 [] place = "dup2" -> 2
          [] place = "close" -> 3 [] place = "execute" -> 4 [] place = "running" -> 5
          [] place \in {"exited", "aborted"} -> 6]

StepsMade ==
    IF shell.pc \in {"prompt", "exited"} THEN 12 ELSE ShellRank[shell.pc] + ChildRank[child.pc]

\* The end of a process, by exit or by an abort in free.
LEMMA ExitPlace ==
    ASSUME NEW P, NEW p, Exit(p) \in Processes(P)
    PROVE  Exit(p).pc \in {"exited", "aborted"}
BY DEF Exit, Processes

LEMMA ExitFailPlace ==
    ASSUME NEW P, NEW p
    PROVE  /\ EXIT_FAIL_1(p) \in Processes(P) => EXIT_FAIL_1(p).pc \in {"exited", "aborted"}
           /\ EXIT_FAIL_WITHOUT_CLOSE(p) \in Processes(P) =>
                 EXIT_FAIL_WITHOUT_CLOSE(p).pc \in {"exited", "aborted"}
           /\ EXIT_FAIL_2(p) \in Processes(P) => EXIT_FAIL_2(p).pc \in {"exited", "aborted"}
BY ExitPlace DEF EXIT_FAIL_1, EXIT_FAIL_WITHOUT_CLOSE, EXIT_FAIL_2, Gone

LEMMA PromptPlace ==
    ASSUME NEW p, Prompt(p) \in Processes(ShellPlaces)
    PROVE  Prompt(p).pc \in {"prompt", "exited", "aborted"}
BY DEF Prompt, Gone, Processes

\* Printing does not move the shell.
LEMMA PrintPlace ==
    ASSUME NEW p, NEW messages, PrintAndGoOn(Prompt(p), messages), shell' \in Processes(ShellPlaces)
    PROVE  shell'.pc \in {"prompt", "exited", "aborted"}
<1>1. CASE tty
  BY <1>1, PromptPlace DEF PrintAndGoOn
<1>2. CASE ~tty
  <2> DEFINE q == Prompt(p)
  <2>1. shell' = [q EXCEPT !.buffer = @ \o messages]
    BY <1>2 DEF PrintAndGoOn
  <2>2. shell'.pc = q.pc
    BY <2>1 DEF Processes
  <2>3. q.pc \in {"prompt", "exited", "aborted"}
    BY <2>1 DEF Prompt, Gone, Processes
  <2> QED BY <2>2, <2>3
<1> QED BY <1>1, <1>2

\* Where a step of the shell leads.
ShellMoves ==
    \/ child' = child /\ shell.pc \notin {"prompt", "exited"} /\ shell'.pc \in {"prompt", "exited"}
    \/ /\ child' = child
       /\ <<shell.pc, shell'.pc>> \in
             {<<"exec_command", "open_in">>, <<"exec_command", "fork">>, <<"open_in", "open_out">>,
              <<"open_out", "fork">>, <<"close", "wait">>}
    \/ /\ shell.pc = "fork" /\ shell'.pc \in {"close", "wait"}
       /\ child'.pc \in {"save_stdout", "execute"}

LEMMA ShellMovesOn == ASSUME IInv, IInv', Shell PROVE ShellMoves
<1>1. /\ shell \in Processes(ShellPlaces) /\ child \in Processes(ChildPlaces)
      /\ shell' \in Processes(ShellPlaces) /\ shell'.pc # "aborted"
  BY DEF IInv, TypeOK, ShellInv
<1>2. CASE exec_command_1
  <2>1. shell.pc = "exec_command" /\ child' = child
    BY <1>2 DEF exec_command_1
  <2>2. shell'.pc \in {"prompt", "exited", "fork"}
    BY <1>1, <1>2, PromptPlace DEF exec_command_1, Processes
  <2> QED BY <2>1, <2>2 DEF ShellMoves
<1>3. CASE exec_command_2
  <2>1. shell.pc = "exec_command" /\ child' = child /\ line.kind \in {"empty", "wrong", "run"}
    BY <1>3 DEF exec_command_2, IInv, HistoryInv
  <2>2. CASE line.kind = "empty"
    <3>1. shell' = Prompt(tokenizer_free(shell))
      BY <1>3, <2>2 DEF exec_command_2
    <3> QED BY <1>1, <2>1, <3>1, PromptPlace DEF ShellMoves
  <2>3. CASE line.kind = "wrong"
    <3>1. PrintAndGoOn(Prompt(tokenizer_free(shell)), <<Message("Syntax error\n")>>)
      BY <1>3, <2>3 DEF exec_command_2
    <3> QED BY <1>1, <2>1, <3>1, PrintPlace DEF ShellMoves
  <2>4. CASE line.kind = "run"
    <3>1. shell' = [shell EXCEPT !.pc = "open_in", !.heap = @ \cup {"argument_list"}]
      BY <1>3, <2>4 DEF exec_command_2
    <3>2. shell'.pc = "open_in"
      BY <1>1, <3>1 DEF Processes
    <3> QED BY <2>1, <3>2 DEF ShellMoves
  <2> QED BY <2>1, <2>2, <2>3, <2>4
<1>4. CASE FORK_1 \/ FORK_2
  BY <1>1, <1>4 DEF FORK_1, FORK_2, Processes, ShellMoves
<1>5. CASE FORK_1_fails \/ FORK_2_fails \/ WAIT_CHILD_1_fails \/ WAIT_CHILD_2_fails
  <2>1. shell.pc \in {"fork", "wait"} /\ child' = child
    BY <1>5 DEF FORK_1_fails, FORK_2_fails, WAIT_CHILD_1_fails, WAIT_CHILD_2_fails
  <2>2. shell' = EXIT_FAIL_1(shell) \/ shell' = EXIT_FAIL_2(shell)
    BY <1>5 DEF FORK_1_fails, FORK_2_fails, WAIT_CHILD_1_fails, WAIT_CHILD_2_fails, ShellExits
  <2>3. shell'.pc = "exited"
    BY <1>1, <2>2, ExitFailPlace
  <2> QED BY <2>1, <2>3 DEF ShellMoves
<1>6. CASE WAIT_CHILD_1 \/ WAIT_CHILD_2
  <2>1. shell.pc = "wait" /\ child' = child
    BY <1>6 DEF WAIT_CHILD_1, WAIT_CHILD_2
  <2>2. \E p : shell' = Prompt(p)
    BY <1>6 DEF WAIT_CHILD_1, WAIT_CHILD_2
  <2>3. shell'.pc \in {"prompt", "exited"}
    BY <1>1, <2>2, PromptPlace
  <2> QED BY <2>1, <2>3 DEF ShellMoves
<1>7. CASE OPEN_input \/ OPEN_output
  BY <1>1, <1>7 DEF OPEN_input, OPEN_output, Processes, ShellMoves
<1>8. CASE INPUT_OPEN_FAILURE \/ OUTPUT_OPEN_FAILURE
  <2>1. shell.pc \in {"open_in", "open_out"} /\ child' = child
    BY <1>8 DEF INPUT_OPEN_FAILURE, OUTPUT_OPEN_FAILURE
  <2>2. \E p, messages : PrintAndGoOn(Prompt(p), messages)
    BY <1>8 DEF INPUT_OPEN_FAILURE, OUTPUT_OPEN_FAILURE
  <2>3. shell'.pc \in {"prompt", "exited"}
    BY <1>1, <2>2, PrintPlace
  <2> QED BY <2>1, <2>3 DEF ShellMoves
<1>9. CASE parent_CLOSE
  <2> DEFINE closed == CLOSE(shell)
  <2>1. shell.pc = "close" /\ child' = child
    BY <1>9 DEF parent_CLOSE
  <2>2. Redirections \subseteq shell.fds
    BY <2>1 DEF IInv, ShellInv
  <2>3. closed \in Processes(ShellPlaces) /\ closed.pc = "close"
    BY <1>1, <2>1, <2>2, CloseFiles
  <2>4. IF Gone(closed) THEN ShellExits(closed)
        ELSE shell' = [closed EXCEPT !.pc = "wait"] /\ UNCHANGED screen
    BY <1>9 DEF parent_CLOSE
  <2> HIDE DEF closed
  <2>5. shell'.pc = "wait"
    BY <2>3, <2>4 DEF Gone, Processes
  <2> QED BY <2>1, <2>5 DEF ShellMoves
<1> QED BY <1>2, <1>3, <1>4, <1>5, <1>6, <1>7, <1>8, <1>9 DEF Shell

\* Where a step of the child leads.
ChildMoves ==
    \/ ChildAlive /\ child'.pc \in {"exited", "aborted"}
    \/ <<child.pc, child'.pc>> \in
          {<<"save_stdout", "dup2">>, <<"dup2", "close">>, <<"close", "execute">>,
           <<"execute", "running">>}

\* execvp has started a program.
LEMMA ExecutedPlace ==
    ASSUME NEW p \in Processes(ChildPlaces)
    PROVE  Executed(p).pc = "running"
BY DEF Executed, Processes

LEMMA ChildMovesOn == ASSUME IInv, IInv', Child PROVE shell' = shell /\ ChildMoves
<1>1. child \in Processes(ChildPlaces) /\ child' \in Processes(ChildPlaces)
  BY DEF IInv, TypeOK
<1>2. shell' = shell
  BY DEF Child, EXECUTE_1, SAVE_STDOUT, SAVE_STDOUT_fails, DUP2, child_CLOSE, EXECUTE_2, RunProgram
<1> SUFFICES ChildMoves
  BY <1>2
<1>3. CASE EXECUTE_1
  <2>1. child.pc = "execute" /\ (child' = Executed(child) \/ child' = EXIT_FAIL_1(child))
    BY <1>3 DEF EXECUTE_1, ChildExits
  <2>2. CASE child' = Executed(child)
    BY <1>1, <2>1, <2>2, ExecutedPlace DEF ChildMoves
  <2>3. CASE child' = EXIT_FAIL_1(child)
    BY <1>1, <2>1, <2>3, ExitFailPlace DEF ChildMoves, ChildAlive
  <2> QED BY <2>1, <2>2, <2>3
<1>4. CASE SAVE_STDOUT
  BY <1>1, <1>4 DEF SAVE_STDOUT, Processes, ChildMoves
<1>5. CASE SAVE_STDOUT_fails
  <2>1. child.pc = "save_stdout" /\ child' = EXIT_FAIL_2(child)
    BY <1>5 DEF SAVE_STDOUT_fails, ChildExits
  <2> QED BY <1>1, <2>1, ExitFailPlace DEF ChildMoves, ChildAlive
<1>6. CASE DUP2
  <2>1. CASE Redirections \subseteq child.fds
    BY <1>1, <1>6, <2>1 DEF DUP2, Processes, ChildMoves
  <2>2. CASE ~(Redirections \subseteq child.fds)
    <3>1. child.pc = "dup2" /\ child' = EXIT_FAIL_2(child)
      BY <1>6, <2>2 DEF DUP2, ChildExits
    <3> QED BY <1>1, <3>1, ExitFailPlace DEF ChildMoves, ChildAlive
  <2> QED BY <2>1, <2>2
<1>7. CASE child_CLOSE
  <2> DEFINE closed == CLOSE(child)
  <2>1. child.pc = "close"
    BY <1>7 DEF child_CLOSE
  <2>2. IF Gone(closed) THEN child' = closed ELSE child' = [closed EXCEPT !.pc = "execute"]
    BY <1>7 DEF child_CLOSE, ChildExits
  <2> HIDE DEF closed
  <2>3. child'.pc \in {"exited", "aborted", "execute"}
    BY <1>1, <2>2 DEF Gone, Processes
  <2> QED BY <2>1, <2>3 DEF ChildMoves, ChildAlive
<1>8. CASE EXECUTE_2
  <2> DEFINE restored == RESTORE_STDOUT(child)
  <2>1. /\ child.pc = "execute"
        /\ \/ child' = Executed(child)
           \/ Gone(restored) /\ child' = restored
           \/ child' = EXIT_FAIL_WITHOUT_CLOSE(restored)
    BY <1>8 DEF EXECUTE_2, ChildExits
  <2> HIDE DEF restored
  <2>2. CASE child' = Executed(child)
    BY <1>1, <2>1, <2>2, ExecutedPlace DEF ChildMoves
  <2>3. CASE Gone(restored) /\ child' = restored
    BY <2>1, <2>3 DEF Gone, ChildMoves, ChildAlive
  <2>4. CASE child' = EXIT_FAIL_WITHOUT_CLOSE(restored)
    BY <1>1, <2>1, <2>4, ExitFailPlace DEF ChildMoves, ChildAlive
  <2> QED BY <2>1, <2>2, <2>3, <2>4
<1>9. CASE RunProgram
  <2>1. child.pc = "running" /\ child' = Exit(child)
    BY <1>9 DEF RunProgram, ChildExits
  <2> QED BY <1>1, <2>1, ExitPlace DEF ChildMoves, ChildAlive
<1> QED BY <1>2, <1>3, <1>4, <1>5, <1>6, <1>7, <1>8, <1>9 DEF Child

\* main starts a line without a child.
LEMMA MainMoves ==
    ASSUME IInv, IInv', get_user_line \/ EndOfInput
    PROVE  /\ shell.pc = "prompt"
           /\ \/ shell'.pc = "exec_command" /\ child'.pc = "unborn"
              \/ shell'.pc = "exited"
<1>1. shell \in Processes(ShellPlaces) /\ shell' \in Processes(ShellPlaces) /\ shell'.pc # "aborted"
  BY DEF IInv, TypeOK, ShellInv
<1>2. CASE get_user_line
  BY <1>1, <1>2 DEF get_user_line, PrintAndGoOn, Process, Processes
<1>3. CASE EndOfInput
  <2>1. shell.pc = "prompt" /\ shell' = Exit(shell)
    BY <1>3 DEF EndOfInput
  <2> QED BY <1>1, <2>1, ExitPlace
<1> QED BY <1>2, <1>3

LEMMA ForkedStep == IInv /\ IInv' /\ ForkedInv /\ [Next]_vars => ForkedInv'
<1> SUFFICES ASSUME IInv, IInv', ForkedInv, [Next]_vars PROVE ForkedInv'
  OBVIOUS
<1>1. CASE UNCHANGED vars
  BY <1>1 DEF vars, ForkedInv
<1>2. CASE get_user_line \/ EndOfInput
  BY <1>2, MainMoves DEF ForkedInv
<1>3. CASE Shell
  BY <1>3, ShellMovesOn DEF ForkedInv, ShellMoves
<1>4. CASE Child
  BY <1>4, ChildMovesOn, ChildState DEF ForkedInv, ChildMoves, ChildAlive
<1> QED BY <1>1, <1>2, <1>3, <1>4 DEF Next

LEMMA ForkedInductive == Spec => []ForkedInv
<1>1. Init => ForkedInv
  BY DEF Init, ForkedInv, Process
<1> QED BY <1>1, ForkedStep, InvariantCorrect, PTL DEF Spec

(***************************************************************************)
(* Whatever fails, a shell that is neither at its prompt nor gone can go   *)
(* on, or its child can: it never waits for a child that it did not fork,  *)
(* or that waits itself.                                                   *)
(***************************************************************************)
THEOREM NotLeftWaiting ==
    Spec => [](shell.pc \notin {"prompt", "exited"} => ShellCan \/ ChildCan)
<1>1. IInv /\ ForkedInv => (shell.pc \notin {"prompt", "exited"} => ShellCan \/ ChildCan)
  BY DEF IInv, TypeOK, ForkedInv, ShellInv, HistoryInv, Processes, ShellPlaces, ChildPlaces, ShellCan,
         ChildCan, Gone
<1> QED BY <1>1, InvariantCorrect, ForkedInductive, PTL

\* The numbers of ShellRank and ChildRank.
LEMMA Ranks ==
    /\ ShellRank["exec_command"] = 0 /\ ShellRank["open_in"] = 1 /\ ShellRank["open_out"] = 2
    /\ ShellRank["fork"] = 3 /\ ShellRank["close"] = 4 /\ ShellRank["wait"] = 5
    /\ ChildRank["unborn"] = 0 /\ ChildRank["save_stdout"] = 1 /\ ChildRank["dup2"] = 2
    /\ ChildRank["close"] = 3 /\ ChildRank["execute"] = 4 /\ ChildRank["running"] = 5
    /\ ChildRank["exited"] = 6 /\ ChildRank["aborted"] = 6
BY DEF ShellRank, ChildRank, ChildPlaces

LEMMA StepsWithin ==
    ASSUME IInv
    PROVE  /\ StepsMade \in 0 .. 12
           /\ shell.pc \notin {"prompt", "exited"} =>
                 /\ shell.pc \in {"exec_command", "open_in", "open_out", "fork", "close", "wait"}
                 /\ StepsMade = ShellRank[shell.pc] + ChildRank[child.pc] /\ StepsMade \in 0 .. 11
                 /\ ShellRank[shell.pc] \in 0 .. 5 /\ ChildRank[child.pc] \in 0 .. 6
<1>1. shell.pc \in ShellPlaces \ {"aborted"} /\ child.pc \in ChildPlaces
  BY DEF IInv, TypeOK, ShellInv, Processes
<1>2. shell.pc \notin {"prompt", "exited"} => ShellRank[shell.pc] \in 0 .. 5
  BY <1>1, Ranks DEF ShellPlaces
<1>3. ChildRank[child.pc] \in 0 .. 6
  BY <1>1, Ranks DEF ChildPlaces
<1> QED BY <1>1, <1>2, <1>3 DEF StepsMade, ShellPlaces

\* A step on the way of a line takes it further.
LEMMA StepsGrow ==
    ASSUME IInv, IInv', ForkedInv, Next
    PROVE  shell.pc = "prompt" \/ StepsMade' > StepsMade
<1>1. StepsMade \in 0 .. 12 /\ (shell.pc \notin {"prompt", "exited"} => StepsMade \in 0 .. 11)
  BY StepsWithin
<1>2. CASE get_user_line \/ EndOfInput
  BY <1>2, MainMoves
<1>3. CASE Shell
  <2>1. ShellMoves
    BY <1>3, ShellMovesOn
  <2>2. CASE shell'.pc \in {"prompt", "exited"} /\ shell.pc \notin {"prompt", "exited"}
    BY <1>1, <2>2 DEF StepsMade
  <2>3. CASE /\ child' = child
             /\ <<shell.pc, shell'.pc>> \in
                   {<<"exec_command", "open_in">>, <<"exec_command", "fork">>,
                    <<"open_in", "open_out">>, <<"open_out", "fork">>, <<"close", "wait">>}
    <3>1. ChildRank[child.pc] \in 0 .. 6
      BY <2>3, StepsWithin
    <3>2. ShellRank[shell'.pc] > ShellRank[shell.pc] /\ ShellRank[shell'.pc] \in 0 .. 5
          /\ ShellRank[shell.pc] \in 0 .. 5
      BY <2>3, Ranks
    <3>3. /\ StepsMade = ShellRank[shell.pc] + ChildRank[child.pc]
          /\ StepsMade' = ShellRank[shell'.pc] + ChildRank[child.pc]
      BY <2>3 DEF StepsMade
    <3> QED BY <3>1, <3>2, <3>3
  <2>4. CASE /\ shell.pc = "fork" /\ shell'.pc \in {"close", "wait"}
             /\ child'.pc \in {"save_stdout", "execute"}
    <3>1. StepsMade = 3
      BY <2>4, Ranks DEF StepsMade, ForkedInv
    <3>2. StepsMade' = ShellRank[shell'.pc] + ChildRank[child'.pc]
      BY <2>4 DEF StepsMade
    <3> QED BY <2>4, <3>1, <3>2, Ranks
  <2> QED BY <2>1, <2>2, <2>3, <2>4 DEF ShellMoves
<1>4. CASE Child
  <2>1. shell' = shell /\ ChildMoves
    BY <1>4, ChildMovesOn
  <2>2. ChildAlive /\ shell.pc \in {"close", "wait"}
    BY <2>1, ChildState DEF ChildMoves, ChildAlive
  <2>3. child.pc \in {"save_stdout", "dup2", "close", "execute", "running"}
    BY <2>2 DEF IInv, TypeOK, Processes, ChildPlaces, ChildAlive
  <2>4. ChildRank[child'.pc] > ChildRank[child.pc] /\ ChildRank[child'.pc] \in 0 .. 6
        /\ ChildRank[child.pc] \in 0 .. 6
    BY <2>1, <2>3, Ranks DEF ChildMoves
  <2>5. /\ StepsMade = ShellRank[shell.pc] + ChildRank[child.pc]
        /\ StepsMade' = ShellRank[shell.pc] + ChildRank[child'.pc]
    BY <2>1, <2>2 DEF StepsMade
  <2> QED BY <2>2, <2>4, <2>5, Ranks
<1> QED BY <1>2, <1>3, <1>4 DEF Next

(***************************************************************************)
(* A line takes at most twelve steps of the shell and its child, whichever *)
(* calls fail and however the two interleave: each step takes the line     *)
(* further, until the shell prompts again or exits.  With NotLeftWaiting   *)
(* and the fairness of Spec, CommandEnds follows.                          *)
(***************************************************************************)
THEOREM LineIsShort ==
    Spec => [](StepsMade \in 0 .. 12) /\ [][shell.pc = "prompt" \/ StepsMade' > StepsMade]_vars
<1>1. IInv => StepsMade \in 0 .. 12
  BY StepsWithin
<1>2. IInv /\ IInv' /\ ForkedInv /\ [Next]_vars =>
         [shell.pc = "prompt" \/ StepsMade' > StepsMade]_vars
  BY StepsGrow
<1> QED BY <1>1, <1>2, InvariantCorrect, ForkedInductive, PTL DEF Spec
=============================================================================
