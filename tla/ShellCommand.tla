---------------------------- MODULE ShellCommand ----------------------------
(***************************************************************************)
(* 01_Shell_1.c and 02_Shell_2.c: shells that run one command for each     *)
(* line.  Both fork, execute the command in the child and wait for it;     *)
(* Shell_2 can also redirect the command's input and output to files.      *)
(*                                                                         *)
(* A step is one system call with the allocations and frees around it.     *)
(* Memory is the set of allocated blocks, and stdio's buffer of stdout is  *)
(* part of it: fork copies it, exec drops it and exit writes it out.  The  *)
(* buffer stays empty when stdout is a terminal, since every message ends  *)
(* with a newline and reading the unbuffered stdin writes out the prompt.  *)
(***************************************************************************)
EXTENDS Integers, Sequences, SequencesExt, FiniteSets

CONSTANTS
    MaxLines,     \* bound: the lines typed before end of input
    MayFail       \* the system calls that may return an error

ASSUME MaxLinesAssumption == MaxLines \in Nat
ASSUME MayFailAssumption == MayFail \subseteq {"open", "fork", "dup", "waitpid"}

VARIABLES
    program,   \* which of the two shells is running
    tty,       \* whether its stdout is a terminal
    history,   \* the lines read so far, and what failed in each
    shell,     \* the process of the shell
    child,     \* the process of the command
    screen     \* what has been written to the stdout of the shell

vars == <<program, tty, history, shell, child, screen>>

\* A line as exec_command understands it.  "eof" is the end of input; a command
\* is not found when execvp fails, also because it has no name at all.
Lines == [kind : {"empty", "wrong", "run", "eof"},
          input_redir : BOOLEAN, output_redir : BOOLEAN,
          found : BOOLEAN,
          fault : {"none"} \cup MayFail]

line == history[Len(history)]

\* Shell_1 takes < and > for words, and has no syntax to check.
Typable ==
    {l \in Lines :
        /\ l.fault = "none"
        /\ l.kind # "run" => ~l.input_redir /\ ~l.output_redir /\ ~l.found
        /\ program = "Shell_1" => ~l.input_redir /\ ~l.output_redir /\ l.kind # "wrong"}

Blocks == {"tokens", "argument_list", "in_file_name", "out_file_name"}
Descriptors == {"in_fd", "out_fd", "saved_stdout_fd"}

\* "aborted": free was given what is not allocated.
ShellPlaces == {"prompt", "exec_command", "open_in", "open_out", "fork", "close", "wait",
                "exited", "aborted"}
ChildPlaces == {"unborn", "save_stdout", "dup2", "close", "execute", "running",
                "exited", "aborted"}

Texts == {"$ ", "\n", "Syntax error\n", "I/O error\n", "Command not found\n", "output"}
Messages == [line : 1 .. MaxLines + 1, text : Texts]
Message(text) == [line |-> Len(history), text |-> text]

\* fds: what is open besides 0, 1 and 2; stdin and stdout: what 0 and 1 are.
Processes(places) ==
    [pc : places, heap : SUBSET Blocks, fds : SUBSET Descriptors,
     stdin : {"inherited", "in_fd"}, stdout : {"inherited", "out_fd"},
     buffer : Seq(Messages)]

TypeOK ==
    /\ program \in {"Shell_1", "Shell_2"}
    /\ tty \in BOOLEAN
    /\ history \in Seq(Lines)
    /\ shell \in Processes(ShellPlaces)
    /\ child \in Processes(ChildPlaces)
    /\ screen \in Seq(Messages)

Process(pc) == [pc |-> pc, heap |-> {}, fds |-> {},
                stdin |-> "inherited", stdout |-> "inherited", buffer |-> <<>>]

Init ==
    /\ program \in {"Shell_1", "Shell_2"}
    /\ tty \in BOOLEAN
    /\ history = <<>>
    /\ shell = Process("prompt")
    /\ child = Process("unborn")
    /\ screen = <<>>

----------------------------------------------------------------------------
(* Memory, output and the end of a process.                                *)

\* free of each of the blocks.
Free(p, blocks) ==
    IF blocks \subseteq p.heap
    THEN [p EXCEPT !.heap = @ \ blocks]
    ELSE [p EXCEPT !.pc = "aborted"]

\* exit, after frees that may have aborted.
Exit(p) == IF p.pc = "aborted" THEN p ELSE [p EXCEPT !.pc = "exited", !.fds = {}, !.buffer = <<>>]

Gone(p) == p.pc \in {"exited", "aborted"}

\* To where p's descriptor 1 goes.
Written(p, messages) == IF p.stdout = "inherited" THEN screen \o messages ELSE screen

\* The shell prints and goes on as q.
PrintAndGoOn(q, messages) ==
    IF tty THEN shell' = q /\ screen' = screen \o messages
           ELSE shell' = [q EXCEPT !.buffer = @ \o messages] /\ UNCHANGED screen

\* What p did not print yet is written when it exits as q.
ShellExits(q) == shell' = q /\ screen' = Written(shell, shell.buffer)
ChildExits(q, messages) == child' = q /\ screen' = Written(q, child.buffer \o messages)

\* The line's call fails: nothing the program sees.
Fault(call) == history' = [history EXCEPT ![Len(history)].fault = call]

----------------------------------------------------------------------------
(* main of both shells.                                                    *)

\* tokenizer_init: no block for a line without tokens.
Tokens(l) == IF l.kind = "empty" THEN {} ELSE {"tokens"}

tokenizer_free(p) == Free(p, Tokens(line))

\* The prompt, a line, and tokenizer_init.
get_user_line ==
    /\ shell.pc = "prompt"
    /\ Len(history) < MaxLines
    /\ \E l \in Typable :
          /\ l.kind # "eof"
          /\ history' = Append(history, l)
          /\ PrintAndGoOn([shell EXCEPT !.pc = "exec_command", !.heap = Tokens(l)],
                          <<[line |-> Len(history) + 1, text |-> "$ "]>>)
    /\ child' = Process("unborn")
    /\ UNCHANGED <<program, tty>>

\* The prompt, end of input, a newline and the return from main.
EndOfInput ==
    /\ shell.pc = "prompt"
    /\ \E l \in Typable : l.kind = "eof" /\ history' = Append(history, l)
    /\ shell' = Exit(shell)
    /\ screen' = screen \o shell.buffer \o
          <<[line |-> Len(history) + 1, text |-> "$ "], [line |-> Len(history) + 1, text |-> "\n"]>>
    /\ UNCHANGED <<program, tty, child>>

Prompt(p) == IF Gone(p) THEN p ELSE [p EXCEPT !.pc = "prompt"]

----------------------------------------------------------------------------
(* 01_Shell_1.c                                                            *)

FREE_ARGUMENTS_1(p) == Free(p, {"argument_list"})

EXIT_FAIL_1(p) == Exit(tokenizer_free(FREE_ARGUMENTS_1(p)))

\* CHECK_EMPTY and ALLOCATE_ARGUMENTS; main frees the tokens of an empty line.
exec_command_1 ==
    /\ program = "Shell_1"
    /\ shell.pc = "exec_command"
    /\ shell' = IF line.kind = "empty"
                THEN Prompt(tokenizer_free(shell))
                ELSE [shell EXCEPT !.pc = "fork", !.heap = @ \cup {"argument_list"}]
    /\ UNCHANGED <<program, tty, history, child, screen>>

FORK_1 ==
    /\ program = "Shell_1"
    /\ shell.pc = "fork"
    /\ shell' = [shell EXCEPT !.pc = "wait"]
    /\ child' = [shell EXCEPT !.pc = "execute"]
    /\ UNCHANGED <<program, tty, history, screen>>

FORK_1_fails ==
    /\ program = "Shell_1"
    /\ shell.pc = "fork"
    /\ "fork" \in MayFail
    /\ Fault("fork")
    /\ ShellExits(EXIT_FAIL_1(shell))
    /\ UNCHANGED <<program, tty, child>>

\* Mutant: the parent does not wait.
WAIT_CHILD_1_at_once ==
    /\ program = "Shell_1"
    /\ shell.pc = "wait"
    /\ shell' = Prompt(tokenizer_free(FREE_ARGUMENTS_1(shell)))
    /\ UNCHANGED <<program, tty, history, child, screen>>

\* parent_work, the rest of exec_command, and tokenizer_free in main.
WAIT_CHILD_1 ==
    /\ program = "Shell_1"
    /\ shell.pc = "wait"
    /\ Gone(child)
    /\ shell' = Prompt(tokenizer_free(FREE_ARGUMENTS_1(shell)))
    /\ UNCHANGED <<program, tty, history, child, screen>>

WAIT_CHILD_1_fails ==
    /\ program = "Shell_1"
    /\ shell.pc = "wait"
    /\ Gone(child)
    /\ "waitpid" \in MayFail
    /\ ShellExits(EXIT_FAIL_1(shell))
    /\ UNCHANGED <<program, tty, history, child>>

\* execvp: the program replaces the memory of the process.
Executed(p) == [p EXCEPT !.pc = "running", !.heap = {}, !.buffer = <<>>]

\* Mutant: the child returns into the loop of main when there is no such command.
EXECUTE_1_returns ==
    /\ program = "Shell_1"
    /\ child.pc = "execute"
    /\ IF line.found
       THEN child' = Executed(child) /\ UNCHANGED screen
       ELSE ChildExits([child EXCEPT !.pc = "prompt"], <<Message("Command not found\n")>>)
    /\ UNCHANGED <<program, tty, history, shell>>

\* child_work.
EXECUTE_1 ==
    /\ program = "Shell_1"
    /\ child.pc = "execute"
    /\ IF line.found
       THEN child' = Executed(child) /\ UNCHANGED screen
       ELSE ChildExits(EXIT_FAIL_1(child), <<Message("Command not found\n")>>)
    /\ UNCHANGED <<program, tty, history, shell>>

----------------------------------------------------------------------------
(* 02_Shell_2.c                                                            *)

Redirections == (IF line.input_redir THEN {"in_fd"} ELSE {})
                    \cup (IF line.output_redir THEN {"out_fd"} ELSE {})

FileNames == (IF line.input_redir THEN {"in_file_name"} ELSE {})
                 \cup (IF line.output_redir THEN {"out_file_name"} ELSE {})

FREE_MEMORY(p) == Free(p, {"tokens", "argument_list"} \cup FileNames)

EXIT_FAIL_WITHOUT_CLOSE(p) == Exit(FREE_MEMORY(p))

\* Mutant: a close that fails frees the memory, and the caller goes on.
CLOSE_goes_on(p) ==
    IF Redirections \subseteq p.fds
    THEN [p EXCEPT !.fds = @ \ Redirections]
    ELSE FREE_MEMORY(p)

\* close fails for a descriptor that is not open.
CLOSE(p) ==
    IF Redirections \subseteq p.fds
    THEN [p EXCEPT !.fds = @ \ Redirections]
    ELSE EXIT_FAIL_WITHOUT_CLOSE(p)

\* When CLOSE was done before, the second one exits in the middle of this.
EXIT_FAIL_2(p) == IF Gone(CLOSE(p)) THEN CLOSE(p) ELSE Exit(FREE_MEMORY(CLOSE(p)))

\* CHECK_EMPTY, CHECK_SYNTAX and ALLOCATE_ARGUMENTS.
exec_command_2 ==
    /\ program = "Shell_2"
    /\ shell.pc = "exec_command"
    /\ CASE line.kind = "empty" ->
              shell' = Prompt(tokenizer_free(shell)) /\ UNCHANGED screen
         [] line.kind = "wrong" ->
              PrintAndGoOn(Prompt(tokenizer_free(shell)), <<Message("Syntax error\n")>>)
         [] line.kind = "run" ->
              /\ shell' = [shell EXCEPT !.pc = "open_in", !.heap = @ \cup {"argument_list"}]
              /\ UNCHANGED screen
    /\ UNCHANGED <<program, tty, history, child>>

\* OPEN of the input file: its name is allocated first.
OPEN_input ==
    /\ shell.pc = "open_in"
    /\ shell' = IF line.input_redir
                THEN [shell EXCEPT !.pc = "open_out", !.heap = @ \cup {"in_file_name"},
                                   !.fds = @ \cup {"in_fd"}]
                ELSE [shell EXCEPT !.pc = "open_out"]
    /\ UNCHANGED <<program, tty, history, child, screen>>

\* OPEN fails: INPUT_OPEN_FAILURE.
INPUT_OPEN_FAILURE ==
    /\ shell.pc = "open_in" /\ line.input_redir
    /\ "open" \in MayFail
    /\ Fault("open")
    /\ LET named == [shell EXCEPT !.heap = @ \cup {"in_file_name"}]
           freed == Free(named, {"in_file_name", "tokens", "argument_list"})
       IN  PrintAndGoOn(Prompt(freed), <<Message("I/O error\n")>>)
    /\ UNCHANGED <<program, tty, child>>

\* OPEN of the output file.
OPEN_output ==
    /\ shell.pc = "open_out"
    /\ shell' = IF line.output_redir
                THEN [shell EXCEPT !.pc = "fork", !.heap = @ \cup {"out_file_name"},
                                   !.fds = @ \cup {"out_fd"}]
                ELSE [shell EXCEPT !.pc = "fork"]
    /\ UNCHANGED <<program, tty, history, child, screen>>

\* Mutant: the input file stays open.
OUTPUT_OPEN_FAILURE_leaks ==
    /\ shell.pc = "open_out" /\ line.output_redir
    /\ "open" \in MayFail
    /\ Fault("open")
    /\ LET named == [shell EXCEPT !.heap = @ \cup {"out_file_name"}]
       IN  PrintAndGoOn(Prompt(FREE_MEMORY(named)), <<Message("I/O error\n")>>)
    /\ UNCHANGED <<program, tty, child>>

CLOSE_INPUT(p) ==
    IF ~line.input_redir THEN p
    ELSE IF "in_fd" \in p.fds THEN [p EXCEPT !.fds = @ \ {"in_fd"}]
    ELSE EXIT_FAIL_WITHOUT_CLOSE(p)

\* OPEN fails: OUTPUT_OPEN_FAILURE closes the input file.
OUTPUT_OPEN_FAILURE ==
    /\ shell.pc = "open_out" /\ line.output_redir
    /\ "open" \in MayFail
    /\ Fault("open")
    /\ LET closed == CLOSE_INPUT([shell EXCEPT !.heap = @ \cup {"out_file_name"}])
           freed == IF Gone(closed) THEN closed ELSE FREE_MEMORY(closed)
       IN  PrintAndGoOn(Prompt(freed), <<Message("I/O error\n")>>)
    /\ UNCHANGED <<program, tty, child>>

FORK_2 ==
    /\ program = "Shell_2"
    /\ shell.pc = "fork"
    /\ shell' = [shell EXCEPT !.pc = "close"]
    /\ child' = [shell EXCEPT !.pc = "save_stdout"]
    /\ UNCHANGED <<program, tty, history, screen>>

FORK_2_fails ==
    /\ program = "Shell_2"
    /\ shell.pc = "fork"
    /\ "fork" \in MayFail
    /\ Fault("fork")
    /\ ShellExits(EXIT_FAIL_2(shell))
    /\ UNCHANGED <<program, tty, child>>

\* The child's first step.
SAVE_STDOUT ==
    /\ child.pc = "save_stdout"
    /\ child' = IF line.output_redir
                THEN [child EXCEPT !.pc = "dup2", !.fds = @ \cup {"saved_stdout_fd"}]
                ELSE [child EXCEPT !.pc = "dup2"]
    /\ UNCHANGED <<program, tty, history, shell, screen>>

SAVE_STDOUT_fails ==
    /\ child.pc = "save_stdout" /\ line.output_redir
    /\ "dup" \in MayFail
    /\ Fault("dup")
    /\ ChildExits(EXIT_FAIL_2(child), <<>>)
    /\ UNCHANGED <<program, tty, shell>>

\* dup2 fails for a descriptor that is not open.
DUP2 ==
    /\ child.pc = "dup2"
    /\ IF Redirections \subseteq child.fds
       THEN /\ child' = [child EXCEPT
                            !.pc = "close",
                            !.stdin = IF line.input_redir THEN "in_fd" ELSE @,
                            !.stdout = IF line.output_redir THEN "out_fd" ELSE @]
            /\ UNCHANGED screen
       ELSE ChildExits(EXIT_FAIL_2(child), <<>>)
    /\ UNCHANGED <<program, tty, history, shell>>

\* CLOSE in the child.
child_CLOSE ==
    /\ child.pc = "close"
    /\ LET closed == CLOSE(child)
       IN  IF Gone(closed) THEN ChildExits(closed, <<>>)
           ELSE child' = [closed EXCEPT !.pc = "execute"] /\ UNCHANGED screen
    /\ UNCHANGED <<program, tty, history, shell>>

RESTORE_STDOUT(p) ==
    IF ~line.output_redir THEN p
    ELSE IF "saved_stdout_fd" \in p.fds
    THEN [p EXCEPT !.stdout = "inherited", !.fds = @ \ {"saved_stdout_fd"}]
    ELSE EXIT_FAIL_2(p)

\* EXECUTE; the message is in the buffer when exit writes it out.
EXECUTE_2 ==
    /\ program = "Shell_2"
    /\ child.pc = "execute"
    /\ LET restored == RESTORE_STDOUT(child)
       IN  IF line.found THEN child' = Executed(child) /\ UNCHANGED screen
           ELSE IF Gone(restored) THEN ChildExits(restored, <<>>)
           ELSE ChildExits(EXIT_FAIL_WITHOUT_CLOSE(restored), <<Message("Command not found\n")>>)
    /\ UNCHANGED <<program, tty, history, shell>>

\* parent_work begins with CLOSE.
parent_CLOSE ==
    /\ shell.pc = "close"
    /\ LET closed == CLOSE(shell)
       IN  IF Gone(closed) THEN ShellExits(closed)
           ELSE shell' = [closed EXCEPT !.pc = "wait"] /\ UNCHANGED screen
    /\ UNCHANGED <<program, tty, history, child>>

\* WAIT_CHILD, then FREE_MEMORY and the return from exec_command.
WAIT_CHILD_2 ==
    /\ program = "Shell_2"
    /\ shell.pc = "wait"
    /\ Gone(child)
    /\ shell' = Prompt(FREE_MEMORY(shell))
    /\ UNCHANGED <<program, tty, history, child, screen>>

\* waitpid fails although the child has ended: SIGCHLD was ignored when the
\* shell was started.
WAIT_CHILD_2_fails ==
    /\ program = "Shell_2"
    /\ shell.pc = "wait"
    /\ Gone(child)
    /\ "waitpid" \in MayFail
    /\ ShellExits(EXIT_FAIL_2(shell))
    /\ UNCHANGED <<program, tty, history, child>>

----------------------------------------------------------------------------
\* The program that was executed writes something and ends.
RunProgram ==
    /\ child.pc = "running"
    /\ ChildExits(Exit(child), <<Message("output")>>)
    /\ UNCHANGED <<program, tty, history, shell>>

Shell ==
    \/ exec_command_1 \/ FORK_1 \/ FORK_1_fails \/ WAIT_CHILD_1 \/ WAIT_CHILD_1_fails
    \/ exec_command_2 \/ OPEN_input \/ INPUT_OPEN_FAILURE \/ OPEN_output \/ OUTPUT_OPEN_FAILURE
    \/ FORK_2 \/ FORK_2_fails \/ parent_CLOSE \/ WAIT_CHILD_2 \/ WAIT_CHILD_2_fails

Child ==
    \/ EXECUTE_1 \/ SAVE_STDOUT \/ SAVE_STDOUT_fails \/ DUP2 \/ child_CLOSE \/ EXECUTE_2
    \/ RunProgram

Next == get_user_line \/ EndOfInput \/ Shell \/ Child

(***************************************************************************)
(* The kernel schedules both processes.  No line need be typed.            *)
(***************************************************************************)
Spec == Init /\ [][Next]_vars /\ WF_vars(Shell) /\ WF_vars(Child)

----------------------------------------------------------------------------
\* Whatever fails, every block is freed exactly once before the next prompt and
\* before exit, in the shell and in the child: no path of the nested EXIT_FAIL
\* and OPEN_FAILURE macros frees a block twice, forgets one, or frees the name
\* of a file that was never looked for.
HeapBalanced ==
    /\ shell.pc # "aborted" /\ child.pc # "aborted"
    /\ shell.pc \in {"prompt", "exited"} => shell.heap = {}
    /\ child.pc = "exited" => child.heap = {}

\* The descriptors of a line do not outlive it in the shell, and the program has
\* each file only as its stdin or stdout: a second descriptor would stay open
\* in it for good.
DescriptorsBalanced ==
    /\ shell.pc \in {"prompt", "wait"} => shell.fds = {}
    /\ child.pc = "running" =>
          /\ child.fds \subseteq {"saved_stdout_fd"}
          /\ child.stdin = (IF line.input_redir THEN "in_fd" ELSE "inherited")
          /\ child.stdout = (IF line.output_redir THEN "out_fd" ELSE "inherited")

\* What the user is told about a line that is done.
Answer(l) ==
    IF l.kind = "empty" \/ l.fault \in {"fork", "dup"} THEN <<>>
    ELSE IF l.kind = "wrong" THEN <<"Syntax error\n">>
    ELSE IF l.kind = "eof" THEN <<"\n">>
    ELSE IF l.fault = "open" THEN <<"I/O error\n">>
    ELSE IF ~l.found THEN <<"Command not found\n">>
    ELSE IF l.output_redir THEN <<>>
    ELSE <<"output">>

\* Messages about the k-th line; the first of them.
Said(k, texts) == [i \in DOMAIN texts |-> [line |-> k, text |-> texts[i]]]
Asked(k) == Said(k, <<"$ ">>)

\* What the user should have been shown of the lines typed so far, the last of
\* which may not be done.
Conversation(lines, done) ==
    FlattenSeq([k \in DOMAIN lines |->
                   Asked(k) \o Said(k, IF k < Len(lines) \/ done THEN Answer(lines[k]) ELSE <<>>)])

\* On a terminal every line gets its prompt and then its answer, each once, and
\* all that before the next prompt, although two processes write: the parent
\* waits, and the buffer is empty whenever it is copied.  When stdout is not a
\* terminal the order is another and a message of the buffer may come twice, but
\* by the end of the shell nothing of it is missing and nothing else is there.
Transcript ==
    /\ tty => \/ screen = Conversation(history, TRUE)
              \/ shell.pc # "prompt" /\ screen = Conversation(history, FALSE)
    /\ ~tty /\ Gone(shell) => ToSet(screen) = ToSet(Conversation(history, TRUE))

\* Whatever fails, and although the child runs the shell's own code until it
\* executes the command, the shell prompts again or exits: it is not left
\* waiting, and the child does not return into the shell's loop.
CommandEnds == shell.pc = "exec_command" ~> shell.pc \in {"prompt", "exited"}
============================================================================
