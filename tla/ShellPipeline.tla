--------------------------- MODULE ShellPipeline ---------------------------
(***************************************************************************)
(* 03_Shell_3.c, exec_command: how the shell runs a line of the form       *)
(*     c_0 < file | c_1 | ... | c_(n-1) > file                             *)
(* with one process for each command and a pipe between neighbours, and    *)
(* what the pipes do to the programs.                                      *)
(*                                                                         *)
(* A program is one of four kinds.  "cat" copies its input to its output   *)
(* until end of file, "head" copies one block and exits, "yes" writes      *)
(* for ever, and "missing" cannot be executed.                             *)
(***************************************************************************)
EXTENDS Integers, FiniteSets

CONSTANTS
    MaxCommands,    \* bound: the commands of a line
    PipeCapacity,   \* bound: the blocks a pipe buffers
    InputBlocks,    \* bound: the blocks the first command can read
    MayFail         \* whether open, pipe, fork and dup may return an error

ASSUME ParametersAssumption ==
    /\ MaxCommands \in Nat \ {0} /\ PipeCapacity \in Nat \ {0}
    /\ InputBlocks \in Nat /\ MayFail \in BOOLEAN

Commands == 0 .. MaxCommands - 1
Pipes == 0 .. MaxCommands - 2
Kinds == {"cat", "head", "yes", "missing"}

\* pipes[i][0] and pipes[i][1] of the code, and its other descriptors.
ReadEnd(i) == <<"read", i>>
WriteEnd(i) == <<"write", i>>
Ends == {"read", "write"} \X Pipes
in_fd == <<"in_fd", 0>>
out_fd == <<"out_fd", 0>>
saved_stdout_fd == <<"saved_stdout_fd", 0>>

\* What a standard stream is before it is redirected, and after its process ended.
terminal == <<"terminal", 0>>
none == <<"none", 0>>

VARIABLES
    line,      \* what the user typed, as exec_command understands it
    spc,       \* where the shell is
    forked,    \* the loop variable of CREATE_PIPES and of FORK_N_TIMES
    sfds,      \* the descriptors the shell has open besides 0, 1 and 2
    cpc,       \* where each child is
    cfds,      \* the descriptors each child has open besides 0, 1 and 2
    stdin,     \* what descriptor 0 of each child is
    stdout,    \* what descriptor 1 of each child is
    blocks,    \* the blocks in each pipe
    source     \* the blocks left in the input of the first command

shellVars == <<line, spc, forked, sfds>>
childVars == <<cpc, cfds, stdin, stdout>>
vars == <<line, spc, forked, sfds, cpc, cfds, stdin, stdout, blocks, source>>

Lines == [number : 1 .. MaxCommands, kind : [Commands -> Kinds],
          input_redir : BOOLEAN, output_redir : BOOLEAN]

Descriptors == Ends \cup {in_fd, out_fd, saved_stdout_fd}
Streams == Ends \cup {terminal, in_fd, out_fd, none}

\* "eof": the program ended at end of file; "killed": by SIGPIPE; "failed": a
\* CLOSE or DUP2 of the shell's code failed in the child.
Ended == {"eof", "exited", "killed", "failed"}
ChildPlaces == Ended \cup {"unborn", "close", "redirect", "execute", "running", "writing"}
ShellPlaces == {"prompt", "open_in", "open_out", "pipe", "fork", "close", "wait", "exited",
                "failed"}

TypeOK ==
    /\ line \in Lines
    /\ spc \in ShellPlaces
    /\ forked \in 0 .. MaxCommands
    /\ sfds \subseteq Descriptors
    /\ cpc \in [Commands -> ChildPlaces]
    /\ cfds \in [Commands -> SUBSET Descriptors]
    /\ stdin \in [Commands -> Streams]
    /\ stdout \in [Commands -> Streams]
    /\ blocks \in [Pipes -> 0 .. PipeCapacity]
    /\ source \in 0 .. InputBlocks

----------------------------------------------------------------------------
(* The shell.                                                              *)

Every(v) == [c \in Commands |-> v]
EmptyPipes == [i \in Pipes |-> 0]

Init ==
    /\ line = [number |-> 1, kind |-> [c \in Commands |-> "cat"],
               input_redir |-> FALSE, output_redir |-> FALSE]
    /\ spc = "prompt"
    /\ forked = 0
    /\ sfds = {}
    /\ cpc = Every("unborn")
    /\ cfds = Every({})
    /\ stdin = Every(none)
    /\ stdout = Every(none)
    /\ blocks = EmptyPipes
    /\ source = InputBlocks

\* A line that passes CHECK_SYNTAX is read; the last line's children are gone.
get_user_line ==
    /\ spc = "prompt"
    /\ line' \in {l \in Lines : \A c \in Commands : c >= l.number => l.kind[c] = "cat"}
    /\ spc' = "open_in"
    /\ forked' = 0
    /\ cpc' = Every("unborn")
    /\ cfds' = Every({})
    /\ stdin' = Every(none)
    /\ stdout' = Every(none)
    /\ blocks' = EmptyPipes
    /\ source' = InputBlocks
    /\ UNCHANGED sfds

number_of_pipes == line.number - 1

\* End of input.
EndOfInput ==
    /\ spc = "prompt"
    /\ spc' = "exited"
    /\ UNCHANGED <<line, forked, sfds, childVars, blocks, source>>

\* pipe or fork fails: the shell exits, its children do not.
PipeOrForkFails ==
    /\ MayFail
    /\ \/ spc = "pipe" /\ forked < number_of_pipes
       \/ spc = "fork" /\ forked < line.number
    /\ spc' = "exited"
    /\ sfds' = {}
    /\ UNCHANGED <<line, forked, childVars, blocks, source>>

\* OPEN of the input file, with OPEN_FAILURE.
OpenInput ==
    /\ spc = "open_in"
    /\ \/ ~line.input_redir /\ spc' = "open_out" /\ UNCHANGED sfds
       \/ line.input_redir /\ spc' = "open_out" /\ sfds' = sfds \cup {in_fd}
       \/ line.input_redir /\ MayFail /\ spc' = "prompt" /\ UNCHANGED sfds
    /\ UNCHANGED <<line, forked, childVars, blocks, source>>

\* OPEN of the output file, with OPEN_FAILURE, which closes the input file.
OpenOutput ==
    /\ spc = "open_out"
    /\ \/ ~line.output_redir /\ spc' = "pipe" /\ UNCHANGED sfds
       \/ line.output_redir /\ spc' = "pipe" /\ sfds' = sfds \cup {out_fd}
       \/ line.output_redir /\ MayFail /\ spc' = "prompt" /\ sfds' = sfds \ {in_fd}
    /\ UNCHANGED <<line, forked, childVars, blocks, source>>

\* Mutant: one pipe too many.
CreateTooMany ==
    /\ spc = "pipe"
    /\ IF forked <= number_of_pipes
       THEN /\ sfds' = sfds \cup {ReadEnd(forked), WriteEnd(forked)}
            /\ forked' = forked + 1
            /\ UNCHANGED spc
       ELSE spc' = "fork" /\ forked' = 0 /\ UNCHANGED sfds
    /\ UNCHANGED <<line, childVars, blocks, source>>

CREATE_PIPES ==
    /\ spc = "pipe"
    /\ IF forked < number_of_pipes
       THEN /\ sfds' = sfds \cup {ReadEnd(forked), WriteEnd(forked)}
            /\ forked' = forked + 1
            /\ UNCHANGED spc
       ELSE spc' = "fork" /\ forked' = 0 /\ UNCHANGED sfds
    /\ UNCHANGED <<line, childVars, blocks, source>>

\* Mutant: the parent closes the reading end of a pipe once its writer is forked.
ForkClosesEarly ==
    /\ spc = "fork"
    /\ IF forked < line.number
       THEN /\ cpc' = [cpc EXCEPT ![forked] = "close"]
            /\ cfds' = [cfds EXCEPT ![forked] = sfds]
            /\ stdin' = [stdin EXCEPT ![forked] = terminal]
            /\ stdout' = [stdout EXCEPT ![forked] = terminal]
            /\ forked' = forked + 1
            /\ sfds' = sfds \ {ReadEnd(forked)}
            /\ UNCHANGED spc
       ELSE spc' = "close" /\ UNCHANGED <<forked, sfds, childVars>>
    /\ UNCHANGED <<line, blocks, source>>

\* The parent's iterations of FORK_N_TIMES; a child inherits the descriptors.
FORK_N_TIMES ==
    /\ spc = "fork"
    /\ IF forked < line.number
       THEN /\ cpc' = [cpc EXCEPT ![forked] = "close"]
            /\ cfds' = [cfds EXCEPT ![forked] = sfds]
            /\ stdin' = [stdin EXCEPT ![forked] = terminal]
            /\ stdout' = [stdout EXCEPT ![forked] = terminal]
            /\ forked' = forked + 1
            /\ UNCHANGED spc
       ELSE spc' = "close" /\ UNCHANGED <<forked, childVars>>
    /\ UNCHANGED <<line, sfds, blocks, source>>

Redirections ==
    (IF line.input_redir THEN {in_fd} ELSE {})
        \cup (IF line.output_redir THEN {out_fd} ELSE {})

\* CLOSE exits on a descriptor that is not open.
AllOpen(closed, fds) == closed \subseteq fds

\* Mutant: the parent keeps the pipes while it waits.
ParentKeepsPipes ==
    /\ spc = "close"
    /\ spc' = "wait"
    /\ sfds' = sfds \ Redirections
    /\ UNCHANGED <<line, forked, childVars, blocks, source>>

\* parent_work: CLOSE_FILES and CLOSE_PIPES.
parent_work ==
    LET closed == Redirections \cup ({"read", "write"} \X (0 .. number_of_pipes - 1))
    IN  /\ spc = "close"
        /\ IF AllOpen(closed, sfds)
           THEN spc' = "wait" /\ sfds' = sfds \ closed
           ELSE spc' = "failed" /\ sfds' = {}
        /\ UNCHANGED <<line, forked, childVars, blocks, source>>

\* WAIT returns when no child is left, and exec_command returns to main.
WAIT ==
    /\ spc = "wait"
    /\ \A c \in Commands : cpc[c] \in Ended \cup {"unborn"}
    /\ spc' = "prompt"
    /\ UNCHANGED <<line, forked, sfds, childVars, blocks, source>>

Shell ==
    \/ PipeOrForkFails \/ OpenInput \/ OpenOutput \/ CREATE_PIPES \/ FORK_N_TIMES
    \/ parent_work \/ WAIT

----------------------------------------------------------------------------
(* A child, up to execvp: child_work.                                      *)

ChildEnds(c, how) ==
    /\ cpc' = [cpc EXCEPT ![c] = how]
    /\ cfds' = [cfds EXCEPT ![c] = {}]
    /\ stdin' = [stdin EXCEPT ![c] = none]
    /\ stdout' = [stdout EXCEPT ![c] = none]

\* The ends that CLOSE_REDUNDANT_PIPES(pipes, number_of_pipes, j, type1, k, type2) closes.
CLOSE_REDUNDANT_PIPES(j, type1, k, type2) ==
    ({"read", "write"} \X (0 .. number_of_pipes - 1)) \ {<<type1, j>>, <<type2, k>>}

IsLast(c) == c + 1 = line.number

\* Mutant: the first command keeps the wrong end of its pipe.
SwappedEnds(c) ==
    IF c = 0 THEN CLOSE_REDUNDANT_PIPES(0, "read", 0, "read")
    ELSE IF IsLast(c)
         THEN CLOSE_REDUNDANT_PIPES(number_of_pipes - 1, "read", number_of_pipes - 1, "read")
         ELSE CLOSE_REDUNDANT_PIPES(c - 1, "read", c, "write")

RedundantEnds(c) ==
    IF c = 0 THEN CLOSE_REDUNDANT_PIPES(0, "write", 0, "write")
    ELSE IF IsLast(c)
         THEN CLOSE_REDUNDANT_PIPES(number_of_pipes - 1, "read", number_of_pipes - 1, "read")
         ELSE CLOSE_REDUNDANT_PIPES(c - 1, "read", c, "write")

\* Mutant: the redirected files stay open in every command.
NoRedundantFiles(c) == {}

RedundantFiles(c) ==
    (IF c > 0 /\ line.input_redir THEN {in_fd} ELSE {})
        \cup (IF ~IsLast(c) /\ line.output_redir THEN {out_fd} ELSE {})

\* What close_redundant closes.
Closed(c) == RedundantFiles(c) \cup (IF number_of_pipes > 0 THEN RedundantEnds(c) ELSE {})

\* close_redundant, then SAVE_STDOUT.
close_redundant(c) ==
    LET saved == IF line.output_redir THEN {saved_stdout_fd} ELSE {}
    IN  /\ cpc[c] = "close"
        /\ IF AllOpen(Closed(c), cfds[c])
           THEN /\ cpc' = [cpc EXCEPT ![c] = "redirect"]
                /\ cfds' = [cfds EXCEPT ![c] = (@ \ Closed(c)) \cup saved]
                /\ UNCHANGED <<stdin, stdout>>
           ELSE ChildEnds(c, "failed")
        /\ UNCHANGED <<shellVars, blocks, source>>

\* The same, where the dup of SAVE_STDOUT fails: the child exits.
SaveStdoutFails(c) ==
    /\ MayFail
    /\ cpc[c] = "close"
    /\ line.output_redir
    /\ AllOpen(Closed(c), cfds[c])
    /\ ChildEnds(c, "exited")
    /\ UNCHANGED <<shellVars, blocks, source>>

NewStdin(c) ==
    IF c = 0 THEN IF line.input_redir THEN in_fd ELSE terminal
             ELSE ReadEnd(c - 1)

NewStdout(c) ==
    IF IsLast(c) THEN IF line.output_redir THEN out_fd ELSE terminal
                 ELSE WriteEnd(c)

\* redirect: each stream that is not the terminal is a DUP2_AND_CLOSE.
redirect(c) ==
    LET moved == {NewStdin(c), NewStdout(c)} \ {terminal}
    IN  /\ cpc[c] = "redirect"
        /\ IF AllOpen(moved, cfds[c])
           THEN /\ cpc' = [cpc EXCEPT ![c] = "execute"]
                /\ cfds' = [cfds EXCEPT ![c] = @ \ moved]
                /\ stdin' = [stdin EXCEPT ![c] = NewStdin(c)]
                /\ stdout' = [stdout EXCEPT ![c] = NewStdout(c)]
           ELSE ChildEnds(c, "failed")
        /\ UNCHANGED <<shellVars, blocks, source>>

\* EXECUTE; when execvp fails, RESTORE_STDOUT and a message on stdout.
EXECUTE(c) ==
    /\ cpc[c] = "execute"
    /\ IF line.kind[c] # "missing"
       THEN cpc' = [cpc EXCEPT ![c] = "running"] /\ UNCHANGED <<cfds, stdout>>
       ELSE /\ cpc' = [cpc EXCEPT ![c] = "writing"]
            /\ IF line.output_redir
               THEN /\ stdout' = [stdout EXCEPT ![c] = terminal]
                    /\ cfds' = [cfds EXCEPT ![c] = @ \ {saved_stdout_fd}]
               ELSE UNCHANGED <<cfds, stdout>>
    /\ UNCHANGED <<shellVars, stdin, blocks, source>>

----------------------------------------------------------------------------
(* A program, and the pipes as it meets them.                              *)

Open(end) ==
    \/ end \in sfds
    \/ \E c \in Commands : end \in cfds[c] \cup {stdin[c], stdout[c]}

ReadsPipe(c) == stdin[c] \in Ends
WritesPipe(c) == stdout[c] \in Ends

Reads(c) == cpc[c] = "running" /\ line.kind[c] \in {"cat", "head"}

\* read returns a block.
ReadBlock(c) ==
    /\ Reads(c)
    /\ IF ReadsPipe(c)
       THEN /\ blocks[stdin[c][2]] > 0
            /\ blocks' = [blocks EXCEPT ![stdin[c][2]] = @ - 1]
            /\ UNCHANGED source
       ELSE source > 0 /\ source' = source - 1 /\ UNCHANGED blocks
    /\ cpc' = [cpc EXCEPT ![c] = "writing"]
    /\ UNCHANGED <<shellVars, cfds, stdin, stdout>>

\* read returns 0: of a pipe, when it is empty and nobody can write to it.
EndOfFile(c) ==
    /\ Reads(c)
    /\ IF ReadsPipe(c)
       THEN blocks[stdin[c][2]] = 0 /\ ~Open(WriteEnd(stdin[c][2]))
       ELSE source = 0
    /\ ChildEnds(c, "eof")
    /\ UNCHANGED <<shellVars, blocks, source>>

Writes(c) == cpc[c] = "writing" \/ (cpc[c] = "running" /\ line.kind[c] = "yes")

\* write puts a block; of a pipe, when there is room and a reader.
WriteBlock(c) ==
    /\ Writes(c)
    /\ IF WritesPipe(c)
       THEN /\ Open(ReadEnd(stdout[c][2]))
            /\ blocks[stdout[c][2]] < PipeCapacity
            /\ blocks' = [blocks EXCEPT ![stdout[c][2]] = @ + 1]
       ELSE UNCHANGED blocks
    /\ IF line.kind[c] \in {"cat", "yes"}
       THEN cpc' = [cpc EXCEPT ![c] = "running"] /\ UNCHANGED <<cfds, stdin, stdout>>
       ELSE ChildEnds(c, "exited")
    /\ UNCHANGED <<shellVars, source>>

\* write to a pipe nobody can read: SIGPIPE.
Sigpipe(c) ==
    /\ Writes(c)
    /\ WritesPipe(c)
    /\ ~Open(ReadEnd(stdout[c][2]))
    /\ ChildEnds(c, "killed")
    /\ UNCHANGED <<shellVars, blocks, source>>

Child(c) ==
    \/ close_redundant(c) \/ SaveStdoutFails(c) \/ redirect(c) \/ EXECUTE(c)
    \/ ReadBlock(c) \/ EndOfFile(c) \/ WriteBlock(c) \/ Sigpipe(c)

Next == get_user_line \/ EndOfInput \/ Shell \/ \E c \in Commands : Child(c)

(***************************************************************************)
(* The kernel schedules the shell and every child.  No line need be typed. *)
(***************************************************************************)
Spec == Init /\ [][Next]_vars /\ WF_vars(Shell) /\ \A c \in Commands : WF_vars(Child(c))

----------------------------------------------------------------------------
Alive(c) == cpc[c] \notin Ended \cup {"unborn"}

\* A program starts with its own ends of its own pipes, and no others: an end
\* too many and a neighbour never sees end of file or SIGPIPE.
OwnEndsOnly ==
    \A c \in Commands :
        cpc[c] \in {"running", "writing"} =>
            /\ cfds[c] \subseteq {saved_stdout_fd}
            /\ stdin[c] = NewStdin(c)
            /\ stdout[c] \in {NewStdout(c), terminal}

\* However the loops over the pipes divide the ends among the processes and
\* whatever fails, no CLOSE or DUP2 names a descriptor that is not open, in the
\* shell or in a child, and back at the prompt nothing of the line is left: no
\* descriptor, no child.
DescriptorsBalanced ==
    /\ spc # "failed" /\ \A c \in Commands : cpc[c] # "failed"
    /\ spc = "prompt" => sfds = {} /\ \A c \in Commands : ~Alive(c)

\* While the shell lives a program sees end of file only after its predecessor
\* has ended or failed to be executed, and SIGPIPE only after its successor has,
\* in whatever order the processes are started and close what they inherited.
NoEarlyEnd ==
    spc \notin {"exited", "failed"} =>
        \A c \in Commands :
            /\ cpc[c] = "eof" /\ c > 0 =>
                  cpc[c - 1] \in Ended \/ line.kind[c - 1] = "missing"
            /\ cpc[c] = "killed" => cpc[c + 1] \in Ended

\* A line whose data stop somewhere: after its last "yes" comes a command that
\* ends by itself.
Finite ==
    \A c \in 0 .. line.number - 1 : line.kind[c] = "yes" =>
        \E d \in c + 1 .. line.number - 1 : line.kind[d] \in {"head", "missing"}

\* After every such line the shell prompts again or has exited, and all children
\* are gone, also those that outlive a shell whose fork failed and whose
\* neighbours were never made: nobody waits for a block or for room in a pipe that
\* can never come.
PipelineEnds ==
    (spc = "open_in" /\ Finite) ~>
        (spc \in {"prompt", "exited", "failed"} /\ \A c \in Commands : ~Alive(c))

\* "save stdout to print errors after execvp": the message is not written into
\* a pipe or a file.
ErrorsOnTerminal ==
    \A c \in Commands :
        cpc[c] = "writing" /\ line.kind[c] = "missing" => stdout[c] = terminal
============================================================================
