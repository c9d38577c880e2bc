# A TLA+ model of OS_content

The repository is the collected work of an operating systems course: twelve
independent C and assembly programs, numbered `01` to `12`. They share no code and
no state. What is worth
verifying first is in those that have several processes, several stacks, signals
or pipes: the fibers, the jobserver, the logger and the three shells. The system
call wrappers, the backtrace and the switch of the fibers, which work on registers
and stack words, come after them.

The project has TLA+ modules translated from the code, TLC runs that check them
on small instances, and proofs, checked by TLAPS, that hold for every instance.
`PROJECT.json` maps each definition to the lines it stands for and lists the runs,
the mutants (an operator above a definition, marked *Mutant*, that changes it the
way a plausible bug would and breaks the property named with it), the findings,
the hazards and the theorems.

## Inventory

### Fibers: `12_uthread.c`, `12_uthread.s`, `12_correct_test.c`

*State.* A circular doubly linked list of `Context`s (saved stack pointer, start
of the stack, `is_deleted`, `next`, `prev`) with the globals `head`, `tail`,
`current`, `fiber_count`; `initial`, main's context, is static. *Operations.*
`uthread_start` (malloc, `uthread_prepare`, `insert`, yield), `uthread_yield`
(switch to `current->next`; after the switch, reclaim the predecessor if it is
marked deleted), `uthread_handle` (run the function, mark, yield),
`uthread_try_join`. *Interaction.* Calls between C and the assembly switch; every
fiber shares the globals and leaves off in the middle of a call. *Hard.* Which
half of `uthread_yield` runs on which stack: what a step starts another fiber
finishes. *Correct if* the list is one ring, its length is `fiber_count`, only
finished contexts are freed, all finished ones are, none is resumed, and the
fibers take turns fairly.

### Jobserver: `05_Jobserver.c`

*State.* One process per directory (traverser), two per executable (watcher, and
grandson, which becomes the user's program), one pipe with K bytes in it that is
a semaphore, and who has its ends open. *Operations.* Fill the pipe, fork a
traverser per subdirectory, read a byte and fork a watcher per executable, close
ends, exec, wait, write the byte back, exit. *Interaction.* The pipe, fork and
wait. *Hard.* All directories at once, failing forks, end of file and SIGPIPE on
the pipe. *Correct if* at most K jobs run, no token is made or lost but with its
process, the ends are open exactly where needed, and the tree of processes ends
after everything ran.

### Logger: `04_SimpleLogger.c`

*State.* The open `FILE*` and its buffer, `flag`, `errno`, the files
`file_name`, `file_name.1`, ... *Operations.* Read a line, test and reset the
flag, `get_count`, the renames, close, open, write. *Interaction.* A signal handler;
a directory other processes change. *Hard.* SIGHUP at any moment, kills in the
middle of the renames, errors noticed late. *Correct if* every line is in the
archives and the log once and in order, no archive is overwritten, and a
SIGHUP leads to a rotation unless the program ends first.

### Shell with pipelines: `03_Shell_3.c`

*State.* The token list; the descriptors of the shell and of each child; the
pipes. *Operations.* Tokenize, check the syntax, collect arguments and file
names, open the files, create the pipes, fork, and in the children close, save
stdout, redirect, exec; in the parent close and wait. *Interaction.* fork,
descriptors, pipes; the programs' blocking reads and writes. *Hard.* One end
open too many or too few; any order of the children; failures half way.
*Correct if* each program has exactly its own ends, nothing is left open at the
next prompt, and the shell prompts again.

### Shells with one command: `01_Shell_1.c`, `02_Shell_2.c`

*State.* The token list, the argument list and (in Shell_2) two file names, all
allocated; the descriptors of the files and of the saved stdout; what stdio holds
back. *Operations.* Prompt, tokenize, check the syntax (Shell_2), allocate, open the
files, fork; in the child save stdout, redirect, close, exec, and exit when that
fails; in the parent close, wait, free. *Interaction.* fork duplicates everything
above, and until exec the child runs the shell's own code. *Hard.* The error
paths: macros that free and close and call each other, entered after any prefix of
the operations, in either process. *Correct if* every block is freed once and every
descriptor closed, the user reads each answer once and before the next prompt, and
the shell prompts again or exits.

### System call wrappers: `10_syscall.c`

*State.* The registers, `errno`. *Operations.* Ten wrappers, each a few lines of
inline assembly, and `set_ret`. *Hard.* Registers that nothing loads keep what
earlier code left; the two ends of the range of errors. *Correct if* the kernel is
asked for what the C function says and the program can tell failures from results.

### Backtrace: `11_backtrace.c`

*State.* The frames on the stack, the executable's own ELF file, an array of
addresses. *Operations.* `backtrace` follows the frame pointers to main, `addr2name`
searches the symbol table. *Hard.* Layouts: the order of the functions and of the
symbols, symbols of other kinds, sections that are missing. *Correct if* the names
are those of the frames.

### The rest

`07_asm.S` (sequential routines that add up words), `08_context.S` (`savectx` and
`jumpctx`), `06_Decompiled_code.c` (a check of a string), `09_ropchain.c` (a byte
layout for one build of a program that is not here), `git.sh` (commits and pushes).

## Modules

| module | models | extends |
|---|---|---|
| `Uthread` | the fiber library | |
| `RoundRobin` | what it promises: fibers take turns | |
| `UthreadRefinement` | the map from the list to the turn order | `Uthread`, instance of `RoundRobin` |
| `MCUthread` | instances for TLC | `UthreadRefinement` |
| `UthreadProofs` | theorems about these and the test program | `UthreadRefinement`, `UthreadTest`, `Induction` |
| `UthreadTest`, `MCUthreadTest` | the test program as a client of the library | `Uthread` |
| `Jobserver` | the jobserver | instance of `TokenPool` |
| `TokenPool` | what the pipe promises: a pool of tokens | |
| `JobserverArgument` | how main makes K from its argument | |
| `MCJobserver` | an instance for TLC | `Jobserver`, `JobserverArgument` |
| `JobserverProofs` | its theorems | `Jobserver` |
| `SimpleLogger` | the logger | `LogNames` |
| `LogNames` | the names of the logger's archives, used by `SimpleLogger` | |
| `SimpleLoggerProofs` | theorems about both | `SimpleLogger`, `Induction` |
| `ShellParser` | a line and its commands, in the three shells | |
| `ShellParserProofs` | its theorems | `ShellParser`, `Induction` |
| `ShellPipeline` | the processes of a line of Shell_3 | |
| `ShellPipelineProofs` | its theorems | `ShellPipeline`, `Induction` |
| `ShellCommand` | the two processes of a line of Shell_1 and Shell_2 | |
| `ShellCommandProofs` | its theorems | `ShellCommand` |
| `Syscall` | the system call wrappers and the kernel they call | |
| `Backtrace` | the walk over the frames and the search for names | |
| `UthreadSwitch` | the registers and stack words of the fibers' switch | |
| `MCTools` | an instance of each of the last three | `Syscall`, `Backtrace`, `UthreadSwitch` |
| `ToolsProofs` | theorems about the last three | `Syscall`, `Backtrace`, `UthreadSwitch`, `Induction` |
| `Induction` | induction and recursion over the naturals, and the library's folds, for the proofs | |

### Uthread

A step is the code between two context switches. `uthread_start`,
`uthread_yield` and `FunctionReturns` end where `uthread_switch` has saved the
caller and loaded the next fiber's `rsp` (`pc = "switched"`). What runs then
depends on the frame that was saved: a frame written by `uthread_prepare` enters
`uthread_handle`; a frame saved inside `uthread_yield` executes its second half
(`ReclaimPrevious`) and returns to client code or, if it was `uthread_handle` that
yielded, to the end of `uthread_handle`. There the processor takes its return
address from a word above the frame that nobody wrote: `pc = "wild"`, after
which the model says nothing. Stacks are abstracted to that frame, `malloc` to
any address not in use, and the registers are in `UthreadSwitch`. `main` is
the join loop of the test program. Clients do as they like; `TailStarts = TRUE`
restricts them to starting fibers from the tail fiber.

### Jobserver

A step is one system call and the local code up to the next one; `readdir` may
list the entries in any order. `tpc[d]` is the place of directory `d`'s process,
`jpc[f]` how far the job of `f` is (across traverser, watcher and grandson: only
one of them can act on it at a time), `pipe` the number of bytes, `readers` and
`writers` the processes with an end open. `read` at end of file returns without
a byte and `READ` takes that for success: `ReadReturns` has that case, and
`EndsMatchRoles` shows it never arises. `semaphore_init` writes byte by byte
because a write of more than the pipe can hold blocks in the middle. Names that
begin with a dot and paths are left out. Any call on a directory, a file or a child
may fail where `CallsMayFail`: `TraverserFails` is `err` in one of the two loops (a
job may delete what the other directories' processes are about to look at), and
`WAITPIDFails` a watcher whose child's status is gone. `JobserverArgument` is `convert`,
in the arithmetic of a small int: `ConvertAssumption`, which TLC evaluates, has every
argument that fits an int converted to its value.

### SimpleLogger

A step is one system call. Line n is the number n, files are sequences of lines,
and `fd` is where the *inode* that `file` writes to is now: after
`rename(name, name.1)` the open file is the first archive, and what is still in
the stdio buffer goes there when it is closed. `FPUTS` may or may not write the
buffer out. The handler can run between any two steps (`SA_RESTART` keeps `fgets`
from failing). The environment may kill the process (its buffer is gone), start
it again in the same directory (`"w"` truncates the log), and delete archives.
Any call may fail, which ends the program, and other files may stand beside the
log.

`get_count` reads names: `LogNames` writes a number's digits and reads them back as
the code does, where `:` passes for a digit and leading zeros are accepted. A
character is what `chr - '0'` makes of it. `strays` are the other files: harmless
ones, each of which fails another test of `read_count_from_entry_name`, and
misleading ones, which pass them all without being an archive; somebody may create
those. `file_name` has no slash (see Known defects).

### ShellParser

The three shells share a tokenizer almost to the letter; they differ in which
characters are operators, in the syntax checks and in how many commands there are.
`tokenizer_init` is a recursive function over the characters, the syntax checks
are quantifiers and a fold over the tokens, `ALLOCATE_ARGUMENTS` a recursive
function that follows `next` as the loop does. The user types pieces
(`<`, `>`, `|`, a letter with or without a space); `Enter` is the body of main's
loop up to the first `open`.

### ShellPipeline

`exec_command` from there on. `line` is what `ShellParser` calls an accepted line:
the number of commands, the two redirections, and for each command the kind of
program: `cat` copies, `head` copies one block and exits, `yes` writes for ever,
`missing` cannot be executed. `sfds` and `cfds[c]` are the descriptors of the shell
and of child c besides 0, 1, 2, and `stdin[c]`, `stdout[c]` what 0 and 1 are. A
child inherits `sfds` as it is when it is forked, and the children, the shell and
the programs interleave in every way. A failing open, pipe or fork ends the shell, a
failing dup the child that would save its stdout (`SaveStdoutFails`). The closes a process does in a row are one
step: they only take descriptors away, so whatever another process can meet
between two of them it can also meet before the first or after the last. The programs and the pipes, which are not
in the repository, are modelled from how the shell uses them and marked
external.

### ShellCommand

Both shells in one module: `main`, the memory and the output are the same, and
`program` says whose `exec_command` runs. A process has a place, the set of blocks it
has allocated (each list is one block), the descriptors it has open, what 0 and 1
are, and its copy of stdio's buffer. `fork` copies the record, and from then on a
macro like `EXIT_FAIL` acts on whichever process runs it: an operator on processes.
`Free` of what is not allocated makes the process `aborted`, which `HeapBalanced`
excludes. `EXIT_FAIL_2` is faithful to a double close: after the parent has closed
its files the nested `CLOSE` fails and exits from the middle of the macro. A line
remembers which call failed for it, so that `Transcript` can say what the user should
read. When stdout is no terminal messages stay in the buffer until the process
exits.

### Syscall, Backtrace, UthreadSwitch

`Syscall`: a wrapper loads the registers its assembly names, *any* values stand in
the others; the kernel, written from the ABI, decodes the number and takes its
arguments from the registers; `set_ret` makes the value and `errno`.

`Backtrace`: an executable is the order of three functions in memory, their order in
the symbol table, and whether one is static, undefined symbols come first, the table
is stripped, and the array `addr2name` returns into survives. A stack is `main`, some
calls of `f`, and `print_backtrace`, where a call may be the last instruction of its
function. `Nameable` names the executables and stacks for which the names come out right;
the invariant also says what holds for the others.

`UthreadSwitch`: a stack is an array of words, `uthread_switch` pushes eight
registers and the return address, stores the stack pointer, loads the other one and
pops; `uthread_prepare` writes nine words. `left[t]` is what fiber t may rely on when
it runs again. It is not composed with `Uthread` step by step: a switch may go
to any fiber here, which includes the one the ring would choose.

## Runs

| run | shows |
|---|---|
| `uthread_any` | any client: the contexts are one ring of `fiber_count`, no dangling pointer, only finished ones freed, every live fiber runs |
| `uthread_tail` | fibers started from the tail only: no finished fiber is resumed, all are freed, `uthread_try_join` is exact, and the library implements `RoundRobin` |
| `uthread_wild` | violation: without the restriction a finished fiber is resumed |
| `uthread_test` | the test program writes `ans_pid_rep` and ends wherever `malloc` puts the contexts, and stays within the restriction |
| `jobserver` | the job limit, the tokens, the ends of the pipe, termination, refinement of `TokenPool`, with failing calls |
| `logger` | nothing lost, a truthful exit status, chronological archives, none destroyed, the log truncated only at the start, no SIGHUP forgotten, with kills, restarts, deletions, misleading files and failing calls |
| `logger_gap` | violation: `get_count` is not the minimum that is not found |
| `parser` | for the three shells: tokens, grammar and arguments against reference definitions |
| `shell` | descriptors, end of file, SIGPIPE, and that every line and all its children end, with failing open, pipe, fork and dup |
| `shell_notfound` | violation: "Command not found" goes into the pipe |
| `command` | Shell_1 and Shell_2 with failing open, fork, dup and waitpid: memory, descriptors, what the user reads, and that a line ends |
| `tools` | each wrapper with each result, each small executable and stack, two fibers that switch |

`CHECK_DEADLOCK FALSE` where the program ends. `parser` never stops.

*Bounds.* Four contexts for `uthread_any` (main and three: every case of `extract`,
a reused address, a fresh and a finished fiber at once), five for
`uthread_tail` and the test. Three nested directories, four executables, K = 2 for
the jobserver (made by `convert` from the argument 0002): a directory with two jobs, more jobs than tokens, a subdirectory
of a subdirectory. K is the capacity of the pipe; with a larger K the first
process never leaves `semaphore_init` (its comment does not say so) and
`Completes` is false. Four lines and three faults for the logger: up to four
rotations, so three archives in motion, and a kill, a restart and a deletion in
one run. `NothingLost` and the first half of `ExitStatus` speak of the behaviours without
faults. `Radix = 2`, so that the second archive's number has two digits already.
Three commands for the shell: a first, a middle and a last; one block per pipe, so
that it is both full and empty often. Seven pieces for the parser: a middle command,
two redirections and words that swallow operators.
Two lines for `command`: what one leaves behind, in memory, descriptors or the
buffer, meets the next. Three values of arguments for the wrappers, and for the
kernel's result both ends of the errors and of the results; two calls of `f` for the
backtrace and arrays of 0, 2 and 1024; two fibers, a stack of 14 words and two depths
for the switch, so that a frame is pushed over an older one at another place.

*Fairness.* `Uthread`: the processor always runs and clients are cooperative, so
weak fairness of `Next`. `Jobserver` and `ShellPipeline`: the kernel schedules every
process, so weak fairness of each one's steps (a traverser's without `TraverserFails`,
or a failure would rescue one that waits for a token for ever); in the shell no line need be
typed. `ShellCommand` likewise: the shell's and the child's steps are weakly fair. The user's jobs are assumed to end. `SimpleLogger`: the process runs, but
`fgets` may wait for ever, so it has no fairness, and neither have the
environment's actions.

## Proofs

Each theorem holds for every value of the constants: any number of contexts,
directories, commands, lines, archives, words. They assume what the modules' named
ASSUMEs say and nothing else. In each module an invariant of the specification is
strengthened until it is inductive, proved for `Init` and for each action, and the
properties follow from it.

`UthreadProofs`. The inductive invariant is
`TypeOK /\ ListInv /\ OneRing /\ CountExact /\ HandoverInv`. `ListInv` (next and prev
undo each other, all within the heap) does not exclude two rings, so `OneRing`
exhibits an enumeration of the heap in the order of `next`; the lemmas `InsertRing`
and `ExtractRing` build the new enumeration from the old one. `CountExact` is
what gives `extract` its precondition (at least two contexts), and `HandoverInv`,
what lets `NoWildReturn` be inductive: while one fiber runs client code no other is
fresh or finished, and a finished context is the predecessor of the fiber that
is about to reclaim it. Theorems: `TypeCorrect`, `RingCorrect`, `NoDangling`,
`CountCorrect`, `FreesCorrect`, and for clients that start fibers from the tail
`TailStartsAreSafe`, `TryJoinCorrect` and `Refinement`: the library implements
`RoundRobin`. The refinement mapping, `TurnOrder`, walks the list from `head` over
`fiber_count` contexts and leaves out the finished one; `TurnOrderOfRing` proves what
that recursion yields for any enumeration of the ring, and with it each action maps to its
abstract one: a start appends to the turn order because `InsertRing` puts the new
context last, a return removes the context that `ExtractRing` takes out later, and the
two resuming steps change nothing.

How long a fiber waits for its turn: `Waiting[c]` is four times the distance from the
current context to c in the ring, plus two for each address that no unfinished fiber has,
plus one for a switch under way. Starting a fiber may put a context between the current one
and c, and uses up an address; a yield or a return shortens the distance.
`EveryTurnComesNearer` says that every step makes it smaller, from wherever fibers are
started, `AlwaysSomethingToRun` that the processor has something to run, and `FreedAtOnce`
(clients that start from the tail) that a finished context lives for one step.

The test program: `TestInv` is its schedule. It lists the phases of the run, and for each
phase what `thread_pids` is so far, who is in the ring in which order, and how far each
fiber is, up to the addresses. From it `RunsInOrderCorrect`, `TestPasses` (what
`check_pids` asserts when `main` returns), `TestStartsFromTail` (each step is one of
`Uthread` with `TailStarts`), and with that `TestNeverWild`; `TestAdvances` bounds the
steps by 36.

`JobserverProofs`. The
inductive invariant joins `EndsMatchRoles` (who has which end), `NotStartedInv` (the
filling of the pipe), `TokensConserved`, `SigpipeIsHarmless` and `TreeInv` (a parent
waits after all its subdirectories were forked). `TokensConserved` rests on
`EndsMatchRoles`: a traverser in `semaphore_down` has the writing end itself, so
`read` cannot return without a byte. The counting is in four lemmas on how the
cardinality of a set of jobs changes when one job moves. Theorems: `TypeCorrect`,
`TokensCorrect`, `JobLimitCorrect`, `EndsCorrect`, `SigpipeCorrect`, `ExitCorrect`,
and `Refinement`: the processes and the pipe implement `TokenPool`.

`NoDeadlock` assumes that K bytes fit into the pipe. `TraverserCan` and `JobCan` are the
guards of the steps, since `ENABLED` is beyond the prover. If everybody waits, no
job has a token, since whoever has one can act (there is room in the pipe to give it
back). Then a traverser in `read` has met an empty pipe, so all tokens are lost to failing
calls, the one case `Deadlocked` leaves out; and if all that are left are in `wait`, a
deepest of them (`SomeoneIsLast`) waits for nobody. `SpawnInv` says
whose token a traverser has between `semaphore_down` and `fork`. `OnlyForward` ranks the
places of processes and jobs, and `StepsAreBounded` adds up the ranks: every step raises
the sum, which never exceeds 4 per directory, 10 per executable, and K.

`SimpleLoggerProofs`. First the names: `ValueOfDigits` and `NamesAgree` show that
`read_count_from_entry_name` undoes `create_new_name` for numbers of any length, so
`get_count` is the highest archive plus one when no other file misleads it. The inductive
invariant `IInv` then says where each file is at each step of a rotation (in the middle
of the renames exactly one number is missing, the one `i` says), that without
interference the numbers have no gap, and `LinesInv`: within the files, and from a
higher number to a lower one, the lines ascend, none is above the last one taken to be
written (`Taken`), and without interference every line up to that one is in some file.
That is more than `Chronological` says, which leaves out the log and its buffer; without
them a rename of the log could not be shown to keep it. `TypeCorrect`,
`ChronologicalCorrect`, `ExitStatusCorrect` and `FilesSurviveCorrect` follow, the last with
`LogAway`: between the rename of the log and `fopen` there is no `file_name` to truncate.
`NothingLostCorrect` needs a second induction, over the sequence of files: when each
ascends and they follow each other in order, `FlattenSeq` of them ascends and holds
exactly what the files hold (`FlattenIncreasing`), and an ascending sequence that holds
exactly `1 .. n` is `<<1, ..., n>>` (`IncreasingIsIdentity`). `SighupKept`: while a signal
is pending and not yet served, `Remaining` counts the steps until it is; each step of the
program makes it smaller, and no other step resets the flag or raises it.

`ShellPipelineProofs`. The invariant gives for each place of the shell and of each
child the exact set of its descriptors; the children's is a function of the command's
position, the shell's of how many pipes were made and children forked. From it
`TypeCorrect`, `OwnEndsCorrect`, `DescriptorsCorrect`; `NoEarlyEndCorrect` adds who may
have ended before whom. `MessageReachesTerminal` bounds the finding of `shell_notfound`: the
message is lost in a pipe only for a command before the last of a line without an output
file. `NoDeadlock`: the descriptors say who holds the ends of each pipe, so a reader that
waits has a live predecessor that waits in `read` in its turn (`WaitingReader`), a writer a
live successor that waits in `write` (`WaitingWriter`); by induction along the line
(`NobodyReads`, `NobodyWrites`) nobody does either, and then the shell's `wait` returns.
It includes the children that outlive a shell that has failed.

`ShellCommandProofs`. The invariant gives for each place of the shell and of the child
its blocks, descriptors and streams, and says that the child lives only while the shell is
in `parent_work`. The macros (`CLOSE`, `EXIT_FAIL`, ...) are operators on
processes, each with a lemma on what it returns, so that the error paths, which nest
them three deep, are proved one macro at a time. `TypeCorrect`, `HeapCorrect`,
`DescriptorsCorrect`, and `NothingToPrintTwice` on the buffer that `fork` copies.
`TranscriptCorrect` needs a second invariant on top of it, `TalkInv`: what is on the screen
is `Conversation` of the lines so far, with the answer to the last line only when that
line is `Done`, which it is from the exit of the child on and not from the shell's next
prompt. When stdout is not a terminal the same is said of the set of messages on the
screen and in the shell's buffer, of which the child's buffer is a part; so the copies
`fork` makes add nothing. `ConversationAppend` and `ConversationEnds` say how the
conversation grows with a line and with its answer; each action then falls under one of
a few lemmas (`QuietShell`, `ShellAnswers`, `ShellFails`, `ChildAnswers`, `StaysDone`).
`NotLeftWaiting` says that the shell or its child can act whenever the shell is neither at
its prompt nor gone (`ForkedInv`: a shell in `parent_work` has forked), and `LineIsShort`
that `StepsMade` grows with each step and is at most 12.

`ToolsProofs`. `CallsAreAnsweredCorrect`: between the load of the registers and the
kernel they hold what was asked, whatever else they hold. `SwitchIsInvisibleCorrect`:
the invariant `Resumable` says of *every* fiber that does not run what
`SwitchIsInvisible` says of the running one, at the words of its stack where the
switch will find it. `BacktraceIsTheStackCorrect`: `PositionFound` is the loop
invariant of `get_name_position` (the best so far is the highest of the symbols below
the address that it has met), for any order of the text and the table; the walk and the
printing then follow the stack, of any depth.

`ShellParserProofs`. The invariant `IInv` says only that tokens and outcome are what the
tokenizer and `exec_command` make of the line; the properties follow from what those
compute, by induction over the line. The tokenizer and the walks of `ALLOCATE_ARGUMENTS`
are recursive from the end (what follows a token is cut first), so `TokenizerRuns`,
`WalkOfShell3` and `WalkOfShell2` first show with `RecursionFromTheEnd` that such functions
exist. `TokensCorrect`: from each place on, the texts one after the other are what is
left of the line without its spaces (`TextsAreKept`), and there are as many words as places
where one should begin (`WordsAreCounted`, which has to say in its induction that a token
begins there or that only operators have been met since the last space). `SyntaxCorrect`:
`CheckOfRedirections` is the loop invariant of
`check_input_output_redundant_redirections`, and the counts per command of
`check_commands_syntax` are counts over the line because the redirections that check lets
through are in the first and the last command. `ArgumentsCorrect`: `WalkIsRight` compares
the lists made from a token on with the words of the commands from there on
(`RightFrom`), with one lemma for each type of token.

`Induction`. The provers cannot instantiate theorems that take an operator, so
induction is stated for sets (`SetInduction`) and recursion for functions
(`NatRecursion`); `FlattenSteps`, `FlattenAppend`, `FoldsExist` and `FoldsRun` say that
the library's `FlattenSeq` and `FoldLeft` go through a sequence step by step; `InductionFromTheEnd` and
`RecursionFromTheEnd` are for functions whose value at an index depends on later ones, and
`Least` says what the library's `Min` is. With them what the
recursive definitions and folds of the models compute is proved for every input.

`TypeOK` of `Uthread` and `Jobserver` is proved and therefore no invariant of a run.

Every invariant and action property that a passing run checks is a theorem, and so are
the refinements.

*Only model-checked*: the liveness properties, which rest on fairness and `ENABLED` and are
beyond the prover. For most of them the part without fairness is proved, a bound that
every step brings nearer and that somebody can act: `EveryFiberRuns`
(`EveryTurnComesNearer`, `AlwaysSomethingToRun`), `EveryFinishedIsFreed` (`FreedAtOnce`),
`TestEnds` (`TestAdvances`), `Completes` (`NoDeadlock`, `StepsAreBounded`),
`SighupServed` (`SighupKept`) and `CommandEnds` (`NotLeftWaiting`, `LineIsShort`). Of
`PipelineEnds` only that nobody is stuck (`NoDeadlock`): `yes` writes as often as it is
read, so no count of the steps bounds a line. Of `StartsFromTail` the fairness of
`TailUse!Spec` is model-checked, its initial states and steps are proved
(`TestStartsFromTail`). `ConvertAssumption` is evaluated by TLC.

## Findings

1. A finished fiber can be resumed (`uthread_wild`): `main` starts f, f yields, `main`
   starts g, which goes behind f, and f returns. Its successor g is fresh, so it enters
   `uthread_handle` instead of the second half of `uthread_yield`, and nobody
   reclaims f. f stays in the ring, and at its next turn its `uthread_handle`
   returns to nowhere. The test program never does this (`StartsFromTail`).
2. `get_count` is said to return the minimum number not found; it returns the
   maximum found plus one (`logger_gap`). After a gap every SIGHUP ends the logger,
   because a rename finds no file.
3. "save stdout to print errors after execvp" holds only for lines that redirect
   their output; otherwise the error goes into the pipe (`shell_notfound`).

### Known defects

Met while modelling, without a run of their own; the models do what the code does.

- Jobserver: the watchers that end last are killed by SIGPIPE in `semaphore_up`
  (harmless: `SigpipeIsHarmless`). Started with SIGCHLD ignored, every watcher fails in
  `WAITPID` with its token, and after K jobs the rest of the tree is never run.
- Logger: a read error is taken for end of input when a rotation comes between (the
  exception in `ExitStatus`). A SIGHUP after the last test of the flag is never served
  (the exit in `SighupServed`). `main` truncates the log (420), after a crash too: what was
  written since the last rotation is gone. With a slash in `file_name` (423) `get_count` scans the
  wrong directory and each rotation overwrites `file_name.1`. A file `file_name.:` or
  `file_name.011` counts as an archive (282), and from then on every rotation fails; a
  number of more digits than an int holds overflows (287), where the model's numbers go on.
- Shell_3: after a failed fork the shell exits and its children do not, against the
  comment of `FORK_N_TIMES` (722); `PipelineEnds` shows that they end by themselves. The
  comment of `CHECK_SYNTAX` (287) says that "output redirection can be only in second
  command"; the code, and with it `SyntaxIsTheGrammar`, has it in the last command, which
  may be the only one or the third.
- Shell_2: when `waitpid` fails the files are closed a second time (459); the second
  close fails and exits, with everything freed once. The comments of `CLOSE` (361-365, "based
  on variable to_free"), `SAVE_STDOUT` (479), `DUP2` (524) and `child_work` (743) say that a
  failing child exits without freeing memory, "cause parent frees it and child doesn't need
  to"; there is no `to_free`, and a child frees all it has, as `HeapBalanced` says. The
  saved stdout stays open in the program that is executed.
- Shell_1: a comment has the shell go on after a failed fork (17), but it exits; another
  speaks of an exit in the child process where the shell just returns, before any fork (45).
- Shell_1 and Shell_2: into a file or a pipe, prompts that are still in stdio's buffer at
  `fork` are written again by a child that executes nothing.
- Wrappers: `set_ret` computes `errno` from the -1 it has just stored (46), so it is 1
  after every error; `waitpid` changes r10 without telling the compiler.
- Backtrace: `addr2name` returns a pointer into an array of its own frame (393); a file
  without `.symtab` is read through whatever header was read last; an address in a
  static function behind main is called main; a call that is the last
  instruction of its function is named after the next function.
- Fibers: neither MXCSR nor the x87 control word is switched.
- `savectx` and `jumpctx` do not restore rbx and r12 to r15; `sum_struct` (07_asm.S:55)
  overwrites its caller's rbx.

## Not modelled

- `07_asm.S`, `06_Decompiled_code.c`: loops without state between calls. A model of
  them would be the loop again, and the reference to compare it with the sum or the
  string.
- `08_context.S`: what goes wrong with it depends on what the compiler keeps in the
  registers of code that is not here.
- `09_ropchain.c`, `git.sh`: no state of their own.
- Jobserver: paths, and failing `pipe`, `close` and `read`, which nothing here can cause.
- Backtrace: offsets and reads in the ELF file, and reads that fail, which exit.
- All: `malloc` that returns NULL, except in the fibers; the shells' line buffer.

## Plan

Done, in this order: fibers, jobserver, logger, pipelines, parser; the other two
shells, the archives' names, the wrappers, the backtrace and the switch; then the proofs
above: first the safety invariants and the refinement, then the test program, and last
the parts of the liveness properties that need no fairness.
