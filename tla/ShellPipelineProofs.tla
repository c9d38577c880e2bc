------------------------ MODULE ShellPipelineProofs ------------------------
(***************************************************************************)
(* Theorems about ShellPipeline for every number of commands, capacity of  *)
(* the pipes and input.                                                    *)
(*                                                                         *)
(* The inductive invariant IInv says exactly which descriptors the shell   *)
(* and each child hold at each place; from it follow that no CLOSE or DUP2 *)
(* fails, that a program has its own ends only, that the neighbour of a    *)
(* program that met end of file or SIGPIPE had to be gone, and that the    *)
(* processes of a line never all wait on one another.                      *)
(***************************************************************************)
EXTENDS ShellPipeline, Induction

AllEnds == {"read", "write"} \X (0 .. number_of_pipes - 1)

\* What child_work keeps for the streams of command c.
Moved(c) == {NewStdin(c), NewStdout(c)} \ {terminal}
Saved == IF line.output_redir THEN {saved_stdout_fd} ELSE {}

\* The descriptors of the shell, and how far its loops are.
ShellInv ==
    /\ spc # "failed"
    /\ spc \in {"prompt", "open_in", "wait"} => sfds = {}
    /\ spc \in {"open_in", "open_out"} => forked = 0
    /\ spc = "open_out" => sfds = IF line.input_redir THEN {in_fd} ELSE {}
    /\ spc = "pipe" => /\ forked \in 0 .. number_of_pipes
                       /\ sfds = Redirections \cup ({"read", "write"} \X (0 .. forked - 1))
    /\ spc \in {"fork", "close"} => sfds = Redirections \cup AllEnds
    /\ spc = "fork" => forked \in 0 .. line.number
    /\ spc \in {"close", "wait"} => forked = line.number

\* Which children there are.
BirthInv ==
    /\ \A c \in Commands : c >= line.number => cpc[c] = "unborn"
    /\ spc \in {"open_in", "open_out", "pipe"} => \A c \in Commands : cpc[c] = "unborn"
    /\ spc = "prompt" => \A c \in Commands : cpc[c] \in Ended \cup {"unborn"}
    /\ spc = "fork" => \A c \in Commands : c >= forked => cpc[c] = "unborn"
    /\ spc \in {"fork", "close", "wait"} =>
          \A c \in Commands : c < forked => cpc[c] # "unborn"

\* The descriptors of child c.
ChildInv(c) ==
    /\ cpc[c] # "failed"
    /\ cpc[c] \in Ended \cup {"unborn"} => cfds[c] = {} /\ stdin[c] = none /\ stdout[c] = none
    /\ cpc[c] = "close" => cfds[c] = Redirections \cup AllEnds
    /\ cpc[c] = "redirect" => cfds[c] = Moved(c) \cup Saved
    /\ cpc[c] \in {"close", "redirect"} => stdin[c] = terminal /\ stdout[c] = terminal
    /\ cpc[c] \in {"execute", "running"} => cfds[c] = Saved /\ stdout[c] = NewStdout(c)
    /\ cpc[c] \in {"execute", "running", "writing"} => stdin[c] = NewStdin(c)
    /\ cpc[c] = "writing" =>
          /\ cfds[c] \subseteq Saved
          /\ line.kind[c] # "missing" => cfds[c] = Saved
          /\ line.kind[c] = "missing" /\ line.output_redir => stdout[c] = terminal
          /\ stdout[c] = NewStdout(c) \/ (stdout[c] = terminal /\ line.kind[c] = "missing")

IInv ==
    /\ TypeOK
    /\ ShellInv
    /\ BirthInv
    /\ \A c \in Commands : ChildInv(c)

\* IInv, and what it makes of the neighbours of a program that met end of file
\* or SIGPIPE.
EarlyInv ==
    /\ IInv
    /\ NoEarlyEnd
    /\ \A c \in Commands : cpc[c] = "killed" => c + 1 \in Commands

----------------------------------------------------------------------------
(* The descriptors.                                                        *)

(***************************************************************************)
(* The descriptors of the code are different from each other.              *)
(***************************************************************************)
LEMMA Distinct ==
    /\ in_fd \notin Ends /\ out_fd \notin Ends /\ saved_stdout_fd \notin Ends
    /\ terminal \notin Ends /\ none \notin Ends
    /\ in_fd # out_fd /\ in_fd # saved_stdout_fd /\ out_fd # saved_stdout_fd
    /\ terminal \notin Descriptors /\ none \notin Descriptors /\ terminal # none
BY DEF in_fd, out_fd, saved_stdout_fd, terminal, none, Ends, Descriptors

(***************************************************************************)
(* The number of pipes is one less than the number of commands, and the    *)
(* pipes of a line are among the pipes.                                    *)
(***************************************************************************)
LEMMA Pipes_of_the_line ==
    ASSUME TypeOK
    PROVE  /\ line.number \in 1 .. MaxCommands /\ MaxCommands \in Nat \ {0}
           /\ number_of_pipes = line.number - 1 /\ number_of_pipes \in Nat
           /\ \A i : i \in 0 .. number_of_pipes - 1 => i \in Pipes
           /\ \A c \in Commands : c \in Int /\ c >= 0
BY ParametersAssumption DEF TypeOK, Lines, number_of_pipes, Pipes, Commands

(***************************************************************************)
(* Membership in the set of ends the line uses.                            *)
(***************************************************************************)
LEMMA EndsOfTheLine ==
    ASSUME TypeOK
    PROVE  /\ AllEnds \subseteq Ends
           /\ \A i : ReadEnd(i) \in AllEnds <=> i \in 0 .. number_of_pipes - 1
           /\ \A i : WriteEnd(i) \in AllEnds <=> i \in 0 .. number_of_pipes - 1
           /\ \A e : e \in AllEnds <=>
                 \E i \in 0 .. number_of_pipes - 1 : e = ReadEnd(i) \/ e = WriteEnd(i)
BY Pipes_of_the_line DEF AllEnds, Ends, ReadEnd, WriteEnd

(***************************************************************************)
(* What close_redundant closes is open, and what it leaves is what         *)
(* redirect moves to the streams: of all the ends of all the pipes, the    *)
(* two that the command was given.                                         *)
(***************************************************************************)
LEMMA CloseRedundantKeepsMoved ==
    ASSUME TypeOK, NEW c \in Commands, c < line.number
    PROVE  /\ Closed(c) \subseteq Redirections \cup AllEnds
           /\ (Redirections \cup AllEnds) \ Closed(c) = Moved(c)
<1>1. CASE number_of_pipes = 0
  <2>1. c = 0 /\ IsLast(c) /\ AllEnds = {}
    BY <1>1, Pipes_of_the_line DEF IsLast, AllEnds
  <2> QED
    BY <2>1, <1>1, Distinct DEF Closed, RedundantFiles, Redirections, Moved, NewStdin, NewStdout, Descriptors
<1>2. CASE number_of_pipes > 0
  <2>1. Closed(c) = RedundantFiles(c) \cup RedundantEnds(c)
    BY <1>2 DEF Closed
  <2>2. \A i, j : ReadEnd(i) # WriteEnd(j) /\ (ReadEnd(i) = ReadEnd(j) => i = j)
                /\ (WriteEnd(i) = WriteEnd(j) => i = j)
    BY DEF ReadEnd, WriteEnd
  <2>3. RedundantFiles(c) \subseteq Redirections /\ RedundantEnds(c) \subseteq AllEnds
    BY DEF RedundantFiles, Redirections, RedundantEnds, CLOSE_REDUNDANT_PIPES, AllEnds
  <2>4. CASE c = 0
    <3>1. ~IsLast(c) /\ 0 \in 0 .. number_of_pipes - 1
      BY <1>2, <2>4, Pipes_of_the_line DEF IsLast
    <3>2. AllEnds \ RedundantEnds(c) = {WriteEnd(c)}
      BY <3>1, <2>4, EndsOfTheLine DEF RedundantEnds, CLOSE_REDUNDANT_PIPES, AllEnds, WriteEnd
    <3> QED
      BY <2>1, <2>3, <2>4, <3>1, <3>2, Distinct, EndsOfTheLine
      DEF RedundantFiles, Redirections, Moved, NewStdin, NewStdout, Descriptors
  <2>5. CASE c > 0 /\ IsLast(c)
    <3>1. c - 1 \in 0 .. number_of_pipes - 1 /\ number_of_pipes - 1 = c - 1 /\ c # 0
      BY <1>2, <2>5, Pipes_of_the_line DEF IsLast
    <3>2. AllEnds \ RedundantEnds(c) = {ReadEnd(c - 1)}
      BY <3>1, <2>5, EndsOfTheLine DEF RedundantEnds, CLOSE_REDUNDANT_PIPES, AllEnds, ReadEnd
    <3> QED
      BY <2>1, <2>3, <2>5, <3>1, <3>2, Distinct, EndsOfTheLine
      DEF RedundantFiles, Redirections, Moved, NewStdin, NewStdout, Descriptors
  <2>6. CASE c > 0 /\ ~IsLast(c)
    <3>1. c - 1 \in 0 .. number_of_pipes - 1 /\ c \in 0 .. number_of_pipes - 1 /\ c # 0
      BY <1>2, <2>6, Pipes_of_the_line DEF IsLast
    <3>2. AllEnds \ RedundantEnds(c) = {ReadEnd(c - 1), WriteEnd(c)}
      BY <3>1, <2>6, EndsOfTheLine
      DEF RedundantEnds, CLOSE_REDUNDANT_PIPES, AllEnds, ReadEnd, WriteEnd
    <3> QED
      BY <2>1, <2>3, <2>6, <3>1, <3>2, Distinct, EndsOfTheLine
      DEF RedundantFiles, Redirections, Moved, NewStdin, NewStdout, Descriptors
  <2> QED BY <2>4, <2>5, <2>6, Pipes_of_the_line
<1> QED BY <1>1, <1>2, Pipes_of_the_line

(***************************************************************************)
(* The streams a command gets are its ends of its pipes.                   *)
(***************************************************************************)
LEMMA NewStreams ==
    ASSUME TypeOK, NEW c \in Commands, c < line.number
    PROVE  /\ NewStdin(c) \in Streams /\ NewStdout(c) \in Streams
           /\ Moved(c) \subseteq Descriptors /\ Saved \subseteq Descriptors
           /\ Redirections \cup AllEnds \subseteq Descriptors
<1>1. c > 0 => c - 1 \in 0 .. number_of_pipes - 1
  BY Pipes_of_the_line
<1>2. ~IsLast(c) => c \in 0 .. number_of_pipes - 1
  BY Pipes_of_the_line DEF IsLast
<1>3. NewStdin(c) \in Ends \cup {terminal, in_fd} /\ NewStdout(c) \in Ends \cup {terminal, out_fd}
  BY <1>1, <1>2, EndsOfTheLine, Pipes_of_the_line DEF NewStdin, NewStdout
<1> QED
  BY <1>3, EndsOfTheLine DEF Streams, Moved, Saved, Descriptors, Redirections
----------------------------------------------------------------------------
(* Type correctness, for the steps of the shell and of the children.       *)

(***************************************************************************)
(* The initial state has the invariant.                                    *)
(***************************************************************************)
LEMMA InitIInv == Init => IInv
<1> SUFFICES ASSUME Init PROVE IInv
  OBVIOUS
<1>1. TypeOK
  BY ParametersAssumption
  DEF Init, TypeOK, Lines, Kinds, Commands, Pipes, ShellPlaces, ChildPlaces, Every, EmptyPipes, Streams
<1>2. ShellInv /\ BirthInv /\ \A c \in Commands : ChildInv(c)
  BY DEF Init, ShellInv, BirthInv, ChildInv, Every, Ended
<1> QED BY <1>1, <1>2 DEF IInv

(***************************************************************************)
(* The steps of the shell keep the types.                                  *)
(***************************************************************************)
LEMMA ShellTypes == TypeOK /\ (get_user_line \/ EndOfInput \/ Shell) => TypeOK'
<1> SUFFICES ASSUME TypeOK, get_user_line \/ EndOfInput \/ Shell PROVE TypeOK'
  OBVIOUS
<1> USE DEF vars, shellVars, childVars
<1>1. CASE get_user_line
  BY <1>1, ParametersAssumption
  DEF get_user_line, TypeOK, Commands, Pipes, ShellPlaces, ChildPlaces, Every, EmptyPipes, Streams
<1>2. CASE EndOfInput \/ PipeOrForkFails \/ parent_work \/ WAIT
  BY <1>2 DEF EndOfInput, PipeOrForkFails, parent_work, WAIT, TypeOK, ShellPlaces
<1>3. CASE OpenInput \/ OpenOutput
  BY <1>3 DEF OpenInput, OpenOutput, TypeOK, ShellPlaces, Descriptors
<1>4. CASE CREATE_PIPES
  <2>1. CASE forked < number_of_pipes
    <3>1. forked \in Pipes /\ forked + 1 \in 0 .. MaxCommands
      BY <2>1, Pipes_of_the_line DEF TypeOK, Pipes
    <3>2. sfds' \subseteq Descriptors
      BY <1>4, <2>1, <3>1 DEF CREATE_PIPES, TypeOK, Descriptors, Ends, ReadEnd, WriteEnd
    <3> QED BY <1>4, <2>1, <3>1, <3>2 DEF CREATE_PIPES, TypeOK
  <2>2. CASE ~(forked < number_of_pipes)
    BY <1>4, <2>2, Pipes_of_the_line DEF CREATE_PIPES, TypeOK, ShellPlaces
  <2> QED BY <2>1, <2>2
<1>5. CASE FORK_N_TIMES
  <2>1. CASE forked < line.number
    <3>1. forked + 1 \in 0 .. MaxCommands
      BY <2>1, Pipes_of_the_line DEF TypeOK
    <3> QED
      BY <1>5, <2>1, <3>1 DEF FORK_N_TIMES, TypeOK, ChildPlaces, Streams
  <2>2. CASE ~(forked < line.number)
    BY <1>5, <2>2 DEF FORK_N_TIMES, TypeOK, ShellPlaces
  <2> QED BY <2>1, <2>2
<1> QED BY <1>1, <1>2, <1>3, <1>4, <1>5 DEF Shell

(***************************************************************************)
(* The steps of a child keep the types.                                    *)
(***************************************************************************)
LEMMA ChildTypes ==
    ASSUME IInv, NEW c \in Commands, Child(c)
    PROVE  TypeOK'
<1> USE DEF vars, shellVars, childVars
<1>1. TypeOK /\ ChildInv(c)
  BY DEF IInv
<1>2. ASSUME NEW how \in Ended, ChildEnds(c, how), UNCHANGED <<shellVars, source>>,
             blocks' \in [Pipes -> 0 .. PipeCapacity]
      PROVE  TypeOK'
  BY <1>1, <1>2 DEF ChildEnds, TypeOK, ChildPlaces, Streams
<1>3. cpc[c] # "unborn" => c < line.number
  BY Pipes_of_the_line, <1>1 DEF IInv, BirthInv
<1>4. CASE close_redundant(c)
  <2>1. CASE ChildEnds(c, "failed")
    BY <1>1, <1>2, <1>4, <2>1 DEF close_redundant, Ended, TypeOK
  <2>2. CASE ~ChildEnds(c, "failed")
    BY <1>1, <1>4, <2>2 DEF close_redundant, TypeOK, ChildPlaces, Descriptors
  <2> QED BY <2>1, <2>2
<1>5. CASE redirect(c)
  <2>1. CASE ChildEnds(c, "failed")
    BY <1>1, <1>2, <1>5, <2>1 DEF redirect, Ended, TypeOK
  <2>2. CASE ~ChildEnds(c, "failed")
    <3>1. NewStdin(c) \in Streams /\ NewStdout(c) \in Streams
      BY <1>1, <1>3, <1>5, NewStreams DEF redirect
    <3> QED BY <1>1, <1>5, <2>2, <3>1 DEF redirect, TypeOK, ChildPlaces
  <2> QED BY <2>1, <2>2
<1>6. CASE EXECUTE(c)
  BY <1>1, <1>6 DEF EXECUTE, TypeOK, ChildPlaces, Streams
<1>7. CASE ReadBlock(c)
  <2>1. CASE ReadsPipe(c)
    <3>1. stdin[c][2] \in Pipes
      BY <2>1 DEF ReadsPipe, Ends
    <3>2. PipeCapacity \in Nat /\ blocks[stdin[c][2]] \in 0 .. PipeCapacity
      BY <1>1, <3>1, ParametersAssumption DEF TypeOK
    <3> QED BY <1>1, <1>7, <2>1, <3>1, <3>2 DEF ReadBlock, TypeOK, ChildPlaces
  <2>2. CASE ~ReadsPipe(c)
    BY <1>1, <1>7, <2>2, ParametersAssumption DEF ReadBlock, TypeOK, ChildPlaces
  <2> QED BY <2>1, <2>2
<1>8. CASE EndOfFile(c)
  BY <1>1, <1>2, <1>8 DEF EndOfFile, Ended, TypeOK
<1>9. CASE WriteBlock(c)
  <2>1. blocks' \in [Pipes -> 0 .. PipeCapacity]
    <3>1. CASE WritesPipe(c)
      <4>1. stdout[c][2] \in Pipes
        BY <3>1 DEF WritesPipe, Ends
      <4>2. PipeCapacity \in Nat /\ blocks[stdout[c][2]] \in 0 .. PipeCapacity
        BY <1>1, <4>1, ParametersAssumption DEF TypeOK
      <4> QED BY <1>1, <1>9, <3>1, <4>1, <4>2 DEF WriteBlock, TypeOK
    <3>2. CASE ~WritesPipe(c)
      BY <1>1, <1>9, <3>2 DEF WriteBlock, TypeOK
    <3> QED BY <3>1, <3>2
  <2>2. CASE line.kind[c] \in {"cat", "yes"}
    BY <1>1, <1>9, <2>1, <2>2 DEF WriteBlock, TypeOK, ChildPlaces
  <2>3. CASE line.kind[c] \notin {"cat", "yes"}
    BY <1>1, <1>2, <1>9, <2>1, <2>3 DEF WriteBlock, Ended
  <2> QED BY <2>2, <2>3
<1>10. CASE Sigpipe(c)
  BY <1>1, <1>2, <1>10 DEF Sigpipe, Ended, TypeOK
<1>11. CASE SaveStdoutFails(c)
  BY <1>1, <1>2, <1>11 DEF SaveStdoutFails, Ended, TypeOK
<1> QED BY <1>4, <1>5, <1>6, <1>7, <1>8, <1>9, <1>10, <1>11 DEF Child
----------------------------------------------------------------------------
(* The invariant.                                                          *)

(***************************************************************************)
(* What ChildInv says of a child depends on the line and on its own state. *)
(***************************************************************************)
LEMMA SameChild ==
    ASSUME NEW c \in Commands, ChildInv(c), line' = line,
           cpc'[c] = cpc[c], cfds'[c] = cfds[c], stdin'[c] = stdin[c], stdout'[c] = stdout[c]
    PROVE  ChildInv(c)'
BY DEF ChildInv, Redirections, AllEnds, number_of_pipes, Moved, Saved, NewStdin, NewStdout, IsLast

(***************************************************************************)
(* A step of a living child leaves alone the shell and the other children: *)
(* only the child's own invariant is at stake.                             *)
(***************************************************************************)
LEMMA ChildFrame ==
    ASSUME IInv, NEW c \in Commands, Alive(c), UNCHANGED shellVars, TypeOK', ChildInv(c)',
           cpc'[c] # "unborn",
           \A d \in Commands : d # c =>
               /\ cpc'[d] = cpc[d] /\ cfds'[d] = cfds[d]
               /\ stdin'[d] = stdin[d] /\ stdout'[d] = stdout[d]
    PROVE  IInv'
<1>1. line' = line /\ spc' = spc /\ forked' = forked /\ sfds' = sfds
  BY DEF shellVars
<1>2. ShellInv'
  BY <1>1 DEF IInv, ShellInv, Redirections, AllEnds, number_of_pipes
<1>3. BirthInv'
  BY <1>1 DEF IInv, BirthInv, Alive
<1>4. \A d \in Commands : ChildInv(d)'
  BY <1>1, SameChild DEF IInv
<1> QED BY <1>2, <1>3, <1>4 DEF IInv

(***************************************************************************)
(* A child that ends.                                                      *)
(***************************************************************************)
LEMMA ChildEndsFrame ==
    ASSUME IInv, NEW c \in Commands, Alive(c), UNCHANGED shellVars, TypeOK',
           NEW how \in Ended \ {"failed"}, ChildEnds(c, how)
    PROVE  IInv'
<1>1. /\ cpc'[c] = how /\ cfds'[c] = {} /\ stdin'[c] = none /\ stdout'[c] = none
      /\ \A d \in Commands : d # c =>
               /\ cpc'[d] = cpc[d] /\ cfds'[d] = cfds[d]
               /\ stdin'[d] = stdin[d] /\ stdout'[d] = stdout[d]
  BY DEF ChildEnds, IInv, TypeOK
<1>2. ChildInv(c)'
  BY <1>1 DEF ChildInv, Ended
<1> QED BY <1>1, <1>2, ChildFrame DEF Ended

(***************************************************************************)
(* Every step of a child keeps the invariant.                              *)
(***************************************************************************)
LEMMA ChildStep ==
    ASSUME IInv, NEW c \in Commands, Child(c)
    PROVE  IInv'
<1> USE DEF vars, shellVars, childVars
<1>1. TypeOK /\ ChildInv(c) /\ TypeOK'
  BY ChildTypes DEF IInv
<1>2. Alive(c)
  BY DEF Child, close_redundant, SaveStdoutFails, redirect, EXECUTE, ReadBlock,
         EndOfFile, WriteBlock, Sigpipe,
         Reads, Writes, Alive, Ended
<1>3. c < line.number
  BY <1>1, <1>2, Pipes_of_the_line DEF IInv, BirthInv, Alive
<1>4. UNCHANGED shellVars
  BY DEF Child, close_redundant, SaveStdoutFails, redirect, EXECUTE, ReadBlock,
         EndOfFile, WriteBlock, Sigpipe
<1>5. ASSUME /\ cpc'[c] # "unborn" /\ ChildInv(c)'
             /\ \A d \in Commands : d # c =>
                   /\ cpc'[d] = cpc[d] /\ cfds'[d] = cfds[d]
                   /\ stdin'[d] = stdin[d] /\ stdout'[d] = stdout[d]
      PROVE  IInv'
  BY <1>1, <1>2, <1>4, <1>5, ChildFrame
<1>6. /\ Moved(c)' = Moved(c) /\ Saved' = Saved
      /\ NewStdin(c)' = NewStdin(c) /\ NewStdout(c)' = NewStdout(c)
  BY <1>4 DEF Moved, Saved, NewStdin, NewStdout, IsLast
<1>7. CASE close_redundant(c)
  <2>1. Closed(c) \subseteq cfds[c] /\ cfds[c] \ Closed(c) = Moved(c)
    BY <1>1, <1>3, <1>7, CloseRedundantKeepsMoved DEF close_redundant, ChildInv
  <2>2. /\ cpc' = [cpc EXCEPT ![c] = "redirect"]
        /\ cfds' = [cfds EXCEPT ![c] = (cfds[c] \ Closed(c)) \cup Saved]
        /\ UNCHANGED <<stdin, stdout>>
    BY <1>7, <2>1 DEF close_redundant, AllOpen, Closed, Saved
  <2>3. cpc'[c] = "redirect" /\ cfds'[c] = Moved(c) \cup Saved
    BY <1>1, <2>1, <2>2 DEF TypeOK
  <2>4. stdin'[c] = terminal /\ stdout'[c] = terminal
    BY <1>1, <1>7, <2>2 DEF ChildInv, close_redundant
  <2>5. ChildInv(c)'
    BY <1>6, <2>3, <2>4 DEF ChildInv, Ended
  <2> QED BY <1>1, <1>5, <2>2, <2>3, <2>5 DEF TypeOK
<1>8. CASE redirect(c)
  <2>1. cfds[c] = Moved(c) \cup Saved
    BY <1>1, <1>8 DEF redirect, ChildInv
  <2>2. saved_stdout_fd \notin Moved(c)
    BY <1>1, Distinct, EndsOfTheLine, Pipes_of_the_line, <1>3
    DEF Moved, NewStdin, NewStdout, Ends, ReadEnd, WriteEnd, saved_stdout_fd, in_fd, out_fd
  <2>3. /\ cpc' = [cpc EXCEPT ![c] = "execute"]
        /\ cfds' = [cfds EXCEPT ![c] = cfds[c] \ Moved(c)]
        /\ stdin' = [stdin EXCEPT ![c] = NewStdin(c)]
        /\ stdout' = [stdout EXCEPT ![c] = NewStdout(c)]
    BY <1>8, <2>1 DEF redirect, AllOpen, Moved
  <2>4. cpc'[c] = "execute" /\ cfds'[c] = Saved /\ stdin'[c] = NewStdin(c) /\ stdout'[c] = NewStdout(c)
    BY <1>1, <2>1, <2>2, <2>3 DEF TypeOK, Saved
  <2>5. ChildInv(c)'
    BY <1>6, <2>4 DEF ChildInv, Ended
  <2> QED BY <1>1, <1>5, <2>3, <2>4, <2>5 DEF TypeOK
<1>9. CASE EXECUTE(c)
  <2>1. cfds[c] = Saved /\ stdin[c] = NewStdin(c) /\ stdout[c] = NewStdout(c)
    BY <1>1, <1>9 DEF EXECUTE, ChildInv
  <2>2. /\ cpc'[c] \in {"running", "writing"} /\ stdin'[c] = stdin[c]
        /\ cfds'[c] \subseteq Saved
        /\ cpc'[c] = "running" => cfds'[c] = Saved /\ stdout'[c] = stdout[c]
        /\ cpc'[c] = "writing" => /\ line.kind[c] = "missing"
                                  /\ line.output_redir => stdout'[c] = terminal
        /\ stdout'[c] = stdout[c] \/ (stdout'[c] = terminal /\ line.kind[c] = "missing")
    BY <1>1, <1>9, <2>1 DEF EXECUTE, TypeOK
  <2>3. ChildInv(c)'
    BY <1>4, <1>6, <2>1, <2>2 DEF ChildInv, Ended
  <2> QED BY <1>1, <1>5, <1>9, <2>2, <2>3 DEF EXECUTE, TypeOK
<1>10. CASE ReadBlock(c)
  <2>1. cpc'[c] = "writing" /\ cfds'[c] = cfds[c] /\ stdin'[c] = stdin[c] /\ stdout'[c] = stdout[c]
    BY <1>1, <1>10 DEF ReadBlock, TypeOK
  <2>2. ChildInv(c)'
    BY <1>1, <1>6, <1>10, <2>1 DEF ReadBlock, Reads, ChildInv, Ended
  <2> QED BY <1>1, <1>5, <1>10, <2>1, <2>2 DEF ReadBlock, TypeOK
<1>11. CASE EndOfFile(c)
  BY <1>1, <1>2, <1>4, <1>11, ChildEndsFrame DEF EndOfFile, Ended
<1>12. CASE WriteBlock(c)
  <2>1. CASE line.kind[c] \in {"cat", "yes"}
    <3>1. cpc'[c] = "running" /\ cfds'[c] = cfds[c] /\ stdin'[c] = stdin[c] /\ stdout'[c] = stdout[c]
      BY <1>1, <1>12, <2>1 DEF WriteBlock, TypeOK
    <3>2. ChildInv(c)'
      BY <1>1, <1>6, <1>12, <2>1, <3>1 DEF WriteBlock, Writes, ChildInv, Ended
    <3> QED BY <1>1, <1>5, <1>12, <2>1, <3>1, <3>2 DEF WriteBlock, TypeOK
  <2>2. CASE line.kind[c] \notin {"cat", "yes"}
    BY <1>1, <1>2, <1>4, <1>12, <2>2, ChildEndsFrame DEF WriteBlock, Ended
  <2> QED BY <2>1, <2>2
<1>13. CASE Sigpipe(c)
  BY <1>1, <1>2, <1>4, <1>13, ChildEndsFrame DEF Sigpipe, Ended
<1>14. CASE SaveStdoutFails(c)
  BY <1>1, <1>2, <1>4, <1>14, ChildEndsFrame DEF SaveStdoutFails, Ended
<1> QED BY <1>7, <1>8, <1>9, <1>10, <1>11, <1>12, <1>13, <1>14 DEF Child
(***************************************************************************)
(* Every step of the shell keeps the invariant.                            *)
(***************************************************************************)
LEMMA ShellStep == IInv /\ (get_user_line \/ EndOfInput \/ Shell) => IInv'
<1> SUFFICES ASSUME IInv, get_user_line \/ EndOfInput \/ Shell PROVE IInv'
  OBVIOUS
<1> USE DEF vars, shellVars, childVars
<1>1. TypeOK /\ ShellInv /\ BirthInv /\ (\A c \in Commands : ChildInv(c)) /\ TypeOK'
  BY ShellTypes DEF IInv
<1>2. ASSUME line' = line, UNCHANGED childVars PROVE \A c \in Commands : ChildInv(c)'
  BY <1>1, <1>2, SameChild
<1>3. CASE get_user_line
  <2>1. ShellInv' /\ BirthInv'
    BY <1>1, <1>3 DEF get_user_line, ShellInv, BirthInv, Every
  <2>2. \A c \in Commands : ChildInv(c)'
    BY <1>3 DEF get_user_line, ChildInv, Every, Ended
  <2> QED BY <1>1, <2>1, <2>2 DEF IInv
<1>4. CASE EndOfInput
  BY <1>1, <1>2, <1>4 DEF EndOfInput, IInv, ShellInv, BirthInv
<1>5. CASE PipeOrForkFails
  BY <1>1, <1>2, <1>5 DEF PipeOrForkFails, IInv, ShellInv, BirthInv
<1>6. CASE OpenInput
  <2>1. sfds = {} /\ forked = 0 /\ \A c \in Commands : cpc[c] = "unborn"
    BY <1>1, <1>6 DEF OpenInput, ShellInv, BirthInv
  <2>2. ShellInv' /\ BirthInv'
    BY <1>1, <1>6, <2>1 DEF OpenInput, ShellInv, BirthInv
  <2> QED BY <1>1, <1>2, <1>6, <2>2 DEF OpenInput, IInv
<1>7. CASE OpenOutput
  <2>1. /\ forked = 0 /\ \A c \in Commands : cpc[c] = "unborn"
        /\ sfds = IF line.input_redir THEN {in_fd} ELSE {}
    BY <1>1, <1>7 DEF OpenOutput, ShellInv, BirthInv
  <2>2. spc' = "pipe" => sfds' = Redirections' \cup ({"read", "write"} \X (0 .. forked' - 1))
    BY <1>7, <2>1 DEF OpenOutput, Redirections
  <2>3. spc' = "prompt" => sfds' = {}
    BY <1>7, <2>1 DEF OpenOutput
  <2>4. ShellInv' /\ BirthInv'
    BY <1>1, <1>7, <2>1, <2>2, <2>3, Pipes_of_the_line
    DEF OpenOutput, ShellInv, BirthInv, number_of_pipes
  <2> QED BY <1>1, <1>2, <1>7, <2>4 DEF OpenOutput, IInv
<1>8. CASE CREATE_PIPES
  <2>1. /\ forked \in 0 .. number_of_pipes /\ \A c \in Commands : cpc[c] = "unborn"
        /\ sfds = Redirections \cup ({"read", "write"} \X (0 .. forked - 1))
    BY <1>1, <1>8 DEF CREATE_PIPES, ShellInv, BirthInv
  <2>2. Redirections' = Redirections /\ AllEnds' = AllEnds /\ number_of_pipes' = number_of_pipes
    BY <1>8 DEF CREATE_PIPES, Redirections, AllEnds, number_of_pipes
  <2>3. CASE forked < number_of_pipes
    <3>1. forked + 1 \in 0 .. number_of_pipes /\ 0 .. forked + 1 - 1 = (0 .. forked - 1) \cup {forked}
      BY <2>1, <2>3, Pipes_of_the_line, <1>1
    <3>2. sfds' = Redirections \cup ({"read", "write"} \X (0 .. forked + 1 - 1))
      BY <1>8, <2>1, <2>3, <3>1 DEF CREATE_PIPES, ReadEnd, WriteEnd
    <3> QED BY <1>1, <1>2, <1>8, <2>1, <2>2, <2>3, <3>1, <3>2 DEF CREATE_PIPES, IInv, ShellInv, BirthInv
  <2>4. CASE ~(forked < number_of_pipes)
    <3>1. forked = number_of_pipes
      BY <2>1, <2>4, Pipes_of_the_line, <1>1
    <3>2. sfds' = Redirections \cup AllEnds /\ spc' = "fork" /\ forked' = 0
      BY <1>8, <2>1, <2>4, <3>1 DEF CREATE_PIPES, AllEnds
    <3>3. ShellInv' /\ BirthInv'
      BY <1>1, <1>8, <2>1, <2>2, <3>2, Pipes_of_the_line DEF CREATE_PIPES, ShellInv, BirthInv
    <3> QED BY <1>1, <1>2, <1>8, <3>3 DEF CREATE_PIPES, IInv
  <2> QED BY <2>3, <2>4
<1>9. CASE FORK_N_TIMES
  <2>1. /\ spc = "fork" /\ forked \in 0 .. line.number /\ sfds = Redirections \cup AllEnds
        /\ \A c \in Commands : c >= forked => cpc[c] = "unborn"
        /\ \A c \in Commands : c < forked => cpc[c] # "unborn"
    BY <1>1, <1>9 DEF FORK_N_TIMES, ShellInv, BirthInv
  <2>2. Redirections' = Redirections /\ AllEnds' = AllEnds /\ line' = line /\ sfds' = sfds
    BY <1>9 DEF FORK_N_TIMES, Redirections, AllEnds, number_of_pipes
  <2>3. CASE forked < line.number
    <3>1. forked \in Commands /\ forked + 1 \in 0 .. line.number
      BY <2>1, <2>3, Pipes_of_the_line, <1>1 DEF Commands
    <3>2. /\ cpc'[forked] = "close" /\ cfds'[forked] = sfds
          /\ stdin'[forked] = terminal /\ stdout'[forked] = terminal
          /\ \A d \in Commands : d # forked =>
                 /\ cpc'[d] = cpc[d] /\ cfds'[d] = cfds[d]
                 /\ stdin'[d] = stdin[d] /\ stdout'[d] = stdout[d]
          /\ forked' = forked + 1 /\ spc' = spc
      BY <1>1, <1>9, <2>3, <3>1 DEF FORK_N_TIMES, TypeOK
    <3>3. ASSUME NEW d \in Commands, d = forked PROVE ChildInv(d)'
      BY <2>1, <2>2, <3>2, <3>3 DEF ChildInv, Ended
    <3>4. \A d \in Commands : ChildInv(d)'
      BY <1>1, <2>2, <3>2, <3>3, SameChild
    <3>5. ShellInv'
      BY <2>1, <2>2, <3>1, <3>2 DEF ShellInv
    <3>6. BirthInv'
      BY <1>1, <2>1, <2>2, <2>3, <3>1, <3>2, Pipes_of_the_line DEF BirthInv
    <3> QED BY <1>1, <3>4, <3>5, <3>6 DEF IInv
  <2>4. CASE ~(forked < line.number)
    <3>1. forked = line.number /\ forked' = forked /\ spc' = "close"
      BY <1>1, <1>9, <2>1, <2>4, Pipes_of_the_line DEF FORK_N_TIMES
    <3>2. ShellInv' /\ BirthInv'
      BY <1>1, <1>9, <2>1, <2>2, <2>4, <3>1 DEF FORK_N_TIMES, ShellInv, BirthInv
    <3> QED BY <1>1, <1>2, <1>9, <2>4, <3>2 DEF FORK_N_TIMES, IInv
  <2> QED BY <2>3, <2>4
<1>10. CASE parent_work
  <2>1. sfds = Redirections \cup AllEnds /\ forked = line.number /\ spc = "close"
    BY <1>1, <1>10 DEF parent_work, ShellInv
  <2>2. spc' = "wait" /\ sfds' = {} /\ forked' = forked /\ line' = line /\ UNCHANGED childVars
    BY <1>10, <2>1 DEF parent_work, AllOpen, AllEnds
  <2>3. ShellInv' /\ BirthInv'
    BY <1>1, <2>1, <2>2 DEF ShellInv, BirthInv
  <2> QED BY <1>1, <1>2, <2>2, <2>3 DEF IInv
<1>11. CASE WAIT
  BY <1>1, <1>2, <1>11 DEF WAIT, IInv, ShellInv, BirthInv
<1> QED
  BY <1>3, <1>4, <1>5, <1>6, <1>7, <1>8, <1>9, <1>10, <1>11 DEF Shell

(***************************************************************************)
(* The invariant is inductive.                                             *)
(***************************************************************************)
LEMMA IInvStep == IInv /\ [Next]_vars => IInv'
<1> SUFFICES ASSUME IInv, [Next]_vars PROVE IInv'
  OBVIOUS
<1>1. CASE UNCHANGED vars
  <2>1. TypeOK' /\ ShellInv' /\ BirthInv'
    BY <1>1 DEF vars, IInv, TypeOK, ShellInv, BirthInv, Redirections, AllEnds, number_of_pipes
  <2>2. \A c \in Commands : ChildInv(c)'
    BY <1>1, SameChild DEF vars, IInv
  <2> QED BY <2>1, <2>2 DEF IInv
<1> QED BY <1>1, ShellStep, ChildStep DEF Next

(***************************************************************************)
(* At each place the shell and the children hold exactly the descriptors   *)
(* IInv names.                                                             *)
(***************************************************************************)
THEOREM InvariantCorrect == Spec => []IInv
BY InitIInv, IInvStep, PTL DEF Spec

(***************************************************************************)
(* The shell's loop variables, the descriptors and the pipes stay within   *)
(* their types.                                                            *)
(***************************************************************************)
THEOREM TypeCorrect == Spec => []TypeOK
<1>1. IInv => TypeOK
  BY DEF IInv
<1> QED BY <1>1, InvariantCorrect, PTL

(***************************************************************************)
(* Whatever the number of commands, a program runs with its own ends of    *)
(* its own pipes and no others (child_work, close_redundant, redirect).    *)
(***************************************************************************)
THEOREM OwnEndsCorrect == Spec => []OwnEndsOnly
<1>1. IInv => OwnEndsOnly
  BY DEF IInv, ChildInv, OwnEndsOnly, Saved
<1> QED BY <1>1, InvariantCorrect, PTL

(***************************************************************************)
(* Whatever fails, no CLOSE or DUP2 of the shell or of a child names a     *)
(* descriptor that is not open, and nothing of a line is left at the       *)
(* prompt.                                                                 *)
(***************************************************************************)
THEOREM DescriptorsCorrect == Spec => []DescriptorsBalanced
<1>1. IInv => DescriptorsBalanced
  BY DEF IInv, ShellInv, BirthInv, ChildInv, DescriptorsBalanced, Alive
<1> QED BY <1>1, InvariantCorrect, PTL

----------------------------------------------------------------------------
(* End of file and SIGPIPE.                                                *)

(***************************************************************************)
(* While the shell lives, the predecessor of a living child is not yet     *)
(* forked and the shell has its end of their pipe, or lives and has it     *)
(* itself, or has ended: when the end is not open, it has ended, or it     *)
(* could not be executed and is writing its message to the terminal.       *)
(***************************************************************************)
LEMMA PredecessorGone ==
    ASSUME IInv, spc \notin {"exited", "failed"}, NEW c \in Commands, Alive(c), c > 0,
           ~Open(WriteEnd(c - 1))
    PROVE  cpc[c - 1] \in Ended \/ line.kind[c - 1] = "missing"
<1>1. TypeOK /\ c < line.number
  BY Pipes_of_the_line DEF IInv, BirthInv, Alive
<1> DEFINE p == c - 1
<1>2. p \in Commands /\ p < line.number /\ p \in 0 .. number_of_pipes - 1 /\ ~IsLast(p)
  BY <1>1, Pipes_of_the_line DEF Commands, IsLast
<1>3. WriteEnd(p) \notin cfds[p] /\ stdout[p] # WriteEnd(p)
  BY <1>2 DEF Open
<1>4. WriteEnd(p) \in AllEnds /\ WriteEnd(p) # terminal /\ NewStdout(p) = WriteEnd(p)
  BY <1>1, <1>2, EndsOfTheLine, Distinct DEF NewStdout
<1>5. spc \in {"fork", "close", "wait"}
  BY <1>1 DEF IInv, BirthInv, Alive, TypeOK, ShellPlaces
<1>6. cpc[p] # "unborn"
  <2>1. forked \in Int
    BY <1>1 DEF TypeOK
  <2> QED
    BY <1>1, <1>2, <1>5, <2>1, Pipes_of_the_line DEF IInv, BirthInv, ShellInv, Alive
<1>7. ChildInv(p) /\ cpc[p] \in ChildPlaces
  BY <1>1, <1>2 DEF IInv, TypeOK
<1> HIDE DEF p
<1>8. cpc[p] \notin {"close", "redirect", "execute", "running"}
  BY <1>3, <1>4, <1>7 DEF ChildInv, Moved
<1>9. cpc[p] = "writing" => line.kind[p] = "missing"
  BY <1>3, <1>4, <1>7 DEF ChildInv
<1> QED BY <1>6, <1>7, <1>8, <1>9 DEF p, ChildPlaces

(***************************************************************************)
(* The same of the successor, which no message delays: its end of the pipe *)
(* is its standard input until it ends.                                    *)
(***************************************************************************)
LEMMA SuccessorGone ==
    ASSUME IInv, spc \notin {"exited", "failed"}, NEW c \in Commands, Alive(c), ~IsLast(c),
           ~Open(ReadEnd(c))
    PROVE  c + 1 \in Commands /\ cpc[c + 1] \in Ended
<1>1. TypeOK /\ c < line.number
  BY Pipes_of_the_line DEF IInv, BirthInv, Alive
<1> DEFINE s == c + 1
<1>2. s \in Commands /\ s < line.number /\ c \in 0 .. number_of_pipes - 1 /\ s > 0 /\ s - 1 = c
  BY <1>1, Pipes_of_the_line DEF Commands, IsLast
<1>3. ReadEnd(c) \notin cfds[s] /\ stdin[s] # ReadEnd(c) /\ ReadEnd(c) \notin sfds
  BY <1>2 DEF Open
<1>4. ReadEnd(c) \in AllEnds /\ ReadEnd(c) # terminal /\ NewStdin(s) = ReadEnd(c)
  BY <1>1, <1>2, EndsOfTheLine, Distinct DEF NewStdin
<1>5. spc = "wait" /\ forked = line.number
  BY <1>1, <1>3, <1>4 DEF IInv, BirthInv, ShellInv, Alive, TypeOK, ShellPlaces
<1>6. cpc[s] # "unborn"
  BY <1>2, <1>5 DEF IInv, BirthInv
<1>7. ChildInv(s) /\ cpc[s] \in ChildPlaces
  BY <1>1, <1>2 DEF IInv, TypeOK
<1> HIDE DEF s
<1>8. cpc[s] \notin {"close", "redirect", "execute", "running", "writing"}
  BY <1>3, <1>4, <1>7 DEF ChildInv, Moved
<1> QED BY <1>2, <1>6, <1>7, <1>8 DEF s, ChildPlaces
(***************************************************************************)
(* A step of a child adds an end of file or a SIGPIPE only when the        *)
(* neighbour is gone.                                                      *)
(***************************************************************************)
LEMMA ChildEarly ==
    ASSUME EarlyInv, IInv', NEW c \in Commands, Child(c)
    PROVE  EarlyInv'
<1> USE DEF vars, shellVars, childVars
<1>1. IInv /\ TypeOK /\ ChildInv(c)
  BY DEF EarlyInv, IInv
<1>2. Alive(c)
  BY DEF Child, close_redundant, SaveStdoutFails, redirect, EXECUTE, ReadBlock,
         EndOfFile, WriteBlock, Sigpipe,
         Reads, Writes, Alive, Ended
<1>3. line' = line /\ spc' = spc
  BY DEF Child, close_redundant, SaveStdoutFails, redirect, EXECUTE, ReadBlock,
         EndOfFile, WriteBlock, Sigpipe
<1>4. c < line.number /\ c \in Int
  BY <1>1, <1>2, Pipes_of_the_line DEF IInv, BirthInv, Alive
<1>5. \A d \in Commands : d # c => cpc'[d] = cpc[d]
  BY <1>1 DEF Child, close_redundant, SaveStdoutFails, redirect, EXECUTE, ReadBlock,
              EndOfFile, WriteBlock, Sigpipe,
              ChildEnds, TypeOK
<1>6. cpc'[c] = "eof" => EndOfFile(c)
  BY <1>1 DEF Child, close_redundant, SaveStdoutFails, redirect, EXECUTE, ReadBlock,
              EndOfFile, WriteBlock, Sigpipe,
              ChildEnds, TypeOK
<1>7. cpc'[c] = "killed" => Sigpipe(c)
  BY <1>1 DEF Child, close_redundant, SaveStdoutFails, redirect, EXECUTE, ReadBlock,
              EndOfFile, WriteBlock, Sigpipe,
              ChildEnds, TypeOK
<1>8. ASSUME cpc'[c] = "eof", c > 0, spc \notin {"exited", "failed"}
      PROVE  cpc[c - 1] \in Ended \/ line.kind[c - 1] = "missing"
  <2>1. stdin[c] = ReadEnd(c - 1) /\ c - 1 \in Pipes
    BY <1>1, <1>4, <1>6, <1>8, Pipes_of_the_line DEF EndOfFile, Reads, ChildInv, NewStdin
  <2>2. ~Open(WriteEnd(c - 1))
    BY <1>6, <1>8, <2>1 DEF EndOfFile, ReadsPipe, ReadEnd, Ends
  <2> QED BY <1>1, <1>2, <1>8, <2>2, PredecessorGone
<1>9. ASSUME cpc'[c] = "killed"
      PROVE  /\ c + 1 \in Commands
             /\ spc \notin {"exited", "failed"} => cpc[c + 1] \in Ended
  <2>1. stdout[c] = NewStdout(c) /\ stdout[c] \in Ends
    BY <1>1, <1>7, <1>9, Distinct DEF Sigpipe, Writes, WritesPipe, ChildInv
  <2>2. ~IsLast(c) /\ stdout[c] = WriteEnd(c)
    BY <2>1, Distinct DEF NewStdout
  <2>3. ~Open(ReadEnd(c))
    BY <1>7, <1>9, <2>2 DEF Sigpipe, WriteEnd
  <2>4. c + 1 \in Commands
    BY <1>1, <1>4, <2>2, Pipes_of_the_line DEF IsLast, Commands
  <2> QED BY <1>1, <1>2, <2>2, <2>3, <2>4, SuccessorGone
<1>10. \A d \in Commands : cpc[d] \in Ended => cpc'[d] = cpc[d]
  BY <1>2, <1>5 DEF Alive
<1>11. \A d \in Commands : cpc'[d] = "killed" => d + 1 \in Commands
  BY <1>5, <1>9 DEF EarlyInv
<1>12. ASSUME spc \notin {"exited", "failed"}, NEW d \in Commands
       PROVE  /\ cpc'[d] = "eof" /\ d > 0 =>
                    cpc'[d - 1] \in Ended \/ line.kind[d - 1] = "missing"
              /\ cpc'[d] = "killed" => cpc'[d + 1] \in Ended
  <2>1. d > 0 => d - 1 \in Commands
    BY <1>1, Pipes_of_the_line DEF Commands
  <2>2. CASE d = c
    BY <1>8, <1>9, <1>10, <1>12, <2>1, <2>2
  <2>3. CASE d # c
    <3>1. cpc'[d] = cpc[d]
      BY <1>5, <2>3
    <3>2. cpc[d] = "eof" /\ d > 0 => cpc[d - 1] \in Ended \/ line.kind[d - 1] = "missing"
      BY <1>12 DEF EarlyInv, NoEarlyEnd
    <3>3. cpc[d] = "killed" => cpc[d + 1] \in Ended /\ d + 1 \in Commands
      BY <1>12 DEF EarlyInv, NoEarlyEnd
    <3> QED BY <1>10, <2>1, <3>1, <3>2, <3>3
  <2> QED BY <2>2, <2>3
<1> QED BY <1>3, <1>11, <1>12 DEF EarlyInv, NoEarlyEnd

(***************************************************************************)
(* While the shell lives, a program sees end of file only when its         *)
(* predecessor is gone, and SIGPIPE only when its successor is, however    *)
(* long the pipeline and in whatever order the processes run.              *)
(***************************************************************************)
THEOREM NoEarlyEndCorrect == Spec => []NoEarlyEnd
<1>1. Init => EarlyInv
  BY InitIInv DEF Init, Every, EarlyInv, NoEarlyEnd
<1>2. EarlyInv /\ [Next]_vars => EarlyInv'
  <2> SUFFICES ASSUME EarlyInv, [Next]_vars PROVE EarlyInv'
    OBVIOUS
  <2>1. IInv /\ IInv'
    BY IInvStep DEF EarlyInv
  <2>2. CASE UNCHANGED vars
    BY <2>1, <2>2 DEF EarlyInv, NoEarlyEnd, vars
  <2>3. CASE get_user_line
    BY <2>1, <2>3 DEF get_user_line, EarlyInv, NoEarlyEnd, Every, Ended
  <2>4. CASE FORK_N_TIMES /\ forked < line.number
    <3>1. forked \in Commands /\ cpc[forked] = "unborn" /\ line' = line /\ spc' = spc /\ spc = "fork"
      BY <2>1, <2>4, Pipes_of_the_line DEF FORK_N_TIMES, IInv, ShellInv, BirthInv, Commands
    <3>2. cpc' = [cpc EXCEPT ![forked] = "close"] /\ cpc \in [Commands -> ChildPlaces]
      BY <2>1, <2>4 DEF FORK_N_TIMES, IInv, TypeOK
    <3>3. /\ \A d \in Commands : cpc[d] \in Ended => cpc'[d] = cpc[d]
          /\ \A d \in Commands : cpc'[d] \in Ended => cpc'[d] = cpc[d]
      BY <3>1, <3>2 DEF Ended
    <3>4. \A d \in Commands : d > 0 => d - 1 \in Commands
      BY <2>1, Pipes_of_the_line DEF Commands, IInv
    <3>5. \A d \in Commands : cpc'[d] = "killed" => d + 1 \in Commands
      BY <3>3 DEF EarlyInv, Ended
    <3>6. ASSUME NEW d \in Commands
          PROVE  /\ cpc'[d] = "eof" /\ d > 0 =>
                       cpc'[d - 1] \in Ended \/ line.kind[d - 1] = "missing"
                 /\ cpc'[d] = "killed" => cpc'[d + 1] \in Ended
      BY <3>1, <3>3, <3>4, <3>5 DEF EarlyInv, NoEarlyEnd, Ended
    <3> QED BY <2>1, <3>1, <3>5, <3>6 DEF EarlyInv, NoEarlyEnd
  <2>5. CASE \/ EndOfInput \/ PipeOrForkFails \/ OpenInput \/ OpenOutput \/ CREATE_PIPES
             \/ (FORK_N_TIMES /\ ~(forked < line.number)) \/ parent_work \/ WAIT
    <3>1. line' = line /\ cpc' = cpc /\ spc \notin {"exited", "failed"}
      BY <2>5 DEF EndOfInput, PipeOrForkFails, OpenInput, OpenOutput, CREATE_PIPES, FORK_N_TIMES,
                  parent_work, WAIT, childVars
    <3> QED BY <2>1, <3>1 DEF EarlyInv, NoEarlyEnd
  <2> QED BY <2>1, <2>2, <2>3, <2>4, <2>5, ChildEarly DEF Next, Shell
<1>3. EarlyInv => NoEarlyEnd
  BY DEF EarlyInv
<1> QED BY <1>1, <1>2, <1>3, PTL DEF Spec

----------------------------------------------------------------------------
(* What remains of ErrorsOnTerminal.                                       *)

(***************************************************************************)
(* The message of a command that cannot be executed reaches the terminal   *)
(* when the line redirects its output (SAVE_STDOUT and RESTORE_STDOUT) or  *)
(* when the command is the last of the line: ErrorsOnTerminal fails only   *)
(* for a command before the last of a line with no output file.            *)
(***************************************************************************)
THEOREM MessageReachesTerminal ==
    Spec => [](\A c \in Commands :
                  cpc[c] = "writing" /\ line.kind[c] = "missing" =>
                      (line.output_redir \/ IsLast(c) => stdout[c] = terminal))
<1>1. IInv => \A c \in Commands :
                  cpc[c] = "writing" /\ line.kind[c] = "missing" =>
                      (line.output_redir \/ IsLast(c) => stdout[c] = terminal)
  BY DEF IInv, ChildInv, NewStdout
<1> QED BY <1>1, InvariantCorrect, PTL
----------------------------------------------------------------------------
(* Nobody waits for ever on somebody who waits.                            *)

\* The guards of the steps of the shell in the middle of a line.
ShellCan ==
    \/ spc \in {"open_in", "open_out", "pipe", "fork", "close"}
    \/ spc = "wait" /\ \A c \in Commands : cpc[c] \in Ended \cup {"unborn"}

\* The guards of the actions of Child(c): its code up to execvp never waits, a
\* program waits in read for a block or an end of file and in write for room.
ChildCan(c) ==
    \/ cpc[c] \in {"close", "redirect", "execute"}
    \/ Reads(c) /\ (ReadsPipe(c) => blocks[stdin[c][2]] > 0 \/ ~Open(WriteEnd(stdin[c][2])))
    \/ Writes(c) /\ (WritesPipe(c) => blocks[stdout[c][2]] < PipeCapacity
                                      \/ ~Open(ReadEnd(stdout[c][2])))

\* A line is under way, or children have outlived the shell, and everybody waits.
Deadlocked ==
    /\ spc \notin {"prompt", "exited", "failed"} \/ \E c \in Commands : Alive(c)
    /\ ~ShellCan
    /\ \A c \in Commands : ~ChildCan(c)

\* A shell that exits closes what it has open; execvp runs what can be executed.
LeftInv ==
    /\ spc = "exited" => sfds = {}
    /\ \A c \in Commands : cpc[c] = "running" => line.kind[c] # "missing"

LEMMA LeftStep == IInv /\ LeftInv /\ [Next]_vars => LeftInv'
<1> SUFFICES ASSUME IInv, LeftInv, [Next]_vars PROVE LeftInv'
  OBVIOUS
<1>1. TypeOK /\ ShellInv
  BY DEF IInv
<1> USE DEF LeftInv, vars, shellVars, childVars
<1>2. CASE UNCHANGED vars
  BY <1>2
<1>3. CASE get_user_line
  BY <1>3 DEF get_user_line, Every
<1>4. CASE EndOfInput
  BY <1>1, <1>4 DEF EndOfInput, ShellInv
<1>5. CASE PipeOrForkFails \/ OpenInput \/ OpenOutput \/ CREATE_PIPES \/ parent_work \/ WAIT
  BY <1>5 DEF PipeOrForkFails, OpenInput, OpenOutput, CREATE_PIPES, parent_work, WAIT
<1>6. CASE FORK_N_TIMES
  BY <1>1, <1>6 DEF FORK_N_TIMES, TypeOK
<1>7. ASSUME NEW c \in Commands, Child(c) PROVE LeftInv'
  <2>1. UNCHANGED shellVars /\ cpc \in [Commands -> ChildPlaces]
    BY <1>1, <1>7 DEF Child, close_redundant, SaveStdoutFails, redirect, EXECUTE, ReadBlock,
                      EndOfFile, WriteBlock, Sigpipe, TypeOK
  <2>2. \A d \in Commands : d # c => cpc'[d] = cpc[d]
    BY <1>7, <2>1 DEF Child, close_redundant, SaveStdoutFails, redirect, EXECUTE, ReadBlock,
                      EndOfFile, WriteBlock, Sigpipe, ChildEnds
  <2>3. cpc'[c] = "running" => line.kind[c] # "missing"
    BY <1>7, <2>1 DEF Child, close_redundant, SaveStdoutFails, redirect, EXECUTE, ReadBlock,
                      EndOfFile, WriteBlock, Sigpipe, ChildEnds, Ended
  <2> QED BY <2>1, <2>2, <2>3
<1> QED BY <1>2, <1>3, <1>4, <1>5, <1>6, <1>7 DEF Next, Shell

LEMMA LeftInductive == Spec => []LeftInv
<1>1. Init => LeftInv
  BY DEF Init, LeftInv, Every
<1> QED BY <1>1, LeftStep, InvariantCorrect, PTL DEF Spec

\* In a deadlock the shell holds nothing and every child is a program that waits.
LEMMA WhoIsLeft ==
    ASSUME IInv, LeftInv, Deadlocked
    PROVE  /\ sfds = {}
           /\ \A c \in Commands : Alive(c) => cpc[c] \in {"running", "writing"}
           /\ \E c \in Commands : Alive(c)
<1>1. TypeOK /\ ShellInv /\ BirthInv
  BY DEF IInv
<1>2. spc \in {"prompt", "wait", "exited"}
  BY <1>1 DEF Deadlocked, ShellCan, TypeOK, ShellPlaces, ShellInv
<1>3. sfds = {}
  BY <1>1, <1>2 DEF ShellInv, LeftInv
<1>4. \A c \in Commands : Alive(c) => cpc[c] \in {"running", "writing"}
  BY <1>1 DEF Deadlocked, ChildCan, TypeOK, ChildPlaces, Alive
<1>5. \E c \in Commands : Alive(c)
  BY <1>2 DEF Deadlocked, ShellCan, Alive
<1> QED BY <1>3, <1>4, <1>5

\* The streams of a program.
LEMMA StreamsOf ==
    ASSUME IInv, NEW c \in Commands, cpc[c] \in {"running", "writing"}
    PROVE  /\ c < line.number /\ c \in Int /\ c >= 0
           /\ cfds[c] \subseteq {saved_stdout_fd}
           /\ stdin[c] = NewStdin(c) /\ stdout[c] \in {NewStdout(c), terminal}
           /\ stdin[c] \in Ends => c > 0 /\ c - 1 \in Commands /\ stdin[c] = ReadEnd(c - 1)
           /\ stdout[c] \in Ends => c + 1 \in Commands /\ stdout[c] = WriteEnd(c)
<1>1. TypeOK /\ BirthInv /\ ChildInv(c)
  BY DEF IInv
<1>2. c < line.number /\ c \in Int /\ c >= 0
  BY <1>1, Pipes_of_the_line DEF BirthInv
<1>3. cfds[c] \subseteq {saved_stdout_fd} /\ stdin[c] = NewStdin(c) /\ stdout[c] \in {NewStdout(c), terminal}
  BY <1>1 DEF ChildInv, Saved
<1>4. stdin[c] \in Ends => c > 0 /\ c - 1 \in Commands /\ stdin[c] = ReadEnd(c - 1)
  BY <1>1, <1>2, <1>3, Distinct, Pipes_of_the_line DEF NewStdin, Commands
<1>5. stdout[c] \in Ends => c + 1 \in Commands /\ stdout[c] = WriteEnd(c)
  BY <1>1, <1>2, <1>3, Distinct, Pipes_of_the_line DEF NewStdout, Commands, IsLast
<1> QED BY <1>2, <1>3, <1>4, <1>5

\* Who has an end of a pipe open, when only programs are left.
LEMMA HolderOf ==
    ASSUME IInv, LeftInv, Deadlocked, NEW i, NEW kind \in {"read", "write"}, Open(<<kind, i>>), <<kind, i>> \in Ends
    PROVE  \/ kind = "write" /\ i \in Commands /\ cpc[i] \in {"running", "writing"}
                /\ stdout[i] = WriteEnd(i)
           \/ kind = "read" /\ i + 1 \in Commands /\ cpc[i + 1] \in {"running", "writing"}
                /\ stdin[i + 1] = ReadEnd(i)
<1> DEFINE e == <<kind, i>>
<1>1. PICK d \in Commands : e \in cfds[d] \cup {stdin[d], stdout[d]}
  BY WhoIsLeft DEF Open
<1>2. ChildInv(d) /\ cpc[d] \in ChildPlaces
  BY DEF IInv, TypeOK
<1>3. Alive(d)
  BY <1>1, <1>2, Distinct DEF Alive, ChildInv
<1>4. cpc[d] \in {"running", "writing"}
  BY <1>3, WhoIsLeft
<1>5. e = stdin[d] \/ e = stdout[d]
  BY <1>1, <1>4, StreamsOf, Distinct
<1>6. CASE e = stdin[d]
  <2>1. d - 1 \in Commands /\ e = ReadEnd(d - 1) /\ d \in Int
    BY <1>4, <1>6, StreamsOf
  <2>2. kind = "read" /\ i = d - 1
    BY <2>1 DEF ReadEnd
  <2>3. i + 1 = d
    BY <2>1, <2>2
  <2> QED BY <1>4, <1>6, <2>1, <2>2, <2>3
<1>7. CASE e = stdout[d]
  <2>1. e = WriteEnd(d)
    BY <1>4, <1>7, StreamsOf
  <2>2. kind = "write" /\ i = d
    BY <2>1 DEF WriteEnd
  <2> QED BY <1>4, <1>7, <2>1, <2>2
<1> QED BY <1>5, <1>6, <1>7

\* A reader that waits has a predecessor that waits in read, too.
LEMMA WaitingReader ==
    ASSUME IInv, LeftInv, Deadlocked, NEW c \in Commands, Reads(c)
    PROVE  c > 0 /\ c - 1 \in Commands /\ Reads(c - 1)
<1>1. ReadsPipe(c) /\ ~(blocks[stdin[c][2]] > 0) /\ Open(WriteEnd(stdin[c][2])) /\ cpc[c] = "running"
  BY DEF Deadlocked, ChildCan, Reads
<1>2. c > 0 /\ c - 1 \in Commands /\ stdin[c] = ReadEnd(c - 1) /\ stdin[c] \in Ends
  BY <1>1, StreamsOf DEF ReadsPipe
<1>3. stdin[c][2] = c - 1 /\ c - 1 \in Pipes
  BY <1>2 DEF ReadEnd, Ends
<1> DEFINE p == c - 1
<1>4. cpc[p] \in {"running", "writing"} /\ stdout[p] = WriteEnd(p) /\ p \in Commands
  <2>1. Open(<<"write", p>>) /\ <<"write", p>> \in Ends
    BY <1>1, <1>3 DEF WriteEnd, Ends
  <2> HIDE DEF p
  <2> QED BY <2>1, HolderOf
<1>5. blocks[p] = 0 /\ PipeCapacity > 0
  BY <1>1, <1>3, ParametersAssumption DEF IInv, TypeOK
<1> HIDE DEF p
<1>6. ~Writes(p)
  <2> SUFFICES ASSUME Writes(p) PROVE FALSE
    OBVIOUS
  <2>1. stdout[p][2] = p
    BY <1>4 DEF WriteEnd
  <2> QED BY <1>4, <1>5, <2>1 DEF Deadlocked, ChildCan
<1>7. Reads(p)
  BY <1>4, <1>6 DEF Reads, Writes, LeftInv, IInv, TypeOK, Lines, Kinds
<1> QED BY <1>2, <1>4, <1>7 DEF p

\* A writer that waits has a successor that waits in write, too.
LEMMA WaitingWriter ==
    ASSUME IInv, LeftInv, Deadlocked, NEW c \in Commands, Writes(c)
    PROVE  c + 1 \in Commands /\ c + 1 < line.number /\ Writes(c + 1)
<1>1. /\ WritesPipe(c) /\ ~(blocks[stdout[c][2]] < PipeCapacity) /\ Open(ReadEnd(stdout[c][2]))
      /\ cpc[c] \in {"running", "writing"}
  BY DEF Deadlocked, ChildCan, Writes
<1>2. stdout[c] = WriteEnd(c) /\ stdout[c] \in Ends
  BY <1>1, StreamsOf DEF WritesPipe
<1>3. stdout[c][2] = c /\ c \in Pipes
  BY <1>2 DEF WriteEnd, Ends
<1> DEFINE s == c + 1
<1>4. cpc[s] \in {"running", "writing"} /\ stdin[s] = ReadEnd(c) /\ s \in Commands
  <2>1. Open(<<"read", c>>) /\ <<"read", c>> \in Ends
    BY <1>1, <1>3 DEF ReadEnd, Ends
  <2> QED BY <2>1, HolderOf
<1>5. blocks[c] > 0
  BY <1>1, <1>3, ParametersAssumption DEF IInv, TypeOK
<1> HIDE DEF s
<1>6. s < line.number
  BY <1>4, StreamsOf
<1>7. ~Reads(s)
  <2> SUFFICES ASSUME Reads(s) PROVE FALSE
    OBVIOUS
  <2>1. stdin[s][2] = c
    BY <1>4 DEF ReadEnd
  <2> QED BY <1>4, <1>5, <2>1 DEF Deadlocked, ChildCan
<1>8. Writes(s)
  BY <1>4, <1>7 DEF Reads, Writes, LeftInv, IInv, TypeOK, Lines, Kinds
<1> QED BY <1>4, <1>6, <1>8 DEF s
\* The first command never waits in read: it reads no pipe.
LEMMA NobodyReads ==
    ASSUME IInv, LeftInv, Deadlocked
    PROVE  \A c \in Commands : ~Reads(c)
<1> DEFINE P == {k \in 0 .. MaxCommands - 1 : ~Reads(k)}
<1> DEFINE n == MaxCommands - 1
<1>1. n \in Nat /\ Commands = 0 .. n
  BY ParametersAssumption DEF Commands
<1>2. 0 \in P
  BY <1>1, WaitingReader
<1>3. ASSUME NEW k \in 1 .. n, k - 1 \in P PROVE k \in P
  BY <1>1, <1>3, WaitingReader
<1> HIDE DEF P
<1>4. \A k \in 0 .. n : k \in P
  <2> HIDE DEF n
  <2> QED BY <1>1, <1>2, <1>3, BoundedInduction
<1> QED BY <1>1, <1>4 DEF P

\* The last command never waits in write: it writes no pipe.
LEMMA NobodyWrites ==
    ASSUME IInv, LeftInv, Deadlocked
    PROVE  \A c \in Commands : ~Writes(c)
<1> DEFINE n == line.number - 1
<1> DEFINE P == {k \in 0 .. n : ~Writes(n - k)}
<1>1. n \in Nat /\ 0 .. n \subseteq Commands /\ line.number = n + 1
  BY Pipes_of_the_line DEF IInv, Commands
<1>2. 0 \in P
  <2> HIDE DEF n
  <2>1. n \in Commands /\ 0 \in 0 .. n /\ n - 0 = n /\ ~(n + 1 < line.number)
    BY <1>1
  <2>2. ~Writes(n)
    BY <2>1, WaitingWriter
  <2> QED BY <2>1, <2>2
<1>3. ASSUME NEW k \in 1 .. n, k - 1 \in P PROVE k \in P
  <2> HIDE DEF n
  <2>1. n - k \in Commands /\ n - (k - 1) = (n - k) + 1 /\ k \in 0 .. n
    BY <1>1
  <2>2. ~Writes(n - k)
    BY <1>3, <2>1, WaitingWriter
  <2> QED BY <2>1, <2>2
<1> HIDE DEF P
<1>4. \A k \in 0 .. n : k \in P
  <2> HIDE DEF n
  <2> QED BY <1>1, <1>2, <1>3, BoundedInduction
<1>5. ASSUME NEW c \in Commands PROVE ~Writes(c)
  <2>1. CASE c \in 0 .. n
    <3> HIDE DEF n
    <3>1. n - c \in 0 .. n /\ n - (n - c) = c
      BY <1>1, <2>1
    <3> QED BY <1>4, <3>1 DEF P
  <2>2. CASE c \notin 0 .. n
    <3>1. cpc[c] = "unborn"
      BY <1>1, <2>2 DEF Commands, IInv, BirthInv
    <3> QED BY <3>1 DEF Writes
  <2> QED BY <2>1, <2>2
<1> QED BY <1>5

(***************************************************************************)
(* However long the line, whatever its programs and the room in the pipes, *)
(* and even after the shell has died under them, the shell and its         *)
(* children never all wait on one another: a reader that waits has a       *)
(* predecessor that waits in read, a writer that waits a successor that    *)
(* waits in write, and both chains end at the ends of the line.  Closing   *)
(* one end too few, in the shell or in a child, breaks this.               *)
(***************************************************************************)
THEOREM NoDeadlock == Spec => []~Deadlocked
<1>1. IInv /\ LeftInv => ~Deadlocked
  <2> SUFFICES ASSUME IInv, LeftInv, Deadlocked PROVE FALSE
    OBVIOUS
  <2>1. PICK c \in Commands : cpc[c] \in {"running", "writing"}
    BY WhoIsLeft
  <2>2. Reads(c) \/ Writes(c)
    BY <2>1 DEF Reads, Writes, LeftInv, IInv, TypeOK, Lines, Kinds
  <2> QED BY <2>2, NobodyReads, NobodyWrites
<1> QED BY <1>1, InvariantCorrect, LeftInductive, PTL
==============================================================================
