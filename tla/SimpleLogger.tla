---------------------------- MODULE SimpleLogger ----------------------------
(***************************************************************************)
(* 04_SimpleLogger.c: copy the lines of stdin to file_name; when SIGHUP    *)
(* has come, rename file_name.i to file_name.(i+1) for every i, file_name  *)
(* to file_name.1, and go on in a new file_name.                           *)
(*                                                                         *)
(* A step is one system call.  The signal may come between any two, the    *)
(* process may be killed and started again, and somebody may delete old    *)
(* archives or put other files beside them.  The n-th line read is the     *)
(* number n.  file_name has no slash in it.                                *)
(***************************************************************************)
EXTENDS Integers, Sequences, SequencesExt, FiniteSets, FiniteSetsExt, LogNames

CONSTANTS
    ReadMayFail,   \* whether reading stdin may fail
    MaxLines,      \* bound: the lines of input
    MaxFaults      \* bound: kills, restarts, deletions, misleading files, failed calls

ASSUME ParametersAssumption ==
    /\ ReadMayFail \in BOOLEAN
    /\ MaxLines \in Nat /\ MaxFaults \in Nat

VARIABLES
    files,     \* contents of file_name (at 0) and of each file_name.n that exists
    strays,    \* the names of the other files in the directory
    fd,        \* where the inode that FILE* file writes to is now; -1 when closed
    buffer,    \* the lines in the stdio buffer of file
    pc,        \* the next call
    code,      \* what the last fgets returned: a line, or NULL at end or error
    input,     \* the number of lines read so far, by all incarnations
    flag,      \* the flag that the signal handler sets
    errno,     \* whether errno is other than 0
    i,         \* the loop variable of RENAME
    faults     \* what MaxFaults bounds, so far

vars == <<files, strays, fd, buffer, pc, code, input, flag, errno, i, faults>>

Ended == {"success", "failed", "killed"}
Places == Ended \cup
    {"fgets", "flag", "get_count", "rename", "fclose", "fopen", "fputs", "finish"}

\* The file_name, and names of other files.  None of the harmless ones is the
\* name of an archive: too short, nothing after the dot, another file's archive,
\* no dot, no digits.  Both misleading ones are taken for one.
file_name == <<Letter>>
Harmless == {<<Dot>>, <<Letter, Dot>>, <<Letter, Letter, Dot, 1>>, <<Letter, Letter, 1, 1>>,
             <<Letter, Dot, 1, Letter>>, <<Letter, Dot, 1, Dot>>}
Misleading == {<<Letter, Dot, Radix>>, <<Letter, Dot, 0, 1, 1>>}

TypeOK ==
    /\ DOMAIN files \subseteq Nat
    /\ \A n \in DOMAIN files : files[n] \in Seq(1 .. MaxLines)
    /\ fd \in {-1, 0, 1}
    /\ fd # -1 => fd \in DOMAIN files
    /\ strays \subseteq Harmless \cup Misleading
    /\ buffer \in Seq(1 .. MaxLines)
    /\ pc \in Places
    /\ code \in {"line", "eof", "error"}
    /\ input \in 0 .. MaxLines
    /\ flag \in BOOLEAN
    /\ errno \in BOOLEAN
    /\ i \in Nat
    /\ faults \in 0 .. MaxFaults

Archives == DOMAIN files \ {0}

Put(n, content) == [m \in DOMAIN files \cup {n} |-> IF m = n THEN content ELSE files[m]]

\* rename: the inode at old is at new, and what was at new is gone.
Renamed(old, new) ==
    [m \in (DOMAIN files \ {old}) \cup {new} |-> IF m = new THEN files[old] ELSE files[m]]

\* Mutant: what is buffered is dropped.
NotFlushed == files

Flushed == IF fd = -1 THEN files ELSE Put(fd, files[fd] \o buffer)

----------------------------------------------------------------------------
Init ==
    /\ files = [n \in {0} |-> <<>>]
    /\ strays = Harmless
    /\ fd = 0
    /\ buffer = <<>>
    /\ pc = "fgets"
    /\ code = "eof"
    /\ input = 0
    /\ flag = FALSE
    /\ errno = FALSE
    /\ i = 0
    /\ faults = 0

\* fgets returns a line, or NULL at end of input, or NULL with errno set.
fgets ==
    /\ pc = "fgets"
    /\ pc' = "flag"
    /\ \/ input < MaxLines /\ input' = input + 1 /\ code' = "line" /\ UNCHANGED errno
       \/ code' = "eof" /\ UNCHANGED <<input, errno>>
       \/ ReadMayFail /\ code' = "error" /\ errno' = TRUE /\ UNCHANGED input
    /\ UNCHANGED <<files, strays, fd, buffer, flag, i, faults>>

\* The handler runs between any two steps.
signal_handler ==
    /\ pc \notin Ended
    /\ ~flag
    /\ flag' = TRUE
    /\ UNCHANGED <<files, strays, fd, buffer, pc, code, input, errno, i, faults>>

AfterRotate == IF code = "line" THEN "fputs" ELSE "finish"

\* if (flag == 1) { flag = 0; rotate ...
TestFlag ==
    /\ pc = "flag"
    /\ flag' = FALSE
    /\ pc' = IF flag THEN "get_count" ELSE AfterRotate
    /\ UNCHANGED <<files, strays, fd, buffer, code, input, errno, i, faults>>

\* What readdir lists, and the numbers read from it.
Entries == {file_name} \cup {create_new_name(file_name, n) : n \in Archives} \cup strays
Found == {read_count_from_entry_name(entry, file_name) : entry \in Entries}

\* Mutant: the highest number in use.
CountInUse == Max(Found \cup {1})

Count == Max(Found \cup {0}) + 1

\* get_count sets errno to 0 for readdir; RENAME starts at count - 1.
get_count ==
    /\ pc = "get_count"
    /\ i' = Count - 1
    /\ errno' = FALSE
    /\ pc' = "rename"
    /\ UNCHANGED <<files, strays, fd, buffer, code, input, flag, faults>>

\* Mutant: the loop runs down to 0.
RenameDownToZero ==
    /\ pc = "rename"
    /\ i >= 0
    /\ IF i \in DOMAIN files
       THEN files' = Renamed(i, i + 1) /\ i' = i - 1 /\ UNCHANGED <<fd, buffer, pc>>
       ELSE files' = Flushed /\ pc' = "failed" /\ fd' = -1 /\ buffer' = <<>> /\ UNCHANGED i
    /\ UNCHANGED <<strays, code, input, flag, errno, faults>>

\* The loop of RENAME; exit flushes what is buffered.
RenameArchive ==
    /\ pc = "rename"
    /\ i >= 1
    /\ IF i \in DOMAIN files
       THEN files' = Renamed(i, i + 1) /\ i' = i - 1 /\ UNCHANGED <<fd, buffer, pc>>
       ELSE files' = Flushed /\ pc' = "failed" /\ fd' = -1 /\ buffer' = <<>> /\ UNCHANGED i
    /\ UNCHANGED <<strays, code, input, flag, errno, faults>>

\* Mutant: the log gets the highest number instead of the lowest.
RenameLogHighest ==
    /\ pc = "rename"
    /\ i = 0
    /\ files' = Renamed(0, Count)
    /\ fd' = Count
    /\ pc' = "fclose"
    /\ UNCHANGED <<strays, buffer, code, input, flag, errno, i, faults>>

\* The last rename of RENAME: the open file is file_name.1 from now on.
RenameLog ==
    /\ pc = "rename"
    /\ i = 0
    /\ files' = Renamed(0, 1)
    /\ fd' = 1
    /\ pc' = "fclose"
    /\ UNCHANGED <<strays, buffer, code, input, flag, errno, i, faults>>

FCLOSE ==
    /\ pc = "fclose"
    /\ files' = Flushed
    /\ fd' = -1
    /\ buffer' = <<>>
    /\ pc' = "fopen"
    /\ UNCHANGED <<strays, code, input, flag, errno, i, faults>>

\* Mutant: the flag is reset when the rotation is over.
ResetLate ==
    /\ pc = "fopen"
    /\ files' = Put(0, <<>>)
    /\ fd' = 0
    /\ flag' = FALSE
    /\ pc' = AfterRotate
    /\ UNCHANGED <<strays, buffer, code, input, errno, i, faults>>

FOPEN ==
    /\ pc = "fopen"
    /\ files' = Put(0, <<>>)
    /\ fd' = 0
    /\ pc' = AfterRotate
    /\ UNCHANGED <<strays, buffer, code, input, flag, errno, i, faults>>

\* FPUTS; stdio writes the buffer out whenever it is full.
FPUTS ==
    /\ pc = "fputs"
    /\ pc' = "fgets"
    /\ \/ buffer' = Append(buffer, input) /\ UNCHANGED files
       \/ buffer' = <<>> /\ files' = Put(fd, Append(files[fd] \o buffer, input))
    /\ UNCHANGED <<strays, fd, code, input, flag, errno, i, faults>>

\* After the loop: CHECK_ERRNO, then fclose and return from main.
Finish ==
    /\ pc = "finish"
    /\ files' = Flushed
    /\ fd' = -1
    /\ buffer' = <<>>
    /\ pc' = IF errno THEN "failed" ELSE "success"
    /\ UNCHANGED <<strays, code, input, flag, errno, i, faults>>

Logger ==
    \/ TestFlag \/ get_count \/ RenameArchive \/ RenameLog
    \/ FCLOSE \/ FOPEN \/ FPUTS \/ Finish

----------------------------------------------------------------------------
(* The environment.                                                        *)

\* Killed: what is buffered is gone.
Kill ==
    /\ pc \notin Ended
    /\ faults < MaxFaults
    /\ faults' = faults + 1
    /\ pc' = "killed"
    /\ fd' = -1
    /\ buffer' = <<>>
    /\ UNCHANGED <<files, strays, code, input, flag, errno, i>>

\* main again, in the same directory; FOPEN truncates the file.
main ==
    /\ pc \in Ended
    /\ faults < MaxFaults
    /\ faults' = faults + 1
    /\ files' = Put(0, <<>>)
    /\ fd' = 0
    /\ pc' = "fgets"
    /\ code' = "eof"
    /\ flag' = FALSE
    /\ errno' = FALSE
    /\ UNCHANGED <<strays, buffer, input, i>>

\* Somebody deletes an archive that is not open.
DeleteArchive ==
    /\ faults < MaxFaults
    /\ faults' = faults + 1
    /\ \E n \in Archives \ {fd} : files' = Restrict(files, DOMAIN files \ {n})
    /\ UNCHANGED <<strays, fd, buffer, pc, code, input, flag, errno, i>>

\* Somebody creates a file that looks like an archive.
CreateMisleading ==
    /\ faults < MaxFaults
    /\ faults' = faults + 1
    /\ \E name \in Misleading \ strays : strays' = strays \cup {name}
    /\ UNCHANGED <<files, fd, buffer, pc, code, input, flag, errno, i>>

\* opendir, readdir, rename, fclose, fopen or fputs fails and the program exits;
\* what was buffered may or may not have reached the file.
CallFails ==
    /\ pc \in {"get_count", "rename", "fclose", "fopen", "fputs", "finish"}
    /\ faults < MaxFaults
    /\ faults' = faults + 1
    /\ files' \in {files, Flushed}
    /\ fd' = -1
    /\ buffer' = <<>>
    /\ pc' = "failed"
    /\ UNCHANGED <<strays, code, input, flag, errno, i>>

Next ==
    \/ fgets \/ signal_handler \/ Logger \/ Kill \/ main \/ DeleteArchive
    \/ CreateMisleading \/ CallFails

(***************************************************************************)
(* The process runs, except that fgets may wait for input for ever.        *)
(***************************************************************************)
Spec == Init /\ [][Next]_vars /\ WF_vars(Logger)

----------------------------------------------------------------------------
\* The contents of file_name.n as they will be when the buffer is written.
Contents(n) == IF n \notin DOMAIN files THEN <<>>
               ELSE IF n = fd THEN files[n] \o buffer ELSE files[n]

\* The line that fgets has returned and FPUTS has not taken.
InHand == IF code = "line" /\ pc \notin Ended \cup {"fgets"} THEN <<input>> ELSE <<>>

\* Reading the archives from the oldest down, then file_name, gives every line
\* of the input, once and in order, at every moment of every rotation.
NothingLost ==
    LET top == Max(DOMAIN files \cup {0})
        parts == [k \in 1 .. top + 1 |-> Contents(top + 1 - k)]
    IN  faults = 0 =>
            FlattenSeq(parts) \o InHand = [n \in 1 .. input |-> n]

\* A higher number is an older archive, also after kills and deletions.
Chronological ==
    /\ \A n \in DOMAIN files : \A j, k \in DOMAIN Contents(n) :
          j < k => Contents(n)[j] < Contents(n)[k]
    /\ \A m, n \in DOMAIN files : m < n =>
          \A x \in ToSet(Contents(m)), y \in ToSet(Contents(n)) : y < x

\* The exit status tells what happened.  Left alone, the program fails only if
\* reading did: no rotation ever fails, since get_count finds the archives among
\* the files of the directory by their names, however many digits a number has,
\* and the renames start at the last of them.  And although errno is tested long
\* after fgets, it succeeds after a read error only when a rotation (which leaves
\* the log empty) came between and get_count reset errno.
ExitStatus ==
    /\ pc = "failed" /\ faults = 0 => code = "error"
    /\ pc = "success" /\ code = "error" => files[0] = <<>>

\* No step destroys an archive or, but for the fopen of main, truncates the log:
\* each keeps its name or gets the next one, and its contents only grow (by what
\* was still buffered).
FilesSurvive ==
    [][\A n \in DOMAIN files :
          \/ n \in DOMAIN files' /\ IsPrefix(files[n], files'[n])
          \/ n + 1 \in DOMAIN files' /\ files'[n + 1] = files[n]
          \/ DeleteArchive
          \/ n = 0 /\ main]_vars

\* A SIGHUP is not forgotten: it is pending until a rotation starts, which can
\* be delayed only by waiting for input.
SighupServed ==
    flag ~> (pc = "get_count" \/ (pc = "fgets" /\ flag) \/ pc \in Ended)

\* get_count: "get count of minimum number, not found in directory".
CountIsMinimum ==
    pc = "get_count" /\ strays = Harmless =>
        Count = Min((1 .. Cardinality(Archives) + 1) \ Archives)
============================================================================
