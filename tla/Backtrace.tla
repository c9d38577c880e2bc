----------------------------- MODULE Backtrace -----------------------------
(***************************************************************************)
(* 11_backtrace.c: the walk over the stack frames of the running program   *)
(* up to main, with a search in its own ELF file for the name of each      *)
(* return address.                                                         *)
(*                                                                         *)
(* An address is a number.  The i-th function of the text has two          *)
(* instructions, at 2i and 2i+1; a call by the first one returns to 2i+1   *)
(* and a call by the last one, of a function that does not return, would   *)
(* return to 2i+2, where the next function begins.                         *)
(***************************************************************************)
EXTENDS Naturals, Sequences, SequencesExt, FiniteSets

CONSTANTS
    MaxDepth,   \* bound: the calls of f between main and print_backtrace
    Limits      \* bound: the sizes the array of backtrace may have

ASSUME MaxDepthAssumption == MaxDepth \in Nat
ASSUME LimitsAssumption == Limits \subseteq Nat

VARIABLES
    image,      \* the executable file
    stack,      \* the return addresses on the stack, the innermost first
    limit,      \* the size of the array
    at,         \* where print_backtrace is
    recorded,   \* the array backtrace fills
    printed     \* the names printed

backtraceVars == <<image, stack, limit, at, recorded, printed>>

\* The functions defined in the program.
Names == {"main", "f", "print_backtrace"}

Orders == SetToSeqs(Names)

\* text: the order of the functions in memory; symtab: their order in the symbol
\* table; static: f is; imports: the table has undefined symbols, of value 0;
\* stripped: it has no symbol table; intact: the array that addr2name leaves is
\* still intact when its caller reads it.
Images == [text : Orders, symtab : Orders, static : BOOLEAN, imports : BOOLEAN,
           stripped : BOOLEAN, intact : BOOLEAN]

Start(name) == 2 * CHOOSE i \in DOMAIN image.text : image.text[i] = name

EndOfText == 2 * Cardinality(Names) + 2

\* A return address in the code of the library that called main.
Library == EndOfText + 10

Function(name, bind) == [name |-> name, bind |-> bind, type |-> "FUNC", value |-> Start(name)]

Symbols ==
    (IF image.imports
     THEN <<[name |-> "printf", bind |-> "GLOBAL", type |-> "FUNC", value |-> 0]>> ELSE <<>>)
    \o [i \in DOMAIN image.symtab |->
           Function(image.symtab[i],
                    IF image.symtab[i] = "f" /\ image.static THEN "LOCAL" ELSE "GLOBAL")]
    \o <<[name |-> "table", bind |-> "GLOBAL", type |-> "OBJECT", value |-> EndOfText]>>

Sections == <<"", ".text">> \o (IF image.stripped THEN <<>> ELSE <<".symtab", ".strtab">>)
                \o <<".shstrtab">>

\* A frame: whose it is, and whether its call was its last instruction.
Frames == [name : Names, last : BOOLEAN]

ReturnAddress(frame) == Start(frame.name) + (IF frame.last THEN 2 ELSE 1)

\* print_backtrace was called by f, and f by f, ..., and by main.
Stacks ==
    UNION {{[i \in 1 .. n + 2 |->
                [name |-> IF i = 1 THEN "print_backtrace" ELSE IF i = n + 2 THEN "main" ELSE "f",
                 last |-> l[i]]] :
               l \in {m \in [1 .. n + 2 -> BOOLEAN] : ~m[1]}} : n \in 0 .. MaxDepth}

BacktraceInit ==
    /\ image \in Images
    /\ stack \in Stacks
    /\ limit \in Limits
    /\ at = "walk"
    /\ recorded = <<>>
    /\ printed = <<>>

----------------------------------------------------------------------------
(* The search in the file.                                                 *)

\* The index of the header that is read when the loop stops; NULL for a section
\* that is not found is tested on an address that never is NULL.
get_section_header(section_name) ==
    IF section_name \in ToSet(Sections)
    THEN CHOOSE i \in DOMAIN Sections : Sections[i] = section_name
    ELSE Len(Sections)

\* Mutant: the last function below the address, wherever it begins.
LastBelow(addr) ==
    FoldLeft(LAMBDA best, s :
                 IF s.bind \in {"GLOBAL", "WEAK"} /\ s.type = "FUNC" /\ s.value <= addr
                 THEN s ELSE best,
             [name |-> "", value |-> 0], Symbols).name

\* The name at the position found, "" for position 0.
get_name_position(addr) ==
    FoldLeft(LAMBDA best, s :
                 IF /\ s.bind \in {"GLOBAL", "WEAK"} /\ s.type = "FUNC"
                    /\ s.value >= best.value /\ s.value <= addr
                 THEN s ELSE best,
             [name |-> "", value |-> 0], Symbols).name

\* What the caller of addr2name may read: some bytes when they are not a symbol
\* table's or were overwritten.  "" stands for an exit, when nothing was found.
addr2name(addr) ==
    LET symtab == Sections[get_section_header(".symtab")]
        strtab == Sections[get_section_header(".strtab")]
    IN  IF symtab # ".symtab" \/ strtab # ".strtab" THEN {"", "bytes"}
        ELSE IF get_name_position(addr) = "" THEN {""}
        ELSE IF image.intact THEN {get_name_position(addr)}
        ELSE {"bytes"}

----------------------------------------------------------------------------
(* backtrace and print_backtrace.                                          *)

\* The return addresses the frames lead to.  What main's frame points to is no
\* frame: the library keeps something else in rbp.
Chain == [i \in DOMAIN stack |-> ReturnAddress(stack[i])] \o <<Library>>

NextFrame ==
    /\ at = "walk"
    /\ Len(recorded) # limit
    /\ Len(recorded) < Len(Chain)
    /\ LET address == Chain[Len(recorded) + 1]
       IN  /\ recorded' = Append(recorded, address)
           /\ \E name \in addr2name(address) :
                 at' = CASE name = "" -> "exited"
                         [] name = "main" -> "print"
                         [] OTHER -> "walk"
    /\ UNCHANGED <<image, stack, limit, printed>>

\* Reading through rbp when there is no frame any more.
NoFrame ==
    /\ at = "walk"
    /\ Len(recorded) # limit
    /\ Len(recorded) = Len(Chain)
    /\ at' = "crashed"
    /\ UNCHANGED <<image, stack, limit, recorded, printed>>

LimitReached ==
    /\ at = "walk"
    /\ Len(recorded) = limit
    /\ at' = "print"
    /\ UNCHANGED <<image, stack, limit, recorded, printed>>

print_backtrace ==
    /\ at = "print"
    /\ Len(printed) < Len(recorded)
    /\ \E name \in addr2name(recorded[Len(printed) + 1]) :
          IF name = ""
          THEN at' = "exited" /\ UNCHANGED printed
          ELSE printed' = Append(printed, name) /\ UNCHANGED at
    /\ UNCHANGED <<image, stack, limit, recorded>>

\* print_backtrace returns.
PrintEnds ==
    /\ at = "print"
    /\ Len(printed) = Len(recorded)
    /\ at' = "done"
    /\ UNCHANGED <<image, stack, limit, recorded, printed>>

BacktraceNext == NextFrame \/ NoFrame \/ LimitReached \/ print_backtrace \/ PrintEnds

BacktraceSpec == BacktraceInit /\ [][BacktraceNext]_backtraceVars

----------------------------------------------------------------------------
\* What addr2name needs: a symbol table, an array that survives its return, and
\* on the stack only functions the table names, at addresses inside of them.
Nameable ==
    /\ ~image.stripped
    /\ image.intact
    /\ \A i \in DOMAIN stack : ~stack[i].last /\ (stack[i].name = "f" => ~image.static)

\* Then the walk is the stack: it passes no frame over, goes on to main and no
\* further, unless the array is full before, and prints for every address the
\* function it belongs to, in whatever order the text and the symbol table have
\* them and whatever else is in the table.  Otherwise it may stop early, when the
\* function before an address is main, or go on to the library and crash; but
\* what it recorded is on the stack.
BacktraceIsTheStack ==
    /\ IsPrefix(recorded, Chain)
    /\ Nameable =>
          /\ at \notin {"crashed", "exited"}
          /\ at = "done" =>
                printed = [i \in 1 .. (IF limit < Len(stack) THEN limit ELSE Len(stack)) |-> stack[i].name]
============================================================================
