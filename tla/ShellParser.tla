---------------------------- MODULE ShellParser ----------------------------
(***************************************************************************)
(* 01_Shell_1.c, 02_Shell_2.c and 03_Shell_3.c: from a line to the         *)
(* commands it names.  tokenizer_init cuts the line into tokens,           *)
(* CHECK_SYNTAX accepts or rejects them, and exec_command collects each    *)
(* command's arguments and the two file names.  Where the shells do the    *)
(* same, the definition has Shell_3's name.                                *)
(*                                                                         *)
(* A line is typed piece by piece; one letter stands for every character   *)
(* that is neither a space nor an operator.                                *)
(***************************************************************************)
EXTENDS Integers, Sequences, SequencesExt, FiniteSets, FiniteSetsExt

CONSTANT MaxPieces      \* bound: the pieces of a line

ASSUME MaxPiecesAssumption == MaxPieces \in Nat

VARIABLES
    program,    \* which of the three shells is running
    line,       \* the pieces typed so far
    tokens,     \* the list of the tokenizer
    outcome     \* what exec_command makes of them

vars == <<program, line, tokens, outcome>>

Space == " "
Newline == "\n"

Pieces == {<<"<">>, <<">">>, <<"|">>, <<"x">>, <<"x", Space>>}

TK_WORD == "word"
TK_INFILE == "<"
TK_OUTFILE == ">"
TK_PIPE == "|"
Redirections == {TK_INFILE, TK_OUTFILE}

\* getline keeps the newline; SKIP_SPACES takes it for a space.
Spaces == {Space, Newline}
Characters == FlattenSeq(line) \o <<Newline>>

----------------------------------------------------------------------------
(* The tokenizer.                                                          *)

\* The characters that are tokens of their own, in each shell.
Operators == [Shell_1 |-> {}, Shell_2 |-> {"<", ">"}, Shell_3 |-> {"<", ">", "|"}]

\* Mutant: the loop starts one character too far.
EndOfTokenLate(chars, start, operators) ==
    Min({p \in start + 2 .. Len(chars) : chars[p] \in Spaces} \cup {Len(chars) + 1})

\* READ_TOKEN: an operator is one character; a word that has begun ends only at
\* a space, whatever operators are in it.
EndOfToken(chars, start, operators) ==
    IF chars[start] \in operators THEN start + 1
    ELSE Min({p \in start + 1 .. Len(chars) : chars[p] \in Spaces} \cup {Len(chars) + 1})

TypeOf(char, operators) == IF char \in operators THEN char ELSE TK_WORD

Tokenized(chars, operators) ==
    LET from[p \in 1 .. Len(chars) + 1] ==
            IF p > Len(chars) THEN <<>>
            ELSE IF chars[p] \in Spaces THEN from[p + 1]
            ELSE LET end == EndOfToken(chars, p, operators)
                 IN  <<[type |-> TypeOf(chars[p], operators), text |-> SubSeq(chars, p, end - 1)]>>
                         \o from[end]
    IN  from[1]

tokenizer_init_1(chars) == Tokenized(chars, Operators.Shell_1)
tokenizer_init_2(chars) == Tokenized(chars, Operators.Shell_2)
tokenizer_init(chars) == Tokenized(chars, Operators.Shell_3)

----------------------------------------------------------------------------
(* The three checks of CHECK_SYNTAX.                                       *)

Has(toks, i, type) == i \in DOMAIN toks /\ toks[i].type = type

check_double_pipe_symbol(toks) ==
    \A i \in DOMAIN toks : ~(Has(toks, i, TK_PIPE) /\ Has(toks, i + 1, TK_PIPE))

\* The redirections of a kind in the command of token i, up to i.
Count(toks, type, i) ==
    Cardinality({j \in 1 .. i : Has(toks, j, type)
                                  /\ \A k \in j .. i : ~Has(toks, k, TK_PIPE)})

check_commands_syntax(toks) ==
    \A i \in DOMAIN toks :
        /\ toks[i].type \in Redirections => Has(toks, i + 1, TK_WORD)
        /\ \A type \in Redirections : Count(toks, type, i) <= 1

\* Mutant: only the input redirections are looked at.
OnlyInputChecked(toks) ==
    FoldLeft(LAMBDA s, t : [first |-> s.first /\ t.type # TK_PIPE,
                            found_out_file |-> FALSE,
                            ok |-> s.ok /\ (t.type = TK_INFILE => s.first)],
             [first |-> TRUE, found_out_file |-> FALSE, ok |-> TRUE], toks).ok

check_input_output_redundant_redirections(toks) ==
    FoldLeft(LAMBDA s, t :
                 [first |-> s.first /\ t.type # TK_PIPE,
                  found_out_file |-> s.found_out_file \/ t.type = TK_OUTFILE,
                  ok |-> /\ s.ok
                         /\ t.type = TK_INFILE => s.first
                         /\ t.type = TK_PIPE => ~s.found_out_file],
             [first |-> TRUE, found_out_file |-> FALSE, ok |-> TRUE], toks).ok

CHECK_SYNTAX(toks) ==
    /\ check_double_pipe_symbol(toks)
    /\ check_commands_syntax(toks)
    /\ check_input_output_redundant_redirections(toks)

\* Shell_2: the counts over the whole line.
correct_syntax(toks) ==
    /\ \A i \in DOMAIN toks : toks[i].type \in Redirections => Has(toks, i + 1, TK_WORD)
    /\ \A type \in Redirections : Cardinality({i \in DOMAIN toks : Has(toks, i, type)}) <= 1

----------------------------------------------------------------------------
(* The parts of an accepted line.                                          *)

find_number_of_commands(toks) ==
    1 + Cardinality({i \in DOMAIN toks : Has(toks, i, TK_PIPE)})

\* exists_inp_red and exists_out_red.
exists_red(toks, type) == \E i \in DOMAIN toks : Has(toks, i, type)

\* Mutant: SKIP_FILES skips the operator but not the name.
SkipsOne(toks, i) == i + 1

\* SKIP_FILES follows next twice.
SKIP_FILES(toks, i) == i + 2

\* ALLOCATE_ARGUMENTS: one list for each command.
ALLOCATE_ARGUMENTS(toks) ==
    LET from[i \in 1 .. Len(toks) + 2] ==
            IF i > Len(toks) THEN << <<>> >>
            ELSE LET type == toks[i].type
                     rest == from[IF type \in Redirections THEN SKIP_FILES(toks, i) ELSE i + 1]
                 IN  CASE type \in Redirections -> rest
                       [] type = TK_PIPE        -> << <<>> >> \o rest
                       [] type = TK_WORD        -> [rest EXCEPT ![1] = <<toks[i].text>> \o @]
    IN  from[1]

\* ALLOCATE_FILE_NAMES; a name nobody wrote is never used.
FileName(toks, type) ==
    IF exists_red(toks, type)
    THEN toks[Max({i \in DOMAIN toks : Has(toks, i, type)}) + 1].text
    ELSE <<>>

\* Shell_1: every token is an argument.
ALLOCATE_ARGUMENTS_1(toks) == [i \in DOMAIN toks |-> toks[i].text]

\* Shell_2: one list, the loop of SKIP_FILES before each argument.
ALLOCATE_ARGUMENTS_2(toks) ==
    LET from[i \in 1 .. Len(toks) + 2] ==
            IF i > Len(toks) THEN <<>>
            ELSE IF toks[i].type \in Redirections THEN from[SKIP_FILES(toks, i)]
            ELSE <<toks[i].text>> \o from[i + 1]
    IN  from[1]

\* Shell_2: OPEN stops at the first operator of the type.
FileName_2(toks, type) ==
    IF exists_red(toks, type)
    THEN toks[Min({i \in DOMAIN toks : Has(toks, i, type)}) + 1].text
    ELSE <<>>

\* exec_command of each shell up to the first open or fork.
exec_command_1(toks) ==
    IF toks = <<>> THEN [kind |-> "empty"]
    ELSE [kind |-> "run", number |-> 1, argument_list |-> <<ALLOCATE_ARGUMENTS_1(toks)>>]

exec_command_2(toks) ==
    IF toks = <<>> THEN [kind |-> "empty"]
    ELSE IF ~correct_syntax(toks) THEN [kind |-> "refused"]
    ELSE [kind |-> "run",
          number |-> 1,
          argument_list |-> <<ALLOCATE_ARGUMENTS_2(toks)>>,
          in_file_name |-> FileName_2(toks, TK_INFILE),
          out_file_name |-> FileName_2(toks, TK_OUTFILE)]

exec_command(toks) ==
    IF toks = <<>> THEN [kind |-> "empty"]
    ELSE IF ~CHECK_SYNTAX(toks) THEN [kind |-> "refused"]
    ELSE [kind |-> "run",
          number |-> find_number_of_commands(toks),
          argument_list |-> ALLOCATE_ARGUMENTS(toks),
          in_file_name |-> FileName(toks, TK_INFILE),
          out_file_name |-> FileName(toks, TK_OUTFILE)]

----------------------------------------------------------------------------
(* main, one line after the other.                                         *)

Prompt == [kind |-> "prompt"]

Init ==
    /\ program \in DOMAIN Operators
    /\ line = <<>>
    /\ tokens = <<>>
    /\ outcome = Prompt

\* The user types.
Type(piece) ==
    /\ outcome = Prompt
    /\ Len(line) < MaxPieces
    /\ line' = Append(line, piece)
    /\ UNCHANGED <<program, tokens, outcome>>

\* The line is complete: tokenizer_init and exec_command.
Enter ==
    /\ outcome = Prompt
    /\ CASE program = "Shell_1" ->
              tokens' = tokenizer_init_1(Characters) /\ outcome' = exec_command_1(tokens')
         [] program = "Shell_2" ->
              tokens' = tokenizer_init_2(Characters) /\ outcome' = exec_command_2(tokens')
         [] program = "Shell_3" ->
              tokens' = tokenizer_init(Characters) /\ outcome' = exec_command(tokens')
    /\ UNCHANGED <<program, line>>

\* exec_command has returned and freed the tokens; the next line begins.
get_user_line ==
    /\ outcome # Prompt
    /\ line' = <<>>
    /\ tokens' = <<>>
    /\ outcome' = Prompt
    /\ UNCHANGED program

Next == (\E piece \in Pieces : Type(piece)) \/ Enter \/ get_user_line

Spec == Init /\ [][Next]_vars

----------------------------------------------------------------------------
Accepted == outcome.kind = "run"

\* No character of the line is lost, repeated or moved: the tokens in order are
\* the line without its spaces, each token is one operator of the shell or begins
\* with another character, and a word begins wherever such a character has only
\* operators between it and the last space: it swallows what touches its end.
TokensAreTheLine ==
    outcome # Prompt =>
        LET operators == Operators[program]
            Kept(c) == IF c \in Spaces THEN <<>> ELSE <<c>>
        IN  /\ FlattenSeq([i \in DOMAIN tokens |-> tokens[i].text])
                   = FlattenSeq([p \in DOMAIN Characters |-> Kept(Characters[p])])
            /\ \A i \in DOMAIN tokens :
                  IF tokens[i].type = TK_WORD THEN tokens[i].text[1] \notin operators
                  ELSE tokens[i].text = <<tokens[i].type>>
            /\ Cardinality({i \in DOMAIN tokens : tokens[i].type = TK_WORD})
                   = Cardinality({p \in DOMAIN Characters :
                        /\ Characters[p] \notin Spaces \cup operators
                        /\ \A q \in 1 .. p - 1 :
                              (\A r \in q .. p - 1 : Characters[r] \notin Spaces)
                                  => Characters[q] \in operators})

\* The loops and counters of the checks of each shell accept the lines of this
\* grammar and no others: every < and > has a name after it, at most one < is in
\* the line and no pipe before it, at most one > and no pipe after it, and no
\* pipe follows a pipe.  exec_command opens the files named after the operators.
SyntaxIsTheGrammar ==
    LET Positions(type) == {i \in DOMAIN tokens : tokens[i].type = type}
        WellFormed ==
            /\ \A i \in Positions(TK_INFILE) \cup Positions(TK_OUTFILE) :
                  i + 1 \in Positions(TK_WORD)
            /\ Cardinality(Positions(TK_INFILE)) <= 1
            /\ Cardinality(Positions(TK_OUTFILE)) <= 1
            /\ \A p \in Positions(TK_PIPE) :
                  /\ \A i \in Positions(TK_INFILE) : i < p
                  /\ \A i \in Positions(TK_OUTFILE) : p < i
                  /\ p + 1 \notin Positions(TK_PIPE)
    IN  tokens # <<>> =>
            /\ Accepted <=> WellFormed
            /\ Accepted /\ program # "Shell_1" =>
                  /\ \A i \in Positions(TK_INFILE) : outcome.in_file_name = tokens[i + 1].text
                  /\ \A i \in Positions(TK_OUTFILE) : outcome.out_file_name = tokens[i + 1].text

\* The k-th command of an accepted line gets the words between its pipes, in
\* order, without the file names, and there are as many lists as commands: what
\* ALLOCATE_ARGUMENTS finds by walking is what the line says.
ArgumentsOfEachCommand ==
    Accepted =>
        LET PipesBefore(i) == Cardinality({j \in 1 .. i - 1 : Has(tokens, j, TK_PIPE)})
            Words(k) == {i \in DOMAIN tokens :
                            /\ tokens[i].type = TK_WORD
                            /\ PipesBefore(i) = k - 1
                            /\ ~\E type \in Redirections : Has(tokens, i - 1, type)}
            Nth(i, S) == Cardinality({h \in S : h <= i})
        IN  /\ Len(outcome.argument_list) = outcome.number
            /\ \A k \in 1 .. outcome.number :
                  /\ Len(outcome.argument_list[k]) = Cardinality(Words(k))
                  /\ \A i \in Words(k) :
                        outcome.argument_list[k][Nth(i, Words(k))] = tokens[i].text
============================================================================
