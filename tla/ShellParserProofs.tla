------------------------- MODULE ShellParserProofs -------------------------
(***************************************************************************)
(* What is proved about ShellParser, for lines of any length.              *)
(***************************************************************************)
EXTENDS ShellParser, Induction, FiniteSetTheorems

Chars == {"<", ">", "|", "x", Space, Newline}

\* The tokens there can be: a word, which does not begin with an operator, or an operator.
TokensOf(operators) ==
    {t \in [type : operators \cup {TK_WORD}, text : Seq(Chars)] :
        IF t.type = TK_WORD THEN t.text[1] \notin operators ELSE t.text = <<t.type>>}

----------------------------------------------------------------------------
(* The tokenizer.                                                          *)

\* A token ends after where it starts; a word's inside has no space, and one follows.
LEMMA TokenEnds ==
    ASSUME NEW chars \in Seq(Chars), NEW operators \in SUBSET Chars, NEW p \in 1 .. Len(chars)
    PROVE  /\ EndOfToken(chars, p, operators) \in p + 1 .. Len(chars) + 1
           /\ chars[p] \in operators => EndOfToken(chars, p, operators) = p + 1
           /\ chars[p] \notin operators =>
                 /\ \A q \in p + 1 .. EndOfToken(chars, p, operators) - 1 : chars[q] \notin Spaces
                 /\ EndOfToken(chars, p, operators) <= Len(chars) =>
                       chars[EndOfToken(chars, p, operators)] \in Spaces
<1> DEFINE n == Len(chars)
           T == {q \in p + 1 .. n : chars[q] \in Spaces} \cup {n + 1}
           e == EndOfToken(chars, p, operators)
<1>1. n \in Nat /\ p \in Nat
  OBVIOUS
<1>2. CASE chars[p] \in operators
  <2>1. e = p + 1
    BY <1>2 DEF EndOfToken
  <2> QED BY <1>1, <1>2, <2>1
<1>3. CASE chars[p] \notin operators
  <2>1. e = Min(T)
    BY <1>3 DEF EndOfToken
  <2>2. T \in SUBSET Nat /\ n + 1 \in T /\ \A q \in T : q \in p + 1 .. n + 1
    BY <1>1
  <2>3. \A q \in p + 1 .. n : q \in T <=> chars[q] \in Spaces
    BY <1>1
  <2> HIDE DEF T, e
  <2>4. e \in T /\ \A q \in T : e <= q
    BY <2>1, <2>2, Least
  <2>5. e \in p + 1 .. n + 1
    BY <2>2, <2>4
  <2>6. ASSUME NEW q \in p + 1 .. e - 1 PROVE chars[q] \notin Spaces
    <3>1. q \in p + 1 .. n /\ ~(e <= q)
      BY <1>1, <2>5
    <3> QED BY <2>3, <2>4, <3>1
  <2>7. e <= n => chars[e] \in Spaces
    BY <1>1, <2>3, <2>4, <2>5
  <2> QED BY <1>3, <2>5, <2>6, <2>7 DEF e
<1> QED BY <1>2, <1>3

TokenAt(chars, p, operators) ==
    [type |-> TypeOf(chars[p], operators),
     text |-> SubSeq(chars, p, EndOfToken(chars, p, operators) - 1)]

\* What the tokenizer makes of the rest of the line from each place on.
TokensFrom(f, chars, operators) ==
    /\ f \in [1 .. Len(chars) + 1 -> Seq(TokensOf(operators))]
    /\ f[Len(chars) + 1] = <<>>
    /\ \A p \in 1 .. Len(chars) :
          f[p] = IF chars[p] \in Spaces THEN f[p + 1]
                 ELSE <<TokenAt(chars, p, operators)>> \o f[EndOfToken(chars, p, operators)]
    /\ Tokenized(chars, operators) = f[1]

\* A sequence of length one is its element's.
LEMMA OneElement ==
    ASSUME NEW S, NEW s \in Seq(S), Len(s) = 1
    PROVE  s = <<s[1]>>
  OBVIOUS

\* A token has one of the shell's types, and its text is made of the line's characters.
LEMMA TokenType ==
    ASSUME NEW chars \in Seq(Chars), NEW operators \in SUBSET Chars, NEW p \in 1 .. Len(chars)
    PROVE  TokenAt(chars, p, operators) \in TokensOf(operators)
<1> DEFINE e == EndOfToken(chars, p, operators)
           t == SubSeq(chars, p, e - 1)
<1>1. e \in p + 1 .. Len(chars) + 1
  BY TokenEnds
<1> HIDE DEF e
<1>2. t \in Seq(Chars)
  BY <1>1
<1>3. TypeOf(chars[p], operators) \in operators \cup {TK_WORD}
  BY DEF TypeOf
<1>4. CASE chars[p] \in operators
  <2>1. e = p + 1 /\ (p + 1) - 1 = p
    BY <1>4, TokenEnds DEF e
  <2>2. t = <<chars[p]>>
    <3>1. SubSeq(chars, p, p) = <<chars[p]>>
      <4>1. /\ SubSeq(chars, p, p) \in Seq(Chars) /\ Len(SubSeq(chars, p, p)) = 1
            /\ SubSeq(chars, p, p)[1] = chars[p]
        OBVIOUS
      <4> QED BY <4>1, OneElement
    <3>2. t = SubSeq(chars, p, p)
      BY <2>1
    <3> QED BY <3>1, <3>2
  <2>3. TypeOf(chars[p], operators) = chars[p] /\ chars[p] # TK_WORD
    BY <1>4 DEF TypeOf, Chars, Space, Newline, TK_WORD
  <2> HIDE DEF t
  <2> QED BY <1>2, <1>3, <2>2, <2>3 DEF TokenAt, TokensOf, t, e
<1>5. CASE chars[p] \notin operators
  <2>1. t[1] = chars[p]
    BY <1>1
  <2>2. TypeOf(chars[p], operators) = TK_WORD
    BY <1>5 DEF TypeOf
  <2> HIDE DEF t
  <2> QED BY <1>2, <1>3, <1>5, <2>1, <2>2 DEF TokenAt, TokensOf, t, e
<1> QED BY <1>4, <1>5

\* The loop of the tokenizer, read from the end of the line, is a function from places to lists of tokens.
LEMMA TokenizerRuns ==
    ASSUME NEW chars \in Seq(Chars), NEW operators \in SUBSET Chars
    PROVE  \E f : TokensFrom(f, chars, operators)
<1> DEFINE n == Len(chars)
           S == Seq(TokensOf(operators))
           End(p) == EndOfToken(chars, p, operators)
           Token(p) == TokenAt(chars, p, operators)
           Step(f, p) == IF chars[p] \in Spaces THEN f[p + 1] ELSE <<Token(p)>> \o f[End(p)]
           IsFrom(f) == f = [p \in 1 .. n + 1 |-> IF p > n THEN <<>> ELSE Step(f, p)]
           from == CHOOSE f : IsFrom(f)
<1>0. n \in Nat /\ \A p \in 1 .. n : End(p) \in p + 1 .. n + 1 /\ Token(p) \in TokensOf(operators)
  BY TokenEnds, TokenType
<1>1. Tokenized(chars, operators) = from[1]
  BY Zenon DEF Tokenized, TokenAt
<1> HIDE DEF End, Token
<1>2. \E f \in [1 .. n + 1 -> S] : IsFrom(f)
  <2> DEFINE next == [p \in 1 .. n |-> IF chars[p] \in Spaces THEN p + 1 ELSE End(p)]
             step == [x \in (1 .. n) \X S |->
                         IF chars[x[1]] \in Spaces THEN x[2] ELSE <<Token(x[1])>> \o x[2]]
             m == n + 1
             base == <<>>
  <2>1. next \in [1 .. n -> 1 .. m] /\ \A p \in 1 .. n : p < next[p]
    <3>1. \A p \in 1 .. n : End(p) \in 1 .. m /\ p + 1 \in 1 .. m /\ p < p + 1 /\ p < End(p)
      BY <1>0
    <3> QED BY <3>1
  <2>2. ASSUME NEW p \in 1 .. n, NEW v \in S
        PROVE  (IF chars[p] \in Spaces THEN v ELSE <<Token(p)>> \o v) \in S
    <3>1. <<Token(p)>> \in S
      BY <1>0
    <3> HIDE DEF S
    <3>2. <<Token(p)>> \o v \in S
      BY <3>1, ConcatProperties DEF S
    <3> QED BY <3>2
  <2> HIDE DEF S
  <2>3. step \in [(1 .. n) \X S -> S]
    BY <2>2
  <2>4. \A p \in 1 .. n, v \in S :
            step[<<p, v>>] = IF chars[p] \in Spaces THEN v ELSE <<Token(p)>> \o v
    OBVIOUS
  <2>5. m \in Nat /\ n \in Nat /\ n <= m
    BY <1>0
  <2>6. base \in S
    BY DEF S
  <2> HIDE DEF step, base
  <2>7. PICK f \in [1 .. m -> S] : FromTheEnd(f, m, n, base, next, step)
    <3> HIDE DEF next, m, n
    <3> QED BY <2>1, <2>3, <2>5, <2>6, RecursionFromTheEnd
  <2>8. ASSUME NEW p \in 1 .. m
        PROVE  (IF p > n THEN base ELSE step[<<p, f[next[p]]>>])
                   = IF p > n THEN <<>> ELSE Step(f, p)
    <3>1. CASE p > n
      BY <3>1 DEF base
    <3>2. CASE ~(p > n)
      <4>1. p \in 1 .. n
        BY <2>5, <3>2
      <4>2. f[next[p]] \in S
        BY <2>1, <2>7, <4>1
      <4>3. step[<<p, f[next[p]]>>] = IF chars[p] \in Spaces THEN f[next[p]] ELSE <<Token(p)>> \o f[next[p]]
        BY <2>4, <4>1, <4>2
      <4>4. next[p] = IF chars[p] \in Spaces THEN p + 1 ELSE End(p)
        BY <4>1
      <4> QED BY <3>2, <4>3, <4>4
    <3> QED BY <3>1, <3>2
  <2> HIDE DEF Step, next
  <2>9. f = [p \in 1 .. n + 1 |-> IF p > n THEN <<>> ELSE Step(f, p)]
    BY <2>7, <2>8 DEF FromTheEnd
  <2> QED BY <2>7, <2>9
<1>3. IsFrom(from)
  BY <1>2, Zenon
<1> HIDE DEF from
<1>4. /\ DOMAIN from = 1 .. n + 1 /\ from = [p \in 1 .. n + 1 |-> from[p]]
      /\ \A p \in 1 .. n + 1 : from[p] = IF p > n THEN <<>> ELSE Step(from, p)
  <2> HIDE DEF Step
  <2> QED BY <1>3
<1> DEFINE P == {p \in 1 .. n + 1 : from[p] \in S}
<1>5. ASSUME NEW p \in 1 .. n + 1, \A q \in p + 1 .. n + 1 : q \in P PROVE p \in P
  <2>1. CASE p > n
    <3>1. from[p] = <<>>
      BY <1>4, <2>1
    <3>2. <<>> \in S
      OBVIOUS
    <3> HIDE DEF S
    <3> QED BY <3>1, <3>2
  <2>2. CASE ~(p > n)
    <3>1. p \in 1 .. n /\ p + 1 \in p + 1 .. n + 1 /\ End(p) \in p + 1 .. n + 1
      BY <1>0, <2>2
    <3>2. from[p + 1] \in S /\ from[End(p)] \in S /\ <<Token(p)>> \in S
      BY <1>0, <1>5, <3>1
    <3> HIDE DEF S
    <3>3. <<Token(p)>> \o from[End(p)] \in S
      BY <3>2, ConcatProperties DEF S
    <3>4. from[p] = Step(from, p)
      BY <1>4, <2>2
    <3> QED BY <3>2, <3>3, <3>4
  <2> QED BY <2>1, <2>2
<1>6. \A p \in 1 .. n + 1 : p \in P
  <2> HIDE DEF P
  <2>1. n + 1 \in Nat
    BY <1>0
  <2> QED BY <1>5, <2>1, InductionFromTheEnd
<1>7. from \in [1 .. n + 1 -> S]
  <2> HIDE DEF S
  <2> QED BY <1>4, <1>6
<1>8. from[n + 1] = <<>>
  <2>1. n + 1 \in 1 .. n + 1 /\ n + 1 > n
    BY <1>0
  <2> HIDE DEF Step
  <2> QED BY <1>4, <2>1
<1>9. \A p \in 1 .. n : from[p] = Step(from, p)
  <2>1. \A p \in 1 .. n : p \in 1 .. n + 1 /\ ~(p > n)
    BY <1>0
  <2> HIDE DEF Step
  <2> QED BY <1>4, <2>1
<1> QED BY <1>1, <1>7, <1>8, <1>9 DEF TokensFrom, Token, End

\* The tokenizer's list has tokens only.
LEMMA TokenizedType ==
    ASSUME NEW chars \in Seq(Chars), NEW operators \in SUBSET Chars
    PROVE  Tokenized(chars, operators) \in Seq(TokensOf(operators))
<1>1. PICK f : TokensFrom(f, chars, operators)
  BY TokenizerRuns
<1>2. 1 \in 1 .. Len(chars) + 1
  OBVIOUS
<1> QED BY <1>1, <1>2 DEF TokensFrom

----------------------------------------------------------------------------
(* The invariant: after Enter, the tokens and the outcome are what the     *)
(* tokenizer and exec_command of the shell make of the line.               *)

Executed(shell, toks) ==
    CASE shell = "Shell_1" -> exec_command_1(toks)
      [] shell = "Shell_2" -> exec_command_2(toks)
      [] shell = "Shell_3" -> exec_command(toks)

IInv ==
    /\ program \in {"Shell_1", "Shell_2", "Shell_3"}
    /\ line \in Seq(Pieces)
    /\ outcome = Prompt => tokens = <<>>
    /\ outcome # Prompt =>
          /\ tokens = Tokenized(Characters, Operators[program])
          /\ outcome = Executed(program, tokens)

\* The operators of the three shells, one by one.
LEMMA OperatorsAre ==
    /\ DOMAIN Operators = {"Shell_1", "Shell_2", "Shell_3"}
    /\ Operators["Shell_1"] = {} /\ Operators["Shell_2"] = {"<", ">"}
    /\ Operators["Shell_3"] = {"<", ">", "|"}
    /\ \A shell \in {"Shell_1", "Shell_2", "Shell_3"} : Operators[shell] \in SUBSET Chars
  BY DEF Operators, Chars

\* Every step keeps the invariant.
LEMMA StepKeeps == IInv /\ [Next]_vars => IInv'
<1> SUFFICES ASSUME IInv, [Next]_vars PROVE IInv'
  OBVIOUS
<1>1. CASE UNCHANGED vars
  BY <1>1 DEF vars, IInv, Characters
<1>2. ASSUME NEW piece \in Pieces, Type(piece) PROVE IInv'
  <2>1. line' \in Seq(Pieces)
    BY <1>2 DEF Type, IInv
  <2> QED BY <1>2, <2>1 DEF Type, IInv
<1>3. CASE Enter
  <2>1. /\ program' = program /\ line' = line /\ Characters' = Characters
        /\ outcome = Prompt /\ program \in {"Shell_1", "Shell_2", "Shell_3"}
    BY <1>3 DEF Enter, IInv, Characters
  <2>2. tokens' = Tokenized(Characters, Operators[program]) /\ outcome' = Executed(program, tokens')
    <3>1. CASE program = "Shell_1"
      BY <1>3, <3>1 DEF Enter, tokenizer_init_1, Executed
    <3>2. CASE program = "Shell_2"
      BY <1>3, <3>2 DEF Enter, tokenizer_init_2, Executed
    <3>3. CASE program = "Shell_3"
      BY <1>3, <3>3 DEF Enter, tokenizer_init, Executed
    <3> QED BY <2>1, <3>1, <3>2, <3>3
  <2>3. outcome' # Prompt
    <3>1. "empty" # "prompt" /\ "refused" # "prompt" /\ "run" # "prompt"
      OBVIOUS
    <3>2. outcome'.kind \in {"empty", "refused", "run"}
      BY <2>1, <2>2 DEF Executed, exec_command_1, exec_command_2, exec_command
    <3> QED BY <3>1, <3>2 DEF Prompt
  <2> QED BY <2>1, <2>2, <2>3 DEF IInv, Prompt
<1>4. CASE get_user_line
  <2>1. <<>> \in Seq(Pieces)
    OBVIOUS
  <2> QED BY <1>4, <2>1 DEF get_user_line, IInv, Prompt
<1> QED BY <1>1, <1>2, <1>3, <1>4 DEF Next

(***************************************************************************)
(* The invariant holds in every reachable state.                           *)
(***************************************************************************)
THEOREM InvariantCorrect == Spec => []IInv
<1>1. Init => IInv
  BY OperatorsAre DEF Init, IInv, Prompt
<1> QED BY <1>1, StepKeeps, PTL DEF Spec

\* What the user types and the newline are characters of a line.
LEMMA CharactersType ==
    ASSUME line \in Seq(Pieces)
    PROVE  Characters \in Seq(Chars)
<1>1. FlattenSeq(line) \in Seq(Chars)
  <2>1. CASE Len(line) = 0
    <3>1. line = <<>>
      BY <2>1
    <3> QED BY <2>1, <3>1 DEF FlattenSeq
  <2>2. CASE Len(line) > 0
    <3>1. Pieces \subseteq Seq(Chars)
      <4>1. "<" \in Chars /\ ">" \in Chars /\ "|" \in Chars /\ "x" \in Chars /\ Space \in Chars
        BY DEF Chars
      <4>2. /\ <<"<">> \in Seq(Chars) /\ <<">">> \in Seq(Chars) /\ <<"|">> \in Seq(Chars)
            /\ <<"x">> \in Seq(Chars) /\ <<"x", Space>> \in Seq(Chars)
        BY <4>1
      <4> QED BY <4>2 DEF Pieces
    <3>2. line \in Seq(Seq(Chars))
      BY <3>1
    <3>3. PICK f \in [1 .. Len(line) -> Seq(Chars)] : FlattenSeq(line) = f[Len(line)]
      BY <2>2, <3>2, FlattenSteps
    <3>4. Len(line) \in 1 .. Len(line)
      BY <2>2
    <3> QED BY <3>3, <3>4
  <2> QED BY <2>1, <2>2
<1>2. <<Newline>> \in Seq(Chars)
  BY DEF Chars
<1> DEFINE t == FlattenSeq(line)
<1> HIDE DEF t
<1>3. t \o <<Newline>> \in Seq(Chars)
  <2>1. t \in Seq(Chars)
    BY <1>1 DEF t
  <2> QED BY <1>2, <2>1, ConcatProperties
<1> QED BY <1>3 DEF Characters, t

\* What the properties are about: a line that is not empty has been executed.
LEMMA Outcome ==
    ASSUME IInv, tokens # <<>>
    PROVE  /\ program \in {"Shell_1", "Shell_2", "Shell_3"}
           /\ tokens \in Seq(TokensOf(Operators[program]))
           /\ outcome = Executed(program, tokens)
<1>1. outcome # Prompt /\ program \in {"Shell_1", "Shell_2", "Shell_3"} /\ Characters \in Seq(Chars)
  BY CharactersType DEF IInv
<1>2. Operators[program] \in SUBSET Chars
  BY <1>1, OperatorsAre
<1>3. tokens = Tokenized(Characters, Operators[program]) /\ outcome = Executed(program, tokens)
  BY <1>1 DEF IInv
<1> QED BY <1>1, <1>2, <1>3, TokenizedType

----------------------------------------------------------------------------
(* The check of the redirections is a loop over the tokens.                *)

CheckStates == [first : BOOLEAN, found_out_file : BOOLEAN, ok : BOOLEAN]

CheckStart == [first |-> TRUE, found_out_file |-> FALSE, ok |-> TRUE]

CheckStep(s, t) ==
    [first |-> s.first /\ t.type # TK_PIPE,
     found_out_file |-> s.found_out_file \/ t.type = TK_OUTFILE,
     ok |-> /\ s.ok
            /\ t.type = TK_INFILE => s.first
            /\ t.type = TK_PIPE => ~s.found_out_file]

\* The variables of the loop, after each token.
CheckRuns(g, toks) ==
    /\ g \in [0 .. Len(toks) -> CheckStates]
    /\ g[0] = CheckStart
    /\ \A k \in 0 .. Len(toks) - 1 : g[k + 1] = CheckStep(g[k], toks[k + 1])

\* A turn of the check's loop leaves its three variables Boolean.
LEMMA CheckStepType ==
    ASSUME NEW s, NEW t
    PROVE  CheckStep(s, t) \in CheckStates
<1>1. (s.first /\ t.type # TK_PIPE) \in BOOLEAN
  OBVIOUS
<1>2. (s.found_out_file \/ t.type = TK_OUTFILE) \in BOOLEAN
  OBVIOUS
<1>3. (s.ok /\ (t.type = TK_INFILE => s.first) /\ (t.type = TK_PIPE => ~s.found_out_file)) \in BOOLEAN
  OBVIOUS
<1> QED BY <1>1, <1>2, <1>3 DEF CheckStep, CheckStates

\* The check's fold has a value after each token, and the last one is its answer.
LEMMA CheckIsALoop ==
    ASSUME NEW R, NEW toks \in Seq(R)
    PROVE  \E g : /\ CheckRuns(g, toks)
                  /\ check_input_output_redundant_redirections(toks) = g[Len(toks)].ok
<1> DEFINE n == Len(toks)
           S == CheckStates
           base == CheckStart
           step == [p \in S \X R |-> CheckStep(p[1], p[2])]
           IsFold(h) == h = [s \in SUBSET (1 .. n) |->
                                IF s = {} THEN base ELSE CheckStep(h[s \ {Max(s)}], toks[Max(s)])]
           iter == CHOOSE h : IsFold(h)
<1>0. n \in Nat /\ DOMAIN toks = 1 .. n /\ \A k \in 1 .. n : toks[k] \in R
  BY ElementOfSeq
<1>1. \A a \in S, d \in R : CheckStep(a, d) \in S /\ step[<<a, d>>] = CheckStep(a, d)
  BY CheckStepType
<1>2. step \in [S \X R -> S]
  BY CheckStepType
<1>3. base \in S /\ n <= Len(toks)
  BY <1>0 DEF CheckStart, CheckStates
<1>4. check_input_output_redundant_redirections(toks) = iter[1 .. n].ok
  BY <1>0 DEF check_input_output_redundant_redirections, FoldLeft, MapThenFoldSet, CheckStart, CheckStep
<1> HIDE DEF step, n, S, base
<1>5. \A s \in SUBSET (1 .. n) : s # {} => Max(s) \in s /\ s \ {Max(s)} \in SUBSET (1 .. n)
  <2> TAKE s \in SUBSET (1 .. n)
  <2> HAVE s # {}
  <2>1. s \in SUBSET Nat /\ \A m \in s : m <= n
    BY <1>0
  <2> QED BY <1>0, <2>1, Largest
<1>6. \E h : IsFold(h)
  <2>1. PICK h \in [SUBSET (1 .. n) -> S] : Folds(h, base, step, toks, n)
    BY <1>0, <1>2, <1>3, FoldsExist DEF n
  <2>2. ASSUME NEW s \in SUBSET (1 .. n), s # {}
        PROVE  step[<<h[s \ {Max(s)}], toks[Max(s)]>>] = CheckStep(h[s \ {Max(s)}], toks[Max(s)])
    <3>1. h[s \ {Max(s)}] \in S /\ toks[Max(s)] \in R
      BY <1>0, <1>5, <2>2
    <3> QED BY <1>1, <3>1
  <2> DEFINE e(s) == IF s = {} THEN base ELSE CheckStep(h[s \ {Max(s)}], toks[Max(s)])
  <2>3. \A s \in SUBSET (1 .. n) : h[s] = e(s)
    BY <2>1, <2>2 DEF Folds
  <2> HIDE DEF e
  <2>4. h = [s \in SUBSET (1 .. n) |-> e(s)]
    BY <2>1, <2>3
  <2>5. IsFold(h)
    BY <2>4 DEF e
  <2> HIDE DEF IsFold
  <2> QED BY <2>5
<1>7. IsFold(iter)
  BY <1>6, Zenon
<1> HIDE DEF iter
<1>8. iter[{}] = base
  BY <1>7
<1>9. ASSUME NEW s \in SUBSET (1 .. n), s # {}, iter[s \ {Max(s)}] \in S
      PROVE  iter[s] = step[<<iter[s \ {Max(s)}], toks[Max(s)]>>]
  <2>1. toks[Max(s)] \in R
    BY <1>0, <1>5, <1>9
  <2>2. iter[s] = CheckStep(iter[s \ {Max(s)}], toks[Max(s)])
    BY <1>7, <1>9
  <2> QED BY <1>1, <1>9, <2>1, <2>2
<1> HIDE DEF IsFold
<1>10. FoldsWithin(iter, S, base, step, toks)
  BY <1>8, <1>9 DEF FoldsWithin, n
<1>11. PICK g : Runs(g, S, base, step, toks) /\ iter[1 .. n] = g[n]
  <2>1. IsRunOf(iter[1 .. Len(toks)], S, base, step, toks)
    BY <1>2, <1>3, <1>10, FoldsRun
  <2> QED BY <2>1 DEF IsRunOf, n
<1>12. CheckRuns(g, toks)
  <2>1. ASSUME NEW k \in 0 .. Len(toks) - 1 PROVE g[k + 1] = CheckStep(g[k], toks[k + 1])
    <3>1. k \in 0 .. Len(toks) /\ k + 1 \in 1 .. n
      BY <1>0 DEF n
    <3>2. g[k] \in S /\ toks[k + 1] \in R
      BY <1>0, <1>11, <3>1 DEF Runs
    <3> QED BY <1>1, <1>11, <3>2 DEF Runs
  <2> QED BY <1>11, <2>1 DEF Runs, CheckRuns, S, base
<1> QED BY <1>4, <1>11, <1>12 DEF n

Positions(toks, type) == {i \in DOMAIN toks : toks[i].type = type}

(***************************************************************************)
(* What it checks: an input redirection has no pipe before it, and a pipe  *)
(* no output redirection.                                                  *)
(***************************************************************************)
LEMMA CheckOfRedirections ==
    ASSUME NEW R, NEW toks \in Seq(R)
    PROVE  check_input_output_redundant_redirections(toks) <=>
              /\ \A p \in Positions(toks, TK_PIPE), i \in Positions(toks, TK_INFILE) : ~(p < i)
              /\ \A i \in Positions(toks, TK_OUTFILE), p \in Positions(toks, TK_PIPE) : ~(i < p)
<1> DEFINE n == Len(toks)
           T(i) == toks[i].type
           Good(k) == /\ \A p \in 1 .. k, i \in 1 .. k : T(p) = TK_PIPE /\ T(i) = TK_INFILE => ~(p < i)
                      /\ \A i \in 1 .. k, p \in 1 .. k : T(i) = TK_OUTFILE /\ T(p) = TK_PIPE => ~(i < p)
<1>0. n \in Nat /\ DOMAIN toks = 1 .. n
  OBVIOUS
<1>1. PICK g : /\ CheckRuns(g, toks)
               /\ check_input_output_redundant_redirections(toks) = g[n].ok
  BY CheckIsALoop
<1> DEFINE Inv(k) == /\ g[k].first <=> \A p \in 1 .. k : T(p) # TK_PIPE
                     /\ g[k].found_out_file <=> \E p \in 1 .. k : T(p) = TK_OUTFILE
                     /\ g[k].ok <=> Good(k)
           P == {k \in 0 .. n : Inv(k)}
<1>2. 0 \in P
  BY <1>0, <1>1 DEF CheckRuns, CheckStart
<1>3. ASSUME NEW k \in 1 .. n, k - 1 \in P PROVE k \in P
  <2>1. k - 1 \in 0 .. n - 1 /\ (k - 1) + 1 = k /\ k \in 0 .. n
        /\ \A p : p \in 1 .. k <=> p \in 1 .. k - 1 \/ p = k
    BY <1>0
  <2>2. g[k] = CheckStep(g[k - 1], toks[k])
    BY <1>1, <2>1 DEF CheckRuns
  <2>3. /\ g[k].first <=> g[k - 1].first /\ T(k) # TK_PIPE
        /\ g[k].found_out_file <=> g[k - 1].found_out_file \/ T(k) = TK_OUTFILE
        /\ g[k].ok <=> /\ g[k - 1].ok
                       /\ T(k) = TK_INFILE => g[k - 1].first
                       /\ T(k) = TK_PIPE => ~g[k - 1].found_out_file
    <3> DEFINE s == g[k - 1]
               t == toks[k]
    <3>1. /\ CheckStep(s, t).first <=> s.first /\ t.type # TK_PIPE
          /\ CheckStep(s, t).found_out_file <=> s.found_out_file \/ t.type = TK_OUTFILE
          /\ CheckStep(s, t).ok <=>
                /\ s.ok
                /\ t.type = TK_INFILE => s.first
                /\ t.type = TK_PIPE => ~s.found_out_file
      <4> HIDE DEF s, t
      <4> QED BY Zenon DEF CheckStep
    <3> QED BY <2>2, <3>1
  <2>4. Inv(k - 1)
    BY <1>3
  <2> HIDE DEF T
  <2>5. Good(k) <=> /\ Good(k - 1)
                    /\ T(k) = TK_INFILE => \A p \in 1 .. k - 1 : T(p) # TK_PIPE
                    /\ T(k) = TK_PIPE => ~\E p \in 1 .. k - 1 : T(p) = TK_OUTFILE
    <3>1. \A p \in 1 .. k - 1 : p < k /\ ~(k < p)
      BY <1>0
    <3>2. ~(k < k)
      OBVIOUS
    <3> QED BY <2>1, <3>1, <3>2
  <2> HIDE DEF Good
  <2>6. Inv(k)
    BY <2>1, <2>3, <2>4, <2>5
  <2> QED BY <2>1, <2>6
<1> HIDE DEF P
<1>4. \A k \in 0 .. n : k \in P
  BY <1>0, <1>2, <1>3, BoundedInduction
<1>5. n \in P
  BY <1>0, <1>4
<1>6. g[n].ok <=> Good(n)
  BY <1>5 DEF P
<1> QED BY <1>0, <1>1, <1>6 DEF Positions

----------------------------------------------------------------------------
(* The grammar.                                                            *)

\* A finite set has at most one element when any two are equal.
LEMMA AtMostOne ==
    ASSUME NEW S, IsFiniteSet(S)
    PROVE  Cardinality(S) <= 1 <=> \A x, y \in S : x = y
<1>1. Cardinality(S) \in Nat
  BY FS_CardinalityType
<1>2. ASSUME NEW x \in S, NEW y \in S, x # y PROVE ~(Cardinality(S) <= 1)
  <2>1. IsFiniteSet({x}) /\ Cardinality({x}) = 1
    BY FS_Singleton
  <2>2. y \notin {x} /\ {x} \cup {y} \subseteq S
    BY <1>2
  <2>3. Cardinality({x} \cup {y}) = 1 + 1
    BY <2>1, <2>2, FS_AddElement
  <2>4. Cardinality({x} \cup {y}) <= Cardinality(S)
    BY <2>2, FS_Subset
  <2> QED BY <1>1, <2>3, <2>4
<1>3. ASSUME \A x, y \in S : x = y PROVE Cardinality(S) <= 1
  <2>1. CASE S = {}
    BY <2>1, FS_EmptySet
  <2>2. CASE S # {}
    <3>1. PICK x \in S : TRUE
      BY <2>2
    <3>2. S = {x}
      BY <1>3
    <3>3. Cardinality({x}) = 1
      BY FS_Singleton
    <3> QED BY <3>2, <3>3
  <2> QED BY <2>1, <2>2
<1> QED BY <1>2, <1>3

\* The tokens of a type are finitely many, and are those Has finds.
LEMMA PositionsFinite ==
    ASSUME NEW R, NEW toks \in Seq(R), NEW type
    PROVE  /\ DOMAIN toks = 1 .. Len(toks) /\ Len(toks) \in Nat
           /\ IsFiniteSet(Positions(toks, type)) /\ Positions(toks, type) \in SUBSET (1 .. Len(toks))
           /\ \A i : i \in Positions(toks, type) <=> Has(toks, i, type)
<1>1. DOMAIN toks = 1 .. Len(toks) /\ Len(toks) \in Nat
  OBVIOUS
<1>2. Positions(toks, type) \in SUBSET (1 .. Len(toks))
  BY <1>1 DEF Positions
<1>3. 1 \in Int /\ Len(toks) \in Int
  BY <1>1
<1>4. IsFiniteSet(1 .. Len(toks))
  BY <1>3, FS_Interval
<1>5. IsFiniteSet(Positions(toks, type))
  BY <1>2, <1>4, FS_Subset
<1> QED BY <1>1, <1>2, <1>5 DEF Positions, Has

\* The grammar of SyntaxIsTheGrammar, for any tokens.
WellFormed(toks) ==
    /\ \A i \in Positions(toks, TK_INFILE) \cup Positions(toks, TK_OUTFILE) :
          i + 1 \in Positions(toks, TK_WORD)
    /\ Cardinality(Positions(toks, TK_INFILE)) <= 1
    /\ Cardinality(Positions(toks, TK_OUTFILE)) <= 1
    /\ \A p \in Positions(toks, TK_PIPE) :
          /\ \A i \in Positions(toks, TK_INFILE) : i < p
          /\ \A i \in Positions(toks, TK_OUTFILE) : p < i
          /\ p + 1 \notin Positions(toks, TK_PIPE)

(***************************************************************************)
(* Counting in each command, with the check of the redirections, is        *)
(* counting in the line.                                                   *)
(***************************************************************************)
LEMMA CountsInCommands ==
    ASSUME NEW R, NEW toks \in Seq(R), NEW type \in Redirections,
           check_input_output_redundant_redirections(toks)
    PROVE  (\A i \in DOMAIN toks : Count(toks, type, i) <= 1)
               <=> Cardinality(Positions(toks, type)) <= 1
<1> DEFINE n == Len(toks)
           T(i) == {j \in 1 .. i : Has(toks, j, type) /\ \A k \in j .. i : ~Has(toks, k, TK_PIPE)}
<1>1. n \in Nat /\ DOMAIN toks = 1 .. n
  OBVIOUS
<1>2. \A i \in DOMAIN toks : Count(toks, type, i) = Cardinality(T(i)) /\ T(i) \subseteq Positions(toks, type)
  BY <1>1 DEF Count, Has, Positions
<1>3. IsFiniteSet(Positions(toks, type))
  BY PositionsFinite
<1>4. ASSUME Cardinality(Positions(toks, type)) <= 1, NEW i \in DOMAIN toks
      PROVE  Count(toks, type, i) <= 1
  <2>1. T(i) \subseteq Positions(toks, type) /\ Count(toks, type, i) = Cardinality(T(i))
    BY <1>2
  <2> HIDE DEF T
  <2>2. /\ IsFiniteSet(T(i)) /\ Cardinality(T(i)) <= Cardinality(Positions(toks, type))
        /\ Cardinality(T(i)) \in Nat /\ Cardinality(Positions(toks, type)) \in Nat
    BY <1>3, <2>1, FS_Subset, FS_CardinalityType
  <2> QED BY <1>4, <2>1, <2>2
<1>5. ASSUME \A i \in DOMAIN toks : Count(toks, type, i) <= 1
      PROVE  Cardinality(Positions(toks, type)) <= 1
  <2>1. ASSUME NEW j \in Positions(toks, type), NEW k \in Positions(toks, type), j < k
        PROVE  FALSE
    <3>1. j \in 1 .. n /\ k \in 1 .. n /\ k \in DOMAIN toks /\ Has(toks, j, type) /\ Has(toks, k, type)
      BY <1>1 DEF Positions, Has
    <3>2. \A p \in j .. k : ~Has(toks, p, TK_PIPE)
      <4> SUFFICES ASSUME NEW p \in j .. k, Has(toks, p, TK_PIPE) PROVE FALSE
        OBVIOUS
      <4>1. p \in Positions(toks, TK_PIPE)
        BY DEF Has, Positions
      <4>2. p # j /\ p # k
        BY <3>1 DEF Has, TK_PIPE, Redirections, TK_INFILE, TK_OUTFILE
      <4>3. j < p /\ p < k
        BY <3>1, <4>2
      <4>4. CASE type = TK_INFILE
        BY <2>1, <4>1, <4>3, <4>4, CheckOfRedirections
      <4>5. CASE type = TK_OUTFILE
        BY <2>1, <4>1, <4>3, <4>5, CheckOfRedirections
      <4> QED BY <4>4, <4>5 DEF Redirections
    <3>3. j \in T(k) /\ k \in T(k)
      <4>1. j \in 1 .. k /\ k \in 1 .. k /\ \A p \in k .. k : p \in j .. k
        BY <2>1, <3>1
      <4> QED BY <3>1, <3>2, <4>1
    <3>4. Cardinality(T(k)) <= 1 /\ IsFiniteSet(T(k))
      <4>1. T(k) \subseteq Positions(toks, type)
        BY <1>2, <3>1
      <4>2. Cardinality(T(k)) <= 1
        BY <1>2, <1>5, <3>1
      <4> HIDE DEF T
      <4> QED BY <1>3, <4>1, <4>2, FS_Subset
    <3> HIDE DEF T
    <3>5. j = k
      BY <3>3, <3>4, AtMostOne
    <3> QED BY <2>1, <3>1, <3>5
  <2>2. \A j, k \in Positions(toks, type) : j = k
    <3>1. \A j \in Positions(toks, type) : j \in Int
      BY <1>1 DEF Positions
    <3> QED BY <2>1, <3>1
  <2> QED BY <1>3, <2>2, AtMostOne
<1> QED BY <1>4, <1>5

\* Shell_3.
LEMMA CheckSyntax ==
    ASSUME NEW R, NEW toks \in Seq(R)
    PROVE  CHECK_SYNTAX(toks) <=> WellFormed(toks)
<1> DEFINE In == Positions(toks, TK_INFILE)
           Out == Positions(toks, TK_OUTFILE)
           Pipes == Positions(toks, TK_PIPE)
           Named == \A i \in In \cup Out : i + 1 \in Positions(toks, TK_WORD)
           Once == Cardinality(In) <= 1 /\ Cardinality(Out) <= 1
           Apart == \A p \in Pipes : p + 1 \notin Pipes
           Order == /\ \A p \in Pipes, i \in In : ~(p < i)
                    /\ \A i \in Out, p \in Pipes : ~(i < p)
<1>1. /\ DOMAIN toks = 1 .. Len(toks) /\ Len(toks) \in Nat
      /\ \A type : Positions(toks, type) \in SUBSET (1 .. Len(toks))
      /\ \A type, i : i \in Positions(toks, type) <=> Has(toks, i, type)
  BY PositionsFinite
<1>2. check_input_output_redundant_redirections(toks) <=> Order
  BY CheckOfRedirections
<1>3. check_double_pipe_symbol(toks) <=> Apart
  BY <1>1 DEF check_double_pipe_symbol
<1>4. Order => (check_commands_syntax(toks) <=> Named /\ Once)
  <2> SUFFICES ASSUME Order PROVE check_commands_syntax(toks) <=> Named /\ Once
    OBVIOUS
  <2>1. check_commands_syntax(toks) <=>
            /\ \A i \in DOMAIN toks : toks[i].type \in Redirections => Has(toks, i + 1, TK_WORD)
            /\ \A type \in Redirections : \A i \in DOMAIN toks : Count(toks, type, i) <= 1
    BY DEF check_commands_syntax
  <2>2. Named <=> \A i \in DOMAIN toks : toks[i].type \in Redirections => Has(toks, i + 1, TK_WORD)
    BY <1>1 DEF Redirections, Positions
  <2>3. \A type \in Redirections : (\A i \in DOMAIN toks : Count(toks, type, i) <= 1)
                                        <=> Cardinality(Positions(toks, type)) <= 1
    BY <1>2, CountsInCommands
  <2> HIDE DEF Order, Named
  <2> QED BY <2>1, <2>2, <2>3 DEF Redirections
<1>5. WellFormed(toks) <=> Named /\ Once /\ Apart /\ Order
  <2>1. \A p \in Pipes : (\A i \in In : i < p /\ i # p) <=> \A i \in In : ~(p < i) /\ i # p
    BY <1>1
  <2>2. \A p \in Pipes : (\A i \in Out : p < i /\ i # p) <=> \A i \in Out : ~(i < p) /\ i # p
    BY <1>1
  <2>3. \A p \in Pipes : p \notin In /\ p \notin Out
    BY DEF Positions, TK_PIPE, TK_INFILE, TK_OUTFILE
  <2> HIDE DEF In, Out, Pipes
  <2>4. \A p \in Pipes : ((\A i \in In : i < p) <=> \A i \in In : ~(p < i))
                         /\ ((\A i \in Out : p < i) <=> \A i \in Out : ~(i < p))
    BY <2>1, <2>2, <2>3
  <2> HIDE DEF Named, Once
  <2>5. WellFormed(toks) <=> Named /\ Once /\ \A p \in Pipes : /\ \A i \in In : i < p
                                                               /\ \A i \in Out : p < i
                                                               /\ p + 1 \notin Pipes
    BY DEF WellFormed, Named, Once, In, Out, Pipes
  <2> QED BY <2>4, <2>5
<1> HIDE DEF Order, Named, Apart, Once
<1> QED BY <1>2, <1>3, <1>4, <1>5 DEF CHECK_SYNTAX

\* Shell_2, which has no pipes.
LEMMA CorrectSyntax ==
    ASSUME NEW R, NEW toks \in Seq(R), Positions(toks, TK_PIPE) = {}
    PROVE  correct_syntax(toks) <=> WellFormed(toks)
<1>1. /\ DOMAIN toks = 1 .. Len(toks)
      /\ \A type, i : i \in Positions(toks, type) <=> Has(toks, i, type)
  BY PositionsFinite
<1>2. \A type : Positions(toks, type) = {i \in DOMAIN toks : Has(toks, i, type)}
  BY DEF Positions, Has
<1>3. (\A i \in Positions(toks, TK_INFILE) \cup Positions(toks, TK_OUTFILE) : i + 1 \in Positions(toks, TK_WORD))
         <=> \A i \in DOMAIN toks : toks[i].type \in Redirections => Has(toks, i + 1, TK_WORD)
  BY <1>1 DEF Positions, Redirections
<1>4. correct_syntax(toks) <=>
         /\ \A i \in DOMAIN toks : toks[i].type \in Redirections => Has(toks, i + 1, TK_WORD)
         /\ \A type \in Redirections : Cardinality(Positions(toks, type)) <= 1
  BY <1>2 DEF correct_syntax
<1> QED BY <1>3, <1>4 DEF WellFormed, Redirections

\* The file that is opened is the one named after the only operator.
LEMMA NamedFile ==
    ASSUME NEW R, NEW toks \in Seq(R), NEW type, Cardinality(Positions(toks, type)) <= 1,
           NEW i \in Positions(toks, type)
    PROVE  FileName(toks, type) = toks[i + 1].text /\ FileName_2(toks, type) = toks[i + 1].text
<1> DEFINE S == {j \in DOMAIN toks : Has(toks, j, type)}
<1>1. S = Positions(toks, type) /\ IsFiniteSet(S) /\ i \in Nat
  <2>1. S = Positions(toks, type)
    BY DEF Positions, Has
  <2>2. IsFiniteSet(Positions(toks, type)) /\ Positions(toks, type) \in SUBSET (1 .. Len(toks))
    BY PositionsFinite
  <2> HIDE DEF S
  <2> QED BY <2>1, <2>2
<1>2. S = {i}
  <2>1. \A x, y \in Positions(toks, type) : x = y
    BY <1>1, AtMostOne
  <2> HIDE DEF S
  <2> QED BY <1>1, <2>1
<1>3. exists_red(toks, type)
  BY <1>1 DEF exists_red
<1> HIDE DEF S
<1>4. Max(S) = i /\ Min(S) = i
  <2>0. S \in SUBSET Nat /\ S # {} /\ \A m \in S : m <= i
    BY <1>1, <1>2
  <2>1. Min(S) \in S
    BY <2>0, Least
  <2>2. Max(S) \in S
    BY <1>1, <2>0, Largest
  <2> QED BY <1>2, <2>1, <2>2
<1> QED BY <1>3, <1>4 DEF FileName, FileName_2, S

\* When a line is accepted, and which files are opened.
LEMMA Acceptance ==
    ASSUME IInv, tokens # <<>>
    PROVE  /\ Accepted <=> WellFormed(tokens)
           /\ Accepted /\ program # "Shell_1" =>
                 /\ outcome.in_file_name = (IF program = "Shell_2" THEN FileName_2(tokens, TK_INFILE)
                                            ELSE FileName(tokens, TK_INFILE))
                 /\ outcome.out_file_name = (IF program = "Shell_2" THEN FileName_2(tokens, TK_OUTFILE)
                                             ELSE FileName(tokens, TK_OUTFILE))
<1>1. /\ program \in {"Shell_1", "Shell_2", "Shell_3"}
      /\ tokens \in Seq(TokensOf(Operators[program])) /\ outcome = Executed(program, tokens)
  BY Outcome
<1>2. \A i \in DOMAIN tokens : tokens[i].type \in Operators[program] \cup {TK_WORD}
  <2>1. \A i \in DOMAIN tokens : tokens[i] \in TokensOf(Operators[program])
    BY <1>1
  <2> QED BY <2>1 DEF TokensOf
<1>3. CASE program = "Shell_1"
  <2>1. /\ Positions(tokens, TK_INFILE) = {} /\ Positions(tokens, TK_OUTFILE) = {}
        /\ Positions(tokens, TK_PIPE) = {}
    BY <1>2, <1>3, OperatorsAre DEF Positions, TK_WORD, TK_INFILE, TK_OUTFILE, TK_PIPE
  <2>2. WellFormed(tokens)
    BY <2>1, FS_EmptySet DEF WellFormed
  <2>3. Accepted
    BY <1>1, <1>3 DEF Executed, exec_command_1, Accepted
  <2> QED BY <1>3, <2>2, <2>3
<1>4. CASE program = "Shell_2"
  <2>1. Positions(tokens, TK_PIPE) = {}
    BY <1>2, <1>4, OperatorsAre DEF Positions, TK_WORD, TK_PIPE
  <2>2. correct_syntax(tokens) <=> WellFormed(tokens)
    BY <1>1, <2>1, CorrectSyntax
  <2>3. /\ outcome.kind = "run" <=> correct_syntax(tokens)
        /\ correct_syntax(tokens) => /\ outcome.in_file_name = FileName_2(tokens, TK_INFILE)
                                     /\ outcome.out_file_name = FileName_2(tokens, TK_OUTFILE)
    BY <1>1, <1>4 DEF Executed, exec_command_2
  <2> QED BY <1>4, <2>2, <2>3 DEF Accepted
<1>5. CASE program = "Shell_3"
  <2>1. CHECK_SYNTAX(tokens) <=> WellFormed(tokens)
    BY <1>1, CheckSyntax
  <2>2. /\ outcome.kind = "run" <=> CHECK_SYNTAX(tokens)
        /\ CHECK_SYNTAX(tokens) => /\ outcome.in_file_name = FileName(tokens, TK_INFILE)
                                   /\ outcome.out_file_name = FileName(tokens, TK_OUTFILE)
    BY <1>1, <1>5 DEF Executed, exec_command
  <2> QED BY <1>5, <2>1, <2>2 DEF Accepted
<1> QED BY <1>1, <1>3, <1>4, <1>5

(***************************************************************************)
(* CHECK_SYNTAX of Shell_3, correct_syntax of Shell_2 and Shell_1, which   *)
(* has no syntax, accept the lines of the grammar and no others, however   *)
(* long; and the files opened are those the line names.                    *)
(***************************************************************************)
THEOREM SyntaxCorrect == Spec => []SyntaxIsTheGrammar
<1>1. IInv => SyntaxIsTheGrammar
  <2> SUFFICES ASSUME IInv, tokens # <<>>
               PROVE  /\ Accepted <=> WellFormed(tokens)
                      /\ Accepted /\ program # "Shell_1" =>
                            /\ \A i \in Positions(tokens, TK_INFILE) :
                                  outcome.in_file_name = tokens[i + 1].text
                            /\ \A i \in Positions(tokens, TK_OUTFILE) :
                                  outcome.out_file_name = tokens[i + 1].text
    BY DEF SyntaxIsTheGrammar, WellFormed, Positions
  <2>1. Accepted <=> WellFormed(tokens)
    BY Acceptance
  <2> SUFFICES ASSUME Accepted, program # "Shell_1"
               PROVE  /\ \A i \in Positions(tokens, TK_INFILE) :
                            outcome.in_file_name = tokens[i + 1].text
                      /\ \A i \in Positions(tokens, TK_OUTFILE) :
                            outcome.out_file_name = tokens[i + 1].text
    BY <2>1
  <2>2. tokens \in Seq(TokensOf(Operators[program]))
    BY Outcome
  <2>3. Cardinality(Positions(tokens, TK_INFILE)) <= 1 /\ Cardinality(Positions(tokens, TK_OUTFILE)) <= 1
    BY <2>1 DEF WellFormed
  <2>4. ASSUME NEW i \in Positions(tokens, TK_INFILE) PROVE outcome.in_file_name = tokens[i + 1].text
    BY <2>2, <2>3, Acceptance, NamedFile
  <2>5. ASSUME NEW i \in Positions(tokens, TK_OUTFILE) PROVE outcome.out_file_name = tokens[i + 1].text
    BY <2>2, <2>3, Acceptance, NamedFile
  <2> QED BY <2>4, <2>5
<1> QED BY <1>1, InvariantCorrect, PTL

----------------------------------------------------------------------------
(* The argument lists.  The walk of ALLOCATE_ARGUMENTS, from each token to *)
(* the end, against the words that ArgumentsOfEachCommand counts.          *)

\* From token i on: the pipes before h, the words of the k-th command from i.
PipesUpTo(toks, i, h) == Cardinality({j \in i .. h - 1 : Has(toks, j, TK_PIPE)})

IsArgument(toks, h) ==
    toks[h].type = TK_WORD /\ ~\E type \in Redirections : Has(toks, h - 1, type)

WordsFrom(toks, i, k) ==
    {h \in i .. Len(toks) : IsArgument(toks, h) /\ PipesUpTo(toks, i, h) = k - 1}

Nth(i, S) == Cardinality({h \in S : h <= i})

\* The lists g that the walk makes from each token.
ListsFrom(g, toks) ==
    /\ \A i \in 1 .. Len(toks) + 2 : g[i] \in Seq(Seq(Seq(Chars))) /\ Len(g[i]) > 0
    /\ g[Len(toks) + 1] = << <<>> >>
    /\ \A i \in 1 .. Len(toks) :
          /\ toks[i].type \in Redirections => g[i] = g[i + 2]
          /\ toks[i].type = TK_PIPE => g[i] = << <<>> >> \o g[i + 1]
          /\ toks[i].type = TK_WORD => g[i] = [g[i + 1] EXCEPT ![1] = <<toks[i].text>> \o @]

\* A list is the words of a set of tokens, in order.
ListOf(list, toks, S) ==
    /\ Len(list) = Cardinality(S)
    /\ \A h \in S : list[Nth(h, S)] = toks[h].text

RightFrom(g, toks, i) ==
    /\ Len(g[i]) = 1 + PipesUpTo(toks, i, Len(toks) + 1)
    /\ \A k \in 1 .. Len(g[i]) : ListOf(g[i][k], toks, WordsFrom(toks, i, k))

\* No pipe lies between a place and one that is not after it.
LEMMA PipesOfNone ==
    ASSUME NEW toks, NEW i \in Nat, NEW h \in Nat, h <= i
    PROVE  PipesUpTo(toks, i, h) = 0
<1>1. {j \in i .. h - 1 : Has(toks, j, TK_PIPE)} = {}
  OBVIOUS
<1> QED BY <1>1, FS_EmptySet DEF PipesUpTo

\* Counting the pipes from one token earlier.
LEMMA PipesStep ==
    ASSUME NEW toks, NEW i \in Nat, NEW h \in Nat, i < h
    PROVE  /\ PipesUpTo(toks, i + 1, h) \in Nat
           /\ PipesUpTo(toks, i, h) =
                 PipesUpTo(toks, i + 1, h) + (IF Has(toks, i, TK_PIPE) THEN 1 ELSE 0)
<1> DEFINE T(k) == {j \in k .. h - 1 : Has(toks, j, TK_PIPE)}
<1>1. IsFiniteSet(T(i + 1)) /\ Cardinality(T(i + 1)) \in Nat
  <2>1. i + 1 \in Int /\ h - 1 \in Int
    OBVIOUS
  <2>2. IsFiniteSet(i + 1 .. h - 1)
    BY <2>1, FS_Interval
  <2>3. T(i + 1) \subseteq i + 1 .. h - 1
    OBVIOUS
  <2> HIDE DEF T
  <2>4. IsFiniteSet(T(i + 1))
    BY <2>2, <2>3, FS_Subset
  <2> QED BY <2>4, FS_CardinalityType
<1>2. CASE Has(toks, i, TK_PIPE)
  <2>1. T(i) = T(i + 1) \cup {i} /\ i \notin T(i + 1)
    BY <1>2
  <2> HIDE DEF T
  <2>2. Cardinality(T(i)) = Cardinality(T(i + 1)) + 1
    BY <1>1, <2>1, FS_AddElement
  <2> QED BY <1>1, <1>2, <2>2 DEF PipesUpTo, T
<1>3. CASE ~Has(toks, i, TK_PIPE)
  <2>1. T(i) = T(i + 1)
    BY <1>3
  <2>2. PipesUpTo(toks, i + 1, h) = Cardinality(T(i + 1)) /\ PipesUpTo(toks, i, h) = Cardinality(T(i))
    BY DEF PipesUpTo
  <2> HIDE DEF T
  <2> QED BY <1>1, <1>3, <2>1, <2>2
<1> QED BY <1>2, <1>3

\* A token that is no pipe and no argument changes nothing.
LEMMA NothingFrom ==
    ASSUME NEW toks, Len(toks) \in Nat, NEW i \in 1 .. Len(toks), ~Has(toks, i, TK_PIPE), ~IsArgument(toks, i)
    PROVE  /\ PipesUpTo(toks, i, Len(toks) + 1) = PipesUpTo(toks, i + 1, Len(toks) + 1)
           /\ \A k : WordsFrom(toks, i, k) = WordsFrom(toks, i + 1, k)
<1>1. \A h \in i + 1 .. Len(toks) + 1 : PipesUpTo(toks, i, h) = PipesUpTo(toks, i + 1, h)
  <2> TAKE h \in i + 1 .. Len(toks) + 1
  <2>1. i \in Nat /\ h \in Nat /\ i < h
    OBVIOUS
  <2>2. /\ PipesUpTo(toks, i + 1, h) \in Nat
        /\ PipesUpTo(toks, i, h) = PipesUpTo(toks, i + 1, h) + (IF Has(toks, i, TK_PIPE) THEN 1 ELSE 0)
    BY <2>1, PipesStep
  <2> QED BY <2>2
<1>2. /\ Len(toks) + 1 \in i + 1 .. Len(toks) + 1
      /\ \A h : h \in i .. Len(toks) <=> (h = i \/ h \in i + 1 .. Len(toks))
      /\ \A h \in i + 1 .. Len(toks) : h \in i + 1 .. Len(toks) + 1
  OBVIOUS
<1> QED BY <1>1, <1>2 DEF WordsFrom

\* A pipe begins a command.
LEMMA PipeFrom ==
    ASSUME NEW toks, Len(toks) \in Nat, NEW i \in 1 .. Len(toks), Has(toks, i, TK_PIPE)
    PROVE  /\ PipesUpTo(toks, i, Len(toks) + 1) = PipesUpTo(toks, i + 1, Len(toks) + 1) + 1
           /\ WordsFrom(toks, i, 1) = {}
           /\ \A k \in Nat : WordsFrom(toks, i, k + 1) = WordsFrom(toks, i + 1, k)
<1>1. \A h \in i + 1 .. Len(toks) + 1 : /\ PipesUpTo(toks, i + 1, h) \in Nat
                                        /\ PipesUpTo(toks, i, h) = PipesUpTo(toks, i + 1, h) + 1
  <2> TAKE h \in i + 1 .. Len(toks) + 1
  <2>1. i \in Nat /\ h \in Nat /\ i < h
    OBVIOUS
  <2> QED BY <2>1, PipesStep
<1>2. /\ Len(toks) + 1 \in i + 1 .. Len(toks) + 1
      /\ \A h : h \in i .. Len(toks) <=> (h = i \/ h \in i + 1 .. Len(toks))
      /\ \A h \in i + 1 .. Len(toks) : h \in i + 1 .. Len(toks) + 1
  OBVIOUS
<1>3. ~IsArgument(toks, i)
  BY DEF IsArgument, Has, TK_PIPE, TK_WORD
<1>4. \A h \in i + 1 .. Len(toks), k \in Nat :
          /\ PipesUpTo(toks, i, h) = (k + 1) - 1 <=> PipesUpTo(toks, i + 1, h) = k - 1
          /\ PipesUpTo(toks, i, h) # 1 - 1
  <2> TAKE h \in i + 1 .. Len(toks), k \in Nat
  <2>1. PipesUpTo(toks, i + 1, h) \in Nat /\ PipesUpTo(toks, i, h) = PipesUpTo(toks, i + 1, h) + 1
    BY <1>1, <1>2
  <2> QED BY <2>1
<1>5. WordsFrom(toks, i, 1) = {}
  BY <1>2, <1>3, <1>4 DEF WordsFrom
<1>6. \A k \in Nat : WordsFrom(toks, i, k + 1) = WordsFrom(toks, i + 1, k)
  BY <1>2, <1>3, <1>4 DEF WordsFrom
<1> QED BY <1>1, <1>2, <1>5, <1>6

\* An argument is one more word of the first command.
LEMMA ArgumentFrom ==
    ASSUME NEW toks, Len(toks) \in Nat, NEW i \in 1 .. Len(toks), IsArgument(toks, i)
    PROVE  /\ PipesUpTo(toks, i, Len(toks) + 1) = PipesUpTo(toks, i + 1, Len(toks) + 1)
           /\ WordsFrom(toks, i, 1) = WordsFrom(toks, i + 1, 1) \cup {i}
           /\ \A k \in Nat : k # 1 => WordsFrom(toks, i, k) = WordsFrom(toks, i + 1, k)
<1>1. ~Has(toks, i, TK_PIPE)
  BY DEF IsArgument, Has, TK_PIPE, TK_WORD
<1>2. \A h \in i + 1 .. Len(toks) + 1 : PipesUpTo(toks, i, h) = PipesUpTo(toks, i + 1, h)
  <2> TAKE h \in i + 1 .. Len(toks) + 1
  <2>1. i \in Nat /\ h \in Nat /\ i < h
    OBVIOUS
  <2>2. /\ PipesUpTo(toks, i + 1, h) \in Nat
        /\ PipesUpTo(toks, i, h) = PipesUpTo(toks, i + 1, h) + (IF Has(toks, i, TK_PIPE) THEN 1 ELSE 0)
    BY <2>1, PipesStep
  <2> QED BY <1>1, <2>2
<1>3. /\ Len(toks) + 1 \in i + 1 .. Len(toks) + 1
      /\ \A h : h \in i .. Len(toks) <=> (h = i \/ h \in i + 1 .. Len(toks))
      /\ \A h \in i + 1 .. Len(toks) : h \in i + 1 .. Len(toks) + 1
  OBVIOUS
<1>4. PipesUpTo(toks, i, i) = 0
  BY PipesOfNone
<1>5. \A k \in Nat : 0 = k - 1 <=> k = 1
  OBVIOUS
<1> QED BY <1>2, <1>3, <1>4, <1>5 DEF WordsFrom

\* The arguments of a command are finitely many tokens.
LEMMA WordsFinite ==
    ASSUME NEW toks, Len(toks) \in Nat, NEW i \in Nat, NEW k
    PROVE  IsFiniteSet(WordsFrom(toks, i, k)) /\ WordsFrom(toks, i, k) \in SUBSET (i .. Len(toks))
<1>1. i \in Int /\ Len(toks) \in Int
  OBVIOUS
<1>2. IsFiniteSet(i .. Len(toks))
  BY <1>1, FS_Interval
<1>3. WordsFrom(toks, i, k) \in SUBSET (i .. Len(toks))
  BY DEF WordsFrom
<1> QED BY <1>2, <1>3, FS_Subset

\* A word before all others makes a list longer by one at its head.
LEMMA ListGrows ==
    ASSUME NEW toks, NEW i \in Nat, NEW S, IsFiniteSet(S), \A h \in S : h \in Nat /\ i < h,
           NEW V, NEW list \in Seq(V), ListOf(list, toks, S), toks[i].text \in V
    PROVE  ListOf(<<toks[i].text>> \o list, toks, S \cup {i})
<1> DEFINE text == toks[i].text
           longer == <<text>> \o list
           Upto(h, T) == {x \in T : x <= h}
<1>1. Len(list) \in Nat /\ Len(longer) = Len(list) + 1 /\ longer[1] = text
      /\ \A m \in 1 .. Len(list) : longer[m + 1] = list[m]
  <2>1. <<text>> \in Seq(V) /\ Len(<<text>>) = 1 /\ <<text>>[1] = text /\ Len(list) \in Nat
    OBVIOUS
  <2> HIDE DEF text
  <2>2. /\ Len(<<text>> \o list) = 1 + Len(list)
        /\ \A m \in 1 .. 1 + Len(list) :
              (<<text>> \o list)[m] = IF m <= 1 THEN <<text>>[m] ELSE list[m - 1]
    BY <2>1, ConcatProperties
  <2>3. \A m \in 1 .. Len(list) : m + 1 \in 1 .. 1 + Len(list) /\ ~(m + 1 <= 1) /\ (m + 1) - 1 = m
    BY <2>1
  <2>4. 1 \in 1 .. 1 + Len(list)
    BY <2>1
  <2> QED BY <2>1, <2>2, <2>3, <2>4
<1>2. i \notin S
  OBVIOUS
<1>3. Cardinality(S \cup {i}) = Cardinality(S) + 1
  BY <1>2, FS_AddElement
<1>4. Nth(i, S \cup {i}) = 1
  <2>1. Upto(i, S \cup {i}) = {i}
    <3>1. i <= i /\ \A h \in S : ~(h <= i)
      OBVIOUS
    <3> QED BY <3>1
  <2>2. Cardinality({i}) = 1
    BY FS_Singleton
  <2> QED BY <2>1, <2>2 DEF Nth
<1>5. ASSUME NEW h \in S
      PROVE  Nth(h, S) \in 1 .. Len(list) /\ Nth(h, S \cup {i}) = Nth(h, S) + 1
  <2>1. /\ Upto(h, S) \subseteq S /\ h \in Upto(h, S) /\ i \notin Upto(h, S)
        /\ Upto(h, S \cup {i}) = Upto(h, S) \cup {i}
    BY <1>2
  <2>2. Nth(h, S) = Cardinality(Upto(h, S)) /\ Nth(h, S \cup {i}) = Cardinality(Upto(h, S \cup {i}))
    BY DEF Nth
  <2> HIDE DEF Upto
  <2>3. IsFiniteSet(Upto(h, S)) /\ Cardinality(Upto(h, S)) <= Cardinality(S)
        /\ Cardinality(Upto(h, S)) \in Nat
    BY <2>1, FS_Subset, FS_CardinalityType
  <2>4. Cardinality(Upto(h, S)) # 0
    BY <2>1, <2>3, FS_EmptySet
  <2>5. Cardinality(Upto(h, S \cup {i})) = Cardinality(Upto(h, S)) + 1
    <3> DEFINE U == Upto(h, S)
    <3>1. IsFiniteSet(U) /\ i \notin U
      BY <2>1, <2>3
    <3> HIDE DEF U
    <3>2. Cardinality(U \cup {i}) = Cardinality(U) + 1
      BY <3>1, FS_AddElement
    <3> QED BY <2>1, <3>2 DEF U
  <2>6. Len(list) = Cardinality(S)
    BY DEF ListOf
  <2> QED BY <1>1, <2>2, <2>3, <2>4, <2>5, <2>6
<1>6. \A h \in S : list[Nth(h, S)] = toks[h].text
  BY DEF ListOf
<1> HIDE DEF longer, text
<1>7. Len(longer) = Cardinality(S \cup {i})
  BY <1>1, <1>3 DEF ListOf
<1>8. \A h \in S \cup {i} : longer[Nth(h, S \cup {i})] = toks[h].text
  BY <1>1, <1>4, <1>5, <1>6 DEF text
<1> QED BY <1>7, <1>8 DEF ListOf, longer, text

\* No file name, which would be skipped.
Starts(toks, i) == ~\E type \in Redirections : Has(toks, i - 1, type)

\* The tokens of an accepted line, as far as the walk needs it.
Walkable(toks) ==
    /\ Len(toks) \in Nat /\ DOMAIN toks = 1 .. Len(toks)
    /\ \A i \in 1 .. Len(toks) :
          /\ toks[i].type \in {TK_WORD, TK_PIPE, TK_INFILE, TK_OUTFILE}
          /\ toks[i].text \in Seq(Chars)
          /\ toks[i].type \in Redirections => Has(toks, i + 1, TK_WORD)

\* A redirection: its operator and its name are no argument of any command.
LEMMA RightAtRedirection ==
    ASSUME NEW toks, NEW g, Walkable(toks), ListsFrom(g, toks), NEW i \in 1 .. Len(toks),
           \A j \in i + 1 .. Len(toks) + 1 : Starts(toks, j) => RightFrom(g, toks, j),
           toks[i].type \in Redirections
    PROVE  RightFrom(g, toks, i)
<1>1. /\ Len(toks) \in Nat /\ DOMAIN toks = 1 .. Len(toks) /\ Has(toks, i + 1, TK_WORD)
      /\ Has(toks, i, toks[i].type) /\ g[i] = g[i + 2]
  BY DEF Walkable, ListsFrom, Has
<1>2. i + 1 \in 1 .. Len(toks) /\ toks[i + 1].type = TK_WORD
      /\ i + 2 \in i + 1 .. Len(toks) + 1 /\ (i + 1) + 1 = i + 2 /\ (i + 1) - 1 = i /\ (i + 2) - 1 = i + 1
  BY <1>1 DEF Has
<1>3. /\ ~Has(toks, i, TK_PIPE) /\ ~IsArgument(toks, i)
      /\ ~Has(toks, i + 1, TK_PIPE) /\ ~IsArgument(toks, i + 1)
  <2>1. toks[i].type # TK_PIPE /\ toks[i].type # TK_WORD /\ TK_WORD # TK_PIPE
    BY DEF Redirections, TK_PIPE, TK_WORD, TK_INFILE, TK_OUTFILE
  <2> QED BY <1>1, <1>2, <2>1 DEF Has, IsArgument
<1>4. RightFrom(g, toks, i + 2)
  <2>1. Starts(toks, i + 2)
    BY <1>2 DEF Starts, Has, Redirections, TK_WORD, TK_INFILE, TK_OUTFILE
  <2> QED BY <1>2, <2>1
<1>5. /\ PipesUpTo(toks, i, Len(toks) + 1) = PipesUpTo(toks, i + 1, Len(toks) + 1)
      /\ \A k : WordsFrom(toks, i, k) = WordsFrom(toks, i + 1, k)
  BY <1>1, <1>3, NothingFrom
<1>6. /\ PipesUpTo(toks, i + 1, Len(toks) + 1) = PipesUpTo(toks, i + 2, Len(toks) + 1)
      /\ \A k : WordsFrom(toks, i + 1, k) = WordsFrom(toks, i + 2, k)
  <2>1. /\ PipesUpTo(toks, i + 1, Len(toks) + 1) = PipesUpTo(toks, (i + 1) + 1, Len(toks) + 1)
        /\ \A k : WordsFrom(toks, i + 1, k) = WordsFrom(toks, (i + 1) + 1, k)
    BY <1>1, <1>2, <1>3, NothingFrom
  <2> QED BY <1>2, <2>1
<1> QED BY <1>1, <1>4, <1>5, <1>6 DEF RightFrom

\* A pipe: a new command begins, with no argument, before those that follow.
LEMMA RightAtPipe ==
    ASSUME NEW toks, NEW g, Walkable(toks), ListsFrom(g, toks), NEW i \in 1 .. Len(toks),
           RightFrom(g, toks, i + 1), toks[i].type = TK_PIPE
    PROVE  RightFrom(g, toks, i)
<1> DEFINE rest == g[i + 1]
           V == Seq(Seq(Chars))
<1>1. /\ Len(toks) \in Nat /\ Has(toks, i, TK_PIPE) /\ g[i] = << <<>> >> \o rest
      /\ rest \in Seq(V) /\ Len(rest) \in Nat /\ i + 1 \in 1 .. Len(toks) + 2
  <2>1. Len(toks) \in Nat /\ Has(toks, i, TK_PIPE) /\ i + 1 \in 1 .. Len(toks) + 2
    BY DEF Walkable, Has
  <2>2. rest \in Seq(V)
    BY <2>1 DEF ListsFrom
  <2>3. g[i] = << <<>> >> \o rest
    BY DEF ListsFrom, TK_PIPE
  <2> HIDE DEF rest
  <2> QED BY <2>1, <2>2, <2>3
<1>2. Len(g[i]) = Len(rest) + 1 /\ g[i][1] = <<>> /\ \A k \in 2 .. Len(rest) + 1 : g[i][k] = rest[k - 1]
  <2> DEFINE first == << <<>> >>
  <2>1. first \in Seq(V) /\ Len(first) = 1 /\ first[1] = <<>>
    OBVIOUS
  <2> HIDE DEF first, rest, V
  <2>2. /\ Len(first \o rest) = 1 + Len(rest)
        /\ \A k \in 1 .. 1 + Len(rest) : (first \o rest)[k] = IF k <= 1 THEN first[k] ELSE rest[k - 1]
    <3>1. first \in Seq(V) /\ rest \in Seq(V) /\ Len(first) = 1
      BY <1>1, <2>1
    <3>2. /\ Len(first \o rest) = Len(first) + Len(rest)
          /\ \A k \in 1 .. Len(first) + Len(rest) :
                (first \o rest)[k] = IF k <= Len(first) THEN first[k] ELSE rest[k - Len(first)]
      BY ONLY <3>1, ConcatProperties
    <3> QED BY <3>1, <3>2
  <2>3. 1 \in 1 .. 1 + Len(rest) /\ \A k \in 2 .. Len(rest) + 1 : k \in 1 .. 1 + Len(rest) /\ ~(k <= 1)
    BY <1>1
  <2> QED BY <1>1, <2>1, <2>2, <2>3 DEF first
<1>3. /\ PipesUpTo(toks, i, Len(toks) + 1) = PipesUpTo(toks, i + 1, Len(toks) + 1) + 1
      /\ WordsFrom(toks, i, 1) = {}
      /\ \A k \in Nat : WordsFrom(toks, i, k + 1) = WordsFrom(toks, i + 1, k)
  BY <1>1, PipeFrom
<1>4. Len(rest) = 1 + PipesUpTo(toks, i + 1, Len(toks) + 1)
      /\ \A k \in 1 .. Len(rest) : ListOf(rest[k], toks, WordsFrom(toks, i + 1, k))
  BY DEF RightFrom
<1> HIDE DEF rest
<1>5. Len(g[i]) = 1 + PipesUpTo(toks, i, Len(toks) + 1)
  <2>1. PipesUpTo(toks, i + 1, Len(toks) + 1) \in Nat
    <3>1. i \in Nat /\ Len(toks) + 1 \in Nat /\ i < Len(toks) + 1
      BY <1>1
    <3> QED BY <3>1, PipesStep
  <2> QED BY <1>1, <1>2, <1>3, <1>4, <2>1
<1>6. ASSUME NEW k \in 1 .. Len(g[i]) PROVE ListOf(g[i][k], toks, WordsFrom(toks, i, k))
  <2>1. CASE k = 1
    <3>1. Len(<<>>) = 0 /\ Cardinality({}) = 0
      BY FS_EmptySet
    <3> QED BY <1>2, <1>3, <2>1, <3>1 DEF ListOf
  <2>2. CASE k # 1
    <3>1. k \in 2 .. Len(rest) + 1 /\ k - 1 \in 1 .. Len(rest) /\ k - 1 \in Nat /\ (k - 1) + 1 = k
      BY <1>1, <1>2, <2>2
    <3>2. WordsFrom(toks, i, k) = WordsFrom(toks, i + 1, k - 1)
      <4>1. WordsFrom(toks, i, (k - 1) + 1) = WordsFrom(toks, i + 1, k - 1)
        BY <1>3, <3>1
      <4> QED BY <3>1, <4>1
    <3> QED BY <1>2, <1>4, <3>1, <3>2
  <2> QED BY <2>1, <2>2
<1> QED BY <1>5, <1>6 DEF RightFrom

\* A word that is an argument goes in front of the first of the lists that follow.
LEMMA RightAtArgument ==
    ASSUME NEW toks, NEW g, Walkable(toks), ListsFrom(g, toks), NEW i \in 1 .. Len(toks),
           RightFrom(g, toks, i + 1), toks[i].type = TK_WORD, Starts(toks, i)
    PROVE  RightFrom(g, toks, i)
<1> DEFINE rest == g[i + 1]
           V == Seq(Chars)
           text == toks[i].text
           S == WordsFrom(toks, i + 1, 1)
<1>1. /\ Len(toks) \in Nat /\ IsArgument(toks, i) /\ g[i] = [rest EXCEPT ![1] = <<text>> \o @]
      /\ rest \in Seq(Seq(V)) /\ Len(rest) \in Nat /\ 1 \in 1 .. Len(rest) /\ text \in V
  <2>1. Len(toks) \in Nat /\ IsArgument(toks, i) /\ i + 1 \in 1 .. Len(toks) + 2 /\ text \in V
    BY DEF Walkable, IsArgument, Starts
  <2>2. rest \in Seq(Seq(V)) /\ Len(rest) > 0
    BY <2>1 DEF ListsFrom
  <2>3. g[i] = [rest EXCEPT ![1] = <<text>> \o @]
    BY DEF ListsFrom, TK_WORD
  <2> HIDE DEF rest, V, text
  <2> QED BY <2>1, <2>2, <2>3
<1>2. /\ PipesUpTo(toks, i, Len(toks) + 1) = PipesUpTo(toks, i + 1, Len(toks) + 1)
      /\ WordsFrom(toks, i, 1) = S \cup {i}
      /\ \A k \in Nat : k # 1 => WordsFrom(toks, i, k) = WordsFrom(toks, i + 1, k)
  BY <1>1, ArgumentFrom
<1>3. Len(rest) = 1 + PipesUpTo(toks, i + 1, Len(toks) + 1)
      /\ \A k \in 1 .. Len(rest) : ListOf(rest[k], toks, WordsFrom(toks, i + 1, k))
  BY DEF RightFrom
<1> HIDE DEF rest, V
<1>4. /\ Len(g[i]) = Len(rest) /\ g[i][1] = <<text>> \o rest[1]
      /\ \A k \in 1 .. Len(rest) : k # 1 => g[i][k] = rest[k]
  <2> HIDE DEF text
  <2>1. DOMAIN g[i] = DOMAIN rest /\ DOMAIN rest = 1 .. Len(rest)
    BY <1>1
  <2>2. \A k \in 1 .. Len(rest) : g[i][k] = IF k = 1 THEN <<text>> \o rest[1] ELSE rest[k]
    BY <1>1, <2>1
  <2>3. Len(g[i]) = Len(rest)
    BY <1>1, <2>1
  <2> QED BY <1>1, <2>2, <2>3
<1>5. ListOf(<<text>> \o rest[1], toks, S \cup {i})
  <2>1. IsFiniteSet(S) /\ \A h \in S : h \in Nat /\ i < h
    <3>1. i + 1 \in Nat
      OBVIOUS
    <3>2. IsFiniteSet(S) /\ S \in SUBSET (i + 1 .. Len(toks))
      BY <1>1, <3>1, WordsFinite
    <3> HIDE DEF S
    <3> QED BY <1>1, <3>2
  <2>2. rest[1] \in Seq(V)
    BY <1>1
  <2>3. ListOf(rest[1], toks, S)
    BY <1>1, <1>3
  <2>4. i \in Nat /\ toks[i].text \in V
    BY <1>1
  <2> HIDE DEF S
  <2> QED BY ONLY <2>1, <2>2, <2>3, <2>4, ListGrows
<1>6. ASSUME NEW k \in 1 .. Len(g[i]) PROVE ListOf(g[i][k], toks, WordsFrom(toks, i, k))
  <2>1. CASE k = 1
    BY <1>2, <1>4, <1>5, <2>1
  <2>2. CASE k # 1
    BY <1>2, <1>3, <1>4, <2>2
  <2> QED BY <2>1, <2>2
<1>7. Len(g[i]) = 1 + PipesUpTo(toks, i, Len(toks) + 1)
  BY <1>2, <1>3, <1>4
<1> QED BY <1>6, <1>7 DEF RightFrom
(***************************************************************************)
(* The walk from the first token finds the words of every command.         *)
(***************************************************************************)
LEMMA WalkIsRight ==
    ASSUME NEW toks, NEW g, Walkable(toks), ListsFrom(g, toks)
    PROVE  RightFrom(g, toks, 1)
<1> DEFINE m == Len(toks) + 1
           P == {i \in 1 .. m : Starts(toks, i) => RightFrom(g, toks, i)}
<1>1. Len(toks) \in Nat /\ m \in Nat /\ DOMAIN toks = 1 .. Len(toks)
  BY DEF Walkable
<1>2. ASSUME NEW i \in 1 .. m, \A j \in i + 1 .. m : j \in P PROVE i \in P
  <2> SUFFICES ASSUME Starts(toks, i) PROVE RightFrom(g, toks, i)
    OBVIOUS
  <2>1. CASE i = m
    <3>1. g[i] = << <<>> >>
      BY <2>1 DEF ListsFrom
    <3>2. Len(g[i]) = 1 /\ g[i][1] = <<>>
      BY <3>1
    <3>3. PipesUpTo(toks, i, Len(toks) + 1) = 0
      BY <1>1, <2>1, PipesOfNone
    <3>4. WordsFrom(toks, i, 1) = {}
      BY <1>1, <2>1 DEF WordsFrom
    <3>5. ListOf(<<>>, toks, {})
      BY FS_EmptySet DEF ListOf
    <3> QED BY <3>2, <3>3, <3>4, <3>5 DEF RightFrom
  <2>2. CASE i # m
    <3>1. i \in 1 .. Len(toks) /\ i + 1 \in i + 1 .. m
      BY <1>1, <2>2
    <3>2. toks[i].type \in {TK_WORD, TK_PIPE, TK_INFILE, TK_OUTFILE}
      BY <3>1 DEF Walkable
    <3>3. \A j \in i + 1 .. m : Starts(toks, j) => RightFrom(g, toks, j)
      BY <1>2
    <3>4. toks[i].type \notin Redirections => Starts(toks, i + 1)
      <4>1. (i + 1) - 1 = i
        BY <3>1
      <4> QED BY <4>1 DEF Starts, Has
    <3>5. CASE toks[i].type \in Redirections
      BY <3>1, <3>3, <3>5, RightAtRedirection
    <3>6. CASE toks[i].type = TK_PIPE
      <4>1. TK_PIPE \notin Redirections
        BY DEF TK_PIPE, Redirections, TK_INFILE, TK_OUTFILE
      <4> QED BY <3>1, <3>3, <3>4, <3>6, <4>1, RightAtPipe
    <3>7. CASE toks[i].type = TK_WORD
      <4>1. TK_WORD \notin Redirections
        BY DEF TK_WORD, Redirections, TK_INFILE, TK_OUTFILE
      <4> QED BY <3>1, <3>3, <3>4, <3>7, <4>1, RightAtArgument
    <3> QED BY <3>2, <3>5, <3>6, <3>7 DEF Redirections
  <2> QED BY <2>1, <2>2
<1> HIDE DEF P
<1>3. 1 \in 1 .. m /\ \A i \in 1 .. m : i \in P
  <2>1. \A i \in 1 .. m : i \in P
    BY <1>1, <1>2, InductionFromTheEnd
  <2> QED BY <1>1, <2>1
<1>4. Starts(toks, 1)
  <2>1. 1 - 1 \notin DOMAIN toks
    BY <1>1
  <2> QED BY <2>1 DEF Starts, Has
<1> QED BY <1>3, <1>4 DEF P

\* ALLOCATE_ARGUMENTS of Shell_3 is such a walk.
LEMMA WalkOfShell3 ==
    ASSUME NEW toks, Walkable(toks)
    PROVE  \E g : ListsFrom(g, toks) /\ ALLOCATE_ARGUMENTS(toks) = g[1]
<1> DEFINE n == Len(toks)
           m == Len(toks) + 2
           S == {s \in Seq(Seq(Seq(Chars))) : Len(s) > 0}
           After(i) == IF toks[i].type \in Redirections THEN SKIP_FILES(toks, i) ELSE i + 1
           Made(i, rest) == CASE toks[i].type \in Redirections -> rest
                              [] toks[i].type = TK_PIPE        -> << <<>> >> \o rest
                              [] toks[i].type = TK_WORD        -> [rest EXCEPT ![1] = <<toks[i].text>> \o @]
           IsFrom(f) == f = [i \in 1 .. m |-> IF i > n THEN << <<>> >> ELSE Made(i, f[After(i)])]
           from == CHOOSE f : IsFrom(f)
<1>0. /\ n \in Nat /\ m \in Nat /\ n <= m /\ m = n + 2
      /\ \A i \in 1 .. n : /\ toks[i].type \in {TK_WORD, TK_PIPE, TK_INFILE, TK_OUTFILE}
                           /\ toks[i].text \in Seq(Chars)
  BY DEF Walkable
<1>1. ALLOCATE_ARGUMENTS(toks) = from[1]
  BY Zenon DEF ALLOCATE_ARGUMENTS
<1>2. \A i \in 1 .. n : After(i) \in 1 .. m /\ i < After(i)
  BY <1>0 DEF SKIP_FILES
<1>3. << <<>> >> \in S
  OBVIOUS
<1>4. ASSUME NEW i \in 1 .. n, NEW rest \in S PROVE Made(i, rest) \in S
  <2>1. rest \in Seq(Seq(Seq(Chars))) /\ Len(rest) > 0 /\ Len(rest) \in Nat /\ 1 \in 1 .. Len(rest)
    OBVIOUS
  <2>2. << <<>> >> \o rest \in S
    <3> DEFINE V == Seq(Seq(Chars))
               first == << <<>> >>
    <3>1. first \in Seq(V) /\ Len(first) = 1 /\ rest \in Seq(V)
      BY <2>1
    <3> HIDE DEF V, first
    <3>2. first \o rest \in Seq(V) /\ Len(first \o rest) = Len(first) + Len(rest)
      BY ONLY <3>1, ConcatProperties
    <3> QED BY <2>1, <3>1, <3>2 DEF V, first
  <2>3. [rest EXCEPT ![1] = <<toks[i].text>> \o @] \in S
    <3> DEFINE V == Seq(Chars)
               x == <<toks[i].text>> \o rest[1]
    <3>1. <<toks[i].text>> \in Seq(V) /\ rest[1] \in Seq(V) /\ rest \in Seq(Seq(V))
      BY <1>0, <2>1
    <3> HIDE DEF V
    <3>2. x \in Seq(V)
      BY ONLY <3>1, ConcatProperties
    <3> HIDE DEF x
    <3>3. [rest EXCEPT ![1] = x] \in Seq(Seq(V)) /\ Len([rest EXCEPT ![1] = x]) = Len(rest)
      BY <2>1, <3>1, <3>2
    <3> QED BY <2>1, <3>3 DEF V, x
  <2>4. /\ TK_PIPE \notin Redirections /\ TK_WORD \notin Redirections /\ TK_WORD # TK_PIPE
        /\ toks[i].type \in {TK_WORD, TK_PIPE} \cup Redirections
    BY <1>0 DEF TK_PIPE, TK_WORD, Redirections, TK_INFILE, TK_OUTFILE
  <2> HIDE DEF S
  <2> QED BY <2>2, <2>3, <2>4
<1> HIDE DEF After, Made
<1>5. \E f \in [1 .. m -> S] : IsFrom(f)
  <2> DEFINE next == [i \in 1 .. n |-> After(i)]
             step == [x \in (1 .. n) \X S |-> Made(x[1], x[2])]
             base == << <<>> >>
  <2>1. next \in [1 .. n -> 1 .. m] /\ \A i \in 1 .. n : i < next[i]
    BY <1>2
  <2> HIDE DEF S
  <2>2. step \in [(1 .. n) \X S -> S]
    BY <1>4
  <2>3. \A i \in 1 .. n, v \in S : step[<<i, v>>] = Made(i, v)
    OBVIOUS
  <2>4. base \in S
    BY <1>3
  <2> HIDE DEF step, base
  <2>5. PICK f \in [1 .. m -> S] : FromTheEnd(f, m, n, base, next, step)
    <3> HIDE DEF next, m, n
    <3> QED BY <1>0, <2>1, <2>2, <2>4, RecursionFromTheEnd
  <2>6. ASSUME NEW i \in 1 .. m
        PROVE  (IF i > n THEN base ELSE step[<<i, f[next[i]]>>])
                   = IF i > n THEN << <<>> >> ELSE Made(i, f[After(i)])
    <3>1. CASE i > n
      BY <3>1 DEF base
    <3>2. CASE ~(i > n)
      <4>1. i \in 1 .. n
        BY <1>0, <3>2
      <4>2. next[i] = After(i) /\ f[next[i]] \in S
        BY <2>1, <2>5, <4>1
      <4> HIDE DEF next
      <4> QED BY <2>3, <3>2, <4>1, <4>2
    <3> QED BY <3>1, <3>2
  <2> HIDE DEF next
  <2>7. IsFrom(f)
    BY <2>5, <2>6 DEF FromTheEnd
  <2> QED BY <2>5, <2>7
<1>6. IsFrom(from)
  BY <1>5, Zenon
<1> HIDE DEF from
<1>7. /\ DOMAIN from = 1 .. m /\ from = [i \in 1 .. m |-> from[i]]
      /\ \A i \in 1 .. m : from[i] = IF i > n THEN << <<>> >> ELSE Made(i, from[After(i)])
  BY <1>6
<1> DEFINE P == {i \in 1 .. m : from[i] \in S}
<1>8. ASSUME NEW i \in 1 .. m, \A j \in i + 1 .. m : j \in P PROVE i \in P
  <2> HIDE DEF S
  <2>1. CASE i > n
    BY <1>3, <1>7, <2>1
  <2>2. CASE ~(i > n)
    <3>1. i \in 1 .. n /\ After(i) \in i + 1 .. m
      BY <1>0, <1>2, <2>2
    <3>2. from[After(i)] \in S
      BY <1>8, <3>1
    <3> QED BY <1>4, <1>7, <2>2, <3>1, <3>2
  <2> QED BY <2>1, <2>2
<1>9. \A i \in 1 .. m : from[i] \in S
  <2> HIDE DEF P
  <2>1. \A i \in 1 .. m : i \in P
    BY <1>0, <1>8, InductionFromTheEnd
  <2> QED BY <2>1 DEF P
<1>10. from[n + 1] = << <<>> >>
  <2>1. n + 1 \in 1 .. m /\ n + 1 > n
    BY <1>0
  <2> QED BY <1>7, <2>1
<1>11. ASSUME NEW i \in 1 .. n
       PROVE  /\ toks[i].type \in Redirections => from[i] = from[i + 2]
              /\ toks[i].type = TK_PIPE => from[i] = << <<>> >> \o from[i + 1]
              /\ toks[i].type = TK_WORD => from[i] = [from[i + 1] EXCEPT ![1] = <<toks[i].text>> \o @]
  <2>1. i \in 1 .. m /\ ~(i > n)
    BY <1>0
  <2>2. from[i] = Made(i, from[After(i)])
    BY <1>7, <2>1
  <2>3. TK_PIPE \notin Redirections /\ TK_WORD \notin Redirections /\ TK_WORD # TK_PIPE
    BY DEF TK_PIPE, TK_WORD, Redirections, TK_INFILE, TK_OUTFILE
  <2> HIDE DEF from
  <2>4. CASE toks[i].type \in Redirections
    BY <2>2, <2>3, <2>4 DEF Made, After, SKIP_FILES
  <2>5. CASE toks[i].type = TK_PIPE
    BY <2>2, <2>3, <2>5 DEF Made, After
  <2>6. CASE toks[i].type = TK_WORD
    BY <2>2, <2>3, <2>6 DEF Made, After
  <2> QED BY <2>3, <2>4, <2>5, <2>6
<1>12. ListsFrom(from, toks)
  BY <1>9, <1>10, <1>11 DEF ListsFrom
<1> QED BY <1>1, <1>12

\* The loop of Shell_2, which has one command, is too.
LEMMA WalkOfShell2 ==
    ASSUME NEW toks, Walkable(toks), \A i \in 1 .. Len(toks) : toks[i].type # TK_PIPE
    PROVE  \E g : ListsFrom(g, toks) /\ <<ALLOCATE_ARGUMENTS_2(toks)>> = g[1]
<1> DEFINE n == Len(toks)
           m == Len(toks) + 2
           S == Seq(Seq(Chars))
           Skips(i) == toks[i].type \in Redirections
           After(i) == IF Skips(i) THEN SKIP_FILES(toks, i) ELSE i + 1
           Made(i, rest) == IF Skips(i) THEN rest ELSE <<toks[i].text>> \o rest
           IsFrom(f) == f = [i \in 1 .. m |->
                                IF i > n THEN <<>>
                                ELSE IF Skips(i) THEN f[SKIP_FILES(toks, i)]
                                ELSE <<toks[i].text>> \o f[i + 1]]
           from == CHOOSE f : IsFrom(f)
<1>0. /\ n \in Nat /\ m \in Nat /\ n <= m /\ m = n + 2
      /\ \A i \in 1 .. n : /\ toks[i].type \in {TK_WORD, TK_INFILE, TK_OUTFILE}
                           /\ toks[i].text \in Seq(Chars)
  BY DEF Walkable
<1>1. ALLOCATE_ARGUMENTS_2(toks) = from[1]
  BY Zenon DEF ALLOCATE_ARGUMENTS_2
<1>2. \A i \in 1 .. n : After(i) \in 1 .. m /\ i < After(i)
  BY <1>0 DEF SKIP_FILES
<1>3. <<>> \in S
  OBVIOUS
<1>4. ASSUME NEW i \in 1 .. n, NEW rest \in S PROVE Made(i, rest) \in S
  <2> DEFINE V == Seq(Chars)
  <2>1. <<toks[i].text>> \in Seq(V) /\ rest \in Seq(V)
    BY <1>0
  <2> HIDE DEF V
  <2>2. <<toks[i].text>> \o rest \in Seq(V)
    BY ONLY <2>1, ConcatProperties
  <2> QED BY <2>2 DEF V
<1>5. ASSUME NEW f, NEW i \in 1 .. n
      PROVE  (IF Skips(i) THEN f[SKIP_FILES(toks, i)] ELSE <<toks[i].text>> \o f[i + 1])
                 = Made(i, f[After(i)])
  OBVIOUS
<1>6. IsFrom(from) /\ \A i \in 1 .. m : from[i] \in S
  <2> HIDE DEF Made, After
  <2>1. \E f \in [1 .. m -> S] : IsFrom(f)
    <3> DEFINE next == [i \in 1 .. n |-> After(i)]
               step == [x \in (1 .. n) \X S |-> Made(x[1], x[2])]
               base == <<>>
    <3>1. next \in [1 .. n -> 1 .. m] /\ \A i \in 1 .. n : i < next[i]
      BY <1>2
    <3> HIDE DEF S
    <3>2. step \in [(1 .. n) \X S -> S]
      BY <1>4
    <3>3. \A i \in 1 .. n, v \in S : step[<<i, v>>] = Made(i, v)
      OBVIOUS
    <3>4. base \in S
      BY <1>3
    <3> HIDE DEF step, base
    <3>5. PICK f \in [1 .. m -> S] : FromTheEnd(f, m, n, base, next, step)
      <4> HIDE DEF next, m, n
      <4> QED BY <1>0, <3>1, <3>2, <3>4, RecursionFromTheEnd
    <3> DEFINE e(i) == IF i > n THEN <<>>
                       ELSE IF Skips(i) THEN f[SKIP_FILES(toks, i)]
                       ELSE <<toks[i].text>> \o f[i + 1]
    <3>6. ASSUME NEW i \in 1 .. m
          PROVE  (IF i > n THEN base ELSE step[<<i, f[next[i]]>>]) = e(i)
      <4>1. CASE i > n
        BY <4>1 DEF base
      <4>2. CASE ~(i > n)
        <5>1. i \in 1 .. n
          BY <1>0, <4>2
        <5>2. next[i] = After(i) /\ f[next[i]] \in S
          BY <3>1, <3>5, <5>1
        <5>3. e(i) = Made(i, f[After(i)])
          BY <1>5, <4>2, <5>1
        <5> HIDE DEF next, e
        <5> QED BY <3>3, <4>2, <5>1, <5>2, <5>3
      <4> QED BY <4>1, <4>2
    <3> HIDE DEF next, e
    <3>7. f = [i \in 1 .. m |-> e(i)]
      BY <3>5, <3>6 DEF FromTheEnd
    <3>8. IsFrom(f)
      BY <3>7 DEF e
    <3> QED BY <3>5, <3>8
  <2>2. IsFrom(from)
    BY <2>1, Zenon
  <2> HIDE DEF from
  <2> DEFINE P == {i \in 1 .. m : from[i] \in S}
  <2>3. ASSUME NEW i \in 1 .. m, \A j \in i + 1 .. m : j \in P PROVE i \in P
    <3> HIDE DEF S
    <3>1. CASE i > n
      BY <1>3, <2>2, <3>1
    <3>2. CASE ~(i > n)
      <4>1. i \in 1 .. n /\ After(i) \in i + 1 .. m
        BY <1>0, <1>2, <3>2
      <4>2. from[After(i)] \in S
        BY <2>3, <4>1
      <4>3. from[i] = Made(i, from[After(i)])
        BY <1>5, <2>2, <3>2, <4>1
      <4> QED BY <1>4, <4>1, <4>2, <4>3
    <3> QED BY <3>1, <3>2
  <2>4. \A i \in 1 .. m : i \in P
    <3> HIDE DEF P
    <3> QED BY <1>0, <2>3, InductionFromTheEnd
  <2> QED BY <2>2, <2>4
<1> DEFINE g == [i \in 1 .. m |-> <<from[i]>>]
<1>7. \A i \in 1 .. m : g[i] = <<from[i]>>
  OBVIOUS
<1>8. \A i \in 1 .. m : from[i] = IF i > n THEN <<>>
                                  ELSE IF Skips(i) THEN from[SKIP_FILES(toks, i)]
                                  ELSE <<toks[i].text>> \o from[i + 1]
  <2> HIDE DEF from
  <2> QED BY <1>6
<1> HIDE DEF from, g
<1>9. \A i \in 1 .. m : g[i] \in Seq(Seq(Seq(Chars))) /\ Len(g[i]) > 0
  <2> TAKE i \in 1 .. m
  <2>1. <<from[i]>> \in Seq(S) /\ Len(<<from[i]>>) = 1
    BY <1>6
  <2>2. g[i] = <<from[i]>>
    BY <1>7
  <2>3. g[i] \in Seq(S) /\ Len(g[i]) = 1
    <3> HIDE DEF S
    <3> QED BY <2>1, <2>2
  <2> QED BY <2>3
<1>10. g[n + 1] = << <<>> >>
  <2>1. n + 1 \in 1 .. m /\ n + 1 > n
    BY <1>0
  <2> QED BY <1>7, <1>8, <2>1
<1>11. ASSUME NEW i \in 1 .. n
       PROVE  /\ toks[i].type \in Redirections => g[i] = g[i + 2]
              /\ toks[i].type # TK_PIPE
              /\ toks[i].type = TK_WORD => g[i] = [g[i + 1] EXCEPT ![1] = <<toks[i].text>> \o @]
  <2>1. i \in 1 .. m /\ i + 1 \in 1 .. m /\ i + 2 \in 1 .. m /\ ~(i > n)
    BY <1>0
  <2>2. TK_WORD \notin Redirections
    BY DEF TK_WORD, Redirections, TK_INFILE, TK_OUTFILE
  <2>3. ASSUME Skips(i) PROVE g[i] = g[i + 2]
    <3>1. from[i] = from[i + 2]
      BY <1>8, <2>1, <2>3 DEF SKIP_FILES
    <3> QED BY <1>7, <2>1, <3>1
  <2>4. ASSUME toks[i].type = TK_WORD
        PROVE  g[i] = [g[i + 1] EXCEPT ![1] = <<toks[i].text>> \o @]
    <3>1. from[i] = <<toks[i].text>> \o from[i + 1]
      BY <1>8, <2>1, <2>2, <2>4
    <3> DEFINE x == from[i + 1]
               y == <<toks[i].text>> \o x
    <3>2. g[i] = <<y>> /\ g[i + 1] = <<x>>
      BY <1>7, <2>1, <3>1
    <3> HIDE DEF x
    <3>3. [<<x>> EXCEPT ![1] = <<toks[i].text>> \o @] = <<y>>
      <4>1. [<<x>> EXCEPT ![1] = <<toks[i].text>> \o @] = [<<x>> EXCEPT ![1] = y]
        OBVIOUS
      <4> HIDE DEF y
      <4>2. [<<x>> EXCEPT ![1] = y] = <<y>>
        OBVIOUS
      <4> QED BY <4>1, <4>2
    <3> QED BY <3>2, <3>3
  <2> QED BY <2>3, <2>4
<1>12. ListsFrom(g, toks)
  BY <1>9, <1>10, <1>11 DEF ListsFrom
<1>13. <<ALLOCATE_ARGUMENTS_2(toks)>> = g[1]
  <2>1. 1 \in 1 .. m
    BY <1>0
  <2> QED BY <1>1, <1>7, <2>1
<1> QED BY <1>12, <1>13

\* Shell_1 has one command, and every token is one of its arguments.
LEMMA EveryToken ==
    ASSUME NEW toks, Walkable(toks), \A i \in 1 .. Len(toks) : toks[i].type = TK_WORD
    PROVE  ListOf(ALLOCATE_ARGUMENTS_1(toks), toks, WordsFrom(toks, 1, 1))
<1> DEFINE n == Len(toks)
           list == ALLOCATE_ARGUMENTS_1(toks)
<1>1. n \in Nat /\ DOMAIN toks = 1 .. n
  BY DEF Walkable
<1>2. WordsFrom(toks, 1, 1) = 1 .. n
  <2>1. ASSUME NEW h \in 1 .. n PROVE IsArgument(toks, h) /\ PipesUpTo(toks, 1, h) = 0
    <3>1. \A type \in Redirections : ~Has(toks, h - 1, type)
      BY <1>1 DEF Has, Redirections, TK_WORD, TK_INFILE, TK_OUTFILE
    <3>2. {j \in 1 .. h - 1 : Has(toks, j, TK_PIPE)} = {}
      BY <1>1 DEF Has, TK_WORD, TK_PIPE
    <3> QED BY <3>1, <3>2, FS_EmptySet DEF IsArgument, PipesUpTo
  <2> QED BY <2>1 DEF WordsFrom
<1>3. Len(list) = n /\ \A i \in 1 .. n : list[i] = toks[i].text
  BY <1>1 DEF ALLOCATE_ARGUMENTS_1
<1>4. \A h \in 0 .. n : Cardinality(1 .. h) = h
  <2> TAKE h \in 0 .. n
  <2>1. 1 \in Int /\ h \in Int /\ (1 > h => h = 0)
    BY <1>1
  <2>2. Cardinality(1 .. h) = IF 1 > h THEN 0 ELSE h - 1 + 1
    BY <2>1, FS_Interval
  <2> QED BY <2>1, <2>2
<1>5. \A h \in 1 .. n : Nth(h, 1 .. n) = h
  <2> TAKE h \in 1 .. n
  <2>1. {x \in 1 .. n : x <= h} = 1 .. h /\ h \in 0 .. n
    BY <1>1
  <2> QED BY <1>4, <2>1 DEF Nth
<1>6. n \in 0 .. n
  BY <1>1
<1> HIDE DEF list
<1> QED BY <1>2, <1>3, <1>4, <1>5, <1>6 DEF ListOf, list

\* The tokens of an accepted line are what the walks need.
LEMMA AcceptedTokens ==
    ASSUME IInv, Accepted
    PROVE  /\ tokens # <<>> /\ Walkable(tokens)
           /\ \A i \in 1 .. Len(tokens) : tokens[i].type \in Operators[program] \cup {TK_WORD}
<1>1. tokens # <<>>
  <2> SUFFICES ASSUME tokens = <<>> PROVE FALSE
    OBVIOUS
  <2>1. outcome = Prompt \/ outcome = Executed(program, tokens)
    BY DEF IInv
  <2>2. program \in {"Shell_1", "Shell_2", "Shell_3"}
    BY DEF IInv
  <2>3. CASE outcome = Prompt
    BY <2>3 DEF Accepted, Prompt
  <2>4. CASE outcome = Executed(program, tokens)
    BY <2>2, <2>4 DEF Executed, exec_command_1, exec_command_2, exec_command, Accepted
  <2> QED BY <2>1, <2>3, <2>4
<1>2. program \in {"Shell_1", "Shell_2", "Shell_3"} /\ tokens \in Seq(TokensOf(Operators[program]))
  BY <1>1, Outcome
<1>3. Len(tokens) \in Nat /\ DOMAIN tokens = 1 .. Len(tokens)
  BY <1>2
<1>4. \A i \in 1 .. Len(tokens) :
          tokens[i].type \in Operators[program] \cup {TK_WORD} /\ tokens[i].text \in Seq(Chars)
  <2>1. \A i \in 1 .. Len(tokens) : tokens[i] \in TokensOf(Operators[program])
    BY <1>2
  <2> QED BY <2>1 DEF TokensOf
<1>5. \A i \in 1 .. Len(tokens) : tokens[i].type \in {TK_WORD, TK_PIPE, TK_INFILE, TK_OUTFILE}
  BY <1>2, <1>4, OperatorsAre DEF TK_PIPE, TK_INFILE, TK_OUTFILE
<1>6. WellFormed(tokens)
  BY <1>1, Acceptance
<1>7. \A i \in 1 .. Len(tokens) : tokens[i].type \in Redirections => Has(tokens, i + 1, TK_WORD)
  BY <1>3, <1>6 DEF WellFormed, Positions, Redirections, Has
<1> QED BY <1>1, <1>3, <1>4, <1>5, <1>7 DEF Walkable

(***************************************************************************)
(* ALLOCATE_ARGUMENTS of each shell gives the k-th command of an accepted  *)
(* line the words between its pipes, in order and without the file names,  *)
(* however long the line is.                                               *)
(***************************************************************************)
THEOREM ArgumentsCorrect == Spec => []ArgumentsOfEachCommand
<1>1. ASSUME IInv, Accepted
      PROVE  /\ Len(outcome.argument_list) = outcome.number
             /\ \A k \in 1 .. outcome.number :
                   ListOf(outcome.argument_list[k], tokens, WordsFrom(tokens, 1, k))
  <2> DEFINE n == Len(tokens)
             lists == outcome.argument_list
  <2>1. /\ tokens # <<>> /\ Walkable(tokens) /\ n \in Nat /\ DOMAIN tokens = 1 .. n
        /\ \A i \in 1 .. n : tokens[i].type \in Operators[program] \cup {TK_WORD}
    BY <1>1, AcceptedTokens DEF Walkable
  <2>2. program \in {"Shell_1", "Shell_2", "Shell_3"} /\ outcome = Executed(program, tokens)
    BY <1>1, <2>1, Outcome
  <2>3. CASE program = "Shell_1"
    <3>1. lists = <<ALLOCATE_ARGUMENTS_1(tokens)>> /\ outcome.number = 1
      BY <1>1, <2>1, <2>2, <2>3 DEF Executed, exec_command_1
    <3>2. ListOf(ALLOCATE_ARGUMENTS_1(tokens), tokens, WordsFrom(tokens, 1, 1))
      <4>1. \A i \in 1 .. n : tokens[i].type = TK_WORD
        BY <2>1, <2>3, OperatorsAre
      <4> QED BY <2>1, <4>1, EveryToken
    <3> HIDE DEF lists
    <3>3. Len(lists) = 1 /\ lists[1] = ALLOCATE_ARGUMENTS_1(tokens)
      BY <3>1
    <3> QED BY <3>1, <3>2, <3>3 DEF lists
  <2>4. CASE program = "Shell_2"
    <3>1. lists = <<ALLOCATE_ARGUMENTS_2(tokens)>> /\ outcome.number = 1
      BY <1>1, <2>1, <2>2, <2>4 DEF Executed, exec_command_2, Accepted
    <3>2. PICK g : ListsFrom(g, tokens) /\ <<ALLOCATE_ARGUMENTS_2(tokens)>> = g[1]
      <4>1. \A i \in 1 .. n : tokens[i].type # TK_PIPE
        BY <2>1, <2>4, OperatorsAre DEF TK_PIPE, TK_WORD
      <4> QED BY <2>1, <4>1, WalkOfShell2
    <3>3. RightFrom(g, tokens, 1)
      BY <2>1, <3>2, WalkIsRight
    <3>4. Len(lists) = 1
      BY <3>1
    <3> HIDE DEF lists
    <3> QED BY <3>1, <3>2, <3>3, <3>4 DEF RightFrom, lists
  <2>5. CASE program = "Shell_3"
    <3>1. lists = ALLOCATE_ARGUMENTS(tokens) /\ outcome.number = find_number_of_commands(tokens)
      BY <1>1, <2>1, <2>2, <2>5 DEF Executed, exec_command, Accepted
    <3>2. PICK g : ListsFrom(g, tokens) /\ ALLOCATE_ARGUMENTS(tokens) = g[1]
      BY <2>1, WalkOfShell3
    <3>3. RightFrom(g, tokens, 1)
      BY <2>1, <3>2, WalkIsRight
    <3>4. outcome.number = 1 + PipesUpTo(tokens, 1, n + 1)
      <4>1. 1 .. (n + 1) - 1 = DOMAIN tokens
        BY <2>1
      <4> QED BY <3>1, <4>1 DEF find_number_of_commands, PipesUpTo
    <3> HIDE DEF lists
    <3> QED BY <3>1, <3>2, <3>3, <3>4 DEF RightFrom, lists
  <2> QED BY <2>2, <2>3, <2>4, <2>5
<1>2. IInv => ArgumentsOfEachCommand
  <2> SUFFICES ASSUME IInv, Accepted PROVE ArgumentsOfEachCommand
    BY DEF ArgumentsOfEachCommand
  <2> DEFINE PipesBefore(i) == Cardinality({j \in 1 .. i - 1 : Has(tokens, j, TK_PIPE)})
             Words(k) == {i \in DOMAIN tokens :
                             /\ tokens[i].type = TK_WORD
                             /\ PipesBefore(i) = k - 1
                             /\ ~\E type \in Redirections : Has(tokens, i - 1, type)}
  <2>1. \A k : Words(k) = WordsFrom(tokens, 1, k)
    <3>1. DOMAIN tokens = 1 .. Len(tokens)
      BY AcceptedTokens DEF Walkable
    <3>2. \A i : PipesBefore(i) = PipesUpTo(tokens, 1, i)
      BY DEF PipesUpTo
    <3> HIDE DEF PipesBefore
    <3> QED BY <3>1, <3>2 DEF WordsFrom, IsArgument
  <2> HIDE DEF Words
  <2>2. /\ Len(outcome.argument_list) = outcome.number
        /\ \A k \in 1 .. outcome.number : ListOf(outcome.argument_list[k], tokens, Words(k))
    BY <1>1, <2>1
  <2>3. /\ Len(outcome.argument_list) = outcome.number
        /\ \A k \in 1 .. outcome.number :
              /\ Len(outcome.argument_list[k]) = Cardinality(Words(k))
              /\ \A i \in Words(k) :
                    outcome.argument_list[k][Cardinality({h \in Words(k) : h <= i})] = tokens[i].text
    BY <2>2 DEF ListOf, Nth
  <2> QED BY <2>3, Zenon DEF ArgumentsOfEachCommand, Words
<1> QED BY <1>2, InvariantCorrect, PTL----------------------------------------------------------------------------
(* The tokens are the line.                                                *)

\* Pieces of a line, one after the other.
LEMMA PiecesAssociate == \A s, t, u \in Seq(Chars) : (s \o t) \o u = s \o (t \o u)
<1> TAKE s, t, u \in Seq(Chars)
<1> QED BY ConcatAssociative

\* A sequence with one more element in front.
LEMMA Prepended ==
    ASSUME NEW S, NEW x \in S, NEW rest \in Seq(S)
    PROVE  /\ <<x>> \o rest \in Seq(S) /\ Len(<<x>> \o rest) = Len(rest) + 1
           /\ (<<x>> \o rest)[1] = x
           /\ \A k \in 1 .. Len(rest) : (<<x>> \o rest)[k + 1] = rest[k]
<1> DEFINE one == <<x>>
           n == Len(rest)
           all == one \o rest
<1>1. one \in Seq(S) /\ Len(one) = 1 /\ one[1] = x /\ n \in Nat
  OBVIOUS
<1> HIDE DEF one
<1>2. /\ all \in Seq(S) /\ Len(all) = Len(one) + n
      /\ \A i \in 1 .. Len(one) + n : all[i] = IF i <= Len(one) THEN one[i] ELSE rest[i - Len(one)]
  BY <1>1, ConcatProperties
<1> HIDE DEF all
<1>3. /\ Len(all) = n + 1
      /\ \A i \in 1 .. 1 + n : all[i] = IF i <= 1 THEN one[i] ELSE rest[i - 1]
  BY <1>1, <1>2
<1>4. 1 \in 1 .. 1 + n /\ \A k \in 1 .. n : k + 1 \in 1 .. 1 + n /\ ~(k + 1 <= 1) /\ (k + 1) - 1 = k
  BY <1>1
<1> QED BY <1>1, <1>2, <1>3, <1>4 DEF all, one

\* The library's FlattenSeq, from the first sequence on.
LEMMA FlattenFirst ==
    ASSUME NEW S, NEW x \in Seq(S), NEW rest \in Seq(Seq(S))
    PROVE  FlattenSeq(<<x>> \o rest) = x \o FlattenSeq(rest) /\ FlattenSeq(rest) \in Seq(S)
<1> DEFINE all == <<x>> \o rest
           n == Len(rest)
           V == Seq(S)
<1>1. n \in Nat
  OBVIOUS
<1>2. /\ all \in Seq(V) /\ Len(all) = n + 1 /\ all[1] = x
      /\ \A k \in 1 .. n : all[k + 1] = rest[k]
  <2>1. x \in V /\ rest \in Seq(V)
    OBVIOUS
  <2> HIDE DEF V
  <2> QED BY <2>1, Prepended
<1> HIDE DEF all
<1>3. PICK f \in [1 .. n + 1 -> Seq(S)] :
         /\ f[1] = x
         /\ \A k \in 2 .. n + 1 : f[k] = f[k - 1] \o all[k]
         /\ FlattenSeq(all) = f[n + 1]
  <2>1. Len(all) > 0
    BY <1>1, <1>2
  <2>2. PICK f \in [1 .. Len(all) -> Seq(S)] :
           /\ f[1] = all[1]
           /\ \A k \in 2 .. Len(all) : f[k] = f[k - 1] \o all[k]
           /\ FlattenSeq(all) = f[Len(all)]
    BY <1>2, <2>1, FlattenSteps
  <2> QED BY <1>2, <2>2
<1>4. ASSUME NEW a \in Seq(S), NEW b \in Seq(S) PROVE (x \o a) \o b = x \o (a \o b)
  BY ConcatAssociative
<1>5. CASE n = 0
  <2>1. rest = <<>>
    BY <1>5
  <2>2. FlattenSeq(rest) = <<>>
    BY <2>1 DEF FlattenSeq
  <2>3. x \o <<>> = x /\ <<>> \in Seq(S)
    OBVIOUS
  <2> QED BY <1>3, <1>5, <2>2, <2>3 DEF all
<1>6. CASE n # 0
  <2>1. Len(rest) > 0
    BY <1>1, <1>6
  <2>2. PICK g \in [1 .. n -> Seq(S)] :
           /\ g[1] = rest[1]
           /\ \A k \in 2 .. n : g[k] = g[k - 1] \o rest[k]
           /\ FlattenSeq(rest) = g[n]
    BY <2>1, FlattenSteps
  <2> DEFINE P == {k \in 0 .. n : k > 0 => f[k + 1] = x \o g[k]}
  <2>3. 0 \in P
    BY <1>1
  <2>4. ASSUME NEW k \in 1 .. n, k - 1 \in P PROVE k \in P
    <3>1. k + 1 \in 2 .. n + 1 /\ (k + 1) - 1 = k /\ k \in 0 .. n
      BY <1>1
    <3>2. f[k + 1] = f[k] \o rest[k]
      BY <1>2, <1>3, <3>1
    <3>3. CASE k = 1
      BY <1>3, <2>2, <3>1, <3>2, <3>3
    <3>4. CASE k # 1
      <4>1. k \in 2 .. n /\ k - 1 > 0 /\ (k - 1) + 1 = k /\ k - 1 \in 1 .. n
        BY <1>1, <3>4
      <4>2. f[k] = x \o g[k - 1] /\ g[k] = g[k - 1] \o rest[k]
        BY <2>2, <2>4, <4>1
      <4>3. g[k - 1] \in Seq(S) /\ rest[k] \in Seq(S)
        BY <2>2, <4>1, ElementOfSeq
      <4>4. (x \o g[k - 1]) \o rest[k] = x \o (g[k - 1] \o rest[k])
        BY <4>3, <1>4
      <4> QED BY <3>1, <3>2, <4>2, <4>4
    <3> QED BY <3>3, <3>4
  <2> HIDE DEF P
  <2>5. n \in P
    <3>1. n \in 0 .. n
      BY <1>1
    <3> QED BY <1>1, <2>3, <2>4, <3>1, BoundedInduction
  <2>6. n > 0 /\ n \in 1 .. n
    BY <1>1, <1>6
  <2> QED BY <1>3, <2>2, <2>5, <2>6 DEF P, all
<1> QED BY <1>5, <1>6

\* What tokenizer_init keeps of the line from a place on: all but the spaces.
Kept(c) == IF c \in Spaces THEN <<>> ELSE <<c>>
KeptFrom(chars, p) == FlattenSeq([q \in 1 .. Len(chars) + 1 - p |-> Kept(chars[p + q - 1])])

\* One character after the other.
LEMMA KeptFirst ==
    ASSUME NEW chars \in Seq(Chars), NEW p \in 1 .. Len(chars)
    PROVE  /\ KeptFrom(chars, p) = Kept(chars[p]) \o KeptFrom(chars, p + 1)
           /\ KeptFrom(chars, p + 1) \in Seq(Chars) /\ KeptFrom(chars, p) \in Seq(Chars)
           /\ KeptFrom(chars, Len(chars) + 1) = <<>>
<1> DEFINE n == Len(chars)
           m == n - p
           x == Kept(chars[p])
           rest == [q \in 1 .. m |-> Kept(chars[p + q])]
           all == [q \in 1 .. m + 1 |-> Kept(chars[p + q - 1])]
           V == Seq(Chars)
<1>1. /\ n \in Nat /\ p \in Nat /\ m \in Nat /\ (n + 1) - p = m + 1 /\ (n + 1) - (p + 1) = m
      /\ (n + 1) - (n + 1) = 0 /\ \A q \in 1 .. m : (p + 1) + q - 1 = p + q
      /\ p + 1 - 1 = p /\ \A q \in 1 .. m : q + 1 \in 1 .. m + 1 /\ p + (q + 1) - 1 = p + q
      /\ 1 \in 1 .. m + 1
  OBVIOUS
<1>2. KeptFrom(chars, p) = FlattenSeq(all)
  BY <1>1 DEF KeptFrom
<1>3. KeptFrom(chars, p + 1) = FlattenSeq(rest)
  <2>1. [q \in 1 .. (n + 1) - (p + 1) |-> Kept(chars[(p + 1) + q - 1])] = rest
    BY <1>1
  <2> QED BY <2>1 DEF KeptFrom
<1>4. \A c \in Chars : Kept(c) \in V
  <2> TAKE c \in Chars
  <2>1. <<>> \in V /\ <<c>> \in V
    OBVIOUS
  <2> QED BY <2>1 DEF Kept
<1>5. x \in V /\ rest \in Seq(V) /\ all \in Seq(V) /\ Len(rest) = m /\ Len(all) = m + 1
  <2>1. \A q \in 1 .. m : chars[p + q] \in Chars
    <3> TAKE q \in 1 .. m
    <3>1. p + q \in 1 .. n
      BY <1>1
    <3> QED BY <3>1, ElementOfSeq
  <2>2. \A q \in 1 .. m + 1 : chars[p + q - 1] \in Chars
    <3> TAKE q \in 1 .. m + 1
    <3>1. p + q - 1 \in 1 .. n
      BY <1>1
    <3> QED BY <3>1, ElementOfSeq
  <2>3. chars[p] \in Chars
    BY ElementOfSeq
  <2> HIDE DEF V, m
  <2> QED BY <1>1, <1>4, <2>1, <2>2, <2>3
<1>6. all[1] = x /\ \A q \in 1 .. m : all[q + 1] = rest[q]
  <2> HIDE DEF m
  <2> QED BY <1>1
<1>7. \A i \in 1 .. m + 1 : i # 1 => i - 1 \in 1 .. m /\ (i - 1) + 1 = i /\ ~(i <= 1)
  BY <1>1
<1> HIDE DEF x, rest, all, m
<1>8. all = <<x>> \o rest
  <2> DEFINE both == <<x>> \o rest
  <2> HIDE DEF V
  <2>1. /\ both \in Seq(V) /\ Len(both) = m + 1 /\ both[1] = x
        /\ \A k \in 1 .. m : both[k + 1] = rest[k]
    BY <1>5, Prepended
  <2> HIDE DEF both
  <2>2. ASSUME NEW i \in 1 .. m + 1 PROVE all[i] = both[i]
    <3>1. CASE i = 1
      BY <1>6, <2>1, <3>1
    <3>2. CASE i # 1
      <4>1. i - 1 \in 1 .. m /\ (i - 1) + 1 = i
        BY <1>7, <3>2
      <4>2. all[(i - 1) + 1] = rest[i - 1] /\ both[(i - 1) + 1] = rest[i - 1]
        BY <1>6, <2>1, <4>1
      <4> QED BY <4>1, <4>2
    <3> QED BY <3>1, <3>2
  <2>3. all = both
    BY <1>5, <2>1, <2>2, SeqEqual
  <2> QED BY <2>3 DEF both
<1>9. FlattenSeq(<<x>> \o rest) = x \o FlattenSeq(rest) /\ FlattenSeq(rest) \in Seq(Chars)
  BY <1>5, FlattenFirst
<1>10. x \o FlattenSeq(rest) \in Seq(Chars)
  <2> DEFINE flat == FlattenSeq(rest)
  <2>1. x \in Seq(Chars) /\ flat \in Seq(Chars)
    BY <1>5, <1>9
  <2> HIDE DEF flat
  <2>2. x \o flat \in Seq(Chars)
    BY <2>1, ConcatProperties
  <2> QED BY <2>2 DEF flat
<1>11. KeptFrom(chars, n + 1) = <<>>
  <2>1. [q \in 1 .. (n + 1) - (n + 1) |-> Kept(chars[(n + 1) + q - 1])] = <<>>
    BY <1>1
  <2>2. FlattenSeq(<<>>) = <<>>
    BY DEF FlattenSeq
  <2> QED BY <2>1, <2>2 DEF KeptFrom
<1> QED BY <1>2, <1>3, <1>8, <1>9, <1>10, <1>11 DEF x

\* A piece of the line without spaces is kept as it is.
LEMMA KeptPiece ==
    ASSUME NEW chars \in Seq(Chars), NEW p \in 1 .. Len(chars), NEW e \in p .. Len(chars) + 1,
           \A q \in p .. e - 1 : chars[q] \notin Spaces
    PROVE  KeptFrom(chars, p) = SubSeq(chars, p, e - 1) \o KeptFrom(chars, e)
<1> DEFINE n == Len(chars)
           Piece(k) == SubSeq(chars, p, p + k - 1)
           After(k) == KeptFrom(chars, p + k)
           P == {k \in 0 .. e - p : KeptFrom(chars, p) = Piece(k) \o After(k)}
<1>1. n \in Nat /\ p \in Nat /\ e \in Nat /\ e - p \in Nat /\ p + 0 = p /\ p + (e - p) = e
      /\ \A k \in 0 .. e - p : Piece(k) \in Seq(Chars) /\ Len(Piece(k)) = k
  OBVIOUS
<1>2. \A k \in 0 .. e - p : \A i \in 1 .. k : Piece(k)[i] = chars[p + i - 1]
  <2> TAKE k \in 0 .. e - p
  <2> DEFINE last == p + k - 1
  <2>1. last \in Int /\ last - p + 1 = k /\ \A i \in p .. last : chars[i] \in Chars
    BY <1>1
  <2> HIDE DEF last
  <2>2. \A i \in 1 .. last - p + 1 : SubSeq(chars, p, last)[i] = chars[p + i - 1]
    BY <1>1, <2>1, SubSeqProperties
  <2> QED BY <2>1, <2>2 DEF last
<1>3. 0 \in P
  <2>1. Piece(0) = <<>>
    <3>1. Piece(0) \in Seq(Chars) /\ Len(Piece(0)) = 0
      BY <1>1
    <3> HIDE DEF Piece
    <3> QED BY <3>1
  <2>2. After(0) \in Seq(Chars) /\ After(0) = KeptFrom(chars, p)
    BY <1>1, KeptFirst
  <2> HIDE DEF Piece, After
  <2>3. <<>> \o After(0) = After(0)
    BY <2>2, ConcatEmptySeq
  <2>4. 0 \in 0 .. e - p
    BY <1>1
  <2> QED BY <2>1, <2>2, <2>3, <2>4
<1>4. ASSUME NEW k \in 1 .. e - p, k - 1 \in P PROVE k \in P
  <2> DEFINE r == p + (k - 1)
             c == chars[r]
             a == Piece(k - 1)
             b == After(k)
  <2>1. r \in 1 .. n /\ r \in p .. e - 1 /\ r + 1 = p + k /\ k - 1 \in 0 .. e - p /\ k \in 0 .. e - p
        /\ r = p + k - 1
    BY <1>1
  <2>2. c \in Chars /\ Kept(c) = <<c>>
    BY <2>1, ElementOfSeq DEF Kept
  <2>3. After(k - 1) = <<c>> \o b /\ b \in Seq(Chars)
    <3> HIDE DEF c
    <3>1. KeptFrom(chars, r) = Kept(chars[r]) \o KeptFrom(chars, r + 1)
          /\ KeptFrom(chars, r + 1) \in Seq(Chars)
      BY <2>1, KeptFirst
    <3> QED BY <2>1, <2>2, <3>1 DEF c
  <2>4. KeptFrom(chars, p) = a \o After(k - 1)
    BY <1>4
  <2>5. a \in Seq(Chars) /\ <<c>> \in Seq(Chars)
    BY <1>1, <2>1, <2>2
  <2>6. Piece(k) = a \o <<c>>
    <3> DEFINE one == <<c>>
               both == a \o one
    <3>1. one \in Seq(Chars) /\ Len(one) = 1 /\ one[1] = c
      BY <2>2
    <3>2. Len(a) = k - 1 /\ \A i \in 1 .. k - 1 : a[i] = chars[p + i - 1]
      BY <1>1, <1>2, <2>1
    <3>3. Piece(k) \in Seq(Chars) /\ Len(Piece(k)) = k /\ \A i \in 1 .. k : Piece(k)[i] = chars[p + i - 1]
      BY <1>1, <1>2, <2>1
    <3> HIDE DEF a, one
    <3>4. /\ both \in Seq(Chars) /\ Len(both) = Len(a) + Len(one)
          /\ \A i \in 1 .. Len(a) + Len(one) : both[i] = IF i <= Len(a) THEN a[i] ELSE one[i - Len(a)]
      BY <2>5, <3>1, ConcatProperties
    <3> HIDE DEF both
    <3>5. Len(both) = k
      BY <3>1, <3>2, <3>4
    <3>6. ASSUME NEW i \in 1 .. k PROVE both[i] = chars[p + i - 1]
      <4>1. i \in 1 .. Len(a) + Len(one)
        BY <3>1, <3>2
      <4>2. CASE i <= k - 1
        <5>1. both[i] = a[i] /\ i \in 1 .. k - 1
          BY <3>2, <3>4, <4>1, <4>2
        <5> QED BY <3>2, <5>1
      <4>3. CASE ~(i <= k - 1)
        <5>1. i = k /\ i - (k - 1) = 1
          BY <4>3
        <5>2. both[i] = one[1]
          BY <3>2, <3>4, <4>1, <4>3, <5>1
        <5> QED BY <2>1, <3>1, <5>1, <5>2
      <4> QED BY <4>2, <4>3
    <3> HIDE DEF Piece
    <3>7. \A i \in 1 .. k : Piece(k)[i] = both[i]
      BY <3>3, <3>6
    <3>8. Piece(k) = both
      BY <3>3, <3>4, <3>5, <3>7, SeqEqual
    <3> QED BY <3>8 DEF both, one
  <2>7. (a \o <<c>>) \o b = a \o (<<c>> \o b)
    <3> HIDE DEF a, b, c
    <3>1. a \in Seq(Chars) /\ <<c>> \in Seq(Chars) /\ b \in Seq(Chars)
      BY <2>3, <2>5
    <3> QED BY <3>1, PiecesAssociate, Zenon
  <2> HIDE DEF a, b, c, Piece, After
  <2>8. KeptFrom(chars, p) = Piece(k) \o After(k)
    BY <2>3, <2>4, <2>6, <2>7 DEF b
  <2> QED BY <2>1, <2>8
<1> HIDE DEF P
<1>5. e - p \in P
  <2>1. e - p \in 0 .. e - p
    BY <1>1
  <2> QED BY <1>1, <1>3, <1>4, <2>1, BoundedInduction
<1> QED BY <1>1, <1>5 DEF P

\* The texts of the tokens.
Texts(toks) == [i \in DOMAIN toks |-> toks[i].text]

\* The texts of a list with one more token in front.
LEMMA TextsFirst ==
    ASSUME NEW operators, NEW t \in TokensOf(operators), NEW toks \in Seq(TokensOf(operators))
    PROVE  /\ Texts(<<t>> \o toks) = <<t.text>> \o Texts(toks)
           /\ Texts(toks) \in Seq(Seq(Chars)) /\ t.text \in Seq(Chars)
<1> DEFINE n == Len(toks)
           V == Seq(Chars)
           R == TokensOf(operators)
           x == t.text
           rest == Texts(toks)
           all == <<t>> \o toks
<1>1. n \in Nat /\ DOMAIN toks = 1 .. n /\ \A i \in 1 .. n : toks[i] \in R
  OBVIOUS
<1>2. \A r \in R : r.text \in V
  BY DEF TokensOf
<1>3. x \in V /\ rest \in Seq(V) /\ Len(rest) = n /\ \A i \in 1 .. n : rest[i] = toks[i].text
  <2>1. \A i \in 1 .. n : toks[i].text \in V
    BY <1>1, <1>2
  <2> HIDE DEF V
  <2>2. rest = [i \in 1 .. n |-> toks[i].text]
    BY <1>1 DEF Texts
  <2> QED BY <1>1, <1>2, <2>1, <2>2
<1>4. all \in Seq(R) /\ Len(all) = n + 1 /\ all[1] = t /\ \A i \in 1 .. n : all[i + 1] = toks[i]
  <2> HIDE DEF R
  <2> QED BY Prepended DEF R
<1> DEFINE both == <<x>> \o rest
<1> HIDE DEF V, R, x, rest, all
<1>5. both \in Seq(V) /\ Len(both) = n + 1 /\ both[1] = x /\ \A i \in 1 .. n : both[i + 1] = rest[i]
  BY <1>3, Prepended
<1> HIDE DEF both
<1>6. ASSUME NEW i \in 1 .. n + 1 PROVE all[i].text = both[i]
  <2>1. CASE i = 1
    BY <1>4, <1>5, <2>1 DEF x
  <2>2. CASE i # 1
    <3>1. i - 1 \in 1 .. n /\ (i - 1) + 1 = i
      BY <1>1, <2>2
    <3>2. all[(i - 1) + 1] = toks[i - 1] /\ both[(i - 1) + 1] = rest[i - 1]
      BY <1>4, <1>5, <3>1
    <3> QED BY <1>3, <3>1, <3>2
  <2> QED BY <2>1, <2>2
<1>7. Texts(all) = [i \in 1 .. n + 1 |-> all[i].text]
  BY <1>4 DEF Texts
<1>8. both = [i \in 1 .. n + 1 |-> both[i]]
  BY <1>5
<1>9. Texts(all) = both
  BY <1>6, <1>7, <1>8
<1> QED BY <1>3, <1>9 DEF both, all, x, rest, V

\* From each place on, the tokens one after the other are what is kept of the line.
LEMMA TextsAreKept ==
    ASSUME NEW chars \in Seq(Chars), NEW operators \in SUBSET Chars, NEW f,
           TokensFrom(f, chars, operators)
    PROVE  FlattenSeq(Texts(f[1])) = KeptFrom(chars, 1)
<1> DEFINE n == Len(chars)
           R == TokensOf(operators)
           P == {p \in 1 .. n + 1 : FlattenSeq(Texts(f[p])) = KeptFrom(chars, p)}
<1>1. n \in Nat /\ n + 1 \in Nat /\ 1 \in 1 .. n + 1
  OBVIOUS
<1>2. ASSUME NEW p \in 1 .. n + 1, \A q \in p + 1 .. n + 1 : q \in P PROVE p \in P
  <2>1. CASE p = n + 1
    <3>1. f[p] = <<>>
      BY <2>1 DEF TokensFrom
    <3>2. Texts(<<>>) = <<>> /\ FlattenSeq(<<>>) = <<>>
      BY DEF Texts, FlattenSeq
    <3>3. KeptFrom(chars, n + 1) = <<>>
      <4>1. CASE n = 0
        <5>1. [q \in 1 .. (n + 1) - (n + 1) |-> Kept(chars[(n + 1) + q - 1])] = <<>>
          BY <1>1
        <5> QED BY <3>2, <5>1 DEF KeptFrom
      <4>2. CASE n # 0
        <5>1. n \in 1 .. n
          BY <1>1, <4>2
        <5> QED BY <5>1, KeptFirst
      <4> QED BY <4>1, <4>2
    <3> QED BY <2>1, <3>1, <3>2, <3>3
  <2>2. CASE p # n + 1
    <3> DEFINE e == EndOfToken(chars, p, operators)
               t == TokenAt(chars, p, operators)
    <3>1. p \in 1 .. n /\ p + 1 \in p + 1 .. n + 1
      BY <1>1, <2>2
    <3>2. CASE chars[p] \in Spaces
      <4>1. f[p] = f[p + 1]
        BY <3>1, <3>2 DEF TokensFrom
      <4>2. Kept(chars[p]) = <<>>
        BY <3>2 DEF Kept
      <4>3. KeptFrom(chars, p) = Kept(chars[p]) \o KeptFrom(chars, p + 1)
            /\ KeptFrom(chars, p + 1) \in Seq(Chars)
        BY <3>1, KeptFirst
      <4>4. <<>> \o KeptFrom(chars, p + 1) = KeptFrom(chars, p + 1)
        BY <4>3, ConcatEmptySeq
      <4>5. p + 1 \in P
        BY <1>2, <3>1
      <4> QED BY <4>1, <4>2, <4>3, <4>4, <4>5
    <3>3. CASE chars[p] \notin Spaces
      <4>1. e \in p + 1 .. n + 1 /\ \A q \in p .. e - 1 : chars[q] \notin Spaces
        <5>1. e \in p + 1 .. n + 1
          BY <3>1, TokenEnds
        <5>2. chars[p] \in operators => e = p + 1
          BY <3>1, TokenEnds
        <5>3. chars[p] \notin operators => \A q \in p + 1 .. e - 1 : chars[q] \notin Spaces
          BY <3>1, TokenEnds
        <5> HIDE DEF e
        <5>4. ASSUME NEW q \in p .. e - 1 PROVE chars[q] \notin Spaces
          <6>1. q = p \/ (q \in p + 1 .. e - 1 /\ e # p + 1)
            BY <1>1, <5>1
          <6> QED BY <3>3, <5>2, <5>3, <6>1
        <5> QED BY <5>1, <5>4
      <4> HIDE DEF e
      <4>2. f[p] = <<t>> \o f[e] /\ f[e] \in Seq(R) /\ t \in R
        <5>1. e \in 1 .. n + 1
          BY <1>1, <4>1
        <5>2. f[p] = <<t>> \o f[e] /\ f[e] \in Seq(R)
          BY <3>1, <3>3, <5>1 DEF TokensFrom, e
        <5> QED BY <3>1, <5>2, TokenType
      <4>3. t.text = SubSeq(chars, p, e - 1)
        BY DEF TokenAt, e
      <4> HIDE DEF t, R
      <4>4. Texts(f[p]) = <<t.text>> \o Texts(f[e]) /\ Texts(f[e]) \in Seq(Seq(Chars)) /\ t.text \in Seq(Chars)
        BY <4>2, TextsFirst DEF R
      <4>5. FlattenSeq(Texts(f[p])) = t.text \o FlattenSeq(Texts(f[e]))
        BY <4>4, FlattenFirst
      <4>6. FlattenSeq(Texts(f[e])) = KeptFrom(chars, e)
        BY <1>2, <4>1
      <4>7. KeptFrom(chars, p) = SubSeq(chars, p, e - 1) \o KeptFrom(chars, e)
        <5>1. e \in p .. n + 1
          BY <1>1, <4>1
        <5> QED BY <3>1, <4>1, <5>1, KeptPiece
      <4> QED BY <4>3, <4>5, <4>6, <4>7
    <3> QED BY <3>2, <3>3
  <2> QED BY <2>1, <2>2
<1> HIDE DEF P
<1>3. 1 \in P
  BY <1>1, <1>2, InductionFromTheEnd
<1> QED BY <1>3 DEF P

WordsOf(toks) == {i \in DOMAIN toks : toks[i].type = TK_WORD}

\* The words of a list with one more token in front.
LEMMA WordsFirst ==
    ASSUME NEW R, NEW t \in R, NEW toks \in Seq(R)
    PROVE  /\ Cardinality(WordsOf(toks)) \in Nat
           /\ Cardinality(WordsOf(<<t>> \o toks)) =
                 IF t.type = TK_WORD THEN Cardinality(WordsOf(toks)) + 1 ELSE Cardinality(WordsOf(toks))
<1> DEFINE n == Len(toks)
           all == <<t>> \o toks
           A == WordsOf(toks)
           B == {i + 1 : i \in A}
           g == [i \in A |-> i + 1]
<1>1. n \in Nat /\ DOMAIN toks = 1 .. n
  OBVIOUS
<1>2. DOMAIN all = 1 .. n + 1 /\ all[1] = t /\ \A i \in 1 .. n : all[i + 1] = toks[i]
  <2>1. /\ all \in Seq(R) /\ Len(all) = n + 1 /\ all[1] = t
        /\ \A i \in 1 .. n : all[i + 1] = toks[i]
    BY Prepended
  <2> HIDE DEF all
  <2> QED BY <2>1
<1>3. IsFiniteSet(A) /\ A \in SUBSET (1 .. n) /\ \A i \in 1 .. n : i \in A <=> toks[i].type = TK_WORD
  <2>1. 1 \in Int /\ n \in Int
    BY <1>1
  <2>2. IsFiniteSet(1 .. n)
    BY <2>1, FS_Interval
  <2>3. A \in SUBSET (1 .. n)
    BY <1>1 DEF WordsOf
  <2> QED BY <1>1, <2>2, <2>3, FS_Subset DEF WordsOf
<1> HIDE DEF A, all
<1>4. IsFiniteSet(B) /\ Cardinality(B) = Cardinality(A) /\ Cardinality(A) \in Nat
  <2>1. g \in Bijection(A, B)
    <3>1. \A i, j \in A : i + 1 = j + 1 => i = j
      BY <1>3
    <3> QED BY <3>1 DEF Bijection, Injection, Surjection, IsInjective
  <2>2. ExistsBijection(A, B)
    BY <2>1 DEF ExistsBijection
  <2> HIDE DEF B, g
  <2> QED BY <1>3, <2>2, FS_Bijection, FS_CardinalityType
<1>5. WordsOf(all) = IF t.type = TK_WORD THEN B \cup {1} ELSE B
  <2>1. ASSUME NEW i \in 1 .. n + 1
        PROVE  all[i].type = TK_WORD <=> i \in B \/ (i = 1 /\ t.type = TK_WORD)
    <3>1. CASE i = 1
      <4>1. 1 \notin B
        BY <1>3
      <4> HIDE DEF B
      <4> QED BY <1>2, <3>1, <4>1
    <3>2. CASE i # 1
      <4>1. i - 1 \in 1 .. n /\ (i - 1) + 1 = i
        BY <1>1, <3>2
      <4>2. all[i] = toks[i - 1]
        BY <1>2, <4>1
      <4>3. i \in B <=> i - 1 \in A
        <5>1. \A j \in A : j + 1 = i => j = i - 1
          BY <1>3, <4>1
        <5> QED BY <4>1, <5>1
      <4> HIDE DEF B
      <4> QED BY <1>3, <3>2, <4>1, <4>2, <4>3
    <3> QED BY <3>1, <3>2
  <2>2. B \in SUBSET (1 .. n + 1) /\ 1 \in 1 .. n + 1
    BY <1>1, <1>3
  <2> HIDE DEF B
  <2> QED BY <1>2, <2>1, <2>2 DEF WordsOf
<1>6. 1 \notin B
  BY <1>3
<1> HIDE DEF B
<1>7. Cardinality(B \cup {1}) = Cardinality(B) + 1
  BY <1>4, <1>6, FS_AddElement
<1> QED BY <1>4, <1>5, <1>7 DEF A, all

\* Between a place and the last space before it, there are only operators.
Fresh(chars, operators, p) ==
    \A q \in 1 .. p - 1 : (\A r \in q .. p - 1 : chars[r] \notin Spaces) => chars[q] \in operators

\* The places from p on where a word should begin.
WordStarts(chars, operators, p) ==
    {q \in p .. Len(chars) : chars[q] \notin Spaces \cup operators /\ Fresh(chars, operators, q)}

\* The places where a word should begin, from one place to the next token's.
LEMMA StartsStep ==
    ASSUME NEW chars \in Seq(Chars), NEW operators \in SUBSET Chars, NEW p \in 1 .. Len(chars)
    PROVE  /\ chars[p] \in Spaces =>
                 /\ WordStarts(chars, operators, p) = WordStarts(chars, operators, p + 1)
                 /\ Fresh(chars, operators, p + 1)
           /\ chars[p] \in operators =>
                 /\ WordStarts(chars, operators, p) = WordStarts(chars, operators, p + 1)
                 /\ Fresh(chars, operators, p) => Fresh(chars, operators, p + 1)
           /\ chars[p] \notin Spaces \cup operators /\ Fresh(chars, operators, p) =>
                 LET e == EndOfToken(chars, p, operators)
                 IN  /\ WordStarts(chars, operators, p) = {p} \cup WordStarts(chars, operators, e)
                     /\ p \notin WordStarts(chars, operators, e)
<1> DEFINE n == Len(chars)
           e == EndOfToken(chars, p, operators)
<1>1. /\ n \in Nat /\ p \in Nat /\ (p + 1) - 1 = p /\ p .. n = {p} \cup (p + 1 .. n)
      /\ \A q \in 1 .. p : p \in q .. p /\ (q = p \/ q \in 1 .. p - 1)
      /\ \A q \in 1 .. p - 1 : \A r \in q .. p - 1 : r \in q .. p
  OBVIOUS
<1>2. chars[p] \in Spaces \cup operators =>
         WordStarts(chars, operators, p) = WordStarts(chars, operators, p + 1)
  BY <1>1 DEF WordStarts
<1>3. chars[p] \in Spaces => Fresh(chars, operators, p + 1)
  BY <1>1 DEF Fresh
<1>4. ASSUME chars[p] \in operators, Fresh(chars, operators, p) PROVE Fresh(chars, operators, p + 1)
  <2> SUFFICES ASSUME NEW q \in 1 .. p, \A r \in q .. p : chars[r] \notin Spaces
               PROVE  chars[q] \in operators
    BY <1>1 DEF Fresh
  <2>1. CASE q = p
    BY <1>4, <2>1
  <2>2. CASE q # p
    <3>1. q \in 1 .. p - 1 /\ \A r \in q .. p - 1 : chars[r] \notin Spaces
      BY <1>1, <2>2
    <3> QED BY <1>4, <3>1 DEF Fresh
  <2> QED BY <2>1, <2>2
<1>5. ASSUME chars[p] \notin Spaces \cup operators, Fresh(chars, operators, p)
      PROVE  /\ WordStarts(chars, operators, p) = {p} \cup WordStarts(chars, operators, e)
             /\ p \notin WordStarts(chars, operators, e)
  <2>1. e \in p + 1 .. n + 1 /\ \A q \in p + 1 .. e - 1 : chars[q] \notin Spaces
    BY <1>5, TokenEnds
  <2> HIDE DEF e
  <2>2. ASSUME NEW q \in p + 1 .. e - 1 PROVE ~Fresh(chars, operators, q)
    <3>1. p \in 1 .. q - 1 /\ \A r \in p .. q - 1 : r = p \/ r \in p + 1 .. e - 1
      BY <1>1, <2>1
    <3>2. \A r \in p .. q - 1 : chars[r] \notin Spaces
      BY <1>5, <2>1, <3>1
    <3>3. chars[p] \notin operators
      BY <1>5
    <3> QED BY <3>1, <3>2, <3>3 DEF Fresh
  <2>3. p .. n = {p} \cup (p + 1 .. e - 1) \cup (e .. n) /\ p \notin e .. n
    BY <1>1, <2>1
  <2>4. ASSUME NEW q
        PROVE  q \in WordStarts(chars, operators, p) <=> q = p \/ q \in WordStarts(chars, operators, e)
    BY <1>5, <2>2, <2>3 DEF WordStarts
  <2>5. p \notin WordStarts(chars, operators, e)
    BY <2>3 DEF WordStarts
  <2> QED BY <2>4, <2>5
<1> QED BY <1>2, <1>3, <1>4, <1>5

\* From each place where a token may begin, there are as many words as places for them.
LEMMA WordsAreCounted ==
    ASSUME NEW chars \in Seq(Chars), NEW operators \in SUBSET Chars, NEW f,
           TokensFrom(f, chars, operators)
    PROVE  Cardinality(WordsOf(f[1])) = Cardinality(WordStarts(chars, operators, 1))
<1> DEFINE n == Len(chars)
           R == TokensOf(operators)
           W(p) == Cardinality(WordsOf(f[p]))
           S(p) == WordStarts(chars, operators, p)
           Begins(p) == p = n + 1 \/ chars[p] \in Spaces \/ Fresh(chars, operators, p)
           P == {p \in 1 .. n + 1 : Begins(p) => W(p) = Cardinality(S(p))}
<1>1. n \in Nat /\ n + 1 \in Nat /\ 1 \in 1 .. n + 1
  OBVIOUS
<1>2. \A p \in 1 .. n + 1 : f[p] \in Seq(R) /\ IsFiniteSet(S(p))
  <2> TAKE p \in 1 .. n + 1
  <2>1. f[p] \in Seq(R)
    BY DEF TokensFrom
  <2>2. IsFiniteSet(p .. n) /\ S(p) \in SUBSET (p .. n)
    <3>1. p \in Int /\ n \in Int
      BY <1>1
    <3> QED BY <3>1, FS_Interval DEF WordStarts
  <2> QED BY <2>1, <2>2, FS_Subset
<1>3. ASSUME NEW p \in 1 .. n + 1, \A q \in p + 1 .. n + 1 : q \in P PROVE p \in P
  <2> SUFFICES ASSUME Begins(p) PROVE W(p) = Cardinality(S(p))
    OBVIOUS
  <2>1. CASE p = n + 1
    <3>1. f[p] = <<>>
      BY <2>1 DEF TokensFrom
    <3>2. WordsOf(<<>>) = {}
      BY DEF WordsOf
    <3>3. S(p) = {}
      BY <1>1, <2>1 DEF WordStarts
    <3> QED BY <3>1, <3>2, <3>3
  <2>2. CASE p # n + 1
    <3> DEFINE e == EndOfToken(chars, p, operators)
               t == TokenAt(chars, p, operators)
    <3>1. p \in 1 .. n /\ p + 1 \in p + 1 .. n + 1 /\ p + 1 \in 1 .. n + 1
      BY <1>1, <2>2
    <3>2. CASE chars[p] \in Spaces
      <4>1. f[p] = f[p + 1]
        BY <3>1, <3>2 DEF TokensFrom
      <4>2. S(p) = S(p + 1) /\ Fresh(chars, operators, p + 1)
        BY <3>1, <3>2, StartsStep
      <4>3. p + 1 \in P
        BY <1>3, <3>1
      <4> QED BY <4>1, <4>2, <4>3
    <3>3. CASE chars[p] \notin Spaces
      <4>1. Fresh(chars, operators, p)
        BY <2>2, <3>3
      <4>2. e \in p + 1 .. n + 1 /\ e \in 1 .. n + 1
        <5>1. e \in p + 1 .. n + 1
          BY <3>1, TokenEnds
        <5> HIDE DEF e
        <5> QED BY <1>1, <5>1
      <4>3. f[p] = <<t>> \o f[e] /\ f[e] \in Seq(R) /\ t \in R
        <5>1. f[p] = <<t>> \o f[e]
          BY <3>1, <3>3 DEF TokensFrom
        <5>2. t \in R
          BY <3>1, TokenType
        <5> HIDE DEF R, e, t
        <5> QED BY <1>2, <4>2, <5>1, <5>2
      <4>4. t.type = TypeOf(chars[p], operators)
        BY DEF TokenAt
      <4>5. CASE chars[p] \in operators
        <5>1. e = p + 1
          BY <3>1, <4>5, TokenEnds
        <5>2. t.type # TK_WORD
          BY <4>4, <4>5 DEF TypeOf, Chars, Space, Newline, TK_WORD
        <5>3. S(p) = S(p + 1) /\ Fresh(chars, operators, p + 1)
          BY <3>1, <4>1, <4>5, StartsStep
        <5> HIDE DEF e, t, R
        <5>4. W(p) = W(e)
          BY <4>3, <5>2, WordsFirst
        <5>5. e \in P
          BY <1>3, <4>2
        <5> QED BY <5>1, <5>3, <5>4, <5>5
      <4>6. CASE chars[p] \notin operators
        <5>1. t.type = TK_WORD
          BY <4>4, <4>6 DEF TypeOf
        <5>2. S(p) = {p} \cup S(e) /\ p \notin S(e)
          BY <3>1, <3>3, <4>1, <4>6, StartsStep
        <5>3. Begins(e)
          <6>1. e <= n => chars[e] \in Spaces
            BY <3>1, <4>6, TokenEnds
          <6> HIDE DEF e
          <6> QED BY <1>1, <4>2, <6>1
        <5> HIDE DEF e, t, R, Begins
        <5>4. W(p) = W(e) + 1
          BY <4>3, <5>1, WordsFirst
        <5>5. W(e) = Cardinality(S(e))
          BY <1>3, <4>2, <5>3
        <5> HIDE DEF S
        <5>6. Cardinality(S(e) \cup {p}) = Cardinality(S(e)) + 1
          BY <1>2, <4>2, <5>2, FS_AddElement
        <5>7. S(p) = S(e) \cup {p}
          BY <5>2
        <5> QED BY <5>4, <5>5, <5>6, <5>7
      <4> QED BY <4>5, <4>6
    <3> QED BY <3>2, <3>3
  <2> QED BY <2>1, <2>2
<1> HIDE DEF P
<1>4. 1 \in P
  BY <1>1, <1>3, InductionFromTheEnd
<1>5. Begins(1)
  BY DEF Fresh
<1> QED BY <1>4, <1>5 DEF P

(***************************************************************************)
(* The tokens of every line are its characters without the spaces, each an *)
(* operator of the shell or a word, and a word begins exactly where one    *)
(* should: the tokenizer loses, repeats and joins nothing.                 *)
(***************************************************************************)
THEOREM TokensCorrect == Spec => []TokensAreTheLine
<1>1. IInv => TokensAreTheLine
  <2> SUFFICES ASSUME IInv, outcome # Prompt PROVE TokensAreTheLine
    BY DEF TokensAreTheLine
  <2> DEFINE operators == Operators[program]
             chars == Characters
             n == Len(chars)
             AllKept == [p \in DOMAIN Characters |-> Kept(Characters[p])]
             AllTexts == [i \in DOMAIN tokens |-> tokens[i].text]
             WordTokens == {i \in DOMAIN tokens : tokens[i].type = TK_WORD}
             Begun == {p \in DOMAIN Characters :
                           /\ Characters[p] \notin Spaces \cup operators
                           /\ \A q \in 1 .. p - 1 :
                                 (\A r \in q .. p - 1 : Characters[r] \notin Spaces)
                                     => Characters[q] \in operators}
  <2>1. /\ chars \in Seq(Chars) /\ operators \in SUBSET Chars
        /\ tokens = Tokenized(chars, operators)
    <3>1. line \in Seq(Pieces) /\ program \in {"Shell_1", "Shell_2", "Shell_3"}
      BY DEF IInv
    <3>2. chars \in Seq(Chars)
      BY <3>1, CharactersType
    <3>3. operators \in SUBSET Chars
      BY <3>1, OperatorsAre
    <3>4. tokens = Tokenized(Characters, Operators[program])
      BY DEF IInv
    <3> QED BY <3>2, <3>3, <3>4
  <2>2. n \in Nat /\ DOMAIN Characters = 1 .. n
    BY <2>1
  <2> HIDE DEF chars, operators
  <2>3. PICK f : TokensFrom(f, chars, operators)
    BY <2>1, TokenizerRuns
  <2>4. tokens = f[1]
    BY <2>1, <2>3 DEF TokensFrom
  <2>5. FlattenSeq(AllTexts) = FlattenSeq(AllKept)
    <3>1. Texts(tokens) = AllTexts
      BY DEF Texts
    <3>2. [q \in 1 .. n + 1 - 1 |-> Kept(chars[1 + q - 1])] = AllKept
      <4>1. n + 1 - 1 = n /\ \A q \in 1 .. n : 1 + q - 1 = q
        BY <2>2
      <4> QED BY <2>2, <4>1 DEF chars
    <3>3. KeptFrom(chars, 1) = FlattenSeq(AllKept)
      BY <3>2 DEF KeptFrom
    <3> HIDE DEF AllTexts, AllKept
    <3> QED BY <2>1, <2>3, <2>4, <3>1, <3>3, TextsAreKept
  <2>6. \A i \in DOMAIN tokens :
           IF tokens[i].type = TK_WORD THEN tokens[i].text[1] \notin operators
           ELSE tokens[i].text = <<tokens[i].type>>
    <3>1. tokens \in Seq(TokensOf(operators))
      BY <2>1, TokenizedType
    <3>2. \A i \in DOMAIN tokens : tokens[i] \in TokensOf(operators)
      BY <3>1
    <3> QED BY <3>2 DEF TokensOf
  <2>7. Cardinality(WordTokens) = Cardinality(Begun)
    <3>1. WordTokens = WordsOf(f[1])
      BY <2>4 DEF WordsOf
    <3>2. Begun = WordStarts(chars, operators, 1)
      BY <2>2 DEF WordStarts, Fresh, chars
    <3> HIDE DEF WordTokens, Begun
    <3> QED BY <2>1, <2>3, <3>1, <3>2, WordsAreCounted
  <2> QED BY <2>5, <2>6, <2>7 DEF TokensAreTheLine, operators, Kept
<1> QED BY <1>1, InvariantCorrect, PTL
============================================================================
