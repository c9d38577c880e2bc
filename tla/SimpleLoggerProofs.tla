------------------------- MODULE SimpleLoggerProofs -------------------------
(***************************************************************************)
(* Proofs about SimpleLogger, for any input, any number of faults and any  *)
(* radix of the numbers: a name that create_new_name writes is read back   *)
(* by read_count_from_entry_name, the archives stay in order, no step      *)
(* destroys one, no line is lost, the exit status is right, and a SIGHUP   *)
(* stays pending until it is served.                                       *)
(***************************************************************************)
EXTENDS SimpleLogger, Induction, SequenceTheorems, FiniteSetTheorems

(***************************************************************************)
(* The number that read_count_from_entry_name computes from the digits.    *)
(***************************************************************************)
Value(seq) == FoldLeft(LAMBDA number, digit : number * Radix + digit, 0, seq)

\* The running results of that loop.
Numbers(g, seq) ==
    /\ g \in [0 .. Len(seq) -> Nat]
    /\ g[0] = 0
    /\ \A k \in 0 .. Len(seq) - 1 : g[k + 1] = g[k] * Radix + seq[k + 1]

\* The number that read_count_from_entry_name computes is the last of a run over
\* the digits.
LEMMA ValueRuns ==
    ASSUME NEW seq \in Seq(0 .. Radix)
    PROVE  \E g : Numbers(g, seq) /\ Value(seq) = g[Len(seq)]
<1> DEFINE n == Len(seq)
           D == 0 .. Radix
           step == [p \in Nat \X D |-> p[1] * Radix + p[2]]
           IsFold(h) == h = [s \in SUBSET (1 .. n) |->
                                IF s = {} THEN 0 ELSE h[s \ {Max(s)}] * Radix + seq[Max(s)]]
           iter == CHOOSE h : IsFold(h)
<1>0. Radix \in Nat /\ n \in Nat /\ DOMAIN seq = 1 .. n
      /\ \A k \in 1 .. n : seq[k] \in D
  BY RadixAssumption
<1>1. ASSUME NEW a \in Nat, NEW d \in D
      PROVE  a * Radix + d \in Nat /\ step[<<a, d>>] = a * Radix + d
  <2>1. a * Radix \in Nat /\ d \in Nat
    BY <1>0
  <2>2. step[<<a, d>>] = a * Radix + d
    OBVIOUS
  <2> QED BY <2>1, <2>2
<1>2. step \in [Nat \X D -> Nat]
  <2>1. \A p \in Nat \X D : p[1] * Radix + p[2] \in Nat
    BY <1>1
  <2> QED BY <2>1
<1>3. seq \in Seq(D) /\ n <= Len(seq) /\ 0 \in Nat
  BY <1>0
<1>4. Value(seq) = iter[1 .. n]
  BY <1>0 DEF Value, FoldLeft, MapThenFoldSet
<1> HIDE DEF step, D, n
<1>5. \A s \in SUBSET (1 .. n) : s # {} => Max(s) \in s /\ s \ {Max(s)} \in SUBSET (1 .. n)
  <2> TAKE s \in SUBSET (1 .. n)
  <2> HAVE s # {}
  <2>1. s \in SUBSET Nat /\ \A m \in s : m <= n
    BY <1>0
  <2> QED BY <1>0, <2>1, Largest
<1>6. \E h : IsFold(h)
  <2>1. PICK h \in [SUBSET (1 .. n) -> Nat] : Folds(h, 0, step, seq, n)
    BY <1>0, <1>2, <1>3, FoldsExist DEF n
  <2>2. ASSUME NEW s \in SUBSET (1 .. n), s # {}
        PROVE  step[<<h[s \ {Max(s)}], seq[Max(s)]>>] = h[s \ {Max(s)}] * Radix + seq[Max(s)]
    <3>1. h[s \ {Max(s)}] \in Nat /\ seq[Max(s)] \in D
      BY <1>0, <1>5, <2>2
    <3> QED BY <1>1, <3>1
  <2> DEFINE e(s) == IF s = {} THEN 0 ELSE h[s \ {Max(s)}] * Radix + seq[Max(s)]
  <2>3. \A s \in SUBSET (1 .. n) : h[s] = e(s)
    BY <2>1, <2>2 DEF Folds
  <2> HIDE DEF e
  <2>4. h = [s \in SUBSET (1 .. n) |-> e(s)]
    BY <2>1, <2>3
  <2>5. IsFold(h)
    BY <2>4 DEF e
  <2> HIDE DEF IsFold
  <2> QED BY <2>5
<1>7. IsFold(iter)
  BY <1>6, Zenon
<1> HIDE DEF iter
<1>8. iter[{}] = 0
  BY <1>7
<1>9. ASSUME NEW s \in SUBSET (1 .. n), s # {}, iter[s \ {Max(s)}] \in Nat
      PROVE  iter[s] = step[<<iter[s \ {Max(s)}], seq[Max(s)]>>]
  <2>1. seq[Max(s)] \in D
    BY <1>0, <1>5, <1>9
  <2>2. iter[s] = iter[s \ {Max(s)}] * Radix + seq[Max(s)]
    BY <1>7, <1>9
  <2> QED BY <1>1, <1>9, <2>1, <2>2
<1> HIDE DEF IsFold
<1>10. FoldsWithin(iter, Nat, 0, step, seq)
  BY <1>8, <1>9 DEF FoldsWithin, n
<1>11. PICK g : Runs(g, Nat, 0, step, seq) /\ iter[1 .. n] = g[n]
  <2>1. IsRunOf(iter[1 .. Len(seq)], Nat, 0, step, seq)
    BY <1>2, <1>3, <1>10, FoldsRun
  <2> QED BY <2>1 DEF IsRunOf, n
<1>12. Numbers(g, seq)
  <2>1. ASSUME NEW k \in 0 .. Len(seq) - 1 PROVE g[k + 1] = g[k] * Radix + seq[k + 1]
    <3>1. k \in 0 .. Len(seq) /\ k + 1 \in 1 .. n
      BY <1>0 DEF n
    <3>2. g[k] \in Nat /\ seq[k + 1] \in D
      BY <1>0, <1>11, <3>1 DEF Runs
    <3> QED BY <1>1, <1>11, <3>2 DEF Runs
  <2> QED BY <1>11, <2>1 DEF Runs, Numbers
<1> QED BY <1>4, <1>11, <1>12 DEF n

(***************************************************************************)
(* What the loop of read_count_from_entry_name computes, one digit at a    *)
(* time.                                                                   *)
(***************************************************************************)
LEMMA ValueOfDigits ==
    /\ \A seq \in Seq(0 .. Radix) : Value(seq) \in Nat
    /\ Value(<<>>) = 0
    /\ \A seq \in Seq(0 .. Radix), digit \in 0 .. Radix :
          Value(Append(seq, digit)) = Value(seq) * Radix + digit
<1>0. Radix \in Nat
  BY RadixAssumption
<1>1. ASSUME NEW seq \in Seq(0 .. Radix) PROVE Value(seq) \in Nat
  <2>1. PICK g : Numbers(g, seq) /\ Value(seq) = g[Len(seq)]
    BY ValueRuns
  <2>2. Len(seq) \in 0 .. Len(seq)
    OBVIOUS
  <2> QED BY <2>1, <2>2 DEF Numbers
<1>2. Value(<<>>) = 0
  <2>1. <<>> \in Seq(0 .. Radix) /\ Len(<<>>) = 0
    OBVIOUS
  <2>2. PICK g : Numbers(g, <<>>) /\ Value(<<>>) = g[Len(<<>>)]
    BY <2>1, ValueRuns
  <2> QED BY <2>1, <2>2 DEF Numbers
<1>3. ASSUME NEW seq \in Seq(0 .. Radix), NEW digit \in 0 .. Radix
      PROVE  Value(Append(seq, digit)) = Value(seq) * Radix + digit
  <2> DEFINE more == Append(seq, digit)
             n == Len(seq)
  <2>1. /\ more \in Seq(0 .. Radix) /\ Len(more) = n + 1 /\ n \in Nat
        /\ more[n + 1] = digit /\ \A k \in 1 .. n : more[k] = seq[k]
    OBVIOUS
  <2> HIDE DEF more
  <2>2. PICK g : Numbers(g, seq) /\ Value(seq) = g[n]
    BY ValueRuns
  <2>3. PICK h : Numbers(h, more) /\ Value(more) = h[n + 1]
    BY <2>1, ValueRuns
  <2> DEFINE P == {k \in Nat : k <= n => g[k] = h[k]}
  <2>4. 0 \in P
    BY <2>2, <2>3 DEF Numbers
  <2>5. ASSUME NEW k \in P PROVE k + 1 \in P
    <3> SUFFICES ASSUME k + 1 <= n PROVE g[k + 1] = h[k + 1]
      OBVIOUS
    <3>1. k \in 0 .. n - 1 /\ k \in 0 .. (n + 1) - 1 /\ k + 1 \in 1 .. n /\ g[k] = h[k]
      BY <2>1
    <3>2. g[k + 1] = g[k] * Radix + seq[k + 1]
      BY <2>2, <3>1 DEF Numbers
    <3>3. h[k + 1] = h[k] * Radix + more[k + 1]
      BY <2>1, <2>3, <3>1 DEF Numbers
    <3> QED BY <2>1, <3>1, <3>2, <3>3
  <2> HIDE DEF P
  <2>6. P = Nat
    <3>1. P \in SUBSET Nat
      BY DEF P
    <3> QED BY <2>4, <2>5, <3>1, SetInduction
  <2>7. g[n] = h[n] /\ n \in 0 .. (n + 1) - 1
    BY <2>1, <2>6 DEF P
  <2>8. h[n + 1] = h[n] * Radix + digit
    BY <2>1, <2>3, <2>7 DEF Numbers
  <2> QED BY <2>2, <2>3, <2>7, <2>8 DEF more
<1> QED BY <1>1, <1>2, <1>3
(***************************************************************************)
(* The digits that create_new_name writes.                                 *)
(***************************************************************************)
LEMMA Division ==
    ASSUME NEW n \in Nat, n # 0
    PROVE  /\ n \div Radix \in 0 .. n - 1
           /\ n % Radix \in Digits
           /\ n = (n \div Radix) * Radix + (n % Radix)
<1>1. Radix \in Nat /\ Radix > 1
  BY RadixAssumption
<1> DEFINE q == n \div Radix
           r == n % Radix
<1>2. r \in 0 .. Radix - 1
  BY <1>1
<1>3. q \in Int
  BY <1>1
<1>4. n = q * Radix + r
  BY <1>1
<1> HIDE DEF q, r
<1>5. ASSUME NEW a \in Nat PROVE a * Radix \in Nat /\ a * Radix >= a * 2
  BY <1>1
<1>6. q >= 0
  <2> SUFFICES ASSUME q <= -1 PROVE FALSE
    BY <1>3
  <2> DEFINE a == -1 - q
  <2>1. a \in Nat
    BY <1>3
  <2>2. a * Radix = -Radix - q * Radix
    BY <1>1, <1>3
  <2>3. -Radix - q * Radix >= 0
    BY <1>5, <2>1, <2>2
  <2>4. q * Radix \in Int
    BY <1>1, <1>3
  <2> QED BY <1>1, <1>2, <1>4, <2>3, <2>4
<1>7. q < n
  <2> SUFFICES ASSUME q >= n PROVE FALSE
    BY <1>3
  <2>1. q * Radix >= q * 2 /\ q * Radix \in Nat
    BY <1>3, <1>5, <1>6
  <2> QED BY <1>1, <1>2, <1>3, <1>4, <2>1
<1> QED BY <1>2, <1>3, <1>4, <1>6, <1>7 DEF q, r, Digits

\* A function that is DigitsOf for the numbers up to n.
DigitsUpTo(d, n) ==
    d = [m \in 0 .. n |-> IF m = 0 THEN <<>> ELSE Append(d[m \div Radix], m % Radix)]

\* The recursion of digits is well defined up to any number.
LEMMA DigitsUpToExist ==
    ASSUME NEW n \in Nat
    PROVE  \E d \in [0 .. n -> Seq(Digits)] : DigitsUpTo(d, n)
<1> DEFINE Has(k) == \E d \in [0 .. k -> Seq(Digits)] : DigitsUpTo(d, k)
           P == {k \in Nat : Has(k)}
<1>1. Has(0)
  <2> DEFINE d == [m \in 0 .. 0 |-> <<>>]
  <2>1. \A m \in 0 .. 0 : m = 0
    OBVIOUS
  <2>2. d \in [0 .. 0 -> Seq(Digits)] /\ DigitsUpTo(d, 0)
    BY <2>1 DEF DigitsUpTo
  <2> QED BY <2>2
<1>2. ASSUME NEW k \in Nat, Has(k) PROVE Has(k + 1)
  <2>1. PICK d \in [0 .. k -> Seq(Digits)] : DigitsUpTo(d, k)
    BY <1>2
  <2> DEFINE new == Append(d[(k + 1) \div Radix], (k + 1) % Radix)
             e == [m \in 0 .. k + 1 |-> IF m = k + 1 THEN new ELSE d[m]]
  <2>2. k + 1 \in Nat /\ k + 1 # 0 /\ (k + 1) - 1 = k
    OBVIOUS
  <2>3. (k + 1) \div Radix \in 0 .. k /\ (k + 1) % Radix \in Digits
    BY <2>2, Division
  <2>4. new \in Seq(Digits)
    BY <2>1, <2>3
  <2>5. e \in [0 .. k + 1 -> Seq(Digits)]
    <3> HIDE DEF new
    <3>1. \A m \in 0 .. k + 1 : m # k + 1 => m \in 0 .. k
      OBVIOUS
    <3> QED BY <2>1, <2>4, <3>1
  <2>6. ASSUME NEW m \in 0 .. k + 1
        PROVE  e[m] = IF m = 0 THEN <<>> ELSE Append(e[m \div Radix], m % Radix)
    <3>1. CASE m = k + 1
      <4>1. e[m \div Radix] = d[m \div Radix]
        <5>1. m \div Radix \in 0 .. k + 1 /\ m \div Radix # k + 1
          BY <2>3, <3>1
        <5> QED BY <5>1
      <4>2. e[m] = new
        BY <2>2, <3>1
      <4> QED BY <2>2, <3>1, <4>1, <4>2
    <3>2. CASE m # k + 1
      <4>1. m \in 0 .. k
        BY <3>2
      <4>2. e[m] = d[m]
        BY <3>2
      <4>3. d[m] = IF m = 0 THEN <<>> ELSE Append(d[m \div Radix], m % Radix)
        BY <2>1, <4>1 DEF DigitsUpTo
      <4>4. m # 0 => m \div Radix \in 0 .. k + 1 /\ m \div Radix # k + 1
        <5>1. m # 0 => m \div Radix \in 0 .. m - 1
          BY <4>1, Division
        <5> HIDE DEF e, new
        <5> QED BY <4>1, <5>1
      <4>5. m # 0 => e[m \div Radix] = d[m \div Radix]
        BY <4>4
      <4> HIDE DEF e
      <4> QED BY <4>2, <4>3, <4>5
    <3> QED BY <3>1, <3>2
  <2> HIDE DEF e
  <2>7. DigitsUpTo(e, k + 1)
    BY <2>5, <2>6 DEF DigitsUpTo
  <2> QED BY <2>5, <2>7
<1> HIDE DEF Has
<1>3. P \in SUBSET Nat /\ 0 \in P /\ \A k \in P : k + 1 \in P
  BY <1>1, <1>2
<1> HIDE DEF P
<1>4. n \in P
  BY <1>3, SetInduction
<1>5. Has(n)
  BY <1>4 DEF P
<1> QED BY <1>5 DEF Has
\* DigitsOf is the function its recursive definition says.
LEMMA DigitsOfNumber ==
    /\ DigitsOf \in [Nat -> Seq(Digits)]
    /\ \A n \in Nat : DigitsOf[n] =
          IF n = 0 THEN <<>> ELSE Append(DigitsOf[n \div Radix], n % Radix)
<1> DEFINE up(n) == CHOOSE d : d \in [0 .. n -> Seq(Digits)] /\ DigitsUpTo(d, n)
           D == [n \in Nat |-> up(n)[n]]
           Next_digit(d, n) == IF n = 0 THEN <<>> ELSE Append(d[n \div Radix], n % Radix)
<1>1. ASSUME NEW n \in Nat PROVE up(n) \in [0 .. n -> Seq(Digits)] /\ DigitsUpTo(up(n), n)
  <2>1. \E d : d \in [0 .. n -> Seq(Digits)] /\ DigitsUpTo(d, n)
    BY DigitsUpToExist
  <2> QED BY <2>1, Zenon
<1> HIDE DEF up
<1>2. ASSUME NEW m \in Nat, NEW n \in Nat, NEW k \in Nat, k <= m, k <= n
      PROVE  up(m)[k] = up(n)[k]
  <2> DEFINE T == {l \in Nat : l <= m /\ l <= n /\ up(m)[l] # up(n)[l]}
  <2> SUFFICES ASSUME T # {} PROVE FALSE
    BY <1>2
  <2>1. T \in SUBSET Nat
    OBVIOUS
  <2>2. PICK l \in T : \A j \in T : l <= j
    <3> HIDE DEF T
    <3> QED BY <2>1, Smallest
  <2>3. l \in Nat /\ l \in 0 .. m /\ l \in 0 .. n /\ up(m)[l] # up(n)[l]
    BY <2>2
  <2>4. up(m)[l] = Next_digit(up(m), l) /\ up(n)[l] = Next_digit(up(n), l)
    BY <1>1, <2>3 DEF DigitsUpTo
  <2>5. l # 0
    BY <2>3, <2>4
  <2>6. l \div Radix \in 0 .. l - 1
    BY <2>3, <2>5, Division
  <2>7. /\ l \div Radix \in Nat /\ l \div Radix <= m /\ l \div Radix <= n
        /\ ~(l <= l \div Radix)
    BY <2>3, <2>6
  <2>8. up(m)[l \div Radix] = up(n)[l \div Radix]
    BY <2>2, <2>7
  <2> QED BY <2>3, <2>4, <2>5, <2>8
<1>3. ASSUME NEW n \in Nat PROVE D[n] = Next_digit(D, n) /\ D[n] \in Seq(Digits)
  <2>1. n \in 0 .. n /\ n <= n
    OBVIOUS
  <2>2. D[n] = Next_digit(up(n), n) /\ D[n] \in Seq(Digits)
    BY <1>1, <2>1 DEF DigitsUpTo
  <2>3. n # 0 => up(n)[n \div Radix] = D[n \div Radix]
    <3> SUFFICES ASSUME n # 0 PROVE up(n)[n \div Radix] = D[n \div Radix]
      OBVIOUS
    <3>1. n \div Radix \in 0 .. n - 1
      BY Division
    <3> DEFINE q == n \div Radix
    <3>2. q \in Nat /\ q <= q /\ q <= n
      BY <3>1
    <3> HIDE DEF q
    <3>3. up(n)[q] = up(q)[q]
      BY <1>2, <3>2
    <3>4. D[q] = up(q)[q]
      BY <3>2
    <3> QED BY <3>3, <3>4 DEF q
  <2> HIDE DEF D
  <2> QED BY <2>2, <2>3
<1>4. D = [n \in Nat |-> Next_digit(D, n)]
  <2> DEFINE e(n) == Next_digit(D, n)
  <2>1. \A n \in Nat : D[n] = e(n)
    BY <1>3
  <2>2. D = [n \in Nat |-> D[n]]
    OBVIOUS
  <2> HIDE DEF D, e
  <2>3. D = [n \in Nat |-> e(n)]
    BY <2>1, <2>2
  <2> QED BY <2>3 DEF e
<1>5. DigitsOf = [n \in Nat |-> Next_digit(DigitsOf, n)]
  <2> HIDE DEF D
  <2>1. \E d : d = [n \in Nat |-> Next_digit(d, n)]
    BY <1>4, Zenon
  <2> QED BY <2>1, Zenon DEF DigitsOf
<1> HIDE DEF D
<1>6. ASSUME NEW n \in Nat PROVE DigitsOf[n] = Next_digit(DigitsOf, n)
  BY <1>5
<1>7. ASSUME NEW n \in Nat PROVE DigitsOf[n] \in Seq(Digits)
  <2> DEFINE T == {l \in Nat : DigitsOf[l] \notin Seq(Digits)}
  <2> SUFFICES ASSUME T # {} PROVE FALSE
    OBVIOUS
  <2>1. T \in SUBSET Nat
    OBVIOUS
  <2>2. PICK l \in T : \A j \in T : l <= j
    <3> HIDE DEF T
    <3> QED BY <2>1, Smallest
  <2>3. l \in Nat /\ DigitsOf[l] \notin Seq(Digits)
    BY <2>2
  <2>4. DigitsOf[l] = Next_digit(DigitsOf, l)
    BY <1>6, <2>3
  <2>5. l # 0
    BY <2>3, <2>4
  <2>6. l \div Radix \in 0 .. l - 1 /\ l % Radix \in Digits
    BY <2>3, <2>5, Division
  <2>7. l \div Radix \in Nat /\ ~(l <= l \div Radix)
    BY <2>3, <2>6
  <2>8. DigitsOf[l \div Radix] \in Seq(Digits)
    BY <2>2, <2>7
  <2> QED BY <2>3, <2>4, <2>5, <2>6, <2>8
<1>8. DigitsOf \in [Nat -> Seq(Digits)]
  <2>1. DOMAIN DigitsOf = Nat /\ DigitsOf = [n \in Nat |-> DigitsOf[n]]
    BY <1>5
  <2> QED BY <1>7, <2>1
<1> QED BY <1>6, <1>8

(***************************************************************************)
(* The digits of a number have the number for their value.                 *)
(***************************************************************************)
LEMMA ValueOfDigitsOf ==
    ASSUME NEW n \in Nat
    PROVE  /\ Value(DigitsOf[n]) = n
           /\ DigitsOf[n] \in Seq(0 .. Radix)
           /\ n # 0 => Len(DigitsOf[n]) > 0
<1>0. Radix \in Nat /\ Digits \subseteq 0 .. Radix
  BY RadixAssumption DEF Digits
<1>1. ASSUME NEW k \in Nat PROVE DigitsOf[k] \in Seq(0 .. Radix)
  <2>1. DigitsOf[k] \in Seq(Digits)
    BY DigitsOfNumber
  <2> QED BY <1>0, <2>1, SeqMonotonic
<1>2. Value(DigitsOf[n]) = n
  <2> DEFINE T == {l \in Nat : Value(DigitsOf[l]) # l}
  <2> SUFFICES ASSUME T # {} PROVE FALSE
    OBVIOUS
  <2>1. T \in SUBSET Nat
    OBVIOUS
  <2>2. PICK l \in T : \A j \in T : l <= j
    <3> HIDE DEF T
    <3> QED BY <2>1, Smallest
  <2>3. l \in Nat /\ Value(DigitsOf[l]) # l
    BY <2>2
  <2>4. l # 0
    BY <2>3, DigitsOfNumber, ValueOfDigits
  <2> DEFINE q == l \div Radix
             r == l % Radix
  <2>5. q \in 0 .. l - 1 /\ r \in Digits /\ l = q * Radix + r
    BY <2>3, <2>4, Division
  <2>6. DigitsOf[l] = Append(DigitsOf[q], r)
    BY <2>3, <2>4, DigitsOfNumber
  <2> HIDE DEF q, r
  <2>7. q \in Nat /\ ~(l <= q) /\ r \in 0 .. Radix
    BY <1>0, <2>3, <2>5
  <2>8. Value(DigitsOf[q]) = q
    BY <2>2, <2>7
  <2>9. Value(DigitsOf[l]) = Value(DigitsOf[q]) * Radix + r
    BY <1>1, <2>6, <2>7, ValueOfDigits
  <2> QED BY <2>3, <2>5, <2>8, <2>9
<1>3. n # 0 => Len(DigitsOf[n]) > 0
  <2> SUFFICES ASSUME Len(DigitsOf[n]) = 0 PROVE n = 0
    BY <1>1
  <2>1. DigitsOf[n] = <<>>
    BY <1>1, EmptySeq
  <2> QED BY <1>2, <2>1, ValueOfDigits
<1> QED BY <1>1, <1>2, <1>3
(***************************************************************************)
(* What read_count_from_entry_name gives for any entry of the directory.   *)
(***************************************************************************)
IsNumber(entry) ==
    /\ Len(entry) > 2
    /\ SubSeq(entry, 1, 1) = file_name
    /\ entry[2] = Dot
    /\ \A k \in DOMAIN SubSeq(entry, 3, Len(entry)) :
          SubSeq(entry, 3, Len(entry))[k] \in 0 .. Radix

\* read_count_from_entry_name in one line: the value of the digits, or 0.
LEMMA ReadCount ==
    ASSUME NEW entry
    PROVE  read_count_from_entry_name(entry, file_name) =
              IF IsNumber(entry) THEN Value(SubSeq(entry, 3, Len(entry))) ELSE 0
<1> DEFINE size == Len(file_name)
           after(m) == SubSeq(entry, m + 2, Len(entry))
           Number(m) == /\ Len(entry) > m + 1
                        /\ SubSeq(entry, 1, m) = file_name
                        /\ entry[m + 1] = Dot
                        /\ \A k \in DOMAIN after(m) : after(m)[k] \in 0 .. Radix
<1>1. read_count_from_entry_name(entry, file_name) =
          IF Number(size) THEN Value(after(size)) ELSE 0
  BY DEF read_count_from_entry_name, Value
<1>2. size = 1 /\ 1 + 1 = 2 /\ 1 + 2 = 3
  BY DEF file_name
<1> HIDE DEF size, after, Number
<1>3. read_count_from_entry_name(entry, file_name) =
          IF Number(1) THEN Value(after(1)) ELSE 0
  BY <1>1, <1>2
<1>4. after(1) = SubSeq(entry, 3, Len(entry))
  BY <1>2 DEF after
<1>5. Number(1) <=> IsNumber(entry)
  BY <1>2, <1>4 DEF Number, IsNumber
<1> QED BY <1>3, <1>4, <1>5

\* read_count_from_entry_name never returns a negative number.
LEMMA ReadCountType ==
    ASSUME NEW entry \in Seq(Int)
    PROVE  read_count_from_entry_name(entry, file_name) \in Nat
<1> SUFFICES ASSUME IsNumber(entry) PROVE Value(SubSeq(entry, 3, Len(entry))) \in Nat
  BY ReadCount
<1> DEFINE after == SubSeq(entry, 3, Len(entry))
<1>1. after \in Seq(Int)
  OBVIOUS
<1>2. \A k \in DOMAIN after : after[k] \in 0 .. Radix
  BY DEF IsNumber
<1>3. after \in Seq(0 .. Radix)
  <2> HIDE DEF after
  <2>1. after \in [1 .. Len(after) -> 0 .. Radix] /\ Len(after) \in Nat
    BY <1>1, <1>2
  <2>2. after \in UNION {[1 .. n -> 0 .. Radix] : n \in Nat}
    BY <2>1
  <2> QED BY <2>2, SeqDef, Zenon
<1> QED BY <1>3, ValueOfDigits

(***************************************************************************)
(* read_count_from_entry_name reads what create_new_name wrote, whatever   *)
(* the number of its digits.                                               *)
(***************************************************************************)
THEOREM NamesAgree ==
    \A n \in Nat \ {0} :
        read_count_from_entry_name(create_new_name(file_name, n), file_name) = n
<1> TAKE n \in Nat \ {0}
<1> DEFINE d == DigitsOf[n]
           entry == create_new_name(file_name, n)
           after == SubSeq(entry, 3, Len(entry))
<1>1. d \in Seq(0 .. Radix) /\ Value(d) = n /\ Len(d) > 0 /\ Len(d) \in Nat
  BY ValueOfDigitsOf
<1>2. Radix \in Nat /\ Letter \in Int /\ Dot \in Int
  BY RadixAssumption DEF Letter, Dot
<1>3. d \in Seq(Int) /\ \A k \in 1 .. Len(d) : d[k] \in 0 .. Radix
  <2>1. 0 .. Radix \subseteq Int
    OBVIOUS
  <2> QED BY <1>1, <2>1, SeqMonotonic, ElementOfSeq
<1> DEFINE front == <<Letter>> \o <<Dot>>
<1>4. front \in Seq(Int) /\ Len(front) = 2 /\ front[1] = Letter /\ front[2] = Dot
  BY <1>2
<1>5. entry = front \o d
  BY DEF create_new_name, file_name
<1> HIDE DEF d, front
<1>6. /\ entry \in Seq(Int) /\ Len(entry) = Len(d) + 2
      /\ entry[1] = Letter /\ entry[2] = Dot
      /\ \A k \in 1 .. Len(d) : entry[k + 2] = d[k]
  <2> HIDE DEF entry
  <2>1. /\ entry \in Seq(Int) /\ Len(entry) = Len(front) + Len(d)
        /\ \A k \in 1 .. Len(front) + Len(d) :
              entry[k] = IF k <= Len(front) THEN front[k] ELSE d[k - Len(front)]
    BY <1>3, <1>4, <1>5, ConcatProperties
  <2>2. Len(front) + Len(d) = Len(d) + 2 /\ 1 \in 1 .. Len(d) + 2 /\ 2 \in 1 .. Len(d) + 2
    BY <1>1, <1>4
  <2>3. entry[1] = Letter /\ entry[2] = Dot
    BY <1>4, <2>1, <2>2
  <2>4. ASSUME NEW k \in 1 .. Len(d) PROVE entry[k + 2] = d[k]
    <3>1. k + 2 \in 1 .. Len(d) + 2 /\ ~(k + 2 <= 2) /\ (k + 2) - 2 = k
      BY <1>1
    <3> QED BY <1>4, <2>1, <2>2, <3>1
  <2> QED BY <2>1, <2>2, <2>3, <2>4
<1> HIDE DEF entry
<1>7. after = d
  <2>1. after \in Seq(Int) /\ Len(after) = Len(d)
    BY <1>1, <1>6
  <2>2. \A k \in 1 .. Len(d) : after[k] = d[k]
    BY <1>1, <1>6
  <2> HIDE DEF after
  <2> QED BY <1>3, <2>1, <2>2, SeqEqual
<1> HIDE DEF after
<1>8. SubSeq(entry, 1, 1) = file_name
  <2> DEFINE first == SubSeq(entry, 1, 1)
  <2>1. first \in Seq(Int) /\ Len(first) = 1 /\ first[1] = Letter
    BY <1>1, <1>6
  <2>2. file_name \in Seq(Int) /\ Len(file_name) = 1 /\ file_name[1] = Letter
    BY <1>2 DEF file_name
  <2> HIDE DEF first
  <2>3. \A k \in 1 .. Len(first) : first[k] = file_name[k]
    BY <2>1, <2>2
  <2>4. first = file_name
    BY <2>1, <2>2, <2>3, SeqEqual
  <2> QED BY <2>4 DEF first
<1>9. Len(entry) > 2
  BY <1>1, <1>6
<1>10. \A k \in DOMAIN d : d[k] \in 0 .. Radix
  BY <1>3
<1>11. IsNumber(entry)
  BY <1>6, <1>7, <1>8, <1>9, <1>10 DEF IsNumber, after
<1>12. read_count_from_entry_name(entry, file_name) = Value(after)
  BY <1>11, ReadCount DEF after
<1> QED BY <1>1, <1>7, <1>12 DEF entry
\* The names in Harmless are not numbers.
LEMMA HarmlessCountsZero ==
    \A entry \in Harmless \cup {file_name} :
        entry \in Seq(Int) /\ read_count_from_entry_name(entry, file_name) = 0
<1> DEFINE H(entry) == entry \in Seq(Int) /\ ~IsNumber(entry)
<1>1. Radix \in Nat /\ Letter = Radix + 1 /\ Dot = -1 /\ file_name = <<Letter>> /\ Radix # 0
  BY RadixAssumption DEF Letter, Dot, file_name
<1>2. H(<<Letter>>) /\ H(<<Dot>>) /\ H(<<Letter, Dot>>)
  BY <1>1 DEF IsNumber
<1>3. H(<<Letter, Letter, 1, 1>>) /\ H(<<Letter, Letter, Dot, 1>>)
  BY <1>1 DEF IsNumber
<1>4. H(<<Letter, Dot, 1, Letter>>)
  <2> DEFINE e == <<Letter, Dot, 1, Letter>>
             after == SubSeq(e, 3, 4)
  <2>1. after \in Seq(Int) /\ Len(after) = 2 /\ after[2] = Letter
    BY <1>1
  <2>2. 2 \in DOMAIN after /\ after[2] \notin 0 .. Radix
    BY <1>1, <2>1
  <2>3. Len(e) = 4 /\ e \in Seq(Int)
    BY <1>1
  <2> HIDE DEF e
  <2>4. H(e)
    BY <2>2, <2>3 DEF IsNumber
  <2> QED BY <2>4 DEF e
<1>5. H(<<Letter, Dot, 1, Dot>>)
  <2> DEFINE e == <<Letter, Dot, 1, Dot>>
             after == SubSeq(e, 3, 4)
  <2>1. after \in Seq(Int) /\ Len(after) = 2 /\ after[2] = Dot
    BY <1>1
  <2>2. 2 \in DOMAIN after /\ after[2] \notin 0 .. Radix
    BY <1>1, <2>1
  <2>3. Len(e) = 4 /\ e \in Seq(Int)
    BY <1>1
  <2> HIDE DEF e
  <2>4. H(e)
    BY <2>2, <2>3 DEF IsNumber
  <2> QED BY <2>4 DEF e
<1> HIDE DEF H
<1>6. \A entry \in Harmless \cup {file_name} : H(entry)
  BY <1>1, <1>2, <1>3, <1>4, <1>5 DEF Harmless
<1> QED BY <1>6, ReadCount DEF H

(***************************************************************************)
(* Found for any state of the directory: it holds the number of every      *)
(* archive, and nothing but these, the numbers of the strays and 0.        *)
(***************************************************************************)
LEMMA FoundNumbers ==
    ASSUME DOMAIN files \subseteq Nat, IsFiniteSet(DOMAIN files),
           strays \subseteq Harmless \cup Misleading
    PROVE  /\ Found \subseteq Nat
           /\ IsFiniteSet(Found)
           /\ Archives \subseteq Found
           /\ strays \subseteq Harmless => Found \subseteq Archives \cup {0}
<1> DEFINE name(n) == create_new_name(file_name, n)
           read(entry) == read_count_from_entry_name(entry, file_name)
<1>1. \A n \in Archives : read(name(n)) = n
  BY NamesAgree DEF Archives
<1>2. Harmless \cup {file_name} \subseteq Seq(Int) /\ \A e \in Harmless \cup {file_name} : read(e) = 0
  BY HarmlessCountsZero
<1>3. Misleading \subseteq Seq(Int)
  <2>1. Radix \in Int /\ Letter \in Int /\ Dot \in Int
    BY RadixAssumption DEF Letter, Dot
  <2> QED BY <2>1 DEF Misleading
<1>4. \A e \in Seq(Int) : read(e) \in Nat
  BY ReadCountType
<1> DEFINE numbers == {read(e) : e \in strays}
<1>5. Found = {read(file_name)} \cup Archives \cup numbers
  <2>1. Found = {read(e) : e \in {file_name} \cup {name(n) : n \in Archives} \cup strays}
    BY DEF Found, Entries
  <2> HIDE DEF read, name
  <2> QED BY <1>1, <2>1
<1> HIDE DEF read, name
<1>6. Found \subseteq Nat
  <2>1. Archives \subseteq Nat
    BY DEF Archives
  <2> QED BY <1>2, <1>3, <1>4, <1>5, <2>1
<1>7. strays \subseteq Harmless => Found \subseteq Archives \cup {0}
  BY <1>2, <1>5
<1>8. IsFiniteSet(Found)
  <2>1. IsFiniteSet(strays)
    <3>1. IsFiniteSet(Harmless \cup Misleading)
      <4>1. IsFiniteSet(Harmless) /\ IsFiniteSet(Misleading)
        <5>1. Harmless = {<<Dot>>} \cup ({<<Letter, Dot>>} \cup ({<<Letter, Letter, Dot, 1>>}
                          \cup ({<<Letter, Letter, 1, 1>>} \cup ({<<Letter, Dot, 1, Letter>>}
                          \cup {<<Letter, Dot, 1, Dot>>}))))
          BY Zenon DEF Harmless
        <5>2. Misleading = {<<Letter, Dot, Radix>>} \cup {<<Letter, Dot, 0, 1, 1>>}
          BY Zenon DEF Misleading
        <5> QED BY <5>1, <5>2, FS_Singleton, FS_Union
      <4> QED BY <4>1, FS_Union
    <3> QED BY <3>1, FS_Subset
  <2>2. IsFiniteSet(numbers)
    <3> DEFINE r == [e \in strays |-> read(e)]
    <3>1. r \in Surjection(strays, numbers)
      BY DEF Surjection
    <3> QED BY <2>1, <3>1, FS_Surjection
  <2>3. IsFiniteSet(Archives)
    BY FS_Subset DEF Archives
  <2> HIDE DEF numbers
  <2> QED BY <1>5, <2>2, <2>3, FS_Singleton, FS_Union
<1>9. Archives \subseteq Found
  BY <1>5
<1> QED BY <1>6, <1>7, <1>8, <1>9
\* A finite set of numbers has an upper bound.
LEMMA FiniteBounded ==
    ASSUME NEW T \in SUBSET Nat, IsFiniteSet(T)
    PROVE  \E b \in Nat : \A m \in T : m <= b
<1> DEFINE Lists(seq) == \A s \in T : \E n \in 1 .. Len(seq) : seq[n] = s
<1>0. \E seq \in Seq(T) : Lists(seq)
  BY Zenon DEF IsFiniteSet
<1>1. PICK seq \in Seq(T) : Lists(seq)
  BY <1>0
<1> DEFINE Bound(k, b) == \A j \in 1 .. Len(seq) : j <= k => seq[j] <= b
           P == {k \in Nat : \E b \in Nat : Bound(k, b)}
<1>2. Len(seq) \in Nat /\ \A j \in 1 .. Len(seq) : seq[j] \in Nat
  <2>1. Len(seq) \in Nat
    OBVIOUS
  <2>2. \A j \in 1 .. Len(seq) : seq[j] \in T
    BY ElementOfSeq
  <2> QED BY <2>1, <2>2
<1>3. 0 \in P
  <2>1. Bound(0, 0)
    BY <1>2
  <2> HIDE DEF Bound
  <2> QED BY <2>1
<1>4. ASSUME NEW k \in P PROVE k + 1 \in P
  <2>1. PICK b \in Nat : Bound(k, b)
    OBVIOUS
  <2>2. \E c \in Nat : Bound(k + 1, c)
    <3>1. CASE k + 1 \in 1 .. Len(seq)
      <4> DEFINE c == IF seq[k + 1] <= b THEN b ELSE seq[k + 1]
      <4>1. c \in Nat /\ b <= c /\ seq[k + 1] <= c
        BY <1>2, <3>1
      <4>2. \A j \in 1 .. Len(seq) : j <= k + 1 => j <= k \/ j = k + 1
        BY <1>2
      <4> HIDE DEF c
      <4>3. Bound(k + 1, c)
        BY <1>2, <2>1, <4>1, <4>2
      <4> QED BY <4>1, <4>3
    <3>2. CASE k + 1 \notin 1 .. Len(seq)
      <4>1. \A j \in 1 .. Len(seq) : j <= k + 1 => j <= k
        BY <1>2, <3>2
      <4>2. Bound(k + 1, b)
        BY <2>1, <4>1
      <4> QED BY <4>2
    <3> QED BY <3>1, <3>2
  <2> HIDE DEF Bound
  <2> QED BY <2>2
<1>5. P = Nat
  <2> HIDE DEF P
  <2>1. P \in SUBSET Nat
    BY DEF P
  <2> QED BY <1>3, <1>4, <2>1, SetInduction
<1>6. PICK b \in Nat : Bound(Len(seq), b)
  <2>1. Len(seq) \in P
    <3> HIDE DEF P
    <3> QED BY <1>2, <1>5
  <2>2. \E b \in Nat : Bound(Len(seq), b)
    <3> HIDE DEF Bound
    <3> QED BY <2>1
  <2> QED BY <2>2
<1>7. ASSUME NEW m \in T PROVE m <= b
  <2>1. PICK n \in 1 .. Len(seq) : seq[n] = m
    BY <1>1
  <2>2. n <= Len(seq)
    BY <1>2
  <2> QED BY <1>6, <2>1, <2>2
<1> QED BY <1>7

(***************************************************************************)
(* get_count is above the number of every archive, and, without files that *)
(* look like archives, just above the highest.                             *)
(***************************************************************************)
LEMMA CountAbove ==
    ASSUME TypeOK, IsFiniteSet(DOMAIN files)
    PROVE  /\ Count - 1 \in Nat
           /\ \A n \in DOMAIN files : n <= Count - 1
           /\ strays \subseteq Harmless => Count - 1 \in Archives \cup {0}
<1> DEFINE T == Found \cup {0}
           M == Max(T)
<1>1. /\ Found \subseteq Nat /\ IsFiniteSet(Found) /\ Archives \subseteq Found
      /\ strays \subseteq Harmless => Found \subseteq Archives \cup {0}
  BY FoundNumbers DEF TypeOK
<1>2. T \in SUBSET Nat /\ T # {} /\ IsFiniteSet(T)
  BY <1>1, FS_AddElement
<1>3. DOMAIN files \subseteq T
  BY <1>1 DEF Archives
<1>4. Count = M + 1
  BY DEF Count
<1>5. strays \subseteq Harmless => T \subseteq Archives \cup {0}
  BY <1>1
<1> HIDE DEF T
<1>6. M \in T /\ \A m \in T : m <= M
  BY <1>2, FiniteBounded, Largest
<1> HIDE DEF M
<1>7. M \in Nat /\ Count - 1 = M
  BY <1>2, <1>4, <1>6
<1> QED BY <1>3, <1>5, <1>6, <1>7

(***************************************************************************)
(* The inductive invariant.  Log is the function of the contents, with     *)
(* what is still buffered; Taken is the number of the last line that FPUTS *)
(* has taken.                                                              *)
(***************************************************************************)
Log == [n \in DOMAIN files |-> Contents(n)]

Taken == IF code = "line" /\ pc \notin Ended \cup {"fgets"} THEN input - 1 ELSE input

\* Chronological for any function of contents.
InOrder(log) ==
    /\ \A n \in DOMAIN log : \A j, k \in 1 .. Len(log[n]) : j < k => log[n][j] < log[n][k]
    /\ \A m, n \in DOMAIN log : m < n =>
          \A j \in 1 .. Len(log[m]), k \in 1 .. Len(log[n]) : log[n][k] < log[m][j]

\* The file that is open follows from the place, and the numbers follow each
\* other while nothing from outside has interfered.
FilesInv ==
    /\ IsFiniteSet(DOMAIN files)
    /\ fd = IF pc \in Ended \cup {"fopen"} THEN -1 ELSE IF pc = "fclose" THEN 1 ELSE 0
    /\ fd = -1 => buffer = <<>>
    /\ pc = "rename" => i + 1 \notin DOMAIN files
    /\ faults = 0 =>
          /\ strays \subseteq Harmless
          /\ \E k \in Nat :
                DOMAIN files = IF pc = "rename" THEN (0 .. i) \cup (i + 2 .. k)
                               ELSE IF pc \in {"fclose", "fopen"} THEN 1 .. k ELSE 0 .. k

\* What code and errno say, depending on the place.
ReadInv ==
    /\ pc = "fgets" => code # "error"
    /\ pc = "fputs" => code = "line"
    /\ pc = "finish" => code # "line"
    /\ code = "line" => input > 0
    /\ errno => code = "error" /\ pc \in {"flag", "get_count", "finish", "failed", "killed"}
    /\ code = "error" /\ pc \in {"flag", "get_count"} => errno
    /\ code = "error" /\ ~errno /\ pc \in {"finish", "success"} =>
          0 \in DOMAIN files /\ files[0] = <<>> /\ buffer = <<>>
    /\ pc = "failed" /\ faults = 0 => code = "error"

LinesInv ==
    /\ InOrder(Log)
    /\ \A n \in DOMAIN files : \A j \in 1 .. Len(Log[n]) : Log[n][j] <= Taken
    /\ faults = 0 =>
          \A x \in 1 .. Taken : \E n \in DOMAIN files : \E j \in 1 .. Len(Log[n]) : Log[n][j] = x

IInv == TypeOK /\ FilesInv /\ ReadInv /\ LinesInv

----------------------------------------------------------------------------
(* How the contents change.                                                *)

\* What is in less is a part, from the beginning, of what is in log.
Less(less, log) ==
    \A n \in DOMAIN less :
        \/ less[n] = <<>>
        \/ /\ n \in DOMAIN log /\ Len(less[n]) <= Len(log[n])
           /\ \A j \in 1 .. Len(less[n]) : less[n][j] = log[n][j]

\* The contents at k are at k + 1.
Shifted(log, k) == [m \in (DOMAIN log \ {k}) \cup {k + 1} |->
                       IF m = k + 1 THEN log[k] ELSE log[m]]

\* Contents of files, as far as their order is concerned.
IsLog(log) == DOMAIN log \subseteq Nat /\ \A n \in DOMAIN log : log[n] \in Seq(Int)

\* Losing the ends of files keeps the order.
LEMMA LessInOrder ==
    ASSUME NEW log, NEW less, IsLog(log), IsLog(less), Less(less, log), InOrder(log)
    PROVE  InOrder(less)
<1>1. ASSUME NEW n \in DOMAIN less, NEW j \in 1 .. Len(less[n])
      PROVE  n \in DOMAIN log /\ j \in 1 .. Len(log[n]) /\ less[n][j] = log[n][j]
  <2>1. less[n] # <<>>
    <3>1. Len(less[n]) # 0
      BY DEF IsLog
    <3> QED BY <3>1
  <2>2. n \in DOMAIN log /\ Len(less[n]) <= Len(log[n]) /\ less[n][j] = log[n][j]
    BY <2>1 DEF Less
  <2>3. Len(less[n]) \in Nat /\ Len(log[n]) \in Nat
    BY <2>2 DEF IsLog
  <2> QED BY <2>2, <2>3
<1>2. ASSUME NEW n \in DOMAIN less, NEW j \in 1 .. Len(less[n]), NEW k \in 1 .. Len(less[n]),
             j < k
      PROVE  less[n][j] < less[n][k]
  BY <1>1, <1>2 DEF InOrder
<1>3. ASSUME NEW m \in DOMAIN less, NEW n \in DOMAIN less, m < n,
             NEW j \in 1 .. Len(less[m]), NEW k \in 1 .. Len(less[n])
      PROVE  less[n][k] < less[m][j]
  BY <1>1, <1>3 DEF InOrder
<1> QED BY <1>2, <1>3 DEF InOrder

\* Giving a file the next number, when it is free, keeps the order.
LEMMA ShiftedInOrder ==
    ASSUME NEW log, NEW k \in DOMAIN log, k + 1 \notin DOMAIN log, IsLog(log), InOrder(log)
    PROVE  InOrder(Shifted(log, k))
<1> DEFINE s == Shifted(log, k)
           old(n) == IF n = k + 1 THEN k ELSE n
<1>1. ASSUME NEW n \in DOMAIN s
      PROVE  n \in Nat /\ old(n) \in DOMAIN log /\ s[n] = log[old(n)]
  BY DEF Shifted, IsLog
<1>2. ASSUME NEW m \in DOMAIN s, NEW n \in DOMAIN s, m < n PROVE old(m) < old(n)
  <2>1. m \in Nat /\ n \in Nat /\ k \in Nat /\ m # k /\ n # k
    BY <1>1 DEF Shifted, IsLog
  <2> QED BY <1>2, <2>1
<1> HIDE DEF s, old
<1>3. ASSUME NEW n \in DOMAIN s, NEW j \in 1 .. Len(s[n]), NEW l \in 1 .. Len(s[n]), j < l
      PROVE  s[n][j] < s[n][l]
  BY <1>1, <1>3 DEF InOrder
<1>4. ASSUME NEW m \in DOMAIN s, NEW n \in DOMAIN s, m < n,
             NEW j \in 1 .. Len(s[m]), NEW l \in 1 .. Len(s[n])
      PROVE  s[n][l] < s[m][j]
  BY <1>1, <1>2, <1>4 DEF InOrder
<1>5. InOrder(s)
  BY <1>3, <1>4 DEF InOrder
<1> QED BY <1>5 DEF s

\* Appending to the log a line later than all others keeps the order.
LEMMA AppendedInOrder ==
    ASSUME NEW log, 0 \in DOMAIN log, IsLog(log), InOrder(log), NEW x \in Int,
           \A n \in DOMAIN log : \A j \in 1 .. Len(log[n]) : log[n][j] < x
    PROVE  InOrder([log EXCEPT ![0] = Append(log[0], x)])
<1> DEFINE more == Append(log[0], x)
           a == [log EXCEPT ![0] = more]
           size == Len(log[0])
<1>1. /\ more \in Seq(Int) /\ Len(more) = size + 1 /\ more[size + 1] = x /\ size \in Nat
      /\ \A j \in 1 .. size : more[j] = log[0][j]
  BY DEF IsLog
<1> HIDE DEF more
<1>2. /\ DOMAIN a = DOMAIN log /\ a[0] = more
      /\ \A n \in DOMAIN log : n # 0 => a[n] = log[n]
  OBVIOUS
<1> HIDE DEF a
<1>3. \A j \in 1 .. size + 1 : j # size + 1 => j \in 1 .. size
  BY <1>1
<1>4. ASSUME NEW n \in DOMAIN a, NEW j \in 1 .. Len(a[n]), NEW l \in 1 .. Len(a[n]), j < l
      PROVE  a[n][j] < a[n][l]
  <2>1. CASE n # 0
    BY <1>2, <1>4, <2>1 DEF InOrder
  <2>2. CASE n = 0
    <3>1. j \in 1 .. size /\ more[j] = log[0][j]
      BY <1>1, <1>2, <1>4, <2>2
    <3>2. CASE l = size + 1
      BY <1>1, <1>2, <2>2, <3>1, <3>2
    <3>3. CASE l # size + 1
      <4>1. l \in 1 .. size
        BY <1>1, <1>2, <1>3, <2>2, <3>3
      <4>2. more[l] = log[0][l] /\ log[0][j] < log[0][l]
        BY <1>1, <1>4, <3>1, <4>1 DEF InOrder
      <4> QED BY <1>2, <2>2, <3>1, <4>2
    <3> QED BY <3>2, <3>3
  <2> QED BY <2>1, <2>2
<1>5. ASSUME NEW m \in DOMAIN a, NEW n \in DOMAIN a, m < n,
             NEW j \in 1 .. Len(a[m]), NEW l \in 1 .. Len(a[n])
      PROVE  a[n][l] < a[m][j]
  <2>1. m \in Nat /\ n \in Nat /\ n # 0 /\ a[n] = log[n] /\ n \in DOMAIN log /\ m \in DOMAIN log
    BY <1>2, <1>5 DEF IsLog
  <2>2. CASE m # 0
    BY <1>2, <1>5, <2>1, <2>2 DEF InOrder
  <2>3. CASE m = 0
    <3>1. CASE j = size + 1
      BY <1>1, <1>2, <2>1, <2>3, <3>1
    <3>2. CASE j # size + 1
      <4>1. j \in 1 .. size
        BY <1>1, <1>2, <1>3, <2>3, <3>2
      <4>2. log[n][l] < log[0][j]
        BY <1>5, <2>1, <2>3, <4>1 DEF InOrder
      <4> QED BY <1>1, <1>2, <2>1, <2>3, <4>1, <4>2
    <3> QED BY <3>1, <3>2
  <2> QED BY <2>2, <2>3
<1>6. InOrder(a)
  BY <1>4, <1>5 DEF InOrder
<1> QED BY <1>6 DEF a, more
\* The contents of every file, the buffered lines of the open one included, are
\* lines.
LEMMA LogType ==
    ASSUME TypeOK
    PROVE  /\ IsLog(Log) /\ DOMAIN Log = DOMAIN files
           /\ \A n \in DOMAIN files :
                 /\ Log[n] \in Seq(1 .. MaxLines)
                 /\ Log[n] = IF n = fd THEN files[n] \o buffer ELSE files[n]
<1>1. \A n \in DOMAIN files : Log[n] = IF n = fd THEN files[n] \o buffer ELSE files[n]
  BY DEF Log, Contents
<1>2. DOMAIN Log = DOMAIN files
  BY DEF Log
<1>3. \A n \in DOMAIN files : files[n] \in Seq(1 .. MaxLines) /\ buffer \in Seq(1 .. MaxLines)
  BY DEF TypeOK
<1>4. \A n \in DOMAIN files : files[n] \o buffer \in Seq(1 .. MaxLines)
  BY <1>3, ConcatProperties
<1>5. \A n \in DOMAIN files : Log[n] \in Seq(1 .. MaxLines)
  BY <1>1, <1>3, <1>4
<1>6. 1 .. MaxLines \subseteq Int
  BY ParametersAssumption
<1>7. \A n \in DOMAIN files : Log[n] \in Seq(Int)
  BY <1>5, <1>6, SeqMonotonic
<1> QED BY <1>1, <1>2, <1>5, <1>7 DEF IsLog, TypeOK

\* A flush makes the files what their contents are already.
LEMMA FlushedFiles ==
    ASSUME TypeOK
    PROVE  DOMAIN Flushed = DOMAIN files /\ \A n \in DOMAIN files : Flushed[n] = Log[n]
<1>1. CASE fd = -1
  <2>1. \A n \in DOMAIN files : n # fd
    BY <1>1 DEF TypeOK
  <2> QED BY <1>1, <2>1, LogType DEF Flushed
<1>2. CASE fd # -1
  <2>1. fd \in DOMAIN files
    BY <1>2 DEF TypeOK
  <2> QED BY <1>2, <2>1, LogType DEF Flushed, Put
<1> QED BY <1>1, <1>2

\* The contents depend on the files, the open one and its buffer only.
LEMMA LogSame ==
    ASSUME files' = files, fd' = fd, buffer' = buffer
    PROVE  Log' = Log
BY DEF Log, Contents

\* fclose keeps the contents, and a kill loses only what was buffered.
LEMMA LogClosed ==
    ASSUME TypeOK, fd' = -1, buffer' = <<>>
    PROVE  /\ files' = Flushed =>
                 /\ Log' = Log /\ DOMAIN files' = DOMAIN files
                 /\ \A n \in DOMAIN files : files'[n] = Log[n]
           /\ files' = files => Less(Log', Log) /\ DOMAIN Log' = DOMAIN Log
<1>1. \A n \in DOMAIN files : n # -1
  BY DEF TypeOK
<1>2. DOMAIN Log = DOMAIN files /\ Log = [n \in DOMAIN files |-> Log[n]]
  BY DEF Log
<1>3. ASSUME files' = Flushed
      PROVE  /\ Log' = Log /\ DOMAIN files' = DOMAIN files
             /\ \A n \in DOMAIN files : files'[n] = Log[n]
  <2>1. DOMAIN Flushed = DOMAIN files /\ \A n \in DOMAIN files : Flushed[n] = Log[n]
    BY FlushedFiles
  <2>2. Log' = [n \in DOMAIN files' |-> files'[n]]
    BY <1>1, <1>3, <2>1 DEF Log, Contents
  <2> QED BY <1>2, <1>3, <2>1, <2>2
<1>4. ASSUME files' = files
      PROVE  Less(Log', Log) /\ DOMAIN Log' = DOMAIN Log
  <2>1. Log' = [n \in DOMAIN files |-> files[n]]
    BY <1>1, <1>4 DEF Log, Contents
  <2>2. ASSUME NEW n \in DOMAIN files
        PROVE  /\ Len(files[n]) <= Len(Log[n])
               /\ \A j \in 1 .. Len(files[n]) : files[n][j] = Log[n][j]
    <3>1. files[n] \in Seq(1 .. MaxLines) /\ buffer \in Seq(1 .. MaxLines)
      BY DEF TypeOK
    <3>2. Log[n] = IF n = fd THEN files[n] \o buffer ELSE files[n]
      BY LogType
    <3> DEFINE a == files[n]
    <3> HIDE DEF a
    <3>4. a \in Seq(1 .. MaxLines) /\ Len(a) \in Nat /\ Len(buffer) \in Nat
      BY <3>1 DEF a
    <3>3. Len(a) <= Len(a \o buffer) /\ \A j \in 1 .. Len(a) : a[j] = (a \o buffer)[j]
      <4>1. /\ Len(a \o buffer) = Len(a) + Len(buffer)
            /\ \A j \in 1 .. Len(a) + Len(buffer) :
                  (a \o buffer)[j] = IF j <= Len(a) THEN a[j] ELSE buffer[j - Len(a)]
        BY <3>1, <3>4, ConcatProperties
      <4> QED BY <3>4, <4>1
    <3> QED BY <3>2, <3>3, <3>4 DEF a
  <2>3. Less(Log', Log)
    BY <1>2, <2>1, <2>2 DEF Less
  <2> QED BY <1>2, <2>1, <2>3
<1> QED BY <1>3, <1>4

\* A rename to the next number shifts the contents, also of the file that is open.
LEMMA LogRenamed ==
    ASSUME TypeOK, NEW k \in DOMAIN files, k + 1 \notin DOMAIN files,
           files' = Renamed(k, k + 1), fd' = (IF fd = k THEN k + 1 ELSE fd), buffer' = buffer
    PROVE  Log' = Shifted(Log, k)
<1>1. k \in Nat /\ k # k + 1 /\ fd # k + 1
  BY DEF TypeOK
<1>2. /\ DOMAIN files' = (DOMAIN files \ {k}) \cup {k + 1}
      /\ files'[k + 1] = files[k]
      /\ \A m \in DOMAIN files \ {k} : m # k + 1 => files'[m] = files[m]
  BY DEF Renamed
<1>3. Log' = [n \in DOMAIN files' |-> IF n = fd' THEN files'[n] \o buffer' ELSE files'[n]]
  BY DEF Log, Contents
<1>4. Log = [n \in DOMAIN files |-> IF n = fd THEN files[n] \o buffer ELSE files[n]]
  BY DEF Log, Contents
<1>5. ASSUME NEW m \in DOMAIN files'
      PROVE  Log'[m] = IF m = k + 1 THEN Log[k] ELSE Log[m]
  <2>1. CASE m = k + 1
    <3>1. k + 1 = fd' <=> k = fd
      BY <1>1
    <3>2. Log'[k + 1] = IF k = fd THEN files[k] \o buffer ELSE files[k]
      BY <1>2, <1>3, <3>1
    <3> QED BY <1>4, <2>1, <3>2
  <2>2. CASE m # k + 1
    BY <1>1, <1>2, <1>3, <1>4, <2>2
  <2> QED BY <2>1, <2>2
<1> QED BY <1>2, <1>3, <1>4, <1>5 DEF Shifted

\* fputs appends the line to the contents of the log, written or buffered.
LEMMA LogAppended ==
    ASSUME TypeOK, fd = 0, fd' = 0, input \in 1 .. MaxLines,
           \/ buffer' = Append(buffer, input) /\ files' = files
           \/ buffer' = <<>> /\ files' = Put(fd, Append(files[fd] \o buffer, input))
    PROVE  Log' = [Log EXCEPT ![0] = Append(Log[0], input)] /\ 0 \in DOMAIN files
<1>1. 0 \in DOMAIN files /\ files[0] \in Seq(1 .. MaxLines) /\ buffer \in Seq(1 .. MaxLines)
  BY DEF TypeOK
<1>2. Log' = [n \in DOMAIN files' |-> IF n = fd' THEN files'[n] \o buffer' ELSE files'[n]]
  BY DEF Log, Contents
<1>3. Log = [n \in DOMAIN files |-> IF n = fd THEN files[n] \o buffer ELSE files[n]]
  BY DEF Log, Contents
<1>4. DOMAIN files' = DOMAIN files /\ \A n \in DOMAIN files : n # 0 => files'[n] = files[n]
  BY <1>1 DEF Put
<1> DEFINE a == files[0]
<1> HIDE DEF a
<1>5. a \o Append(buffer, input) = Append(a \o buffer, input)
  BY <1>1 DEF a
<1>6. Append(a \o buffer, input) \o <<>> = Append(a \o buffer, input)
  BY <1>1 DEF a
<1>7. files'[0] \o buffer' = Append(files[0] \o buffer, input)
  <2>1. CASE buffer' = Append(buffer, input) /\ files' = files
    BY <2>1, <1>5 DEF a
  <2>2. CASE buffer' = <<>> /\ files' = Put(fd, Append(files[fd] \o buffer, input))
    <3>1. files'[0] = Append(a \o buffer, input)
      BY <1>1, <2>2 DEF Put, a
    <3> QED BY <2>2, <3>1, <1>6 DEF a
  <2> QED BY <2>1, <2>2
<1>8. Log'[0] = Append(Log[0], input)
  BY <1>1, <1>2, <1>3, <1>4, <1>7
<1>9. \A n \in DOMAIN files : n # 0 => Log'[n] = Log[n]
  BY <1>2, <1>3, <1>4
<1> QED BY <1>1, <1>2, <1>3, <1>4, <1>8, <1>9

\* fopen of file_name, which nothing has open.
LEMMA LogOpened ==
    ASSUME TypeOK, fd = -1, buffer = <<>>, buffer' = buffer, files' = Put(0, <<>>), fd' = 0
    PROVE  /\ DOMAIN Log' = DOMAIN files \cup {0} /\ Log'[0] = <<>>
           /\ \A n \in DOMAIN files : n # 0 => Log'[n] = Log[n]
           /\ Less(Log', Log)
<1>1. Log' = [n \in DOMAIN files' |-> IF n = fd' THEN files'[n] \o buffer' ELSE files'[n]]
  BY DEF Log, Contents
<1>2. Log = [n \in DOMAIN files |-> IF n = fd THEN files[n] \o buffer ELSE files[n]]
  BY DEF Log, Contents
<1>3. /\ DOMAIN files' = DOMAIN files \cup {0} /\ files'[0] = <<>>
      /\ \A n \in DOMAIN files : n # 0 => files'[n] = files[n]
  BY DEF Put
<1>4. \A n \in DOMAIN files : n # -1
  BY DEF TypeOK
<1>5. Log'[0] = <<>>
  BY <1>1, <1>3
<1>6. \A n \in DOMAIN files : n # 0 => Log'[n] = Log[n]
  BY <1>1, <1>2, <1>3, <1>4
<1>7. DOMAIN Log' = DOMAIN files \cup {0}
  BY <1>1, <1>3
<1>8. \A n \in DOMAIN files : Len(Log[n]) \in Nat
  BY LogType DEF IsLog
<1>9. DOMAIN Log = DOMAIN files
  BY <1>2
<1>10. Less(Log', Log)
  <2> SUFFICES ASSUME NEW n \in DOMAIN Log', n # 0
               PROVE  /\ n \in DOMAIN Log /\ Len((Log')[n]) <= Len(Log[n])
                      /\ \A j \in 1 .. Len((Log')[n]) : (Log')[n][j] = Log[n][j]
    BY <1>5 DEF Less
  <2>1. n \in DOMAIN Log /\ (Log')[n] = Log[n]
    BY <1>6, <1>7, <1>9
  <2> QED BY <1>8, <1>9, <2>1
<1> QED BY <1>5, <1>6, <1>7, <1>10
----------------------------------------------------------------------------
(* The invariant is inductive.                                             *)

\* The logger starts in the invariant.
LEMMA InitIInv == Init => IInv
<1> SUFFICES ASSUME Init PROVE IInv
  OBVIOUS
<1>1. /\ DOMAIN files = {0} /\ files[0] = <<>>
      /\ fd = 0 /\ buffer = <<>> /\ pc = "fgets" /\ code = "eof" /\ input = 0 /\ strays = Harmless
      /\ flag = FALSE /\ errno = FALSE /\ i = 0 /\ faults = 0
  <2>1. files = [n \in {0} |-> <<>>]
    BY DEF Init
  <2>2. DOMAIN files = {0} /\ files[0] = <<>>
    BY <2>1
  <2> QED BY <2>2 DEF Init
<1>2. TypeOK
  BY <1>1, ParametersAssumption DEF TypeOK, Places, Ended
<1>3. FilesInv
  <2>1. IsFiniteSet({0})
    BY FS_Singleton
  <2>2. {0} = 0 .. 0 /\ 0 \in Nat
    OBVIOUS
  <2>3. \E k \in Nat : DOMAIN files = 0 .. k
    BY <1>1, <2>2
  <2> QED BY <1>1, <2>1, <2>3 DEF FilesInv, Ended
<1>4. ReadInv
  BY <1>1 DEF ReadInv, Ended
<1>5. LinesInv
  <2>1. DOMAIN Log = {0} /\ Log[0] = <<>> \o <<>> /\ Taken = 0
    BY <1>1 DEF Log, Contents, Taken
  <2>2. Log[0] = <<>>
    BY <2>1
  <2>3. InOrder(Log) /\ \A n \in DOMAIN files : \A j \in 1 .. Len(Log[n]) : Log[n][j] <= Taken
    BY <1>1, <2>1, <2>2 DEF InOrder
  <2> QED BY <2>1, <2>3 DEF LinesInv
<1> QED BY <1>2, <1>3, <1>4, <1>5 DEF IInv

FilesType ==
    /\ DOMAIN files \subseteq Nat
    /\ \A n \in DOMAIN files : files[n] \in Seq(1 .. MaxLines)

\* Every step keeps the files well formed, and the open one in existence.
LEMMA FilesTypeStep ==
    ASSUME IInv, Next
    PROVE  FilesType' /\ (fd # -1 => fd \in DOMAIN files)'
<1> USE DEF FilesType
<1>1. TypeOK /\ FilesInv /\ ReadInv /\ FilesType
  BY DEF IInv, TypeOK
<1>2. <<>> \in Seq(1 .. MaxLines) /\ 0 \in Nat
  OBVIOUS
<1>3. DOMAIN Flushed = DOMAIN files /\ \A n \in DOMAIN files : Flushed[n] \in Seq(1 .. MaxLines)
  BY <1>1, FlushedFiles, LogType
<1>4. ASSUME NEW k \in DOMAIN files, files' = Renamed(k, k + 1) PROVE FilesType'
  <2>1. k \in Nat /\ k + 1 \in Nat
    BY <1>1
  <2> QED BY <1>1, <1>4, <2>1 DEF Renamed
<1>5. ASSUME files' = Put(0, <<>>) PROVE FilesType' /\ 0 \in DOMAIN files'
  BY <1>1, <1>2, <1>5 DEF Put
<1>6. CASE UNCHANGED <<files, fd>>
  BY <1>1, <1>6 DEF TypeOK
<1>7. CASE fgets \/ signal_handler \/ TestFlag \/ get_count \/ CreateMisleading
  BY <1>6, <1>7 DEF fgets, signal_handler, TestFlag, get_count, CreateMisleading
<1>8. CASE RenameArchive
  <2>1. fd = 0 /\ fd \in DOMAIN files /\ i \in Nat /\ i # 0
    BY <1>1, <1>8 DEF RenameArchive, FilesInv, TypeOK, Ended
  <2>2. CASE i \in DOMAIN files
    <3>1. files' = Renamed(i, i + 1) /\ fd' = fd
      BY <1>8, <2>2 DEF RenameArchive
    <3>2. 0 \in DOMAIN files'
      BY <2>1, <3>1 DEF Renamed
    <3> QED BY <1>4, <2>1, <2>2, <3>1, <3>2
  <2>3. CASE i \notin DOMAIN files
    BY <1>1, <1>3, <1>8, <2>3 DEF RenameArchive
  <2> QED BY <2>2, <2>3
<1>9. CASE RenameLog
  <2>1. 0 \in DOMAIN files
    BY <1>1, <1>9 DEF RenameLog, FilesInv, TypeOK, Ended
  <2>2. files' = Renamed(0, 1) /\ fd' = 1 /\ 0 + 1 = 1
    BY <1>9 DEF RenameLog
  <2>3. 1 \in DOMAIN files'
    BY <2>1, <2>2 DEF Renamed
  <2> QED BY <1>4, <2>1, <2>2, <2>3
<1>10. CASE FCLOSE \/ Finish
  BY <1>1, <1>3, <1>10 DEF FCLOSE, Finish
<1>11. CASE FOPEN \/ main
  BY <1>5, <1>11 DEF FOPEN, main
<1>12. CASE FPUTS
  <2>1. fd = 0 /\ 0 \in DOMAIN files /\ code = "line" /\ input \in 1 .. MaxLines
    BY <1>1, <1>12 DEF FPUTS, FilesInv, ReadInv, TypeOK, Ended
  <2>2. CASE files' = files
    BY <1>1, <1>12, <2>1, <2>2 DEF FPUTS
  <2>3. CASE files' = Put(fd, Append(files[fd] \o buffer, input))
    <3>1. files[0] \o buffer \in Seq(1 .. MaxLines)
      BY <1>1, <2>1, ConcatProperties DEF TypeOK
    <3>2. Append(files[0] \o buffer, input) \in Seq(1 .. MaxLines)
      BY <2>1, <3>1
    <3> QED BY <1>1, <1>12, <2>1, <2>3, <3>2 DEF FPUTS, Put
  <2> QED BY <1>12, <2>2, <2>3 DEF FPUTS
<1>13. CASE Kill
  BY <1>1, <1>13 DEF Kill
<1>14. CASE DeleteArchive
  <2>1. PICK n \in Archives \ {fd} : files' = Restrict(files, DOMAIN files \ {n})
    BY <1>14 DEF DeleteArchive
  <2>2. fd' = fd
    BY <1>14 DEF DeleteArchive
  <2> QED BY <1>1, <2>1, <2>2 DEF Restrict, TypeOK
<1>15. CASE CallFails
  BY <1>1, <1>3, <1>15 DEF CallFails
<1> QED BY <1>7, <1>8, <1>9, <1>10, <1>11, <1>12, <1>13, <1>14, <1>15 DEF Next, Logger

\* Every step keeps the types.
LEMMA TypeStep ==
    ASSUME IInv, Next
    PROVE  TypeOK'
<1>1. /\ strays \subseteq Harmless \cup Misleading
      /\ buffer \in Seq(1 .. MaxLines) /\ pc \in Places
      /\ code \in {"line", "eof", "error"} /\ input \in 0 .. MaxLines
      /\ flag \in BOOLEAN /\ errno \in BOOLEAN /\ i \in Nat /\ faults \in 0 .. MaxFaults
      /\ MaxLines \in Nat /\ MaxFaults \in Nat /\ fd \in {-1, 0, 1}
  BY ParametersAssumption DEF IInv, TypeOK
<1>2. FilesType' /\ (fd # -1 => fd \in DOMAIN files)'
  BY FilesTypeStep
<1>3. faults < MaxFaults => faults + 1 \in 0 .. MaxFaults
  BY <1>1
<1>4. <<>> \in Seq(1 .. MaxLines)
  OBVIOUS
<1> DEFINE Rest == /\ strays \subseteq Harmless \cup Misleading
                   /\ fd \in {-1, 0, 1}
                   /\ buffer \in Seq(1 .. MaxLines)
                   /\ pc \in Places
                   /\ code \in {"line", "eof", "error"}
                   /\ input \in 0 .. MaxLines
                   /\ flag \in BOOLEAN
                   /\ errno \in BOOLEAN
                   /\ i \in Nat
                   /\ faults \in 0 .. MaxFaults
<1>5. Rest'
  <2> USE DEF Places, Ended, AfterRotate
  <2>1. CASE fgets
    <3>1. input < MaxLines => input + 1 \in 0 .. MaxLines
      BY <1>1
    <3> QED BY <1>1, <2>1, <3>1 DEF fgets
  <2>2. CASE signal_handler
    BY <1>1, <2>2 DEF signal_handler
  <2>3. CASE TestFlag
    BY <1>1, <2>3 DEF TestFlag
  <2>4. CASE get_count
    <3>1. Count - 1 \in Nat
      BY CountAbove DEF IInv, FilesInv
    <3> QED BY <1>1, <2>4, <3>1 DEF get_count
  <2>5. CASE RenameArchive
    <3>1. i >= 1 => i - 1 \in Nat
      BY <1>1
    <3> QED BY <1>1, <1>4, <2>5, <3>1 DEF RenameArchive
  <2>6. CASE RenameLog
    BY <1>1, <2>6 DEF RenameLog
  <2>7. CASE FCLOSE
    BY <1>1, <1>4, <2>7 DEF FCLOSE
  <2>8. CASE FOPEN
    BY <1>1, <2>8 DEF FOPEN
  <2>9. CASE FPUTS
    <3>1. code = "line" /\ input \in 1 .. MaxLines
      BY <1>1, <2>9 DEF FPUTS, IInv, ReadInv
    <3>2. Append(buffer, input) \in Seq(1 .. MaxLines)
      BY <1>1, <3>1
    <3>3. buffer' \in Seq(1 .. MaxLines)
      BY <1>4, <2>9, <3>2 DEF FPUTS
    <3> QED BY <1>1, <2>9, <3>3 DEF FPUTS
  <2>10. CASE Finish
    BY <1>1, <1>4, <2>10 DEF Finish
  <2>11. CASE Kill
    BY <1>1, <1>3, <1>4, <2>11 DEF Kill
  <2>12. CASE main
    BY <1>1, <1>3, <2>12 DEF main
  <2>13. CASE DeleteArchive
    BY <1>1, <1>3, <2>13 DEF DeleteArchive
  <2>14. CASE CreateMisleading
    BY <1>1, <1>3, <2>14 DEF CreateMisleading
  <2>15. CASE CallFails
    BY <1>1, <1>3, <1>4, <2>15 DEF CallFails
  <2> QED BY <2>1, <2>2, <2>3, <2>4, <2>5, <2>6, <2>7, <2>8, <2>9, <2>10, <2>11, <2>12,
             <2>13, <2>14, <2>15 DEF Next, Logger
<1> QED BY <1>2, <1>5 DEF TypeOK, FilesType
\* What the invariant says of the numbers while nothing from outside interfered.
Consecutive(k) ==
    DOMAIN files = IF pc = "rename" THEN (0 .. i) \cup (i + 2 .. k)
                   ELSE IF pc \in {"fclose", "fopen"} THEN 1 .. k ELSE 0 .. k

\* Without interference every step keeps the numbers without a gap, but for the one
\* a rotation is moving.
LEMMA ConsecutiveStep ==
    ASSUME IInv, Next, faults' = 0
    PROVE  strays' \subseteq Harmless /\ \E k \in Nat : Consecutive(k)'
<1>1. TypeOK /\ FilesInv
  BY DEF IInv
<1>2. faults \in Nat /\ i \in Nat /\ pc \in Places /\ DOMAIN files \subseteq Nat
  BY <1>1, ParametersAssumption DEF TypeOK
<1>3. faults = 0 /\ ~Kill /\ ~main /\ ~DeleteArchive /\ ~CreateMisleading /\ ~CallFails
  <2>1. faults + 1 # 0
    BY <1>2
  <2>2. ~Kill /\ ~main /\ ~DeleteArchive /\ ~CreateMisleading /\ ~CallFails
    BY <2>1 DEF Kill, main, DeleteArchive, CreateMisleading, CallFails
  <2> QED BY <2>2 DEF Next, Logger, fgets, signal_handler, TestFlag, get_count, RenameArchive,
             RenameLog, FCLOSE, FOPEN, FPUTS, Finish
<1>4. strays \subseteq Harmless /\ \E k \in Nat : Consecutive(k)
  BY <1>1, <1>3 DEF FilesInv, Consecutive
<1>5. PICK k \in Nat : Consecutive(k)
  BY <1>4
<1>6. DOMAIN Flushed = DOMAIN files
  BY <1>1, FlushedFiles
<1>7. strays' = strays
  BY <1>3 DEF Next, Logger, fgets, signal_handler, TestFlag, get_count, RenameArchive,
     RenameLog, FCLOSE, FOPEN, FPUTS, Finish
<1>8. \E l \in Nat : Consecutive(l)'
  <2>1. CASE fgets \/ signal_handler \/ TestFlag
    <3>1. files' = files /\ i' = i
      BY <2>1 DEF fgets, signal_handler, TestFlag
    <3>2. pc' = pc \/ {pc, pc'} \subseteq Places \ {"rename", "fclose", "fopen"}
      BY <2>1 DEF fgets, signal_handler, TestFlag, AfterRotate, Places
    <3> QED BY <1>5, <3>1, <3>2 DEF Consecutive
  <2>2. CASE get_count
    <3>1. i' = Count - 1 /\ files' = files /\ pc = "get_count" /\ pc' = "rename"
      BY <2>2 DEF get_count
    <3>2. DOMAIN files = 0 .. k
      BY <1>5, <3>1 DEF Consecutive
    <3>3. /\ Count - 1 \in Nat /\ \A n \in DOMAIN files : n <= Count - 1
          /\ Count - 1 \in Archives \cup {0}
      BY <1>1, <1>4, CountAbove DEF FilesInv
    <3>4. k <= Count - 1 /\ Count - 1 \in 0 .. k
      BY <3>2, <3>3 DEF Archives
    <3>5. i' = k
      BY <3>1, <3>4
    <3>6. 0 .. k = (0 .. k) \cup (k + 2 .. k)
      OBVIOUS
    <3>7. Consecutive(k)'
      BY <3>1, <3>2, <3>5, <3>6 DEF Consecutive
    <3> QED BY <3>7
  <2>3. CASE RenameArchive
    <3>1. pc = "rename" /\ i >= 1
      BY <2>3 DEF RenameArchive
    <3>2. DOMAIN files = (0 .. i) \cup (i + 2 .. k)
      BY <1>5, <3>1 DEF Consecutive
    <3>3. i \in DOMAIN files
      BY <1>2, <3>1, <3>2
    <3>4. files' = Renamed(i, i + 1) /\ i' = i - 1 /\ pc' = pc
      BY <2>3, <3>3 DEF RenameArchive
    <3>5. DOMAIN files' = (DOMAIN files \ {i}) \cup {i + 1}
      BY <3>4 DEF Renamed
    <3> DEFINE l == IF k < i + 1 THEN i + 1 ELSE k
    <3>6. l \in Nat
      BY <1>2
    <3>7. (((0 .. i) \cup (i + 2 .. k)) \ {i}) \cup {i + 1} = (0 .. i - 1) \cup (i + 1 .. l)
      <4> DEFINE a == (((0 .. i) \cup (i + 2 .. k)) \ {i}) \cup {i + 1}
                 b == (0 .. i - 1) \cup (i + 1 .. l)
      <4>1. \A x \in a : x \in b
        BY <1>2, <3>1
      <4>2. \A x \in b : x \in a
        BY <1>2, <3>1
      <4> QED BY <4>1, <4>2
    <3>8. DOMAIN files' = (0 .. i') \cup (i' + 2 .. l)
      <4>1. (i - 1) + 2 = i + 1
        BY <1>2
      <4> QED BY <3>2, <3>4, <3>5, <3>7, <4>1
    <3> HIDE DEF l
    <3> QED BY <3>1, <3>4, <3>6, <3>8 DEF Consecutive
  <2>4. CASE RenameLog
    <3>1. pc = "rename" /\ i = 0 /\ pc' = "fclose" /\ files' = Renamed(0, 1)
      BY <2>4 DEF RenameLog
    <3>2. DOMAIN files = (0 .. 0) \cup (2 .. k)
      BY <1>5, <3>1 DEF Consecutive
    <3>3. DOMAIN files' = (DOMAIN files \ {0}) \cup {1}
      BY <3>1 DEF Renamed
    <3> DEFINE l == IF k < 1 THEN 1 ELSE k
    <3>4. l \in Nat /\ (((0 .. 0) \cup (2 .. k)) \ {0}) \cup {1} = 1 .. l
      <4> DEFINE a == (((0 .. 0) \cup (2 .. k)) \ {0}) \cup {1}
      <4>1. \A x \in a : x \in 1 .. l
        OBVIOUS
      <4>2. \A x \in 1 .. l : x \in a
        OBVIOUS
      <4> QED BY <4>1, <4>2
    <3>5. DOMAIN files' = 1 .. l
      BY <3>2, <3>3, <3>4
    <3> HIDE DEF l
    <3> QED BY <3>1, <3>4, <3>5 DEF Consecutive
  <2>5. CASE FCLOSE
    <3>1. DOMAIN files' = DOMAIN files /\ pc = "fclose" /\ pc' = "fopen"
      BY <1>6, <2>5 DEF FCLOSE
    <3> QED BY <1>5, <3>1 DEF Consecutive
  <2>6. CASE FOPEN
    <3>1. DOMAIN files' = DOMAIN files \cup {0} /\ pc = "fopen" /\ pc' \in {"fputs", "finish"}
      BY <2>6 DEF FOPEN, Put, AfterRotate
    <3>2. (1 .. k) \cup {0} = 0 .. k
      OBVIOUS
    <3> QED BY <1>5, <3>1, <3>2 DEF Consecutive
  <2>7. CASE FPUTS
    <3>1. pc = "fputs" /\ pc' = "fgets" /\ fd = 0 /\ fd \in DOMAIN files
      BY <1>1, <2>7 DEF FPUTS, FilesInv, TypeOK, Ended
    <3>2. DOMAIN files' = DOMAIN files
      BY <2>7, <3>1 DEF FPUTS, Put
    <3> QED BY <1>5, <3>1, <3>2 DEF Consecutive
  <2>8. CASE Finish
    <3>1. DOMAIN files' = DOMAIN files /\ pc = "finish" /\ pc' \in {"failed", "success"}
      BY <1>6, <2>8 DEF Finish
    <3> QED BY <1>5, <3>1 DEF Consecutive
  <2> QED BY <1>3, <2>1, <2>2, <2>3, <2>4, <2>5, <2>6, <2>7, <2>8 DEF Next, Logger
<1> QED BY <1>4, <1>7, <1>8

\* Every step keeps FilesInv.
LEMMA FilesStep ==
    ASSUME IInv, Next
    PROVE  FilesInv'
<1>1. TypeOK /\ FilesInv
  BY DEF IInv
<1>2. DOMAIN Flushed = DOMAIN files
  BY <1>1, FlushedFiles
<1>3. fd # -1 => fd \in DOMAIN files
  BY <1>1 DEF TypeOK
<1>4. IsFiniteSet(DOMAIN files')
  <2>1. IsFiniteSet(DOMAIN files \cup {0} \cup {1} \cup {i + 1})
    BY <1>1, FS_AddElement DEF FilesInv
  <2>2. DOMAIN files' \subseteq DOMAIN files \cup {0} \cup {1} \cup {i + 1}
    <3> USE <1>2
    <3>1. CASE fgets \/ signal_handler \/ TestFlag \/ get_count \/ Kill \/ CreateMisleading
      BY <3>1 DEF fgets, signal_handler, TestFlag, get_count, Kill, CreateMisleading
    <3>2. CASE RenameArchive
      BY <3>2 DEF RenameArchive, Renamed
    <3>3. CASE RenameLog
      BY <3>3 DEF RenameLog, Renamed
    <3>4. CASE FCLOSE \/ Finish \/ CallFails
      BY <3>4 DEF FCLOSE, Finish, CallFails
    <3>5. CASE FOPEN \/ main
      BY <3>5 DEF FOPEN, main, Put
    <3>6. CASE FPUTS
      <4>1. fd \in DOMAIN files
        BY <1>1, <1>3, <3>6 DEF FPUTS, FilesInv, Ended
      <4> QED BY <3>6, <4>1 DEF FPUTS, Put
    <3>7. CASE DeleteArchive
      BY <3>7 DEF DeleteArchive, Restrict
    <3> QED BY <3>1, <3>2, <3>3, <3>4, <3>5, <3>6, <3>7 DEF Next, Logger
  <2> QED BY <2>1, <2>2, FS_Subset
<1>5. /\ fd' = IF pc' \in Ended \cup {"fopen"} THEN -1 ELSE IF pc' = "fclose" THEN 1 ELSE 0
      /\ fd' = -1 => buffer' = <<>>
  <2>1. /\ fd = IF pc \in Ended \cup {"fopen"} THEN -1 ELSE IF pc = "fclose" THEN 1 ELSE 0
        /\ fd = -1 => buffer = <<>>
    BY <1>1 DEF FilesInv
  <2> USE DEF Ended, AfterRotate
  <2>2. CASE fgets
    BY <2>1, <2>2 DEF fgets
  <2>3. CASE signal_handler
    BY <2>1, <2>3 DEF signal_handler
  <2>4. CASE TestFlag
    BY <2>1, <2>4 DEF TestFlag
  <2>5. CASE get_count
    BY <2>1, <2>5 DEF get_count
  <2>6. CASE RenameArchive
    BY <2>1, <2>6 DEF RenameArchive
  <2>7. CASE RenameLog
    BY <2>1, <2>7 DEF RenameLog
  <2>8. CASE FCLOSE \/ Finish
    BY <2>1, <2>8 DEF FCLOSE, Finish
  <2>9. CASE FOPEN \/ main
    BY <2>1, <2>9 DEF FOPEN, main
  <2>10. CASE FPUTS
    BY <2>1, <2>10 DEF FPUTS
  <2>11. CASE Kill \/ CallFails
    BY <2>1, <2>11 DEF Kill, CallFails
  <2>12. CASE DeleteArchive \/ CreateMisleading
    BY <2>1, <2>12 DEF DeleteArchive, CreateMisleading
  <2> QED BY <2>2, <2>3, <2>4, <2>5, <2>6, <2>7, <2>8, <2>9, <2>10, <2>11, <2>12 DEF Next, Logger
<1>6. pc' = "rename" => i' + 1 \notin DOMAIN files'
  <2> SUFFICES ASSUME pc' = "rename" PROVE i' + 1 \notin DOMAIN files'
    OBVIOUS
  <2>1. CASE get_count
    <3>1. /\ Count - 1 \in Nat /\ i' = Count - 1 /\ files' = files
          /\ \A n \in DOMAIN files : n <= Count - 1
      BY <1>1, <2>1, CountAbove DEF FilesInv, get_count
    <3> HIDE DEF Count
    <3>2. i' \in Nat /\ \A n \in DOMAIN files' : n <= i'
      BY <3>1
    <3> QED BY <3>2
  <2>2. CASE RenameArchive
    <3>1. i \in Nat /\ i >= 1 /\ files' = Renamed(i, i + 1) /\ i' = i - 1
      BY <1>1, <2>2 DEF RenameArchive, TypeOK
    <3>2. i' + 1 = i /\ i # i + 1
      BY <3>1
    <3> QED BY <3>1, <3>2 DEF Renamed
  <2>3. CASE signal_handler \/ CreateMisleading
    BY <1>1, <2>3 DEF signal_handler, CreateMisleading, FilesInv
  <2>4. CASE DeleteArchive
    BY <1>1, <2>4 DEF DeleteArchive, FilesInv, Restrict
  <2>5. CASE \/ fgets \/ TestFlag \/ RenameLog \/ FCLOSE \/ FOPEN \/ FPUTS \/ Finish
             \/ Kill \/ main \/ CallFails
    BY <2>5 DEF fgets, TestFlag, RenameLog, FCLOSE, FOPEN, FPUTS, Finish, Kill, main, CallFails,
       AfterRotate
  <2> QED BY <2>1, <2>2, <2>3, <2>4, <2>5 DEF Next, Logger
<1>7. faults' = 0 => strays' \subseteq Harmless /\ \E k \in Nat : Consecutive(k)'
  BY ConsecutiveStep
<1> QED BY <1>4, <1>5, <1>6, <1>7 DEF FilesInv, Consecutive
\* Every step keeps ReadInv.
LEMMA ReadStep ==
    ASSUME IInv, Next
    PROVE  ReadInv'
<1>1. TypeOK /\ FilesInv /\ ReadInv
  BY DEF IInv
<1>2. /\ input \in Nat /\ faults \in Nat /\ faults + 1 # 0
      /\ code \in {"line", "eof", "error"} /\ errno \in BOOLEAN
  BY <1>1, ParametersAssumption DEF TypeOK
<1> USE DEF ReadInv, Ended, AfterRotate
<1>3. CASE fgets
  <2>1. code' = "line" => input' > 0
    BY <1>1, <1>2, <1>3 DEF fgets
  <2> QED BY <1>1, <1>2, <1>3, <2>1 DEF fgets
<1>4. CASE signal_handler
  BY <1>1, <1>4 DEF signal_handler
<1>5. CASE TestFlag
  BY <1>1, <1>2, <1>5 DEF TestFlag
<1>6. CASE get_count
  BY <1>1, <1>6 DEF get_count
<1>7. CASE RenameArchive
  <2>1. CASE i \in DOMAIN files
    BY <1>1, <1>7, <2>1 DEF RenameArchive
  <2>2. CASE i \notin DOMAIN files
    <3>1. faults # 0
      <4> SUFFICES ASSUME faults = 0 PROVE i \in DOMAIN files
        BY <2>2
      <4>1. PICK k \in Nat : DOMAIN files = (0 .. i) \cup (i + 2 .. k)
        BY <1>1, <1>7 DEF RenameArchive, FilesInv
      <4>2. i \in 0 .. i
        BY <1>1 DEF TypeOK
      <4> QED BY <4>1, <4>2
    <3> QED BY <1>1, <1>7, <2>2, <3>1 DEF RenameArchive
  <2> QED BY <2>1, <2>2
<1>8. CASE RenameLog
  BY <1>1, <1>8 DEF RenameLog
<1>9. CASE FCLOSE
  BY <1>1, <1>9 DEF FCLOSE
<1>10. CASE FOPEN
  <2>1. 0 \in DOMAIN files' /\ files'[0] = <<>>
    BY <1>10 DEF FOPEN, Put
  <2>2. buffer' = <<>>
    BY <1>1, <1>10 DEF FOPEN, FilesInv
  <2> QED BY <1>1, <1>2, <1>10, <2>1, <2>2 DEF FOPEN
<1>11. CASE FPUTS
  BY <1>1, <1>11 DEF FPUTS
<1>12. CASE Finish
  <2>1. fd = 0 /\ 0 \in DOMAIN files
    BY <1>1, <1>12 DEF Finish, FilesInv, TypeOK
  <2>2. /\ pc = "finish" /\ DOMAIN files' = DOMAIN files /\ files'[0] = files[0] \o buffer
        /\ buffer' = <<>>
    BY <1>1, <1>12, <2>1, FlushedFiles, LogType DEF Finish
  <2>3. <<>> \o <<>> = <<>>
    OBVIOUS
  <2>4. code = "error" /\ ~errno => 0 \in DOMAIN files' /\ files'[0] = <<>>
    BY <1>1, <2>1, <2>2, <2>3
  <2>5. UNCHANGED <<code, input, errno, faults>> /\ pc' = IF errno THEN "failed" ELSE "success"
    BY <1>12 DEF Finish
  <2> QED BY <1>1, <1>2, <2>2, <2>4, <2>5
<1>13. CASE Kill
  BY <1>1, <1>2, <1>13 DEF Kill
<1>14. CASE main
  BY <1>14 DEF main
<1>15. CASE DeleteArchive
  <2>1. PICK n \in Archives \ {fd} : files' = Restrict(files, DOMAIN files \ {n})
    BY <1>15 DEF DeleteArchive
  <2>2. 0 \in DOMAIN files => 0 \in DOMAIN files' /\ files'[0] = files[0]
    BY <2>1 DEF Restrict, Archives
  <2>3. UNCHANGED <<buffer, pc, code, input, errno>> /\ faults' = faults + 1
    BY <1>15 DEF DeleteArchive
  <2> QED BY <1>1, <1>2, <2>2, <2>3
<1>16. CASE CreateMisleading
  <2>1. UNCHANGED <<files, buffer, pc, code, input, errno>> /\ faults' = faults + 1
    BY <1>16 DEF CreateMisleading
  <2> QED BY <1>1, <1>2, <2>1
<1>17. CASE CallFails
  BY <1>1, <1>2, <1>17 DEF CallFails
<1> QED BY <1>3, <1>4, <1>5, <1>6, <1>7, <1>8, <1>9, <1>10, <1>11, <1>12, <1>13, <1>14, <1>15,
           <1>16, <1>17 DEF Next, Logger

\* The contents are well formed before and after a step.
LEMMA LogTypes ==
    ASSUME TypeOK, TypeOK'
    PROVE  /\ IsLog(Log) /\ DOMAIN Log = DOMAIN files
           /\ IsLog(Log') /\ DOMAIN Log' = DOMAIN files'
<1>1. (IsLog(Log) /\ DOMAIN Log = DOMAIN files)'
  BY LogType, PTL
<1> QED BY <1>1, LogType

\* The lines taken are counted from 0.
LEMMA TakenType ==
    ASSUME IInv
    PROVE  Taken \in Nat /\ input \in Nat
<1>1. input \in Nat /\ (code = "line" => input > 0)
  BY ParametersAssumption DEF IInv, TypeOK, ReadInv
<1> QED BY <1>1 DEF Taken

\* Nothing changes, or an empty file comes first, or the line in hand is given up.
LEMMA LinesKept ==
    ASSUME IInv, TypeOK', Less(Log', Log), Taken' \in Nat, Taken <= Taken',
           faults' = 0 =>
              /\ faults = 0 /\ Taken' = Taken
              /\ \A n \in DOMAIN files : n \in DOMAIN files' /\ (Log')[n] = Log[n]
    PROVE  LinesInv'
<1> DEFINE less == Log'
<1>1. IsLog(Log) /\ IsLog(less) /\ DOMAIN Log = DOMAIN files /\ DOMAIN less = DOMAIN files'
  BY LogTypes DEF IInv
<1>2. LinesInv /\ Taken \in Nat
  BY TakenType DEF IInv
<1>3. InOrder(less)
  BY <1>1, <1>2, LessInOrder DEF LinesInv
<1>4. ASSUME NEW n \in DOMAIN less, NEW j \in 1 .. Len(less[n]) PROVE less[n][j] <= Taken'
  <2>1. less[n] # <<>>
    <3>1. Len(less[n]) # 0
      BY <1>1 DEF IsLog
    <3> QED BY <3>1
  <2>2. n \in DOMAIN Log /\ Len(less[n]) <= Len(Log[n]) /\ less[n][j] = Log[n][j]
    BY <2>1 DEF Less
  <2>3. Len(less[n]) \in Nat /\ Len(Log[n]) \in Nat /\ Log[n] \in Seq(Int)
    BY <1>1, <2>2 DEF IsLog
  <2>4. j \in 1 .. Len(Log[n])
    BY <2>2, <2>3
  <2>5. Log[n][j] <= Taken /\ Log[n][j] \in Int
    BY <1>1, <1>2, <2>2, <2>3, <2>4, ElementOfSeq DEF LinesInv
  <2> HIDE DEF less
  <2> QED BY <1>2, <2>2, <2>5
<1>5. ASSUME faults' = 0
      PROVE  \A x \in 1 .. Taken' :
                \E n \in DOMAIN files' : \E j \in 1 .. Len(less[n]) : less[n][j] = x
  <2>1. /\ faults = 0 /\ Taken' = Taken
        /\ \A n \in DOMAIN files : n \in DOMAIN files' /\ less[n] = Log[n]
    BY <1>5
  <2> HIDE DEF less
  <2> QED BY <1>2, <2>1 DEF LinesInv
<1> HIDE DEF less
<1>6. /\ InOrder(less)
      /\ \A n \in DOMAIN files' : \A j \in 1 .. Len(less[n]) : less[n][j] <= Taken'
      /\ faults' = 0 => \A x \in 1 .. Taken' :
            \E n \in DOMAIN files' : \E j \in 1 .. Len(less[n]) : less[n][j] = x
  BY <1>1, <1>3, <1>4, <1>5
<1> QED BY <1>6 DEF LinesInv, less, InOrder

\* A rename of a rotation keeps LinesInv.
LEMMA LinesShifted ==
    ASSUME IInv, TypeOK', NEW k \in DOMAIN files, k + 1 \notin DOMAIN files,
           Log' = Shifted(Log, k), Taken' = Taken, faults' = faults
    PROVE  LinesInv'
<1> DEFINE new == Log'
<1>1. IsLog(Log) /\ IsLog(new) /\ DOMAIN Log = DOMAIN files /\ DOMAIN new = DOMAIN files'
  BY LogTypes DEF IInv
<1>2. LinesInv
  BY DEF IInv
<1>3. InOrder(new)
  BY <1>1, <1>2, ShiftedInOrder DEF LinesInv
<1>4. /\ DOMAIN new = (DOMAIN files \ {k}) \cup {k + 1}
      /\ new[k + 1] = Log[k]
      /\ \A n \in DOMAIN files : n # k => n \in DOMAIN new /\ new[n] = Log[n]
  BY <1>1 DEF Shifted
<1> HIDE DEF new
<1>5. \A n \in DOMAIN new : \A j \in 1 .. Len(new[n]) : new[n][j] <= Taken
  BY <1>2, <1>4 DEF LinesInv
<1>6. ASSUME faults = 0, NEW x \in 1 .. Taken
      PROVE  \E n \in DOMAIN new : \E j \in 1 .. Len(new[n]) : new[n][j] = x
  <2>1. PICK n \in DOMAIN files : \E j \in 1 .. Len(Log[n]) : Log[n][j] = x
    BY <1>2, <1>6 DEF LinesInv
  <2>2. CASE n = k
    BY <1>4, <2>1, <2>2
  <2>3. CASE n # k
    BY <1>4, <2>1, <2>3
  <2> QED BY <2>2, <2>3
<1> QED BY <1>1, <1>3, <1>5, <1>6 DEF LinesInv, new, InOrder

\* Writing the line just read keeps LinesInv.
LEMMA LinesAppended ==
    ASSUME IInv, TypeOK', 0 \in DOMAIN files, code = "line", pc = "fputs",
           Log' = [Log EXCEPT ![0] = Append(Log[0], input)], Taken' = input, faults' = faults
    PROVE  LinesInv'
<1> DEFINE new == Log'
<1>1. IsLog(Log) /\ IsLog(new) /\ DOMAIN Log = DOMAIN files /\ DOMAIN new = DOMAIN files'
  BY LogTypes DEF IInv
<1>2. LinesInv /\ input \in Nat /\ Taken \in Nat
  BY TakenType DEF IInv
<1>3. Taken = input - 1
  BY DEF Taken, Ended
<1>4. \A n \in DOMAIN Log : \A j \in 1 .. Len(Log[n]) : Log[n][j] \in Int /\ Log[n][j] < input
  <2>1. \A n \in DOMAIN Log : \A j \in 1 .. Len(Log[n]) : Log[n][j] \in Int
    BY <1>1, ElementOfSeq DEF IsLog
  <2> QED BY <1>1, <1>2, <1>3, <2>1 DEF LinesInv
<1>5. InOrder(new)
  <2> HIDE DEF new
  <2>1. InOrder(Log) /\ input \in Int /\ 0 \in DOMAIN Log
    BY <1>1, <1>2 DEF LinesInv
  <2>2. \A n \in DOMAIN Log : \A j \in 1 .. Len(Log[n]) : Log[n][j] < input
    BY <1>4
  <2>3. InOrder([Log EXCEPT ![0] = Append(Log[0], input)])
    BY <1>1, <2>1, <2>2, AppendedInOrder
  <2> QED BY <2>3 DEF new
<1>6. /\ DOMAIN new = DOMAIN files /\ new[0] = Append(Log[0], input)
      /\ \A n \in DOMAIN files : n # 0 => new[n] = Log[n]
  <2> DEFINE more == Append(Log[0], input)
  <2>1. new = [Log EXCEPT ![0] = more] /\ 0 \in DOMAIN Log /\ DOMAIN Log = DOMAIN files
    BY <1>1
  <2> HIDE DEF new, more
  <2>2. /\ DOMAIN new = DOMAIN files /\ new[0] = more
        /\ \A n \in DOMAIN files : n # 0 => new[n] = Log[n]
    BY <2>1
  <2> QED BY <2>2 DEF more
<1> HIDE DEF new
<1> DEFINE size == Len(Log[0])
<1>7. /\ Len(new[0]) = size + 1 /\ new[0][size + 1] = input /\ size \in Nat
      /\ \A j \in 1 .. size : new[0][j] = Log[0][j]
  BY <1>1, <1>6 DEF IsLog
<1>8. ASSUME NEW n \in DOMAIN new, NEW j \in 1 .. Len(new[n]) PROVE new[n][j] <= input
  <2>1. CASE n # 0
    BY <1>1, <1>2, <1>4, <1>6, <2>1
  <2>2. CASE n = 0
    <3>1. CASE j = size + 1
      BY <1>2, <1>7, <2>2, <3>1
    <3>2. CASE j # size + 1
      <4>1. j \in 1 .. size
        BY <1>7, <2>2, <3>2
      <4> QED BY <1>1, <1>2, <1>4, <1>7, <2>2, <4>1
    <3> QED BY <3>1, <3>2
  <2> QED BY <2>1, <2>2
<1>9. ASSUME faults = 0, NEW x \in 1 .. input
      PROVE  \E n \in DOMAIN new : \E j \in 1 .. Len(new[n]) : new[n][j] = x
  <2>1. CASE x = input
    <3>1. size + 1 \in 1 .. Len(new[0])
      BY <1>7
    <3> QED BY <1>6, <1>7, <2>1, <3>1
  <2>2. CASE x # input
    <3>1. x \in 1 .. Taken
      BY <1>2, <1>3, <2>2
    <3>2. PICK n \in DOMAIN files : \E j \in 1 .. Len(Log[n]) : Log[n][j] = x
      BY <1>2, <1>9, <3>1 DEF LinesInv
    <3>3. CASE n # 0
      BY <1>6, <3>2, <3>3
    <3>4. CASE n = 0
      <4>1. PICK j \in 1 .. size : Log[0][j] = x
        BY <3>2, <3>4
      <4>2. j \in 1 .. Len(new[0]) /\ new[0][j] = x
        BY <1>7, <4>1
      <4> QED BY <1>6, <4>2
    <3> QED BY <3>3, <3>4
  <2> QED BY <2>1, <2>2
<1> QED BY <1>1, <1>5, <1>8, <1>9 DEF LinesInv, new, InOrder
\* Every step keeps LinesInv.
LEMMA LinesStep ==
    ASSUME IInv, Next
    PROVE  LinesInv'
<1>1. TypeOK /\ FilesInv /\ ReadInv /\ TypeOK' /\ IsLog(Log) /\ DOMAIN Log = DOMAIN files
  BY TypeStep, LogType DEF IInv
<1>2. ReadInv'
  BY ReadStep
<1>3. Taken \in Nat /\ input \in Nat /\ faults \in Nat /\ faults + 1 # 0 /\ code \in {"line", "eof", "error"}
  BY <1>1, TakenType, ParametersAssumption DEF TypeOK
<1>4. Less(Log, Log)
  <2>1. \A n \in DOMAIN Log : Len(Log[n]) <= Len(Log[n])
    BY <1>1 DEF IsLog
  <2> QED BY <2>1 DEF Less
<1>5. ASSUME Log' = Log, DOMAIN files' = DOMAIN files, Taken' = Taken, faults' = faults
      PROVE  LinesInv'
  <2>1. Less(Log', Log) /\ Taken' \in Nat /\ Taken <= Taken'
    BY <1>3, <1>4, <1>5
  <2> QED BY <1>1, <1>5, <2>1, LinesKept
<1>6. ASSUME Less(Log', Log), Taken' \in Nat, Taken <= Taken', faults' # 0
      PROVE  LinesInv'
  BY <1>1, <1>6, LinesKept
<1>7. Taken <= input
  BY <1>3 DEF Taken
<1>8. CASE fgets
  <2>1. files' = files /\ fd' = fd /\ buffer' = buffer /\ faults' = faults
    BY <1>8 DEF fgets
  <2>2. Taken' = Taken
    <3>1. pc = "fgets" /\ pc' = "flag" /\ Taken = input
      BY <1>8 DEF fgets, Taken
    <3>2. CASE code' = "line"
      <4>1. input' = input + 1
        BY <1>8, <3>2 DEF fgets
      <4>2. input' - 1 = input
        BY <1>3, <4>1
      <4> QED BY <3>1, <3>2, <4>2 DEF Taken, Ended
    <3>3. CASE code' # "line"
      BY <1>8, <3>1, <3>3 DEF fgets, Taken
    <3> QED BY <3>2, <3>3
  <2> QED BY <1>5, <2>1, <2>2, LogSame
<1>9. CASE signal_handler \/ TestFlag \/ get_count
  <2>1. files' = files /\ fd' = fd /\ buffer' = buffer /\ faults' = faults
    BY <1>9 DEF signal_handler, TestFlag, get_count
  <2>2. Taken' = Taken
    BY <1>9 DEF signal_handler, TestFlag, get_count, Taken, Ended, AfterRotate
  <2> QED BY <1>5, <2>1, <2>2, LogSame
<1>10. CASE RenameArchive
  <2>1. /\ pc = "rename" /\ i \in Nat /\ i >= 1 /\ fd = 0 /\ i + 1 \notin DOMAIN files
        /\ UNCHANGED <<code, input, faults>>
    BY <1>1, <1>10 DEF RenameArchive, FilesInv, TypeOK, Ended
  <2>2. CASE i \in DOMAIN files
    <3>1. files' = Renamed(i, i + 1) /\ UNCHANGED <<fd, buffer, pc>>
      BY <1>10, <2>2 DEF RenameArchive
    <3>2. fd' = IF fd = i THEN i + 1 ELSE fd
      BY <2>1, <3>1
    <3>3. Log' = Shifted(Log, i)
      BY <1>1, <2>1, <2>2, <3>1, <3>2, LogRenamed
    <3>4. Taken' = Taken
      BY <2>1, <3>1 DEF Taken
    <3> QED BY <1>1, <2>1, <2>2, <3>3, <3>4, LinesShifted
  <2>3. CASE i \notin DOMAIN files
    <3>1. files' = Flushed /\ pc' = "failed" /\ fd' = -1 /\ buffer' = <<>>
      BY <1>10, <2>3 DEF RenameArchive
    <3>2. Log' = Log
      BY <1>1, <3>1, LogClosed
    <3>3. Taken' = input
      BY <2>1, <3>1 DEF Taken, Ended
    <3>4. faults # 0
      <4> SUFFICES ASSUME faults = 0 PROVE i \in DOMAIN files
        BY <2>3
      <4>1. PICK k \in Nat : DOMAIN files = (0 .. i) \cup (i + 2 .. k)
        BY <1>1, <2>1 DEF FilesInv
      <4>2. i \in 0 .. i
        BY <2>1
      <4> QED BY <4>1, <4>2
    <3> QED BY <1>3, <1>4, <1>6, <1>7, <2>1, <3>2, <3>3, <3>4
  <2> QED BY <2>2, <2>3
<1>11. CASE RenameLog
  <2>1. /\ fd = 0 /\ 0 \in DOMAIN files /\ 1 \notin DOMAIN files /\ 0 + 1 = 1
        /\ files' = Renamed(0, 1) /\ fd' = 1 /\ buffer' = buffer /\ faults' = faults
    BY <1>1, <1>11 DEF RenameLog, FilesInv, TypeOK, Ended
  <2>2. Log' = Shifted(Log, 0)
    BY <1>1, <2>1, LogRenamed
  <2>3. Taken' = Taken
    BY <1>11 DEF RenameLog, Taken, Ended
  <2> QED BY <1>1, <2>1, <2>2, <2>3, LinesShifted
<1>12. CASE FCLOSE \/ Finish
  <2>1. files' = Flushed /\ fd' = -1 /\ buffer' = <<>> /\ faults' = faults
    BY <1>12 DEF FCLOSE, Finish
  <2>2. Log' = Log /\ DOMAIN files' = DOMAIN files
    BY <1>1, <2>1, LogClosed
  <2>3. Taken' = Taken
    <3>1. CASE FCLOSE
      BY <3>1 DEF FCLOSE, Taken, Ended
    <3>2. CASE Finish
      BY <1>1, <3>2 DEF Finish, Taken, Ended, ReadInv
    <3> QED BY <1>12, <3>1, <3>2
  <2> QED BY <1>5, <2>1, <2>2, <2>3
<1>13. CASE FOPEN \/ main
  <2>1. fd = -1 /\ buffer = <<>> /\ buffer' = buffer /\ files' = Put(0, <<>>) /\ fd' = 0
    BY <1>1, <1>13 DEF FOPEN, main, FilesInv
  <2>2. /\ DOMAIN Log' = DOMAIN files \cup {0} /\ (Log')[0] = <<>> /\ Less(Log', Log)
        /\ \A n \in DOMAIN files : n # 0 => (Log')[n] = Log[n]
    BY <1>1, <2>1, LogOpened
  <2>3. CASE main
    <3>1. Taken' = input /\ faults' = faults + 1
      BY <2>3 DEF main, Taken
    <3> QED BY <1>3, <1>6, <1>7, <2>2, <3>1
  <2>4. CASE FOPEN
    <3>1. /\ pc = "fopen" /\ pc' = (IF code = "line" THEN "fputs" ELSE "finish")
          /\ UNCHANGED <<code, input, faults>>
      BY <2>4 DEF FOPEN, AfterRotate
    <3>2. Taken' = Taken
      BY <3>1 DEF Taken, Ended
    <3>3. CASE faults # 0
      <4>1. Taken' \in Nat /\ Taken <= Taken'
        BY <1>3, <3>2
      <4> QED BY <1>6, <2>2, <3>1, <3>3, <4>1
    <3>4. CASE faults = 0
      <4>1. PICK k \in Nat : DOMAIN files = 1 .. k
        BY <1>1, <3>1, <3>4 DEF FilesInv
      <4>2. 0 \notin DOMAIN files
        BY <4>1
      <4>3. DOMAIN files' = DOMAIN files \cup {0}
        BY <2>1 DEF Put
      <4>4. \A n \in DOMAIN files : n \in DOMAIN files' /\ (Log')[n] = Log[n]
        BY <2>2, <4>2, <4>3
      <4>5. Taken' \in Nat /\ Taken <= Taken'
        BY <1>3, <3>2
      <4> QED BY <1>1, <2>2, <3>2, <3>4, <4>4, <4>5, LinesKept
    <3> QED BY <3>3, <3>4
  <2> QED BY <1>13, <2>3, <2>4
<1>14. CASE FPUTS
  <2>1. /\ pc = "fputs" /\ code = "line" /\ fd = 0 /\ fd' = 0 /\ pc' = "fgets"
        /\ UNCHANGED <<code, input, faults>>
        /\ \/ buffer' = Append(buffer, input) /\ files' = files
           \/ buffer' = <<>> /\ files' = Put(fd, Append(files[fd] \o buffer, input))
    BY <1>1, <1>14 DEF FPUTS, FilesInv, ReadInv, Ended
  <2>2. input \in 1 .. MaxLines
    BY <1>1, <2>1, ParametersAssumption DEF TypeOK, ReadInv
  <2>3. Log' = [Log EXCEPT ![0] = Append(Log[0], input)] /\ 0 \in DOMAIN files
    BY <1>1, <2>1, <2>2, LogAppended
  <2>4. Taken' = input
    BY <2>1 DEF Taken
  <2> QED BY <1>1, <2>1, <2>3, <2>4, LinesAppended
<1>15. CASE Kill \/ CallFails
  <2>1. /\ files' = files \/ files' = Flushed
        /\ fd' = -1 /\ buffer' = <<>> /\ faults' = faults + 1 /\ input' = input /\ pc' \in Ended
    BY <1>15 DEF Kill, CallFails, Ended
  <2>2. Less(Log', Log)
    BY <1>1, <1>4, <2>1, LogClosed
  <2>3. Taken' = input
    BY <2>1 DEF Taken
  <2> QED BY <1>3, <1>6, <1>7, <2>1, <2>2, <2>3
<1>16. CASE DeleteArchive
  <2>1. PICK n \in Archives \ {fd} : files' = Restrict(files, DOMAIN files \ {n})
    BY <1>16 DEF DeleteArchive
  <2>2. UNCHANGED <<fd, buffer, pc, code, input>> /\ faults' = faults + 1
    BY <1>16 DEF DeleteArchive
  <2>3. Log' = [m \in DOMAIN files \ {n} |-> Log[m]]
    BY <2>1, <2>2 DEF Log, Contents, Restrict
  <2>4. Less(Log', Log)
    <3>1. \A m \in DOMAIN files : Len(Log[m]) <= Len(Log[m])
      BY <1>1 DEF IsLog
    <3> QED BY <1>1, <2>3, <3>1 DEF Less
  <2>5. Taken' = Taken
    BY <2>2 DEF Taken
  <2> QED BY <1>3, <1>6, <2>2, <2>4, <2>5
<1>17. CASE CreateMisleading
  <2>1. UNCHANGED <<files, fd, buffer, pc, code, input>> /\ faults' = faults + 1
    BY <1>17 DEF CreateMisleading
  <2>2. Taken' = Taken
    BY <2>1 DEF Taken
  <2>3. Log' = Log
    BY <2>1, LogSame
  <2> QED BY <1>3, <1>4, <1>6, <2>1, <2>2, <2>3
<1> QED BY <1>8, <1>9, <1>10, <1>11, <1>12, <1>13, <1>14, <1>15, <1>16, <1>17 DEF Next, Logger
(***************************************************************************)
(* The invariant holds in every state of every behaviour of the logger.    *)
(***************************************************************************)
THEOREM InvariantCorrect == Spec => []IInv
<1>1. IInv /\ [Next]_vars => IInv'
  <2> SUFFICES ASSUME IInv, [Next]_vars PROVE IInv'
    OBVIOUS
  <2>1. CASE Next
    BY <2>1, TypeStep, FilesStep, ReadStep, LinesStep DEF IInv
  <2>2. CASE UNCHANGED vars
    <3>1. /\ files' = files /\ strays' = strays /\ fd' = fd /\ buffer' = buffer /\ pc' = pc
          /\ code' = code /\ input' = input /\ flag' = flag /\ errno' = errno /\ i' = i
          /\ faults' = faults
      BY <2>2 DEF vars
    <3>2. Log' = Log /\ Taken' = Taken
      BY <3>1, LogSame DEF Taken
    <3>3. TypeOK'
      BY <3>1 DEF IInv, TypeOK
    <3>4. FilesInv'
      BY <3>1 DEF IInv, FilesInv
    <3>5. ReadInv'
      BY <3>1 DEF IInv, ReadInv
    <3>6. LinesInv'
      BY <3>1, <3>2 DEF IInv, LinesInv, InOrder
    <3> QED BY <3>3, <3>4, <3>5, <3>6 DEF IInv
  <2> QED BY <2>1, <2>2
<1> QED BY <1>1, InitIInv, PTL DEF Spec

(***************************************************************************)
(* Every variable keeps its type: in particular the file that is written   *)
(* to exists, and get_count gives a number.                                *)
(***************************************************************************)
THEOREM TypeCorrect == Spec => []TypeOK
<1>1. IInv => TypeOK
  BY DEF IInv
<1> QED BY <1>1, InvariantCorrect, PTL

(***************************************************************************)
(* Within an archive, and from an archive to one with a lower number, the  *)
(* lines follow each other as they were read, whatever was killed, deleted *)
(* or failed in between.                                                   *)
(***************************************************************************)
THEOREM ChronologicalCorrect == Spec => []Chronological
<1>1. IInv => Chronological
  <2> SUFFICES ASSUME IInv PROVE Chronological
    OBVIOUS
  <2>1. InOrder(Log) /\ IsLog(Log) /\ DOMAIN Log = DOMAIN files
    BY LogType DEF IInv, LinesInv
  <2>2. \A n \in DOMAIN files : Contents(n) = Log[n]
    BY DEF Log
  <2>3. \A n \in DOMAIN files : DOMAIN Contents(n) = 1 .. Len(Log[n])
    BY <2>1, <2>2, LenProperties DEF IsLog
  <2>4. \A n \in DOMAIN files : \A j, k \in DOMAIN Contents(n) :
            j < k => Contents(n)[j] < Contents(n)[k]
    BY <2>1, <2>2, <2>3 DEF InOrder
  <2>5. ASSUME NEW m \in DOMAIN files, NEW n \in DOMAIN files, m < n,
               NEW x \in ToSet(Contents(m)), NEW y \in ToSet(Contents(n))
        PROVE  y < x
    <3>1. PICK j \in 1 .. Len(Log[m]) : x = Log[m][j]
      BY <2>2, <2>3 DEF ToSet
    <3>2. PICK k \in 1 .. Len(Log[n]) : y = Log[n][k]
      BY <2>2, <2>3 DEF ToSet
    <3> QED BY <2>1, <2>5, <3>1, <3>2 DEF InOrder
  <2> QED BY <2>4, <2>5 DEF Chronological
<1> QED BY <1>1, InvariantCorrect, PTL

(***************************************************************************)
(* Left alone, the program fails only when reading does, and it succeeds   *)
(* after a read error only with an empty log: no rotation of any number of *)
(* archives, whatever the digits of their numbers, names a missing file.   *)
(***************************************************************************)
THEOREM ExitStatusCorrect == Spec => []ExitStatus
<1>1. IInv => ExitStatus
  BY DEF IInv, ReadInv, ExitStatus, Ended
<1> QED BY <1>1, InvariantCorrect, PTL

\* To append to a concatenation is to append to the second sequence.
LEMMA AppendConcat ==
    \A r, s \in Seq(1 .. MaxLines), x \in 1 .. MaxLines : Append(r \o s, x) = r \o Append(s, x)
<1> TAKE r, s \in Seq(1 .. MaxLines), x \in 1 .. MaxLines
<1>1. Append(r \o s, x) = (r \o s) \o <<x>> /\ Append(s, x) = s \o <<x>>
  BY AppendIsConcat, ConcatProperties
<1>2. <<x>> \in Seq(1 .. MaxLines)
  OBVIOUS
<1> QED BY <1>1, <1>2, ConcatAssociative

\* Between the rename of the log and fopen there is no file_name.
LogAway == pc \in {"fclose", "fopen"} => 0 \notin DOMAIN files

LEMMA LogAwayStep == IInv /\ LogAway /\ [Next]_vars => LogAway'
<1> SUFFICES ASSUME IInv, LogAway, [Next]_vars PROVE LogAway'
  OBVIOUS
<1>1. TypeOK /\ FilesInv
  BY DEF IInv
<1> USE <1>1 DEF LogAway
<1>2. CASE UNCHANGED vars
  BY <1>2 DEF vars
<1>3. CASE RenameLog
  BY <1>3 DEF RenameLog, Renamed
<1>4. CASE FCLOSE
  <2>1. fd = 1 /\ 0 \notin DOMAIN files /\ files' = Put(1, files[1] \o buffer)
    BY <1>4 DEF FCLOSE, FilesInv, Flushed, Ended
  <2> QED BY <2>1 DEF Put
<1>5. CASE DeleteArchive
  BY <1>5 DEF DeleteArchive, Restrict
<1>6. CASE signal_handler \/ CreateMisleading
  BY <1>6 DEF signal_handler, CreateMisleading
<1>7. CASE \/ fgets \/ TestFlag \/ get_count \/ RenameArchive \/ FOPEN \/ FPUTS \/ Finish
           \/ Kill \/ main \/ CallFails
  BY <1>7 DEF fgets, TestFlag, get_count, RenameArchive, FOPEN, FPUTS, Finish, Kill, main,
              CallFails, AfterRotate
<1> QED BY <1>2, <1>3, <1>4, <1>5, <1>6, <1>7 DEF Next, Logger

(***************************************************************************)
(* No step destroys an archive or, but for the fopen of main, truncates    *)
(* the log: the target of a rename is never there, and after a rotation    *)
(* fopen finds no file_name.                                               *)
(***************************************************************************)
THEOREM FilesSurviveCorrect == Spec => FilesSurvive
<1> DEFINE Survives(n) == \/ n \in DOMAIN files' /\ IsPrefix(files[n], files'[n])
                          \/ n + 1 \in DOMAIN files' /\ files'[n + 1] = files[n]
                          \/ DeleteArchive
                          \/ n = 0 /\ main
<1>1. IInv /\ LogAway /\ [Next]_vars => [\A n \in DOMAIN files : Survives(n)]_vars
  <2> SUFFICES ASSUME IInv, LogAway, Next, ~DeleteArchive, NEW n \in DOMAIN files, ~(n = 0 /\ main)
               PROVE  \/ n \in DOMAIN files' /\ IsPrefix(files[n], files'[n])
                      \/ n + 1 \in DOMAIN files' /\ files'[n + 1] = files[n]
    OBVIOUS
  <2>1. /\ TypeOK /\ FilesInv /\ n \in Nat
        /\ files[n] \in Seq(1 .. MaxLines) /\ buffer \in Seq(1 .. MaxLines)
    BY DEF IInv, TypeOK
  <2>2. IsPrefix(files[n], files[n])
    <3>1. Len(files[n]) \in Nat
      BY <2>1
    <3> QED BY <3>1 DEF IsPrefix
  <2>3. ASSUME NEW b \in Seq(1 .. MaxLines) PROVE IsPrefix(files[n], files[n] \o b)
    <3> DEFINE a == files[n]
               c == a \o b
    <3>1. a \in Seq(1 .. MaxLines) /\ Len(a) \in Nat /\ Len(b) \in Nat
      BY <2>1
    <3> HIDE DEF a
    <3>2. /\ c \in Seq(1 .. MaxLines) /\ Len(c) = Len(a) + Len(b)
          /\ \A j \in 1 .. Len(a) + Len(b) : c[j] = IF j <= Len(a) THEN a[j] ELSE b[j - Len(a)]
      BY <3>1, ConcatProperties
    <3> HIDE DEF c
    <3>3. /\ SubSeq(a, 1, Len(a)) \in Seq(1 .. MaxLines)
          /\ SubSeq(c, 1, Len(a)) \in Seq(1 .. MaxLines)
          /\ Len(SubSeq(a, 1, Len(a))) = Len(a) /\ Len(SubSeq(c, 1, Len(a))) = Len(a)
          /\ \A j \in 1 .. Len(a) : SubSeq(a, 1, Len(a))[j] = SubSeq(c, 1, Len(a))[j]
      <4>1. ASSUME NEW s \in Seq(1 .. MaxLines), Len(a) <= Len(s)
            PROVE  /\ SubSeq(s, 1, Len(a)) \in Seq(1 .. MaxLines)
                   /\ Len(SubSeq(s, 1, Len(a))) = Len(a)
                   /\ \A j \in 1 .. Len(a) : SubSeq(s, 1, Len(a))[j] = s[j]
        <5> DEFINE p == SubSeq(s, 1, Len(a))
        <5>1. /\ \A j \in 1 .. Len(a) : s[j] \in 1 .. MaxLines
              /\ Len(a) \in Int /\ 1 \in Int
          <6>1. \A j \in 1 .. Len(a) : j \in 1 .. Len(s)
            BY <3>1, <4>1
          <6>2. \A j \in 1 .. Len(s) : s[j] \in 1 .. MaxLines
            BY ElementOfSeq
          <6> QED BY <3>1, <6>1, <6>2
        <5>2. /\ p \in Seq(1 .. MaxLines)
              /\ Len(p) = IF 1 <= Len(a) THEN Len(a) - 1 + 1 ELSE 0
              /\ \A j \in 1 .. Len(a) - 1 + 1 : p[j] = s[1 + j - 1]
          BY <5>1, SubSeqProperties
        <5> HIDE DEF p
        <5>3. Len(a) - 1 + 1 = Len(a) /\ \A j \in 1 .. Len(a) : 1 + j - 1 = j
          BY <3>1
        <5>4. Len(p) = Len(a)
          BY <3>1, <5>2, <5>3
        <5>5. \A j \in 1 .. Len(a) : p[j] = s[j]
          BY <5>2, <5>3
        <5> QED BY <5>2, <5>4, <5>5 DEF p
      <4>2. Len(a) <= Len(a) /\ Len(a) <= Len(c) /\ \A j \in 1 .. Len(a) : c[j] = a[j]
        BY <3>1, <3>2
      <4> QED BY <3>1, <3>2, <4>1, <4>2
    <3>4. SubSeq(a, 1, Len(a)) = SubSeq(c, 1, Len(a))
      BY <3>3, SeqEqual
    <3>5. Len(a) <= Len(c)
      BY <3>1, <3>2
    <3> QED BY <3>4, <3>5 DEF IsPrefix, a, c
  <2>4. n \in DOMAIN Flushed /\ IsPrefix(files[n], Flushed[n])
    BY <2>1, <2>2, <2>3, FlushedFiles, LogType
  <2>5. CASE fgets \/ signal_handler \/ TestFlag \/ get_count \/ Kill \/ CreateMisleading
    BY <2>1, <2>2, <2>5 DEF fgets, signal_handler, TestFlag, get_count, Kill, CreateMisleading
  <2>6. ASSUME NEW k \in DOMAIN files, k + 1 \notin DOMAIN files, files' = Renamed(k, k + 1)
        PROVE  \/ n \in DOMAIN files' /\ IsPrefix(files[n], files'[n])
               \/ n + 1 \in DOMAIN files' /\ files'[n + 1] = files[n]
    <3>1. CASE n = k
      BY <2>6, <3>1 DEF Renamed
    <3>2. CASE n # k
      BY <2>1, <2>2, <2>6, <3>2 DEF Renamed
    <3> QED BY <3>1, <3>2
  <2>7. CASE RenameArchive
    <3>1. i + 1 \notin DOMAIN files
      BY <2>1, <2>7 DEF RenameArchive, FilesInv
    <3>2. CASE i \in DOMAIN files
      BY <2>6, <2>7, <3>1, <3>2 DEF RenameArchive
    <3>3. CASE i \notin DOMAIN files
      BY <2>4, <2>7, <3>3 DEF RenameArchive
    <3> QED BY <3>2, <3>3
  <2>8. CASE RenameLog
    <3>1. fd = 0 /\ 0 \in DOMAIN files /\ 0 + 1 = 1 /\ 1 \notin DOMAIN files /\ files' = Renamed(0, 1)
      BY <2>1, <2>8 DEF RenameLog, FilesInv, TypeOK, Ended
    <3> QED BY <2>6, <3>1
  <2>9. CASE FCLOSE \/ Finish \/ CallFails
    BY <2>1, <2>2, <2>4, <2>9 DEF FCLOSE, Finish, CallFails
  <2>10. CASE FOPEN \/ main
    <3>1. n # 0
      BY <2>10 DEF FOPEN, LogAway
    <3> QED BY <2>1, <2>2, <2>10, <3>1 DEF FOPEN, main, Put
  <2>11. CASE FPUTS
    <3>1. fd = 0
      BY <2>1, <2>11 DEF FPUTS, FilesInv, Ended
    <3>2. CASE files' = files
      BY <2>2, <3>2
    <3>3. CASE files' = Put(0, Append(files[0] \o buffer, input))
      <4>1. CASE n # 0
        BY <2>1, <2>2, <3>3, <4>1 DEF Put
      <4>2. CASE n = 0
        <5> DEFINE b == Append(buffer, input)
        <5>1. input \in 1 .. MaxLines
          BY <2>1, <2>11 DEF FPUTS, IInv, ReadInv, TypeOK
        <5>2. b \in Seq(1 .. MaxLines)
          BY <2>1, <5>1
        <5>3. Append(files[n] \o buffer, input) = files[n] \o b
          BY <2>1, <5>1, AppendConcat
        <5> HIDE DEF b
        <5>4. n \in DOMAIN files' /\ files'[n] = files[n] \o b
          BY <3>3, <4>2, <5>3 DEF Put
        <5> QED BY <2>3, <5>2, <5>4
      <4> QED BY <4>1, <4>2
    <3> QED BY <2>11, <3>1, <3>2, <3>3 DEF FPUTS
  <2> QED BY <2>5, <2>7, <2>8, <2>9, <2>10, <2>11 DEF Next, Logger
<1>2. Init => LogAway
  BY DEF Init, LogAway
<1> QED BY <1>1, <1>2, LogAwayStep, InvariantCorrect, PTL DEF Spec, FilesSurvive
----------------------------------------------------------------------------
(* From the order of the contents to the whole input.                      *)

Increasing(s) == \A j, k \in 1 .. Len(s) : j < k => s[j] < s[k]

Holds(s, x) == \E j \in 1 .. Len(s) : s[j] = x

\* What a concatenation holds, and when it ascends.
LEMMA ConcatHolds ==
    ASSUME NEW s \in Seq(Int), NEW t \in Seq(Int)
    PROVE  /\ s \o t \in Seq(Int)
           /\ \A x : Holds(s \o t, x) <=> Holds(s, x) \/ Holds(t, x)
           /\ Increasing(s) /\ Increasing(t) /\ (\A x, y : Holds(s, x) /\ Holds(t, y) => x < y)
                 => Increasing(s \o t)
<1> DEFINE u == s \o t
           m == Len(s)
           n == Len(t)
<1>1. /\ u \in Seq(Int) /\ Len(u) = m + n
      /\ \A j \in 1 .. m + n : u[j] = IF j <= m THEN s[j] ELSE t[j - m]
  BY ConcatProperties
<1>2. m \in Nat /\ n \in Nat
  OBVIOUS
<1> HIDE DEF u, m, n
<1>3. ASSUME NEW j \in 1 .. m PROVE j \in 1 .. m + n /\ u[j] = s[j]
  BY <1>1, <1>2
<1>4. ASSUME NEW j \in 1 .. n PROVE m + j \in 1 .. m + n /\ u[m + j] = t[j]
  <2>1. m + j \in 1 .. m + n /\ ~(m + j <= m) /\ (m + j) - m = j
    BY <1>2
  <2> QED BY <1>1, <2>1
<1>5. ASSUME NEW k \in 1 .. m + n
      PROVE  k \in 1 .. m \/ (k - m \in 1 .. n /\ u[k] = t[k - m] /\ ~(k <= m))
  BY <1>1, <1>2
<1>6. \A x : Holds(u, x) <=> Holds(s, x) \/ Holds(t, x)
  <2> TAKE x
  <2>1. ASSUME Holds(s, x) PROVE Holds(u, x)
    BY <1>1, <1>3, <2>1 DEF Holds, m
  <2>2. ASSUME Holds(t, x) PROVE Holds(u, x)
    BY <1>1, <1>4, <2>2 DEF Holds, n
  <2>3. ASSUME Holds(u, x) PROVE Holds(s, x) \/ Holds(t, x)
    <3>1. PICK k \in 1 .. m + n : u[k] = x
      BY <1>1, <2>3 DEF Holds
    <3>2. CASE k \in 1 .. m
      BY <1>3, <3>1, <3>2 DEF Holds, m
    <3>3. CASE k \notin 1 .. m
      BY <1>5, <3>1, <3>3 DEF Holds, n
    <3> QED BY <3>2, <3>3
  <2> QED BY <2>1, <2>2, <2>3
<1>7. ASSUME Increasing(s), Increasing(t), \A x, y : Holds(s, x) /\ Holds(t, y) => x < y
      PROVE  Increasing(u)
  <2> SUFFICES ASSUME NEW j \in 1 .. m + n, NEW k \in 1 .. m + n, j < k PROVE u[j] < u[k]
    BY <1>1 DEF Increasing
  <2>1. CASE k \in 1 .. m
    <3>1. j \in 1 .. m
      BY <1>2, <2>1
    <3> QED BY <1>3, <1>7, <2>1, <3>1 DEF Increasing, m
  <2>2. CASE k \notin 1 .. m /\ j \in 1 .. m
    <3>1. Holds(s, u[j]) /\ Holds(t, u[k])
      BY <1>3, <1>5, <2>2 DEF Holds, m, n
    <3> QED BY <1>7, <3>1
  <2>3. CASE k \notin 1 .. m /\ j \notin 1 .. m
    <3>1. /\ k - m \in 1 .. n /\ j - m \in 1 .. n /\ u[k] = t[k - m] /\ u[j] = t[j - m]
      BY <1>5, <2>3
    <3>2. j - m < k - m
      BY <1>2
    <3> QED BY <1>7, <3>1, <3>2 DEF Increasing, n
  <2> QED BY <2>1, <2>2, <2>3
<1> QED BY <1>1, <1>6, <1>7 DEF u

(***************************************************************************)
(* Increasing sequences, each above the one before it, are one increasing  *)
(* sequence with the elements of all of them.                              *)
(***************************************************************************)
LEMMA FlattenIncreasing ==
    ASSUME NEW seqs \in Seq(Seq(Int)), Len(seqs) > 0,
           \A k \in 1 .. Len(seqs) : Increasing(seqs[k]),
           \A k, l \in 1 .. Len(seqs) : k < l =>
              \A x, y : Holds(seqs[k], x) /\ Holds(seqs[l], y) => x < y
    PROVE  /\ FlattenSeq(seqs) \in Seq(Int)
           /\ Increasing(FlattenSeq(seqs))
           /\ \A x : Holds(FlattenSeq(seqs), x) <=>
                        \E k \in 1 .. Len(seqs) : Holds(seqs[k], x)
<1> DEFINE n == Len(seqs)
<1>1. PICK f \in [1 .. n -> Seq(Int)] :
         /\ f[1] = seqs[1]
         /\ \A k \in 2 .. n : f[k] = f[k - 1] \o seqs[k]
         /\ FlattenSeq(seqs) = f[n]
  BY FlattenSteps
<1>2. n \in Nat /\ n # 0 /\ n - 1 \in Nat /\ \A k \in 1 .. n : seqs[k] \in Seq(Int)
  BY ElementOfSeq
<1> HIDE DEF n
<1> DEFINE Good(k) == /\ Increasing(f[k])
                      /\ \A x : Holds(f[k], x) <=> \E l \in 1 .. k : Holds(seqs[l], x)
           P == {k \in Nat : k + 1 \in 1 .. n => Good(k + 1)}
<1>3. 0 \in P
  <2>1. 0 + 1 = 1 /\ 1 \in 1 .. n /\ \A l \in 1 .. 1 : l = 1
    BY <1>2
  <2>2. Good(1)
    BY <1>1, <2>1 DEF n
  <2> HIDE DEF Good
  <2> QED BY <2>1, <2>2
<1>4. ASSUME NEW k \in P PROVE k + 1 \in P
  <2>1. k \in Nat /\ (k + 1 \in 1 .. n => Good(k + 1)) /\ k + 1 \in Nat
    OBVIOUS
  <2> SUFFICES ASSUME (k + 1) + 1 \in 1 .. n PROVE Good((k + 1) + 1)
    BY <2>1
  <2> DEFINE l == k + 1
  <2>2. l \in 1 .. n /\ l + 1 \in 2 .. n /\ l + 1 \in 1 .. n /\ (l + 1) - 1 = l /\ l \in Nat
    BY <1>2, <2>1
  <2>3. Good(l)
    BY <2>1, <2>2
  <2>4. f[l + 1] = f[l] \o seqs[l + 1] /\ f[l] \in Seq(Int) /\ seqs[l + 1] \in Seq(Int)
    BY <1>1, <1>2, <2>2
  <2> HIDE DEF l, P
  <2>5. ASSUME NEW x, NEW y, Holds(f[l], x), Holds(seqs[l + 1], y) PROVE x < y
    <3>1. PICK j \in 1 .. l : Holds(seqs[j], x)
      BY <2>3, <2>5
    <3>2. j \in 1 .. n /\ j < l + 1
      BY <1>2, <2>2
    <3> QED BY <2>2, <2>5, <3>1, <3>2 DEF n
  <2>6. Increasing(seqs[l + 1])
    BY <2>2 DEF n
  <2>7. Increasing(f[l + 1]) /\ \A x : Holds(f[l + 1], x) <=> Holds(f[l], x) \/ Holds(seqs[l + 1], x)
    BY <2>3, <2>4, <2>5, <2>6, ConcatHolds
  <2>8. \A j : j \in 1 .. l + 1 <=> j \in 1 .. l \/ j = l + 1
    BY <2>2
  <2>9. \A x : Holds(f[l + 1], x) <=> \E j \in 1 .. l + 1 : Holds(seqs[j], x)
    BY <2>3, <2>7, <2>8
  <2> QED BY <2>7, <2>9 DEF l
<1> HIDE DEF Good
<1>5. P \in SUBSET Nat
  OBVIOUS
<1> HIDE DEF P
<1>6. n - 1 \in P
  BY <1>2, <1>3, <1>4, <1>5, SetInduction
<1>7. (n - 1) + 1 = n /\ n \in 1 .. n
  BY <1>2
<1>8. Good(n)
  BY <1>6, <1>7 DEF P
<1>9. FlattenSeq(seqs) = f[n] /\ f[n] \in Seq(Int)
  BY <1>1, <1>7 DEF n
<1>10. Increasing(f[n]) /\ \A x : Holds(f[n], x) <=> \E l \in 1 .. n : Holds(seqs[l], x)
  BY <1>8 DEF Good
<1> HIDE DEF P
<1>11. /\ FlattenSeq(seqs) \in Seq(Int)
       /\ Increasing(FlattenSeq(seqs))
       /\ \A x : Holds(FlattenSeq(seqs), x) <=> \E l \in 1 .. n : Holds(seqs[l], x)
  BY ONLY <1>9, <1>10
<1> QED BY <1>11 DEF n

(***************************************************************************)
(* An increasing sequence of the numbers from 1 to n is 1, 2, ..., n.      *)
(***************************************************************************)
LEMMA IncreasingIsIdentity ==
    ASSUME NEW s \in Seq(Int), NEW n \in Nat, Increasing(s),
           \A x \in Int : Holds(s, x) <=> x \in 1 .. n
    PROVE  s = [k \in 1 .. n |-> k]
<1> DEFINE m == Len(s)
           P == {k \in Nat : k \in 1 .. m => s[k] = k}
<1>1. m \in Nat /\ \A k \in 1 .. m : s[k] \in 1 .. n
  <2>1. \A k \in 1 .. m : s[k] \in Int
    BY ElementOfSeq
  <2>2. \A k \in 1 .. m : Holds(s, s[k])
    BY DEF Holds
  <2> QED BY <2>1, <2>2
<1>2. \A x \in 1 .. n : \E j \in 1 .. m : s[j] = x
  BY DEF Holds
<1>3. \A j, k \in 1 .. m : j < k => s[j] < s[k]
  BY DEF Increasing
<1>4. s = [k \in 1 .. m |-> s[k]]
  OBVIOUS
<1> HIDE DEF m
<1>5. 0 \in P
  OBVIOUS
<1>6. ASSUME NEW k \in P PROVE k + 1 \in P
  <2>1. k \in Nat /\ (k \in 1 .. m => s[k] = k)
    OBVIOUS
  <2> SUFFICES ASSUME k + 1 \in 1 .. m PROVE s[k + 1] = k + 1
    BY <2>1
  <2>2. s[k + 1] \in 1 .. n
    BY <1>1
  <2>3. s[k + 1] >= k + 1
    <3>1. CASE k = 0
      BY <2>2, <3>1
    <3>2. CASE k # 0
      <4>1. k \in 1 .. m /\ k < k + 1
        BY <1>1, <2>1, <3>2
      <4>2. k < s[k + 1]
        BY <1>3, <2>1, <4>1
      <4> QED BY <2>1, <2>2, <4>2
    <3> QED BY <3>1, <3>2
  <2>4. k + 1 \in 1 .. n
    BY <2>1, <2>2, <2>3
  <2>5. PICK j \in 1 .. m : s[j] = k + 1
    BY <1>2, <2>4
  <2>6. ~(k + 1 < j)
    <3> SUFFICES ASSUME k + 1 < j PROVE FALSE
      OBVIOUS
    <3>1. s[k + 1] < k + 1
      BY <1>3, <2>5
    <3> QED BY <2>1, <2>2, <2>3, <3>1
  <2>7. ~(j < k + 1)
    <3> SUFFICES ASSUME j < k + 1 PROVE FALSE
      OBVIOUS
    <3>1. k # 0 /\ k \in 1 .. m /\ j <= k
      BY <1>1, <2>1
    <3>2. s[k] = k
      BY <2>1, <3>1
    <3>3. j = k \/ s[j] < s[k]
      BY <1>3, <2>1, <3>1
    <3> QED BY <2>1, <2>5, <3>2, <3>3
  <2>8. j = k + 1
    BY <1>1, <2>1, <2>6, <2>7
  <2> QED BY <2>5, <2>8
<1>7. P \in SUBSET Nat
  OBVIOUS
<1> HIDE DEF P
<1>8. P = Nat
  BY <1>5, <1>6, <1>7, SetInduction
<1>9. \A k \in 1 .. m : s[k] = k
  BY <1>1, <1>8 DEF P
<1>10. m = n
  <2>1. m <= n
    <3>1. CASE m = 0
      BY <3>1
    <3>2. CASE m # 0
      <4>1. m \in 1 .. m
        BY <1>1, <3>2
      <4>2. s[m] = m /\ s[m] \in 1 .. n
        BY <1>1, <1>9, <4>1
      <4> QED BY <4>2
    <3> QED BY <3>1, <3>2
  <2>2. n <= m
    <3>1. CASE n = 0
      BY <1>1, <3>1
    <3>2. CASE n # 0
      <4>1. n \in 1 .. n
        BY <3>2
      <4>2. PICK j \in 1 .. m : s[j] = n
        BY <1>2, <4>1
      <4>3. j = n
        BY <1>9, <4>2
      <4> QED BY <1>1, <4>2, <4>3
    <3> QED BY <3>1, <3>2
  <2> QED BY <1>1, <2>1, <2>2
<1> QED BY <1>4, <1>9, <1>10
(***************************************************************************)
(* Left alone, the logger keeps every line: the archives from the oldest   *)
(* down, then file_name with what is still buffered, then the line in      *)
(* hand, are the input, at every step of every rotation.                   *)
(***************************************************************************)
THEOREM NothingLostCorrect == Spec => []NothingLost
<1>1. IInv => NothingLost
  <2> SUFFICES ASSUME IInv, faults = 0
               PROVE  LET top == Max(DOMAIN files \cup {0})
                          parts == [k \in 1 .. top + 1 |-> Contents(top + 1 - k)]
                      IN  FlattenSeq(parts) \o InHand = [n \in 1 .. input |-> n]
    BY DEF NothingLost
  <2> DEFINE D == DOMAIN files \cup {0}
             top == Max(D)
             parts == [k \in 1 .. top + 1 |-> Contents(top + 1 - k)]
  <2>1. TypeOK /\ FilesInv /\ LinesInv /\ Taken \in Nat /\ input \in Nat
    BY TakenType DEF IInv
  <2>2. top \in Nat /\ \A n \in DOMAIN files : n <= top
    <3>1. D \in SUBSET Nat /\ D # {} /\ DOMAIN files \subseteq D
      BY <2>1 DEF TypeOK
    <3>2. IsFiniteSet(D)
      BY <2>1, FS_Singleton, FS_Union DEF FilesInv
    <3> HIDE DEF D
    <3>3. PICK b \in Nat : \A m \in D : m <= b
      BY <3>1, <3>2, FiniteBounded
    <3>4. Max(D) \in D /\ \A m \in D : m <= Max(D)
      BY <3>1, <3>3, Largest
    <3> QED BY <3>1, <3>4
  <2> HIDE DEF D, top
  <2>3. /\ \A n \in DOMAIN files : Log[n] \in Seq(1 .. MaxLines) /\ Contents(n) = Log[n]
        /\ \A n \in DOMAIN files : Log[n] \in Seq(Int)
        /\ \A n : n \notin DOMAIN files => Contents(n) = <<>>
        /\ DOMAIN Log = DOMAIN files /\ DOMAIN files \subseteq Nat
    <3>1. IsLog(Log) /\ DOMAIN Log = DOMAIN files /\ \A n \in DOMAIN files : Log[n] \in Seq(1 .. MaxLines)
      BY <2>1, LogType
    <3>2. \A n \in DOMAIN files : Contents(n) = Log[n]
      BY DEF Log
    <3>3. \A n : n \notin DOMAIN files => Contents(n) = <<>>
      BY DEF Contents
    <3>4. DOMAIN files \subseteq Nat /\ \A n \in DOMAIN files : Log[n] \in Seq(Int)
      BY <3>1 DEF IsLog
    <3> QED BY ONLY <3>1, <3>2, <3>3, <3>4
  <2>4. \A n \in Nat : Contents(n) \in Seq(Int)
    <3>1. <<>> \in Seq(Int)
      OBVIOUS
    <3> QED BY <2>3, <3>1
  <2>5. \A k \in 1 .. top + 1 : top + 1 - k \in Nat
    BY <2>2
  <2>6. parts \in Seq(Seq(Int)) /\ Len(parts) = top + 1
    <3>1. parts \in [1 .. top + 1 -> Seq(Int)] /\ top + 1 \in Nat
      BY <2>2, <2>4, <2>5
    <3> HIDE DEF parts
    <3>2. \E n \in Nat : parts \in [1 .. n -> Seq(Int)]
      BY <3>1
    <3>3. parts \in Seq(Seq(Int))
      BY <3>2, SeqDef
    <3> QED BY <3>1, <3>3, LenProperties
  <2>7. \A k \in 1 .. top + 1 : parts[k] = Contents(top + 1 - k)
    OBVIOUS
  <2> HIDE DEF parts
  <2>8. \A n, x : Holds(Contents(n), x) =>
            n \in DOMAIN files /\ \E j \in 1 .. Len(Log[n]) : Log[n][j] = x
    <3> TAKE n, x
    <3>1. CASE n \in DOMAIN files
      BY <2>3, <3>1 DEF Holds
    <3>2. CASE n \notin DOMAIN files
      <4>1. Len(<<>>) = 0
        OBVIOUS
      <4> QED BY <2>3, <3>2, <4>1 DEF Holds
    <3> QED BY <3>1, <3>2
  <2>9. \A n \in Nat : Increasing(Contents(n))
    <3> TAKE n \in Nat
    <3>1. CASE n \in DOMAIN files
      BY <2>1, <2>3, <3>1 DEF LinesInv, InOrder, Increasing
    <3>2. CASE n \notin DOMAIN files
      BY <2>3, <3>2 DEF Increasing
    <3> QED BY <3>1, <3>2
  <2>10. ASSUME NEW k \in 1 .. top + 1, NEW l \in 1 .. top + 1, k < l,
                NEW x, NEW y, Holds(parts[k], x), Holds(parts[l], y)
         PROVE  x < y
    <3> DEFINE n == top + 1 - k
               m == top + 1 - l
    <3>1. m < n
      BY <2>2, <2>10
    <3>2. Holds(Contents(n), x) /\ Holds(Contents(m), y)
      BY <2>7, <2>10
    <3> HIDE DEF m, n
    <3>3. n \in DOMAIN Log /\ m \in DOMAIN Log
      BY <2>3, <2>8, <3>2
    <3>4. PICK j \in 1 .. Len(Log[n]) : Log[n][j] = x
      BY <2>8, <3>2
    <3>5. PICK h \in 1 .. Len(Log[m]) : Log[m][h] = y
      BY <2>8, <3>2
    <3> QED BY <2>1, <3>1, <3>3, <3>4, <3>5 DEF LinesInv, InOrder
  <2>11. \A k \in 1 .. top + 1 : Increasing(parts[k])
    BY <2>5, <2>7, <2>9
  <2> DEFINE lines == FlattenSeq(parts)
  <2>12. /\ lines \in Seq(Int) /\ Increasing(lines)
         /\ \A x : Holds(lines, x) <=> \E k \in 1 .. top + 1 : Holds(parts[k], x)
    <3>1. Len(parts) > 0
      BY <2>2, <2>6
    <3> QED BY <2>6, <2>10, <2>11, <3>1, FlattenIncreasing
  <2> HIDE DEF lines
  <2>13. \A x \in Int : Holds(lines, x) <=> x \in 1 .. Taken
    <3> TAKE x \in Int
    <3>1. ASSUME Holds(lines, x) PROVE x \in 1 .. Taken
      <4>1. PICK k \in 1 .. top + 1 : Holds(parts[k], x)
        BY <2>12, <3>1
      <4> DEFINE n == top + 1 - k
      <4>2. Holds(Contents(n), x)
        BY <2>7, <4>1
      <4> HIDE DEF n
      <4>3. n \in DOMAIN files
        BY <2>8, <4>2
      <4>4. PICK j \in 1 .. Len(Log[n]) : Log[n][j] = x
        BY <2>8, <4>2
      <4>5. x <= Taken
        BY <2>1, <4>3, <4>4 DEF LinesInv
      <4>6. x \in 1 .. MaxLines
        BY <2>3, <4>3, <4>4, ElementOfSeq
      <4> QED BY <2>1, <4>5, <4>6, ParametersAssumption
    <3>2. ASSUME x \in 1 .. Taken PROVE Holds(lines, x)
      <4>1. PICK n \in DOMAIN files : \E j \in 1 .. Len(Log[n]) : Log[n][j] = x
        BY <2>1, <3>2 DEF LinesInv
      <4>2. Holds(Contents(n), x)
        BY <2>3, <4>1 DEF Holds
      <4> DEFINE k == top + 1 - n
      <4>3. k \in 1 .. top + 1 /\ top + 1 - k = n
        <5>1. n \in Nat /\ n <= top
          BY <2>2, <2>3
        <5> QED BY <2>2, <5>1
      <4> HIDE DEF k
      <4>4. Holds(parts[k], x)
        BY <2>7, <4>2, <4>3
      <4> QED BY <2>12, <4>3, <4>4
    <3> QED BY <3>1, <3>2
  <2>14. lines = [k \in 1 .. Taken |-> k]
    BY <2>1, <2>12, <2>13, IncreasingIsIdentity
  <2>15. lines \o InHand = [n \in 1 .. input |-> n]
    <3> DEFINE now == code = "line" /\ pc \notin Ended \cup {"fgets"}
    <3>1. CASE now
      <4>1. InHand = <<input>> /\ Taken = input - 1
        BY <3>1 DEF InHand, Taken
      <4>2. lines = [k \in 1 .. input - 1 |-> k] /\ input - 1 \in Nat
        BY <2>1, <2>14, <4>1
      <4>3. Len(lines) = input - 1
        BY <2>12, <4>2, LenProperties
      <4>4. lines \o <<input>> = [k \in 1 .. input |->
                                     IF k <= input - 1 THEN lines[k] ELSE input]
        BY <2>1, <2>12, <4>2, <4>3
      <4>5. \A k \in 1 .. input : (IF k <= input - 1 THEN lines[k] ELSE input) = k
        BY <2>1, <4>2
      <4> QED BY <4>1, <4>4, <4>5
    <3>2. CASE ~now
      <4>1. InHand = <<>> /\ Taken = input
        BY <3>2 DEF InHand, Taken
      <4> QED BY <2>12, <2>14, <4>1
    <3> QED BY <3>1, <3>2
  <2> QED BY <2>15 DEF lines, parts, top, D
<1> QED BY <1>1, InvariantCorrect, PTL
----------------------------------------------------------------------------
(* A pending SIGHUP.                                                       *)

\* What SighupServed promises: a rotation starts, or the program waits for input
\* or has ended.
Served == pc = "get_count" \/ (pc = "fgets" /\ flag) \/ pc \in Ended

\* The guards of the steps of Logger.
LoggerCan == pc \in {"flag", "get_count", "rename", "fclose", "fopen", "fputs", "finish"}

\* The steps until the signal is served, when nothing comes between: a rotation
\* that had started when the signal came is completed first.
Remaining == IF pc = "rename" THEN i + 4
             ELSE IF pc = "fclose" THEN 3
             ELSE IF pc = "fopen" THEN 2
             ELSE 1

\* A step of the program brings the rotation nearer, and no other step puts it off.
ComesNearer ==
    flag /\ ~Served =>
        /\ LoggerCan
        /\ Remaining \in Nat
        /\ \/ Served'
           \/ flag' /\ Remaining' < Remaining
           \/ flag' /\ ~Logger /\ Remaining' = Remaining

(***************************************************************************)
(* A SIGHUP that has not been served stays pending, in the middle of a     *)
(* rotation of any number of archives too, and the program can take a      *)
(* step; each one it takes brings it nearer to the next rotation, to       *)
(* waiting for input or to its end, and nothing else puts that off.  With  *)
(* the fairness of Spec this is SighupServed.                              *)
(***************************************************************************)
THEOREM SighupKept == Spec => [][ComesNearer]_vars
<1>1. IInv /\ Next => ComesNearer
  <2> SUFFICES ASSUME IInv, Next, flag, ~Served
               PROVE  /\ LoggerCan
                      /\ Remaining \in Nat
                      /\ \/ Served'
                         \/ flag' /\ Remaining' < Remaining
                         \/ flag' /\ ~Logger /\ Remaining' = Remaining
    BY DEF ComesNearer
  <2>1. /\ pc \in {"flag", "rename", "fclose", "fopen", "fputs", "finish"}
        /\ i \in Nat /\ flag \in BOOLEAN
    BY DEF IInv, TypeOK, Places, Served
  <2>2. LoggerCan /\ Remaining \in Nat
    BY <2>1 DEF LoggerCan, Remaining
  <2>3. ASSUME Logger PROVE Served' \/ (flag' /\ Remaining' < Remaining)
    <3> USE <2>1 DEF Remaining, Served, Ended
    <3>1. CASE TestFlag
      BY <3>1 DEF TestFlag
    <3>2. CASE get_count
      BY <3>2 DEF get_count
    <3>3. CASE RenameArchive
      <4>1. CASE i \in DOMAIN files
        BY <3>3, <4>1 DEF RenameArchive
      <4>2. CASE i \notin DOMAIN files
        BY <3>3, <4>2 DEF RenameArchive
      <4> QED BY <4>1, <4>2
    <3>4. CASE RenameLog
      BY <3>4 DEF RenameLog
    <3>5. CASE FCLOSE
      BY <3>5 DEF FCLOSE
    <3>6. CASE FOPEN
      BY <3>6 DEF FOPEN, AfterRotate
    <3>7. CASE FPUTS
      BY <3>7 DEF FPUTS
    <3>8. CASE Finish
      BY <3>8 DEF Finish
    <3> QED BY <2>3, <3>1, <3>2, <3>3, <3>4, <3>5, <3>6, <3>7, <3>8 DEF Logger
  <2>4. ASSUME ~Logger PROVE Served' \/ (flag' /\ Remaining' = Remaining)
    <3>1. CASE fgets
      BY <2>1, <3>1 DEF fgets
    <3>2. CASE signal_handler
      BY <3>2 DEF signal_handler
    <3>3. CASE Kill
      BY <3>3 DEF Kill, Served, Ended
    <3>4. CASE main
      BY <2>1, <3>4 DEF main, Ended
    <3>5. CASE DeleteArchive
      BY <3>5 DEF DeleteArchive, Remaining
    <3>6. CASE CreateMisleading
      BY <3>6 DEF CreateMisleading, Remaining
    <3>7. CASE CallFails
      BY <3>7 DEF CallFails, Served, Ended
    <3> QED BY <2>4, <3>1, <3>2, <3>3, <3>4, <3>5, <3>6, <3>7 DEF Next
  <2> QED BY <2>2, <2>3, <2>4
<1>2. IInv /\ [Next]_vars => [ComesNearer]_vars
  BY <1>1
<1> QED BY <1>2, InvariantCorrect, PTL DEF Spec
=============================================================================
