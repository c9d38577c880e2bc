----------------------------- MODULE Induction -----------------------------
(***************************************************************************)
(* Induction and recursion over the natural numbers with sets and          *)
(* functions for parameters instead of operators, so that the lemmas can   *)
(* be used for the recursive functions of the models: what they compute is *)
(* proved for every input.                                                 *)
(***************************************************************************)
EXTENDS Integers, Sequences, FiniteSetsExt, SequencesExt, SequenceTheorems, WellFoundedInduction, TLAPS

(***************************************************************************)
(* A set of natural numbers that is not empty has a smallest element.      *)
(***************************************************************************)
LEMMA Smallest ==
    ASSUME NEW T \in SUBSET Nat, T # {}
    PROVE  \E n \in T : \A m \in T : n <= m
<1> DEFINE R == OpToRel(<, Nat)
<1>1. IsWellFoundedOn(R, Nat)
  BY NatLessThanWellFounded
<1>2. R = {ss \in Nat \X Nat : ss[1] < ss[2]}
  BY Zenon DEF OpToRel
<1> HIDE DEF R
<1>3. \E n \in T : \A m \in T : <<m, n>> \notin R
  BY <1>1, WFMin
<1>4. ASSUME NEW m \in Nat, NEW n \in Nat, m < n PROVE <<m, n>> \in R
  <2> DEFINE p == <<m, n>>
  <2>1. p \in Nat \X Nat /\ p[1] = m /\ p[2] = n
    OBVIOUS
  <2> HIDE DEF p
  <2>2. p[1] < p[2]
    BY <1>4, <2>1
  <2>3. p \in {ss \in Nat \X Nat : ss[1] < ss[2]}
    BY <2>1, <2>2
  <2> QED BY <1>2, <2>3 DEF p
<1>5. PICK n \in T : \A m \in T : <<m, n>> \notin R
  BY <1>3
<1>6. ASSUME NEW m \in T PROVE n <= m
  <2>1. m \in Nat /\ n \in Nat
    OBVIOUS
  <2>2. ~(m < n)
    BY <1>4, <1>5, <2>1
  <2> QED BY <2>1, <2>2
<1> QED BY <1>6

(***************************************************************************)
(* Induction: a set with 0 that is closed under successor is Nat.          *)
(***************************************************************************)
LEMMA SetInduction ==
    ASSUME NEW P \in SUBSET Nat, 0 \in P, \A n \in P : n + 1 \in P
    PROVE  P = Nat
<1> SUFFICES ASSUME P # Nat PROVE FALSE
  OBVIOUS
<1> DEFINE T == Nat \ P
<1>1. PICK n \in T : \A m \in T : n <= m
  BY Smallest
<1>2. n # 0 /\ n - 1 \in Nat /\ n - 1 \notin T
  BY <1>1
<1>3. (n - 1) + 1 \in P
  BY <1>2
<1> QED BY <1>1, <1>3

\* The same up to n.
LEMMA BoundedInduction ==
    ASSUME NEW n \in Nat, NEW P, 0 \in P, \A k \in 1 .. n : k - 1 \in P => k \in P
    PROVE  \A k \in 0 .. n : k \in P
<1> DEFINE Q == {k \in Nat : k <= n => k \in P}
<1>1. 0 \in Q
  OBVIOUS
<1>2. ASSUME NEW k \in Q PROVE k + 1 \in Q
  <2> SUFFICES ASSUME k + 1 <= n PROVE k + 1 \in P
    OBVIOUS
  <2>1. k + 1 \in 1 .. n /\ (k + 1) - 1 = k /\ k <= n
    OBVIOUS
  <2>2. k \in P
    BY <2>1
  <2> QED BY <2>1, <2>2
<1>3. Q \in SUBSET Nat
  OBVIOUS
<1> HIDE DEF Q
<1>4. Q = Nat
  BY <1>1, <1>2, <1>3, SetInduction
<1> QED BY <1>4 DEF Q

\* The values of f start with base, and step gives each from the one before.
Recursive(f, S, base, step) ==
    f \in [Nat -> S] /\ f[0] = base /\ \A n \in Nat : f[n + 1] = step[<<n, f[n]>>]

(***************************************************************************)
(* Recursion: there is a function with a given value at 0 and a given way  *)
(* to get each value from the one before.                                  *)
(***************************************************************************)
LEMMA NatRecursion ==
    ASSUME NEW S, NEW base \in S, NEW step \in [Nat \X S -> S]
    PROVE  \E f : Recursive(f, S, base, step)
<1> DEFINE Begins(g, n) == /\ g \in [0 .. n -> S] /\ g[0] = base
                           /\ \A k \in 0 .. n - 1 : g[k + 1] = step[<<k, g[k]>>]
           E == {n \in Nat : \E g : Begins(g, n)}
<1>1. E = Nat
  <2>1. 0 \in E
    <3>1. Begins([k \in 0 .. 0 |-> base], 0)
      OBVIOUS
    <3> QED BY <3>1
  <2>2. ASSUME NEW n \in E PROVE n + 1 \in E
    <3>1. PICK g : Begins(g, n)
      OBVIOUS
    <3> DEFINE h == [k \in 0 .. n + 1 |-> IF k = n + 1 THEN step[<<n, g[n]>>] ELSE g[k]]
    <3>2. h \in [0 .. n + 1 -> S]
      BY <3>1
    <3>3. h[0] = base
      BY <3>1
    <3>4. ASSUME NEW k \in 0 .. (n + 1) - 1 PROVE h[k + 1] = step[<<k, h[k]>>]
      <4>1. CASE k = n
        <5>1. n \in 0 .. n + 1 /\ n + 1 \in 0 .. n + 1 /\ n # n + 1
          OBVIOUS
        <5>2. h[n] = g[n] /\ h[n + 1] = step[<<n, g[n]>>]
          BY <5>1
        <5> HIDE DEF h
        <5> QED BY <4>1, <5>2
      <4>2. CASE k # n
        <5>1. k \in 0 .. n - 1 /\ k + 1 \in 0 .. n
          BY <4>2
        <5> QED BY <3>1, <5>1
      <4> QED BY <4>1, <4>2
    <3> HIDE DEF h
    <3>5. Begins(h, n + 1)
      BY <3>2, <3>3, <3>4
    <3>6. n + 1 \in Nat /\ \E x : Begins(x, n + 1)
      BY <3>5
    <3> QED BY <3>6
  <2> HIDE DEF E
  <2>3. E \in SUBSET Nat
    BY DEF E
  <2> QED BY <2>1, <2>2, <2>3, SetInduction
<1>2. ASSUME NEW m \in Nat, NEW n \in Nat, m <= n, NEW g, NEW h, Begins(g, m), Begins(h, n)
      PROVE  \A k \in 0 .. m : g[k] = h[k]
  <2> DEFINE A == {k \in Nat : k <= m => g[k] = h[k]}
  <2>1. 0 \in A
    BY <1>2
  <2>2. ASSUME NEW k \in A PROVE k + 1 \in A
    <3>1. CASE k + 1 <= m
      <4>1. k \in 0 .. m - 1 /\ k \in 0 .. n - 1 /\ k <= m
        BY <1>2, <3>1
      <4>2. g[k + 1] = step[<<k, g[k]>>] /\ h[k + 1] = step[<<k, h[k]>>]
        BY <1>2, <4>1
      <4> QED BY <4>1, <4>2
    <3>2. CASE ~(k + 1 <= m)
      BY <3>2
    <3> QED BY <3>1, <3>2
  <2>3. A = Nat
    <3> HIDE DEF A
    <3>1. A \in SUBSET Nat
      BY DEF A
    <3> QED BY <2>1, <2>2, <3>1, SetInduction
  <2> QED BY <2>3
<1> DEFINE g(n) == CHOOSE g : Begins(g, n)
           f == [n \in Nat |-> g(n)[n]]
<1>3. \A n \in Nat : Begins(g(n), n)
  BY <1>1
<1> HIDE DEF g
<1>4. f \in [Nat -> S]
  BY <1>3
<1>5. f[0] = base
  BY <1>3
<1>6. ASSUME NEW n \in Nat PROVE f[n + 1] = step[<<n, f[n]>>]
  <2>1. Begins(g(n), n) /\ Begins(g(n + 1), n + 1) /\ n <= n + 1
    BY <1>3
  <2>2. g(n)[n] = g(n + 1)[n]
    BY <1>2, <2>1
  <2>3. n \in 0 .. (n + 1) - 1
    OBVIOUS
  <2>4. g(n + 1)[n + 1] = step[<<n, g(n + 1)[n]>>]
    BY <2>1, <2>3
  <2> QED BY <2>2, <2>4
<1> HIDE DEF f
<1>7. Recursive(f, S, base, step)
  BY <1>4, <1>5, <1>6 DEF Recursive
<1> QED BY <1>7

(***************************************************************************)
(* A finite set of integers that is not empty has a largest element.       *)
(***************************************************************************)
LEMMA Largest ==
    ASSUME NEW T \in SUBSET Nat, T # {}, NEW n \in Nat, \A m \in T : m <= n
    PROVE  Max(T) \in T /\ \A m \in T : m <= Max(T)
<1> DEFINE U == {k \in Nat : \A m \in T : m <= k}
<1>1. PICK k \in U : \A l \in U : k <= l
  <2>1. U \in SUBSET Nat /\ n \in U
    OBVIOUS
  <2> HIDE DEF U
  <2> QED BY <2>1, Smallest
<1>2. k \in T
  <2> SUFFICES ASSUME k \notin T PROVE FALSE
    OBVIOUS
  <2>1. PICK m \in T : TRUE
    OBVIOUS
  <2>2. m <= k /\ m # k
    BY <1>1
  <2>3. k - 1 \in Nat
    BY <2>2
  <2>4. \A l \in T : l <= k - 1
    BY <1>1
  <2>5. k - 1 \in U
    BY <2>3, <2>4
  <2>6. k <= k - 1
    BY <1>1, <2>5
  <2> QED BY <2>3, <2>6
<1>3. \E x \in T : \A y \in T : x >= y
  BY <1>1, <1>2
<1> DEFINE x == Max(T)
<1>4. x \in T /\ \A y \in T : x >= y
  BY <1>3 DEF Max
<1> HIDE DEF x
<1>5. \A m \in T : m <= x
  BY <1>4
<1> QED BY <1>4, <1>5 DEF x

(***************************************************************************)
(* The function by which the library defines FoldLeft, on the sets of the  *)
(* first indices of a sequence, with a step that is a function.            *)
(***************************************************************************)
Folds(h, base, step, seq, k) ==
    h = [s \in SUBSET (1 .. k) |->
            IF s = {} THEN base ELSE step[<<h[s \ {Max(s)}], seq[Max(s)]>>]]

(***************************************************************************)
(* There is such a function.                                               *)
(***************************************************************************)
LEMMA FoldsExist ==
    ASSUME NEW S, NEW R, NEW base \in S, NEW step \in [S \X R -> S], NEW seq \in Seq(R),
           NEW n \in Nat, n <= Len(seq)
    PROVE  \E h \in [SUBSET (1 .. n) -> S] : Folds(h, base, step, seq, n)
<1> DEFINE Has(k) == \E h \in [SUBSET (1 .. k) -> S] : Folds(h, base, step, seq, k)
           P == {k \in Nat : k <= Len(seq) => Has(k)}
<1>0. Len(seq) \in Nat /\ \A k \in 1 .. Len(seq) : seq[k] \in R
  BY ElementOfSeq
<1>1. Has(0)
  <2> DEFINE h == [s \in SUBSET (1 .. 0) |-> base]
  <2>1. 1 .. 0 = {}
    OBVIOUS
  <2>2. h \in [SUBSET (1 .. 0) -> S] /\ Folds(h, base, step, seq, 0)
    BY <2>1 DEF Folds
  <2> QED BY <2>2
<1>2. ASSUME NEW k \in Nat, k + 1 <= Len(seq), Has(k) PROVE Has(k + 1)
  <2>0. k \in Nat /\ k + 1 \in 1 .. Len(seq) /\ seq[k + 1] \in R
    BY <1>0, <1>2
  <2>1. PICK h \in [SUBSET (1 .. k) -> S] : Folds(h, base, step, seq, k)
    BY <1>2
  <2> DEFINE j == [s \in SUBSET (1 .. k + 1) |->
                      IF k + 1 \in s THEN step[<<h[s \ {k + 1}], seq[k + 1]>>] ELSE h[s]]
  <2>2. ASSUME NEW s \in SUBSET (1 .. k + 1)
        PROVE  /\ k + 1 \in s => s \ {k + 1} \in SUBSET (1 .. k)
               /\ k + 1 \notin s => s \in SUBSET (1 .. k)
    <3>1. \A m \in 1 .. k + 1 : m # k + 1 => m \in 1 .. k
      BY <2>0
    <3> QED BY <3>1
  <2>3. j \in [SUBSET (1 .. k + 1) -> S]
    <3>1. ASSUME NEW s \in SUBSET (1 .. k + 1)
          PROVE  (IF k + 1 \in s THEN step[<<h[s \ {k + 1}], seq[k + 1]>>] ELSE h[s]) \in S
      <4>1. CASE k + 1 \in s
        <5>1. h[s \ {k + 1}] \in S
          BY <2>1, <2>2, <4>1
        <5> QED BY <2>0, <4>1, <5>1
      <4>2. CASE k + 1 \notin s
        BY <2>1, <2>2, <4>2
      <4> QED BY <4>1, <4>2
    <3> QED BY <3>1
  <2>4. ASSUME NEW s \in SUBSET (1 .. k + 1), s # {}
        PROVE  j[s] = step[<<j[s \ {Max(s)}], seq[Max(s)]>>]
    <3>1. Max(s) \in s /\ \A m \in s : m <= Max(s)
      <4>1. s \in SUBSET Nat /\ k + 1 \in Nat /\ \A m \in s : m <= k + 1
        BY <2>0
      <4> QED BY <2>4, <4>1, Largest
    <3>2. CASE k + 1 \in s
      <4>1. Max(s) = k + 1
        <5>1. Max(s) \in 1 .. k + 1 /\ k + 1 <= Max(s)
          BY <3>1, <3>2
        <5> QED BY <2>0, <5>1
      <4>2. s \ {k + 1} \in SUBSET (1 .. k) /\ s \ {k + 1} \in SUBSET (1 .. k + 1)
        BY <2>0, <3>2
      <4>3. j[s \ {k + 1}] = h[s \ {k + 1}]
        BY <4>2
      <4>4. j[s] = step[<<h[s \ {k + 1}], seq[k + 1]>>]
        BY <3>2
      <4> QED BY <4>1, <4>3, <4>4
    <3>3. CASE k + 1 \notin s
      <4>1. s \in SUBSET (1 .. k) /\ s \ {Max(s)} \in SUBSET (1 .. k + 1)
        BY <2>2, <3>3
      <4>2. j[s] = h[s] /\ j[s \ {Max(s)}] = h[s \ {Max(s)}]
        BY <3>3, <4>1
      <4>3. h[s] = step[<<h[s \ {Max(s)}], seq[Max(s)]>>]
        BY <2>1, <2>4, <4>1 DEF Folds
      <4> QED BY <4>2, <4>3
    <3> QED BY <3>2, <3>3
  <2>5. j[{}] = base
    BY <2>0, <2>1 DEF Folds
  <2> HIDE DEF j
  <2>6. Folds(j, base, step, seq, k + 1)
    <3> DEFINE e(s) == IF s = {} THEN base ELSE step[<<j[s \ {Max(s)}], seq[Max(s)]>>]
    <3>1. \A s \in SUBSET (1 .. k + 1) : j[s] = e(s)
      BY <2>4, <2>5
    <3> HIDE DEF e
    <3>2. j = [s \in SUBSET (1 .. k + 1) |-> e(s)]
      BY <2>3, <3>1
    <3> QED BY <3>2 DEF e, Folds
  <2> QED BY <2>3, <2>6
<1> HIDE DEF Has
<1>3. P \in SUBSET Nat /\ 0 \in P
  BY <1>1
<1>4. \A k \in P : k + 1 \in P
  BY <1>0, <1>2
<1> HIDE DEF P
<1>5. n \in P
  BY <1>3, <1>4, SetInduction
<1>6. Has(n)
  BY <1>5 DEF P
<1> QED BY <1>6 DEF Has

\* j does so as long as its values are in S.
FoldsWithin(j, S, base, step, seq) ==
    /\ j[{}] = base
    /\ \A s \in SUBSET (1 .. Len(seq)) :
          s # {} /\ j[s \ {Max(s)}] \in S =>
              j[s] = step[<<j[s \ {Max(s)}], seq[Max(s)]>>]

\* The running values of a fold.
Runs(g, S, base, step, seq) ==
    /\ g \in [0 .. Len(seq) -> S]
    /\ g[0] = base
    /\ \A k \in 0 .. Len(seq) - 1 : g[k + 1] = step[<<g[k], seq[k + 1]>>]

\* v is the last of them.
IsRunOf(v, S, base, step, seq) == \E g : Runs(g, S, base, step, seq) /\ v = g[Len(seq)]

(***************************************************************************)
(* A fold goes through the sequence from left to right.                    *)
(***************************************************************************)
LEMMA FoldsRun ==
    ASSUME NEW S, NEW R, NEW base \in S, NEW step \in [S \X R -> S], NEW seq \in Seq(R),
           NEW j, FoldsWithin(j, S, base, step, seq)
    PROVE  IsRunOf(j[1 .. Len(seq)], S, base, step, seq)
<1> DEFINE n == Len(seq)
           g == [k \in 0 .. n |-> j[1 .. k]]
<1>0. n \in Nat /\ \A k \in 1 .. n : seq[k] \in R
  BY ElementOfSeq
<1>3. g[0] = base
  <2>1. 1 .. 0 = {} /\ 0 \in 0 .. n
    BY <1>0
  <2> QED BY <2>1 DEF FoldsWithin
<1>4. ASSUME NEW k \in 0 .. n - 1, g[k] \in S PROVE g[k + 1] = step[<<g[k], seq[k + 1]>>]
  <2> DEFINE s == 1 .. k + 1
  <2>1. s \in SUBSET (1 .. n) /\ s # {} /\ k + 1 \in s /\ s \in SUBSET Nat
    <3>1. k + 1 \in s
      BY <1>0
    <3>2. \A m \in s : m \in 1 .. n /\ m \in Nat
      BY <1>0
    <3> QED BY <3>1, <3>2
  <2>2. \A m \in s : m <= k + 1
    OBVIOUS
  <2>3. k + 1 \in Nat /\ k \in 0 .. n /\ k + 1 \in 0 .. n
    BY <1>0
  <2>4. s \ {k + 1} = 1 .. k
    BY <2>3
  <2>5. g[k] = j[1 .. k] /\ g[k + 1] = j[s]
    BY <2>3
  <2> HIDE DEF s, g
  <2>6. Max(s) \in s /\ k + 1 <= Max(s)
    BY <2>1, <2>2, <2>3, Largest
  <2>7. Max(s) \in Nat /\ Max(s) <= k + 1
    BY <2>1, <2>2, <2>6
  <2>8. Max(s) = k + 1
    BY <2>3, <2>6, <2>7
  <2>9. j[s \ {k + 1}] \in S
    BY <1>4, <2>4, <2>5
  <2>10. j[s] = step[<<j[s \ {k + 1}], seq[k + 1]>>]
    BY <2>1, <2>8, <2>9 DEF FoldsWithin
  <2> QED BY <2>4, <2>5, <2>10
<1>5. DOMAIN g = 0 .. n /\ g = [k \in 0 .. n |-> g[k]]
  OBVIOUS
<1>6. n \in 0 .. n /\ j[1 .. n] = g[n]
  BY <1>0
<1> HIDE DEF g
<1> DEFINE P == {k \in Nat : k <= n => g[k] \in S}
<1>7. 0 \in P
  BY <1>3
<1>8. ASSUME NEW k \in P PROVE k + 1 \in P
  <2> SUFFICES ASSUME k + 1 <= n PROVE g[k + 1] \in S
    OBVIOUS
  <2>1. k \in 0 .. n - 1 /\ k + 1 \in 1 .. n /\ g[k] \in S
    BY <1>0
  <2> QED BY <1>0, <1>4, <2>1
<1>9. P \in SUBSET Nat
  OBVIOUS
<1> HIDE DEF P
<1>10. P = Nat
  BY <1>7, <1>8, <1>9, SetInduction
<1>11. \A k \in 0 .. n : g[k] \in S
  BY <1>0, <1>10 DEF P
<1>12. g \in [0 .. n -> S]
  BY <1>5, <1>11
<1>13. \A k \in 0 .. n - 1 : g[k] \in S
  BY <1>0, <1>11
<1>14. Runs(g, S, base, step, seq)
  BY <1>3, <1>4, <1>12, <1>13 DEF Runs
<1> QED BY <1>6, <1>14 DEF IsRunOf

(***************************************************************************)
(* The library's FlattenSeq, step by step: the k-th value is the first k   *)
(* sequences one after the other.                                          *)
(***************************************************************************)
LEMMA FlattenSteps ==
    ASSUME NEW S, NEW seqs \in Seq(Seq(S)), Len(seqs) > 0
    PROVE  \E f \in [1 .. Len(seqs) -> Seq(S)] :
               /\ f[1] = seqs[1]
               /\ \A k \in 2 .. Len(seqs) : f[k] = f[k - 1] \o seqs[k]
               /\ FlattenSeq(seqs) = f[Len(seqs)]
<1> DEFINE n == Len(seqs)
           Steps(f) == f = [k \in 1 .. n |-> IF k = 1 THEN seqs[k] ELSE f[k - 1] \o seqs[k]]
           flatten == CHOOSE f : Steps(f)
<1>1. n \in Nat /\ n # 0 /\ \A k \in 1 .. n : seqs[k] \in Seq(S)
  BY ElementOfSeq
<1>2. FlattenSeq(seqs) = flatten[n]
  BY <1>1, Zenon DEF FlattenSeq
<1>3. \E f : Steps(f)
  <2> DEFINE step == [p \in Nat \X Seq(S) |->
                        IF p[1] + 2 \in 1 .. n THEN p[2] \o seqs[p[1] + 2] ELSE p[2]]
  <2>1. ASSUME NEW p \in Nat \X Seq(S)
        PROVE  (IF p[1] + 2 \in 1 .. n THEN p[2] \o seqs[p[1] + 2] ELSE p[2]) \in Seq(S)
    BY <1>1, ConcatProperties
  <2>2. step \in [Nat \X Seq(S) -> Seq(S)]
    BY <2>1
  <2>3. seqs[1] \in Seq(S)
    BY <1>1
  <2>4. \A m \in Nat, v \in Seq(S) :
           step[<<m, v>>] = IF m + 2 \in 1 .. n THEN v \o seqs[m + 2] ELSE v
    OBVIOUS
  <2> HIDE DEF step
  <2> DEFINE T == Seq(S)
             first == seqs[1]
  <2>10. first \in T
    BY <2>3
  <2>12. step \in [Nat \X T -> T]
    BY <2>2
  <2> HIDE DEF T, first
  <2>11. \E f : Recursive(f, T, first, step)
    BY <2>10, <2>12, NatRecursion
  <2>5. PICK g \in [Nat -> Seq(S)] :
           g[0] = seqs[1] /\ \A m \in Nat : g[m + 1] = step[<<m, g[m]>>]
    BY <2>11 DEF T, first, Recursive
  <2> DEFINE f == [k \in 1 .. n |-> g[k - 1]]
             e(k) == IF k = 1 THEN seqs[k] ELSE f[k - 1] \o seqs[k]
  <2>6. ASSUME NEW k \in 1 .. n PROVE f[k] = e(k)
    <3>1. CASE k = 1
      BY <2>5, <3>1
    <3>2. CASE k # 1
      <4>1. k - 2 \in Nat /\ (k - 2) + 1 = k - 1 /\ (k - 2) + 2 = k /\ k - 1 \in 1 .. n
        BY <1>1, <3>2
      <4>2. g[k - 1] = step[<<k - 2, g[k - 2]>>]
        BY <2>5, <4>1
      <4>3. g[k - 1] = g[k - 2] \o seqs[k]
        <5> DEFINE m == k - 2
        <5>1. m \in Nat /\ m + 2 = k /\ g[m] \in Seq(S)
          BY <2>5, <4>1
        <5>2. step[<<m, g[m]>>] = g[m] \o seqs[m + 2]
          <6> HIDE DEF m
          <6>1. m + 2 \in 1 .. n
            BY <5>1
          <6> QED BY <2>4, <5>1, <6>1
        <5> QED BY <4>2, <5>1, <5>2
      <4>4. f[k] = g[k - 1] /\ f[k - 1] = g[k - 2]
        BY <4>1
      <4> HIDE DEF f
      <4> QED BY <3>2, <4>3, <4>4
    <3> QED BY <3>1, <3>2
  <2>7. f = [k \in 1 .. n |-> f[k]]
    OBVIOUS
  <2> HIDE DEF f, e
  <2>8. f = [k \in 1 .. n |-> e(k)]
    BY <2>6, <2>7
  <2>9. Steps(f)
    BY <2>8 DEF e
  <2> QED BY <2>9
<1>4. Steps(flatten)
  BY <1>3, Zenon
<1> HIDE DEF flatten
<1>5. /\ DOMAIN flatten = 1 .. n /\ flatten[1] = seqs[1]
      /\ \A k \in 2 .. n : flatten[k] = flatten[k - 1] \o seqs[k]
  <2>1. DOMAIN flatten = 1 .. n
    BY <1>4
  <2>2. \A k \in 1 .. n : flatten[k] = IF k = 1 THEN seqs[k] ELSE flatten[k - 1] \o seqs[k]
    BY <1>4
  <2> HIDE DEF Steps
  <2>3. 1 \in 1 .. n /\ \A k \in 2 .. n : k \in 1 .. n /\ k # 1
    BY <1>1
  <2>4. flatten[1] = seqs[1]
    BY <2>2, <2>3
  <2>5. ASSUME NEW k \in 2 .. n PROVE flatten[k] = flatten[k - 1] \o seqs[k]
    BY <2>2, <2>3
  <2> QED BY <2>1, <2>4, <2>5
<1>6. flatten = [k \in 1 .. n |-> flatten[k]]
  BY <1>4
<1> HIDE DEF Steps
<1> DEFINE P == {k \in Nat : k + 1 \in 1 .. n => flatten[k + 1] \in Seq(S)}
<1>7. P = Nat
  <2>1. 0 \in P
    BY <1>1, <1>5
  <2>2. ASSUME NEW k \in P PROVE k + 1 \in P
    <3> SUFFICES ASSUME k + 2 \in 1 .. n PROVE flatten[k + 2] \in Seq(S)
      OBVIOUS
    <3>1. k + 1 \in 1 .. n /\ k + 2 \in 2 .. n /\ (k + 2) - 1 = k + 1
      BY <1>1
    <3>2. flatten[k + 1] \in Seq(S) /\ seqs[k + 2] \in Seq(S)
      BY <1>1, <3>1
    <3>3. flatten[k + 2] = flatten[k + 1] \o seqs[k + 2]
      BY <1>5, <3>1
    <3> QED BY <3>2, <3>3, ConcatProperties
  <2>3. P \in SUBSET Nat
    OBVIOUS
  <2> HIDE DEF P
  <2> QED BY <2>1, <2>2, <2>3, SetInduction
<1>8. \A k \in 1 .. n : flatten[k] \in Seq(S)
  <2> TAKE k \in 1 .. n
  <2>1. k - 1 \in Nat /\ (k - 1) + 1 = k
    BY <1>1
  <2>2. k - 1 \in P
    <3> HIDE DEF P
    <3> QED BY <1>7, <2>1
  <2> QED BY <2>1, <2>2
<1>9. flatten \in [1 .. n -> Seq(S)]
  BY <1>6, <1>8
<1> QED BY <1>2, <1>5, <1>9

(***************************************************************************)
(* A sequence more is appended to what FlattenSeq makes of the others.     *)
(***************************************************************************)
LEMMA FlattenAppend ==
    ASSUME NEW S, NEW seqs \in Seq(Seq(S)), NEW s \in Seq(S)
    PROVE  FlattenSeq(Append(seqs, s)) = FlattenSeq(seqs) \o s /\ FlattenSeq(seqs) \in Seq(S)
<1> DEFINE all == Append(seqs, s)
           n == Len(seqs)
           V == Seq(S)
<1>1. n \in Nat
  OBVIOUS
<1>2. /\ all \in Seq(V) /\ Len(all) = n + 1 /\ all[n + 1] = s
      /\ \A k \in 1 .. n : all[k] = seqs[k]
  <2>1. s \in V /\ seqs \in Seq(V)
    OBVIOUS
  <2> HIDE DEF V
  <2> QED BY <2>1, AppendProperties
<1> HIDE DEF all
<1>3. PICK f \in [1 .. n + 1 -> Seq(S)] :
         /\ f[1] = all[1]
         /\ \A k \in 2 .. n + 1 : f[k] = f[k - 1] \o all[k]
         /\ FlattenSeq(all) = f[n + 1]
  <2>1. Len(all) > 0
    BY <1>1, <1>2
  <2>2. PICK f \in [1 .. Len(all) -> Seq(S)] :
           /\ f[1] = all[1]
           /\ \A k \in 2 .. Len(all) : f[k] = f[k - 1] \o all[k]
           /\ FlattenSeq(all) = f[Len(all)]
    BY <1>2, <2>1, FlattenSteps
  <2> QED BY <1>2, <2>2
<1>4. CASE n = 0
  <2>1. seqs = <<>> /\ FlattenSeq(seqs) = seqs
    BY <1>4 DEF FlattenSeq
  <2>2. <<>> \o s = s /\ <<>> \in Seq(S)
    OBVIOUS
  <2>3. FlattenSeq(all) = s
    BY <1>2, <1>3, <1>4
  <2>4. FlattenSeq(seqs) = <<>>
    BY <2>1
  <2>5. FlattenSeq(all) = FlattenSeq(seqs) \o s /\ FlattenSeq(seqs) \in Seq(S)
    BY <2>2, <2>3, <2>4, Zenon
  <2> QED BY <2>5 DEF all
<1>5. CASE n # 0
  <2>1. Len(seqs) > 0
    BY <1>1, <1>5
  <2>2. PICK g \in [1 .. n -> Seq(S)] :
           /\ g[1] = seqs[1]
           /\ \A k \in 2 .. n : g[k] = g[k - 1] \o seqs[k]
           /\ FlattenSeq(seqs) = g[n]
    BY <2>1, FlattenSteps
  <2> DEFINE P == {k \in 0 .. n : k > 0 => f[k] = g[k]}
  <2>3. 0 \in P
    BY <1>1
  <2>4. ASSUME NEW k \in 1 .. n, k - 1 \in P PROVE k \in P
    <3>1. k \in 0 .. n /\ all[k] = seqs[k]
      BY <1>2
    <3>2. CASE k = 1
      BY <1>3, <2>2, <3>1, <3>2
    <3>3. CASE k # 1
      <4>1. k \in 2 .. n + 1 /\ k \in 2 .. n /\ k - 1 > 0
        BY <1>1, <3>3
      <4>2. f[k - 1] = g[k - 1]
        BY <2>4, <4>1
      <4> QED BY <1>3, <2>2, <3>1, <4>1, <4>2
    <3> QED BY <3>2, <3>3
  <2> HIDE DEF P
  <2>5. n \in P
    <3>1. n \in 0 .. n
      BY <1>1
    <3> QED BY <1>1, <2>3, <2>4, <3>1, BoundedInduction
  <2>6. n > 0 /\ n \in 1 .. n /\ n + 1 \in 2 .. n + 1 /\ (n + 1) - 1 = n
    BY <1>1, <1>5
  <2>7. f[n + 1] = f[n] \o all[n + 1] /\ f[n] = g[n]
    BY <1>3, <2>5, <2>6 DEF P
  <2> QED BY <1>2, <1>3, <2>2, <2>6, <2>7 DEF all
<1> QED BY <1>4, <1>5

(***************************************************************************)
(* Induction from the end: what holds of an index when it holds of all     *)
(* that follow holds of every index.                                       *)
(***************************************************************************)
LEMMA InductionFromTheEnd ==
    ASSUME NEW m \in Nat, NEW P, \A p \in 1 .. m : (\A q \in p + 1 .. m : q \in P) => p \in P
    PROVE  \A p \in 1 .. m : p \in P
<1> DEFINE Q == {k \in 0 .. m : \A p \in 1 .. m : p > m - k => p \in P}
<1>1. 0 \in Q
  OBVIOUS
<1>2. ASSUME NEW k \in 1 .. m, k - 1 \in Q PROVE k \in Q
  <2> SUFFICES ASSUME NEW p \in 1 .. m, p > m - k PROVE p \in P
    OBVIOUS
  <2>1. \A q \in p + 1 .. m : q \in 1 .. m /\ q > m - (k - 1)
    OBVIOUS
  <2>2. \A q \in p + 1 .. m : q \in P
    BY <1>2, <2>1
  <2> QED BY <2>2
<1> HIDE DEF Q
<1>3. m \in 0 .. m /\ \A k \in 0 .. m : k \in Q
  BY <1>1, <1>2, BoundedInduction
<1>4. \A p \in 1 .. m : p > m - m
  OBVIOUS
<1> QED BY <1>3, <1>4 DEF Q

\* The values of f from n + 1 to m are base; step gives each other value from the value
\* at a later index, which next names.
FromTheEnd(f, m, n, base, next, step) ==
    f = [p \in 1 .. m |-> IF p > n THEN base ELSE step[<<p, f[next[p]]>>]]

(***************************************************************************)
(* Recursion from the end: there is such a function.                       *)
(***************************************************************************)
LEMMA RecursionFromTheEnd ==
    ASSUME NEW S, NEW m \in Nat, NEW n \in Nat, n <= m, NEW base \in S,
           NEW next \in [1 .. n -> 1 .. m], \A p \in 1 .. n : p < next[p],
           NEW step \in [(1 .. n) \X S -> S]
    PROVE  \E f \in [1 .. m -> S] : FromTheEnd(f, m, n, base, next, step)
<1> DEFINE E(f, p) == IF p > n THEN base ELSE step[<<p, f[next[p]]>>]
           Begins(f, k) == \A p \in 1 .. m : p > m - k => f[p] = E(f, p)
           Q == {k \in 0 .. m : \E f \in [1 .. m -> S] : Begins(f, k)}
<1>0. \A p \in 1 .. m : ~(p > n) => p \in 1 .. n
  OBVIOUS
<1>1. 0 \in Q
  <2>1. /\ [p \in 1 .. m |-> base] \in [1 .. m -> S] /\ 0 \in 0 .. m
        /\ \A p \in 1 .. m : ~(p > m - 0)
    OBVIOUS
  <2>2. \A f : Begins(f, 0)
    <3> HIDE DEF E
    <3> QED BY <2>1
  <2> HIDE DEF Begins
  <2> QED BY <2>1, <2>2
<1>2. ASSUME NEW k \in 1 .. m, k - 1 \in Q PROVE k \in Q
  <2>1. PICK f \in [1 .. m -> S] : Begins(f, k - 1)
    BY <1>2
  <2> DEFINE a == m - k + 1
             g == [f EXCEPT ![a] = E(f, a)]
  <2>2. /\ a \in 1 .. m
        /\ \A p \in 1 .. m : p > m - k => p >= a /\ (p = a \/ p > m - (k - 1))
    OBVIOUS
  <2>3. E(f, a) \in S
    <3> HIDE DEF a
    <3>1. CASE a > n
      BY <3>1
    <3>2. CASE ~(a > n)
      <4>1. a \in 1 .. n /\ next[a] \in 1 .. m
        BY <1>0, <2>2, <3>2
      <4> QED BY <2>1, <3>2, <4>1
    <3> QED BY <3>1, <3>2
  <2>4. \A p \in 1 .. m : p >= a => E(g, p) = E(f, p)
    <3> TAKE p \in 1 .. m
    <3> HAVE p >= a
    <3>1. ASSUME ~(p > n) PROVE g[next[p]] = f[next[p]]
      <4>1. p \in 1 .. n /\ next[p] \in 1 .. m /\ p < next[p]
        BY <1>0, <3>1
      <4>2. next[p] # a
        BY <2>2, <4>1
      <4> HIDE DEF a, E
      <4> QED BY <2>1, <4>1, <4>2
    <3> HIDE DEF g
    <3> QED BY <3>1
  <2>5. g \in [1 .. m -> S]
    <3> HIDE DEF a, E
    <3> QED BY <2>1, <2>2, <2>3
  <2>6. Begins(g, k)
    <3> SUFFICES ASSUME NEW p \in 1 .. m, p > m - k PROVE g[p] = E(g, p)
      OBVIOUS
    <3>1. p >= a
      BY <2>2
    <3>2. E(g, p) = E(f, p)
      BY <2>4, <3>1
    <3>3. p # a => f[p] = E(f, p)
      <4> HIDE DEF a, E, g
      <4> QED BY <2>1, <2>2
    <3> HIDE DEF a, E
    <3> QED BY <2>1, <2>2, <3>2, <3>3
  <2>7. k \in 0 .. m
    OBVIOUS
  <2> HIDE DEF Begins, g
  <2> QED BY <2>5, <2>6, <2>7
<1> HIDE DEF Q
<1>3. m \in 0 .. m /\ \A k \in 0 .. m : k \in Q
  <2>1. m \in 0 .. m
    OBVIOUS
  <2>2. \A k \in 0 .. m : k \in Q
    BY ONLY m \in Nat, <1>1, <1>2, BoundedInduction
  <2> QED BY <2>1, <2>2
<1>4. PICK f \in [1 .. m -> S] : Begins(f, m)
  BY <1>3 DEF Q
<1>5. \A p \in 1 .. m : p > m - m
  OBVIOUS
<1> HIDE DEF E
<1>6. \A p \in 1 .. m : f[p] = E(f, p)
  BY <1>4, <1>5
<1>7. f = [p \in 1 .. m |-> E(f, p)]
  BY <1>6
<1>8. FromTheEnd(f, m, n, base, next, step)
  BY <1>7 DEF E, FromTheEnd
<1> QED BY <1>8

(***************************************************************************)
(* The library's Min is the smallest element.                              *)
(***************************************************************************)
LEMMA Least ==
    ASSUME NEW T \in SUBSET Nat, T # {}
    PROVE  Min(T) \in T /\ \A m \in T : Min(T) <= m
<1>1. \E x \in T : \A y \in T : x =< y
  BY Smallest
<1> DEFINE x == Min(T)
<1>2. x \in T /\ \A y \in T : x =< y
  BY <1>1 DEF Min
<1> HIDE DEF x
<1> QED BY <1>2 DEF x
=============================================================================
