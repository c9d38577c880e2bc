--------------------------- MODULE UthreadProofs ---------------------------
(***************************************************************************)
(* Theorems about Uthread for every set of contexts.                       *)
(*                                                                         *)
(* insert and extract keep the pointers a ring (InsertList, InsertRing,    *)
(* ExtractList, ExtractRing); from these the inductive invariant IInv, and *)
(* from IInv the safety properties; then, for clients that start fibers    *)
(* from the tail, that the library implements RoundRobin.  Waiting bounds  *)
(* the steps until a fiber has the processor, and every step makes it      *)
(* smaller.  Last the test program: TestInv is its whole schedule, phase   *)
(* by phase, and what the test asserts follows from it.                    *)
(***************************************************************************)
EXTENDS UthreadRefinement, UthreadTest, Induction, FiniteSetTheorems

Lists == [next : [Contexts -> Contexts], prev : [Contexts -> Contexts],
          head : Contexts, tail : Contexts]

\* The pointer part of ListInv, for a list l over a set of contexts H.
Linked(l, H) ==
    /\ Initial \in H
    /\ l.head = Initial
    /\ l.tail \in H
    /\ l.next[l.tail] = l.head
    /\ \A c \in H : /\ l.next[c] \in H
                    /\ l.prev[c] \in H
                    /\ l.prev[l.next[c]] = c
                    /\ l.next[l.prev[c]] = c

\* A ring order of n contexts with one more at the end, and without the k-th.
Longer(s, n, ctx) == [i \in 0 .. n |-> IF i < n THEN s[i] ELSE ctx]
Shorter(s, n, k) == [i \in 0 .. n - 2 |-> IF i < k THEN s[i] ELSE s[i + 1]]

\* IsRingOrder for a list l over H, of length n.
Ordered(l, H, n, s) ==
    /\ s \in [0 .. n - 1 -> H]
    /\ s[0] = l.head
    /\ \A i, j \in 0 .. n - 1 : s[i] = s[j] => i = j
    /\ \A c \in H : \E i \in 0 .. n - 1 : s[i] = c
    /\ \A i \in 1 .. n - 1 : l.next[s[i - 1]] = s[i]
    /\ l.tail = s[n - 1]

(***************************************************************************)
(* insert keeps the pointers linked: the new context sits between the tail *)
(* and the head.                                                           *)
(***************************************************************************)
LEMMA InsertType ==
    ASSUME NEW l \in Lists, NEW ctx \in Contexts
    PROVE  insert(l, ctx) \in Lists
BY DEF Lists, insert

\* insert keeps the list doubly linked and adds exactly the new context to it.
LEMMA InsertList ==
    ASSUME NEW l \in Lists, NEW H \in SUBSET Contexts, Linked(l, H),
           NEW ctx \in Contexts \ H
    PROVE  Linked(insert(l, ctx), H \cup {ctx})
<1> DEFINE m == insert(l, ctx)
<1>1. /\ m.head = l.head /\ m.tail = ctx
      /\ m.next = [l.next EXCEPT ![l.tail] = ctx, ![ctx] = l.head]
      /\ m.prev = [l.prev EXCEPT ![ctx] = l.tail, ![l.head] = ctx]
  BY DEF insert
<1>2. l.tail # ctx /\ l.head # ctx /\ l.tail \in H /\ l.head \in H
  BY DEF Linked
<1>3. /\ m.next[ctx] = l.head /\ m.next[l.tail] = ctx
      /\ \A c \in H : c # l.tail => m.next[c] = l.next[c]
  BY <1>1, <1>2 DEF Lists
<1>4. /\ m.prev[ctx] = l.tail /\ m.prev[l.head] = ctx
      /\ \A c \in H : c # l.head => m.prev[c] = l.prev[c]
  BY <1>1, <1>2 DEF Lists
<1>5. l.prev[l.head] = l.tail
  BY DEF Linked
<1>6. ASSUME NEW c \in H \cup {ctx}
      PROVE  /\ m.next[c] \in H \cup {ctx} /\ m.prev[c] \in H \cup {ctx}
             /\ m.prev[m.next[c]] = c /\ m.next[m.prev[c]] = c
  <2>1. CASE c = ctx
    BY <2>1, <1>2, <1>3, <1>4
  <2>2. CASE c \in H
    <3>1. m.next[c] \in H \cup {ctx} /\ m.prev[m.next[c]] = c
      BY <2>2, <1>2, <1>3, <1>4, <1>5 DEF Linked
    <3>2. m.prev[c] \in H \cup {ctx} /\ m.next[m.prev[c]] = c
      BY <2>2, <1>2, <1>3, <1>4, <1>5 DEF Linked
    <3> QED BY <3>1, <3>2
  <2> QED BY <2>1, <2>2
<1> QED
  BY <1>1, <1>2, <1>3, <1>6 DEF Linked

(***************************************************************************)
(* insert keeps the list one ring: the new context comes last.             *)
(***************************************************************************)
LEMMA InsertRing ==
    ASSUME NEW l \in Lists, NEW H \in SUBSET Contexts, Linked(l, H),
           NEW ctx \in Contexts \ H, NEW n \in Nat \ {0},
           NEW s, Ordered(l, H, n, s)
    PROVE  Ordered(insert(l, ctx), H \cup {ctx}, n + 1, Longer(s, n, ctx))
<1> DEFINE m == insert(l, ctx)
           t == [i \in 0 .. n |-> IF i < n THEN s[i] ELSE ctx]
<1>1. /\ m.head = l.head /\ m.tail = ctx
      /\ m.next = [l.next EXCEPT ![l.tail] = ctx, ![ctx] = l.head]
  BY DEF insert
<1>2. l.tail # ctx /\ l.tail \in H
  BY DEF Linked
<1>3. /\ m.next[l.tail] = ctx
      /\ \A c \in H : c # l.tail => m.next[c] = l.next[c]
  BY <1>1, <1>2 DEF Lists
<1>4. t \in [0 .. n -> H \cup {ctx}] /\ t[0] = m.head /\ t[n] = ctx
  BY <1>1 DEF Ordered
<1>5. \A i, j \in 0 .. n : t[i] = t[j] => i = j
  BY DEF Ordered
<1>6. \A c \in H \cup {ctx} : \E i \in 0 .. n : t[i] = c
  <2> SUFFICES ASSUME NEW c \in H \cup {ctx} PROVE \E i \in 0 .. n : t[i] = c
    OBVIOUS
  <2>1. CASE c = ctx
    BY <2>1, <1>4
  <2>2. CASE c \in H
    <3>1. PICK i \in 0 .. n - 1 : s[i] = c
      BY <2>2 DEF Ordered
    <3>2. i \in 0 .. n /\ t[i] = c
      BY <3>1
    <3> QED BY <3>2
  <2> QED BY <2>1, <2>2
<1>7. ASSUME NEW i \in 1 .. n PROVE m.next[t[i - 1]] = t[i]
  <2>1. CASE i = n
    BY <2>1, <1>3 DEF Ordered
  <2>2. CASE i # n
    <3>1. i \in 1 .. n - 1 /\ i - 1 \in 0 .. n - 1 /\ n - 1 \in 0 .. n - 1
      BY <2>2
    <3>2. s[i - 1] # l.tail /\ s[i - 1] \in H /\ l.next[s[i - 1]] = s[i]
      BY <3>1 DEF Ordered
    <3>3. t[i - 1] = s[i - 1] /\ t[i] = s[i]
      BY <3>1
    <3> QED BY <3>2, <3>3, <1>3
  <2> QED BY <2>1, <2>2
<1>8. (n + 1) - 1 = n
  OBVIOUS
<1>9. m.tail = t[n]
  BY <1>1, <1>4
<1> HIDE DEF m, t
<1>10. Ordered(m, H \cup {ctx}, n + 1, t)
  BY <1>4, <1>5, <1>6, <1>7, <1>8, <1>9 DEF Ordered
<1> QED BY <1>10 DEF m, t, Longer

(***************************************************************************)
(* extract keeps the pointers linked.  With exactly two contexts prev and  *)
(* next of the extracted one are the same context; otherwise its two       *)
(* neighbours are joined.                                                  *)
(***************************************************************************)
LEMMA ExtractType ==
    ASSUME NEW l \in Lists, NEW ctx \in Contexts
    PROVE  extract(l, ctx) \in Lists
BY DEF Lists, extract, ExtractOfTwo, ExtractOfMany

\* In a ring a context is its own predecessor's successor twice removed only
\* if the ring has one or two members.
LEMMA RingOfTwo ==
    ASSUME NEW l \in Lists, NEW H \in SUBSET Contexts, Linked(l, H),
           NEW n \in Nat \ {0}, NEW s, Ordered(l, H, n, s),
           NEW ctx \in H, ctx # Initial, l.prev[ctx] = l.next[ctx]
    PROVE  n = 2 /\ H = {Initial, ctx} /\ l.next[ctx] = Initial
<1>1. PICK k \in 0 .. n - 1 : s[k] = ctx
  BY DEF Ordered
<1>2. k # 0
  BY <1>1 DEF Ordered, Linked
<1>3. s[k - 1] \in H /\ l.next[s[k - 1]] = ctx
  BY <1>1, <1>2 DEF Ordered
<1>4. l.prev[ctx] = s[k - 1]
  BY <1>3 DEF Linked
<1>5. CASE k = n - 1
  <2>1. l.next[ctx] = s[0] /\ s[0] = Initial
    BY <1>1, <1>5 DEF Ordered, Linked
  <2>2. s[k - 1] = s[0]
    BY <1>4, <2>1
  <2>3. k - 1 \in 0 .. n - 1 /\ 0 \in 0 .. n - 1
    BY <1>2
  <2>4. k - 1 = 0
    BY <2>2, <2>3 DEF Ordered
  <2>5. n = 2 /\ k = 1
    BY <2>4, <1>5
  <2>6. \A c \in H : c = s[0] \/ c = s[1]
    BY <2>5 DEF Ordered
  <2> QED
    BY <1>1, <2>1, <2>5, <2>6 DEF Linked
<1>6. CASE k # n - 1
  <2>1. k + 1 \in 1 .. n - 1 /\ (k + 1) - 1 = k
    BY <1>6
  <2>2. l.next[ctx] = s[k + 1]
    BY <2>1, <1>1 DEF Ordered
  <2>3. s[k - 1] = s[k + 1] /\ k - 1 \in 0 .. n - 1 /\ k + 1 \in 0 .. n - 1
    BY <2>1, <2>2, <1>2, <1>4
  <2>4. k - 1 = k + 1
    BY <2>3 DEF Ordered
  <2> QED BY <2>4
<1> QED BY <1>5, <1>6

\* A context other than main has a neighbour other than itself.
LEMMA NoSelfLoop ==
    ASSUME NEW l \in Lists, NEW H \in SUBSET Contexts, Linked(l, H),
           NEW n \in Nat \ {0}, NEW s, Ordered(l, H, n, s),
           NEW ctx \in H, ctx # Initial
    PROVE  l.next[ctx] # ctx /\ l.prev[ctx] # ctx
<1>1. SUFFICES l.next[ctx] # ctx
  BY DEF Linked
<1>2. SUFFICES ASSUME l.next[ctx] = ctx PROVE FALSE
  OBVIOUS
<1>3. l.prev[ctx] = ctx
  BY <1>2 DEF Linked
<1>4. l.next[ctx] = Initial
  BY <1>2, <1>3, RingOfTwo
<1> QED BY <1>2, <1>4

\* extract keeps the list doubly linked and removes exactly the context it is
\* given.
LEMMA ExtractList ==
    ASSUME NEW l \in Lists, NEW H \in SUBSET Contexts, Linked(l, H),
           NEW n \in Nat \ {0}, NEW s, Ordered(l, H, n, s),
           NEW ctx \in H, ctx # Initial
    PROVE  Linked(extract(l, ctx), H \ {ctx})
<1> DEFINE m == extract(l, ctx)
           p == l.prev[ctx]
           x == l.next[ctx]
<1> SUFFICES Linked(m, H \ {ctx})
  OBVIOUS
<1>1. p \in H \ {ctx} /\ x \in H \ {ctx}
  BY NoSelfLoop DEF Linked
<1>2. CASE p = x
  <2>1. H = {Initial, ctx} /\ p = Initial
    BY <1>2, RingOfTwo
  <2>2. /\ m.next = [l.next EXCEPT ![Initial] = Initial]
        /\ m.prev = [l.prev EXCEPT ![Initial] = Initial]
        /\ m.head = Initial /\ m.tail = Initial
    BY <1>2, <2>1 DEF extract, ExtractOfTwo
  <2>3. m.next[Initial] = Initial /\ m.prev[Initial] = Initial
    BY <2>2, ContextsAssumption DEF Lists
  <2>4. H \ {ctx} = {Initial}
    BY <2>1
  <2> HIDE DEF m
  <2> QED BY <2>2, <2>3, <2>4 DEF Linked
<1>3. CASE p # x
  <2>1. /\ m.next = [l.next EXCEPT ![p] = x]
        /\ m.prev = [l.prev EXCEPT ![x] = p]
        /\ m.head = l.head
        /\ m.tail = IF l.tail = ctx THEN p ELSE l.tail
    BY <1>3 DEF extract, ExtractOfMany, Linked
  <2>2. m.next[p] = x /\ \A c \in H : c # p => m.next[c] = l.next[c]
    BY <2>1, <1>1 DEF Lists
  <2>3. m.prev[x] = p /\ \A c \in H : c # x => m.prev[c] = l.prev[c]
    BY <2>1, <1>1 DEF Lists
  <2>4. m.tail \in H \ {ctx} /\ m.next[m.tail] = m.head
    <3>1. CASE l.tail = ctx
      BY <3>1, <2>1, <2>2, <1>1 DEF Linked
    <3>2. CASE l.tail # ctx
      <4>1. m.tail = l.tail /\ l.tail # p
        BY <3>2, <2>1, <1>1 DEF Linked
      <4> QED BY <4>1, <3>2, <2>1, <2>2 DEF Linked
    <3> QED BY <3>1, <3>2
  <2>5. ASSUME NEW c \in H \ {ctx}
        PROVE  /\ m.next[c] \in H \ {ctx} /\ m.prev[c] \in H \ {ctx}
               /\ m.prev[m.next[c]] = c /\ m.next[m.prev[c]] = c
    <3>1. c # p => /\ l.next[c] # ctx /\ l.next[c] # x /\ l.next[c] \in H
                   /\ l.prev[l.next[c]] = c
      BY <1>1 DEF Linked
    <3>2. c # x => /\ l.prev[c] # ctx /\ l.prev[c] # p /\ l.prev[c] \in H
                   /\ l.next[l.prev[c]] = c
      BY <1>1 DEF Linked
    <3> HIDE DEF m, p, x
    <3>3. m.next[c] \in H \ {ctx} /\ m.prev[m.next[c]] = c
      BY <3>1, <2>2, <2>3, <1>1
    <3>4. m.prev[c] \in H \ {ctx} /\ m.next[m.prev[c]] = c
      BY <3>2, <2>2, <2>3, <1>1
    <3> QED BY <3>3, <3>4
  <2>6. Initial \in H \ {ctx} /\ m.head = Initial
    BY <2>1 DEF Linked
  <2> HIDE DEF m
  <2> QED BY <2>4, <2>5, <2>6 DEF Linked
<1> QED BY <1>2, <1>3

(***************************************************************************)
(* extract keeps the list one ring: what follows the extracted context     *)
(* moves up by one.                                                        *)
(***************************************************************************)
LEMMA ExtractRing ==
    ASSUME NEW l \in Lists, NEW H \in SUBSET Contexts, Linked(l, H),
           NEW n \in Nat \ {0}, NEW s, Ordered(l, H, n, s),
           NEW ctx \in H, ctx # Initial, NEW k \in 0 .. n - 1, s[k] = ctx
    PROVE  /\ n > 1 /\ k # 0
           /\ Ordered(extract(l, ctx), H \ {ctx}, n - 1, Shorter(s, n, k))
<1> DEFINE m == extract(l, ctx)
           p == l.prev[ctx]
           x == l.next[ctx]
<1>1. s[k] = ctx
  OBVIOUS
<1>2. k # 0 /\ n > 1
  BY <1>1 DEF Ordered, Linked
<1> DEFINE t == [i \in 0 .. n - 2 |-> IF i < k THEN s[i] ELSE s[i + 1]]
<1>3. s[k - 1] \in H /\ l.next[s[k - 1]] = ctx /\ p = s[k - 1]
  <2>1. s[k - 1] \in H /\ l.next[s[k - 1]] = ctx
    BY <1>1, <1>2 DEF Ordered
  <2> QED BY <2>1 DEF Linked
<1>4. x = IF k = n - 1 THEN Initial ELSE s[k + 1]
  <2>1. CASE k = n - 1
    BY <1>1, <2>1 DEF Ordered, Linked
  <2>2. CASE k # n - 1
    <3>1. k + 1 \in 1 .. n - 1 /\ (k + 1) - 1 = k
      BY <2>2
    <3> QED BY <3>1, <2>2, <1>1 DEF Ordered
  <2> QED BY <2>1, <2>2
<1>5. /\ m.head = Initial
      /\ m.tail = IF l.tail = ctx THEN p ELSE l.tail
      /\ m.next[p] = x /\ \A c \in H \ {ctx} : c # p => m.next[c] = l.next[c]
  <2>1. CASE p = x
    <3>1. H = {Initial, ctx} /\ p = Initial
      BY <2>1, RingOfTwo
    <3>2. m.next = [l.next EXCEPT ![p] = x] /\ m.head = Initial /\ m.tail = Initial
      BY <2>1, <3>1 DEF extract, ExtractOfTwo
    <3>3. m.next[p] = x
      BY <3>1, <3>2, ContextsAssumption DEF Lists
    <3>4. l.tail = ctx \/ l.tail = Initial
      BY <3>1 DEF Linked
    <3> QED BY <3>1, <3>2, <3>3, <3>4
  <2>2. CASE p # x
    <3>1. /\ m.next = [l.next EXCEPT ![p] = x]
          /\ m.head = l.head
          /\ m.tail = IF l.tail = ctx THEN p ELSE l.tail
      BY <2>2 DEF extract, ExtractOfMany, Linked
    <3>2. p \in Contexts
      BY DEF Lists
    <3>3. m.next[p] = x /\ \A c \in H : c # p => m.next[c] = l.next[c]
      BY <3>1, <3>2 DEF Lists
    <3> QED BY <3>1, <3>3 DEF Linked
  <2> QED BY <2>1, <2>2
<1> HIDE DEF m, p, x
<1>6. t \in [0 .. n - 2 -> H \ {ctx}]
  <2> SUFFICES ASSUME NEW i \in 0 .. n - 2 PROVE t[i] \in H \ {ctx}
    OBVIOUS
  <2>1. CASE i < k
    BY <2>1, <1>1 DEF Ordered
  <2>2. CASE ~(i < k)
    <3>1. i + 1 \in 0 .. n - 1 /\ i + 1 # k /\ t[i] = s[i + 1]
      BY <2>2
    <3> QED BY <3>1, <1>1 DEF Ordered
  <2> QED BY <2>1, <2>2
<1>7. t[0] = m.head
  BY <1>2, <1>5 DEF Ordered, Linked
<1>8. \A i, j \in 0 .. n - 2 : t[i] = t[j] => i = j
  BY <1>1 DEF Ordered
<1>9. ASSUME NEW c \in H \ {ctx} PROVE \E i \in 0 .. n - 2 : t[i] = c
  <2>1. PICK i \in 0 .. n - 1 : s[i] = c
    BY DEF Ordered
  <2>2. i # k
    BY <2>1, <1>1
  <2>3. CASE i < k
    BY <2>1, <2>3
  <2>4. CASE i > k
    <3>1. i - 1 \in 0 .. n - 2 /\ ~(i - 1 < k) /\ (i - 1) + 1 = i
      BY <2>4
    <3> QED BY <3>1, <2>1
  <2> QED BY <2>2, <2>3, <2>4
<1>10. \A i \in 0 .. n - 2 : s[i] \in H /\ l.next[s[i]] = s[i + 1]
  <2> HIDE DEF t, m, p, x
  <2>1. ASSUME NEW i \in 0 .. n - 2
        PROVE  s[i] \in H /\ l.next[s[i]] = s[i + 1]
    <3>1. i \in 0 .. n - 1 /\ i + 1 \in 1 .. n - 1 /\ (i + 1) - 1 = i
      OBVIOUS
    <3>2. s[i] \in H
      BY <3>1 DEF Ordered
    <3>3. l.next[s[(i + 1) - 1]] = s[i + 1]
      BY <3>1 DEF Ordered
    <3> QED BY <3>1, <3>2, <3>3
  <2> QED BY <2>1
<1>11. ASSUME NEW i \in 1 .. n - 2 PROVE m.next[t[i - 1]] = t[i]
  <2>1. CASE i < k
    <3>1. t[i - 1] = s[i - 1] /\ t[i] = s[i] /\ i - 1 \in 0 .. n - 1
      BY <2>1
    <3>2. s[i - 1] # p /\ s[i - 1] # ctx
      BY <2>1, <3>1, <1>1, <1>2, <1>3 DEF Ordered
    <3>3. s[i - 1] \in H /\ l.next[s[i - 1]] = s[i]
      <4>1. i - 1 \in 0 .. n - 2 /\ (i - 1) + 1 = i
        OBVIOUS
      <4> HIDE DEF t, m, p, x
      <4> QED BY <1>10, <4>1
    <3> QED BY <3>1, <3>2, <3>3, <1>5
  <2>2. CASE i = k
    <3>1. t[i - 1] = p /\ t[i] = s[k + 1] /\ k # n - 1
      BY <2>2, <1>3
    <3> QED BY <3>1, <1>4, <1>5
  <2>3. CASE i > k
    <3>1. t[i - 1] = s[i] /\ t[i] = s[i + 1] /\ i \in 0 .. n - 1 /\ i + 1 \in 1 .. n - 1
      BY <2>3
    <3>2. s[i] # p /\ s[i] # ctx
      BY <2>3, <3>1, <1>1, <1>2, <1>3 DEF Ordered
    <3>3. s[i] \in H /\ l.next[s[i]] = s[i + 1]
      BY <1>10
    <3> QED BY <3>1, <3>2, <3>3, <1>5
  <2> QED BY <2>1, <2>2, <2>3
<1>12. m.tail = t[n - 2]
  <2>1. CASE k = n - 1
    <3>1. l.tail = ctx /\ t[n - 2] = s[n - 2] /\ n - 2 = k - 1
      BY <2>1, <1>1, <1>2 DEF Ordered
    <3> QED BY <3>1, <1>3, <1>5
  <2>2. CASE k # n - 1
    <3>1. n - 2 \in 0 .. n - 2 /\ ~(n - 2 < k) /\ (n - 2) + 1 = n - 1
      BY <2>2, <1>2
    <3>2. t[n - 2] = s[n - 1] /\ n - 1 \in 0 .. n - 1
      BY <3>1
    <3>3. l.tail # ctx /\ l.tail = s[n - 1]
      BY <2>2, <1>1, <3>2 DEF Ordered
    <3> QED BY <3>2, <3>3, <1>5
  <2> QED BY <2>1, <2>2
<1>13. (n - 1) - 1 = n - 2
  OBVIOUS
<1> HIDE DEF t
<1>14. Ordered(m, H \ {ctx}, n - 1, t)
  BY <1>6, <1>7, <1>8, <1>9, <1>11, <1>12, <1>13 DEF Ordered
<1> QED BY <1>2, <1>14 DEF m, t, Shorter

----------------------------------------------------------------------------
(***************************************************************************)
(* The inductive invariant.  ListInv alone is not inductive: that extract  *)
(* is never asked to unlink a context that is its own neighbour needs the  *)
(* ring (OneRing), and that delete is never asked to free main's context   *)
(* needs HandoverInv.                                                      *)
(***************************************************************************)
IInv == TypeOK /\ ListInv /\ OneRing /\ CountExact /\ HandoverInv

\* What the invariant says of the list, in the form the lemmas on it take.
LEMMA RingFacts ==
    ASSUME TypeOK, ListInv, OneRing
    PROVE  /\ list \in Lists /\ heap \in SUBSET Contexts /\ Linked(list, heap)
           /\ fiber_count \in Nat \ {0}
           /\ \E s : Ordered(list, heap, fiber_count, s)
<1>1. list \in Lists /\ heap \in SUBSET Contexts /\ fiber_count \in Nat
  BY DEF TypeOK, Lists
<1>2. Linked(list, heap)
  BY DEF ListInv, Linked
<1>3. PICK s : Ordered(list, heap, fiber_count, s)
  BY DEF OneRing, IsRingOrder, Ordered
<1>4. fiber_count # 0
  <2> SUFFICES ASSUME fiber_count = 0 PROVE FALSE
    OBVIOUS
  <2>1. PICK i \in 0 .. fiber_count - 1 : s[i] = Initial
    BY <1>2, <1>3 DEF Linked, Ordered
  <2> QED BY <2>1
<1> QED BY <1>1, <1>2, <1>3, <1>4

\* The program starts in the invariant.
LEMMA InitInv == Init => IInv
<1> SUFFICES ASSUME Init PROVE IInv
  OBVIOUS
<1> USE ContextsAssumption
<1>1. TypeOK
  BY DEF Init, TypeOK, Frames, Places
<1>2. ListInv
  BY DEF Init, ListInv
<1>3. OneRing
  <2> DEFINE s == [i \in 0 .. 0 |-> Initial]
  <2>1. fiber_count - 1 = 0 /\ heap = {Initial}
    BY DEF Init
  <2>2. s \in [0 .. fiber_count - 1 -> heap] /\ IsRingOrder(s)
    BY <2>1 DEF Init, IsRingOrder
  <2> QED BY <2>2 DEF OneRing
<1>4. CountExact
  BY FS_Singleton DEF Init, CountExact
<1>5. HandoverInv
  BY DEF Init, HandoverInv
<1> QED BY <1>1, <1>2, <1>3, <1>4, <1>5 DEF IInv

\* uthread_start: the new context is linked behind the tail.
LEMMA StartInv ==
    ASSUME IInv, NEW ctx \in Contexts, uthread_start(ctx)
    PROVE  IInv'
<1> USE DEF IInv, uthread_start
<1>1. /\ list \in Lists /\ heap \in SUBSET Contexts /\ Linked(list, heap)
      /\ fiber_count \in Nat \ {0}
  BY RingFacts
<1>2. PICK s : Ordered(list, heap, fiber_count, s)
  BY RingFacts
<1>3. ctx \in Contexts \ heap /\ list' = insert(list, ctx) /\ heap' = heap \cup {ctx}
  OBVIOUS
<1>4. list' \in Lists /\ Linked(list', heap')
  BY <1>1, <1>3, InsertType, InsertList
<1>5. \E t : Ordered(list', heap', fiber_count', t)
  BY <1>1, <1>2, <1>3, InsertRing
<1>6. current \in heap
  BY DEF ListInv
<1>7. TypeOK'
  <2>1. current' \in Contexts
    BY <1>1, <1>3, <1>4, <1>6 DEF Linked
  <2> QED BY <1>1, <1>3, <1>4, <2>1 DEF TypeOK, Lists, Frames, Places
<1>8. ListInv'
  <2>1. current' \in heap'
    BY <1>3, <1>4, <1>6 DEF Linked
  <2> QED BY <1>4, <2>1 DEF ListInv, Linked
<1>9. OneRing'
  BY <1>5 DEF OneRing, IsRingOrder, Ordered
<1>10. CountExact'
  BY <1>3, FS_AddElement DEF CountExact
<1>11. HandoverInv'
  <2>1. ~is_deleted'[Initial]
    BY <1>1, <1>3 DEF HandoverInv, TypeOK, Linked
  <2>2. ASSUME TailStarts PROVE current' = ctx
    BY <1>1, <1>3, <2>2, InsertType DEF MayStart, insert, Lists, Linked
  <2>3. ASSUME TailStarts, NEW c \in heap'
        PROVE  ~is_deleted'[c] /\ (frame'[c] = "in_yield" \/ (c = current' /\ frame'[c] = "prepared"))
    <3>1. frame' = [frame EXCEPT ![ctx] = "prepared", ![current] = "in_yield"]
          /\ is_deleted' = [is_deleted EXCEPT ![ctx] = FALSE]
          /\ frame \in [Contexts -> Frames] /\ is_deleted \in [Contexts -> BOOLEAN]
          /\ current # ctx /\ current \in Contexts
      BY <1>3, <1>6 DEF TypeOK
    <3>2. CASE c = ctx
      BY <3>1, <3>2, <2>2, <2>3
    <3>3. CASE c # ctx
      <4>1. c \in heap /\ c \in Contexts
        BY <1>1, <1>3, <3>3
      <4>2. ~is_deleted[c] /\ (c # current => frame[c] = "in_yield")
        BY <2>3, <4>1 DEF HandoverInv, MayStart
      <4> QED BY <3>1, <3>3, <4>1, <4>2
    <3> QED BY <3>2, <3>3
  <2>4. pc' = "switched"
    OBVIOUS
  <2> QED BY <2>1, <2>3, <2>4 DEF HandoverInv
<1> QED BY <1>7, <1>8, <1>9, <1>10, <1>11

\* A step that only switches, exits or enters a function leaves the list alone.
LEMMA SameList ==
    ASSUME IInv, UNCHANGED <<heap, list, fiber_count>>, current' \in heap
    PROVE  ListInv' /\ OneRing' /\ CountExact'
<1>1. ListInv'
  BY DEF IInv, ListInv
<1>2. OneRing'
  BY DEF IInv, OneRing, IsRingOrder
<1>3. CountExact'
  BY DEF IInv, CountExact
<1> QED BY <1>1, <1>2, <1>3

\* A failed start and the return of main keep the invariant.
LEMMA StopInv ==
    ASSUME IInv, StartFails \/ MainReturns
    PROVE  IInv'
<1>1. UNCHANGED <<heap, list, fiber_count, is_deleted, frame, current>> /\ pc' = "exited"
  BY DEF StartFails, MainReturns
<1>2. TypeOK' /\ HandoverInv'
  BY <1>1 DEF IInv, TypeOK, HandoverInv, Places
<1>3. current' \in heap
  BY <1>1 DEF IInv, ListInv
<1> QED BY <1>1, <1>2, <1>3, SameList DEF IInv

\* A yield keeps the invariant.
LEMMA YieldInv ==
    ASSUME IInv, uthread_yield
    PROVE  IInv'
<1> USE DEF uthread_yield, SwitchFrom
<1>1. current \in heap /\ current' \in heap /\ heap \subseteq Contexts
  BY DEF IInv, ListInv, TypeOK
<1>2. TypeOK'
  BY <1>1 DEF IInv, TypeOK, Frames, Places
<1>3. HandoverInv'
  BY <1>1 DEF IInv, HandoverInv, TypeOK
<1> QED BY <1>1, <1>2, <1>3, SameList DEF IInv

\* The return of a fiber's function keeps the invariant.
LEMMA ReturnInv ==
    ASSUME IInv, FunctionReturns
    PROVE  IInv'
<1> USE DEF FunctionReturns, SwitchFrom
<1>1. current \in heap /\ current' \in heap /\ heap \subseteq Contexts
  BY DEF IInv, ListInv, TypeOK
<1>2. TypeOK'
  BY <1>1 DEF IInv, TypeOK, Frames, Places
<1>3. current' # current /\ list.prev[current'] = current
  <2>1. /\ list \in Lists /\ heap \in SUBSET Contexts /\ Linked(list, heap)
        /\ fiber_count \in Nat \ {0}
    BY RingFacts DEF IInv
  <2>2. PICK s : Ordered(list, heap, fiber_count, s)
    BY RingFacts DEF IInv
  <2>3. list.next[current] # current
    BY <1>1, <2>1, <2>2, NoSelfLoop
  <2> QED BY <1>1, <2>1, <2>3 DEF Linked
<1>4. HandoverInv'
  BY <1>1, <1>3 DEF IInv, HandoverInv, TypeOK
<1> QED BY <1>1, <1>2, <1>4, SameList DEF IInv

\* The first entry of a fiber, through uthread_handle, keeps the invariant.
LEMMA EnterInv ==
    ASSUME IInv, uthread_handle
    PROVE  IInv'
<1> USE DEF uthread_handle
<1>1. current \in heap /\ current' \in heap /\ heap \subseteq Contexts
  BY DEF IInv, ListInv, TypeOK
<1>2. TypeOK'
  BY <1>1 DEF IInv, TypeOK, Frames, Places
<1>3. HandoverInv'
  BY <1>1 DEF IInv, HandoverInv, TypeOK
<1> QED BY <1>1, <1>2, <1>3, SameList DEF IInv

\* What delete is called on is a listed context that is neither main's nor the
\* current one.
LEMMA PreviousFacts ==
    ASSUME IInv, is_deleted[list.prev[current]]
    PROVE  /\ list.prev[current] \in heap
           /\ list.prev[current] # Initial
           /\ list.prev[current] # current
<1>1. /\ list \in Lists /\ heap \in SUBSET Contexts /\ Linked(list, heap)
      /\ fiber_count \in Nat \ {0} /\ current \in heap
  BY RingFacts DEF IInv, ListInv
<1>2. PICK s : Ordered(list, heap, fiber_count, s)
  BY RingFacts DEF IInv
<1>3. list.prev[current] \in heap /\ list.prev[current] # Initial
  BY <1>1 DEF IInv, HandoverInv, Linked
<1>4. current = Initial \/ list.prev[current] # current
  BY <1>1, <1>2, NoSelfLoop
<1> QED BY <1>3, <1>4

\* The return from uthread_switch, with the free of an ended fiber, keeps the
\* invariant.
LEMMA ResumeInv ==
    ASSUME IInv, YieldReturns
    PROVE  IInv'
<1> DEFINE previous == list.prev[current]
<1> USE DEF YieldReturns
<1>1. /\ list \in Lists /\ heap \in SUBSET Contexts /\ Linked(list, heap)
      /\ fiber_count \in Nat \ {0} /\ current \in heap /\ current' = current
  BY RingFacts DEF IInv, ListInv
<1>2. /\ is_deleted' \in [Contexts -> BOOLEAN] /\ frame' \in [Contexts -> Frames]
      /\ current' \in Contexts /\ pc' \in Places
  BY DEF IInv, TypeOK, Frames, Places
<1>3. CASE is_deleted[previous]
  <2>1. previous \in heap /\ previous # Initial /\ previous # current
    BY <1>3, PreviousFacts
  <2>2. /\ list' = extract(list, previous)
        /\ heap' = heap \ {previous}
        /\ fiber_count' = fiber_count - 1
    BY <1>3 DEF ReclaimPrevious
  <2>3. PICK s : Ordered(list, heap, fiber_count, s)
    BY RingFacts DEF IInv
  <2>4. list' \in Lists /\ Linked(list', heap')
    BY <1>1, <2>1, <2>2, <2>3, ExtractType, ExtractList
  <2>5. fiber_count > 1 /\ \E t : Ordered(list', heap', fiber_count', t)
    <3> HIDE DEF previous, YieldReturns
    <3>1. PICK k \in 0 .. fiber_count - 1 : s[k] = previous
      BY <2>1, <2>3 DEF Ordered
    <3>2. /\ fiber_count > 1
          /\ Ordered(extract(list, previous), heap \ {previous}, fiber_count - 1,
                     Shorter(s, fiber_count, k))
      BY <1>1, <2>1, <2>3, <3>1, ExtractRing
    <3> QED BY <3>2, <2>2
  <2>6. TypeOK'
    BY <1>1, <1>2, <2>2, <2>4, <2>5 DEF TypeOK, Lists
  <2>7. ListInv'
    BY <1>1, <2>1, <2>2, <2>4 DEF ListInv, Linked
  <2>8. OneRing'
    BY <2>5 DEF OneRing, IsRingOrder, Ordered
  <2>9. CountExact'
    BY <2>1, <2>2, FS_RemoveElement DEF IInv, CountExact
  <2>10. HandoverInv'
    <3>1. ~is_deleted'[Initial]
      BY DEF IInv, HandoverInv
    <3>2. ASSUME TailStarts
          PROVE  /\ pc' = "client"
                 /\ \A c \in heap' : ~is_deleted'[c] /\ (c # current' => frame'[c] = "in_yield")
      BY <1>1, <1>3, <2>1, <2>2, <3>2 DEF IInv, HandoverInv, TypeOK
    <3> QED BY <3>1, <3>2 DEF HandoverInv
  <2> QED BY <2>6, <2>7, <2>8, <2>9, <2>10 DEF IInv
<1>4. CASE ~is_deleted[previous]
  <2>1. UNCHANGED <<list, heap, fiber_count>>
    BY <1>4 DEF ReclaimPrevious
  <2>2. TypeOK'
    BY <1>2, <2>1 DEF IInv, TypeOK
  <2>3. HandoverInv'
    <3>1. ~is_deleted'[Initial]
      BY DEF IInv, HandoverInv
    <3>2. ASSUME TailStarts
          PROVE  /\ pc' = "client"
                 /\ \A c \in heap' : ~is_deleted'[c] /\ (c # current' => frame'[c] = "in_yield")
      BY <1>1, <1>4, <2>1, <3>2 DEF IInv, HandoverInv, TypeOK
    <3> QED BY <3>1, <3>2 DEF HandoverInv
  <2> QED BY <1>1, <2>1, <2>2, <2>3, SameList DEF IInv
<1> QED BY <1>3, <1>4

\* Every step keeps the invariant.
LEMMA NextInv == IInv /\ [Next]_vars => IInv'
<1> SUFFICES ASSUME IInv, [Next]_vars PROVE IInv'
  OBVIOUS
<1>1. ASSUME NEW ctx \in Contexts, uthread_start(ctx) PROVE IInv'
  BY <1>1, StartInv
<1>2. CASE StartFails \/ MainReturns
  BY <1>2, StopInv
<1>3. CASE uthread_yield
  BY <1>3, YieldInv
<1>4. CASE FunctionReturns
  BY <1>4, ReturnInv
<1>5. CASE uthread_handle
  BY <1>5, EnterInv
<1>6. CASE YieldReturns
  BY <1>6, ResumeInv
<1>7. CASE UNCHANGED vars
  <2>1. UNCHANGED <<heap, list, is_deleted, frame, current, fiber_count, pc>>
    BY <1>7 DEF vars
  <2>2. TypeOK' /\ HandoverInv' /\ current' \in heap
    BY <2>1 DEF IInv, TypeOK, HandoverInv, ListInv
  <2> QED BY <2>1, <2>2, SameList DEF IInv
<1> QED BY <1>1, <1>2, <1>3, <1>4, <1>5, <1>6, <1>7 DEF Next

\* The invariant holds in every reachable state.
LEMMA Inductive == Spec => []IInv
BY InitInv, NextInv, PTL DEF Spec

----------------------------------------------------------------------------
\* Every variable keeps its type; fiber_count, a size_t, never goes below zero.
THEOREM TypeCorrect == Spec => []TypeOK
<1>1. IInv => TypeOK
  BY DEF IInv
<1> QED BY <1>1, Inductive, PTL

\* Whatever fibers clients start, and from wherever, the list of contexts is
\* always one ring of exactly the contexts in use, fiber_count long.
THEOREM RingCorrect == Spec => []OneRing
<1>1. IInv => OneRing
  BY DEF IInv
<1> QED BY <1>1, Inductive, PTL

\* No global and no listed context points to freed memory.
THEOREM NoDangling == Spec => []ListInv
<1>1. IInv => ListInv
  BY DEF IInv
<1> QED BY <1>1, Inductive, PTL

\* fiber_count is the number of contexts in use.
THEOREM CountCorrect == Spec => []CountExact
<1>1. IInv => CountExact
  BY DEF IInv
<1> QED BY <1>1, Inductive, PTL

\* If fibers are only ever started by the tail fiber, no finished fiber is
\* resumed: every one is reclaimed by its successor.
THEOREM TailStartsAreSafe == TailStarts => (Spec => []NoWildReturn)
<1> SUFFICES ASSUME TailStarts PROVE Spec => []NoWildReturn
  OBVIOUS
<1>1. IInv => NoWildReturn
  BY DEF IInv, HandoverInv, NoWildReturn
<1> QED BY <1>1, Inductive, PTL

\* Then uthread_try_join is exact: fiber_count counts no finished fiber whenever
\* client code can ask.
THEOREM TryJoinCorrect == TailStarts => (Spec => []TryJoinExact)
<1> SUFFICES ASSUME TailStarts PROVE Spec => []TryJoinExact
  OBVIOUS
<1>1. IInv => TryJoinExact
  <2> SUFFICES ASSUME IInv, pc = "client"
               PROVE  (uthread_try_join = 1) <=> (Unfinished = {current})
    BY DEF TryJoinExact
  <2>1. Unfinished = heap
    BY DEF IInv, HandoverInv, Unfinished
  <2>2. current \in heap /\ IsFiniteSet(heap) /\ fiber_count = Cardinality(heap)
    BY DEF IInv, ListInv, CountExact
  <2>3. Cardinality(heap) = 1 <=> heap = {current}
    <3>1. ASSUME Cardinality(heap) = 1 PROVE heap = {current}
      <4>1. \E c : heap = {c}
        BY <2>2, <3>1, FS_Singleton
      <4> QED BY <2>2, <4>1
    <3>2. Cardinality({current}) = 1
      BY FS_Singleton
    <3> QED BY <3>1, <3>2
  <2> QED BY <2>1, <2>2, <2>3 DEF uthread_try_join
<1> QED BY <1>1, Inductive, PTL

\* delete frees only contexts of finished fibers, never the running stack.
THEOREM FreesCorrect == Spec => FreesOnlyFinished
<1> DEFINE Frees == \A c \in heap \ heap' : is_deleted[c] /\ c # current /\ c # Initial
<1>1. IInv /\ [Next]_vars => [Frees]_vars
  <2> SUFFICES ASSUME IInv, Next PROVE Frees
    OBVIOUS
  <2>1. CASE YieldReturns
    <3>1. CASE is_deleted[list.prev[current]]
      BY <2>1, <3>1, PreviousFacts DEF YieldReturns, ReclaimPrevious
    <3>2. CASE ~is_deleted[list.prev[current]]
      BY <2>1, <3>2 DEF YieldReturns, ReclaimPrevious
    <3> QED BY <3>1, <3>2
  <2>2. CASE ~YieldReturns
    BY <2>2 DEF Next, uthread_start, StartFails, uthread_yield, FunctionReturns,
                SwitchFrom, MainReturns, uthread_handle
  <2> QED BY <2>1, <2>2
<1> QED BY <1>1, Inductive, PTL DEF Spec, FreesOnlyFinished
----------------------------------------------------------------------------
(* The refinement: the ring without its finished member is the turn order. *)

\* The first i contexts of a ring order without the k-th, counting from 0.
Skipping(s, i, k) ==
    [j \in 1 .. (IF k < i THEN i - 1 ELSE i) |-> IF j <= k THEN s[j - 1] ELSE s[j]]

(***************************************************************************)
(* Following next from head meets the contexts in ring order.              *)
(***************************************************************************)
LEMMA NthInRing ==
    ASSUME IInv, NEW s, Ordered(list, heap, fiber_count, s)
    PROVE  \A i \in 0 .. fiber_count - 1 : Nth[i] = s[i]
<1> DEFINE n == fiber_count
           N == Cardinality(Contexts)
           Steps(f) == f = [i \in 0 .. N |-> IF i = 0 THEN list.head ELSE list.next[f[i - 1]]]
           walk == CHOOSE f : Steps(f)
<1>1. Nth = walk
  BY Zenon DEF Nth
<1>2. /\ list \in Lists /\ heap \in SUBSET Contexts /\ n \in Nat \ {0}
      /\ n = Cardinality(heap)
  BY RingFacts DEF IInv, CountExact
<1>3. N \in Nat /\ n <= N
  BY <1>2, ContextsAssumption, FS_CardinalityType, FS_Subset
<1> HIDE DEF N, n
<1>4. \E f : Steps(f)
  <2> DEFINE S == Contexts
             base == list.head
             step == [p \in Nat \X S |-> list.next[p[2]]]
  <2>1. base \in S /\ step \in [Nat \X S -> S]
    BY <1>2 DEF Lists
  <2>2. \A i \in Nat, c \in S : step[<<i, c>>] = list.next[c]
    OBVIOUS
  <2> HIDE DEF S, base, step
  <2>3. \E chain : Recursive(chain, S, base, step)
    BY <2>1, NatRecursion
  <2>4. PICK chain : chain \in [Nat -> S] /\ chain[0] = base /\ \A i \in Nat : chain[i + 1] = step[<<i, chain[i]>>]
    BY <2>3 DEF Recursive
  <2> DEFINE f == [i \in 0 .. N |-> chain[i]]
             e(i) == IF i = 0 THEN list.head ELSE list.next[f[i - 1]]
  <2>5. ASSUME NEW i \in 0 .. N PROVE f[i] = e(i)
    <3>1. CASE i = 0
      BY <2>4, <3>1 DEF base
    <3>2. CASE i # 0
      <4>1. i - 1 \in Nat /\ i - 1 \in 0 .. N /\ (i - 1) + 1 = i /\ f[i] = chain[i] /\ f[i - 1] = chain[i - 1]
        BY <1>3, <3>2
      <4> HIDE DEF f
      <4>2. chain[(i - 1) + 1] = step[<<i - 1, chain[i - 1]>>] /\ chain[i - 1] \in S
        BY <2>4, <4>1
      <4>3. chain[i] = list.next[chain[i - 1]]
        BY <2>2, <4>1, <4>2
      <4> QED BY <3>2, <4>1, <4>3
    <3> QED BY <3>1, <3>2
  <2>6. f = [i \in 0 .. N |-> f[i]]
    OBVIOUS
  <2> HIDE DEF f, e
  <2>7. f = [i \in 0 .. N |-> e(i)]
    BY <2>5, <2>6
  <2>8. Steps(f)
    BY <2>7 DEF e
  <2> QED BY <2>8
<1>5. Steps(walk)
  BY <1>4, Zenon
<1> HIDE DEF walk
<1>6. \A i \in 0 .. N : walk[i] = IF i = 0 THEN list.head ELSE list.next[walk[i - 1]]
  BY <1>5
<1> HIDE DEF Steps
<1> DEFINE P == {i \in Nat : i \in 0 .. n - 1 => walk[i] = s[i]}
<1>7. 0 \in P
  BY <1>3, <1>6 DEF Ordered, n
<1>8. ASSUME NEW i \in 1 .. n - 1, i - 1 \in P PROVE i \in P
  <2>1. i \in 0 .. N /\ i # 0 /\ i - 1 \in 0 .. n - 1 /\ i \in Nat
    BY <1>2, <1>3
  <2>2. walk[i] = list.next[walk[i - 1]] /\ walk[i - 1] = s[i - 1]
    BY <1>6, <1>8, <2>1
  <2>3. list.next[s[i - 1]] = s[i]
    BY DEF Ordered, n
  <2> QED BY <2>1, <2>2, <2>3
<1> HIDE DEF P
<1>9. n - 1 \in Nat
  BY <1>2
<1>10. \A i \in 0 .. n - 1 : i \in P
  BY <1>7, <1>8, <1>9, BoundedInduction
<1>11. \A i \in 0 .. n - 1 : i \in Nat
  BY <1>9
<1> QED BY <1>1, <1>10, <1>11 DEF P, n

(***************************************************************************)
(* The turn order when at most the k-th context of the ring has finished;  *)
(* k is fiber_count when none has.                                         *)
(***************************************************************************)
TurnOrderIs ==
    \A s : \A k \in Nat :
        /\ Ordered(list, heap, fiber_count, s)
        /\ \A i \in 0 .. fiber_count - 1 : is_deleted[s[i]] <=> i = k
        => TurnOrder = Skipping(s, fiber_count, k)

\* In every reachable state TurnOrder is the ring without the one that has ended.
LEMMA TurnOrderOfRing == IInv => TurnOrderIs
<1> SUFFICES ASSUME IInv, NEW s, NEW k \in Nat, Ordered(list, heap, fiber_count, s),
                    \A i \in 0 .. fiber_count - 1 : is_deleted[s[i]] <=> i = k
             PROVE  TurnOrder = Skipping(s, fiber_count, k)
  BY DEF TurnOrderIs
<1> DEFINE n == fiber_count
           e(f, i) == IF i = 0 THEN <<>>
                      ELSE IF is_deleted[Nth[i - 1]] THEN f[i - 1]
                      ELSE Append(f[i - 1], Nth[i - 1])
           Steps(f) == f = [i \in 0 .. n |-> e(f, i)]
           order == CHOOSE f : Steps(f)
           skipping == [i \in 0 .. n |-> Skipping(s, i, k)]
<1>1. TurnOrder = order[n]
  BY Zenon DEF TurnOrder
<1>2. n \in Nat /\ \A i \in 0 .. n - 1 : Nth[i] = s[i] /\ s[i] \in heap /\ (is_deleted[s[i]] <=> i = k)
  BY NthInRing DEF IInv, TypeOK, Ordered
<1> HIDE DEF n
<1>3. Skipping(s, 0, k) = <<>>
  BY DEF Skipping
<1>4. ASSUME NEW i \in 1 .. n
      PROVE  Skipping(s, i, k) = IF is_deleted[Nth[i - 1]] THEN Skipping(s, i - 1, k)
                                 ELSE Append(Skipping(s, i - 1, k), Nth[i - 1])
  <2>1. i - 1 \in 0 .. n - 1 /\ i \in Nat
    BY <1>2
  <2>2. Nth[i - 1] = s[i - 1] /\ (is_deleted[s[i - 1]] <=> i - 1 = k)
    BY <1>2, <2>1
  <2>3. CASE i - 1 = k
    <3>1. /\ Skipping(s, i - 1, k) = [j \in 1 .. i - 1 |-> IF j <= k THEN s[j - 1] ELSE s[j]]
          /\ Skipping(s, i, k) = [j \in 1 .. i - 1 |-> IF j <= k THEN s[j - 1] ELSE s[j]]
      BY <2>1, <2>3 DEF Skipping
    <3>2. is_deleted[Nth[i - 1]]
      BY <2>2, <2>3
    <3> QED BY <3>1, <3>2
  <2>4. CASE k < i - 1
    <3>1. /\ Skipping(s, i - 1, k) = [j \in 1 .. i - 2 |-> IF j <= k THEN s[j - 1] ELSE s[j]]
          /\ Skipping(s, i, k) = [j \in 1 .. i - 1 |-> IF j <= k THEN s[j - 1] ELSE s[j]]
      BY <2>1, <2>4 DEF Skipping
    <3>2. i - 2 \in Nat
      BY <2>1, <2>4
    <3>3. Append(Skipping(s, i - 1, k), s[i - 1]) = Skipping(s, i, k)
      BY <2>1, <2>4, <3>1, <3>2
    <3> QED BY <2>2, <2>4, <3>3
  <2>5. CASE k > i - 1
    <3>1. /\ Skipping(s, i - 1, k) = [j \in 1 .. i - 1 |-> IF j <= k THEN s[j - 1] ELSE s[j]]
          /\ Skipping(s, i, k) = [j \in 1 .. i |-> IF j <= k THEN s[j - 1] ELSE s[j]]
      BY <2>1, <2>5 DEF Skipping
    <3>2. i - 1 \in Nat
      BY <2>1
    <3>3. Append(Skipping(s, i - 1, k), s[i - 1]) = Skipping(s, i, k)
      BY <2>1, <2>5, <3>1, <3>2
    <3> QED BY <2>2, <2>5, <3>3
  <2> QED BY <2>1, <2>3, <2>4, <2>5
<1>5. Steps(skipping)
  <2>1. ASSUME NEW i \in 0 .. n PROVE skipping[i] = e(skipping, i)
    <3>1. CASE i = 0
      BY <1>3, <3>1
    <3>2. CASE i # 0
      <4>1. i \in 1 .. n /\ i - 1 \in 0 .. n
        BY <1>2, <3>2
      <4>2. skipping[i] = Skipping(s, i, k) /\ skipping[i - 1] = Skipping(s, i - 1, k)
        BY <4>1
      <4> HIDE DEF skipping
      <4> QED BY <1>4, <3>2, <4>1, <4>2
    <3> QED BY <3>1, <3>2
  <2>2. skipping = [i \in 0 .. n |-> skipping[i]]
    OBVIOUS
  <2> HIDE DEF skipping, e
  <2> QED BY <2>1, <2>2
<1>6. Steps(order)
  BY <1>5, Zenon
<1> HIDE DEF order, skipping
<1>7. \A i \in 0 .. n : order[i] = e(order, i)
  BY <1>6
<1> HIDE DEF Steps
<1> DEFINE P == {i \in Nat : i \in 0 .. n => order[i] = Skipping(s, i, k)}
<1>8. 0 \in P
  BY <1>2, <1>3, <1>7
<1>9. ASSUME NEW i \in 1 .. n, i - 1 \in P PROVE i \in P
  <2>1. i \in 0 .. n /\ i # 0 /\ i - 1 \in 0 .. n /\ i \in Nat
    BY <1>2
  <2>2. order[i - 1] = Skipping(s, i - 1, k)
    BY <1>9, <2>1
  <2>3. order[i] = e(order, i)
    BY <1>7, <2>1
  <2>4. e(order, i) = IF is_deleted[Nth[i - 1]] THEN order[i - 1]
                      ELSE Append(order[i - 1], Nth[i - 1])
    BY <2>1
  <2> HIDE DEF e
  <2>5. order[i] = Skipping(s, i, k)
    BY <1>4, <2>2, <2>3, <2>4
  <2> QED BY <2>1, <2>5
<1> HIDE DEF P
<1>10. \A i \in 0 .. n : i \in P
  BY <1>2, <1>8, <1>9, BoundedInduction
<1>11. n \in 0 .. n
  BY <1>2
<1> QED BY <1>1, <1>10, <1>11 DEF P, n

\* Who comes after the p-th, and after the last.
FollowedByNext(o, p) ==
    /\ RR!Position(o, o[p]) = p
    /\ p < Len(o) => RR!Successor(o, o[p]) = o[p + 1]
    /\ p = Len(o) => RR!Successor(o, o[p]) = o[1]

\* So it is in a sequence without repetitions.
LEMMA SuccessorIs ==
    ASSUME NEW o \in Seq(Contexts), NEW p \in 1 .. Len(o),
           \A i, j \in 1 .. Len(o) : o[i] = o[j] => i = j
    PROVE  FollowedByNext(o, p)
<1>1. RR!Position(o, o[p]) = p
  BY DEF RR!Position
<1>2. RR!Successor(o, o[p]) = o[(p % Len(o)) + 1]
  BY <1>1 DEF RR!Successor
<1>3. p < Len(o) => p % Len(o) = p
  OBVIOUS
<1>4. p = Len(o) => p % Len(o) = 0
  OBVIOUS
<1> QED BY <1>1, <1>2, <1>3, <1>4 DEF FollowedByNext

\* The turn order as long as nobody has finished, and whose turn comes next.
Whole(s, n) == [j \in 1 .. n |-> s[j - 1]]

RingTurns(l, n, s, p) ==
    /\ Whole(s, n) \in Seq(Contexts) /\ Len(Whole(s, n)) = n
    /\ \A j \in 1 .. n : Whole(s, n)[j] = s[j - 1]
    /\ RR!Position(Whole(s, n), s[p]) = p + 1
    /\ l.next[l.tail] = l.head => RR!Successor(Whole(s, n), s[p]) = l.next[s[p]]
    /\ Skipping(s, n, n) = Whole(s, n)

\* While nobody has finished, the turns are the ring, and RoundRobin's next of a fiber
\* is the one linked after it.
LEMMA WholeRing ==
    ASSUME NEW l \in Lists, NEW H \in SUBSET Contexts, NEW n \in Nat \ {0},
           NEW s, Ordered(l, H, n, s), NEW p \in 0 .. n - 1
    PROVE  RingTurns(l, n, s, p)
<1> SUFFICES /\ Whole(s, n) \in Seq(Contexts) /\ Len(Whole(s, n)) = n
             /\ \A j \in 1 .. n : Whole(s, n)[j] = s[j - 1]
             /\ RR!Position(Whole(s, n), s[p]) = p + 1
             /\ l.next[l.tail] = l.head => RR!Successor(Whole(s, n), s[p]) = l.next[s[p]]
             /\ Skipping(s, n, n) = Whole(s, n)
  BY DEF RingTurns
<1> DEFINE o == Whole(s, n)
<1>1. \A j \in 1 .. n : j - 1 \in 0 .. n - 1 /\ s[j - 1] \in Contexts
  BY DEF Ordered
<1>2. o \in Seq(Contexts) /\ Len(o) = n /\ \A j \in 1 .. n : o[j] = s[j - 1]
  BY <1>1 DEF Whole
<1>3. Skipping(s, n, n) = Whole(s, n)
  BY DEF Skipping, Whole
<1> HIDE DEF o
<1>4. \A i, j \in 1 .. Len(o) : o[i] = o[j] => i = j
  <2> SUFFICES ASSUME NEW i \in 1 .. n, NEW j \in 1 .. n, o[i] = o[j] PROVE i = j
    BY <1>2
  <2>1. s[i - 1] = s[j - 1] /\ i - 1 \in 0 .. n - 1 /\ j - 1 \in 0 .. n - 1
    BY <1>1, <1>2
  <2>2. i - 1 = j - 1
    BY <2>1 DEF Ordered
  <2> QED BY <2>2
<1>5. p + 1 \in 1 .. Len(o) /\ o[p + 1] = s[p]
  BY <1>2
<1>6. /\ RR!Position(o, s[p]) = p + 1
      /\ p + 1 < n => RR!Successor(o, s[p]) = o[(p + 1) + 1]
      /\ p + 1 = n => RR!Successor(o, s[p]) = o[1]
  <2>1. FollowedByNext(o, p + 1)
    BY <1>2, <1>4, <1>5, SuccessorIs
  <2> QED BY <1>2, <1>5, <2>1 DEF FollowedByNext
<1>7. CASE p + 1 < n
  <2>1. p + 1 \in 1 .. n - 1 /\ (p + 1) + 1 \in 1 .. n /\ ((p + 1) + 1) - 1 = p + 1 /\ (p + 1) - 1 = p
    BY <1>7
  <2>2. l.next[s[p]] = s[p + 1]
    BY <2>1 DEF Ordered
  <2> QED BY <1>2, <1>3, <1>6, <1>7, <2>1, <2>2 DEF o
<1>8. CASE p + 1 = n
  <2>1. o[1] = l.head /\ s[p] = l.tail
    <3>1. 1 \in 1 .. n /\ 1 - 1 = 0 /\ p = n - 1
      BY <1>8
    <3>2. o[1] = s[0]
      BY <1>2, <3>1
    <3> QED BY <3>1, <3>2 DEF Ordered
  <2> QED BY <1>2, <1>3, <1>6, <1>8, <2>1 DEF o
<1> QED BY <1>7, <1>8

(***************************************************************************)
(* When client code runs, the turn order is the whole ring.                *)
(***************************************************************************)
LEMMA OrderAtClient ==
    ASSUME TailStarts, IInv, TurnOrderIs, pc = "client",
           NEW s, Ordered(list, heap, fiber_count, s)
    PROVE  TurnOrder = Whole(s, fiber_count) /\ \A i \in 0 .. fiber_count - 1 : ~is_deleted[s[i]]
<1>1. fiber_count \in Nat \ {0} /\ list \in Lists /\ heap \in SUBSET Contexts
  BY RingFacts DEF IInv
<1>2. \A i \in 0 .. fiber_count - 1 : ~is_deleted[s[i]] /\ i # fiber_count
  BY <1>1 DEF IInv, HandoverInv, Ordered
<1>3. TurnOrder = Skipping(s, fiber_count, fiber_count)
  BY <1>1, <1>2 DEF TurnOrderIs
<1>4. RingTurns(list, fiber_count, s, 0)
  BY <1>1, WholeRing
<1> QED BY <1>2, <1>3, <1>4 DEF RingTurns

\* uthread_start: the new fiber is last, and its turn comes next.
LEMMA StartIsStart ==
    ASSUME TailStarts, IInv, IInv', TurnOrderIs, TurnOrderIs', NEW ctx \in Contexts, uthread_start(ctx)
    PROVE  RR!Start(ctx)
<1> DEFINE n == fiber_count
<1>1. /\ list \in Lists /\ heap \in SUBSET Contexts /\ Linked(list, heap)
      /\ n \in Nat \ {0}
  BY RingFacts DEF IInv
<1>2. PICK s : Ordered(list, heap, n, s)
  BY RingFacts DEF IInv
<1> DEFINE t == Longer(s, n, ctx)
<1>3. /\ ctx \in Contexts \ heap /\ list' = insert(list, ctx) /\ heap' = heap \cup {ctx}
      /\ fiber_count' = n + 1 /\ pc = "client" /\ current = list.tail
      /\ current' = insert(list, ctx).next[current]
      /\ is_deleted' = [is_deleted EXCEPT ![ctx] = FALSE]
  BY DEF uthread_start, MayStart
<1>4. Ordered(list', heap', n + 1, t)
  BY <1>1, <1>2, <1>3, InsertRing
<1>5. TurnOrder = Whole(s, n) /\ \A i \in 0 .. n - 1 : ~is_deleted[s[i]] /\ s[i] \in heap
  BY <1>2, <1>3, OrderAtClient DEF Ordered
<1>6. \A i \in 0 .. n : t[i] = IF i < n THEN s[i] ELSE ctx
  BY DEF Longer
<1>7. list' \in Lists /\ heap' \in SUBSET Contexts /\ n + 1 \in Nat \ {0} /\ (n + 1) - 1 = n
  BY <1>1, <1>3, InsertType
<1> HIDE DEF t
<1>8. \A i \in 0 .. n : ~is_deleted'[t[i]]
  <2> SUFFICES ASSUME NEW i \in 0 .. n PROVE ~is_deleted'[t[i]]
    OBVIOUS
  <2>1. is_deleted \in [Contexts -> BOOLEAN]
    BY DEF IInv, TypeOK
  <2>2. CASE i = n
    BY <1>1, <1>3, <1>6, <2>1, <2>2
  <2>3. CASE i # n
    <3>1. i \in 0 .. n - 1 /\ t[i] = s[i] /\ i < n
      BY <1>1, <1>6, <2>3
    <3>2. t[i] # ctx /\ t[i] \in Contexts /\ ~is_deleted[t[i]]
      BY <1>1, <1>3, <1>5, <3>1
    <3> QED BY <1>3, <2>1, <3>2
  <2> QED BY <2>2, <2>3
<1>9. TurnOrder' = Whole(t, n + 1)
  <2>1. \A i \in 0 .. fiber_count' - 1 : is_deleted'[t[i]] <=> i = n + 1
    BY <1>1, <1>3, <1>8
  <2>2. Ordered(list', heap', fiber_count', t) /\ n + 1 \in Nat
    BY <1>3, <1>4, <1>7
  <2>3. TurnOrder' = Skipping(t, fiber_count', n + 1)
    BY <2>1, <2>2 DEF TurnOrderIs
  <2>4. Skipping(t, n + 1, n + 1) = Whole(t, n + 1)
    <3>1. 0 \in 0 .. (n + 1) - 1
      BY <1>1
    <3>2. RingTurns(list', n + 1, t, 0)
      BY <1>4, <1>7, <3>1, WholeRing
    <3> QED BY <3>2 DEF RingTurns
  <2> QED BY <1>3, <2>3, <2>4
<1>10. Whole(t, n + 1) = Append(Whole(s, n), ctx)
  <2>1. Whole(s, n) = [j \in 1 .. n |-> s[j - 1]]
    BY DEF Whole
  <2>2. Append(Whole(s, n), ctx) = [j \in 1 .. n + 1 |-> IF j <= n THEN s[j - 1] ELSE ctx]
    BY <1>1, <2>1
  <2>3. \A j \in 1 .. n + 1 : t[j - 1] = IF j <= n THEN s[j - 1] ELSE ctx
    <3> TAKE j \in 1 .. n + 1
    <3>1. j - 1 \in 0 .. n /\ (j - 1 < n <=> j <= n)
      BY <1>1
    <3> QED BY <1>6, <3>1
  <2> QED BY <2>2, <2>3 DEF Whole
<1>11. ctx \notin {Whole(s, n)[j] : j \in DOMAIN Whole(s, n)}
  <2>1. DOMAIN Whole(s, n) = 1 .. n
    BY DEF Whole
  <2>2. \A j \in 1 .. n : Whole(s, n)[j] = s[j - 1] /\ j - 1 \in 0 .. n - 1
    BY <1>1 DEF Whole
  <2> QED BY <1>3, <1>5, <2>1, <2>2
<1>12. RR!Successor(Whole(t, n + 1), current) = current'
  <2>1. n - 1 \in 0 .. (n + 1) - 1 /\ n - 1 \in 0 .. n /\ n - 1 < n
    BY <1>1
  <2>2. t[n - 1] = current
    BY <1>3, <1>2, <1>6, <2>1 DEF Ordered
  <2>3. list'.next[list'.tail] = list'.head
    BY DEF IInv, ListInv
  <2>4. RingTurns(list', n + 1, t, n - 1)
    BY <1>4, <1>7, <2>1, WholeRing
  <2>5. RR!Successor(Whole(t, n + 1), t[n - 1]) = list'.next[t[n - 1]]
    BY <2>3, <2>4 DEF RingTurns
  <2> QED BY <1>3, <2>2, <2>5
<1>13. ctx \notin RR!ToSet(TurnOrder)
  BY <1>5, <1>11 DEF RR!ToSet
<1> QED BY <1>5, <1>9, <1>10, <1>12, <1>13 DEF RR!Start

\* uthread_yield: the turn passes on.
LEMMA YieldIsYield ==
    ASSUME TailStarts, IInv, TurnOrderIs, uthread_yield
    PROVE  RR!Yield
<1> DEFINE n == fiber_count
<1>1. /\ list \in Lists /\ heap \in SUBSET Contexts /\ Linked(list, heap)
      /\ n \in Nat \ {0} /\ current \in heap
  BY RingFacts DEF IInv, ListInv
<1>2. PICK s : Ordered(list, heap, n, s)
  BY RingFacts DEF IInv
<1>3. /\ pc = "client" /\ UNCHANGED <<heap, list, fiber_count, is_deleted>>
      /\ current' = list.next[current]
  BY DEF uthread_yield, SwitchFrom
<1>4. PICK p \in 0 .. n - 1 : s[p] = current
  BY <1>1, <1>2 DEF Ordered
<1>5. TurnOrder = Whole(s, n)
  BY <1>2, <1>3, OrderAtClient
<1>6. RR!Successor(Whole(s, n), current) = list.next[current]
  <2>1. RingTurns(list, n, s, p)
    BY <1>1, <1>2, WholeRing
  <2> QED BY <1>1, <1>4, <2>1 DEF RingTurns, Linked
<1>7. TurnOrder' = TurnOrder
  BY <1>3 DEF TurnOrder, Nth
<1> QED BY <1>3, <1>5, <1>6, <1>7 DEF RR!Yield

\* A fiber's function returns: it leaves the turn order, the turn passes on.
LEMMA ReturnIsFinish ==
    ASSUME TailStarts, IInv, IInv', TurnOrderIs, TurnOrderIs', FunctionReturns
    PROVE  RR!Finish
<1> DEFINE n == fiber_count
<1>1. /\ list \in Lists /\ heap \in SUBSET Contexts /\ Linked(list, heap)
      /\ n \in Nat \ {0} /\ current \in heap
  BY RingFacts DEF IInv, ListInv
<1>2. PICK s : Ordered(list, heap, n, s)
  BY RingFacts DEF IInv
<1>3. /\ pc = "client" /\ UNCHANGED <<heap, list, fiber_count>>
      /\ current # Initial /\ current' = list.next[current]
      /\ is_deleted' = [is_deleted EXCEPT ![current] = TRUE]
  BY DEF FunctionReturns, SwitchFrom
<1>4. PICK p \in 0 .. n - 1 : s[p] = current
  BY <1>1, <1>2 DEF Ordered
<1>5. TurnOrder = Whole(s, n) /\ \A i \in 0 .. n - 1 : ~is_deleted[s[i]]
  BY <1>2, <1>3, OrderAtClient
<1>6. /\ RR!Successor(Whole(s, n), current) = list.next[current]
      /\ RR!Position(Whole(s, n), current) = p + 1
      /\ Whole(s, n) \in Seq(Contexts) /\ Len(Whole(s, n)) = n
      /\ \A j \in 1 .. n : Whole(s, n)[j] = s[j - 1]
  <2>1. RingTurns(list, n, s, p)
    BY <1>1, <1>2, WholeRing
  <2> QED BY <1>1, <1>4, <2>1 DEF RingTurns, Linked
<1>7. \A i \in 0 .. n - 1 : is_deleted'[s[i]] <=> i = p
  <2> TAKE i \in 0 .. n - 1
  <2>1. is_deleted \in [Contexts -> BOOLEAN] /\ s[i] \in Contexts /\ current \in Contexts
    BY <1>1, <1>2 DEF IInv, TypeOK, Ordered
  <2>2. s[i] = current <=> i = p
    BY <1>2, <1>4 DEF Ordered
  <2> QED BY <1>3, <1>5, <2>1, <2>2
<1>8. TurnOrder' = Skipping(s, n, p)
  <2>1. Ordered(list', heap', fiber_count', s) /\ p \in Nat
    BY <1>2, <1>3
  <2>2. \A i \in 0 .. fiber_count' - 1 : is_deleted'[s[i]] <=> i = p
    BY <1>3, <1>7
  <2>3. TurnOrder' = Skipping(s, fiber_count', p)
    BY <2>1, <2>2 DEF TurnOrderIs
  <2> QED BY <1>3, <2>3
<1>9. Skipping(s, n, p) = RR!RemoveAt(Whole(s, n), p + 1)
  <2> DEFINE o == Whole(s, n)
             front == SubSeq(o, 1, (p + 1) - 1)
             back == SubSeq(o, (p + 1) + 1, Len(o))
  <2> HIDE DEF o
  <2>1. /\ front \in Seq(Contexts) /\ Len(front) = p
        /\ \A j \in 1 .. p : front[j] = o[j]
    BY <1>4, <1>6 DEF o
  <2>2. /\ back \in Seq(Contexts) /\ Len(back) = n - p - 1
        /\ \A j \in 1 .. n - p - 1 : back[j] = o[j + p + 1]
    BY <1>4, <1>6 DEF o
  <2>3. Skipping(s, n, p) = [j \in 1 .. n - 1 |-> IF j <= p THEN s[j - 1] ELSE s[j]]
    BY <1>1 DEF Skipping
  <2> HIDE DEF front, back
  <2>4. /\ front \o back \in Seq(Contexts) /\ Len(front \o back) = n - 1
        /\ \A j \in 1 .. n - 1 : (front \o back)[j] = IF j <= p THEN front[j] ELSE back[j - p]
    BY <1>1, <2>1, <2>2
  <2>5. ASSUME NEW j \in 1 .. n - 1
        PROVE  (front \o back)[j] = IF j <= p THEN s[j - 1] ELSE s[j]
    <3>1. CASE j <= p
      <4>1. j \in 1 .. p /\ j \in 1 .. n
        BY <1>1, <3>1
      <4> QED BY <1>6, <2>1, <2>4, <3>1, <4>1 DEF o
    <3>2. CASE ~(j <= p)
      <4>1. j - p \in 1 .. n - p - 1 /\ (j - p) + p + 1 = j + 1 /\ j + 1 \in 1 .. n /\ (j + 1) - 1 = j
        BY <1>1, <3>2
      <4>2. back[j - p] = o[j + 1] /\ o[j + 1] = s[j]
        BY <1>6, <2>2, <4>1 DEF o
      <4> QED BY <2>4, <3>2, <4>2
    <3> QED BY <3>1, <3>2
  <2>6. front \o back = [j \in 1 .. n - 1 |-> (front \o back)[j]]
    <3> DEFINE both == front \o back
    <3>1. both \in Seq(Contexts) /\ Len(both) = n - 1
      BY <2>4
    <3> HIDE DEF both
    <3>2. both = [j \in 1 .. n - 1 |-> both[j]]
      BY <3>1
    <3> QED BY <3>2 DEF both
  <2>7. front \o back = Skipping(s, n, p)
    BY <2>3, <2>5, <2>6
  <2> QED BY <2>7 DEF RR!RemoveAt, front, back, o
<1> QED BY <1>3, <1>5, <1>6, <1>8, <1>9 DEF RR!Finish

\* Reclaiming a finished context changes neither the turn order nor the turn.
LEMMA ResumeIsInvisible ==
    ASSUME TailStarts, IInv, IInv', TurnOrderIs, TurnOrderIs', YieldReturns
    PROVE  UNCHANGED <<TurnOrder, current>>
<1> DEFINE n == fiber_count
           previous == list.prev[current]
<1>1. /\ list \in Lists /\ heap \in SUBSET Contexts /\ Linked(list, heap)
      /\ n \in Nat \ {0}
  BY RingFacts DEF IInv
<1>2. PICK s : Ordered(list, heap, n, s)
  BY RingFacts DEF IInv
<1>3. current' = current /\ is_deleted' = is_deleted /\ pc = "switched" /\ ReclaimPrevious
  BY DEF YieldReturns
<1>4. CASE ~is_deleted[previous]
  <2>1. list' = list /\ fiber_count' = fiber_count
    BY <1>3, <1>4 DEF ReclaimPrevious
  <2>2. TurnOrder' = TurnOrder
    BY <1>3, <2>1 DEF TurnOrder, Nth
  <2> QED BY <1>3, <2>2
<1>5. CASE is_deleted[previous]
  <2>1. /\ list' = extract(list, previous)
        /\ heap' = heap \ {previous}
        /\ fiber_count' = n - 1
    BY <1>3, <1>5 DEF ReclaimPrevious
  <2>2. previous \in heap /\ previous # Initial
    BY <1>5, PreviousFacts
  <2>3. PICK k \in 0 .. n - 1 : s[k] = previous
    BY <1>2, <2>2 DEF Ordered
  <2> DEFINE t == Shorter(s, n, k)
  <2> HIDE DEF previous
  <2>4. n > 1 /\ k # 0 /\ Ordered(list', heap', n - 1, t)
    BY <1>1, <1>2, <2>1, <2>2, <2>3, ExtractRing
  <2>5. \A i \in 0 .. n - 1 : is_deleted[s[i]] <=> i = k
    <3> TAKE i \in 0 .. n - 1
    <3>1. s[i] \in heap /\ (s[i] = previous <=> i = k)
      BY <1>2, <2>3 DEF Ordered
    <3>2. is_deleted[s[i]] => s[i] = previous
      BY <1>3, <3>1 DEF IInv, HandoverInv, previous
    <3> QED BY <1>5, <3>1, <3>2 DEF previous
  <2>6. TurnOrder = Skipping(s, n, k)
    BY <1>2, <2>5 DEF TurnOrderIs
  <2>7. \A i \in 0 .. n - 2 : t[i] = IF i < k THEN s[i] ELSE s[i + 1]
    BY DEF Shorter
  <2> HIDE DEF t
  <2>8. \A i \in 0 .. n - 2 : ~is_deleted[t[i]]
    <3> TAKE i \in 0 .. n - 2
    <3>1. CASE i < k
      <4>1. i \in 0 .. n - 1 /\ i # k
        BY <1>1, <3>1
      <4> QED BY <2>5, <2>7, <3>1, <4>1
    <3>2. CASE ~(i < k)
      <4>1. i + 1 \in 0 .. n - 1 /\ i + 1 # k
        BY <1>1, <3>2
      <4> QED BY <2>5, <2>7, <3>2, <4>1
    <3> QED BY <3>1, <3>2
  <2>9. TurnOrder' = Skipping(t, n - 1, n - 1)
    <3>1. Ordered(list', heap', fiber_count', t) /\ n - 1 \in Nat /\ (n - 1) - 1 = n - 2
      BY <1>1, <2>1, <2>4
    <3>2. \A i \in 0 .. fiber_count' - 1 : is_deleted'[t[i]] <=> i = n - 1
      BY <1>1, <1>3, <2>1, <2>8, <3>1
    <3>3. TurnOrder' = Skipping(t, fiber_count', n - 1)
      BY <3>1, <3>2 DEF TurnOrderIs
    <3> QED BY <2>1, <3>3
  <2>10. Skipping(t, n - 1, n - 1) = [j \in 1 .. n - 1 |-> IF j <= n - 1 THEN t[j - 1] ELSE t[j]]
    BY <1>1, <2>4 DEF Skipping
  <2>11. Skipping(s, n, k) = [j \in 1 .. n - 1 |-> IF j <= k THEN s[j - 1] ELSE s[j]]
    BY <1>1, <2>4 DEF Skipping
  <2>12. ASSUME NEW j \in 1 .. n - 1
         PROVE  (IF j <= n - 1 THEN t[j - 1] ELSE t[j]) = (IF j <= k THEN s[j - 1] ELSE s[j])
    <3>1. j <= n - 1 /\ j - 1 \in 0 .. n - 2 /\ (j - 1 < k <=> j <= k) /\ (j - 1) + 1 = j
      BY <1>1
    <3> QED BY <2>7, <3>1
  <2> QED BY <1>3, <2>6, <2>9, <2>10, <2>11, <2>12
<1> QED BY <1>4, <1>5

\* Every step is a step of RoundRobin or leaves the order of the turns alone.
LEMMA RoundRobinStep ==
    ASSUME TailStarts, IInv, IInv', TurnOrderIs, TurnOrderIs', [Next]_vars
    PROVE  [RR!Next]_<<TurnOrder, current>>
<1>1. ASSUME NEW ctx \in Contexts, uthread_start(ctx) PROVE RR!Next
  BY <1>1, StartIsStart DEF RR!Next
<1>2. CASE uthread_yield
  BY <1>2, YieldIsYield DEF RR!Next
<1>3. CASE FunctionReturns
  BY <1>3, ReturnIsFinish DEF RR!Next
<1>4. CASE YieldReturns
  BY <1>4, ResumeIsInvisible
<1>5. CASE StartFails \/ MainReturns \/ uthread_handle \/ UNCHANGED vars
  <2>1. UNCHANGED <<list, is_deleted, fiber_count, current>>
    BY <1>5 DEF StartFails, MainReturns, uthread_handle, vars
  <2>2. TurnOrder' = TurnOrder
    BY <2>1 DEF TurnOrder, Nth
  <2> QED BY <2>1, <2>2
<1> QED BY <1>1, <1>2, <1>3, <1>4, <1>5 DEF Next

(***************************************************************************)
(* If fibers are only ever started by the tail fiber, the library is a     *)
(* round robin over the unfinished fibers, in the order they were started. *)
(***************************************************************************)
THEOREM Refinement == TailStarts => (Spec => RefinesRoundRobin)
<1> SUFFICES ASSUME TailStarts PROVE Spec => RefinesRoundRobin
  OBVIOUS
<1>1. Init => RR!Init
  <2> SUFFICES ASSUME Init PROVE RR!Init
    OBVIOUS
  <2>1. IInv /\ TurnOrderIs
    BY InitInv, TurnOrderOfRing
  <2>2. fiber_count = 1 /\ pc = "client" /\ current = Initial
    BY DEF Init
  <2>3. PICK s : Ordered(list, heap, fiber_count, s)
    BY <2>1, RingFacts DEF IInv
  <2>4. TurnOrder = Whole(s, 1)
    BY <2>1, <2>2, <2>3, OrderAtClient
  <2>5. s[0] = Initial
    BY <2>3 DEF Ordered, Init
  <2>6. Whole(s, 1) = <<Initial>>
    BY <2>5 DEF Whole
  <2> QED BY <2>2, <2>4, <2>6 DEF RR!Init
<1>2. IInv /\ IInv' /\ TurnOrderIs /\ TurnOrderIs' /\ [Next]_vars
         => [RR!Next]_<<TurnOrder, current>>
  BY RoundRobinStep
<1>3. IInv => TurnOrderIs
  BY TurnOrderOfRing
<1> QED BY <1>1, <1>2, <1>3, Inductive, PTL DEF Spec, RefinesRoundRobin, RR!Spec
----------------------------------------------------------------------------
(* How long a fiber waits for its turn.                                    *)

\* A saved stack is never taken for a running one.
FramesInv ==
    pc \in {"client", "switched"} =>
        \A c \in heap : c # current \/ pc = "switched" => frame[c] # "running"

\* How far a context is in the ring behind the current one.
Index(c) == CHOOSE i \in 0 .. fiber_count - 1 : Nth[i] = c

Distance ==
    [c \in Contexts |-> IF Index(current) <= Index(c)
                        THEN Index(c) - Index(current)
                        ELSE Index(c) - Index(current) + fiber_count]

\* The addresses no unfinished fiber has.
Idle == Cardinality(Contexts \ Unfinished)

\* A bound on the steps until c has the processor.
Waiting ==
    [c \in Contexts |-> 4 * Distance[c] + 2 * Idle + IF pc = "switched" THEN 1 ELSE 0]

\* From the p-th to the q-th of n in a ring.
Ahead(p, q, n) == IF p <= q THEN q - p ELSE q - p + n

DistancesAre ==
    \A s : \A p, q \in 0 .. fiber_count - 1 :
        Ordered(list, heap, fiber_count, s) /\ s[p] = current
            => Distance[s[q]] = Ahead(p, q, fiber_count)

LEMMA DistancesOfRing == IInv => DistancesAre
<1> SUFFICES ASSUME IInv, NEW s, NEW p \in 0 .. fiber_count - 1, NEW q \in 0 .. fiber_count - 1,
                    Ordered(list, heap, fiber_count, s), s[p] = current
             PROVE  Distance[s[q]] = Ahead(p, q, fiber_count)
  BY DEF DistancesAre
<1>1. \A i \in 0 .. fiber_count - 1 : Nth[i] = s[i]
  BY NthInRing
<1>2. \A i \in 0 .. fiber_count - 1 : Index(s[i]) = i
  BY <1>1 DEF Index, Ordered
<1>3. s[q] \in Contexts
  BY RingFacts DEF IInv, Ordered
<1> QED BY <1>2, <1>3 DEF Distance, Ahead

\* Who is linked after the p-th.
NextIs(l, n, s, p) == l.next[s[p]] = IF p = n - 1 THEN s[0] ELSE s[p + 1]

LEMMA NextInRing ==
    ASSUME NEW l, NEW H, NEW n \in Nat \ {0}, NEW s, Ordered(l, H, n, s),
           l.next[l.tail] = l.head, NEW p \in 0 .. n - 1
    PROVE  NextIs(l, n, s, p)
<1> SUFFICES l.next[s[p]] = IF p = n - 1 THEN s[0] ELSE s[p + 1]
  BY DEF NextIs
<1>1. CASE p = n - 1
  BY <1>1 DEF Ordered
<1>2. CASE p # n - 1
  <2>1. p + 1 \in 1 .. n - 1 /\ (p + 1) - 1 = p
    BY <1>2
  <2>2. l.next[s[(p + 1) - 1]] = s[p + 1]
    BY <2>1 DEF Ordered
  <2> QED BY <1>2, <2>1, <2>2
<1> QED BY <1>1, <1>2

\* Where the current context and another are in the ring.
LEMMA TwoInRing ==
    ASSUME IInv, DistancesAre, NEW c \in heap, c # current
    PROVE  \E s : \E p, q \in 0 .. fiber_count - 1 :
              /\ Ordered(list, heap, fiber_count, s)
              /\ s[p] = current /\ s[q] = c /\ p # q
              /\ Distance[c] = Ahead(p, q, fiber_count)
<1>1. current \in heap
  BY DEF IInv, ListInv
<1>2. PICK s : Ordered(list, heap, fiber_count, s)
  BY RingFacts DEF IInv
<1>3. PICK p \in 0 .. fiber_count - 1 : s[p] = current
  BY <1>1, <1>2 DEF Ordered
<1>4. PICK q \in 0 .. fiber_count - 1 : s[q] = c
  BY <1>2 DEF Ordered
<1>5. Distance[c] = Ahead(p, q, fiber_count)
  BY <1>2, <1>3, <1>4 DEF DistancesAre
<1> QED BY <1>2, <1>3, <1>4, <1>5

LEMMA AheadIs ==
    ASSUME NEW n \in Nat \ {0}, NEW p \in 0 .. n - 1, NEW q \in 0 .. n - 1, p # q
    PROVE  /\ Ahead(p, q, n) \in 1 .. n - 1
           /\ Ahead(IF p = n - 1 THEN 0 ELSE p + 1, q, n) = Ahead(p, q, n) - 1
           /\ Ahead(p + 1, q, n + 1) <= Ahead(p, q, n) /\ Ahead(p + 1, q, n + 1) \in 0 .. n
BY DEF Ahead

\* A turn brings every other context one nearer.
LEMMA TurnPasses ==
    ASSUME IInv, DistancesAre, DistancesAre', UNCHANGED <<list, heap, fiber_count>>,
           current' = list.next[current], NEW c \in heap, c # current
    PROVE  Distance[c] \in Nat \ {0} /\ Distance'[c] = Distance[c] - 1
<1> DEFINE n == fiber_count
<1>1. n \in Nat \ {0} /\ list.next[list.tail] = list.head
  BY RingFacts DEF IInv, ListInv
<1>2. PICK s : \E p, q \in 0 .. n - 1 :
              /\ Ordered(list, heap, n, s) /\ s[p] = current /\ s[q] = c /\ p # q
              /\ Distance[c] = Ahead(p, q, n)
  BY TwoInRing
<1>3. PICK p \in 0 .. n - 1, q \in 0 .. n - 1 :
              /\ Ordered(list, heap, n, s) /\ s[p] = current /\ s[q] = c /\ p # q
              /\ Distance[c] = Ahead(p, q, n)
  BY <1>2
<1> DEFINE r == IF p = n - 1 THEN 0 ELSE p + 1
<1>4. r \in 0 .. n - 1 /\ s[r] = current'
  <2>1. NextIs(list, n, s, p)
    BY <1>1, <1>3, NextInRing
  <2> QED BY <1>1, <1>3, <2>1 DEF NextIs
<1>5. Distance'[c] = Ahead(r, q, n)
  <2> HIDE DEF r
  <2>1. Ordered(list', heap', fiber_count', s) /\ r \in 0 .. fiber_count' - 1 /\ q \in 0 .. fiber_count' - 1
    BY <1>3, <1>4
  <2>2. Distance'[s[q]] = Ahead(r, q, fiber_count')
    BY <1>4, <2>1 DEF DistancesAre
  <2> QED BY <1>3, <2>2
<1>6. Ahead(p, q, n) \in 1 .. n - 1 /\ Ahead(r, q, n) = Ahead(p, q, n) - 1
  BY <1>1, <1>3, AheadIs
<1> QED BY <1>3, <1>5, <1>6

\* A new fiber comes last in the ring: nobody gets farther.
LEMMA NobodyFarther ==
    ASSUME IInv, DistancesAre, DistancesAre', NEW ctx \in Contexts, uthread_start(ctx),
           NEW c \in heap, c # current
    PROVE  Distance[c] \in Nat /\ Distance'[c] \in Nat /\ Distance'[c] <= Distance[c]
<1> DEFINE n == fiber_count
           m == insert(list, ctx)
<1>1. /\ list \in Lists /\ heap \in SUBSET Contexts /\ Linked(list, heap) /\ n \in Nat \ {0}
  BY RingFacts DEF IInv
<1>2. /\ ctx \in Contexts \ heap /\ list' = m /\ heap' = heap \cup {ctx}
      /\ fiber_count' = n + 1 /\ current' = m.next[current]
  BY DEF uthread_start, MayStart
<1>3. PICK s : \E p, q \in 0 .. n - 1 :
              /\ Ordered(list, heap, n, s) /\ s[p] = current /\ s[q] = c /\ p # q
              /\ Distance[c] = Ahead(p, q, n)
  BY TwoInRing
<1>4. PICK p \in 0 .. n - 1, q \in 0 .. n - 1 :
              /\ Ordered(list, heap, n, s) /\ s[p] = current /\ s[q] = c /\ p # q
              /\ Distance[c] = Ahead(p, q, n)
  BY <1>3
<1> DEFINE t == Longer(s, n, ctx)
<1>5. Ordered(m, heap \cup {ctx}, n + 1, t) /\ Linked(m, heap \cup {ctx})
  BY <1>1, <1>2, <1>4, InsertRing, InsertList
<1>6. t[p] = current /\ t[q] = c /\ \A i \in 0 .. n : i \in Int
  BY <1>1, <1>4 DEF Longer
<1> HIDE DEF m, t
<1>7. n + 1 \in Nat \ {0} /\ p \in 0 .. (n + 1) - 1 /\ q \in 0 .. (n + 1) - 1 /\ p # (n + 1) - 1
      /\ p + 1 \in 0 .. (n + 1) - 1
  BY <1>1
<1>8. m.next[t[p]] = t[p + 1]
  <2>1. NextIs(m, n + 1, t, p)
    BY <1>5, <1>7, NextInRing DEF Linked
  <2> QED BY <1>7, <2>1 DEF NextIs
<1>9. Distance'[c] = Ahead(p + 1, q, n + 1)
  <2>1. /\ Ordered(list', heap', fiber_count', t) /\ t[p + 1] = current'
        /\ p + 1 \in 0 .. fiber_count' - 1 /\ q \in 0 .. fiber_count' - 1
    BY <1>2, <1>5, <1>6, <1>7, <1>8
  <2>2. Distance'[t[q]] = Ahead(p + 1, q, fiber_count')
    BY <2>1 DEF DistancesAre
  <2> QED BY <1>2, <1>6, <2>2
<1>10. /\ Ahead(p, q, n) \in 1 .. n - 1
       /\ Ahead(p + 1, q, n + 1) <= Ahead(p, q, n) /\ Ahead(p + 1, q, n + 1) \in 0 .. n
  BY <1>1, <1>4, AheadIs
<1> QED BY <1>1, <1>4, <1>9, <1>10

LEMMA AheadWithout ==
    ASSUME NEW n \in Nat \ {0}, NEW p \in 0 .. n - 1, NEW q \in 0 .. n - 1, NEW k \in 0 .. n - 1,
           p # q, q # k, k = (IF p = 0 THEN n - 1 ELSE p - 1), k # 0, n > 1
    PROVE  LET x == IF p < k THEN p ELSE p - 1
               y == IF q < k THEN q ELSE q - 1
           IN  x \in 0 .. n - 2 /\ y \in 0 .. n - 2 /\ Ahead(x, y, n - 1) = Ahead(p, q, n)
BY DEF Ahead

\* What is reclaimed is the context farthest away.
LEMMA ReclaimedIsLast ==
    ASSUME IInv, DistancesAre, DistancesAre', YieldReturns,
           NEW c \in heap, c # current, ~is_deleted[c]
    PROVE  Distance[c] \in Nat /\ Distance'[c] = Distance[c]
<1> DEFINE n == fiber_count
           previous == list.prev[current]
<1>1. /\ list \in Lists /\ heap \in SUBSET Contexts /\ Linked(list, heap) /\ n \in Nat \ {0}
      /\ current \in heap
  BY RingFacts DEF IInv, ListInv
<1>2. current' = current /\ ReclaimPrevious
  BY DEF YieldReturns
<1>3. PICK s : \E p, q \in 0 .. n - 1 :
              /\ Ordered(list, heap, n, s) /\ s[p] = current /\ s[q] = c /\ p # q
              /\ Distance[c] = Ahead(p, q, n)
  BY TwoInRing
<1>4. PICK p \in 0 .. n - 1, q \in 0 .. n - 1 :
              /\ Ordered(list, heap, n, s) /\ s[p] = current /\ s[q] = c /\ p # q
              /\ Distance[c] = Ahead(p, q, n)
  BY <1>3
<1>5. Distance[c] \in Nat
  BY <1>1, <1>4, AheadIs
<1>6. CASE ~is_deleted[previous]
  <2>1. list' = list /\ fiber_count' = n /\ heap' = heap
    BY <1>2, <1>6 DEF ReclaimPrevious
  <2>2. Distance'[s[q]] = Ahead(p, q, fiber_count')
    BY <1>2, <1>4, <2>1 DEF DistancesAre
  <2> QED BY <1>4, <1>5, <2>1, <2>2
<1>7. CASE is_deleted[previous]
  <2>1. list' = extract(list, previous) /\ heap' = heap \ {previous} /\ fiber_count' = n - 1
    BY <1>2, <1>7 DEF ReclaimPrevious
  <2>2. previous \in heap /\ previous # Initial
    BY <1>7, PreviousFacts
  <2> DEFINE k == IF p = 0 THEN n - 1 ELSE p - 1
  <2>3. k \in 0 .. n - 1 /\ s[k] = previous
    <3>1. k \in 0 .. n - 1
      BY <1>1
    <3>2. list.next[s[k]] = s[p]
      <4>1. k = n - 1 => p = 0
        BY <1>1
      <4>2. k # n - 1 => k + 1 = p
        BY <1>1
      <4>3. list.next[s[k]] = IF k = n - 1 THEN s[0] ELSE s[k + 1]
        <5> HIDE DEF k
        <5>1. list.next[list.tail] = list.head
          BY <1>1 DEF Linked
        <5>2. NextIs(list, n, s, k)
          BY <1>1, <1>4, <3>1, <5>1, NextInRing
        <5> QED BY <5>2 DEF NextIs
      <4> HIDE DEF k
      <4> QED BY <4>1, <4>2, <4>3
    <3> HIDE DEF k
    <3>3. s[k] \in heap
      BY <1>4, <3>1 DEF Ordered
    <3>4. list.prev[list.next[s[k]]] = s[k]
      BY <1>1, <3>3 DEF Linked
    <3> QED BY <1>4, <3>1, <3>2, <3>4
  <2> HIDE DEF k, previous
  <2> DEFINE t == Shorter(s, n, k)
             x == IF p < k THEN p ELSE p - 1
             y == IF q < k THEN q ELSE q - 1
  <2>4. n > 1 /\ k # 0 /\ Ordered(list', heap', n - 1, t)
    BY <1>1, <1>4, <2>1, <2>2, <2>3, ExtractRing
  <2>5. c # previous /\ current # previous
    BY <1>7, PreviousFacts DEF previous
  <2>6. q # k /\ p # k
    BY <1>4, <2>3, <2>5
  <2>7. x \in 0 .. n - 2 /\ y \in 0 .. n - 2 /\ Ahead(x, y, n - 1) = Ahead(p, q, n)
    BY <1>1, <1>4, <2>3, <2>4, <2>6, AheadWithout DEF k
  <2>8. t[x] = current /\ t[y] = c
    <3>1. \A i \in 0 .. n - 2 : t[i] = IF i < k THEN s[i] ELSE s[i + 1]
      BY DEF Shorter
    <3>2. ASSUME NEW j \in 0 .. n - 1, j # k
          PROVE  LET z == IF j < k THEN j ELSE j - 1
                 IN  z \in 0 .. n - 2 => t[z] = s[j]
      <4> HIDE DEF t
      <4>1. CASE j < k
        BY <3>1, <4>1
      <4>2. CASE ~(j < k)
        <5>1. ~(j - 1 < k) /\ (j - 1) + 1 = j
          BY <1>1, <2>3, <3>2, <4>2
        <5> QED BY <3>1, <4>2, <5>1
      <4> QED BY <4>1, <4>2
    <3> HIDE DEF t
    <3> QED BY <1>4, <2>6, <2>7, <3>2
  <2> HIDE DEF t, x, y
  <2>9. Distance'[t[y]] = Ahead(x, y, fiber_count')
    <3>1. x \in 0 .. fiber_count' - 1 /\ y \in 0 .. fiber_count' - 1
      BY <1>1, <2>1, <2>7
    <3>2. Ordered(list', heap', fiber_count', t) /\ t[x] = current'
      BY <1>2, <2>1, <2>4, <2>8
    <3> QED BY <3>1, <3>2 DEF DistancesAre
  <2> QED BY <1>4, <1>5, <2>1, <2>7, <2>8, <2>9
<1> QED BY <1>6, <1>7

\* After a step, the fiber c that waits for its turn is nearer to it, or has it,
\* or the process has stopped.
ComesNearer(c) ==
    \/ Stopped'
    \/ current' = c
    \/ c \in Unfinished' /\ Waiting'[c] < Waiting[c]

\* Fewer steps are left.
LEMMA FewerLeft ==
    ASSUME NEW d \in Nat, NEW e \in Nat, NEW a \in Nat, NEW b \in Nat, NEW m \in {0, 1}, NEW l \in {0, 1},
           \/ e = d /\ b = a /\ m = 1 /\ l = 0
           \/ e = d - 1 /\ b <= a + 1 /\ m = 0
           \/ e <= d /\ b = a - 1 /\ m = 0
    PROVE  4 * e + 2 * b + l < 4 * d + 2 * a + m
OBVIOUS

\* Every step brings the turn of an unfinished fiber nearer.
LEMMA StepComesNearer ==
    ASSUME IInv, IInv', DistancesAre, DistancesAre', Next, NEW c \in Unfinished, c # current
    PROVE  ComesNearer(c)
<1> DEFINE bit == IF pc = "switched" THEN 1 ELSE 0
<1>1. /\ c \in heap /\ ~is_deleted[c] /\ c \in Contexts
      /\ heap \in SUBSET Contexts /\ is_deleted \in [Contexts -> BOOLEAN]
  BY DEF Unfinished, IInv, TypeOK
<1>2. Idle \in Nat /\ Idle' \in Nat /\ IsFiniteSet(Contexts \ Unfinished)
  <2>1. IsFiniteSet(Contexts \ Unfinished') /\ IsFiniteSet(Contexts \ Unfinished)
    BY ContextsAssumption, FS_Subset
  <2> QED BY <2>1, FS_CardinalityType DEF Idle
<1>3. /\ Waiting[c] = 4 * Distance[c] + 2 * Idle + bit
      /\ Waiting'[c] = 4 * Distance'[c] + 2 * Idle' + bit'
  BY <1>1 DEF Waiting
<1>4. ASSUME NEW ctx \in Contexts, uthread_start(ctx) PROVE ComesNearer(c)
  <2>1. /\ ctx \notin heap /\ heap' = heap \cup {ctx} /\ pc = "client" /\ pc' = "switched"
        /\ is_deleted' = [is_deleted EXCEPT ![ctx] = FALSE]
    BY <1>4 DEF uthread_start, MayStart
  <2>2. Unfinished' = Unfinished \cup {ctx} /\ ctx \notin Unfinished
    BY <1>1, <1>4, <2>1 DEF Unfinished
  <2>3. Idle' = Idle - 1
    <3> DEFINE S == Contexts \ Unfinished
    <3>1. Contexts \ Unfinished' = S \ {ctx} /\ ctx \in S
      BY <2>2
    <3> HIDE DEF S
    <3>2. Cardinality(S \ {ctx}) = Cardinality(S) - 1
      BY <1>2, <3>1, FS_RemoveElement DEF S
    <3> QED BY <3>1, <3>2 DEF Idle, S
  <2>4. Distance[c] \in Nat /\ Distance'[c] \in Nat /\ Distance'[c] <= Distance[c]
    BY <1>1, <1>4, NobodyFarther
  <2>5. Waiting'[c] < Waiting[c]
    BY <1>2, <1>3, <2>1, <2>3, <2>4, FewerLeft
  <2> QED BY <2>2, <2>5 DEF ComesNearer
<1>5. CASE StartFails \/ MainReturns
  BY <1>5 DEF StartFails, MainReturns, ComesNearer, Stopped
<1>6. CASE uthread_yield \/ FunctionReturns
  <2>1. /\ UNCHANGED <<list, heap, fiber_count>> /\ current' = list.next[current]
        /\ pc = "client" /\ pc' = "switched"
        /\ is_deleted' \in {is_deleted, [is_deleted EXCEPT ![current] = TRUE]}
    BY <1>6 DEF uthread_yield, FunctionReturns, SwitchFrom
  <2>2. Distance[c] \in Nat \ {0} /\ Distance'[c] = Distance[c] - 1
    BY <1>1, <2>1, TurnPasses
  <2>3. c \in Unfinished' /\ Unfinished' \in {Unfinished, Unfinished \ {current}}
    BY <1>1, <2>1 DEF Unfinished, IInv, TypeOK
  <2>4. Idle' <= Idle + 1
    <3>1. CASE Unfinished' = Unfinished
      BY <1>2, <3>1 DEF Idle
    <3>2. CASE Unfinished' = Unfinished \ {current}
      <4> DEFINE S == Contexts \ Unfinished
      <4>1. Contexts \ Unfinished' = S \cup {current}
        BY <3>2 DEF IInv, TypeOK
      <4> HIDE DEF S
      <4>2. Cardinality(S \cup {current}) = IF current \in S THEN Cardinality(S) ELSE Cardinality(S) + 1
        BY <1>2, FS_AddElement DEF S
      <4>3. Idle' = Cardinality(S \cup {current}) /\ Idle = Cardinality(S)
        BY <4>1 DEF Idle, S
      <4> QED BY <1>2, <4>2, <4>3
    <3> QED BY <2>3, <3>1, <3>2
  <2>5. Distance'[c] \in Nat
    BY <2>2
  <2>6. Waiting'[c] < Waiting[c]
    BY <1>2, <1>3, <2>1, <2>2, <2>4, <2>5, FewerLeft
  <2> QED BY <2>3, <2>6 DEF ComesNearer
<1>7. CASE uthread_handle
  <2>1. UNCHANGED <<heap, list, is_deleted, current, fiber_count>> /\ pc = "switched" /\ pc' = "client"
    BY <1>7 DEF uthread_handle
  <2>2. Unfinished' = Unfinished /\ Idle' = Idle
    BY <2>1 DEF Unfinished, Idle
  <2>3. Distance' = Distance
    BY <2>1 DEF Distance, Index, Nth
  <2>4. Distance[c] \in Nat
    <3>1. fiber_count \in Nat \ {0}
      BY RingFacts DEF IInv
    <3>2. \E s : \E p, q \in 0 .. fiber_count - 1 : p # q /\ Distance[c] = Ahead(p, q, fiber_count)
      BY <1>1, TwoInRing
    <3> QED BY <3>1, <3>2, AheadIs
  <2>5. Waiting'[c] < Waiting[c]
    BY <1>2, <1>3, <2>1, <2>2, <2>3, <2>4, FewerLeft
  <2> QED BY <2>2, <2>5 DEF ComesNearer
<1>8. CASE YieldReturns
  <2>1. /\ is_deleted' = is_deleted /\ pc = "switched" /\ pc' \in {"client", "wild"}
        /\ heap' \subseteq heap /\ \A d \in heap : ~is_deleted[d] => d \in heap'
    BY <1>8 DEF YieldReturns, ReclaimPrevious
  <2>2. Unfinished' = Unfinished /\ Idle' = Idle
    BY <2>1 DEF Unfinished, Idle
  <2>3. Distance[c] \in Nat /\ Distance'[c] = Distance[c]
    BY <1>1, <1>8, ReclaimedIsLast
  <2>4. Waiting'[c] < Waiting[c]
    BY <1>2, <1>3, <2>1, <2>2, <2>3, FewerLeft
  <2> QED BY <2>2, <2>4 DEF ComesNearer
<1> QED BY <1>4, <1>5, <1>6, <1>7, <1>8 DEF Next

\* At most so many.
LEMMA AtMostSixEach ==
    ASSUME NEW K \in Nat, NEW n \in Nat, n <= K, NEW d \in 0 .. n - 1, NEW a \in 0 .. K, NEW l \in {0, 1}
    PROVE  4 * d + 2 * a + l \in 0 .. 6 * K
OBVIOUS

LEMMA WaitingBounded ==
    ASSUME IInv, DistancesAre, NEW c \in heap
    PROVE  Waiting[c] \in 0 .. 6 * Cardinality(Contexts)
<1> DEFINE K == Cardinality(Contexts)
           n == fiber_count
           l == IF pc = "switched" THEN 1 ELSE 0
<1>1. heap \in SUBSET Contexts /\ n \in Nat \ {0} /\ n = Cardinality(heap) /\ current \in heap
  BY RingFacts DEF IInv, CountExact, ListInv
<1>2. K \in Nat /\ n <= K
  BY <1>1, ContextsAssumption, FS_CardinalityType, FS_Subset
<1>3. Idle \in 0 .. K
  <2>1. Contexts \ Unfinished \in SUBSET Contexts
    OBVIOUS
  <2>2. Idle \in Nat /\ Idle <= K
    BY <2>1, ContextsAssumption, FS_CardinalityType, FS_Subset DEF Idle
  <2> HIDE DEF K
  <2> QED BY <1>2, <2>2
<1>4. Distance[c] \in 0 .. n - 1
  <2>1. CASE c = current
    <3>1. PICK s : Ordered(list, heap, n, s)
      BY RingFacts DEF IInv
    <3>2. PICK p \in 0 .. n - 1 : s[p] = current
      BY <1>1, <3>1 DEF Ordered
    <3>3. Distance[s[p]] = Ahead(p, p, n)
      BY <3>1, <3>2 DEF DistancesAre
    <3>4. Ahead(p, p, n) = 0
      BY <1>1 DEF Ahead
    <3> QED BY <1>1, <2>1, <3>2, <3>3, <3>4
  <2>2. CASE c # current
    <3>1. \E s : \E p, q \in 0 .. n - 1 : p # q /\ Distance[c] = Ahead(p, q, n)
      BY <2>2, TwoInRing
    <3> QED BY <1>1, <3>1, AheadIs
  <2> QED BY <2>1, <2>2
<1>5. Waiting[c] = 4 * Distance[c] + 2 * Idle + l
  BY <1>1 DEF Waiting
<1> HIDE DEF K, n
<1>6. l \in {0, 1} /\ n \in Nat
  BY <1>1
<1> HIDE DEF l
<1>7. Waiting[c] \in 0 .. 6 * K
  BY <1>2, <1>3, <1>4, <1>5, <1>6, AtMostSixEach
<1> QED BY <1>7 DEF K

(***************************************************************************)
(* No fiber starves, from wherever fibers are started: Waiting is never    *)
(* more than six for each address, and as long as the process has not      *)
(* stopped every step of whoever has the processor brings the turn of each *)
(* unfinished fiber nearer, also a step that starts one fiber more.  With  *)
(* the fairness of Spec, EveryFiberRuns follows.                           *)
(***************************************************************************)
THEOREM EveryTurnComesNearer ==
    Spec => /\ [](\A c \in Unfinished : Waiting[c] \in 0 .. 6 * Cardinality(Contexts))
            /\ [][\A c \in Unfinished : c # current => ComesNearer(c)]_vars
<1>1. IInv /\ DistancesAre => \A c \in Unfinished : Waiting[c] \in 0 .. 6 * Cardinality(Contexts)
  BY WaitingBounded DEF Unfinished
<1>2. IInv /\ IInv' /\ DistancesAre /\ DistancesAre' /\ [Next]_vars
         => [\A c \in Unfinished : c # current => ComesNearer(c)]_vars
  BY StepComesNearer
<1> QED BY <1>1, <1>2, DistancesOfRing, Inductive, PTL DEF Spec

LEMMA FramesStep == IInv /\ FramesInv /\ [Next]_vars => FramesInv'
<1> SUFFICES ASSUME IInv, FramesInv, [Next]_vars PROVE FramesInv'
  OBVIOUS
<1>1. /\ frame \in [Contexts -> Frames] /\ heap \in SUBSET Contexts /\ current \in heap
  BY DEF IInv, TypeOK, ListInv
<1>2. ASSUME NEW ctx \in Contexts, uthread_start(ctx) PROVE FramesInv'
  BY <1>1, <1>2 DEF uthread_start, MayStart, FramesInv
<1>3. CASE uthread_yield \/ FunctionReturns
  BY <1>1, <1>3 DEF uthread_yield, FunctionReturns, SwitchFrom, FramesInv
<1>4. CASE uthread_handle \/ YieldReturns
  <2>1. /\ frame' = [frame EXCEPT ![current] = "running"] /\ current' = current /\ heap' \subseteq heap
        /\ pc = "switched" /\ pc' # "switched"
    BY <1>4 DEF uthread_handle, YieldReturns, ReclaimPrevious
  <2> QED BY <1>1, <2>1 DEF FramesInv
<1>5. CASE StartFails \/ MainReturns \/ UNCHANGED vars
  BY <1>5 DEF StartFails, MainReturns, FramesInv, vars
<1> QED BY <1>2, <1>3, <1>4, <1>5 DEF Next

(***************************************************************************)
(* The processor always has something to run: the stack that was switched  *)
(* to was saved by a yield or prepared by a start, and client code can     *)
(* always yield.                                                           *)
(***************************************************************************)
THEOREM AlwaysSomethingToRun ==
    Spec => [](\/ Stopped \/ pc = "client"
               \/ pc = "switched" /\ frame[current] \in {"prepared", "in_yield", "in_handle"})
<1>1. Init => FramesInv
  BY DEF Init, FramesInv
<1>2. IInv /\ FramesInv =>
         (\/ Stopped \/ pc = "client"
          \/ pc = "switched" /\ frame[current] \in {"prepared", "in_yield", "in_handle"})
  BY DEF IInv, TypeOK, Frames, Places, Stopped, FramesInv, ListInv
<1> QED BY <1>1, <1>2, FramesStep, Inductive, PTL DEF Spec

(***************************************************************************)
(* When fibers are started from the tail only, a finished context is freed *)
(* by the very next step of the library: its memory is never reached again *)
(* and never leaks.                                                        *)
(***************************************************************************)
THEOREM FreedAtOnce ==
    TailStarts => (Spec => [][\A c \in heap : is_deleted[c] => c \notin heap']_vars)
<1> SUFFICES ASSUME TailStarts
             PROVE  Spec => [][\A c \in heap : is_deleted[c] => c \notin heap']_vars
  OBVIOUS
<1>1. ASSUME IInv, Next, NEW c \in heap, is_deleted[c] PROVE c \notin heap'
  <2>1. pc # "client"
    BY <1>1 DEF IInv, HandoverInv
  <2>2. uthread_handle \/ YieldReturns
    BY <1>1, <2>1 DEF Next, uthread_start, MayStart, StartFails, uthread_yield, FunctionReturns, MainReturns
  <2>3. c = list.prev[current] /\ frame[current] = "in_yield"
    BY <1>1, <2>2 DEF IInv, HandoverInv, uthread_handle, YieldReturns
  <2>4. YieldReturns
    BY <2>2, <2>3 DEF uthread_handle
  <2> QED BY <1>1, <2>3, <2>4 DEF YieldReturns, ReclaimPrevious
<1>2. IInv /\ [Next]_vars => [\A c \in heap : is_deleted[c] => c \notin heap']_vars
  BY <1>1
<1> QED BY <1>2, Inductive, PTL DEF Spec
----------------------------------------------------------------------------
(* The test program.                                                       *)

(***************************************************************************)
(* The schedule of the test.  In each of three rounds r of f's loop: f     *)
(* writes 1 and starts g, g writes 2 and returns, main reclaims g and      *)
(* writes 0, f yields, main writes 0.  In between the list has only main   *)
(* and f.  After the third round f returns, and then main.                 *)
(***************************************************************************)
OnlyMain ==
    /\ heap = {Initial} /\ fiber_count = 1 /\ list.tail = Initial
    /\ list.next[Initial] = Initial /\ list.prev[Initial] = Initial

MainAnd(f) ==
    /\ f \in Contexts \ {Initial} /\ heap = {Initial, f} /\ fiber_count = 2 /\ list.tail = f
    /\ list.next[Initial] = f /\ list.prev[f] = Initial
    /\ list.next[f] = Initial /\ list.prev[Initial] = f

MainAndTwo(f, h) ==
    /\ f \in Contexts \ {Initial} /\ h \in Contexts \ {Initial, f}
    /\ heap = {Initial, f, h} /\ fiber_count = 3 /\ list.tail = h
    /\ list.next[Initial] = f /\ list.prev[f] = Initial
    /\ list.next[f] = h /\ list.prev[h] = f
    /\ list.next[h] = Initial /\ list.prev[Initial] = h

\* So far the first n numbers of ans_pid_rep were written.
HaveWritten(n) ==
    /\ thread_pids \in Seq(0 .. 2) /\ Len(thread_pids) = n
    /\ \A i \in 1 .. n : thread_pids[i] = ans_pid_rep[i]

\* The fiber of c runs, or is about to, out of a frame of that kind.
OnTurn(c, entry) ==
    current = c /\ (pc = "client" \/ (pc = "switched" /\ frame[c] = entry))

\* f is at that place and not finished, and main waits in its loop.
Inside(f, place) ==
    /\ role[Initial] = "main" /\ at[Initial] = "loop" /\ ~is_deleted[Initial]
    /\ role[f] = "f" /\ at[f] = place /\ ~is_deleted[f]

Begins ==
    /\ OnlyMain /\ current = Initial /\ pc = "client" /\ ~is_deleted[Initial]
    /\ role[Initial] = "main" /\ at[Initial] = "begin" /\ round = 0 /\ HaveWritten(0)

TurnOfF(f, r) ==
    /\ r \in 0 .. 3 /\ round = r /\ HaveWritten(4 * r) /\ MainAnd(f)
    /\ Inside(f, IF r = 0 THEN "begin" ELSE "yielded")
    /\ OnTurn(f, IF r = 0 THEN "prepared" ELSE "in_yield") /\ frame[Initial] = "in_yield"

TurnOfG(f, h, r) ==
    /\ r \in 0 .. 2 /\ round = r /\ HaveWritten(4 * r + 1) /\ MainAndTwo(f, h)
    /\ Inside(f, "started") /\ role[h] = "g" /\ at[h] = "begin" /\ ~is_deleted[h]
    /\ OnTurn(h, "prepared") /\ frame[Initial] = "in_yield" /\ frame[f] = "in_yield"

\* main runs after g, whose context is still in the list until main reclaims it.
MainAfterG(f, r) ==
    /\ r \in 0 .. 2 /\ round = r /\ HaveWritten(4 * r + 2)
    /\ IF pc = "client" THEN MainAnd(f) ELSE \E h \in Contexts : MainAndTwo(f, h) /\ is_deleted[h]
    /\ Inside(f, "started")
    /\ OnTurn(Initial, "in_yield") /\ frame[f] = "in_yield"

FAgain(f, r) ==
    /\ r \in 0 .. 2 /\ round = r /\ HaveWritten(4 * r + 3) /\ MainAnd(f)
    /\ Inside(f, "started")
    /\ OnTurn(f, "in_yield") /\ frame[Initial] = "in_yield"

MainAgain(f, r) ==
    /\ r \in 0 .. 2 /\ round = r + 1 /\ HaveWritten(4 * r + 3) /\ MainAnd(f)
    /\ Inside(f, "yielded")
    /\ OnTurn(Initial, "in_yield") /\ frame[f] = "in_yield"

MainAfterF ==
    /\ round = 3 /\ HaveWritten(13)
    /\ IF pc = "client" THEN OnlyMain ELSE \E f \in Contexts : MainAnd(f) /\ is_deleted[f]
    /\ role[Initial] = "main" /\ at[Initial] = "loop" /\ ~is_deleted[Initial]
    /\ OnTurn(Initial, "in_yield")

\* main returned from check_pids, or malloc failed in a call of uthread_start.
Ended ==
    /\ pc = "exited"
    /\ \/ at[Initial] = "returned" /\ HaveWritten(14)
       \/ at[Initial] # "returned" /\ \E r \in 0 .. 2 : HaveWritten(4 * r)

TestInv ==
    \/ Begins \/ MainAfterF \/ Ended
    \/ \E f \in Contexts, r \in 0 .. 3 :
          \/ TurnOfF(f, r) \/ MainAfterG(f, r) \/ FAgain(f, r) \/ MainAgain(f, r)
          \/ \E h \in Contexts : TurnOfG(f, h, r)

\* How far the test is: it grows with every step of it.
StepsMade ==
    IF at[Initial] = "begin" THEN 0
    ELSE 1 + 2 * (Len(thread_pids) + round) + (IF pc = "switched" THEN 0 ELSE 1)

\* Where the fibers of the test can be.
TestTyped ==
    /\ role \in [Contexts -> {"main", "f", "g"}]
    /\ at \in [Contexts -> {"begin", "loop", "started", "yielded", "returned"}]

\* The functions and places of the test are all there are.
LEMMA TestTypes == IInv /\ TestTyped /\ [TestNext]_<<vars, testVars>> => TestTyped'
<1> SUFFICES ASSUME IInv, TestTyped, [TestNext]_<<vars, testVars>> PROVE TestTyped'
  OBVIOUS
<1> USE DEF TestTyped
<1>1. CASE UNCHANGED testVars
  BY <1>1 DEF testVars
<1>2. ASSUME NEW function \in {"f", "g"}, NEW place \in {"loop", "started"}, Starts(function, place)
      PROVE  TestTyped'
  BY <1>2 DEF Starts
<1>3. CASE MainStarts \/ FStarts
  BY <1>2, <1>3 DEF MainStarts, FStarts
<1>4. CASE MainLoops \/ g \/ FYields \/ FReturns
  BY <1>4 DEF MainLoops, g, FYields, FReturns, Goes
<1>5. CASE TestExits \/ Resumes
  BY <1>1, <1>5 DEF TestExits, Resumes
<1> QED BY <1>1, <1>3, <1>4, <1>5 DEF TestNext, testVars

----------------------------------------------------------------------------
(* What the library's operations do to lists of one to three contexts.     *)

\* What the test needs of the library's invariant.
LEMMA LibraryTypes ==
    ASSUME IInv
    PROVE  /\ list \in Lists /\ list.head = Initial /\ heap \subseteq Contexts
           /\ is_deleted \in [Contexts -> BOOLEAN] /\ frame \in [Contexts -> Frames]
           /\ current \in Contexts /\ Initial \in Contexts /\ fiber_count \in Nat
BY ContextsAssumption DEF IInv, TypeOK, ListInv, Lists

\* main starts f.
LEMMA FirstStart ==
    ASSUME IInv, OnlyMain, current = Initial, NEW ctx \in Contexts, uthread_start(ctx)
    PROVE  /\ MainAnd(ctx)' /\ current' = ctx /\ pc' = "switched"
           /\ frame'[ctx] = "prepared" /\ frame'[Initial] = "in_yield"
           /\ ~is_deleted'[ctx] /\ is_deleted'[Initial] = is_deleted[Initial]
<1>1. /\ list \in Lists /\ list.head = Initial /\ Initial \in Contexts
      /\ is_deleted \in [Contexts -> BOOLEAN] /\ frame \in [Contexts -> Frames]
  BY LibraryTypes
<1>2. ctx # Initial
  BY DEF OnlyMain, uthread_start
<1>3. /\ list'.tail = ctx /\ list'.next[Initial] = ctx /\ list'.prev[ctx] = Initial
      /\ list'.next[ctx] = Initial /\ list'.prev[Initial] = ctx
  BY <1>1, <1>2 DEF OnlyMain, uthread_start, insert, Lists
<1>4. current' = ctx
  BY <1>3 DEF uthread_start
<1>5. heap' = {Initial, ctx} /\ fiber_count' = 2
  BY DEF OnlyMain, uthread_start
<1>6. MainAnd(ctx)'
  BY <1>2, <1>3, <1>5 DEF MainAnd
<1> QED BY <1>1, <1>2, <1>4, <1>6 DEF uthread_start

\* f starts a g while only main and f are there.
LEMMA SecondStart ==
    ASSUME IInv, NEW f, MainAnd(f), current = f, NEW ctx \in Contexts, uthread_start(ctx)
    PROVE  /\ MainAndTwo(f, ctx)' /\ current' = ctx /\ pc' = "switched"
           /\ frame'[ctx] = "prepared" /\ frame'[f] = "in_yield" /\ frame'[Initial] = frame[Initial]
           /\ ~is_deleted'[ctx] /\ is_deleted'[Initial] = is_deleted[Initial]
           /\ is_deleted'[f] = is_deleted[f]
<1>1. /\ list \in Lists /\ list.head = Initial /\ Initial \in Contexts
      /\ is_deleted \in [Contexts -> BOOLEAN] /\ frame \in [Contexts -> Frames]
  BY LibraryTypes
<1>2. ctx \in Contexts \ {Initial, f} /\ f \in Contexts \ {Initial}
  BY DEF MainAnd, uthread_start
<1>3. /\ list'.tail = ctx /\ list'.next[Initial] = f /\ list'.prev[f] = Initial
      /\ list'.next[f] = ctx /\ list'.prev[ctx] = f
      /\ list'.next[ctx] = Initial /\ list'.prev[Initial] = ctx
  BY <1>1, <1>2 DEF MainAnd, uthread_start, insert, Lists
<1>4. current' = ctx
  BY <1>3 DEF uthread_start
<1>5. heap' = {Initial, f, ctx} /\ fiber_count' = 3
  BY DEF MainAnd, uthread_start
<1>6. MainAndTwo(f, ctx)'
  BY <1>2, <1>3, <1>5 DEF MainAndTwo
<1> QED BY <1>1, <1>2, <1>4, <1>6 DEF uthread_start

\* main reclaims g.
LEMMA ReclaimsG ==
    ASSUME IInv, NEW f, NEW h, MainAndTwo(f, h), is_deleted[h], current = Initial, YieldReturns
    PROVE  MainAnd(f)'
<1>1. list \in Lists /\ list.head = Initial /\ Initial \in Contexts
  BY LibraryTypes
<1>2. list' = extract(list, h) /\ heap' = heap \ {h} /\ fiber_count' = fiber_count - 1
  BY DEF MainAndTwo, YieldReturns, ReclaimPrevious
<1>3. extract(list, h) = ExtractOfMany(list, h)
  BY DEF MainAndTwo, extract
<1>4. /\ list'.tail = f /\ list'.next[Initial] = f /\ list'.prev[f] = Initial
      /\ list'.next[f] = Initial /\ list'.prev[Initial] = f
  BY <1>1, <1>2, <1>3 DEF MainAndTwo, ExtractOfMany, Lists
<1>5. heap' = {Initial, f} /\ fiber_count' = 2 /\ f \in Contexts \ {Initial}
  BY <1>2 DEF MainAndTwo
<1> QED BY <1>4, <1>5 DEF MainAnd

\* main reclaims f.
LEMMA ReclaimsF ==
    ASSUME IInv, NEW f, MainAnd(f), is_deleted[f], current = Initial, YieldReturns
    PROVE  OnlyMain'
<1>1. list \in Lists /\ list.head = Initial /\ Initial \in Contexts
  BY LibraryTypes
<1>2. list' = extract(list, f) /\ heap' = heap \ {f} /\ fiber_count' = fiber_count - 1
  BY DEF MainAnd, YieldReturns, ReclaimPrevious
<1>3. extract(list, f) = ExtractOfTwo(list, Initial)
  BY DEF MainAnd, extract
<1>4. list'.tail = Initial /\ list'.next[Initial] = Initial /\ list'.prev[Initial] = Initial
  BY <1>1, <1>2, <1>3 DEF MainAnd, ExtractOfTwo, Lists
<1>5. heap' = {Initial} /\ fiber_count' = 1
  BY <1>2 DEF MainAnd
<1> QED BY <1>4, <1>5 DEF OnlyMain

\* There is nothing to reclaim while both main and f are unfinished.
LEMMA ReclaimsNothing ==
    ASSUME NEW f, MainAnd(f), ~is_deleted[f], ~is_deleted[Initial], current \in {Initial, f}, YieldReturns
    PROVE  MainAnd(f)'
<1>1. UNCHANGED <<list, heap, fiber_count>>
  BY DEF MainAnd, YieldReturns, ReclaimPrevious
<1> QED BY <1>1 DEF MainAnd
----------------------------------------------------------------------------
(* The steps of the test, phase by phase.                                  *)

\* The numbers due in each round, and the last two.
LEMMA Answers ==
    /\ \A r \in 0 .. 2 : /\ ans_pid_rep[4 * r + 1] = 1 /\ ans_pid_rep[4 * r + 2] = 2
                         /\ ans_pid_rep[4 * r + 3] = 0 /\ ans_pid_rep[4 * r + 4] = 0
    /\ ans_pid_rep[13] = 1 /\ ans_pid_rep[14] = 0 /\ Len(ans_pid_rep) = 14
<1>1. ASSUME NEW r \in 0 .. 2
      PROVE  /\ ans_pid_rep[4 * r + 1] = 1 /\ ans_pid_rep[4 * r + 2] = 2
             /\ ans_pid_rep[4 * r + 3] = 0 /\ ans_pid_rep[4 * r + 4] = 0
  <2>1. CASE r = 0
    BY <2>1 DEF ans_pid_rep
  <2>2. CASE r = 1
    BY <2>2 DEF ans_pid_rep
  <2>3. CASE r = 2
    BY <2>3 DEF ans_pid_rep
  <2> QED BY <2>1, <2>2, <2>3
<1>2. ans_pid_rep[13] = 1 /\ ans_pid_rep[14] = 0 /\ Len(ans_pid_rep) = 14
  BY DEF ans_pid_rep
<1> QED BY <1>1, <1>2

\* Writing the number that is due.
LEMMA OneMore ==
    ASSUME NEW n \in Nat, HaveWritten(n), NEW v \in 0 .. 2, Writes(v), ans_pid_rep[n + 1] = v
    PROVE  HaveWritten(n + 1)'
<1>1. /\ thread_pids' \in Seq(0 .. 2) /\ Len(thread_pids') = n + 1
      /\ thread_pids'[n + 1] = v /\ \A i \in 1 .. n : thread_pids'[i] = thread_pids[i]
  BY DEF HaveWritten, Writes
<1>2. \A i \in 1 .. n + 1 : i = n + 1 \/ i \in 1 .. n
  OBVIOUS
<1>3. \A i \in 1 .. n : thread_pids[i] = ans_pid_rep[i]
  BY DEF HaveWritten
<1>4. \A i \in 1 .. n + 1 : thread_pids'[i] = ans_pid_rep[i]
  BY <1>1, <1>2, <1>3
<1> QED BY <1>1, <1>4 DEF HaveWritten

\* Writing nothing.
LEMMA NoMore ==
    ASSUME NEW n, HaveWritten(n), UNCHANGED thread_pids
    PROVE  HaveWritten(n)'
BY DEF HaveWritten

\* StepsMade in a state where main is past its start.
LEMMA StepsAre ==
    ASSUME NEW n \in Nat, HaveWritten(n), at[Initial] # "begin"
    PROVE  StepsMade = 1 + 2 * (n + round) + (IF pc = "switched" THEN 0 ELSE 1)
BY DEF StepsMade, HaveWritten

\* After a switch nothing of the test happens until the library is left.
LEMMA Resuming ==
    ASSUME IInv, pc = "switched", frame[current] \in {"prepared", "in_yield"}, TestNext
    PROVE  /\ pc' = "client" /\ UNCHANGED testVars /\ UNCHANGED <<is_deleted, current>>
           /\ frame[current] = "prepared" => UNCHANGED <<list, heap, fiber_count>>
           /\ frame[current] = "in_yield" => YieldReturns
           /\ \A c \in Contexts \ {current} : frame'[c] = frame[c]
<1>1. frame \in [Contexts -> Frames]
  BY LibraryTypes
<1>2. Resumes
  BY DEF TestNext, MainStarts, MainLoops, g, FStarts, FYields, FReturns, TestExits, RunningAt
<1>3. uthread_handle \/ YieldReturns
  BY <1>2 DEF Resumes
<1>4. UNCHANGED testVars
  BY <1>2 DEF Resumes
<1>5. CASE uthread_handle
  BY <1>1, <1>4, <1>5 DEF uthread_handle
<1>6. CASE YieldReturns
  BY <1>1, <1>4, <1>6 DEF YieldReturns
<1> QED BY <1>3, <1>5, <1>6

\* It counts as a step nevertheless.
LEMMA ResumingAdvances ==
    ASSUME NEW n \in Nat, HaveWritten(n), at[Initial] # "begin", round \in Nat,
           pc = "switched", pc' = "client", UNCHANGED testVars
    PROVE  StepsMade' > StepsMade
<1>1. StepsMade = 1 + 2 * (n + round)
  BY StepsAre
<1>2. HaveWritten(n)' /\ at'[Initial] # "begin" /\ round' = round
  BY NoMore DEF testVars
<1>3. StepsMade' = 1 + 2 * (n + round) + 1
  BY <1>2 DEF StepsMade, HaveWritten
<1> QED BY <1>1, <1>3

\* Two bounds that the next proof needs.
LEMMA AtMost ==
    ASSUME NEW b \in Int, NEW x, NEW still, x = 1 + 2 * b + (IF still THEN 0 ELSE 1)
    PROVE  x \in Int /\ x <= 2 + 2 * b
OBVIOUS

LEMMA AtLeast ==
    ASSUME NEW a \in Int, NEW y, NEW still, y = 1 + 2 * a + (IF still THEN 0 ELSE 1)
    PROVE  y \in Int /\ y >= 1 + 2 * a
OBVIOUS

LEMMA MoreSteps ==
    ASSUME NEW a \in Int, NEW b \in Int, b < a, NEW x \in Int, NEW y \in Int,
           x <= 2 + 2 * b, y >= 1 + 2 * a
    PROVE  y > x
OBVIOUS

\* And so does a step that writes a number or a round of f that ends.
LEMMA ClientAdvances ==
    ASSUME NEW n \in Nat, HaveWritten(n), NEW m \in Nat, HaveWritten(m)',
           at[Initial] # "begin", at'[Initial] # "begin", NEW r \in Nat, round = r,
           NEW q \in Nat, round' = q, n + r < m + q
    PROVE  StepsMade' > StepsMade
<1>1. StepsMade = 1 + 2 * (n + r) + (IF pc = "switched" THEN 0 ELSE 1)
  BY StepsAre
<1>2. StepsMade' = 1 + 2 * (m + q) + (IF pc' = "switched" THEN 0 ELSE 1)
  BY DEF StepsMade, HaveWritten
<1>3. n + r \in Int /\ m + q \in Int
  OBVIOUS
<1>4. StepsMade \in Int /\ StepsMade <= 2 + 2 * (n + r)
  BY <1>1, <1>3, AtMost
<1>5. StepsMade' \in Int /\ StepsMade' >= 1 + 2 * (m + q)
  BY <1>2, <1>3, AtLeast
<1> QED BY <1>3, <1>4, <1>5, MoreSteps
\* The schedule goes on, and the test with it.
Continues == TestInv' /\ (pc' = "exited" \/ StepsMade' > StepsMade)

\* What the lemmas below need of the variables' types.
LEMMA TestLibraryTypes ==
    ASSUME IInv, TestTyped
    PROVE  /\ role \in [Contexts -> {"main", "f", "g"}]
           /\ at \in [Contexts -> {"begin", "loop", "started", "yielded", "returned"}]
           /\ is_deleted \in [Contexts -> BOOLEAN] /\ frame \in [Contexts -> Frames]
           /\ Initial \in Contexts
BY LibraryTypes DEF TestTyped

\* The process ends in a call of uthread_start.
LEMMA TestExitsContinues ==
    ASSUME NEW r \in 0 .. 2, HaveWritten(4 * r), at[Initial] # "returned", TestExits
    PROVE  Continues
<1>1. pc' = "exited" /\ UNCHANGED testVars
  BY DEF TestExits, StartFails
<1>2. HaveWritten(4 * r)' /\ at'[Initial] # "returned"
  BY <1>1, NoMore DEF testVars
<1>3. Ended'
  BY <1>1, <1>2 DEF Ended
<1> QED BY <1>1, <1>3 DEF Continues, TestInv

LEMMA BeginsContinues ==
    ASSUME IInv, TestTyped, Begins, TestNext
    PROVE  Continues
<1>1. /\ role \in [Contexts -> {"main", "f", "g"}] /\ Initial \in Contexts
      /\ at \in [Contexts -> {"begin", "loop", "started", "yielded", "returned"}]
  BY TestLibraryTypes
<1>2. CASE TestExits
  <2>1. 0 \in 0 .. 2 /\ HaveWritten(4 * 0) /\ at[Initial] # "returned"
    BY DEF Begins
  <2> QED BY <1>2, <2>1, TestExitsContinues
<1>3. CASE MainStarts
  <2>1. PICK ctx \in Contexts :
           /\ uthread_start(ctx)
           /\ role' = [role EXCEPT ![ctx] = "f"]
           /\ at' = [at EXCEPT ![ctx] = "begin", ![Initial] = "loop"]
    BY <1>3 DEF MainStarts, Starts, Begins
  <2>2. UNCHANGED <<round, thread_pids>>
    BY <1>3 DEF MainStarts
  <2>3. /\ MainAnd(ctx)' /\ current' = ctx /\ pc' = "switched"
        /\ frame'[ctx] = "prepared" /\ frame'[Initial] = "in_yield"
        /\ ~is_deleted'[ctx] /\ ~is_deleted'[Initial]
    BY <2>1, FirstStart DEF Begins
  <2>4. ctx \in Contexts \ {Initial}
    BY <2>3 DEF MainAnd
  <2>5. /\ role'[Initial] = "main" /\ at'[Initial] = "loop"
        /\ role'[ctx] = "f" /\ at'[ctx] = "begin"
    BY <1>1, <2>1, <2>4 DEF Begins
  <2>6. HaveWritten(0)' /\ round' = 0
    BY <2>2, NoMore DEF Begins
  <2>7. TurnOfF(ctx, 0)'
    BY <2>3, <2>5, <2>6 DEF TurnOfF, Inside, OnTurn
  <2>8. TestInv'
    BY <2>7, 0 \in 0 .. 3 DEF TestInv
  <2>9. StepsMade = 0
    BY DEF Begins, StepsMade
  <2>10. StepsMade' = 1
    BY <2>3, <2>5, <2>6 DEF StepsMade, HaveWritten
  <2> QED BY <2>8, <2>9, <2>10 DEF Continues
<1>4. MainStarts \/ TestExits
  BY DEF Begins, TestNext, MainLoops, g, FStarts, FYields, FReturns, RunningAt, Resumes,
         uthread_handle, YieldReturns
<1> QED BY <1>2, <1>3, <1>4

LEMMA TurnOfFContinues ==
    ASSUME IInv, TestTyped, NEW f \in Contexts, NEW r \in 0 .. 3, TurnOfF(f, r), TestNext
    PROVE  Continues
<1>1. /\ role \in [Contexts -> {"main", "f", "g"}] /\ Initial \in Contexts
      /\ at \in [Contexts -> {"begin", "loop", "started", "yielded", "returned"}]
      /\ is_deleted \in [Contexts -> BOOLEAN] /\ frame \in [Contexts -> Frames]
  BY TestLibraryTypes
<1>2. /\ round = r /\ HaveWritten(4 * r) /\ MainAnd(f) /\ f \in Contexts \ {Initial}
      /\ Inside(f, IF r = 0 THEN "begin" ELSE "yielded") /\ current = f
      /\ frame[Initial] = "in_yield" /\ 4 * r \in Nat
  BY DEF TurnOfF, OnTurn, MainAnd
<1>3. /\ role[Initial] = "main" /\ at[Initial] = "loop" /\ ~is_deleted[Initial]
      /\ role[f] = "f" /\ ~is_deleted[f]
      /\ at[f] = IF r = 0 THEN "begin" ELSE "yielded"
  BY <1>2 DEF Inside
<1>4. CASE pc = "switched"
  <2>1. frame[f] = IF r = 0 THEN "prepared" ELSE "in_yield"
    BY <1>4 DEF TurnOfF, OnTurn
  <2>2. /\ pc' = "client" /\ UNCHANGED testVars /\ UNCHANGED <<is_deleted, current>>
        /\ frame[f] = "prepared" => UNCHANGED <<list, heap, fiber_count>>
        /\ frame[f] = "in_yield" => YieldReturns
        /\ frame'[Initial] = frame[Initial]
    BY <1>1, <1>2, <1>4, <2>1, Resuming
  <2>3. MainAnd(f)'
    <3>1. CASE frame[f] = "prepared"
      BY <1>2, <2>2, <3>1 DEF MainAnd
    <3>2. CASE frame[f] = "in_yield"
      BY <1>2, <1>3, <2>2, <3>2, ReclaimsNothing
    <3> QED BY <2>1, <3>1, <3>2
  <2>4. HaveWritten(4 * r)' /\ round' = r
    BY <1>2, <2>2, NoMore DEF testVars
  <2>5. Inside(f, IF r = 0 THEN "begin" ELSE "yielded")'
    BY <1>2, <2>2 DEF Inside, testVars
  <2>6. TurnOfF(f, r)'
    BY <1>2, <2>2, <2>3, <2>4, <2>5 DEF TurnOfF, OnTurn
  <2>7. StepsMade' > StepsMade
    BY <1>2, <1>3, <1>4, <2>2, ResumingAdvances
  <2> QED BY <2>6, <2>7 DEF Continues, TestInv
<1>5. CASE pc = "client" /\ r # 3
  <2>1. r \in 0 .. 2 /\ 4 * r + 1 \in Nat
    BY <1>5
  <2>2. CASE TestExits
    BY <1>2, <1>3, <2>1, <2>2, TestExitsContinues
  <2>3. CASE FStarts
    <3>1. PICK ctx \in Contexts :
             /\ uthread_start(ctx)
             /\ role' = [role EXCEPT ![ctx] = "g"]
             /\ at' = [at EXCEPT ![ctx] = "begin", ![f] = "started"]
      BY <1>2, <2>3 DEF FStarts, Starts
    <3>2. Writes(1) /\ round' = r
      BY <1>2, <2>3 DEF FStarts
    <3>3. /\ MainAndTwo(f, ctx)' /\ current' = ctx /\ pc' = "switched"
          /\ frame'[ctx] = "prepared" /\ frame'[f] = "in_yield" /\ frame'[Initial] = frame[Initial]
          /\ ~is_deleted'[ctx] /\ is_deleted'[Initial] = is_deleted[Initial]
          /\ is_deleted'[f] = is_deleted[f]
      BY <1>2, <3>1, SecondStart
    <3>4. ctx \in Contexts \ {Initial, f}
      BY <3>3 DEF MainAndTwo
    <3>5. /\ role'[Initial] = "main" /\ at'[Initial] = "loop"
          /\ role'[f] = "f" /\ at'[f] = "started"
          /\ role'[ctx] = "g" /\ at'[ctx] = "begin"
      BY <1>1, <1>2, <1>3, <3>1, <3>4
    <3>6. HaveWritten(4 * r + 1)'
      BY <1>2, <2>1, <3>2, OneMore, Answers
    <3>7. Inside(f, "started")'
      BY <1>3, <3>3, <3>5 DEF Inside
    <3>8. TurnOfG(f, ctx, r)'
      BY <1>2, <2>1, <3>2, <3>3, <3>5, <3>6, <3>7 DEF TurnOfG, OnTurn
    <3>9. TestInv'
      BY <3>8 DEF TestInv
    <3>10. StepsMade' > StepsMade
      <4>1. at[Initial] # "begin" /\ at'[Initial] # "begin" /\ r \in Nat /\ 4 * r + r < 4 * r + 1 + r
        BY <1>3, <3>5
      <4> QED BY <1>2, <2>1, <3>2, <3>6, <4>1, ClientAdvances
    <3> QED BY <3>9, <3>10 DEF Continues
  <2>4. FStarts \/ TestExits
    BY <1>2, <1>3, <1>5 DEF TestNext, MainStarts, MainLoops, g, FYields, FReturns, RunningAt, Resumes,
           uthread_handle, YieldReturns
  <2> QED BY <2>2, <2>3, <2>4
<1>6. CASE pc = "client" /\ r = 3
  <2>1. FReturns
    BY <1>2, <1>3, <1>6 DEF TestNext, MainStarts, MainLoops, g, FStarts, FYields, TestExits, RunningAt, Resumes,
           uthread_handle, YieldReturns
  <2>2. Writes(1) /\ FunctionReturns /\ Goes("returned") /\ UNCHANGED <<role, round>>
    BY <2>1 DEF FReturns
  <2>3. /\ list' = list /\ heap' = heap /\ fiber_count' = fiber_count
        /\ current' = Initial /\ pc' = "switched"
        /\ is_deleted'[f] /\ is_deleted'[Initial] = is_deleted[Initial]
        /\ frame'[Initial] = frame[Initial]
    BY <1>1, <1>2, <2>2 DEF FunctionReturns, SwitchFrom, MainAnd
  <2>4. MainAnd(f)'
    BY <1>2, <2>3 DEF MainAnd
  <2>5. role'[Initial] = "main" /\ at'[Initial] = "loop"
    BY <1>1, <1>2, <1>3, <2>2 DEF Goes
  <2>6. HaveWritten(13)' /\ round' = 3 /\ HaveWritten(12)
    <3>1. HaveWritten(12)
      BY <1>2, <1>6
    <3>2. HaveWritten(12 + 1)'
      BY <2>2, <3>1, OneMore, Answers
    <3> QED BY <1>2, <1>6, <2>2, <3>1, <3>2
  <2>7. MainAfterF'
    BY <1>2, <1>3, <2>3, <2>4, <2>5, <2>6 DEF MainAfterF, OnTurn
  <2>8. TestInv'
    BY <2>7 DEF TestInv
  <2>9. StepsMade' > StepsMade
    <3>1. at[Initial] # "begin" /\ at'[Initial] # "begin" /\ 3 \in Nat /\ 12 + 3 < 13 + 3
      BY <1>3, <2>5
    <3> QED BY <1>2, <1>6, <2>6, <3>1, ClientAdvances
  <2> QED BY <2>8, <2>9 DEF Continues
<1>7. pc \in {"client", "switched"}
  BY DEF TurnOfF, OnTurn
<1> QED BY <1>4, <1>5, <1>6, <1>7
LEMMA TurnOfGContinues ==
    ASSUME IInv, TestTyped, NEW f \in Contexts, NEW h \in Contexts, NEW r \in 0 .. 3,
           TurnOfG(f, h, r), TestNext
    PROVE  Continues
<1>1. /\ role \in [Contexts -> {"main", "f", "g"}] /\ Initial \in Contexts
      /\ at \in [Contexts -> {"begin", "loop", "started", "yielded", "returned"}]
      /\ is_deleted \in [Contexts -> BOOLEAN] /\ frame \in [Contexts -> Frames]
  BY TestLibraryTypes
<1>2. /\ round = r /\ HaveWritten(4 * r + 1) /\ MainAndTwo(f, h) /\ f \in Contexts \ {Initial}
      /\ h \in Contexts \ {Initial, f} /\ Inside(f, "started") /\ current = h
      /\ frame[Initial] = "in_yield" /\ frame[f] = "in_yield" /\ 4 * r + 1 \in Nat /\ r \in 0 .. 2
  BY DEF TurnOfG, OnTurn, MainAndTwo
<1>3. /\ role[Initial] = "main" /\ at[Initial] = "loop" /\ ~is_deleted[Initial]
      /\ role[f] = "f" /\ ~is_deleted[f] /\ at[f] = "started"
      /\ role[h] = "g" /\ ~is_deleted[h] /\ at[h] = "begin"
  BY <1>2 DEF Inside, TurnOfG
<1>4. CASE pc = "switched"
  <2>1. frame[h] = "prepared"
    BY <1>4 DEF TurnOfG, OnTurn
  <2>2. /\ pc' = "client" /\ UNCHANGED testVars /\ UNCHANGED <<is_deleted, current>>
        /\ UNCHANGED <<list, heap, fiber_count>>
        /\ frame'[Initial] = frame[Initial] /\ frame'[f] = frame[f]
    BY <1>1, <1>2, <1>4, <2>1, Resuming
  <2>3. MainAndTwo(f, h)'
    BY <1>2, <2>2 DEF MainAndTwo
  <2>4. HaveWritten(4 * r + 1)' /\ round' = r
    BY <1>2, <2>2, NoMore DEF testVars
  <2>5. Inside(f, "started")' /\ role'[h] = "g" /\ ~is_deleted'[h] /\ at'[h] = "begin"
    BY <1>2, <1>3, <2>2 DEF Inside, testVars
  <2>6. TurnOfG(f, h, r)'
    BY <1>2, <2>2, <2>3, <2>4, <2>5 DEF TurnOfG, OnTurn
  <2>7. StepsMade' > StepsMade
    BY <1>2, <1>3, <1>4, <2>2, ResumingAdvances
  <2> QED BY <2>6, <2>7 DEF Continues, TestInv
<1>5. CASE pc = "client"
  <2>1. g
    BY <1>2, <1>3, <1>5 DEF TestNext, MainStarts, MainLoops, FStarts, FYields, FReturns, TestExits,
           RunningAt, Resumes, uthread_handle, YieldReturns
  <2>2. Writes(2) /\ FunctionReturns /\ Goes("returned") /\ UNCHANGED <<role, round>>
    BY <2>1 DEF g
  <2>3. /\ list' = list /\ heap' = heap /\ fiber_count' = fiber_count
        /\ current' = Initial /\ pc' = "switched"
        /\ is_deleted'[h] /\ is_deleted'[Initial] = is_deleted[Initial]
        /\ is_deleted'[f] = is_deleted[f]
        /\ frame'[Initial] = frame[Initial] /\ frame'[f] = frame[f]
    BY <1>1, <1>2, <2>2 DEF FunctionReturns, SwitchFrom, MainAndTwo
  <2>4. MainAndTwo(f, h)'
    BY <1>2, <2>3 DEF MainAndTwo
  <2>5. /\ role'[Initial] = "main" /\ at'[Initial] = "loop"
        /\ role'[f] = "f" /\ at'[f] = "started"
    BY <1>1, <1>2, <1>3, <2>2 DEF Goes
  <2>6. Inside(f, "started")'
    BY <1>3, <2>3, <2>5 DEF Inside
  <2>7. HaveWritten(4 * r + 2)' /\ round' = r
    <3>1. HaveWritten((4 * r + 1) + 1)'
      BY <1>2, <2>2, OneMore, Answers
    <3>2. (4 * r + 1) + 1 = 4 * r + 2
      BY <1>2
    <3> QED BY <1>2, <2>2, <3>1, <3>2
  <2>8. MainAfterG(f, r)'
    BY <1>2, <2>3, <2>4, <2>6, <2>7 DEF MainAfterG, OnTurn
  <2>9. TestInv'
    BY <2>8 DEF TestInv
  <2>10. StepsMade' > StepsMade
    <3>1. /\ at[Initial] # "begin" /\ at'[Initial] # "begin" /\ r \in Nat /\ 4 * r + 2 \in Nat
          /\ 4 * r + 1 + r < 4 * r + 2 + r
      BY <1>2, <1>3, <2>5
    <3> QED BY <1>2, <2>7, <3>1, ClientAdvances
  <2> QED BY <2>9, <2>10 DEF Continues
<1>6. pc \in {"client", "switched"}
  BY DEF TurnOfG, OnTurn
<1> QED BY <1>4, <1>5, <1>6

\* main writes 0 in its loop and yields to f.
LEMMA MainLoopsToF ==
    ASSUME IInv, TestTyped, NEW f, MainAnd(f), NEW place, Inside(f, place), current = Initial,
           pc = "client", frame[f] = "in_yield", TestNext
    PROVE  /\ Writes(0) /\ UNCHANGED <<role, round, at>> /\ MainAnd(f)' /\ Inside(f, place)'
           /\ current' = f /\ pc' = "switched"
           /\ frame'[f] = "in_yield" /\ frame'[Initial] = "in_yield"
<1>1. /\ Initial \in Contexts /\ frame \in [Contexts -> Frames]
      /\ role[Initial] = "main" /\ at[Initial] = "loop"
  BY TestLibraryTypes DEF Inside
<1>2. MainLoops
  BY <1>1 DEF TestNext, MainStarts, g, FStarts, FYields, FReturns, TestExits,
         RunningAt, Resumes, uthread_handle, YieldReturns
<1>3. uthread_yield /\ UNCHANGED at
  BY <1>2 DEF MainLoops, MainReturns, uthread_try_join, MainAnd
<1>4. Writes(0) /\ UNCHANGED <<role, round>>
  BY <1>2 DEF MainLoops
<1>5. /\ UNCHANGED <<list, heap, fiber_count, is_deleted>> /\ current' = f /\ pc' = "switched"
      /\ frame' = [frame EXCEPT ![Initial] = "in_yield"]
  BY <1>3 DEF uthread_yield, SwitchFrom, MainAnd
<1>6. f # Initial
  BY DEF MainAnd
<1>7. frame'[f] = "in_yield" /\ frame'[Initial] = "in_yield"
  BY <1>1, <1>5, <1>6
<1>8. MainAnd(f)'
  BY <1>5 DEF MainAnd
<1>9. Inside(f, place)'
  BY <1>3, <1>4, <1>5 DEF Inside
<1> QED BY <1>3, <1>4, <1>5, <1>7, <1>8, <1>9

LEMMA MainAfterGContinues ==
    ASSUME IInv, TestTyped, NEW f \in Contexts, NEW r \in 0 .. 3, MainAfterG(f, r), TestNext
    PROVE  Continues
<1>1. /\ Initial \in Contexts /\ frame \in [Contexts -> Frames]
  BY TestLibraryTypes
<1>2. /\ round = r /\ HaveWritten(4 * r + 2) /\ Inside(f, "started") /\ current = Initial
      /\ frame[f] = "in_yield" /\ 4 * r + 2 \in Nat /\ r \in 0 .. 2
  BY DEF MainAfterG, OnTurn
<1>3. at[Initial] = "loop"
  BY <1>2 DEF Inside
<1>4. CASE pc = "switched"
  <2>1. frame[Initial] = "in_yield"
    BY <1>4 DEF MainAfterG, OnTurn
  <2>2. PICK h \in Contexts : MainAndTwo(f, h) /\ is_deleted[h]
    BY <1>4 DEF MainAfterG
  <2>3. f \in Contexts \ {Initial}
    BY <2>2 DEF MainAndTwo
  <2>4. /\ pc' = "client" /\ UNCHANGED testVars /\ UNCHANGED <<is_deleted, current>>
        /\ YieldReturns /\ frame'[f] = frame[f]
    BY <1>1, <1>2, <1>4, <2>1, <2>3, Resuming
  <2>5. MainAnd(f)'
    BY <1>2, <2>2, <2>4, ReclaimsG
  <2>6. HaveWritten(4 * r + 2)' /\ round' = r
    BY <1>2, <2>4, NoMore DEF testVars
  <2>7. Inside(f, "started")'
    BY <1>2, <2>4 DEF Inside, testVars
  <2>8. MainAfterG(f, r)'
    BY <1>2, <2>4, <2>5, <2>6, <2>7 DEF MainAfterG, OnTurn
  <2>9. StepsMade' > StepsMade
    BY <1>2, <1>3, <1>4, <2>4, ResumingAdvances
  <2> QED BY <2>8, <2>9 DEF Continues, TestInv
<1>5. CASE pc = "client"
  <2>1. MainAnd(f)
    BY <1>5 DEF MainAfterG
  <2>2. /\ Writes(0) /\ UNCHANGED <<role, round, at>> /\ MainAnd(f)' /\ Inside(f, "started")'
        /\ current' = f /\ pc' = "switched"
        /\ frame'[f] = "in_yield" /\ frame'[Initial] = "in_yield"
    BY <1>2, <1>5, <2>1, MainLoopsToF
  <2>3. HaveWritten(4 * r + 3)' /\ round' = r
    <3>1. HaveWritten((4 * r + 2) + 1)'
      BY <1>2, <2>2, OneMore, Answers
    <3>2. (4 * r + 2) + 1 = 4 * r + 3
      BY <1>2
    <3> QED BY <1>2, <2>2, <3>1, <3>2
  <2>4. FAgain(f, r)'
    BY <1>2, <2>2, <2>3 DEF FAgain, OnTurn
  <2>5. TestInv'
    BY <2>4 DEF TestInv
  <2>6. StepsMade' > StepsMade
    <3>1. /\ at[Initial] # "begin" /\ at'[Initial] # "begin" /\ r \in Nat /\ 4 * r + 3 \in Nat
          /\ 4 * r + 2 + r < 4 * r + 3 + r
      BY <1>2, <1>3, <2>2
    <3> QED BY <1>2, <2>3, <3>1, ClientAdvances
  <2> QED BY <2>5, <2>6 DEF Continues
<1>6. pc \in {"client", "switched"}
  BY DEF MainAfterG, OnTurn
<1> QED BY <1>4, <1>5, <1>6

LEMMA MainAgainContinues ==
    ASSUME IInv, TestTyped, NEW f \in Contexts, NEW r \in 0 .. 3, MainAgain(f, r), TestNext
    PROVE  Continues
<1>1. /\ Initial \in Contexts /\ frame \in [Contexts -> Frames]
  BY TestLibraryTypes
<1>2. /\ round = r + 1 /\ HaveWritten(4 * r + 3) /\ Inside(f, "yielded") /\ current = Initial
      /\ MainAnd(f) /\ f \in Contexts \ {Initial}
      /\ frame[f] = "in_yield" /\ 4 * r + 3 \in Nat /\ r \in 0 .. 2
  BY DEF MainAgain, OnTurn, MainAnd
<1>3. at[Initial] = "loop" /\ ~is_deleted[Initial] /\ ~is_deleted[f]
  BY <1>2 DEF Inside
<1>4. CASE pc = "switched"
  <2>1. frame[Initial] = "in_yield"
    BY <1>4 DEF MainAgain, OnTurn
  <2>2. /\ pc' = "client" /\ UNCHANGED testVars /\ UNCHANGED <<is_deleted, current>>
        /\ YieldReturns /\ frame'[f] = frame[f]
    BY <1>1, <1>2, <1>4, <2>1, Resuming
  <2>3. MainAnd(f)'
    BY <1>2, <1>3, <2>2, ReclaimsNothing
  <2>4. HaveWritten(4 * r + 3)' /\ round' = r + 1
    BY <1>2, <2>2, NoMore DEF testVars
  <2>5. Inside(f, "yielded")'
    BY <1>2, <2>2 DEF Inside, testVars
  <2>6. MainAgain(f, r)'
    BY <1>2, <2>2, <2>3, <2>4, <2>5 DEF MainAgain, OnTurn
  <2>7. StepsMade' > StepsMade
    <3>1. round \in Nat
      BY <1>2
    <3> QED BY <1>2, <1>3, <1>4, <2>2, <3>1, ResumingAdvances
  <2> QED BY <2>6, <2>7 DEF Continues, TestInv
<1>5. CASE pc = "client"
  <2>1. r + 1 \in 0 .. 3 /\ r + 1 # 0 /\ (4 * r + 3) + 1 = 4 * (r + 1) /\ 4 * r + 4 = 4 * (r + 1)
    BY <1>2
  <2>2. /\ Writes(0) /\ UNCHANGED <<role, round, at>> /\ MainAnd(f)' /\ Inside(f, "yielded")'
        /\ current' = f /\ pc' = "switched"
        /\ frame'[f] = "in_yield" /\ frame'[Initial] = "in_yield"
    BY <1>2, <1>5, MainLoopsToF
  <2>3. HaveWritten(4 * (r + 1))' /\ round' = r + 1
    <3>1. ans_pid_rep[(4 * r + 3) + 1] = 0
      BY <1>2, <2>1, Answers
    <3>2. HaveWritten((4 * r + 3) + 1)'
      BY <1>2, <2>2, <3>1, OneMore
    <3> QED BY <1>2, <2>1, <2>2, <3>2
  <2>4. TurnOfF(f, r + 1)'
    BY <1>2, <2>1, <2>2, <2>3 DEF TurnOfF, OnTurn
  <2>5. TestInv'
    BY <2>1, <2>4 DEF TestInv
  <2>6. StepsMade' > StepsMade
    <3>1. /\ at[Initial] # "begin" /\ at'[Initial] # "begin" /\ r + 1 \in Nat /\ 4 * (r + 1) \in Nat
          /\ 4 * r + 3 + (r + 1) < 4 * (r + 1) + (r + 1)
      BY <1>2, <1>3, <2>2
    <3> QED BY <1>2, <2>3, <3>1, ClientAdvances
  <2> QED BY <2>5, <2>6 DEF Continues
<1>6. pc \in {"client", "switched"}
  BY DEF MainAgain, OnTurn
<1> QED BY <1>4, <1>5, <1>6
LEMMA FAgainContinues ==
    ASSUME IInv, TestTyped, NEW f \in Contexts, NEW r \in 0 .. 3, FAgain(f, r), TestNext
    PROVE  Continues
<1>1. /\ Initial \in Contexts /\ frame \in [Contexts -> Frames]
      /\ at \in [Contexts -> {"begin", "loop", "started", "yielded", "returned"}]
  BY TestLibraryTypes
<1>2. /\ round = r /\ HaveWritten(4 * r + 3) /\ Inside(f, "started") /\ current = f
      /\ MainAnd(f) /\ f \in Contexts \ {Initial}
      /\ frame[Initial] = "in_yield" /\ 4 * r + 3 \in Nat /\ r \in 0 .. 2
  BY DEF FAgain, OnTurn, MainAnd
<1>3. /\ at[Initial] = "loop" /\ ~is_deleted[Initial] /\ ~is_deleted[f]
      /\ role[f] = "f" /\ at[f] = "started" /\ role[Initial] = "main"
  BY <1>2 DEF Inside
<1>4. CASE pc = "switched"
  <2>1. frame[f] = "in_yield"
    BY <1>4 DEF FAgain, OnTurn
  <2>2. /\ pc' = "client" /\ UNCHANGED testVars /\ UNCHANGED <<is_deleted, current>>
        /\ YieldReturns /\ frame'[Initial] = frame[Initial]
    BY <1>1, <1>2, <1>4, <2>1, Resuming
  <2>3. MainAnd(f)'
    BY <1>2, <1>3, <2>2, ReclaimsNothing
  <2>4. HaveWritten(4 * r + 3)' /\ round' = r
    BY <1>2, <2>2, NoMore DEF testVars
  <2>5. Inside(f, "started")'
    BY <1>2, <2>2 DEF Inside, testVars
  <2>6. FAgain(f, r)'
    BY <1>2, <2>2, <2>3, <2>4, <2>5 DEF FAgain, OnTurn
  <2>7. StepsMade' > StepsMade
    BY <1>2, <1>3, <1>4, <2>2, ResumingAdvances
  <2> QED BY <2>6, <2>7 DEF Continues, TestInv
<1>5. CASE pc = "client"
  <2>1. FYields
    BY <1>2, <1>3, <1>5 DEF TestNext, MainStarts, MainLoops, g, FStarts, FReturns, TestExits,
           RunningAt, Resumes, uthread_handle, YieldReturns
  <2>2. /\ uthread_yield /\ at' = [at EXCEPT ![f] = "yielded"] /\ round' = r + 1
        /\ UNCHANGED <<role, thread_pids>>
    BY <1>2, <2>1 DEF FYields, Goes
  <2>3. /\ UNCHANGED <<list, heap, fiber_count, is_deleted>> /\ current' = Initial /\ pc' = "switched"
        /\ frame' = [frame EXCEPT ![f] = "in_yield"]
    BY <1>2, <2>2 DEF uthread_yield, SwitchFrom, MainAnd
  <2>4. /\ frame'[f] = "in_yield" /\ frame'[Initial] = "in_yield"
        /\ at'[f] = "yielded" /\ at'[Initial] = "loop"
    BY <1>1, <1>2, <1>3, <2>2, <2>3
  <2>5. MainAnd(f)'
    BY <1>2, <2>3 DEF MainAnd
  <2>6. Inside(f, "yielded")'
    BY <1>3, <2>2, <2>3, <2>4 DEF Inside
  <2>7. HaveWritten(4 * r + 3)'
    BY <1>2, <2>2, NoMore
  <2>8. MainAgain(f, r)'
    BY <1>2, <2>2, <2>3, <2>4, <2>5, <2>6, <2>7 DEF MainAgain, OnTurn
  <2>9. TestInv'
    BY <2>8 DEF TestInv
  <2>10. StepsMade' > StepsMade
    <3>1. /\ at[Initial] # "begin" /\ at'[Initial] # "begin" /\ r \in Nat /\ r + 1 \in Nat
          /\ 4 * r + 3 + r < 4 * r + 3 + (r + 1)
      BY <1>2, <1>3, <2>4
    <3> QED BY <1>2, <2>2, <2>7, <3>1, ClientAdvances
  <2> QED BY <2>9, <2>10 DEF Continues
<1>6. pc \in {"client", "switched"}
  BY DEF FAgain, OnTurn
<1> QED BY <1>4, <1>5, <1>6

LEMMA MainAfterFContinues ==
    ASSUME IInv, TestTyped, MainAfterF, TestNext
    PROVE  Continues
<1>1. /\ Initial \in Contexts
      /\ at \in [Contexts -> {"begin", "loop", "started", "yielded", "returned"}]
  BY TestLibraryTypes
<1>2. /\ round = 3 /\ HaveWritten(13) /\ current = Initial
      /\ role[Initial] = "main" /\ at[Initial] = "loop" /\ ~is_deleted[Initial]
  BY DEF MainAfterF, OnTurn
<1>3. CASE pc = "switched"
  <2>1. frame[Initial] = "in_yield"
    BY <1>3 DEF MainAfterF, OnTurn
  <2>2. PICK f \in Contexts : MainAnd(f) /\ is_deleted[f]
    BY <1>3 DEF MainAfterF
  <2>3. /\ pc' = "client" /\ UNCHANGED testVars /\ UNCHANGED <<is_deleted, current>>
        /\ YieldReturns
    BY <1>2, <1>3, <2>1, Resuming
  <2>4. OnlyMain'
    BY <1>2, <2>2, <2>3, ReclaimsF
  <2>5. HaveWritten(13)' /\ round' = 3
    BY <1>2, <2>3, NoMore DEF testVars
  <2>6. MainAfterF'
    BY <1>2, <2>3, <2>4, <2>5 DEF MainAfterF, OnTurn, testVars
  <2>7. StepsMade' > StepsMade
    <3>1. round \in Nat /\ 13 \in Nat
      BY <1>2
    <3> QED BY <1>2, <1>3, <2>3, <3>1, ResumingAdvances
  <2> QED BY <2>6, <2>7 DEF Continues, TestInv
<1>4. CASE pc = "client"
  <2>1. MainLoops
    BY <1>2, <1>4 DEF TestNext, MainStarts, g, FStarts, FYields, FReturns, TestExits,
           RunningAt, Resumes, uthread_handle, YieldReturns
  <2>2. fiber_count = 1
    BY <1>4 DEF MainAfterF, OnlyMain
  <2>3. Writes(0) /\ MainReturns /\ Goes("returned")
    BY <2>1, <2>2 DEF MainLoops, uthread_try_join
  <2>4. HaveWritten(13 + 1)'
    BY <1>2, <2>3, OneMore, Answers
  <2>5. pc' = "exited" /\ at'[Initial] = "returned"
    BY <1>1, <1>2, <2>3 DEF MainReturns, Goes
  <2>6. Ended'
    BY <2>4, <2>5 DEF Ended
  <2> QED BY <2>5, <2>6 DEF Continues, TestInv
<1>5. pc \in {"client", "switched"}
  BY DEF MainAfterF, OnTurn
<1> QED BY <1>3, <1>4, <1>5

\* Every step keeps the schedule and gets further in it.
LEMMA TestContinues ==
    ASSUME IInv, TestTyped, TestInv, TestNext
    PROVE  Continues
<1>1. ~Ended
  BY DEF Ended, TestNext, MainStarts, MainLoops, g, FStarts, FYields, FReturns, TestExits,
         RunningAt, Resumes, uthread_handle, YieldReturns
<1>2. ASSUME NEW f \in Contexts, NEW r \in 0 .. 3,
             \/ TurnOfF(f, r) \/ MainAfterG(f, r) \/ FAgain(f, r) \/ MainAgain(f, r)
             \/ \E h \in Contexts : TurnOfG(f, h, r)
      PROVE  Continues
  BY <1>2, TurnOfFContinues, MainAfterGContinues, FAgainContinues, MainAgainContinues, TurnOfGContinues
<1>3. CASE Begins
  BY <1>3, BeginsContinues
<1>4. CASE MainAfterF
  BY <1>4, MainAfterFContinues
<1> QED BY <1>1, <1>2, <1>3, <1>4 DEF TestInv

\* The test starts at the beginning of the schedule.
LEMMA TestInitInv == TestInit => Init /\ IInv /\ TestTyped /\ TestInv
<1> SUFFICES ASSUME TestInit PROVE Init /\ IInv /\ TestTyped /\ TestInv
  OBVIOUS
<1>1. Init
  BY DEF TestInit
<1>2. TestTyped
  BY DEF TestInit, TestTyped
<1>3. OnlyMain /\ current = Initial /\ pc = "client" /\ ~is_deleted[Initial]
  BY <1>1, ContextsAssumption DEF Init, OnlyMain
<1>4. role[Initial] = "main" /\ at[Initial] = "begin" /\ round = 0
  BY ContextsAssumption DEF TestInit
<1>5. HaveWritten(0)
  BY DEF TestInit, HaveWritten
<1> QED BY <1>1, <1>2, <1>3, <1>4, <1>5, InitInv DEF TestInv, Begins

\* Every step of the test is one of the library.
LEMMA TestUsesLibrary == [TestNext]_<<vars, testVars>> => [Next]_vars
<1>1. ASSUME NEW function, NEW place, Starts(function, place)
      PROVE  Next
  BY <1>1 DEF Starts, Next
<1>2. TestNext => Next
  BY <1>1 DEF TestNext, MainStarts, MainLoops, g, FStarts, FYields, FReturns, TestExits, Resumes, Next
<1> QED BY <1>2

\* The schedule is kept throughout.
LEMMA TestStep == IInv /\ TestTyped /\ TestInv /\ [TestNext]_<<vars, testVars>> => IInv' /\ TestTyped' /\ TestInv'
<1> SUFFICES ASSUME IInv, TestTyped, TestInv, [TestNext]_<<vars, testVars>>
             PROVE  IInv' /\ TestTyped' /\ TestInv'
  OBVIOUS
<1>1. IInv'
  BY NextInv, TestUsesLibrary
<1>2. TestTyped'
  BY TestTypes
<1>3. CASE TestNext
  BY <1>1, <1>2, <1>3, TestContinues DEF Continues
<1>4. CASE UNCHANGED <<vars, testVars>>
  <2> USE <1>4 DEF vars, testVars
  <2>1. \A n : HaveWritten(n)' = HaveWritten(n)
    BY DEF HaveWritten
  <2>2. /\ OnlyMain' = OnlyMain /\ \A f : MainAnd(f)' = MainAnd(f)
        /\ \A f, h : MainAndTwo(f, h)' = MainAndTwo(f, h)
    BY DEF OnlyMain, MainAnd, MainAndTwo
  <2>3. \A f, p : Inside(f, p)' = Inside(f, p)
    BY DEF Inside
  <2>4. \A c, e : OnTurn(c, e)' = OnTurn(c, e)
    BY DEF OnTurn
  <2>5. \A f, r : TurnOfF(f, r)' = TurnOfF(f, r) /\ FAgain(f, r)' = FAgain(f, r) /\ MainAgain(f, r)' = MainAgain(f, r)
    BY <2>1, <2>2, <2>3, <2>4 DEF TurnOfF, FAgain, MainAgain
  <2>6. \A f, h, r : TurnOfG(f, h, r)' = TurnOfG(f, h, r)
    BY <2>1, <2>2, <2>3, <2>4 DEF TurnOfG
  <2>7. \A f, r : MainAfterG(f, r)' = MainAfterG(f, r)
    BY <2>1, <2>2, <2>3, <2>4 DEF MainAfterG
  <2>8. Begins' = Begins /\ MainAfterF' = MainAfterF /\ Ended' = Ended
    BY <2>1, <2>2, <2>4 DEF Begins, MainAfterF, Ended
  <2>9. TestInv'
    BY <2>5, <2>6, <2>7, <2>8 DEF TestInv
  <2> QED BY <1>1, <1>2, <2>9
<1> QED BY <1>1, <1>2, <1>3, <1>4
LEMMA TestInductive == TestSpec => [](IInv /\ TestTyped /\ TestInv)
<1>1. TestInit => IInv /\ TestTyped /\ TestInv
  BY TestInitInv
<1>2. IInv /\ TestTyped /\ TestInv /\ [TestNext]_<<vars, testVars>> => (IInv /\ TestTyped /\ TestInv)'
  BY TestStep
<1> QED BY <1>1, <1>2, PTL DEF TestSpec

----------------------------------------------------------------------------
\* How much has been written in every state of the schedule.
LEMMA WrittenSoFar == TestInv => \E n \in 0 .. 14 : HaveWritten(n)
<1> SUFFICES ASSUME TestInv PROVE \E n \in 0 .. 14 : HaveWritten(n)
  OBVIOUS
<1>1. ASSUME NEW f, NEW r, TurnOfF(f, r) PROVE \E n \in 0 .. 14 : HaveWritten(n)
  <2>1. 4 * r \in 0 .. 14 /\ HaveWritten(4 * r)
    BY <1>1 DEF TurnOfF
  <2> QED BY <2>1
<1>2. ASSUME NEW f, NEW r, MainAfterG(f, r) PROVE \E n \in 0 .. 14 : HaveWritten(n)
  <2>1. 4 * r + 2 \in 0 .. 14 /\ HaveWritten(4 * r + 2)
    BY <1>2 DEF MainAfterG
  <2> QED BY <2>1
<1>3. ASSUME NEW f, NEW r, FAgain(f, r) \/ MainAgain(f, r) PROVE \E n \in 0 .. 14 : HaveWritten(n)
  <2>1. 4 * r + 3 \in 0 .. 14 /\ HaveWritten(4 * r + 3)
    BY <1>3 DEF FAgain, MainAgain
  <2> QED BY <2>1
<1>4. ASSUME NEW f, NEW h, NEW r, TurnOfG(f, h, r) PROVE \E n \in 0 .. 14 : HaveWritten(n)
  <2>1. 4 * r + 1 \in 0 .. 14 /\ HaveWritten(4 * r + 1)
    BY <1>4 DEF TurnOfG
  <2> QED BY <2>1
<1>5. CASE Begins \/ MainAfterF
  BY <1>5 DEF Begins, MainAfterF
<1>6. CASE Ended
  <2>1. ASSUME NEW r \in 0 .. 2, HaveWritten(4 * r) PROVE \E n \in 0 .. 14 : HaveWritten(n)
    <3>1. 4 * r \in 0 .. 14
      OBVIOUS
    <3> QED BY <2>1, <3>1
  <2> QED BY <1>6, <2>1 DEF Ended
<1> QED BY <1>1, <1>2, <1>3, <1>4, <1>5, <1>6 DEF TestInv

\* The fibers of the test run in the order of ans_pid_rep at every step, and
\* not only when check_pids looks: the schedule of insert behind the tail,
\* yield to next and reclaim is the one the test's author wrote down, however
\* malloc reuses addresses and wherever it fails.
THEOREM RunsInOrderCorrect == TestSpec => []RunsInOrder
<1>1. TestInv => RunsInOrder
  <2> SUFFICES ASSUME TestInv PROVE RunsInOrder
    OBVIOUS
  <2>1. PICK n \in 0 .. 14 : HaveWritten(n)
    BY WrittenSoFar
  <2>2. Len(ans_pid_rep) = 14 /\ ans_pid_rep \in Seq(0 .. 2)
    BY Answers DEF ans_pid_rep
  <2> DEFINE ans == ans_pid_rep
  <2> HIDE DEF ans
  <2>3. /\ thread_pids \in Seq(0 .. 2) /\ Len(thread_pids) = n /\ ans \in Seq(0 .. 2) /\ n <= Len(ans)
        /\ \A i \in 1 .. n : thread_pids[i] = ans[i]
    BY <2>1, <2>2 DEF HaveWritten, ans
  <2>4. Len(thread_pids) <= Len(ans) /\ SubSeq(thread_pids, 1, n) = SubSeq(ans, 1, n)
    BY <2>3
  <2> QED BY <2>3, <2>4 DEF RunsInOrder, IsPrefix, ans
<1> QED BY <1>1, TestInductive, PTL

\* When main returns, check_pids has compared all fourteen numbers and found
\* them right: the assertion of the test holds.
THEOREM TestPasses ==
    TestSpec => [](pc = "exited" /\ at[Initial] = "returned" => thread_pids = ans_pid_rep)
<1>1. TestInv /\ pc = "exited" /\ at[Initial] = "returned" => thread_pids = ans_pid_rep
  <2> SUFFICES ASSUME TestInv, pc = "exited", at[Initial] = "returned"
               PROVE  thread_pids = ans_pid_rep
    OBVIOUS
  <2>1. HaveWritten(14)
    BY DEF TestInv, Begins, MainAfterF, Ended, TurnOfF, MainAfterG, FAgain, MainAgain, TurnOfG, OnTurn
  <2>2. Len(ans_pid_rep) = 14 /\ ans_pid_rep \in Seq(0 .. 2)
    BY Answers DEF ans_pid_rep
  <2> DEFINE ans == ans_pid_rep
  <2> HIDE DEF ans
  <2>3. /\ thread_pids \in Seq(0 .. 2) /\ Len(thread_pids) = 14 /\ ans \in Seq(0 .. 2) /\ Len(ans) = 14
        /\ \A i \in 1 .. 14 : thread_pids[i] = ans[i]
    BY <2>1, <2>2 DEF HaveWritten, ans
  <2>4. thread_pids = ans
    BY <2>3
  <2> QED BY <2>4 DEF ans
<1> QED BY <1>1, TestInductive, PTL

\* Wherever the test calls uthread_start, the caller is the tail.
LEMMA CallersAreTail ==
    ASSUME TestInv, NEW function, NEW place, RunningAt(function, place),
           \/ function = "main" /\ place = "begin"
           \/ function = "f" /\ place \in {"begin", "yielded"}
    PROVE  current = list.tail
<1>1. pc = "client" /\ role[current] = function /\ at[current] = place
  BY DEF RunningAt
<1>2. CASE Begins
  BY <1>2 DEF Begins, OnlyMain
<1>3. ASSUME NEW f \in Contexts, NEW r \in 0 .. 3, TurnOfF(f, r)
      PROVE  current = list.tail
  BY <1>3 DEF TurnOfF, OnTurn, MainAnd
<1>4. ASSUME NEW f \in Contexts, NEW h \in Contexts, NEW r \in 0 .. 3, TurnOfG(f, h, r)
      PROVE  FALSE
  BY <1>1, <1>4 DEF TurnOfG, OnTurn
<1>5. ASSUME NEW f \in Contexts, NEW r \in 0 .. 3, FAgain(f, r)
      PROVE  FALSE
  BY <1>1, <1>5 DEF FAgain, OnTurn, Inside
<1>6. ~MainAfterF /\ ~Ended /\ \A f, r : ~MainAfterG(f, r) /\ ~MainAgain(f, r)
  BY <1>1 DEF MainAfterF, Ended, MainAfterG, MainAgain, OnTurn, Inside
<1> QED BY <1>2, <1>3, <1>4, <1>5, <1>6 DEF TestInv

\* The test only ever calls uthread_start from the tail fiber: it stays within
\* the use of the library under which no finished fiber is resumed.
THEOREM TestStartsFromTail == TestSpec => TailUse!Init /\ [][TailUse!Next]_vars
<1>1. TestInit => TailUse!Init
  BY DEF TestInit, Init, TailUse!Init
<1>2. TestInv /\ TestNext => TailUse!Next
  <2> SUFFICES ASSUME TestInv, TestNext PROVE TailUse!Next
    OBVIOUS
  <2>1. ASSUME NEW function, NEW place, Starts(function, place), current = list.tail
        PROVE  TailUse!Next
    <3>1. PICK ctx \in Contexts : uthread_start(ctx)
      BY <2>1 DEF Starts
    <3>2. TailUse!uthread_start(ctx)
      BY <2>1, <3>1 DEF uthread_start, MayStart, insert, TailUse!uthread_start, TailUse!MayStart, TailUse!insert
    <3> QED BY <3>2 DEF TailUse!Next
  <2>2. CASE MainStarts
    BY <2>1, <2>2, CallersAreTail DEF MainStarts
  <2>3. CASE FStarts
    BY <2>1, <2>3, CallersAreTail DEF FStarts
  <2>4. CASE TestExits
    <3>1. current = list.tail
      BY <2>4, CallersAreTail DEF TestExits
    <3> QED BY <2>4, <3>1 DEF TestExits, StartFails, MayStart, TailUse!StartFails, TailUse!MayStart, TailUse!Next
  <2>5. CASE FYields \/ MainLoops
    <3>1. uthread_yield \/ MainReturns
      BY <2>5 DEF FYields, MainLoops
    <3> QED BY <3>1 DEF uthread_yield, MainReturns, SwitchFrom, uthread_try_join, TailUse!uthread_yield,
              TailUse!MainReturns, TailUse!SwitchFrom, TailUse!uthread_try_join, TailUse!Next
  <2>6. CASE g \/ FReturns
    <3>1. FunctionReturns
      BY <2>6 DEF g, FReturns
    <3> QED BY <3>1 DEF FunctionReturns, SwitchFrom, TailUse!FunctionReturns, TailUse!SwitchFrom, TailUse!Next
  <2>7. CASE Resumes
    <3>1. CASE uthread_handle
      BY <3>1 DEF uthread_handle, TailUse!uthread_handle, TailUse!Next
    <3>2. CASE YieldReturns
      <4>1. \A l, c : extract(l, c) = TailUse!extract(l, c)
        BY DEF extract, ExtractOfTwo, ExtractOfMany, TailUse!extract, TailUse!ExtractOfTwo, TailUse!ExtractOfMany
      <4>2. TailUse!YieldReturns
        BY <3>2, <4>1 DEF YieldReturns, ReclaimPrevious, TailUse!YieldReturns, TailUse!ReclaimPrevious
      <4> QED BY <4>2 DEF TailUse!Next
    <3> QED BY <2>7, <3>1, <3>2 DEF Resumes
  <2> QED BY <2>2, <2>3, <2>4, <2>5, <2>6, <2>7 DEF TestNext
<1>3. TestInv /\ [TestNext]_<<vars, testVars>> => [TailUse!Next]_vars
  BY <1>2 DEF vars
<1> QED BY <1>1, <1>3, TestInductive, PTL DEF TestSpec

\* No finished fiber is resumed in the test, and the assumption TailStarts is
\* not needed for it.
THEOREM TestNeverWild == TestSpec => []NoWildReturn
<1>1. TestInv => NoWildReturn
  BY DEF TestInv, Begins, MainAfterF, Ended, TurnOfF, MainAfterG, FAgain, MainAgain, TurnOfG, OnTurn,
         NoWildReturn
<1> QED BY <1>1, TestInductive, PTL

(***************************************************************************)
(* Why the test ends: every step that does not end the process raises      *)
(* StepsMade, which never exceeds 34.  That some step is taken as long as  *)
(* the process has not ended is left to the runs.                          *)
(***************************************************************************)
THEOREM TestAdvances ==
    TestSpec => /\ [](pc # "exited" => StepsMade \in 0 .. 34)
                /\ [][pc' = "exited" \/ StepsMade' > StepsMade]_<<vars, testVars>>
<1>1. TestInv /\ pc # "exited" => StepsMade \in 0 .. 34
  <2> SUFFICES ASSUME TestInv, pc # "exited" PROVE StepsMade \in 0 .. 34
    OBVIOUS
  <2>1. CASE at[Initial] = "begin"
    BY <2>1 DEF StepsMade
  <2>2. CASE at[Initial] # "begin"
    <3>1. PICK n \in 0 .. 13, r \in 0 .. 3 : HaveWritten(n) /\ round = r
      <4>1. \A r \in 0 .. 3 : 4 * r \in 0 .. 13
        OBVIOUS
      <4>2. \A r \in 0 .. 2 : /\ 4 * r + 1 \in 0 .. 13 /\ 4 * r + 2 \in 0 .. 13 /\ 4 * r + 3 \in 0 .. 13
                              /\ r \in 0 .. 3 /\ r + 1 \in 0 .. 3
        OBVIOUS
      <4>3. ASSUME NEW f, NEW r \in 0 .. 3, \/ TurnOfF(f, r) \/ MainAfterG(f, r) \/ FAgain(f, r) \/ MainAgain(f, r)
                                            \/ \E h \in Contexts : TurnOfG(f, h, r)
            PROVE  \E n \in 0 .. 13, q \in 0 .. 3 : HaveWritten(n) /\ round = q
        BY <4>1, <4>2, <4>3 DEF TurnOfF, MainAfterG, FAgain, MainAgain, TurnOfG
      <4>4. CASE Begins \/ MainAfterF
        BY <4>4 DEF Begins, MainAfterF
      <4> QED BY <4>3, <4>4 DEF TestInv, Ended
    <3>2. StepsMade = 1 + 2 * (n + r) + (IF pc = "switched" THEN 0 ELSE 1)
      BY <2>2, <3>1 DEF StepsMade, HaveWritten
    <3>3. n + r \in Int
      OBVIOUS
    <3>4. StepsMade \in Int /\ StepsMade <= 2 + 2 * (n + r)
      BY <3>2, <3>3, AtMost
    <3>5. StepsMade \in Int /\ StepsMade >= 1 + 2 * (n + r)
      BY <3>2, <3>3, AtLeast
    <3> QED BY <3>4, <3>5
  <2> QED BY <2>1, <2>2
<1>2. IInv /\ TestTyped /\ TestInv /\ [TestNext]_<<vars, testVars>>
         => [pc' = "exited" \/ StepsMade' > StepsMade]_<<vars, testVars>>
  BY TestContinues DEF Continues
<1> QED BY <1>1, <1>2, TestInductive, PTL DEF TestSpec
==============================================================================
