------------------------- MODULE UthreadRefinement -------------------------
(***************************************************************************)
(* The linked list of contexts, with its finished members left out, is the *)
(* turn order of RoundRobin.                                               *)
(***************************************************************************)
EXTENDS Uthread, Sequences

\* The i-th context met when following next from head.
Nth == LET walk[i \in 0 .. Cardinality(Contexts)] ==
             IF i = 0 THEN list.head ELSE list.next[walk[i - 1]]
       IN  walk

\* The first fiber_count of them, those that have finished left out.
TurnOrder == LET order[i \in 0 .. fiber_count] ==
                   IF i = 0 THEN <<>>
                   ELSE IF is_deleted[Nth[i - 1]] THEN order[i - 1]
                   ELSE Append(order[i - 1], Nth[i - 1])
             IN  order[fiber_count]

RR == INSTANCE RoundRobin
        WITH Fibers <- Contexts, Main <- Initial,
             order <- TurnOrder, running <- current

\* Every step of the library is a turn of the round robin or changes nothing
\* its clients see: the two halves of a yield, the reclaiming of a finished
\* context and its reuse by malloc are invisible, and nobody is skipped.
RefinesRoundRobin == RR!Spec
============================================================================
