----------------------------- MODULE TokenPool -----------------------------
(***************************************************************************)
(* A counting semaphore whose users may die: the contract of the jobserver *)
(* pipe.                                                                   *)
(***************************************************************************)
EXTENDS Integers, FiniteSets

CONSTANTS Users, Size

VARIABLES free,      \* the tokens nobody has
          holding    \* the users that have one

Init == free = Size /\ holding = {}

Acquire(u) ==
    /\ free > 0
    /\ u \notin holding
    /\ free' = free - 1
    /\ holding' = holding \cup {u}

Release(u) ==
    /\ u \in holding
    /\ free' = free + 1
    /\ holding' = holding \ {u}

\* The user dies with its token.
Drop(u) ==
    /\ u \in holding
    /\ holding' = holding \ {u}
    /\ UNCHANGED free

Next == \E u \in Users : Acquire(u) \/ Release(u) \/ Drop(u)

Spec == Init /\ [][Next]_<<free, holding>>
============================================================================
