----------------------------- MODULE RoundRobin -----------------------------
(***************************************************************************)
(* What the fiber library promises its clients: the fibers that have not   *)
(* returned take turns in the order they were started, and a fiber that    *)
(* returns simply leaves the turn order.                                   *)
(***************************************************************************)
EXTENDS Integers, Sequences, SequencesExt

CONSTANTS Fibers, Main

VARIABLES order,     \* the unfinished fibers, oldest first
          running    \* whose turn it is

Position(s, f) == CHOOSE i \in 1 .. Len(s) : s[i] = f

Successor(s, f) == s[(Position(s, f) % Len(s)) + 1]

Init == order = <<Main>> /\ running = Main

Start(f) ==
    /\ f \notin ToSet(order)
    /\ order' = Append(order, f)
    /\ running' = Successor(order', running)

Yield ==
    /\ running' = Successor(order, running)
    /\ UNCHANGED order

Finish ==
    /\ running # Main
    /\ order' = RemoveAt(order, Position(order, running))
    /\ running' = Successor(order, running)

Next == (\E f \in Fibers : Start(f)) \/ Yield \/ Finish

Spec == Init /\ [][Next]_<<order, running>>
============================================================================
