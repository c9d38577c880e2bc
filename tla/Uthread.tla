------------------------------ MODULE Uthread ------------------------------
(***************************************************************************)
(* The cooperative fiber library of 12_uthread.c and 12_uthread.s.         *)
(*                                                                         *)
(* Contexts sit in a circular doubly linked list.  Control moves only in   *)
(* uthread_switch, so a step of this module is the code one fiber runs     *)
(* between two switches: the calls that end in a switch (uthread_start,    *)
(* uthread_yield, the return of a fiber's function), and what the resumed  *)
(* fiber does when the switch returns on its stack.  Which of the calls    *)
(* the running fiber makes is the client's choice; main is the join loop   *)
(* of 12_correct_test.c.                                                   *)
(***************************************************************************)
EXTENDS Integers, FiniteSets

CONSTANTS
    Contexts,     \* the addresses a Context can have; malloc may reuse one
    Initial,      \* the statically allocated context of main
    TailStarts    \* TRUE: clients call uthread_start on the tail fiber only

ASSUME ContextsAssumption == Initial \in Contexts /\ IsFiniteSet(Contexts)
ASSUME TailStartsAssumption == TailStarts \in BOOLEAN

VARIABLES
    heap,         \* contexts in use: Initial and those malloc'ed, not freed
    list,         \* the next and prev fields, and the globals head and tail
    is_deleted,   \* the field of that name
    frame,        \* what the stack saved in Context.rsp returns into
    current,      \* the global of that name
    fiber_count,  \* the global of that name
    pc            \* where the processor is

vars == <<heap, list, is_deleted, frame, current, fiber_count, pc>>

(***************************************************************************)
(* "prepared": the frame uthread_prepare wrote, returning into             *)
(* uthread_handle; "in_yield": a uthread_yield called by client code;      *)
(* "in_handle": the uthread_yield at the end of uthread_handle;            *)
(* "running": the fiber is on the processor, rsp is stale.                 *)
(***************************************************************************)
Frames == {"prepared", "in_yield", "in_handle", "running"}

(***************************************************************************)
(* "client": client code of the current fiber; "switched": uthread_switch  *)
(* has just loaded the current fiber's rsp; "exited": the process ended;   *)
(* "wild": uthread_handle returned through the word above its frame, which *)
(* nobody wrote, so what executes next is undefined.                       *)
(***************************************************************************)
Places == {"client", "switched", "exited", "wild"}

TypeOK ==
    /\ heap \subseteq Contexts
    /\ list \in [next : [Contexts -> Contexts], prev : [Contexts -> Contexts],
                 head : Contexts, tail : Contexts]
    /\ is_deleted \in [Contexts -> BOOLEAN]
    /\ frame \in [Contexts -> Frames]
    /\ current \in Contexts
    /\ fiber_count \in Nat
    /\ pc \in Places

----------------------------------------------------------------------------
(* The list operations, on the record of pointers.                         *)

\* Mutant: tail is not moved to the new context.
InsertForgetsTail(l, ctx) ==
    [next |-> [l.next EXCEPT ![l.tail] = ctx, ![ctx] = l.head],
     prev |-> [l.prev EXCEPT ![ctx] = l.tail, ![l.head] = ctx],
     head |-> l.head,
     tail |-> l.tail]

\* Mutant: the new context goes behind head instead of behind tail.
InsertBehindHead(l, ctx) ==
    [next |-> [l.next EXCEPT ![l.head] = ctx, ![ctx] = l.next[l.head]],
     prev |-> [l.prev EXCEPT ![ctx] = l.head, ![l.next[l.head]] = ctx],
     head |-> l.head,
     tail |-> IF l.tail = l.head THEN ctx ELSE l.tail]

\* Link ctx between tail and head.
insert(l, ctx) ==
    [next |-> [l.next EXCEPT ![l.tail] = ctx, ![ctx] = l.head],
     prev |-> [l.prev EXCEPT ![ctx] = l.tail, ![l.head] = ctx],
     head |-> l.head,
     tail |-> ctx]

\* Unlink one of exactly two contexts: the other one becomes the whole list.
ExtractOfTwo(l, last_one) ==
    [next |-> [l.next EXCEPT ![last_one] = last_one],
     prev |-> [l.prev EXCEPT ![last_one] = last_one],
     head |-> last_one,
     tail |-> last_one]

\* Mutant: the successor's prev still names the unlinked context.
ExtractKeepsPrev(l, ctx) ==
    [next |-> [l.next EXCEPT ![l.prev[ctx]] = l.next[ctx]],
     prev |-> l.prev,
     head |-> IF l.head = ctx THEN l.next[ctx] ELSE l.head,
     tail |-> IF l.head # ctx /\ l.tail = ctx THEN l.prev[ctx] ELSE l.tail]

\* Unlink one of three or more.
ExtractOfMany(l, ctx) ==
    [next |-> [l.next EXCEPT ![l.prev[ctx]] = l.next[ctx]],
     prev |-> [l.prev EXCEPT ![l.next[ctx]] = l.prev[ctx]],
     head |-> IF l.head = ctx THEN l.next[ctx] ELSE l.head,
     tail |-> IF l.head # ctx /\ l.tail = ctx THEN l.prev[ctx] ELSE l.tail]

extract(l, ctx) ==
    IF l.prev[ctx] = l.next[ctx] THEN ExtractOfTwo(l, l.prev[ctx])
                                 ELSE ExtractOfMany(l, ctx)

----------------------------------------------------------------------------
Init ==
    /\ heap = {Initial}
    /\ list = [next |-> [c \in Contexts |-> Initial],
               prev |-> [c \in Contexts |-> Initial],
               head |-> Initial, tail |-> Initial]
    /\ is_deleted = [c \in Contexts |-> FALSE]
    /\ frame = [c \in Contexts |-> "running"]
    /\ current = Initial
    /\ fiber_count = 1
    /\ pc = "client"

\* Mutant: one other fiber is not counted.
TryJoinOffByOne == IF fiber_count <= 2 THEN 1 ELSE 0

uthread_try_join == IF fiber_count = 1 THEN 1 ELSE 0

MayStart == pc = "client" /\ (TailStarts => current = list.tail)

\* Mutant: is_deleted keeps what the memory held before.
StartKeepsDeleted(ctx) ==
    /\ MayStart
    /\ ctx \notin heap
    /\ heap' = heap \cup {ctx}
    /\ list' = insert(list, ctx)
    /\ is_deleted' = is_deleted
    /\ frame' = [frame EXCEPT ![ctx] = "prepared", ![current] = "in_yield"]
    /\ fiber_count' = fiber_count + 1
    /\ current' = insert(list, ctx).next[current]
    /\ pc' = "switched"

\* uthread_start: create a context, prepare its stack, then uthread_yield up
\* to the point where uthread_switch has saved the caller and left it.
uthread_start(ctx) ==
    /\ MayStart
    /\ ctx \notin heap
    /\ heap' = heap \cup {ctx}
    /\ list' = insert(list, ctx)
    /\ is_deleted' = [is_deleted EXCEPT ![ctx] = FALSE]
    /\ frame' = [frame EXCEPT ![ctx] = "prepared", ![current] = "in_yield"]
    /\ fiber_count' = fiber_count + 1
    /\ current' = insert(list, ctx).next[current]
    /\ pc' = "switched"

\* uthread_start when malloc returns NULL: MALLOC ends the process.
StartFails ==
    /\ MayStart
    /\ pc' = "exited"
    /\ UNCHANGED <<heap, list, is_deleted, frame, current, fiber_count>>

\* Mutant: every yield goes to main, and main's to its successor.
SwitchFavoursMain(saved) ==
    /\ frame' = [frame EXCEPT ![current] = saved]
    /\ current' = IF current = list.head THEN list.next[list.head] ELSE list.head
    /\ pc' = "switched"
    /\ UNCHANGED <<heap, list, fiber_count>>

\* The first half of uthread_yield: save the caller, go to its successor.
SwitchFrom(saved) ==
    /\ frame' = [frame EXCEPT ![current] = saved]
    /\ current' = list.next[current]
    /\ pc' = "switched"
    /\ UNCHANGED <<heap, list, fiber_count>>

\* Client code calls uthread_yield.
uthread_yield ==
    /\ pc = "client"
    /\ SwitchFrom("in_yield")
    /\ UNCHANGED is_deleted

\* Mutant: the context is not marked deleted.
ReturnUnmarked ==
    /\ pc = "client"
    /\ current # Initial
    /\ SwitchFrom("in_handle")
    /\ UNCHANGED is_deleted

\* A fiber's function returns into uthread_handle.
FunctionReturns ==
    /\ pc = "client"
    /\ current # Initial
    /\ is_deleted' = [is_deleted EXCEPT ![current] = TRUE]
    /\ SwitchFrom("in_handle")

\* main leaves its join loop and returns, which ends the process.
MainReturns ==
    /\ pc = "client"
    /\ current = Initial
    /\ uthread_try_join = 1
    /\ pc' = "exited"
    /\ UNCHANGED <<heap, list, is_deleted, frame, current, fiber_count>>

(***************************************************************************)
(* What runs after the switch depends on the frame that was resumed.       *)
(***************************************************************************)

\* A prepared frame enters uthread_handle, which calls the fiber's function.
uthread_handle ==
    /\ pc = "switched"
    /\ frame[current] = "prepared"
    /\ frame' = [frame EXCEPT ![current] = "running"]
    /\ pc' = "client"
    /\ UNCHANGED <<heap, list, is_deleted, current, fiber_count>>

\* Mutant: the context is unlinked but not freed.
ReclaimLeaks ==
    LET previous == list.prev[current]
    IN  IF is_deleted[previous]
        THEN /\ list' = extract(list, previous)
             /\ fiber_count' = fiber_count - 1
             /\ UNCHANGED heap
        ELSE UNCHANGED <<list, heap, fiber_count>>

\* Mutant: is_deleted is not looked at.
ReclaimUntested ==
    LET previous == list.prev[current]
    IN  IF previous # current
        THEN /\ list' = extract(list, previous)
             /\ heap' = heap \ {previous}
             /\ fiber_count' = fiber_count - 1
        ELSE UNCHANGED <<list, heap, fiber_count>>

\* The second half of uthread_yield: reclaim the predecessor if it ended.
ReclaimPrevious ==
    LET previous == list.prev[current]
    IN  IF is_deleted[previous]
        THEN /\ list' = extract(list, previous)
             /\ heap' = heap \ {previous}
             /\ fiber_count' = fiber_count - 1
        ELSE UNCHANGED <<list, heap, fiber_count>>

\* A frame saved inside uthread_yield returns to client code, or, when it was
\* uthread_handle that yielded, to the end of uthread_handle and beyond it.
YieldReturns ==
    /\ pc = "switched"
    /\ frame[current] \in {"in_yield", "in_handle"}
    /\ ReclaimPrevious
    /\ pc' = IF frame[current] = "in_yield" THEN "client" ELSE "wild"
    /\ frame' = [frame EXCEPT ![current] = "running"]
    /\ UNCHANGED <<is_deleted, current>>

Next ==
    \/ \E ctx \in Contexts : uthread_start(ctx)
    \/ StartFails
    \/ uthread_yield
    \/ FunctionReturns
    \/ MainReturns
    \/ uthread_handle
    \/ YieldReturns

(***************************************************************************)
(* The processor always runs the code of the current fiber, and clients    *)
(* are cooperative: each eventually calls the library or returns.          *)
(***************************************************************************)
Spec == Init /\ [][Next]_vars /\ WF_vars(Next)

----------------------------------------------------------------------------
Stopped == pc \in {"exited", "wild"}

Unfinished == {c \in heap : ~is_deleted[c]}

\* s lists the contexts in use in the order next links them, head first.
IsRingOrder(s) ==
    /\ s \in [0 .. fiber_count - 1 -> heap]
    /\ s[0] = list.head
    /\ \A i, j \in 0 .. fiber_count - 1 : s[i] = s[j] => i = j
    /\ \A c \in heap : \E i \in 0 .. fiber_count - 1 : s[i] = c
    /\ \A i \in 1 .. fiber_count - 1 : list.next[s[i - 1]] = s[i]
    /\ list.tail = s[fiber_count - 1]

\* The list is one ring: from head, next visits every context in use once and
\* leaves the tail for head again (the pointer surgery of insert and extract).
\* That fiber_count is the length of the ring is part of it.
OneRing ==
    \E s \in [0 .. fiber_count - 1 -> heap] : IsRingOrder(s)

\* No pointer the library follows leads to freed memory: the globals and the
\* fields of every listed context name contexts in use, next and prev undo
\* each other, and main stays in front.
ListInv ==
    /\ Initial \in heap
    /\ current \in heap
    /\ list.head = Initial
    /\ list.tail \in heap
    /\ list.next[list.tail] = list.head
    /\ \A c \in heap : /\ list.next[c] \in heap
                       /\ list.prev[c] \in heap
                       /\ list.prev[list.next[c]] = c
                       /\ list.next[list.prev[c]] = c

\* fiber_count, which decides when main may leave its join loop, is the number
\* of contexts in use.
CountExact == IsFiniteSet(heap) /\ fiber_count = Cardinality(heap)

\* delete frees only the context of a fiber whose function returned, and never
\* the one whose stack the processor is using when it calls free.
FreesOnlyFinished ==
    [][\A c \in heap \ heap' : is_deleted[c] /\ c # current /\ c # Initial]_vars

\* What makes NoWildReturn hold when fibers are started from the tail only: no
\* frame but the current one is fresh, and a finished context is the
\* predecessor of a fiber that is about to reclaim it.
HandoverInv ==
    /\ ~is_deleted[Initial]
    /\ TailStarts =>
        /\ pc # "wild"
        /\ pc = "client" =>
              \A c \in heap : /\ ~is_deleted[c]
                              /\ c # current => frame[c] = "in_yield"
        /\ pc = "switched" =>
              \A c \in heap :
                 /\ is_deleted[c] => /\ c = list.prev[current]
                                     /\ c # current
                                     /\ frame[current] = "in_yield"
                 /\ ~is_deleted[c] => \/ frame[c] = "in_yield"
                                      \/ c = current /\ frame[c] = "prepared"

\* A finished fiber is never switched to again: its uthread_handle has nowhere
\* to return.  The code relies on "if previous is marked deleted, delete it".
NoWildReturn == pc # "wild"

\* uthread_try_join, as documented: 1 when the calling fiber is the only one
\* that is not finished, 0 otherwise.
TryJoinExact ==
    pc = "client" => ((uthread_try_join = 1) <=> (Unfinished = {current}))

\* A fiber that has not finished gets the processor, however the others
\* start, yield and return: insert only adds behind the tail and main is the
\* head, so a new fiber overtakes nobody twice.
EveryFiberRuns ==
    \A c \in Contexts :
        (c \in Unfinished) ~> (Stopped \/ current = c)

\* The memory of a finished fiber is freed.
EveryFinishedIsFreed ==
    \A c \in Contexts :
        (c \in heap /\ is_deleted[c]) ~> (Stopped \/ c \notin heap)
============================================================================
