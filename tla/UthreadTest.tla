---------------------------- MODULE UthreadTest ----------------------------
(***************************************************************************)
(* 12_correct_test.c: main starts f and joins; f starts g three times and  *)
(* yields after each; everybody writes its number into thread_pids.  The   *)
(* client code between two calls of the library is part of the step that   *)
(* makes the second call.                                                  *)
(***************************************************************************)
EXTENDS Uthread, Sequences, SequencesExt

VARIABLES
    role,          \* the function each context's fiber runs
    at,            \* where in it the fiber is
    round,         \* the loop variable of f
    thread_pids    \* the numbers written; cur_id is its length

testVars == <<role, at, round, thread_pids>>

ans_pid_rep == <<1, 2, 0, 0, 1, 2, 0, 0, 1, 2, 0, 0, 1, 0>>

TestInit ==
    /\ Init
    /\ role = [c \in Contexts |-> "main"]
    /\ at = [c \in Contexts |-> "begin"]
    /\ round = 0
    /\ thread_pids = <<>>

RunningAt(function, place) ==
    pc = "client" /\ role[current] = function /\ at[current] = place

Goes(place) == at' = [at EXCEPT ![current] = place]

\* uthread_start(function, ...), after which the caller is at place.
Starts(function, place) ==
    \E ctx \in Contexts :
        /\ uthread_start(ctx)
        /\ role' = [role EXCEPT ![ctx] = function]
        /\ at' = [at EXCEPT ![ctx] = "begin", ![current] = place]

Writes(pid) == thread_pids' = Append(thread_pids, pid)

\* Mutant: main starts a second f when it runs again.
MainStartsTwice ==
    /\ RunningAt("main", "begin")
    /\ Starts("f", IF Len(thread_pids) = 0 THEN "begin" ELSE "loop")
    /\ UNCHANGED <<round, thread_pids>>

MainStarts ==
    /\ RunningAt("main", "begin")
    /\ Starts("f", "loop")
    /\ UNCHANGED <<round, thread_pids>>

\* Write 0, then leave the loop or yield, as uthread_try_join says.
MainLoops ==
    /\ RunningAt("main", "loop")
    /\ Writes(0)
    /\ \/ uthread_try_join = 0 /\ uthread_yield /\ UNCHANGED at
       \/ MainReturns /\ Goes("returned")
    /\ UNCHANGED <<role, round>>

g == /\ RunningAt("g", "begin")
     /\ Writes(2)
     /\ FunctionReturns
     /\ Goes("returned")
     /\ UNCHANGED <<role, round>>

\* f writes 1 and starts g, first and after each of two yields.
FStarts ==
    /\ RunningAt("f", "begin") \/ (RunningAt("f", "yielded") /\ round < 3)
    /\ Writes(1)
    /\ Starts("g", "started")
    /\ UNCHANGED round

FYields ==
    /\ RunningAt("f", "started")
    /\ uthread_yield
    /\ Goes("yielded")
    /\ round' = round + 1
    /\ UNCHANGED <<role, thread_pids>>

FReturns ==
    /\ RunningAt("f", "yielded")
    /\ round = 3
    /\ Writes(1)
    /\ FunctionReturns
    /\ Goes("returned")
    /\ UNCHANGED <<role, round>>

\* malloc fails in one of the calls of uthread_start.
TestExits ==
    /\ \/ RunningAt("main", "begin") \/ RunningAt("f", "begin")
       \/ RunningAt("f", "yielded") /\ round < 3
    /\ StartFails
    /\ UNCHANGED testVars

Resumes == (uthread_handle \/ YieldReturns) /\ UNCHANGED testVars

TestNext ==
    \/ MainStarts \/ MainLoops \/ g \/ FStarts \/ FYields \/ FReturns
    \/ TestExits \/ Resumes

TestSpec ==
    TestInit /\ [][TestNext]_<<vars, testVars>> /\ WF_<<vars, testVars>>(TestNext)

----------------------------------------------------------------------------
\* What check_pids asserts, at every step of the way and not only at the end:
\* so far the fibers have run in the order of ans_pid_rep.
RunsInOrder == IsPrefix(thread_pids, ans_pid_rep)

\* main gets to check_pids, with all of ans_pid_rep written, or malloc failed.
TestEnds == <>(pc = "exited" /\ (at[Initial] = "returned" => thread_pids = ans_pid_rep))

\* The test stays within the use of the library for which no finished fiber is
\* ever resumed: it calls uthread_start on the tail fiber only.
TailUse == INSTANCE Uthread WITH TailStarts <- TRUE
StartsFromTail == TailUse!Spec
============================================================================
