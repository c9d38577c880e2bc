----------------------------- MODULE Jobserver -----------------------------
(***************************************************************************)
(* 05_Jobserver.c: run every executable file of a directory tree, at most  *)
(* K at a time.  Each directory is walked by a process of its own, the     *)
(* traverser; each file is run by a grandchild whose parent, the watcher,  *)
(* waits for it.  All of them share one pipe used as a semaphore: a byte   *)
(* in it is the right to run one job.                                      *)
(*                                                                         *)
(* A step is one system call together with the local code up to the next   *)
(* one.  readdir may return the entries in any order.                      *)
(***************************************************************************)
EXTENDS Integers, FiniteSets

CONSTANTS
    Dirs, Root,     \* the directories whose names do not start with a dot
    Parent,         \* the directory each of them but Root is in
    Files,          \* the executable regular files
    DirOf,          \* the directory each of them is in
    K,              \* the argument of the program
    PipeCapacity,   \* the bytes a pipe buffers: 65536 on Linux
    CallsMayFail    \* whether fork and the calls on directories, files and children may fail

ASSUME TreeAssumption ==
    /\ IsFiniteSet(Dirs) /\ Root \in Dirs /\ Parent \in [Dirs \ {Root} -> Dirs]
    /\ IsFiniteSet(Files) /\ DirOf \in [Files -> Dirs]
    \* every directory is below Root
    /\ \A S \in SUBSET Dirs :
          Root \in S /\ (\A e \in Dirs \ {Root} : Parent[e] \in S => e \in S) => S = Dirs
ASSUME SizeAssumption == K \in Nat /\ PipeCapacity \in Nat
ASSUME CallsAssumption == CallsMayFail \in BOOLEAN

VARIABLES
    tpc,        \* where the traverser of each directory is
    jpc,        \* how far the job of each file has come
    pipe,       \* the number of bytes in the pipe
    readers,    \* the processes that have the reading end open
    writers     \* the processes that have the writing end open

vars == <<tpc, jpc, pipe, readers, writers>>

\* A traverser is named by its directory.
Watcher(f) == <<"watcher", f>>
Grandson(f) == <<"grandson", f>>
ASSUME NamesAssumption ==
    \A f \in Files : Watcher(f) \notin Dirs /\ Grandson(f) \notin Dirs
Processes == Dirs \cup {Watcher(f) : f \in Files} \cup {Grandson(f) : f \in Files}

(***************************************************************************)
(* "init": main, before traverse_and_run; "subdirs" and "files": the two   *)
(* loops of traverse_and_run; "spawn": between semaphore_down and the fork *)
(* of the watcher; "wait": in WAIT; "failed": ended by err.                *)
(***************************************************************************)
TraverserPlaces ==
    {"unborn", "init", "subdirs", "files", "spawn", "wait", "exited", "failed"}

(***************************************************************************)
(* "listed": no token read for it yet; "token": its traverser has one;     *)
(* "watcher", "closed": the watcher is forked, has closed its reading end; *)
(* "grandson", "clean": the grandson is forked, has closed its writing     *)
(* end; "running", "exited": the user's program, which replaced it;        *)
(* "reaped", "upped", "done": the watcher after WAITPID, semaphore_up and  *)
(* exit; "killed": the watcher got SIGPIPE in semaphore_up; "lost": a call *)
(* failed and the process that had the token ended.                        *)
(***************************************************************************)
WithToken == {"token", "watcher", "closed", "grandson", "clean", "running",
              "exited", "reaped"}
JobPlaces == WithToken \cup {"listed", "upped", "done", "killed", "lost"}

TypeOK ==
    /\ tpc \in [Dirs -> TraverserPlaces]
    /\ jpc \in [Files -> JobPlaces]
    /\ pipe \in Nat
    /\ readers \subseteq Processes
    /\ writers \subseteq Processes

JobsIn(places) == {f \in Files : jpc[f] \in places}

----------------------------------------------------------------------------
Init ==
    /\ tpc = [d \in Dirs |-> IF d = Root THEN "init" ELSE "unborn"]
    /\ jpc = [f \in Files |-> "listed"]
    /\ pipe = 0
    /\ readers = {Root}
    /\ writers = {Root}

\* The end of a process closes its ends of the pipe.
EndOf(p) ==
    /\ readers' = readers \ {p}
    /\ writers' = writers \ {p}

\* A forked process has the ends its parent had.
ForkOf(parent, child) ==
    /\ readers' = IF parent \in readers THEN readers \cup {child} ELSE readers
    /\ writers' = IF parent \in writers THEN writers \cup {child} ELSE writers

\* semaphore_init writes K bytes in one call, which waits while the pipe is full.
semaphore_init ==
    /\ tpc[Root] = "init"
    /\ IF pipe < K
       THEN pipe < PipeCapacity /\ pipe' = pipe + 1 /\ UNCHANGED tpc
       ELSE tpc' = [tpc EXCEPT ![Root] = "subdirs"] /\ UNCHANGED pipe
    /\ UNCHANGED <<jpc, readers, writers>>

Unvisited(d) == {e \in Dirs \ {Root} : Parent[e] = d /\ tpc[e] = "unborn"}

\* The first loop of d forks a traverser for a subdirectory.
ForkTraverser(d, e) ==
    /\ tpc[d] = "subdirs"
    /\ e \in Unvisited(d)
    /\ tpc' = [tpc EXCEPT ![e] = "subdirs"]
    /\ ForkOf(d, e)
    /\ UNCHANGED <<jpc, pipe>>

\* opendir, readdir, fork or stat fails in one of the two loops, since a job may
\* have deleted what the directory lists: err ends the traverser.
TraverserFails(d) ==
    /\ CallsMayFail
    /\ tpc[d] \in {"subdirs", "files"}
    /\ tpc' = [tpc EXCEPT ![d] = "failed"]
    /\ EndOf(d)
    /\ UNCHANGED <<jpc, pipe>>

\* Mutant: the reading end is closed before the second loop.
EndOfSubdirsCloses(d) ==
    /\ tpc[d] = "subdirs"
    /\ Unvisited(d) = {}
    /\ tpc' = [tpc EXCEPT ![d] = "files"]
    /\ readers' = readers \ {d}
    /\ UNCHANGED <<jpc, pipe, writers>>

EndOfSubdirs(d) ==
    /\ tpc[d] = "subdirs"
    /\ Unvisited(d) = {}
    /\ tpc' = [tpc EXCEPT ![d] = "files"]
    /\ UNCHANGED <<jpc, pipe, readers, writers>>

\* Mutant: the reading end does not block.
ReadDoesNotBlock == TRUE

\* read returns: with a byte, or with 0, which READ takes for success.
ReadReturns == pipe > 0 \/ writers = {}

semaphore_down(d, f) ==
    /\ tpc[d] = "files"
    /\ DirOf[f] = d
    /\ jpc[f] = "listed"
    /\ ReadReturns
    /\ pipe' = IF pipe > 0 THEN pipe - 1 ELSE pipe
    /\ tpc' = [tpc EXCEPT ![d] = "spawn"]
    /\ jpc' = [jpc EXCEPT ![f] = "token"]
    /\ UNCHANGED <<readers, writers>>

\* runWatcher, as the traverser executes it.
runWatcher(d, f) ==
    /\ tpc[d] = "spawn"
    /\ DirOf[f] = d
    /\ jpc[f] = "token"
    /\ tpc' = [tpc EXCEPT ![d] = "files"]
    /\ jpc' = [jpc EXCEPT ![f] = "watcher"]
    /\ ForkOf(d, Watcher(f))
    /\ UNCHANGED pipe

\* Mutant: the traverser goes on and will try again, without giving the byte back.
RetryWithoutUp(d, f) ==
    /\ CallsMayFail
    /\ tpc[d] = "spawn"
    /\ DirOf[f] = d
    /\ jpc[f] = "token"
    /\ tpc' = [tpc EXCEPT ![d] = "files"]
    /\ jpc' = [jpc EXCEPT ![f] = "listed"]
    /\ UNCHANGED <<pipe, readers, writers>>

\* The first fork of runWatcher fails.
runWatcherFails(d, f) ==
    /\ CallsMayFail
    /\ tpc[d] = "spawn"
    /\ DirOf[f] = d
    /\ jpc[f] = "token"
    /\ tpc' = [tpc EXCEPT ![d] = "failed"]
    /\ jpc' = [jpc EXCEPT ![f] = "lost"]
    /\ EndOf(d)
    /\ UNCHANGED pipe

\* The second loop ends and both ends of the pipe are closed.
EndOfFiles(d) ==
    /\ tpc[d] = "files"
    /\ \A f \in Files : DirOf[f] = d => jpc[f] # "listed"
    /\ tpc' = [tpc EXCEPT ![d] = "wait"]
    /\ readers' = readers \ {d}
    /\ writers' = writers \ {d}
    /\ UNCHANGED <<jpc, pipe>>

\* Mutant: the traverser does not wait.
ExitsAtOnce(d) ==
    /\ tpc[d] = "wait"
    /\ tpc' = [tpc EXCEPT ![d] = "exited"]
    /\ EndOf(d)
    /\ UNCHANGED <<jpc, pipe>>

\* wait has returned every child, watcher or traverser: exit.
WaitReturns(d) ==
    /\ tpc[d] = "wait"
    /\ \A e \in Dirs \ {Root} : Parent[e] = d => tpc[e] \in {"exited", "failed"}
    /\ \A f \in Files : DirOf[f] = d => jpc[f] \in {"done", "killed", "lost"}
    /\ tpc' = [tpc EXCEPT ![d] = "exited"]
    /\ EndOf(d)
    /\ UNCHANGED <<jpc, pipe>>

traverse_and_run(d) ==
    \/ \E e \in Dirs \ {Root} : ForkTraverser(d, e)
    \/ EndOfSubdirs(d)
    \/ \E f \in Files : semaphore_down(d, f) \/ runWatcher(d, f) \/ runWatcherFails(d, f)
    \/ EndOfFiles(d)
    \/ WaitReturns(d)

Traverser(d) == traverse_and_run(d) \/ TraverserFails(d)

----------------------------------------------------------------------------
(* The watcher of f and its child.                                         *)

JobStep(f, from, to) ==
    /\ jpc[f] = from
    /\ jpc' = [jpc EXCEPT ![f] = to]
    /\ UNCHANGED tpc

WatcherCloses(f) ==
    /\ JobStep(f, "watcher", "closed")
    /\ readers' = readers \ {Watcher(f)}
    /\ UNCHANGED <<pipe, writers>>

ForkGrandson(f) ==
    /\ JobStep(f, "closed", "grandson")
    /\ ForkOf(Watcher(f), Grandson(f))
    /\ UNCHANGED pipe

\* The second fork of runWatcher fails: err ends the watcher, token and all.
ForkGrandsonFails(f) ==
    /\ CallsMayFail
    /\ JobStep(f, "closed", "lost")
    /\ EndOf(Watcher(f))
    /\ UNCHANGED pipe

\* Mutant: the user's program inherits the writing end.
GrandsonKeepsEnd(f) ==
    /\ JobStep(f, "grandson", "clean")
    /\ UNCHANGED <<pipe, readers, writers>>

GrandsonCloses(f) ==
    /\ JobStep(f, "grandson", "clean")
    /\ writers' = writers \ {Grandson(f)}
    /\ UNCHANGED <<pipe, readers>>

\* execv replaces the grandson by the user's program, or fails and err ends it.
EXECV(f) ==
    /\ JobStep(f, "clean", "running")
    /\ UNCHANGED <<pipe, readers, writers>>

JobEnds(f) ==
    /\ JobStep(f, "clean", "exited") \/ JobStep(f, "running", "exited")
    /\ EndOf(Grandson(f))
    /\ UNCHANGED pipe

WAITPID(f) ==
    /\ JobStep(f, "exited", "reaped")
    /\ UNCHANGED <<pipe, readers, writers>>

\* The job has ended, but its status is gone because SIGCHLD was ignored when the
\* program was started: err ends the watcher, token and all.
WAITPIDFails(f) ==
    /\ CallsMayFail
    /\ JobStep(f, "exited", "lost")
    /\ EndOf(Watcher(f))
    /\ UNCHANGED pipe

\* Mutants: nothing is written; one byte too many is.
UpForgets(f) ==
    /\ JobStep(f, "reaped", "upped")
    /\ readers # {}
    /\ UNCHANGED <<pipe, readers, writers>>
UpTwice(f) ==
    /\ JobStep(f, "reaped", "upped")
    /\ readers # {}
    /\ pipe' = pipe + 2
    /\ UNCHANGED <<readers, writers>>

semaphore_up(f) ==
    /\ JobStep(f, "reaped", "upped")
    /\ readers # {}
    /\ pipe < PipeCapacity
    /\ pipe' = pipe + 1
    /\ UNCHANGED <<readers, writers>>

\* semaphore_up when nobody has the reading end open: SIGPIPE.
UpIsKilled(f) ==
    /\ JobStep(f, "reaped", "killed")
    /\ readers = {}
    /\ EndOf(Watcher(f))
    /\ UNCHANGED pipe

WatcherExits(f) ==
    /\ JobStep(f, "upped", "done")
    /\ EndOf(Watcher(f))
    /\ UNCHANGED pipe

Job(f) ==
    \/ WatcherCloses(f)
    \/ ForkGrandson(f)
    \/ ForkGrandsonFails(f)
    \/ GrandsonCloses(f)
    \/ EXECV(f)
    \/ JobEnds(f)
    \/ WAITPID(f)
    \/ WAITPIDFails(f)
    \/ semaphore_up(f)
    \/ UpIsKilled(f)
    \/ WatcherExits(f)

Next ==
    \/ semaphore_init
    \/ \E d \in Dirs : Traverser(d)
    \/ \E f \in Files : Job(f)

(***************************************************************************)
(* The kernel schedules every process, and the user's programs terminate.  *)
(* A traverser that waits for a token is not rescued by a call that fails. *)
(***************************************************************************)
Fairness ==
    /\ WF_vars(semaphore_init)
    /\ \A d \in Dirs : WF_vars(traverse_and_run(d))
    /\ \A f \in Files : WF_vars(Job(f))

Spec == Init /\ [][Next]_vars /\ Fairness

----------------------------------------------------------------------------
Started == tpc[Root] # "init"

Tokens == pipe + Cardinality(JobsIn(WithToken)) + Cardinality(JobsIn({"killed", "lost"}))

\* At most K user programs run at a time, over all directories together.
JobLimit == Cardinality(JobsIn({"clean", "running"})) <= K

\* No token is made or vanishes unaccounted: each of the K bytes written at
\* the start is in the pipe, with one job, or gone with a dead process.
TokensConserved == Started => Tokens = K

\* The ends of the pipe a process has open are those it still needs: the user's
\* programs have none (they could run jobs of their own, or keep the reading
\* end alive), a traverser has both for as long as it will call semaphore_down,
\* so that read never returns 0 there.
EndsMatchRoles ==
    /\ \A d \in Dirs :
          /\ d \in readers <=> tpc[d] \in {"init", "subdirs", "files", "spawn"}
          /\ d \in writers <=> tpc[d] \in {"init", "subdirs", "files", "spawn"}
    /\ \A f \in Files :
          /\ Watcher(f) \in readers <=> jpc[f] = "watcher"
          /\ Watcher(f) \in writers <=>
                jpc[f] \in (WithToken \ {"token"}) \cup {"upped"}
          /\ Grandson(f) \notin readers
          /\ Grandson(f) \in writers <=> jpc[f] = "grandson"

\* A watcher killed by SIGPIPE takes its token with it.  That is harmless only
\* because no process that could still ask for one exists, now or later.
SigpipeIsHarmless ==
    JobsIn({"killed"}) # {} =>
        /\ \A d \in Dirs : tpc[d] \in {"unborn", "wait", "exited", "failed"}
        /\ \A d \in Dirs : tpc[d] = "unborn" =>
              d # Root /\ tpc[Parent[d]] \in {"unborn", "failed"}

\* When the root process exits and no call has failed, the tree is built: every
\* executable of every directory ran and was waited for.
ExitMeansBuilt ==
    /\ tpc[Root] = "exited"
    /\ \A d \in Dirs : tpc[d] # "failed"
    /\ JobsIn({"lost"}) = {}
    => JobsIn({"done", "killed"}) = Files

\* A call that fails may cost its token for good; short of losing all K of them
\* that way, every traverser ends and nobody waits for ever in semaphore_down.
Completes ==
    <>[](\/ \A d \in Dirs : tpc[d] \in {"unborn", "exited", "failed"}
         \/ Cardinality(JobsIn({"lost"})) = K)

(***************************************************************************)
(* What the pipe implements.                                               *)
(***************************************************************************)
Pool == INSTANCE TokenPool
          WITH Users <- Files, Size <- K,
               free <- IF Started THEN pipe ELSE K,
               holding <- JobsIn(WithToken)

\* The pipe, the forks and the deaths of processes together are a pool of K
\* tokens: a job takes one that is free, gives it back once, or loses it.
ImplementsPool == Pool!Spec
============================================================================
