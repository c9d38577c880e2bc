-------------------------- MODULE JobserverProofs --------------------------
(***************************************************************************)
(* What holds of Jobserver for every tree, every K and every pipe size.    *)
(***************************************************************************)
EXTENDS Jobserver, FiniteSetTheorems, TLAPS

Held == JobsIn(WithToken)
Dead == JobsIn({"killed", "lost"})

\* Before the semaphore is filled only main exists.
NotStartedInv ==
    ~Started => /\ pipe <= K
                /\ \A d \in Dirs \ {Root} : tpc[d] = "unborn"
                /\ \A f \in Files : jpc[f] = "listed"

\* A directory is reached in the first loop of its parent or never; what a
\* traverser has left behind when it waits and when it exits.
TreeInv ==
    /\ tpc[Root] # "unborn"
    /\ \A e \in Dirs \ {Root} :
          tpc[e] = "unborn" => tpc[Parent[e]] \in {"unborn", "init", "subdirs", "failed"}
    /\ \A d \in Dirs : tpc[d] = "exited" =>
          /\ \A e \in Dirs \ {Root} : Parent[e] = d => tpc[e] \in {"exited", "failed"}
          /\ \A f \in Files : DirOf[f] = d => jpc[f] \in {"done", "killed", "lost"}

(***************************************************************************)
(* The inductive invariant.  TokensConserved depends on EndsMatchRoles:    *)
(* semaphore_down takes a byte, and does not return at end of file, because*)
(* its caller holds the writing end.                                       *)
(***************************************************************************)
IInv ==
    /\ TypeOK
    /\ EndsMatchRoles
    /\ NotStartedInv
    /\ TokensConserved
    /\ SigpipeIsHarmless
    /\ TreeInv
----------------------------------------------------------------------------
(* How the sets of jobs change when one job moves.                         *)

\* The jobs at any set of places are finitely many.
LEMMA JobsFinite == \A P : IsFiniteSet(JobsIn(P)) /\ Cardinality(JobsIn(P)) \in Nat
<1> SUFFICES ASSUME NEW P PROVE IsFiniteSet(JobsIn(P)) /\ Cardinality(JobsIn(P)) \in Nat
  OBVIOUS
<1>1. JobsIn(P) \subseteq Files
  BY DEF JobsIn
<1> QED BY <1>1, FS_Subset, FS_CardinalityType, TreeAssumption

\* A job that moves inside a set of places does not change who is there.
LEMMA MoveWithin ==
    ASSUME TypeOK, NEW f \in Files, NEW to \in JobPlaces,
           jpc' = [jpc EXCEPT ![f] = to],
           NEW P, jpc[f] \in P <=> to \in P
    PROVE  JobsIn(P)' = JobsIn(P)
BY DEF TypeOK, JobsIn

\* A job that moves into a set of places makes one more there.
LEMMA MoveIn ==
    ASSUME TypeOK, NEW f \in Files, NEW to \in JobPlaces,
           jpc' = [jpc EXCEPT ![f] = to],
           NEW P, jpc[f] \notin P, to \in P
    PROVE  /\ JobsIn(P)' = JobsIn(P) \cup {f}
           /\ f \notin JobsIn(P)
           /\ Cardinality(JobsIn(P)') = Cardinality(JobsIn(P)) + 1
<1>1. JobsIn(P)' = JobsIn(P) \cup {f} /\ f \notin JobsIn(P)
  BY DEF TypeOK, JobsIn
<1> QED BY <1>1, JobsFinite, FS_AddElement

\* A job that moves out of a set of places makes one less there.
LEMMA MoveOut ==
    ASSUME TypeOK, NEW f \in Files, NEW to \in JobPlaces,
           jpc' = [jpc EXCEPT ![f] = to],
           NEW P, jpc[f] \in P, to \notin P
    PROVE  /\ JobsIn(P)' = JobsIn(P) \ {f}
           /\ f \in JobsIn(P)
           /\ Cardinality(JobsIn(P)') = Cardinality(JobsIn(P)) - 1
<1>1. JobsIn(P)' = JobsIn(P) \ {f} /\ f \in JobsIn(P)
  BY DEF TypeOK, JobsIn
<1> QED BY <1>1, JobsFinite, FS_RemoveElement

\* The three cases together: how the move of one job changes a count.
LEMMA MoveCount ==
    ASSUME TypeOK, NEW f \in Files, NEW to \in JobPlaces, jpc' = [jpc EXCEPT ![f] = to], NEW P
    PROVE  Cardinality(JobsIn(P))' =
             IF jpc[f] \in P
             THEN IF to \in P THEN Cardinality(JobsIn(P)) ELSE Cardinality(JobsIn(P)) - 1
             ELSE IF to \in P THEN Cardinality(JobsIn(P)) + 1 ELSE Cardinality(JobsIn(P))
<1>1. CASE jpc[f] \in P <=> to \in P
  BY <1>1, MoveWithin
<1>2. CASE jpc[f] \in P /\ to \notin P
  BY <1>2, MoveOut
<1>3. CASE jpc[f] \notin P /\ to \in P
  BY <1>3, MoveIn
<1> QED BY <1>1, <1>2, <1>3
----------------------------------------------------------------------------
\* The jobserver starts in the invariant.
LEMMA InitInv == Init => IInv
<1> SUFFICES ASSUME Init PROVE IInv
  OBVIOUS
<1> USE TreeAssumption, NamesAssumption, SizeAssumption
<1>1. TypeOK
  BY DEF Init, TypeOK, TraverserPlaces, JobPlaces, Processes
<1>2. EndsMatchRoles
  BY DEF Init, EndsMatchRoles, WithToken
<1>3. NotStartedInv /\ TokensConserved /\ TreeInv
  BY DEF Init, NotStartedInv, TokensConserved, TreeInv, Started
<1>4. SigpipeIsHarmless
  BY DEF Init, SigpipeIsHarmless, JobsIn
<1> QED BY <1>1, <1>2, <1>3, <1>4 DEF IInv

\* The processes of different jobs, and the directories', are different processes.
LEMMA Names ==
    /\ \A f, g \in Files : Watcher(f) = Watcher(g) => f = g
    /\ \A f, g \in Files : Grandson(f) = Grandson(g) => f = g
    /\ \A f, g \in Files : Watcher(f) # Grandson(g)
    /\ \A f \in Files : /\ Watcher(f) \notin Dirs /\ Grandson(f) \notin Dirs
                        /\ Watcher(f) \in Processes /\ Grandson(f) \in Processes
    /\ Dirs \subseteq Processes
BY NamesAssumption DEF Watcher, Grandson, Processes

\* Every step keeps the types.
LEMMA TypeStep == TypeOK /\ Next => TypeOK'
<1> SUFFICES ASSUME TypeOK, Next PROVE TypeOK'
  OBVIOUS
<1> USE TreeAssumption, SizeAssumption, Names DEF TypeOK, TraverserPlaces, JobPlaces, WithToken
<1>1. CASE semaphore_init
  BY <1>1 DEF semaphore_init
<1>2. ASSUME NEW d \in Dirs, Traverser(d) PROVE TypeOK'
  <2>1. ASSUME NEW e \in Dirs \ {Root}, ForkTraverser(d, e) PROVE TypeOK'
    BY <2>1 DEF ForkTraverser, ForkOf
  <2>2. CASE TraverserFails(d)
    BY <2>2 DEF TraverserFails, EndOf
  <2>3. CASE EndOfSubdirs(d)
    BY <2>3 DEF EndOfSubdirs
  <2>4. ASSUME NEW f \in Files, semaphore_down(d, f) PROVE TypeOK'
    BY <2>4 DEF semaphore_down
  <2>5. ASSUME NEW f \in Files, runWatcher(d, f) PROVE TypeOK'
    BY <2>5 DEF runWatcher, ForkOf
  <2>6. ASSUME NEW f \in Files, runWatcherFails(d, f) PROVE TypeOK'
    BY <2>6 DEF runWatcherFails, EndOf
  <2>7. CASE EndOfFiles(d)
    BY <2>7 DEF EndOfFiles
  <2>8. CASE WaitReturns(d)
    BY <2>8 DEF WaitReturns, EndOf
  <2> QED BY <1>2, <2>1, <2>2, <2>3, <2>4, <2>5, <2>6, <2>7, <2>8 DEF Traverser, traverse_and_run
<1>3. ASSUME NEW f \in Files, Job(f) PROVE TypeOK'
  <2>1. jpc' \in [Files -> JobPlaces] /\ tpc' = tpc
    BY <1>3 DEF Job, JobStep, WatcherCloses, ForkGrandson, ForkGrandsonFails, GrandsonCloses,
                EXECV, JobEnds, WAITPID, WAITPIDFails, semaphore_up, UpIsKilled, WatcherExits
  <2>2. pipe' \in Nat /\ readers' \subseteq Processes /\ writers' \subseteq Processes
    BY <1>3 DEF Job, ForkOf, EndOf, WatcherCloses, ForkGrandson, ForkGrandsonFails,
                GrandsonCloses, EXECV, JobEnds, WAITPID, WAITPIDFails, semaphore_up, UpIsKilled,
                WatcherExits
  <2> QED BY <2>1, <2>2
<1> QED BY <1>1, <1>2, <1>3 DEF Next

\* Every step keeps the ends of the pipe with those whose role needs them.
LEMMA EndsStep == TypeOK /\ EndsMatchRoles /\ Next => EndsMatchRoles'
<1> SUFFICES ASSUME TypeOK, EndsMatchRoles, Next PROVE EndsMatchRoles'
  OBVIOUS
<1> USE TreeAssumption, Names DEF TypeOK, EndsMatchRoles, WithToken
<1>1. CASE semaphore_init
  BY <1>1 DEF semaphore_init
<1>2. ASSUME NEW d \in Dirs, Traverser(d) PROVE EndsMatchRoles'
  <2>1. ASSUME NEW e \in Dirs \ {Root}, ForkTraverser(d, e) PROVE EndsMatchRoles'
    BY <2>1 DEF ForkTraverser, ForkOf
  <2>2. CASE TraverserFails(d)
    BY <2>2 DEF TraverserFails, EndOf
  <2>3. CASE EndOfSubdirs(d)
    BY <2>3 DEF EndOfSubdirs
  <2>4. ASSUME NEW f \in Files, semaphore_down(d, f) PROVE EndsMatchRoles'
    BY <2>4 DEF semaphore_down
  <2>5. ASSUME NEW f \in Files, runWatcher(d, f) PROVE EndsMatchRoles'
    BY <2>5 DEF runWatcher, ForkOf
  <2>6. ASSUME NEW f \in Files, runWatcherFails(d, f) PROVE EndsMatchRoles'
    BY <2>6 DEF runWatcherFails, EndOf
  <2>7. CASE EndOfFiles(d)
    BY <2>7 DEF EndOfFiles
  <2>8. CASE WaitReturns(d)
    BY <2>8 DEF WaitReturns, EndOf
  <2> QED BY <1>2, <2>1, <2>2, <2>3, <2>4, <2>5, <2>6, <2>7, <2>8 DEF Traverser, traverse_and_run
<1>3. ASSUME NEW f \in Files, Job(f) PROVE EndsMatchRoles'
  <2> USE DEF JobStep
  <2>1. CASE WatcherCloses(f)
    BY <2>1 DEF WatcherCloses
  <2>2. CASE ForkGrandson(f)
    BY <2>2 DEF ForkGrandson, ForkOf
  <2>3. CASE ForkGrandsonFails(f)
    BY <2>3 DEF ForkGrandsonFails, EndOf
  <2>4. CASE GrandsonCloses(f)
    BY <2>4 DEF GrandsonCloses
  <2>5. CASE EXECV(f)
    BY <2>5 DEF EXECV
  <2>6. CASE JobEnds(f)
    BY <2>6 DEF JobEnds, EndOf
  <2>7. CASE WAITPID(f)
    BY <2>7 DEF WAITPID
  <2>8. CASE semaphore_up(f)
    BY <2>8 DEF semaphore_up
  <2>9. CASE UpIsKilled(f)
    BY <2>9 DEF UpIsKilled, EndOf
  <2>10. CASE WatcherExits(f)
    BY <2>10 DEF WatcherExits, EndOf
  <2>11. CASE WAITPIDFails(f)
    BY <2>11 DEF WAITPIDFails, EndOf
  <2> QED BY <1>3, <2>1, <2>2, <2>3, <2>4, <2>5, <2>6, <2>7, <2>8, <2>9, <2>10, <2>11 DEF Job
<1> QED BY <1>1, <1>2, <1>3 DEF Next

\* Every step of a job moves it, and only it, from one place to another.
LEMMA JobMoves ==
    ASSUME TypeOK, NEW f \in Files, Job(f)
    PROVE  /\ tpc' = tpc
           /\ jpc[f] \notin {"listed", "token", "done", "killed", "lost"}
           /\ \E to \in JobPlaces :
                 /\ jpc' = [jpc EXCEPT ![f] = to]
                 /\ to \notin {"listed", "token", "watcher"}
                 /\ \/ /\ jpc[f] \in WithToken /\ to \in WithToken /\ pipe' = pipe
                    \/ /\ jpc[f] \in WithToken /\ to = "upped" /\ pipe' = pipe + 1
                    \/ /\ jpc[f] \in WithToken /\ to = "lost" /\ pipe' = pipe
                    \/ /\ jpc[f] \in WithToken /\ to = "killed" /\ pipe' = pipe
                       /\ readers = {}
                    \/ /\ jpc[f] = "upped" /\ to = "done" /\ pipe' = pipe
<1> USE DEF JobStep, JobPlaces, WithToken
<1>1. CASE WatcherCloses(f)
  BY <1>1 DEF WatcherCloses
<1>2. CASE ForkGrandson(f)
  BY <1>2 DEF ForkGrandson
<1>3. CASE ForkGrandsonFails(f)
  BY <1>3 DEF ForkGrandsonFails
<1>4. CASE GrandsonCloses(f)
  BY <1>4 DEF GrandsonCloses
<1>5. CASE EXECV(f)
  BY <1>5 DEF EXECV
<1>6. CASE JobEnds(f)
  BY <1>6 DEF JobEnds
<1>7. CASE WAITPID(f)
  BY <1>7 DEF WAITPID
<1>8. CASE semaphore_up(f)
  BY <1>8 DEF semaphore_up
<1>9. CASE UpIsKilled(f)
  BY <1>9 DEF UpIsKilled
<1>10. CASE WatcherExits(f)
  BY <1>10 DEF WatcherExits
<1>11. CASE WAITPIDFails(f)
  BY <1>11 DEF WAITPIDFails
<1> QED BY <1>1, <1>2, <1>3, <1>4, <1>5, <1>6, <1>7, <1>8, <1>9, <1>10, <1>11 DEF Job

\* What a traverser's step does to the jobs and the pipe.
LEMMA TraverserMoves ==
    ASSUME TypeOK, EndsMatchRoles, NEW d \in Dirs, Traverser(d)
    PROVE  /\ tpc[d] \in {"subdirs", "files", "spawn", "wait"}
           /\ \/ jpc' = jpc /\ pipe' = pipe
              \/ \E f \in Files : /\ jpc[f] = "listed" /\ pipe > 0 /\ pipe' = pipe - 1
                                  /\ jpc' = [jpc EXCEPT ![f] = "token"]
              \/ \E f \in Files : /\ jpc[f] = "token" /\ pipe' = pipe
                                  /\ jpc' = [jpc EXCEPT ![f] = "watcher"]
              \/ \E f \in Files : /\ jpc[f] = "token" /\ pipe' = pipe
                                  /\ jpc' = [jpc EXCEPT ![f] = "lost"]
<1>1. ASSUME NEW f \in Files, semaphore_down(d, f)
      PROVE  pipe > 0
  BY <1>1 DEF semaphore_down, ReadReturns, EndsMatchRoles, TypeOK
<1>2. ASSUME NEW f \in Files, semaphore_down(d, f) \/ runWatcher(d, f) \/ runWatcherFails(d, f)
      PROVE  /\ tpc[d] \in {"subdirs", "files", "spawn", "wait"}
             /\ \/ /\ jpc[f] = "listed" /\ pipe > 0 /\ pipe' = pipe - 1
                   /\ jpc' = [jpc EXCEPT ![f] = "token"]
                \/ /\ jpc[f] = "token" /\ pipe' = pipe
                   /\ jpc' = [jpc EXCEPT ![f] = "watcher"]
                \/ /\ jpc[f] = "token" /\ pipe' = pipe
                   /\ jpc' = [jpc EXCEPT ![f] = "lost"]
  BY <1>1, <1>2 DEF semaphore_down, runWatcher, runWatcherFails
<1>3. CASE \/ \E e \in Dirs \ {Root} : ForkTraverser(d, e)
           \/ TraverserFails(d) \/ EndOfSubdirs(d) \/ EndOfFiles(d) \/ WaitReturns(d)
  BY <1>3 DEF ForkTraverser, TraverserFails, EndOfSubdirs, EndOfFiles, WaitReturns
<1> QED BY <1>2, <1>3 DEF Traverser, traverse_and_run

\* Until the semaphore is ready, every step leaves the tree unvisited.
LEMMA NotStartedStep ==
    TypeOK /\ EndsMatchRoles /\ NotStartedInv /\ Next => NotStartedInv'
<1> SUFFICES ASSUME TypeOK, EndsMatchRoles, NotStartedInv, Next PROVE NotStartedInv'
  OBVIOUS
<1>1. CASE semaphore_init
  BY <1>1, TreeAssumption, SizeAssumption
     DEF semaphore_init, NotStartedInv, Started, TypeOK
<1>2. ASSUME NEW d \in Dirs, Traverser(d) PROVE NotStartedInv'
  <2>1. Started
    BY <1>2, TraverserMoves, TreeAssumption DEF NotStartedInv, Started
  <2>2. Started'
    BY <1>2, <2>1, TreeAssumption
       DEF Started, TypeOK, Traverser, traverse_and_run, ForkTraverser, TraverserFails, EndOfSubdirs,
           semaphore_down, runWatcher, runWatcherFails, EndOfFiles, WaitReturns
  <2> QED BY <2>2 DEF NotStartedInv
<1>3. ASSUME NEW f \in Files, Job(f) PROVE NotStartedInv'
  <2>1. Started /\ tpc' = tpc
    BY <1>3, JobMoves DEF NotStartedInv
  <2> QED BY <2>1 DEF NotStartedInv, Started
<1> QED BY <1>1, <1>2, <1>3 DEF Next

\* Before the start every job is listed, so main has filled the pipe when it goes on.
LEMMA TokensStep ==
    TypeOK /\ EndsMatchRoles /\ NotStartedInv /\ TokensConserved /\ Next => TokensConserved'
<1> SUFFICES ASSUME TypeOK, EndsMatchRoles, NotStartedInv, TokensConserved, Next
             PROVE  TokensConserved'
  OBVIOUS
<1> DEFINE held == Cardinality(Held)
           dead == Cardinality(Dead)
<1>1. pipe \in Nat /\ held \in Nat /\ dead \in Nat
  BY JobsFinite DEF TypeOK, Held, Dead
<1>2. /\ Tokens = pipe + held + dead
      /\ Tokens' = pipe' + held' + dead'
  BY DEF Tokens, Held, Dead
<1>3. CASE semaphore_init
  <2>1. jpc' = jpc /\ held' = held /\ dead' = dead
    BY <1>3 DEF semaphore_init, Held, Dead, JobsIn
  <2>2. Held = {} /\ Dead = {}
    BY <1>3 DEF semaphore_init, NotStartedInv, Started, Held, Dead, JobsIn, WithToken
  <2>3. held = 0 /\ dead = 0
    BY <2>2, FS_EmptySet
  <2>4. Started' => pipe' = K
    BY <1>3, <1>1, SizeAssumption, TreeAssumption DEF semaphore_init, NotStartedInv, Started, TypeOK
  <2> HIDE DEF held, dead
  <2> QED BY <1>2, <2>1, <2>3, <2>4, SizeAssumption DEF TokensConserved
<1>4. ASSUME NEW f \in Files, NEW to \in JobPlaces, jpc' = [jpc EXCEPT ![f] = to]
      PROVE  /\ held' = IF jpc[f] \in WithToken
                        THEN IF to \in WithToken THEN held ELSE held - 1
                        ELSE IF to \in WithToken THEN held + 1 ELSE held
             /\ dead' = IF jpc[f] \in {"killed", "lost"}
                        THEN IF to \in {"killed", "lost"} THEN dead ELSE dead - 1
                        ELSE IF to \in {"killed", "lost"} THEN dead + 1 ELSE dead
  BY <1>4, MoveCount DEF Held, Dead
<1> HIDE DEF held, dead
<1>5. ASSUME NEW d \in Dirs, Traverser(d) PROVE TokensConserved'
  <2>1. Started
    BY <1>5, TraverserMoves, TreeAssumption DEF NotStartedInv, Started
  <2>2. pipe' + held' + dead' = pipe + held + dead
    <3>1. CASE jpc' = jpc /\ pipe' = pipe
      BY <3>1 DEF held, dead, Held, Dead, JobsIn
    <3>2. ASSUME NEW f \in Files, jpc[f] = "listed", pipe > 0, pipe' = pipe - 1,
                 jpc' = [jpc EXCEPT ![f] = "token"]
          PROVE  pipe' + held' + dead' = pipe + held + dead
      <4>1. held' = held + 1 /\ dead' = dead
        BY <1>4, <3>2 DEF JobPlaces, WithToken
      <4> QED BY <1>1, <3>2, <4>1 DEF TypeOK
    <3>3. ASSUME NEW f \in Files, jpc[f] = "token", pipe' = pipe,
                 \/ jpc' = [jpc EXCEPT ![f] = "watcher"] \/ jpc' = [jpc EXCEPT ![f] = "lost"]
          PROVE  pipe' + held' + dead' = pipe + held + dead
      BY <1>1, <1>4, <3>3 DEF JobPlaces, WithToken
    <3> QED BY <1>5, <3>1, <3>2, <3>3, TraverserMoves
  <2> QED BY <1>2, <2>1, <2>2 DEF TokensConserved
<1>6. ASSUME NEW f \in Files, Job(f) PROVE TokensConserved'
  <2>1. Started
    BY <1>6, JobMoves DEF NotStartedInv
  <2>2. pipe' + held' + dead' = pipe + held + dead
    <3>1. PICK to \in JobPlaces :
             /\ jpc' = [jpc EXCEPT ![f] = to]
             /\ \/ jpc[f] \in WithToken /\ to \in WithToken /\ pipe' = pipe
                \/ jpc[f] \in WithToken /\ to = "upped" /\ pipe' = pipe + 1
                \/ jpc[f] \in WithToken /\ to \in {"lost", "killed"} /\ pipe' = pipe
                \/ jpc[f] = "upped" /\ to = "done" /\ pipe' = pipe
      BY <1>6, JobMoves
    <3>2. /\ to \in WithToken => held' = held /\ dead' = dead
          /\ jpc[f] \in WithToken /\ to = "upped" => held' = held - 1 /\ dead' = dead
          /\ jpc[f] \in WithToken /\ to \in {"lost", "killed"} => held' = held - 1 /\ dead' = dead + 1
          /\ to = "done" => held' = held /\ dead' = dead
      BY <1>4, <3>1 DEF WithToken
    <3> QED BY <1>1, <3>1, <3>2
  <2> QED BY <1>2, <2>1, <2>2 DEF TokensConserved
<1> QED BY <1>3, <1>5, <1>6 DEF Next

\* How far each traverser's step takes the walk of the tree.
LEMMA TreeStep == TypeOK /\ TreeInv /\ Next => TreeInv'
<1> SUFFICES ASSUME TypeOK, TreeInv, Next PROVE TreeInv'
  OBVIOUS
<1> USE TreeAssumption DEF TypeOK, TreeInv
<1>1. CASE semaphore_init
  BY <1>1 DEF semaphore_init
<1>2. ASSUME NEW d \in Dirs, Traverser(d) PROVE TreeInv'
  <2>1. ASSUME NEW e \in Dirs \ {Root}, ForkTraverser(d, e) PROVE TreeInv'
    BY <2>1 DEF ForkTraverser, Unvisited
  <2>2. CASE TraverserFails(d)
    BY <2>2 DEF TraverserFails
  <2>3. CASE EndOfSubdirs(d)
    BY <2>3 DEF EndOfSubdirs, Unvisited
  <2>4. ASSUME NEW f \in Files, semaphore_down(d, f) PROVE TreeInv'
    BY <2>4 DEF semaphore_down
  <2>5. ASSUME NEW f \in Files, runWatcher(d, f) PROVE TreeInv'
    BY <2>5 DEF runWatcher
  <2>6. ASSUME NEW f \in Files, runWatcherFails(d, f) PROVE TreeInv'
    BY <2>6 DEF runWatcherFails
  <2>7. CASE EndOfFiles(d)
    BY <2>7 DEF EndOfFiles
  <2>8. CASE WaitReturns(d)
    BY <2>8 DEF WaitReturns
  <2> QED BY <1>2, <2>1, <2>2, <2>3, <2>4, <2>5, <2>6, <2>7, <2>8 DEF Traverser, traverse_and_run
<1>3. ASSUME NEW f \in Files, Job(f) PROVE TreeInv'
  <2>1. tpc' = tpc /\ jpc[f] \notin {"done", "killed", "lost"}
    BY <1>3, JobMoves
  <2>2. \A g \in Files : g # f => jpc'[g] = jpc[g]
    BY <1>3, JobMoves
  <2> QED BY <2>1, <2>2
<1> QED BY <1>1, <1>2, <1>3 DEF Next

\* With the last reading end gone no traverser is left in its loops, and no
\* directory that is still unvisited can ever be visited.
LEMMA SigpipeStep ==
    TypeOK /\ EndsMatchRoles /\ TreeInv /\ SigpipeIsHarmless /\ Next => SigpipeIsHarmless'
<1> DEFINE Over == /\ \A d \in Dirs : tpc[d] \in {"unborn", "wait", "exited", "failed"}
                   /\ \A d \in Dirs : tpc[d] = "unborn" =>
                         d # Root /\ tpc[Parent[d]] \in {"unborn", "failed"}
<1> SUFFICES ASSUME TypeOK, EndsMatchRoles, TreeInv, SigpipeIsHarmless, Next,
                    JobsIn({"killed"})' # {}
             PROVE  Over'
  BY DEF SigpipeIsHarmless
<1>1. CASE semaphore_init
  BY <1>1, TreeAssumption DEF semaphore_init, SigpipeIsHarmless, JobsIn
<1>2. ASSUME NEW d \in Dirs, Traverser(d) PROVE Over'
  <2>1. JobsIn({"killed"}) # {}
    BY <1>2, TraverserMoves DEF JobsIn, TypeOK
  <2>2. Over
    BY <2>1 DEF SigpipeIsHarmless
  <2>3. tpc[d] = "wait"
    BY <1>2, <2>2, TraverserMoves
  <2>4. WaitReturns(d)
    BY <1>2, <2>3 DEF Traverser, traverse_and_run, ForkTraverser, TraverserFails, EndOfSubdirs,
                      semaphore_down, runWatcher, runWatcherFails, EndOfFiles
  <2> QED BY <2>2, <2>3, <2>4, TreeAssumption DEF WaitReturns, TypeOK
<1>3. ASSUME NEW f \in Files, Job(f) PROVE Over'
  <2>1. tpc' = tpc
    BY <1>3, JobMoves
  <2>2. CASE JobsIn({"killed"}) # {}
    BY <2>1, <2>2 DEF SigpipeIsHarmless
  <2>3. CASE JobsIn({"killed"}) = {}
    <3>1. readers = {}
      BY <1>3, <2>3, JobMoves DEF JobsIn, TypeOK, WithToken
    <3>2. \A d \in Dirs : tpc[d] \in {"unborn", "wait", "exited", "failed"}
      BY <3>1 DEF EndsMatchRoles, TypeOK, TraverserPlaces
    <3>3. Over
      BY <3>2, TreeAssumption DEF TreeInv
    <3> QED BY <2>1, <3>3
  <2> QED BY <2>2, <2>3
<1> QED BY <1>1, <1>2, <1>3 DEF Next

\* Every step keeps the invariant.
LEMMA NextInv == IInv /\ [Next]_vars => IInv'
<1>1. ASSUME IInv, Next PROVE IInv'
  BY <1>1, TypeStep, EndsStep, NotStartedStep, TokensStep, SigpipeStep, TreeStep DEF IInv
<1>2. ASSUME IInv, UNCHANGED vars PROVE IInv'
  BY <1>2 DEF IInv, vars, TypeOK, EndsMatchRoles, NotStartedInv, TokensConserved, Started,
              Tokens, SigpipeIsHarmless, TreeInv, JobsIn
<1> QED BY <1>1, <1>2

\* The invariant holds in every reachable state.
LEMMA Inductive == Spec => []IInv
BY InitInv, NextInv, PTL DEF Spec
----------------------------------------------------------------------------
\* No process is in a place the code does not have, and no pipe underflows.
THEOREM TypeCorrect == Spec => []TypeOK
<1>1. IInv => TypeOK
  BY DEF IInv
<1> QED BY <1>1, Inductive, PTL

\* Each of the K bytes is in the pipe, with one job, or gone with a dead
\* process, whatever calls fail.
THEOREM TokensCorrect == Spec => []TokensConserved
<1>1. IInv => TokensConserved
  BY DEF IInv
<1> QED BY <1>1, Inductive, PTL

\* At most K of the user's programs run at a time, in any tree.
THEOREM JobLimitCorrect == Spec => []JobLimit
<1>1. IInv => JobLimit
  <2> SUFFICES ASSUME IInv PROVE JobLimit
    OBVIOUS
  <2>1. /\ Cardinality(JobsIn({"clean", "running"})) \in Nat
        /\ Cardinality(JobsIn(WithToken)) \in Nat
        /\ Cardinality(JobsIn({"killed", "lost"})) \in Nat /\ pipe \in Nat
    BY JobsFinite DEF IInv, TypeOK
  <2>2. CASE Started
    <3>1. JobsIn({"clean", "running"}) \subseteq JobsIn(WithToken)
      BY DEF JobsIn, WithToken
    <3>2. Cardinality(JobsIn({"clean", "running"})) <= Cardinality(JobsIn(WithToken))
      BY <3>1, JobsFinite, FS_Subset
    <3>3. Tokens = K
      BY <2>2 DEF IInv, TokensConserved
    <3> QED BY <2>1, <3>2, <3>3, SizeAssumption DEF JobLimit, Tokens
  <2>3. CASE ~Started
    <3>1. JobsIn({"clean", "running"}) = {}
      BY <2>3 DEF IInv, NotStartedInv, JobsIn
    <3> QED BY <3>1, FS_EmptySet, SizeAssumption DEF JobLimit
  <2> QED BY <2>2, <2>3
<1> QED BY <1>1, Inductive, PTL

\* The pipe is open in exactly the processes that still use it.
THEOREM EndsCorrect == Spec => []EndsMatchRoles
<1>1. IInv => EndsMatchRoles
  BY DEF IInv
<1> QED BY <1>1, Inductive, PTL

\* A token that SIGPIPE destroys is one nobody can ask for any more.
THEOREM SigpipeCorrect == Spec => []SigpipeIsHarmless
<1>1. IInv => SigpipeIsHarmless
  BY DEF IInv
<1> QED BY <1>1, Inductive, PTL

\* If no call failed, every executable of the tree has been run and waited for
\* when the root process exits.
THEOREM ExitCorrect == Spec => []ExitMeansBuilt
<1>1. IInv => ExitMeansBuilt
  <2> SUFFICES ASSUME IInv, tpc[Root] = "exited", \A d \in Dirs : tpc[d] # "failed",
                      JobsIn({"lost"}) = {}
               PROVE  JobsIn({"done", "killed"}) = Files
    BY DEF ExitMeansBuilt
  <2> DEFINE S == {d \in Dirs : tpc[d] = "exited"}
  <2>1. Root \in S
    BY TreeAssumption
  <2>2. ASSUME NEW e \in Dirs \ {Root}, Parent[e] \in S PROVE e \in S
    BY <2>2, TreeAssumption DEF IInv, TreeInv
  <2>3. S = Dirs
    <3>1. S \in SUBSET Dirs
      OBVIOUS
    <3> HIDE DEF S
    <3> QED BY <2>1, <2>2, <3>1, TreeAssumption
  <2>4. ASSUME NEW f \in Files PROVE jpc[f] \in {"done", "killed"}
    <3>1. DirOf[f] \in Dirs /\ tpc[DirOf[f]] = "exited"
      BY <2>3, TreeAssumption
    <3>2. jpc[f] \in {"done", "killed", "lost"}
      BY <3>1 DEF IInv, TreeInv
    <3> QED BY <3>2 DEF JobsIn
  <2> QED BY <2>4 DEF JobsIn
<1> QED BY <1>1, Inductive, PTL
----------------------------------------------------------------------------
(* The refinement.                                                         *)

Free == IF Started THEN pipe ELSE K

\* Every step takes a token, returns one, drops one, or leaves the pool alone.
LEMMA PoolStep == IInv /\ [Next]_vars => [Pool!Next]_<<Free, JobsIn(WithToken)>>
<1> SUFFICES ASSUME IInv, [Next]_vars, UNCHANGED <<Free, JobsIn(WithToken)>> => FALSE
             PROVE  Pool!Next
  OBVIOUS
<1> USE DEF IInv
<1>1. CASE UNCHANGED vars
  BY <1>1 DEF vars, Free, Started, JobsIn
<1>2. CASE semaphore_init
  <2>1. JobsIn(WithToken)' = JobsIn(WithToken)
    BY <1>2 DEF semaphore_init, JobsIn
  <2>2. Free' = Free
    BY <1>2, SizeAssumption, TreeAssumption
       DEF semaphore_init, Free, Started, NotStartedInv, TypeOK
  <2> QED BY <2>1, <2>2
<1>3. ASSUME NEW d \in Dirs, Traverser(d) PROVE Pool!Next
  <2>1. Started /\ Started'
    <3>1. Started
      BY <1>3, TraverserMoves, TreeAssumption DEF NotStartedInv, Started
    <3> QED BY <1>3, <3>1, TreeAssumption
       DEF Started, TypeOK, Traverser, traverse_and_run, ForkTraverser, TraverserFails, EndOfSubdirs,
           semaphore_down, runWatcher, runWatcherFails, EndOfFiles, WaitReturns
  <2>2. Free = pipe /\ Free' = pipe'
    BY <2>1 DEF Free
  <2>3. ASSUME NEW f \in Files, jpc[f] = "listed", pipe > 0, pipe' = pipe - 1,
               jpc' = [jpc EXCEPT ![f] = "token"]
        PROVE  Pool!Acquire(f)
    <3>1. JobsIn(WithToken)' = JobsIn(WithToken) \cup {f} /\ f \notin JobsIn(WithToken)
      BY <2>3, MoveIn DEF JobPlaces, WithToken
    <3> QED BY <2>1, <2>3, <3>1 DEF Pool!Acquire
  <2>4. ASSUME NEW f \in Files, jpc[f] = "token", pipe' = pipe,
               jpc' = [jpc EXCEPT ![f] = "watcher"]
        PROVE  FALSE
    <3>1. JobsIn(WithToken)' = JobsIn(WithToken)
      BY <2>4, MoveWithin DEF JobPlaces, WithToken
    <3> QED BY <2>2, <2>4, <3>1
  <2>5. ASSUME NEW f \in Files, jpc[f] = "token", pipe' = pipe,
               jpc' = [jpc EXCEPT ![f] = "lost"]
        PROVE  Pool!Drop(f)
    <3>1. JobsIn(WithToken)' = JobsIn(WithToken) \ {f} /\ f \in JobsIn(WithToken)
      <4>1. jpc[f] \in WithToken /\ "lost" \in JobPlaces /\ "lost" \notin WithToken
        BY <2>5 DEF JobPlaces, WithToken
      <4>2. TypeOK
        OBVIOUS
      <4> HIDE DEF IInv
      <4> QED BY <2>5, <4>1, <4>2, MoveOut
    <3> QED BY <2>1, <2>5, <3>1 DEF Pool!Drop
  <2>6. CASE jpc' = jpc /\ pipe' = pipe
    <3>1. JobsIn(WithToken)' = JobsIn(WithToken)
      BY <2>6 DEF JobsIn
    <3> QED BY <2>2, <2>6, <3>1
  <2> QED BY <1>3, <2>3, <2>4, <2>5, <2>6, TraverserMoves DEF Pool!Next
<1>4. ASSUME NEW f \in Files, Job(f) PROVE Pool!Next
  <2>1. Started /\ tpc' = tpc
    BY <1>4, JobMoves DEF NotStartedInv
  <2>2. Free = pipe /\ Free' = pipe' /\ Started'
    BY <2>1 DEF Free, Started
  <2>3. PICK to \in JobPlaces :
           /\ jpc' = [jpc EXCEPT ![f] = to]
           /\ \/ jpc[f] \in WithToken /\ to \in WithToken /\ pipe' = pipe
              \/ jpc[f] \in WithToken /\ to = "upped" /\ pipe' = pipe + 1
              \/ jpc[f] \in WithToken /\ to \in {"lost", "killed"} /\ pipe' = pipe
              \/ jpc[f] = "upped" /\ to = "done" /\ pipe' = pipe
    BY <1>4, JobMoves
  <2>4. CASE jpc[f] \in WithToken <=> to \in WithToken
    <3>1. JobsIn(WithToken)' = JobsIn(WithToken)
      BY <2>3, <2>4, MoveWithin
    <3>2. pipe' = pipe
      BY <2>3, <2>4 DEF WithToken
    <3> QED BY <2>2, <3>1, <3>2
  <2>5. CASE jpc[f] \in WithToken /\ to \notin WithToken
    <3>1. JobsIn(WithToken)' = JobsIn(WithToken) \ {f} /\ f \in JobsIn(WithToken)
      BY <2>3, <2>5, MoveOut
    <3>2. pipe' = pipe + 1 \/ pipe' = pipe
      BY <2>3, <2>5
    <3>3. Pool!Release(f) \/ Pool!Drop(f)
      BY <2>1, <2>2, <3>1, <3>2 DEF Pool!Release, Pool!Drop
    <3> QED BY <3>3 DEF Pool!Next
  <2> QED BY <2>3, <2>4, <2>5 DEF WithToken
<1> QED BY <1>1, <1>2, <1>3, <1>4 DEF Next

\* The pipe with its forks and deaths is a pool of K tokens.
THEOREM Refinement == Spec => ImplementsPool
<1>1. Init => Pool!Init
  <2> SUFFICES ASSUME Init PROVE Pool!Init
    OBVIOUS
  <2>1. ~Started /\ JobsIn(WithToken) = {}
    BY TreeAssumption DEF Init, Started, JobsIn, WithToken
  <2> QED BY <2>1 DEF Pool!Init
<1> QED BY <1>1, Inductive, PoolStep, PTL DEF Spec, ImplementsPool, Pool!Spec, Free
----------------------------------------------------------------------------
(* Why the tree of processes ends: somebody can always go on, and nobody   *)
(* ever goes back.  Completes, which TLC checks, is what fairness makes of *)
(* these two.                                                              *)

\* The traverser of d can take a step without a call failing: the guards of
\* semaphore_init and of the actions of traverse_and_run(d).
TraverserCan(d) ==
    \/ tpc[d] = "init" /\ (pipe < K => pipe < PipeCapacity)
    \/ tpc[d] = "subdirs"
    \/ tpc[d] = "files" /\ (ReadReturns \/ \A f \in Files : DirOf[f] = d => jpc[f] # "listed")
    \/ tpc[d] = "spawn" /\ \E f \in Files : DirOf[f] = d /\ jpc[f] = "token"
    \/ /\ tpc[d] = "wait"
       /\ \A e \in Dirs \ {Root} : Parent[e] = d => tpc[e] \in {"exited", "failed"}
       /\ \A f \in Files : DirOf[f] = d => jpc[f] \in {"done", "killed", "lost"}

\* A process of the job of f can: the guards of the actions of Job(f).
JobCan(f) ==
    \/ jpc[f] \in {"watcher", "closed", "grandson", "clean", "running", "exited", "upped"}
    \/ jpc[f] = "reaped" /\ (readers # {} => pipe < PipeCapacity)

\* Everybody waits on everybody: a traverser is left, not all tokens were lost
\* to failing calls, and no process can do anything.
Deadlocked ==
    /\ \E d \in Dirs : tpc[d] \notin {"unborn", "exited", "failed"}
    /\ Cardinality(JobsIn({"lost"})) # K
    /\ \A d \in Dirs : ~TraverserCan(d)
    /\ \A f \in Files : ~JobCan(f)

\* A traverser between semaphore_down and the fork has the token of one job; a
\* traverser that waits has asked for all its jobs.
SpawnInv ==
    /\ \A d \in Dirs : tpc[d] = "spawn" => \E f \in Files : DirOf[f] = d /\ jpc[f] = "token"
    /\ \A f \in Files : jpc[f] = "token" => tpc[DirOf[f]] = "spawn"
    /\ \A e, f \in Files : jpc[e] = "token" /\ jpc[f] = "token" /\ DirOf[e] = DirOf[f] => e = f
    /\ \A f \in Files : jpc[f] = "listed" => tpc[DirOf[f]] \notin {"wait", "exited"}

LEMMA SpawnInit == Init => SpawnInv
<1> SUFFICES ASSUME Init PROVE SpawnInv
  OBVIOUS
<1> QED BY TreeAssumption DEF Init, SpawnInv

LEMMA SpawnStep == TypeOK /\ SpawnInv /\ [Next]_vars => SpawnInv'
<1> SUFFICES ASSUME TypeOK, SpawnInv, [Next]_vars PROVE SpawnInv'
  OBVIOUS
<1>1. CASE UNCHANGED vars
  BY <1>1 DEF vars, SpawnInv
<1> USE TreeAssumption DEF TypeOK, SpawnInv
<1>2. CASE semaphore_init
  BY <1>2 DEF semaphore_init
<1>3. ASSUME NEW d \in Dirs, Traverser(d) PROVE SpawnInv'
  <2>1. ASSUME NEW e \in Dirs \ {Root}, ForkTraverser(d, e) PROVE SpawnInv'
    BY <2>1 DEF ForkTraverser, Unvisited
  <2>2. CASE TraverserFails(d)
    BY <2>2 DEF TraverserFails
  <2>3. CASE EndOfSubdirs(d)
    BY <2>3 DEF EndOfSubdirs
  <2>4. ASSUME NEW f \in Files, semaphore_down(d, f) PROVE SpawnInv'
    BY <2>4 DEF semaphore_down
  <2>5. ASSUME NEW f \in Files, runWatcher(d, f) PROVE SpawnInv'
    BY <2>5 DEF runWatcher
  <2>6. ASSUME NEW f \in Files, runWatcherFails(d, f) PROVE SpawnInv'
    BY <2>6 DEF runWatcherFails
  <2>7. CASE EndOfFiles(d)
    BY <2>7 DEF EndOfFiles
  <2>8. CASE WaitReturns(d)
    BY <2>8 DEF WaitReturns
  <2> QED BY <1>3, <2>1, <2>2, <2>3, <2>4, <2>5, <2>6, <2>7, <2>8 DEF Traverser, traverse_and_run
<1>4. ASSUME NEW f \in Files, Job(f) PROVE SpawnInv'
  <2>1. /\ tpc' = tpc /\ jpc[f] \notin {"listed", "token"} /\ jpc'[f] \notin {"listed", "token"}
        /\ \A e \in Files : e # f => jpc'[e] = jpc[e]
    BY <1>4, JobMoves
  <2>2. \A e \in Files : jpc'[e] = jpc[e] \/ (jpc[e] \notin {"listed", "token"} /\ jpc'[e] \notin {"listed", "token"})
    BY <2>1
  <2> HIDE DEF TypeOK
  <2> QED BY <2>1, <2>2
<1> QED BY <1>1, <1>2, <1>3, <1>4 DEF Next

\* Traversers that each wait for another one's end would be a tree without leaves.
LEMMA SomeoneIsLast ==
    ASSUME NEW W \in SUBSET Dirs, W # {}
    PROVE  \E d \in W : \A e \in Dirs \ {Root} : Parent[e] = d => e \notin W
<1> SUFFICES ASSUME \A d \in W : \E e \in Dirs \ {Root} : Parent[e] = d /\ e \in W
             PROVE  FALSE
  OBVIOUS
<1> DEFINE child == [d \in W |-> CHOOSE e \in Dirs \ {Root} : Parent[e] = d /\ e \in W]
<1>1. \A d \in W : child[d] \in Dirs \ {Root} /\ Parent[child[d]] = d /\ child[d] \in W
  OBVIOUS
<1> HIDE DEF child
<1>2. IsFiniteSet(W)
  BY TreeAssumption, FS_Subset
<1>3. ASSUME NEW e \in W PROVE e # Root /\ Parent[e] \in W
  <2>1. CASE \E d \in W : child[d] = e
    BY <1>1, <2>1
  <2>2. CASE \A d \in W : child[d] # e
    <3>1. child \in [W -> W \ {e}]
      BY <1>1, <2>2 DEF child
    <3>2. /\ IsFiniteSet(W \ {e}) /\ Cardinality(W \ {e}) = Cardinality(W) - 1
          /\ Cardinality(W) \in Nat
      BY <1>2, FS_RemoveElement, FS_CardinalityType
    <3>3. Cardinality(W \ {e}) < Cardinality(W)
      BY <3>2
    <3>4. PICK x \in W, y \in W : x # y /\ child[x] = child[y]
      BY <1>2, <3>1, <3>2, <3>3, FS_PigeonHole
    <3> QED BY <1>1, <3>4
  <2> QED BY <2>1, <2>2
<1> DEFINE S == Dirs \ W
<1>4. Root \in S
  BY <1>3, TreeAssumption
<1>5. \A e \in Dirs \ {Root} : Parent[e] \in S => e \in S
  BY <1>3
<1>6. S = Dirs
  <2>1. S \in SUBSET Dirs
    OBVIOUS
  <2> HIDE DEF S
  <2> QED BY <1>4, <1>5, <2>1, TreeAssumption
<1> QED BY <1>6
\* K = |killed \cup lost| when nobody has a token and the pipe is empty.
LEMMA AllTokensDead ==
    ASSUME IInv, Started, JobsIn(WithToken) = {}, pipe = 0, JobsIn({"killed"}) = {}
    PROVE  Cardinality(JobsIn({"lost"})) = K
<1>1. Cardinality(JobsIn(WithToken)) = 0
  BY FS_EmptySet
<1>2. JobsIn({"killed", "lost"}) = JobsIn({"lost"})
  BY DEF JobsIn
<1>3. Cardinality(JobsIn({"lost"})) \in Nat
  BY JobsFinite
<1> QED BY <1>1, <1>2, <1>3 DEF IInv, TokensConserved, Tokens

\* There is room in the pipe for the token of a job that still has one.
LEMMA RoomForToken ==
    ASSUME IInv, K <= PipeCapacity, NEW f \in Files, jpc[f] \in WithToken
    PROVE  pipe < PipeCapacity
<1>1. Started
  BY DEF IInv, NotStartedInv, WithToken
<1>2. pipe \in Nat /\ Cardinality(JobsIn(WithToken)) \in Nat /\ Cardinality(JobsIn({"killed", "lost"})) \in Nat
  BY JobsFinite DEF IInv, TypeOK
<1>3. Cardinality(JobsIn(WithToken)) # 0
  BY JobsFinite, FS_EmptySet DEF JobsIn
<1>4. pipe + Cardinality(JobsIn(WithToken)) + Cardinality(JobsIn({"killed", "lost"})) = K
  BY <1>1 DEF IInv, TokensConserved, Tokens
<1> HIDE DEF WithToken
<1> QED BY <1>2, <1>3, <1>4, SizeAssumption

LEMMA SomebodyCan ==
    ASSUME IInv, SpawnInv, K <= PipeCapacity, Deadlocked
    PROVE  FALSE
<1> USE SizeAssumption
<1>1. /\ tpc \in [Dirs -> TraverserPlaces] /\ jpc \in [Files -> JobPlaces] /\ pipe \in Nat
      /\ DirOf \in [Files -> Dirs] /\ Root \in Dirs
  BY TreeAssumption DEF IInv, TypeOK
<1>2. Started
  <2> SUFFICES ASSUME ~Started PROVE FALSE
    OBVIOUS
  <2>1. tpc[Root] = "init" /\ pipe <= K
    BY DEF Started, IInv, NotStartedInv
  <2>2. TraverserCan(Root)
    BY <1>1, <2>1 DEF TraverserCan
  <2> QED BY <1>1, <2>2 DEF Deadlocked
<1>3. \A d \in Dirs : tpc[d] \notin {"init", "subdirs", "spawn"}
  <2>1. \A d \in Dirs : tpc[d] \notin {"subdirs", "spawn"}
    BY DEF Deadlocked, TraverserCan, SpawnInv
  <2>2. ASSUME NEW d \in Dirs, tpc[d] = "init" PROVE FALSE
    <3>1. d \in readers
      BY <2>2 DEF IInv, EndsMatchRoles
    <3>2. pipe < K => pipe < PipeCapacity
      BY <1>1
    <3>3. TraverserCan(d)
      BY <2>2, <3>2 DEF TraverserCan
    <3> QED BY <3>3 DEF Deadlocked
  <2> QED BY <2>1, <2>2
<1>4. \A f \in Files : jpc[f] \in {"listed", "done", "killed", "lost"}
  <2> SUFFICES ASSUME NEW f \in Files, jpc[f] \notin {"listed", "done", "killed", "lost"}
               PROVE  FALSE
    OBVIOUS
  <2>1. jpc[f] # "token"
    BY <1>1, <1>3 DEF SpawnInv
  <2>2. jpc[f] = "reaped"
    BY <1>1, <2>1 DEF Deadlocked, JobCan, JobPlaces, WithToken
  <2>3. pipe < PipeCapacity
    BY <2>2, RoomForToken DEF WithToken
  <2>4. JobCan(f)
    BY <2>2, <2>3 DEF JobCan
  <2> QED BY <2>4 DEF Deadlocked
<1>5. JobsIn(WithToken) = {}
  BY <1>4 DEF JobsIn, WithToken
<1>6. \A d \in Dirs : tpc[d] # "files"
  <2> SUFFICES ASSUME NEW d \in Dirs, tpc[d] = "files" PROVE FALSE
    OBVIOUS
  <2>1. ~ReadReturns
    BY DEF Deadlocked, TraverserCan
  <2>2. pipe = 0
    BY <1>1, <2>1 DEF ReadReturns
  <2>3. JobsIn({"killed"}) = {}
    BY DEF IInv, SigpipeIsHarmless
  <2> QED BY <1>2, <1>5, <2>2, <2>3, AllTokensDead DEF Deadlocked
<1> DEFINE W == {d \in Dirs : tpc[d] = "wait"}
<1>7. \A d \in Dirs : d \notin W => tpc[d] \in {"unborn", "exited", "failed"}
  BY <1>1, <1>3, <1>6 DEF TraverserPlaces
<1>8. W # {}
  BY <1>7 DEF Deadlocked
<1>9. PICK d \in W : \A e \in Dirs \ {Root} : Parent[e] = d => e \notin W
  <2>1. W \in SUBSET Dirs
    OBVIOUS
  <2> HIDE DEF W
  <2> QED BY <1>8, <2>1, SomeoneIsLast
<1>10. \A e \in Dirs \ {Root} : Parent[e] = d => tpc[e] \in {"exited", "failed"}
  BY <1>7, <1>9 DEF IInv, TreeInv
<1>11. \A f \in Files : DirOf[f] = d => jpc[f] \in {"done", "killed", "lost"}
  BY <1>4, <1>9 DEF SpawnInv
<1>12. TraverserCan(d)
  BY <1>9, <1>10, <1>11 DEF TraverserCan
<1> QED BY <1>9, <1>12 DEF Deadlocked

LEMMA SpawnInductive == Spec => []SpawnInv
<1>1. IInv /\ SpawnInv /\ [Next]_vars => SpawnInv'
  BY SpawnStep DEF IInv
<1> QED BY <1>1, SpawnInit, Inductive, PTL DEF Spec

\* When the pipe can hold all the tokens, the processes of a tree of any shape
\* never all wait for each other: in read for a token, in write for room in the
\* pipe, in wait for a child.  Only failing calls that take every token can leave
\* a traverser waiting.
THEOREM NoDeadlock == K <= PipeCapacity => (Spec => []~Deadlocked)
<1> SUFFICES ASSUME K <= PipeCapacity PROVE Spec => []~Deadlocked
  OBVIOUS
<1>1. IInv /\ SpawnInv => ~Deadlocked
  BY SomebodyCan
<1> QED BY <1>1, Inductive, SpawnInductive, PTL

\* How far a traverser and a job are.
TraverserRank ==
    [p \in TraverserPlaces |->
        CASE p \in {"unborn", "init"} -> 0
          [] p = "subdirs" -> 1
          [] p \in {"files", "spawn"} -> 2
          [] p = "wait" -> 3
          [] p \in {"exited", "failed"} -> 4]

JobRank ==
    [p \in JobPlaces |->
        CASE p = "listed" -> 0 [] p = "token" -> 1 [] p = "watcher" -> 2 [] p = "closed" -> 3
          [] p = "grandson" -> 4 [] p = "clean" -> 5 [] p = "running" -> 6 [] p = "exited" -> 7
          [] p = "reaped" -> 8 [] p = "upped" -> 9 [] p \in {"done", "killed", "lost"} -> 10]

\* Nobody goes back, and somebody goes forward or main writes one of its K bytes.
GoesForward ==
    /\ \A d \in Dirs : TraverserRank[tpc'[d]] >= TraverserRank[tpc[d]]
    /\ \A f \in Files : JobRank[jpc'[f]] >= JobRank[jpc[f]]
    /\ \/ \E d \in Dirs : TraverserRank[tpc'[d]] > TraverserRank[tpc[d]]
       \/ \E f \in Files : JobRank[jpc'[f]] > JobRank[jpc[f]]
       \/ tpc[Root] = "init" /\ pipe' = pipe + 1 /\ pipe' <= K
LEMMA Ranks ==
    /\ TraverserRank["unborn"] = 0 /\ TraverserRank["init"] = 0 /\ TraverserRank["subdirs"] = 1
    /\ TraverserRank["files"] = 2 /\ TraverserRank["spawn"] = 2 /\ TraverserRank["wait"] = 3
    /\ TraverserRank["exited"] = 4 /\ TraverserRank["failed"] = 4
    /\ JobRank["listed"] = 0 /\ JobRank["token"] = 1 /\ JobRank["watcher"] = 2
    /\ JobRank["closed"] = 3 /\ JobRank["grandson"] = 4 /\ JobRank["clean"] = 5
    /\ JobRank["running"] = 6 /\ JobRank["exited"] = 7 /\ JobRank["reaped"] = 8
    /\ JobRank["upped"] = 9 /\ JobRank["done"] = 10 /\ JobRank["killed"] = 10
    /\ JobRank["lost"] = 10
<1>1. /\ TraverserRank["unborn"] = 0 /\ TraverserRank["init"] = 0 /\ TraverserRank["subdirs"] = 1
      /\ TraverserRank["files"] = 2 /\ TraverserRank["spawn"] = 2 /\ TraverserRank["wait"] = 3
      /\ TraverserRank["exited"] = 4 /\ TraverserRank["failed"] = 4
  BY DEF TraverserRank, TraverserPlaces
<1>2. /\ JobRank["listed"] = 0 /\ JobRank["token"] = 1 /\ JobRank["watcher"] = 2
      /\ JobRank["closed"] = 3 /\ JobRank["grandson"] = 4 /\ JobRank["clean"] = 5
      /\ JobRank["running"] = 6 /\ JobRank["exited"] = 7 /\ JobRank["reaped"] = 8
  BY DEF JobRank, JobPlaces, WithToken
<1>3. /\ JobRank["upped"] = 9 /\ JobRank["done"] = 10 /\ JobRank["killed"] = 10
      /\ JobRank["lost"] = 10
  BY DEF JobRank, JobPlaces, WithToken
<1> QED BY <1>1, <1>2, <1>3

LEMMA RankTypes ==
    ASSUME TypeOK
    PROVE  /\ \A d \in Dirs : TraverserRank[tpc[d]] \in Nat
           /\ \A f \in Files : JobRank[jpc[f]] \in Nat
<1> USE Ranks
<1>1. \A d \in Dirs : TraverserRank[tpc[d]] \in Nat
  BY DEF TypeOK, TraverserPlaces
<1>2. \A f \in Files : JobRank[jpc[f]] \in Nat
  BY DEF TypeOK, JobPlaces, WithToken
<1> QED BY <1>1, <1>2

\* Only the job of f moves.
LEMMA JobForward ==
    ASSUME TypeOK, NEW f \in Files, NEW to, tpc' = tpc, jpc' = [jpc EXCEPT ![f] = to],
           JobRank[to] \in Nat, JobRank[jpc[f]] < JobRank[to]
    PROVE  GoesForward
<1>1. \A e \in Files : jpc'[e] = IF e = f THEN to ELSE jpc[e]
  BY DEF TypeOK
<1> QED BY <1>1, RankTypes DEF GoesForward

\* Only the traverser of d moves, or one that it forks.
LEMMA TraverserForward ==
    ASSUME TypeOK, NEW d \in Dirs, NEW to, jpc' = jpc, tpc' = [tpc EXCEPT ![d] = to],
           TraverserRank[to] \in Nat, TraverserRank[tpc[d]] < TraverserRank[to]
    PROVE  GoesForward
<1>1. \A e \in Dirs : tpc'[e] = IF e = d THEN to ELSE tpc[e]
  BY DEF TypeOK
<1> QED BY <1>1, RankTypes DEF GoesForward

\* The traverser of d moves together with a job.
LEMMA BothForward ==
    ASSUME TypeOK, NEW d \in Dirs, NEW to, NEW f \in Files, NEW jto,
           tpc' = [tpc EXCEPT ![d] = to], jpc' = [jpc EXCEPT ![f] = jto],
           TraverserRank[to] \in Nat, TraverserRank[tpc[d]] <= TraverserRank[to],
           JobRank[jto] \in Nat, JobRank[jpc[f]] < JobRank[jto]
    PROVE  GoesForward
<1>1. \A e \in Dirs : tpc'[e] = IF e = d THEN to ELSE tpc[e]
  BY DEF TypeOK
<1>2. \A e \in Files : jpc'[e] = IF e = f THEN jto ELSE jpc[e]
  BY DEF TypeOK
<1> QED BY <1>1, <1>2, RankTypes DEF GoesForward

LEMMA StepGoesForward ==
    ASSUME TypeOK, Next
    PROVE  GoesForward
<1> USE Ranks
<1>1. CASE semaphore_init
  <2>1. CASE pipe < K
    <3>1. tpc' = tpc /\ jpc' = jpc /\ tpc[Root] = "init" /\ pipe' = pipe + 1
      BY <1>1, <2>1 DEF semaphore_init
    <3>2. pipe' <= K
      BY <2>1, <3>1, SizeAssumption DEF TypeOK
    <3> QED BY <3>1, <3>2, RankTypes DEF GoesForward
  <2>2. CASE ~(pipe < K)
    <3>1. jpc' = jpc /\ tpc' = [tpc EXCEPT ![Root] = "subdirs"] /\ tpc[Root] = "init" /\ Root \in Dirs
      BY <1>1, <2>2, TreeAssumption DEF semaphore_init
    <3>2. TraverserRank[tpc[Root]] < TraverserRank["subdirs"] /\ TraverserRank["subdirs"] \in Nat
      BY <3>1
    <3> QED BY <3>1, <3>2, TraverserForward
  <2> QED BY <2>1, <2>2
<1>2. ASSUME NEW d \in Dirs, Traverser(d) PROVE GoesForward
  <2>1. ASSUME NEW e \in Dirs \ {Root}, ForkTraverser(d, e) PROVE GoesForward
    <3>1. jpc' = jpc /\ tpc' = [tpc EXCEPT ![e] = "subdirs"] /\ tpc[e] = "unborn"
      BY <2>1 DEF ForkTraverser, Unvisited
    <3>2. TraverserRank[tpc[e]] < TraverserRank["subdirs"] /\ TraverserRank["subdirs"] \in Nat
      BY <3>1
    <3> QED BY <3>1, <3>2, TraverserForward
  <2>2. CASE TraverserFails(d)
    <3>1. jpc' = jpc /\ tpc' = [tpc EXCEPT ![d] = "failed"] /\ tpc[d] \in {"subdirs", "files"}
      BY <2>2 DEF TraverserFails
    <3>2. TraverserRank[tpc[d]] < TraverserRank["failed"] /\ TraverserRank["failed"] \in Nat
      BY <3>1
    <3> QED BY <3>1, <3>2, TraverserForward
  <2>3. CASE EndOfSubdirs(d)
    <3>1. jpc' = jpc /\ tpc' = [tpc EXCEPT ![d] = "files"] /\ tpc[d] = "subdirs"
      BY <2>3 DEF EndOfSubdirs
    <3>2. TraverserRank[tpc[d]] < TraverserRank["files"] /\ TraverserRank["files"] \in Nat
      BY <3>1
    <3> QED BY <3>1, <3>2, TraverserForward
  <2>4. ASSUME NEW f \in Files, semaphore_down(d, f) PROVE GoesForward
    <3>1. /\ tpc' = [tpc EXCEPT ![d] = "spawn"] /\ tpc[d] = "files"
          /\ jpc' = [jpc EXCEPT ![f] = "token"] /\ jpc[f] = "listed"
      BY <2>4 DEF semaphore_down
    <3>2. TraverserRank[tpc[d]] <= TraverserRank["spawn"] /\ TraverserRank["spawn"] \in Nat
      BY <3>1
    <3>3. JobRank[jpc[f]] < JobRank["token"] /\ JobRank["token"] \in Nat
      BY <3>1
    <3> QED BY <3>1, <3>2, <3>3, BothForward
  <2>5. ASSUME NEW f \in Files, runWatcher(d, f) PROVE GoesForward
    <3>1. /\ tpc' = [tpc EXCEPT ![d] = "files"] /\ tpc[d] = "spawn"
          /\ jpc' = [jpc EXCEPT ![f] = "watcher"] /\ jpc[f] = "token"
      BY <2>5 DEF runWatcher
    <3>2. TraverserRank[tpc[d]] <= TraverserRank["files"] /\ TraverserRank["files"] \in Nat
      BY <3>1
    <3>3. JobRank[jpc[f]] < JobRank["watcher"] /\ JobRank["watcher"] \in Nat
      BY <3>1
    <3> QED BY <3>1, <3>2, <3>3, BothForward
  <2>6. ASSUME NEW f \in Files, runWatcherFails(d, f) PROVE GoesForward
    <3>1. /\ tpc' = [tpc EXCEPT ![d] = "failed"] /\ tpc[d] = "spawn"
          /\ jpc' = [jpc EXCEPT ![f] = "lost"] /\ jpc[f] = "token"
      BY <2>6 DEF runWatcherFails
    <3>2. TraverserRank[tpc[d]] <= TraverserRank["failed"] /\ TraverserRank["failed"] \in Nat
      BY <3>1
    <3>3. JobRank[jpc[f]] < JobRank["lost"] /\ JobRank["lost"] \in Nat
      BY <3>1
    <3> QED BY <3>1, <3>2, <3>3, BothForward
  <2>7. CASE EndOfFiles(d)
    <3>1. jpc' = jpc /\ tpc' = [tpc EXCEPT ![d] = "wait"] /\ tpc[d] = "files"
      BY <2>7 DEF EndOfFiles
    <3>2. TraverserRank[tpc[d]] < TraverserRank["wait"] /\ TraverserRank["wait"] \in Nat
      BY <3>1
    <3> QED BY <3>1, <3>2, TraverserForward
  <2>8. CASE WaitReturns(d)
    <3>1. jpc' = jpc /\ tpc' = [tpc EXCEPT ![d] = "exited"] /\ tpc[d] = "wait"
      BY <2>8 DEF WaitReturns
    <3>2. TraverserRank[tpc[d]] < TraverserRank["exited"] /\ TraverserRank["exited"] \in Nat
      BY <3>1
    <3> QED BY <3>1, <3>2, TraverserForward
  <2> QED BY <1>2, <2>1, <2>2, <2>3, <2>4, <2>5, <2>6, <2>7, <2>8 DEF Traverser, traverse_and_run
<1>3. ASSUME NEW f \in Files, Job(f) PROVE GoesForward
  <2>1. ASSUME NEW from, NEW to, JobStep(f, from, to), JobRank[from] < JobRank[to], JobRank[to] \in Nat
        PROVE  GoesForward
    BY <2>1, JobForward DEF JobStep
  <2>2. CASE \/ WatcherCloses(f) \/ ForkGrandson(f) \/ ForkGrandsonFails(f) \/ GrandsonCloses(f)
             \/ EXECV(f) \/ JobEnds(f)
    BY <2>1, <2>2 DEF WatcherCloses, ForkGrandson, ForkGrandsonFails, GrandsonCloses, EXECV, JobEnds
  <2>3. CASE \/ WAITPID(f) \/ WAITPIDFails(f) \/ semaphore_up(f) \/ UpIsKilled(f) \/ WatcherExits(f)
    BY <2>1, <2>3 DEF WAITPID, WAITPIDFails, semaphore_up, UpIsKilled, WatcherExits
  <2> QED BY <1>3, <2>2, <2>3 DEF Job
<1> QED BY <1>1, <1>2, <1>3 DEF Next

\* Every step takes a process or a job forward, and none back: no call is
\* retried, no job is run twice, and since ranks are bounded the program makes
\* finitely many steps, whatever tree it walks and whatever fails.
THEOREM OnlyForward == Spec => [][GoesForward]_vars
<1>1. IInv /\ [Next]_vars => [GoesForward]_vars
  BY StepGoesForward DEF IInv
<1> QED BY <1>1, Inductive, PTL DEF Spec
\* The places the traversers and the jobs have behind them, and the bytes main
\* has written: how many steps have been made, but for those of a traverser and
\* a job at once.
TraverserMarks == {m \in Dirs \X (1 .. 4) : m[2] <= TraverserRank[tpc[m[1]]]}
JobMarks == {m \in Files \X (1 .. 10) : m[2] <= JobRank[jpc[m[1]]]}
Written == IF Started THEN K ELSE pipe
Progress == Cardinality(TraverserMarks) + Cardinality(JobMarks) + Written

LEMMA MarksFinite ==
    /\ IsFiniteSet(TraverserMarks) /\ Cardinality(TraverserMarks) \in 0 .. 4 * Cardinality(Dirs)
    /\ IsFiniteSet(JobMarks) /\ Cardinality(JobMarks) \in 0 .. 10 * Cardinality(Files)
<1>1. /\ IsFiniteSet(1 .. 4) /\ Cardinality(1 .. 4) = 4
      /\ IsFiniteSet(1 .. 10) /\ Cardinality(1 .. 10) = 10
  <2>1. IsFiniteSet(1 .. 4) /\ Cardinality(1 .. 4) = IF 1 > 4 THEN 0 ELSE 4 - 1 + 1
    BY FS_Interval, 1 \in Int, 4 \in Int
  <2>2. IsFiniteSet(1 .. 10) /\ Cardinality(1 .. 10) = IF 1 > 10 THEN 0 ELSE 10 - 1 + 1
    BY FS_Interval, 1 \in Int, 10 \in Int
  <2> QED BY <2>1, <2>2
<1>2. /\ IsFiniteSet(Dirs \X (1 .. 4)) /\ Cardinality(Dirs \X (1 .. 4)) = Cardinality(Dirs) * 4
      /\ IsFiniteSet(Files \X (1 .. 10)) /\ Cardinality(Files \X (1 .. 10)) = Cardinality(Files) * 10
  BY <1>1, TreeAssumption, FS_Product
<1>3. TraverserMarks \subseteq Dirs \X (1 .. 4) /\ JobMarks \subseteq Files \X (1 .. 10)
  BY DEF TraverserMarks, JobMarks
<1>4. /\ IsFiniteSet(TraverserMarks) /\ Cardinality(TraverserMarks) <= Cardinality(Dirs \X (1 .. 4))
      /\ IsFiniteSet(JobMarks) /\ Cardinality(JobMarks) <= Cardinality(Files \X (1 .. 10))
  BY <1>2, <1>3, FS_Subset
<1>5. /\ Cardinality(TraverserMarks) \in Nat /\ Cardinality(JobMarks) \in Nat
      /\ Cardinality(Dirs) \in Nat /\ Cardinality(Files) \in Nat
  BY <1>4, TreeAssumption, FS_CardinalityType
<1> QED BY <1>2, <1>4, <1>5

LEMMA MarksTypes ==
    /\ IsFiniteSet(TraverserMarks) /\ Cardinality(TraverserMarks) \in Nat
    /\ IsFiniteSet(JobMarks) /\ Cardinality(JobMarks) \in Nat
BY MarksFinite, FS_CardinalityType

LEMMA MarksTypesNext ==
    (/\ IsFiniteSet(TraverserMarks) /\ Cardinality(TraverserMarks) \in Nat
     /\ IsFiniteSet(JobMarks) /\ Cardinality(JobMarks) \in Nat)'
BY MarksTypes, PTL

\* Sets of marks only grow, and grow when somebody goes forward.
LEMMA MarksGrow ==
    ASSUME TypeOK, TypeOK', GoesForward
    PROVE  /\ TraverserMarks \subseteq TraverserMarks' /\ JobMarks \subseteq JobMarks'
           /\ \A d \in Dirs : TraverserRank[tpc'[d]] > TraverserRank[tpc[d]]
                                 => TraverserMarks # TraverserMarks'
           /\ \A f \in Files : JobRank[jpc'[f]] > JobRank[jpc[f]] => JobMarks # JobMarks'
<1>1. /\ \A d \in Dirs : TraverserRank[tpc[d]] \in 0 .. 4 /\ TraverserRank[tpc'[d]] \in 0 .. 4
      /\ \A f \in Files : JobRank[jpc[f]] \in 0 .. 10 /\ JobRank[jpc'[f]] \in 0 .. 10
  <2>1. \A p \in TraverserPlaces : TraverserRank[p] \in 0 .. 4
    BY Ranks DEF TraverserPlaces
  <2>2. \A p \in JobPlaces : JobRank[p] \in 0 .. 10
    BY Ranks DEF JobPlaces, WithToken
  <2>3. \A d \in Dirs : tpc[d] \in TraverserPlaces /\ tpc'[d] \in TraverserPlaces
    BY DEF TypeOK
  <2>4. \A f \in Files : jpc[f] \in JobPlaces /\ jpc'[f] \in JobPlaces
    BY DEF TypeOK
  <2> QED BY <2>1, <2>2, <2>3, <2>4
<1>2. /\ \A d \in Dirs : TraverserRank[tpc'[d]] >= TraverserRank[tpc[d]]
      /\ \A f \in Files : JobRank[jpc'[f]] >= JobRank[jpc[f]]
  BY DEF GoesForward
<1>3. TraverserMarks \subseteq TraverserMarks'
  BY <1>1, <1>2 DEF TraverserMarks
<1>4. JobMarks \subseteq JobMarks'
  BY <1>1, <1>2 DEF JobMarks
<1>5. ASSUME NEW d \in Dirs, TraverserRank[tpc'[d]] > TraverserRank[tpc[d]]
      PROVE  TraverserMarks # TraverserMarks'
  <2> DEFINE r == TraverserRank[tpc'[d]]
  <2>1. r \in 1 .. 4 /\ ~(r <= TraverserRank[tpc[d]])
    BY <1>1, <1>5
  <2>2. <<d, r>> \in TraverserMarks'
    BY <2>1 DEF TraverserMarks
  <2>3. <<d, r>> \notin TraverserMarks
    BY <2>1 DEF TraverserMarks
  <2> QED BY <2>2, <2>3
<1>6. ASSUME NEW f \in Files, JobRank[jpc'[f]] > JobRank[jpc[f]]
      PROVE  JobMarks # JobMarks'
  <2> DEFINE r == JobRank[jpc'[f]]
  <2>1. r \in 1 .. 10 /\ ~(r <= JobRank[jpc[f]])
    BY <1>1, <1>6
  <2>2. <<f, r>> \in JobMarks'
    BY <2>1 DEF JobMarks
  <2>3. <<f, r>> \notin JobMarks
    BY <2>1 DEF JobMarks
  <2> QED BY <2>2, <2>3
<1> QED BY <1>3, <1>4, <1>5, <1>6

LEMMA SumGrows ==
    ASSUME NEW a \in Nat, NEW b \in Nat, NEW c \in Nat, NEW x \in Nat, NEW y \in Nat, NEW z \in Nat,
           a <= x, b <= y, c <= z, a # x \/ b # y \/ c # z
    PROVE  x + y + z > a + b + c
OBVIOUS

LEMMA ProgressGrows ==
    ASSUME IInv, IInv', Next
    PROVE  Progress' > Progress
<1>1. GoesForward
  BY StepGoesForward DEF IInv
<1>2. TraverserMarks \subseteq TraverserMarks' /\ JobMarks \subseteq JobMarks'
  BY <1>1, MarksGrow DEF IInv
<1> DEFINE t == Cardinality(TraverserMarks)
           j == Cardinality(JobMarks)
<1>3. /\ t \in Nat /\ t' \in Nat /\ j \in Nat /\ j' \in Nat
      /\ IsFiniteSet(TraverserMarks) /\ IsFiniteSet(JobMarks)
      /\ IsFiniteSet(TraverserMarks') /\ IsFiniteSet(JobMarks')
  BY MarksTypes, MarksTypesNext
<1>4. /\ t <= t' /\ (TraverserMarks # TraverserMarks' => t # t')
      /\ j <= j' /\ (JobMarks # JobMarks' => j # j')
  BY <1>2, <1>3, FS_Subset
<1>5. Progress = t + j + Written /\ Progress' = t' + j' + Written'
  BY DEF Progress
<1> HIDE DEF t, j, Progress
<1>6. TypeOK /\ Root \in Dirs /\ tpc[Root] # "unborn" /\ pipe \in Nat /\ (~Started => pipe <= K)
  BY TreeAssumption DEF IInv, TypeOK, TreeInv, NotStartedInv
<1>7. CASE semaphore_init
  <2>1. tpc[Root] = "init" /\ Written = pipe
    BY <1>7 DEF semaphore_init, Written, Started
  <2>2. CASE pipe < K
    <3>1. Written' = pipe + 1
      BY <1>7, <2>1, <2>2 DEF semaphore_init, Written, Started
    <3>2. Written \in Nat /\ Written' \in Nat /\ Written <= Written' /\ Written # Written'
      BY <1>6, <2>1, <3>1
    <3> QED BY <1>3, <1>4, <1>5, <3>2, SumGrows
  <2>3. CASE ~(pipe < K)
    <3>1. tpc'[Root] = "subdirs" /\ Written' = K
      BY <1>6, <1>7, <2>3 DEF semaphore_init, Written, Started, TypeOK
    <3>2. TraverserRank[tpc'[Root]] > TraverserRank[tpc[Root]]
      BY <2>1, <3>1, Ranks
    <3>3. t # t'
      BY <1>1, <1>4, <1>6, <3>2, MarksGrow DEF IInv
    <3>4. pipe <= K
      BY <1>6, <2>1 DEF Started
    <3>5. Written \in Nat /\ Written' \in Nat /\ Written <= Written'
      BY <1>6, <2>1, <3>1, <3>4, SizeAssumption
    <3> QED BY <1>3, <1>4, <1>5, <3>3, <3>5, SumGrows
  <2> QED BY <2>2, <2>3
<1>8. CASE (\E d \in Dirs : Traverser(d)) \/ (\E f \in Files : Job(f))
  <2>1. Started
    <3>1. ASSUME NEW d \in Dirs, Traverser(d) PROVE Started
      BY <3>1, TraverserMoves, TreeAssumption DEF IInv, NotStartedInv, Started
    <3>2. ASSUME NEW f \in Files, Job(f) PROVE Started
      BY <3>2, JobMoves DEF IInv, NotStartedInv
    <3> QED BY <1>8, <3>1, <3>2
  <2>2. TraverserRank[tpc'[Root]] >= TraverserRank[tpc[Root]]
    BY <1>1, <1>6 DEF GoesForward
  <2>3. tpc[Root] \in TraverserPlaces \ {"unborn", "init"}
    BY <1>6, <2>1 DEF Started, TypeOK
  <2>4. Started'
    BY <2>2, <2>3, Ranks DEF Started, TraverserPlaces
  <2>5. Written = K /\ Written' = K
    BY <2>1, <2>4 DEF Written
  <2>6. t # t' \/ j # j'
    BY <1>1, <1>4, <2>1, MarksGrow DEF GoesForward, IInv, Started
  <2>7. Written \in Nat /\ Written' \in Nat /\ Written <= Written'
    BY <2>5, SizeAssumption
  <2> QED BY <1>3, <1>4, <1>5, <2>6, <2>7, SumGrows
<1> QED BY <1>7, <1>8 DEF Next

\* The program makes at most 4 steps per directory, 10 per executable and K,
\* whatever tree it walks and whatever fails: nothing is retried or run twice.
THEOREM StepsAreBounded ==
    Spec => /\ [](Progress \in 0 .. 4 * Cardinality(Dirs) + 10 * Cardinality(Files) + K)
            /\ [][Progress' > Progress]_vars
<1>1. IInv => Progress \in 0 .. 4 * Cardinality(Dirs) + 10 * Cardinality(Files) + K
  <2> SUFFICES ASSUME IInv
               PROVE  Progress \in 0 .. 4 * Cardinality(Dirs) + 10 * Cardinality(Files) + K
    OBVIOUS
  <2>1. Written \in 0 .. K
    BY SizeAssumption DEF IInv, TypeOK, NotStartedInv, Written
  <2>2. Cardinality(Dirs) \in Nat /\ Cardinality(Files) \in Nat
    BY TreeAssumption, FS_CardinalityType
  <2>3. /\ Cardinality(TraverserMarks) \in 0 .. 4 * Cardinality(Dirs)
        /\ Cardinality(JobMarks) \in 0 .. 10 * Cardinality(Files)
    BY MarksFinite
  <2> QED BY <2>1, <2>2, <2>3, SizeAssumption DEF Progress
<1>2. IInv /\ IInv' /\ [Next]_vars => [Progress' > Progress]_vars
  BY ProgressGrows
<1> QED BY <1>1, <1>2, Inductive, PTL DEF Spec
==============================================================================
