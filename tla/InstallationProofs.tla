--------------------------- MODULE InstallationProofs ---------------------------
(***************************************************************************)
(* The lock file is held by the process at work, and by no other, however  *)
(* many processes are started, stopped and killed; and what readers of the *)
(* database see is what was committed last.                                *)
(***************************************************************************)
EXTENDS Installation, TLAPS

\* The groups of variables an action leaves alone together.
USE DEF processes, database, history

-----------------------------------------------------------------------------
(* Pages and logs.                                                         *)

\* A log laid over a main file gives a main file.
LEMMA ViewType ==
    ASSUME NEW m \in Content, NEW l \in Log
    PROVE  Over(l, m) \in Content
  <1>1. PICK P \in SUBSET Pages : l \in [P -> Version]
    BY DEF Log
  <1>2. Over(l, m) = [x \in Pages |-> IF x \in P THEN l[x] ELSE m[x]]
    BY <1>1 DEF Content, Over
  <1> QED  BY <1>1, <1>2 DEF Content

\* Newer pages laid over a log give a log.
LEMMA LogType ==
    ASSUME NEW l \in Log, NEW n \in Log
    PROVE  Over(n, l) \in Log
  <1>1. PICK P \in SUBSET Pages : l \in [P -> Version]
    BY DEF Log
  <1>2. PICK Q \in SUBSET Pages : n \in [Q -> Version]
    BY DEF Log
  <1>3. Over(n, l) = [x \in Q \cup P |-> IF x \in Q THEN n[x] ELSE l[x]]
    BY <1>1, <1>2 DEF Over
  <1>4. Over(n, l) \in [Q \cup P -> Version]
    BY <1>1, <1>2, <1>3
  <1> QED  BY <1>1, <1>2, <1>4 DEF Log

\* No log is a log of no pages.
LEMMA NoLogType == NoLog \in Log
  <1>1. NoLog \in [{} -> Version]
    BY DEF NoLog
  <1> QED  BY <1>1 DEF Log

\* The last connection to close moves the log into the main file.
LEMMA CloseType ==
    ASSUME TypeOK, NEW p, CloseOf(p)
    PROVE  main' \in Content /\ log' \in Log
  <1>1. main \in Content /\ log \in Log
    BY DEF TypeOK
  <1>2. View \in Content
    BY <1>1, ViewType DEF View
  <1> QED  BY <1>1, <1>2, NoLogType DEF CloseOf

-----------------------------------------------------------------------------
(* The types.                                                              *)

\* At the start everything has its type.
LEMMA InitTyped == Init => TypeOK
  <1> SUFFICES ASSUME Init PROVE TypeOK
    OBVIOUS
  <1>1. commits \in Version /\ crashes \in 0..MaxCrash
    BY InstallationAssumption DEF Init, Version
  <1>2. main \in Content /\ log \in Log /\ latest \in Content
    BY InstallationAssumption, NoLogType DEF Init, Content, Version
  <1>3. archives \in Seq(Archive)
    BY DEF Init
  <1> QED  BY <1>1, <1>2, <1>3 DEF Init, TypeOK, Phases

\* Every step keeps the types.
LEMMA StepTyped == TypeOK /\ [Next]_vars => TypeOK'
  <1> SUFFICES ASSUME TypeOK, [Next]_vars PROVE TypeOK'
    OBVIOUS
  <1>1. ASSUME NEW p \in Process, Lifespan(p) PROVE TypeOK'
    <2>1. CASE Acquire(p) \/ Serve(p) \/ Stop(p) \/ Join(p) \/ Release(p)
      BY <2>1 DEF Acquire, MayStart, Serve, Stop, Join, Release, Moves, TypeOK, Phases
    <2>2. CASE Dispose(p)
      <3>1. main' \in Content /\ log' \in Log
        BY <2>2, CloseType DEF Dispose, TypeOK
      <3> QED  BY <2>2, <3>1 DEF Dispose, Moves, TypeOK, Phases
    <2>3. CASE Exit(p)
      BY <2>3 DEF Exit, Moves, TypeOK, Phases
    <2> QED  BY <1>1, <2>1, <2>2, <2>3 DEF Lifespan
  <1>2. ASSUME NEW p \in Process, Crash(p) PROVE TypeOK'
    BY <1>2, InstallationAssumption DEF Crash, Alive, TypeOK, Phases
  <1>3. ASSUME NEW p \in Process, Handler(p) PROVE TypeOK'
    <2>1. CASE HandlerBegins(p)
      BY <2>1 DEF HandlerBegins, TypeOK
    <2>2. CASE OpenSession(p)
      BY <2>2 DEF OpenSession, TypeOK
    <2>3. CASE CloseSession(p)
      <3>1. main' \in Content /\ log' \in Log
        BY <2>3, CloseType DEF CloseSession, TypeOK
      <3> QED  BY <2>3, <3>1 DEF CloseSession, TypeOK
    <2>4. CASE Commit(p)
      <3>1. commits + 1 \in Version
        BY <2>4, InstallationAssumption DEF Commit, TypeOK, Version
      <3>2. PICK changed \in SUBSET Pages \ {{}} :
               LET new == [x \in changed |-> commits + 1]
               IN  /\ \/ log' = Over(new, log)
                      \/ main = View /\ log' = new
                   /\ latest' = Over(new, latest)
        BY <2>4 DEF Commit
      <3> DEFINE new == [x \in changed |-> commits + 1]
      <3>3. new \in Log
        BY <3>1 DEF Log
      <3>4. log' \in Log
        BY <3>2, <3>3, LogType DEF TypeOK
      <3>5. latest' \in Content
        BY <3>2, <3>3, ViewType DEF TypeOK
      <3> QED  BY <2>4, <3>1, <3>4, <3>5 DEF Commit, TypeOK
    <2> QED  BY <1>3, <2>1, <2>2, <2>3, <2>4 DEF Handler
  <1>4. CASE Checkpoint
    <2>1. View \in Content
      BY ViewType DEF View, TypeOK
    <2> QED  BY <1>4, <2>1 DEF Checkpoint, TypeOK
  <1>5. CASE BackupDatabase
    <2>1. main' \in Content /\ log' \in Log
      BY <1>5, CloseType DEF BackupDatabase
    <2>2. View \in Content
      BY ViewType DEF View, TypeOK
    <2>3. copy' \in Archive
      BY <1>5, <2>2, NoLogType DEF BackupDatabase, Archive
    <2> QED  BY <1>5, <2>1, <2>3 DEF BackupDatabase, TypeOK
  <1>6. CASE BackupFiles
    <2>1. copy \in Archive
      BY <1>6 DEF BackupFiles, TypeOK
    <2>2. [copy EXCEPT !.log = log, !.safety = safety] \in Archive
      BY <2>1 DEF Archive, TypeOK
    <2>3. archives' \in Seq(Archive)
      BY <1>6, <2>2 DEF BackupFiles, TypeOK
    <2> QED  BY <1>6, <2>3 DEF BackupFiles, TypeOK
  <1>7. CASE RestoreDatabase
    <2>1. copy' \in Archive
      BY <1>7 DEF RestoreDatabase, TypeOK
    <2>2. main' \in Content /\ latest' \in Content
      BY <1>7, <2>1 DEF RestoreDatabase, Archive
    <2>3. overwritten' \in Content
      BY <1>7, ViewType DEF RestoreDatabase, View, TypeOK
    <2>4. safety' \in Content /\ mixed' \in BOOLEAN
      BY <1>7 DEF RestoreDatabase, TypeOK
    <2> QED  BY <1>7, <2>1, <2>2, <2>3, <2>4 DEF RestoreDatabase, TypeOK
  <1>8. CASE RestoreFiles
    <2>1. copy \in Archive
      BY <1>8 DEF RestoreFiles, TypeOK
    <2>2. log' \in Log /\ safety' \in Content \cup {Nothing}
      BY <1>8, <2>1 DEF RestoreFiles, TypeOK, Archive
    <2> QED  BY <1>8, <2>2 DEF RestoreFiles, TypeOK
  <1>9. CASE UNCHANGED vars
    BY <1>9 DEF vars, TypeOK
  <1> QED  BY <1>1, <1>2, <1>3, <1>4, <1>5, <1>6, <1>7, <1>8, <1>9 DEF Next, ReleaseTool

\* Every reachable state of the installation has its types.
THEOREM TypeCorrect == Spec => []TypeOK
  BY InitTyped, StepTyped, PTL DEF Spec

-----------------------------------------------------------------------------
(* The lock.                                                               *)

\* Only a start, a release and a kill move the lock, and each moves the phase
\* of the process that gets or loses it in the same step.
LEMMA StepLocked ==
    TypeOK /\ LockIsHeldByOneAtWork /\ [Next]_vars => LockIsHeldByOneAtWork'
  <1> SUFFICES ASSUME TypeOK, LockIsHeldByOneAtWork, [Next]_vars,
                      NEW q \in Process
               PROVE  lock' = q <=> phase'[q] \in {"locked", "serving", "stopping", "joined"}
    BY DEF LockIsHeldByOneAtWork
  <1> DEFINE AtWork == {"locked", "serving", "stopping", "joined"}
  <1>0. /\ phase \in [Process -> Phases]
        /\ \A r \in Process : lock = r <=> phase[r] \in AtWork
        /\ Nothing \notin Process
    BY InstallationAssumption DEF TypeOK, LockIsHeldByOneAtWork
  <1>1. ASSUME NEW p \in Process, Lifespan(p) PROVE lock' = q <=> phase'[q] \in AtWork
    <2>1. CASE Acquire(p)
      BY <1>0, <2>1 DEF Acquire, MayStart
    <2>2. CASE Serve(p) \/ Stop(p) \/ Join(p)
      BY <1>0, <2>2 DEF Serve, Stop, Join, Moves
    <2>3. CASE Release(p)
      BY <1>0, <2>3 DEF Release, Moves
    <2>4. CASE Dispose(p) \/ Exit(p)
      BY <1>0, <2>4 DEF Dispose, Exit, Moves
    <2> QED  BY <1>1, <2>1, <2>2, <2>3, <2>4 DEF Lifespan
  <1>2. ASSUME NEW p \in Process, Crash(p) PROVE lock' = q <=> phase'[q] \in AtWork
    BY <1>0, <1>2 DEF Crash, Alive
  <1>3. ASSUME NEW p \in Process, Handler(p) PROVE lock' = q <=> phase'[q] \in AtWork
    BY <1>0, <1>3 DEF Handler, HandlerBegins, OpenSession, CloseSession, Commit
  <1>4. CASE Checkpoint \/ ReleaseTool
    BY <1>0, <1>4 DEF Checkpoint, ReleaseTool, BackupDatabase, BackupFiles,
                      RestoreDatabase, RestoreFiles
  <1>5. CASE UNCHANGED vars
    BY <1>0, <1>5 DEF vars
  <1> QED  BY <1>1, <1>2, <1>3, <1>4, <1>5 DEF Next

\* A process between acquire() and release() in lifespan() holds app.lock, and
\* no other does: two processes never serve, and never run a worker that takes
\* jobs, at once.
THEOREM LockSound == Spec => []LockIsHeldByOneAtWork
  <1>1. Init => LockIsHeldByOneAtWork
    BY InstallationAssumption DEF Init, LockIsHeldByOneAtWork
  <1>2. TypeOK /\ LockIsHeldByOneAtWork /\ [Next]_vars => LockIsHeldByOneAtWork'
    BY StepLocked
  <1> QED  BY <1>1, <1>2, TypeCorrect, PTL DEF Spec

-----------------------------------------------------------------------------
(* What readers see.                                                       *)

\* No log hides nothing.
LEMMA OverNoLog ==
    ASSUME NEW m \in Content PROVE Over(NoLog, m) = m
  BY DEF Over, NoLog, Content

\* A log laid twice over a main file is as if laid once.
LEMMA OverAgain ==
    ASSUME NEW l \in Log, NEW m \in Content PROVE Over(l, Over(l, m)) = Over(l, m)
  <1>1. PICK P \in SUBSET Pages : l \in [P -> Version]
    BY DEF Log
  <1> QED  BY <1>1 DEF Over, Content

\* A later log over an earlier one, or over what that makes of the main file.
LEMMA OverOver ==
    ASSUME NEW n \in Log, NEW l \in Log, NEW m \in Content
    PROVE  Over(Over(n, l), m) = Over(n, Over(l, m))
  <1>1. PICK P \in SUBSET Pages : l \in [P -> Version]
    BY DEF Log
  <1>2. PICK Q \in SUBSET Pages : n \in [Q -> Version]
    BY DEF Log
  <1>3. DOMAIN Over(n, l) = Q \cup P /\ DOMAIN Over(l, m) = Pages
    BY <1>1, <1>2 DEF Over, Content
  <1>4. \A x \in Q \cup P : Over(n, l)[x] = IF x \in Q THEN n[x] ELSE l[x]
    BY <1>1, <1>2 DEF Over
  <1>5. \A x \in Pages : Over(l, m)[x] = IF x \in P THEN l[x] ELSE m[x]
    BY <1>1 DEF Over, Content
  <1>6. Over(Over(n, l), m) =
           [x \in Pages |-> IF x \in Q \cup P THEN Over(n, l)[x] ELSE m[x]]
    BY <1>3 DEF Over, Content
  <1>7. Over(n, Over(l, m)) =
           [x \in Pages |-> IF x \in Q THEN n[x] ELSE Over(l, m)[x]]
    BY <1>2, <1>3 DEF Over
  <1> QED  BY <1>4, <1>5, <1>6, <1>7

\* Closing connections changes nothing for a reader.
LEMMA CloseKeepsView ==
    ASSUME TypeOK, NEW p, CloseOf(p) PROVE View' = View
  <1>1. View \in Content
    BY ViewType DEF View, TypeOK
  <1>2. CASE main' = View /\ log' = NoLog
    BY <1>1, <1>2, OverNoLog DEF View
  <1>3. CASE UNCHANGED <<main, log>>
    BY <1>3 DEF View
  <1> QED  BY <1>2, <1>3 DEF CloseOf

\* A backup is what a reader saw when it began.
ArchivesAreSnapshots ==
    /\ \A i \in 1..Len(archives) : archives[i].database = archives[i].held
    /\ tool # "idle" => copy.database = copy.held

\* Nothing of the application runs during a restore.
RestoreIsAlone ==
    /\ \A p \in Process : handler[p] # "idle" => Alive(p)
    /\ tool = "restore" => \A p \in Process : ~Alive(p)

\* Half of a restore that finds no log and brings none is all a reader needs.
RestoreIsClean ==
    tool = "restore" /\ ~mixed => log = NoLog /\ copy.log = NoLog /\ main = latest

Inv == TypeOK /\ ArchivesAreSnapshots /\ RestoreIsAlone /\ RestoreIsClean /\ NothingCommittedIsLost

\* An archive goes on to hold what a reader saw when it was begun.
LEMMA StepArchived == Inv /\ [Next]_vars => ArchivesAreSnapshots'
  <1> SUFFICES ASSUME Inv, [Next]_vars PROVE ArchivesAreSnapshots'
    OBVIOUS
  <1>1. CASE UNCHANGED <<archives, tool, copy>>
    BY <1>1 DEF Inv, ArchivesAreSnapshots
  <1>2. CASE BackupDatabase
    BY <1>2 DEF BackupDatabase, Inv, ArchivesAreSnapshots
  <1>3. CASE BackupFiles
    <2> DEFINE new == [copy EXCEPT !.log = log, !.safety = safety]
    <2>1. copy \in Archive /\ copy.database = copy.held
      BY <1>3 DEF BackupFiles, Inv, TypeOK, ArchivesAreSnapshots
    <2>2. new \in Archive /\ new.database = new.held
      BY <2>1 DEF Archive, Inv, TypeOK
    <2>3. archives \in Seq(Archive) /\ archives' = Append(archives, new) /\ tool' = "idle"
      BY <1>3 DEF BackupFiles, Inv, TypeOK
    <2> HIDE DEF new
    <2>4. ASSUME NEW i \in 1..Len(archives') PROVE archives'[i].database = archives'[i].held
      <3>1. CASE i \in 1..Len(archives)
        BY <2>3, <3>1 DEF Inv, ArchivesAreSnapshots
      <3>2. CASE i = Len(archives) + 1
        BY <2>2, <2>3, <3>2
      <3> QED  BY <2>3, <3>1, <3>2
    <2> QED  BY <2>3, <2>4 DEF ArchivesAreSnapshots
  <1>4. CASE RestoreDatabase \/ RestoreFiles
    BY <1>4 DEF RestoreDatabase, RestoreFiles, Inv, ArchivesAreSnapshots
  <1> QED  BY <1>1, <1>2, <1>3, <1>4 DEF Next, vars, Lifespan, Handler, ReleaseTool, Acquire,
      Serve, Stop, Join, Release, Dispose, Exit, Crash, HandlerBegins, OpenSession,
      CloseSession, Commit, Checkpoint

\* A restore begins when nothing is alive, and nothing starts before it ends.
LEMMA StepAlone == Inv /\ [Next]_vars => RestoreIsAlone'
  <1> SUFFICES ASSUME Inv, [Next]_vars PROVE RestoreIsAlone'
    OBVIOUS
  <1>0. /\ phase \in [Process -> Phases]
        /\ handler \in [Process -> {"idle", "working", "session"}]
    BY DEF Inv, TypeOK
  <1>1. ASSUME NEW p \in Process, Lifespan(p) PROVE RestoreIsAlone'
    <2>1. CASE Acquire(p)
      BY <1>0, <2>1 DEF Acquire, MayStart, Inv, RestoreIsAlone, Alive
    <2>2. CASE Serve(p) \/ Stop(p) \/ Join(p) \/ Release(p) \/ Dispose(p)
      BY <1>0, <2>2 DEF Serve, Stop, Join, Release, Dispose, Moves, Inv, RestoreIsAlone, Alive
    <2>3. CASE Exit(p)
      BY <1>0, <2>3 DEF Exit, Moves, Inv, RestoreIsAlone, Alive
    <2> QED  BY <1>1, <2>1, <2>2, <2>3 DEF Lifespan
  <1>2. ASSUME NEW p \in Process, Crash(p) PROVE RestoreIsAlone'
    BY <1>0, <1>2 DEF Crash, Inv, RestoreIsAlone, Alive
  <1>3. ASSUME NEW p \in Process, Handler(p) PROVE RestoreIsAlone'
    BY <1>0, <1>3 DEF Handler, HandlerBegins, OpenSession, CloseSession, Commit, Inv,
                      RestoreIsAlone, Alive
  <1>4. CASE Checkpoint \/ BackupDatabase \/ BackupFiles \/ RestoreFiles
    BY <1>4 DEF Checkpoint, BackupDatabase, BackupFiles, RestoreFiles, Inv, RestoreIsAlone, Alive
  <1>5. CASE RestoreDatabase
    BY <1>5 DEF RestoreDatabase, Inv, RestoreIsAlone, Alive
  <1>6. CASE UNCHANGED vars
    BY <1>6 DEF vars, Inv, RestoreIsAlone, Alive
  <1> QED  BY <1>1, <1>2, <1>3, <1>4, <1>5, <1>6 DEF Next, ReleaseTool

\* During a restore no process is there to close, to commit or to checkpoint.
LEMMA RestoreIsStill ==
    ASSUME Inv, tool = "restore", NEW p \in Process
    PROVE  ~Lifespan(p) /\ ~Handler(p) /\ ~Crash(p) /\ ~Checkpoint
  <1>1. \A q \in Process : phase[q] \in {"off", "gone"} /\ handler[q] = "idle"
    BY DEF Inv, TypeOK, RestoreIsAlone, Alive
  <1>2. Connected = {}
    BY <1>1 DEF Connected, Alive
  <1> QED  BY <1>1, <1>2 DEF Lifespan, Acquire, MayStart, Serve, Stop, Join, Release, Dispose,
      Exit, Moves, Handler, HandlerBegins, OpenSession, CloseSession, Commit, Crash, Alive,
      Checkpoint

\* Each file that a restore copies is one that a reader of the archive needs.
LEMMA StepClean == Inv /\ [Next]_vars => RestoreIsClean'
  <1> SUFFICES ASSUME Inv, [Next]_vars PROVE RestoreIsClean'
    OBVIOUS
  <1>1. CASE RestoreDatabase
    BY <1>1 DEF RestoreDatabase, Inv, TypeOK, ArchivesAreSnapshots, RestoreIsClean
  <1>2. CASE tool' # "restore"
    BY <1>2 DEF RestoreIsClean
  <1>3. CASE tool = "restore" /\ tool' = "restore"
    <2>1. \A p \in Process : ~Lifespan(p) /\ ~Handler(p) /\ ~Crash(p)
      BY <1>3, RestoreIsStill
    <2>2. ~Checkpoint
      <3>1. CASE Process = {}
        BY <3>1 DEF Checkpoint, Connected
      <3>2. CASE Process # {}
        BY <1>3, <3>2, RestoreIsStill
      <3> QED  BY <3>1, <3>2
    <2>3. ~ReleaseTool
      BY <1>3 DEF ReleaseTool, BackupDatabase, BackupFiles, RestoreDatabase, RestoreFiles
    <2>4. UNCHANGED vars
      BY <2>1, <2>2, <2>3 DEF Next
    <2> QED  BY <2>4 DEF vars, Inv, RestoreIsClean
  <1>4. CASE tool # "restore" /\ tool' = "restore" /\ ~RestoreDatabase
    BY <1>4 DEF Next, vars, Lifespan, Handler, ReleaseTool, Acquire, Serve, Stop, Join, Release,
       Dispose, Exit, Crash, HandlerBegins, OpenSession, CloseSession, Commit, Checkpoint,
       BackupDatabase, BackupFiles, RestoreFiles
  <1> QED  BY <1>1, <1>2, <1>3, <1>4

\* No step takes from a reader what was committed or restored.
LEMMA StepDurable == Inv /\ [Next]_vars => NothingCommittedIsLost'
  <1> SUFFICES ASSUME Inv, [Next]_vars PROVE NothingCommittedIsLost'
    OBVIOUS
  <1>0. TypeOK /\ View \in Content
    BY ViewType DEF View, Inv, TypeOK
  <1>1. ASSUME View' = View, UNCHANGED <<tool, mixed, latest>> PROVE NothingCommittedIsLost'
    BY <1>1 DEF Inv, NothingCommittedIsLost
  <1>2. ASSUME UNCHANGED <<main, log, tool, mixed, latest>> PROVE NothingCommittedIsLost'
    <2>1. View' = View
      BY <1>2 DEF View
    <2> QED  BY <1>1, <1>2, <2>1
  <1>3. ASSUME NEW p \in Process, Lifespan(p) \/ Crash(p) PROVE NothingCommittedIsLost'
    <2>1. CASE Dispose(p)
      <3>1. CASE UNCHANGED database
        BY <1>2, <2>1, <3>1 DEF Dispose
      <3>2. CASE CloseOf(p)
        BY <1>0, <1>1, <2>1, <3>2, CloseKeepsView DEF Dispose
      <3> QED  BY <2>1, <3>1, <3>2 DEF Dispose
    <2> QED  BY <1>2, <1>3, <2>1 DEF Lifespan, Acquire, Serve, Stop, Join, Release, Exit, Crash
  <1>4. ASSUME NEW p \in Process, Handler(p) PROVE NothingCommittedIsLost'
    <2>1. CASE CloseSession(p)
      <3>1. CASE UNCHANGED database
        BY <1>2, <2>1, <3>1 DEF CloseSession
      <3>2. CASE CloseOf(p)
        BY <1>0, <1>1, <2>1, <3>2, CloseKeepsView DEF CloseSession
      <3> QED  BY <2>1, <3>1, <3>2 DEF CloseSession
    <2>2. CASE Commit(p)
      <3>1. PICK changed \in SUBSET Pages \ {{}} :
               LET new == [x \in changed |-> commits + 1]
               IN  /\ \/ log' = Over(new, log)
                      \/ main = View /\ log' = new
                   /\ latest' = Over(new, latest)
        BY <2>2 DEF Commit
      <3> DEFINE new == [x \in changed |-> commits + 1]
      <3>2. new \in Log
        <4>1. commits + 1 \in Version
          BY <1>0, <2>2, InstallationAssumption DEF Commit, TypeOK, Version
        <4> QED  BY <4>1 DEF Log
      <3> HIDE DEF new
      <3>3. main' = main /\ UNCHANGED <<tool, mixed>>
        BY <2>2 DEF Commit
      <3>4. View' = Over(new, View)
        <4>1. CASE log' = Over(new, log)
          BY <1>0, <3>2, <3>3, <4>1, OverOver DEF View, TypeOK
        <4>2. CASE main = View /\ log' = new
          <5>1. View' = Over(log', main')
            BY DEF View
          <5> QED  BY <3>3, <4>2, <5>1
        <4> QED  BY <3>1, <4>1, <4>2 DEF new
      <3>5. latest' = Over(new, latest)
        BY <3>1 DEF new
      <3> QED  BY <3>3, <3>4, <3>5 DEF Inv, NothingCommittedIsLost
    <2> QED  BY <1>2, <1>4, <2>1, <2>2 DEF Handler, HandlerBegins, OpenSession
  <1>5. CASE Checkpoint
    <2>1. View' = Over(log, View)
      BY <1>5 DEF Checkpoint, View
    <2>2. View' = View
      BY <1>0, <2>1, OverAgain DEF View, TypeOK
    <2> QED  BY <1>1, <1>5, <2>2 DEF Checkpoint
  <1>6. CASE BackupDatabase
    <2>1. View' = View
      BY <1>0, <1>6, CloseKeepsView DEF BackupDatabase
    <2> QED  BY <1>6, <2>1 DEF BackupDatabase, Inv, NothingCommittedIsLost
  <1>7. CASE BackupFiles
    <2>1. View' = View
      BY <1>7 DEF BackupFiles, View
    <2> QED  BY <1>7, <2>1 DEF BackupFiles, Inv, NothingCommittedIsLost
  <1>8. CASE RestoreDatabase
    BY <1>8 DEF RestoreDatabase, NothingCommittedIsLost
  <1>9. CASE RestoreFiles
    <2>1. CASE mixed
      BY <1>9, <2>1 DEF RestoreFiles, NothingCommittedIsLost
    <2>2. CASE ~mixed
      <3>1. log' = NoLog /\ main' = main /\ main = latest /\ latest' = latest
        BY <1>9, <2>2 DEF RestoreFiles, Inv, RestoreIsClean
      <3>2. View' = Over(NoLog, main)
        BY <3>1 DEF View
      <3> QED  BY <1>0, <3>1, <3>2, OverNoLog DEF TypeOK, NothingCommittedIsLost
    <2> QED  BY <2>1, <2>2
  <1>10. CASE UNCHANGED vars
    BY <1>2, <1>10 DEF vars
  <1> QED  BY <1>3, <1>4, <1>5, <1>6, <1>7, <1>8, <1>9, <1>10 DEF Next, ReleaseTool

\* At the start no one serves and the database is as committed.
LEMMA InitSound == Init => Inv
  <1> SUFFICES ASSUME Init PROVE Inv
    OBVIOUS
  <1>1. TypeOK
    BY InitTyped
  <1>2. View = latest
    <2>1. View = Over(NoLog, main)
      BY DEF Init, View
    <2> QED  BY <1>1, <2>1, OverNoLog DEF Init, TypeOK
  <1> QED  BY <1>1, <1>2 DEF Init, Inv, ArchivesAreSnapshots, RestoreIsAlone, RestoreIsClean,
                            NothingCommittedIsLost, Alive

\* Whatever processes are killed, handlers outlive their shutdown, logs are
\* moved and backups restored: readers see what the last commit or the restored
\* backup has left, unless a restore found a log or brought one.
THEOREM Durable == Spec => []NothingCommittedIsLost
  <1>1. Inv /\ [Next]_vars => Inv'
    BY StepTyped, StepArchived, StepAlone, StepClean, StepDurable DEF Inv
  <1>2. Inv => NothingCommittedIsLost
    BY DEF Inv
  <1> QED  BY <1>1, <1>2, InitSound, PTL DEF Spec
=============================================================================
