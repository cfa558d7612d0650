------------------------------ MODULE Installation ------------------------------
(***************************************************************************)
(* An installation: the processes of the application over one data         *)
(* directory, its lock file and SQLite database, and the release tool that *)
(* backs up and restores (main.py lifespan, app/services/locks.py,         *)
(* app/db.py, app/cli/release.py).                                         *)
(*                                                                         *)
(* The database in WAL mode is a main file of pages and a log of newer     *)
(* pages.  SQLite replays the log that lies beside a main file whatever    *)
(* main file that is.  The last connection that is closed moves the log    *)
(* into the main file and deletes it; a process that dies does not.        *)
(* Operators do as docs/BACKUP_RESTORE.md says as far as a restore goes:   *)
(* they stop the application first.  A backup may find it at work.         *)
(*                                                                         *)
(* Left out: .env, a file that is kept and put back in the same way, and   *)
(* the smoke test, which makes a data directory of its own.                *)
(***************************************************************************)
EXTENDS Integers, Sequences, FiniteSets

CONSTANTS MaxProcess,     \* bound: processes started
          Pages,          \* pages of the database
          MaxCommit,      \* bound: transactions
          MaxArchive,     \* bound: backups
          MaxCrash,       \* bound: processes that are killed
          Nothing

Process == 1..MaxProcess
Version == 0..MaxCommit
Content == [Pages -> Version]
Log == UNION {[P -> Version] : P \in SUBSET Pages}
NoLog == [x \in {} |-> 0]

ASSUME InstallationAssumption ==
    /\ MaxProcess \in Nat /\ MaxCommit \in Nat /\ MaxArchive \in Nat /\ MaxCrash \in Nat
    /\ Nothing \notin Content /\ Nothing \notin Process

Phases == {"off", "locked", "serving", "stopping", "joined", "released", "disposed", "gone"}

\* What a backup archive holds: database.sqlite, and of data/ the log and the
\* safety copy; held is history, what a reader saw when the backup began.
Archive == [database : Content, log : Log, safety : Content \cup {Nothing}, held : Content]

VARIABLES
    phase,        \* of each process, its main thread
    handler,      \* of each process, its worker's handler and its session
    lock,         \* the process that holds app.lock
    main, log,    \* the database file and its -wal file
    safety,       \* the file <database>.before-restore.sqlite
    archives,     \* the backups, oldest first
    tool, copy,   \* what the release tool is at, and the archive in its hands
    commits, crashes,
    latest,       \* history: what the last commit or restore has left
    overwritten,  \* history: what the last restore has overwritten
    mixed         \* history: the last restore put a main file beside a log

processes == <<phase, handler, lock, commits, crashes>>
database == <<main, log>>
history == <<latest, overwritten, mixed>>
vars == <<processes, database, safety, archives, tool, copy, history>>

TypeOK ==
    /\ phase \in [Process -> Phases]
    /\ handler \in [Process -> {"idle", "working", "session"}]
    /\ lock \in Process \cup {Nothing}
    /\ main \in Content /\ log \in Log
    /\ safety \in Content \cup {Nothing}
    /\ archives \in Seq(Archive)
    /\ tool \in {"idle", "backup", "restore"}
    /\ copy \in IF tool = "idle" THEN {Nothing} ELSE Archive
    /\ commits \in Version /\ crashes \in 0..MaxCrash
    /\ latest \in Content /\ overwritten \in Content \cup {Nothing} /\ mixed \in BOOLEAN

Init ==
    /\ phase = [p \in Process |-> "off"]
    /\ handler = [p \in Process |-> "idle"]
    /\ lock = Nothing
    /\ main = [x \in Pages |-> 0] /\ log = NoLog
    /\ safety = Nothing /\ archives = <<>> /\ tool = "idle" /\ copy = Nothing
    /\ commits = 0 /\ crashes = 0
    /\ latest = main /\ overwritten = Nothing /\ mixed = FALSE

-----------------------------------------------------------------------------
\* Newer pages before older ones.
Over(new, old) ==
    [x \in DOMAIN new \cup DOMAIN old |-> IF x \in DOMAIN new THEN new[x] ELSE old[x]]

\* What a reader of the database sees.
View == Over(log, main)

Alive(p) == phase[p] \notin {"off", "gone"}
Connected == {p \in Process : phase[p] \in {"serving", "stopping", "joined", "released"}
                              \/ (Alive(p) /\ handler[p] = "session")}

\* Faulty variant of CloseOf: the log is not moved into the main file.
CloseWithoutCheckpoint(p) ==
    IF Connected \subseteq {p} THEN log' = NoLog /\ UNCHANGED main
                               ELSE UNCHANGED database

\* The pooled connections of p go, or the session that outlived its pool.
CloseOf(p) ==
    IF Connected \subseteq {p} THEN main' = View /\ log' = NoLog
                               ELSE UNCHANGED database

-----------------------------------------------------------------------------
\* Processes start one after the other, and not while a restore runs.
MayStart(p) == phase[p] = "off" /\ tool # "restore" /\ \A q \in 1..p-1 : phase[q] # "off"

\* Faulty variant of Acquire: the lock is shared.
AcquireShared(p) ==
    /\ MayStart(p)
    /\ lock' = p /\ phase' = [phase EXCEPT ![p] = "locked"]
    /\ UNCHANGED <<handler, commits, crashes, database, safety, archives, tool, copy, history>>

\* SingletonProcessLock.acquire(), which does not wait.
Acquire(p) ==
    /\ MayStart(p)
    /\ IF lock = Nothing THEN lock' = p /\ phase' = [phase EXCEPT ![p] = "locked"]
                         ELSE phase' = [phase EXCEPT ![p] = "gone"] /\ UNCHANGED lock
    /\ UNCHANGED <<handler, commits, crashes, database, safety, archives, tool, copy, history>>

\* init_database() connects; scheduler and worker start.
Serve(p) ==
    /\ phase[p] = "locked"
    /\ phase' = [phase EXCEPT ![p] = "serving"]
    /\ UNCHANGED <<handler, lock, commits, crashes, database, safety, archives, tool, copy, history>>

Moves(p, from, to) == phase[p] = from /\ phase' = [phase EXCEPT ![p] = to]

\* The lifespan ends: scheduler.shutdown() and the stop event.
Stop(p) ==
    /\ Moves(p, "serving", "stopping")
    /\ UNCHANGED <<handler, lock, commits, crashes, database, safety, archives, tool, copy, history>>

\* Faulty variant of Join: it waits for the handler.
JoinForEver(p) ==
    /\ Moves(p, "stopping", "joined")
    /\ handler[p] = "idle"
    /\ UNCHANGED <<handler, lock, commits, crashes, database, safety, archives, tool, copy, history>>

\* worker.shutdown(): the handler has ended, or join() gives up after two
\* seconds.
Join(p) ==
    /\ Moves(p, "stopping", "joined")
    /\ UNCHANGED <<handler, lock, commits, crashes, database, safety, archives, tool, copy, history>>

\* process_lock.release().
Release(p) ==
    /\ Moves(p, "joined", "released")
    /\ lock' = Nothing
    /\ UNCHANGED <<handler, commits, crashes, database, safety, archives, tool, copy, history>>

\* dispose_database(): the pool is closed, but not the session that a handler
\* has in use, and there is no session factory any more.
Dispose(p) ==
    /\ Moves(p, "released", "disposed")
    /\ IF handler[p] = "session" THEN UNCHANGED database ELSE CloseOf(p)
    /\ UNCHANGED <<handler, lock, commits, crashes, safety, archives, tool, copy, history>>

\* The interpreter ends and kills the daemon thread of the worker.
Exit(p) ==
    /\ Moves(p, "disposed", "gone")
    /\ handler' = [handler EXCEPT ![p] = "idle"]
    /\ UNCHANGED <<lock, commits, crashes, database, safety, archives, tool, copy, history>>

\* The process is killed, or its start fails; the system frees the lock.
Crash(p) ==
    /\ Alive(p) /\ crashes < MaxCrash
    /\ crashes' = crashes + 1
    /\ phase' = [phase EXCEPT ![p] = "gone"]
    /\ handler' = [handler EXCEPT ![p] = "idle"]
    /\ lock' = IF lock = p THEN Nothing ELSE lock
    /\ UNCHANGED <<commits, database, safety, archives, tool, copy, history>>

-----------------------------------------------------------------------------
\* The loop pops a job; it may have tested the stop event just before it was set.
HandlerBegins(p) ==
    /\ phase[p] \in {"serving", "stopping"} /\ handler[p] = "idle"
    /\ handler' = [handler EXCEPT ![p] = "working"]
    /\ UNCHANGED <<phase, lock, commits, crashes, database, safety, archives, tool, copy, history>>

\* open_session(); without a factory it raises, and the handler ends.
OpenSession(p) ==
    /\ handler[p] = "working"
    /\ handler' = [handler EXCEPT ![p] = IF phase[p] = "disposed" THEN "idle" ELSE "session"]
    /\ UNCHANGED <<phase, lock, commits, crashes, database, safety, archives, tool, copy, history>>

\* session.close(): back to the pool, or closed if that is disposed.
CloseSession(p) ==
    /\ handler[p] = "session"
    /\ \E h \in {"working", "idle"} : handler' = [handler EXCEPT ![p] = h]
    /\ IF phase[p] = "disposed" THEN CloseOf(p) ELSE UNCHANGED database
    /\ UNCHANGED <<phase, lock, commits, crashes, safety, archives, tool, copy, history>>

\* A transaction of a route or of the handler.  A log that has been moved into
\* the main file may be begun anew.
Commit(p) ==
    /\ commits < MaxCommit
    /\ phase[p] = "serving" \/ handler[p] = "session"
    /\ commits' = commits + 1
    /\ \E changed \in SUBSET Pages \ {{}} :
          LET new == [x \in changed |-> commits + 1] IN
          /\ \/ log' = Over(new, log)
             \/ main = View /\ log' = new
          /\ latest' = Over(new, latest)
    /\ UNCHANGED <<phase, handler, lock, crashes, main, safety, archives, tool, copy, overwritten, mixed>>

\* SQLite moves a long log into the main file while it is in use.
Checkpoint ==
    /\ Connected # {}
    /\ main' = View /\ main' # main
    /\ UNCHANGED <<processes, log, safety, archives, tool, copy, history>>

-----------------------------------------------------------------------------
\* Faulty variant of BackupDatabase: the main file is copied as it is.
BackupMainFile ==
    /\ tool = "idle" /\ Len(archives) < MaxArchive
    /\ tool' = "backup"
    /\ copy' = [database |-> main, log |-> NoLog, safety |-> Nothing, held |-> View]
    /\ UNCHANGED <<processes, database, safety, archives, history>>

\* _copy_sqlite_database(): a snapshot, through a connection of its own.
BackupDatabase ==
    /\ tool = "idle" /\ Len(archives) < MaxArchive
    /\ tool' = "backup"
    /\ copy' = [database |-> View, log |-> NoLog, safety |-> Nothing, held |-> View]
    /\ CloseOf(0)
    /\ UNCHANGED <<processes, safety, archives, history>>

\* The files of data/ but the database and app.lock, and the archive.
BackupFiles ==
    /\ tool = "backup"
    /\ tool' = "idle"
    /\ archives' = Append(archives, [copy EXCEPT !.log = log, !.safety = safety])
    /\ copy' = Nothing
    /\ UNCHANGED <<processes, database, safety, history>>

\* _restore_stage(): the safety copy, and database.sqlite over the main file.
\* A log that lies there stays.
RestoreDatabase ==
    /\ tool = "idle"
    /\ \A p \in Process : ~Alive(p)
    /\ \E i \in 1..Len(archives) : copy' = archives[i]
    /\ tool' = "restore"
    /\ safety' = main
    /\ main' = copy'.database
    /\ overwritten' = View
    /\ mixed' = (log # NoLog \/ copy'.log # NoLog)
    /\ latest' = copy'.held
    /\ UNCHANGED <<processes, log, archives>>

\* The archived files over those of data/.
RestoreFiles ==
    /\ tool = "restore"
    /\ tool' = "idle"
    /\ log' = IF copy.log = NoLog THEN log ELSE copy.log
    /\ safety' = IF copy.safety = Nothing THEN safety ELSE copy.safety
    /\ copy' = Nothing
    /\ UNCHANGED <<processes, main, archives, history>>

Lifespan(p) == Acquire(p) \/ Serve(p) \/ Stop(p) \/ Join(p) \/ Release(p) \/ Dispose(p) \/ Exit(p)
Handler(p) == HandlerBegins(p) \/ OpenSession(p) \/ CloseSession(p) \/ Commit(p)
ReleaseTool == BackupDatabase \/ BackupFiles \/ RestoreDatabase \/ RestoreFiles

Next == \/ \E p \in Process : Lifespan(p) \/ Handler(p) \/ Crash(p)
        \/ Checkpoint
        \/ ReleaseTool

Spec == Init /\ [][Next]_vars

\* The main thread of a process that is told to stop goes on.
FairSpec == Spec /\ \A p \in Process : WF_vars(Join(p) \/ Release(p) \/ Dispose(p) \/ Exit(p))

-----------------------------------------------------------------------------
\* What the application reads is what the last commit, or the backup that was
\* restored, has left, over crashes, handlers that outlive their process's
\* shutdown, second processes, checkpoints, backups and restores; but not
\* after a restore that found a log beside the database or brought one.
NothingCommittedIsLost == mixed \/ tool = "restore" \/ View = latest

\* A process between acquire() and release() holds the lock, so that there is
\* one scheduler and one worker that takes jobs; and nobody else holds it, so
\* that no start is refused on account of a process that is gone.
LockIsHeldByOneAtWork ==
    \A p \in Process :
        lock = p <=> phase[p] \in {"locked", "serving", "stopping", "joined"}

\* A handler that does not end keeps neither the lock nor the process.
StopEnds == \A p \in Process : phase[p] = "stopping" ~> phase[p] = "gone" /\ lock # p

\* docs/BACKUP_RESTORE.md:50: restore "creates safety copies of the current
\* local runtime before overwriting".  The copy that a restore leaves is what
\* it has overwritten.
SafetyCopyHoldsOverwrittenData ==
    tool = "idle" /\ overwritten # Nothing => safety = overwritten
=============================================================================
