---------------------------- MODULE RecoveryRuns ----------------------------
(***************************************************************************)
(* Repair and backfill runs: RecoveryService (app/services/ingest.py), the *)
(* routes and the scheduler job that start them, and their handlers in     *)
(* app/main.py, over the broker.                                           *)
(*                                                                         *)
(* A run is a chain of P3 jobs.  Each handles one chunk of one day of the  *)
(* SEC's daily index and enqueues its successor; the run key in            *)
(* _active_runs, taken by whoever starts the chain, is given back by its   *)
(* last job.  A run started from a page also has an IngestRun row.         *)
(*                                                                         *)
(* Processes: the web routes, which run one at a time on the event loop    *)
(* and touch the database and the broker in several steps; the scheduler;  *)
(* the worker, one thread here (BrokerWorker covers several).  Work of the *)
(* other priorities is one P1 job that processes a filing.  A crash loses  *)
(* the broker's memory and the open transaction, and keeps what was        *)
(* committed.                                                              *)
(***************************************************************************)
EXTENDS Broker, Sequences, SequencesExt

CONSTANTS Entries,        \* watchlist entry ids
          Resolvable,     \* entries for which the resolver finds a CIK
          Repair,         \* the chain key "repair:recent"
          RepairDays,     \* previous_business_days(2), a sequence
          BackfillDays,   \* backfill_business_days(), a sequence
          IndexRows,      \* day -> its index rows: an entry's 8-K, or Form4
          Form4,          \* a Form 4 row, which is taken whoever filed it
          ChunkSize,      \* P3_CHUNK_SIZE
          SlowDelivery,   \* can sending an alert outlast the busy_timeout?
          MaxFailed,      \* bound: Form 4 filings whose error is on record
          MaxRequests,    \* bound: requests, scheduler ticks, other P1 jobs
          MaxCrashes      \* bound: crashes

Chains == Entries \cup {Repair}
RunIds == 1..MaxRequests  \* a request inserts at most one row
NoRun == 0                \* run_id = None: a scheduled repair has no row
NoDay == 0                \* current_day = None
Days == DOMAIN IndexRows

DaysOf(c) == IF c = Repair THEN RepairDays ELSE BackfillDays

ASSUME RecoveryAssumption ==
    /\ Entries \subseteq Nat \ {0}
    /\ Repair \notin Entries
    /\ Resolvable \subseteq Entries
    /\ ChunkSize \in Nat \ {0}
    /\ SlowDelivery \in BOOLEAN
    /\ NoDay \notin Days
    /\ \A c \in Chains : /\ DaysOf(c) \in Seq(Days) /\ DaysOf(c) # <<>>
                         /\ IsInjective(DaysOf(c))
    /\ \A d \in Days : IndexRows[d] \in Seq(Entries \cup {Form4})
    /\ MaxFailed \in Nat /\ MaxRequests \in Nat /\ MaxCrashes \in Nat

VARIABLES activeRuns,     \* broker._active_runs
          watch,          \* WatchlistEntry: "absent", "paused" or "enabled"
          rows,           \* IngestRun: "absent", "open" (not committed), or status
          route,          \* the request in progress: [chain, run, pc]
          wpc,            \* where the worker is in the handler
          job,            \* the job in its hands
          chunk,          \* locals of _process_index_chunk
          requests, crashes,
          seen,           \* history: how often each run took each index row
          steady,         \* history: chains whose targets nobody has touched
          owed,           \* history: days not looked at yet for an entry
          overtaken,      \* history: rows and failed filings taken while P1
                          \* work was waiting
          stranded        \* history: run keys of requests that timed out

-----------------------------------------------------------------------------
(* Jobs and their keys.  A key has the parts its f-string has.             *)

Key(c, step, d, n) == [step |-> step, chain |-> c, day |-> d, offset |-> n]
ManualKey == Key(Repair, "manual", NoDay, 0)        \* "repair:recent"
ScheduledKey == Key(Repair, "scheduled", NoDay, 0)  \* "orchestrate:repair:recent"
OtherKey == Key(Repair, "other", NoDay, 0)
StepZero(c) == Key(c, "step", NoDay, 0)

\* Faulty variant of SuccessorKey: the calendar day after the next one.
KeyOfDayAfter(c, d, remaining, n) ==
    IF d = NoDay THEN Key(c, "next-day", Head(remaining) + 1, 0)
                 ELSE Key(c, "offset", d, n)

\* Faulty variant of SuccessorKey: every chunk of a day has the same key.
KeyOfDay(c, d, remaining, n) ==
    IF d = NoDay THEN Key(c, "next-day", Head(remaining), 0)
                 ELSE Key(c, "offset", d, 0)

\* The key of _enqueue_successor_chunk().
SuccessorKey(c, d, remaining, n) ==
    IF d = NoDay THEN Key(c, "next-day", Head(remaining), 0)
                 ELSE Key(c, "offset", d, n)

Payload(task, c, r, remaining, d, n) ==
    [chain |-> c, day |-> d, offset |-> n, remaining |-> remaining,
     task |-> task, run |-> r]

\* What is given to the broker: the JobKeys and the Work of this module.
RunKeys == [step : {"manual", "scheduled", "other", "step", "next-day", "offset"},
            chain : Chains, day : Days \cup {NoDay}, offset : Nat]

Payloads == [chain : Chains, day : Days \cup {NoDay}, offset : Nat,
             remaining : Seq(Days),
             task : {"repair-now", "repair-scheduled", "chunk", "other"},
             run : RunIds \cup {NoRun}]

workerVars == <<wpc, job, chunk>>
routeVars == <<route, requests>>
historyVars == <<seen, steady, owed, overtaken, stranded>>
vars == <<queueVars, activeRuns, watch, rows, routeVars, workerVars, crashes,
          historyVars>>

Other == Payload("other", Repair, NoRun, <<>>, NoDay, 0)
NoJob == [key |-> OtherKey, priority |-> 1, sequence |-> 1, work |-> Other]
NoChunk == [day |-> NoDay, offset |-> 0, remaining |-> <<>>,
            targets |-> {}, index |-> {}, taken |-> 0, failed |-> 0]

Chain == job.work.chain

\* The entries _resolved_target_ciks() reads, and the CIKs it returns.
Wanted(c) == {e \in Entries : watch[e] = "enabled" /\ (c = Repair \/ c = e)}
Targets(c) == Wanted(c) \cap Resolvable

\* The positions of the day's rows that pass the filter, and how many of them
\* the file lists before one.
Filtered(d, targets) ==
    {i \in DOMAIN IndexRows[d] : IndexRows[d][i] = Form4 \/ IndexRows[d][i] \in targets}
Place(i, index) == Cardinality({k \in index : k < i})

NothingSeen == [d \in Days |-> [i \in DOMAIN IndexRows[d] |-> 0]]
AllDays == ToSet(BackfillDays)

NoRequest == [chain |-> Repair, run |-> NoRun, pc |-> "idle"]

Init ==
    /\ BrokerInit
    /\ activeRuns = {}
    /\ watch \in [Entries -> {"absent", "paused", "enabled"}]
    /\ rows = [r \in RunIds |-> "absent"]
    /\ route = NoRequest
    /\ wpc = "idle" /\ job = NoJob /\ chunk = NoChunk
    /\ requests = 0 /\ crashes = 0
    /\ seen = [c \in Chains |-> NothingSeen]
    /\ steady = {}
    /\ owed = [e \in Entries |-> IF watch[e] = "paused" THEN AllDays ELSE {}]
    /\ overtaken = 0
    /\ stranded = {}

-----------------------------------------------------------------------------
(* The database.  One connection writes at a time.  Another waits for the  *)
(* lock, at most for the busy_timeout of 5 s, while a request has inserted *)
(* its row and not committed, or while the worker sends an alert: the      *)
(* filing and the alert are flushed before, and committed after it.        *)

RouteWrites == route.pc \in {"enqueue", "commit", "undo", "delete"}
WorkerWrites == wpc \in {"deliver", "redeliver"}

\* Faulty variant of MarkRun: the update reaches a row that is not committed.
MarkAnyRun(r, status) ==
    IF r # NoRun /\ rows[r] # "absent"
    THEN rows' = [rows EXCEPT ![r] = status]
    ELSE UNCHANGED rows

\* _mark_run_status(): a no-op without a row, or with one not yet committed.
MarkRun(r, status) ==
    IF r # NoRun /\ rows[r] \notin {"absent", "open"}
    THEN ~RouteWrites /\ rows' = [rows EXCEPT ![r] = status]
    ELSE UNCHANGED rows

-----------------------------------------------------------------------------
(* The routes.  A request ends, or goes on to _queue_ingest_run() or       *)
(* _queue_backfill_run() with route.pc = "start".                          *)

Request(next) ==
    /\ route.pc = "idle"
    /\ requests < MaxRequests
    /\ requests' = requests + 1
    /\ route' = next
    /\ UNCHANGED <<queueVars, activeRuns, rows, workerVars, crashes, seen, overtaken,
                   stranded>>

StartOf(c) == [chain |-> c, run |-> NoRun, pc |-> "start"]

RepairNow ==
    /\ Request(StartOf(Repair))
    /\ UNCHANGED <<watch, steady, owed>>

BackfillNow(e) ==
    /\ watch[e] # "absent"
    /\ Request(StartOf(e))
    /\ UNCHANGED <<watch, steady, owed>>

\* SQLite gives a new row the highest id in use plus one: after the last
\* entry is deleted, its id and with it its run key belong to the next one.
NextId == Max({0} \cup {e \in Entries : watch[e] # "absent"}) + 1

SetWatch(e, w) ==
    /\ ~WorkerWrites
    /\ watch' = [watch EXCEPT ![e] = w]
    /\ steady' = steady \ {e, Repair}

\* create_watchlist_entry(), with the box ticked or not.
CreateEntry(e, w) ==
    /\ e = NextId
    /\ w # "absent"
    /\ SetWatch(e, w)
    /\ owed' = [owed EXCEPT ![e] = AllDays]
    /\ Request(IF w = "enabled" THEN StartOf(e) ELSE NoRequest)

ToggleEntry(e) ==
    /\ watch[e] # "absent"
    /\ IF watch[e] = "enabled"
       THEN SetWatch(e, "paused") /\ Request(NoRequest)
       ELSE SetWatch(e, "enabled") /\ Request(StartOf(e))
    /\ UNCHANGED owed

DeleteEntry(e) ==
    /\ watch[e] # "absent"
    /\ SetWatch(e, "absent")
    /\ owed' = [owed EXCEPT ![e] = {}]
    /\ Request(NoRequest)

Routes ==
    \/ RepairNow
    \/ \E e \in Entries :
         \/ BackfillNow(e) \/ ToggleEntry(e) \/ DeleteEntry(e)
         \/ \E w \in {"paused", "enabled"} : CreateEntry(e, w)

\* start_run(): set.add, and whether the key was new.
StartRun(c) ==
    /\ c \notin activeRuns
    /\ activeRuns' = activeRuns \cup {c}
    /\ steady' = steady \cup {c}
    /\ UNCHANGED seen

RouteStart ==
    /\ route.pc = "start"
    /\ StartRun(route.chain)
    /\ route' = [route EXCEPT !.pc = "insert"]
    /\ UNCHANGED <<queueVars, watch, rows, requests, workerVars, crashes, owed,
                   overtaken, stranded>>

\* The run key is taken.  The pages of "repair now" and "backfill now" say
\* so; create and toggle ignore it.
RouteRefused ==
    /\ route.pc = "start"
    /\ route.chain \in activeRuns
    /\ route' = NoRequest
    /\ UNCHANGED <<queueVars, activeRuns, watch, rows, requests, workerVars,
                   crashes, historyVars>>

\* session.flush() inserts the row; the transaction stays open.
RouteInsert ==
    /\ route.pc = "insert"
    /\ ~WorkerWrites
    /\ LET r == Max({0} \cup {q \in RunIds : rows[q] # "absent"}) + 1
       IN  /\ rows' = [rows EXCEPT ![r] = "open"]
           /\ route' = [route EXCEPT !.pc = "enqueue", !.run = r]
    /\ UNCHANGED <<queueVars, activeRuns, watch, requests, workerVars, crashes,
                   historyVars>>

\* The INSERT waits too long: "database is locked", and the page is a 500.
RouteTimesOut ==
    /\ SlowDelivery
    /\ route.pc = "insert"
    /\ WorkerWrites
    /\ route' = NoRequest
    /\ stranded' = stranded \cup {route.chain}
    /\ UNCHANGED <<queueVars, activeRuns, watch, rows, requests, workerVars,
                   crashes, seen, steady, owed, overtaken>>

\* enqueue() comes before session.commit().
RouteEnqueue ==
    /\ route.pc = "enqueue"
    /\ LET c == route.chain
           key == IF c = Repair THEN ManualKey ELSE StepZero(c)
           task == IF c = Repair THEN "repair-now" ELSE "chunk"
       IN  IF Accepts(key)
           THEN /\ Enqueue(key, 3, Payload(task, c, route.run, <<>>, NoDay, 0))
                /\ route' = [route EXCEPT !.pc = "commit"]
           ELSE /\ route' = [route EXCEPT !.pc = "undo"]
                /\ UNCHANGED queueVars
    /\ UNCHANGED <<activeRuns, watch, rows, requests, workerVars, crashes,
                   historyVars>>

RouteCommit ==
    /\ route.pc = "commit"
    /\ rows' = [rows EXCEPT ![route.run] = "queued"]
    /\ route' = NoRequest
    /\ UNCHANGED <<queueVars, activeRuns, watch, requests, workerVars, crashes,
                   historyVars>>

\* Rejected: give the run key back, then delete the row and commit.
RouteUndo ==
    /\ route.pc = "undo"
    /\ activeRuns' = activeRuns \ {route.chain}
    /\ route' = [route EXCEPT !.pc = "delete"]
    /\ UNCHANGED <<queueVars, watch, rows, requests, workerVars, crashes,
                   historyVars>>

RouteDelete ==
    /\ route.pc = "delete"
    /\ rows' = [rows EXCEPT ![route.run] = "absent"]
    /\ route' = NoRequest
    /\ UNCHANGED <<queueVars, activeRuns, watch, requests, workerVars, crashes,
                   historyVars>>

RouteSteps ==
    \/ RouteStart \/ RouteRefused \/ RouteInsert \/ RouteEnqueue
    \/ RouteTimesOut \/ RouteCommit \/ RouteUndo \/ RouteDelete

-----------------------------------------------------------------------------
(* The scheduler's cron job, and everyone who enqueues P1 or P2 work.      *)

Arrive(key, p, work) ==
    /\ requests < MaxRequests
    /\ requests' = requests + 1
    /\ Enqueue(key, p, work)
    /\ UNCHANGED <<activeRuns, watch, rows, route, workerVars, crashes, historyVars>>

ScheduleRepair ==
    Arrive(ScheduledKey, 3, Payload("repair-scheduled", Repair, NoRun, <<>>, NoDay, 0))

OtherArrives == Arrive(OtherKey, 1, Other)

-----------------------------------------------------------------------------
(* The worker: pop_next(), the handler of the job, complete().             *)

Go(from, to) == wpc = from /\ wpc' = to

WorkerPop ==
    \E j \in queue :
        /\ PopNext(j)
        /\ job' = j
        /\ Go("idle", CASE j.work.task = "other" -> "process"
                         [] j.work.task = "chunk" -> "begin"
                         [] OTHER -> "orchestrate")
        /\ overtaken' = IF j.priority < 3 THEN 0 ELSE overtaken
        /\ UNCHANGED <<activeRuns, watch, rows, routeVars, chunk, crashes, seen,
                       steady, owed, stranded>>

WorkerSteps(from, to) ==
    /\ Go(from, to)
    /\ UNCHANGED <<queueVars, activeRuns, watch, rows, routeVars, job, chunk,
                   crashes, historyVars>>

\* The other jobs process filings: _process_filing_id(), _ensure_alert().
Deliver == ~RouteWrites /\ WorkerSteps("process", "deliver")
DeliverCommit == WorkerSteps("deliver", "finish")

\* complete(), in the finally clause of _run_loop().
WorkerComplete ==
    /\ Go("finish", "idle")
    /\ Complete(job.key)
    /\ job' = NoJob /\ chunk' = NoChunk
    /\ UNCHANGED <<activeRuns, watch, rows, routeVars, crashes, historyVars>>

\* handle_repair_recent(): a request has taken the run key, the scheduler
\* has not.
OrchestrateRepair ==
    /\ \/ /\ job.work.task = "repair-now"
          /\ Go("orchestrate", "mark-queued")
          /\ UNCHANGED <<activeRuns, seen, steady>>
       \/ /\ job.work.task = "repair-scheduled"
          /\ Repair \in activeRuns
          /\ Go("orchestrate", "finish")
          /\ UNCHANGED <<activeRuns, seen, steady>>
       \/ /\ job.work.task = "repair-scheduled"
          /\ Go("orchestrate", "mark-queued")
          /\ StartRun(Repair)
    /\ UNCHANGED <<queueVars, watch, rows, routeVars, job, chunk, crashes, owed,
                   overtaken, stranded>>

\* The steps of the handler that write only the run's row.
WorkerMarks(from, to, status) ==
    /\ Go(from, to)
    /\ MarkRun(job.work.run, status)
    /\ UNCHANGED <<queueVars, activeRuns, watch, routeVars, job, chunk, crashes,
                   historyVars>>

\* queue_recent_repair()
RepairMarkQueued == WorkerMarks("mark-queued", "step-zero", "running")

RepairStepZero ==
    /\ IF Accepts(StepZero(Repair))
       THEN /\ Enqueue(StepZero(Repair), 3,
                       Payload("chunk", Repair, job.work.run, RepairDays, NoDay, 0))
            /\ Go("step-zero", "finish")
       ELSE Go("step-zero", "mark-completed") /\ UNCHANGED queueVars
    /\ UNCHANGED <<activeRuns, watch, rows, routeVars, job, chunk, crashes,
                   historyVars>>

-----------------------------------------------------------------------------
(* _process_index_chunk()                                                  *)

\* After the last day.  A repair looks at failed Form 4 filings once more.
EndOfRun == IF Chain = Repair THEN "revalidate" ELSE "mark-completed"

\* Pick the day.  A backfill that a page has queued brings no days along.
ChunkBegin ==
    /\ LET w == job.work
           remaining == IF w.chain # Repair /\ w.day = NoDay /\ w.remaining = <<>>
                        THEN BackfillDays ELSE w.remaining
       IN  IF w.day = NoDay /\ remaining = <<>>
           THEN Go("begin", EndOfRun) /\ UNCHANGED chunk
           ELSE /\ Go("begin", "resolve")
                /\ chunk' = IF w.day = NoDay
                            THEN [NoChunk EXCEPT !.day = Head(remaining),
                                                 !.remaining = Tail(remaining)]
                            ELSE [NoChunk EXCEPT !.day = w.day,
                                                 !.remaining = remaining,
                                                 !.offset = w.offset]
    /\ UNCHANGED <<queueVars, activeRuns, watch, rows, routeVars, job, crashes,
                   historyVars>>

\* The resolution, or the failure to resolve, is written to the database.
ResolveTargets ==
    /\ Wanted(Chain) # {} => ~RouteWrites
    /\ Go("resolve", IF Targets(Chain) = {} THEN "mark-completed" ELSE "load")
    /\ chunk' = [chunk EXCEPT !.targets = Targets(Chain)]
    /\ owed' = [e \in Entries |-> IF e \in Wanted(Chain) \ Targets(Chain)
                                  THEN {} ELSE owed[e]]
    /\ UNCHANGED <<queueVars, activeRuns, watch, rows, routeVars, job, crashes,
                   seen, steady, overtaken, stranded>>

LoadIndex ==
    /\ Go("load", "check")
    /\ chunk' = [chunk EXCEPT !.index = Filtered(chunk.day, chunk.targets)]
    /\ owed' = [e \in Entries |-> IF e \in chunk.targets /\ chunk.offset = 0
                                  THEN owed[e] \ {chunk.day} ELSE owed[e]]
    /\ UNCHANGED <<queueVars, activeRuns, watch, rows, routeVars, job, crashes,
                   seen, steady, overtaken, stranded>>

\* Faulty variant of CheckUrgentWork: the slice is taken to its end.
CheckSlice ==
    LET next == chunk.offset + chunk.taken
    IN  WorkerSteps("check", IF chunk.taken < ChunkSize /\ next < Cardinality(chunk.index)
                             THEN "row" ELSE "mark-progress")

\* The head of the row loop: the end of the slice, or work that is more
\* urgent once a row has been taken.
CheckUrgentWork ==
    LET next == chunk.offset + chunk.taken
        more == chunk.taken < ChunkSize /\ next < Cardinality(chunk.index)
        yield == chunk.taken > 0 /\ HasQueuedHigherPriorityThan(3)
    IN  WorkerSteps("check", IF more /\ ~yield THEN "row" ELSE "mark-progress")

\* A row or a failed filing is taken, whoever waits.
Overtakes == overtaken' = IF HasQueuedHigherPriorityThan(3) THEN overtaken + 1
                                                            ELSE overtaken

\* _process_index_row(): the filing it finds may be new, and is then
\* enqueued for processing.
ProcessRow ==
    /\ Go("row", "check")
    /\ \E i \in chunk.index :
          /\ Place(i, chunk.index) = chunk.offset + chunk.taken
          /\ seen' = [seen EXCEPT ![Chain][chunk.day][i] = @ + 1]
    /\ chunk' = [chunk EXCEPT !.taken = @ + 1]
    /\ Overtakes
    /\ \/ Enqueue(OtherKey, 1, Other)
       \/ UNCHANGED queueVars
    /\ UNCHANGED <<activeRuns, watch, rows, routeVars, job, crashes, steady, owed,
                   stranded>>

MarkProgress == WorkerMarks("mark-progress", "advance", "running")

\* Faulty variant of Advance: a whole slice is skipped after a yield, too.
AdvanceBySlice ==
    /\ LET next == chunk.offset + ChunkSize
           sameDay == next < Cardinality(chunk.index)
           day == IF sameDay THEN chunk.day ELSE NoDay
           offset == IF sameDay THEN next ELSE 0
           key == SuccessorKey(Chain, day, chunk.remaining, offset)
       IN  IF ~sameDay /\ chunk.remaining = <<>>
           THEN Go("advance", EndOfRun) /\ UNCHANGED queueVars
           ELSE /\ Go("advance", "finish")
                /\ IF Accepts(key)
                   THEN Enqueue(key, 3, Payload("chunk", Chain, job.work.run,
                                                chunk.remaining, day, offset))
                   ELSE UNCHANGED queueVars
    /\ UNCHANGED <<activeRuns, watch, rows, routeVars, job, chunk, crashes,
                   historyVars>>

\* The rest of the day, the next day, or the end of the run.  The answer of
\* enqueue() is not looked at.
Advance ==
    /\ LET next == chunk.offset + chunk.taken
           sameDay == next < Cardinality(chunk.index)
           day == IF sameDay THEN chunk.day ELSE NoDay
           offset == IF sameDay THEN next ELSE 0
           key == SuccessorKey(Chain, day, chunk.remaining, offset)
       IN  IF ~sameDay /\ chunk.remaining = <<>>
           THEN Go("advance", EndOfRun) /\ UNCHANGED queueVars
           ELSE /\ Go("advance", "finish")
                /\ IF Accepts(key)
                   THEN Enqueue(key, 3, Payload("chunk", Chain, job.work.run,
                                                chunk.remaining, day, offset))
                   ELSE UNCHANGED queueVars
    /\ UNCHANGED <<activeRuns, watch, rows, routeVars, job, chunk, crashes,
                   historyVars>>

\* _revalidate_recent_form4_failures(): the filings whose latest error is at
\* most seven days old, each processed in this very job.
Revalidate ==
    /\ Go("revalidate", "recheck")
    /\ \E n \in 0..MaxFailed : chunk' = [chunk EXCEPT !.failed = n]
    /\ UNCHANGED <<queueVars, activeRuns, watch, rows, routeVars, job, crashes,
                   historyVars>>

\* process_accession() for the next of them, and no look at the queue.  It
\* finds nothing to write or fails, which is passed over, or stores the filing
\* and sends its alert in one transaction.
Recheck ==
    /\ chunk.failed > 0
    /\ \/ Go("recheck", "recheck")
       \/ ~RouteWrites /\ Go("recheck", "redeliver")
    /\ chunk' = [chunk EXCEPT !.failed = @ - 1]
    /\ Overtakes
    /\ UNCHANGED <<queueVars, activeRuns, watch, rows, routeVars, job, crashes, seen,
                   steady, owed, stranded>>

RecheckCommit == WorkerSteps("redeliver", "recheck")

RecheckEnds == chunk.failed = 0 /\ WorkerSteps("recheck", "mark-completed")

Rechecks == Revalidate \/ Recheck \/ RecheckCommit \/ RecheckEnds

MarkCompleted == WorkerMarks("mark-completed", "finish-run", "completed")

\* An exception: the resolver, the index, a row, or the failed filings, but
\* for what process_accession() raises.
ChunkRaises ==
    /\ job.work.task = "chunk"
    /\ \E from \in {"resolve", "load", "row", "revalidate", "recheck"} :
          WorkerSteps(from, "record-error")

\* _record_error(): the run's failure is on record, and nothing is owed.
RecordError ==
    /\ ~RouteWrites
    /\ Go("record-error", "mark-failed")
    /\ steady' = steady \ {Chain}
    /\ owed' = [e \in Entries |-> IF e = Chain THEN {} ELSE owed[e]]
    /\ UNCHANGED <<queueVars, activeRuns, watch, rows, routeVars, job, chunk,
                   crashes, seen, overtaken, stranded>>

\* Faulty variant of MarkFailed: the except clause without finish_run().
MarkFailedOnly == WorkerMarks("mark-failed", "finish", "failed")

MarkFailed == WorkerMarks("mark-failed", "finish-run", "failed")

FinishRun ==
    /\ Go("finish-run", "finish")
    /\ activeRuns' = activeRuns \ {Chain}
    /\ seen' = [seen EXCEPT ![Chain] = NothingSeen]
    /\ steady' = steady \ {Chain}
    /\ UNCHANGED <<queueVars, watch, rows, routeVars, job, chunk, crashes, owed,
                   overtaken, stranded>>

Worker ==
    \/ WorkerPop \/ Deliver \/ DeliverCommit \/ WorkerComplete
    \/ OrchestrateRepair \/ RepairMarkQueued \/ RepairStepZero \/ ChunkBegin \/ ResolveTargets \/ LoadIndex
    \/ CheckUrgentWork \/ ProcessRow \/ MarkProgress \/ Advance \/ Rechecks
    \/ MarkCompleted \/ ChunkRaises \/ RecordError \/ MarkFailed \/ FinishRun

-----------------------------------------------------------------------------
\* The process dies and starts again: committed rows stay as they are.
Crash ==
    /\ crashes < MaxCrashes
    /\ crashes' = crashes + 1
    /\ queue' = {} /\ jobKeys' = {} /\ inflight' = {} /\ sequence' = 0
    /\ activeRuns' = {}
    /\ rows' = [r \in RunIds |-> IF rows[r] = "open" THEN "absent" ELSE rows[r]]
    /\ route' = NoRequest
    /\ wpc' = "idle" /\ job' = NoJob /\ chunk' = NoChunk
    /\ seen' = [c \in Chains |-> NothingSeen]
    /\ steady' = {}
    /\ overtaken' = 0
    /\ stranded' = {}
    /\ UNCHANGED <<watch, requests, owed>>

Next ==
    \/ Routes \/ RouteSteps \/ ScheduleRepair \/ OtherArrives
    \/ Worker \/ Crash

Spec == Init /\ [][Next]_vars

\* The event loop finishes a request it has begun, and the worker's handler
\* goes on: its HTTP calls have timeouts.  Nobody need ask for anything.
FairSpec == Spec /\ WF_vars(RouteSteps) /\ WF_vars(Worker)

-----------------------------------------------------------------------------
(* Properties.                                                             *)

TypeOK ==
    /\ BrokerTypeOK
    /\ activeRuns \subseteq Chains
    /\ watch \in [Entries -> {"absent", "paused", "enabled"}]
    /\ rows \in [RunIds -> {"absent", "open", "queued", "running", "completed",
                             "failed"}]
    /\ route \in [pc : {"idle", "start", "insert", "enqueue", "commit", "undo",
                        "delete"},
                  chain : Chains, run : RunIds \cup {NoRun}]
    /\ wpc \in {"idle", "process", "deliver", "orchestrate", "mark-queued", "step-zero", "begin",
                "resolve", "load", "check", "row", "mark-progress", "advance",
                "revalidate", "recheck", "redeliver", "mark-completed", "record-error", "mark-failed", "finish-run",
                "finish"}
    /\ job \in Job
    /\ chunk \in [day : Days \cup {NoDay}, remaining : Seq(Days), offset : Nat,
                  targets : SUBSET Entries, index : SUBSET Nat, taken : Nat,
                  failed : Nat]

\* Who answers for the run key of a chain: the request that has taken it and
\* not yet handed it on, a job in the queue, or the handler at work until it
\* has handed it on or given it back.
RouteCarries(c) ==
    route.chain = c /\ route.pc \in {"insert", "enqueue", "undo"}

QueueCarries(c) ==
    {j \in queue : j.work.chain = c /\ j.work.task \in {"repair-now", "chunk"}}

WorkerCarries(c) ==
    /\ Chain = c /\ job.work.task # "other"
    /\ wpc \notin {"idle", "finish"}
    /\ job.work.task = "repair-scheduled" => wpc # "orchestrate"

Carriers(c) ==
    Cardinality(QueueCarries(c)) + (IF RouteCarries(c) THEN 1 ELSE 0)
                                 + (IF WorkerCarries(c) THEN 1 ELSE 0)

\* A run key is taken exactly as long as one carrier answers for it.  But for
\* a request that times out, no path (refused enqueue, empty target set,
\* exception, crash, an entry deleted and created again) leaks the key, which
\* would refuse every later repair or backfill, or gives it back under a chain
\* that still runs; and a successor is never refused, which the code would
\* not notice.
RunKeyMatchesOneChain ==
    /\ stranded \subseteq activeRuns
    /\ \A c \in Chains : Carriers(c) = IF c \in activeRuns \ stranded THEN 1 ELSE 0

\* A run that completes without failing, and whose targets nobody touched
\* meanwhile, has taken every row of every day that passes the filter once:
\* chunk boundaries, yields to urgent work and day changes lose and repeat
\* nothing.
CompletedRunCoversEveryRow ==
    wpc = "finish-run" /\ Chain \in steady =>
        \A d \in ToSet(DaysOf(Chain)) : \A i \in DOMAIN IndexRows[d] :
            seen[Chain][d][i] =
                IF Targets(Chain) # {} /\ i \in Filtered(d, Targets(Chain))
                THEN 1 ELSE 0

\* P3 work does not starve urgent work: from the moment a P1 job waits, at most
\* one more row of the index is taken before the job is handled.  The one
\* exception is the end of a repair, which goes through the failed filings
\* without a look at the queue, however many they are.
YieldToUrgentWork ==
    [][overtaken' > overtaken => overtaken = 0 \/ wpc = "recheck"]_vars

\* The row of a run that has completed or failed is never written again,
\* and a run that is under way never goes back to queued, however the
\* request's commit falls between the worker's own writes.
RunStatusOnlyAdvances ==
    [][\A r \in RunIds :
         /\ rows[r] \in {"completed", "failed"} => rows'[r] = rows[r]
         /\ rows[r] = "running" => rows'[r] \in {"running", "completed", "failed"}]_vars

\* A run key is given back in the end, unless a request timed out on it: a
\* chain always gets to its last job, whatever P1 work comes between.
EveryRunKeyIsReleased ==
    \A c \in Chains : c \in activeRuns ~> c \notin activeRuns \/ c \in stranded

\* dashboard.html:40: "A newly enabled watchlist entry automatically queues a
\* 30-day catch-up backfill."  As long as days of an enabled entry have not
\* been looked at, and no failure of it is on record, a backfill is on its
\* way.
EnabledEntriesAreBackfilled ==
    \A e \in Entries :
        watch[e] = "enabled" /\ owed[e] # {} =>
            e \in activeRuns \/ (route.pc = "start" /\ route.chain = e)

\* routes_actions.py:73 and routes_watchlist.py:174 tell a user whose request
\* is refused that the run "is already queued": then one is.
RefusedOnlyWhileQueued ==
    \A c \in Chains : c \in activeRuns => Carriers(c) = 1
=============================================================================
