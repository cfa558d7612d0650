--------------------------- MODULE FilingPipeline ---------------------------
(***************************************************************************)
(* From a filing that is discovered to an alert that is sent: the 8-K and  *)
(* Form 4 ingest services (app/services/ingest.py), AlertDeliveryService   *)
(* (app/services/alerts.py), their handlers, and the pages that ask for a  *)
(* reparse or edit a destination.                                          *)
(*                                                                         *)
(* Processes: the worker's threads (a second one when a handler outlives   *)
(* shutdown(), see BrokerWorker); the web routes; the SEC, which lets a    *)
(* filing be discovered; a crash.  The broker is seen as JobQueue promises *)
(* it, in any order: jobs that wait and jobs that are served, no two of    *)
(* them equal.                                                             *)
(*                                                                         *)
(* SQLite has one write transaction at a time.  pysqlite opens it at the   *)
(* first INSERT or UPDATE of a session, and a session that finds nothing   *)
(* changed writes nothing.  `txn' is that transaction: its owner and what  *)
(* its owner has written of the one filing it is about and of its alerts.  *)
(* A write waits for the busy_timeout, five seconds, and then fails: this  *)
(* can happen while the owner waits for OpenAI or for a destination.       *)
(***************************************************************************)
EXTENDS Naturals, Sequences, FiniteSets, SequencesExt

CONSTANTS Threads,        \* the worker's threads
          EightKs,        \* filings of form 8-K
          Form4s,         \* filings of form 4
          Channels,       \* destinations in CHANNEL_ORDER, a sequence
          Slack,          \* the one that takes a redirect for an answer
          MaxRequests,    \* bound: discoveries and requests of the pages
          MaxCrashes,     \* bound: crashes
          Nobody, NoFiling

Filings == EightKs \cup Form4s
Destinations == ToSet(Channels)

Jobs == [task : {"poll", "manual"}, filing : EightKs]
          \cup [task : {"process", "reparse"}, filing : Filings]
NoJob == [task |-> "process", filing |-> NoFiling]

ASSUME PipelineAssumption ==
    /\ EightKs \cap Form4s = {}
    /\ NoFiling \notin Filings
    /\ Nobody \notin Threads
    /\ IsInjective(Channels)
    /\ MaxRequests \in Nat
    /\ MaxCrashes \in Nat

VARIABLES
    filings,    \* committed parser_status of each filing
    alerts,     \* committed alerts of each filing, a sequence
    enabled,    \* enabled destinations
    txn,        \* the open write transaction
    waiting,    \* jobs in the queue
    serving,    \* jobs in flight
    reparsing,  \* filings whose reparse run key is taken
    route,      \* the reparse request between start_run() and enqueue()
    pc, job,    \* where each thread is, and its job
    loaded,     \* parser_status of the filing object a thread has loaded
    deliver,    \* the argument of _ensure_alert()
    targets,    \* enabled destinations, as deliver_alert_once() has read them
    received,   \* the outside world: messages each destination got
    redirected, \* history: destinations that answered with a redirect only
    cut,        \* history: crashes between a filing's first send and its commit
    requests, crashes

database == <<filings, alerts, enabled>>
queueVars == <<waiting, serving, reparsing>>
threadVars == <<pc, job, loaded, deliver, targets>>
history == <<received, redirected, cut>>
bounds == <<requests, crashes>>
vars == <<database, txn, queueVars, route, threadVars, history, bounds>>

Statuses == {"absent", "pending", "success", "failed"}
Alert == [status : {"pending", "delivered", "delivery_failed", "skipped"},
          attempts : [Destinations -> {"none", "sent", "failed"}]]
NewAlert == [status |-> "pending", attempts |-> [d \in Destinations |-> "none"]]

NoTxn == [owner |-> Nobody, status |-> "absent", alerts |-> <<>>]

\* Where a thread waits for the write lock.
Writes == {"upsert-8k", "clear", "cursor", "upsert-form4", "rewrite-error",
           "flush", "insert-alert", "store-failed", "mark-failed", "report",
           "report-failed"}
HandlerPc == Writes \cup
    {"idle", "register", "enqueue", "fetch", "load", "document", "find-form4",
     "rewrite", "find-alert", "destinations", "send", "commit", "finish-run", "finish"}

TypeOK ==
    /\ filings \in [Filings -> Statuses]
    /\ alerts \in [Filings -> Seq(Alert)]
    /\ enabled \subseteq Destinations
    /\ txn \in [owner : Threads \cup {Nobody}, status : Statuses,
                alerts : Seq(Alert)]
    /\ waiting \subseteq Jobs
    /\ serving \subseteq Jobs
    /\ reparsing \subseteq Filings
    /\ route \in Filings \cup {NoFiling}
    /\ pc \in [Threads -> HandlerPc]
    /\ job \in [Threads -> Jobs \cup {NoJob}]
    /\ loaded \in [Threads -> Statuses]
    /\ deliver \in [Threads -> BOOLEAN]
    /\ targets \in [Threads -> SUBSET Destinations]
    /\ received \in [Filings -> [Destinations -> Nat]]
    /\ redirected \in [Filings -> SUBSET Destinations]
    /\ cut \in [Filings -> Nat]
    /\ requests \in 0..MaxRequests
    /\ crashes \in 0..MaxCrashes

\* An earlier process may have registered an 8-K and not processed it.
Init ==
    /\ filings \in [Filings -> {"absent", "pending"}]
    /\ \A f \in Form4s : filings[f] = "absent"
    /\ alerts = [f \in Filings |-> <<>>]
    /\ enabled \in SUBSET Destinations
    /\ txn = NoTxn
    /\ waiting = {} /\ serving = {} /\ reparsing = {}
    /\ route = NoFiling
    /\ pc = [t \in Threads |-> "idle"]
    /\ job = [t \in Threads |-> NoJob]
    /\ loaded = [t \in Threads |-> "absent"]
    /\ deliver = [t \in Threads |-> FALSE]
    /\ targets = [t \in Threads |-> {}]
    /\ received = [f \in Filings |-> [d \in Destinations |-> 0]]
    /\ redirected = [f \in Filings |-> {}]
    /\ cut = [f \in Filings |-> 0]
    /\ requests = 0 /\ crashes = 0

-----------------------------------------------------------------------------
Task(t) == job[t].task
Filing(t) == job[t].filing
Goto(t, from, to) == pc[t] = from /\ pc' = [pc EXCEPT ![t] = to]

\* What a session of thread t sees.
Status(t) == IF txn.owner = t THEN txn.status ELSE filings[Filing(t)]
Alerts(t) == IF txn.owner = t THEN txn.alerts ELSE alerts[Filing(t)]

\* A write in t's own session, and one in a second session of t's.
MayWrite(t) == txn.owner \in {t, Nobody}
LockIsFree == txn.owner = Nobody
Written(t, status, list) == [owner |-> t, status |-> status, alerts |-> list]

\* The end of a handler: `finally: finish_run()', then complete().
Done(t) == IF Task(t) = "reparse" THEN "finish-run" ELSE "finish"

\* Where an exception is caught.  The 8-K handlers let it go to the worker,
\* which logs it; the others record it first.
Caught(t) ==
    IF Task(t) \in {"poll", "process"} /\ Filing(t) \in EightKs THEN "finish"
                                                               ELSE "report"

Internal == UNCHANGED <<database, txn, queueVars, route, job, history, bounds>>

Step(t, from, to) ==
    /\ Goto(t, from, to)
    /\ UNCHANGED <<loaded, deliver, targets>>
    /\ Internal

-----------------------------------------------------------------------------
(* The queue and the pages.                                                *)

CanEnqueue(j) == j \notin waiting \cup serving

\* A poll, a manual run or a row of the daily index comes upon f.
Discover(f) ==
    /\ requests < MaxRequests
    /\ \E j \in Jobs :
         /\ j.filing = f
         /\ j.task \in (IF f \in EightKs THEN {"poll", "manual"} ELSE {"process"})
         /\ CanEnqueue(j)
         /\ waiting' = waiting \cup {j}
    /\ requests' = requests + 1
    /\ UNCHANGED <<database, txn, serving, reparsing, route, threadVars, history,
                   crashes>>

\* reparse_filing() in web/routes_filings.py: start_run().  A request that
\* finds the key taken changes nothing.
RouteReparse(f) ==
    /\ requests < MaxRequests
    /\ route = NoFiling
    /\ filings[f] # "absent"
    /\ f \notin reparsing
    /\ reparsing' = reparsing \cup {f}
    /\ route' = f
    /\ requests' = requests + 1
    /\ UNCHANGED <<database, txn, waiting, serving, threadVars, history, crashes>>

\* Faulty variant of RouteEnqueue: no finish_run() when it is refused.
RouteEnqueueOnly ==
    /\ route # NoFiling
    /\ LET j == [task |-> "reparse", filing |-> route]
       IN  waiting' = IF CanEnqueue(j) THEN waiting \cup {j} ELSE waiting
    /\ route' = NoFiling
    /\ UNCHANGED <<database, txn, serving, reparsing, threadVars, history, bounds>>

\* enqueue(), and finish_run() if it was refused.
RouteEnqueue ==
    /\ route # NoFiling
    /\ LET j == [task |-> "reparse", filing |-> route]
       IN  IF CanEnqueue(j)
           THEN waiting' = waiting \cup {j} /\ UNCHANGED reparsing
           ELSE reparsing' = reparsing \ {route} /\ UNCHANGED waiting
    /\ route' = NoFiling
    /\ UNCHANGED <<database, txn, serving, threadVars, history, bounds>>

\* _upsert_destination()
SaveDestination(d) ==
    /\ requests < MaxRequests
    /\ LockIsFree
    /\ enabled' = IF d \in enabled THEN enabled \ {d} ELSE enabled \cup {d}
    /\ requests' = requests + 1
    /\ UNCHANGED <<filings, alerts, txn, queueVars, route, threadVars, history,
                   crashes>>

Outside ==
    \/ \E f \in Filings : Discover(f) \/ RouteReparse(f)
    \/ \E d \in Destinations : SaveDestination(d)

-----------------------------------------------------------------------------
(* The worker.                                                             *)

Entry(j) ==
    CASE j.task \in {"poll", "manual"} -> "register"
      [] j.task = "reparse" -> "clear"
      [] j.task = "process" -> "fetch"

Serve(t) ==
    /\ \E j \in waiting :
         /\ Goto(t, "idle", Entry(j))
         /\ waiting' = waiting \ {j}
         /\ serving' = serving \cup {j}
         /\ job' = [job EXCEPT ![t] = j]
         /\ deliver' = [deliver EXCEPT ![t] = j.task # "reparse"]
    /\ UNCHANGED <<database, txn, reparsing, route, loaded, targets, history,
                   bounds>>

\* handle_reparse() and handle_form4_reparse()
FinishRun(t) ==
    /\ Goto(t, "finish-run", "finish")
    /\ reparsing' = reparsing \ {Filing(t)}
    /\ UNCHANGED <<database, txn, waiting, serving, route, job, loaded, deliver,
                   targets, history, bounds>>

Complete(t) ==
    /\ Goto(t, "finish", "idle")
    /\ serving' = serving \ {job[t]}
    /\ job' = [job EXCEPT ![t] = NoJob]
    /\ loaded' = [loaded EXCEPT ![t] = "absent"]
    /\ deliver' = [deliver EXCEPT ![t] = FALSE]
    /\ targets' = [targets EXCEPT ![t] = {}]
    /\ UNCHANGED <<database, txn, waiting, reparsing, route, history, bounds>>

-----------------------------------------------------------------------------
(* 8-K: register_discovered_filing(), _process_filing_id()                 *)

\* The object a session loads: what `select' or session.get() returns.
Load(t, from, to) ==
    /\ Goto(t, from, to)
    /\ loaded' = [loaded EXCEPT ![t] = Status(t)]
    /\ UNCHANGED <<deliver, targets>>
    /\ Internal

\* _upsert_filing() looks for the accession number ...
Register(t) == Load(t, "register", "upsert-8k")

\* ... and inserts the filing or updates its metadata, and commits.  An INSERT
\* of a filing that another thread has committed meanwhile is an
\* IntegrityError.
Upsert8K(t) ==
    LET f == Filing(t)
        new == filings[f] = "absent"
    IN  /\ pc[t] = "upsert-8k"
        /\ LockIsFree
        /\ IF loaded[t] = "absent" /\ ~new
           THEN Goto(t, "upsert-8k", Caught(t)) /\ UNCHANGED <<filings, deliver>>
           ELSE /\ Goto(t, "upsert-8k",
                        IF loaded[t] = "success" THEN "find-alert"
                        ELSE IF Task(t) = "poll" THEN "enqueue" ELSE "fetch")
                /\ filings' = [filings EXCEPT ![f] = IF new THEN "pending" ELSE @]
                /\ deliver' = [deliver EXCEPT ![t] = loaded[t] # "success"]
        /\ UNCHANGED <<alerts, enabled, txn, queueVars, route, job, loaded,
                       targets, history, bounds>>

\* _enqueue_process_filing(); the answer is not looked at.
EnqueueProcess(t) ==
    /\ Goto(t, "enqueue", "finish")
    /\ LET j == [task |-> "process", filing |-> Filing(t)]
       IN  waiting' = IF CanEnqueue(j) THEN waiting \cup {j} ELSE waiting
    /\ UNCHANGED <<database, txn, serving, reparsing, route, job, loaded, deliver,
                   targets, history, bounds>>

\* _clear_openai_summary_state(): a write of fields that are not modelled.
Clear(t) ==
    /\ LockIsFree
    /\ Step(t, "clear", "fetch")

\* The detail page and the primary document have been fetched and parsed.
Fetched8K(t) ==
    /\ Filing(t) \in EightKs
    /\ Step(t, "fetch", "load")

\* A request fails, or there is no primary document, which is recorded.
FetchFails8K(t) ==
    /\ Filing(t) \in EightKs
    /\ \E to \in {Caught(t), "report"} : Step(t, "fetch", to)

Load8K(t) == Load(t, "load", "rewrite")

-----------------------------------------------------------------------------
(* Form 4: process_accession(), reparse_filing(), _store_parsed_form4()    *)

\* The detail page has been fetched.  A job of the live page moves a cursor
\* before anything else.
FetchedForm4(t) ==
    /\ Filing(t) \in Form4s
    /\ \E to \in IF Task(t) = "process" THEN {"cursor", "document"}
                                        ELSE {"document"} :
           Step(t, "fetch", to)

AdvanceCursor(t) == LockIsFree /\ Step(t, "cursor", "document")

\* _load_form4_candidate() returns a parsed document.
ParsedForm4(t) == Step(t, "document", "find-form4")

\* The issuer is not watched, or the form is not one to ingest.
NotWanted(t) ==
    /\ Task(t) = "process"
    /\ Step(t, "document", "finish")

\* The detail page or the candidate documents could not be fetched or parsed.
\* A reparse that finds no document, or none it can use, marks the filing.
FetchFailsForm4(t) ==
    /\ Filing(t) \in Form4s
    /\ \/ Step(t, "fetch", "report")
       \/ Step(t, "document", "report")
       \/ Task(t) = "reparse" /\ Step(t, "document", "report-failed")

\* _handle_missing_xml() of a watched issuer: look for the filing ...
MissingXml(t) ==
    /\ Task(t) = "process"
    /\ Load(t, "document", "store-failed")

\* ... and store it as failed.  Only columns that differ from what was loaded
\* are written.
StoreFailed(t) ==
    LET f == Filing(t)
        duplicate == loaded[t] = "absent" /\ filings[f] # "absent"
    IN  /\ LockIsFree
        /\ Goto(t, "store-failed", IF duplicate THEN "report" ELSE "mark-failed")
        /\ filings' = IF duplicate \/ loaded[t] = "failed"
                      THEN filings
                      ELSE [filings EXCEPT ![f] = "failed"]
        /\ UNCHANGED <<alerts, enabled, txn, queueVars, route, job, loaded,
                       deliver, targets, history, bounds>>

\* _mark_filing_failed(), after which _handle_missing_xml() reports.
MarkFailed(t) ==
    /\ LockIsFree
    /\ Goto(t, "mark-failed", IF Task(t) = "reparse" THEN "finish-run" ELSE "report")
    /\ filings' = [filings EXCEPT ![Filing(t)] = "failed"]
    /\ UNCHANGED <<alerts, enabled, txn, queueVars, route, job, loaded, deliver,
                   targets, history, bounds>>

FindForm4(t) == Load(t, "find-form4", "upsert-form4")

\* _upsert_form4_filing() flushes: the transaction begins, unless nothing has
\* changed.  As in Upsert8K, the filing may be another thread's by now.
UpsertForm4(t) ==
    LET f == Filing(t)
        current == filings[f]
    IN  /\ pc[t] = "upsert-form4"
        /\ LockIsFree
        /\ \/ /\ loaded[t] = "absent" /\ current # "absent"
              /\ Goto(t, "upsert-form4", Caught(t))
              /\ UNCHANGED txn
           \/ /\ ~(loaded[t] = "absent" /\ current # "absent")
              /\ Goto(t, "upsert-form4", "rewrite")
              /\ txn' = Written(t, IF current = "absent" THEN "pending" ELSE current,
                                alerts[f])
           \/ /\ loaded[t] = "success"
              /\ Goto(t, "upsert-form4", "rewrite")
              /\ UNCHANGED txn
        /\ UNCHANGED <<database, queueVars, route, job, loaded, deliver, targets,
                       history, bounds>>

-----------------------------------------------------------------------------
(* The optional rewrite, the alert and its delivery.                       *)

\* _apply_optional_rewrite(): no rewriter, no rewrite, or a rewrite.
Rewritten(t) == Step(t, "rewrite", "flush")
RewriteFails(t) == Step(t, "rewrite", "rewrite-error")

\* _record_error() opens a second session.
RecordRewriteError(t) == LockIsFree /\ Step(t, "rewrite-error", "flush")

\* Faulty variant of Flush: the alert is looked for before the flush.
FlushLater(t) ==
    /\ Goto(t, "flush", "find-alert")
    /\ UNCHANGED <<database, txn, queueVars, route, job, loaded, deliver, targets,
                   history, bounds>>

\* Faulty variant of Flush: the filing is committed before its alert exists.
FlushAndCommit(t) ==
    /\ MayWrite(t)
    /\ Goto(t, "flush", "find-alert")
    /\ filings' = [filings EXCEPT ![Filing(t)] = "success"]
    /\ txn' = NoTxn
    /\ UNCHANGED <<alerts, enabled, queueVars, route, job, loaded, deliver,
                   targets, history, bounds>>

\* session.flush(): only columns whose loaded value differs are written.
Flush(t) ==
    /\ MayWrite(t)
    /\ Goto(t, "flush", "find-alert")
    /\ \/ /\ txn' = Written(t, IF loaded[t] = "success" THEN Status(t) ELSE "success",
                            Alerts(t))
       \/ /\ loaded[t] = "success"
          /\ UNCHANGED txn
    /\ UNCHANGED <<database, queueVars, route, job, loaded, deliver, targets,
                   history, bounds>>

\* ensure_alert(): the SELECT ...
FindAlert(t) ==
    /\ pc[t] = "find-alert"
    /\ Step(t, "find-alert", IF Alerts(t) = <<>> THEN "insert-alert" ELSE "commit")

\* ... and the INSERT.
InsertAlert(t) ==
    /\ MayWrite(t)
    /\ Goto(t, "insert-alert", IF deliver[t] THEN "destinations" ELSE "commit")
    /\ txn' = Written(t, Status(t), Append(Alerts(t), NewAlert))
    /\ UNCHANGED <<database, queueVars, route, job, loaded, deliver, targets,
                   history, bounds>>

\* The alert that thread t has just inserted.
Current(t) == Last(txn.alerts)
Updated(t, a) == [txn EXCEPT !.alerts = Append(Front(txn.alerts), a)]

\* deliver_alert_once()
Choose(t) ==
    /\ Goto(t, "destinations", IF enabled = {} THEN "commit" ELSE "send")
    /\ targets' = [targets EXCEPT ![t] = enabled]
    /\ txn' = IF enabled = {} THEN Updated(t, [Current(t) EXCEPT !.status = "skipped"])
                              ELSE txn
    /\ UNCHANGED <<database, queueVars, route, job, loaded, deliver, history,
                   bounds>>

Unattempted(t) == {d \in targets[t] : Current(t).attempts[d] = "none"}

\* d is the first of them in CHANNEL_ORDER.
NextInOrder(t, d) ==
    /\ d \in Unattempted(t)
    /\ \A i, k \in DOMAIN Channels :
          Channels[i] = d /\ Channels[k] \in Unattempted(t) => i <= k

\* What becomes of one send: the result on record, and what the destination
\* has got.  A message may arrive and its answer be lost or late; a redirect of
\* Slack's, a status below 400, is "sent" although nothing was taken.
Exchange(f, d, result) ==
    \/ /\ received' = [received EXCEPT ![f][d] = @ + 1]
       /\ UNCHANGED redirected
    \/ /\ result = "failed"
       /\ UNCHANGED <<received, redirected>>
    \/ /\ result = "sent" /\ d = Slack
       /\ redirected' = [redirected EXCEPT ![f] = @ \cup {d}]
       /\ UNCHANGED received

\* Faulty variant of Send: a failed send is tried again at once.
SendAgain(t) ==
    /\ pc[t] = "send"
    /\ \E d \in Destinations, result \in {"sent", "failed"} :
          /\ NextInOrder(t, d)
          /\ Exchange(Filing(t), d, result)
          /\ txn' = IF result = "failed" THEN txn
                    ELSE Updated(t, [Current(t) EXCEPT !.attempts[d] = result])
    /\ UNCHANGED <<database, queueVars, route, threadVars, cut, bounds>>

\* One send and the record of its outcome.
Send(t) ==
    /\ pc[t] = "send"
    /\ \E d \in Destinations, result \in {"sent", "failed"} :
          /\ NextInOrder(t, d)
          /\ Exchange(Filing(t), d, result)
          /\ txn' = Updated(t, [Current(t) EXCEPT !.attempts[d] = result])
    /\ UNCHANGED <<database, queueVars, route, threadVars, cut, bounds>>

\* Faulty variants of Aggregate: a failed attempt counts as delivered; the
\* attempt's status is used for the alert.
AggregateAttempted(t) ==
    /\ Goto(t, "send", "commit")
    /\ Unattempted(t) = {}
    /\ txn' = Updated(t, [Current(t) EXCEPT !.status = "delivered"])
    /\ UNCHANGED <<database, queueVars, route, job, loaded, deliver, targets,
                   history, bounds>>

AggregateAttempt(t) ==
    /\ Goto(t, "send", "commit")
    /\ Unattempted(t) = {}
    /\ \E d \in targets[t] :
         txn' = Updated(t, [Current(t) EXCEPT !.status = Current(t).attempts[d]])
    /\ UNCHANGED <<database, queueVars, route, job, loaded, deliver, targets,
                   history, bounds>>

\* _set_aggregate_alert_status()
Aggregate(t) ==
    /\ Goto(t, "send", "commit")
    /\ Unattempted(t) = {}
    /\ LET sent == {d \in Destinations : Current(t).attempts[d] = "sent"}
           attempted == {d \in Destinations : Current(t).attempts[d] # "none"}
           status == IF sent \cap targets[t] # {} THEN "delivered"
                     ELSE IF attempted \cap targets[t] # {} THEN "delivery_failed"
                     ELSE "skipped"
       IN  txn' = Updated(t, [Current(t) EXCEPT !.status = status])
    /\ UNCHANGED <<database, queueVars, route, job, loaded, deliver, targets,
                   history, bounds>>

Commit(t) ==
    /\ Goto(t, "commit", Done(t))
    /\ IF txn.owner = t
       THEN /\ filings' = [filings EXCEPT ![Filing(t)] = txn.status]
            /\ alerts' = [alerts EXCEPT ![Filing(t)] = txn.alerts]
            /\ txn' = NoTxn
       ELSE UNCHANGED <<filings, alerts, txn>>
    /\ UNCHANGED <<enabled, queueVars, route, job, loaded, deliver, targets,
                   history, bounds>>

-----------------------------------------------------------------------------
(* Errors.                                                                 *)

\* _record_error() in an `except' clause, or before a plain return.
Report(t) == LockIsFree /\ Step(t, "report", Done(t))
ReportFailed(t) == LockIsFree /\ Step(t, "report-failed", "mark-failed")

Blocked(t) ==
    /\ pc[t] \in Writes
    /\ IF pc[t] \in {"flush", "insert-alert"} THEN ~MayWrite(t) ELSE ~LockIsFree

\* A write in an `except' clause fails for good.
AfterTimeout(t) ==
    IF \/ pc[t] \in {"report", "report-failed"}
       \/ pc[t] = "mark-failed" /\ Task(t) = "reparse"
    THEN Done(t) ELSE Caught(t)

\* Faulty variant of TimesOut: no busy_timeout for a lock of one's own.
TimesOutOnOthers(t) ==
    /\ Blocked(t)
    /\ txn.owner # t
    /\ pc[txn.owner] \in {"rewrite", "rewrite-error", "send"}
    /\ Goto(t, pc[t], AfterTimeout(t))
    /\ UNCHANGED <<database, txn, queueVars, route, job, loaded, deliver, targets,
                   history, bounds>>

\* "database is locked", because the owner is waiting for OpenAI or for a
\* destination, or because it is this very thread.  The session is closed and
\* its transaction rolled back.
TimesOut(t) ==
    /\ Blocked(t)
    /\ pc[txn.owner] \in {"rewrite", "rewrite-error", "send"}
    /\ Goto(t, pc[t], AfterTimeout(t))
    /\ txn' = IF txn.owner = t THEN NoTxn ELSE txn
    /\ UNCHANGED <<database, queueVars, route, job, loaded, deliver, targets,
                   history, bounds>>

\* The process dies and starts again.
Crash ==
    /\ crashes < MaxCrashes
    /\ crashes' = crashes + 1
    /\ cut' = [f \in Filings |->
                  IF \E t \in Threads :
                        /\ txn.owner = t /\ Filing(t) = f
                        /\ pc[t] \in {"send", "commit"}
                        /\ \E i \in DOMAIN txn.alerts, d \in Destinations :
                             txn.alerts[i].attempts[d] # "none"
                  THEN cut[f] + 1 ELSE cut[f]]
    /\ txn' = NoTxn
    /\ waiting' = {} /\ serving' = {} /\ reparsing' = {}
    /\ route' = NoFiling
    /\ pc' = [t \in Threads |-> "idle"]
    /\ job' = [t \in Threads |-> NoJob]
    /\ loaded' = [t \in Threads |-> "absent"]
    /\ deliver' = [t \in Threads |-> FALSE]
    /\ targets' = [t \in Threads |-> {}]
    /\ UNCHANGED <<database, received, redirected, requests>>

Handler(t) ==
    \/ Register(t) \/ Upsert8K(t) \/ EnqueueProcess(t) \/ Clear(t)
    \/ Fetched8K(t) \/ FetchFails8K(t) \/ Load8K(t)
    \/ FetchedForm4(t) \/ AdvanceCursor(t) \/ ParsedForm4(t) \/ NotWanted(t)
    \/ FetchFailsForm4(t) \/ MissingXml(t) \/ StoreFailed(t) \/ MarkFailed(t)
    \/ FindForm4(t) \/ UpsertForm4(t)
    \/ Rewritten(t) \/ RewriteFails(t) \/ RecordRewriteError(t)
    \/ Flush(t) \/ FindAlert(t) \/ InsertAlert(t) \/ Choose(t) \/ Send(t)
    \/ Aggregate(t) \/ Commit(t) \/ Report(t) \/ ReportFailed(t) \/ TimesOut(t)
    \/ FinishRun(t) \/ Complete(t)

Next ==
    \/ Outside \/ RouteEnqueue \/ Crash
    \/ \E t \in Threads : Serve(t) \/ Handler(t)

Spec == Init /\ [][Next]_vars

\* A thread in a handler goes on: what it waits for outside has a timeout, and
\* so has the write lock.
FairSpec == Spec /\ \A t \in Threads : WF_vars(Handler(t))

-----------------------------------------------------------------------------
(* Properties.                                                             *)

\* A filing gets one alert, and the alert is written once, although no
\* constraint of the schema says so, and although two threads, a reparse, a
\* poll that finds the filing again and a restart may all come to
\* ensure_alert(): what keeps them apart is the flush before it.  So nothing
\* is ever delivered a second time from the database's point of view.
AlertIsWrittenOnce ==
    [][\A f \in Filings :
         alerts'[f] # alerts[f] => alerts[f] = <<>> /\ Len(alerts'[f]) = 1]_vars

\* A destination gets a filing's alert once; once more only for each crash
\* that fell between a send and the commit that records it.
SentOncePerDestination ==
    \A f \in Filings, d \in Destinations : received[f][d] <= 1 + cut[f]

TellsWhatWasSent(f, a) ==
    LET sent == {d \in Destinations : a.attempts[d] = "sent"}
        tried == {d \in Destinations : a.attempts[d] # "none"}
    IN  /\ a.status = "delivered" <=> sent # {}
        /\ a.status = "delivery_failed" <=> tried # {} /\ sent = {}
        /\ \A d \in sent : received[f][d] > 0 \/ d \in redirected[f]

\* What the page says of a delivery is what happened: delivered if an attempt
\* on record is "sent", and the destination has then got the message, unless it
\* is Slack and answered with a redirect; failed if there were attempts and
\* none is; otherwise nothing was tried.
AlertTellsWhatWasSent ==
    \A f \in Filings : \A i \in DOMAIN alerts[f] : TellsWhatWasSent(f, alerts[f][i])

\* A filing that is shown as processed has its alert, whatever crash, time-out
\* or second thread came between: polls skip such a filing for ever.
ProcessedFilingHasAlert ==
    \A f \in Filings : filings[f] = "success" => alerts[f] # <<>>

\* The run key of a reparse is taken exactly while a request, a job or a
\* handler answers for it, on every way a reparse can end.
ReparseKeyMatchesOneJob ==
    \A f \in Filings :
        LET j == [task |-> "reparse", filing |-> f]
            handlers == {t \in Threads : job[t] = j /\ pc[t] # "finish"}
        IN  Cardinality(handlers) + (IF j \in waiting THEN 1 ELSE 0)
                                  + (IF route = f THEN 1 ELSE 0)
              = IF f \in reparsing THEN 1 ELSE 0

\* Every handler ends: nobody waits for ever for the write lock, not even a
\* thread that holds it itself.
HandlersEnd == \A t \in Threads : pc[t] # "idle" ~> pc[t] = "idle"

\* README.md:94, the rewrite "never changes ... alert eligibility", and
\* tests/test_phase6_openai_rewrite.py:247, "rewrite failures fall back without
\* blocking delivery": a thread that nobody else keeps from the write lock gets
\* from a failed rewrite to the flush of the filing, and so to its alert.
RewriteFailureFallsBack ==
    [][\A t \in Threads :
         pc[t] = "rewrite-error" /\ MayWrite(t) => pc'[t] \in {"rewrite-error", "flush"}]_vars
=============================================================================
