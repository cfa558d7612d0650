------------------------- MODULE FilingPipelineProofs -------------------------
(***************************************************************************)
(* One alert per filing, written once and sent once, with a status that    *)
(* tells what was sent: for any number of threads, filings, destinations,  *)
(* requests and crashes.                                                   *)
(***************************************************************************)
EXTENDS FilingPipeline, FiniteSetTheorems, TLAPS

\* A job is in one pair of hands, and not in the queue any more.
JobsApart ==
    /\ \A t \in Threads : pc[t] = "idle" <=> job[t] = NoJob
    /\ \A t \in Threads : pc[t] # "idle" => job[t] \in serving
    /\ \A t, u \in Threads : pc[t] # "idle" /\ job[t] = job[u] => t = u
    /\ waiting \cap serving = {}

\* Which handlers get to the places that only some of them have.
PlaceFitsTask ==
    \A t \in Threads :
        /\ pc[t] \in {"register", "upsert-8k", "enqueue"} => Task(t) \in {"poll", "manual"}
        /\ pc[t] = "store-failed" => Task(t) = "process"
        /\ pc[t] = "finish-run" => Task(t) = "reparse"

\* The carriers of the run key of a reparse.
Reparse(f) == [task |-> "reparse", filing |-> f]
Queued(f) == Reparse(f) \in waiting
Handled(f) == \E t \in Threads : job[t] = Reparse(f) /\ pc[t] # "finish"

RunKeyHasOneCarrier ==
    \A f \in Filings :
        /\ f \in reparsing <=> Queued(f) \/ Handled(f) \/ route = f
        /\ route = f => ~Queued(f) /\ ~Handled(f)

\* Where a thread may be while its transaction is open, and where it must be.
Writing == {"rewrite", "rewrite-error", "flush", "find-alert", "insert-alert",
            "destinations", "send", "commit"}

\* What the open transaction has made of the alerts of its filing.
DraftFits ==
    \A t \in Threads : txn.owner = t =>
        /\ pc[t] \in Writing
        /\ pc[t] \in {"rewrite", "rewrite-error", "flush", "find-alert", "insert-alert"} =>
              txn.alerts = alerts[Filing(t)]
        /\ pc[t] \in {"destinations", "send"} =>
              alerts[Filing(t)] = <<>> /\ Len(txn.alerts) = 1
        /\ pc[t] = "commit" =>
              /\ txn.alerts # <<>>
              /\ alerts[Filing(t)] = <<>> => Len(txn.alerts) = 1
              /\ alerts[Filing(t)] # <<>> => txn.alerts = alerts[Filing(t)]

\* Nobody inserts an alert without the write lock; who passes the flush without
\* it has loaded a filing that was processed before, and so has an alert.
AlertIsGuarded ==
    \A t \in Threads :
        /\ pc[t] \in {"insert-alert", "destinations", "send"} => txn.owner = t
        /\ pc[t] = "insert-alert" => alerts[Filing(t)] = <<>>
        /\ pc[t] = "find-alert" => txn.owner = t \/ loaded[t] = "success"
        /\ loaded[t] = "success" => pc[t] # "idle" /\ alerts[Filing(t)] # <<>>

\* A destination has the message, or has answered with a redirect.
Answered(f, d) == received[f][d] > 0 \/ d \in redirected[f]

\* What a delivery under way has on its draft.
DraftTellsWhatWasSent ==
    \A t \in Threads : txn.owner = t =>
        /\ pc[t] = "destinations" => txn.alerts = <<NewAlert>>
        /\ pc[t] = "send" =>
              /\ txn.alerts[1].status = "pending"
              /\ \A d \in Destinations : txn.alerts[1].attempts[d] # "none" => d \in targets[t]
              /\ \A d \in Destinations :
                    txn.alerts[1].attempts[d] = "sent" => Answered(Filing(t), d)
        /\ pc[t] = "commit" =>
              \A i \in DOMAIN txn.alerts : TellsWhatWasSent(Filing(t), txn.alerts[i])

\* A destination has at most one message more than crashes account for, and
\* that one only if an alert is stored or about to be.
Tried(f, d) ==
    \E t \in Threads :
        /\ txn.owner = t /\ Filing(t) = f /\ pc[t] \in {"send", "commit"}
        /\ txn.alerts[1].attempts[d] # "none"

SendsAreAccountedFor ==
    \A f \in Filings, d \in Destinations :
        /\ received[f][d] <= 1 + cut[f]
        /\ alerts[f] = <<>> /\ ~Tried(f, d) => received[f][d] <= cut[f]

Inv ==
    /\ TypeOK
    /\ JobsApart
    /\ PlaceFitsTask
    /\ RunKeyHasOneCarrier
    /\ DraftFits
    /\ AlertIsGuarded
    /\ ProcessedFilingHasAlert
    /\ DraftTellsWhatWasSent
    /\ AlertTellsWhatWasSent
    /\ SendsAreAccountedFor

\* The groups of variables an action leaves alone together.
USE DEF database, queueVars, threadVars, history, bounds

-----------------------------------------------------------------------------
(* Threads and their jobs.                                                 *)

\* A thread without a job has none that could be queued.
LEMMA NoJobIsNone == NoJob \notin Jobs
  BY PipelineAssumption DEF NoJob, Jobs, Filings

\* A thread that is not idle has a job about a filing.
LEMMA BusyThread ==
    ASSUME TypeOK, JobsApart, NEW t \in Threads, pc[t] # "idle"
    PROVE  job[t] \in Jobs /\ Filing(t) \in Filings
  <1>1. job[t] \in Jobs
    BY DEF TypeOK, JobsApart
  <1> QED  BY <1>1 DEF Jobs, Filings, Filing

\* A handler that goes from one place to another and leaves queue and run keys
\* alone.
LEMMA MoveKeeps ==
    ASSUME Inv, NEW t \in Threads, NEW to \in HandlerPc \ {"idle"},
           pc[t] \notin {"idle", "finish"}, pc' = [pc EXCEPT ![t] = to],
           UNCHANGED <<queueVars, route, job>>,
           to \in {"register", "upsert-8k", "enqueue"} => Task(t) \in {"poll", "manual"},
           to = "store-failed" => Task(t) = "process",
           to = "finish-run" => Task(t) = "reparse",
           to = "finish" => Task(t) # "reparse"
    PROVE  JobsApart' /\ PlaceFitsTask' /\ RunKeyHasOneCarrier'
  <1>0. pc \in [Threads -> HandlerPc]
    BY DEF Inv, TypeOK
  <1>1. \A u \in Threads : pc'[u] = IF u = t THEN to ELSE pc[u]
    BY <1>0
  <1>2. JobsApart'
    BY <1>1 DEF Inv, JobsApart
  <1>3. PlaceFitsTask'
    BY <1>1 DEF Inv, PlaceFitsTask, Task
  <1>4. ASSUME NEW f \in Filings PROVE Handled(f)' <=> Handled(f)
    BY <1>1 DEF Handled, Reparse, Task
  <1>5. RunKeyHasOneCarrier'
    BY <1>4 DEF Inv, RunKeyHasOneCarrier, Queued
  <1> QED  BY <1>2, <1>3, <1>5

-----------------------------------------------------------------------------
(* The open transaction.                                                   *)

\* The part of the invariant that is about filings, alerts and messages.
Stored ==
    /\ DraftFits
    /\ AlertIsGuarded
    /\ ProcessedFilingHasAlert
    /\ DraftTellsWhatWasSent
    /\ AlertTellsWhatWasSent
    /\ SendsAreAccountedFor

\* A thread that has no transaction open, before or after.
LEMMA WithoutTransaction ==
    ASSUME Inv, NEW t \in Threads, NEW to \in HandlerPc,
           txn.owner # t, pc' = [pc EXCEPT ![t] = to],
           to \notin {"insert-alert", "destinations", "send"},
           UNCHANGED <<alerts, txn, received, redirected, cut>>,
           \A u \in Threads \ {t} :
              job'[u] = job[u] /\ loaded'[u] = loaded[u] /\ targets'[u] = targets[u],
           loaded'[t] = "success" => to # "idle" /\ alerts[Filing(t)'] # <<>>,
           to = "find-alert" => loaded'[t] = "success",
           \A f \in Filings : filings'[f] = "success" => filings[f] = "success"
    PROVE  Stored'
  <1>0. pc \in [Threads -> HandlerPc]
    BY DEF Inv, TypeOK
  <1>1. \A u \in Threads : pc'[u] = IF u = t THEN to ELSE pc[u]
    BY <1>0
  <1>2. \A u \in Threads \ {t} : Filing(u)' = Filing(u)
    BY DEF Filing
  <1>3. \A f : \A a : TellsWhatWasSent(f, a)' <=> TellsWhatWasSent(f, a)
    BY DEF TellsWhatWasSent
  <1>4. DraftFits'
    BY <1>1, <1>2 DEF Inv, DraftFits
  <1>5. AlertIsGuarded'
    BY <1>1, <1>2 DEF Inv, AlertIsGuarded
  <1>6. ProcessedFilingHasAlert'
    BY DEF Inv, ProcessedFilingHasAlert
  <1>7. DraftTellsWhatWasSent'
    BY <1>1, <1>2, <1>3 DEF Inv, DraftTellsWhatWasSent, NewAlert, Answered
  <1>8. AlertTellsWhatWasSent'
    BY <1>3 DEF Inv, AlertTellsWhatWasSent
  <1>9. ASSUME NEW f \in Filings, NEW d \in Destinations PROVE Tried(f, d)' <=> Tried(f, d)
    BY <1>1, <1>2 DEF Tried
  <1>10. SendsAreAccountedFor'
    BY <1>9 DEF Inv, SendsAreAccountedFor
  <1> QED  BY <1>4, <1>5, <1>6, <1>7, <1>8, <1>10 DEF Stored

\* A thread whose transaction, open before or just begun, has not touched the
\* alerts.
LEMMA AlertsUntouched ==
    ASSUME Inv, NEW t \in Threads,
           NEW to \in {"rewrite", "rewrite-error", "flush", "find-alert", "insert-alert", "commit"},
           pc[t] \notin {"idle", "destinations", "send", "commit"},
           txn.owner \in {t, Nobody}, pc' = [pc EXCEPT ![t] = to],
           txn'.owner = t, txn'.alerts = alerts[Filing(t)],
           UNCHANGED <<filings, alerts, job, loaded, targets, received, redirected, cut>>,
           to = "insert-alert" => alerts[Filing(t)] = <<>>,
           to = "commit" => alerts[Filing(t)] # <<>>
    PROVE  Stored'
  <1>0. pc \in [Threads -> HandlerPc] /\ Nobody \notin Threads /\ Filing(t) \in Filings
    BY BusyThread, PipelineAssumption DEF Inv, TypeOK
  <1>1. \A u \in Threads : pc'[u] = IF u = t THEN to ELSE pc[u]
    BY <1>0
  <1>2. \A u \in Threads : Filing(u)' = Filing(u) /\ (txn'.owner = u <=> u = t)
    BY DEF Filing
  <1>3. \A u \in Threads \ {t} : pc[u] \notin {"insert-alert", "destinations", "send"}
    BY <1>0 DEF Inv, AlertIsGuarded
  <1>4. \A f : \A a : TellsWhatWasSent(f, a)' <=> TellsWhatWasSent(f, a)
    BY DEF TellsWhatWasSent
  <1>5. DraftFits'
    BY <1>1, <1>2 DEF DraftFits, Writing
  <1>6. AlertIsGuarded'
    <2> SUFFICES ASSUME NEW u \in Threads, u # t
                 PROVE  pc[u] = "find-alert" => loaded[u] = "success"
      BY <1>1, <1>2, <1>3 DEF Inv, AlertIsGuarded
    <2> QED  BY <1>0 DEF Inv, AlertIsGuarded
  <1>7. ProcessedFilingHasAlert'
    BY DEF Inv, ProcessedFilingHasAlert
  <1>8. DraftTellsWhatWasSent'
    BY <1>0, <1>1, <1>2, <1>4 DEF Inv, DraftTellsWhatWasSent, AlertTellsWhatWasSent
  <1>9. AlertTellsWhatWasSent'
    BY <1>4 DEF Inv, AlertTellsWhatWasSent
  <1>10. ASSUME NEW f \in Filings, NEW d \in Destinations, alerts[f] = <<>>
         PROVE  ~Tried(f, d)
    BY <1>0, <1>10 DEF Tried
  <1>11. SendsAreAccountedFor'
    BY <1>10 DEF Inv, SendsAreAccountedFor
  <1> QED  BY <1>5, <1>6, <1>7, <1>8, <1>9, <1>11 DEF Stored

-----------------------------------------------------------------------------
(* Steps that only go from one place to another.                           *)

Quiet(t) ==
    \/ Clear(t) \/ Fetched8K(t) \/ FetchFails8K(t) \/ FetchedForm4(t)
    \/ AdvanceCursor(t) \/ ParsedForm4(t) \/ NotWanted(t) \/ FetchFailsForm4(t)
    \/ Rewritten(t) \/ RewriteFails(t) \/ RecordRewriteError(t) \/ FindAlert(t)
    \/ Report(t) \/ ReportFailed(t)

\* Where exceptions lead.
LEMMA CaughtPlaces ==
    ASSUME TypeOK, JobsApart, NEW t \in Threads, pc[t] # "idle"
    PROVE  /\ Caught(t) \in {"finish", "report"}
           /\ Caught(t) = "finish" => Task(t) # "reparse"
           /\ Done(t) \in {"finish-run", "finish"}
           /\ Done(t) = "finish-run" <=> Task(t) = "reparse"
  BY DEF Caught, Done

\* Where a handler that only reads or branches comes from, and where it gets to.
LEMMA QuietMoves ==
    ASSUME Inv, NEW t \in Threads, Quiet(t)
    PROVE  /\ Internal /\ UNCHANGED <<loaded, deliver, targets>>
           /\ pc[t] \notin {"idle", "finish", "finish-run", "insert-alert",
                           "destinations", "send", "commit"}
           /\ \E to \in HandlerPc :
                 /\ pc' = [pc EXCEPT ![t] = to]
                 /\ to \notin {"idle", "register", "upsert-8k", "enqueue", "store-failed",
                              "find-alert", "destinations", "send"}
                 /\ to = "finish-run" => Task(t) = "reparse"
                 /\ to = "finish" => Task(t) # "reparse"
                 /\ to \in {"insert-alert", "commit"} => pc[t] = "find-alert"
                 /\ pc[t] = "find-alert" =>
                       to = IF Alerts(t) = <<>> THEN "insert-alert" ELSE "commit"
                 /\ txn.owner = t => to \in {"rewrite-error", "flush", "insert-alert", "commit"}
  <1> DEFINE Moves(from, to) ==
        /\ from \notin {"idle", "finish", "finish-run", "insert-alert",
                        "destinations", "send", "commit"}
        /\ to \in HandlerPc
        /\ to \notin {"idle", "register", "upsert-8k", "enqueue", "store-failed",
                     "find-alert", "destinations", "send"}
        /\ to = "finish-run" => Task(t) = "reparse"
        /\ to = "finish" => Task(t) # "reparse"
        /\ to \in {"insert-alert", "commit"} => from = "find-alert"
        /\ from = "find-alert" =>
              to = IF Alerts(t) = <<>> THEN "insert-alert" ELSE "commit"
        /\ txn.owner = t => to \in {"rewrite-error", "flush", "insert-alert", "commit"}
  <1>1. SUFFICES \E from, to : Step(t, from, to) /\ Moves(from, to)
    BY DEF Step, Goto
  <1>2. pc[t] # "idle" => Caught(t) \in {"finish", "report"} /\ Done(t) \in {"finish-run", "finish"}
                        /\ (Caught(t) = "finish" => Task(t) # "reparse")
                        /\ (Done(t) = "finish-run" <=> Task(t) = "reparse")
    BY CaughtPlaces DEF Inv
  <1>3. txn.owner = t => pc[t] \in Writing
    BY DEF Inv, DraftFits
  <1>4. CASE Clear(t) \/ Fetched8K(t) \/ FetchedForm4(t) \/ AdvanceCursor(t) \/ ParsedForm4(t)
    BY <1>3, <1>4 DEF Clear, Fetched8K, FetchedForm4, AdvanceCursor, ParsedForm4, Step, Goto,
                      HandlerPc, Writes, Writing
  <1>5. CASE FetchFails8K(t) \/ FetchFailsForm4(t) \/ NotWanted(t)
    BY <1>2, <1>3, <1>5 DEF FetchFails8K, FetchFailsForm4, NotWanted, Step, Goto,
                            HandlerPc, Writes, Writing
  <1>6. CASE Rewritten(t) \/ RewriteFails(t) \/ RecordRewriteError(t)
    BY <1>3, <1>6 DEF Rewritten, RewriteFails, RecordRewriteError, Step, Goto, HandlerPc, Writes
  <1>7. CASE FindAlert(t)
    BY <1>7 DEF FindAlert, Step, Goto, HandlerPc, Writes
  <1>8. CASE Report(t) \/ ReportFailed(t)
    BY <1>2, <1>3, <1>8 DEF Report, ReportFailed, Step, Goto, HandlerPc, Writes, Writing
  <1> QED  BY <1>4, <1>5, <1>6, <1>7, <1>8 DEF Quiet

\* Such a step changes nothing that the invariant speaks of.
LEMMA QuietKeeps == ASSUME Inv, NEW t \in Threads, Quiet(t) PROVE Inv'
  <1>1. PICK to \in HandlerPc :
           /\ pc' = [pc EXCEPT ![t] = to]
           /\ to \notin {"idle", "register", "upsert-8k", "enqueue", "store-failed",
                        "find-alert", "destinations", "send"}
           /\ to = "finish-run" => Task(t) = "reparse"
           /\ to = "finish" => Task(t) # "reparse"
           /\ to \in {"insert-alert", "commit"} => pc[t] = "find-alert"
           /\ pc[t] = "find-alert" =>
                 to = IF Alerts(t) = <<>> THEN "insert-alert" ELSE "commit"
           /\ txn.owner = t => to \in {"rewrite-error", "flush", "insert-alert", "commit"}
    BY QuietMoves
  <1>2. /\ UNCHANGED <<filings, alerts, enabled, txn, queueVars, route, job, history, bounds,
                      loaded, deliver, targets>>
        /\ pc[t] \notin {"idle", "finish", "finish-run", "insert-alert", "destinations",
                        "send", "commit"}
    BY QuietMoves DEF Internal
  <1>3. TypeOK'
    BY <1>1, <1>2 DEF Inv, TypeOK
  <1>4. JobsApart' /\ PlaceFitsTask' /\ RunKeyHasOneCarrier'
    BY <1>1, <1>2, MoveKeeps
  <1>5. CASE txn.owner = t
    <2>1. txn.alerts = alerts[Filing(t)] /\ Alerts(t) = alerts[Filing(t)]
      BY <1>2, <1>5 DEF Inv, DraftFits, Writing, Alerts
    <2>2. Stored'
      BY <1>1, <1>2, <1>5, <2>1, AlertsUntouched
    <2> QED  BY <1>3, <1>4, <2>2 DEF Inv, Stored
  <1>6. CASE txn.owner # t
    <2>1. loaded[t] = "success" => alerts[Filing(t)] # <<>>
      BY DEF Inv, AlertIsGuarded
    <2>2. to # "insert-alert"
      BY <1>1, <1>6, <2>1 DEF Inv, AlertIsGuarded, Alerts
    <2>3. Filing(t)' = Filing(t)
      BY <1>2 DEF Filing
    <2>4. Stored'
      BY <1>1, <1>2, <1>6, <2>1, <2>2, <2>3, WithoutTransaction
    <2> QED  BY <1>3, <1>4, <2>4 DEF Inv, Stored
  <1> QED  BY <1>5, <1>6

-----------------------------------------------------------------------------
(* Steps that load the filing.                                             *)

\* A handler reads what is stored of its filing.
LEMMA LoadKeeps ==
    ASSUME Inv, NEW t \in Threads,
           Register(t) \/ Load8K(t) \/ MissingXml(t) \/ FindForm4(t)
    PROVE  Inv'
  <1>1. PICK to \in {"upsert-8k", "rewrite", "store-failed", "upsert-form4"} :
           /\ pc[t] \in {"register", "load", "document", "find-form4"}
           /\ pc' = [pc EXCEPT ![t] = to]
           /\ loaded' = [loaded EXCEPT ![t] = Status(t)]
           /\ to = "upsert-8k" => pc[t] = "register"
           /\ to = "store-failed" => Task(t) = "process"
           /\ Internal /\ UNCHANGED <<deliver, targets>>
    BY DEF Register, Load8K, MissingXml, FindForm4, Load, Goto
  <1>2. txn.owner # t
    BY <1>1 DEF Inv, DraftFits, Writing
  <1>3. Filing(t) \in Filings /\ loaded \in [Threads -> Statuses]
    BY <1>1, BusyThread DEF Inv, TypeOK
  <1>4. Status(t) = filings[Filing(t)] /\ Status(t) \in Statuses
    BY <1>2, <1>3 DEF Status, Inv, TypeOK
  <1>5. to \in HandlerPc
    BY <1>1 DEF HandlerPc, Writes
  <1>6. TypeOK'
    BY <1>1, <1>4, <1>5 DEF Internal, Inv, TypeOK
  <1>7. to = "upsert-8k" => Task(t) \in {"poll", "manual"}
    BY <1>1 DEF Inv, PlaceFitsTask
  <1>8. JobsApart' /\ PlaceFitsTask' /\ RunKeyHasOneCarrier'
    BY <1>1, <1>5, <1>7, MoveKeeps DEF Internal
  <1>9. loaded'[t] = "success" => alerts[Filing(t)'] # <<>>
    BY <1>1, <1>3, <1>4 DEF Internal, Filing, Inv, ProcessedFilingHasAlert
  <1>10. \A u \in Threads \ {t} : loaded'[u] = loaded[u]
    BY <1>1, <1>3
  <1>11. Stored'
    BY <1>1, <1>2, <1>5, <1>9, <1>10, WithoutTransaction DEF Internal
  <1> QED  BY <1>6, <1>8, <1>11 DEF Inv, Stored

-----------------------------------------------------------------------------
(* Steps with a transaction of their own.                                  *)

\* Nobody has a transaction open when the write lock is free.
LEMMA FreeLock == ASSUME LockIsFree, NEW t \in Threads PROVE txn.owner # t
  BY PipelineAssumption DEF LockIsFree

\* An 8-K is registered and committed, or another thread was first.
LEMMA Upsert8KKeeps == ASSUME Inv, NEW t \in Threads, Upsert8K(t) PROVE Inv'
  <1> DEFINE f == Filing(t)
  <1>1. /\ pc[t] = "upsert-8k" /\ LockIsFree
        /\ UNCHANGED <<alerts, enabled, txn, queueVars, route, job, loaded, targets,
                      history, bounds>>
    BY DEF Upsert8K
  <1>2. Task(t) \in {"poll", "manual"} /\ f \in Filings
    BY <1>1, BusyThread DEF Inv, PlaceFitsTask
  <1>3. PICK to \in {"finish", "report", "find-alert", "enqueue", "fetch"} :
           /\ pc' = [pc EXCEPT ![t] = to]
           /\ to = "find-alert" => loaded[t] = "success"
    BY <1>1, <1>2, CaughtPlaces DEF Upsert8K, Goto, Inv
  <1>4. filings' = filings \/ filings' = [filings EXCEPT ![f] =
                                  IF filings[f] = "absent" THEN "pending" ELSE @]
    BY DEF Upsert8K
  <1>5. deliver' \in [Threads -> BOOLEAN]
    BY DEF Upsert8K, Inv, TypeOK
  <1>6. to \in HandlerPc \ {"idle"}
    BY <1>3 DEF HandlerPc, Writes
  <1>7. filings' \in [Filings -> Statuses]
    BY <1>2, <1>4 DEF Inv, TypeOK, Statuses
  <1>8. TypeOK'
    BY <1>1, <1>3, <1>5, <1>6, <1>7 DEF Inv, TypeOK
  <1>9. JobsApart' /\ PlaceFitsTask' /\ RunKeyHasOneCarrier'
    BY <1>1, <1>2, <1>3, <1>6, MoveKeeps
  <1>10. \A g \in Filings : filings'[g] = "success" => filings[g] = "success"
    BY <1>4 DEF Inv, TypeOK
  <1>11. loaded[t] = "success" => alerts[Filing(t)'] # <<>>
    BY <1>1 DEF Filing, Inv, AlertIsGuarded
  <1>12. Stored'
    BY <1>1, <1>3, <1>6, <1>10, <1>11, FreeLock, WithoutTransaction
  <1> QED  BY <1>8, <1>9, <1>12 DEF Inv, Stored

\* A failure is stored and committed while the lock is free.
LEMMA FailedKeeps ==
    ASSUME Inv, NEW t \in Threads, StoreFailed(t) \/ MarkFailed(t) PROVE Inv'
  <1> DEFINE f == Filing(t)
  <1>1. /\ pc[t] \in {"store-failed", "mark-failed"} /\ LockIsFree
        /\ UNCHANGED <<alerts, enabled, txn, queueVars, route, job, loaded, deliver,
                      targets, history, bounds>>
    BY DEF StoreFailed, MarkFailed, Goto
  <1>2. PICK to \in {"report", "mark-failed", "finish-run"} :
           /\ pc' = [pc EXCEPT ![t] = to]
           /\ to = "finish-run" => Task(t) = "reparse"
    BY DEF StoreFailed, MarkFailed, Goto
  <1>3. filings' = filings \/ filings' = [filings EXCEPT ![f] = "failed"]
    BY DEF StoreFailed, MarkFailed
  <1>4. to \in HandlerPc \ {"idle"}
    BY <1>2 DEF HandlerPc, Writes
  <1>5. filings' \in [Filings -> Statuses]
    BY <1>3 DEF Inv, TypeOK, Statuses
  <1>6. TypeOK'
    BY <1>1, <1>2, <1>4, <1>5 DEF Inv, TypeOK
  <1>7. JobsApart' /\ PlaceFitsTask' /\ RunKeyHasOneCarrier'
    BY <1>1, <1>2, <1>4, MoveKeeps
  <1>8. \A g \in Filings : filings'[g] = "success" => filings[g] = "success"
    BY <1>3 DEF Inv, TypeOK
  <1>9. loaded[t] = "success" => alerts[Filing(t)'] # <<>>
    BY <1>1 DEF Filing, Inv, AlertIsGuarded
  <1>10. Stored'
    BY <1>1, <1>2, <1>4, <1>8, <1>9, FreeLock, WithoutTransaction
  <1> QED  BY <1>6, <1>7, <1>10 DEF Inv, Stored

-----------------------------------------------------------------------------
(* Steps that begin or go on with a transaction.                           *)

\* What a thread that may write sees of the alerts.
LEMMA SeenAlerts ==
    ASSUME Inv, NEW t \in Threads,
           pc[t] \in {"upsert-form4", "rewrite", "flush", "find-alert", "insert-alert"}
    PROVE  Alerts(t) = alerts[Filing(t)] /\ alerts[Filing(t)] \in Seq(Alert)
                                        /\ Status(t) \in Statuses
  <1>1. Filing(t) \in Filings
    BY BusyThread DEF Inv
  <1>2. alerts[Filing(t)] \in Seq(Alert) /\ Status(t) \in Statuses
    BY <1>1 DEF Inv, TypeOK, Status
  <1>3. Alerts(t) = alerts[Filing(t)]
    BY DEF Alerts, Inv, DraftFits, Writing
  <1> QED  BY <1>2, <1>3

\* A Form 4 takes the write lock, unless nothing changes or another thread was first.
LEMMA UpsertForm4Keeps == ASSUME Inv, NEW t \in Threads, UpsertForm4(t) PROVE Inv'
  <1> DEFINE f == Filing(t)
  <1>1. /\ pc[t] = "upsert-form4" /\ LockIsFree
        /\ UNCHANGED <<database, queueVars, route, job, loaded, deliver, targets,
                      history, bounds>>
    BY DEF UpsertForm4
  <1>2. /\ loaded[t] = "success" => alerts[Filing(t)'] # <<>>
        /\ f \in Filings /\ alerts[f] \in Seq(Alert) /\ filings[f] \in Statuses
    BY <1>1, SeenAlerts, BusyThread DEF Filing, Inv, AlertIsGuarded, TypeOK
  <1>3. CASE UNCHANGED txn
    <2>1. PICK to \in {"finish", "report", "rewrite"} :
             /\ pc' = [pc EXCEPT ![t] = to]
             /\ to = "finish" => Task(t) # "reparse"
      <3>1. Caught(t) \in {"finish", "report"} /\ (Caught(t) = "finish" => Task(t) # "reparse")
        BY <1>1, CaughtPlaces DEF Inv
      <3> QED  BY <3>1 DEF UpsertForm4, Goto
    <2>2. to \in HandlerPc \ {"idle"}
      BY DEF HandlerPc, Writes
    <2>3. TypeOK'
      BY <1>1, <1>3, <2>1, <2>2 DEF Inv, TypeOK
    <2>4. JobsApart' /\ PlaceFitsTask' /\ RunKeyHasOneCarrier'
      BY <1>1, <2>1, <2>2, MoveKeeps
    <2>5. Stored'
      BY <1>1, <1>2, <1>3, <2>1, <2>2, FreeLock, WithoutTransaction
    <2> QED  BY <2>3, <2>4, <2>5 DEF Inv, Stored
  <1>4. CASE ~ UNCHANGED txn
    <2>1. /\ pc' = [pc EXCEPT ![t] = "rewrite"]
          /\ txn' = Written(t, IF filings[f] = "absent" THEN "pending" ELSE filings[f],
                            alerts[f])
      BY <1>4 DEF UpsertForm4, Goto
    <2>2. txn'.owner = t /\ txn'.alerts = alerts[f]
      BY <2>1 DEF Written
    <2>3. txn' \in [owner : Threads \cup {Nobody}, status : Statuses, alerts : Seq(Alert)]
      BY <1>2, <2>1 DEF Written, Statuses
    <2>4. "rewrite" \in HandlerPc
      BY DEF HandlerPc
    <2>5. TypeOK'
      BY <1>1, <2>1, <2>3, <2>4 DEF Inv, TypeOK
    <2>6. JobsApart' /\ PlaceFitsTask' /\ RunKeyHasOneCarrier'
      BY <1>1, <2>1, <2>4, MoveKeeps
    <2>7. Stored'
      BY <1>1, <2>1, <2>2, AlertsUntouched DEF LockIsFree
    <2> QED  BY <2>5, <2>6, <2>7 DEF Inv, Stored
  <1> QED  BY <1>3, <1>4

\* The flush takes the write lock, unless a success comes out the same.
LEMMA FlushKeeps == ASSUME Inv, NEW t \in Threads, Flush(t) PROVE Inv'
  <1> DEFINE f == Filing(t)
  <1>1. /\ pc[t] = "flush" /\ MayWrite(t) /\ pc' = [pc EXCEPT ![t] = "find-alert"]
        /\ UNCHANGED <<database, queueVars, route, job, loaded, deliver, targets,
                      history, bounds>>
    BY DEF Flush, Goto
  <1>2. /\ Alerts(t) = alerts[f] /\ alerts[f] \in Seq(Alert) /\ Status(t) \in Statuses
        /\ loaded[t] = "success" => alerts[Filing(t)'] # <<>>
    BY <1>1, SeenAlerts DEF Filing, Inv, AlertIsGuarded
  <1>3. "find-alert" \in HandlerPc
    BY DEF HandlerPc
  <1>4. JobsApart' /\ PlaceFitsTask' /\ RunKeyHasOneCarrier'
    BY <1>1, <1>3, MoveKeeps
  <1>5. CASE txn' = Written(t, IF loaded[t] = "success" THEN Status(t) ELSE "success", Alerts(t))
    <2>1. txn'.owner = t /\ txn'.alerts = alerts[f]
      BY <1>2, <1>5 DEF Written
    <2>2. txn' \in [owner : Threads \cup {Nobody}, status : Statuses, alerts : Seq(Alert)]
      BY <1>2, <1>5 DEF Written, Statuses
    <2>3. TypeOK'
      BY <1>1, <1>3, <2>2 DEF Inv, TypeOK
    <2>4. Stored'
      BY <1>1, <2>1, AlertsUntouched DEF MayWrite
    <2> QED  BY <1>4, <2>3, <2>4 DEF Inv, Stored
  <1>6. CASE UNCHANGED txn /\ loaded[t] = "success"
    <2>1. TypeOK'
      BY <1>1, <1>3, <1>6 DEF Inv, TypeOK
    <2>2. CASE txn.owner = t
      <3>1. txn.alerts = alerts[f]
        BY <1>1, <2>2 DEF Inv, DraftFits
      <3>2. Stored'
        BY <1>1, <1>6, <2>2, <3>1, AlertsUntouched
      <3> QED  BY <1>4, <2>1, <3>2 DEF Inv, Stored
    <2>3. CASE txn.owner # t
      <3>1. Stored'
        BY <1>1, <1>2, <1>3, <1>6, <2>3, WithoutTransaction
      <3> QED  BY <1>4, <2>1, <3>1 DEF Inv, Stored
    <2> QED  BY <2>2, <2>3
  <1> QED  BY <1>5, <1>6 DEF Flush

-----------------------------------------------------------------------------
(* The alert and its delivery.                                             *)

\* The alert as it is first inserted is one.
LEMMA NewAlertType == NewAlert \in Alert
  BY DEF NewAlert, Alert

\* A new alert says that nothing was tried, and so it is.
LEMMA NewAlertTells == ASSUME NEW f PROVE TellsWhatWasSent(f, NewAlert)
  BY DEF TellsWhatWasSent, NewAlert

\* A later message takes nothing back of what an alert tells.
LEMMA StillTells ==
    ASSUME NEW f \in Filings, NEW a, TellsWhatWasSent(f, a),
           \A d \in Destinations : Answered(f, d) => Answered(f, d)'
    PROVE  TellsWhatWasSent(f, a)'
  <1> DEFINE sent == {d \in Destinations : a.attempts[d] = "sent"}
             tried == {d \in Destinations : a.attempts[d] # "none"}
  <1>1. /\ a.status = "delivered" <=> sent # {}
        /\ a.status = "delivery_failed" <=> tried # {} /\ sent = {}
        /\ \A d \in sent : Answered(f, d)
    BY DEF TellsWhatWasSent, Answered
  <1>2. \A d \in sent : Answered(f, d)'
    BY <1>1
  <1> QED  BY <1>1, <1>2 DEF TellsWhatWasSent, Answered

\* ensure_alert() inserts under the lock, or finds the alert of a success.
LEMMA InsertAlertKeeps == ASSUME Inv, NEW t \in Threads, InsertAlert(t) PROVE Inv'
  <1> DEFINE f == Filing(t)
  <1>1. /\ pc[t] = "insert-alert"
        /\ txn' = Written(t, Status(t), Append(Alerts(t), NewAlert))
        /\ UNCHANGED <<database, queueVars, route, job, loaded, deliver, targets,
                      history, bounds>>
    BY DEF InsertAlert, Goto
  <1>2. PICK to \in {"destinations", "commit"} : pc' = [pc EXCEPT ![t] = to]
    BY DEF InsertAlert, Goto
  <1>3. to \in HandlerPc \ {"idle"}
    BY DEF HandlerPc
  <1>4. /\ txn.owner = t /\ alerts[f] = <<>> /\ Status(t) \in Statuses
        /\ Alerts(t) = <<>> /\ f \in Filings
    BY <1>1, SeenAlerts, BusyThread DEF Inv, AlertIsGuarded
  <1>5. Append(Alerts(t), NewAlert) = <<NewAlert>>
    BY <1>4
  <1>6. txn' = [owner |-> t, status |-> Status(t), alerts |-> <<NewAlert>>]
    BY <1>1, <1>5 DEF Written
  <1>7. txn' \in [owner : Threads \cup {Nobody}, status : Statuses, alerts : Seq(Alert)]
    BY <1>4, <1>6, NewAlertType
  <1>8. TypeOK'
    BY <1>1, <1>2, <1>3, <1>7 DEF Inv, TypeOK
  <1>9. JobsApart' /\ PlaceFitsTask' /\ RunKeyHasOneCarrier'
    BY <1>1, <1>2, <1>3, MoveKeeps
  <1>10. /\ \A u \in Threads : pc'[u] = IF u = t THEN to ELSE pc[u]
         /\ \A u \in Threads : Filing(u)' = Filing(u) /\ (txn'.owner = u <=> u = t)
    BY <1>1, <1>2, <1>6 DEF Filing, Inv, TypeOK
  <1>11. txn'.alerts = <<NewAlert>> /\ Len(<<NewAlert>>) = 1 /\ <<NewAlert>> # <<>>
         /\ <<NewAlert>>[1] = NewAlert /\ DOMAIN <<NewAlert>> = {1}
    BY <1>6
  <1>12. DraftFits'
    BY <1>1, <1>4, <1>10, <1>11 DEF DraftFits, Writing
  <1>13. AlertIsGuarded'
    BY <1>1, <1>2, <1>4, <1>10 DEF Inv, AlertIsGuarded
  <1>14. ProcessedFilingHasAlert' /\ AlertTellsWhatWasSent'
    BY <1>1 DEF Inv, ProcessedFilingHasAlert, AlertTellsWhatWasSent, TellsWhatWasSent
  <1>15. TellsWhatWasSent(f, NewAlert)'
    BY NewAlertTells, <1>1 DEF TellsWhatWasSent
  <1>16. DraftTellsWhatWasSent'
    BY <1>10, <1>11, <1>15 DEF DraftTellsWhatWasSent
  <1>17. ASSUME NEW g \in Filings, NEW d \in Destinations PROVE ~Tried(g, d)
    BY <1>1, <1>4, PipelineAssumption DEF Tried
  <1>18. SendsAreAccountedFor'
    BY <1>1, <1>17 DEF Inv, SendsAreAccountedFor
  <1> QED  BY <1>8, <1>9, <1>12, <1>13, <1>14, <1>16, <1>18 DEF Inv

\* The draft of an alert that is being delivered, and what an update makes
\* of it.
LEMMA OneDraft ==
    ASSUME Inv, NEW t \in Threads, pc[t] \in {"destinations", "send"}
    PROVE  /\ txn.owner = t /\ alerts[Filing(t)] = <<>> /\ Filing(t) \in Filings
           /\ Current(t) = txn.alerts[1] /\ Current(t) \in Alert
           /\ txn.alerts = <<Current(t)>>
           /\ \A a : Updated(t, a) = [owner |-> t, status |-> txn.status, alerts |-> <<a>>]
  <1>1. txn.owner = t /\ alerts[Filing(t)] = <<>> /\ Len(txn.alerts) = 1
    BY DEF Inv, AlertIsGuarded, DraftFits
  <1>2. txn.alerts \in Seq(Alert) /\ Filing(t) \in Filings
    BY BusyThread DEF Inv, TypeOK
  <1>3. Current(t) = txn.alerts[1] /\ Current(t) \in Alert
    BY <1>1, <1>2 DEF Current, Last
  <1>4. Front(txn.alerts) = <<>>
    BY <1>1, <1>2 DEF Front
  <1>5. ASSUME NEW a
        PROVE  Updated(t, a) = [owner |-> t, status |-> txn.status, alerts |-> <<a>>]
    <2>1. Append(<<>>, a) = <<a>>
      OBVIOUS
    <2>2. Updated(t, a) = [txn EXCEPT !.alerts = <<a>>]
      BY <1>4, <2>1 DEF Updated
    <2> QED  BY <1>1, <2>2 DEF Inv, TypeOK
  <1>6. txn.alerts = <<Current(t)>>
    BY <1>1, <1>2, <1>3
  <1> QED  BY <1>1, <1>2, <1>3, <1>5, <1>6

\* A step of a delivery: the draft becomes a, and of the messages only those
\* count one more whose attempt is on record now and was not before.
DeliveryStep(t, to, a) ==
    /\ pc[t] \in {"destinations", "send"}
    /\ pc' = [pc EXCEPT ![t] = to]
    /\ txn' = [owner |-> t, status |-> txn.status, alerts |-> <<a>>]
    /\ UNCHANGED <<database, queueVars, route, job, loaded, deliver, cut, bounds>>
    /\ targets' \in [Threads -> SUBSET Destinations]
    /\ \A u \in Threads \ {t} : targets'[u] = targets[u]
    /\ received' \in [Filings -> [Destinations -> Nat]]
    /\ redirected' \in [Filings -> SUBSET Destinations]
    /\ \A f \in Filings : redirected[f] \subseteq redirected'[f]
    /\ \A f \in Filings, d \in Destinations :
          \/ received'[f][d] = received[f][d]
          \/ /\ f = Filing(t) /\ pc[t] = "send" /\ received'[f][d] = received[f][d] + 1
             /\ Current(t).attempts[d] = "none" /\ a.attempts[d] # "none"
    /\ \A d \in Destinations :
          pc[t] = "send" /\ Current(t).attempts[d] # "none" => a.attempts[d] # "none"
    /\ to = "send" =>
          /\ a.status = "pending"
          /\ \A d \in Destinations : a.attempts[d] # "none" => d \in targets'[t]
          /\ \A d \in Destinations : a.attempts[d] = "sent" => Answered(Filing(t), d)'
    /\ to = "commit" => TellsWhatWasSent(Filing(t), a)'

\* A step of deliver_alert_once() changes the draft and sends what the draft tells.
LEMMA DeliveryKeeps ==
    ASSUME Inv, NEW t \in Threads, NEW to \in {"send", "commit"}, NEW a \in Alert,
           DeliveryStep(t, to, a)
    PROVE  Inv'
  <1> DEFINE f == Filing(t)
  <1> USE DEF DeliveryStep
  <1>1. /\ txn.owner = t /\ alerts[f] = <<>> /\ f \in Filings
        /\ txn.alerts = <<Current(t)>> /\ txn.alerts[1] = Current(t)
    BY OneDraft
  <1>2. to \in HandlerPc \ {"idle"}
    BY DEF HandlerPc
  <1>3. txn' \in [owner : Threads \cup {Nobody}, status : Statuses, alerts : Seq(Alert)]
    BY DEF Inv, TypeOK
  <1>4. TypeOK'
    BY <1>2, <1>3 DEF Inv, TypeOK
  <1>5. JobsApart' /\ PlaceFitsTask' /\ RunKeyHasOneCarrier'
    BY <1>2, MoveKeeps
  <1>6. /\ \A u \in Threads : pc'[u] = IF u = t THEN to ELSE pc[u]
        /\ \A u \in Threads : Filing(u)' = Filing(u) /\ (txn'.owner = u <=> u = t)
    BY DEF Filing, Inv, TypeOK
  <1>7. txn'.alerts = <<a>> /\ Len(<<a>>) = 1 /\ <<a>> # <<>>
         /\ <<a>>[1] = a /\ DOMAIN <<a>> = {1}
    OBVIOUS
  <1>8. DraftFits'
    BY <1>1, <1>6, <1>7 DEF DraftFits, Writing
  <1>9. AlertIsGuarded'
    BY <1>1, <1>6 DEF Inv, AlertIsGuarded
  <1>10. ProcessedFilingHasAlert'
    BY DEF Inv, ProcessedFilingHasAlert
  <1>11. \A g \in Filings, d \in Destinations : received[g][d] \in Nat /\ received'[g][d] \in Nat
    BY DEF Inv, TypeOK
  <1>12. AlertTellsWhatWasSent'
    <2> SUFFICES ASSUME NEW g \in Filings, NEW i \in DOMAIN alerts[g]
                 PROVE  TellsWhatWasSent(g, alerts[g][i])'
      BY DEF AlertTellsWhatWasSent
    <2>1. TellsWhatWasSent(g, alerts[g][i])
      BY DEF Inv, AlertTellsWhatWasSent
    <2>2. PICK b : b = alerts[g][i]
      OBVIOUS
    <2>3. TellsWhatWasSent(g, b)'
      <3>1. \A d \in Destinations : Answered(g, d) => Answered(g, d)'
        BY <1>11 DEF Answered
      <3> QED  BY <2>1, <2>2, <3>1, StillTells
    <2> QED  BY <2>2, <2>3 DEF TellsWhatWasSent
  <1>13. DraftTellsWhatWasSent'
    <2>1. to = "commit" => TellsWhatWasSent(f, a)'
      OBVIOUS
    <2> QED  BY <1>6, <1>7, <2>1 DEF DraftTellsWhatWasSent
  <1>14. SendsAreAccountedFor'
    <2> SUFFICES ASSUME NEW g \in Filings, NEW d \in Destinations
                 PROVE  /\ received'[g][d] <= 1 + cut[g]
                        /\ alerts[g] = <<>> /\ ~Tried(g, d)' => received'[g][d] <= cut[g]
      BY DEF SendsAreAccountedFor
    <2>0. /\ received[g][d] <= 1 + cut[g] /\ cut[g] \in Nat
          /\ alerts[g] = <<>> /\ ~Tried(g, d) => received[g][d] <= cut[g]
      BY DEF Inv, SendsAreAccountedFor, TypeOK
    <2>1. Tried(g, d) <=> g = f /\ pc[t] = "send" /\ Current(t).attempts[d] # "none"
      BY <1>1 DEF Tried
    <2>2. Tried(g, d)' <=> g = f /\ a.attempts[d] # "none"
      BY <1>6, <1>7 DEF Tried
    <2>3. CASE received'[g][d] = received[g][d]
      BY <2>0, <2>1, <2>2, <2>3
    <2>4. CASE /\ g = f /\ pc[t] = "send" /\ received'[g][d] = received[g][d] + 1
               /\ Current(t).attempts[d] = "none" /\ a.attempts[d] # "none"
      BY <1>1, <1>11, <2>0, <2>1, <2>2, <2>4
    <2> QED  BY <2>3, <2>4
  <1> QED  BY <1>4, <1>5, <1>8, <1>9, <1>10, <1>12, <1>13, <1>14 DEF Inv

\* The destinations are read once, nothing is sent yet.
LEMMA ChooseKeeps == ASSUME Inv, NEW t \in Threads, Choose(t) PROVE Inv'
  <1>1. /\ pc[t] = "destinations"
        /\ pc' = [pc EXCEPT ![t] = IF enabled = {} THEN "commit" ELSE "send"]
        /\ targets' = [targets EXCEPT ![t] = enabled]
        /\ txn' = IF enabled = {} THEN Updated(t, [Current(t) EXCEPT !.status = "skipped"])
                                  ELSE txn
        /\ UNCHANGED <<database, queueVars, route, job, loaded, deliver, history, bounds>>
    BY DEF Choose, Goto
  <1>2. Current(t) = NewAlert /\ Filing(t) \in Filings
    BY <1>1, OneDraft DEF Inv, DraftTellsWhatWasSent
  <1>3. /\ targets' \in [Threads -> SUBSET Destinations] /\ targets'[t] = enabled
        /\ \A u \in Threads \ {t} : targets'[u] = targets[u]
    BY <1>1 DEF Inv, TypeOK
  <1>4. /\ received' \in [Filings -> [Destinations -> Nat]]
        /\ redirected' \in [Filings -> SUBSET Destinations]
        /\ \A f \in Filings : redirected[f] \subseteq redirected'[f]
    BY <1>1 DEF Inv, TypeOK
  <1>5. NewAlert.status = "pending" /\ \A d \in Destinations : NewAlert.attempts[d] = "none"
    BY DEF NewAlert
  <1>6. CASE enabled = {}
    <2> DEFINE a == [NewAlert EXCEPT !.status = "skipped"]
    <2>1. a \in Alert
      BY DEF NewAlert, Alert
    <2>2. txn' = [owner |-> t, status |-> txn.status, alerts |-> <<a>>]
      BY <1>1, <1>2, <1>6, OneDraft
    <2>3. TellsWhatWasSent(Filing(t), a)
      BY DEF TellsWhatWasSent, NewAlert
    <2>4. TellsWhatWasSent(Filing(t), a)'
      BY <1>1, <2>3 DEF TellsWhatWasSent, Filing
    <2>5. pc' = [pc EXCEPT ![t] = "commit"]
      BY <1>1, <1>6
    <2> HIDE DEF a
    <2>6. DeliveryStep(t, "commit", a)
      BY <1>1, <1>3, <1>4, <2>2, <2>4, <2>5 DEF DeliveryStep
    <2> QED  BY <2>1, <2>6, DeliveryKeeps
  <1>7. CASE enabled # {}
    <2>1. txn' = [owner |-> t, status |-> txn.status, alerts |-> <<NewAlert>>]
      BY <1>1, <1>2, <1>7, OneDraft DEF Inv, TypeOK
    <2>2. pc' = [pc EXCEPT ![t] = "send"]
      BY <1>1, <1>7
    <2>3. DeliveryStep(t, "send", NewAlert)
      BY <1>1, <1>3, <1>4, <1>5, <2>1, <2>2 DEF DeliveryStep
    <2> QED  BY <2>3, NewAlertType, DeliveryKeeps
  <1> QED  BY <1>6, <1>7

\* One message and its attempt, in the open transaction.
LEMMA SendKeeps == ASSUME Inv, NEW t \in Threads, Send(t) PROVE Inv'
  <1> DEFINE f == Filing(t)
  <1>1. PICK d \in Destinations, result \in {"sent", "failed"} :
          /\ NextInOrder(t, d)
          /\ Exchange(f, d, result)
          /\ txn' = Updated(t, [Current(t) EXCEPT !.attempts[d] = result])
    BY DEF Send
  <1>2. /\ pc[t] = "send"
        /\ UNCHANGED <<database, queueVars, route, threadVars, cut, bounds>>
    BY DEF Send
  <1>3. /\ txn.owner = t /\ f \in Filings /\ Current(t) = txn.alerts[1]
        /\ Current(t) \in Alert
    BY <1>2, OneDraft
  <1>4. d \in targets[t] /\ Current(t).attempts[d] = "none"
    BY <1>1 DEF NextInOrder, Unattempted
  <1>5. PICK a : a = [Current(t) EXCEPT !.attempts[d] = result]
    OBVIOUS
  <1>6. /\ a \in Alert /\ a.status = Current(t).status
        /\ \A e \in Destinations : a.attempts[e] = IF e = d THEN result ELSE Current(t).attempts[e]
    BY <1>3, <1>5 DEF Alert
  <1>7. txn' = [owner |-> t, status |-> txn.status, alerts |-> <<a>>]
    BY <1>1, <1>2, <1>5, OneDraft
  <1>8. pc' = [pc EXCEPT ![t] = "send"]
    BY <1>2 DEF Inv, TypeOK
  <1>18. /\ received \in [Filings -> [Destinations -> Nat]]
         /\ redirected \in [Filings -> SUBSET Destinations]
    BY DEF Inv, TypeOK
  <1>19. \/ UNCHANGED received
         \/ received' = [received EXCEPT ![f][d] = @ + 1]
    BY <1>1 DEF Exchange
  <1>20. \/ UNCHANGED redirected
         \/ redirected' = [redirected EXCEPT ![f] = @ \cup {d}]
    BY <1>1 DEF Exchange
  <1>9. /\ received' \in [Filings -> [Destinations -> Nat]]
        /\ redirected' \in [Filings -> SUBSET Destinations]
        /\ \A g \in Filings : redirected[g] \subseteq redirected'[g]
    <2>1. received' \in [Filings -> [Destinations -> Nat]]
      BY <1>3, <1>18, <1>19
    <2>2. redirected' \in [Filings -> SUBSET Destinations]
      BY <1>3, <1>18, <1>20
    <2>3. \A g \in Filings : redirected[g] \subseteq redirected'[g]
      BY <1>3, <1>18, <1>20
    <2> QED  BY <2>1, <2>2, <2>3
  <1>10. \A g \in Filings, e \in Destinations :
            /\ received[g][e] \in Nat
            /\ \/ received'[g][e] = received[g][e]
               \/ g = f /\ e = d /\ received'[g][e] = received[g][e] + 1
    BY <1>3, <1>18, <1>19
  <1>17. result = "sent" => Answered(f, d)'
    <2>1. CASE received' = [received EXCEPT ![f][d] = @ + 1]
      <3>1. received'[f][d] = received[f][d] + 1 /\ received[f][d] \in Nat
        BY <1>3, <1>18, <2>1
      <3>2. f' = f
        BY <1>2 DEF Filing
      <3>3. received'[f][d] > 0
        BY <3>1
      <3> QED  BY <3>2, <3>3 DEF Answered
    <2>2. CASE redirected' = [redirected EXCEPT ![f] = @ \cup {d}]
      <3>1. d \in redirected'[f]
        BY <1>3, <1>18, <2>2
      <3>2. f' = f
        BY <1>2 DEF Filing
      <3> QED  BY <3>1, <3>2 DEF Answered
    <2>3. CASE result = "failed"
      BY <2>3
    <2>4. \/ received' = [received EXCEPT ![f][d] = @ + 1]
          \/ redirected' = [redirected EXCEPT ![f] = @ \cup {d}]
          \/ result = "failed"
      BY <1>1 DEF Exchange
    <2> QED  BY <2>1, <2>2, <2>3, <2>4
  <1>11. targets' \in [Threads -> SUBSET Destinations] /\ targets' = targets
    BY <1>2 DEF Inv, TypeOK
  <1>12. /\ a.status = "pending"
         /\ \A e \in Destinations : a.attempts[e] # "none" => e \in targets'[t]
    BY <1>2, <1>3, <1>4, <1>6 DEF Inv, DraftTellsWhatWasSent
  <1>13. ASSUME NEW e \in Destinations, a.attempts[e] = "sent" PROVE Answered(f, e)'
    <2>1. CASE e = d
      BY <1>6, <1>13, <1>17, <2>1
    <2>2. CASE e # d
      <3>1. Answered(f, e)
        BY <1>2, <1>3, <1>6, <1>13, <2>2 DEF Inv, DraftTellsWhatWasSent
      <3>2. received'[f][e] = received[f][e] /\ redirected[f] \subseteq redirected'[f]
        BY <1>3, <1>9, <1>10, <2>2
      <3> QED  BY <1>2, <3>1, <3>2 DEF Answered, Filing
    <2> QED  BY <2>1, <2>2
  <1>14. \A g \in Filings, e \in Destinations :
            \/ received'[g][e] = received[g][e]
            \/ /\ g = f /\ pc[t] = "send" /\ received'[g][e] = received[g][e] + 1
               /\ Current(t).attempts[e] = "none" /\ a.attempts[e] # "none"
    BY <1>1, <1>2, <1>4, <1>6, <1>10
  <1>15. \A e \in Destinations : Current(t).attempts[e] # "none" => a.attempts[e] # "none"
    BY <1>4, <1>6
  <1>16. DeliveryStep(t, "send", a)
    BY <1>2, <1>7, <1>8, <1>9, <1>11, <1>12, <1>13, <1>14, <1>15 DEF DeliveryStep
  <1> QED  BY <1>6, <1>16, DeliveryKeeps

\* The status is drawn from the attempts of the draft.
LEMMA AggregateKeeps == ASSUME Inv, NEW t \in Threads, Aggregate(t) PROVE Inv'
  <1> DEFINE f == Filing(t)
             sent == {d \in Destinations : Current(t).attempts[d] = "sent"}
             attempted == {d \in Destinations : Current(t).attempts[d] # "none"}
             status == IF sent \cap targets[t] # {} THEN "delivered"
                       ELSE IF attempted \cap targets[t] # {} THEN "delivery_failed"
                       ELSE "skipped"
  <1>1. /\ pc[t] = "send" /\ pc' = [pc EXCEPT ![t] = "commit"]
        /\ Unattempted(t) = {}
        /\ txn' = Updated(t, [Current(t) EXCEPT !.status = status])
        /\ UNCHANGED <<database, queueVars, route, job, loaded, deliver, targets,
                      history, bounds>>
    BY DEF Aggregate, Goto
  <1>2. PICK a : a = [Current(t) EXCEPT !.status = status]
    OBVIOUS
  <1>3. /\ txn.owner = t /\ f \in Filings /\ Current(t) = txn.alerts[1]
        /\ Current(t) \in Alert
        /\ txn' = [owner |-> t, status |-> txn.status, alerts |-> <<a>>]
    BY <1>1, <1>2, OneDraft
  <1>4. status \in {"delivered", "delivery_failed", "skipped"}
    OBVIOUS
  <1>5. /\ sent \subseteq attempted /\ attempted \subseteq targets[t]
        /\ \A d \in sent : Answered(f, d)
    BY <1>1, <1>3 DEF Inv, DraftTellsWhatWasSent
  <1>6. /\ status = "delivered" <=> sent # {}
        /\ status = "delivery_failed" <=> attempted # {} /\ sent = {}
    <2>1. sent \cap targets[t] = sent /\ attempted \cap targets[t] = attempted
      BY <1>5
    <2>2. CASE sent # {}
      BY <2>1, <2>2
    <2>3. CASE sent = {} /\ attempted # {}
      BY <2>1, <2>3
    <2>4. CASE sent = {} /\ attempted = {}
      BY <2>1, <2>4
    <2> HIDE DEF sent, attempted, status
    <2> QED  BY <2>2, <2>3, <2>4
  <1>7. a \in Alert /\ a.status = status /\ a.attempts = Current(t).attempts
    BY <1>2, <1>3, <1>4 DEF Alert
  <1>8. TellsWhatWasSent(f, a)
    BY <1>5, <1>6, <1>7 DEF TellsWhatWasSent, Answered
  <1>9. TellsWhatWasSent(f, a)'
    BY <1>1, <1>8 DEF TellsWhatWasSent, Filing
  <1>10. /\ targets' \in [Threads -> SUBSET Destinations] /\ targets' = targets
         /\ received' \in [Filings -> [Destinations -> Nat]] /\ received' = received
         /\ redirected' \in [Filings -> SUBSET Destinations] /\ redirected' = redirected
    BY <1>1 DEF Inv, TypeOK
  <1>11. \A d \in Destinations : Current(t).attempts[d] # "none" => a.attempts[d] # "none"
    BY <1>7
  <1>12. DeliveryStep(t, "commit", a)
    BY <1>1, <1>3, <1>9, <1>10, <1>11 DEF DeliveryStep
  <1> QED  BY <1>7, <1>12, DeliveryKeeps

\* A transaction that is committed or rolled back.
LEMMA ClosedTransaction ==
    ASSUME Inv, NEW t \in Threads, txn.owner = t, txn' = NoTxn,
           pc[t] \in {"commit", "rewrite-error"},
           NEW to \in {"finish-run", "finish", "report"}, pc' = [pc EXCEPT ![t] = to],
           UNCHANGED <<job, loaded, targets, received, redirected, cut>>,
           \A g \in Filings : g # Filing(t) => filings'[g] = filings[g] /\ alerts'[g] = alerts[g],
           pc[t] = "commit" => alerts'[Filing(t)] = txn.alerts,
           pc[t] # "commit" => UNCHANGED <<filings, alerts>>
    PROVE  Stored'
  <1> DEFINE f == Filing(t)
  <1>0. pc \in [Threads -> HandlerPc] /\ Nobody \notin Threads /\ f \in Filings
    BY BusyThread, PipelineAssumption DEF Inv, TypeOK
  <1>1. \A u \in Threads : pc'[u] = IF u = t THEN to ELSE pc[u]
    BY <1>0
  <1>2. \A u \in Threads : Filing(u)' = Filing(u) /\ txn'.owner # u
    BY <1>0 DEF Filing, NoTxn
  <1>3. \A u \in Threads \ {t} : pc[u] \notin {"insert-alert", "destinations", "send"}
    BY DEF Inv, AlertIsGuarded
  <1>4. \A g : \A a : TellsWhatWasSent(g, a)' <=> TellsWhatWasSent(g, a)
    BY DEF TellsWhatWasSent
  <1>5. pc[t] = "commit" => alerts'[f] # <<>>
    BY DEF Inv, DraftFits
  <1>6. \A g \in Filings : alerts[g] # <<>> => alerts'[g] # <<>>
    BY <1>5
  <1>7. DraftFits' /\ DraftTellsWhatWasSent'
    BY <1>2 DEF DraftFits, DraftTellsWhatWasSent
  <1>8. AlertIsGuarded'
    <2> SUFFICES ASSUME NEW u \in Threads
                 PROVE  /\ u # t => (pc[u] = "find-alert" => loaded[u] = "success")
                        /\ loaded[u] = "success" => pc'[u] # "idle" /\ alerts'[Filing(u)] # <<>>
      BY <1>1, <1>2, <1>3 DEF AlertIsGuarded
    <2>1. u # t => (pc[u] = "find-alert" => loaded[u] = "success")
      BY DEF Inv, AlertIsGuarded
    <2>2. ASSUME loaded[u] = "success" PROVE pc'[u] # "idle" /\ alerts'[Filing(u)] # <<>>
      <3>1. pc[u] # "idle" /\ alerts[Filing(u)] # <<>>
        BY <2>2 DEF Inv, AlertIsGuarded
      <3>2. Filing(u) \in Filings
        BY <3>1, BusyThread DEF Inv
      <3> QED  BY <1>1, <1>6, <3>1, <3>2
    <2> QED  BY <2>1, <2>2
  <1>9. ProcessedFilingHasAlert'
    BY <1>5, <1>6 DEF Inv, ProcessedFilingHasAlert
  <1>10. AlertTellsWhatWasSent'
    <2> SUFFICES ASSUME NEW g \in Filings, NEW i \in DOMAIN alerts'[g]
                 PROVE  TellsWhatWasSent(g, alerts'[g][i])
      BY <1>4 DEF AlertTellsWhatWasSent
    <2>1. CASE g = f /\ pc[t] = "commit"
      BY <2>1 DEF Inv, DraftTellsWhatWasSent
    <2>2. CASE ~(g = f /\ pc[t] = "commit")
      BY <2>2 DEF Inv, AlertTellsWhatWasSent
    <2> QED  BY <2>1, <2>2
  <1>11. SendsAreAccountedFor'
    <2> SUFFICES ASSUME NEW g \in Filings, NEW d \in Destinations, alerts'[g] = <<>>
                 PROVE  received[g][d] <= cut[g]
      BY DEF Inv, SendsAreAccountedFor
    <2>1. alerts[g] = <<>> /\ ~(g = f /\ pc[t] = "commit")
      BY <1>5, <1>6
    <2>2. ~Tried(g, d)
      BY <2>1 DEF Tried
    <2> QED  BY <2>1, <2>2 DEF Inv, SendsAreAccountedFor
  <1> QED  BY <1>7, <1>8, <1>9, <1>10, <1>11 DEF Stored

\* The draft becomes the record, and the lock is free.
LEMMA CommitKeeps == ASSUME Inv, NEW t \in Threads, Commit(t) PROVE Inv'
  <1> DEFINE f == Filing(t)
  <1>1. /\ pc[t] = "commit"
        /\ UNCHANGED <<enabled, queueVars, route, job, loaded, deliver, targets,
                      history, bounds>>
    BY DEF Commit, Goto
  <1>2. PICK to \in {"finish-run", "finish"} :
           /\ pc' = [pc EXCEPT ![t] = to]
           /\ to = "finish-run" <=> Task(t) = "reparse"
    BY <1>1, CaughtPlaces DEF Inv, Commit, Goto
  <1>3. to \in HandlerPc \ {"idle"} /\ f \in Filings
    BY <1>1, BusyThread DEF HandlerPc, Inv
  <1>4. JobsApart' /\ PlaceFitsTask' /\ RunKeyHasOneCarrier'
    BY <1>1, <1>2, <1>3, MoveKeeps
  <1>5. CASE txn.owner = t
    <2>1. /\ filings' = [filings EXCEPT ![f] = txn.status]
          /\ alerts' = [alerts EXCEPT ![f] = txn.alerts]
          /\ txn' = NoTxn
      BY <1>5 DEF Commit
    <2>2. NoTxn \in [owner : Threads \cup {Nobody}, status : Statuses, alerts : Seq(Alert)]
      BY DEF NoTxn, Statuses
    <2>3. TypeOK'
      BY <1>1, <1>2, <1>3, <2>1, <2>2 DEF Inv, TypeOK
    <2>4. /\ alerts'[f] = txn.alerts
          /\ \A g \in Filings : g # f => filings'[g] = filings[g] /\ alerts'[g] = alerts[g]
      BY <1>3, <2>1 DEF Inv, TypeOK
    <2>5. Stored'
      BY <1>1, <1>2, <1>5, <2>1, <2>4, ClosedTransaction
    <2> QED  BY <1>4, <2>3, <2>5 DEF Inv, Stored
  <1>6. CASE txn.owner # t
    <2>1. UNCHANGED <<filings, alerts, txn>>
      BY <1>6 DEF Commit
    <2>2. TypeOK'
      BY <1>1, <1>2, <1>3, <2>1 DEF Inv, TypeOK
    <2>3. loaded[t] = "success" => alerts[Filing(t)'] # <<>>
      BY <1>1 DEF Filing, Inv, AlertIsGuarded
    <2>4. Stored'
      BY <1>1, <1>2, <1>3, <1>6, <2>1, <2>3, WithoutTransaction
    <2> QED  BY <1>4, <2>2, <2>4 DEF Inv, Stored
  <1> QED  BY <1>5, <1>6

\* A write that times out.  A thread that waits for itself can only be about
\* to record a failed rewrite.
LEMMA TimesOutKeeps == ASSUME Inv, NEW t \in Threads, TimesOut(t) PROVE Inv'
  <1>1. /\ Blocked(t) /\ pc[txn.owner] \in {"rewrite", "rewrite-error", "send"}
        /\ txn' = IF txn.owner = t THEN NoTxn ELSE txn
        /\ UNCHANGED <<database, queueVars, route, job, loaded, deliver, targets,
                      history, bounds>>
    BY DEF TimesOut
  <1>2. pc[t] \in Writes /\ pc[t] \notin {"idle", "finish"}
    BY <1>1 DEF Blocked, Writes
  <1>3. PICK to \in {"finish-run", "finish", "report"} :
           /\ pc' = [pc EXCEPT ![t] = to]
           /\ to = "finish-run" => Task(t) = "reparse"
           /\ to = "finish" => Task(t) # "reparse"
    <2>1. AfterTimeout(t) \in {Done(t), Caught(t)} /\ pc' = [pc EXCEPT ![t] = AfterTimeout(t)]
      BY DEF TimesOut, Goto, AfterTimeout
    <2> QED  BY <1>2, <2>1, CaughtPlaces DEF Inv
  <1>4. to \in HandlerPc \ {"idle"}
    BY DEF HandlerPc, Writes
  <1>5. NoTxn \in [owner : Threads \cup {Nobody}, status : Statuses, alerts : Seq(Alert)]
    BY DEF NoTxn, Statuses
  <1>6. TypeOK'
    BY <1>1, <1>3, <1>4, <1>5 DEF Inv, TypeOK
  <1>7. JobsApart' /\ PlaceFitsTask' /\ RunKeyHasOneCarrier'
    BY <1>1, <1>2, <1>3, <1>4, MoveKeeps
  <1>8. CASE txn.owner = t
    <2>1. pc[t] = "rewrite-error"
      BY <1>1, <1>8 DEF Blocked, Writes
    <2>2. Stored'
      BY <1>1, <1>3, <1>8, <2>1, ClosedTransaction
    <2> QED  BY <1>6, <1>7, <2>2 DEF Inv, Stored
  <1>9. CASE txn.owner # t
    <2>1. loaded[t] = "success" => alerts[Filing(t)'] # <<>>
      BY <1>1 DEF Filing, Inv, AlertIsGuarded
    <2>2. Stored'
      BY <1>1, <1>3, <1>4, <1>9, <2>1, WithoutTransaction
    <2> QED  BY <1>6, <1>7, <2>2 DEF Inv, Stored
  <1> QED  BY <1>8, <1>9

-----------------------------------------------------------------------------
(* The queue, the run keys and the pages.                                  *)

\* Steps of the others: no thread moves, and filings, alerts and messages are
\* left alone.
LEMMA OthersKeep ==
    ASSUME Inv, UNCHANGED <<filings, alerts, txn, threadVars, history>>
    PROVE  Stored' /\ PlaceFitsTask'
  <1>1. \A f : \A a : TellsWhatWasSent(f, a)' <=> TellsWhatWasSent(f, a)
    BY DEF TellsWhatWasSent
  <1>2. \A f, d : Tried(f, d)' <=> Tried(f, d)
    BY DEF Tried, Filing
  <1>3. DraftFits' /\ AlertIsGuarded' /\ ProcessedFilingHasAlert'
    BY DEF Inv, DraftFits, AlertIsGuarded, ProcessedFilingHasAlert, Filing
  <1>4. DraftTellsWhatWasSent'
    BY <1>1 DEF Inv, DraftTellsWhatWasSent, Filing, Answered
  <1>5. AlertTellsWhatWasSent'
    BY <1>1 DEF Inv, AlertTellsWhatWasSent
  <1>6. SendsAreAccountedFor'
    BY <1>2 DEF Inv, SendsAreAccountedFor
  <1>7. PlaceFitsTask'
    BY DEF Inv, PlaceFitsTask, Task
  <1> QED  BY <1>3, <1>4, <1>5, <1>6, <1>7 DEF Stored

\* Destinations come and go beside a delivery, which has its own list.
LEMMA SaveDestinationKeeps ==
    ASSUME Inv, NEW d \in Destinations, SaveDestination(d) PROVE Inv'
  <1>1. UNCHANGED <<filings, alerts, txn, queueVars, route, threadVars, history, crashes>>
    BY DEF SaveDestination
  <1>2. requests' = requests + 1 /\ requests < MaxRequests
    BY DEF SaveDestination
  <1>3. enabled' \subseteq Destinations
    BY DEF SaveDestination, Inv, TypeOK
  <1>4. requests' \in 0..MaxRequests
    BY <1>2, PipelineAssumption DEF Inv, TypeOK
  <1>5. TypeOK'
    BY <1>1, <1>3, <1>4 DEF Inv, TypeOK
  <1>6. JobsApart' /\ RunKeyHasOneCarrier'
    BY <1>1 DEF Inv, JobsApart, RunKeyHasOneCarrier, Queued, Handled
  <1>7. Stored' /\ PlaceFitsTask'
    BY <1>1, OthersKeep
  <1> QED  BY <1>5, <1>6, <1>7 DEF Inv, Stored

\* A job for a filing is put in the queue.
LEMMA DiscoverKeeps == ASSUME Inv, NEW f \in Filings, Discover(f) PROVE Inv'
  <1>1. UNCHANGED <<database, txn, serving, reparsing, route, threadVars, history, crashes>>
    BY DEF Discover
  <1>2. requests' = requests + 1 /\ requests < MaxRequests
    BY DEF Discover
  <1>3. PICK j \in Jobs : /\ j.task \in {"poll", "manual", "process"}
                          /\ CanEnqueue(j)
                          /\ waiting' = waiting \cup {j}
    BY DEF Discover
  <1>4. requests' \in 0..MaxRequests
    BY <1>2, PipelineAssumption DEF Inv, TypeOK
  <1>5. TypeOK'
    BY <1>1, <1>3, <1>4 DEF Inv, TypeOK
  <1>6. JobsApart'
    BY <1>1, <1>3 DEF Inv, JobsApart, CanEnqueue
  <1>7. \A g \in Filings : Queued(g)' <=> Queued(g)
    BY <1>3 DEF Queued, Reparse
  <1>8. RunKeyHasOneCarrier'
    BY <1>1, <1>7 DEF Inv, RunKeyHasOneCarrier, Handled
  <1>9. Stored' /\ PlaceFitsTask'
    BY <1>1, OthersKeep
  <1> QED  BY <1>5, <1>6, <1>8, <1>9 DEF Inv, Stored

\* The request takes the run key, if it is free.
LEMMA RouteReparseKeeps == ASSUME Inv, NEW f \in Filings, RouteReparse(f) PROVE Inv'
  <1>1. /\ route = NoFiling /\ f \notin reparsing
        /\ reparsing' = reparsing \cup {f} /\ route' = f
        /\ UNCHANGED <<database, txn, waiting, serving, threadVars, history, crashes>>
    BY DEF RouteReparse
  <1>2. requests' = requests + 1 /\ requests < MaxRequests
    BY DEF RouteReparse
  <1>3. requests' \in 0..MaxRequests
    BY <1>2, PipelineAssumption DEF Inv, TypeOK
  <1>4. TypeOK'
    BY <1>1, <1>3 DEF Inv, TypeOK
  <1>5. JobsApart'
    BY <1>1 DEF Inv, JobsApart
  <1>6. \A g \in Filings : (Queued(g)' <=> Queued(g)) /\ (Handled(g)' <=> Handled(g)) /\ route # g
    BY <1>1, PipelineAssumption DEF Queued, Handled
  <1>7. RunKeyHasOneCarrier'
    BY <1>1, <1>6 DEF Inv, RunKeyHasOneCarrier
  <1>8. Stored' /\ PlaceFitsTask'
    BY <1>1, OthersKeep
  <1> QED  BY <1>4, <1>5, <1>7, <1>8 DEF Inv, Stored

\* Reparse jobs of two filings are two jobs.
LEMMA ReparseJobs ==
    ASSUME NEW f \in Filings, NEW g \in Filings
    PROVE  /\ Reparse(f) \in Jobs /\ Reparse(f) # NoJob
           /\ Reparse(f) = Reparse(g) => f = g
  BY NoJobIsNone DEF Reparse, Jobs

\* The request leaves its run key to the job, or gives it back.
LEMMA RouteEnqueueKeeps == ASSUME Inv, RouteEnqueue PROVE Inv'
  <1>1. /\ route # NoFiling /\ route' = NoFiling
        /\ UNCHANGED <<database, txn, serving, threadVars, history, bounds>>
    BY DEF RouteEnqueue
  <1>2. PICK f \in Filings : route = f
    BY <1>1 DEF Inv, TypeOK
  <1>3. NoFiling \notin Filings /\ Reparse(f) \in Jobs
    BY PipelineAssumption, ReparseJobs
  <1>4. \A g \in Filings : Handled(g)' <=> Handled(g)
    BY <1>1 DEF Handled
  <1>5. Stored' /\ PlaceFitsTask'
    BY <1>1, OthersKeep
  <1>6. CASE CanEnqueue(Reparse(f))
    <2>1. waiting' = waiting \cup {Reparse(f)} /\ UNCHANGED reparsing
      BY <1>2, <1>6 DEF RouteEnqueue, Reparse
    <2>2. TypeOK'
      BY <1>1, <1>3, <2>1 DEF Inv, TypeOK
    <2>3. JobsApart'
      BY <1>1, <1>6, <2>1 DEF Inv, JobsApart, CanEnqueue
    <2>4. \A g \in Filings : Queued(g)' <=> Queued(g) \/ g = f
      BY <2>1, ReparseJobs DEF Queued
    <2>5. RunKeyHasOneCarrier'
      BY <1>1, <1>2, <1>3, <1>4, <2>1, <2>4 DEF Inv, RunKeyHasOneCarrier
    <2> QED  BY <1>5, <2>2, <2>3, <2>5 DEF Inv, Stored
  <1>7. CASE ~CanEnqueue(Reparse(f))
    <2>1. reparsing' = reparsing \ {f} /\ UNCHANGED waiting
      BY <1>2, <1>7 DEF RouteEnqueue, Reparse
    <2>2. TypeOK'
      BY <1>1, <2>1 DEF Inv, TypeOK
    <2>3. JobsApart'
      BY <1>1, <2>1 DEF Inv, JobsApart
    <2>4. \A g \in Filings : Queued(g)' <=> Queued(g)
      BY <2>1 DEF Queued
    <2>5. RunKeyHasOneCarrier'
      BY <1>1, <1>2, <1>3, <1>4, <2>1, <2>4 DEF Inv, RunKeyHasOneCarrier
    <2> QED  BY <1>5, <2>2, <2>3, <2>5 DEF Inv, Stored
  <1> QED  BY <1>6, <1>7

\* A poll's handler leaves its filing to a job.
LEMMA EnqueueProcessKeeps == ASSUME Inv, NEW t \in Threads, EnqueueProcess(t) PROVE Inv'
  <1> DEFINE j == [task |-> "process", filing |-> Filing(t)]
  <1>1. /\ pc[t] = "enqueue" /\ pc' = [pc EXCEPT ![t] = "finish"]
        /\ waiting' = IF CanEnqueue(j) THEN waiting \cup {j} ELSE waiting
        /\ UNCHANGED <<database, txn, serving, reparsing, route, job, loaded, deliver,
                      targets, history, bounds>>
    BY DEF EnqueueProcess, Goto
  <1>2. Filing(t) \in Filings /\ Task(t) \in {"poll", "manual"}
    BY <1>1, BusyThread DEF Inv, PlaceFitsTask
  <1>3. j \in Jobs /\ \A f : Reparse(f) # j
    BY <1>2 DEF Jobs, Reparse
  <1>4. "finish" \in HandlerPc /\ \A u \in Threads : pc'[u] = IF u = t THEN "finish" ELSE pc[u]
    BY <1>1 DEF HandlerPc, Inv, TypeOK
  <1>5. TypeOK'
    BY <1>1, <1>3, <1>4 DEF Inv, TypeOK
  <1>6. JobsApart'
    BY <1>1, <1>4 DEF Inv, JobsApart, CanEnqueue
  <1>7. PlaceFitsTask'
    BY <1>1, <1>4 DEF Inv, PlaceFitsTask, Task
  <1>8. \A f \in Filings : (Queued(f)' <=> Queued(f)) /\ (Handled(f)' <=> Handled(f))
    <2> SUFFICES ASSUME NEW f \in Filings
                 PROVE  (Queued(f)' <=> Queued(f)) /\ (Handled(f)' <=> Handled(f))
      OBVIOUS
    <2>1. Queued(f)' <=> Queued(f)
      BY <1>1, <1>3 DEF Queued, Reparse
    <2>2. job[t] # Reparse(f)
      BY <1>2 DEF Task, Reparse
    <2>3. Handled(f)' <=> Handled(f)
      BY <1>1, <1>4, <2>2 DEF Handled, Reparse
    <2> QED  BY <2>1, <2>3
  <1>9. RunKeyHasOneCarrier'
    BY <1>1, <1>8 DEF Inv, RunKeyHasOneCarrier
  <1>10. txn.owner # t /\ (loaded[t] = "success" => alerts[Filing(t)'] # <<>>)
    BY <1>1 DEF Inv, DraftFits, Writing, AlertIsGuarded, Filing
  <1>11. Stored'
    BY <1>1, <1>4, <1>10, WithoutTransaction
  <1> QED  BY <1>5, <1>6, <1>7, <1>9, <1>11 DEF Inv, Stored

\* A thread takes a job out of the queue, and with it the run key.
LEMMA ServeKeeps == ASSUME Inv, NEW t \in Threads, Serve(t) PROVE Inv'
  <1>1. PICK j \in waiting :
           /\ pc[t] = "idle" /\ pc' = [pc EXCEPT ![t] = Entry(j)]
           /\ waiting' = waiting \ {j}
           /\ serving' = serving \cup {j}
           /\ job' = [job EXCEPT ![t] = j]
           /\ deliver' = [deliver EXCEPT ![t] = j.task # "reparse"]
           /\ UNCHANGED <<database, txn, reparsing, route, loaded, targets, history, bounds>>
    BY DEF Serve, Goto
  <1>2. j \in Jobs /\ j \notin serving /\ j # NoJob
    BY NoJobIsNone DEF Inv, TypeOK, JobsApart
  <1>3. PICK to \in {"register", "clear", "fetch"} :
           /\ to = Entry(j)
           /\ to = "register" => j.task \in {"poll", "manual"}
    <2>1. j.task \in {"poll", "manual", "process", "reparse"}
      BY <1>2 DEF Jobs
    <2>2. CASE j.task \in {"poll", "manual"}
      BY <2>2 DEF Entry
    <2>3. CASE j.task = "reparse"
      BY <2>3 DEF Entry
    <2>4. CASE j.task = "process"
      BY <2>4 DEF Entry
    <2> QED  BY <2>1, <2>2, <2>3, <2>4
  <1>4. to \in HandlerPc
    BY DEF HandlerPc, Writes
  <1>5. /\ \A u \in Threads : pc'[u] = IF u = t THEN to ELSE pc[u]
        /\ \A u \in Threads : job'[u] = IF u = t THEN j ELSE job[u]
    BY <1>1, <1>3 DEF Inv, TypeOK
  <1>6. deliver' \in [Threads -> BOOLEAN]
    BY <1>1 DEF Inv, TypeOK
  <1>7. TypeOK'
    BY <1>1, <1>2, <1>3, <1>4, <1>6 DEF Inv, TypeOK
  <1>8. JobsApart'
    BY <1>1, <1>2, <1>5 DEF Inv, JobsApart
  <1>9. PlaceFitsTask'
    BY <1>3, <1>5 DEF Inv, PlaceFitsTask, Task
  <1>10. RunKeyHasOneCarrier'
    <2> SUFFICES ASSUME NEW f \in Filings
                 PROVE  /\ f \in reparsing <=> Queued(f)' \/ Handled(f)' \/ route = f
                        /\ route = f => ~Queued(f)' /\ ~Handled(f)'
      BY <1>1 DEF RunKeyHasOneCarrier
    <2>0. /\ f \in reparsing <=> Queued(f) \/ Handled(f) \/ route = f
          /\ route = f => ~Queued(f) /\ ~Handled(f)
      BY DEF Inv, RunKeyHasOneCarrier
    <2>1. CASE j = Reparse(f)
      <3>1. Queued(f) /\ ~Queued(f)' /\ Handled(f)'
        BY <1>1, <1>5, <2>1 DEF Queued, Handled, Reparse
      <3> QED  BY <2>0, <3>1
    <2>2. CASE j # Reparse(f)
      <3>1. job[t] = NoJob /\ Reparse(f) # NoJob
        BY <1>1, ReparseJobs DEF Inv, JobsApart
      <3>2. (Queued(f)' <=> Queued(f)) /\ (Handled(f)' <=> Handled(f))
        BY <1>1, <1>5, <2>2, <3>1 DEF Queued, Handled, Reparse
      <3> QED  BY <2>0, <3>2
    <2> QED  BY <2>1, <2>2
  <1>11. txn.owner # t /\ loaded[t] # "success"
    BY <1>1 DEF Inv, DraftFits, Writing, AlertIsGuarded
  <1>12. Stored'
    BY <1>1, <1>3, <1>4, <1>5, <1>11, WithoutTransaction
  <1> QED  BY <1>7, <1>8, <1>9, <1>10, <1>12 DEF Inv, Stored

\* The handler of a reparse gives the run key back.
LEMMA FinishRunKeeps == ASSUME Inv, NEW t \in Threads, FinishRun(t) PROVE Inv'
  <1>1. /\ pc[t] = "finish-run" /\ pc' = [pc EXCEPT ![t] = "finish"]
        /\ reparsing' = reparsing \ {Filing(t)}
        /\ UNCHANGED <<database, txn, waiting, serving, route, job, loaded, deliver,
                      targets, history, bounds>>
    BY DEF FinishRun, Goto
  <1>2. Filing(t) \in Filings /\ job[t] \in Jobs /\ job[t] \in serving
    BY <1>1, BusyThread DEF Inv, JobsApart
  <1> PICK f \in Filings : f = Filing(t)
    BY <1>2
  <1>3. job[t] = Reparse(f)
    BY <1>1, <1>2 DEF Inv, PlaceFitsTask, Task, Filing, Reparse, Jobs
  <1>4. "finish" \in HandlerPc /\ \A u \in Threads : pc'[u] = IF u = t THEN "finish" ELSE pc[u]
    BY <1>1 DEF HandlerPc, Inv, TypeOK
  <1>5. TypeOK'
    BY <1>1, <1>4 DEF Inv, TypeOK
  <1>6. JobsApart'
    BY <1>1, <1>4 DEF Inv, JobsApart
  <1>7. PlaceFitsTask'
    BY <1>1, <1>4 DEF Inv, PlaceFitsTask, Task
  <1>8. ~Queued(f) /\ Handled(f)
    BY <1>1, <1>2, <1>3 DEF Inv, JobsApart, Queued, Handled
  <1>9. ~Handled(f)'
    BY <1>1, <1>3, <1>4 DEF Inv, JobsApart, Handled, Reparse
  <1>10. \A g \in Filings : Queued(g)' <=> Queued(g)
    BY <1>1 DEF Queued
  <1>11. \A g \in Filings \ {f} : Handled(g)' <=> Handled(g)
    <2> SUFFICES ASSUME NEW g \in Filings, g # f PROVE Handled(g)' <=> Handled(g)
      OBVIOUS
    <2>1. job[t] # Reparse(g)
      BY <1>3, ReparseJobs
    <2> QED  BY <1>1, <1>4, <2>1 DEF Handled, Reparse
  <1>12. RunKeyHasOneCarrier'
    BY <1>1, <1>2, <1>8, <1>9, <1>10, <1>11 DEF Inv, RunKeyHasOneCarrier
  <1>13. txn.owner # t /\ (loaded[t] = "success" => alerts[Filing(t)'] # <<>>)
    BY <1>1 DEF Inv, DraftFits, Writing, AlertIsGuarded, Filing
  <1>14. Stored'
    BY <1>1, <1>4, <1>13, WithoutTransaction
  <1> QED  BY <1>5, <1>6, <1>7, <1>12, <1>14 DEF Inv, Stored

\* The thread lets go of its job.
LEMMA CompleteKeeps == ASSUME Inv, NEW t \in Threads, Complete(t) PROVE Inv'
  <1>1. /\ pc[t] = "finish" /\ pc' = [pc EXCEPT ![t] = "idle"]
        /\ serving' = serving \ {job[t]}
        /\ job' = [job EXCEPT ![t] = NoJob]
        /\ loaded' = [loaded EXCEPT ![t] = "absent"]
        /\ deliver' = [deliver EXCEPT ![t] = FALSE]
        /\ targets' = [targets EXCEPT ![t] = {}]
        /\ UNCHANGED <<database, txn, waiting, reparsing, route, history, bounds>>
    BY DEF Complete, Goto
  <1>2. "idle" \in HandlerPc /\ "absent" \in Statuses
    BY DEF HandlerPc, Statuses
  <1>3. /\ \A u \in Threads : pc'[u] = IF u = t THEN "idle" ELSE pc[u]
        /\ \A u \in Threads : job'[u] = IF u = t THEN NoJob ELSE job[u]
        /\ \A u \in Threads : loaded'[u] = IF u = t THEN "absent" ELSE loaded[u]
        /\ \A u \in Threads : targets'[u] = IF u = t THEN {} ELSE targets[u]
    BY <1>1 DEF Inv, TypeOK
  <1>4. deliver' \in [Threads -> BOOLEAN] /\ targets' \in [Threads -> SUBSET Destinations]
    BY <1>1 DEF Inv, TypeOK
  <1>5. TypeOK'
    BY <1>1, <1>2, <1>4 DEF Inv, TypeOK
  <1>6. JobsApart'
    <2>1. \A u \in Threads : job'[u] = NoJob <=> pc'[u] = "idle"
      BY <1>1, <1>3 DEF Inv, JobsApart
    <2>2. \A u \in Threads \ {t} : pc[u] # "idle" => job[u] \in serving /\ job[u] # job[t]
      BY DEF Inv, JobsApart
    <2>3. \A u \in Threads : pc'[u] # "idle" => job'[u] \in serving'
      BY <1>1, <1>3, <2>2
    <2>4. \A u, v \in Threads : pc'[u] # "idle" /\ job'[u] = job'[v] => u = v
      <3> SUFFICES ASSUME NEW u \in Threads, NEW v \in Threads, pc'[u] # "idle", job'[u] = job'[v]
                   PROVE  u = v
        OBVIOUS
      <3>1. pc'[v] # "idle"
        BY <2>1
      <3>2. u # t /\ v # t
        BY <1>3, <3>1
      <3> QED  BY <1>3, <3>2 DEF Inv, JobsApart
    <2>5. waiting' \cap serving' = {}
      BY <1>1 DEF Inv, JobsApart
    <2> QED  BY <2>1, <2>3, <2>4, <2>5 DEF JobsApart
  <1>7. PlaceFitsTask'
    BY <1>3 DEF Inv, PlaceFitsTask, Task
  <1>8. \A f \in Filings : (Queued(f)' <=> Queued(f)) /\ (Handled(f)' <=> Handled(f))
    <2> SUFFICES ASSUME NEW f \in Filings
                 PROVE  (Queued(f)' <=> Queued(f)) /\ (Handled(f)' <=> Handled(f))
      OBVIOUS
    <2>1. Queued(f)' <=> Queued(f)
      BY <1>1 DEF Queued, Reparse
    <2>2. PICK j : j = Reparse(f) /\ j = Reparse(f)' /\ j # NoJob
      BY ReparseJobs DEF Reparse
    <2>3. Handled(f) <=> \E u \in Threads : job[u] = j /\ pc[u] # "finish"
      BY <2>2 DEF Handled
    <2>4. Handled(f)' <=> \E u \in Threads : job'[u] = j /\ pc'[u] # "finish"
      BY <2>2 DEF Handled
    <2>5. \A u \in Threads : (job'[u] = j /\ pc'[u] # "finish") <=> (job[u] = j /\ pc[u] # "finish")
      BY <1>1, <1>3, <2>2
    <2> QED  BY <2>1, <2>3, <2>4, <2>5
  <1>9. RunKeyHasOneCarrier'
    BY <1>1, <1>8 DEF Inv, RunKeyHasOneCarrier
  <1>10. txn.owner # t
    BY <1>1 DEF Inv, DraftFits, Writing
  <1>11. Stored'
    <2>1. loaded'[t] # "success"
      BY <1>3
    <2>2. \A u \in Threads \ {t} :
             job'[u] = job[u] /\ loaded'[u] = loaded[u] /\ targets'[u] = targets[u]
      BY <1>3
    <2>3. UNCHANGED <<filings, alerts, txn, received, redirected, cut>>
      BY <1>1
    <2>4. pc' = [pc EXCEPT ![t] = "idle"]
      BY <1>1
    <2> QED  BY <1>2, <1>10, <2>1, <2>2, <2>3, <2>4, WithoutTransaction
  <1> QED  BY <1>5, <1>6, <1>7, <1>9, <1>11 DEF Inv, Stored

\* A crash between a send and its commit takes the record of the send with it:
\* this is where a destination's second message comes from.
LEMMA CrashKeeps == ASSUME Inv, Crash PROVE Inv'
  <1> DEFINE lost(f) == \E t \in Threads :
                          /\ txn.owner = t /\ Filing(t) = f
                          /\ pc[t] \in {"send", "commit"}
                          /\ \E i \in DOMAIN txn.alerts, d \in Destinations :
                               txn.alerts[i].attempts[d] # "none"
  <1>1. /\ txn' = NoTxn
        /\ waiting' = {} /\ serving' = {} /\ reparsing' = {}
        /\ route' = NoFiling
        /\ pc' = [t \in Threads |-> "idle"]
        /\ job' = [t \in Threads |-> NoJob]
        /\ loaded' = [t \in Threads |-> "absent"]
        /\ deliver' = [t \in Threads |-> FALSE]
        /\ targets' = [t \in Threads |-> {}]
        /\ UNCHANGED <<database, received, redirected, requests>>
    BY DEF Crash
  <1>2. cut' = [f \in Filings |-> IF lost(f) THEN cut[f] + 1 ELSE cut[f]]
    BY DEF Crash
  <1>3. crashes' = crashes + 1 /\ crashes < MaxCrashes
    BY DEF Crash
  <1>4. TypeOK'
    <2>1. crashes' \in 0..MaxCrashes
      BY <1>3, PipelineAssumption DEF Inv, TypeOK
    <2>2. cut' \in [Filings -> Nat]
      BY <1>2 DEF Inv, TypeOK
    <2>3. "idle" \in HandlerPc /\ NoTxn \in [owner : Threads \cup {Nobody}, status : Statuses,
                                          alerts : Seq(Alert)] /\ "absent" \in Statuses
      BY DEF HandlerPc, NoTxn, Statuses
    <2>4. /\ pc' \in [Threads -> HandlerPc] /\ job' \in [Threads -> Jobs \cup {NoJob}]
          /\ loaded' \in [Threads -> Statuses] /\ deliver' \in [Threads -> BOOLEAN]
          /\ targets' \in [Threads -> SUBSET Destinations]
      BY <1>1, <2>3
    <2> QED  BY <1>1, <2>1, <2>2, <2>3, <2>4 DEF Inv, TypeOK
  <1>5. \A t \in Threads : /\ pc'[t] = "idle" /\ job'[t] = NoJob /\ loaded'[t] = "absent"
                           /\ txn'.owner # t
    BY <1>1, PipelineAssumption DEF NoTxn
  <1>6. JobsApart' /\ PlaceFitsTask'
    BY <1>1, <1>5 DEF JobsApart, PlaceFitsTask
  <1>7. RunKeyHasOneCarrier'
    <2>1. \A f \in Filings : ~Queued(f)' /\ ~Handled(f)' /\ f # NoFiling
      BY <1>1, <1>5, ReparseJobs, PipelineAssumption DEF Queued, Handled, Reparse
    <2> QED  BY <1>1, <2>1 DEF RunKeyHasOneCarrier
  <1>8. DraftFits' /\ AlertIsGuarded' /\ DraftTellsWhatWasSent'
    BY <1>5 DEF DraftFits, AlertIsGuarded, DraftTellsWhatWasSent
  <1>9. ProcessedFilingHasAlert' /\ AlertTellsWhatWasSent'
    BY <1>1 DEF Inv, ProcessedFilingHasAlert, AlertTellsWhatWasSent, TellsWhatWasSent
  <1>10. SendsAreAccountedFor'
    <2> SUFFICES ASSUME NEW f \in Filings, NEW d \in Destinations
                 PROVE  /\ received[f][d] <= 1 + cut'[f]
                        /\ alerts[f] = <<>> => received[f][d] <= cut'[f]
      BY <1>1 DEF SendsAreAccountedFor
    <2>1. /\ received[f][d] <= 1 + cut[f]
          /\ alerts[f] = <<>> /\ ~Tried(f, d) => received[f][d] <= cut[f]
          /\ received[f][d] \in Nat /\ cut[f] \in Nat
      BY DEF Inv, SendsAreAccountedFor, TypeOK
    <2>2. Tried(f, d) => lost(f)
      <3> SUFFICES ASSUME NEW t \in Threads, txn.owner = t, Filing(t) = f,
                          pc[t] \in {"send", "commit"}, txn.alerts[1].attempts[d] # "none"
                   PROVE  lost(f)
        BY DEF Tried
      <3>1. txn.alerts \in Seq(Alert) /\ (Len(txn.alerts) = 1 \/ txn.alerts # <<>>)
        BY DEF Inv, TypeOK, DraftFits
      <3>2. 1 \in DOMAIN txn.alerts
        BY <3>1
      <3> QED  BY <3>2
    <2>3. cut'[f] = IF lost(f) THEN cut[f] + 1 ELSE cut[f]
      BY <1>2
    <2> HIDE DEF lost
    <2> QED  BY <2>1, <2>2, <2>3
  <1> QED  BY <1>4, <1>6, <1>7, <1>8, <1>9, <1>10 DEF Inv

-----------------------------------------------------------------------------
(* The invariant.                                                          *)

\* At the start no thread has a job; an 8-K may be registered.
LEMMA InitInv == Init => Inv
  <1> SUFFICES ASSUME Init PROVE Inv
    OBVIOUS
  <1>1. TypeOK
    <2>1. /\ "idle" \in HandlerPc /\ {"absent", "pending"} \subseteq Statuses
          /\ 0 \in 0..MaxRequests /\ 0 \in 0..MaxCrashes
          /\ NoTxn \in [owner : Threads \cup {Nobody}, status : Statuses, alerts : Seq(Alert)]
      BY PipelineAssumption DEF HandlerPc, Statuses, NoTxn
    <2> QED  BY <2>1 DEF Init, TypeOK
  <1>2. \A t \in Threads : /\ pc[t] = "idle" /\ job[t] = NoJob /\ loaded[t] = "absent"
                           /\ txn.owner # t
    BY PipelineAssumption DEF Init, NoTxn
  <1>3. JobsApart /\ PlaceFitsTask
    BY <1>2 DEF Init, JobsApart, PlaceFitsTask
  <1>4. RunKeyHasOneCarrier
    <2>1. \A f \in Filings : ~Queued(f) /\ ~Handled(f) /\ route # f
      BY <1>2, ReparseJobs, PipelineAssumption DEF Init, Queued, Handled
    <2> QED  BY <2>1 DEF Init, RunKeyHasOneCarrier
  <1>5. DraftFits /\ AlertIsGuarded /\ DraftTellsWhatWasSent
    BY <1>2 DEF DraftFits, AlertIsGuarded, DraftTellsWhatWasSent
  <1>6. ProcessedFilingHasAlert /\ AlertTellsWhatWasSent
    BY DEF Init, ProcessedFilingHasAlert, AlertTellsWhatWasSent
  <1>7. SendsAreAccountedFor
    BY DEF Init, SendsAreAccountedFor
  <1> QED  BY <1>1, <1>3, <1>4, <1>5, <1>6, <1>7 DEF Inv

\* Every step keeps the invariant.
LEMMA StepInv == Inv /\ [Next]_vars => Inv'
  <1> SUFFICES ASSUME Inv, [Next]_vars PROVE Inv'
    OBVIOUS
  <1>1. ASSUME NEW f \in Filings, Discover(f) \/ RouteReparse(f) PROVE Inv'
    BY <1>1, DiscoverKeeps, RouteReparseKeeps
  <1>2. ASSUME NEW d \in Destinations, SaveDestination(d) PROVE Inv'
    BY <1>2, SaveDestinationKeeps
  <1>3. CASE RouteEnqueue
    BY <1>3, RouteEnqueueKeeps
  <1>4. CASE Crash
    BY <1>4, CrashKeeps
  <1>5. ASSUME NEW t \in Threads, Serve(t) PROVE Inv'
    BY <1>5, ServeKeeps
  <1>6. ASSUME NEW t \in Threads, Handler(t) PROVE Inv'
    <2>1. CASE Quiet(t)
      BY <2>1, QuietKeeps
    <2>2. CASE Register(t) \/ Load8K(t) \/ MissingXml(t) \/ FindForm4(t)
      BY <2>2, LoadKeeps
    <2>3. CASE Upsert8K(t) \/ StoreFailed(t) \/ MarkFailed(t)
      BY <2>3, Upsert8KKeeps, FailedKeeps
    <2>4. CASE UpsertForm4(t) \/ Flush(t) \/ InsertAlert(t)
      BY <2>4, UpsertForm4Keeps, FlushKeeps, InsertAlertKeeps
    <2>5. CASE Choose(t) \/ Send(t) \/ Aggregate(t)
      BY <2>5, ChooseKeeps, SendKeeps, AggregateKeeps
    <2>6. CASE Commit(t) \/ TimesOut(t)
      BY <2>6, CommitKeeps, TimesOutKeeps
    <2>7. CASE EnqueueProcess(t) \/ FinishRun(t) \/ Complete(t)
      BY <2>7, EnqueueProcessKeeps, FinishRunKeeps, CompleteKeeps
    <2> QED  BY <1>6, <2>1, <2>2, <2>3, <2>4, <2>5, <2>6, <2>7 DEF Handler, Quiet
  <1>7. CASE UNCHANGED vars
    <2>1. UNCHANGED <<queueVars, route, filings, alerts, enabled, txn, threadVars, history, bounds>>
      BY <1>7 DEF vars
    <2>2. TypeOK'
      BY <2>1 DEF Inv, TypeOK
    <2>3. JobsApart' /\ RunKeyHasOneCarrier'
      BY <2>1 DEF Inv, JobsApart, RunKeyHasOneCarrier, Queued, Handled
    <2>4. Stored' /\ PlaceFitsTask'
      BY <2>1, OthersKeep
    <2> QED  BY <2>2, <2>3, <2>4 DEF Inv, Stored
  <1> QED  BY <1>1, <1>2, <1>3, <1>4, <1>5, <1>6, <1>7 DEF Next, Outside

\* The inductive invariant: jobs and run keys, the open transaction, and what
\* is committed and sent, whatever threads, requests, time-outs and crashes do.
THEOREM Invariance == Spec => []Inv
  BY InitInv, StepInv, PTL DEF Spec

\* Every variable keeps its type.
THEOREM TypeCorrect == Spec => []TypeOK
  BY Invariance, PTL DEF Inv

\* A destination gets the alert of a filing once, and once more only for a
\* crash between a send and its commit: _ensure_alert() sends in the
\* transaction that inserted the alert, and the flush before it keeps every
\* other thread from inserting one.
THEOREM SentOnce == Spec => []SentOncePerDestination
  <1>1. SendsAreAccountedFor => SentOncePerDestination
    BY DEF SendsAreAccountedFor, SentOncePerDestination
  <1> QED  BY <1>1, Invariance, PTL DEF Inv

\* The status of a stored alert is what its attempts add up to, and one that says
\* sent stands for a message that arrived, or that Slack answered with a redirect.
THEOREM AlertsAreTruthful == Spec => []AlertTellsWhatWasSent
  BY Invariance, PTL DEF Inv

\* No filing is stored as processed without its alert.
THEOREM ProcessedIsAlerted == Spec => []ProcessedFilingHasAlert
  BY Invariance, PTL DEF Inv

\* The run key of a reparse is taken while exactly one request, job or handler
\* answers for it, and free otherwise.
THEOREM RunKeysAreExact == Spec => []ReparseKeyMatchesOneJob
  <1>1. Inv => ReparseKeyMatchesOneJob
    <2> SUFFICES ASSUME Inv, NEW f \in Filings
                 PROVE  LET handlers == {t \in Threads : job[t] = Reparse(f) /\ pc[t] # "finish"}
                        IN  Cardinality(handlers) + (IF Queued(f) THEN 1 ELSE 0)
                                                  + (IF route = f THEN 1 ELSE 0)
                              = IF f \in reparsing THEN 1 ELSE 0
      BY DEF ReparseKeyMatchesOneJob, Reparse, Queued
    <2> DEFINE handlers == {t \in Threads : job[t] = Reparse(f) /\ pc[t] # "finish"}
    <2>1. /\ f \in reparsing <=> Queued(f) \/ Handled(f) \/ route = f
          /\ route = f => ~Queued(f) /\ ~Handled(f)
      BY DEF Inv, RunKeyHasOneCarrier
    <2>2. \A t \in handlers : pc[t] # "idle" /\ job[t] \in serving
      BY ReparseJobs DEF Inv, JobsApart
    <2>3. Handled(f) => ~Queued(f)
      BY <2>2 DEF Handled, Queued, Inv, JobsApart
    <2>4. Cardinality(handlers) = IF Handled(f) THEN 1 ELSE 0
      <3>1. CASE Handled(f)
        <4>1. PICK t \in handlers : TRUE
          BY <3>1 DEF Handled
        <4>2. handlers = {t}
          BY <2>2, <4>1 DEF Inv, JobsApart
        <4> HIDE DEF handlers
        <4> QED  BY <3>1, <4>2, FS_Singleton
      <3>2. CASE ~Handled(f)
        <4>1. handlers = {}
          BY <3>2 DEF Handled
        <4> QED  BY <3>2, <4>1, FS_EmptySet
      <3> QED  BY <3>1, <3>2
    <2> HIDE DEF handlers
    <2>5. Cardinality(handlers) + (IF Queued(f) THEN 1 ELSE 0) + (IF route = f THEN 1 ELSE 0)
            = IF f \in reparsing THEN 1 ELSE 0
      BY <2>1, <2>3, <2>4
    <2> QED  BY <2>5 DEF handlers
  <1> QED  BY <1>1, Invariance, PTL

\* Only a commit changes the alerts of a filing, and it adds the one alert of a
\* filing that had none.
LEMMA OnlyCommitWritesAlerts ==
    ASSUME Inv, [Next]_vars, NEW f \in Filings, alerts'[f] # alerts[f]
    PROVE  alerts[f] = <<>> /\ Len(alerts'[f]) = 1
  <1>1. alerts' # alerts
    OBVIOUS
  <1>2. PICK t \in Threads : Handler(t)
    BY <1>1 DEF Next, Outside, Discover, RouteReparse, SaveDestination, RouteEnqueue, Crash,
                Serve, vars
  <1>3. ~Quiet(t)
    BY <1>1, QuietMoves DEF Internal
  <1>4. Commit(t)
    BY <1>1, <1>2, <1>3 DEF Handler, Quiet, Register, Load8K, MissingXml, FindForm4, Load,
          Internal, Upsert8K, StoreFailed, MarkFailed, UpsertForm4, Flush, InsertAlert, Choose,
          Send, Aggregate, TimesOut, EnqueueProcess, FinishRun, Complete
  <1>5. txn.owner = t /\ pc[t] = "commit" /\ alerts' = [alerts EXCEPT ![Filing(t)] = txn.alerts]
    BY <1>1, <1>4 DEF Commit, Goto
  <1>6. f = Filing(t) /\ alerts'[f] = txn.alerts
    BY <1>5 DEF Inv, TypeOK
  <1> QED  BY <1>5, <1>6 DEF Inv, DraftFits

\* A filing's alert is written once, with all its attempts, and neither changed
\* nor joined by a second one.
THEOREM AlertWrittenOnce == Spec => AlertIsWrittenOnce
  <1>1. Inv /\ [Next]_vars =>
           [\A f \in Filings :
              alerts'[f] # alerts[f] => alerts[f] = <<>> /\ Len(alerts'[f]) = 1]_vars
    BY OnlyCommitWritesAlerts
  <1> QED  BY <1>1, Invariance, PTL DEF Spec, AlertIsWrittenOnce
=============================================================================
