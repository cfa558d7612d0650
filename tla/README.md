# SEC Alert Self-Hosted: TLA+ models and proofs

This directory holds a formal model of the application under `src/app`: TLA+
modules translated from the Python source, TLC configurations that check them on
small instances, and TLAPS proofs of theorems about them for every instance.
`PROJECT.json` maps each definition to its source lines, lists the runs, the
faulty variants each property is tested against, the hazards, the theorems and
the findings.

## The system

One process watches a list of issuers, polls the SEC for 8-K and Form 4 filings,
scores and summarises each filing, and sends an alert per filing to Slack, a
webhook and SMTP. It is a FastAPI application with one SQLite database (WAL,
`busy_timeout` 5 s), one in-memory job broker, one worker thread, and APScheduler
threads. Web handlers are `async` functions that never await between their
database calls, so they run one at a time on the event loop, next to the worker
and the scheduler.

| Component | State | Operations | Talks to |
| --- | --- | --- | --- |
| Broker (`services/broker.py`) | heap, queued keys, in-flight keys, sequence, active runs, token bucket, counters | enqueue, pop_next, complete, has_queued_higher_priority_than, start_run, finish_run, can_issue_request, mark_source_success, record_http_status, snapshot | everyone, under one lock |
| Worker (`services/worker.py`) | thread, stop event, idle event, active key | start, shutdown, the loop, wait_for_idle, snapshot | pops from the broker, calls handlers |
| Handlers (`main.py`) | none | one per task name; take and give back run keys | worker -> services |
| 8-K ingest (`services/ingest.py` 392-782) | filings, alerts, cursors in the database | manual ingest, live poll, register, process, reparse | SEC client, broker, delivery |
| Form 4 ingest (785-1397) | the same tables | manual ingest, live page, process accession, reparse | the same |
| Recovery (1400-1820) | run rows; chains of jobs in the broker | repair, backfill, chunk | broker, both ingest services |
| Alert delivery (`services/alerts.py`) | alerts, attempts, destinations | ensure_alert, deliver_alert_once, aggregate status, test message | notifiers |
| SEC client (`services/sec/client.py`) | none; its budget is in the broker | get_text, get_json with up to three attempts | broker |
| Scheduler (`services/scheduler.py`) | started, last enqueued | three periodic enqueues | broker |
| Routes (`web/`) | none | start runs; create, toggle, delete entries; reparse; edit destinations | database, broker |
| Process lock, lifespan (`locks.py`, `main.py`) | lock file handle | acquire, start, shutdown, release | worker, scheduler |
| Database (`db.py`) | engine, session factory; main file, write-ahead log | connect, transactions, dispose | everyone |
| Release tools (`cli/release.py`, `release.py`) | archives, safety copies | backup, restore, diagnostics | database files, settings |
| Notifiers (`services/notify/`) | none | check the settings, one HTTP post or one SMTP dialogue | alert delivery |
| Pages (`routes_dashboard.py`) | none | which issues are current, recovered, historical; health of Form 4 | database |
| Parsers, scorers, summaries | none | pure functions (and one HTTP call to OpenAI) | ingest |

What is hard here: memory (keys, runs, queue) and database (run rows, filings,
alerts) are updated by several steps of two threads and a crash can fall between
any two of them; a run is a chain of jobs that hands a key from one to the next;
SQLite's single write lock couples a slow delivery to a web request; decisions
are made on values (run keys, cursors, "alert exists") that another actor may
have changed since. `PROJECT.json` lists these hazards line by line.

Per component, correctness means:

* Broker and worker: a key is refused exactly while a job with it lives; a job is
  served once, in priority order, first come first served; every accepted job is
  handled; `wait_for_idle` does not answer True too early.
* Recovery: a run key has exactly one carrier until it is given back; a run that
  completes took every row once; P1 work waits for one row at most, but at a repair's
  end; the run's row tells how it went; an enabled entry gets its backfill.
* Filings and alerts: one alert per filing; a processed filing has an alert; an
  alert is sent once per destination unless the process dies; its status says
  what happened.
* Discovery: every filing the SEC lists and the polls look for is registered, or the
  gap is on record.
* SEC client: over no stretch of time more requests than the budget; every
  request is answered or fails.
* Form 4 and 8-K reading: each address where the document may be is tried; what
  is read of a row is what stands in it, footnotes and the 10b5-1 plan included;
  a score follows from the report and from nothing else.
* Notifiers: the record of a send tells what became of it; the SMTP password goes
  out over TLS or to this host only; the settings pages say "configured" of what
  can be sent.
* Issues page: an error is called recovered on account of what was stored after
  it; a rewrite stands beside the summary it was made from.
* Installation: one process at work at a time, nothing committed is lost over
  kills, handlers that outlive a shutdown, backups and restores.

## Modules

`Broker` is the queue as a library of atomic actions (each method holds the
broker's lock throughout). The heap is a set of jobs with the dataclass order:
`PopNext` takes its least element. The task name and the payload of a job are one
value. Modules that put threads around the broker EXTEND it.

`BrokerWorker` adds the worker threads and the main thread, one action per access
to a shared object. `shutdown()` joins for two seconds at most, so a thread may
outlive it and run next to the thread of a later `start()`; `Threads` has one
element per `start()`. `Submit` stands for every caller of `enqueue()`.
`WaitForIdle` adds a caller of `wait_for_idle()` with its three separate reads.
`JobQueue` is the abstract promise, three first-come-first-served lines, and
`BrokerRefinement` maps the broker's sets to it: line `p` is the sequence of
queued jobs of priority `p` in the order of their sequence numbers.

`RecoveryRuns` puts `RecoveryService`, its handlers, the routes and the scheduler
job that start runs, and the watchlist around `Broker`. The web request in
progress has a program counter (`start`, `insert`, `enqueue`, `commit`, or
`undo`, `delete`), the worker another one. An `IngestRun` row that is inserted
but not committed is `"open"`: only its own transaction sees it. SQLite's write
lock is the guard `~RouteWrites` or `~WorkerWrites` of each write. P1 work is one
job that processes a filing and holds the write lock while it delivers.
History variables (`seen`, `steady`, `owed`, `overtaken`, `stranded`) record what
the properties speak of and are never read by a guard of the code's actions.
The rows of an index that pass the filter are the set of their positions; `Place`
counts those before a row, so the slice of a chunk is the rows whose places are
`offset` to `offset + P3_CHUNK_SIZE - 1`. A repair without days left takes a second
look at the failed Form 4 filings (`Revalidate`): one after the other is processed, and
perhaps delivered, in the job of the chunk, without a look at the queue. Which filings
these are is in `Issues`; here it is a number of up to `MaxFailed`.

`FilingPipeline` processes filings on two handler threads (two workers after a
shutdown that timed out): `register_discovered_filing`, `_process_filing_id`,
`process_accession` and both reparses over the tables of filings, alerts and
attempts, transaction by transaction. `txn` is the open write transaction with
its uncommitted rows; SQLite has one write lock, taken at the first flush, so a
thread that wants to write while another's `txn` is open is `Blocked` until it
commits or the `busy_timeout` ends in `TimesOut`. The optional rewrite, whose
failure is recorded in a second session, parse errors, destinations that come and
go, failing sends, the reparse request and a crash are actions of their own. Slack's
result "sent" goes with an arrival or with a redirect (`redirected`), by which nothing
has arrived.
A manual run is seen as one job per candidate.

`SecBudget` is the token bucket and the three attempts of `_request()`. Time is
in ticks, and tokens are counted in a unit that makes each number natural,
whatever the rate. A history variable looks at a window of time that may begin
anywhere and counts the requests that leave in it. Not in it: how long a retry
sleeps, redirects, the counters of 403 and 429 answers.

`LivePoll` is the poll of one issuer's 8-K filings, a step per transaction, with
the jobs that process what it registers, manual ingest, repair, failures and
crashes around it. Filings are numbered in the order of `cursor_tuple()`, in
which the SEC lists them; one worker thread runs everything. `cursor = 0` is a
cursor row that has no filing yet, `NoCursor` no row. `NotLookedFor` is what the code
never promises to find: rows behind the window of the issuer's first poll (`older`) and,
if that poll failed before it left a cursor, rows behind the window of the one that began
anew (`forgotten`).

`OwnershipFeed` is the discovery of Form 4 filings of all issuers from one page of
the SEC's feed: live poll, manual ingest and repair put jobs in one line, and the
jobs move the cursor of their source. `Dated` is the set of filings whose row in the
feed tells when they were accepted; a row without it sorts before all others, as in
`OwnershipCandidate.cursor_tuple()`. What a job writes into the cursor is another time,
that of the detail page (`ConfirmedKeys`): it is read as UTC and so may lie up to `MaxLag`
filings before the feed's, and the row's own time stands where the page has none. Manual
ingest gives up at `StopAfter` older rows in a row. `Placed` is the set of rows that a
cursor can place: those with a time that do not come behind `StopAfter` without one.

`Form4Reading` is how one Form 4 is read: the documents of its detail page, the
order of the candidates for its XML and the error that is left when none will do,
the footnotes of a row, the plan, the score and what the summary says of them.
`EightKReading` is the same for an 8-K: which document of the page is the report, and
the score of its items and phrases. Both take texts as members of small sets: a
document knows whether its name ends in `.xml`, a phrase stands for its category. The
order in which the passes of `ordered_ownership_xml_candidates()` take documents is a
relation, `Ahead`; of the documents with one URL the first in it is `Chosen`, and its
`Rank` among the chosen ones is its place. The score of an 8-K is a sum written out
over the six items and eleven categories that score, without a fold, so that proofs
can reason about it.

`Channels` is one message over one channel: what the settings must hold, the HTTP post
or the SMTP dialogue step by step (smtplib and the servers are external), the result,
the attempts on record, and what `is_configured()` and the diagnostics say of the same
settings. `FilingPipeline` takes the result of a send as a choice; `Channels` says
which choices there are. A webhook's URL is what the two that look at it see
(`WebhookForms`): the scheme and the host that `urlparse()` finds, in any letters and
behind any user, and how the text begins, which is all the diagnostics look at. A URL that
`urlparse()` cannot take apart is left out.

`Issues` is the record of one watched Form 4 over time: processed, reparsed,
revalidated, rewritten, cleared, failed, with the transactions apart where a handler
can die between them. The clock ticks whenever something may be written; a row that
SQLAlchemy finds unchanged keeps its `updated_at`. `parsed`, `succeeded` and `cleared` are history;
the page's own judgement is `IssueState` and `Health`.

`Installation` is the processes over one data directory: the lock file, the lifespan's
start and shutdown, a handler that may outlive both, the database as a main file of
pages and a log of newer ones, kills, checkpoints, and the release tool. SQLite is
external: its last connection moves the log into the main file, and a log is read over
whatever main file it lies beside. `latest`, `overwritten` and `mixed` are history.

The proofs about `M` are in `MProofs`; those about `WaitForIdle` and the refinement to
`JobQueue` are in `BrokerWorkerProofs`, and those about `Channels`, `Issues`,
`Form4Reading` and `EightKReading` in `RulesProofs`. The `MC*` modules hold the values of the
constants; modules whose constants are numbers and sets of model values need none.

## Runs

Each component whose steps interleave has one passing run, for safety and liveness
together; a property of a document or a message that the code does not keep has a run
that finds it violated. The parts that decide about one filing, one message or one
answer at a time share the run `rules`: `MCRules` gives each behaviour to one of them
and leaves the others as they are, so that no state of one multiplies those of another.
In the same way `MCBroker` gives a behaviour to the broker's queue or to its token bucket,
which share no state.

| Run | Checks | Shows |
| --- | --- | --- |
| `broker` | TypeOK, KeysOfLiveJobs, OneLiveJobPerKey, ActiveKeyIsReal, ImplementsJobQueue, EveryKeyIsFreed, BudgetTypeOK, RequestsWithinRate, AcceptedRateServes | two threads, three keys, four accepted jobs: keys and jobs agree at every interleaving, the queue behaves like `JobQueue`, and an accepted job is handled and its key freed; two callers, a rate that is not a whole number: the budget holds over each window, and polling the bucket starves nobody but in favour of another |
| `recovery` | TypeOK, RunKeyMatchesOneChain, CompletedRunCoversEveryRow, YieldToUrgentWork, RunStatusOnlyAdvances, EveryRunKeyIsReleased | repair, backfill, scheduler, P1 work, deletes, the second look at failed filings and a crash interleaved over two days of the index |
| `filing` | TypeOK, SentOncePerDestination, AlertTellsWhatWasSent, ProcessedFilingHasAlert, ReparseKeyMatchesOneJob, AlertIsWrittenOnce, HandlersEnd | one 8-K and one Form 4 through polls, reparses, time-outs and a crash on two threads: an alert is written once and sent once per destination unless the process dies; what says sent arrived or was redirected; every handler ends, also one that waits for its own lock |
| `live_poll` | TypeOK, CursorPassesNothing, GapIsOnRecord, NoFilingIsLeft | the cursor passes no filing that is looked for and not registered; what fell out of the window is reported; each listed filing is registered, reported or not looked for; one whose job failed behind the cursor is processed when repair comes to it |
| `ownership_feed` | PagedRowsAreAccountedFor, PagedRowsAreSettled | no row that a cursor can place is lost between two cursors and a line of jobs, short of a crash; what the polls pass by, for the want of a time or because its job died, is settled when repair comes to it |
| `installation` | NothingCommittedIsLost, LockIsHeldByOneAtWork, StopEnds | two processes, a handler that outlives its process's shutdown, kills, checkpoints, backups and restores: readers see what the last commit or the restored backup left, one process is at work, and one that is stopped ends |
| `rules` | EveryCandidateIsTried, Form4IsReadRight, EightKIsJudgedByItsReport, CredentialsAreProtected, RecordTellsTheExchange, SettingsTellWhatIsSent, IssuesPageTellsTheRecord, RewriteFitsTheParse, IdleMeansHandled | the readers of both forms, one message per channel, the record of one Form 4 over time, and `wait_for_idle()` with its three reads |
| `backfill_on_enable` | EnabledEntriesAreBackfilled (violated) | finding 1 |
| `leaked_run_key` | RefusedOnlyWhileQueued (violated) | finding 2 |
| `rewrite_failure` | RewriteFailureFallsBack (violated) | finding 3 |
| `restore_safety_copy` | SafetyCopyHoldsOverwrittenData (violated) | finding 4 |
| `recovered_issue` | RecoveredMeansParsed (violated) | finding 5 |

The type invariants of `Installation`, `OwnershipFeed` and the parts of `rules` are not
among the runs' properties: those of the first two are proved, and a wrong type in the
others shows as a violated property or an error of evaluation.

Bounds. `MaxSequence` and `MaxRequests` bound the jobs accepted and the requests
made; `MaxStarts` the threads; `MaxCrashes` the crashes. Two threads are the
smallest number that can interfere; three keys and four jobs let a key be
accepted again while both other priorities wait. Two index days of which the
first has three rows, with a chunk of two, give a chunk end, a day end, an early
yield and a successor of each kind; the interference of two chains needs one
entry's backfill and a repair. Two requests beside the
scheduler's let a route meet a chain at each of its steps; the findings need three
at most. `MaxFailed` is two, so that a repair's second look has a filing after the one
during which urgent work arrives.

The filing runs have two threads, two channels (destinations are symmetric) and
one filing of each form: threads meet on one filing or on the write lock, and no
code relates two filings of one form. The 8-K may be registered and unprocessed at
the start, as an earlier process may leave it; with that, two requests reach a
reparse that the queue refuses. The bucket's rate of 3/2 per second with
four ticks to the second makes fractions of tokens and full buckets both occur
within `MaxWindow`. `LivePoll` scales the overlap window from 5 to 100 rows down
to two, and with four filings it can be overrun, and left behind by a second window;
`OwnershipFeed` scales the page from 40 rows to two, of three filings, of which the one in
the middle has no time, the lag of the detail page to one filing, and the ten older rows of
a manual ingest to two. On a page of two rows nothing lies behind such a stop: that it
takes no placed row away on larger ones is in the theorem, which holds for all sizes. `MaxFaults` counts failing jobs and
crashes together.

`Installation` has two processes, so that the second can start beside what is left of
the first; two pages and two transactions, so that a transaction may change a part of
the database and main file and log may differ in each page; two backups, so that one can
be made after a restore of the other; and one kill. In `rules`, lists have two members
of each kind (candidates, transactions, items, phrase categories): enough for an order,
for one that masks the other, and for the first to fail. `Issues` has two texts a
parse can come to, and a clock of eight ticks, on which an error can leave the issue
window (2) while the filing is still revalidated (4), and leave that too.

`CHECK_DEADLOCK FALSE`: with the bounds used up and the queue empty, after the
last `shutdown()` or exit, and when a filing is read or a message sent, the modelled
part stops, as the real one does.

Fairness. `broker` assumes that a worker thread which can take a step
takes one (it is a running OS thread, and every handler ends, because its HTTP
and SMTP calls have timeouts). `recovery` assumes the same of the worker
and of a request that has begun; the run keys of requests that timed out are
excepted (finding 2). Nothing is assumed of users, the scheduler or `start()`.
`filing` assumes that
each thread's handler goes on: sends, SEC requests and waits for the lock all have
timeouts. For the bucket, `broker` assumes that the clock and the threads go on; one caller
may in theory take every token from another, so the property speaks of some
request that is let through. `LivePoll`'s `FairSpec` assumes
that the issuer is polled again and again, which the scheduler's interval job
does while the entry is enabled, and nothing about SEC, jobs or repair; for one filing
after the other, NoFilingIsLeft takes as a premise that repair comes to its row, and its
job to success, again and again if they can (strong fairness of `Repair` and `Process`):
what is shown is that the steps between lead there, whatever else fails.
`OwnershipFeed`'s assumes that poll and job go on to their end, and, by strong
fairness of `Begin`, that manual runs and repairs do not keep the worker from its
jobs for ever: people start the former, and the latter yield to jobs by priority.
`installation` assumes that the main thread of a process that has been told to stop goes
on, since `join()` has a limit and what follows waits for nobody; nothing is assumed of
the handler. `rules` has safety properties only.

## Proofs

Each safety property of a passing run, invariant or action property, is a theorem for
every value of the constants that the modules' assumptions allow; so is the refinement
to `JobQueue`.

`BrokerWorkerProofs`: with any constants that satisfy `WorkerAssumption`, any
number of threads and any number of jobs,

* `TypeCorrect`, `NoKeyIsLeaked`, `Coalescing` from the inductive invariant `Inv`
  (theorem `Invariance`). KeysOfLiveJobs alone is not inductive: that `complete`
  removes exactly the key of the job leaving a thread needs that no other live
  job has that key, and that a new job differs from all others needs that all
  sequence numbers in use are at most `_sequence`.
* `ActiveKeyTruthful`: from `Inv`; a thread sets the active key while it holds the
  job and resets it before it lets go.
* `WaitForIdleSound`. The invariant says, for each point the caller has reached, what
  can still be unhandled given what it has read so far: after an empty backlog only
  jobs accepted later, or a job in the hands of the one thread, and then the event is
  clear until that job is done.
* `Refinement`: each step of broker and worker is one of `JobQueue` or leaves its
  variables alone. The line of a priority is defined by where each job stands among
  its peers (`Place`), so the proof first shows that the places of any finite set of
  jobs with distinct sequence numbers are exactly 1 to its size (`HeapIsLined`); then
  that an accepted job, which has the highest number, joins at the end, that the least
  one leaves at the front and all others move up, and that the other lines stay.

`RecoveryRunsProofs`: for any entries, index, number of requests and chunk size.
`Invariance` rests on four parts, none of which is inductive without the others:

* keys: each job's key tells its payload (`JobsFit`), and the broker refuses no key but
  those of jobs in the queue or in hand (`KeysAreOfJobs`). From both follows what the
  code takes for granted when it ignores the answer of `enqueue()`: the successor of a
  chunk, whose day or offset differs, is never refused.
* `OneCarrier`: a run key in use has one job, handler or request that answers for it,
  without counting them; `RunKeysMatch` turns that into the property's sums.
* `RunsOwned`: no two jobs, and no job and request, write the same row, and a row that
  is over has none left. `StatusAdvances` is its consequence.
* `Covers`: of a chain that nobody disturbed, what was taken is each due row of the days
  behind, once, and those of the present day before the offset; said of a job in the
  queue (`QueueCovers`) and, at each point of a chunk, of the worker (`WorkerCovers`).
  At the last day this is `RunsCover`. `Yields` carries `UrgentWorkIsNotStarved`.

`TypeCorrect` has the hypothesis that `JobKeys` and `Work` contain the keys and payloads
that the module makes (`RunKeys`, `Payloads`), which says what these two constants stand
for; the other theorems do without it. It is not an ASSUME because the two sets are
infinite. The constants of the run are finite subsets that hold what occurs within its
bounds.

`FilingPipelineProofs`: for any number of threads, filings, destinations and crashes.
Beside the property itself, AlertIsWrittenOnce needs to know who may be about to insert
an alert. `AlertIsGuarded`: a thread past the flush has the write lock, or has loaded a
filing that was a success, and such a filing has its alert already, which is
ProcessedFilingHasAlert. What the owner of the lock has drafted follows from where it
stands (`DraftFits`), what its draft tells is what it has sent so far
(`DraftTellsWhatWasSent`), and each message received beyond the draft and the record is
one of a crash (`SendsAreAccountedFor`). `RunKeysAreExact` follows from
`RunKeyHasOneCarrier`.

`SecBudgetProofs`: `TypeCorrect`, and `RateIsKept` for every rate, any number of
threads and any window. The property bounds the requests of a window; its
inductive invariant accounts for each unit: what the requests sent in the window
and the grants not yet used have cost, plus what the bucket now holds, is at most
a full bucket, the refill of the window, and what was granted before the window
began. Products of constants are the only arithmetic beyond the linear one, and
have lemmas of their own.

`LivePollProofs`: `TypeCorrect`, `CursorSound` and `GapRecorded`, for every size of
the overlap window. Invariant: listings have no gaps (filings are listed in the
order of the cursor), the window is the top of the listing, the cursor stands on a
listed filing, and a poll that saw no overflow has, in the rest of its listing, only
rows that are registered or not looked for. That last part is what an
overflow check of a full window buys: without one, either the window is the whole
listing or some row of it is not newer than the cursor, and then everything newer
than the cursor is in the window.

`OwnershipFeedProofs`: `TypeCorrect`, and `PagedRowsSound` for every page size, number
of filings and jobs, any set of dated rows, any lag and any stop.
A row is seen when it is settled, has a job, or was lost in a crash; it is in view when
a page holds it or the next one will. Invariant: the listing has no gaps and a page is
the top of it as it was (`PageIsTop`); every placed row in view up to a cursor is seen
(`CursorCovers`), and so is every one in view up to the filing of a job that will move
a cursor, unless the poll under way is about to enqueue it (`JobsCover`, `PollCovers`):
jobs wait newest first, and each may take the cursor over all rows below its own. It
matters that the key a job writes is never later than its row's place in the feed
(`KeyIsNoLater`), and that a manual ingest cannot stop above a placed row that is newer
than its cursor (`PlacedFilings`).

`InstallationProofs`: `TypeCorrect`; `LockSound`, which is inductive beside the types;
and `Durable` for any number of pages, transactions, backups and kills. It needs that an
archive holds what a reader saw when it was begun (`ArchivesAreSnapshots`), that nothing
of the application is alive during a restore (`RestoreIsAlone`), and that half of a
restore that meets and brings no log leaves all that a reader needs
(`RestoreIsClean`). The lemmas say what a log laid over a log, or twice over the same
main file, comes to.

`RulesProofs`, for the parts that decide about one message, filing or page:

* `Channels`: `CredentialsSafe`, from where in the dialogue a connection may be
  logged in and whether it is secured by then; `RecordSound`, from what each point of a
  post or a dialogue knows of whether the receiver has the message; `SettingsSound`,
  from what each refusal and the diagnostics look at.
* `Issues`: `RewriteSound` and `IssuesSound`, for both windows, any texts and any
  length of history. Invariant: nothing on record is later than now; a filing that is a
  success was updated at its last parse or its last clearing of a rewrite; a failed one
  has an error that is later than its last parse, or is about to have it, or a handler
  died in between.
* `Form4Reading`: `Form4ReadRight`, for lists of any length, from lemmas on counting
  trades, on the first footnote on the plan that gives a date, and on the fields of each kind of
  row. `CandidatesTried`: ranks of a finite set in a strict linear order number it
  without gaps or repetitions (`Ranks`: an injection between sets of one size is onto),
  hence the candidates are the XML documents' URLs, each once and in order
  (`CandidatesRanked`); the fetches follow them one by one (`TriedInv`).
* `EightKReading`: `EightKSound`. No term of the sum moves against its own news, the cut
  to -2..2 keeps the order of scores, and a sum of terms of one sign has that sign; the
  first row of a page is the least element of a set of numbers.

Only model-checked is liveness under fairness, which is outside TLAPS's reach here:
EveryKeyIsFreed, EveryRunKeyIsReleased, HandlersEnd, AcceptedRateServes, NoFilingIsLeft,
PagedRowsAreSettled and StopEnds.

## Findings

1. `dashboard.html:40` promises a 30-day backfill for each newly enabled entry.
   The answer of `_queue_backfill_run()` is ignored by create and toggle; if the
   run key is still held by a run that saw the entry paused, no backfill follows.
2. A request that times out waiting for the write lock leaves its run key taken.
3. A failed OpenAI rewrite loses a Form 4 instead of falling back: the record of
   the failure waits in a second session for the write lock that the first one of
   the same thread holds, and times out.
4. The safety copy of a restore is not what the restore has overwritten: an archive
   made after an earlier restore brings that restore's copy under the same name, and
   the copy is made of the main file without its log.
5. `errors.html:11` says that recovered items "were followed by a successful filing
   parse". A reparse clears the stored rewrite in a transaction of its own, before the SEC
   is asked, and so moves `updated_at` (`ingest.py:1047`); if it then ends in an exception
   that is no `Form4ProcessingError`, the status still says success, and an error between
   the last parse and the reparse is shown as recovered (RecoveredMeansParsed).
   RecoveredWasParsed, which holds, names this case beside the parse.

Behaviour the models allow, on which no run of its own is spent:

* A run with nothing to do can end before the request commits its row, which
  stays "queued" for ever.
* A filing that is reparsed before it was ever processed gets an alert that
  stays "Pending": only the call that creates an alert delivers it.
* Rows of the 8-K window that are not newer than the cursor are skipped before
  anything is looked at, so a failed or lost job is not retried by a poll.
* Once the 8-K cursor has fallen out of the window it never moves again; every
  later poll warns and registers the whole window again.
* The first Form 4 job moves the shared cursor before anything is stored; a
  restart then loses the jobs of older rows, and no poll enqueues them again
  (`lost` in PagedRowsAreAccountedFor).

Repair covers much of the last three, two business days back, when it runs.

* A restore beside the log of a killed process, or from an archive that holds a log,
  gives a database of both: SQLite reads the log over the restored main file. This is
  what `mixed` takes out of NothingCommittedIsLost. A clean stop leaves no log, and
  the documentation asks for one before a backup and a restore.
* A rate below one request per second, which the settings accept, never grants a
  request (`broker.py:95`): the bucket cannot hold a whole token. AcceptedRateServes
  holds of rates from one per second on.
* A feed row without accepted_at (`latest_ownership.py:31`) sorts before the cursor, which
  takes its accepted_at from the detail page: after the first job the polls pass such rows
  by, without an error, and ten of them end a manual ingest. A time counts only in an
  acceptance tag or as a text that ends in Z (`latest_ownership.py:153`); the fixtures of
  the tests hold such a tag, while an `updated` with an offset alone is not read.
  PagedRowsAreAccountedFor is about the rows a cursor can place; that repair settles the
  others is the second part of PagedRowsAreSettled.
* If the first 8-K poll of an issuer fails after it has registered some rows of its window,
  or none, there is still no cursor: the next poll begins anew, and rows that have left the
  window since are neither registered nor reported when the cursor moves past them
  (`forgotten`). With a window of two: rows 1 and 2 are read, 2 is registered, the process
  dies, 3 and 4 are listed, and the next poll puts the cursor on 4 without a word about 1.
* The second look with which a repair ends goes through all Form 4 filings that failed in
  the last seven days in one P3 job, fetches and sends included, and does not yield to urgent
  work (`ingest.py:1495`). It is the exception in YieldToUrgentWork.
* Slack's answer counts as sent below 400 (`slack.py:79`), so a redirect, by which nothing
  was taken, does too, and the alert is shown as delivered.
* The diagnostics warn of webhook URLs that the notifier allows (`HTTPS://`,
  `http://LOCALHOST` and `http://user@localhost` in test mode) and pass some that it refuses
  (`http://localhost.example`): `release.py:240` compares the beginning of the text,
  `webhook.py:117` the parsed scheme and host. SettingsTellWhatIsSent names the cases.
* The date shown for a 10b5-1 plan is the first the remarks give, whether or not the remarks
  speak of the plan (`form4.py:488`); only footnotes have to.
* A success that is processed again and comes out the same is not written, so an
  error of a failed attempt between the two is not recovered by it, and revalidation
  takes the filing up again for as long as its window lasts.
* An empty list of tickers in a submissions file ends the poll of that issuer in an
  error (`submissions.py:65` takes the first element).
* A table of documents with four cells to a row shows no exhibit to the 8-K reader.

## Not modelled, and the plan

Done: `Broker`, `BrokerWorker`, `WaitForIdle`, `JobQueue` and its refinement,
`RecoveryRuns`, `FilingPipeline`, `SecBudget`, `LivePoll`, `OwnershipFeed`,
`Installation`, `Form4Reading`, `EightKReading`, `Channels`, `Issues`, and the proofs
above. Left, in this order:

1. Abstract specifications, with the steps of the detailed ones proved to implement
   them: `FilingPipeline` against one alert per filing, discovery against "each listed
   filing is seen to", `Installation` against one database that is read and committed to.
2. The cache of the ticker resolver, and the merge of a submissions file's columns.

Not modelled within the modelled parts: `mark_source_success` and
`record_http_status` (status page only), the manual-ingest routes, form validation, the
cursor that repair writes and nobody reads, `queue_watchlist_backfill`, which has no
caller, the smoke test and the release bundle.

Not planned: extraction of texts from HTML and XML, wording of summaries and messages,
CSRF tokens and the redaction of log lines, the inbox and its filters: sequential
code whose substance is data, logging or layout.
