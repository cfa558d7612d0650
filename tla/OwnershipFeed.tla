----------------------------- MODULE OwnershipFeed -----------------------------
(***************************************************************************)
(* Discovery of Form 4 filings: Form4IngestService._queue_form4_candidates *)
(* in app/services/ingest.py reads one page of the SEC's feed, of all      *)
(* issuers, and enqueues a job for each row behind a cursor.  The jobs,    *)
(* process_accession(), move the cursor, before they have stored anything. *)
(*                                                                         *)
(* There is a cursor for the live page and one for manual ingest; a row of *)
(* the daily index comes without one.  Filings are numbered in the order   *)
(* in which the SEC accepts and lists them.  One worker thread runs poll   *)
(* and jobs, a step per transaction or enqueue().                          *)
(***************************************************************************)
EXTENDS Integers, FiniteSets, Sequences, SequencesExt

CONSTANTS MaxFiling,      \* bound: filings
          PageSize,       \* rows of the feed's page
          StopAfter,      \* rows before the cursor that end a manual ingest
          Dated,          \* filings whose row in the feed has an accepted_at
          MaxLag,         \* bound: filings by which a detail page's time lags
          MaxFaults,      \* bound: jobs that fail, crashes
          NoFiling

Filings == 1..MaxFiling
Cursors == {"live", "manual"}
Jobs == [filing : Filings, source : Cursors \cup {"index"}]
NoJob == [filing |-> NoFiling, source |-> "index"]

ASSUME FeedAssumption ==
    /\ MaxFiling \in Nat /\ MaxFaults \in Nat /\ MaxLag \in Nat
    /\ PageSize \in Nat \ {0} /\ StopAfter \in Nat \ {0}
    /\ Dated \subseteq Filings
    /\ NoFiling \notin Filings

VARIABLES
    listed,      \* filings the SEC has listed
    status,      \* what became of each
    cursor,      \* of the live page and of manual ingest
    jobs,        \* the process-form4-accession jobs, first come first served
    pc, job,     \* where the worker is, and its job
    polling,     \* the source of the poll it runs
    page, todo,  \* the page, and its rows that are yet to be enqueued
    paged,       \* history: rows of polls that went to their end
    lost,        \* history: filings whose job a crash took
    faults

worker == <<pc, job, polling, page, todo>>
vars == <<listed, status, cursor, jobs, worker, paged, lost, faults>>

TypeOK ==
    /\ listed \subseteq Filings
    /\ status \in [Filings -> {"unseen", "stored", "not-wanted", "error"}]
    /\ cursor \in [Cursors -> -MaxFiling-1 .. MaxFiling]
    /\ jobs \in Seq(Jobs)
    /\ pc \in {"idle", "compare", "enqueue", "detail", "cursor", "document"}
    /\ job \in Jobs \cup {NoJob}
    /\ polling \in Cursors
    /\ page \subseteq listed
    /\ todo \subseteq page
    /\ paged \subseteq listed
    /\ lost \subseteq listed
    /\ faults \in 0..MaxFaults

\* A cursor without an accepted_at is older than any row.
Init ==
    /\ \E n \in 0..MaxFiling : listed = 1..n
    /\ status = [f \in Filings |-> "unseen"]
    /\ cursor = [s \in Cursors |-> -MaxFiling-1]
    /\ jobs = <<>>
    /\ pc = "idle" /\ job = NoJob /\ polling = "live" /\ page = {} /\ todo = {}
    /\ paged = {} /\ lost = {}
    /\ faults = 0

-----------------------------------------------------------------------------
\* cursor_tuple() of a row of the feed, where a missing accepted_at counts as
\* datetime.min, and of the candidate that the detail page has confirmed: that
\* page's local time is read as UTC and so may come before the feed's, and the
\* row's own key stands where the page has no time.
FeedKey(f) == IF f \in Dated THEN f ELSE f - MaxFiling - 1
ConfirmedKeys(f) == {key \in 0..f : key >= f - MaxLag} \cup {FeedKey(f)}

Newest(n) == {f \in listed : Cardinality({g \in listed : g > f}) < n}
\* The feed, and so the loop over its rows, has the newest one first.
Latest(rows) == CHOOSE f \in rows : \A g \in rows : g <= f

Queued(f) == f \in {j.filing : j \in ToSet(jobs)} \cup {job.filing}

\* enqueue(); the job key is the accession number.
Enqueued(f, source) ==
    jobs' = IF Queued(f) THEN jobs
                         ELSE Append(jobs, [filing |-> f, source |-> source])

Idle == pc' = "idle" /\ job' = NoJob /\ page' = {} /\ todo' = {} /\ UNCHANGED polling

Publish ==
    /\ \E f \in Filings \ listed :
          /\ Filings \ listed \subseteq f..MaxFiling
          /\ listed' = listed \cup {f}
    /\ UNCHANGED <<status, cursor, jobs, worker, paged, lost, faults>>

-----------------------------------------------------------------------------
\* Faulty variant of Fetch: the poll moves the cursor to the newest row.
FetchAndAdvance(s) ==
    /\ pc = "idle"
    /\ s = "live" => jobs = <<>>
    /\ pc' = "compare"
    /\ polling' = s
    /\ page' = Newest(PageSize)
    /\ cursor' = IF page' = {} THEN cursor
                 ELSE [cursor EXCEPT ![s] = Latest(page' \cup {@})]
    /\ UNCHANGED <<listed, status, jobs, job, todo, paged, lost, faults>>

\* poll_live_page(), which waits for all jobs of a higher priority, or
\* run_manual_ingest(): the page.
Fetch(s) ==
    /\ pc = "idle"
    /\ s = "live" => jobs = <<>>
    /\ pc' = "compare"
    /\ polling' = s
    /\ page' = Newest(PageSize)
    /\ UNCHANGED <<listed, status, cursor, jobs, job, todo, paged, lost, faults>>

\* _current_cursor_tuple(), and the rows behind it.  Manual ingest gives up at
\* the StopAfter-th row in a row that is not.
Compare ==
    /\ pc = "compare"
    /\ pc' = "enqueue"
    /\ LET old == {f \in page : FeedKey(f) <= cursor[polling]}
           stops == {g \in page : polling = "manual" /\ g .. g+StopAfter-1 \subseteq old}
       IN  todo' = {f \in page \ old : \A g \in stops : g < f}
    /\ UNCHANGED <<listed, status, cursor, jobs, job, polling, page, paged, lost,
                   faults>>

\* enqueue_form4_candidate(), the newest row first.
EnqueueRow ==
    /\ pc = "enqueue"
    /\ todo # {}
    /\ Enqueued(Latest(todo), polling)
    /\ todo' = todo \ {Latest(todo)}
    /\ UNCHANGED <<listed, status, cursor, pc, job, polling, page, paged, lost,
                   faults>>

EndPoll ==
    /\ pc = "enqueue"
    /\ todo = {}
    /\ paged' = paged \cup page
    /\ Idle
    /\ UNCHANGED <<listed, status, cursor, jobs, lost, faults>>

\* _process_index_row(): repair and backfill, which give way to jobs that wait.
IndexRow(f) ==
    /\ pc = "idle"
    /\ jobs = <<>>
    /\ f \in listed
    /\ Enqueued(f, "index")
    /\ UNCHANGED <<listed, status, cursor, worker, paged, lost, faults>>

-----------------------------------------------------------------------------
(* process_accession()                                                     *)

\* Faulty variant of Begin: a job that still has its key is popped again.
BeginAgain ==
    /\ pc = "idle"
    /\ jobs # <<>>
    /\ pc' = "detail"
    /\ job' = Head(jobs)
    /\ UNCHANGED <<listed, status, cursor, jobs, polling, page, todo, paged, lost,
                   faults>>

Begin ==
    /\ pc = "idle"
    /\ jobs # <<>>
    /\ pc' = "detail"
    /\ job' = Head(jobs)
    /\ jobs' = Tail(jobs)
    /\ UNCHANGED <<listed, status, cursor, polling, page, todo, paged, lost, faults>>

\* The detail page.
Detail ==
    /\ pc = "detail"
    /\ pc' = IF job.source \in Cursors THEN "cursor" ELSE "document"
    /\ UNCHANGED <<listed, status, cursor, jobs, job, polling, page, todo, paged,
                   lost, faults>>

\* _advance_cursor()
AdvanceCursor ==
    /\ pc = "cursor"
    /\ pc' = "document"
    /\ \E key \in ConfirmedKeys(job.filing) :
          cursor' = [cursor EXCEPT ![job.source] = IF key > @ THEN key ELSE @]
    /\ UNCHANGED <<listed, status, jobs, job, polling, page, todo, paged, lost,
                   faults>>

\* The job ends: the filing is stored, or not to be, or an error is recorded.
Settled(outcome) ==
    /\ status' = [status EXCEPT ![job.filing] = IF @ = "stored" THEN @ ELSE outcome]
    /\ Idle
    /\ UNCHANGED <<listed, cursor, jobs, paged, lost>>

Store == pc = "document" /\ Settled("stored") /\ UNCHANGED faults
NotWanted == pc = "document" /\ Settled("not-wanted") /\ UNCHANGED faults
Fails ==
    /\ pc \in {"detail", "cursor", "document"}
    /\ faults < MaxFaults
    /\ faults' = faults + 1
    /\ Settled("error")

\* The process dies and starts again; its queue is gone.
Crash ==
    /\ faults < MaxFaults
    /\ faults' = faults + 1
    /\ lost' = lost \cup {f \in Filings : Queued(f)}
    /\ jobs' = <<>>
    /\ Idle
    /\ UNCHANGED <<listed, status, cursor, paged>>

Next ==
    \/ Publish \/ Crash
    \/ \E s \in Cursors : Fetch(s)
    \/ Compare \/ EnqueueRow \/ EndPoll
    \/ \E f \in Filings : IndexRow(f)
    \/ Begin \/ Detail \/ AdvanceCursor \/ Store \/ NotWanted \/ Fails

Spec == Init /\ [][Next]_vars

\* The worker goes on.
FairSpec ==
    /\ Spec
    /\ WF_vars(Compare \/ EnqueueRow \/ EndPoll)
    /\ WF_vars(Detail \/ AdvanceCursor \/ Store \/ NotWanted)
    /\ SF_vars(Begin)

-----------------------------------------------------------------------------
\* The rows that a cursor can place: those that tell when the SEC accepted them,
\* and do not come behind as many rows without a time as end a manual ingest.
\* Once a job has put a time into the cursor, the polls pass all others by.
Placed ==
    {f \in Dated :
        ~ \E g \in Filings : g > f /\ g .. g+StopAfter-1 \subseteq Filings \ Dated}

\* A row of a page that was gone through, if a cursor can place it, is stored, not
\* wanted, on record as an error, or its job is on its way: the cursor that a
\* newer job moves in the meantime takes none of them away, nor does the other
\* cursor.  The jobs that die with the process are no longer accounted for.
PagedRowsAreAccountedFor ==
    \A f \in paged \cap Placed : status[f] # "unseen" \/ Queued(f) \/ f \in lost

\* And in the end it is settled.  What the polls pass by, for the want of a time or
\* because its job died with the process, is settled if repair comes to its row
\* again and again.
PagedRowsAreSettled ==
    \A f \in Filings :
        /\ f \in paged \cap Placed ~> status[f] # "unseen" \/ f \in lost
        /\ ([]<><<IndexRow(f)>>_vars) => <>(status[f] # "unseen")
=============================================================================
