------------------------------- MODULE LivePoll -------------------------------
(***************************************************************************)
(* The live 8-K poll of one issuer, EightKIngestService.poll_live_issuer() *)
(* in app/services/ingest.py: a cursor in the database, a window of the    *)
(* newest rows of the SEC's listing, and a warning when the cursor has     *)
(* fallen out of the window.                                               *)
(*                                                                         *)
(* Filings are numbered in the order of cursor_tuple(), and the SEC lists  *)
(* them in this order.  The poll takes a step per transaction.  Around it: *)
(* the jobs that process what it registers, which may fail, manual ingest  *)
(* and repair, which register filings too, errors and crashes.             *)
(***************************************************************************)
EXTENDS Naturals, FiniteSets

CONSTANTS MaxFiling,      \* bound: filings the issuer makes
          OverlapRows,    \* SEC_LIVE_8K_OVERLAP_ROWS
          MaxFaults,      \* bound: polls and jobs that fail, crashes
          NoCursor        \* there is no row in source_cursors

Filings == 1..MaxFiling

ASSUME LivePollAssumption ==
    /\ MaxFiling \in Nat /\ MaxFaults \in Nat
    /\ OverlapRows \in Nat \ {0}
    /\ NoCursor \notin Nat

VARIABLES
    listed,      \* what the SEC lists
    status,      \* parser_status of each filing
    cursor,      \* accepted_at, filed_date, accession_number of the cursor row
    jobs,        \* filings whose process-8k-filing job waits or runs
    pc,          \* where the poll is
    window,      \* the newest rows of its listing
    overflow,    \* as poll_live_issuer() has computed it
    todo,        \* rows of the window it has yet to register
    listing,     \* history: the listing the poll read,
    checked,     \*   rows that a poll which has ended well had read,
    polled,      \*   whether the issuer has been polled,
    older,       \*   rows that were too old for its first poll,
    forgotten,   \*   and rows that were so for one that had to begin anew
    warned,      \* an OverlapWindowWarning is on record
    faults

poll == <<pc, window, overflow, todo, listing>>
firstPolls == <<polled, older, forgotten>>
vars == <<listed, status, cursor, jobs, poll, checked, firstPolls, warned, faults>>

TypeOK ==
    /\ listed \subseteq Filings
    /\ status \in [Filings -> {"absent", "pending", "success"}]
    /\ cursor \in {NoCursor} \cup 0..MaxFiling
    /\ jobs \subseteq Filings
    /\ pc \in {"idle", "compare", "register", "mark", "warn", "advance"}
    /\ window \subseteq Filings
    /\ overflow \in BOOLEAN
    /\ todo \subseteq window
    /\ listing \subseteq Filings
    /\ checked \subseteq Filings
    /\ polled \in BOOLEAN
    /\ older \subseteq Filings
    /\ forgotten \subseteq Filings
    /\ warned \in BOOLEAN
    /\ faults \in 0..MaxFaults

\* An issuer with any number of earlier filings is put on the watchlist.
Init ==
    /\ \E n \in 0..MaxFiling : listed = 1..n
    /\ status = [f \in Filings |-> "absent"]
    /\ cursor = NoCursor
    /\ jobs = {}
    /\ pc = "idle" /\ window = {} /\ overflow = FALSE /\ todo = {} /\ listing = {}
    /\ checked = {} /\ polled = FALSE /\ older = {} /\ forgotten = {}
    /\ warned = FALSE
    /\ faults = 0

-----------------------------------------------------------------------------
\* Faulty variant of Newest: the listing is sorted the other way.
Oldest(rows, n) == {f \in rows : Cardinality({g \in rows : g < f}) < n}

\* The first n rows of a listing that is sorted with the newest first.
Newest(rows, n) == {f \in rows : Cardinality({g \in rows : g > f}) < n}

Latest(rows) == CHOOSE f \in rows : \A g \in rows : g <= f

\* Faulty variant of EndPoll: a poll that fails leaves rows behind.
EndPollKeepsRows ==
    /\ pc' = "idle"
    /\ window' = {} /\ overflow' = FALSE /\ listing' = {}
    /\ UNCHANGED todo

EndPoll ==
    /\ pc' = "idle"
    /\ window' = {} /\ overflow' = FALSE /\ todo' = {} /\ listing' = {}

\* The SEC lists the next filing.
Publish ==
    /\ \E f \in Filings \ listed :
          /\ Filings \ listed \subseteq f..MaxFiling
          /\ listed' = listed \cup {f}
    /\ UNCHANGED <<status, cursor, jobs, poll, checked, firstPolls, warned, faults>>

\* A poll job begins: get_json(), and the window.
Fetch ==
    /\ pc = "idle"
    /\ pc' = "compare"
    /\ listing' = listed
    /\ window' = Newest(listed, OverlapRows)
    /\ UNCHANGED <<listed, status, cursor, jobs, overflow, todo, checked, firstPolls,
                   warned, faults>>

\* The cursor has fallen out of a full window.
FellOut ==
    /\ cursor # NoCursor
    /\ Cardinality(listing) >= OverlapRows
    /\ \A f \in window : f > cursor

\* _current_cursor_tuple(), and the rows that are newer.  When the issuer's
\* first poll fails there is still no cursor, and the next one begins anew with
\* its own window: it neither looks for nor reports what lies behind.
Compare ==
    /\ pc = "compare"
    /\ pc' = "register"
    /\ overflow' = FellOut
    /\ todo' = IF cursor = NoCursor THEN window ELSE {f \in window : f > cursor}
    /\ polled' = TRUE
    /\ older' = IF polled THEN older ELSE listing \ window
    /\ forgotten' = IF polled /\ cursor = NoCursor THEN (listing \ window) \ older
                                                   ELSE forgotten
    /\ UNCHANGED <<listed, status, cursor, jobs, window, listing, checked, warned,
                   faults>>

\* Faulty variant of Registered: a job for a filing that is new, and no other.
RegisteredOnce(f) ==
    /\ status' = [status EXCEPT ![f] = IF @ = "absent" THEN "pending" ELSE @]
    /\ jobs' = IF status[f] = "absent" THEN jobs \cup {f} ELSE jobs

\* register_discovered_filing(): the filing, and a job unless it is processed.
Registered(f) ==
    /\ status' = [status EXCEPT ![f] = IF @ = "absent" THEN "pending" ELSE @]
    /\ jobs' = IF status[f] = "success" THEN jobs ELSE jobs \cup {f}

Register ==
    /\ pc = "register"
    /\ todo # {}
    /\ Registered(Latest(todo))
    /\ todo' = todo \ {Latest(todo)}
    /\ UNCHANGED <<listed, cursor, pc, window, overflow, listing, checked, firstPolls,
                   warned, faults>>

\* Faulty variant of MarkSuccess: a warning that does not return.
MarkSuccessAndAdvance ==
    /\ pc = "register"
    /\ todo = {}
    /\ cursor' = IF cursor = NoCursor THEN 0 ELSE cursor
    /\ checked' = checked \cup listing
    /\ warned' = (warned \/ overflow)
    /\ IF window = {} THEN EndPoll
       ELSE pc' = "advance" /\ UNCHANGED <<window, overflow, todo, listing>>
    /\ UNCHANGED <<listed, status, jobs, firstPolls, faults>>

\* Faulty variant of MarkSuccess: an overflow returns without its warning.
MarkSuccessInSilence ==
    /\ pc = "register"
    /\ todo = {}
    /\ cursor' = IF cursor = NoCursor THEN 0 ELSE cursor
    /\ IF window = {} \/ overflow
       THEN EndPoll /\ checked' = checked \cup listing
       ELSE /\ pc' = "advance"
            /\ UNCHANGED <<window, overflow, todo, listing, checked>>
    /\ UNCHANGED <<listed, status, jobs, firstPolls, warned, faults>>

\* _mark_8k_poll_success(): the row of the cursor exists from now on, if only
\* with the time of the poll in it.
MarkSuccess ==
    /\ pc = "register"
    /\ todo = {}
    /\ cursor' = IF cursor = NoCursor THEN 0 ELSE cursor
    /\ IF window = {}
       THEN EndPoll
       ELSE /\ pc' = IF overflow THEN "warn" ELSE "advance"
            /\ UNCHANGED <<window, overflow, todo, listing>>
    /\ checked' = IF window = {} THEN checked \cup listing ELSE checked
    /\ UNCHANGED <<listed, status, jobs, firstPolls, warned, faults>>

\* The OverlapWindowWarning; the cursor stays.
Warn ==
    /\ pc = "warn"
    /\ warned' = TRUE
    /\ checked' = checked \cup listing
    /\ EndPoll
    /\ UNCHANGED <<listed, status, cursor, jobs, firstPolls, faults>>

\* _advance_8k_cursor()
Advance ==
    /\ pc = "advance"
    /\ cursor' = IF Latest(window) > cursor THEN Latest(window) ELSE cursor
    /\ checked' = checked \cup listing
    /\ EndPoll
    /\ UNCHANGED <<listed, status, jobs, firstPolls, warned, faults>>

Poll == Fetch \/ Compare \/ Register \/ MarkSuccess \/ Warn \/ Advance

\* A request or a transaction of the poll fails.
PollFails ==
    /\ faults < MaxFaults
    /\ pc # "idle"
    /\ EndPoll
    /\ faults' = faults + 1
    /\ UNCHANGED <<listed, status, cursor, jobs, checked, firstPolls, warned>>

-----------------------------------------------------------------------------
\* The other jobs; there is one worker thread, and the poll is a job of it.

\* process_filing(), to its end or to an exception.
Process(f) ==
    /\ pc = "idle"
    /\ f \in jobs
    /\ jobs' = jobs \ {f}
    /\ status' = [status EXCEPT ![f] = "success"]
    /\ UNCHANGED <<listed, cursor, poll, checked, firstPolls, warned, faults>>

ProcessFails(f) ==
    /\ faults < MaxFaults
    /\ pc = "idle"
    /\ f \in jobs
    /\ jobs' = jobs \ {f}
    /\ faults' = faults + 1
    /\ UNCHANGED <<listed, status, cursor, poll, checked, firstPolls, warned>>

\* A row of the daily index: repair and backfill.
Repair(f) ==
    /\ pc = "idle"
    /\ f \in listed
    /\ status[f] # "success"
    /\ Registered(f)
    /\ UNCHANGED <<listed, cursor, poll, checked, firstPolls, warned, faults>>

\* The process dies and starts again; its queue is gone.
Crash ==
    /\ faults < MaxFaults
    /\ jobs' = {}
    /\ EndPoll
    /\ faults' = faults + 1
    /\ UNCHANGED <<listed, status, cursor, checked, firstPolls, warned>>

Next ==
    \/ Publish \/ Poll \/ PollFails \/ Crash
    \/ \E f \in Filings : Process(f) \/ ProcessFails(f) \/ Repair(f)

Spec == Init /\ [][Next]_vars

\* The scheduler polls again and again.
FairSpec == Spec /\ WF_vars(Poll)

-----------------------------------------------------------------------------
\* The code owes these rows nothing: what was too old for the issuer's first
\* poll, and, if that poll failed before it left a cursor, what has slipped
\* behind the window by the time of the next, rows of the first window and later
\* ones among them.  Backfill and repair find them, the polls never do.
NotLookedFor == older \cup forgotten

\* Later polls skip every row up to the cursor, so the cursor must never pass
\* a filing that was not registered and is looked for: not after an overflow, a
\* failure or crash between two rows, or one between the steps that create the
\* cursor and move it.
CursorPassesNothing ==
    cursor # NoCursor =>
        \A f \in listed : f <= cursor => status[f] # "absent" \/ f \in NotLookedFor

\* Once a poll has ended well, each row of the listing it read is registered,
\* not looked for, or there is a warning on record.
GapIsOnRecord ==
    \A f \in checked : status[f] # "absent" \/ f \in NotLookedFor \/ warned

\* The same as a promise: what is listed will be registered, or reported.
EveryListedFilingIsFound ==
    \A f \in Filings :
        f \in listed ~> status[f] # "absent" \/ f \in NotLookedFor \/ warned

\* A filing whose job has failed, or died with the process, stays behind the
\* cursor, where no poll looks again; whenever repair keeps coming by and the
\* jobs are run, it is processed in the end.
RepairFinishesWhatFailed ==
    \A f \in Filings :
        SF_vars(Repair(f)) /\ SF_vars(Process(f)) =>
            (status[f] = "pending" ~> status[f] = "success")

\* No filing is left for ever where the polls or the jobs have failed.
NoFilingIsLeft == EveryListedFilingIsFound /\ RepairFinishesWhatFailed
=============================================================================
