--------------------------------- MODULE Issues ---------------------------------
(***************************************************************************)
(* The record of one watched Form 4 over time: it is processed, reparsed   *)
(* and revalidated, its summary is rewritten and cleared, errors are       *)
(* recorded, and the Issues page tells from the times of the filing and of *)
(* each error which of them are over (app/services/ingest.py,              *)
(* services/summarize/, app/web/routes_dashboard.py).                      *)
(*                                                                         *)
(* The worker runs one handler at a time; Crash ends it between two of its *)
(* commits.  A tick is a moment at which something may be written.  What   *)
(* SQLAlchemy finds unchanged is not written and keeps its updated_at.     *)
(***************************************************************************)
EXTENDS Integers, FiniteSets

CONSTANTS Texts,                 \* what a parse of the filing can come to
          Blank,                 \* no text
          IssueWindow,           \* CURRENT_ISSUE_WINDOW, in ticks
          RevalidationWindow,    \* RECENT_FORM4_REVALIDATION_DAYS, in ticks
          MaxNow                 \* bound on the clock

ASSUME IssuesAssumption ==
    /\ Blank \notin Texts
    /\ IssueWindow \in Nat /\ RevalidationWindow \in Nat /\ MaxNow \in Nat

VARIABLES
    now,
    job,        \* what the worker is at: a handler, or a step of it
    filing,     \* the row of filings
    errors,     \* the rows of stage_errors
    parsed,     \* history: when a parse was last stored with some change,
    succeeded,  \* when one was last stored, with a change or without,
    cleared,    \* when a reparse has cleared a rewrite,
    unrecorded  \* and whether a handler died before it recorded an error

issueVars == <<now, job, filing, errors, parsed, succeeded, cleared, unrecorded>>

NoFiling == [status |-> "absent", summary |-> Blank, rewrite |-> Blank,
             url |-> FALSE, updated |-> 0]

\* The client, its call and what the answer holds.
Responses == [supported : BOOLEAN, call : {"answers", "invalid", "raises"},
              refusal : BOOLEAN, incomplete : BOOLEAN, parsed : BOOLEAN]

IssuesInit ==
    /\ now = 0 /\ job = "none" /\ filing = NoFiling /\ errors = {}
    /\ parsed = 0 /\ succeeded = 0 /\ cleared = 0 /\ unrecorded = FALSE

-----------------------------------------------------------------------------
\* OpenAIResponsesSummaryRewriter.rewrite(): a text, or SummaryRewriteFailure.
RewriteOutcome(r) ==
    IF r.supported /\ r.call = "answers" /\ ~r.refusal /\ ~r.incomplete /\ r.parsed
    THEN "text" ELSE "failure"

\* No call is made while the rewriter is inactive.
Rewrites == {"none"} \cup {RewriteOutcome(r) : r \in Responses}

\* Faulty variant of RewriteOf: what an earlier rewrite left is kept.
RewriteKept(outcome, text) == IF outcome = "text" THEN text ELSE filing.rewrite

\* _apply_optional_rewrite(): the fields are cleared first.
RewriteOf(outcome, text) == IF outcome = "text" THEN text ELSE Blank

Error(stage, at) == [stage |-> stage, at |-> at]

\* The row with other values: updated_at moves if one of them differs.
Update(new, at) ==
    IF [new EXCEPT !.updated = 0] = [filing EXCEPT !.updated = 0] THEN filing
    ELSE [new EXCEPT !.updated = at]

-----------------------------------------------------------------------------
\* Recovered on the Issues page.
Recovered(e) == filing.status = "success" /\ filing.updated > e.at

\* Faulty variant of IssueState: whatever is written to the filing is a recovery.
StateByTime(e) ==
    CASE filing.updated > e.at -> "recovered"
      [] filing.updated <= e.at /\ e.at >= now - IssueWindow -> "current"
      [] OTHER -> "historical"

\* _issue_state().
IssueState(e) ==
    CASE Recovered(e) -> "recovered"
      [] ~Recovered(e) /\ e.at >= now - IssueWindow -> "current"
      [] OTHER -> "historical"

\* _form4_health_summary(); form4_accession and the like are all Form 4 issues.
Health ==
    IF \E e \in errors : IssueState(e) = "current" THEN "Needs review"
    ELSE IF filing.status = "success" THEN "Healthy now" ELSE "No successful Form 4 parse yet"

\* The errors that _revalidate_recent_form4_failures() looks at; it takes the
\* latest of them.
Recent == {e \in errors : /\ e.stage \in {"form4_accession", "form4_xml_locator"}
                          /\ e.at >= now - RevalidationWindow}

-----------------------------------------------------------------------------
\* The next moments, with k of them used.
Ticks(k) == now + k <= MaxNow /\ now' = now + k

Starts(handler) == job = "none" /\ job' = handler

\* Discovery queues the accession, for the first time or again.
Process ==
    /\ Starts("process") /\ Ticks(0)
    /\ UNCHANGED <<filing, errors, parsed, succeeded, cleared, unrecorded>>

\* The pass at the end of a repair: it processes what is not recovered.
Revalidate ==
    /\ Recent # {}
    /\ \E e \in Recent : (\A other \in Recent : other.at <= e.at) /\ ~Recovered(e)
    /\ Starts("process") /\ Ticks(0)
    /\ UNCHANGED <<filing, errors, parsed, succeeded, cleared, unrecorded>>

\* reparse_filing(): the rewrite is cleared and committed before the SEC is
\* asked for the document.
Reparse ==
    /\ filing.status # "absent"
    /\ Starts("reparse") /\ Ticks(1)
    /\ filing' = Update([filing EXCEPT !.rewrite = Blank], now')
    /\ cleared' = IF filing' # filing THEN now' ELSE cleared
    /\ UNCHANGED <<errors, parsed, succeeded, unrecorded>>

\* The handler raises: the stage of its own is recorded, and a reparse whose
\* Form4ProcessingError this is goes on to mark the filing.
Fails(stage, marks) ==
    /\ Ticks(1)
    /\ errors' = errors \cup {Error(stage, now')}
    /\ job' = IF marks THEN "mark-failed" ELSE "none"
    /\ UNCHANGED <<filing, parsed, succeeded, cleared, unrecorded>>

ProcessRaises == job = "process" /\ \E s \in {"form4_accession", "form4_parser"} : Fails(s, FALSE)
ReparseRaises == job = "reparse" /\ \E processing \in BOOLEAN : Fails("reparse", processing)

\* _store_parsed_form4().  A rewrite that fails after the upsert has written
\* the row finds the database locked by this very session and raises.
Store ==
    /\ job \in {"process", "reparse"}
    /\ \E text \in Texts, touched \in BOOLEAN, outcome \in Rewrites :
          LET written == touched \/ ~filing.url
              new == [status |-> "success", summary |-> text, url |-> TRUE,
                      rewrite |-> RewriteOf(outcome, text), updated |-> 0]
          IN  IF outcome = "failure" /\ written
              THEN Fails(IF job = "process" THEN "form4_accession" ELSE "reparse", FALSE)
              ELSE /\ Ticks(2) /\ job' = "none"
                   /\ filing' = IF touched \/ outcome = "text"
                                THEN [new EXCEPT !.updated = now'] ELSE Update(new, now')
                   /\ errors' = IF outcome = "failure"
                                THEN errors \cup {Error("openai_rewrite", now' - 1)} ELSE errors
                   /\ parsed' = IF filing' # filing THEN now' ELSE parsed
                   /\ succeeded' = now'
                   /\ unrecorded' = FALSE
                   /\ UNCHANGED cleared

\* _handle_missing_xml(): the filing is failed in one commit, if the page names
\* its issuer, and the error is recorded in a later one.
Missing ==
    /\ job = "process" /\ job' = "record-missing" /\ Ticks(1)
    /\ \/ filing' = Update([NoFiling EXCEPT !.status = "failed"], now')
       \/ UNCHANGED filing
    /\ UNCHANGED <<errors, parsed, succeeded, cleared, unrecorded>>

RecordMissing == job = "record-missing" /\ Fails("form4_xml_locator", FALSE)

\* _mark_filing_failed(), after a reparse has recorded its error; the summary
\* stays.
MarkFailed ==
    /\ job = "mark-failed" /\ job' = "none" /\ Ticks(1)
    /\ filing' = Update([filing EXCEPT !.status = "failed", !.rewrite = Blank], now')
    /\ UNCHANGED <<errors, parsed, succeeded, cleared, unrecorded>>

\* The handler returns without a record: another form, an issuer not watched.
ReturnEarly ==
    /\ job = "process" /\ job' = "none" /\ Ticks(0)
    /\ UNCHANGED <<filing, errors, parsed, succeeded, cleared, unrecorded>>

HandlerDies ==
    /\ job # "none" /\ job' = "none" /\ Ticks(0)
    /\ unrecorded' = (unrecorded \/ job = "record-missing")
    /\ UNCHANGED <<filing, errors, parsed, succeeded, cleared>>

TimePasses == Ticks(1) /\ UNCHANGED <<job, filing, errors, parsed, succeeded, cleared, unrecorded>>

IssuesNext ==
    \/ Process \/ Revalidate \/ Reparse \/ ProcessRaises \/ ReparseRaises \/ Store
    \/ Missing \/ RecordMissing \/ MarkFailed \/ ReturnEarly \/ HandlerDies \/ TimePasses

IssuesSpec == IssuesInit /\ [][IssuesNext]_issueVars

-----------------------------------------------------------------------------
\* The rewrite on show is of the parse on show: no reparse, failure or repeated
\* parse leaves it beside another summary.
RewriteFitsTheParse ==
    filing.rewrite # Blank => filing.rewrite = filing.summary /\ filing.status = "success"

\* An issue is called recovered when a parse was stored after it, or when a
\* reparse has cleared a rewrite, whatever came of it (RecoveredMeansParsed is
\* what the page says of that); and every parse after it that has changed
\* something makes it so, unless a failure follows.
RecoveredWasParsed ==
    \A e \in errors :
        /\ IssueState(e) = "recovered" => parsed > e.at \/ cleared > e.at
        /\ parsed > e.at => IssueState(e) = "recovered" \/ filing.status = "failed"

\* A failed filing has an issue of its failure, later than its last parse, and
\* the page does not call Form 4 healthy while that is recent; unless the
\* process died before the error of a missing document was recorded.
FailureIsOnRecord ==
    filing.status = "failed" /\ job # "record-missing" /\ ~unrecorded =>
        \E e \in errors : /\ e.stage \in {"form4_xml_locator", "reparse"}
                          /\ e.at > parsed
                          /\ e.at >= now - IssueWindow => Health = "Needs review"

\* The page's own words: "recovered items were followed by a successful filing
\* parse".
RecoveredMeansParsed ==
    job = "none" => \A e \in errors : IssueState(e) = "recovered" => succeeded > e.at

\* What the Issues page says of a filing agrees with what happened to it.
IssuesPageTellsTheRecord == RecoveredWasParsed /\ FailureIsOnRecord
=============================================================================
