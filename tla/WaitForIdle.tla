----------------------------- MODULE WaitForIdle -----------------------------
(***************************************************************************)
(* A caller of BrokerWorker.wait_for_idle() next to the worker.  The       *)
(* method takes two snapshots and then waits for the event, each at its    *)
(* own time, with no lock over the three.                                  *)
(***************************************************************************)
EXTENDS BrokerWorker

VARIABLES waitPc,       \* where the caller is
          seenActive,   \* its snapshot["active_job_key"]
          seenBacklog,  \* its broker_snapshot["backlog_size"] # 0
          mark          \* not in the code: _sequence when it called

waitVars == <<waitPc, seenActive, seenBacklog, mark>>
waitForIdleVars == <<vars, waitVars>>

WaitTypeOK ==
    /\ TypeOK
    /\ waitPc \in {"off", "active", "backlog", "idle", "true"}
    /\ seenActive \in JobKeys \cup {NoKey}
    /\ seenBacklog \in BOOLEAN
    /\ mark \in Nat

WaitInit ==
    /\ Init
    /\ waitPc = "off"
    /\ seenActive = NoKey
    /\ seenBacklog = FALSE
    /\ mark = 0

WaitCall ==
    /\ waitPc = "off"
    /\ waitPc' = "active"
    /\ mark' = sequence
    /\ UNCHANGED <<seenActive, seenBacklog>>

WaitSnapshot ==
    /\ waitPc = "active"
    /\ waitPc' = "backlog"
    /\ seenActive' = activeKey
    /\ UNCHANGED <<seenBacklog, mark>>

WaitBacklog ==
    /\ waitPc = "backlog"
    /\ waitPc' = "idle"
    /\ seenBacklog' = (queue # {})
    /\ UNCHANGED <<seenActive, mark>>

Idle == idleEvent /\ ~seenBacklog /\ seenActive = NoKey

WaitSucceeds ==
    /\ waitPc = "idle"
    /\ Idle
    /\ waitPc' = "true"
    /\ UNCHANGED <<seenActive, seenBacklog, mark>>

Return ==
    /\ waitPc' = "off"
    /\ seenActive' = NoKey
    /\ seenBacklog' = FALSE
    /\ mark' = 0

\* Not idle (or the event was not set within 0.05 s): look again.
WaitAgain ==
    /\ waitPc = "idle"
    /\ ~Idle
    /\ waitPc' = "active"
    /\ UNCHANGED <<seenActive, seenBacklog, mark>>

\* The deadline has passed: return False.
WaitExpires == waitPc = "active" /\ Return

\* The caller goes on after True.
WaitDone == waitPc = "true" /\ Return

Wait ==
    \/ WaitCall \/ WaitSnapshot \/ WaitBacklog \/ WaitSucceeds
    \/ WaitAgain \/ WaitExpires \/ WaitDone

WaitNext ==
    \/ Next /\ UNCHANGED waitVars
    \/ Wait /\ UNCHANGED vars

WaitSpec == WaitInit /\ [][WaitNext]_waitForIdleVars

-----------------------------------------------------------------------------
\* When wait_for_idle() answers True, every job accepted before the call has
\* been handled, although the backlog, the active key and the event are read
\* at three different times and a popped job is for a moment in none of them.
\* Once shutdown() is called the promise is off: it sets the event itself.
IdleMeansHandled ==
    waitPc = "true" /\ starts <= 1 /\ ~stopEvent =>
        \A j \in LiveJobs : j.sequence > mark
=============================================================================
