---------------------------- MODULE BrokerWorker ----------------------------
(***************************************************************************)
(* BrokerWorker (app/services/worker.py) around the broker's queue.        *)
(*                                                                         *)
(* Processes: the worker threads; the main thread, which start()s and      *)
(* shutdown()s the worker; and everyone who enqueues (web routes,          *)
(* scheduler threads, handlers), which is Submit.  Each step touches one   *)
(* shared object, since nothing but the broker's and the worker's own      *)
(* locks makes two accesses atomic.                                        *)
(*                                                                         *)
(* shutdown() joins for at most two seconds.  A handler that takes longer  *)
(* keeps its thread alive after shutdown() has returned, so a later        *)
(* start() runs next to it: a thread per start(), in Threads.              *)
(***************************************************************************)
EXTENDS Broker

CONSTANTS Handled,      \* the work whose task name has a registered handler
          CallSites,    \* the arguments of the calls of enqueue()
          MaxStarts,    \* bound: how often the main thread calls start()
          MaxSequence,  \* bound: how many jobs are accepted in all
          NoJob, NoKey  \* Python's None, for a job and for a job key

ASSUME WorkerAssumption ==
    /\ Handled \subseteq Work
    /\ CallSites \subseteq [key : JobKeys, priority : Priorities, work : Work]
    /\ MaxStarts \in Nat \ {0}
    /\ MaxSequence \in Nat
    /\ NoJob \notin Job
    /\ NoKey \notin JobKeys

Threads == 1..MaxStarts

VARIABLES stopEvent,    \* _stop_event.is_set()
          idleEvent,    \* _idle_event.is_set()
          activeKey,    \* _active_job_key
          starts,       \* threads created so far; thread n is the n-th
          mainPc,       \* where the main thread is in start() and shutdown()
          pc,           \* where each worker thread is in _run_loop()
          held          \* the local `job' of each worker thread

threadVars == <<pc, held>>
mainVars == <<starts, mainPc, stopEvent>>
vars == <<queueVars, idleEvent, activeKey, threadVars, mainVars>>

Holding == {"dispatch", "busy", "mark", "run", "complete"}
LoopPc == {"none", "test", "clear", "pop", "idle", "unmark", "dead"} \cup Holding

TypeOK ==
    /\ BrokerTypeOK
    /\ stopEvent \in BOOLEAN
    /\ idleEvent \in BOOLEAN
    /\ activeKey \in JobKeys \cup {NoKey}
    /\ starts \in 0..MaxStarts
    /\ mainPc \in {"down", "up", "join", "forget", "signal"}
    /\ pc \in [Threads -> LoopPc]
    /\ held \in [Threads -> Job \cup {NoJob}]

Init ==
    /\ BrokerInit
    /\ stopEvent = FALSE
    /\ idleEvent = TRUE
    /\ activeKey = NoKey
    /\ starts = 0
    /\ mainPc = "down"
    /\ pc = [t \in Threads |-> "none"]
    /\ held = [t \in Threads |-> NoJob]

-----------------------------------------------------------------------------
(* The main thread: lifespan()'s worker.start() and worker.shutdown().     *)

\* start() finds no live thread in _thread: shutdown() has reset it to None.
Start ==
    /\ mainPc = "down"
    /\ starts < MaxStarts
    /\ starts' = starts + 1
    /\ pc' = [pc EXCEPT ![starts + 1] = "test"]
    /\ stopEvent' = FALSE
    /\ mainPc' = "up"
    /\ UNCHANGED <<queueVars, idleEvent, activeKey, held>>

ShutdownRequest ==
    /\ mainPc = "up"
    /\ stopEvent' = TRUE
    /\ mainPc' = "join"
    /\ UNCHANGED <<queueVars, idleEvent, activeKey, starts, threadVars>>

\* join(timeout=2.0) returns when the thread is dead or when time is up, and
\* the caller does not ask which; then _thread = None.
ShutdownJoin ==
    /\ mainPc = "join"
    /\ mainPc' = "forget"
    /\ UNCHANGED <<queueVars, idleEvent, activeKey, starts, stopEvent,
                   threadVars>>

ShutdownForget ==
    /\ mainPc = "forget"
    /\ activeKey' = NoKey
    /\ mainPc' = "signal"
    /\ UNCHANGED <<queueVars, idleEvent, starts, stopEvent, threadVars>>

ShutdownSignal ==
    /\ mainPc = "signal"
    /\ idleEvent' = TRUE
    /\ mainPc' = "down"
    /\ UNCHANGED <<queueVars, activeKey, starts, stopEvent, threadVars>>

Main == Start \/ ShutdownRequest \/ ShutdownJoin \/ ShutdownForget \/ ShutdownSignal

-----------------------------------------------------------------------------
(* The worker threads: _run_loop().                                        *)

Goto(t, from, to) == pc[t] = from /\ pc' = [pc EXCEPT ![t] = to]

TestStop(t) ==
    /\ Goto(t, "test", IF stopEvent THEN "dead" ELSE "clear")
    /\ UNCHANGED <<queueVars, idleEvent, activeKey, held, mainVars>>

\* Faulty variant of ClearIdle: the event stays set over pop_next().
KeepIdle(t) ==
    /\ Goto(t, "clear", "pop")
    /\ UNCHANGED <<queueVars, idleEvent, activeKey, held, mainVars>>

ClearIdle(t) ==
    /\ Goto(t, "clear", "pop")
    /\ idleEvent' = FALSE
    /\ UNCHANGED <<queueVars, activeKey, held, mainVars>>

PopJob(t) ==
    /\ Goto(t, "pop", "dispatch")
    /\ \E j \in queue :
         /\ PopNext(j)
         /\ held' = [held EXCEPT ![t] = j]
    /\ UNCHANGED <<idleEvent, activeKey, mainVars>>

PopNone(t) ==
    /\ queue = {}
    /\ Goto(t, "pop", "idle")
    /\ UNCHANGED <<queueVars, idleEvent, activeKey, held, mainVars>>

SetIdle(t) ==
    /\ Goto(t, "idle", "test")
    /\ idleEvent' = TRUE
    /\ UNCHANGED <<queueVars, activeKey, held, mainVars>>

\* Faulty variant of DispatchUnhandled: `continue' without complete().
DispatchUnhandledOnly(t) ==
    /\ Goto(t, "dispatch", "test")
    /\ held[t].work \notin Handled
    /\ held' = [held EXCEPT ![t] = NoJob]
    /\ UNCHANGED <<queueVars, idleEvent, activeKey, mainVars>>

\* No handler: complete(), then `continue'.
DispatchUnhandled(t) ==
    /\ Goto(t, "dispatch", "test")
    /\ held[t].work \notin Handled
    /\ Complete(held[t].key)
    /\ held' = [held EXCEPT ![t] = NoJob]
    /\ UNCHANGED <<idleEvent, activeKey, mainVars>>

DispatchHandled(t) ==
    /\ Goto(t, "dispatch", "busy")
    /\ held[t].work \in Handled
    /\ UNCHANGED <<queueVars, idleEvent, activeKey, held, mainVars>>

ClearIdleAgain(t) ==
    /\ Goto(t, "busy", "mark")
    /\ idleEvent' = FALSE
    /\ UNCHANGED <<queueVars, activeKey, held, mainVars>>

\* Faulty variant of MarkActive: the job itself in place of its key.
MarkActiveJob(t) ==
    /\ Goto(t, "mark", "run")
    /\ activeKey' = held[t]
    /\ UNCHANGED <<queueVars, idleEvent, held, mainVars>>

MarkActive(t) ==
    /\ Goto(t, "mark", "run")
    /\ activeKey' = held[t].key
    /\ UNCHANGED <<queueVars, idleEvent, held, mainVars>>

\* The handler returns or raises: the finally clause runs either way.  What
\* it enqueues while it runs is a Submit.
HandlerEnds(t) ==
    /\ Goto(t, "run", "complete")
    /\ UNCHANGED <<queueVars, idleEvent, activeKey, held, mainVars>>

\* Faulty variant of CompleteJob: the handler raised, and complete() is skipped.
SkipComplete(t) ==
    /\ Goto(t, "complete", "unmark")
    /\ UNCHANGED <<queueVars, idleEvent, activeKey, held, mainVars>>

CompleteJob(t) ==
    /\ Goto(t, "complete", "unmark")
    /\ Complete(held[t].key)
    /\ UNCHANGED <<idleEvent, activeKey, held, mainVars>>

\* Faulty variant of UnmarkActive: _active_job_key is not reset.
LeaveActive(t) ==
    /\ Goto(t, "unmark", "test")
    /\ held' = [held EXCEPT ![t] = NoJob]
    /\ UNCHANGED <<queueVars, idleEvent, activeKey, mainVars>>

UnmarkActive(t) ==
    /\ Goto(t, "unmark", "test")
    /\ activeKey' = NoKey
    /\ held' = [held EXCEPT ![t] = NoJob]
    /\ UNCHANGED <<queueVars, idleEvent, mainVars>>

Loop(t) ==
    \/ TestStop(t) \/ ClearIdle(t) \/ PopJob(t) \/ PopNone(t) \/ SetIdle(t)
    \/ DispatchUnhandled(t) \/ DispatchHandled(t) \/ ClearIdleAgain(t)
    \/ MarkActive(t) \/ HandlerEnds(t) \/ CompleteJob(t) \/ UnmarkActive(t)

-----------------------------------------------------------------------------
(* Everyone who enqueues.  A rejected enqueue() changes nothing.           *)

Submit(c) ==
    /\ sequence < MaxSequence
    /\ Enqueue(c.key, c.priority, c.work)
    /\ UNCHANGED <<idleEvent, activeKey, threadVars, mainVars>>

-----------------------------------------------------------------------------
Next ==
    \/ Main
    \/ \E t \in Threads : Loop(t)
    \/ \E c \in CallSites : Submit(c)

Spec == Init /\ [][Next]_vars

\* A runnable thread runs, and every handler ends: the HTTP and SMTP calls it
\* makes have timeouts.
ThreadsGoOn == \A t \in Threads : WF_vars(Loop(t))

-----------------------------------------------------------------------------
(* Properties.                                                             *)

\* The threads between pop_next() and complete(), and their jobs.
Holders == {t \in Threads : pc[t] \in Holding}
HeldJobs == {held[t] : t \in Holders}
LiveJobs == queue \cup HeldJobs

\* A job key is refused by enqueue() exactly as long as a job with that key
\* waits or is in a worker's hands: no path of the loop (unknown task, handler
\* that raises, thread that outlives shutdown()) leaves a key behind, which
\* would silently refuse that work until the process restarts.
KeysOfLiveJobs ==
    /\ jobKeys = {j.key : j \in queue}
    /\ inflight = {j.key : j \in HeldJobs}

\* The coalescing promise of enqueue() and complete(): two live jobs never
\* have the same key, and no job is in the hands of two threads, even while a
\* thread that outlived shutdown() runs next to its successor.
OneLiveJobPerKey ==
    /\ \A a, b \in LiveJobs : a.key = b.key => a = b
    /\ HeldJobs \cap queue = {}
    /\ \A t, u \in Holders : held[t] = held[u] => t = u

\* The status page's active_job_key never names a key that no thread is at
\* work on, whatever the threads of two start()s and a shutdown() overwrite.
ActiveKeyIsReal ==
    activeKey # NoKey =>
        \E t \in Threads :
            /\ pc[t] \in {"run", "complete", "unmark"}
            /\ held[t].key = activeKey

\* While the application is up, an accepted job's key does not stay taken:
\* the job is handled, whatever its priority, once finitely many jobs
\* (MaxSequence) compete with it, and its key can be enqueued again.
EveryKeyIsFreed ==
    <>[](mainPc = "up") =>
        \A k \in JobKeys : k \in jobKeys ~> Accepts(k)
=============================================================================
