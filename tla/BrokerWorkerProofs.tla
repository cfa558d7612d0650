------------------------- MODULE BrokerWorkerProofs -------------------------
(***************************************************************************)
(* For every set of keys and call sites and any number of starts: the      *)
(* broker's key sets are exactly the keys of the live jobs, no two live    *)
(* jobs share a key, the broker implements JobQueue, and wait_for_idle()   *)
(* never answers True too early.                                           *)
(***************************************************************************)
EXTENDS WaitForIdle, BrokerRefinement, FiniteSetTheorems, SequenceTheorems, TLAPS

\* A thread has a job from pop_next() to the end of the finally clause.
HeldWhileHolding ==
    \A t \in Threads :
        /\ pc[t] \in Holding \cup {"unmark"} <=> held[t] # NoJob
        /\ t > starts => pc[t] = "none"

\* A key is in one of the two sets only, and in the hands of one thread only.
KeysApart ==
    /\ jobKeys \cap inflight = {}
    /\ \A a, b \in queue : a.key = b.key => a = b
    /\ \A t, u \in Holders : held[t].key = held[u].key => t = u

\* Sequence numbers are handed out in increasing order.
SequencesHandedOut == \A j \in queue : j.sequence <= sequence

\* Inductive.  KeysOfLiveJobs alone is not: two jobs with one key in the heap
\* would leave a gap in jobKeys when the first is popped.
Inv ==
    /\ TypeOK
    /\ HeldWhileHolding
    /\ KeysOfLiveJobs
    /\ KeysApart
    /\ SequencesHandedOut

-----------------------------------------------------------------------------
\* At the start there are no jobs, no keys and no threads.
LEMMA InitInv == Init => Inv
  <1>. SUFFICES ASSUME Init PROVE Inv
    OBVIOUS
  <1>1. TypeOK
    <2>1. BrokerTypeOK
      BY DEF Init, BrokerInit, BrokerTypeOK
    <2>2. starts \in 0..MaxStarts
      BY WorkerAssumption DEF Init
    <2>3. pc \in [Threads -> LoopPc] /\ held \in [Threads -> Job \cup {NoJob}]
      BY DEF Init, LoopPc
    <2>. QED
      BY <2>1, <2>2, <2>3 DEF TypeOK, Init
  <1>2. Holders = {}
    BY DEF Init, Holders, Holding
  <1>3. HeldWhileHolding
    BY DEF Init, HeldWhileHolding, Holding
  <1>4. KeysOfLiveJobs
    BY <1>2 DEF Init, BrokerInit, KeysOfLiveJobs, HeldJobs
  <1>5. KeysApart /\ SequencesHandedOut
    BY <1>2 DEF Init, BrokerInit, KeysApart, SequencesHandedOut
  <1>. QED
    BY <1>1, <1>3, <1>4, <1>5 DEF Inv

\* Steps that leave the broker and the jobs in hand alone: all that can change
\* is which event is set, where the main thread is, and which point outside
\* (or inside) the hands a thread has reached.
LEMMA QuietStep ==
    ASSUME Inv, TypeOK',
           UNCHANGED <<queueVars, held>>,
           starts' \in {starts, starts + 1},
           \A t \in Threads :
               /\ pc'[t] \in Holding <=> pc[t] \in Holding
               /\ pc'[t] = "unmark" <=> pc[t] = "unmark"
               /\ t > starts' => pc'[t] = "none"
    PROVE  Inv'
  <1>1. Holders' = Holders
    BY DEF Holders
  <1>2. HeldJobs' = HeldJobs
    BY <1>1 DEF HeldJobs, Holders
  <1>3. HeldWhileHolding'
    BY DEF Inv, HeldWhileHolding
  <1>4. KeysOfLiveJobs' /\ KeysApart' /\ SequencesHandedOut'
    BY <1>1, <1>2 DEF Inv, KeysOfLiveJobs, KeysApart, SequencesHandedOut, queueVars
  <1>. QED
    BY <1>3, <1>4 DEF Inv

-----------------------------------------------------------------------------
\* A job enters the hands of a thread as a Job and leaves as NoJob.
LEMMA HeldType ==
    ASSUME Inv, NEW t \in Threads, pc[t] \in Holding \cup {"unmark"}
    PROVE  held[t] \in Job /\ held[t].key \in JobKeys
  <1>1. held[t] \in Job
    BY DEF Inv, TypeOK, HeldWhileHolding
  <1>. QED
    BY <1>1 DEF Job

\* Every step of _run_loop(), start(), shutdown() and enqueue() keeps the types.
LEMMA TypeStep == Inv /\ [Next]_vars => TypeOK'
  <1>. SUFFICES ASSUME Inv, [Next]_vars PROVE TypeOK'
    OBVIOUS
  <1>. USE DEF TypeOK
  <1>0. TypeOK
    BY DEF Inv
  <1>1. CASE Main
    <2>1. CASE Start
      <3>1. starts' \in 0..MaxStarts
        BY <2>1, <1>0, WorkerAssumption DEF Start
      <3>2. pc' \in [Threads -> LoopPc]
        BY <2>1, <1>0 DEF Start, LoopPc
      <3>. QED
        BY <2>1, <3>1, <3>2, <1>0 DEF Start, BrokerTypeOK, queueVars
    <2>. QED
      BY <1>0, <1>1, <2>1
      DEF Main, ShutdownRequest, ShutdownJoin, ShutdownForget, ShutdownSignal,
          threadVars, mainVars, queueVars, BrokerTypeOK
  <1>2. ASSUME NEW t \in Threads, Loop(t) PROVE TypeOK'
    <2>1. pc' \in [Threads -> LoopPc]
      BY <1>0, <1>2
      DEF Loop, TestStop, ClearIdle, PopJob, PopNone, SetIdle, DispatchUnhandled,
          DispatchHandled, ClearIdleAgain, MarkActive, HandlerEnds, CompleteJob,
          UnmarkActive, Goto, LoopPc, Holding
    <2>2. CASE PopJob(t)
      BY <1>0, <2>1, <2>2
      DEF PopJob, PopNext, BrokerTypeOK, mainVars, Job
    <2>3. CASE DispatchUnhandled(t) \/ CompleteJob(t) \/ UnmarkActive(t)
      BY <1>0, <2>1, <2>3
      DEF DispatchUnhandled, CompleteJob, UnmarkActive, Complete, BrokerTypeOK,
          mainVars, queueVars
    <2>4. CASE MarkActive(t)
      <3>1. held[t].key \in JobKeys
        BY <2>4, HeldType DEF MarkActive, Goto, Holding
      <3>. QED
        BY <1>0, <2>1, <2>4, <3>1 DEF MarkActive, BrokerTypeOK, mainVars, queueVars
    <2>5. CASE \/ TestStop(t) \/ ClearIdle(t) \/ PopNone(t) \/ SetIdle(t)
               \/ DispatchHandled(t) \/ ClearIdleAgain(t) \/ HandlerEnds(t)
      BY <1>0, <2>1, <2>5
      DEF TestStop, ClearIdle, PopNone, SetIdle, DispatchHandled, ClearIdleAgain,
          HandlerEnds, BrokerTypeOK, mainVars, queueVars
    <2>. QED
      BY <1>2, <2>2, <2>3, <2>4, <2>5 DEF Loop
  <1>3. ASSUME NEW c \in CallSites, Submit(c) PROVE TypeOK'
    <2>1. c \in [key : JobKeys, priority : Priorities, work : Work]
      BY WorkerAssumption
    <2>2. [key |-> c.key, priority |-> c.priority, sequence |-> sequence + 1,
           work |-> c.work] \in Job
      BY <1>0, <2>1 DEF BrokerTypeOK, Job
    <2>3. BrokerTypeOK'
      BY <1>0, <1>3, <2>1, <2>2 DEF Submit, Enqueue, BrokerTypeOK
    <2>. QED
      BY <1>0, <1>3, <2>3 DEF Submit, threadVars, mainVars
  <1>4. CASE UNCHANGED vars
    BY <1>0, <1>4 DEF vars, queueVars, threadVars, mainVars, BrokerTypeOK
  <1>. QED
    BY <1>1, <1>2, <1>3, <1>4 DEF Next

-----------------------------------------------------------------------------
\* enqueue(): the accepted key was in neither set, so it is the key of no
\* other live job.
LEMMA SubmitStep ==
    ASSUME Inv, TypeOK', NEW c \in CallSites, Submit(c)
    PROVE  Inv'
  <1>. DEFINE new == [key |-> c.key, priority |-> c.priority,
                      sequence |-> sequence + 1, work |-> c.work]
  <1>1. /\ queue' = queue \cup {new}
        /\ jobKeys' = jobKeys \cup {c.key}
        /\ inflight' = inflight
        /\ sequence' = sequence + 1
        /\ c.key \notin jobKeys
        /\ c.key \notin inflight
        /\ UNCHANGED <<pc, held, starts>>
    BY DEF Submit, Enqueue, Accepts, threadVars, mainVars
  <1>2. new.key = c.key /\ new.sequence = sequence + 1
    OBVIOUS
  <1>3. Holders' = Holders /\ HeldJobs' = HeldJobs
    BY <1>1 DEF Holders, HeldJobs
  <1>4. KeysOfLiveJobs'
    BY <1>1, <1>2, <1>3 DEF Inv, KeysOfLiveJobs
  <1>5. KeysApart'
    <2>1. \A j \in queue : j.key # c.key
      BY <1>1 DEF Inv, KeysOfLiveJobs
    <2>2. \A a, b \in queue' : a.key = b.key => a = b
      BY <1>1, <1>2, <2>1 DEF Inv, KeysApart
    <2>. QED
      BY <1>1, <1>3, <2>2 DEF Inv, KeysApart
  <1>6. SequencesHandedOut'
    <2>1. \A j \in queue : j.sequence \in Nat
      BY DEF Inv, TypeOK, BrokerTypeOK, Job
    <2>. QED
      BY <1>1, <1>2, <2>1 DEF Inv, SequencesHandedOut, TypeOK, BrokerTypeOK
  <1>7. HeldWhileHolding'
    BY <1>1 DEF Inv, HeldWhileHolding
  <1>. QED
    BY <1>4, <1>5, <1>6, <1>7 DEF Inv

\* pop_next(): the key moves from one set to the other with its job.
LEMMA PopStep ==
    ASSUME Inv, TypeOK', NEW t \in Threads, PopJob(t)
    PROVE  Inv'
  <1>1. PICK j \in queue : PopNext(j) /\ held' = [held EXCEPT ![t] = j]
    BY DEF PopJob
  <1>2. /\ pc[t] = "pop"
        /\ pc' = [pc EXCEPT ![t] = "dispatch"]
        /\ starts' = starts
    BY DEF PopJob, Goto, mainVars
  <1>3. /\ queue' = queue \ {j}
        /\ jobKeys' = jobKeys \ {j.key}
        /\ inflight' = inflight \cup {j.key}
        /\ sequence' = sequence
    BY <1>1 DEF PopNext
  <1>4. j \in Job
    BY DEF Inv, TypeOK, BrokerTypeOK
  <1>5. /\ t \notin Holders
        /\ Holders' = Holders \cup {t}
        /\ held'[t] = j
        /\ \A u \in Holders : held'[u] = held[u]
    BY <1>1, <1>2 DEF Inv, TypeOK, Holders, Holding
  <1>6. HeldJobs' = HeldJobs \cup {j}
    BY <1>5 DEF HeldJobs
  <1>7. KeysOfLiveJobs'
    <2>1. \A a \in queue : a.key = j.key => a = j
      BY DEF Inv, KeysApart
    <2>. QED
      BY <1>3, <1>6, <2>1 DEF Inv, KeysOfLiveJobs
  <1>8. KeysApart'
    <2>1. \A u \in Holders : held[u].key \in inflight
      BY DEF Inv, KeysOfLiveJobs, HeldJobs
    <2>2. j.key \in jobKeys /\ j.key \notin inflight
      BY DEF Inv, KeysOfLiveJobs, KeysApart
    <2>3. \A u, v \in Holders' : held'[u].key = held'[v].key => u = v
      BY <1>5, <2>1, <2>2 DEF Inv, KeysApart
    <2>4. jobKeys' \cap inflight' = {}
      BY <1>3 DEF Inv, KeysApart
    <2>. QED
      BY <1>3, <2>3, <2>4 DEF Inv, KeysApart
  <1>9. SequencesHandedOut'
    BY <1>3 DEF Inv, SequencesHandedOut
  <1>10. HeldWhileHolding'
    BY <1>1, <1>2, <1>4, WorkerAssumption
    DEF Inv, TypeOK, HeldWhileHolding, Holding
  <1>. QED
    BY <1>7, <1>8, <1>9, <1>10 DEF Inv

\* complete(): the job leaves the hands of its thread and its key the set.
LEMMA CompleteStep ==
    ASSUME Inv, TypeOK', NEW t \in Threads,
           CompleteJob(t) \/ DispatchUnhandled(t)
    PROVE  Inv'
  <1>1. /\ t \in Holders
        /\ inflight' = inflight \ {held[t].key}
        /\ UNCHANGED <<queue, jobKeys, sequence, starts>>
        /\ \/ pc' = [pc EXCEPT ![t] = "unmark"] /\ held' = held
           \/ pc' = [pc EXCEPT ![t] = "test"] /\ held' = [held EXCEPT ![t] = NoJob]
    BY DEF CompleteJob, DispatchUnhandled, Complete, Goto, Holders, Holding, mainVars
  <1>2. /\ Holders' = Holders \ {t}
        /\ \A u \in Holders \ {t} : held'[u] = held[u]
    BY <1>1 DEF Inv, TypeOK, Holders, Holding
  <1>3. HeldJobs' = {held[u] : u \in Holders \ {t}}
    BY <1>2 DEF HeldJobs
  <1>4. KeysOfLiveJobs'
    <2>1. \A u \in Holders \ {t} : held[u].key # held[t].key
      BY <1>1 DEF Inv, KeysApart
    <2>2. inflight = {held[u].key : u \in Holders}
      BY DEF Inv, KeysOfLiveJobs, HeldJobs
    <2>3. inflight' = {held[u].key : u \in Holders \ {t}}
      BY <1>1, <2>1, <2>2
    <2>4. inflight' = {j.key : j \in HeldJobs'}
      BY <1>3, <2>3
    <2>5. jobKeys' = {j.key : j \in queue'}
      BY <1>1 DEF Inv, KeysOfLiveJobs
    <2>. QED
      BY <2>4, <2>5 DEF KeysOfLiveJobs
  <1>5. KeysApart'
    BY <1>1, <1>2 DEF Inv, KeysApart
  <1>6. SequencesHandedOut'
    BY <1>1 DEF Inv, SequencesHandedOut
  <1>7. HeldWhileHolding'
    BY <1>1 DEF Inv, TypeOK, HeldWhileHolding, Holders, Holding
  <1>. QED
    BY <1>4, <1>5, <1>6, <1>7 DEF Inv

\* The end of a turn of the loop: the job has left the hands with complete(),
\* and only the local variable and the active key are reset.
LEMMA UnmarkStep ==
    ASSUME Inv, TypeOK', NEW t \in Threads, UnmarkActive(t)
    PROVE  Inv'
  <1>1. /\ pc[t] = "unmark"
        /\ pc' = [pc EXCEPT ![t] = "test"]
        /\ held' = [held EXCEPT ![t] = NoJob]
        /\ UNCHANGED <<queueVars, starts>>
    BY DEF UnmarkActive, Goto, mainVars
  <1>2. Holders' = Holders /\ \A u \in Holders : held'[u] = held[u]
    BY <1>1 DEF Inv, TypeOK, Holders, Holding
  <1>3. HeldJobs' = HeldJobs
    BY <1>2 DEF HeldJobs
  <1>4. KeysOfLiveJobs' /\ KeysApart' /\ SequencesHandedOut'
    BY <1>1, <1>2, <1>3
    DEF Inv, KeysOfLiveJobs, KeysApart, SequencesHandedOut, queueVars
  <1>5. HeldWhileHolding'
    BY <1>1 DEF Inv, TypeOK, HeldWhileHolding, Holding
  <1>. QED
    BY <1>4, <1>5 DEF Inv

\* The inductive step, over every action of the threads and of the callers.
LEMMA StepInv == Inv /\ [Next]_vars => Inv'
  <1>. SUFFICES ASSUME Inv, [Next]_vars PROVE Inv'
    OBVIOUS
  <1>0. TypeOK /\ TypeOK'
    BY TypeStep DEF Inv
  <1>1. CASE Main
    <2>1. UNCHANGED <<queueVars, held>> /\ starts' \in {starts, starts + 1}
      BY <1>1
      DEF Main, Start, ShutdownRequest, ShutdownJoin, ShutdownForget,
          ShutdownSignal, threadVars, queueVars
    <2>2. CASE Start
      <3>1. starts \in Nat /\ starts + 1 \in Threads /\ starts' = starts + 1
        BY <1>0, <2>2, WorkerAssumption DEF TypeOK, Start, Threads
      <3>2. pc[starts + 1] = "none" /\ pc' = [pc EXCEPT ![starts + 1] = "test"]
        BY <2>2, <3>1 DEF Inv, HeldWhileHolding, Start
      <3>3. \A t \in Threads :
               /\ pc'[t] \in Holding <=> pc[t] \in Holding
               /\ pc'[t] = "unmark" <=> pc[t] = "unmark"
        BY <1>0, <3>2 DEF TypeOK, Holding
      <3>4. \A t \in Threads : t > starts' => pc'[t] = "none"
        BY <1>0, <3>1, <3>2 DEF Inv, HeldWhileHolding, TypeOK, Threads
      <3>. QED
        BY <1>0, <2>1, <3>3, <3>4, QuietStep
    <2>3. CASE ShutdownRequest \/ ShutdownJoin \/ ShutdownForget \/ ShutdownSignal
      <3>1. pc' = pc /\ starts' = starts
        BY <2>3
        DEF ShutdownRequest, ShutdownJoin, ShutdownForget, ShutdownSignal, threadVars
      <3>. QED
        BY <1>0, <2>1, <3>1, QuietStep DEF Inv, HeldWhileHolding
    <2>. QED
      BY <1>1, <2>2, <2>3 DEF Main
  <1>2. ASSUME NEW t \in Threads, Loop(t) PROVE Inv'
    <2>1. CASE \/ TestStop(t) \/ ClearIdle(t) \/ PopNone(t) \/ SetIdle(t)
               \/ DispatchHandled(t) \/ ClearIdleAgain(t) \/ MarkActive(t)
               \/ HandlerEnds(t)
      <3>1. PICK from, to \in LoopPc :
               /\ pc[t] = from /\ pc' = [pc EXCEPT ![t] = to]
               /\ from \in Holding <=> to \in Holding
               /\ from \notin {"unmark", "none"} /\ to # "unmark"
        BY <2>1
        DEF TestStop, ClearIdle, PopNone, SetIdle, DispatchHandled, ClearIdleAgain,
            MarkActive, HandlerEnds, Goto, Holding, LoopPc
      <3>2. UNCHANGED <<queueVars, held, starts>>
        BY <2>1
        DEF TestStop, ClearIdle, PopNone, SetIdle, DispatchHandled, ClearIdleAgain,
            MarkActive, HandlerEnds, mainVars
      <3>3. \A u \in Threads :
               /\ pc'[u] \in Holding <=> pc[u] \in Holding
               /\ pc'[u] = "unmark" <=> pc[u] = "unmark"
        BY <1>0, <3>1 DEF TypeOK
      <3>4. \A u \in Threads : u > starts' => pc'[u] = "none"
        BY <1>0, <3>1, <3>2 DEF Inv, HeldWhileHolding, TypeOK
      <3>. QED
        BY <1>0, <3>2, <3>3, <3>4, QuietStep
    <2>. QED
      BY <1>0, <1>2, <2>1, PopStep, CompleteStep, UnmarkStep DEF Loop
  <1>3. ASSUME NEW c \in CallSites, Submit(c) PROVE Inv'
    BY <1>0, <1>3, SubmitStep
  <1>4. CASE UNCHANGED vars
    BY <1>0, <1>4, QuietStep
    DEF vars, threadVars, mainVars, Inv, HeldWhileHolding
  <1>. QED
    BY <1>1, <1>2, <1>3, <1>4 DEF Next

-----------------------------------------------------------------------------
\* The strengthened invariant: keys, jobs in hand and sequence numbers agree in
\* every state of the broker and its worker.
THEOREM Invariance == Spec => []Inv
  <1>. QED
    BY InitInv, StepInv, PTL DEF Spec

\* The state always has the declared types: a held job is a queued job's
\* record, a thread is at one of the loop's lines.
THEOREM TypeCorrect == Spec => []TypeOK
  <1>1. Inv => TypeOK
    BY DEF Inv
  <1>. QED
    BY <1>1, Invariance, PTL

\* enqueue() refuses exactly the keys of the jobs that wait or are handled.
THEOREM NoKeyIsLeaked == Spec => []KeysOfLiveJobs
  <1>1. Inv => KeysOfLiveJobs
    BY DEF Inv
  <1>. QED
    BY <1>1, Invariance, PTL

\* Coalescing: no key has two live jobs and no job has two threads.
THEOREM Coalescing == Spec => []OneLiveJobPerKey
  <1>1. ASSUME Inv PROVE OneLiveJobPerKey
    <2>1. \A j \in queue : j.key \in jobKeys
      BY <1>1 DEF Inv, KeysOfLiveJobs
    <2>2. \A j \in HeldJobs : j.key \in inflight
      BY <1>1 DEF Inv, KeysOfLiveJobs
    <2>3. \A a \in queue, b \in HeldJobs : a.key # b.key
      BY <1>1, <2>1, <2>2 DEF Inv, KeysApart
    <2>4. \A a, b \in HeldJobs : a.key = b.key => a = b
      BY <1>1 DEF Inv, KeysApart, HeldJobs
    <2>5. \A a, b \in LiveJobs : a.key = b.key => a = b
      BY <1>1, <2>3, <2>4 DEF Inv, KeysApart, LiveJobs
    <2>6. HeldJobs \cap queue = {}
      BY <2>3
    <2>7. \A t, u \in Holders : held[t] = held[u] => t = u
      BY <1>1 DEF Inv, KeysApart
    <2>. QED
      BY <2>5, <2>6, <2>7 DEF OneLiveJobPerKey
  <1>. QED
    BY <1>1, Invariance, PTL

-----------------------------------------------------------------------------
\* The active key is set by a thread on its own job, and each thread resets it
\* before it lets its job go, so it is never left behind by its owner.
LEMMA ActiveKeyStep == Inv /\ ActiveKeyIsReal /\ [Next]_vars => ActiveKeyIsReal'
  <1>. SUFFICES ASSUME Inv, ActiveKeyIsReal, [Next]_vars, activeKey' # NoKey
                PROVE  \E t \in Threads :
                         /\ pc'[t] \in {"run", "complete", "unmark"}
                         /\ held'[t].key = activeKey'
    BY DEF ActiveKeyIsReal
  <1>0. TypeOK
    BY DEF Inv
  <1>1. ASSUME NEW t \in Threads, Loop(t)
        PROVE  \E u \in Threads :
                 /\ pc'[u] \in {"run", "complete", "unmark"}
                 /\ held'[u].key = activeKey'
    <2>1. CASE MarkActive(t)
      BY <1>0, <2>1 DEF MarkActive, Goto, TypeOK
    <2>2. CASE UnmarkActive(t)
      BY <2>2 DEF UnmarkActive
    <2>3. CASE \/ TestStop(t) \/ ClearIdle(t) \/ PopJob(t) \/ PopNone(t)
               \/ SetIdle(t) \/ DispatchUnhandled(t) \/ DispatchHandled(t)
               \/ ClearIdleAgain(t) \/ HandlerEnds(t) \/ CompleteJob(t)
      <3>1. PICK u \in Threads : /\ pc[u] \in {"run", "complete", "unmark"}
                                 /\ held[u].key = activeKey
        BY <2>3
        DEF ActiveKeyIsReal, TestStop, ClearIdle, PopJob, PopNone, SetIdle,
            DispatchUnhandled, DispatchHandled, ClearIdleAgain, HandlerEnds,
            CompleteJob
      <3>2. activeKey' = activeKey /\ (u # t => pc'[u] = pc[u] /\ held'[u] = held[u])
        BY <1>0, <2>3
        DEF TypeOK, Goto, TestStop, ClearIdle, PopJob, PopNone, SetIdle,
            DispatchUnhandled, DispatchHandled, ClearIdleAgain, HandlerEnds,
            CompleteJob
      <3>3. u = t => pc'[u] \in {"run", "complete", "unmark"} /\ held'[u] = held[u]
        BY <1>0, <2>3, <3>1
        DEF TypeOK, Goto, TestStop, ClearIdle, PopJob, PopNone, SetIdle,
            DispatchUnhandled, DispatchHandled, ClearIdleAgain, HandlerEnds,
            CompleteJob
      <3>. QED
        BY <3>1, <3>2, <3>3
    <2>. QED
      BY <1>1, <2>1, <2>2, <2>3 DEF Loop
  <1>2. CASE Start
    <2>1. starts + 1 \in Threads /\ pc[starts + 1] = "none"
      BY <1>0, <1>2, WorkerAssumption
      DEF Inv, HeldWhileHolding, TypeOK, Start, Threads
    <2>. QED
      BY <1>0, <1>2, <2>1 DEF ActiveKeyIsReal, Start, TypeOK
  <1>3. CASE \/ ShutdownRequest \/ ShutdownJoin \/ ShutdownForget
             \/ ShutdownSignal \/ (\E c \in CallSites : Submit(c))
             \/ UNCHANGED vars
    BY <1>3
    DEF ActiveKeyIsReal, ShutdownRequest, ShutdownJoin, ShutdownForget,
        ShutdownSignal, Submit, vars, threadVars
  <1>. QED
    BY <1>1, <1>2, <1>3 DEF Next, Main

\* The key on the status page is that of a thread at work, for any number of
\* threads that shutdown() has given up on.
THEOREM ActiveKeyTruthful == Spec => []ActiveKeyIsReal
  <1>1. Init => ActiveKeyIsReal
    BY DEF Init, ActiveKeyIsReal
  <1>. QED
    BY <1>1, ActiveKeyStep, Invariance, PTL DEF Spec

-----------------------------------------------------------------------------
(* The lines of JobQueue.                                                  *)

\* What makes a set of jobs a line: each place is some job's, and no two jobs
\* were accepted at once.
Lined(jobs) ==
    /\ IsFiniteSet(jobs)
    /\ \A a, b \in jobs : a.sequence = b.sequence => a = b
    /\ \A i \in 1..Cardinality(jobs) : \E j \in jobs : Place(jobs, j) = i

\* Two jobs have two places.
LEMMA PlacesDiffer ==
    ASSUME NEW jobs \in SUBSET Job, Lined(jobs), NEW a \in jobs, NEW b \in jobs,
           Place(jobs, a) = Place(jobs, b)
    PROVE  a = b
  <1> DEFINE upto(j) == {c \in jobs : c.sequence <= j.sequence}
  <1>1. a.sequence \in Nat /\ b.sequence \in Nat /\ \A c \in jobs : c.sequence \in Nat
    BY DEF Job
  <1>2. \A j \in jobs : IsFiniteSet(upto(j))
    BY FS_Subset DEF Lined
  <1>3. ASSUME NEW c \in jobs, NEW d \in jobs, c.sequence < d.sequence
        PROVE  Place(jobs, c) # Place(jobs, d)
    <2>1. upto(c) \subseteq upto(d) /\ d \in upto(d) /\ d \notin upto(c)
      BY <1>1, <1>3
    <2>2. Cardinality(upto(d)) # Cardinality(upto(c))
      BY <1>2, <2>1, FS_Subset
    <2> QED  BY <2>2 DEF Place
  <1>4. a.sequence = b.sequence
    BY <1>1, <1>3
  <1> QED  BY <1>4 DEF Lined

\* Where a job is found in its line.
LEMMA LineAt ==
    ASSUME NEW jobs \in SUBSET Job, Lined(jobs), NEW j \in jobs,
           NEW i \in 1..Cardinality(jobs), Place(jobs, j) = i
    PROVE  Line(jobs)[i] = j.key
  <1>1. (CHOOSE c \in jobs : Place(jobs, c) = i) = j
    BY PlacesDiffer
  <1> QED  BY <1>1 DEF Line

\* A line is a sequence of keys, as long as it has jobs.
LEMMA LineType ==
    ASSUME NEW jobs \in SUBSET Job, Lined(jobs)
    PROVE  /\ Cardinality(jobs) \in Nat
           /\ Line(jobs) \in Seq(JobKeys)
           /\ Len(Line(jobs)) = Cardinality(jobs)
           /\ Line(jobs) = <<>> <=> jobs = {}
  <1>1. Cardinality(jobs) \in Nat
    BY FS_CardinalityType DEF Lined
  <1>2. \A i \in 1..Cardinality(jobs) : Line(jobs)[i] \in JobKeys
    BY LineAt DEF Lined, Job
  <1>3. Line(jobs) \in [1..Cardinality(jobs) -> JobKeys]
    BY <1>2 DEF Line
  <1>4. Line(jobs) \in Seq(JobKeys) /\ Len(Line(jobs)) = Cardinality(jobs)
    BY <1>1, <1>3
  <1>5. Line(jobs) = <<>> <=> Len(Line(jobs)) = 0
    BY <1>4, EmptySeq
  <1>6. Cardinality(jobs) = 0 <=> jobs = {}
    BY FS_EmptySet DEF Lined
  <1> QED  BY <1>1, <1>4, <1>5, <1>6

\* A job that is accepted goes to the end of its line.
LEMMA LineJoined ==
    ASSUME NEW jobs \in SUBSET Job, Lined(jobs), NEW new \in Job,
           \A j \in jobs : j.sequence < new.sequence
    PROVE  /\ Lined(jobs \cup {new})
           /\ Line(jobs \cup {new}) = Append(Line(jobs), new.key)
  <1> DEFINE all == jobs \cup {new}
             n == Cardinality(jobs)
  <1>1. new \notin jobs /\ new.sequence \in Nat /\ \A j \in jobs : j.sequence \in Nat
    BY DEF Job
  <1>2. IsFiniteSet(all) /\ Cardinality(all) = n + 1 /\ n \in Nat
    BY <1>1, FS_AddElement, LineType DEF Lined
  <1>3. \A j \in jobs : Place(all, j) = Place(jobs, j)
    <2> SUFFICES ASSUME NEW j \in jobs PROVE Place(all, j) = Place(jobs, j)
      OBVIOUS
    <2>1. {c \in all : c.sequence <= j.sequence} = {c \in jobs : c.sequence <= j.sequence}
      BY <1>1
    <2> QED  BY <2>1 DEF Place
  <1>4. Place(all, new) = n + 1
    <2>1. {c \in all : c.sequence <= new.sequence} = all
      BY <1>1
    <2> QED  BY <1>2, <2>1 DEF Place
  <1>5. \A a, b \in all : a.sequence = b.sequence => a = b
    BY <1>1 DEF Lined
  <1>6. \A i \in 1..(n + 1) : \E j \in all : Place(all, j) = i
    <2> SUFFICES ASSUME NEW i \in 1..(n + 1) PROVE \E j \in all : Place(all, j) = i
      OBVIOUS
    <2>1. CASE i = n + 1
      BY <1>4, <2>1
    <2>2. CASE i # n + 1
      <3>1. i \in 1..n
        BY <1>2, <2>2
      <3>2. PICK j \in jobs : Place(jobs, j) = i
        BY <3>1 DEF Lined
      <3> QED  BY <1>3, <3>2
    <2> QED  BY <2>1, <2>2
  <1>7. Lined(all)
    BY <1>2, <1>5, <1>6 DEF Lined
  <1>8. /\ Line(all) \in Seq(JobKeys) /\ Len(Line(all)) = n + 1
        /\ Line(jobs) \in Seq(JobKeys) /\ Len(Line(jobs)) = n
        /\ new.key \in JobKeys
    BY <1>2, <1>7, LineType DEF Job
  <1>9. \A i \in 1..n : Line(all)[i] = Line(jobs)[i]
    <2> SUFFICES ASSUME NEW i \in 1..n PROVE Line(all)[i] = Line(jobs)[i]
      OBVIOUS
    <2>1. PICK j \in jobs : Place(jobs, j) = i
      BY DEF Lined
    <2>2. Line(jobs)[i] = j.key
      BY <2>1, LineAt
    <2>3. i \in 1..Cardinality(all) /\ Place(all, j) = i
      BY <1>2, <1>3, <2>1
    <2>4. all \in SUBSET Job
      OBVIOUS
    <2>5. Line(all)[i] = j.key
      BY <1>7, <2>3, <2>4, LineAt
    <2> QED  BY <2>2, <2>5
  <1>10. Line(all)[n + 1] = new.key
    BY <1>2, <1>4, <1>7, LineAt
  <1>11. /\ Append(Line(jobs), new.key) \in Seq(JobKeys)
         /\ Len(Append(Line(jobs), new.key)) = n + 1
         /\ \A i \in 1..n : Append(Line(jobs), new.key)[i] = Line(jobs)[i]
         /\ Append(Line(jobs), new.key)[n + 1] = new.key
    BY <1>8, AppendProperties
  <1>12. \A i \in 1..(n + 1) : Line(all)[i] = Append(Line(jobs), new.key)[i]
    <2> SUFFICES ASSUME NEW i \in 1..(n + 1)
                 PROVE  Line(all)[i] = Append(Line(jobs), new.key)[i]
      OBVIOUS
    <2>1. i = n + 1 \/ i \in 1..n
      BY <1>2
    <2> QED  BY <1>9, <1>10, <1>11, <2>1
  <1>13. Line(all) = Append(Line(jobs), new.key)
    BY <1>8, <1>11, <1>12, SeqEqual
  <1> QED  BY <1>7, <1>13

\* The job that was accepted first is the head of its line.
LEMMA LineLeft ==
    ASSUME NEW jobs \in SUBSET Job, Lined(jobs), NEW first \in jobs,
           \A j \in jobs \ {first} : first.sequence < j.sequence
    PROVE  /\ Lined(jobs \ {first})
           /\ Line(jobs) # <<>>
           /\ Head(Line(jobs)) = first.key
           /\ Line(jobs \ {first}) = Tail(Line(jobs))
  <1> DEFINE rest == jobs \ {first}
             n == Cardinality(jobs)
  <1>1. first.sequence \in Nat /\ \A j \in jobs : j.sequence \in Nat
    BY DEF Job
  <1>2. IsFiniteSet(rest) /\ Cardinality(rest) = n - 1 /\ n \in Nat \ {0}
    BY FS_RemoveElement, FS_EmptySet, LineType DEF Lined
  <1>3. \A j \in rest : Place(jobs, j) = Place(rest, j) + 1 /\ Place(rest, j) \in Nat
    <2> SUFFICES ASSUME NEW j \in rest
                 PROVE  Place(jobs, j) = Place(rest, j) + 1 /\ Place(rest, j) \in Nat
      OBVIOUS
    <2> DEFINE before == {c \in rest : c.sequence <= j.sequence}
    <2>1. {c \in jobs : c.sequence <= j.sequence} = before \cup {first} /\ first \notin before
      BY <1>1
    <2>2. IsFiniteSet(before) /\ Cardinality(before) \in Nat
      BY <1>2, FS_Subset, FS_CardinalityType
    <2>3. Cardinality(before \cup {first}) = Cardinality(before) + 1
      BY <2>1, <2>2, FS_AddElement
    <2> QED  BY <2>1, <2>2, <2>3 DEF Place
  <1>4. Place(jobs, first) = 1
    <2>1. {c \in jobs : c.sequence <= first.sequence} = {first}
      BY <1>1
    <2> QED  BY <2>1, FS_Singleton DEF Place
  <1>5. \A i \in 1..(n - 1) : \E j \in rest : Place(rest, j) = i /\ Place(jobs, j) = i + 1
    <2> SUFFICES ASSUME NEW i \in 1..(n - 1)
                 PROVE  \E j \in rest : Place(rest, j) = i /\ Place(jobs, j) = i + 1
      OBVIOUS
    <2>1. i + 1 \in 1..n
      BY <1>2
    <2>2. PICK j \in jobs : Place(jobs, j) = i + 1
      BY <2>1 DEF Lined
    <2>3. j # first
      BY <1>2, <1>4, <2>2
    <2>4. Place(rest, j) \in Nat /\ Place(rest, j) + 1 = i + 1
      BY <1>3, <2>2, <2>3
    <2>5. Place(rest, j) = i
      BY <2>4
    <2> QED  BY <2>2, <2>3, <2>5
  <1>6. Lined(rest)
    BY <1>2, <1>5 DEF Lined
  <1>7. /\ Line(jobs) \in Seq(JobKeys) /\ Len(Line(jobs)) = n /\ Line(jobs) # <<>>
        /\ Line(rest) \in Seq(JobKeys) /\ Len(Line(rest)) = n - 1
    BY <1>2, <1>6, LineType
  <1>8. Line(jobs)[1] = first.key
    BY <1>2, <1>4, LineAt
  <1>9. Head(Line(jobs)) = first.key
    BY <1>7, <1>8
  <1>10. /\ Tail(Line(jobs)) \in Seq(JobKeys) /\ Len(Tail(Line(jobs))) = n - 1
         /\ \A i \in 1..(n - 1) : Tail(Line(jobs))[i] = Line(jobs)[i + 1]
    BY <1>7, HeadTailProperties
  <1>11. \A i \in 1..(n - 1) : Line(rest)[i] = Line(jobs)[i + 1]
    <2> SUFFICES ASSUME NEW i \in 1..(n - 1) PROVE Line(rest)[i] = Line(jobs)[i + 1]
      OBVIOUS
    <2>1. PICK j \in rest : Place(rest, j) = i /\ Place(jobs, j) = i + 1
      BY <1>5
    <2>2. i + 1 \in 1..Cardinality(jobs) /\ i \in 1..Cardinality(rest)
      BY <1>2
    <2>3. Line(rest)[i] = j.key
      BY <1>6, <2>1, <2>2, LineAt
    <2>4. Line(jobs)[i + 1] = j.key
      BY <2>1, <2>2, LineAt
    <2> QED  BY <2>3, <2>4
  <1>12. Line(rest) = Tail(Line(jobs))
    BY <1>7, <1>10, <1>11, SeqEqual
  <1> QED  BY <1>6, <1>7, <1>9, <1>12

\* The jobs of each priority form a line.
HeapIsLined == \A p \in Priorities : Lined(Peers(p))

Waiting == [p \in Priorities |-> Line(Peers(p))]

\* The line of a priority after a step, given its jobs after the step.
LEMMA LineAfter ==
    ASSUME NEW p, NEW jobs, Peers(p)' = jobs
    PROVE  Line(Peers(p))' = Line(jobs) /\ (Lined(Peers(p))' <=> Lined(jobs))
  BY DEF Line, Lined, Place

\* Where the heap stays, the lines stay.
LEMMA SameLines ==
    ASSUME HeapIsLined, UNCHANGED queue PROVE HeapIsLined' /\ Waiting' = Waiting
  BY DEF HeapIsLined, Waiting, Peers, Line, Lined, Place

\* The jobs of a priority are jobs of the heap.
LEMMA PeersAreJobs ==
    ASSUME Inv, NEW p \in Priorities PROVE Peers(p) \in SUBSET Job
  BY DEF Inv, TypeOK, BrokerTypeOK, Peers

\* Whoever waits in a line has a queued job.
LEMMA InLineIsQueued ==
    ASSUME Inv, HeapIsLined, NEW k, Lines!InLine(k) PROVE k \in jobKeys
  <1>0. PICK p \in Priorities : \E i \in DOMAIN Waiting[p] : Waiting[p][i] = k
    BY DEF Lines!InLine, Lines!Lines, Priorities, Waiting
  <1>1. PICK i \in DOMAIN Waiting[p] : Waiting[p][i] = k
    BY <1>0
  <1>2. Waiting[p] = Line(Peers(p)) /\ Lined(Peers(p)) /\ Peers(p) \in SUBSET Job
    BY PeersAreJobs DEF Waiting, HeapIsLined
  <1>3. i \in 1..Cardinality(Peers(p))
    BY <1>1, <1>2 DEF Line
  <1>4. PICK j \in Peers(p) : Place(Peers(p), j) = i
    BY <1>2, <1>3 DEF Lined
  <1>5. j.key = k
    BY <1>1, <1>2, <1>3, <1>4, LineAt
  <1> QED  BY <1>5 DEF Peers, Inv, KeysOfLiveJobs

\* enqueue() joins a line.
LEMMA SubmitJoins ==
    ASSUME Inv, HeapIsLined, NEW c \in CallSites, Submit(c)
    PROVE  HeapIsLined' /\ Lines!Join(c.key, c.priority)
  <1> DEFINE new == [key |-> c.key, priority |-> c.priority,
                     sequence |-> sequence + 1, work |-> c.work]
  <1>1. /\ queue' = queue \cup {new} /\ inflight' = inflight
        /\ c.key \notin jobKeys /\ c.key \notin inflight
    BY DEF Submit, Enqueue, Accepts
  <1>2. c \in [key : JobKeys, priority : Priorities, work : Work] /\ sequence \in Nat
    BY WorkerAssumption DEF Inv, TypeOK, BrokerTypeOK
  <1>3. new \in Job /\ new.key = c.key /\ new.priority = c.priority
        /\ new.sequence = sequence + 1
    BY <1>2 DEF Job
  <1>4. \A j \in queue : j.sequence < new.sequence
    BY <1>2, <1>3 DEF Inv, SequencesHandedOut, TypeOK, BrokerTypeOK, Job
  <1> PICK p \in Priorities : p = c.priority
    BY <1>2
  <1> PICK k \in JobKeys : k = c.key
    BY <1>2
  <1> HIDE DEF new
  <1>5. PICK jobs : jobs = Peers(p) \cup {new}
    OBVIOUS
  <1>6. Peers(p)' = jobs
    BY <1>1, <1>3, <1>5 DEF Peers
  <1>7. Lined(jobs) /\ Line(jobs) = Append(Line(Peers(p)), k)
    <2>1. Peers(p) \in SUBSET Job /\ Lined(Peers(p)) /\ \A j \in Peers(p) : j.sequence < new.sequence
      BY <1>4, PeersAreJobs DEF HeapIsLined, Peers
    <2> QED  BY <1>3, <1>5, <2>1, LineJoined
  <1>8. Lined(Peers(p))' /\ Line(Peers(p))' = Append(Line(Peers(p)), k)
    BY <1>6, <1>7, LineAfter
  <1>9. \A q \in Priorities \ {p} : Lined(Peers(q))' /\ Line(Peers(q))' = Line(Peers(q))
    <2> SUFFICES ASSUME NEW q \in Priorities \ {p}
                 PROVE  Lined(Peers(q))' /\ Line(Peers(q))' = Line(Peers(q))
      OBVIOUS
    <2>1. PICK others : others = Peers(q)
      OBVIOUS
    <2>2. Peers(q)' = others
      BY <1>1, <1>3, <2>1 DEF Peers
    <2> QED  BY <2>1, <2>2, LineAfter DEF HeapIsLined
  <1>10. HeapIsLined'
    BY <1>8, <1>9 DEF HeapIsLined
  <1>11. Waiting' = [Waiting EXCEPT ![p] = Append(@, k)]
    BY <1>8, <1>9 DEF Waiting
  <1>12. ~Lines!InLine(k)
    BY <1>1, InLineIsQueued
  <1> QED  BY <1>1, <1>10, <1>11, <1>12 DEF Lines!Join, Waiting

\* pop_next() serves the head of the most urgent line.
LEMMA PopServes ==
    ASSUME Inv, HeapIsLined, NEW t \in Threads, PopJob(t)
    PROVE  HeapIsLined' /\ \E p \in Priorities : Lines!Serve(p)
  <1>1. PICK j \in queue : PopNext(j)
    BY DEF PopJob
  <1>2. /\ queue' = queue \ {j} /\ inflight' = inflight \cup {j.key}
        /\ \A other \in queue \ {j} : Before(j, other)
    BY <1>1 DEF PopNext
  <1>3. queue \subseteq Job /\ j \in Job /\ j.priority \in Priorities
    BY DEF Inv, TypeOK, BrokerTypeOK, Job
  <1> PICK p \in Priorities : p = j.priority
    BY <1>3
  <1>4. PICK rest : rest = Peers(p) \ {j}
    OBVIOUS
  <1>5. Peers(p)' = rest
    BY <1>2, <1>4 DEF Peers
  <1>6. /\ Lined(rest) /\ Line(Peers(p)) # <<>> /\ Head(Line(Peers(p))) = j.key
        /\ Line(rest) = Tail(Line(Peers(p)))
    <2>1. j \in Peers(p) /\ Lined(Peers(p)) /\ Peers(p) \in SUBSET Job
      BY PeersAreJobs DEF Peers, HeapIsLined
    <2>2. \A other \in Peers(p) \ {j} : j.sequence < other.sequence
      BY <1>2, <1>3 DEF Peers, Before, Job, Priorities
    <2> QED  BY <1>4, <2>1, <2>2, LineLeft
  <1>7. Lined(Peers(p))' /\ Line(Peers(p))' = Tail(Line(Peers(p)))
    BY <1>5, <1>6, LineAfter
  <1>8. \A q \in Priorities \ {p} : Lined(Peers(q))' /\ Line(Peers(q))' = Line(Peers(q))
    <2> SUFFICES ASSUME NEW q \in Priorities \ {p}
                 PROVE  Lined(Peers(q))' /\ Line(Peers(q))' = Line(Peers(q))
      OBVIOUS
    <2>1. PICK others : others = Peers(q)
      OBVIOUS
    <2>2. Peers(q)' = others
      BY <1>2, <2>1 DEF Peers
    <2> QED  BY <2>1, <2>2, LineAfter DEF HeapIsLined
  <1>9. \A q \in Priorities : q < p => Waiting[q] = <<>>
    <2> SUFFICES ASSUME NEW q \in Priorities, q < p PROVE Waiting[q] = <<>>
      OBVIOUS
    <2>1. Peers(q) = {}
      BY <1>2, <1>3 DEF Peers, Before, Job, Priorities
    <2>2. Lined(Peers(q)) /\ Peers(q) \in SUBSET Job
      BY PeersAreJobs DEF HeapIsLined
    <2> QED  BY <2>1, <2>2, LineType DEF Waiting
  <1>10. HeapIsLined'
    BY <1>7, <1>8 DEF HeapIsLined
  <1>11. /\ Waiting[p] # <<>> /\ Head(Waiting[p]) = j.key
         /\ Waiting' = [Waiting EXCEPT ![p] = Tail(@)]
    BY <1>6, <1>7, <1>8 DEF Waiting
  <1>12. Lines!Serve(p)
    BY <1>2, <1>9, <1>11 DEF Lines!Serve, Lines!Lines, Waiting, Priorities
  <1> QED  BY <1>10, <1>12

\* complete() gives the key of the job in hand back.
LEMMA CompleteGivesBack ==
    ASSUME Inv, HeapIsLined, NEW t \in Threads, CompleteJob(t) \/ DispatchUnhandled(t)
    PROVE  HeapIsLined' /\ \E k \in JobKeys : Lines!GiveBack(k)
  <1>1. /\ t \in Holders /\ UNCHANGED queue
        /\ inflight' = inflight \ {held[t].key}
    BY DEF CompleteJob, DispatchUnhandled, Complete, Goto, Holders, Holding
  <1>2. PICK k \in JobKeys : k = held[t].key
    BY <1>1, HeldType DEF Holders
  <1>3. k \in inflight
    BY <1>1, <1>2 DEF Inv, KeysOfLiveJobs, HeldJobs
  <1>4. HeapIsLined' /\ Waiting' = Waiting
    BY <1>1, SameLines
  <1>5. Lines!GiveBack(k)
    BY <1>1, <1>2, <1>3, <1>4 DEF Lines!GiveBack, Waiting
  <1> QED  BY <1>4, <1>5

\* At the start every line is empty and nothing is served.
LEMMA LinesInit == Init => HeapIsLined /\ Lines!Init
  <1> SUFFICES ASSUME Init PROVE HeapIsLined /\ Lines!Init
    OBVIOUS
  <1>1. \A p \in Priorities : Peers(p) = {}
    BY DEF Init, BrokerInit, Peers
  <1>2. Lined({})
    BY FS_EmptySet DEF Lined
  <1>3. Line({}) = <<>>
    BY <1>2, LineType
  <1>4. HeapIsLined /\ Waiting = [p \in Priorities |-> <<>>]
    BY <1>1, <1>2, <1>3 DEF HeapIsLined, Waiting
  <1> QED  BY <1>4 DEF Init, BrokerInit, Lines!Init, Lines!Lines, Priorities, Waiting

\* enqueue() joins a line, pop_next() serves the most urgent one, complete() gives
\* its key back, and every other step of the threads leaves the lines alone.
LEMMA LinesStep ==
    Inv /\ HeapIsLined /\ [Next]_vars => HeapIsLined' /\ [Lines!Next]_(Lines!vars)
  <1> SUFFICES ASSUME Inv, HeapIsLined, [Next]_vars
               PROVE  HeapIsLined' /\ [Lines!Next]_(Lines!vars)
    OBVIOUS
  <1> USE DEF Lines!Next, Lines!Lines, Priorities
  <1>1. ASSUME NEW c \in CallSites, Submit(c) PROVE HeapIsLined' /\ Lines!Next
    <2>1. c.key \in JobKeys /\ c.priority \in Priorities
      BY WorkerAssumption
    <2> QED  BY <1>1, <2>1, SubmitJoins
  <1>2. ASSUME NEW t \in Threads, PopJob(t) PROVE HeapIsLined' /\ Lines!Next
    BY <1>2, PopServes
  <1>3. ASSUME NEW t \in Threads, CompleteJob(t) \/ DispatchUnhandled(t)
        PROVE  HeapIsLined' /\ Lines!Next
    BY <1>3, CompleteGivesBack
  <1>4. CASE UNCHANGED <<queue, inflight>>
    <2>1. HeapIsLined' /\ Waiting' = Waiting
      BY <1>4, SameLines
    <2> QED  BY <1>4, <2>1 DEF Lines!vars, Waiting
  <1>5. ASSUME NEW t \in Threads, Loop(t)
        PROVE  \/ UNCHANGED <<queue, inflight>>
               \/ PopJob(t) \/ CompleteJob(t) \/ DispatchUnhandled(t)
    BY <1>5 DEF Loop, TestStop, ClearIdle, PopNone, SetIdle, DispatchHandled,
                ClearIdleAgain, MarkActive, HandlerEnds, UnmarkActive, queueVars
  <1>6. ASSUME Main \/ UNCHANGED vars PROVE UNCHANGED <<queue, inflight>>
    BY <1>6 DEF Main, Start, ShutdownRequest, ShutdownJoin, ShutdownForget, ShutdownSignal,
                vars, queueVars
  <1> QED  BY <1>1, <1>2, <1>3, <1>4, <1>5, <1>6 DEF Next

\* The heap, the two key sets, the threads of any number of starts and every
\* caller together behave like three first-come-first-served lines, of which
\* the most urgent one is served and in which no key waits twice.
THEOREM Refinement == Spec => ImplementsJobQueue
  BY LinesInit, LinesStep, Invariance, PTL DEF Spec, ImplementsJobQueue, Lines!Spec

-----------------------------------------------------------------------------
(* wait_for_idle().                                                        *)

\* shutdown() sets the stop event first and start() clears it.
StopFollowsMain ==
    /\ starts = 0 => mainPc = "down" /\ ~stopEvent
    /\ starts # 0 /\ mainPc # "up" => stopEvent

\* While the first thread runs alone, the event is set only between an empty
\* pop_next() and the next look at the queue.
IdleEventMeansEmptyHanded ==
    starts = 1 /\ ~stopEvent /\ idleEvent => pc[1] \in {"test", "clear", "dead"}

\* An empty backlog leaves nothing from before the call in the queue.
BacklogSeenEmpty ==
    /\ mark <= sequence
    /\ waitPc = "idle" /\ ~seenBacklog => \A j \in queue : j.sequence > mark

WaitInv ==
    /\ Inv
    /\ WaitTypeOK
    /\ StopFollowsMain
    /\ IdleEventMeansEmptyHanded
    /\ BacklogSeenEmpty
    /\ IdleMeansHandled

-----------------------------------------------------------------------------
\* Nobody waits at the start.
LEMMA WaitInitInv == WaitInit => WaitInv
  <1>. SUFFICES ASSUME WaitInit PROVE WaitInv
    OBVIOUS
  <1>1. Inv
    BY InitInv DEF WaitInit
  <1>2. /\ StopFollowsMain /\ IdleEventMeansEmptyHanded /\ BacklogSeenEmpty
        /\ IdleMeansHandled
    BY DEF WaitInit, Init, BrokerInit, StopFollowsMain, IdleEventMeansEmptyHanded,
           BacklogSeenEmpty, IdleMeansHandled
  <1>3. WaitTypeOK
    BY <1>1 DEF WaitInit, WaitTypeOK, Inv
  <1>. QED
    BY <1>1, <1>2, <1>3 DEF WaitInv

\* A step of the worker, of the main thread or of an enqueuer.
LEMMA WorkerStep ==
    ASSUME WaitInv, Next, UNCHANGED waitVars
    PROVE  WaitInv'
  <1>0. Inv /\ Inv' /\ TypeOK /\ TypeOK'
    BY StepInv DEF WaitInv, Inv
  <1>1. WaitTypeOK'
    BY <1>0 DEF WaitInv, WaitTypeOK, waitVars
  <1>2. StopFollowsMain'
    BY <1>0
    DEF WaitInv, StopFollowsMain, TypeOK, Next, Main, Start, ShutdownRequest,
        ShutdownJoin, ShutdownForget, ShutdownSignal, Loop, TestStop, ClearIdle,
        PopJob, PopNone, SetIdle, DispatchUnhandled, DispatchHandled,
        ClearIdleAgain, MarkActive, HandlerEnds, CompleteJob, UnmarkActive,
        Submit, mainVars
  <1>3. IdleEventMeansEmptyHanded'
    <2>. SUFFICES ASSUME starts' = 1, ~stopEvent', idleEvent'
                  PROVE  pc'[1] \in {"test", "clear", "dead"}
      BY DEF IdleEventMeansEmptyHanded
    <2>1. CASE Start
      BY <1>0, <2>1 DEF Start, TypeOK, Threads
    <2>2. CASE ShutdownRequest \/ ShutdownJoin \/ ShutdownForget \/ ShutdownSignal
      BY <2>2
      DEF WaitInv, StopFollowsMain, IdleEventMeansEmptyHanded, ShutdownRequest,
          ShutdownJoin, ShutdownForget, ShutdownSignal, threadVars
    <2>3. ASSUME NEW t \in Threads, Loop(t)
          PROVE  pc'[1] \in {"test", "clear", "dead"}
      <3>0. UNCHANGED mainVars
        BY <2>3
        DEF Loop, TestStop, ClearIdle, PopJob, PopNone, SetIdle, DispatchUnhandled,
            DispatchHandled, ClearIdleAgain, MarkActive, HandlerEnds, CompleteJob,
            UnmarkActive
      <3>1. starts = 1 /\ ~stopEvent
        BY <3>0 DEF mainVars
      <3>2. pc[t] # "none"
        BY <2>3
        DEF Loop, TestStop, ClearIdle, PopJob, PopNone, SetIdle, DispatchUnhandled,
            DispatchHandled, ClearIdleAgain, MarkActive, HandlerEnds, CompleteJob,
            UnmarkActive, Goto
      <3>3. t = 1
        BY <1>0, <3>1, <3>2 DEF Inv, HeldWhileHolding, TypeOK, Threads
      <3>4. CASE SetIdle(t) \/ ClearIdle(t) \/ ClearIdleAgain(t)
        BY <1>0, <3>3, <3>4 DEF SetIdle, ClearIdle, ClearIdleAgain, Goto, TypeOK
      <3>5. CASE \/ TestStop(t) \/ PopJob(t) \/ PopNone(t) \/ DispatchUnhandled(t)
                 \/ DispatchHandled(t) \/ MarkActive(t) \/ HandlerEnds(t)
                 \/ CompleteJob(t) \/ UnmarkActive(t)
        <4>1. idleEvent /\ pc[1] \in {"test", "clear", "dead"}
          BY <3>1, <3>5
          DEF WaitInv, IdleEventMeansEmptyHanded, TestStop, PopJob, PopNone,
              DispatchUnhandled, DispatchHandled, MarkActive, HandlerEnds,
              CompleteJob, UnmarkActive
        <4>. QED
          BY <1>0, <3>1, <3>3, <3>5, <4>1
          DEF TestStop, PopJob, PopNone, DispatchUnhandled, DispatchHandled,
              MarkActive, HandlerEnds, CompleteJob, UnmarkActive, Goto, TypeOK
      <3>. QED
        BY <2>3, <3>4, <3>5 DEF Loop
    <2>4. ASSUME NEW c \in CallSites, Submit(c)
          PROVE  pc'[1] \in {"test", "clear", "dead"}
      BY <2>4
      DEF WaitInv, IdleEventMeansEmptyHanded, Submit, threadVars, mainVars
    <2>. QED
      BY <2>1, <2>2, <2>3, <2>4 DEF Next, Main
  <1>4. /\ sequence' \in Nat /\ sequence' >= sequence
        /\ \A j \in LiveJobs' : j \in LiveJobs \/ j.sequence = sequence + 1
        /\ \A j \in queue' : j \in queue \/ j.sequence = sequence + 1
    <2>1. CASE Main
      <3>1. UNCHANGED <<queueVars, held>>
        BY <2>1
        DEF Main, Start, ShutdownRequest, ShutdownJoin, ShutdownForget,
            ShutdownSignal, threadVars, queueVars
      <3>2. \A t \in Threads : pc'[t] \in Holding => pc[t] \in Holding
        BY <1>0, <2>1
        DEF Main, Start, ShutdownRequest, ShutdownJoin, ShutdownForget,
            ShutdownSignal, threadVars, Holding, TypeOK
      <3>. QED
        BY <1>0, <3>1, <3>2
        DEF queueVars, LiveJobs, HeldJobs, Holders, TypeOK, BrokerTypeOK
    <2>2. ASSUME NEW t \in Threads, PopJob(t)
          PROVE  /\ sequence' = sequence
                 /\ queue' \subseteq queue /\ LiveJobs' \subseteq LiveJobs
      <3>1. PICK j \in queue : PopNext(j) /\ held' = [held EXCEPT ![t] = j]
        BY <2>2 DEF PopJob
      <3>2. HeldJobs' \subseteq HeldJobs \cup {j}
        BY <1>0, <2>2, <3>1 DEF PopJob, Goto, HeldJobs, Holders, TypeOK
      <3>. QED
        BY <3>1, <3>2 DEF PopNext, LiveJobs
    <2>3. ASSUME NEW t \in Threads, Loop(t), ~PopJob(t)
          PROVE  /\ sequence' = sequence
                 /\ queue' = queue /\ LiveJobs' \subseteq LiveJobs
      <3>1. sequence' = sequence /\ queue' = queue
        BY <2>3
        DEF Loop, TestStop, ClearIdle, PopNone, SetIdle, DispatchUnhandled,
            DispatchHandled, ClearIdleAgain, MarkActive, HandlerEnds, CompleteJob,
            UnmarkActive, Complete, queueVars
      <3>2. \A u \in Holders' : u \in Holders /\ held'[u] = held[u]
        BY <1>0, <2>3
        DEF Loop, TestStop, ClearIdle, PopNone, SetIdle, DispatchUnhandled,
            DispatchHandled, ClearIdleAgain, MarkActive, HandlerEnds, CompleteJob,
            UnmarkActive, Goto, Holders, Holding, TypeOK
      <3>. QED
        BY <3>1, <3>2 DEF LiveJobs, HeldJobs
    <2>4. ASSUME NEW c \in CallSites, Submit(c)
          PROVE  /\ sequence' = sequence + 1
                 /\ \A j \in queue' : j \in queue \/ j.sequence = sequence + 1
                 /\ HeldJobs' = HeldJobs
      BY <2>4 DEF Submit, Enqueue, threadVars, HeldJobs, Holders
    <2>5. sequence \in Nat
      BY <1>0 DEF TypeOK, BrokerTypeOK
    <2>6. queue \subseteq LiveJobs
      BY DEF LiveJobs
    <2>. QED
      BY <2>1, <2>2, <2>3, <2>4, <2>5, <2>6 DEF Next, LiveJobs
  <1>5. mark \in Nat /\ sequence \in Nat /\ mark <= sequence
    BY <1>0 DEF WaitInv, WaitTypeOK, BacklogSeenEmpty, TypeOK, BrokerTypeOK
  <1>6. BacklogSeenEmpty'
    BY <1>4, <1>5 DEF WaitInv, BacklogSeenEmpty, waitVars
  <1>7. IdleMeansHandled'
    <2>. SUFFICES ASSUME waitPc' = "true", starts' <= 1, ~stopEvent'
                  PROVE  \A j \in LiveJobs' : j.sequence > mark'
      BY DEF IdleMeansHandled
    <2>1. starts <= 1 /\ ~stopEvent
      <3>1. CASE Start
        BY <1>0, <3>1 DEF WaitInv, StopFollowsMain, Start, TypeOK
      <3>2. CASE ShutdownRequest \/ ShutdownJoin \/ ShutdownForget \/ ShutdownSignal
        BY <3>2
        DEF ShutdownRequest, ShutdownJoin, ShutdownForget, ShutdownSignal
      <3>3. CASE (\E t \in Threads : Loop(t)) \/ (\E c \in CallSites : Submit(c))
        <4>1. UNCHANGED mainVars
          BY <3>3
          DEF Loop, TestStop, ClearIdle, PopJob, PopNone, SetIdle,
              DispatchUnhandled, DispatchHandled, ClearIdleAgain, MarkActive,
              HandlerEnds, CompleteJob, UnmarkActive, Submit
        <4>. QED
          BY <4>1 DEF mainVars
      <3>. QED
        BY <3>1, <3>2, <3>3 DEF Next, Main
    <2>2. waitPc = "true" /\ mark' = mark
      BY DEF waitVars
    <2>3. \A j \in LiveJobs : j.sequence > mark
      BY <2>1, <2>2 DEF WaitInv, IdleMeansHandled
    <2>. QED
      BY <1>4, <1>5, <2>2, <2>3
  <1>. QED
    BY <1>0, <1>1, <1>2, <1>3, <1>6, <1>7 DEF WaitInv

\* A step of the caller: answering True takes an event that is set, at which
\* the only thread is empty-handed, and a backlog that has been empty since
\* the call.
LEMMA CallerStep ==
    ASSUME WaitInv, Wait, UNCHANGED vars
    PROVE  WaitInv'
  <1>0. /\ UNCHANGED <<queueVars, idleEvent, activeKey, threadVars, mainVars>>
        /\ UNCHANGED <<queue, jobKeys, inflight, sequence, idleEvent, activeKey,
                       pc, held, starts, mainPc, stopEvent>>
    BY DEF vars, queueVars, threadVars, mainVars
  <1>1. Inv' /\ TypeOK'
    BY StepInv DEF WaitInv, Inv
  <1>2. sequence \in Nat
    BY DEF WaitInv, Inv, TypeOK, BrokerTypeOK
  <1>3. WaitTypeOK'
    <2>1. activeKey \in JobKeys \cup {NoKey} /\ WaitTypeOK
      BY DEF WaitInv, Inv, TypeOK
    <2>2. CASE WaitBacklog
      <3>1. seenBacklog' = (queue # {})
        BY <2>2 DEF WaitBacklog
      <3>2. seenBacklog' \in BOOLEAN
        BY <3>1, Zenon
      <3>3. waitPc' = "idle" /\ UNCHANGED <<seenActive, mark>>
        BY <2>2 DEF WaitBacklog
      <3>4. /\ waitPc' \in {"off", "active", "backlog", "idle", "true"}
            /\ seenActive' \in JobKeys \cup {NoKey}
            /\ mark' \in Nat
        BY <2>1, <3>3 DEF WaitTypeOK
      <3>. QED
        BY <1>1, <3>2, <3>4, Zenon DEF WaitTypeOK
    <2>3. CASE WaitCall \/ WaitSnapshot
      BY <1>1, <1>2, <2>1, <2>3 DEF WaitTypeOK, WaitCall, WaitSnapshot
    <2>4. CASE WaitSucceeds \/ WaitAgain
      BY <1>1, <2>1, <2>4 DEF WaitTypeOK, WaitSucceeds, WaitAgain
    <2>5. CASE WaitExpires \/ WaitDone
      <3>1. Return
        BY <2>5 DEF WaitExpires, WaitDone
      <3>. QED
        BY <1>1, <3>1 DEF WaitTypeOK, Return
    <2>. QED
      BY <2>2, <2>3, <2>4, <2>5 DEF Wait
  <1>4. StopFollowsMain' /\ IdleEventMeansEmptyHanded'
    BY <1>0 DEF WaitInv, StopFollowsMain, IdleEventMeansEmptyHanded
  <1>5. LiveJobs' = LiveJobs
    BY <1>0 DEF LiveJobs, HeldJobs, Holders
  <1>6. BacklogSeenEmpty'
    <2>1. CASE WaitBacklog
      BY <1>0, <2>1 DEF WaitInv, BacklogSeenEmpty, WaitBacklog
    <2>2. CASE WaitCall \/ WaitSnapshot \/ WaitSucceeds \/ WaitAgain
      BY <1>0, <1>2, <2>2
      DEF WaitInv, BacklogSeenEmpty, WaitCall, WaitSnapshot, WaitSucceeds, WaitAgain
    <2>3. CASE WaitExpires \/ WaitDone
      BY <1>0, <1>2, <2>3
      DEF WaitInv, BacklogSeenEmpty, WaitExpires, WaitDone, Return
    <2>. QED
      BY <2>1, <2>2, <2>3 DEF Wait
  <1>7. IdleMeansHandled'
    <2>. SUFFICES ASSUME waitPc' = "true", starts <= 1, ~stopEvent
                  PROVE  \A j \in LiveJobs : j.sequence > mark'
      BY <1>0, <1>5 DEF IdleMeansHandled
    <2>1. waitPc = "idle" /\ Idle /\ mark' = mark
      BY DEF Wait, WaitCall, WaitSnapshot, WaitBacklog, WaitSucceeds, WaitAgain,
             WaitExpires, WaitDone, Return
    <2>2. \A t \in Threads : pc[t] \notin Holding
      <3>1. \A t \in Threads : t > starts => pc[t] = "none"
        BY DEF WaitInv, Inv, HeldWhileHolding
      <3>2. starts = 1 => pc[1] \in {"test", "clear", "dead"}
        BY <2>1 DEF WaitInv, IdleEventMeansEmptyHanded, Idle
      <3>3. starts \in Nat /\ Threads \subseteq Nat \ {0}
        BY DEF WaitInv, Inv, TypeOK, Threads
      <3>. QED
        BY <3>1, <3>2, <3>3 DEF Holding
    <2>3. HeldJobs = {}
      BY <2>2 DEF HeldJobs, Holders
    <2>. QED
      BY <2>1, <2>3 DEF WaitInv, BacklogSeenEmpty, Idle, LiveJobs
  <1>. QED
    BY <1>1, <1>3, <1>4, <1>6, <1>7 DEF WaitInv

\* The inductive step: the worker and its surroundings move, or the caller of
\* wait_for_idle() does.
LEMMA WaitStepInv == WaitInv /\ [WaitNext]_waitForIdleVars => WaitInv'
  <1>. SUFFICES ASSUME WaitInv, [WaitNext]_waitForIdleVars PROVE WaitInv'
    OBVIOUS
  <1>1. CASE Next /\ UNCHANGED waitVars
    BY <1>1, WorkerStep
  <1>2. CASE Wait /\ UNCHANGED vars
    BY <1>2, CallerStep
  <1>3. CASE UNCHANGED waitForIdleVars
    <2>1. UNCHANGED vars /\ UNCHANGED waitVars
      BY <1>3 DEF waitForIdleVars
    <2>2. UNCHANGED <<queue, jobKeys, inflight, sequence, idleEvent, activeKey,
                      pc, held, starts, mainPc, stopEvent,
                      waitPc, seenActive, seenBacklog, mark>>
      BY <2>1 DEF vars, queueVars, threadVars, mainVars, waitVars
    <2>3. Inv'
      BY <2>1, StepInv DEF WaitInv
    <2>4. LiveJobs' = LiveJobs
      BY <2>2 DEF LiveJobs, HeldJobs, Holders
    <2>. QED
      BY <2>2, <2>3, <2>4
      DEF WaitInv, Inv, WaitTypeOK, StopFollowsMain, IdleEventMeansEmptyHanded,
          BacklogSeenEmpty, IdleMeansHandled
  <1>. QED
    BY <1>1, <1>2, <1>3 DEF WaitNext

\* Whoever gets True from wait_for_idle() finds every job handled that was
\* accepted before the call, until shutdown() is called.
THEOREM WaitForIdleSound == WaitSpec => []IdleMeansHandled
  <1>1. WaitInv => IdleMeansHandled
    BY DEF WaitInv
  <1>. QED
    BY <1>1, WaitInitInv, WaitStepInv, PTL DEF WaitSpec
=============================================================================
