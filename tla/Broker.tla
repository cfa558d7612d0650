------------------------------- MODULE Broker -------------------------------
(***************************************************************************)
(* SecRequestBroker's job queue (app/services/broker.py).                  *)
(*                                                                         *)
(* Every method of the class runs under one threading.Lock, so each is one *)
(* atomic step here.  The heap is a set of jobs: heappop returns the least *)
(* element of the order (priority, sequence), and sequence is unique, so   *)
(* the set and that order are all a caller can observe.  A job's task name *)
(* and payload are one value, its `work'.                                  *)
(*                                                                         *)
(* The module is a library of actions: modules that put threads around the *)
(* broker EXTEND it and conjoin what their own variables do.               *)
(***************************************************************************)
EXTENDS Naturals, FiniteSets

CONSTANTS JobKeys,      \* the job_key strings the callers use
          Work          \* task name and payload of a job

VARIABLES queue,        \* _queue
          jobKeys,      \* _job_keys
          inflight,     \* _inflight_job_keys
          sequence      \* _sequence

queueVars == <<queue, jobKeys, inflight, sequence>>

Priorities == 1..3

Job == [key : JobKeys, priority : Priorities, sequence : Nat \ {0}, work : Work]

BrokerTypeOK ==
    /\ queue \subseteq Job
    /\ jobKeys \subseteq JobKeys
    /\ inflight \subseteq JobKeys
    /\ sequence \in Nat

BrokerInit ==
    /\ queue = {}
    /\ jobKeys = {}
    /\ inflight = {}
    /\ sequence = 0

-----------------------------------------------------------------------------
\* Faulty variant of Before: the newest job of a priority first.
NewestFirst(a, b) ==
    \/ a.priority < b.priority
    \/ a.priority = b.priority /\ a.sequence > b.sequence

\* QueuedJob's dataclass order; created_monotonic never decides, because
\* sequence is unique.
Before(a, b) ==
    \/ a.priority < b.priority
    \/ a.priority = b.priority /\ a.sequence < b.sequence

\* Faulty variant of Accepts: a job that is being handled is forgotten.
AcceptsInFlight(k) == k \notin jobKeys

\* A key is coalesced while a job with it waits or is being handled.
Accepts(k) == k \notin jobKeys /\ k \notin inflight

\* enqueue() on the path that returns accepted=True.
Enqueue(k, p, w) ==
    /\ Accepts(k)
    /\ sequence' = sequence + 1
    /\ queue' = queue \cup
         {[key |-> k, priority |-> p, sequence |-> sequence + 1, work |-> w]}
    /\ jobKeys' = jobKeys \cup {k}
    /\ UNCHANGED inflight

\* pop_next() on a non-empty queue; j is the job it returns.
PopNext(j) ==
    /\ j \in queue
    /\ \A other \in queue \ {j} : Before(j, other)
    /\ queue' = queue \ {j}
    /\ jobKeys' = jobKeys \ {j.key}
    /\ inflight' = inflight \cup {j.key}
    /\ UNCHANGED sequence

\* complete(): discard() is a no-op for a key that is not in flight.
Complete(k) ==
    /\ inflight' = inflight \ {k}
    /\ UNCHANGED <<queue, jobKeys, sequence>>

HasQueuedHigherPriorityThan(p) == \E j \in queue : j.priority < p
=============================================================================
