-------------------------- MODULE BrokerRefinement --------------------------
(***************************************************************************)
(* The broker and its worker implement JobQueue: the heap of (priority,    *)
(* sequence) pairs and the two key sets behave like three lines.           *)
(***************************************************************************)
EXTENDS BrokerWorker

Peers(p) == {j \in queue : j.priority = p}

\* A job's place in line: how many of the jobs were accepted no later than it.
Place(jobs, j) == Cardinality({b \in jobs : b.sequence <= j.sequence})

\* The keys of jobs, in the order they were accepted.
Line(jobs) ==
    [i \in 1..Cardinality(jobs) |-> (CHOOSE j \in jobs : Place(jobs, j) = i).key]

Lines == INSTANCE JobQueue WITH
            JobKeys <- JobKeys,
            waiting <- [p \in Priorities |-> Line(Peers(p))],
            serving <- inflight

\* Every step of the threads, of shutdown() and of the callers joins a line,
\* takes the head of the most urgent line, gives a key back, or leaves the
\* lines alone.
ImplementsJobQueue == Lines!Spec
=============================================================================
