------------------------------ MODULE MCBroker ------------------------------
(***************************************************************************)
(* Model checking of the broker, whose queue and token bucket share no     *)
(* state: a behaviour is about one of them, and the other stays as it is.  *)
(*                                                                         *)
(* Two keys share a priority, so that arrival order matters, and one call  *)
(* site passes a task name nobody has registered.                          *)
(***************************************************************************)
EXTENDS BrokerRefinement, SecBudget

CONSTANTS k1, k2, k3, handled, unknown

MCKeys == {k1, k2, k3}
MCWork == {handled, unknown}
MCHandled == {handled}
MCCallSites ==
    {[key |-> k1, priority |-> 1, work |-> handled],
     [key |-> k2, priority |-> 3, work |-> handled],
     [key |-> k3, priority |-> 3, work |-> unknown]}

VARIABLE half    \* what this behaviour is about

MCInit == half \in {"queue", "bucket"} /\ Init /\ BudgetInit

QueueNext == half = "queue" /\ Next /\ UNCHANGED <<half, budgetVars>>
BucketNext == half = "bucket" /\ BudgetNext /\ UNCHANGED <<half, vars>>

MCSpec == MCInit /\ [][QueueNext \/ BucketNext]_<<half, vars, budgetVars>>

\* The worker's threads go on, which have nothing to do where the queue is left
\* alone.  The clock runs, a thread that asks the SEC goes on, and its request is
\* answered or times out.
MCFairSpec ==
    /\ MCSpec
    /\ ThreadsGoOn
    /\ WF_budgetVars(half = "bucket" /\ Tick)
    /\ \A c \in Callers : WF_budgetVars(half = "bucket" /\ Step(c))
=============================================================================
