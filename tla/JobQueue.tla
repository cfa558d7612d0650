------------------------------ MODULE JobQueue ------------------------------
(***************************************************************************)
(* What the broker and its worker promise the rest of the application:     *)
(* three first-come-first-served lines, one per priority.  A key is        *)
(* somewhere in the lines, or being served, at most once.  The line that   *)
(* is served is always the most urgent one that is not empty.              *)
(***************************************************************************)
EXTENDS Naturals, Sequences

CONSTANT JobKeys

VARIABLES waiting,      \* waiting[p]: the line of priority p
          serving       \* the keys handed to a worker and not given back

vars == <<waiting, serving>>

Lines == 1..3

InLine(k) == \E p \in Lines : \E i \in DOMAIN waiting[p] : waiting[p][i] = k

Init ==
    /\ waiting = [p \in Lines |-> <<>>]
    /\ serving = {}

Join(k, p) ==
    /\ ~InLine(k)
    /\ k \notin serving
    /\ waiting' = [waiting EXCEPT ![p] = Append(@, k)]
    /\ UNCHANGED serving

Serve(p) ==
    /\ waiting[p] # <<>>
    /\ \A q \in Lines : q < p => waiting[q] = <<>>
    /\ serving' = serving \cup {Head(waiting[p])}
    /\ waiting' = [waiting EXCEPT ![p] = Tail(@)]

GiveBack(k) ==
    /\ k \in serving
    /\ serving' = serving \ {k}
    /\ UNCHANGED waiting

Next ==
    \/ \E k \in JobKeys, p \in Lines : Join(k, p)
    \/ \E p \in Lines : Serve(p)
    \/ \E k \in JobKeys : GiveBack(k)

Spec == Init /\ [][Next]_vars
=============================================================================
