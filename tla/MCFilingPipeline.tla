-------------------------- MODULE MCFilingPipeline --------------------------
(* Two destinations, tried in the order of the sequence.                   *)
EXTENDS FilingPipeline, TLC

CONSTANTS t1, t2, slack, smtp, eightk, form4

MCChannels == <<slack, smtp>>
MCOneChannel == <<slack>>
Symmetry == Permutations({t1, t2})
=============================================================================
