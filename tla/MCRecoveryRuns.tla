--------------------------- MODULE MCRecoveryRuns ---------------------------
(* Two days of the index.  The first has more rows than a chunk takes.     *)
EXTENDS RecoveryRuns

CONSTANTS form4

MCRepairDays == <<2, 1>>                \* newest first
MCBackfillDays == <<1, 2>>              \* oldest first
MCIndexRows == <<<<1, form4, 1>>, <<1>>>>
=============================================================================
