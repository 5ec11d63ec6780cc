--------------------------- MODULE MCRecoveryIncident ---------------------------
(***************************************************************************)
(* A small instance of RecoveryIncident.                                   *)
(***************************************************************************)
EXTENDS RecoveryIncident

CONSTANTS a, b, c, cron, hand

Pair == {a, b}
Condition == {c}
Detections == {cron, hand}

=============================================================================
