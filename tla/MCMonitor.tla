------------------------------ MODULE MCMonitor ------------------------------
(***************************************************************************)
(* Two backends: every interleaving of the loop with suspects, ticks,      *)
(* shutdown and backends that come and go.  A buffer of one name already   *)
(* fills, and a window of two samples already slides.                      *)
(***************************************************************************)
EXTENDS Monitor

CONSTANTS b1, b2
==============================================================================
