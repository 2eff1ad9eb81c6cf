--------------------------- MODULE MCHoareMonitor ---------------------------
(* HoareMonitor for TLC: the constants are numbers, given in the cfg files. *)
EXTENDS HoareMonitor
=============================================================================
