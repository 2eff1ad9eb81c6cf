--------------------------- MODULE MCEventMonitor ---------------------------
(* EventMonitor for TLC: the constants are numbers, given in the cfg files. *)
EXTENDS EventMonitor
=============================================================================
