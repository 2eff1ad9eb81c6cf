-------------------------- MODULE MCReadersWriters --------------------------
(* ReadersWriters for TLC: the constants are numbers, given in the cfg files. *)
EXTENDS ReadersWriters
=============================================================================
