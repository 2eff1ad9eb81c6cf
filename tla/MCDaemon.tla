------------------------------ MODULE MCDaemon ------------------------------
(* Daemon for TLC: the copies are strings, since "nobody" is one too. *)
EXTENDS Daemon
TwoCopies == {"copy1", "copy2"}
=============================================================================
