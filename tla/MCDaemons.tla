----------------------------- MODULE MCDaemons -----------------------------
(* Daemon and Daemonize, the two ways of this repository to become a       *)
(* daemon, for TLC.  Which of them runs is chosen at the start; the other  *)
(* stays in one initial state.                                             *)
EXTENDS Daemon

CONSTANT MayFail \* of Daemonize

VARIABLES which, zpc, zproc, ztty

Z == INSTANCE Daemonize WITH pc <- zpc, proc <- zproc, tty <- ztty

zvars == <<zpc, zproc, ztty>>

Start ==
  /\ which \in {"Daemon", "Daemonize"}
  /\ Init /\ Z!Init
  /\ which # "Daemon" => proc = [k \in Copies |-> CHOOSE p \in Launched : TRUE]
  /\ which # "Daemonize" => zproc = [k \in Copies |-> CHOOSE p \in Launched : TRUE]

Step == /\ \/ which = "Daemon"    /\ Next   /\ UNCHANGED zvars
           \/ which = "Daemonize" /\ Z!Next /\ UNCHANGED vars
        /\ which' = which

DaemonsSpec == Start /\ [][Step]_<<which, vars, zvars>>

(* What has become a daemon has no terminal and gets none: see Daemonize.  *)
NoTerminalEver == Z!NoTerminalEver

TwoCopies == {"copy1", "copy2"}
=============================================================================
