------------------------------ MODULE Session ------------------------------
(***************************************************************************)
(* What daemon.c and daemonize.c need of the kernel's process model:       *)
(* sessions, controlling terminals, inherited attributes and flock(2).     *)
(* None of it is in the repository.                                        *)
(***************************************************************************)

(* A process as its program sees it. *)
Process == [group_leader : BOOLEAN,
            session_leader : BOOLEAN,
            ctty  : {"tty", "none"},              \* controlling terminal
            hup   : {"default", "ignored"},       \* disposition of SIGHUP
            cwd   : {"start", "root"},
            stdio : {"inherited", "closed", "null"}]

(* Started from a terminal; a shell with job control makes it the leader   *)
(* of its process group, a script does not.                                *)
Launched == {[group_leader |-> leader, session_leader |-> FALSE, ctty |-> "tty",
              hup |-> "default", cwd |-> "start", stdio |-> "inherited"] : leader \in BOOLEAN}

(* The child of fork leads nothing and inherits the rest. *)
Forked(p) == [p EXCEPT !.group_leader = FALSE, !.session_leader = FALSE]

(* setsid() fails for a group leader and changes nothing then. *)
SetSid(p) == IF p.group_leader THEN p
             ELSE [p EXCEPT !.group_leader = TRUE, !.session_leader = TRUE, !.ctty = "none"]

(* open() of a terminal that nobody controls makes it the caller's         *)
(* controlling terminal if the caller leads a session without one.         *)
CanAcquireTerminal(p) == p.session_leader /\ p.ctty = "none"

(* The hang-up of the terminal ends the processes it controls unless they  *)
(* ignore SIGHUP.                                                          *)
DiesOfHangup(p) == p.ctty = "tty" /\ p.hup = "default"

(* flock(fd, cmd) by c on a file locked by holder ("nobody" if free):      *)
(* whether it returns, and the holder and errno it leaves.  Flags that do  *)
(* not name exactly one operation are EINVAL and leave the lock alone.     *)
flock(cmd, c, holder) ==
  LET free == holder \in {"nobody", c}
  IN  CASE cmd = {"LOCK_UN"} ->
             [returns |-> TRUE, holder |-> IF free THEN "nobody" ELSE holder, errno |-> "0"]
        [] cmd = {"LOCK_EX"} ->
             [returns |-> free, holder |-> c, errno |-> "0"]
        [] cmd = {"LOCK_EX", "LOCK_NB"} ->
             [returns |-> TRUE, holder |-> IF free THEN c ELSE holder,
              errno |-> IF free THEN "0" ELSE "EWOULDBLOCK"]
        [] OTHER ->
             [returns |-> TRUE, holder |-> holder, errno |-> "EINVAL"]
=============================================================================
