----------------------------- MODULE Daemonize -----------------------------
(***************************************************************************)
(* 6-semestr/lab4/part1/daemonize.c: the daemonize that leaves with        *)
(* err_quit when a call fails and forks a second time after setsid.  Its   *)
(* caller is the main of 1.c, which opens its log next.                    *)
(***************************************************************************)
EXTENDS Session

CONSTANTS Copies,      \* the times the program is started
          MayFail      \* whether getrlimit, fork, sigaction, chdir and open may fail

VARIABLES pc,     \* where each copy stands
          proc,   \* the process each copy runs in
          tty     \* is the terminal still there?

vars == <<pc, proc, tty>>

Init == /\ pc = [c \in Copies |-> "limit"]
        /\ proc \in [Copies -> Launched]
        /\ tty = TRUE

(* The step from `here' to `there' succeeds and leaves c in process p, or  *)
(* fails and err_quit, or exit, ends the copy.                             *)
Step(c, here, there, p) ==
  /\ pc[c] = here
  /\ \/ /\ proc' = [proc EXCEPT ![c] = p]
        /\ pc' = [pc EXCEPT ![c] = there]
     \/ /\ MayFail
        /\ pc' = [pc EXCEPT ![c] = "exited"]
        /\ UNCHANGED proc
  /\ UNCHANGED tty

(* Faulty: no second fork. *)
SecondFork_None(c) == Step(c, "refork", "chdir", proc[c])

GetLimit(c)   == Step(c, "limit", "fork", proc[c])
FirstFork(c)  == Step(c, "fork", "setsid", Forked(proc[c]))
IgnoreHup(c)  == Step(c, "hup", "refork", [proc[c] EXCEPT !.hup = "ignored"])
SecondFork(c) == Step(c, "refork", "chdir", Forked(proc[c]))
ChangeDir(c)  == Step(c, "chdir", "close", [proc[c] EXCEPT !.cwd = "root"])

(* setsid, whose result is not looked at. *)
LeadSession(c) ==
  /\ pc[c] = "setsid"
  /\ proc' = [proc EXCEPT ![c] = SetSid(@)]
  /\ pc' = [pc EXCEPT ![c] = "hup"]
  /\ UNCHANGED tty

CloseAll(c) ==
  /\ pc[c] = "close"
  /\ proc' = [proc EXCEPT ![c].stdio = "closed"]
  /\ pc' = [pc EXCEPT ![c] = "null"]
  /\ UNCHANGED tty

(* The descriptors are 0, 1 and 2, since all were closed; when open fails  *)
(* they are not, and the copy exits.                                       *)
OpenNull(c) == Step(c, "null", "running", [proc[c] EXCEPT !.stdio = "null"])

(* The terminal hangs up. *)
Hangup ==
  /\ tty /\ tty' = FALSE
  /\ pc' = [c \in Copies |-> IF DiesOfHangup(proc[c]) THEN "exited" ELSE pc[c]]
  /\ proc' = [c \in Copies |-> [proc[c] EXCEPT !.ctty = "none"]]

Copy(c) == \/ GetLimit(c) \/ FirstFork(c) \/ LeadSession(c) \/ IgnoreHup(c)
           \/ SecondFork(c) \/ ChangeDir(c) \/ CloseAll(c) \/ OpenNull(c)

Next == Hangup \/ \E c \in Copies : Copy(c)

Spec == Init /\ [][Next]_vars
-----------------------------------------------------------------------------
(* ---- properties ---- *)

Running == {c \in Copies : pc[c] = "running"}

(* A copy that runs has lost its terminal and can never get another one:   *)
(* the second fork leaves it leader of nothing, however it was started.    *)
NoTerminalEver ==
  \A c \in Running : proc[c].ctty = "none" /\ ~CanAcquireTerminal(proc[c])
=============================================================================
