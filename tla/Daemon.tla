------------------------------- MODULE Daemon -------------------------------
(***************************************************************************)
(* 6-semestr/lab1/daemon.c: several copies of the program are started from *)
(* a terminal; each makes itself a daemon, looks whether another one runs  *)
(* and writes its pid into the lock file.  A copy is one line of           *)
(* processes: when fork succeeds the parent exits and the child goes on.   *)
(* Of the calls that fail getrlimit, fork, sigaction and chdir are only    *)
(* reported, the results of ftruncate and write not even looked at.        *)
(***************************************************************************)
EXTENDS Session

CONSTANTS Copies,         \* the times the program is started
          ForkMayFail,    \* whether fork() may return -1
          CallsMayFail    \* whether the other calls may fail

ASSUME ConstAssumption ==
  /\ Copies \cap {"nobody", "empty", "cut"} = {}
  /\ ForkMayFail \in BOOLEAN /\ CallsMayFail \in BOOLEAN

VARIABLES
  pc,        \* where each copy stands
  proc,      \* the process each copy runs in
  failed,    \* the calls of each copy that failed
  dead,      \* the copies that a signal ended, where they stood
  holder,    \* the copy that holds the lock on LOCKFILE
  pidfile,   \* what LOCKFILE says up to its first NUL: a copy's pid, "empty",
             \* or "cut" short
  tty        \* is the terminal still there?

vars == <<pc, proc, failed, dead, holder, pidfile, tty>>

Init ==
  /\ pc = [c \in Copies |-> "limit"]
  /\ proc \in [Copies -> Launched]
  /\ failed = [c \in Copies |-> {}] /\ dead = {}
  /\ holder = "nobody" /\ pidfile = "empty" /\ tty = TRUE

At(c, here)   == pc[c] = here /\ c \notin dead
Goto(c, here) == pc' = [pc EXCEPT ![c] = here]
Become(c, p)  == proc' = [proc EXCEPT ![c] = p]
Fails(c, call) == CallsMayFail /\ failed' = [failed EXCEPT ![c] = @ \cup {call}]

(* ---- daemonize ---- *)

(* umask(0) and getrlimit; when it fails rl stays uninitialized. *)
GetLimit(c) ==
  /\ At(c, "limit")
  /\ UNCHANGED failed \/ Fails(c, "getrlimit")
  /\ Goto(c, "fork")
  /\ UNCHANGED <<proc, dead, holder, pidfile, tty>>

(* When fork fails perror is all that happens: the process goes on itself. *)
Fork(c) ==
  /\ At(c, "fork")
  /\ \/ Become(c, Forked(proc[c])) /\ UNCHANGED failed
     \/ /\ ForkMayFail /\ UNCHANGED proc
        /\ failed' = [failed EXCEPT ![c] = @ \cup {"fork"}]
  /\ Goto(c, "setsid")
  /\ UNCHANGED <<dead, holder, pidfile, tty>>

(* The result of setsid is not looked at. *)
LeadSession(c) ==
  /\ At(c, "setsid")
  /\ Become(c, SetSid(proc[c]))
  /\ Goto(c, "hup")
  /\ UNCHANGED <<failed, dead, holder, pidfile, tty>>

(* sigaction(SIGHUP, SIG_IGN); the second fork is commented out. *)
IgnoreHup(c) ==
  /\ At(c, "hup")
  /\ \/ Become(c, [proc[c] EXCEPT !.hup = "ignored"]) /\ UNCHANGED failed
     \/ Fails(c, "sigaction") /\ UNCHANGED proc
  /\ Goto(c, "chdir")
  /\ UNCHANGED <<dead, holder, pidfile, tty>>

ChangeDir(c) ==
  /\ At(c, "chdir")
  /\ \/ Become(c, [proc[c] EXCEPT !.cwd = "root"]) /\ UNCHANGED failed
     \/ Fails(c, "chdir") /\ UNCHANGED proc
  /\ Goto(c, "close")
  /\ UNCHANGED <<dead, holder, pidfile, tty>>

(* close(i) below the limit: with an uninitialized limit the loop may stop *)
(* before it has closed 0, 1 and 2.                                        *)
CloseAll(c) ==
  /\ At(c, "close")
  /\ \/ Become(c, [proc[c] EXCEPT !.stdio = "closed"])
     \/ "getrlimit" \in failed[c] /\ UNCHANGED proc
  /\ Goto(c, "null")
  /\ UNCHANGED <<failed, dead, holder, pidfile, tty>>

(* Faulty: the three descriptors are not compared with 0, 1 and 2. *)
OpenNull_Unchecked(c) ==
  /\ At(c, "null")
  /\ Become(c, [proc[c] EXCEPT !.stdio = IF @ = "closed" THEN "null" ELSE @])
  /\ Goto(c, "open")
  /\ UNCHANGED <<failed, dead, holder, pidfile, tty>>

(* open and two dups must return 0, 1 and 2, or the copy exits. *)
OpenNull(c) ==
  /\ At(c, "null")
  /\ \/ /\ proc[c].stdio = "closed"
        /\ Become(c, [proc[c] EXCEPT !.stdio = "null"]) /\ Goto(c, "open")
        /\ UNCHANGED failed
     \/ /\ proc[c].stdio # "closed"
        /\ Goto(c, "exited") /\ UNCHANGED <<proc, failed>>
     \/ Fails(c, "open") /\ Goto(c, "exited") /\ UNCHANGED proc
  /\ UNCHANGED <<dead, holder, pidfile, tty>>

(* ---- already_running, which returns 0 or does not return ---- *)

(* Faulty: the file is opened with O_TRUNC. *)
OpenLockFile_Trunc(c) ==
  /\ At(c, "open")
  /\ Goto(c, "flock") \/ Goto(c, "exited")
  /\ pidfile' = "empty"
  /\ UNCHANGED <<proc, failed, dead, holder, tty>>

(* open(LOCKFILE, O_RDWR | O_CREAT) needs the rights of the superuser. *)
OpenLockFile(c) ==
  /\ At(c, "open")
  /\ Goto(c, "flock") \/ Goto(c, "exited")
  /\ UNCHANGED <<proc, failed, dead, holder, pidfile, tty>>

LockFile(c) ==
  /\ At(c, "flock")
  /\ LET r == flock({"LOCK_EX", "LOCK_UN"}, c, holder)
     IN  /\ r.returns
         /\ holder' = r.holder
         /\ Goto(c, IF r.errno = "EWOULDBLOCK" THEN "exited" ELSE "truncate")
  /\ UNCHANGED <<proc, failed, dead, pidfile, tty>>

(* ftruncate(fd, 0): when it fails the old contents stay. *)
Truncate(c) ==
  /\ At(c, "truncate")
  /\ \/ pidfile' = "empty" /\ UNCHANGED failed
     \/ Fails(c, "ftruncate") /\ UNCHANGED pidfile
  /\ Goto(c, "write")
  /\ UNCHANGED <<proc, dead, holder, tty>>

(* write(fd, buf) of the pid and a NUL at offset 0, whatever stands behind *)
(* it; it may write nothing or a part.  Then the endless loop of main.     *)
WritePid(c) ==
  /\ At(c, "write")
  /\ \/ pidfile' = c /\ UNCHANGED failed
     \/ Fails(c, "write") /\ pidfile' \in {pidfile, "cut"}
  /\ Goto(c, "running")
  /\ UNCHANGED <<proc, dead, holder, tty>>

(* Signals: a copy that ends so drops its lock and leaves the file alone.  *)
EndedBySignal(cs) ==
  /\ dead' = dead \cup cs
  /\ holder' = IF holder \in cs THEN "nobody" ELSE holder
  /\ UNCHANGED <<pc, failed, pidfile>>

Die(c) ==
  /\ c \notin dead /\ pc[c] # "exited"
  /\ EndedBySignal({c})
  /\ UNCHANGED <<proc, tty>>

(* The terminal hangs up. *)
Hangup ==
  /\ tty /\ tty' = FALSE
  /\ EndedBySignal({c \in Copies \ dead : pc[c] # "exited" /\ DiesOfHangup(proc[c])})
  /\ proc' = [c \in Copies |-> [proc[c] EXCEPT !.ctty = "none"]]

Copy(c) == \/ GetLimit(c) \/ Fork(c) \/ LeadSession(c) \/ IgnoreHup(c) \/ ChangeDir(c)
           \/ CloseAll(c) \/ OpenNull(c) \/ OpenLockFile(c) \/ LockFile(c)
           \/ Truncate(c) \/ WritePid(c)

Next == Hangup \/ \E c \in Copies : Copy(c) \/ Die(c)

Spec == Init /\ [][Next]_vars
-----------------------------------------------------------------------------
(* ---- properties ---- *)

Running == {c \in Copies : pc[c] = "running" /\ c \notin dead}

(* A copy that runs has its three standard descriptors on /dev/null, also  *)
(* when the limit was garbage; it ignores SIGHUP and holds no directory    *)
(* but the root unless just that call failed; and it takes two failures,   *)
(* fork's and sigaction's, for a hang-up to end it.  It may still have its *)
(* terminal (see LostTerminal), or get another one: the second fork, lines *)
(* 103 to 106, is commented out.                                           *)
RunningIsDetached ==
  \A c \in Running :
    /\ proc[c].stdio = "null"
    /\ "sigaction" \notin failed[c] => proc[c].hup = "ignored"
    /\ "chdir" \notin failed[c] => proc[c].cwd = "root"
    /\ DiesOfHangup(proc[c]) => {"fork", "sigaction"} \subseteq failed[c]

(* However many copies race for the file: the pid it says is that of a     *)
(* copy that has come to its loop, though it may have been ended there,    *)
(* as nobody removes the file.  Once a copy has come so far the file says  *)
(* none only because of a write that failed or of a copy that stands, or   *)
(* was ended, between its ftruncate and its write.                         *)
PidFileNamesRunning ==
  /\ pidfile \in Copies => pc[pidfile] = "running" /\ "write" \notin failed[pidfile]
  /\ pidfile \notin Copies /\ (\E c \in Copies : pc[c] = "running") =>
       \E c \in Copies : pc[c] = "write" \/ "write" \in failed[c]

(* line 139: "Блокировка файла для одной существующей копии демона" (the   *)
(* file is locked so that one copy of the daemon exists).                  *)
SingleInstance == \A c, d \in Running : c = d

(* line 88: "Стать лидером новой сессии, чтобы утратить управляющий        *)
(* терминал" (become leader of a new session to lose the terminal).        *)
LostTerminal == \A c \in Running : tty => proc[c].ctty = "none"
=============================================================================
