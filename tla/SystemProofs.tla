---------------------------- MODULE SystemProofs ----------------------------
(***************************************************************************)
(* Proofs about the programs that deal with the kernel or the machine      *)
(* alone: Daemon and Daemonize for any set of copies and any calls that    *)
(* fail, ProcessTree for any message, ProtectedMode, and ModuleLife for    *)
(* any number of interrupts.  MCPrograms has their instances T, B and M.   *)
(***************************************************************************)
EXTENDS MCPrograms, Sequences, SequenceTheorems, FiniteSetTheorems, TLAPS

(* ---- daemon.c ---- *)

(* What a copy has done once it stands at one of these places.             *)
AfterNull    == {"open", "flock", "truncate", "write", "running"}
AfterChdir   == {"close", "null"} \cup AfterNull
AfterHup     == {"chdir"} \cup AfterChdir
AfterSession == {"hup"} \cup AfterHup
Places       == {"limit", "fork", "setsid", "exited"} \cup AfterSession

Calls == {"getrlimit", "fork", "sigaction", "chdir", "open", "ftruncate", "write"}

TypeOK ==
  /\ pc \in [Copies -> Places]
  /\ proc \in [Copies -> Process]
  /\ failed \in [Copies -> SUBSET Calls]

(* A copy that stands here, in the process p, after the failures f: it has *)
(* what each step was to give it, or just that call is among the failures. *)
Fit(here, p, f) ==
  /\ here = "setsid" /\ p.group_leader => "fork" \in f
  /\ here \in AfterSession /\ p.ctty = "tty" => "fork" \in f
  /\ here \in AfterHup /\ p.hup = "default" => "sigaction" \in f
  /\ here \in AfterChdir /\ p.cwd = "start" => "chdir" \in f
  /\ here \in AfterNull => p.stdio = "null"

Detached == \A c \in Copies : Fit(pc[c], proc[c], failed[c])

(* A copy never leaves "running", not even when it dies, and only the step *)
(* there writes a pid or adds "write" to the failures.                     *)
WritesLast == \A c \in Copies : "write" \in failed[c] => pc[c] = "running"

Inv == TypeOK /\ Detached /\ WritesLast /\ PidFileNamesRunning

LEMMA SessionFacts ==
  /\ Launched \subseteq Process
  /\ \A p \in Process : /\ Forked(p) \in Process /\ SetSid(p) \in Process
                        /\ [p EXCEPT !.hup = "ignored"] \in Process
                        /\ [p EXCEPT !.cwd = "root"] \in Process
                        /\ [p EXCEPT !.stdio = "closed"] \in Process
                        /\ [p EXCEPT !.stdio = "null"] \in Process
                        /\ [p EXCEPT !.ctty = "none"] \in Process
PROOF
<1>1. Launched \subseteq Process
  <2>1. ASSUME NEW leader \in BOOLEAN
        PROVE  [group_leader |-> leader, session_leader |-> FALSE, ctty |-> "tty",
                hup |-> "default", cwd |-> "start", stdio |-> "inherited"] \in Process
    BY DEF Process
  <2> QED
    BY <2>1 DEF Launched
<1>2. ASSUME NEW p \in Process PROVE Forked(p) \in Process
  BY <1>2 DEF Process, Forked
<1>3. ASSUME NEW p \in Process PROVE SetSid(p) \in Process
  BY <1>3 DEF Process, SetSid
<1>4. ASSUME NEW p \in Process
      PROVE  /\ [p EXCEPT !.hup = "ignored"] \in Process
             /\ [p EXCEPT !.cwd = "root"] \in Process
  BY <1>4 DEF Process
<1>5. ASSUME NEW p \in Process
      PROVE  /\ [p EXCEPT !.stdio = "closed"] \in Process
             /\ [p EXCEPT !.stdio = "null"] \in Process
             /\ [p EXCEPT !.ctty = "none"] \in Process
  BY <1>5 DEF Process
<1> QED
  BY <1>1, <1>2, <1>3, <1>4, <1>5

(* What a call that succeeds gives the copy, one lemma a call. *)
LEMMA ForkFits ==
  ASSUME NEW p \in Process, NEW f
  PROVE  Fit("setsid", Forked(p), f) /\ Fit("setsid", p, f \cup {"fork"})
PROOF
<1>1. ~Forked(p).group_leader
  BY DEF Process, Forked
<1> QED
  BY <1>1 DEF Fit, AfterSession, AfterHup, AfterChdir, AfterNull

LEMMA SetSidFits ==
  ASSUME NEW p \in Process, NEW f, Fit("setsid", p, f)
  PROVE  Fit("hup", SetSid(p), f)
PROOF
<1>1. SetSid(p).ctty = "tty" => p.group_leader
  BY DEF Process, SetSid
<1> QED
  BY <1>1 DEF Fit, AfterSession, AfterHup, AfterChdir, AfterNull

LEMMA HupFits ==
  ASSUME NEW p \in Process, NEW f, Fit("hup", p, f)
  PROVE  Fit("chdir", [p EXCEPT !.hup = "ignored"], f) /\ Fit("chdir", p, f \cup {"sigaction"})
PROOF
<1>1. LET q == [p EXCEPT !.hup = "ignored"] IN q.hup = "ignored" /\ q.ctty = p.ctty
  BY DEF Process
<1> QED
  BY <1>1 DEF Fit, AfterSession, AfterHup, AfterChdir, AfterNull

LEMMA ChdirFits ==
  ASSUME NEW p \in Process, NEW f, Fit("chdir", p, f)
  PROVE  Fit("close", [p EXCEPT !.cwd = "root"], f) /\ Fit("close", p, f \cup {"chdir"})
PROOF
<1>1. LET q == [p EXCEPT !.cwd = "root"] IN q.cwd = "root" /\ q.hup = p.hup /\ q.ctty = p.ctty
  BY DEF Process
<1> QED
  BY <1>1 DEF Fit, AfterSession, AfterHup, AfterChdir, AfterNull

LEMMA CloseFits ==
  ASSUME NEW p \in Process, NEW f, Fit("close", p, f)
  PROVE  Fit("null", [p EXCEPT !.stdio = "closed"], f) /\ Fit("null", p, f)
PROOF
<1>1. LET q == [p EXCEPT !.stdio = "closed"] IN q.cwd = p.cwd /\ q.hup = p.hup /\ q.ctty = p.ctty
  BY DEF Process
<1> QED
  BY <1>1 DEF Fit, AfterSession, AfterHup, AfterChdir, AfterNull

LEMMA NullFits ==
  ASSUME NEW p \in Process, NEW f, Fit("null", p, f)
  PROVE  Fit("open", [p EXCEPT !.stdio = "null"], f)
PROOF
<1>1. LET q == [p EXCEPT !.stdio = "null"]
      IN  q.stdio = "null" /\ q.cwd = p.cwd /\ q.hup = p.hup /\ q.ctty = p.ctty
  BY DEF Process
<1> QED
  BY <1>1 DEF Fit, AfterSession, AfterHup, AfterChdir, AfterNull

(* From OpenNull on nothing is asked that was not asked before, and what   *)
(* else fails excuses no more.                                             *)
LEMMA LaterFits ==
  ASSUME NEW here \in AfterNull, NEW there \in AfterNull, NEW p, NEW f, NEW g,
         f \subseteq g, Fit(here, p, f)
  PROVE  Fit(there, p, g)
PROOF BY DEF Fit, AfterSession, AfterHup, AfterChdir, AfterNull

LEMMA ExitFits ==
  ASSUME NEW p, NEW f
  PROVE  Fit("exited", p, f) /\ Fit("fork", p, f)
PROOF BY DEF Fit, AfterSession, AfterHup, AfterChdir, AfterNull

(* The copy c moves to another place, in whatever process and after        *)
(* whatever failures it is then.                                           *)
LEMMA CopyMoves ==
  ASSUME Inv, NEW c \in Copies, NEW here \in Places, NEW p \in Process, NEW f \in SUBSET Calls,
         Fit(here, p, f),
         Goto(c, here), Become(c, p), failed' = [failed EXCEPT ![c] = f]
  PROVE  /\ TypeOK' /\ Detached'
         /\ pc'[c] = here /\ failed'[c] = f
         /\ \A d \in Copies \ {c} : pc'[d] = pc[d] /\ failed'[d] = failed[d]
PROOF
<1>1. /\ pc'[c] = here /\ proc'[c] = p /\ failed'[c] = f
      /\ \A d \in Copies \ {c} : pc'[d] = pc[d] /\ proc'[d] = proc[d] /\ failed'[d] = failed[d]
  BY DEF Goto, Become, Inv, TypeOK
<1>2. TypeOK'
  BY DEF Goto, Become, Inv, TypeOK
<1>3. Detached'
  <2>1. ASSUME NEW d \in Copies PROVE Fit(pc'[d], proc'[d], failed'[d])
    BY <1>1 DEF Inv, Detached
  <2> QED
    BY <2>1 DEF Detached
<1> QED
  BY <1>1, <1>2, <1>3

(* ... and passes neither truncate nor write. *)
LEMMA MoveStep ==
  ASSUME Inv, NEW c \in Copies, NEW here \in Places, NEW p \in Process, NEW f \in SUBSET Calls,
         Fit(here, p, f),
         pc[c] \notin {"write", "running"}, here \notin {"write", "running"},
         "write" \in f <=> "write" \in failed[c],
         Goto(c, here), Become(c, p), failed' = [failed EXCEPT ![c] = f], pidfile' = pidfile
  PROVE  Inv'
PROOF
<1>1. /\ TypeOK' /\ Detached'
      /\ pc'[c] = here /\ failed'[c] = f
      /\ \A d \in Copies \ {c} : pc'[d] = pc[d] /\ failed'[d] = failed[d]
  BY CopyMoves
<1>2. \A d \in Copies : /\ pc'[d] = "write" <=> pc[d] = "write"
                        /\ pc'[d] = "running" <=> pc[d] = "running"
                        /\ "write" \in failed'[d] <=> "write" \in failed[d]
  BY <1>1
<1>3. PidFileNamesRunning'
  BY <1>2 DEF Inv, PidFileNamesRunning
<1>4. WritesLast'
  BY <1>2 DEF Inv, WritesLast
<1> QED
  BY <1>1, <1>3, <1>4 DEF Inv

(* A step that leaves the process, or the failures, alone. *)
LEMMA SameProcess ==
  ASSUME Inv, NEW c \in Copies
  PROVE  /\ proc[c] \in Process /\ failed[c] \in SUBSET Calls
         /\ Fit(pc[c], proc[c], failed[c])
         /\ UNCHANGED proc => Become(c, proc[c])
         /\ UNCHANGED failed => failed' = [failed EXCEPT ![c] = failed[c]]
PROOF BY DEF Inv, TypeOK, Become, Detached

LEMMA Failure ==
  ASSUME Inv, NEW c \in Copies, NEW call \in Calls, Fails(c, call)
  PROVE  failed' = [failed EXCEPT ![c] = failed[c] \cup {call}] /\ failed[c] \cup {call} \in SUBSET Calls
PROOF BY SameProcess DEF Fails

LEMMA PlaceFacts ==
  /\ {"fork", "setsid", "hup", "chdir", "close", "null", "open", "flock", "truncate",
      "write", "running", "exited"} \subseteq Places
  /\ {"open", "flock", "truncate", "write", "running"} \subseteq AfterNull
  /\ {"getrlimit", "fork", "sigaction", "chdir", "open", "ftruncate", "write"} \subseteq Calls
PROOF BY DEF Places, AfterSession, AfterHup, AfterChdir, AfterNull, Calls

LEMMA GetLimitStep ==
  ASSUME Inv, NEW c \in Copies, GetLimit(c)
  PROVE  Inv'
PROOF
<1>1. /\ pc[c] = "limit" /\ Goto(c, "fork") /\ UNCHANGED <<proc, pidfile>>
      /\ UNCHANGED failed \/ Fails(c, "getrlimit")
  BY DEF GetLimit, At
<1>2. \E f \in SUBSET Calls : /\ failed' = [failed EXCEPT ![c] = f]
                              /\ "write" \in f <=> "write" \in failed[c]
  <2>1. CASE UNCHANGED failed
    BY <2>1, SameProcess
  <2>2. CASE Fails(c, "getrlimit")
    BY <2>2, Failure, PlaceFacts
  <2> QED
    BY <1>1, <2>1, <2>2
<1> QED
  BY <1>1, <1>2, SameProcess, MoveStep, ExitFits, PlaceFacts

LEMMA ForkStep ==
  ASSUME Inv, NEW c \in Copies, Fork(c)
  PROVE  Inv'
PROOF
<1>1. pc[c] = "fork" /\ Goto(c, "setsid") /\ UNCHANGED pidfile /\ proc[c] \in Process
  BY SameProcess DEF Fork, At
<1>2. CASE Become(c, Forked(proc[c])) /\ UNCHANGED failed
  <2>1. Fit("setsid", Forked(proc[c]), failed[c]) /\ Forked(proc[c]) \in Process
    BY <1>1, ForkFits, SessionFacts
  <2> QED
    BY <1>1, <1>2, <2>1, SameProcess, MoveStep, PlaceFacts
<1>3. CASE UNCHANGED proc /\ failed' = [failed EXCEPT ![c] = @ \cup {"fork"}]
  <2>1. Fit("setsid", proc[c], failed[c] \cup {"fork"})
    BY <1>1, ForkFits
  <2>2. failed[c] \cup {"fork"} \in SUBSET Calls
    BY SameProcess, PlaceFacts
  <2> QED
    BY <1>1, <1>3, <2>1, <2>2, SameProcess, MoveStep, PlaceFacts
<1> QED
  BY <1>2, <1>3 DEF Fork

LEMMA LeadSessionStep ==
  ASSUME Inv, NEW c \in Copies, LeadSession(c)
  PROVE  Inv'
PROOF
<1>1. /\ pc[c] = "setsid" /\ Goto(c, "hup") /\ Become(c, SetSid(proc[c]))
      /\ UNCHANGED <<pidfile, failed>> /\ proc[c] \in Process
  BY SameProcess DEF LeadSession, At
<1>2. Fit("hup", SetSid(proc[c]), failed[c]) /\ SetSid(proc[c]) \in Process
  BY <1>1, SameProcess, SetSidFits, SessionFacts
<1> QED
  BY <1>1, <1>2, SameProcess, MoveStep, PlaceFacts

LEMMA IgnoreHupStep ==
  ASSUME Inv, NEW c \in Copies, IgnoreHup(c)
  PROVE  Inv'
PROOF
<1>1. /\ pc[c] = "hup" /\ Goto(c, "chdir") /\ UNCHANGED pidfile /\ proc[c] \in Process
      /\ Fit("hup", proc[c], failed[c])
  BY SameProcess DEF IgnoreHup, At
<1>2. CASE Become(c, [proc[c] EXCEPT !.hup = "ignored"]) /\ UNCHANGED failed
  <2>1. /\ Fit("chdir", [proc[c] EXCEPT !.hup = "ignored"], failed[c])
        /\ [proc[c] EXCEPT !.hup = "ignored"] \in Process
    BY <1>1, HupFits, SessionFacts
  <2> QED
    BY <1>1, <1>2, <2>1, SameProcess, MoveStep, PlaceFacts
<1>3. CASE Fails(c, "sigaction") /\ UNCHANGED proc
  <2>1. Fit("chdir", proc[c], failed[c] \cup {"sigaction"})
    BY <1>1, HupFits
  <2>2. /\ failed' = [failed EXCEPT ![c] = failed[c] \cup {"sigaction"}]
        /\ failed[c] \cup {"sigaction"} \in SUBSET Calls
    BY <1>3, Failure, PlaceFacts
  <2> QED
    BY <1>1, <1>3, <2>1, <2>2, SameProcess, MoveStep, PlaceFacts
<1> QED
  BY <1>2, <1>3 DEF IgnoreHup

LEMMA ChangeDirStep ==
  ASSUME Inv, NEW c \in Copies, ChangeDir(c)
  PROVE  Inv'
PROOF
<1>1. /\ pc[c] = "chdir" /\ Goto(c, "close") /\ UNCHANGED pidfile /\ proc[c] \in Process
      /\ Fit("chdir", proc[c], failed[c])
  BY SameProcess DEF ChangeDir, At
<1>2. CASE Become(c, [proc[c] EXCEPT !.cwd = "root"]) /\ UNCHANGED failed
  <2>1. /\ Fit("close", [proc[c] EXCEPT !.cwd = "root"], failed[c])
        /\ [proc[c] EXCEPT !.cwd = "root"] \in Process
    BY <1>1, ChdirFits, SessionFacts
  <2> QED
    BY <1>1, <1>2, <2>1, SameProcess, MoveStep, PlaceFacts
<1>3. CASE Fails(c, "chdir") /\ UNCHANGED proc
  <2>1. Fit("close", proc[c], failed[c] \cup {"chdir"})
    BY <1>1, ChdirFits
  <2>2. /\ failed' = [failed EXCEPT ![c] = failed[c] \cup {"chdir"}]
        /\ failed[c] \cup {"chdir"} \in SUBSET Calls
    BY <1>3, Failure, PlaceFacts
  <2> QED
    BY <1>1, <1>3, <2>1, <2>2, SameProcess, MoveStep, PlaceFacts
<1> QED
  BY <1>2, <1>3 DEF ChangeDir

LEMMA CloseAllStep ==
  ASSUME Inv, NEW c \in Copies, CloseAll(c)
  PROVE  Inv'
PROOF
<1>1. /\ pc[c] = "close" /\ Goto(c, "null") /\ UNCHANGED <<pidfile, failed>> /\ proc[c] \in Process
      /\ Fit("close", proc[c], failed[c])
  BY SameProcess DEF CloseAll, At
<1>2. /\ Fit("null", [proc[c] EXCEPT !.stdio = "closed"], failed[c])
      /\ Fit("null", proc[c], failed[c]) /\ [proc[c] EXCEPT !.stdio = "closed"] \in Process
  BY <1>1, CloseFits, SessionFacts
<1>3. CASE Become(c, [proc[c] EXCEPT !.stdio = "closed"])
  BY <1>1, <1>2, <1>3, SameProcess, MoveStep, PlaceFacts
<1>4. CASE UNCHANGED proc
  BY <1>1, <1>2, <1>4, SameProcess, MoveStep, PlaceFacts
<1> QED
  BY <1>3, <1>4 DEF CloseAll

(* A copy that leaves has nothing more to promise. *)
LEMMA ExitStep ==
  ASSUME Inv, NEW c \in Copies, pc[c] \notin {"write", "running"}, Goto(c, "exited"),
         UNCHANGED <<proc, pidfile>>,
         UNCHANGED failed \/ Fails(c, "open")
  PROVE  Inv'
PROOF
<1>1. \E f \in SUBSET Calls : /\ failed' = [failed EXCEPT ![c] = f]
                              /\ "write" \in f <=> "write" \in failed[c]
  <2>1. CASE UNCHANGED failed
    BY <2>1, SameProcess
  <2>2. CASE Fails(c, "open")
    BY <2>2, Failure, PlaceFacts
  <2> QED
    BY <2>1, <2>2
<1> QED
  BY <1>1, SameProcess, MoveStep, ExitFits, PlaceFacts

LEMMA OpenNullStep ==
  ASSUME Inv, NEW c \in Copies, OpenNull(c)
  PROVE  Inv'
PROOF
<1>1. /\ pc[c] = "null" /\ UNCHANGED pidfile /\ proc[c] \in Process
      /\ Fit("null", proc[c], failed[c])
  BY SameProcess DEF OpenNull, At
<1>2. CASE Become(c, [proc[c] EXCEPT !.stdio = "null"]) /\ Goto(c, "open") /\ UNCHANGED failed
  <2>1. /\ Fit("open", [proc[c] EXCEPT !.stdio = "null"], failed[c])
        /\ [proc[c] EXCEPT !.stdio = "null"] \in Process
    BY <1>1, NullFits, SessionFacts
  <2> QED
    BY <1>1, <1>2, <2>1, SameProcess, MoveStep, PlaceFacts
<1>3. CASE Goto(c, "exited") /\ UNCHANGED proc /\ (UNCHANGED failed \/ Fails(c, "open"))
  BY <1>1, <1>3, ExitStep
<1> QED
  BY <1>2, <1>3 DEF OpenNull

LEMMA LockStep ==
  ASSUME Inv, NEW c \in Copies, OpenLockFile(c) \/ LockFile(c)
  PROVE  Inv'
PROOF
<1>1. /\ pc[c] \in {"open", "flock"} /\ UNCHANGED <<proc, failed, pidfile>>
      /\ Goto(c, "flock") \/ Goto(c, "truncate") \/ Goto(c, "exited")
  BY DEF OpenLockFile, LockFile, At
<1>2. Fit("flock", proc[c], failed[c]) /\ Fit("truncate", proc[c], failed[c])
  BY <1>1, SameProcess, LaterFits, PlaceFacts
<1> QED
  BY <1>1, <1>2, SameProcess, MoveStep, ExitStep, PlaceFacts

(* From here to its WritePid the file may say no pid. *)
LEMMA TruncateStep ==
  ASSUME Inv, NEW c \in Copies, Truncate(c)
  PROVE  Inv'
PROOF
<1>1. /\ pc[c] = "truncate" /\ UNCHANGED proc /\ Goto(c, "write")
      /\ \/ pidfile' = "empty" /\ UNCHANGED failed
         \/ Fails(c, "ftruncate") /\ UNCHANGED pidfile
  BY DEF Truncate, At
<1>2. \E f \in SUBSET Calls : /\ failed' = [failed EXCEPT ![c] = f] /\ failed[c] \subseteq f
                              /\ "write" \in f <=> "write" \in failed[c]
  <2>1. CASE UNCHANGED failed
    BY <2>1, SameProcess
  <2>2. CASE Fails(c, "ftruncate")
    BY <2>2, Failure, PlaceFacts
  <2> QED
    BY <1>1, <2>1, <2>2
<1>3. PICK f \in SUBSET Calls : /\ failed' = [failed EXCEPT ![c] = f] /\ failed[c] \subseteq f
                                /\ "write" \in f <=> "write" \in failed[c]
  BY <1>2
<1>4. Fit("write", proc[c], f)
  <2>1. Fit("truncate", proc[c], failed[c]) /\ "truncate" \in AfterNull /\ "write" \in AfterNull
    BY <1>1, SameProcess, PlaceFacts
  <2>2. failed[c] \subseteq f
    BY <1>3
  <2> QED
    BY <2>1, <2>2, LaterFits
<1>5. /\ TypeOK' /\ Detached'
      /\ pc'[c] = "write" /\ failed'[c] = f
      /\ \A d \in Copies \ {c} : pc'[d] = pc[d] /\ failed'[d] = failed[d]
  BY <1>1, <1>3, <1>4, SameProcess, CopyMoves, PlaceFacts
<1>6. pidfile' \in Copies => pidfile' = pidfile
  BY <1>1, ConstAssumption
<1>7. PidFileNamesRunning'
  BY <1>1, <1>3, <1>5, <1>6 DEF Inv, PidFileNamesRunning
<1>8. WritesLast'
  BY <1>1, <1>3, <1>5 DEF Inv, WritesLast
<1> QED
  BY <1>5, <1>7, <1>8 DEF Inv

LEMMA WriteStep ==
  ASSUME Inv, NEW c \in Copies, WritePid(c)
  PROVE  Inv'
PROOF
<1>1. /\ pc[c] = "write" /\ UNCHANGED proc /\ Goto(c, "running")
      /\ \/ pidfile' = c /\ UNCHANGED failed
         \/ Fails(c, "write") /\ pidfile' \in {pidfile, "cut"}
  BY DEF WritePid, At
<1>0. "write" \notin failed[c]
  BY <1>1 DEF Inv, WritesLast
<1>2. CASE pidfile' = c /\ UNCHANGED failed
  <2>1. Fit("running", proc[c], failed[c])
    BY <1>1, SameProcess, LaterFits, PlaceFacts
  <2>2. /\ TypeOK' /\ Detached' /\ pc'[c] = "running" /\ failed'[c] = failed[c]
        /\ \A d \in Copies \ {c} : pc'[d] = pc[d] /\ failed'[d] = failed[d]
    BY <1>1, <1>2, <2>1, SameProcess, CopyMoves, PlaceFacts
  <2>3. PidFileNamesRunning'
    BY <1>0, <1>2, <2>2 DEF PidFileNamesRunning
  <2>4. WritesLast'
    BY <2>2 DEF Inv, WritesLast
  <2> QED
    BY <2>2, <2>3, <2>4 DEF Inv
<1>3. CASE Fails(c, "write") /\ pidfile' \in {pidfile, "cut"}
  <2> DEFINE f == failed[c] \cup {"write"}
  <2>1. f \in SUBSET Calls /\ failed' = [failed EXCEPT ![c] = f] /\ failed[c] \subseteq f
    BY <1>3, Failure, PlaceFacts
  <2>2. Fit("running", proc[c], f)
    <3>1. Fit("write", proc[c], failed[c]) /\ "write" \in AfterNull /\ "running" \in AfterNull
      BY <1>1, SameProcess, PlaceFacts
    <3>2. failed[c] \subseteq f
      BY <2>1
    <3> HIDE DEF f
    <3> QED
      BY <3>1, <3>2, LaterFits
  <2>0. "write" \in f
    OBVIOUS
  <2> HIDE DEF f
  <2>3. /\ TypeOK' /\ Detached' /\ pc'[c] = "running" /\ failed'[c] = f
        /\ \A d \in Copies \ {c} : pc'[d] = pc[d] /\ failed'[d] = failed[d]
    BY <1>1, <2>1, <2>2, SameProcess, CopyMoves, PlaceFacts
  <2>4. pidfile' \in Copies => pidfile' = pidfile /\ pidfile # c
    BY <1>1, <1>3, ConstAssumption DEF Inv, PidFileNamesRunning
  <2>5. PidFileNamesRunning'
    BY <2>0, <2>3, <2>4 DEF Inv, PidFileNamesRunning
  <2>6. WritesLast'
    BY <2>3 DEF Inv, WritesLast
  <2> QED
    BY <2>3, <2>5, <2>6 DEF Inv
<1> QED
  BY <1>1, <1>2, <1>3

(* Neither a signal nor the hang-up moves a copy; the hang-up takes its    *)
(* terminal away.                                                          *)
LEMMA SignalStep ==
  ASSUME Inv, Hangup \/ \E c \in Copies : Die(c)
  PROVE  Inv'
PROOF
<1>1. UNCHANGED <<pc, failed, pidfile>>
  BY DEF Hangup, Die, EndedBySignal
<1>2. /\ proc' \in [Copies -> Process]
      /\ \A c \in Copies : /\ proc'[c].group_leader = proc[c].group_leader
                           /\ proc'[c].ctty \in {proc[c].ctty, "none"}
                           /\ proc'[c].hup = proc[c].hup /\ proc'[c].cwd = proc[c].cwd
                           /\ proc'[c].stdio = proc[c].stdio
  <2>1. CASE UNCHANGED proc
    BY <2>1 DEF Inv, TypeOK
  <2>2. CASE proc' = [c \in Copies |-> [proc[c] EXCEPT !.ctty = "none"]]
    <3>1. ASSUME NEW c \in Copies
          PROVE  /\ proc'[c] \in Process
                 /\ proc'[c].group_leader = proc[c].group_leader /\ proc'[c].ctty = "none"
                 /\ proc'[c].hup = proc[c].hup /\ proc'[c].cwd = proc[c].cwd
                 /\ proc'[c].stdio = proc[c].stdio
      <4>1. proc[c] \in Process /\ proc'[c] = [proc[c] EXCEPT !.ctty = "none"]
        BY <2>2 DEF Inv, TypeOK
      <4> QED
        BY <4>1 DEF Process
    <3> QED
      BY <2>2, <3>1
  <2> QED
    BY <2>1, <2>2 DEF Hangup, Die
<1>3. TypeOK' /\ WritesLast' /\ PidFileNamesRunning'
  BY <1>1, <1>2 DEF Inv, TypeOK, WritesLast, PidFileNamesRunning
<1>4. Detached'
  <2>1. ASSUME NEW c \in Copies PROVE Fit(pc[c], proc'[c], failed[c])
    <3>1. Fit(pc[c], proc[c], failed[c])
      BY DEF Inv, Detached
    <3>2. /\ proc'[c].group_leader = proc[c].group_leader
          /\ proc'[c].ctty = "tty" => proc[c].ctty = "tty"
          /\ proc'[c].hup = proc[c].hup /\ proc'[c].cwd = proc[c].cwd
          /\ proc'[c].stdio = proc[c].stdio
      BY <1>2
    <3> QED
      BY <3>1, <3>2 DEF Fit
  <2> QED
    BY <1>1, <2>1 DEF Detached
<1> QED
  BY <1>3, <1>4 DEF Inv

LEMMA InitInv == Init => Inv
PROOF
<1> SUFFICES ASSUME Init PROVE Inv
  OBVIOUS
<1>1. TypeOK
  BY SessionFacts DEF Init, TypeOK, Places
<1>2. Detached
  BY DEF Init, Detached, Fit, AfterSession, AfterHup, AfterChdir, AfterNull
<1>3. WritesLast /\ PidFileNamesRunning
  BY ConstAssumption DEF Init, WritesLast, PidFileNamesRunning
<1> QED
  BY <1>1, <1>2, <1>3 DEF Inv

LEMMA NextInv == Inv /\ [Next]_vars => Inv'
PROOF
<1> SUFFICES ASSUME Inv, [Next]_vars PROVE Inv'
  OBVIOUS
<1>1. CASE Hangup \/ \E c \in Copies : Die(c)
  BY <1>1, SignalStep
<1>2. ASSUME NEW c \in Copies, Copy(c) PROVE Inv'
  BY <1>2, GetLimitStep, ForkStep, LeadSessionStep, IgnoreHupStep, ChangeDirStep, CloseAllStep,
     OpenNullStep, LockStep, TruncateStep, WriteStep DEF Copy
<1>3. CASE UNCHANGED vars
  BY <1>3 DEF vars, Inv, TypeOK, Detached, WritesLast, PidFileNamesRunning
<1> QED
  BY <1>1, <1>2, <1>3 DEF Next

(* The inductive invariant holds in every behaviour of daemon.c. *)
THEOREM Invariance == Spec => []Inv
PROOF BY InitInv, NextInv, PTL DEF Spec

(* A copy of daemon.c that runs has its descriptors on /dev/null; it       *)
(* ignores SIGHUP, or stands in the root, unless just the call for that    *)
(* failed, and a hang-up ends it only if both fork and sigaction failed.   *)
THEOREM DaemonIsDetached == Spec => []RunningIsDetached
PROOF
<1>1. ASSUME Inv, NEW c \in Running
      PROVE  /\ proc[c].stdio = "null"
             /\ "sigaction" \notin failed[c] => proc[c].hup = "ignored"
             /\ "chdir" \notin failed[c] => proc[c].cwd = "root"
             /\ DiesOfHangup(proc[c]) => {"fork", "sigaction"} \subseteq failed[c]
  <2>1. c \in Copies /\ pc[c] = "running" /\ proc[c] \in Process /\ Fit("running", proc[c], failed[c])
    BY <1>1, SameProcess DEF Running
  <2>2. proc[c].hup \in {"default", "ignored"} /\ proc[c].cwd \in {"start", "root"}
    BY <2>1 DEF Process
  <2> QED
    BY <2>1, <2>2 DEF Fit, DiesOfHangup, AfterSession, AfterHup, AfterChdir, AfterNull
<1>2. Inv => RunningIsDetached
  BY <1>1 DEF RunningIsDetached
<1> QED
  BY <1>2, Invariance, PTL

(* However many copies race for the lock file (flock locks nothing), and   *)
(* wherever they die: the pid it says is that of a copy that came to its   *)
(* loop with its write done, and it says none, once a copy came so far,    *)
(* only after a write that failed or behind an ftruncate without one.      *)
THEOREM PidFileIsRight == Spec => []PidFileNamesRunning
PROOF BY Invariance, PTL DEF Inv

(* ---- daemonize.c ---- *)

(* Each stage leaves what NoTerminalEver needs to the next: after setsid   *)
(* no terminal, whether or not setsid worked: the copy led no group, since *)
(* fork had succeeded; after the second fork it leads no session.          *)
ZPlaces == {"limit", "fork", "setsid", "hup", "refork", "chdir", "close", "null",
            "running", "exited"}

ZInv ==
  /\ zpc \in [Copies -> ZPlaces]
  /\ zproc \in [Copies -> Process]
  /\ \A c \in Copies :
       /\ zpc[c] = "setsid" => ~zproc[c].group_leader
       /\ zpc[c] \in {"hup", "refork", "chdir", "close", "null", "running"} => zproc[c].ctty = "none"
       /\ zpc[c] \in {"chdir", "close", "null", "running"} => ~zproc[c].session_leader

LEMMA ZMove ==
  ASSUME ZInv, NEW c \in Copies, NEW there \in ZPlaces, NEW p \in Process,
         there = "setsid" => ~p.group_leader,
         there \in {"hup", "refork", "chdir", "close", "null", "running"} => p.ctty = "none",
         there \in {"chdir", "close", "null", "running"} => ~p.session_leader,
         zproc' = [zproc EXCEPT ![c] = p], zpc' = [zpc EXCEPT ![c] = there]
  PROVE  ZInv'
PROOF
<1>1. /\ zpc'[c] = there /\ \A d \in Copies \ {c} : zpc'[d] = zpc[d]
      /\ zproc'[c] = p /\ \A d \in Copies \ {c} : zproc'[d] = zproc[d]
      /\ zpc' \in [Copies -> ZPlaces] /\ zproc' \in [Copies -> Process]
  BY DEF ZInv
<1> QED
  BY <1>1 DEF ZInv

(* err_quit, or the step that was to be taken. *)
LEMMA ZStep ==
  ASSUME ZInv, NEW c \in Copies, NEW here, NEW there \in ZPlaces, NEW p \in Process,
         there = "setsid" => ~p.group_leader,
         there \in {"hup", "refork", "chdir", "close", "null", "running"} => p.ctty = "none",
         there \in {"chdir", "close", "null", "running"} => ~p.session_leader,
         Z!Step(c, here, there, p)
  PROVE  ZInv'
PROOF
<1>1. CASE zproc' = [zproc EXCEPT ![c] = p] /\ zpc' = [zpc EXCEPT ![c] = there]
  BY <1>1, ZMove
<1>2. CASE zproc' = zproc /\ zpc' = [zpc EXCEPT ![c] = "exited"]
  BY <1>2 DEF ZInv, ZPlaces
<1> QED
  BY <1>1, <1>2 DEF Z!Step

(* What the calls leave of the process, as far as ZInv asks. *)
LEMMA ProcessFacts ==
  ASSUME NEW p \in Process
  PROVE  /\ ~Forked(p).group_leader /\ ~Forked(p).session_leader /\ Forked(p).ctty = p.ctty
         /\ ~p.group_leader => SetSid(p).ctty = "none"
         /\ LET q == [p EXCEPT !.hup = "ignored"]
            IN  q.ctty = p.ctty /\ q.session_leader = p.session_leader
         /\ LET q == [p EXCEPT !.cwd = "root"]
            IN  q.ctty = p.ctty /\ q.session_leader = p.session_leader
         /\ LET q == [p EXCEPT !.stdio = "closed"]
            IN  q.ctty = p.ctty /\ q.session_leader = p.session_leader
         /\ LET q == [p EXCEPT !.stdio = "null"]
            IN  q.ctty = p.ctty /\ q.session_leader = p.session_leader
PROOF BY DEF Process, Forked, SetSid

LEMMA ZCopyStep ==
  ASSUME ZInv, NEW c \in Copies, Z!Copy(c)
  PROVE  ZInv'
PROOF
<1>0. /\ zproc[c] \in Process
      /\ zpc[c] = "setsid" => ~zproc[c].group_leader
      /\ zpc[c] \in {"hup", "refork", "chdir", "close", "null", "running"} => zproc[c].ctty = "none"
      /\ zpc[c] \in {"chdir", "close", "null", "running"} => ~zproc[c].session_leader
  BY DEF ZInv
<1>1. CASE Z!GetLimit(c)
  <2>1. "fork" \in ZPlaces
    BY DEF ZPlaces
  <2>2. Z!Step(c, "limit", "fork", zproc[c])
    BY <1>1 DEF Z!GetLimit
  <2> QED
    BY <1>0, <2>1, <2>2, ZStep
<1>2. CASE Z!FirstFork(c)
  <2>1. "setsid" \in ZPlaces /\ Forked(zproc[c]) \in Process /\ ~Forked(zproc[c]).group_leader
    BY <1>0, SessionFacts, ProcessFacts DEF ZPlaces
  <2>2. Z!Step(c, "fork", "setsid", Forked(zproc[c]))
    BY <1>2 DEF Z!FirstFork, Z!Forked, Forked
  <2> QED
    BY <2>1, <2>2, ZStep
<1>3. CASE Z!LeadSession(c)
  <2>1. /\ "hup" \in ZPlaces /\ SetSid(zproc[c]) \in Process
        /\ zpc[c] = "setsid" /\ SetSid(zproc[c]).ctty = "none"
    BY <1>0, <1>3, SessionFacts, ProcessFacts DEF ZPlaces, Z!LeadSession
  <2>2. zproc' = [zproc EXCEPT ![c] = SetSid(zproc[c])] /\ zpc' = [zpc EXCEPT ![c] = "hup"]
    BY <1>3 DEF Z!LeadSession, Z!SetSid, SetSid
  <2> QED
    BY <2>1, <2>2, ZMove
<1>4. CASE Z!IgnoreHup(c)
  <2> DEFINE p == [zproc[c] EXCEPT !.hup = "ignored"]
  <2>1. zpc[c] = "hup" /\ Z!Step(c, "hup", "refork", p)
    BY <1>4 DEF Z!IgnoreHup, Z!Step
  <2>2. "refork" \in ZPlaces /\ p \in Process /\ p.ctty = "none"
    BY <1>0, <2>1, SessionFacts, ProcessFacts DEF ZPlaces
  <2> HIDE DEF p
  <2> QED
    BY <2>1, <2>2, ZStep
<1>5. CASE Z!SecondFork(c)
  <2> DEFINE p == Forked(zproc[c])
  <2>1. zpc[c] = "refork" /\ Z!Step(c, "refork", "chdir", p)
    BY <1>5 DEF Z!SecondFork, Z!Step, Z!Forked, Forked
  <2>2. "chdir" \in ZPlaces /\ p \in Process /\ p.ctty = "none" /\ ~p.session_leader
    BY <1>0, <2>1, SessionFacts, ProcessFacts DEF ZPlaces
  <2> HIDE DEF p
  <2> QED
    BY <2>1, <2>2, ZStep
<1>6. CASE Z!ChangeDir(c)
  <2> DEFINE p == [zproc[c] EXCEPT !.cwd = "root"]
  <2>1. zpc[c] = "chdir" /\ Z!Step(c, "chdir", "close", p)
    BY <1>6 DEF Z!ChangeDir, Z!Step
  <2>2. "close" \in ZPlaces /\ p \in Process /\ p.ctty = "none" /\ ~p.session_leader
    BY <1>0, <2>1, SessionFacts, ProcessFacts DEF ZPlaces
  <2> HIDE DEF p
  <2> QED
    BY <2>1, <2>2, ZStep
<1>7. CASE Z!CloseAll(c)
  <2> DEFINE p == [zproc[c] EXCEPT !.stdio = "closed"]
  <2>1. zpc[c] = "close" /\ zproc' = [zproc EXCEPT ![c] = p] /\ zpc' = [zpc EXCEPT ![c] = "null"]
    BY <1>7 DEF Z!CloseAll
  <2>2. "null" \in ZPlaces /\ p \in Process /\ p.ctty = "none" /\ ~p.session_leader
    BY <1>0, <2>1, SessionFacts, ProcessFacts DEF ZPlaces
  <2> HIDE DEF p
  <2> QED
    BY <2>1, <2>2, ZMove
<1>8. CASE Z!OpenNull(c)
  <2> DEFINE p == [zproc[c] EXCEPT !.stdio = "null"]
  <2>1. zpc[c] = "null" /\ Z!Step(c, "null", "running", p)
    BY <1>8 DEF Z!OpenNull, Z!Step
  <2>2. "running" \in ZPlaces /\ p \in Process /\ p.ctty = "none" /\ ~p.session_leader
    BY <1>0, <2>1, SessionFacts, ProcessFacts DEF ZPlaces
  <2> HIDE DEF p
  <2> QED
    BY <2>1, <2>2, ZStep
<1> QED
  BY <1>1, <1>2, <1>3, <1>4, <1>5, <1>6, <1>7, <1>8 DEF Z!Copy

(* The hang-up takes terminals away and ends copies. *)
LEMMA ZHangupStep ==
  ASSUME ZInv, Z!Hangup
  PROVE  ZInv'
PROOF
<1>1. /\ zpc' = [c \in Copies |-> IF DiesOfHangup(zproc[c]) THEN "exited" ELSE zpc[c]]
      /\ zproc' = [c \in Copies |-> [zproc[c] EXCEPT !.ctty = "none"]]
  BY DEF Z!Hangup, Z!DiesOfHangup, DiesOfHangup
<1>2. zpc' \in [Copies -> ZPlaces] /\ zproc' \in [Copies -> Process]
  BY <1>1, SessionFacts DEF ZInv, ZPlaces
<1>3. ASSUME NEW c \in Copies
      PROVE  /\ zproc'[c].ctty = "none"
             /\ zproc'[c].group_leader = zproc[c].group_leader
             /\ zproc'[c].session_leader = zproc[c].session_leader
  <2>1. zproc[c] \in Process /\ zproc'[c] = [zproc[c] EXCEPT !.ctty = "none"]
    BY <1>1 DEF ZInv
  <2> QED
    BY <2>1 DEF Process
<1>4. \A c \in Copies : zpc'[c] = zpc[c] \/ zpc'[c] = "exited"
  BY <1>1
<1> QED
  BY <1>2, <1>3, <1>4 DEF ZInv

LEMMA ZInitInv == Z!Init => ZInv
PROOF
<1> SUFFICES ASSUME Z!Init PROVE ZInv
  OBVIOUS
<1> QED
  BY SessionFacts DEF Z!Init, Z!Launched, Launched, ZInv, ZPlaces

LEMMA ZNextInv == ZInv /\ [Z!Next]_zvars => ZInv'
PROOF
<1> SUFFICES ASSUME ZInv, [Z!Next]_zvars PROVE ZInv'
  OBVIOUS
<1>1. CASE Z!Hangup
  BY <1>1, ZHangupStep
<1>2. ASSUME NEW c \in Copies, Z!Copy(c) PROVE ZInv'
  BY <1>2, ZCopyStep
<1>3. CASE UNCHANGED zvars
  BY <1>3 DEF zvars, ZInv
<1> QED
  BY <1>1, <1>2, <1>3 DEF Z!Next

LEMMA ZSafe == ZInv => NoTerminalEver
PROOF
<1> SUFFICES ASSUME ZInv PROVE NoTerminalEver
  OBVIOUS
<1> QED
  BY DEF ZInv, NoTerminalEver, Z!NoTerminalEver, Z!Running, Z!CanAcquireTerminal

(* However it was started and whatever fails, a copy that daemonize.c has  *)
(* made a daemon has no terminal and can never be given one: the second    *)
(* fork leaves it leader of no session.                                    *)
THEOREM DaemonizeLosesTerminal == Z!Spec => []NoTerminalEver
PROOF BY ZInitInv, ZNextInv, ZSafe, PTL DEF Z!Spec, zvars, Z!vars

(* The same in the composition of the two programs.                        *)
THEOREM DaemonsLoseTerminal == DaemonsSpec => []NoTerminalEver
PROOF
<1>1. Start => ZInv
  BY ZInitInv DEF Start
<1>2. ZInv /\ [Step]_<<which, vars, zvars>> => ZInv'
  BY ZNextInv DEF Step, zvars, ZInv
<1> QED
  BY <1>1, <1>2, ZSafe, PTL DEF DaemonsSpec

-----------------------------------------------------------------------------
(* ---- task1.c to task5.c and 5.c: ProcessTree ---- *)

TPlaces == {"none", "fork1", "fork2", "body", "read", "write", "wait", "done", "dead"}

TTypeOK ==
  /\ family \in T!Programs
  /\ place \in [T!Procs -> TPlaces]
  /\ rd \in SUBSET T!Procs /\ wr \in SUBSET T!Procs
  /\ pipe \in Seq(T!Procs) /\ got \in Seq(T!Procs)
  /\ flag \in [T!Procs -> BOOLEAN]
  /\ pending \in SUBSET T!Procs
  /\ sent \in BOOLEAN
  /\ turns \in [T!Procs -> Nat]
  /\ reaped \in SUBSET T!Procs

Kids == {"child1", "child2"}

(* Who can stand where.  A process that is not forked yet is "none" until  *)
(* the fork that makes it.                                                 *)
PlacesFit ==
  /\ place["parent"] # "none"
  /\ place["parent"] = "fork1" => place["child1"] = "none"
  /\ place["parent"] \in {"fork1", "fork2"} => place["child2"] = "none"
  /\ place["child1"] = "none" => place["child2"] = "none"
  /\ place["child1"] = "none" => place["parent"] \in {"fork1", "dead"}
  /\ place["child1"] \in {"none", "fork2"} => place["grandchild"] = "none"
  /\ \A q \in T!Procs \ {"parent"} : place[q] # "fork1"
  /\ place["child1"] \in {"fork2", "wait"} => family = "task2.c"
  /\ place["parent"] = "fork2" => family # "task5.c"
  /\ place["child2"] \notin {"fork2", "wait"}
  /\ place["grandchild"] \notin {"fork2", "wait", "read", "write"}
  /\ place["child2"] # "none" => family # "task5.c"
  /\ place["grandchild"] # "none" => family = "task2.c"
  /\ \A p \in T!Procs : /\ place[p] = "read"  => T!HasPipe /\ p = T!Reader
                        /\ place[p] = "write" => T!HasPipe /\ p # T!Reader
  /\ place["parent"] = "wait" => family \in {"task2.c", "task3.c", "task4.c", "5.c"}

(* How many of its children a process has waited for. *)
One(q)  == IF q \in reaped THEN 1 ELSE 0
Took(p) == CASE p = "parent" -> One("child1") + One("child2")
             [] p = "child1" -> One("grandchild")
             [] OTHER        -> 0

(* Only task2.c, task3.c, task4.c and 5.c wait, and only task2.c's first   *)
(* child forks.                                                            *)
ReapedAreChildren ==
  /\ family \in {"task1.c", "task5.c"} => reaped = {}
  /\ reaped \subseteq T!ChildrenOf("parent") \cup T!ChildrenOf("child1")

(* wait has returned a child each time, and is not called before the       *)
(* reading is over.                                                        *)
WaitsCount ==
  \A p \in T!Procs :
    /\ place[p] = "wait" => turns[p] = Took(p)
    /\ place[p] \in {"none", "fork1", "fork2", "body", "read", "write"} => Took(p) = 0
    /\ place[p] \in {"none", "fork1", "fork2", "body"} => turns[p] = 0
    /\ place[p] = "done" =>
         Took(p) = CASE p = "parent" /\ family \in {"task2.c"} -> 1
                     [] p = "parent" /\ family \in {"task3.c", "task4.c", "5.c"} -> 2
                     [] p = "child1" /\ family = "task2.c" -> Took(p)
                     [] OTHER -> 0

(* What went through the pipe of task4.c and 5.c: at most a message of     *)
(* each child, in either order.                                            *)
Orders == {<<>>, <<"child1">>, <<"child2">>, <<"child1", "child2">>, <<"child2", "child1">>}
OncePerChild ==
  family \in {"task4.c", "5.c"} =>
    /\ got \o pipe \in Orders
    /\ \A k \in DOMAIN (got \o pipe) :
         /\ place[(got \o pipe)[k]] = "done"
         /\ family = "5.c" => flag[(got \o pipe)[k]]

(* A child of 5.c writes only if it has seen the signal.                   *)
WriterWilling ==
  family = "5.c" => \A p \in T!Procs : place[p] = "write" => flag[p]

(* Without a signal nobody of task4.c is ended early, but by a second fork *)
(* that fails.                                                             *)
NothingLost ==
  family = "task4.c" /\ ~sent /\ place["parent"] # "dead" =>
    /\ place["parent"] # "done" => "parent" \in rd
    /\ \A q \in Kids : /\ place[q] \in {"none", "body", "write", "done"}
                       /\ place[q] \in {"body", "write"} => q \in wr
                       /\ place[q] = "done" => \E k \in DOMAIN (got \o pipe) : (got \o pipe)[k] = q
    /\ place["parent"] \in {"fork1", "fork2", "body"} => "parent" \in wr
    /\ place["parent"] \notin {"fork1", "fork2"} => place["child1"] # "none" /\ place["child2"] # "none"
    /\ place["parent"] = "read" => Len(got) = turns["parent"] /\ turns["parent"] <= 2
    /\ place["parent"] \in {"fork1", "fork2", "body"} => got = <<>>
    /\ place["parent"] \in {"wait", "done"} => Len(got) = 2

(* The message of task5.c is written as a whole, by the parent, and read   *)
(* to its end.                                                             *)
WholeMessage ==
  family = "task5.c" =>
    /\ Len(got) + Len(pipe) = (IF place["parent"] = "done" THEN MsgLen ELSE 0)
    /\ place["parent"] \in {"fork1", "body", "write"} => "parent" \in wr
    /\ place["child1"] = "done" => pipe = <<>> /\ place["parent"] \in {"done", "dead"}
    /\ place["parent"] \in {"fork1", "body", "write", "done", "dead"}
    /\ place["parent"] = "body" => place["child1"] # "none"

NoSignalYet == ~sent => pending = {}

TInv == TTypeOK /\ PlacesFit /\ NoSignalYet /\ WaitsCount /\ WriterWilling
  /\ OncePerChild /\ NothingLost /\ WholeMessage /\ ReapedAreChildren

(* A message that is written, and one that is read.                        *)
LEMMA PipeIn ==
  ASSUME NEW S, NEW g \in Seq(S), NEW q \in Seq(S), NEW x \in S
  PROVE  g \o Append(q, x) = Append(g \o q, x)
PROOF OBVIOUS

LEMMA PipeOut ==
  ASSUME NEW S, NEW g \in Seq(S), NEW q \in Seq(S), q # <<>>
  PROVE  Append(g, Head(q)) \o Tail(q) = g \o q
PROOF OBVIOUS

(* What comes out of a second write. *)
LEMMA AppendPair == ASSUME NEW x, NEW y PROVE Append(<<x>>, y) = <<x, y>>
PROOF
<1>1. Append(<<x>>, y) \in Seq({x, y}) /\ <<x, y>> \in Seq({x, y})
  OBVIOUS
<1>2. Len(Append(<<x>>, y)) = 2 /\ Len(<<x, y>>) = 2
  OBVIOUS
<1>3. \A k \in 1..2 : Append(<<x>>, y)[k] = <<x, y>>[k]
  OBVIOUS
<1> QED
  BY <1>1, <1>2, <1>3, SeqEqual

(* A child that has not written yet puts its message after the other's. *)
LEMMA OrdersGrow ==
  ASSUME NEW o \in Orders, NEW x \in Kids, \A k \in DOMAIN o : o[k] # x
  PROVE  /\ Append(o, x) \in Orders
         /\ \A k \in DOMAIN Append(o, x) : Append(o, x)[k] = x \/ \E j \in DOMAIN o : Append(o, x)[k] = o[j]
         /\ \E k \in DOMAIN Append(o, x) : Append(o, x)[k] = x
         /\ \A j \in DOMAIN o : \E k \in DOMAIN Append(o, x) : Append(o, x)[k] = o[j]
PROOF
<1>1. CASE o = <<>>
  BY <1>1 DEF Orders, Kids
<1>2. CASE o = <<"child1">>
  <2>1. x = "child2" /\ Append(o, x) = <<"child1", "child2">>
    <3>1. 1 \in DOMAIN o /\ o[1] = "child1"
      BY <1>2
    <3>2. x = "child2"
      BY <3>1 DEF Kids
    <3>3. Append(<<"child1">>, "child2") = <<"child1", "child2">>
      BY AppendPair
    <3> QED
      BY <1>2, <3>2, <3>3
  <2>2. DOMAIN Append(o, x) = 1..2 /\ DOMAIN o = 1..1
    BY <1>2, <2>1
  <2>3. o[1] = "child1" /\ Append(o, x)[1] = "child1" /\ Append(o, x)[2] = "child2"
    BY <1>2, <2>1
  <2>4. Append(o, x) \in Orders
    BY <2>1 DEF Orders
  <2> QED
    BY <2>1, <2>2, <2>3, <2>4
<1>3. CASE o = <<"child2">>
  <2>1. x = "child1" /\ Append(o, x) = <<"child2", "child1">>
    <3>1. 1 \in DOMAIN o /\ o[1] = "child2"
      BY <1>3
    <3>2. x = "child1"
      BY <3>1 DEF Kids
    <3>3. Append(<<"child2">>, "child1") = <<"child2", "child1">>
      BY AppendPair
    <3> QED
      BY <1>3, <3>2, <3>3
  <2>2. DOMAIN Append(o, x) = 1..2 /\ DOMAIN o = 1..1
    BY <1>3, <2>1
  <2>3. o[1] = "child2" /\ Append(o, x)[1] = "child2" /\ Append(o, x)[2] = "child1"
    BY <1>3, <2>1
  <2>4. Append(o, x) \in Orders
    BY <2>1 DEF Orders
  <2> QED
    BY <2>1, <2>2, <2>3, <2>4
<1>4. CASE Len(o) = 2
  <2>1. o[1] \in Kids /\ o[2] \in Kids /\ o[1] # o[2] /\ DOMAIN o = 1..2
    BY <1>4 DEF Orders, Kids
  <2> QED
    BY <2>1 DEF Kids
<1> QED
  BY <1>1, <1>2, <1>3, <1>4 DEF Orders

(* Two messages are one of each child. *)
LEMMA LongOrder ==
  ASSUME NEW o \in Orders, Len(o) >= 2, NEW x \in Kids
  PROVE  /\ o \in {<<"child1", "child2">>, <<"child2", "child1">>}
         /\ \E k \in DOMAIN o : o[k] = x
PROOF
<1>1. o \in {<<"child1", "child2">>, <<"child2", "child1">>}
  <2>1. o # <<>>
    OBVIOUS
  <2>2. ASSUME o = <<"child1">> PROVE FALSE
    <3>1. Len(<<"child1">>) = 1
      OBVIOUS
    <3>2. Len(o) = 1
      BY <2>2, <3>1, Zenon
    <3> QED
      BY <3>2
  <2>3. ASSUME o = <<"child2">> PROVE FALSE
    <3>1. Len(<<"child2">>) = 1
      OBVIOUS
    <3>2. Len(o) = 1
      BY <2>3, <3>1, Zenon
    <3> QED
      BY <3>2
  <2> QED
    BY <2>1, <2>2, <2>3 DEF Orders
<1>2. DOMAIN o = 1..2 /\ {o[1], o[2]} = Kids
  BY <1>1 DEF Kids
<1> QED
  BY <1>1, <1>2

(* No child's message is there twice. *)
LEMMA OrdersDiffer ==
  ASSUME NEW o \in Orders, NEW j \in DOMAIN o, NEW k \in DOMAIN o, o[j] = o[k]
  PROVE  j = k
PROOF
<1>1. CASE Len(o) <= 1
  <2>1. DOMAIN o \subseteq 1..1
    BY <1>1 DEF Orders
  <2> QED
    BY <2>1
<1>2. CASE Len(o) >= 2
  <2>1. DOMAIN o = 1..2 /\ o[1] # o[2]
    BY <1>2, LongOrder DEF Orders, Kids
  <2> QED
    BY <2>1
<1> QED
  BY <1>1, <1>2 DEF Orders

(* A step that touches neither the pipe nor a child that is done.          *)
LEMMA SameMessages ==
  ASSUME OncePerChild, family' = family, got' = got, pipe' = pipe,
         \A q \in Kids : place[q] = "done" => place'[q] = "done" /\ flag'[q] = flag[q]
  PROVE  OncePerChild'
PROOF
<1>1. \A o \in Orders : \A k \in DOMAIN o : o[k] \in Kids
  BY DEF Orders, Kids
<1> SUFFICES ASSUME family \in {"task4.c", "5.c"} PROVE OncePerChild'
  BY DEF OncePerChild
<1>2. PICK told : told = got \o pipe
  OBVIOUS
<1>3. got' \o pipe' = told
  BY <1>2
<1>4. /\ told \in Orders
      /\ \A k \in DOMAIN told : place[told[k]] = "done"
  BY <1>2 DEF OncePerChild
<1>5. family = "5.c" => \A k \in DOMAIN told : flag[told[k]]
  BY <1>2, Zenon DEF OncePerChild
<1>6. \A k \in DOMAIN told : told[k] \in Kids
  BY <1>1, <1>4
<1>7. \A k \in DOMAIN told : place'[told[k]] = "done"
  BY <1>4, <1>6
<1>8. family = "5.c" => \A k \in DOMAIN told : flag'[told[k]]
  BY <1>4, <1>5, <1>6, Zenon
<1> QED
  BY <1>3, <1>4, <1>7, <1>8, Zenon DEF OncePerChild

(* ---- TInv from the start and at every step of a process ---- *)

LEMMA TInit == T!Init => TInv
PROOF
<1> SUFFICES ASSUME T!Init PROVE TInv
  OBVIOUS
<1> USE DEF T!Init, T!Procs
<1>0. <<>> \o <<>> = <<>> /\ DOMAIN <<>> = {}
  OBVIOUS
<1>1. TTypeOK
  <2>1. rd \in SUBSET T!Procs /\ wr \in SUBSET T!Procs
    OBVIOUS
  <2>2. place \in [T!Procs -> TPlaces]
    BY DEF TPlaces
  <2>3. pipe \in Seq(T!Procs) /\ got \in Seq(T!Procs)
    OBVIOUS
  <2>4. flag \in [T!Procs -> BOOLEAN] /\ turns \in [T!Procs -> Nat]
    OBVIOUS
  <2>5. pending \in SUBSET T!Procs /\ reaped \in SUBSET T!Procs /\ sent \in BOOLEAN
    OBVIOUS
  <2> QED
    BY <2>1, <2>2, <2>3, <2>4, <2>5 DEF TTypeOK
<1>2. PlacesFit /\ NoSignalYet
  BY DEF PlacesFit, NoSignalYet
<1>3. WaitsCount
  BY DEF WaitsCount, Took, One
<1>4. OncePerChild
  BY <1>0 DEF OncePerChild, Orders
<1>5. NothingLost
  BY <1>0 DEF NothingLost, T!HasPipe, Kids
<1>6. WholeMessage
  BY <1>0 DEF WholeMessage, T!HasPipe
<1>8. WriterWilling
  BY DEF WriterWilling, PlacesFit, T!Willing, T!Forked, T!ChildStart
<1>9. ReapedAreChildren
  BY DEF ReapedAreChildren, T!ChildrenOf, PlacesFit
<1> QED
  BY <1>9, <1>8, <1>1, <1>2, <1>3, <1>4, <1>5, <1>6 DEF TInv

(* The child is made with its parent's descriptors and flag. *)
LEMMA TForkStep ==
  ASSUME TInv, MsgLen \in Nat, NEW p \in T!Procs, T!Fork(p)
  PROVE  TInv'
PROOF
<1> USE DEF TInv, TTypeOK, T!Procs, T!Fork, T!Exit, T!Goto
<1>1. TTypeOK'
  BY DEF TPlaces, T!Forked, T!ChildStart, T!Receive
<1>2. PlacesFit'
  <2>1. CASE p = "parent" /\ place[p] = "fork1"
    BY <2>1 DEF PlacesFit, TPlaces, T!Forked, T!ChildStart, T!HasPipe, T!Reader
  <2>2. CASE p = "parent" /\ place[p] = "fork2"
    BY <2>2 DEF PlacesFit, TPlaces, T!Forked, T!ChildStart, T!HasPipe, T!Reader
  <2>3. CASE p = "child1" /\ place[p] = "fork2"
    BY <2>3 DEF PlacesFit, TPlaces, T!Forked, T!ChildStart, T!HasPipe, T!Reader
  <2> QED
    BY <2>1, <2>2, <2>3 DEF PlacesFit
<1>3. NoSignalYet'
  BY DEF NoSignalYet
<1>4. WaitsCount'
  BY DEF WaitsCount, Took, One, TPlaces, PlacesFit, T!Forked, T!ChildStart, T!HasPipe, T!Reader,
     T!ChildrenOf, T!Waits, T!OnlyPrints, T!Willing
<1>5. OncePerChild'
  <2>1. /\ family' = family /\ got' = got /\ pipe' = pipe
        /\ place[p] # "done" /\ place[T!Forked(p)] = "none" /\ flag \in [T!Procs -> BOOLEAN]
    BY DEF PlacesFit, T!Forked
  <2>2. \A q \in Kids : place[q] = "done" => place'[q] = "done" /\ flag'[q] = flag[q]
    BY <2>1 DEF Kids, T!Forked
  <2> QED
    BY <2>1, <2>2, SameMessages
<1>6. NothingLost'
  <2>1. CASE p = "parent" /\ place[p] = "fork1"
    BY <2>1 DEF NothingLost, Kids, PlacesFit, WaitsCount, T!Forked, T!ChildStart
  <2>2. CASE p = "parent" /\ place[p] = "fork2"
    BY <2>2 DEF NothingLost, Kids, PlacesFit, WaitsCount, T!Forked, T!ChildStart
  <2>3. CASE p = "child1" /\ place[p] = "fork2"
    BY <2>3 DEF NothingLost, PlacesFit
  <2> QED
    BY <2>1, <2>2, <2>3 DEF PlacesFit
<1>7. WholeMessage'
  BY DEF WholeMessage, PlacesFit, T!Forked, T!ChildStart, T!Reader, T!HasPipe, T!HasHandler, T!OnlyPrints
<1>8. WriterWilling'
  BY DEF WriterWilling, PlacesFit, T!Willing, T!Forked, T!ChildStart
<1>9. ReapedAreChildren'
  BY DEF ReapedAreChildren, T!ChildrenOf, PlacesFit
<1> QED
  BY <1>9, <1>8, <1>1, <1>2, <1>3, <1>4, <1>5, <1>6, <1>7

(* The caller leaves, and its descriptors with it. *)
LEMMA TForkFailsStep ==
  ASSUME TInv, MsgLen \in Nat, NEW p \in T!Procs, T!ForkFails(p)
  PROVE  TInv'
PROOF
<1> USE DEF TInv, TTypeOK, T!Procs, T!ForkFails, T!Exit, T!Goto
<1>1. TTypeOK'
  BY DEF TPlaces, T!Forked, T!ChildStart, T!Receive
<1>2. PlacesFit'
  BY DEF PlacesFit, TPlaces, T!Forked, T!ChildStart, T!HasPipe, T!Reader, T!OnlyPrints, T!Willing
<1>3. NoSignalYet'
  BY DEF NoSignalYet
<1>4. WaitsCount'
  BY DEF WaitsCount, Took, One, TPlaces, PlacesFit, T!Forked, T!ChildStart, T!HasPipe, T!Reader,
     T!ChildrenOf, T!Waits, T!OnlyPrints, T!Willing
<1>5. OncePerChild'
  <2>1. \A q \in Kids : place[q] = "done" => place'[q] = "done" /\ flag'[q] = flag[q]
    BY DEF Kids, T!Lives
  <2> QED
    BY <2>1, SameMessages
<1>6. NothingLost'
  BY DEF NothingLost, Kids, OncePerChild, NoSignalYet, PlacesFit, T!Forked, T!ChildStart, T!Reader,
     T!HasPipe, T!HasHandler
<1>7. WholeMessage'
  BY DEF WholeMessage, PlacesFit, T!Forked, T!ChildStart, T!Reader, T!HasPipe, T!HasHandler, T!OnlyPrints
<1>8. WriterWilling'
  BY DEF WriterWilling, PlacesFit, T!Willing, T!Forked, T!ChildStart
<1>9. ReapedAreChildren'
  BY DEF ReapedAreChildren, T!ChildrenOf, PlacesFit
<1> QED
  BY <1>9, <1>8, <1>1, <1>2, <1>3, <1>4, <1>5, <1>6, <1>7

(* Nothing goes through a pipe in these programs. *)
LEMMA TPrintAndEndStep ==
  ASSUME TInv, MsgLen \in Nat, NEW p \in T!Procs, T!PrintAndEnd(p)
  PROVE  TInv'
PROOF
<1> USE DEF TInv, TTypeOK, T!Procs, T!PrintAndEnd, T!Exit, T!Goto
<1>1. TTypeOK'
  <2>1. place' \in [{"parent", "child1", "child2", "grandchild"} -> TPlaces]
    BY DEF TPlaces
  <2> QED
    BY <2>1
<1>2. PlacesFit'
  BY DEF PlacesFit, TPlaces, T!Forked, T!ChildStart, T!HasPipe, T!Reader, T!OnlyPrints, T!Willing
<1>3. NoSignalYet'
  BY DEF NoSignalYet
<1>4. WaitsCount'
  BY DEF WaitsCount, Took, One, TPlaces, PlacesFit, T!Forked, T!ChildStart, T!HasPipe, T!Reader,
     T!ChildrenOf, T!Waits, T!OnlyPrints, T!Willing
<1>5. OncePerChild'
  <2>1. \A q \in Kids : place[q] = "done" => place'[q] = "done" /\ flag'[q] = flag[q]
    BY DEF Kids, T!Lives
  <2> QED
    BY <2>1, SameMessages
<1>6. NothingLost'
  BY DEF NothingLost, T!OnlyPrints
<1>7. WholeMessage'
  BY DEF WholeMessage, PlacesFit, T!Forked, T!ChildStart, T!Reader, T!HasPipe, T!HasHandler, T!OnlyPrints
<1>8. WriterWilling'
  BY DEF WriterWilling, PlacesFit, T!Willing, T!Forked, T!ChildStart
<1>9. ReapedAreChildren'
  BY DEF ReapedAreChildren, T!ChildrenOf, PlacesFit
<1> QED
  BY <1>9, <1>8, <1>1, <1>2, <1>3, <1>4, <1>5, <1>6, <1>7

(* Each end is kept by who uses it. *)
LEMMA TOpenPipeStep ==
  ASSUME TInv, MsgLen \in Nat, NEW p \in T!Procs, T!OpenPipe(p)
  PROVE  TInv'
PROOF
<1> USE DEF TInv, TTypeOK, T!Procs, T!OpenPipe, T!Exit, T!Goto
<1>1. TTypeOK'
  <2>1. place' \in [{"parent", "child1", "child2", "grandchild"} -> TPlaces]
    BY DEF TPlaces
  <2>2. wr' \subseteq wr /\ rd' \subseteq rd
    BY DEF T!ReaderCloses
  <2> QED
    BY <2>1, <2>2
<1>2. PlacesFit'
  BY DEF PlacesFit, TPlaces, T!Forked, T!ChildStart, T!HasPipe, T!Reader, T!OnlyPrints, T!Willing
<1>3. NoSignalYet'
  BY DEF NoSignalYet
<1>4. WaitsCount'
  BY DEF WaitsCount, Took, One, TPlaces, PlacesFit, T!Forked, T!ChildStart, T!HasPipe, T!Reader,
     T!ChildrenOf, T!Waits, T!OnlyPrints, T!Willing
<1>5. OncePerChild'
  <2>1. \A q \in Kids : place[q] = "done" => place'[q] = "done" /\ flag'[q] = flag[q]
    BY DEF Kids
  <2> QED
    BY <2>1, SameMessages
<1>6. NothingLost'
  BY SMTT(30) DEF NothingLost, T!Willing, T!Reader, T!ReaderCloses, Kids, PlacesFit, WaitsCount
<1>7. WholeMessage'
  BY DEF WholeMessage, T!Willing, T!Reader, T!ReaderCloses, PlacesFit
<1>8. WriterWilling'
  BY DEF WriterWilling, PlacesFit, T!Willing, T!Forked, T!ChildStart
<1>9. ReapedAreChildren'
  BY DEF ReapedAreChildren, T!ChildrenOf, PlacesFit
<1> QED
  BY <1>9, <1>8, <1>1, <1>2, <1>3, <1>4, <1>5, <1>6, <1>7

(* A message goes behind what is there; a dead reader ends the writer. *)
LEMMA TWriteStep ==
  ASSUME TInv, MsgLen \in Nat, NEW p \in T!Procs, T!Write(p)
  PROVE  TInv'
PROOF
<1> USE DEF TInv, TTypeOK, T!Procs, T!Write, T!Exit, T!Goto
<1>1. TTypeOK'
  <2>1. place' \in [{"parent", "child1", "child2", "grandchild"} -> TPlaces]
    BY DEF TPlaces
  <2>2. wr' \subseteq wr /\ rd' \subseteq rd
    OBVIOUS
  <2>3. pipe' \in Seq({"parent", "child1", "child2", "grandchild"})
    <3>1. [k \in 1..MsgLen |-> p] \in Seq({"parent", "child1", "child2", "grandchild"})
      OBVIOUS
    <3>2. pipe \o [k \in 1..MsgLen |-> p] \in Seq({"parent", "child1", "child2", "grandchild"})
      BY <3>1
    <3>3. Append(pipe, p) \in Seq({"parent", "child1", "child2", "grandchild"})
      OBVIOUS
    <3> QED
      BY <3>2, <3>3
  <2> QED
    BY <2>1, <2>2, <2>3
<1>2. PlacesFit'
  BY DEF PlacesFit, TPlaces, T!Forked, T!ChildStart, T!HasPipe, T!Reader, T!OnlyPrints, T!Willing
<1>3. NoSignalYet'
  BY DEF NoSignalYet
<1>4. WaitsCount'
  BY DEF WaitsCount, Took, One, TPlaces, PlacesFit, T!Forked, T!ChildStart, T!HasPipe, T!Reader,
     T!ChildrenOf, T!Waits, T!OnlyPrints, T!Willing
<1>5. OncePerChild' /\ NothingLost'
  <2>1. CASE family \notin {"task4.c", "5.c"}
    BY <2>1 DEF OncePerChild, NothingLost
  <2>2. CASE family \in {"task4.c", "5.c"} /\ rd = {}
    <3>1. p \in Kids
      BY <2>2 DEF PlacesFit, Kids, T!Reader
    <3>2. OncePerChild'
      BY <2>2 DEF OncePerChild
    <3>3. ASSUME family = "task4.c", ~sent, place["parent"] # "dead" PROVE FALSE
      <4>1. place["parent"] = "done" /\ Len(got) = 2
        BY <2>2, <3>3 DEF NothingLost
      <4>2. got \o pipe \in Orders /\ Len(got \o pipe) >= 2
        BY <2>2, <4>1 DEF OncePerChild
      <4>3. \E k \in DOMAIN (got \o pipe) : (got \o pipe)[k] = p
        BY <3>1, <4>2, LongOrder
      <4> QED
        BY <2>2, <4>3 DEF OncePerChild
    <3>4. NothingLost'
      BY <2>2, <3>1, <3>3 DEF NothingLost, Kids
    <3> QED
      BY <3>2, <3>4
  <2>3. CASE family \in {"task4.c", "5.c"} /\ rd # {}
    <3>1. p \in Kids
      BY <2>3 DEF PlacesFit, Kids, T!Reader
    <3> DEFINE all == got \o pipe
    <3>2. got' = got /\ got' \o pipe' = Append(all, p) /\ place' = [place EXCEPT ![p] = "done"]
      <4>1. got' = got /\ pipe' = Append(pipe, p) /\ place' = [place EXCEPT ![p] = "done"]
        BY <2>3
      <4>2. got \o Append(pipe, p) = Append(got \o pipe, p)
        BY PipeIn
      <4> QED
        BY <4>1, <4>2
    <3>3. all \in Orders /\ \A k \in DOMAIN all : all[k] # p
      BY <2>3 DEF OncePerChild
    <3>4. /\ Append(all, p) \in Orders
          /\ \A k \in DOMAIN Append(all, p) :
                Append(all, p)[k] = p \/ \E j \in DOMAIN all : Append(all, p)[k] = all[j]
          /\ \E k \in DOMAIN Append(all, p) : Append(all, p)[k] = p
          /\ \A j \in DOMAIN all : \E k \in DOMAIN Append(all, p) : Append(all, p)[k] = all[j]
      <4> HIDE DEF all, TInv, TTypeOK, T!Procs, T!Write, T!Exit
      <4> QED
        BY <3>1, <3>3, OrdersGrow
    <3>5. family = "5.c" => flag[p]
      BY DEF WriterWilling
    <3>6. \A k \in DOMAIN all : place[all[k]] = "done" /\ (family = "5.c" => flag[all[k]]) /\ all[k] \in T!Procs
      BY <2>3, <3>3 DEF OncePerChild, Orders
    <3>7. place'[p] = "done" /\ \A q \in T!Procs \ {p} : place'[q] = place[q]
      BY <3>1, <3>2
    <3> HIDE DEF all
    <3>8. OncePerChild'
      BY <3>2, <3>4, <3>5, <3>6, <3>7 DEF OncePerChild
    <3>9. NothingLost'
      <4> SUFFICES ASSUME family = "task4.c", ~sent, place["parent"] # "dead" PROVE NothingLost'
        BY <3>1, <3>7 DEF NothingLost, Kids
      <4>1. \A q \in Kids : place[q] = "done" => \E k \in DOMAIN all : all[k] = q
        BY DEF NothingLost, all
      <4>2. \A q \in Kids : place'[q] = "done" => \E k \in DOMAIN Append(all, p) : Append(all, p)[k] = q
        <5> SUFFICES ASSUME NEW q \in Kids, place'[q] = "done"
                     PROVE  \E k \in DOMAIN Append(all, p) : Append(all, p)[k] = q
          OBVIOUS
        <5>1. CASE q = p
          BY <3>4, <5>1
        <5>2. CASE q # p
          <6>1. place[q] = "done"
            BY <3>7, <5>2 DEF Kids
          <6>2. PICK j \in DOMAIN all : all[j] = q
            BY <4>1, <6>1
          <6>3. \E k \in DOMAIN Append(all, p) : Append(all, p)[k] = all[j]
            BY <3>4
          <6> QED
            BY <6>2, <6>3
        <5> QED
          BY <5>1, <5>2
      <4>3. /\ place["parent"] # "done" => "parent" \in rd
            /\ \A q \in Kids : /\ place[q] \in {"none", "body", "write", "done"}
                               /\ place[q] \in {"body", "write"} => q \in wr
        BY DEF NothingLost
      <4>4. rd' = rd \ {p} /\ wr' = wr \ {p} /\ place'["parent"] = place["parent"]
        BY <2>3, <3>1, <3>7 DEF Kids
      <4>5. /\ place'["parent"] # "done" => "parent" \in rd'
            /\ \A q \in Kids : /\ place'[q] \in {"none", "body", "write", "done"}
                               /\ place'[q] \in {"body", "write"} => q \in wr'
        BY <3>1, <3>7, <4>3, <4>4 DEF Kids
      <4>6. turns' = turns /\ family' = family
        OBVIOUS
      <4>7. \A q \in Kids : place'[q] = "done" => \E k \in DOMAIN (got' \o pipe') : (got' \o pipe')[k] = q
        BY <3>2, <4>2
      <4>8. /\ place'["parent"] \in {"fork1", "fork2", "body"} => "parent" \in wr'
            /\ place'["parent"] \notin {"fork1", "fork2"} => place'["child1"] # "none" /\ place'["child2"] # "none"
            /\ place'["parent"] = "read" => Len(got') = turns'["parent"] /\ turns'["parent"] <= 2
            /\ place'["parent"] \in {"fork1", "fork2", "body"} => got' = <<>>
            /\ place'["parent"] \in {"wait", "done"} => Len(got') = 2
        BY <3>1, <3>2, <3>7, <4>4, <4>6 DEF NothingLost, Kids
      <4> QED
        BY <4>5, <4>7, <4>8 DEF NothingLost
    <3> QED
      BY <3>8, <3>9
  <2> QED
    BY <2>1, <2>2, <2>3
<1>7. WholeMessage'
  BY DEF WholeMessage, PlacesFit, T!Forked, T!ChildStart, T!Reader, T!HasPipe, T!HasHandler, T!OnlyPrints
<1>8. WriterWilling'
  BY DEF WriterWilling, PlacesFit, T!Willing, T!Forked, T!ChildStart
<1>9. ReapedAreChildren'
  BY DEF ReapedAreChildren, T!ChildrenOf, PlacesFit
<1> QED
  BY <1>9, <1>8, <1>1, <1>2, <1>3, <1>4, <1>5, <1>7

(* The first message in the pipe moves to the end of what was read. *)
LEMMA TReadMessageStep ==
  ASSUME TInv, MsgLen \in Nat, T!ReadMessage
  PROVE  TInv'
PROOF
<1> USE DEF TInv, TTypeOK, T!Procs, T!ReadMessage, T!Exit, T!Goto
<1>1. TTypeOK'
  BY DEF TPlaces, T!Forked, T!ChildStart, T!Receive
<1>2. PlacesFit'
  BY DEF PlacesFit, TPlaces, T!Forked, T!ChildStart, T!HasPipe, T!Reader, T!OnlyPrints, T!Willing
<1>3. NoSignalYet'
  BY DEF NoSignalYet
<1>4. WaitsCount'
  BY DEF WaitsCount, Took, One, TPlaces, PlacesFit, T!Forked, T!ChildStart, T!HasPipe, T!Reader,
     T!ChildrenOf, T!Waits, T!OnlyPrints, T!Willing
<1>5. OncePerChild' /\ got' \o pipe' = got \o pipe
  <2>1. got' \o pipe' = got \o pipe
    <3>1. CASE pipe # <<>>
      <4>1. got' = Append(got, Head(pipe)) /\ pipe' = Tail(pipe)
        BY <3>1 DEF T!Receive
      <4>2. got \in Seq(T!Procs) /\ pipe \in Seq(T!Procs)
        OBVIOUS
      <4> HIDE DEF TInv, TTypeOK, T!Procs, T!ReadMessage, T!Exit, T!Goto
      <4>3. Append(got, Head(pipe)) \o Tail(pipe) = got \o pipe
        BY <3>1, <4>2, PipeOut
      <4> QED
        BY <4>1, <4>3
    <3>2. CASE pipe = <<>>
      BY <3>2 DEF T!Receive
    <3> QED
      BY <3>1, <3>2
  <2> QED
    BY <2>1 DEF OncePerChild
<1>6. NothingLost'
  <2> SUFFICES ASSUME family = "task4.c", ~sent PROVE NothingLost'
    BY DEF NothingLost
  <2>1. Len(got) = turns["parent"] /\ turns["parent"] < 2
    BY DEF NothingLost
  <2>2. ASSUME pipe = <<>> PROVE FALSE
    <3>1. wr = {} /\ got \o pipe = got
      BY <2>2 DEF T!Receive
    <3>2. \A q \in Kids : \E k \in DOMAIN got : got[k] = q
      BY <3>1 DEF NothingLost, Kids
    <3> QED
      BY <2>1, <3>2 DEF Kids
  <2>3. Len(got') = Len(got) + 1
    BY <2>2 DEF T!Receive
  <2> QED
    BY <1>5, <2>1, <2>3 DEF NothingLost
<1>7. WholeMessage'
  BY DEF WholeMessage, PlacesFit, T!Forked, T!ChildStart, T!Reader, T!HasPipe, T!HasHandler, T!OnlyPrints
<1>8. WriterWilling'
  BY DEF WriterWilling, PlacesFit, T!Willing, T!Forked, T!ChildStart
<1>9. ReapedAreChildren'
  BY DEF ReapedAreChildren, T!ChildrenOf, PlacesFit
<1> QED
  BY <1>9, <1>8, <1>1, <1>2, <1>3, <1>4, <1>5, <1>6, <1>7

LEMMA TEnoughReadStep ==
  ASSUME TInv, MsgLen \in Nat, T!EnoughRead
  PROVE  TInv'
PROOF
<1> USE DEF TInv, TTypeOK, T!Procs, T!EnoughRead, T!Exit, T!Goto
<1>1. TTypeOK'
  BY DEF TPlaces, T!Forked, T!ChildStart, T!Receive
<1>2. PlacesFit'
  BY DEF PlacesFit, TPlaces, T!Forked, T!ChildStart, T!HasPipe, T!Reader, T!OnlyPrints, T!Willing
<1>3. NoSignalYet'
  BY DEF NoSignalYet
<1>4. WaitsCount'
  BY DEF WaitsCount, Took, One, TPlaces, PlacesFit, T!Forked, T!ChildStart, T!HasPipe, T!Reader,
     T!ChildrenOf, T!Waits, T!OnlyPrints, T!Willing
<1>5. OncePerChild'
  <2>1. \A q \in Kids : place[q] = "done" => place'[q] = "done" /\ flag'[q] = flag[q]
    BY DEF Kids, T!Lives
  <2> QED
    BY <2>1, SameMessages
<1>6. NothingLost'
  BY DEF NothingLost, T!Willing, Kids
<1>7. WholeMessage'
  BY DEF WholeMessage, PlacesFit, T!Forked, T!ChildStart, T!Reader, T!HasPipe, T!HasHandler, T!OnlyPrints
<1>8. WriterWilling'
  BY DEF WriterWilling, PlacesFit, T!Willing, T!Forked, T!ChildStart
<1>9. ReapedAreChildren'
  BY DEF ReapedAreChildren, T!ChildrenOf, PlacesFit
<1> QED
  BY <1>9, <1>8, <1>1, <1>2, <1>3, <1>4, <1>5, <1>6, <1>7

(* task5.c: byte by byte, to the end of the file. *)
LEMMA TReadByteStep ==
  ASSUME TInv, MsgLen \in Nat, T!ReadByte
  PROVE  TInv'
PROOF
<1> USE DEF TInv, TTypeOK, T!Procs, T!ReadByte, T!Exit, T!Goto
<1>1. TTypeOK'
  <2>1. place' \in [{"parent", "child1", "child2", "grandchild"} -> TPlaces]
    BY DEF TPlaces
  <2>2. wr' \subseteq wr /\ rd' \subseteq rd
    OBVIOUS
  <2>3. /\ pipe' \in Seq({"parent", "child1", "child2", "grandchild"})
        /\ got' \in Seq({"parent", "child1", "child2", "grandchild"})
    BY DEF T!Receive
  <2> QED
    BY <2>1, <2>2, <2>3
<1>2. PlacesFit'
  BY DEF PlacesFit, TPlaces, T!Forked, T!ChildStart, T!HasPipe, T!Reader, T!OnlyPrints, T!Willing
<1>3. NoSignalYet'
  BY DEF NoSignalYet
<1>4. WaitsCount'
  BY DEF WaitsCount, Took, One, TPlaces, PlacesFit, T!Forked, T!ChildStart, T!HasPipe, T!Reader,
     T!ChildrenOf, T!Waits, T!OnlyPrints, T!Willing
<1>5. OncePerChild'
  BY DEF OncePerChild, PlacesFit, T!Forked, T!ChildStart, T!Reader, T!HasPipe, T!Willing, T!Receive
<1>6. NothingLost'
  BY DEF NothingLost, Kids, OncePerChild, NoSignalYet, PlacesFit, T!Forked, T!ChildStart, T!Reader,
     T!HasPipe, T!HasHandler
<1>7. WholeMessage'
  <2>1. CASE pipe = <<>>
    BY <2>1 DEF WholeMessage, T!Receive
  <2>2. CASE pipe # <<>>
    <3>1. Len(got') + Len(pipe') = Len(got) + Len(pipe)
      BY <2>2 DEF T!Receive
    <3> QED
      BY <2>2, <3>1 DEF WholeMessage, T!Receive
  <2> QED
    BY <2>1, <2>2
<1>8. WriterWilling'
  BY DEF WriterWilling, PlacesFit, T!Willing, T!Forked, T!ChildStart
<1>9. ReapedAreChildren'
  BY DEF ReapedAreChildren, T!ChildrenOf, PlacesFit
<1> QED
  BY <1>9, <1>8, <1>1, <1>2, <1>3, <1>4, <1>5, <1>6, <1>7

LEMMA TStartWaitingStep ==
  ASSUME TInv, MsgLen \in Nat, NEW p \in T!Procs, T!StartWaiting(p)
  PROVE  TInv'
PROOF
<1> USE DEF TInv, TTypeOK, T!Procs, T!StartWaiting, T!Exit, T!Goto
<1>1. TTypeOK'
  BY DEF TPlaces, T!Forked, T!ChildStart, T!Receive
<1>2. PlacesFit'
  BY DEF PlacesFit, TPlaces, T!Forked, T!ChildStart, T!HasPipe, T!Reader, T!OnlyPrints, T!Willing
<1>3. NoSignalYet'
  BY DEF NoSignalYet
<1>4. WaitsCount'
  BY DEF WaitsCount, Took, One, TPlaces, PlacesFit, T!Forked, T!ChildStart, T!HasPipe, T!Reader,
     T!ChildrenOf, T!Waits, T!OnlyPrints, T!Willing
<1>5. OncePerChild'
  <2>1. \A q \in Kids : place[q] = "done" => place'[q] = "done" /\ flag'[q] = flag[q]
    BY DEF Kids, T!Lives
  <2> QED
    BY <2>1, SameMessages
<1>6. NothingLost'
  BY DEF NothingLost, Kids, OncePerChild, NoSignalYet, PlacesFit, T!Forked, T!ChildStart, T!Reader,
     T!HasPipe, T!HasHandler
<1>7. WholeMessage'
  BY DEF WholeMessage, PlacesFit, T!Forked, T!ChildStart, T!Reader, T!HasPipe, T!HasHandler, T!OnlyPrints
<1>8. WriterWilling'
  BY DEF WriterWilling, PlacesFit, T!Willing, T!Forked, T!ChildStart
<1>9. ReapedAreChildren'
  BY DEF ReapedAreChildren, T!ChildrenOf, PlacesFit
<1> QED
  BY <1>9, <1>8, <1>1, <1>2, <1>3, <1>4, <1>5, <1>6, <1>7

(* wait returns one more child. *)
LEMMA TWaitStep ==
  ASSUME TInv, MsgLen \in Nat, NEW p \in T!Procs, T!Wait(p)
  PROVE  TInv'
PROOF
<1> USE DEF TInv, TTypeOK, T!Procs, T!Wait, T!Exit, T!Goto
<1>1. TTypeOK'
  BY DEF TPlaces, T!ChildrenOf
<1>2. PlacesFit'
  BY DEF PlacesFit, TPlaces, T!Forked, T!ChildStart, T!HasPipe, T!Reader, T!OnlyPrints, T!Willing
<1>3. NoSignalYet'
  BY DEF NoSignalYet
<1>4. WaitsCount'
  BY DEF WaitsCount, Took, One, TPlaces, PlacesFit, T!Forked, T!ChildStart, T!HasPipe, T!Reader,
     T!ChildrenOf, T!Waits, T!OnlyPrints, T!Willing
<1>5. OncePerChild'
  <2>1. \A q \in Kids : place[q] = "done" => place'[q] = "done" /\ flag'[q] = flag[q]
    BY DEF Kids, T!Lives
  <2> QED
    BY <2>1, SameMessages
<1>6. NothingLost'
  BY DEF NothingLost, Kids, OncePerChild, NoSignalYet, PlacesFit, T!Forked, T!ChildStart, T!Reader,
     T!HasPipe, T!HasHandler
<1>7. WholeMessage'
  BY DEF WholeMessage, PlacesFit, T!Forked, T!ChildStart, T!Reader, T!HasPipe, T!HasHandler, T!OnlyPrints
<1>8. WriterWilling'
  BY DEF WriterWilling, PlacesFit, T!Willing, T!Forked, T!ChildStart
<1>9. ReapedAreChildren'
  BY DEF ReapedAreChildren, T!ChildrenOf, PlacesFit
<1> QED
  BY <1>9, <1>8, <1>1, <1>2, <1>3, <1>4, <1>5, <1>6, <1>7

(* After the last wait, with the counts of WaitsCount. *)
LEMMA TReturnStep ==
  ASSUME TInv, MsgLen \in Nat, NEW p \in T!Procs, T!Return(p)
  PROVE  TInv'
PROOF
<1> USE DEF TInv, TTypeOK, T!Procs, T!Return, T!Exit, T!Goto
<1>1. TTypeOK'
  BY DEF TPlaces, T!Forked, T!ChildStart, T!Receive
<1>2. PlacesFit'
  BY DEF PlacesFit, TPlaces, T!Forked, T!ChildStart, T!HasPipe, T!Reader, T!OnlyPrints, T!Willing
<1>3. NoSignalYet'
  BY DEF NoSignalYet
<1>4. WaitsCount'
  BY DEF WaitsCount, Took, One, TPlaces, PlacesFit, T!Forked, T!ChildStart, T!HasPipe, T!Reader,
     T!ChildrenOf, T!Waits, T!OnlyPrints, T!Willing
<1>5. OncePerChild'
  <2>1. \A q \in Kids : place[q] = "done" => place'[q] = "done" /\ flag'[q] = flag[q]
    BY DEF Kids, T!Lives
  <2> QED
    BY <2>1, SameMessages
<1>6. NothingLost'
  BY DEF NothingLost, Kids, OncePerChild, NoSignalYet, PlacesFit, T!Forked, T!ChildStart, T!Reader,
     T!HasPipe, T!HasHandler
<1>7. WholeMessage'
  BY DEF WholeMessage, PlacesFit, T!Forked, T!ChildStart, T!Reader, T!HasPipe, T!HasHandler, T!OnlyPrints
<1>8. WriterWilling'
  BY DEF WriterWilling, PlacesFit, T!Willing, T!Forked, T!ChildStart
<1>9. ReapedAreChildren'
  BY DEF ReapedAreChildren, T!ChildrenOf, PlacesFit
<1> QED
  BY <1>9, <1>8, <1>1, <1>2, <1>3, <1>4, <1>5, <1>6, <1>7

(* From here on NothingLost says nothing. *)
LEMMA TCtrlCStep ==
  ASSUME TInv, MsgLen \in Nat, T!CtrlC
  PROVE  TInv'
PROOF
<1> USE DEF TInv, TTypeOK, T!Procs, T!CtrlC, T!Exit, T!Goto
<1>1. TTypeOK'
  BY DEF TPlaces, T!Forked, T!ChildStart, T!Receive
<1>2. PlacesFit'
  BY DEF PlacesFit, TPlaces, T!Forked, T!ChildStart, T!HasPipe, T!Reader, T!OnlyPrints, T!Willing
<1>3. NoSignalYet'
  BY DEF NoSignalYet
<1>4. WaitsCount'
  BY DEF WaitsCount, Took, One, TPlaces, PlacesFit, T!Forked, T!ChildStart, T!HasPipe, T!Reader,
     T!ChildrenOf, T!Waits, T!OnlyPrints, T!Willing
<1>5. OncePerChild'
  <2>1. \A q \in Kids : place[q] = "done" => place'[q] = "done" /\ flag'[q] = flag[q]
    BY DEF Kids, T!Lives
  <2> QED
    BY <2>1, SameMessages
<1>6. NothingLost'
  BY DEF NothingLost, Kids, OncePerChild, NoSignalYet, PlacesFit, T!Forked, T!ChildStart, T!Reader,
     T!HasPipe, T!HasHandler
<1>7. WholeMessage'
  BY DEF WholeMessage, PlacesFit, T!Forked, T!ChildStart, T!Reader, T!HasPipe, T!HasHandler, T!OnlyPrints
<1>8. WriterWilling'
  BY DEF WriterWilling, PlacesFit, T!Willing, T!Forked, T!ChildStart
<1>9. ReapedAreChildren'
  BY DEF ReapedAreChildren, T!ChildrenOf, PlacesFit
<1> QED
  BY <1>9, <1>8, <1>1, <1>2, <1>3, <1>4, <1>5, <1>6, <1>7

(* It sets the flag or ends the process. *)
LEMMA TInterruptStep ==
  ASSUME TInv, MsgLen \in Nat, NEW p \in T!Procs, T!Interrupt(p)
  PROVE  TInv'
PROOF
<1> USE DEF TInv, TTypeOK, T!Procs, T!Interrupt, T!Exit, T!Goto
<1>1. TTypeOK'
  <2>1. place' \in [{"parent", "child1", "child2", "grandchild"} -> TPlaces]
    BY DEF TPlaces
  <2>2. wr' \subseteq wr /\ rd' \subseteq rd /\ pending' \subseteq pending
    OBVIOUS
  <2>3. flag' \in [{"parent", "child1", "child2", "grandchild"} -> BOOLEAN]
    OBVIOUS
  <2> QED
    BY <2>1, <2>2, <2>3
<1>2. PlacesFit'
  BY DEF PlacesFit, TPlaces, T!Lives, T!HasPipe, T!Reader, T!HasHandler
<1>3. NoSignalYet'
  BY DEF NoSignalYet
<1>4. WaitsCount'
  BY DEF WaitsCount, Took, One, TPlaces, PlacesFit, T!Forked, T!ChildStart, T!HasPipe, T!Reader,
     T!ChildrenOf, T!Waits, T!OnlyPrints, T!Willing
<1>5. OncePerChild'
  BY DEF T!Lives, T!HasHandler, OncePerChild, PlacesFit, T!Forked, T!ChildStart, T!Reader, T!HasPipe,
     T!Willing, T!Receive
<1>6. NothingLost'
  BY DEF NothingLost, Kids, OncePerChild, NoSignalYet, PlacesFit, T!Forked, T!ChildStart, T!Reader,
     T!HasPipe, T!HasHandler
<1>7. WholeMessage'
  BY DEF WholeMessage, PlacesFit, T!Forked, T!ChildStart, T!Reader, T!HasPipe, T!HasHandler, T!OnlyPrints
<1>8. WriterWilling'
  BY DEF WriterWilling, PlacesFit, T!Willing, T!Forked, T!ChildStart
<1>9. ReapedAreChildren'
  BY DEF ReapedAreChildren, T!ChildrenOf, PlacesFit
<1> QED
  BY <1>9, <1>8, <1>1, <1>2, <1>3, <1>4, <1>5, <1>6, <1>7

LEMMA TNextInv == ASSUME MsgLen \in Nat, TInv, [T!Next]_T!vars PROVE TInv'
PROOF
<1>1. CASE UNCHANGED T!vars
  <2> USE <1>1 DEF T!vars
  <2>1. TTypeOK' /\ NoSignalYet' /\ WriterWilling' /\ ReapedAreChildren'
    BY DEF TInv, TTypeOK, NoSignalYet, WriterWilling, ReapedAreChildren, T!ChildrenOf
  <2>2. PlacesFit'
    BY DEF TInv, PlacesFit, T!HasPipe, T!Reader
  <2>3. WaitsCount'
    BY DEF TInv, WaitsCount, Took, One
  <2>4. OncePerChild' /\ NothingLost' /\ WholeMessage'
    BY DEF TInv, OncePerChild, NothingLost, WholeMessage
  <2> QED
    BY <2>1, <2>2, <2>3, <2>4 DEF TInv
<1> QED
  BY <1>1, TForkStep, TForkFailsStep, TPrintAndEndStep, TOpenPipeStep, TWriteStep, TReadMessageStep,
     TEnoughReadStep, TReadByteStep, TStartWaitingStep, TWaitStep, TReturnStep, TCtrlCStep,
     TInterruptStep DEF T!Next, T!Step, T!Finished, T!Procs

LEMMA TSafe == TInv => T!ParentCollects
PROOF
<1> SUFFICES ASSUME TInv PROVE T!ParentCollects
  OBVIOUS
<1> USE DEF TInv, TTypeOK, T!Procs
<1>1. place["parent"] = "done" =>
        CASE family \in {"task3.c", "task4.c", "5.c"} -> T!ChildrenOf("parent") \subseteq reaped
          [] family = "task2.c" -> T!Cardinality(reaped \cap T!ChildrenOf("parent")) = 1
          [] OTHER -> reaped = {}
  <2> SUFFICES ASSUME place["parent"] = "done"
               PROVE CASE family \in {"task3.c", "task4.c", "5.c"} -> T!ChildrenOf("parent") \subseteq reaped
                       [] family = "task2.c" -> T!Cardinality(reaped \cap T!ChildrenOf("parent")) = 1
                       [] OTHER -> reaped = {}
    OBVIOUS
  <2>1. CASE family \in {"task3.c", "task4.c", "5.c"}
    BY <2>1 DEF WaitsCount, Took, One, T!ChildrenOf
  <2>2. CASE family = "task2.c"
    <3>1. \E q \in Kids : reaped \cap Kids = {q}
      BY <2>2 DEF WaitsCount, Took, One, Kids
    <3>2. \A q : Cardinality({q}) = 1
      BY FS_Singleton
    <3>3. T!Cardinality(reaped \cap T!ChildrenOf("parent")) = Cardinality(reaped \cap Kids)
      BY DEF T!Cardinality, Cardinality, T!ChildrenOf, Kids
    <3> QED
      BY <2>2, <3>1, <3>2, <3>3
  <2>3. CASE family \in {"task1.c", "task5.c"}
    BY <2>3 DEF ReapedAreChildren
  <2> QED
    BY <2>1, <2>2, <2>3 DEF T!Programs
<1>2. family = "task4.c" /\ place["parent"] = "done" /\ ~sent
        => got \in {<<"child1", "child2">>, <<"child2", "child1">>}
  <2> SUFFICES ASSUME family = "task4.c", place["parent"] = "done", ~sent
               PROVE  got \in {<<"child1", "child2">>, <<"child2", "child1">>}
    OBVIOUS
  <2>1. Len(got) = 2 /\ got \o pipe \in Orders
    BY DEF NothingLost, OncePerChild
  <2>2. Len(got \o pipe) <= 2
    BY <2>1 DEF Orders
  <2>3. Len(got \o pipe) = Len(got) + Len(pipe)
    OBVIOUS
  <2>4. pipe = <<>>
    BY <2>1, <2>2, <2>3, EmptySeq
  <2>5. got \o pipe = got
    BY <2>4
  <2>6. got \in Orders
    BY <2>1, <2>5
  <2>7. "child1" \in Kids /\ Len(got) >= 2
    BY <2>1 DEF Kids
  <2> QED
    BY <2>6, <2>7, LongOrder
<1>3. family = "task5.c" /\ place["child1"] = "done" /\ place["parent"] = "done" => Len(got) = MsgLen
  BY DEF WholeMessage
<1>4. family = "5.c" => T!IsInjective(got) /\ \A k \in DOMAIN got : flag[got[k]]
  <2> SUFFICES ASSUME family = "5.c" PROVE T!IsInjective(got) /\ \A k \in DOMAIN got : flag[got[k]]
    OBVIOUS
  <2> DEFINE all == got \o pipe
  <2>1. \A k \in DOMAIN got : k \in DOMAIN all /\ all[k] = got[k]
    OBVIOUS
  <2>2. \A j, k \in DOMAIN all : all[j] = all[k] => j = k
    BY OrdersDiffer DEF OncePerChild
  <2>3. \A k \in DOMAIN all : flag[all[k]]
    BY DEF OncePerChild
  <2> HIDE DEF all
  <2> QED
    BY <2>1, <2>2, <2>3 DEF T!IsInjective
<1> QED
  BY <1>1, <1>2, <1>3, <1>4 DEF T!ParentCollects

(* A parent that returns has waited for what its program makes it wait     *)
(* for, whatever forks fail and whenever Ctrl+C comes.  Without a signal   *)
(* task4.c has read one message of each child and task5.c's child all of   *)
(* the message; the parent of 5.c never reads a child's message twice, nor *)
(* one of a child that has not seen the signal.                            *)
THEOREM ParentsCollect == T!Spec => []ParentCollects
PROOF
<1>1. TInv /\ [T!Next]_T!vars => TInv'
  BY ProgramsAssumption, TNextInv
<1> QED
  BY <1>1, TInit, TSafe, PTL DEF T!Spec, ParentCollects

-----------------------------------------------------------------------------
(* ---- the protected mode program: ProtectedMode ---- *)

(* The instructions in their order, from one to another.                   *)
There    == {"mask", "mask2", "lidt", "cli"}
Printing == {"digit", "step"}
Inside   == {"call", "memory", "place", "add", "work"} \cup Printing

(* What the program and the controllers are set to at each instruction.    *)
BTypeOK ==
  /\ ip \in {"save", "icw1", "icw2", "nmi", "switch", "entry", "sti", "return", "icw1 back", "icw2 back",
             "masks back", "lidt back", "nmi back", "sti back", "end", "astray", "fault"} \cup There \cup Inside
  /\ protected \in BOOLEAN /\ iflag \in BOOLEAN /\ nmi \in BOOLEAN
  /\ digits \in 0..8 /\ edi \in Int /\ spot \in Int

Modes ==
  /\ protected <=> ip \in {"entry", "sti", "return"} \cup Inside
  /\ iflag <=> ip \in {"save", "icw1", "icw2", "end"} \cup There \cup Inside
  /\ nmi <=> ip \in {"save", "icw1", "icw2", "nmi", "sti back", "end"} \cup There
  /\ ip \in {"save", "icw1", "icw2", "mask", "mask2", "lidt", "nmi back", "sti back", "end"} => idtr = "real"
  /\ ip \in {"cli", "nmi", "switch", "entry", "sti"} \cup Inside => idtr = "IDT"

Controllers ==
  /\ ip \in {"save", "icw1", "masks back", "lidt back", "nmi back", "sti back", "end"} => base = 8
  /\ ip = "icw2" => base = -1
  /\ ip \in {"nmi", "switch", "entry", "sti"} \cup There \cup Inside => base = 32
  /\ ip \in {"nmi", "switch", "entry", "sti"} \cup Inside => mask = {"disk", "other"}
  /\ ip \in {"mask2", "lidt", "cli"} => mask = {"disk", "other"}
  /\ ip \in {"lidt back", "nmi back", "sti back", "end"} => mask = master /\ mask2 = slave

(* Where the next digit goes, as a number of digits before the place that  *)
(* a tick, or AddOffset, with or without a tick, has put edi to.           *)
ToPrint == \E k \in 0..digits : edi \in {192 - 2 * k, 158 - 2 * k, 330 - 2 * k}
Printed == \E k \in 0..digits - 1 : edi \in {192 - 2 * k, 158 - 2 * k, 330 - 2 * k}

PlaceRight == digits > 0 => spot \in 0..479 \ 160..175

Digits ==
  /\ ip = "add"   => edi \in {20, 158}
  /\ ip = "digit" => digits < 8 /\ ToPrint
  /\ ip = "step"  => digits > 0 /\ Printed
  /\ ip \notin {"astray", "fault", "work", "return", "icw1 back", "icw2 back",
             "masks back", "lidt back", "nmi back", "sti back", "end"} \cup Printing => digits = 0
  /\ ip = "work" => digits = 8
  /\ PlaceRight

BInv == BTypeOK /\ (ip \notin {"astray", "fault"} => Modes /\ Controllers) /\ Digits

(* ---- BInv from the start, at every instruction and interrupt ---- *)

LEMMA BInit == B!Init => BInv
PROOF
<1> SUFFICES ASSUME B!Init PROVE BInv
  OBVIOUS
<1> USE DEF B!Init, There, Printing, Inside
<1>1. BTypeOK
  <2>1. protected \in BOOLEAN /\ iflag \in BOOLEAN /\ nmi \in BOOLEAN
    BY Zenon
  <2>2. ip = "save" /\ digits = 0 /\ edi = 0 /\ spot = 0
    OBVIOUS
  <2> QED
    BY <2>1, <2>2 DEF BTypeOK
<1>2. Modes
  BY DEF Modes
<1>3. Controllers
  BY DEF Controllers
<1>4. Digits
  BY DEF Digits, PlaceRight
<1> QED
  BY <1>1, <1>2, <1>3, <1>4 DEF BInv

(* One case per instruction; edi and the place on the screen are followed  *)
(* in PrintDigit, NextDigit and AddOffset.                                 *)
LEMMA BInstruction == BInv /\ B!Instruction => BInv'
PROOF
<1> SUFFICES ASSUME BInv, B!Instruction PROVE BInv'
  OBVIOUS
<1> USE DEF BInv, BTypeOK, There, Printing, Inside, B!Goto, B!machine, B!pics, B!program
<1>1. CASE B!SaveMasks
  BY <1>1 DEF B!SaveMasks, Modes, Controllers, Digits, PlaceRight
<1>2. CASE B!StartSetup
  <2>1. CASE ip = "icw1" /\ ip' = "icw2"
    BY <1>2, <2>1 DEF B!StartSetup, Modes, Controllers, Digits, PlaceRight
  <2>2. CASE ip = "icw1 back" /\ ip' = "icw2 back"
    BY <1>2, <2>2 DEF B!StartSetup, Modes, Controllers, Digits, PlaceRight
  <2> QED
    BY <1>2, <2>1, <2>2 DEF B!StartSetup
<1>3. CASE B!MoveVectors
  BY <1>3 DEF B!MoveVectors, Modes, Controllers, Digits, PlaceRight
<1>4. CASE B!MaskMaster
  BY <1>4 DEF B!MaskMaster, Modes, Controllers, Digits, PlaceRight
<1>5. CASE B!MaskSlave
  BY <1>5 DEF B!MaskSlave, Modes, Controllers, Digits, PlaceRight
<1>6. CASE B!LoadIDT
  BY <1>6 DEF B!LoadIDT, Modes, Controllers, Digits, PlaceRight
<1>7. CASE B!Disable
  BY <1>7 DEF B!Disable, Modes, Controllers, Digits, PlaceRight
<1>8. CASE B!DisableNMI
  BY <1>8 DEF B!DisableNMI, Modes, Controllers, Digits, PlaceRight
<1>9. CASE B!Switch
  <2>1. BTypeOK'
    BY <1>9 DEF B!Switch
  <2>2. Modes'
    <3>1. ip' = "entry" /\ idtr' = idtr /\ protected' /\ iflag' = iflag /\ nmi' = nmi
      BY <1>9 DEF B!Switch
    <3>2. ip = "switch" /\ ~iflag /\ ~nmi /\ idtr = "IDT"
      BY <1>9 DEF B!Switch, B!Goto, Modes, Inside, There
    <3> QED
      BY <3>1, <3>2 DEF Modes
  <2>3. Controllers' /\ Digits'
    BY <1>9 DEF B!Switch, Controllers, Digits, PlaceRight
  <2> QED
    BY <2>1, <2>2, <2>3
<1>10. CASE B!PM_entry
  BY <1>10 DEF B!PM_entry, Modes, Controllers, Digits, PlaceRight
<1>11. CASE B!Enable
  BY <1>11 DEF B!Enable, Modes, Controllers, Digits, PlaceRight
<1>12. CASE B!LoadFlat
  BY <1>12 DEF B!LoadFlat, Modes, Controllers, Digits, PlaceRight
<1>24. CASE B!ProbeMemory
  BY <1>24 DEF B!ProbeMemory, Modes, Controllers, Digits, PlaceRight
<1>23. CASE B!SetPlace
  BY <1>23 DEF B!SetPlace, Modes, Controllers, Digits, PlaceRight
<1>13. CASE B!AddOffset
  BY <1>13 DEF B!AddOffset, Modes, Controllers, Digits, PlaceRight, ToPrint, Printed
<1>14. CASE B!PrintDigit
  BY <1>14 DEF B!PrintDigit, Modes, Controllers, Digits, PlaceRight, ToPrint, Printed
<1>15. CASE B!NextDigit
  <2>1. ip = "step" /\ digits \in 1..8 /\ digits' = digits /\ edi' = edi - 2
    BY <1>15 DEF B!NextDigit, Digits, PlaceRight
  <2>2. PICK k \in 0..digits - 1 : edi \in {192 - 2 * k, 158 - 2 * k, 330 - 2 * k}
    BY <2>1 DEF Digits, PlaceRight, ToPrint, Printed
  <2>3. k + 1 \in 0..digits /\ edi' \in {192 - 2 * (k + 1), 158 - 2 * (k + 1), 330 - 2 * (k + 1)}
    BY <2>1, <2>2
  <2>4. ToPrint'
    BY <2>1, <2>3 DEF ToPrint
  <2>5. ip' = IF digits = 8 THEN "work" ELSE "digit"
    BY <1>15 DEF B!NextDigit
  <2>6. digits > 0 => spot' \in 0..479 \ 160..175
    BY <1>15 DEF B!NextDigit, Digits, PlaceRight
  <2>7. CASE digits = 8
    BY <1>15, <2>1, <2>5, <2>6, <2>7 DEF B!NextDigit, Modes, Controllers, Digits, PlaceRight
  <2>8. CASE digits # 8
    BY <1>15, <2>1, <2>4, <2>5, <2>6, <2>8 DEF B!NextDigit, Modes, Controllers, Digits, PlaceRight
  <2> QED
    BY <2>7, <2>8
<1>16. CASE B!GoBack
  BY <1>16 DEF B!GoBack, Modes, Controllers, Digits, PlaceRight
<1>17. CASE B!RM_return
  <2>1. ip = "return" /\ ip' = "icw1 back" /\ ~protected' /\ UNCHANGED <<iflag, nmi, idtr>>
    BY <1>17 DEF B!RM_return
  <2>2. ~iflag /\ ~nmi
    BY <2>1 DEF Modes
  <2>3. Modes'
    BY <2>1, <2>2 DEF Modes
  <2>4. BTypeOK'
    BY <1>17 DEF B!RM_return
  <2>5. Controllers'
    BY <1>17 DEF B!RM_return, Controllers
  <2>6. Digits'
    BY <1>17 DEF B!RM_return, Digits, PlaceRight
  <2> QED
    BY <2>3, <2>4, <2>5, <2>6
<1>18. CASE B!MoveVectorsBack
  BY <1>18 DEF B!MoveVectorsBack, Modes, Controllers, Digits, PlaceRight
<1>19. CASE B!RestoreMasks
  BY <1>19 DEF B!RestoreMasks, Modes, Controllers, Digits, PlaceRight
<1>20. CASE B!LoadRealIDT
  BY <1>20 DEF B!LoadRealIDT, Modes, Controllers, Digits, PlaceRight
<1>21. CASE B!EnableNMI
  BY <1>21 DEF B!EnableNMI, Modes, Controllers, Digits, PlaceRight
<1>22. CASE B!EnableBack
  BY <1>22 DEF B!EnableBack, Modes, Controllers, Digits, PlaceRight
<1> QED
  BY <1>1, <1>2, <1>3, <1>4, <1>5, <1>6, <1>7, <1>8, <1>9, <1>10, <1>11, <1>12, <1>13, <1>14, <1>15, <1>16,
     <1>17, <1>18, <1>19, <1>20, <1>21, <1>22, <1>23, <1>24 DEF B!Instruction

(* A tick leaves edi where the printing can still go on without reaching   *)
(* the clock.                                                              *)
LEMMA BTick == BInv /\ B!new_int08 => BInv'
PROOF
<1> SUFFICES ASSUME BInv, B!new_int08 PROVE BInv'
  OBVIOUS
<1>1. /\ ip' = ip /\ edi' = 2 + 172 - 8 * 2
      /\ UNCHANGED <<digits, spot, protected, iflag, nmi, idtr, base, mask, mask2, master, slave>>
  BY DEF B!new_int08, B!tick, B!machine, B!pics
<1>2. ip \notin {"astray", "fault"}
  BY DEF B!new_int08, B!tick, B!Accepted, B!Runs
<1>3. Modes' /\ Controllers'
  BY <1>1, <1>2 DEF Modes, Controllers, BInv
<1>4. edi' = 158 /\ edi' = 158 - 2 * 0
  BY <1>1
<1>5. digits \in 0..8 /\ Digits
  BY DEF BInv, BTypeOK
<1>6. ToPrint'
  <2>1. 0 \in 0..digits
    BY <1>5
  <2> QED
    BY <1>1, <1>4, <2>1 DEF ToPrint
<1>7. digits > 0 => Printed'
  <2>1. digits > 0 => 0 \in 0..digits - 1
    BY <1>5
  <2> QED
    BY <1>1, <1>4, <2>1 DEF Printed
<1>8. Digits'
  <2>1. ip = "add" => edi' \in {20, 158}
    BY <1>4
  <2>2. PlaceRight'
    BY <1>1, <1>5 DEF Digits, PlaceRight
  <2>3. ip' = ip /\ digits' = digits
    BY <1>1
  <2>4. Digits /\ (digits > 0 => Printed')
    BY <1>5, <1>7
  <2> QED
    <3>1. ip' = "add" => edi' \in {20, 158}
      BY <2>1, <2>3
    <3>2. ip' = "digit" => digits' < 8 /\ ToPrint'
      BY <1>6, <2>3, <2>4 DEF Digits
    <3>3. ip' = "step" => digits' > 0 /\ Printed'
      BY <2>3, <2>4 DEF Digits
    <3>4. ip' = "work" => digits' = 8
      BY <2>3, <2>4 DEF Digits
    <3>5. ip' \notin {"astray", "fault", "work", "return", "icw1 back", "icw2 back",
             "masks back", "lidt back", "nmi back", "sti back", "end"} \cup Printing => digits' = 0
      BY <2>3, <2>4 DEF Digits
    <3> QED
      BY <2>2, <3>1, <3>2, <3>3, <3>4, <3>5 DEF Digits
<1>9. BTypeOK'
  <2>1. edi' \in Int
    BY <1>4
  <2> QED
    BY <1>1, <2>1, Zenon DEF BInv, BTypeOK
<1> QED
  BY <1>3, <1>8, <1>9 DEF BInv

(* Nothing else that comes touches what the invariant is about.            *)
LEMMA BOther ==
  ASSUME BInv, ip' \in {ip, "astray"} \/ (ip = "memory" /\ ip' = "fault"),
         UNCHANGED <<protected, iflag, nmi, idtr, base, mask, mask2, master, slave, edi, digits, spot>>
  PROVE  BInv'
PROOF
<1>1. BTypeOK'
  BY DEF BInv, BTypeOK
<1>2. (ToPrint <=> ToPrint') /\ (Printed <=> Printed') /\ (PlaceRight <=> PlaceRight')
  BY DEF ToPrint, Printed, PlaceRight
<1>3. Digits
  BY DEF BInv
<1>4. Digits'
  <2>1. CASE ip' = ip
    BY <1>2, <1>3, <2>1 DEF Digits
  <2>2. CASE ip' = "astray"
    BY <1>2, <1>3, <2>2 DEF Digits, Printing
  <2>3. CASE ip = "memory" /\ ip' = "fault"
    BY <1>2, <1>3, <2>3 DEF Digits, Printing
  <2> QED
    BY <2>1, <2>2, <2>3
<1>5. ip' \notin {"astray", "fault"} => Modes' /\ Controllers'
  BY DEF BInv, Modes, Controllers
<1> QED
  BY <1>1, <1>4, <1>5 DEF BInv

LEMMA BNextInv == BInv /\ [B!Next]_B!vars => BInv'
PROOF
<1> SUFFICES ASSUME BInv, [B!Next]_B!vars PROVE BInv'
  OBVIOUS
<1> USE DEF B!machine, B!pics, B!program
<1>1. CASE B!WrongHandler \/ B!NMI
  BY <1>1, BOther DEF B!WrongHandler, B!NMI, B!Astray
<1>2. CASE B!DosHandler \/ B!new_int09 \/ B!Raise \/ B!Key
  BY <1>2, BOther DEF B!DosHandler, B!new_int09, B!key, B!typed, B!flat, B!Raise, B!Key
<1>3. CASE UNCHANGED B!vars
  BY <1>3, BOther DEF B!vars
<1> QED
  BY <1>1, <1>2, <1>3, BInstruction, BTick DEF B!Next

LEMMA BSafe == BInv => B!AsItWas /\ B!DigitsMissTheClock
PROOF
<1> SUFFICES ASSUME BInv PROVE B!AsItWas /\ B!DigitsMissTheClock
  OBVIOUS
<1>1. ASSUME ip = "end"
      PROVE  ~protected /\ iflag /\ nmi /\ idtr = "real" /\ base = 8 /\ mask = master /\ mask2 = slave
  <2>1. Modes /\ Controllers
    BY <1>1 DEF BInv
  <2>2. ip \notin {"entry", "sti", "return"} \cup Inside
    BY <1>1 DEF Inside, Printing
  <2>3. ~protected /\ iflag /\ nmi /\ idtr = "real"
    BY <1>1, <2>1, <2>2 DEF Modes
  <2>4. base = 8 /\ mask = master /\ mask2 = slave
    BY <1>1, <2>1 DEF Controllers
  <2> QED
    BY <2>3, <2>4
<1>2. (digits > 0 => spot \in 0..479 \ 160..175) /\ (ip = "work" => digits = 8)
  BY DEF BInv, Digits, PlaceRight
<1> QED
  BY <1>1, <1>2 DEF B!AsItWas, B!DigitsMissTheClock

(* An interrupt that is accepted meets the table and the vectors of its    *)
(* mode, but for the instructions before cli.                              *)
LEMMA BHandlerThere == BInv /\ B!WrongHandler => ip \in There /\ iflag
PROOF
<1> SUFFICES ASSUME BInv, NEW l \in B!Lines, B!Accepted(l), ~B!Matching(l) PROVE ip \in There /\ iflag
  BY DEF B!WrongHandler
<1> USE DEF B!Accepted, B!First, B!Presented, B!Matching, B!Runs, B!Lines, BInv
<1>1. iflag /\ ip \notin {"end", "astray"} /\ l \in irr \ mask /\ base # -1
  OBVIOUS
<1>2. CASE ip \in Inside
  BY <1>1, <1>2 DEF Modes, Controllers
<1>3. CASE ip \in {"save", "icw1", "icw2"}
  BY <1>1, <1>3 DEF Modes, Controllers, Inside, Printing
<1> QED
  BY <1>1, <1>2, <1>3 DEF Modes

(* An interrupt that is accepted meets its own table and vectors, or comes *)
(* between them.                                                           *)
LEMMA BAstray ==
  ASSUME BInv, [B!Next]_B!vars, ip # "astray", ip' = "astray"
  PROVE  (ip \in There /\ iflag) \/ (ip = "nmi" /\ nmi)
PROOF
<1>1. CASE B!Instruction
  BY <1>1 DEF B!Instruction, B!Goto, B!SaveMasks, B!StartSetup, B!MoveVectors, B!MaskMaster, B!MaskSlave,
     B!LoadIDT, B!Disable, B!DisableNMI, B!Switch, B!PM_entry, B!Enable, B!LoadFlat, B!ProbeMemory, B!SetPlace, B!AddOffset,
     B!PrintDigit, B!NextDigit, B!GoBack, B!RM_return, B!MoveVectorsBack, B!RestoreMasks, B!LoadRealIDT,
     B!EnableNMI, B!EnableBack
<1>2. CASE B!WrongHandler
  BY <1>2, BHandlerThere
<1>3. CASE B!NMI
  <2>1. nmi /\ (protected \/ idtr = "IDT") /\ Modes
    BY <1>3 DEF B!NMI, B!Runs, BInv
  <2>2. ip \in {"save", "icw1", "icw2", "nmi", "sti back", "end"} \cup There
    BY <2>1 DEF Modes
  <2>3. ip \in {"save", "icw1", "icw2", "sti back", "end"} => idtr = "real" /\ ~protected
    BY <2>1 DEF Modes, Inside, Printing
  <2>4. ip \in There => iflag
    BY <2>1 DEF Modes
  <2> QED
    BY <2>1, <2>2, <2>3, <2>4
<1>4. CASE B!DosHandler \/ B!new_int08 \/ B!new_int09 \/ B!Raise \/ B!Key \/ UNCHANGED B!vars
  BY <1>4 DEF B!DosHandler, B!new_int08, B!tick, B!new_int09, B!key, B!typed, B!Raise, B!Key, B!vars
<1> QED
  BY <1>1, <1>2, <1>3, <1>4 DEF B!Next

(* A program that ends has left the machine as it found it: real mode, its *)
(* interrupt table, the vectors at 8, both masks, and interrupts on again. *)
THEOREM MachineIsRestored == B!Spec => []AsItWas
PROOF BY BInit, BNextInv, BSafe, PTL DEF B!Spec, AsItWas

(* A tick between two digits of the memory size moves the rest of them,    *)
(* since new_int08 does not save edi, but never onto the clock or what is  *)
(* typed; and all eight are printed before the program goes on.            *)
THEOREM DigitsStayClear == B!Spec => []DigitsMissTheClock
PROOF BY BInit, BNextInv, BSafe, PTL DEF B!Spec, DigitsMissTheClock

(* An interrupt goes astray only between the new vectors and cli, or an    *)
(* NMI right after it: never in protected mode and never on the way back.  *)
THEOREM OnlyTheWayThereIsUnsafe == B!Spec => AstrayOnlyOnTheWayThere
PROOF
<1>1. BInv /\ [B!Next]_B!vars =>
        [ip # "astray" /\ ip' = "astray" =>
           \/ ip \in {"mask", "mask2", "lidt", "cli"} /\ iflag
           \/ ip = "nmi" /\ nmi]_B!vars
  BY BAstray DEF There
<1> QED
  BY <1>1, BInit, BNextInv, PTL DEF B!Spec, AstrayOnlyOnTheWayThere, B!AstrayOnlyOnTheWayThere

-----------------------------------------------------------------------------
(* ---- loading and unloading the kernel modules: ModuleLife ---- *)

Resources == {"proc", "irq", "wq", "work1", "init1", "work2", "init2", "fs", "area", "cache", "object",
              "pot", "dir", "link", "reset", "handler", "callers", "tasklet_kill"}
Items == {"tasklet", "work1", "work2"}

MTypeOK ==
  /\ module \in {"tasklet.c", "queue.c", "virtual_fc.c", "fortune.c", "main.c"}
  /\ phase \in {"init", "undo", "live", "exit", "failed", "gone", "stuck"}
  /\ todo \in Seq(Resources)
  /\ held \in SUBSET Resources /\ freed \in SUBSET Resources
  /\ handler \in {"idle"} \cup Items
  /\ queued \in SUBSET Items /\ running \in SUBSET Items
  /\ caller \in {"outside", "inside"} /\ wrote \in BOOLEAN
  /\ mount \in {"none", "new", "inode", "mounted"}

(* The whole of what init, its error path or exit has to do.  Any error    *)
(* path of one module is an end of its longest.                            *)
Course ==
  CASE phase = "init" -> M!InitOf.takes
    [] phase = "exit" -> M!ExitOf
    [] OTHER -> CASE module = "tasklet.c" -> <<>>
                  [] module = "queue.c" -> <<"irq", "handler">>
                  [] module = "virtual_fc.c" -> <<"object", "cache", "area">>
                  [] OTHER -> <<"pot">>

(* What is left is the end of it.                                          *)
Left == Len(todo)
OnCourse ==
  phase \in {"init", "undo", "exit"} =>
    /\ Left <= Len(Course)
    /\ \A k \in 1..Left : todo[k] = Course[Len(Course) - Left + k]

Idle == handler = "idle" /\ queued = {} /\ running = {}

(* Each module's resources, by what its function has left to do.           *)
Tasklet ==
  module = "tasklet.c" =>
    /\ held \subseteq {"proc", "irq"} /\ mount = "none"
    /\ handler \in {"idle", "tasklet"} /\ queued \cup running \subseteq {"tasklet"}
    /\ ~came => Idle
    /\ phase = "init" /\ Left > 0 => ~came /\ "irq" \notin held
    /\ phase = "init" /\ Left > 1 => held = {}
    /\ phase \in {"undo", "failed"} => ~came /\ "irq" \notin held
    /\ phase \in {"init", "undo", "failed"} /\ caller = "inside" => "proc" \in held
    /\ phase = "exit" /\ Left <= 3 => "irq" \notin held
    /\ phase = "exit" /\ Left <= 1 => "proc" \notin held
    /\ phase = "exit" /\ Left = 0 => caller = "outside"
    /\ phase = "gone" => held = {} /\ caller = "outside"
    /\ phase # "stuck"

(* An item of queue.c is initialised as soon as init has passed it.        *)
ItemsReady == /\ "work1" \in held \cup freed => "init1" \in held
              /\ "work2" \in held \cup freed => "init2" \in held
NoWork == {"work1", "work2"} \cap (held \cup freed) = {} /\ queued = {} /\ running = {}

Queue ==
  module = "queue.c" =>
    /\ held \subseteq {"irq", "wq", "work1", "init1", "work2", "init2"}
    /\ caller = "outside" /\ mount = "none"
    /\ handler # "tasklet" /\ queued \cup running \subseteq {"work1", "work2"}
    /\ phase = "init" =>
         /\ freed = {}
         /\ Left > 5 => held = {} /\ Idle
         /\ Left > 4 => held \subseteq {"irq"}
         /\ Left <= 4 => "wq" \in held
         /\ Left > 3 => NoWork
         /\ Left > 1 => "work2" \notin held
         /\ Left <= 2 => ("work1" \in held => "init1" \in held)
         /\ Left = 0 => ItemsReady
    /\ phase \in {"undo", "failed"} => held \subseteq {"irq"} /\ NoWork
    /\ phase = "undo" /\ Left <= 1 => held = {}
    /\ phase = "undo" /\ Left = 0 => Idle
    /\ phase = "failed" => held = {} /\ Idle
    /\ phase = "live" => freed = {} /\ ItemsReady /\ "wq" \in held
    /\ phase = "exit" =>
         /\ ItemsReady
         /\ Left = 5 => freed = {} /\ "wq" \in held
         /\ Left <= 4 => "wq" \notin held /\ "wq" \in freed /\ queued = {} /\ running = {}
         /\ Left <= 3 => "irq" \notin held
         /\ Left <= 2 => handler = "idle"
         /\ Left >= 2 => freed \cap {"work1", "work2"} = {}
         /\ Left <= 1 => "work1" \notin held
         /\ Left = 0 => "work2" \notin held
    /\ phase = "gone" => held \subseteq {"init1", "init2"} /\ Idle
    /\ phase # "stuck"

VirtualFc ==
  module = "virtual_fc.c" =>
    /\ held \subseteq {"fs", "area", "cache", "object"}
    /\ Idle /\ caller = "outside"
    /\ mount # "none" => "fs" \in held /\ phase \notin {"exit", "gone"}
    /\ phase = "init" =>
         /\ Left > 0 => "object" \notin held
         /\ Left > 1 => "cache" \notin held
         /\ Left > 2 => "area" \notin held
         /\ Left > 3 => held = {}
    /\ phase = "undo" =>
         /\ Left <= 2 => "object" \notin held
         /\ Left <= 1 => "cache" \notin held
         /\ Left = 0 => "area" \notin held
    /\ phase = "failed" => held \subseteq {"fs"}
    /\ phase = "exit" =>
         /\ Left <= 3 => "object" \notin held
         /\ Left <= 2 => "cache" \notin held
         /\ Left <= 1 => "area" \notin held
         /\ Left = 0 => "fs" \notin held
    /\ phase = "gone" => held = {}

(* Both fortune modules.  A caller inside has come through the file, and   *)
(* its pot is there until exit has waited for it.                          *)
FortuneModules ==
  module \in {"fortune.c", "main.c"} =>
    /\ held \subseteq {"pot", "proc", "dir", "link"}
    /\ Idle /\ mount = "none"
    /\ phase \in {"init", "live"} => freed = {}
    /\ phase \in {"init", "undo", "failed", "live"} /\ caller = "inside" => "proc" \in held
    /\ phase = "init" =>
         /\ Left >= Len(Course) => held = {}
         /\ Left >= Len(Course) - 1 => held \subseteq {"pot"}
    /\ phase \in {"undo", "failed"} =>
         /\ module = "fortune.c" => ~(M!Entries \subseteq held)
         /\ module = "main.c" => held \subseteq {"pot"}
    /\ phase = "undo" /\ Left = 0 => "pot" \notin held
    /\ phase = "failed" => "pot" \notin held
    /\ phase = "exit" =>
         /\ Left <= 4 => "proc" \notin held
         /\ Left <= 3 => caller = "outside"
         /\ Left <= 2 => "dir" \notin held
         /\ Left <= 1 => "link" \notin held
         /\ Left >= 1 => "pot" \notin freed
         /\ Left = 0 => "pot" \notin held
    /\ phase = "gone" => held = {} /\ caller = "outside"
    /\ phase # "stuck"

MInv == MTypeOK /\ OnCourse /\ Tasklet /\ Queue /\ VirtualFc /\ FortuneModules

(* What is taken or given back next.                                       *)
LEMMA Ahead ==
  ASSUME MTypeOK, OnCourse, phase \in {"init", "undo", "exit"}, todo # <<>>
  PROVE  /\ Left \in Nat /\ Left > 0 /\ Left <= Len(Course)
         /\ Head(todo) = Course[Len(Course) - Left + 1]
         /\ Head(todo) \in Resources /\ Tail(todo) \in Seq(Resources)
         /\ Len(Tail(todo)) = Left - 1
         /\ \A k \in 1..Left - 1 : Tail(todo)[k] = todo[k + 1]
PROOF
<1>1. todo \in Seq(Resources)
  BY DEF MTypeOK
<1>2. Left \in Nat /\ Left > 0 /\ Head(todo) = todo[1]
  BY <1>1, EmptySeq DEF Left
<1>3. Left <= Len(Course) /\ todo[1] = Course[Len(Course) - Left + 1]
  BY <1>2 DEF OnCourse
<1> QED
  BY <1>1, <1>2, <1>3 DEF Left

(* What of each function is left, by its length, and what is next. *)
LEMMA TaskletCourse ==
  ASSUME MTypeOK, OnCourse, phase \in {"init", "undo", "exit"}, module = "tasklet.c"
  PROVE  /\ Left \in Nat /\ Left <= Len(Course)
         /\ todo # <<>> <=> Left > 0
         /\ phase = "init" => Len(Course) = 2
         /\ phase = "init" /\ todo # <<>> =>
              \/ Left = 2 /\ Head(todo) = "proc"
              \/ Left = 1 /\ Head(todo) = "irq"
         /\ phase = "undo" => Len(Course) = 0
         /\ phase = "exit" => Len(Course) = 5
         /\ phase = "exit" /\ todo # <<>> =>
              \/ Left = 5 /\ Head(todo) = "tasklet_kill"
              \/ Left = 4 /\ Head(todo) = "irq"
              \/ Left = 3 /\ Head(todo) = "handler"
              \/ Left = 2 /\ Head(todo) = "proc"
              \/ Left = 1 /\ Head(todo) = "callers"
PROOF
<1>1. Left \in Nat /\ (todo # <<>> <=> Left > 0)
  BY EmptySeq DEF MTypeOK, Left
<1>2. Left <= Len(Course)
  BY DEF OnCourse
<1>3. CASE phase = "init"
  <2>1. Course = <<"proc", "irq">>
    BY <1>3 DEF Course, M!InitOf, M!my_tasklet_init
  <2>2. Len(Course) = 2 /\ Course[1] = "proc" /\ Course[2] = "irq"
    BY <2>1
  <2> QED
    BY <1>1, <1>2, <1>3, <2>2, Ahead
<1>4. CASE phase = "undo"
  <2>1. Course = <<>>
    BY <1>4 DEF Course
  <2>2. Len(Course) = 0
    BY <2>1
  <2> QED
    BY <1>1, <1>2, <1>4, <2>2, Ahead
<1>5. CASE phase = "exit"
  <2>1. Course = <<"tasklet_kill", "irq", "handler", "proc", "callers">>
    BY <1>5 DEF Course, M!ExitOf, M!my_tasklet_exit
  <2>2. /\ Len(Course) = 5 /\ Course[1] = "tasklet_kill" /\ Course[2] = "irq"
        /\ Course[3] = "handler" /\ Course[4] = "proc" /\ Course[5] = "callers"
    BY <2>1
  <2> QED
    BY <1>1, <1>2, <1>5, <2>2, Ahead
<1> QED
  BY <1>1, <1>2, <1>3, <1>4, <1>5

LEMMA QueueCourse ==
  ASSUME MTypeOK, OnCourse, phase \in {"init", "undo", "exit"}, module = "queue.c"
  PROVE  /\ Left \in Nat /\ Left <= Len(Course)
         /\ todo # <<>> <=> Left > 0
         /\ phase = "init" => Len(Course) = 6
         /\ phase = "init" /\ todo # <<>> =>
              \/ Left = 6 /\ Head(todo) = "irq"
              \/ Left = 5 /\ Head(todo) = "wq"
              \/ Left = 4 /\ Head(todo) = "work1"
              \/ Left = 3 /\ Head(todo) = "init1"
              \/ Left = 2 /\ Head(todo) = "work2"
              \/ Left = 1 /\ Head(todo) = "init2"
         /\ phase = "undo" => Len(Course) = 2
         /\ phase = "undo" /\ todo # <<>> =>
              \/ Left = 2 /\ Head(todo) = "irq"
              \/ Left = 1 /\ Head(todo) = "handler"
         /\ phase = "exit" => Len(Course) = 5
         /\ phase = "exit" /\ todo # <<>> =>
              \/ Left = 5 /\ Head(todo) = "wq"
              \/ Left = 4 /\ Head(todo) = "irq"
              \/ Left = 3 /\ Head(todo) = "handler"
              \/ Left = 2 /\ Head(todo) = "work1"
              \/ Left = 1 /\ Head(todo) = "work2"
PROOF
<1>1. Left \in Nat /\ (todo # <<>> <=> Left > 0)
  BY EmptySeq DEF MTypeOK, Left
<1>2. Left <= Len(Course)
  BY DEF OnCourse
<1>3. CASE phase = "init"
  <2>1. Course = <<"irq", "wq", "work1", "init1", "work2", "init2">>
    BY <1>3 DEF Course, M!InitOf, M!my_wq_init
  <2>2. /\ Len(Course) = 6 /\ Course[1] = "irq" /\ Course[2] = "wq" /\ Course[3] = "work1"
        /\ Course[4] = "init1" /\ Course[5] = "work2" /\ Course[6] = "init2"
    BY <2>1
  <2> QED
    BY <1>1, <1>2, <1>3, <2>2, Ahead
<1>4. CASE phase = "undo"
  <2>1. Course = <<"irq", "handler">>
    BY <1>4 DEF Course
  <2>2. Len(Course) = 2 /\ Course[1] = "irq" /\ Course[2] = "handler"
    BY <2>1
  <2> QED
    BY <1>1, <1>2, <1>4, <2>2, Ahead
<1>5. CASE phase = "exit"
  <2>1. Course = <<"wq", "irq", "handler", "work1", "work2">>
    BY <1>5 DEF Course, M!ExitOf, M!my_wq_exit
  <2>2. /\ Len(Course) = 5 /\ Course[1] = "wq" /\ Course[2] = "irq" /\ Course[3] = "handler"
        /\ Course[4] = "work1" /\ Course[5] = "work2"
    BY <2>1
  <2> QED
    BY <1>1, <1>2, <1>5, <2>2, Ahead
<1> QED
  BY <1>1, <1>2, <1>3, <1>4, <1>5

LEMMA VirtualFcCourse ==
  ASSUME MTypeOK, OnCourse, phase \in {"init", "undo", "exit"}, module = "virtual_fc.c"
  PROVE  /\ Left \in Nat /\ Left <= Len(Course)
         /\ todo # <<>> <=> Left > 0
         /\ phase = "init" => Len(Course) = 4
         /\ phase = "init" /\ todo # <<>> =>
              \/ Left = 4 /\ Head(todo) = "fs"
              \/ Left = 3 /\ Head(todo) = "area"
              \/ Left = 2 /\ Head(todo) = "cache"
              \/ Left = 1 /\ Head(todo) = "object"
         /\ phase = "undo" => Len(Course) = 3
         /\ phase = "undo" /\ todo # <<>> =>
              \/ Left = 3 /\ Head(todo) = "object"
              \/ Left = 2 /\ Head(todo) = "cache"
              \/ Left = 1 /\ Head(todo) = "area"
         /\ phase = "exit" => Len(Course) = 4
         /\ phase = "exit" /\ todo # <<>> =>
              \/ Left = 4 /\ Head(todo) = "object"
              \/ Left = 3 /\ Head(todo) = "cache"
              \/ Left = 2 /\ Head(todo) = "area"
              \/ Left = 1 /\ Head(todo) = "fs"
PROOF
<1>1. Left \in Nat /\ (todo # <<>> <=> Left > 0)
  BY EmptySeq DEF MTypeOK, Left
<1>2. Left <= Len(Course)
  BY DEF OnCourse
<1>3. CASE phase = "init"
  <2>1. Course = <<"fs", "area", "cache", "object">>
    BY <1>3 DEF Course, M!InitOf, M!virtual_fc_init
  <2>2. Len(Course) = 4 /\ Course[1] = "fs" /\ Course[2] = "area" /\ Course[3] = "cache" /\ Course[4] = "object"
    BY <2>1
  <2> QED
    BY <1>1, <1>2, <1>3, <2>2, Ahead
<1>4. CASE phase = "undo"
  <2>1. Course = <<"object", "cache", "area">>
    BY <1>4 DEF Course
  <2>2. Len(Course) = 3 /\ Course[1] = "object" /\ Course[2] = "cache" /\ Course[3] = "area"
    BY <2>1
  <2> QED
    BY <1>1, <1>2, <1>4, <2>2, Ahead
<1>5. CASE phase = "exit"
  <2>1. Course = <<"object", "cache", "area", "fs">>
    BY <1>5 DEF Course, M!ExitOf, M!virtual_fc_exit
  <2>2. Len(Course) = 4 /\ Course[1] = "object" /\ Course[2] = "cache" /\ Course[3] = "area" /\ Course[4] = "fs"
    BY <2>1
  <2> QED
    BY <1>1, <1>2, <1>5, <2>2, Ahead
<1> QED
  BY <1>1, <1>2, <1>3, <1>4, <1>5

LEMMA FortuneCourse ==
  ASSUME MTypeOK, OnCourse, phase \in {"init", "undo", "exit"}, module = "fortune.c"
  PROVE  /\ Left \in Nat /\ Left <= Len(Course)
         /\ todo # <<>> <=> Left > 0
         /\ phase = "init" => Len(Course) = 5
         /\ phase = "init" /\ todo # <<>> =>
              \/ Left = 5 /\ Head(todo) = "pot"
              \/ Left = 4 /\ Head(todo) = "proc"
              \/ Left = 3 /\ Head(todo) = "dir"
              \/ Left = 2 /\ Head(todo) = "link"
              \/ Left = 1 /\ Head(todo) = "reset"
         /\ phase = "undo" => Len(Course) = 1
         /\ phase = "undo" /\ todo # <<>> =>
              \/ Left = 1 /\ Head(todo) = "pot"
         /\ phase = "exit" => Len(Course) = 5
         /\ phase = "exit" /\ todo # <<>> =>
              \/ Left = 5 /\ Head(todo) = "proc"
              \/ Left = 4 /\ Head(todo) = "callers"
              \/ Left = 3 /\ Head(todo) = "dir"
              \/ Left = 2 /\ Head(todo) = "link"
              \/ Left = 1 /\ Head(todo) = "pot"
PROOF
<1>1. Left \in Nat /\ (todo # <<>> <=> Left > 0)
  BY EmptySeq DEF MTypeOK, Left
<1>2. Left <= Len(Course)
  BY DEF OnCourse
<1>3. CASE phase = "init"
  <2>1. Course = <<"pot", "proc", "dir", "link", "reset">>
    BY <1>3 DEF Course, M!InitOf, M!fortune_init
  <2>2. /\ Len(Course) = 5 /\ Course[1] = "pot" /\ Course[2] = "proc" /\ Course[3] = "dir"
        /\ Course[4] = "link" /\ Course[5] = "reset"
    BY <2>1
  <2> QED
    BY <1>1, <1>2, <1>3, <2>2, Ahead
<1>4. CASE phase = "undo"
  <2>1. Course = <<"pot">>
    BY <1>4 DEF Course
  <2>2. Len(Course) = 1 /\ Course[1] = "pot"
    BY <2>1
  <2> QED
    BY <1>1, <1>2, <1>4, <2>2, Ahead
<1>5. CASE phase = "exit"
  <2>1. Course = <<"proc", "callers", "dir", "link", "pot">>
    BY <1>5 DEF Course, M!ExitOf, M!fortune_exit
  <2>2. /\ Len(Course) = 5 /\ Course[1] = "proc" /\ Course[2] = "callers" /\ Course[3] = "dir"
        /\ Course[4] = "link" /\ Course[5] = "pot"
    BY <2>1
  <2> QED
    BY <1>1, <1>2, <1>5, <2>2, Ahead
<1> QED
  BY <1>1, <1>2, <1>3, <1>4, <1>5

LEMMA SeqFortuneCourse ==
  ASSUME MTypeOK, OnCourse, phase \in {"init", "undo", "exit"}, module = "main.c"
  PROVE  /\ Left \in Nat /\ Left <= Len(Course)
         /\ todo # <<>> <=> Left > 0
         /\ phase = "init" => Len(Course) = 4
         /\ phase = "init" /\ todo # <<>> =>
              \/ Left = 4 /\ Head(todo) = "pot"
              \/ Left = 3 /\ Head(todo) = "proc"
              \/ Left = 2 /\ Head(todo) = "dir"
              \/ Left = 1 /\ Head(todo) = "link"
         /\ phase = "undo" => Len(Course) = 1
         /\ phase = "undo" /\ todo # <<>> =>
              \/ Left = 1 /\ Head(todo) = "pot"
         /\ phase = "exit" => Len(Course) = 5
         /\ phase = "exit" /\ todo # <<>> =>
              \/ Left = 5 /\ Head(todo) = "proc"
              \/ Left = 4 /\ Head(todo) = "callers"
              \/ Left = 3 /\ Head(todo) = "dir"
              \/ Left = 2 /\ Head(todo) = "link"
              \/ Left = 1 /\ Head(todo) = "pot"
PROOF
<1>1. Left \in Nat /\ (todo # <<>> <=> Left > 0)
  BY EmptySeq DEF MTypeOK, Left
<1>2. Left <= Len(Course)
  BY DEF OnCourse
<1>3. CASE phase = "init"
  <2>1. Course = <<"pot", "proc", "dir", "link">>
    BY <1>3 DEF Course, M!InitOf, M!seq_fortune_init
  <2>2. Len(Course) = 4 /\ Course[1] = "pot" /\ Course[2] = "proc" /\ Course[3] = "dir" /\ Course[4] = "link"
    BY <2>1
  <2> QED
    BY <1>1, <1>2, <1>3, <2>2, Ahead
<1>4. CASE phase = "undo"
  <2>1. Course = <<"pot">>
    BY <1>4 DEF Course
  <2>2. Len(Course) = 1 /\ Course[1] = "pot"
    BY <2>1
  <2> QED
    BY <1>1, <1>2, <1>4, <2>2, Ahead
<1>5. CASE phase = "exit"
  <2>1. Course = <<"proc", "callers", "dir", "link", "pot">>
    BY <1>5 DEF Course, M!ExitOf, M!seq_fortune_exit
  <2>2. /\ Len(Course) = 5 /\ Course[1] = "proc" /\ Course[2] = "callers" /\ Course[3] = "dir"
        /\ Course[4] = "link" /\ Course[5] = "pot"
    BY <2>1
  <2> QED
    BY <1>1, <1>2, <1>5, <2>2, Ahead
<1> QED
  BY <1>1, <1>2, <1>3, <1>4, <1>5

LEMMA CourseLength ==
  ASSUME MTypeOK, OnCourse, phase \in {"init", "undo", "exit"} PROVE Len(Course) \in Nat
PROOF BY TaskletCourse, QueueCourse, VirtualFcCourse, FortuneCourse, SeqFortuneCourse DEF MTypeOK

(* One thing of the course done.                                           *)
LEMMA Onward ==
  ASSUME MTypeOK, OnCourse, phase \in {"init", "undo", "exit"}, todo # <<>>,
         todo' = Tail(todo), phase' = phase, module' = module
  PROVE  Left' = Left - 1 /\ Left \in Nat /\ Course' = Course /\ OnCourse' /\ todo' \in Seq(Resources)
PROOF
<1>2. Left' = Left - 1 /\ Left \in Nat /\ todo' \in Seq(Resources) /\ Course' = Course
        /\ Left <= Len(Course)
  BY Ahead DEF Left, Course, M!InitOf, M!ExitOf
<1>4. OnCourse'
  <2>1. \A k \in 1..Left - 1 : todo'[k] = todo[k + 1]
    BY Ahead
  <2>2. \A k \in 1..Left - 1 : todo[k + 1] = Course[Len(Course) - Left + (k + 1)] 
    BY <1>2 DEF OnCourse
  <2>3. Len(Course) \in Nat
    BY CourseLength
  <2>4. \A k \in 1..Left - 1 : Len(Course) - Left + (k + 1) = Len(Course) - (Left - 1) + k
    BY <1>2, <2>3
  <2>5. \A k \in 1..Left' : todo'[k] = Course'[Len(Course)' - Left' + k]
    BY <1>2, <2>1, <2>2, <2>4
  <2>6. Left' <= Len(Course)'
    BY <1>2, <2>3
  <2> QED
    BY <2>5, <2>6 DEF OnCourse
<1> QED
  BY <1>2, <1>4

LEMMA TaskletUndo ==
  module = "tasklet.c" =>
    /\ DOMAIN M!InitOf.undo = {"proc", "irq"}
    /\ M!InitOf.undo["proc"] = <<>>
    /\ M!InitOf.undo["irq"] = <<>>
PROOF BY DEF M!InitOf, M!my_tasklet_init

LEMMA QueueUndo ==
  module = "queue.c" =>
    /\ DOMAIN M!InitOf.undo = {"irq", "wq"}
    /\ M!InitOf.undo["irq"] = <<>>
    /\ M!InitOf.undo["wq"] = <<"irq", "handler">>
PROOF BY DEF M!InitOf, M!my_wq_init

LEMMA VirtualFcUndo ==
  module = "virtual_fc.c" =>
    /\ DOMAIN M!InitOf.undo = {"fs", "area", "cache", "object"}
    /\ M!InitOf.undo["fs"] = <<>>
    /\ M!InitOf.undo["area"] = <<>>
    /\ M!InitOf.undo["cache"] = <<"area">>
    /\ M!InitOf.undo["object"] = <<"object", "cache", "area">>
PROOF BY DEF M!InitOf, M!virtual_fc_init

LEMMA FortuneUndo ==
  module = "fortune.c" =>
    /\ DOMAIN M!InitOf.undo = {"pot", "reset"}
    /\ M!InitOf.undo["pot"] = <<>>
    /\ M!InitOf.undo["reset"] = <<"pot">>
PROOF BY DEF M!InitOf, M!fortune_init

LEMMA SeqFortuneUndo ==
  module = "main.c" =>
    /\ DOMAIN M!InitOf.undo = {"pot", "proc"}
    /\ M!InitOf.undo["pot"] = <<>>
    /\ M!InitOf.undo["proc"] = <<"pot">>
PROOF BY DEF M!InitOf, M!seq_fortune_init

(* The error path of a module is the end of its longest, wherever init     *)
(* fails.                                                                  *)
LEMMA ErrorPaths ==
  /\ <<>> \in Seq(Resources) /\ Len(<<>>) = 0
  /\ <<"irq", "handler">> \in Seq(Resources) /\ Len(<<"irq", "handler">>) = 2
  /\ <<"irq", "handler">>[1] = "irq" /\ <<"irq", "handler">>[2] = "handler"
  /\ <<"area">> \in Seq(Resources) /\ Len(<<"area">>) = 1 /\ <<"area">>[1] = "area"
  /\ <<"object", "cache", "area">> \in Seq(Resources) /\ Len(<<"object", "cache", "area">>) = 3
  /\ <<"object", "cache", "area">>[1] = "object" /\ <<"object", "cache", "area">>[2] = "cache"
  /\ <<"object", "cache", "area">>[3] = "area"
  /\ <<"pot">> \in Seq(Resources) /\ Len(<<"pot">>) = 1 /\ <<"pot">>[1] = "pot"
PROOF BY DEF Resources

LEMMA MInit == M!Init => MInv
PROOF
<1> SUFFICES ASSUME M!Init PROVE MInv
  OBVIOUS
<1> USE DEF M!Init
<1>1. module \in {"tasklet.c", "queue.c", "virtual_fc.c", "fortune.c", "main.c"} /\ todo = Course
  BY DEF Course
<1>2. Course \in Seq(Resources)
  <2>1. CASE module = "tasklet.c"
    <3>1. Course = <<"proc", "irq">>
      BY <2>1 DEF Course, M!InitOf, M!my_tasklet_init
    <3> QED
      BY <3>1 DEF Resources
  <2>2. CASE module = "queue.c"
    <3>1. Course = <<"irq", "wq", "work1", "init1", "work2", "init2">>
      BY <2>2 DEF Course, M!InitOf, M!my_wq_init
    <3> QED
      BY <3>1 DEF Resources
  <2>3. CASE module = "virtual_fc.c"
    <3>1. Course = <<"fs", "area", "cache", "object">>
      BY <2>3 DEF Course, M!InitOf, M!virtual_fc_init
    <3> QED
      BY <3>1 DEF Resources
  <2>4. CASE module = "fortune.c"
    <3>1. Course = <<"pot", "proc", "dir", "link", "reset">>
      BY <2>4 DEF Course, M!InitOf, M!fortune_init
    <3> QED
      BY <3>1 DEF Resources
  <2>5. CASE module = "main.c"
    <3>1. Course = <<"pot", "proc", "dir", "link">>
      BY <2>5 DEF Course, M!InitOf, M!seq_fortune_init
    <3> QED
      BY <3>1 DEF Resources
  <2> QED
    BY <1>1, <2>1, <2>2, <2>3, <2>4, <2>5
<1>3. MTypeOK
  BY <1>1, <1>2 DEF MTypeOK, Resources, Items
<1>4. OnCourse
  BY <1>1, <1>2 DEF OnCourse, Left
<1>5. Tasklet
  BY DEF Tasklet, Idle
<1>6. Queue
  <2>1. module = "queue.c" => Left = 6
    BY <1>1, <1>3, <1>4, QueueCourse DEF Left
  <2> QED
    BY <2>1 DEF Queue, Idle, NoWork
<1>7. VirtualFc
  BY DEF VirtualFc, Idle
<1>8. FortuneModules
  BY DEF FortuneModules, Idle
<1> QED
  BY <1>3, <1>4, <1>5, <1>6, <1>7, <1>8 DEF MInv

(* What init of fortune.c and main.c has, by what is left of it. *)
LEMMA FortuneLoads ==
  ASSUME module' \in {"fortune.c", "main.c"}, phase' = "init", freed' = {}, mount' = "none", Idle',
         held' \subseteq {"pot", "proc", "dir", "link"},
         caller' = "inside" => "proc" \in held',
         NEW n \in Nat, Left' = n, NEW l \in Nat, Len(Course') = l,
         n < l, n = l - 1 => held' \subseteq {"pot"}
  PROVE  FortuneModules'
PROOF
<1>1. ~(n >= l)
  OBVIOUS
<1>2. n >= l - 1 => n = l - 1
  OBVIOUS
<1>3. (Left >= Len(Course) => held = {})'
  BY <1>1
<1>4. (Left >= Len(Course) - 1 => held \subseteq {"pot"})'
  BY <1>2
<1> QED
  BY <1>3, <1>4, Zenon DEF FortuneModules

(* Outside init, the error path and exit only the interrupt's work moves.  *)
LEMMA QueueKept ==
  ASSUME Queue, UNCHANGED <<module, phase, todo, held, freed, caller, mount>>,
         module = "queue.c" =>
           /\ handler' # "tasklet" /\ queued' \cup running' \subseteq {"work1", "work2"}
           /\ queued = {} /\ running = {} => queued' = {} /\ running' = {}
           /\ handler = "idle" => handler' = "idle"
  PROVE  Queue'
PROOF
<1>1. Left' = Left
  BY DEF Left
<1> SUFFICES ASSUME module = "queue.c" PROVE Queue'
  BY DEF Queue
<1>2. /\ handler' # "tasklet" /\ queued' \cup running' \subseteq {"work1", "work2"}
      /\ queued = {} /\ running = {} => queued' = {} /\ running' = {}
      /\ handler = "idle" => handler' = "idle"
  OBVIOUS
<1>3. (Idle => Idle') /\ (NoWork => NoWork') /\ (ItemsReady => ItemsReady')
  BY <1>2 DEF Idle, NoWork, ItemsReady
<1> QED
  BY <1>1, <1>2, <1>3 DEF Queue

(* ---- MInv at every step ---- *)

LEMMA MTakeStep == MInv /\ M!Take => MInv'
PROOF
<1> SUFFICES ASSUME MInv, M!Take PROVE MInv'
  OBVIOUS
<1> USE DEF MInv
<1>1. /\ phase = "init" /\ phase' = phase /\ todo # <<>> /\ todo' = Tail(todo) /\ M!Granted(Head(todo))
      /\ held' = IF Head(todo) = "reset" THEN held ELSE held \cup {Head(todo)}
      /\ UNCHANGED <<module, freed, handler, came, queued, running, caller, wrote, mount>>
  BY DEF M!Take, M!irqVars, M!userVars
<1>2. Left' = Left - 1 /\ Left \in Nat /\ Course' = Course /\ OnCourse' /\ todo' \in Seq(Resources)
      /\ Head(todo) \in Resources
  BY <1>1, Ahead, Onward
<1>3. MTypeOK'
  BY <1>1, <1>2 DEF MTypeOK
<1>4. OnCourse'
  BY <1>2
<1>5. Tasklet'
  <2>1. CASE module = "tasklet.c"
    BY <1>1, <1>2, <2>1, TaskletCourse DEF MTypeOK, Tasklet, Idle, NoWork, ItemsReady, M!Granted
  <2> QED
    BY <1>1, <2>1 DEF Tasklet
<1>6. Queue'
  <2>1. CASE module = "queue.c"
    <3>1. /\ held \subseteq {"irq", "wq", "work1", "init1", "work2", "init2"}
          /\ caller = "outside" /\ mount = "none" /\ freed = {}
          /\ handler # "tasklet" /\ queued \cup running \subseteq {"work1", "work2"}
      BY <1>1, <2>1 DEF Queue
    <3>2. /\ Left > 5 => held = {}
          /\ Left > 4 => held \subseteq {"irq"}
          /\ Left <= 4 => "wq" \in held
          /\ Left > 3 => queued = {} /\ running = {} /\ "work1" \notin held
          /\ Left > 1 => "work2" \notin held
          /\ Left <= 2 => ("work1" \in held => "init1" \in held)
      BY <1>1, <2>1 DEF Queue, NoWork
    <3>3. \/ Left = 6 /\ Head(todo) = "irq"
          \/ Left = 5 /\ Head(todo) = "wq"
          \/ Left = 4 /\ Head(todo) = "work1"
          \/ Left = 3 /\ Head(todo) = "init1"
          \/ Left = 2 /\ Head(todo) = "work2"
          \/ Left = 1 /\ Head(todo) = "init2"
      BY <1>1, <2>1, QueueCourse
    <3> HIDE DEF MInv
    <3>4. held' = held \cup {Head(todo)}
      BY <1>1, <3>3
    <3>5. /\ held' \subseteq {"irq", "wq", "work1", "init1", "work2", "init2"}
          /\ caller' = "outside" /\ mount' = "none" /\ freed' = {} /\ phase' = "init"
          /\ handler' # "tasklet" /\ queued' \cup running' \subseteq {"work1", "work2"}
      BY <1>1, <3>1, <3>3, <3>4
    <3>6. /\ Left' <= 5
          /\ Left' > 4 => held' \subseteq {"irq"}
          /\ Left' <= 4 => "wq" \in held'
          /\ Left' > 3 => queued' = {} /\ running' = {} /\ "work1" \notin held'
          /\ Left' > 1 => "work2" \notin held'
      BY <1>1, <1>2, <3>2, <3>3, <3>4
    <3>7. /\ Left' <= 2 => "init1" \in held' \/ "work1" \notin held'
          /\ Left' = 0 => /\ "work1" \in held' => "init1" \in held'
                          /\ "init2" \in held'
      BY <1>2, <3>2, <3>3, <3>4
    <3>8. Left' > 3 => NoWork'
      BY <1>2, <3>5, <3>6 DEF NoWork
    <3>9. Left' = 0 => ItemsReady'
      BY <3>5, <3>7 DEF ItemsReady
    <3>10. Left' \in Nat
      BY <1>2, <3>3
    <3>11. /\ ~(Left' > 5)
           /\ Left' <= 2 => ("work1" \in held' => "init1" \in held')
      BY <3>6, <3>7, <3>10
    <3> QED
      BY <3>5, <3>6, <3>8, <3>9, <3>11 DEF Queue
  <2> QED
    BY <1>1, <2>1 DEF Queue
<1>7. VirtualFc'
  <2>1. CASE module = "virtual_fc.c"
    BY <1>1, <1>2, <2>1, VirtualFcCourse DEF MTypeOK, VirtualFc, Idle, NoWork, ItemsReady, M!Granted
  <2> QED
    BY <1>1, <2>1 DEF VirtualFc
<1>8. FortuneModules'
  <2>1. CASE module = "fortune.c"
    <3>1. /\ Len(Course) = 5 /\ freed = {} /\ Idle /\ mount = "none"
          /\ held \subseteq {"pot", "proc", "dir", "link"}
          /\ (caller = "inside" => "proc" \in held)
      BY <1>1, <2>1, FortuneCourse DEF FortuneModules
    <3>a. module' \in {"fortune.c", "main.c"} /\ phase' = "init" /\ freed' = {} /\ mount' = "none"
      BY <1>1, <3>1, <2>1
    <3>b. Idle' /\ caller' = caller
      BY <1>1, <3>1 DEF Idle
    <3>2. CASE Head(todo) = "pot"
      <4>1. Left = 5 /\ Left' = 4 /\ Len(Course') = 5
        BY <1>1, <1>2, <2>1, <3>1, <3>2, FortuneCourse
      <4>2. held = {}
        BY <1>1, <2>1, <3>1, <4>1 DEF FortuneModules
      <4>3. held' = {"pot"}
        BY <1>1, <3>2, <4>2
      <4>4. caller' = "inside" => "proc" \in held'
        BY <3>1, <3>b, <4>3, <4>2
      <4>5. held' \subseteq {"pot", "proc", "dir", "link"}
        BY <3>1, <4>3
      <4> HIDE DEF MInv
      <4> QED
        BY <3>a, <3>b, <4>1, <4>3, <4>4, <4>5, FortuneLoads
    <3>3. CASE Head(todo) = "proc"
      <4>1. Left = 4 /\ Left' = 3 /\ Len(Course') = 5
        BY <1>1, <1>2, <2>1, <3>1, <3>3, FortuneCourse
      <4>3. held' = held \cup {"proc"}
        BY <1>1, <3>3
      <4>4. caller' = "inside" => "proc" \in held'
        BY <3>1, <3>b, <4>3
      <4>5. held' \subseteq {"pot", "proc", "dir", "link"}
        BY <3>1, <4>3
      <4> HIDE DEF MInv
      <4> QED
        BY <3>a, <3>b, <4>1, <4>3, <4>4, <4>5, FortuneLoads
    <3>4. CASE Head(todo) = "dir"
      <4>1. Left = 3 /\ Left' = 2 /\ Len(Course') = 5
        BY <1>1, <1>2, <2>1, <3>1, <3>4, FortuneCourse
      <4>3. held' = held \cup {"dir"}
        BY <1>1, <3>4
      <4>4. caller' = "inside" => "proc" \in held'
        BY <3>1, <3>b, <4>3
      <4>5. held' \subseteq {"pot", "proc", "dir", "link"}
        BY <3>1, <4>3
      <4> HIDE DEF MInv
      <4> QED
        BY <3>a, <3>b, <4>1, <4>3, <4>4, <4>5, FortuneLoads
    <3>5. CASE Head(todo) = "link"
      <4>1. Left = 2 /\ Left' = 1 /\ Len(Course') = 5
        BY <1>1, <1>2, <2>1, <3>1, <3>5, FortuneCourse
      <4>3. held' = held \cup {"link"}
        BY <1>1, <3>5
      <4>4. caller' = "inside" => "proc" \in held'
        BY <3>1, <3>b, <4>3
      <4>5. held' \subseteq {"pot", "proc", "dir", "link"}
        BY <3>1, <4>3
      <4> HIDE DEF MInv
      <4> QED
        BY <3>a, <3>b, <4>1, <4>3, <4>4, <4>5, FortuneLoads
    <3>6. CASE Head(todo) = "reset"
      <4>1. Left = 1 /\ Left' = 0 /\ Len(Course') = 5
        BY <1>1, <1>2, <2>1, <3>1, <3>6, FortuneCourse
      <4>3. held' = held
        BY <1>1, <3>6
      <4>4. caller' = "inside" => "proc" \in held'
        BY <3>1, <3>b, <4>3
      <4>5. held' \subseteq {"pot", "proc", "dir", "link"}
        BY <3>1, <4>3
      <4> HIDE DEF MInv
      <4> QED
        BY <3>a, <3>b, <4>1, <4>3, <4>4, <4>5, FortuneLoads
    <3> QED
      BY <1>1, <2>1, FortuneCourse, <3>2, <3>3, <3>4, <3>5, <3>6
  <2>2. CASE module = "main.c"
    <3>1. /\ Len(Course) = 4 /\ freed = {} /\ Idle /\ mount = "none"
          /\ held \subseteq {"pot", "proc", "dir", "link"}
          /\ (caller = "inside" => "proc" \in held)
      BY <1>1, <2>2, SeqFortuneCourse DEF FortuneModules
    <3>a. module' \in {"fortune.c", "main.c"} /\ phase' = "init" /\ freed' = {} /\ mount' = "none"
      BY <1>1, <3>1, <2>2
    <3>b. Idle' /\ caller' = caller
      BY <1>1, <3>1 DEF Idle
    <3>2. CASE Head(todo) = "pot"
      <4>1. Left = 4 /\ Left' = 3 /\ Len(Course') = 4
        BY <1>1, <1>2, <2>2, <3>1, <3>2, SeqFortuneCourse
      <4>2. held = {}
        BY <1>1, <2>2, <3>1, <4>1 DEF FortuneModules
      <4>3. held' = {"pot"}
        BY <1>1, <3>2, <4>2
      <4>4. caller' = "inside" => "proc" \in held'
        BY <3>1, <3>b, <4>3, <4>2
      <4>5. held' \subseteq {"pot", "proc", "dir", "link"}
        BY <3>1, <4>3
      <4> HIDE DEF MInv
      <4> QED
        BY <3>a, <3>b, <4>1, <4>3, <4>4, <4>5, FortuneLoads
    <3>3. CASE Head(todo) = "proc"
      <4>1. Left = 3 /\ Left' = 2 /\ Len(Course') = 4
        BY <1>1, <1>2, <2>2, <3>1, <3>3, SeqFortuneCourse
      <4>3. held' = held \cup {"proc"}
        BY <1>1, <3>3
      <4>4. caller' = "inside" => "proc" \in held'
        BY <3>1, <3>b, <4>3
      <4>5. held' \subseteq {"pot", "proc", "dir", "link"}
        BY <3>1, <4>3
      <4> HIDE DEF MInv
      <4> QED
        BY <3>a, <3>b, <4>1, <4>3, <4>4, <4>5, FortuneLoads
    <3>4. CASE Head(todo) = "dir"
      <4>1. Left = 2 /\ Left' = 1 /\ Len(Course') = 4
        BY <1>1, <1>2, <2>2, <3>1, <3>4, SeqFortuneCourse
      <4>3. held' = held \cup {"dir"}
        BY <1>1, <3>4
      <4>4. caller' = "inside" => "proc" \in held'
        BY <3>1, <3>b, <4>3
      <4>5. held' \subseteq {"pot", "proc", "dir", "link"}
        BY <3>1, <4>3
      <4> HIDE DEF MInv
      <4> QED
        BY <3>a, <3>b, <4>1, <4>3, <4>4, <4>5, FortuneLoads
    <3>5. CASE Head(todo) = "link"
      <4>1. Left = 1 /\ Left' = 0 /\ Len(Course') = 4
        BY <1>1, <1>2, <2>2, <3>1, <3>5, SeqFortuneCourse
      <4>3. held' = held \cup {"link"}
        BY <1>1, <3>5
      <4>4. caller' = "inside" => "proc" \in held'
        BY <3>1, <3>b, <4>3
      <4>5. held' \subseteq {"pot", "proc", "dir", "link"}
        BY <3>1, <4>3
      <4> HIDE DEF MInv
      <4> QED
        BY <3>a, <3>b, <4>1, <4>3, <4>4, <4>5, FortuneLoads
    <3> QED
      BY <1>1, <2>2, SeqFortuneCourse, <3>2, <3>3, <3>4, <3>5
  <2> QED
    BY <1>1, <2>1, <2>2 DEF FortuneModules, MTypeOK
<1> QED
  BY <1>3, <1>4, <1>5, <1>6, <1>7, <1>8

(* Each step of an error path or of exit gives back what is next in it. *)
LEMMA MGiveBackStep == MInv /\ M!GiveBack => MInv'
PROOF
<1> SUFFICES ASSUME MInv, M!GiveBack PROVE MInv'
  OBVIOUS
<1> USE DEF M!GiveBack, MInv
<1>1. phase \in {"init", "undo", "exit"} /\ todo # <<>>
  OBVIOUS
<1>2. Left' = Left - 1 /\ Left \in Nat /\ Course' = Course /\ OnCourse' /\ todo' \in Seq(Resources)
      /\ Head(todo) \in Resources
  BY <1>1, Ahead, Onward
<1>3. MTypeOK'
  BY <1>2 DEF MTypeOK, M!irqVars, M!userVars
<1>4. OnCourse'
  BY <1>2
<1>5. Tasklet'
  <2>1. CASE module = "tasklet.c"
    BY <1>1, <1>2, <2>1, TaskletCourse DEF MTypeOK, Tasklet, Idle, NoWork, ItemsReady, M!irqVars,
       M!userVars, M!Waited, M!Drains
  <2> QED
    BY <2>1 DEF Tasklet
<1>6. Queue'
  <2>1. CASE module = "queue.c"
    <3>1. /\ phase \in {"undo", "exit"} /\ phase' = phase /\ module' = module
          /\ held' = held \ {Head(todo)} /\ freed' = freed \cup (held \cap {Head(todo)})
          /\ UNCHANGED <<handler, queued, running, caller, mount>>
          /\ Head(todo) = "handler" => handler = "idle"
          /\ Head(todo) = "wq" => queued \cup running = {}
      BY DEF M!irqVars, M!userVars, M!Waited, M!Drains
    <3>2. /\ held \subseteq {"irq", "wq", "work1", "init1", "work2", "init2"}
          /\ caller = "outside" /\ mount = "none"
          /\ handler # "tasklet" /\ queued \cup running \subseteq {"work1", "work2"}
      BY <2>1 DEF Queue
    <3>3. CASE phase = "undo"
      <4>1. held \subseteq {"irq"} /\ NoWork /\ (Left <= 1 => held = {})
        BY <2>1, <3>3 DEF Queue
      <4>2. \/ Left = 2 /\ Head(todo) = "irq"
            \/ Left = 1 /\ Head(todo) = "handler"
        BY <1>1, <2>1, <3>3, QueueCourse
      <4> HIDE DEF M!GiveBack, MInv
      <4>a. held' = {}
        <5>1. held' = held \ {Head(todo)} /\ held \subseteq {"irq"}
          BY <3>1, <4>1
        <5>2. CASE Left = 2 /\ Head(todo) = "irq"
          BY <5>1, <5>2
        <5>3. CASE Left = 1
          <6>1. held = {}
            BY <5>3, <4>1
          <6> QED
            BY <5>1, <6>1
        <5> QED
          BY <4>2, <5>2, <5>3
      <4>b. freed' \subseteq freed \cup {"irq"}
        BY <3>1, <4>1
      <4>3. held' = {} /\ NoWork'
        BY <3>1, <4>a, <4>b, <4>1 DEF NoWork
      <4>4. Left' = 0 => Idle'
        BY <1>2, <3>1, <4>1, <4>2 DEF Idle, NoWork
      <4> QED
        BY <3>1, <3>2, <3>3, <4>3, <4>4 DEF Queue
    <3>4. CASE phase = "exit"
      <4>1. /\ ItemsReady
            /\ Left <= 4 => "wq" \notin held /\ "wq" \in freed /\ queued = {} /\ running = {}
            /\ Left <= 3 => "irq" \notin held
            /\ Left <= 2 => handler = "idle"
            /\ Left >= 2 => freed \cap {"work1", "work2"} = {}
            /\ Left <= 1 => "work1" \notin held
        BY <2>1, <3>4 DEF Queue
      <4>a. Left = 5 => "wq" \in held
        BY <2>1, <3>4 DEF Queue
      <4>2. \/ Left = 5 /\ Head(todo) = "wq"
            \/ Left = 4 /\ Head(todo) = "irq"
            \/ Left = 3 /\ Head(todo) = "handler"
            \/ Left = 2 /\ Head(todo) = "work1"
            \/ Left = 1 /\ Head(todo) = "work2"
        BY <1>1, <2>1, <3>4, QueueCourse
      <4> HIDE DEF M!GiveBack, MInv
      <4>3. ItemsReady'
        <5>1. /\ "work1" \in held' \cup freed' => "work1" \in held \cup freed
              /\ "work2" \in held' \cup freed' => "work2" \in held \cup freed
              /\ "init1" \in held' <=> "init1" \in held
              /\ "init2" \in held' <=> "init2" \in held
          BY <3>1, <4>2
        <5> QED
          BY <4>1, <5>1 DEF ItemsReady
      <4>4. "wq" \notin held' /\ "wq" \in freed' /\ queued' = {} /\ running' = {}
        BY <3>1, <4>1, <4>a, <4>2
      <4>5. /\ Left' <= 3 => "irq" \notin held'
            /\ Left' <= 2 => handler' = "idle"
            /\ Left' >= 2 => freed' \cap {"work1", "work2"} = {}
            /\ Left' <= 1 => "work1" \notin held'
            /\ Left' = 0 => "work2" \notin held'
        BY <1>2, <3>1, <4>1, <4>2
      <4>6. ~(Left' = 5)
        BY <1>2, <4>2
      <4>7. held' \subseteq held
        BY <3>1
      <4> QED
        BY <3>1, <3>2, <3>4, <4>3, <4>4, <4>5, <4>6, <4>7 DEF Queue
    <3> QED
      BY <3>1, <3>3, <3>4
  <2> QED
    BY <2>1 DEF Queue
<1>7. VirtualFc'
  <2>1. CASE module = "virtual_fc.c"
    BY <1>1, <1>2, <2>1, VirtualFcCourse DEF MTypeOK, VirtualFc, Idle, NoWork, ItemsReady, M!irqVars,
       M!userVars, M!Waited, M!Drains
  <2> QED
    BY <2>1 DEF VirtualFc
<1>8. FortuneModules'
  <2>1. CASE module = "fortune.c"
    BY <1>1, <1>2, <2>1, FortuneCourse DEF MTypeOK, FortuneModules, Idle, M!irqVars, M!userVars, M!Entries,
       M!Waited, M!Drains
  <2>2. CASE module = "main.c"
    BY <1>1, <1>2, <2>2, SeqFortuneCourse DEF MTypeOK, FortuneModules, Idle, M!irqVars, M!userVars,
       M!Entries, M!Waited, M!Drains
  <2> QED
    BY <2>1, <2>2 DEF FortuneModules
<1> QED
  BY <1>3, <1>4, <1>5, <1>6, <1>7, <1>8

LEMMA MLoadedStep == MInv /\ M!Loaded => MInv'
PROOF
<1> SUFFICES ASSUME MInv, M!Loaded PROVE MInv'
  OBVIOUS
<1> USE DEF M!Loaded, MInv, M!moduleVars, M!irqVars, M!userVars
<1>1. MTypeOK'
  BY DEF MTypeOK, Items
<1>2. OnCourse'
  BY DEF OnCourse, Course, Left, M!InitOf, M!ExitOf
<1>3. Tasklet'
  BY TaskletCourse DEF MTypeOK, Tasklet, Idle, Left, Items
<1>4. Queue'
  BY QueueCourse DEF MTypeOK, Queue, Idle, NoWork, ItemsReady, Left, Items
<1>5. VirtualFc'
  BY VirtualFcCourse DEF MTypeOK, VirtualFc, Idle, Left, M!NoCode
<1>6. FortuneModules'
  BY FortuneCourse, SeqFortuneCourse DEF MTypeOK, FortuneModules, Idle, Left, Course, M!InitOf, M!ExitOf
<1> QED
  BY <1>1, <1>2, <1>3, <1>4, <1>5, <1>6

LEMMA MUnloadStep == MInv /\ M!Unload => MInv'
PROOF
<1> SUFFICES ASSUME MInv, M!Unload PROVE MInv'
  OBVIOUS
<1> USE DEF MInv
<1>1. /\ phase = "live" /\ mount = "none" /\ phase' = "exit" /\ todo' = M!ExitOf
      /\ UNCHANGED <<module, held, freed, handler, came, queued, running, caller, wrote, mount>>
  BY DEF M!Unload, M!irqVars, M!userVars
<1>2. CASE module = "tasklet.c"
  <2>1. todo' = <<"tasklet_kill", "irq", "handler", "proc", "callers">> /\ Course' = todo'
    BY <1>1, <1>2 DEF Course, M!ExitOf, M!my_tasklet_exit
  <2>2. todo' \in Seq(Resources) /\ Len(todo') = 5
    BY <2>1 DEF Resources
  <2>3. MTypeOK'
    BY <1>1, <2>2 DEF MTypeOK
  <2>4. OnCourse'
    BY <2>1, <2>2 DEF OnCourse, Left
  <2>5. Tasklet'
    BY <1>1, <1>2, <2>2 DEF MTypeOK, Tasklet, Left, Idle, ItemsReady
  <2> QED
    BY <1>1, <1>2, <2>3, <2>4, <2>5 DEF Tasklet, Queue, VirtualFc, FortuneModules
<1>3. CASE module = "queue.c"
  <2>1. todo' = <<"wq", "irq", "handler", "work1", "work2">> /\ Course' = todo'
    BY <1>1, <1>3 DEF Course, M!ExitOf, M!my_wq_exit
  <2>2. todo' \in Seq(Resources) /\ Len(todo') = 5
    BY <2>1 DEF Resources
  <2>3. MTypeOK'
    BY <1>1, <2>2 DEF MTypeOK
  <2>4. OnCourse'
    BY <2>1, <2>2 DEF OnCourse, Left
  <2>5. Queue'
    BY <1>1, <1>3, <2>2 DEF MTypeOK, Queue, Left, Idle, ItemsReady
  <2> QED
    BY <1>1, <1>3, <2>3, <2>4, <2>5 DEF Tasklet, Queue, VirtualFc, FortuneModules
<1>4. CASE module = "virtual_fc.c"
  <2>1. todo' = <<"object", "cache", "area", "fs">> /\ Course' = todo'
    BY <1>1, <1>4 DEF Course, M!ExitOf, M!virtual_fc_exit
  <2>2. todo' \in Seq(Resources) /\ Len(todo') = 4
    BY <2>1 DEF Resources
  <2>3. MTypeOK'
    BY <1>1, <2>2 DEF MTypeOK
  <2>4. OnCourse'
    BY <2>1, <2>2 DEF OnCourse, Left
  <2>5. VirtualFc'
    BY <1>1, <1>4, <2>2 DEF MTypeOK, VirtualFc, Left, Idle, ItemsReady
  <2> QED
    BY <1>1, <1>4, <2>3, <2>4, <2>5 DEF Tasklet, Queue, VirtualFc, FortuneModules
<1>5. CASE module = "fortune.c"
  <2>1. todo' = <<"proc", "callers", "dir", "link", "pot">> /\ Course' = todo'
    BY <1>1, <1>5 DEF Course, M!ExitOf, M!fortune_exit
  <2>2. todo' \in Seq(Resources) /\ Len(todo') = 5
    BY <2>1 DEF Resources
  <2>3. MTypeOK'
    BY <1>1, <2>2 DEF MTypeOK
  <2>4. OnCourse'
    BY <2>1, <2>2 DEF OnCourse, Left
  <2>5. FortuneModules'
    BY <1>1, <1>5, <2>2 DEF MTypeOK, FortuneModules, Left, Idle, ItemsReady
  <2> QED
    BY <1>1, <1>5, <2>3, <2>4, <2>5 DEF Tasklet, Queue, VirtualFc, FortuneModules
<1>6. CASE module = "main.c"
  <2>1. todo' = <<"proc", "callers", "dir", "link", "pot">> /\ Course' = todo'
    BY <1>1, <1>6 DEF Course, M!ExitOf, M!seq_fortune_exit
  <2>2. todo' \in Seq(Resources) /\ Len(todo') = 5
    BY <2>1 DEF Resources
  <2>3. MTypeOK'
    BY <1>1, <2>2 DEF MTypeOK
  <2>4. OnCourse'
    BY <2>1, <2>2 DEF OnCourse, Left
  <2>5. FortuneModules'
    BY <1>1, <1>6, <2>2 DEF MTypeOK, FortuneModules, Left, Idle, ItemsReady
  <2> QED
    BY <1>1, <1>6, <2>3, <2>4, <2>5 DEF Tasklet, Queue, VirtualFc, FortuneModules
<1> QED
  BY <1>2, <1>3, <1>4, <1>5, <1>6 DEF MTypeOK

LEMMA MFreeNullStep == MInv /\ M!FreeNull => MInv'
PROOF
<1> SUFFICES ASSUME MInv, M!FreeNull PROVE MInv'
  OBVIOUS
<1> USE DEF M!FreeNull, MInv, M!moduleVars, M!irqVars, M!userVars
<1>1. MTypeOK'
  BY DEF MTypeOK, Items
<1>2. OnCourse'
  BY DEF OnCourse, Course, Left, M!InitOf, M!ExitOf
<1>3. Tasklet'
  BY TaskletCourse DEF MTypeOK, Tasklet, Idle, Left, Items
<1>4. Queue'
  BY QueueCourse DEF MTypeOK, Queue, Idle, NoWork, ItemsReady, Left, Items
<1>5. VirtualFc'
  BY VirtualFcCourse DEF MTypeOK, VirtualFc, Idle, Left, M!NoCode
<1>6. FortuneModules'
  BY FortuneCourse, SeqFortuneCourse DEF MTypeOK, FortuneModules, Idle, Left, Course, M!InitOf, M!ExitOf
<1> QED
  BY <1>1, <1>2, <1>3, <1>4, <1>5, <1>6

LEMMA MUnloadedStep == MInv /\ M!Unloaded => MInv'
PROOF
<1> SUFFICES ASSUME MInv, M!Unloaded PROVE MInv'
  OBVIOUS
<1> USE DEF M!Unloaded, MInv, M!moduleVars, M!irqVars, M!userVars
<1>1. MTypeOK'
  BY DEF MTypeOK, Items
<1>2. OnCourse'
  BY DEF OnCourse, Course, Left, M!InitOf, M!ExitOf
<1>3. Tasklet'
  BY TaskletCourse DEF MTypeOK, Tasklet, Idle, Left, Items
<1>4. Queue'
  BY QueueCourse DEF MTypeOK, Queue, Idle, NoWork, ItemsReady, Left, Items
<1>5. VirtualFc'
  BY VirtualFcCourse DEF MTypeOK, VirtualFc, Idle, Left, M!NoCode
<1>6. FortuneModules'
  BY FortuneCourse, SeqFortuneCourse DEF MTypeOK, FortuneModules, Idle, Left, Course, M!InitOf, M!ExitOf
<1> QED
  BY <1>1, <1>2, <1>3, <1>4, <1>5, <1>6

LEMMA MInterruptStep == MInv /\ M!Interrupt => MInv'
PROOF
<1> SUFFICES ASSUME MInv, M!Interrupt PROVE MInv'
  OBVIOUS
<1> USE DEF M!Interrupt, MInv, M!moduleVars, M!irqVars, M!userVars
<1>1. MTypeOK'
  BY DEF MTypeOK, Items
<1>2. OnCourse'
  BY DEF OnCourse, Course, Left, M!InitOf, M!ExitOf
<1>3. Tasklet'
  BY TaskletCourse DEF MTypeOK, Tasklet, Idle, Left, Items
<1>4. Queue'
  BY QueueCourse DEF MTypeOK, Queue, Idle, NoWork, ItemsReady, Left, Items
<1>5. VirtualFc'
  BY VirtualFcCourse DEF MTypeOK, VirtualFc, Idle, Left, M!NoCode
<1>6. FortuneModules'
  BY FortuneCourse, SeqFortuneCourse DEF MTypeOK, FortuneModules, Idle, Left, Course, M!InitOf, M!ExitOf
<1> QED
  BY <1>1, <1>2, <1>3, <1>4, <1>5, <1>6

LEMMA MScheduleTaskletStep == MInv /\ M!ScheduleTasklet => MInv'
PROOF
<1> SUFFICES ASSUME MInv, M!ScheduleTasklet PROVE MInv'
  OBVIOUS
<1> USE DEF M!ScheduleTasklet, MInv, M!moduleVars, M!irqVars, M!userVars
<1>1. MTypeOK'
  BY DEF MTypeOK, Items
<1>2. OnCourse'
  BY DEF OnCourse, Course, Left, M!InitOf, M!ExitOf
<1>3. Tasklet'
  BY TaskletCourse DEF MTypeOK, Tasklet, Idle, Left, Items
<1>4. Queue'
  BY QueueCourse DEF MTypeOK, Queue, Idle, NoWork, ItemsReady, Left, Items
<1>5. VirtualFc'
  BY VirtualFcCourse DEF MTypeOK, VirtualFc, Idle, Left, M!NoCode
<1>6. FortuneModules'
  BY FortuneCourse, SeqFortuneCourse DEF MTypeOK, FortuneModules, Idle, Left, Course, M!InitOf, M!ExitOf
<1> QED
  BY <1>1, <1>2, <1>3, <1>4, <1>5, <1>6

LEMMA MQueueWorkStep == MInv /\ M!QueueWork => MInv'
PROOF
<1> SUFFICES ASSUME MInv, M!QueueWork PROVE MInv'
  OBVIOUS
<1> USE DEF M!QueueWork, MInv, M!moduleVars, M!irqVars, M!userVars
<1>1. MTypeOK'
  BY DEF MTypeOK, Items
<1>2. OnCourse'
  BY DEF OnCourse, Course, Left, M!InitOf, M!ExitOf
<1>3. Tasklet'
  BY TaskletCourse DEF MTypeOK, Tasklet, Idle, Left, Items
<1>4. Queue'
  BY QueueCourse DEF MTypeOK, Queue, Idle, NoWork, ItemsReady, Left, Items
<1>5. VirtualFc'
  BY VirtualFcCourse DEF MTypeOK, VirtualFc, Idle, Left, M!NoCode
<1>6. FortuneModules'
  BY FortuneCourse, SeqFortuneCourse DEF MTypeOK, FortuneModules, Idle, Left, Course, M!InitOf, M!ExitOf
<1> QED
  BY <1>1, <1>2, <1>3, <1>4, <1>5, <1>6

LEMMA MStartItemStep == MInv /\ M!StartItem => MInv'
PROOF
<1> SUFFICES ASSUME MInv, M!StartItem PROVE MInv'
  OBVIOUS
<1> USE DEF M!StartItem, MInv, M!moduleVars, M!irqVars, M!userVars
<1>1. MTypeOK'
  BY DEF MTypeOK, Items
<1>2. OnCourse'
  BY DEF OnCourse, Course, Left, M!InitOf, M!ExitOf
<1>3. Tasklet'
  BY TaskletCourse DEF MTypeOK, Tasklet, Idle, Left, Items
<1>4. Queue'
  BY QueueKept DEF Queue
<1>5. VirtualFc'
  BY VirtualFcCourse DEF MTypeOK, VirtualFc, Idle, Left, M!NoCode
<1>6. FortuneModules'
  BY FortuneCourse, SeqFortuneCourse DEF MTypeOK, FortuneModules, Idle, Left, Course, M!InitOf, M!ExitOf
<1> QED
  BY <1>1, <1>2, <1>3, <1>4, <1>5, <1>6

LEMMA MEndTaskletStep == MInv /\ M!EndTasklet => MInv'
PROOF
<1> SUFFICES ASSUME MInv, M!EndTasklet PROVE MInv'
  OBVIOUS
<1> USE DEF M!EndTasklet, MInv, M!moduleVars, M!irqVars, M!userVars
<1>1. MTypeOK'
  BY DEF MTypeOK, Items
<1>2. OnCourse'
  BY DEF OnCourse, Course, Left, M!InitOf, M!ExitOf
<1>3. Tasklet'
  BY TaskletCourse DEF MTypeOK, Tasklet, Idle, Left, Items
<1>4. Queue'
  BY QueueKept DEF Queue
<1>5. VirtualFc'
  BY VirtualFcCourse DEF MTypeOK, VirtualFc, Idle, Left, M!NoCode
<1>6. FortuneModules'
  BY FortuneCourse, SeqFortuneCourse DEF MTypeOK, FortuneModules, Idle, Left, Course, M!InitOf, M!ExitOf
<1> QED
  BY <1>1, <1>2, <1>3, <1>4, <1>5, <1>6

LEMMA MEndWorkStep == MInv /\ M!EndWork => MInv'
PROOF
<1> SUFFICES ASSUME MInv, M!EndWork PROVE MInv'
  OBVIOUS
<1> USE DEF M!EndWork, MInv, M!moduleVars, M!irqVars, M!userVars
<1>1. MTypeOK'
  BY DEF MTypeOK, Items
<1>2. OnCourse'
  BY DEF OnCourse, Course, Left, M!InitOf, M!ExitOf
<1>3. Tasklet'
  BY TaskletCourse DEF MTypeOK, Tasklet, Idle, Left, Items
<1>4. Queue'
  BY QueueKept DEF Queue
<1>5. VirtualFc'
  BY VirtualFcCourse DEF MTypeOK, VirtualFc, Idle, Left, M!NoCode
<1>6. FortuneModules'
  BY FortuneCourse, SeqFortuneCourse DEF MTypeOK, FortuneModules, Idle, Left, Course, M!InitOf, M!ExitOf
<1> QED
  BY <1>1, <1>2, <1>3, <1>4, <1>5, <1>6

LEMMA MCallStep == MInv /\ M!Call => MInv'
PROOF
<1> SUFFICES ASSUME MInv, M!Call PROVE MInv'
  OBVIOUS
<1>0. Left \in Nat
  BY LenProperties DEF MInv, MTypeOK, Left
<1>a. (Left = 0 => Left <= 1) /\ (Left <= 3 => Left <= 4)
  BY <1>0
<1> USE DEF M!Call, MInv, M!moduleVars, M!irqVars, M!userVars
<1>1. MTypeOK'
  BY DEF MTypeOK, Items
<1>2. OnCourse'
  BY DEF OnCourse, Course, Left, M!InitOf, M!ExitOf
<1>3. Tasklet'
  <2>1. Left' = Left
    BY DEF Left
  <2>2. "proc" \in held /\ phase' = phase /\ caller' = "inside"
        /\ UNCHANGED <<module, held, handler, came, queued, running, mount>>
    OBVIOUS
  <2> HIDE DEF M!Call
  <2> QED
    BY <2>1, <2>2, <1>a DEF Tasklet, Idle
<1>4. Queue'
  BY QueueKept DEF Queue
<1>5. VirtualFc'
  BY VirtualFcCourse DEF MTypeOK, VirtualFc, Idle, Left, M!NoCode
<1>6. FortuneModules'
  <2>1. Left' = Left /\ Course' = Course
    BY DEF Left, Course, M!InitOf, M!ExitOf
  <2>2. "proc" \in held /\ phase' = phase /\ caller' = "inside"
        /\ UNCHANGED <<module, held, freed, handler, came, queued, running, mount>>
    OBVIOUS
  <2> HIDE DEF M!Call
  <2> QED
    BY <2>1, <2>2, <1>a DEF FortuneModules, Idle
<1> QED
  BY <1>1, <1>2, <1>3, <1>4, <1>5, <1>6

LEMMA MReturnOfTaskletStep == MInv /\ M!ReturnOfTasklet => MInv'
PROOF
<1> SUFFICES ASSUME MInv, M!ReturnOfTasklet PROVE MInv'
  OBVIOUS
<1> USE DEF M!ReturnOfTasklet, MInv, M!moduleVars, M!irqVars, M!userVars
<1>1. MTypeOK'
  BY DEF MTypeOK, Items
<1>2. OnCourse'
  BY DEF OnCourse, Course, Left, M!InitOf, M!ExitOf
<1>3. Tasklet'
  BY TaskletCourse DEF MTypeOK, Tasklet, Idle, Left, Items
<1>4. Queue'
  BY QueueKept DEF Queue
<1>5. VirtualFc'
  BY VirtualFcCourse DEF MTypeOK, VirtualFc, Idle, Left, M!NoCode
<1>6. FortuneModules'
  BY FortuneCourse, SeqFortuneCourse DEF MTypeOK, FortuneModules, Idle, Left, Course, M!InitOf, M!ExitOf
<1> QED
  BY <1>1, <1>2, <1>3, <1>4, <1>5, <1>6

LEMMA MReturnOfFortuneStep == MInv /\ M!ReturnOfFortune => MInv'
PROOF
<1> SUFFICES ASSUME MInv, M!ReturnOfFortune PROVE MInv'
  OBVIOUS
<1> USE DEF M!ReturnOfFortune, MInv, M!moduleVars, M!irqVars, M!userVars
<1>1. MTypeOK'
  BY DEF MTypeOK, Items
<1>2. OnCourse'
  BY DEF OnCourse, Course, Left, M!InitOf, M!ExitOf
<1>3. Tasklet'
  BY TaskletCourse DEF MTypeOK, Tasklet, Idle, Left, Items
<1>4. Queue'
  BY QueueKept DEF Queue
<1>5. VirtualFc'
  BY VirtualFcCourse DEF MTypeOK, VirtualFc, Idle, Left, M!NoCode
<1>6. FortuneModules'
  BY FortuneCourse, SeqFortuneCourse DEF MTypeOK, FortuneModules, Idle, Left, Course, M!InitOf, M!ExitOf
<1> QED
  BY <1>1, <1>2, <1>3, <1>4, <1>5, <1>6

LEMMA Mvirtual_fc_mountStep == MInv /\ M!virtual_fc_mount => MInv'
PROOF
<1> SUFFICES ASSUME MInv, M!virtual_fc_mount PROVE MInv'
  OBVIOUS
<1> USE DEF M!virtual_fc_mount, MInv, M!moduleVars, M!irqVars, M!userVars
<1>1. MTypeOK'
  BY DEF MTypeOK, Items
<1>2. OnCourse'
  BY DEF OnCourse, Course, Left, M!InitOf, M!ExitOf
<1>3. Tasklet'
  BY TaskletCourse DEF MTypeOK, Tasklet, Idle, Left, Items
<1>4. Queue'
  BY QueueCourse DEF MTypeOK, Queue, Idle, NoWork, ItemsReady, Left, Items
<1>5. VirtualFc'
  BY VirtualFcCourse DEF MTypeOK, VirtualFc, Idle, Left, M!NoCode
<1>6. FortuneModules'
  BY FortuneCourse, SeqFortuneCourse DEF MTypeOK, FortuneModules, Idle, Left, Course, M!InitOf, M!ExitOf
<1> QED
  BY <1>1, <1>2, <1>3, <1>4, <1>5, <1>6

LEMMA Mvirtual_fc_make_inodeStep == MInv /\ M!virtual_fc_make_inode => MInv'
PROOF
<1> SUFFICES ASSUME MInv, M!virtual_fc_make_inode PROVE MInv'
  OBVIOUS
<1> USE DEF M!virtual_fc_make_inode, MInv, M!moduleVars, M!irqVars, M!userVars
<1>1. MTypeOK'
  BY DEF MTypeOK, Items
<1>2. OnCourse'
  BY DEF OnCourse, Course, Left, M!InitOf, M!ExitOf
<1>3. Tasklet'
  BY TaskletCourse DEF MTypeOK, Tasklet, Idle, Left, Items
<1>4. Queue'
  BY QueueCourse DEF MTypeOK, Queue, Idle, NoWork, ItemsReady, Left, Items
<1>5. VirtualFc'
  BY VirtualFcCourse DEF MTypeOK, VirtualFc, Idle, Left, M!NoCode
<1>6. FortuneModules'
  BY FortuneCourse, SeqFortuneCourse DEF MTypeOK, FortuneModules, Idle, Left, Course, M!InitOf, M!ExitOf
<1> QED
  BY <1>1, <1>2, <1>3, <1>4, <1>5, <1>6

LEMMA Mvirtual_fc_fill_sbStep == MInv /\ M!virtual_fc_fill_sb => MInv'
PROOF
<1> SUFFICES ASSUME MInv, M!virtual_fc_fill_sb PROVE MInv'
  OBVIOUS
<1> USE DEF M!virtual_fc_fill_sb, MInv, M!moduleVars, M!irqVars, M!userVars
<1>1. MTypeOK'
  BY DEF MTypeOK, Items
<1>2. OnCourse'
  BY DEF OnCourse, Course, Left, M!InitOf, M!ExitOf
<1>3. Tasklet'
  BY TaskletCourse DEF MTypeOK, Tasklet, Idle, Left, Items
<1>4. Queue'
  BY QueueCourse DEF MTypeOK, Queue, Idle, NoWork, ItemsReady, Left, Items
<1>5. VirtualFc'
  BY VirtualFcCourse DEF MTypeOK, VirtualFc, Idle, Left, M!NoCode
<1>6. FortuneModules'
  BY FortuneCourse, SeqFortuneCourse DEF MTypeOK, FortuneModules, Idle, Left, Course, M!InitOf, M!ExitOf
<1> QED
  BY <1>1, <1>2, <1>3, <1>4, <1>5, <1>6

LEMMA MUnmountStep == MInv /\ M!Unmount => MInv'
PROOF
<1> SUFFICES ASSUME MInv, M!Unmount PROVE MInv'
  OBVIOUS
<1> USE DEF M!Unmount, MInv, M!moduleVars, M!irqVars, M!userVars
<1>1. MTypeOK'
  BY DEF MTypeOK, Items
<1>2. OnCourse'
  BY DEF OnCourse, Course, Left, M!InitOf, M!ExitOf
<1>3. Tasklet'
  BY TaskletCourse DEF MTypeOK, Tasklet, Idle, Left, Items
<1>4. Queue'
  BY QueueCourse DEF MTypeOK, Queue, Idle, NoWork, ItemsReady, Left, Items
<1>5. VirtualFc'
  BY VirtualFcCourse DEF MTypeOK, VirtualFc, Idle, Left, M!NoCode
<1>6. FortuneModules'
  BY FortuneCourse, SeqFortuneCourse DEF MTypeOK, FortuneModules, Idle, Left, Course, M!InitOf, M!ExitOf
<1> QED
  BY <1>1, <1>2, <1>3, <1>4, <1>5, <1>6

(* A call of init fails: the error path takes over. *)
LEMMA MRefuseStep == MInv /\ M!Refuse => MInv'
PROOF
<1> SUFFICES ASSUME MInv, M!Refuse PROVE MInv'
  OBVIOUS
<1> USE DEF MInv
<1>1. /\ phase = "init" /\ todo # <<>> /\ M!Refused(Head(todo))
      /\ UNCHANGED <<module, held, freed, handler, came, queued, running, caller, wrote, mount>>
  BY DEF M!Refuse, M!irqVars, M!userVars
<1>2. CASE Head(todo) \notin DOMAIN M!InitOf.undo
  <2>1. phase' = phase /\ todo' = Tail(todo)
    BY <1>2 DEF M!Refuse
  <2>2. Left' = Left - 1 /\ Left \in Nat /\ Course' = Course /\ OnCourse' /\ todo' \in Seq(Resources)
    BY <1>1, <2>1, Onward
  <2>3. MTypeOK'
    BY <1>1, <2>1, <2>2 DEF MTypeOK
  <2>4. CASE module = "tasklet.c"
    <3>1. Tasklet'
      BY <1>1, <1>2, <2>1, <2>2, <2>4, TaskletCourse, TaskletUndo DEF MTypeOK, Tasklet, Idle, NoWork,
         ItemsReady, M!Refused, M!Granted, M!Entries
    <3> QED
      BY <1>1, <2>2, <2>3, <2>4, <3>1 DEF Tasklet, Queue, VirtualFc, FortuneModules
  <2>5. CASE module = "queue.c"
    <3>1. Queue'
      BY <1>1, <1>2, <2>1, <2>2, <2>5, QueueCourse, QueueUndo DEF MTypeOK, Queue, Idle, NoWork, ItemsReady,
         M!Refused, M!Granted, M!Entries
    <3> QED
      BY <1>1, <2>2, <2>3, <2>5, <3>1 DEF Tasklet, Queue, VirtualFc, FortuneModules
  <2>6. CASE module = "virtual_fc.c"
    <3>1. VirtualFc'
      BY <1>1, <1>2, <2>1, <2>2, <2>6, VirtualFcCourse, VirtualFcUndo DEF MTypeOK, VirtualFc, Idle, NoWork,
         ItemsReady, M!Refused, M!Granted, M!Entries
    <3> QED
      BY <1>1, <2>2, <2>3, <2>6, <3>1 DEF Tasklet, Queue, VirtualFc, FortuneModules
  <2>7. CASE module = "fortune.c"
    <3>1. FortuneModules'
      BY <1>1, <1>2, <2>1, <2>2, <2>7, FortuneCourse, FortuneUndo DEF MTypeOK, FortuneModules, Idle, NoWork,
         ItemsReady, M!Refused, M!Granted, M!Entries
    <3> QED
      BY <1>1, <2>2, <2>3, <2>7, <3>1 DEF Tasklet, Queue, VirtualFc, FortuneModules
  <2>8. CASE module = "main.c"
    <3>1. FortuneModules'
      BY <1>1, <1>2, <2>1, <2>2, <2>8, SeqFortuneCourse, SeqFortuneUndo DEF MTypeOK, FortuneModules, Idle,
         NoWork, ItemsReady, M!Refused, M!Granted, M!Entries
    <3> QED
      BY <1>1, <2>2, <2>3, <2>8, <3>1 DEF Tasklet, Queue, VirtualFc, FortuneModules
  <2> QED
    BY <2>4, <2>5, <2>6, <2>7, <2>8 DEF MTypeOK
<1>3. CASE Head(todo) \in DOMAIN M!InitOf.undo
  <2>1. phase' = "undo" /\ todo' = M!InitOf.undo[Head(todo)]
    BY <1>3 DEF M!Refuse
  <2>2. CASE module = "tasklet.c"
    <3>1. todo' \in {<<>>} /\ Course' = <<>>
      BY <1>1, <1>3, <2>1, <2>2, TaskletUndo DEF Course
    <3>2. todo' \in Seq(Resources)
      BY <3>1, ErrorPaths
    <3>3. MTypeOK'
      BY <1>1, <2>1, <3>2 DEF MTypeOK
    <3>4. OnCourse'
      <4>1. CASE todo' = <<>>
        <5>1. Left' = 0 /\ Len(Course') = 0
          BY <3>1, <4>1 DEF Left
        <5> QED
          BY <5>1 DEF OnCourse
      <4> QED
        BY <3>1, <4>1 DEF Left
    <3>5. Tasklet'
      <4>1. CASE Head(todo) = "proc"
        <5>1. Left = 2 /\ todo' = <<>>
          BY <1>1, <2>1, <2>2, <4>1, TaskletCourse, TaskletUndo
        <5>2. Left' = 0
          BY <5>1, ErrorPaths DEF Left
        <5> QED
          BY <1>1, <2>1, <2>2, <4>1, <5>1, <5>2, TaskletCourse DEF MTypeOK, Tasklet, Idle, NoWork,
             ItemsReady, M!Refused, M!Granted, M!Entries
      <4>2. CASE Head(todo) = "irq"
        <5>1. Left = 1 /\ todo' = <<>>
          BY <1>1, <2>1, <2>2, <4>2, TaskletCourse, TaskletUndo
        <5>2. Left' = 0
          BY <5>1, ErrorPaths DEF Left
        <5> QED
          BY <1>1, <2>1, <2>2, <4>2, <5>1, <5>2, TaskletCourse DEF MTypeOK, Tasklet, Idle, NoWork,
             ItemsReady, M!Refused, M!Granted, M!Entries
      <4> QED
        BY <1>3, <2>2, TaskletUndo, <4>1, <4>2
    <3> QED
      BY <1>1, <2>2, <3>3, <3>4, <3>5 DEF Tasklet, Queue, VirtualFc, FortuneModules
  <2>3. CASE module = "queue.c"
    <3>1. todo' \in {<<>>, <<"irq", "handler">>} /\ Course' = <<"irq", "handler">>
      BY <1>1, <1>3, <2>1, <2>3, QueueUndo DEF Course
    <3>2. todo' \in Seq(Resources)
      BY <3>1, ErrorPaths
    <3>3. MTypeOK'
      BY <1>1, <2>1, <3>2 DEF MTypeOK
    <3>4. OnCourse'
      <4>1. CASE todo' = <<>>
        <5>1. Left' = 0 /\ Len(Course') = 2
          BY <3>1, <4>1 DEF Left
        <5> QED
          BY <5>1 DEF OnCourse
      <4>2. CASE todo' = <<"irq", "handler">>
        <5>1. Left' = 2 /\ Len(Course') = 2 /\ todo'[1] = Course'[1] /\ todo'[2] = Course'[2]
          BY <3>1, <4>2 DEF Left
        <5> QED
          BY <5>1 DEF OnCourse
      <4> QED
        BY <3>1, <4>1, <4>2 DEF Left
    <3>5. Queue'
      <4>1. CASE Head(todo) = "irq"
        <5>1. Left = 6 /\ todo' = <<>>
          BY <1>1, <2>1, <2>3, <4>1, QueueCourse, QueueUndo
        <5>2. Left' = 0
          BY <5>1, ErrorPaths DEF Left
        <5> QED
          BY <1>1, <2>1, <2>3, <4>1, <5>1, <5>2, QueueCourse DEF MTypeOK, Queue, Idle, NoWork, ItemsReady,
             M!Refused, M!Granted, M!Entries
      <4>2. CASE Head(todo) = "wq"
        <5>1. Left = 5 /\ todo' = <<"irq", "handler">>
          BY <1>1, <2>1, <2>3, <4>2, QueueCourse, QueueUndo
        <5>2. Left' = 2
          BY <5>1, ErrorPaths DEF Left
        <5> QED
          BY <1>1, <2>1, <2>3, <4>2, <5>1, <5>2, QueueCourse DEF MTypeOK, Queue, Idle, NoWork, ItemsReady,
             M!Refused, M!Granted, M!Entries
      <4> QED
        BY <1>3, <2>3, QueueUndo, <4>1, <4>2
    <3> QED
      BY <1>1, <2>3, <3>3, <3>4, <3>5 DEF Tasklet, Queue, VirtualFc, FortuneModules
  <2>4. CASE module = "virtual_fc.c"
    <3>1. todo' \in {<<>>, <<"area">>, <<"object", "cache", "area">>} /\ Course' = <<"object", "cache", "area">>
      BY <1>1, <1>3, <2>1, <2>4, VirtualFcUndo DEF Course
    <3>2. todo' \in Seq(Resources)
      BY <3>1, ErrorPaths
    <3>3. MTypeOK'
      BY <1>1, <2>1, <3>2 DEF MTypeOK
    <3>4. OnCourse'
      <4>1. CASE todo' = <<>>
        <5>1. Left' = 0 /\ Len(Course') = 3
          BY <3>1, <4>1 DEF Left
        <5> QED
          BY <5>1 DEF OnCourse
      <4>2. CASE todo' = <<"area">>
        <5>1. Left' = 1 /\ Len(Course') = 3 /\ todo'[1] = Course'[3]
          BY <3>1, <4>2 DEF Left
        <5> QED
          BY <5>1 DEF OnCourse
      <4>3. CASE todo' = <<"object", "cache", "area">>
        <5>1. /\ Left' = 3 /\ Len(Course') = 3 /\ todo'[1] = Course'[1] /\ todo'[2] = Course'[2]
              /\ todo'[3] = Course'[3]
          BY <3>1, <4>3 DEF Left
        <5> QED
          BY <5>1 DEF OnCourse
      <4> QED
        BY <3>1, <4>1, <4>2, <4>3 DEF Left
    <3>5. VirtualFc'
      <4>1. CASE Head(todo) = "fs"
        <5>1. Left = 4 /\ todo' = <<>>
          BY <1>1, <2>1, <2>4, <4>1, VirtualFcCourse, VirtualFcUndo
        <5>2. Left' = 0
          BY <5>1, ErrorPaths DEF Left
        <5> QED
          BY <1>1, <2>1, <2>4, <4>1, <5>1, <5>2, VirtualFcCourse DEF MTypeOK, VirtualFc, Idle, NoWork,
             ItemsReady, M!Refused, M!Granted, M!Entries
      <4>2. CASE Head(todo) = "area"
        <5>1. Left = 3 /\ todo' = <<>>
          BY <1>1, <2>1, <2>4, <4>2, VirtualFcCourse, VirtualFcUndo
        <5>2. Left' = 0
          BY <5>1, ErrorPaths DEF Left
        <5> QED
          BY <1>1, <2>1, <2>4, <4>2, <5>1, <5>2, VirtualFcCourse DEF MTypeOK, VirtualFc, Idle, NoWork,
             ItemsReady, M!Refused, M!Granted, M!Entries
      <4>3. CASE Head(todo) = "cache"
        <5>1. Left = 2 /\ todo' = <<"area">>
          BY <1>1, <2>1, <2>4, <4>3, VirtualFcCourse, VirtualFcUndo
        <5>2. Left' = 1
          BY <5>1, ErrorPaths DEF Left
        <5> QED
          BY <1>1, <2>1, <2>4, <4>3, <5>1, <5>2, VirtualFcCourse DEF MTypeOK, VirtualFc, Idle, NoWork,
             ItemsReady, M!Refused, M!Granted, M!Entries
      <4>4. CASE Head(todo) = "object"
        <5>1. Left = 1 /\ todo' = <<"object", "cache", "area">>
          BY <1>1, <2>1, <2>4, <4>4, VirtualFcCourse, VirtualFcUndo
        <5>2. Left' = 3
          BY <5>1, ErrorPaths DEF Left
        <5> QED
          BY <1>1, <2>1, <2>4, <4>4, <5>1, <5>2, VirtualFcCourse DEF MTypeOK, VirtualFc, Idle, NoWork,
             ItemsReady, M!Refused, M!Granted, M!Entries
      <4> QED
        BY <1>3, <2>4, VirtualFcUndo, <4>1, <4>2, <4>3, <4>4
    <3> QED
      BY <1>1, <2>4, <3>3, <3>4, <3>5 DEF Tasklet, Queue, VirtualFc, FortuneModules
  <2>5. CASE module = "fortune.c"
    <3>1. todo' \in {<<>>, <<"pot">>} /\ Course' = <<"pot">>
      BY <1>1, <1>3, <2>1, <2>5, FortuneUndo DEF Course
    <3>2. todo' \in Seq(Resources)
      BY <3>1, ErrorPaths
    <3>3. MTypeOK'
      BY <1>1, <2>1, <3>2 DEF MTypeOK
    <3>4. OnCourse'
      <4>1. CASE todo' = <<>>
        <5>1. Left' = 0 /\ Len(Course') = 1
          BY <3>1, <4>1 DEF Left
        <5> QED
          BY <5>1 DEF OnCourse
      <4>2. CASE todo' = <<"pot">>
        <5>1. Left' = 1 /\ Len(Course') = 1 /\ todo'[1] = Course'[1]
          BY <3>1, <4>2 DEF Left
        <5> QED
          BY <5>1 DEF OnCourse
      <4> QED
        BY <3>1, <4>1, <4>2 DEF Left
    <3>5. FortuneModules'
      <4>1. CASE Head(todo) = "pot"
        <5>1. Left = 5 /\ todo' = <<>>
          BY <1>1, <2>1, <2>5, <4>1, FortuneCourse, FortuneUndo
        <5>2. Left' = 0
          BY <5>1, ErrorPaths DEF Left
        <5> QED
          BY <1>1, <2>1, <2>5, <4>1, <5>1, <5>2, FortuneCourse DEF MTypeOK, FortuneModules, Idle, NoWork,
             ItemsReady, M!Refused, M!Granted, M!Entries
      <4>2. CASE Head(todo) = "reset"
        <5>1. Left = 1 /\ todo' = <<"pot">>
          BY <1>1, <2>1, <2>5, <4>2, FortuneCourse, FortuneUndo
        <5>2. Left' = 1
          BY <5>1, ErrorPaths DEF Left
        <5> QED
          BY <1>1, <2>1, <2>5, <4>2, <5>1, <5>2, FortuneCourse DEF MTypeOK, FortuneModules, Idle, NoWork,
             ItemsReady, M!Refused, M!Granted, M!Entries
      <4> QED
        BY <1>3, <2>5, FortuneUndo, <4>1, <4>2
    <3> QED
      BY <1>1, <2>5, <3>3, <3>4, <3>5 DEF Tasklet, Queue, VirtualFc, FortuneModules
  <2>6. CASE module = "main.c"
    <3>1. todo' \in {<<>>, <<"pot">>} /\ Course' = <<"pot">>
      BY <1>1, <1>3, <2>1, <2>6, SeqFortuneUndo DEF Course
    <3>2. todo' \in Seq(Resources)
      BY <3>1, ErrorPaths
    <3>3. MTypeOK'
      BY <1>1, <2>1, <3>2 DEF MTypeOK
    <3>4. OnCourse'
      <4>1. CASE todo' = <<>>
        <5>1. Left' = 0 /\ Len(Course') = 1
          BY <3>1, <4>1 DEF Left
        <5> QED
          BY <5>1 DEF OnCourse
      <4>2. CASE todo' = <<"pot">>
        <5>1. Left' = 1 /\ Len(Course') = 1 /\ todo'[1] = Course'[1]
          BY <3>1, <4>2 DEF Left
        <5> QED
          BY <5>1 DEF OnCourse
      <4> QED
        BY <3>1, <4>1, <4>2 DEF Left
    <3>5. FortuneModules'
      <4>1. CASE Head(todo) = "pot"
        <5>1. Left = 4 /\ todo' = <<>>
          BY <1>1, <2>1, <2>6, <4>1, SeqFortuneCourse, SeqFortuneUndo
        <5>2. Left' = 0
          BY <5>1, ErrorPaths DEF Left
        <5> QED
          BY <1>1, <2>1, <2>6, <4>1, <5>1, <5>2, SeqFortuneCourse DEF MTypeOK, FortuneModules, Idle, NoWork,
             ItemsReady, M!Refused, M!Granted, M!Entries
      <4>2. CASE Head(todo) = "proc"
        <5>1. Left = 3 /\ todo' = <<"pot">>
          BY <1>1, <2>1, <2>6, <4>2, SeqFortuneCourse, SeqFortuneUndo
        <5>2. Left' = 1
          BY <5>1, ErrorPaths DEF Left
        <5>3. Len(Course) = 4
          BY <1>1, <2>6, SeqFortuneCourse
        <5>4. Left >= Len(Course) - 1
          BY <5>1, <5>3
        <5>5. held \subseteq {"pot"} /\ Idle /\ mount = "none" /\ (caller = "inside" => "proc" \in held)
          BY <1>1, <2>6, <5>4 DEF FortuneModules
        <5> HIDE DEF MInv
        <5> QED
          BY <1>1, <2>1, <2>6, <5>2, <5>5 DEF FortuneModules, Idle
      <4> QED
        BY <1>3, <2>6, SeqFortuneUndo, <4>1, <4>2
    <3> QED
      BY <1>1, <2>6, <3>3, <3>4, <3>5 DEF Tasklet, Queue, VirtualFc, FortuneModules
  <2> QED
    BY <2>2, <2>3, <2>4, <2>5, <2>6 DEF MTypeOK
<1> QED
  BY <1>2, <1>3

LEMMA MNextInv == MInv /\ [M!Next]_M!vars => MInv'
PROOF
<1> SUFFICES ASSUME MInv, [M!Next]_M!vars PROVE MInv'
  OBVIOUS
<1>1. CASE M!Take
  BY <1>1, MTakeStep
<1>2. CASE M!Refuse
  BY <1>2, MRefuseStep
<1>3. CASE M!Loaded
  BY <1>3, MLoadedStep
<1>4. CASE M!Unload
  BY <1>4, MUnloadStep
<1>5. CASE M!GiveBack
  BY <1>5, MGiveBackStep
<1>6. CASE M!FreeNull
  BY <1>6, MFreeNullStep
<1>7. CASE M!Unloaded
  BY <1>7, MUnloadedStep
<1>8. CASE M!Interrupt
  BY <1>8, MInterruptStep
<1>9. CASE M!ScheduleTasklet
  BY <1>9, MScheduleTaskletStep
<1>10. CASE M!QueueWork
  BY <1>10, MQueueWorkStep
<1>11. CASE M!StartItem
  BY <1>11, MStartItemStep
<1>12. CASE M!EndTasklet
  BY <1>12, MEndTaskletStep
<1>13. CASE M!EndWork
  BY <1>13, MEndWorkStep
<1>14. CASE M!Call
  BY <1>14, MCallStep
<1>15. CASE M!ReturnOfTasklet
  BY <1>15, MReturnOfTaskletStep
<1>16. CASE M!ReturnOfFortune
  BY <1>16, MReturnOfFortuneStep
<1>17. CASE M!virtual_fc_mount
  BY <1>17, Mvirtual_fc_mountStep
<1>18. CASE M!virtual_fc_make_inode
  BY <1>18, Mvirtual_fc_make_inodeStep
<1>19. CASE M!virtual_fc_fill_sb
  BY <1>19, Mvirtual_fc_fill_sbStep
<1>20. CASE M!Unmount
  BY <1>20, MUnmountStep
<1>21. CASE M!Drain \/ UNCHANGED M!vars
  <2>1. UNCHANGED <<module, phase, todo, held, freed, handler, came, queued, running, caller, wrote, mount>>

    BY <1>21 DEF M!Drain, M!vars, M!moduleVars, M!irqVars, M!userVars
  <2>2. Course' = Course /\ Left' = Left
    BY <2>1 DEF Course, Left, M!InitOf, M!ExitOf
  <2>3. MTypeOK' /\ OnCourse'
    BY <2>1, <2>2 DEF MInv, MTypeOK, OnCourse
  <2>4. Idle' = Idle /\ NoWork' = NoWork /\ ItemsReady' = ItemsReady
    BY <2>1 DEF Idle, NoWork, ItemsReady
  <2>5. Tasklet /\ Queue /\ VirtualFc /\ FortuneModules
    BY DEF MInv
  <2>6. Tasklet'
    BY <2>1, <2>2, <2>4, <2>5 DEF Tasklet
  <2>7. Queue'
    BY <2>1, <2>2, <2>4, <2>5 DEF Queue
  <2>8. VirtualFc'
    BY <2>1, <2>2, <2>4, <2>5 DEF VirtualFc
  <2>9. FortuneModules'
    BY <2>1, <2>2, <2>4, <2>5 DEF FortuneModules, M!Entries
  <2> QED
    BY <2>3, <2>6, <2>7, <2>8, <2>9 DEF MInv
<1> QED
  BY <1>1, <1>2, <1>3, <1>4, <1>5, <1>6, <1>7, <1>8, <1>9, <1>10, <1>11, <1>12, <1>13, <1>14, <1>15, <1>16,
     <1>17, <1>18, <1>19, <1>20, <1>21 DEF M!Next

LEMMA MSafe == MInv => M!LeavesNothingBehind
PROOF
<1> SUFFICES ASSUME MInv PROVE M!LeavesNothingBehind
  OBVIOUS
<1>1. ASSUME phase = "gone"
      PROVE  M!Quiet \/ (module = "tasklet.c" /\ held = {} /\ caller = "outside" /\ came)
  <2>1. CASE module = "tasklet.c"
    <3>1. held = {} /\ caller = "outside" /\ mount = "none" /\ (~came => Idle)
      BY <1>1, <2>1 DEF MInv, Tasklet, MTypeOK
    <3>2. CASE ~came
      BY <3>1, <3>2 DEF M!Quiet, M!Had, Idle
    <3>3. CASE came
      BY <2>1, <3>1, <3>3
    <3> QED
      BY <3>2, <3>3
  <2>2. CASE module = "queue.c"
    BY <1>1, <2>2 DEF MInv, Queue, M!Quiet, M!Had, Idle
  <2>3. CASE module = "virtual_fc.c"
    BY <1>1, <2>3 DEF MInv, MTypeOK, VirtualFc, M!Quiet, M!Had, Idle
  <2>4. CASE module \in {"fortune.c", "main.c"}
    BY <1>1, <2>4 DEF MInv, FortuneModules, M!Quiet, M!Had, Idle
  <2> QED
    BY <2>1, <2>2, <2>3, <2>4 DEF MInv, MTypeOK
<1>2. ASSUME phase = "failed"
      PROVE  M!Quiet \/ (M!Had \in M!Leaves /\ M!Had # {})
  <2>1. CASE module = "tasklet.c"
    <3>1. held \subseteq {"proc"} /\ mount = "none" /\ Idle /\ caller \in {"outside", "inside"}
          /\ (caller = "inside" => "proc" \in held)
      BY <1>2, <2>1 DEF MInv, MTypeOK, Tasklet
    <3>2. held = {} \/ held = {"proc"}
      BY <3>1
    <3> QED
      BY <2>1, <3>1, <3>2 DEF M!Quiet, M!Had, M!Leaves, Idle
  <2>2. CASE module = "queue.c"
    BY <1>2, <2>2 DEF MInv, Queue, M!Quiet, M!Had, Idle
  <2>3. CASE module = "virtual_fc.c"
    <3>1. held \subseteq {"fs"} /\ Idle /\ caller = "outside" /\ (mount # "none" => "fs" \in held)
      BY <1>2, <2>3 DEF MInv, VirtualFc
    <3>2. held = {} \/ held = {"fs"}
      BY <3>1
    <3> QED
      BY <2>3, <3>1, <3>2 DEF M!Quiet, M!Had, M!Leaves, Idle
  <2>4. CASE module = "fortune.c"
    <3>1. held \subseteq M!Entries /\ held # M!Entries /\ Idle /\ mount = "none"
          /\ caller \in {"outside", "inside"} /\ (caller = "inside" => "proc" \in held)
      BY <1>2, <2>4 DEF MInv, MTypeOK, FortuneModules, M!Entries
    <3>2. M!Had = held
      BY <3>1 DEF M!Had, M!Entries
    <3>3. held \in M!Leaves
      BY <2>4, <3>1 DEF M!Leaves
    <3> QED
      BY <3>1, <3>2, <3>3 DEF M!Quiet, Idle
  <2>5. CASE module = "main.c"
    <3>1. held = {} /\ Idle /\ mount = "none" /\ caller = "outside"
      BY <1>2, <2>5 DEF MInv, MTypeOK, FortuneModules
    <3> QED
      BY <3>1 DEF M!Quiet, M!Had, Idle
  <2> QED
    BY <2>1, <2>2, <2>3, <2>4, <2>5 DEF MInv, MTypeOK
<1> QED
  BY <1>1, <1>2 DEF M!LeavesNothingBehind

MNew == accidents' \ accidents

(* ---- every step's accidents are the explained ones ---- *)

LEMMA MTakeExplained == MInv /\ M!Take => \A a \in MNew : M!Explained(a)
PROOF
<1> SUFFICES ASSUME MInv, M!Take, NEW a \in MNew PROVE M!Explained(a)
  OBVIOUS
<1>1. a = "line forgotten" /\ phase = "init" /\ todo # <<>> /\ Head(todo) = "reset"
  BY DEF M!Take, M!Accident, MNew
<1>2. MTypeOK /\ OnCourse
  BY DEF MInv
<1>3. module = "fortune.c"
  BY <1>1, <1>2, TaskletCourse, QueueCourse, VirtualFcCourse, SeqFortuneCourse DEF MTypeOK
<1> QED
  BY <1>1, <1>3 DEF M!Explained

LEMMA MQueueWorkExplained == MInv /\ M!QueueWork => \A a \in MNew : M!Explained(a)
PROOF
<1> SUFFICES ASSUME MInv, M!QueueWork, NEW a \in MNew PROVE M!Explained(a)
  OBVIOUS
<1> DEFINE raw == (IF handler = "work1" THEN "init1" ELSE "init2") \notin held
<1>1. handler \in {"work1", "work2"}
  BY DEF M!QueueWork
<1>2. /\ handler \in held \cup freed
      /\ \/ a = "raw work" /\ raw
         \/ a = "freed work" /\ handler \in freed
         \/ a = "freed queue" /\ "wq" \in freed
  BY DEF M!QueueWork, M!Accident, MNew
<1>3. MTypeOK /\ OnCourse /\ Queue
  BY DEF MInv
<1>4. module = "queue.c"
  BY <1>1 DEF MInv, MTypeOK, Tasklet, VirtualFc, FortuneModules, Idle
<1>5. phase \in {"init", "live", "exit"} /\ ~Idle /\ ~NoWork
  BY <1>1, <1>2, <1>3, <1>4 DEF Queue, MTypeOK, Idle, NoWork
<1>6. CASE phase = "init"
  <2>1. freed = {} /\ handler \in held
    BY <1>2, <1>3, <1>4, <1>6 DEF Queue
  <2>2. a = "raw work" /\ raw
    BY <1>2, <2>1
  <2>3. CASE handler = "work1"
    <3>1. ~(Left > 3) /\ ~(Left <= 2) /\ Left \in Nat
      BY <1>3, <1>4, <1>5, <1>6, <2>1, <2>2, <2>3, QueueCourse DEF Queue
    <3>2. Left = 3
      BY <3>1
    <3>3. Head(todo) = "init1"
      BY <1>3, <1>4, <1>6, <3>2, QueueCourse
    <3> QED
      BY <1>6, <2>2, <2>3, <3>3 DEF M!Explained
  <2>4. CASE handler = "work2"
    <3>1. ~(Left > 1) /\ Left # 0 /\ Left \in Nat
      BY <1>3, <1>4, <1>6, <2>1, <2>2, <2>4, QueueCourse DEF Queue, ItemsReady
    <3>2. Left = 1
      BY <3>1
    <3>3. Head(todo) = "init2"
      BY <1>3, <1>4, <1>6, <3>2, QueueCourse
    <3> QED
      BY <1>6, <2>2, <2>4, <3>3 DEF M!Explained
  <2> QED
    BY <1>1, <2>3, <2>4
<1>7. CASE phase = "live"
  BY <1>1, <1>2, <1>3, <1>4, <1>7 DEF Queue, ItemsReady
<1>8. CASE phase = "exit"
  <2>1. ItemsReady /\ (Left >= 2 => freed \cap {"work1", "work2"} = {}) /\ (Left <= 2 => handler = "idle")
        /\ (Left = 5 => freed = {}) /\ Left \in Nat /\ Left <= 5
    BY <1>3, <1>4, <1>8, QueueCourse DEF Queue
  <2>2. Left > 2 /\ Left >= 2
    BY <1>1, <2>1
  <2>3. ~raw /\ handler \notin freed
    <3>1. freed \cap {"work1", "work2"} = {} /\ ItemsReady
      BY <2>1, <2>2
    <3>2. handler \notin freed /\ handler \in held
      BY <1>1, <1>2, <3>1
    <3> QED
      BY <1>1, <3>1, <3>2 DEF ItemsReady
  <2>4. a = "freed queue" /\ "wq" \in freed
    BY <1>2, <2>3
  <2>5. Left = 4 \/ Left = 3
    <3>1. Left # 5
      BY <2>1, <2>4
    <3>2. Left > 2 /\ Left <= 5 /\ Left \in Nat
      BY <2>1, <2>2
    <3> HIDE DEF raw
    <3> QED
      BY <3>1, <3>2
  <2>6. Head(todo) \in {"irq", "handler"}
    BY <1>3, <1>4, <1>8, <2>5, QueueCourse
  <2> QED
    BY <1>8, <2>4, <2>6 DEF M!Explained
<1> QED
  BY <1>5, <1>6, <1>7, <1>8

(* A queued tasklet or item means that its module has had an interrupt. *)
LEMMA MBottomHalves ==
  ASSUME MInv, queued \cup running # {}
  PROVE  /\ M!NoCode => module = "tasklet.c" /\ phase = "gone"
         /\ running \cap {"work1", "work2"} \cap freed = {}
PROOF
<1>1. ~Idle
  BY DEF Idle
<1>2. module \in {"tasklet.c", "queue.c"}
  BY <1>1 DEF MInv, MTypeOK, VirtualFc, FortuneModules
<1>3. CASE module = "tasklet.c"
  BY <1>1, <1>3 DEF MInv, Tasklet, M!NoCode
<1>4. CASE module = "queue.c"
  <2>1. Queue /\ MTypeOK /\ OnCourse
    BY DEF MInv
  <2>2. ~M!NoCode
    BY <1>1, <1>4, <2>1 DEF Queue, M!NoCode
  <2>3. CASE phase = "exit"
    <3>1. Left \in Nat /\ Left <= 5
      BY <1>4, <2>1, <2>3, QueueCourse
    <3>2. Left = 5 \/ Left <= 4
      BY <3>1
    <3> QED
      BY <1>4, <2>1, <2>2, <2>3, <3>2 DEF Queue
  <2>4. CASE phase # "exit"
    BY <1>1, <1>4, <2>1, <2>2, <2>4 DEF Queue, MTypeOK, NoWork, Idle
  <2> QED
    BY <2>3, <2>4
<1> QED
  BY <1>2, <1>3, <1>4

LEMMA MStartItemExplained == MInv /\ M!StartItem => \A a \in MNew : M!Explained(a)
PROOF
<1> SUFFICES ASSUME MInv, M!StartItem, NEW a \in MNew PROVE M!Explained(a)
  OBVIOUS
<1>1. queued \cup running # {}
  BY DEF M!StartItem
<1>2. a = "item without code" /\ M!NoCode
  BY <1>1, MBottomHalves DEF M!StartItem, M!Accident, MNew
<1> QED
  BY <1>1, <1>2, MBottomHalves DEF M!Explained

LEMMA MEndTaskletExplained == MInv /\ M!EndTasklet => \A a \in MNew : M!Explained(a)
PROOF
<1> SUFFICES ASSUME MInv, M!EndTasklet, NEW a \in MNew PROVE M!Explained(a)
  OBVIOUS
<1>1. queued \cup running # {}
  BY DEF M!EndTasklet
<1>2. a = "item without code" /\ M!NoCode
  BY <1>1, MBottomHalves DEF M!EndTasklet, M!Accident, MNew
<1> QED
  BY <1>1, <1>2, MBottomHalves DEF M!Explained

LEMMA MEndWorkExplained == MInv /\ M!EndWork => \A a \in MNew : M!Explained(a)
PROOF
<1> SUFFICES ASSUME MInv, M!EndWork, NEW a \in MNew PROVE M!Explained(a)
  OBVIOUS
<1>1. queued \cup running # {}
  BY DEF M!EndWork
<1>2. a = "item without code" /\ M!NoCode
  BY <1>1, MBottomHalves DEF M!EndWork, M!Accident, MNew
<1> QED
  BY <1>1, <1>2, MBottomHalves DEF M!Explained

LEMMA MCallExplained == MInv /\ M!Call => \A a \in MNew : M!Explained(a)
PROOF
<1> SUFFICES ASSUME MInv, M!Call, NEW a \in MNew PROVE M!Explained(a)
  OBVIOUS
<1>1. a = "call without code" /\ phase \in {"failed", "gone"} /\ "proc" \in held
  BY DEF M!Call, M!Accident, MNew, M!NoCode
<1>2. module \in {"tasklet.c", "fortune.c"} /\ phase = "failed"
  BY <1>1 DEF MInv, MTypeOK, Tasklet, Queue, VirtualFc, FortuneModules
<1> QED
  BY <1>1, <1>2 DEF M!Explained

LEMMA MReturnOfTaskletExplained == MInv /\ M!ReturnOfTasklet => \A a \in MNew : M!Explained(a)
PROOF
<1> SUFFICES ASSUME MInv, M!ReturnOfTasklet, NEW a \in MNew PROVE M!Explained(a)
  OBVIOUS
<1>1. a = "call without code" /\ phase \in {"failed", "gone"} /\ module = "tasklet.c" /\ caller = "inside"
  BY DEF M!ReturnOfTasklet, M!Accident, MNew, M!NoCode
<1>2. phase = "failed"
  BY <1>1 DEF MInv, Tasklet
<1> QED
  BY <1>1, <1>2 DEF M!Explained

LEMMA MReturnOfFortuneExplained == MInv /\ M!ReturnOfFortune => \A a \in MNew : M!Explained(a)
PROOF
<1> SUFFICES ASSUME MInv, M!ReturnOfFortune, NEW a \in MNew PROVE M!Explained(a)
  OBVIOUS
<1>1. /\ module \in {"fortune.c", "main.c"} /\ caller = "inside"
      /\ \/ a = "call without code" /\ phase \in {"failed", "gone"}
         \/ a = "freed pot" /\ "pot" \in freed
  BY DEF M!ReturnOfFortune, M!Accident, MNew, M!NoCode
<1>2. FortuneModules /\ MTypeOK /\ OnCourse
  BY DEF MInv
<1>3. phase \notin {"gone", "stuck"}
  BY <1>1, <1>2 DEF FortuneModules
<1>4. phase \in {"undo", "failed"} => module = "fortune.c"
  BY <1>1, <1>2 DEF FortuneModules
<1>5. ASSUME phase = "exit" PROVE "pot" \notin freed
  <2>1. Left \in Nat
    BY <1>2, <1>5, LenProperties DEF Left, MTypeOK
  <2>2. Left > 3 \/ Left <= 3
    BY <2>1
  <2>3. Left > 3 => Left >= 1
    BY <2>1
  <2> QED
    BY <1>1, <1>2, <1>5, <2>2, <2>3 DEF FortuneModules
<1>6. phase \in {"init", "live"} => freed = {}
  BY <1>1, <1>2 DEF FortuneModules
<1> QED
  BY <1>1, <1>2, <1>3, <1>4, <1>5, <1>6 DEF M!Explained, MTypeOK

(* While a file system is registered or mounted its module has not gone. *)
LEMMA MMounts ==
  ASSUME MInv, "fs" \in held \/ mount # "none" PROVE phase # "gone"
PROOF BY DEF MInv, MTypeOK, Tasklet, Queue, VirtualFc, FortuneModules

LEMMA Mvirtual_fc_mountExplained == MInv /\ M!virtual_fc_mount => \A a \in MNew : M!Explained(a)
PROOF
<1> SUFFICES ASSUME MInv, M!virtual_fc_mount, NEW a \in MNew PROVE M!Explained(a)
  OBVIOUS
<1>1. ("fs" \in held \/ mount # "none")
      /\ (a = "mount without code" /\ phase \in {"failed", "gone"})
  BY DEF M!virtual_fc_mount, M!Accident, MNew, M!NoCode
<1> QED
  BY <1>1, MMounts DEF M!Explained

LEMMA Mvirtual_fc_make_inodeExplained == MInv /\ M!virtual_fc_make_inode => \A a \in MNew : M!Explained(a)
PROOF
<1> SUFFICES ASSUME MInv, M!virtual_fc_make_inode, NEW a \in MNew PROVE M!Explained(a)
  OBVIOUS
<1>1. ("fs" \in held \/ mount # "none")
      /\ (a = "mount without code" /\ phase \in {"failed", "gone"})
  BY DEF M!virtual_fc_make_inode, M!Accident, MNew, M!NoCode
<1> QED
  BY <1>1, MMounts DEF M!Explained

LEMMA MUnmountExplained == MInv /\ M!Unmount => \A a \in MNew : M!Explained(a)
PROOF
<1> SUFFICES ASSUME MInv, M!Unmount, NEW a \in MNew PROVE M!Explained(a)
  OBVIOUS
<1>1. ("fs" \in held \/ mount # "none")
      /\ (a = "mount without code" /\ phase \in {"failed", "gone"})
  BY DEF M!Unmount, M!Accident, MNew, M!NoCode
<1> QED
  BY <1>1, MMounts DEF M!Explained

LEMMA Mvirtual_fc_fill_sbExplained == MInv /\ M!virtual_fc_fill_sb => \A a \in MNew : M!Explained(a)
PROOF
<1> SUFFICES ASSUME MInv, M!virtual_fc_fill_sb, NEW a \in MNew PROVE M!Explained(a)
  OBVIOUS
<1>1. mount = "inode"
  BY DEF M!virtual_fc_fill_sb
<1>2. M!Accident((IF M!NoCode THEN {"mount without code"} ELSE {})
                 \cup IF mount' = "none" THEN {"inode put twice"} ELSE {})
  BY DEF M!virtual_fc_fill_sb
<1>3. a \in (IF M!NoCode THEN {"mount without code"} ELSE {})
           \cup IF mount' = "none" THEN {"inode put twice"} ELSE {}
  BY <1>2 DEF M!Accident, MNew
<1>4. a = "inode put twice" \/ (a = "mount without code" /\ phase \in {"failed", "gone"})
  BY <1>3 DEF M!NoCode
<1> QED
  BY <1>1, <1>4, MMounts DEF M!Explained

LEMMA MExplained == MInv /\ [M!Next]_M!vars => [\A a \in MNew : M!Explained(a)]_M!vars
PROOF
<1> SUFFICES ASSUME MInv, M!Next, ~(UNCHANGED M!vars) PROVE \A a \in MNew : M!Explained(a)
  OBVIOUS
<1>1. CASE M!Take
  BY <1>1, MTakeExplained
<1>2. CASE M!QueueWork
  BY <1>2, MQueueWorkExplained
<1>3. CASE M!StartItem
  BY <1>3, MStartItemExplained
<1>4. CASE M!EndTasklet
  BY <1>4, MEndTaskletExplained
<1>5. CASE M!EndWork
  BY <1>5, MEndWorkExplained
<1>6. CASE M!Call
  BY <1>6, MCallExplained
<1>7. CASE M!ReturnOfTasklet
  BY <1>7, MReturnOfTaskletExplained
<1>8. CASE M!ReturnOfFortune
  BY <1>8, MReturnOfFortuneExplained
<1>9. CASE M!virtual_fc_mount
  BY <1>9, Mvirtual_fc_mountExplained
<1>10. CASE M!virtual_fc_make_inode
  BY <1>10, Mvirtual_fc_make_inodeExplained
<1>11. CASE M!virtual_fc_fill_sb
  BY <1>11, Mvirtual_fc_fill_sbExplained
<1>12. CASE M!Unmount
  BY <1>12, MUnmountExplained
<1>13. CASE M!Refuse \/ M!Loaded \/ M!Unload \/ M!Drain \/ M!GiveBack \/ M!FreeNull \/ M!Unloaded \/ M!Interrupt
         \/ M!ScheduleTasklet
  <2>1. accidents' = accidents
    BY <1>13 DEF M!Refuse, M!Loaded, M!Unload, M!Drain, M!GiveBack, M!FreeNull, M!Unloaded, M!Interrupt,
       M!ScheduleTasklet
  <2> QED
    BY <2>1 DEF MNew
<1> QED
  BY <1>1, <1>2, <1>3, <1>4, <1>5, <1>6, <1>7, <1>8, <1>9, <1>10, <1>11, <1>12, <1>13 DEF M!Next

(* What a module has left when it is gone or has failed to load: nothing,  *)
(* or, in tasklet.c, the tasklet scheduled since tasklet_kill and, after a *)
(* failed init, what its error path forgets.                               *)
THEOREM LeftBehind == M!Spec => []LeavesNothingBehind
PROOF BY MInit, MNextInv, MSafe, PTL DEF M!Spec, LeavesNothingBehind

(* A use of what is not there, not yet or no longer, happens only at the   *)
(* steps that ModuleLife names for its module, and in no other order of    *)
(* interrupts, calls and mounts.                                           *)
THEOREM AccidentsAreExplained == M!Spec => AccidentsExplained
PROOF
<1>1. MInv /\ [M!Next]_M!vars => [\A a \in accidents' \ accidents : M!Explained(a)]_M!vars
  BY MExplained DEF MNew
<1> QED
  BY <1>1, MInit, MNextInv, PTL DEF M!Spec, AccidentsExplained, M!AccidentsExplained

-----------------------------------------------------------------------------

(* Side by side each program runs as it does alone, so that what is proved *)
(* of ProcessTree, ProtectedMode and ModuleLife holds in the three runs.   *)
THEOREM ProgramsRunAlone ==
  /\ TreeSpec => T!Spec
  /\ MachineSpec => B!Spec
  /\ ModuleSpec => M!Spec
PROOF
<1>1. /\ TreeStart => T!Init
      /\ MachineStart => B!Init
      /\ ModuleStart => M!Init
  BY DEF TreeStart, MachineStart, ModuleStart
<1>2. [TreeStep]_allvars => [T!Next]_T!vars
  BY DEF TreeStep, allvars, tvars, T!vars
<1>3. [MachineStep]_allvars => [B!Next]_B!vars
  BY DEF MachineStep, allvars, bvars, B!vars, B!machine, B!pics, B!program
<1>4. [ModuleStep]_allvars => [M!Next]_M!vars
  BY DEF ModuleStep, allvars, mvars, M!vars, M!moduleVars, M!irqVars, M!userVars
<1> QED
  BY <1>1, <1>2, <1>3, <1>4, PTL
     DEF TreeSpec, MachineSpec, ModuleSpec, T!Spec, B!Spec, M!Spec
=============================================================================
