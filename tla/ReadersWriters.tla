--------------------------- MODULE ReadersWriters ---------------------------
(***************************************************************************)
(* 5-semestr/lab5/task2.c: a parent forks writers and readers of one int   *)
(* in shared memory.  Each loops for ever, entering and leaving its        *)
(* section with one semop call on a set of four System V semaphores.       *)
(*                                                                         *)
(* Processes are numbered in the order main forks them, writers first.     *)
(* The writer's increment is a load and a store, and its printf reads the  *)
(* shared int once more.                                                   *)
(*                                                                         *)
(* Nobody looks at what semop returned.  A call that sleeps fails with     *)
(* EINTR when its process is stopped and continued, and the child goes on  *)
(* as if it had been performed.                                            *)
(***************************************************************************)
EXTENDS SysVSem, FiniteSets

CONSTANTS
  NWriters,     \* WRITERS (4 in the code)
  NReaders,     \* READERS (4 in the code)
  IntModulus,   \* bound: the shared int wraps here (2^32 in the build)
  MaxDeaths,    \* bound: children killed one by one by a signal
  ForkMayFail   \* whether fork() may return -1

ASSUME ConstAssumption ==
  /\ NWriters \in Nat /\ NReaders \in Nat
  /\ IntModulus \in Nat \ {0}
  /\ MaxDeaths \in Nat
  /\ ForkMayFail \in BOOLEAN

NProcs  == NWriters + NReaders
Procs   == 1..NProcs
Writers == 1..NWriters
Readers == (NWriters + 1)..NProcs

SEM_AW == 0   \* active writers
SEM_WW == 1   \* waiting writers
SEM_AR == 2   \* active readers
SEM_WR == 3   \* waiting readers
Sems   == {SEM_AW, SEM_WW, SEM_AR, SEM_WR}

INC == 1
DEC == -1
SLP == 0

(* Faulty variants of the four arrays: the reader does not wait for an     *)
(* active writer, does not take its count back; the writer does not wait   *)
(* for another one, does not take its waiting count back.                  *)
start_read_Rude      == << sembuf(SEM_AR, INC) >>
stop_read_Forgets    == << sembuf(SEM_WR, SLP) >>
start_write_Rude     == << sembuf(SEM_AR, SLP), sembuf(SEM_AW, INC) >>
start_write_Waiting  == << sembuf(SEM_WW, INC), sembuf(SEM_AW, SLP), sembuf(SEM_AR, SLP),
                           sembuf(SEM_AW, INC) >>

start_read  == << sembuf(SEM_WR, INC), sembuf(SEM_WW, SLP), sembuf(SEM_AW, SLP),
                  sembuf(SEM_WR, DEC), sembuf(SEM_AR, INC) >>
stop_read   == << sembuf(SEM_AR, DEC) >>
start_write == << sembuf(SEM_WW, INC), sembuf(SEM_AW, SLP), sembuf(SEM_AR, SLP),
                  sembuf(SEM_WW, DEC), sembuf(SEM_AW, INC) >>
stop_write  == << sembuf(SEM_AW, DEC) >>

VARIABLES
  sem,      \* the semaphore set
  shm,      \* the shared int
  pc,       \* where each child stands
  reg,      \* the register of each writer's increment
  main,     \* where the parent stands
  forked,   \* how many children the parent has forked
  reaped,   \* children the parent's wait has returned
  dead,     \* children killed by a signal
  strayW,   \* history: failed calls with start_write, less those with stop_write
  strayR    \* history: failed calls with start_read, less those with stop_read

strays == <<strayW, strayR>>
vars == <<sem, shm, pc, reg, main, forked, reaped, dead, strays>>

Init ==
  /\ sem = [s \in Sems |-> 0]
  /\ shm = 0
  /\ pc = [p \in Procs |-> "none"]
  /\ reg = [p \in Procs |-> 0]
  /\ main = "fork" /\ forked = 0 /\ reaped = {} /\ dead = {}
  /\ strayW = 0 /\ strayR = 0

Goto(p, here) == pc' = [pc EXCEPT ![p] = here]

(* p stands at `here' and is alive. *)
At(p, here) == pc[p] = here /\ p \notin dead

(* A semop call returns 0 when its array has been performed; until then    *)
(* the caller sleeps.                                                      *)
Performed(sops) == LET r == semop(sem, sops) IN r.ok /\ sem' = r.val

(* While it sleeps a stop signal and SIGCONT end it with EINTR.            *)
Interrupted(sops) == ~semop(sem, sops).ok /\ sem' = sem

(* A call whose result is not looked at; tally counts by n when it fails.  *)
Semop(sops, tally, n) == \/ Performed(sops)   /\ tally' = tally
                         \/ Interrupted(sops) /\ tally' = tally + n

(* ---- main ---- *)

(* make_writer and make_reader, then shmdt of the parent's own mapping. *)
MakeChild ==
  /\ main = "fork" /\ forked < NProcs
  /\ forked' = forked + 1
  /\ Goto(forked + 1, "start")
  /\ main' = IF forked + 1 = NProcs THEN "wait" ELSE "fork"
  /\ UNCHANGED <<sem, shm, reg, reaped, dead, strays>>

(* fork() = -1: kill(0, SIGKILL) takes the whole process group along. *)
ForkFails ==
  /\ ForkMayFail /\ main = "fork" /\ forked < NProcs
  /\ main' = "killed"
  /\ dead' = 1..forked
  /\ UNCHANGED <<sem, shm, pc, reg, forked, reaped, strays>>

(* wait(status); only a killed child ever ends. *)
Wait ==
  /\ main = "wait"
  /\ \E p \in dead \ reaped : reaped' = reaped \cup {p}
  /\ UNCHANGED <<sem, shm, pc, reg, main, forked, dead, strays>>

(* All children reaped: IPC_RMID and return. *)
MainReturns ==
  /\ main = "wait" /\ reaped = Procs
  /\ main' = "returned"
  /\ UNCHANGED <<sem, shm, pc, reg, forked, reaped, dead, strays>>

(* ---- writer ---- *)

StartWrite(w) ==
  /\ At(w, "start") /\ Semop(start_write, strayW, 1) /\ Goto(w, "load")
  /\ UNCHANGED <<shm, reg, main, forked, reaped, dead, strayR>>

Load(w) ==
  /\ At(w, "load")
  /\ reg' = [reg EXCEPT ![w] = shm]
  /\ Goto(w, "store")
  /\ UNCHANGED <<sem, shm, main, forked, reaped, dead, strays>>

Store(w) ==
  /\ At(w, "store")
  /\ shm' = (reg[w] + 1) % IntModulus
  /\ Goto(w, "print")
  /\ UNCHANGED <<sem, reg, main, forked, reaped, dead, strays>>

(* printf reads the int the writer just stored, then stop_write and sleep. *)
StopWrite(w) ==
  /\ At(w, "print") /\ Semop(stop_write, strayW, -1) /\ Goto(w, "start")
  /\ UNCHANGED <<shm, reg, main, forked, reaped, dead, strayR>>

(* ---- reader ---- *)

StartRead(r) ==
  /\ At(r, "start") /\ Semop(start_read, strayR, 1) /\ Goto(r, "read")
  /\ UNCHANGED <<shm, reg, main, forked, reaped, dead, strayW>>

(* printf reads the int; then stop_read and sleep. *)
StopRead(r) ==
  /\ At(r, "read") /\ Semop(stop_read, strayR, -1) /\ Goto(r, "start")
  /\ UNCHANGED <<shm, reg, main, forked, reaped, dead, strayW>>

(* Faulty: SEM_UNDO on the operations of the section frees it. *)
Die_Undo(p) ==
  /\ pc[p] # "none" /\ p \notin dead /\ Cardinality(dead) < MaxDeaths
  /\ dead' = dead \cup {p}
  /\ sem' = [s \in Sems |-> 0]
  /\ UNCHANGED <<shm, pc, reg, main, forked, reaped, strays>>

(* A child is killed between two steps; sem_flg is 0, nothing is undone. *)
Die(p) ==
  /\ pc[p] # "none" /\ p \notin dead /\ Cardinality(dead) < MaxDeaths
  /\ dead' = dead \cup {p}
  /\ UNCHANGED <<sem, shm, pc, reg, main, forked, reaped, strays>>

Writer(w) == StartWrite(w) \/ Load(w) \/ Store(w) \/ StopWrite(w)
Reader(r) == StartRead(r) \/ StopRead(r)

Next == \/ MakeChild \/ ForkFails \/ Wait \/ MainReturns
        \/ \E w \in Writers : Writer(w)
        \/ \E r \in Readers : Reader(r)
        \/ \E p \in Procs : Die(p)

Spec == Init /\ [][Next]_vars

(* Every process that can run does.  The kernel keeps sleeping semop calls *)
(* in a queue and tries all of them, oldest first, whenever a value        *)
(* changes: a call whose array can be performed again and again returns.   *)
(* No call need be interrupted.                                            *)
Fairness ==
  /\ WF_vars(MakeChild)
  /\ \A w \in Writers :
       /\ WF_vars(Load(w) \/ Store(w) \/ (StopWrite(w) /\ Performed(stop_write)))
       /\ SF_vars(StartWrite(w) /\ Performed(start_write))
  /\ \A r \in Readers :
       /\ WF_vars(StopRead(r) /\ Performed(stop_read))
       /\ SF_vars(StartRead(r) /\ Performed(start_read))

FairSpec == Spec /\ Fairness
-----------------------------------------------------------------------------
(* ---- properties ---- *)

WritersIn == {w \in Writers : pc[w] \in {"load", "store", "print"}}
ReadersIn == {r \in Readers : pc[r] = "read"}

(* A writer that was let in has the section to itself: beside it there are *)
(* no more than the strays, who went in when semop failed, as 57 and 71 do *)
(* not look.  A stray takes another one's count along when it leaves, and  *)
(* so the rule stays off by one, whoever goes in and out, until somebody   *)
(* else's call to leave finds no count and fails.                          *)
Exclusion ==
  /\ Cardinality(WritersIn) <= strayW + 1
  /\ Cardinality(WritersIn) > strayW => Cardinality(ReadersIn) = strayR

(* SEM_AW and SEM_AR count who is inside, but for the strays, and there    *)
(* are never fewer inside than strays.  The increments of SEM_WW and       *)
(* SEM_WR are taken back in the same atomic call, so the counts of waiting *)
(* processes are never seen by anyone: a waiting writer does not keep new  *)
(* readers out.                                                            *)
SemAccounting ==
  /\ strayW >= 0 /\ sem[SEM_AW] = Cardinality(WritersIn) - strayW
  /\ strayR >= 0 /\ sem[SEM_AR] = Cardinality(ReadersIn) - strayR
  /\ sem[SEM_WW] = 0 /\ sem[SEM_WR] = 0

(* Without a stray writer no increment is lost, and a writer prints the    *)
(* value it wrote: the damage does not outlast the strays.                 *)
NoLostUpdate ==
  strayW = 0 => \A w \in Writers :
    /\ pc[w] = "store" => reg[w] = shm
    /\ pc[w] = "print" => shm = (reg[w] + 1) % IntModulus

(* The section of task2.c is the readers-writer lock with strays.          *)
Lock == INSTANCE RWStrayLock
          WITH R <- Readers, W <- Writers, Modulus <- IntModulus,
               reading <- ReadersIn, writing <- WritersIn,
               pending <- {w \in Writers : pc[w] \in {"load", "store"}},
               value <- shm
ImplementsLock == Lock!Spec

(* A process that died inside keeps its count, unless a stray has taken it *)
(* along: after a writer nobody is let in, after a reader no writer is.    *)
LetIn(In, In2, stray, stray2) == ~(In2 \subseteq In) /\ stray2 = stray
NoEntryAfterDeathInside ==
  [][/\ Cardinality(dead \cap WritersIn) > strayW =>
          /\ ~LetIn(WritersIn, WritersIn', strayW, strayW')
          /\ ~LetIn(ReadersIn, ReadersIn', strayR, strayR')
     /\ Cardinality(dead \cap ReadersIn) > strayR =>
          ~LetIn(WritersIn, WritersIn', strayW, strayW')]_vars

(* A reader that lives reads again and again, whatever the writers do and  *)
(* however many of them are strays, unless a child died as a writer inside *)
(* or there remains a stray reader, who leaves somebody asleep in          *)
(* stop_read.                                                              *)
Lives(p) == main \in {"wait", "returned"} /\ p \notin dead
ReaderProgress ==
  \A r \in Readers :
    <>[](Lives(r) /\ dead \cap WritersIn = {} /\ strayR = 0) =>
      []<>(pc[r] = "read") /\ []<>(pc[r] = "start")

(* A writer that lives gets its turn too once at most one reader is left,  *)
(* no child died inside and no stray writer remains.  With two readers or  *)
(* more that overlap for ever SEM_AR never returns to zero.                *)
WriterProgress ==
  \A w \in Writers :
    <>[](/\ Lives(w) /\ Cardinality(Readers \ dead) <= 1 /\ strayW = 0
         /\ dead \cap (WritersIn \cup ReadersIn) = {}) =>
      []<>(pc[w] = "print") /\ []<>(pc[w] = "start")
=============================================================================
