---------------------------- MODULE EventMonitor ----------------------------
(***************************************************************************)
(* 5-semestr/lab6/main.cpp: readers and writers of one int as threads that *)
(* use a mutex, two manual-reset events and two counters.                  *)
(*                                                                         *)
(* Threads are numbered in the order Create_Threads makes them, writers    *)
(* first.  What a thread does between taking and giving up single_mut has  *)
(* at most one effect a thread without the mutex can see (an event), so    *)
(* taking the mutex and what follows is one step; giving it up and every   *)
(* wait is a step of its own, and so are the load and store of ++value.    *)
(***************************************************************************)
EXTENDS Integers, FiniteSets

CONSTANTS
  NWriters,     \* WRITERS (4 in the code)
  NReaders,     \* READERS (5 in the code)
  Iter,         \* ITER (10 in the code)
  UIntModulus,  \* bound: the unsigned counters wrap here (2^32 in the build)
  MaxFailures   \* bound: calls of CreateThread that return NULL

ASSUME ConstAssumption ==
  /\ NWriters \in Nat /\ NReaders \in Nat /\ Iter \in Nat
  /\ UIntModulus \in Nat \ {0} /\ UIntModulus > NWriters + NReaders
  /\ MaxFailures \in Nat

NThreads == NWriters + NReaders
Threads  == 1..NThreads
Writers  == 1..NWriters
Readers  == (NWriters + 1)..NThreads
Nobody   == 0

VARIABLES
  single_mut,       \* the thread that owns the mutex, or Nobody
  event_read,       \* signaled?
  event_write,      \* signaled?
  read_count, writ_count,
  value,
  active_readers, waiting_readers, waiting_writers,
  pc,               \* where each thread stands
  i,                \* each thread's loop counter
  reg,              \* the register of each writer's ++value
  main,             \* where main stands
  created,          \* how many CreateThread calls main has made
  failed            \* the threads CreateThread did not make

monitor == <<single_mut, event_read, event_write, read_count, writ_count>>
stats   == <<active_readers, waiting_readers, waiting_writers>>
vars    == <<monitor, stats, value, pc, i, reg, main, created, failed>>

(* Handles_go: a free mutex and two signaled manual-reset events. *)
Init ==
  /\ single_mut = Nobody
  /\ event_read = TRUE /\ event_write = TRUE
  /\ read_count = 0 /\ writ_count = 0 /\ value = 0
  /\ active_readers = 0 /\ waiting_readers = 0 /\ waiting_writers = 0
  /\ pc = [t \in Threads |-> "none"]
  /\ i = [t \in Threads |-> 0]
  /\ reg = [t \in Threads |-> 0]
  /\ main = "create" /\ created = 0 /\ failed = {}

(* A thread runs until main returns and the process ends. *)
At(t, here)   == pc[t] = here /\ main # "returned"
Goto(t, here) == pc' = [pc EXCEPT ![t] = here]
Loop(done)    == IF done < Iter THEN "announce" ELSE "exited"

(* ---- main ---- *)

(* CreateThread, whose result nobody looks at. *)
CreateThread ==
  /\ main = "create" /\ created < NThreads
  /\ created' = created + 1
  /\ \/ Goto(created + 1, Loop(0)) /\ UNCHANGED failed
     \/ /\ Cardinality(failed) < MaxFailures
        /\ failed' = failed \cup {created + 1}
        /\ UNCHANGED pc
  /\ main' = IF created + 1 = NThreads THEN "wait_writers" ELSE "create"
  /\ UNCHANGED <<monitor, stats, value, i, reg>>

(* WaitForMultipleObjects: all of the threads S have ended, or the call    *)
(* fails at once because a handle is NULL.                                 *)
WaitAll(S) == (\A t \in S : pc[t] = "exited") \/ S \cap failed # {}

WaitWriters ==
  /\ main = "wait_writers" /\ WaitAll(Writers)
  /\ main' = "wait_readers"
  /\ UNCHANGED <<monitor, stats, value, pc, i, reg, created, failed>>

WaitReaders ==
  /\ main = "wait_readers" /\ WaitAll(Readers)
  /\ main' = "returned"
  /\ UNCHANGED <<monitor, stats, value, pc, i, reg, created, failed>>

(* ---- StartWrite ---- *)

AnnounceWriter(w) ==
  /\ At(w, "announce")
  /\ waiting_writers' = waiting_writers + 1
  /\ Goto(w, "lock")
  /\ UNCHANGED <<monitor, active_readers, waiting_readers, value, i, reg, main, created, failed>>

(* ResetEvent(event_read) and the count, under the mutex. *)
CountWriter(w) ==
  /\ At(w, "lock") /\ single_mut = Nobody
  /\ single_mut' = w
  /\ event_read' = FALSE
  /\ writ_count' = (writ_count + 1) % UIntModulus
  /\ Goto(w, "unlock")
  /\ UNCHANGED <<event_write, read_count, stats, value, i, reg, main, created, failed>>

UnlockWriter(w) ==
  /\ At(w, "unlock")
  /\ single_mut' = Nobody
  /\ Goto(w, "gate")
  /\ UNCHANGED <<event_read, event_write, read_count, writ_count, stats, value, i, reg,
                 main, created, failed>>

(* The wait for event_write; the event stays signaled. *)
PassWriter(w) ==
  /\ At(w, "gate") /\ event_write
  /\ Goto(w, "relock")
  /\ UNCHANGED <<monitor, stats, value, i, reg, main, created, failed>>

(* Faulty: the mutex is not taken again after the gate. *)
EnterWriter_NoMutex(w) ==
  /\ At(w, "relock")
  /\ waiting_writers' = waiting_writers - 1
  /\ Goto(w, "load")
  /\ UNCHANGED <<monitor, active_readers, waiting_readers, value, i, reg, main, created, failed>>

EnterWriter(w) ==
  /\ At(w, "relock") /\ single_mut = Nobody
  /\ single_mut' = w
  /\ waiting_writers' = waiting_writers - 1
  /\ Goto(w, "load")
  /\ UNCHANGED <<event_read, event_write, read_count, writ_count, active_readers,
                 waiting_readers, value, i, reg, main, created, failed>>

(* ---- ++value in Writer, then StopWrite ---- *)

Load(w) ==
  /\ At(w, "load")
  /\ reg' = [reg EXCEPT ![w] = value]
  /\ Goto(w, "store")
  /\ UNCHANGED <<monitor, stats, value, i, main, created, failed>>

Store(w) ==
  /\ At(w, "store")
  /\ value' = reg[w] + 1
  /\ Goto(w, "stop")
  /\ UNCHANGED <<monitor, stats, i, reg, main, created, failed>>

(* waiting_writers is incremented here once more. *)
StopWrite(w) ==
  /\ At(w, "stop")
  /\ waiting_writers' = waiting_writers + 1
  /\ writ_count' = (writ_count - 1) % UIntModulus
  /\ event_read' = (event_read \/ writ_count' = 0)
  /\ single_mut' = Nobody
  /\ i' = [i EXCEPT ![w] = @ + 1]
  /\ Goto(w, Loop(i[w] + 1))
  /\ UNCHANGED <<event_write, read_count, active_readers, waiting_readers, value, reg,
                 main, created, failed>>

(* ---- StartRead ---- *)

AnnounceReader(r) ==
  /\ At(r, "announce")
  /\ waiting_readers' = waiting_readers + 1
  /\ Goto(r, "gate")
  /\ UNCHANGED <<monitor, active_readers, waiting_writers, value, i, reg, main, created, failed>>

(* The wait for event_read, without the mutex. *)
PassReader(r) ==
  /\ At(r, "gate") /\ event_read
  /\ Goto(r, "lock")
  /\ UNCHANGED <<monitor, stats, value, i, reg, main, created, failed>>

(* ResetEvent(event_write) and the count, under the mutex. *)
CountReader(r) ==
  /\ At(r, "lock") /\ single_mut = Nobody
  /\ single_mut' = r
  /\ event_write' = FALSE
  /\ read_count' = (read_count + 1) % UIntModulus
  /\ Goto(r, "unlock")
  /\ UNCHANGED <<event_read, writ_count, stats, value, i, reg, main, created, failed>>

UnlockReader(r) ==
  /\ At(r, "unlock")
  /\ single_mut' = Nobody
  /\ Goto(r, "relock")
  /\ UNCHANGED <<event_read, event_write, read_count, writ_count, stats, value, i, reg,
                 main, created, failed>>

EnterReader(r) ==
  /\ At(r, "relock") /\ single_mut = Nobody
  /\ single_mut' = r
  /\ waiting_readers' = waiting_readers - 1
  /\ active_readers' = active_readers + 1
  /\ Goto(r, "read")
  /\ UNCHANGED <<event_read, event_write, read_count, writ_count, waiting_writers, value, i,
                 reg, main, created, failed>>

(* ---- the read of value in Reader's printf, then StopRead ---- *)

(* Faulty: the last reader does not signal event_write. *)
StopRead_Silent(r) ==
  /\ At(r, "read")
  /\ active_readers' = active_readers - 1
  /\ read_count' = (read_count - 1) % UIntModulus
  /\ single_mut' = Nobody
  /\ i' = [i EXCEPT ![r] = @ + 1]
  /\ Goto(r, Loop(i[r] + 1))
  /\ UNCHANGED <<event_read, event_write, writ_count, waiting_readers, waiting_writers, value,
                 reg, main, created, failed>>

StopRead(r) ==
  /\ At(r, "read")
  /\ active_readers' = active_readers - 1
  /\ read_count' = (read_count - 1) % UIntModulus
  /\ event_write' = (event_write \/ read_count' = 0)
  /\ single_mut' = Nobody
  /\ i' = [i EXCEPT ![r] = @ + 1]
  /\ Goto(r, Loop(i[r] + 1))
  /\ UNCHANGED <<event_read, writ_count, waiting_readers, waiting_writers, value, reg,
                 main, created, failed>>

(* The process is gone. *)
Ended == main = "returned" /\ UNCHANGED vars

Writer(w) == \/ AnnounceWriter(w) \/ CountWriter(w) \/ UnlockWriter(w) \/ PassWriter(w)
             \/ EnterWriter(w) \/ Load(w) \/ Store(w) \/ StopWrite(w)

Reader(r) == \/ AnnounceReader(r) \/ PassReader(r) \/ CountReader(r) \/ UnlockReader(r)
             \/ EnterReader(r) \/ StopRead(r)

Main == CreateThread \/ WaitWriters \/ WaitReaders

Next == \/ Main \/ Ended
        \/ \E w \in Writers : Writer(w)
        \/ \E r \in Readers : Reader(r)

Spec == Init /\ [][Next]_vars

(* Every thread that can run does; a wait need not be served first. *)
FairSpec == /\ Spec
            /\ WF_vars(Main)
            /\ \A w \in Writers : WF_vars(Writer(w))
            /\ \A r \in Readers : WF_vars(Reader(r))
-----------------------------------------------------------------------------
(* ---- properties ---- *)

WritersIn == {w \in Writers : pc[w] \in {"load", "store", "stop"}}
ReadersIn == {r \in Readers : pc[r] = "read"}

(* The threads whose increment of writ_count or read_count is not undone. *)
CountedWriters == WritersIn \cup {w \in Writers : pc[w] \in {"unlock", "gate", "relock"}}
CountedReaders == ReadersIn \cup {r \in Readers : pc[r] \in {"unlock", "relock"}}

(* The unsigned counters count the threads they stand for and never pass   *)
(* below zero, and each event is signaled exactly while the counter of the *)
(* other side is zero.                                                     *)
CountersMatchEvents ==
  /\ writ_count = Cardinality(CountedWriters) /\ event_read  = (writ_count = 0)
  /\ read_count = Cardinality(CountedReaders) /\ event_write = (read_count = 0)

(* The monitor is the abstract readers-writer lock. *)
Lock == INSTANCE RWLock
          WITH R <- Readers, W <- Writers, Modulus <- NWriters * Iter + 1,
               reading <- ReadersIn, writing <- WritersIn,
               pending <- {w \in Writers : pc[w] \in {"load", "store"}},
               value <- value
ImplementsLock == Lock!Spec

(* Nobody waits for ever for the mutex, an event or a thread. *)
Termination == <>(main = "returned")
=============================================================================
