---------------------------- MODULE HoareMonitor ----------------------------
(***************************************************************************)
(* 5-semestr/lab6/a.c: readers and writers as threads, after Hoare's       *)
(* monitor.  start_read and start_write run under rwMutex and wait for     *)
(* their event without giving it up; stop_read and stop_write take no      *)
(* mutex at all.  c_read is an auto-reset event, c_write a manual-reset    *)
(* one, both signaled at first.                                            *)
(*                                                                         *)
(* Every access to a variable that a thread without the mutex also uses is *)
(* a step.  Threads are numbered in the order main makes them, readers     *)
(* first.                                                                  *)
(***************************************************************************)
EXTENDS Integers, FiniteSets

CONSTANTS
  NReaders,       \* READERS (5 in the code)
  NWriters,       \* WRITERS (4 in the code)
  Iters,          \* ITERS (10 in the code)
  ShortModulus,   \* bound: buffer wraps here (2^16 in the build)
  CreateMayFail   \* whether CreateThread may return NULL

ASSUME ConstAssumption ==
  /\ NReaders \in Nat /\ NWriters \in Nat
  /\ Iters \in Nat \ {0}
  /\ ShortModulus \in Nat /\ ShortModulus > Iters * NWriters
  /\ CreateMayFail \in BOOLEAN

NThreads == NReaders + NWriters
Threads  == 1..NThreads
Readers  == 1..NReaders
Writers  == (NReaders + 1)..NThreads
Nobody   == 0
Total    == Iters * NWriters

VARIABLES
  nr, wrt, waiting_readers, waiting_writers,
  c_read, c_write,   \* signaled?
  rwMutex,           \* the thread that owns it, or Nobody
  buffer,
  pc,                \* where each thread stands
  i,                 \* each writer's loop counter
  reg,               \* the register of each writer's ++buffer
  main,              \* where main stands
  created            \* how many threads main has made

counts == <<nr, wrt, waiting_readers, waiting_writers>>
events == <<c_read, c_write>>
procs  == <<main, created>>
vars   == <<counts, events, rwMutex, buffer, pc, i, reg, procs>>

Init ==
  /\ nr = 0 /\ wrt = FALSE /\ waiting_readers = 0 /\ waiting_writers = 0
  /\ c_read = TRUE /\ c_write = TRUE
  /\ rwMutex = Nobody
  /\ buffer = 0
  /\ pc = [t \in Threads |-> "none"]
  /\ i = [t \in Threads |-> 0]
  /\ reg = [t \in Threads |-> 0]
  /\ main = "create" /\ created = 0

(* Threads run until main returns. *)
At(t, here)   == pc[t] = here /\ main \notin {"returned", "failed"}
Goto(t, here) == pc' = [pc EXCEPT ![t] = here]
Lock(t)       == rwMutex = Nobody /\ rwMutex' = t

(* ---- main ---- *)

CreateThread ==
  /\ main = "create" /\ created < NThreads
  /\ created' = created + 1
  /\ Goto(created + 1, IF created + 1 \in Readers THEN "test" ELSE "lock")
  /\ main' = IF created + 1 = NThreads THEN "wait" ELSE "create"
  /\ UNCHANGED <<counts, events, rwMutex, buffer, i, reg>>

(* main returns EXIT_FAILURE, which ends the threads made before. *)
CreateFails ==
  /\ CreateMayFail /\ main = "create" /\ created < NThreads
  /\ main' = "failed"
  /\ UNCHANGED <<counts, events, rwMutex, buffer, pc, i, reg, created>>

WaitAll ==
  /\ main = "wait" /\ \A t \in Threads : pc[t] = "exited"
  /\ main' = "returned"
  /\ UNCHANGED <<counts, events, rwMutex, buffer, pc, i, reg, created>>

(* ---- reader and start_read ---- *)

(* The head of the loop reads buffer without the mutex. *)
TestBuffer(r) ==
  /\ At(r, "test")
  /\ Goto(r, IF buffer < Total THEN "lock" ELSE "exited")
  /\ UNCHANGED <<counts, events, rwMutex, buffer, i, reg, procs>>

LockRead(r) ==
  /\ At(r, "lock") /\ Lock(r)
  /\ Goto(r, "announce")
  /\ UNCHANGED <<counts, events, buffer, i, reg, procs>>

AnnounceRead(r) ==
  /\ At(r, "announce")
  /\ waiting_readers' = waiting_readers + 1
  /\ Goto(r, "decide")
  /\ UNCHANGED <<nr, wrt, waiting_writers, events, rwMutex, buffer, i, reg, procs>>

(* waiting_writers changes only under the mutex, so the condition reads    *)
(* one variable that others may write: wrt.                                *)
DecideRead(r) ==
  /\ At(r, "decide")
  /\ Goto(r, IF wrt \/ waiting_writers > 0 THEN "wait" ELSE "reset")
  /\ UNCHANGED <<counts, events, rwMutex, buffer, i, reg, procs>>

(* Waiting for an auto-reset event takes its signal away. *)
WaitRead(r) ==
  /\ At(r, "wait") /\ c_read
  /\ c_read' = FALSE
  /\ Goto(r, "reset")
  /\ UNCHANGED <<counts, c_write, rwMutex, buffer, i, reg, procs>>

ResetRead(r) ==
  /\ At(r, "reset")
  /\ c_read' = FALSE
  /\ Goto(r, "leave")
  /\ UNCHANGED <<counts, c_write, rwMutex, buffer, i, reg, procs>>

LeaveRead(r) ==
  /\ At(r, "leave")
  /\ waiting_readers' = waiting_readers - 1
  /\ Goto(r, "count")
  /\ UNCHANGED <<nr, wrt, waiting_writers, events, rwMutex, buffer, i, reg, procs>>

CountRead(r) ==
  /\ At(r, "count")
  /\ nr' = nr + 1
  /\ Goto(r, "signal")
  /\ UNCHANGED <<wrt, waiting_readers, waiting_writers, events, rwMutex, buffer, i, reg, procs>>

(* Faulty: c_read stays reset. *)
SignalRead_Silent(r) ==
  /\ At(r, "signal")
  /\ Goto(r, "unlock")
  /\ UNCHANGED <<counts, events, rwMutex, buffer, i, reg, procs>>

SignalRead(r) ==
  /\ At(r, "signal")
  /\ c_read' = TRUE
  /\ Goto(r, "unlock")
  /\ UNCHANGED <<counts, c_write, rwMutex, buffer, i, reg, procs>>

UnlockRead(r) ==
  /\ At(r, "unlock")
  /\ rwMutex' = Nobody
  /\ Goto(r, "body")
  /\ UNCHANGED <<counts, events, buffer, i, reg, procs>>

(* ---- the printf of reader, then stop_read ---- *)

UncountRead(r) ==
  /\ At(r, "body")
  /\ nr' = nr - 1
  /\ Goto(r, "last")
  /\ UNCHANGED <<wrt, waiting_readers, waiting_writers, events, rwMutex, buffer, i, reg, procs>>

(* Faulty: the last reader does not signal c_write. *)
LastRead_Silent(r) ==
  /\ At(r, "last")
  /\ Goto(r, "test")
  /\ UNCHANGED <<counts, events, rwMutex, buffer, i, reg, procs>>

LastRead(r) ==
  /\ At(r, "last")
  /\ Goto(r, IF nr = 0 THEN "free" ELSE "test")
  /\ UNCHANGED <<counts, events, rwMutex, buffer, i, reg, procs>>

FreeRead(r) ==
  /\ At(r, "free")
  /\ c_write' = TRUE
  /\ Goto(r, "test")
  /\ UNCHANGED <<counts, c_read, rwMutex, buffer, i, reg, procs>>

(* ---- start_write ---- *)

LockWrite(w) ==
  /\ At(w, "lock") /\ Lock(w)
  /\ waiting_writers' = waiting_writers + 1
  /\ Goto(w, "decide")
  /\ UNCHANGED <<nr, wrt, waiting_readers, events, buffer, i, reg, procs>>

(* While w holds the mutex nr only falls and wrt is only cleared, so the   *)
(* two reads of the condition are as good as one.                          *)
DecideWrite(w) ==
  /\ At(w, "decide")
  /\ Goto(w, IF nr > 0 \/ wrt THEN "wait" ELSE "reset")
  /\ UNCHANGED <<counts, events, rwMutex, buffer, i, reg, procs>>

(* A manual-reset event stays signaled. *)
WaitWrite(w) ==
  /\ At(w, "wait") /\ c_write
  /\ Goto(w, "reset")
  /\ UNCHANGED <<counts, events, rwMutex, buffer, i, reg, procs>>

ResetWrite(w) ==
  /\ At(w, "reset")
  /\ c_write' = FALSE
  /\ waiting_writers' = waiting_writers - 1
  /\ Goto(w, "claim")
  /\ UNCHANGED <<nr, wrt, waiting_readers, c_read, rwMutex, buffer, i, reg, procs>>

ClaimWrite(w) ==
  /\ At(w, "claim")
  /\ wrt' = TRUE
  /\ Goto(w, "unlock")
  /\ UNCHANGED <<nr, waiting_readers, waiting_writers, events, rwMutex, buffer, i, reg, procs>>

UnlockWrite(w) ==
  /\ At(w, "unlock")
  /\ rwMutex' = Nobody
  /\ Goto(w, "load")
  /\ UNCHANGED <<counts, events, buffer, i, reg, procs>>

(* ---- ++buffer in writer, then stop_write ---- *)

Load(w) ==
  /\ At(w, "load")
  /\ reg' = [reg EXCEPT ![w] = buffer]
  /\ Goto(w, "store")
  /\ UNCHANGED <<counts, events, rwMutex, buffer, i, procs>>

Store(w) ==
  /\ At(w, "store")
  /\ buffer' = (reg[w] + 1) % ShortModulus
  /\ Goto(w, "clear")
  /\ UNCHANGED <<counts, events, rwMutex, i, reg, procs>>

ClearWrite(w) ==
  /\ At(w, "clear")
  /\ wrt' = FALSE
  /\ Goto(w, "choose")
  /\ UNCHANGED <<nr, waiting_readers, waiting_writers, events, rwMutex, buffer, i, reg, procs>>

(* Faulty: the branches are swapped. *)
ChooseWrite_Crossed(w) ==
  /\ At(w, "choose")
  /\ Goto(w, IF waiting_readers > 0 THEN "wakewriter" ELSE "wakereader")
  /\ UNCHANGED <<counts, events, rwMutex, buffer, i, reg, procs>>

ChooseWrite(w) ==
  /\ At(w, "choose")
  /\ Goto(w, IF waiting_readers > 0 THEN "wakereader" ELSE "wakewriter")
  /\ UNCHANGED <<counts, events, rwMutex, buffer, i, reg, procs>>

(* The chosen SetEvent, then the head of the writer's loop. *)
WakeWrite(w) ==
  /\ At(w, "wakereader") \/ At(w, "wakewriter")
  /\ IF pc[w] = "wakereader" THEN c_read' = TRUE /\ UNCHANGED c_write
                             ELSE c_write' = TRUE /\ UNCHANGED c_read
  /\ i' = [i EXCEPT ![w] = @ + 1]
  /\ Goto(w, IF i[w] + 1 < Iters THEN "lock" ELSE "exited")
  /\ UNCHANGED <<counts, rwMutex, buffer, reg, procs>>

Ended == main \in {"returned", "failed"} /\ UNCHANGED vars

Reader(r) == \/ TestBuffer(r) \/ LockRead(r) \/ AnnounceRead(r) \/ DecideRead(r)
             \/ WaitRead(r) \/ ResetRead(r) \/ LeaveRead(r) \/ CountRead(r)
             \/ SignalRead(r) \/ UnlockRead(r) \/ UncountRead(r) \/ LastRead(r) \/ FreeRead(r)

Writer(w) == \/ LockWrite(w) \/ DecideWrite(w) \/ WaitWrite(w) \/ ResetWrite(w)
             \/ ClaimWrite(w) \/ UnlockWrite(w) \/ Load(w) \/ Store(w)
             \/ ClearWrite(w) \/ ChooseWrite(w) \/ WakeWrite(w)

Next == \/ CreateThread \/ CreateFails \/ WaitAll \/ Ended
        \/ \E r \in Readers : Reader(r)
        \/ \E w \in Writers : Writer(w)

Spec == Init /\ [][Next]_vars

(* Threads that can run do.  The readers take the mutex again and again,   *)
(* and a Windows mutex serves the threads that wait for it in order of     *)
(* arrival, so a writer that waits for it gets it (strong fairness).       *)
Fairness == /\ WF_vars(CreateThread \/ WaitAll)
            /\ \A r \in Readers : WF_vars(Reader(r)) /\ SF_vars(LockRead(r))
            /\ \A w \in Writers : WF_vars(Writer(w)) /\ SF_vars(LockWrite(w))

FairSpec == Spec /\ Fairness
-----------------------------------------------------------------------------
(* ---- properties ---- *)

(* c_read is signaled whenever a reader waits for it: a reader never       *)
(* sleeps on a writer, whatever wrt says.                                  *)
ReadersNeverSleep == \A r \in Readers : pc[r] = "wait" => c_read

(* A writer that sleeps while it keeps the mutex is woken by somebody who  *)
(* needs no mutex: a reader or a writer that is on its way to SetEvent.    *)
SleepingWriterHasAWaker ==
  \A w \in Writers : pc[w] = "wait" /\ ~c_write =>
    \/ \E r \in Readers : pc[r] \in {"body", "last", "free"}
    \/ \E v \in Writers : pc[v] \in {"load", "store", "clear", "choose", "wakewriter"}

(* Unless a CreateThread fails, all writers finish: none of them sleeps    *)
(* for ever with the mutex in its hands, and none is kept from it.  Then   *)
(* the readers stop, too, and main returns, but for one case: two writers  *)
(* can be inside together, and one is about to overwrite what the other    *)
(* has stored.                                                             *)
Finish ==
  /\ <>(main = "failed" \/ \A w \in Writers : pc[w] = "exited")
  /\ <>(main \in {"failed", "returned"} \/ \E w \in Writers : pc[w] = "store" /\ reg[w] # buffer)
=============================================================================
