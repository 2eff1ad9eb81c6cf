-------------------------- MODULE ProducerConsumer --------------------------
(***************************************************************************)
(* 5-semestr/lab5/task1.c: a parent forks consumers and producers that     *)
(* pass letters through a shared memory segment guarded by a set of three  *)
(* System V semaphores, waits for all of them and detaches the segment.    *)
(*                                                                         *)
(* Processes are numbered in the order main forks them, consumers first.   *)
(* Every access a process makes to the shared segment between two semop    *)
(* calls is a step of its own, and an increment is a load and a store.      *)
(***************************************************************************)
EXTENDS SysVSem, FiniteSets

CONSTANTS
  NConsumers,   \* calls of make_consumer in main (2 in the code)
  NProducers,   \* calls of make_producer in main (3 in the code)
  Count,        \* Count[k]: the COUNT argument of the k-th child forked
  N,            \* slots of shm_buffer (9 in the code)
  MaxKills,     \* bound: children that die of a signal or of a failing semop
  ForkMayFail   \* whether fork() may return -1

NProcs    == NConsumers + NProducers
Procs     == 1..NProcs
Consumers == 1..NConsumers
Producers == (NConsumers + 1)..NProcs

(* The items that will ever be produced: the k-th one of producer p. *)
Items == UNION {{p} \X (1..Count[p]) : p \in Producers}

(* The positions in the buffer only grow, so the sizes written in main must *)
(* fit: 3 + 3 + 3 = N in the code.                                          *)
ASSUME ConstAssumption ==
  /\ NConsumers \in Nat
  /\ NProducers \in Nat
  /\ N \in Nat
  /\ Count \in [Procs -> Nat \ {0}]
  /\ IsFiniteSet(Items) /\ Cardinality(Items) <= N
  /\ MaxKills \in Nat
  /\ ForkMayFail \in BOOLEAN

SEM_BINARY == 0
SEM_EMPTY  == 1
SEM_FULL   == 2
P == -1
V == 1

(* Faulty variants of the four arrays: the producer does not take the      *)
(* section, does not post its letter; the consumer does not claim a        *)
(* letter, gives back the wrong semaphore.                                 *)
producer_start_Unlocked == << sembuf(SEM_EMPTY, P) >>
producer_stop_Silent    == << sembuf(SEM_BINARY, V) >>
consumer_start_Unasked  == << sembuf(SEM_BINARY, P) >>
consumer_stop_Swapped   == << sembuf(SEM_BINARY, V), sembuf(SEM_FULL, V) >>

producer_start == << sembuf(SEM_EMPTY, P),  sembuf(SEM_BINARY, P) >>
producer_stop  == << sembuf(SEM_BINARY, V), sembuf(SEM_FULL, V) >>
consumer_start == << sembuf(SEM_FULL, P),   sembuf(SEM_BINARY, P) >>
consumer_stop  == << sembuf(SEM_BINARY, V), sembuf(SEM_EMPTY, V) >>

VARIABLES
  sem,               \* the semaphore set
  shm_buffer,        \* the slots of the segment, 0 where nothing was written
  shm_pos_producer,  \* next slot to write
  shm_pos_consumer,  \* next slot to read
  output,            \* each child's private copy of the global letter
  pc,                \* where each child stands
  i,                 \* each child's loop counter
  reg,               \* the register of each child's increment
  printed,           \* the letters the consumers printed, in order
  main,              \* where the parent stands
  forked,            \* how many children the parent has forked
  reaped,            \* children the parent's wait has returned
  killed             \* children that died before their exit

vars == <<sem, shm_buffer, shm_pos_producer, shm_pos_consumer, output, pc, i,
          reg, printed, main, forked, reaped, killed>>

shared == <<shm_buffer, shm_pos_producer, shm_pos_consumer>>
parent == <<main, forked, reaped>>

Init ==
  /\ sem = [s \in {SEM_BINARY, SEM_EMPTY, SEM_FULL} |->
              CASE s = SEM_BINARY -> 1 [] s = SEM_EMPTY -> N [] s = SEM_FULL -> 0]
  /\ shm_buffer = [slot \in 0..N-1 |-> 0]
  /\ shm_pos_producer = 0 /\ shm_pos_consumer = 0
  /\ output = [p \in Procs |-> 97]
  /\ pc = [p \in Procs |-> "none"]
  /\ i = [p \in Procs |-> 0]
  /\ reg = [p \in Procs |-> 0]
  /\ printed = <<>>
  /\ main = "fork" /\ forked = 0 /\ reaped = {} /\ killed = {}

Alive(p) == pc[p] \notin {"none", "exited"} /\ p \notin killed

Goto(p, here) == pc' = [pc EXCEPT ![p] = here]

(* ---- main: the two loops of fork, the loop of wait, the exit ---- *)

(* make_consumer, make_producer: the child starts with the global output   *)
(* its parent never changed (the output main increments is a local).       *)
MakeChild ==
  /\ main = "fork" /\ forked < NProcs
  /\ forked' = forked + 1
  /\ Goto(forked + 1, "start")
  /\ main' = IF forked + 1 = NProcs THEN "wait" ELSE "fork"
  /\ UNCHANGED <<sem, shared, output, i, reg, printed, reaped, killed>>

(* fork() = -1: the parent exits, the children forked before it stay. *)
ForkFails ==
  /\ ForkMayFail /\ main = "fork" /\ forked < NProcs
  /\ main' = "failed"
  /\ UNCHANGED <<sem, shared, output, pc, i, reg, printed, forked, reaped, killed>>

(* wait(&status) returns any child that ended. *)
Wait ==
  /\ main = "wait" /\ reaped # Procs
  /\ \E p \in Procs \ reaped :
       /\ pc[p] = "exited" \/ p \in killed
       /\ reaped' = reaped \cup {p}
  /\ UNCHANGED <<sem, shared, output, pc, i, reg, printed, main, forked, killed>>

MainExit ==
  /\ main = "wait" /\ reaped = Procs
  /\ main' = "exited"
  /\ UNCHANGED <<sem, shared, output, pc, i, reg, printed, forked, reaped, killed>>

(* ---- what producer and consumer share: their semop calls ---- *)

(* The call at the top: the child sleeps in it until every operation of    *)
(* the array can be performed.                                             *)
Start(p, sops) ==
  /\ Alive(p) /\ pc[p] = "start"
  /\ LET r == semop(sem, sops) IN r.ok /\ sem' = r.val
  /\ Goto(p, "access")
  /\ UNCHANGED <<shared, output, i, reg, printed, parent, killed>>

(* The call at the bottom, then the head of the loop in make_producer or   *)
(* make_consumer: another round, or exit(EXIT_SUCCESS).                    *)
Stop(p, sops) ==
  /\ Alive(p) /\ pc[p] = "stop"
  /\ LET r == semop(sem, sops) IN r.ok /\ sem' = r.val
  /\ i' = [i EXCEPT ![p] = @ + 1]
  /\ Goto(p, IF i[p] + 1 < Count[p] THEN "start" ELSE "exited")
  /\ UNCHANGED <<shared, output, reg, printed, parent, killed>>

(* ---- producer ---- *)

ProducerStart(p) == Start(p, producer_start)

Produce(p) ==
  /\ Alive(p) /\ pc[p] = "access"
  /\ shm_buffer' = [shm_buffer EXCEPT ![shm_pos_producer] = output[p]]
  /\ output' = [output EXCEPT ![p] = @ + 1]
  /\ Goto(p, "load")
  /\ UNCHANGED <<sem, shm_pos_producer, shm_pos_consumer, i, reg, printed, parent, killed>>

ProducerLoad(p) ==
  /\ Alive(p) /\ pc[p] = "load"
  /\ reg' = [reg EXCEPT ![p] = shm_pos_producer]
  /\ Goto(p, "store")
  /\ UNCHANGED <<sem, shared, output, i, printed, parent, killed>>

ProducerStore(p) ==
  /\ Alive(p) /\ pc[p] = "store"
  /\ shm_pos_producer' = reg[p] + 1
  /\ Goto(p, "stop")
  /\ UNCHANGED <<sem, shm_buffer, shm_pos_consumer, output, i, reg, printed, parent, killed>>

ProducerStop(p) == Stop(p, producer_stop)

(* ---- consumer ---- *)

ConsumerStart(c) == Start(c, consumer_start)

Consume(c) ==
  /\ Alive(c) /\ pc[c] = "access"
  /\ printed' = Append(printed, shm_buffer[shm_pos_consumer])
  /\ Goto(c, "load")
  /\ UNCHANGED <<sem, shared, output, i, reg, parent, killed>>

ConsumerLoad(c) ==
  /\ Alive(c) /\ pc[c] = "load"
  /\ reg' = [reg EXCEPT ![c] = shm_pos_consumer]
  /\ Goto(c, "store")
  /\ UNCHANGED <<sem, shared, output, i, printed, parent, killed>>

ConsumerStore(c) ==
  /\ Alive(c) /\ pc[c] = "store"
  /\ shm_pos_consumer' = reg[c] + 1
  /\ Goto(c, "stop")
  /\ UNCHANGED <<sem, shm_buffer, shm_pos_producer, output, i, reg, printed, parent, killed>>

ConsumerStop(c) == Stop(c, consumer_stop)

(* ---- the rest ---- *)

(* Faulty: SEM_UNDO on SEM_BINARY alone frees the section. *)
Die_Undo(p) ==
  /\ Alive(p) /\ Cardinality(killed) < MaxKills
  /\ killed' = killed \cup {p}
  /\ sem' = [sem EXCEPT ![SEM_BINARY] = 1]
  /\ UNCHANGED <<shared, output, pc, i, reg, printed, parent>>

(* A child dies between two steps: killed by a signal, or through the      *)
(* exit(EXIT_FAILURE) after a failing semop.  sem_flg is 0, so the kernel  *)
(* undoes none of its operations; where it died stays in pc.               *)
Die(p) ==
  /\ Alive(p) /\ Cardinality(killed) < MaxKills
  /\ killed' = killed \cup {p}
  /\ UNCHANGED <<sem, shared, output, pc, i, reg, printed, parent>>

(* Nothing is left to do. *)
Finished ==
  /\ main \in {"exited", "failed"} /\ \A p \in Procs : ~Alive(p)
  /\ UNCHANGED vars

Producer(p) == \/ ProducerStart(p) \/ Produce(p) \/ ProducerLoad(p)
               \/ ProducerStore(p) \/ ProducerStop(p)

Consumer(c) == \/ ConsumerStart(c) \/ Consume(c) \/ ConsumerLoad(c)
               \/ ConsumerStore(c) \/ ConsumerStop(c)

Main == MakeChild \/ ForkFails \/ Wait \/ MainExit

Next == \/ Main
        \/ \E p \in Producers : Producer(p)
        \/ \E c \in Consumers : Consumer(c)
        \/ \E p \in Procs : Die(p)
        \/ Finished

Spec == Init /\ [][Next]_vars

(* The scheduler runs every process that can run; a sleeping semop call    *)
(* need not win against the others each time (weak fairness).              *)
Fairness == /\ WF_vars(MakeChild \/ Wait \/ MainExit)
            /\ \A p \in Producers : WF_vars(Producer(p))
            /\ \A c \in Consumers : WF_vars(Consumer(c))

FairSpec == Spec /\ Fairness

-----------------------------------------------------------------------------
(* ---- properties ---- *)

(* The children between the return of their first semop and that of their  *)
(* second, the dead ones included.                                         *)
Section == {"access", "load", "store", "stop"}
Inside  == {p \in Procs : pc[p] \in Section}

(* Type correctness: positions and semaphores stay within the segment.     *)
TypeOK ==
  /\ sem \in [{SEM_BINARY, SEM_EMPTY, SEM_FULL} -> Nat]
  /\ shm_buffer \in [0..N-1 -> Nat]
  /\ shm_pos_producer \in 0..N /\ shm_pos_consumer \in 0..N
  /\ output \in [Procs -> Nat]
  /\ pc \in [Procs -> {"none", "start", "exited"} \cup Section]
  /\ i \in [Procs -> Nat]
  /\ reg \in [Procs -> 0..N]
  /\ printed \in Seq(Nat)
  /\ main \in {"fork", "failed", "wait", "exited"}
  /\ forked \in 0..NProcs
  /\ reaped \subseteq Procs /\ killed \subseteq Procs

(* At most one child is between its two semop calls, a producer or a       *)
(* consumer, also when a child died there.                                 *)
MutualExclusion == \A p, q \in Inside : p = q

(* The semaphores count what they stand for, at every step of the section: *)
(* BINARY whether it is free, FULL the letters no consumer has claimed,    *)
(* EMPTY the letters that may still be produced without a consumer.        *)
Claimed(S)  == IF \E p \in S : pc[p] \in {"access", "load", "store"} THEN 1 ELSE 0
Unposted(S) == IF \E p \in S : pc[p] = "stop" THEN 1 ELSE 0

SemAccounting ==
  /\ sem[SEM_BINARY] = IF Inside = {} THEN 1 ELSE 0
  /\ sem[SEM_FULL]   = shm_pos_producer - Unposted(Producers)
                         - shm_pos_consumer - Claimed(Consumers)
  /\ sem[SEM_EMPTY]  = N - shm_pos_producer - Claimed(Producers)
                         + shm_pos_consumer - Unposted(Consumers)

(* A producer never writes past the buffer, whose positions never wrap,    *)
(* and a consumer never reads a slot that no producer has finished.        *)
AccessInBounds ==
  /\ \A p \in Producers : pc[p] = "access" => shm_pos_producer < N
  /\ \A c \in Consumers : pc[c] = "access" => shm_pos_consumer < shm_pos_producer

(* The store of an increment writes back what it loaded plus one over an   *)
(* unchanged position: no increment of the two shared positions is lost.   *)
NoLostIncrement ==
  \A p \in Procs : pc[p] = "store" =>
     reg[p] = IF p \in Producers THEN shm_pos_producer ELSE shm_pos_consumer

(* Letters travel first in first out, none lost or repeated: the segment   *)
(* implements the abstract queue, a step of it being the store of one of   *)
(* the two positions.                                                      *)
Queue == [k \in 1..(shm_pos_producer - shm_pos_consumer) |->
            shm_buffer[shm_pos_consumer + k - 1]]
Fifo == INSTANCE BoundedFifo
          WITH Values   <- 97..(96 + N),
               Capacity <- N,
               queue    <- Queue,
               out      <- SubSeq(printed, 1, shm_pos_consumer)
ImplementsFifo == Fifo!Spec

(* Once a child has died inside, sem_flg = 0 leaves SEM_BINARY taken: no   *)
(* child ever enters again.                                                *)
NoEntryAfterDeathInside ==
  [][killed \cap Inside # {} => Inside' \subseteq Inside]_vars

(* With equal totals on both sides everyone ends unless a child dies or a  *)
(* fork fails: no wait of the five loops is for ever, and the parent exits. *)
Termination == <>(main \in {"exited", "failed"} \/ killed # {})
=============================================================================
