------------------------- MODULE HoareMonitorProofs -------------------------
(***************************************************************************)
(* Proofs about HoareMonitor for every number of readers, writers and      *)
(* rounds, whichever CreateThread calls fail.                              *)
(***************************************************************************)
EXTENDS HoareMonitor, FiniteSetTheorems, TLAPS

ReaderPlaces == {"none", "test", "lock", "announce", "decide", "wait", "reset", "leave",
                 "count", "signal", "unlock", "body", "last", "free", "exited"}
WriterPlaces == {"none", "lock", "decide", "wait", "reset", "claim", "unlock", "load",
                 "store", "clear", "choose", "wakereader", "wakewriter", "exited"}
PlacesOf(t)  == IF t \in Readers THEN ReaderPlaces ELSE WriterPlaces

(* Where a thread owns rwMutex; where a reader is in waiting_readers, in   *)
(* nr, or has taken c_read away; where a writer is in waiting_writers or   *)
(* may be the one that set wrt; who is on the way to SetEvent(c_write).    *)
Held      == {"announce", "decide", "wait", "reset", "leave", "count", "signal", "claim", "unlock"}
Announced == {"decide", "wait", "reset", "leave"}
Counted   == {"signal", "unlock", "body"}
Taken     == {"reset", "leave", "count", "signal"}
Pending   == {"decide", "wait", "reset"}
Claiming  == {"unlock", "load", "store", "clear"}
WakingR   == {"body", "last", "free"}
WakingW   == {"load", "store", "clear", "choose", "wakewriter"}

(* The threads of S that stand at one of the places. *)
Standing(S, places) == {t \in S : pc[t] \in places}

TypeOK ==
  /\ nr \in Int /\ waiting_readers \in Int /\ waiting_writers \in Int
  /\ wrt \in BOOLEAN /\ c_read \in BOOLEAN /\ c_write \in BOOLEAN
  /\ rwMutex \in Threads \cup {Nobody}
  /\ buffer \in Nat
  /\ pc \in [Threads -> ReaderPlaces \cup WriterPlaces]
  /\ \A t \in Threads : pc[t] \in PlacesOf(t)
  /\ i \in [Threads -> Nat] /\ reg \in [Threads -> Nat]
  /\ created \in 0..NThreads

(* Threads not created yet stand nowhere. *)
NotCreated == \A t \in Threads : t > created => pc[t] = "none"

(* The mutex has the owner that the code of the threads says. *)
MutexOwner == \A t \in Threads : rwMutex = t <=> pc[t] \in Held

(* nr counts the readers between ++nr and --nr, each of which is in there  *)
(* whatever the writers do.                                                *)
ReadersCounted == nr = Cardinality(Standing(Readers, Counted))

(* The two counts of waiting threads, raised and lowered under the mutex,  *)
(* are 1 at most: only its owner can be in them.                           *)
WaitingCounted ==
  /\ waiting_readers = IF Standing(Readers, Announced) # {} THEN 1 ELSE 0
  /\ waiting_writers = IF Standing(Writers, Pending) # {} THEN 1 ELSE 0

(* wrt stays set only while a writer that will clear it is on its way.     *)
ClaimHasWriter == wrt => Standing(Writers, Claiming) # {}

(* c_read is down only inside the start_read that took it down.            *)
SignalTaken == ~c_read => Standing(Readers, Taken) # {}

Inv == /\ TypeOK
       /\ NotCreated
       /\ MutexOwner
       /\ ReadersCounted
       /\ WaitingCounted
       /\ ClaimHasWriter
       /\ SignalTaken
       /\ SleepingWriterHasAWaker

(* ---- constants ---- *)

LEMMA ThreadsFacts ==
  /\ NThreads \in Nat
  /\ Writers \subseteq Threads /\ Readers \subseteq Threads
  /\ Writers \cap Readers = {} /\ Writers \cup Readers = Threads
  /\ Threads \subseteq Nat /\ Nobody \notin Threads
  /\ \A k \in Nat : k < NThreads => k + 1 \in Threads
PROOF BY ConstAssumption DEF NThreads, Threads, Writers, Readers, Nobody

LEMMA ReadersFinite ==
  \A places : IsFiniteSet(Standing(Readers, places))
PROOF
<1>1. 1 \in Int /\ NReaders \in Int
  BY ConstAssumption
<1>2. IsFiniteSet(Readers)
  BY <1>1, FS_Interval DEF Readers
<1>3. \A places : Standing(Readers, places) \subseteq Readers
  BY DEF Standing
<1> QED
  BY <1>2, <1>3, FS_Subset

(* ---- a thread moves ---- *)

(* Only t moves, and it moves to a place of its own code. *)
LEMMA Moves ==
  ASSUME TypeOK, NotCreated, NEW t \in Threads, pc[t] # "none", created' = created,
         NEW here \in PlacesOf(t), Goto(t, here)
  PROVE  /\ pc' \in [Threads -> ReaderPlaces \cup WriterPlaces]
         /\ \A u \in Threads : pc'[u] \in PlacesOf(u)
         /\ NotCreated'
         /\ pc'[t] = here /\ \A u \in Threads : u # t => pc'[u] = pc[u]
PROOF
<1>1. pc' = [pc EXCEPT ![t] = here] /\ here \in ReaderPlaces \cup WriterPlaces
  BY DEF Goto, PlacesOf
<1>2. pc'[t] = here /\ \A u \in Threads : u # t => pc'[u] = pc[u]
  BY <1>1 DEF TypeOK
<1>3. pc' \in [Threads -> ReaderPlaces \cup WriterPlaces]
  BY <1>1 DEF TypeOK
<1>4. \A u \in Threads : pc'[u] \in PlacesOf(u)
  BY <1>2 DEF TypeOK, PlacesOf
<1>5. NotCreated'
  BY <1>2 DEF NotCreated
<1> QED
  BY <1>2, <1>3, <1>4, <1>5

(* How a move changes who stands where. *)
LEMMA StandingMoves ==
  ASSUME TypeOK, NEW t \in Threads, NEW here, Goto(t, here),
         NEW S \in SUBSET Threads, NEW places
  PROVE  Standing(S, places)' = IF t \in S /\ here \in places
                                THEN Standing(S, places) \cup {t}
                                ELSE Standing(S, places) \ {t}
PROOF
<1>1. pc'[t] = here /\ \A u \in Threads : u # t => pc'[u] = pc[u]
  BY DEF TypeOK, Goto
<1>2. \A u \in S : u \in Standing(S, places)' <=>
                     IF u = t THEN here \in places ELSE u \in Standing(S, places)
  BY <1>1 DEF Standing
<1>3. Standing(S, places)' \subseteq S /\ Standing(S, places) \subseteq S
  BY DEF Standing
<1> QED
  BY <1>2, <1>3

(* The mutex is kept, taken or given back as the move says. *)
LEMMA OwnerMoves ==
  ASSUME TypeOK, MutexOwner, NEW t \in Threads, NEW here, Goto(t, here),
         \/ rwMutex' = rwMutex /\ (pc[t] \in Held <=> here \in Held)
         \/ Lock(t) /\ here \in Held
         \/ rwMutex' = Nobody /\ pc[t] \in Held /\ here \notin Held
  PROVE  MutexOwner'
PROOF
<1>1. pc'[t] = here /\ \A u \in Threads : u # t => pc'[u] = pc[u]
  BY DEF TypeOK, Goto
<1> QED
  BY <1>1, ThreadsFacts DEF MutexOwner, Lock

(* The other threads of the owner, or of one that takes the mutex, are out *)
(* of its places.                                                          *)
LEMMA OwnerAlone ==
  ASSUME MutexOwner, NEW t \in Threads, pc[t] \in Held \/ rwMutex = Nobody
  PROVE  \A u \in Threads : u # t => pc[u] \notin Held
PROOF BY ThreadsFacts DEF MutexOwner

(* nr counts on. *)
LEMMA CountMoves ==
  ASSUME TypeOK, ReadersCounted, NEW t \in Threads, NEW here, Goto(t, here),
         \/ nr' = nr /\ (t \in Readers => (pc[t] \in Counted <=> here \in Counted))
         \/ nr' = nr + 1 /\ t \in Readers /\ pc[t] \notin Counted /\ here \in Counted
         \/ nr' = nr - 1 /\ t \in Readers /\ pc[t] \in Counted /\ here \notin Counted
  PROVE  ReadersCounted'
PROOF
<1> DEFINE S == Standing(Readers, Counted)
<1>1. S' = IF t \in Readers /\ here \in Counted THEN S \cup {t} ELSE S \ {t}
  BY ThreadsFacts, StandingMoves
<1>2. t \in S <=> t \in Readers /\ pc[t] \in Counted
  BY DEF Standing
<1>3. IsFiniteSet(S) /\ Cardinality(S) \in Nat /\ nr = Cardinality(S)
  BY ReadersFinite, FS_CardinalityType DEF ReadersCounted
<1> HIDE DEF S
<1>4. CASE nr' = nr /\ (t \in Readers => (pc[t] \in Counted <=> here \in Counted))
  <2>1. S' = S
    BY <1>1, <1>2, <1>4
  <2> QED BY <1>3, <1>4, <2>1 DEF ReadersCounted, S
<1>5. CASE nr' = nr + 1 /\ t \in Readers /\ pc[t] \notin Counted /\ here \in Counted
  <2>1. S' = S \cup {t} /\ t \notin S
    BY <1>1, <1>2, <1>5
  <2>2. Cardinality(S') = Cardinality(S) + 1
    BY <1>3, <2>1, FS_AddElement
  <2> QED BY <1>3, <1>5, <2>2 DEF ReadersCounted, S
<1>6. CASE nr' = nr - 1 /\ t \in Readers /\ pc[t] \in Counted /\ here \notin Counted
  <2>1. S' = S \ {t} /\ t \in S
    BY <1>1, <1>2, <1>6
  <2>2. Cardinality(S') = Cardinality(S) - 1
    BY <1>3, <2>1, FS_RemoveElement
  <2> QED BY <1>3, <1>6, <2>2 DEF ReadersCounted, S
<1> QED
  BY <1>4, <1>5, <1>6

(* waiting_readers counts on: its only reader is the owner of the mutex. *)
LEMMA AnnounceMoves ==
  ASSUME TypeOK, MutexOwner, WaitingCounted, NEW t \in Threads, NEW here, Goto(t, here),
         \/ /\ waiting_readers' = waiting_readers
            /\ t \in Readers => (pc[t] \in Announced <=> here \in Announced)
         \/ /\ waiting_readers' = waiting_readers + 1 /\ t \in Readers
            /\ pc[t] \in Held /\ pc[t] \notin Announced /\ here \in Announced
         \/ /\ waiting_readers' = waiting_readers - 1 /\ t \in Readers
            /\ pc[t] \in Announced /\ here \notin Announced
  PROVE  waiting_readers' = IF Standing(Readers, Announced)' # {} THEN 1 ELSE 0
PROOF
<1> DEFINE S == Standing(Readers, Announced)
<1>1. S' = IF t \in Readers /\ here \in Announced THEN S \cup {t} ELSE S \ {t}
  BY ThreadsFacts, StandingMoves
<1>2. t \in S <=> t \in Readers /\ pc[t] \in Announced
  BY DEF Standing
<1>3. pc[t] \in Held => S \subseteq {t}
  BY OwnerAlone, ThreadsFacts DEF Standing, Announced, Held
<1>4. pc[t] \in Announced => pc[t] \in Held
  BY DEF Announced, Held
<1>5. waiting_readers = IF S # {} THEN 1 ELSE 0
  BY DEF WaitingCounted
<1> HIDE DEF S
<1>6. waiting_readers' = IF S' # {} THEN 1 ELSE 0
  <2>1. CASE waiting_readers' = waiting_readers
             /\ (t \in Readers => (pc[t] \in Announced <=> here \in Announced))
    <3>1. S' = S
      BY <1>1, <1>2, <2>1
    <3> QED BY <1>5, <2>1, <3>1
  <2>2. CASE waiting_readers' = waiting_readers + 1 /\ t \in Readers
             /\ pc[t] \in Held /\ pc[t] \notin Announced /\ here \in Announced
    <3>1. S = {} /\ S' # {}
      BY <1>1, <1>2, <1>3, <2>2
    <3> QED BY <1>5, <2>2, <3>1
  <2>3. CASE waiting_readers' = waiting_readers - 1 /\ t \in Readers
             /\ pc[t] \in Announced /\ here \notin Announced
    <3>1. S # {} /\ S' = {}
      BY <1>1, <1>2, <1>3, <1>4, <2>3
    <3> QED BY <1>5, <2>3, <3>1
  <2> QED BY <2>1, <2>2, <2>3
<1> QED
  BY <1>6 DEF S

(* waiting_writers likewise. *)
LEMMA PendingMoves ==
  ASSUME TypeOK, MutexOwner, WaitingCounted, NEW t \in Threads, NEW here, Goto(t, here),
         \/ /\ waiting_writers' = waiting_writers
            /\ t \in Writers => (pc[t] \in Pending <=> here \in Pending)
         \/ /\ waiting_writers' = waiting_writers + 1 /\ t \in Writers
            /\ rwMutex = Nobody /\ here \in Pending
         \/ /\ waiting_writers' = waiting_writers - 1 /\ t \in Writers
            /\ pc[t] \in Pending /\ here \notin Pending
  PROVE  waiting_writers' = IF Standing(Writers, Pending)' # {} THEN 1 ELSE 0
PROOF
<1> DEFINE S == Standing(Writers, Pending)
<1>1. S' = IF t \in Writers /\ here \in Pending THEN S \cup {t} ELSE S \ {t}
  BY ThreadsFacts, StandingMoves
<1>2. t \in S <=> t \in Writers /\ pc[t] \in Pending
  BY DEF Standing
<1>3. pc[t] \in Held => S \subseteq {t}
  BY OwnerAlone, ThreadsFacts DEF Standing, Pending, Held
<1>4. pc[t] \in Pending => pc[t] \in Held
  BY DEF Pending, Held
<1>5. rwMutex = Nobody => S = {}
  BY ThreadsFacts DEF MutexOwner, Standing, Pending, Held
<1>6. waiting_writers = IF S # {} THEN 1 ELSE 0
  BY DEF WaitingCounted
<1> HIDE DEF S
<1>7. waiting_writers' = IF S' # {} THEN 1 ELSE 0
  <2>1. CASE waiting_writers' = waiting_writers
             /\ (t \in Writers => (pc[t] \in Pending <=> here \in Pending))
    <3>1. S' = S
      BY <1>1, <1>2, <2>1
    <3> QED BY <1>6, <2>1, <3>1
  <2>2. CASE waiting_writers' = waiting_writers + 1 /\ t \in Writers
             /\ rwMutex = Nobody /\ here \in Pending
    <3>1. S = {} /\ S' # {}
      BY <1>1, <1>5, <2>2
    <3> QED BY <1>6, <2>2, <3>1
  <2>3. CASE waiting_writers' = waiting_writers - 1 /\ t \in Writers
             /\ pc[t] \in Pending /\ here \notin Pending
    <3>1. S # {} /\ S' = {}
      BY <1>1, <1>2, <1>3, <1>4, <2>3
    <3> QED BY <1>6, <2>3, <3>1
  <2> QED BY <2>1, <2>2, <2>3
<1> QED
  BY <1>7 DEF S

(* A writer that set wrt stays on its way, or clears it. *)
LEMMA ClaimMoves ==
  ASSUME TypeOK, ClaimHasWriter, NEW t \in Threads, NEW here, Goto(t, here),
         \/ wrt' = wrt /\ (t \in Writers /\ pc[t] \in Claiming => here \in Claiming)
         \/ wrt' = FALSE
         \/ t \in Writers /\ here \in Claiming
  PROVE  ClaimHasWriter'
PROOF
<1>1. Standing(Writers, Claiming)' = IF t \in Writers /\ here \in Claiming
                                     THEN Standing(Writers, Claiming) \cup {t}
                                     ELSE Standing(Writers, Claiming) \ {t}
  BY ThreadsFacts, StandingMoves
<1>2. t \in Standing(Writers, Claiming) <=> t \in Writers /\ pc[t] \in Claiming
  BY DEF Standing
<1> QED
  BY <1>1, <1>2 DEF ClaimHasWriter

(* A reader that took c_read down stays inside start_read until it sets it. *)
LEMMA TakenMoves ==
  ASSUME TypeOK, SignalTaken, NEW t \in Threads, NEW here, Goto(t, here),
         \/ c_read' = c_read /\ (t \in Readers /\ pc[t] \in Taken => here \in Taken)
         \/ c_read' = TRUE
         \/ t \in Readers /\ here \in Taken
  PROVE  SignalTaken'
PROOF
<1>1. Standing(Readers, Taken)' = IF t \in Readers /\ here \in Taken
                                  THEN Standing(Readers, Taken) \cup {t}
                                  ELSE Standing(Readers, Taken) \ {t}
  BY ThreadsFacts, StandingMoves
<1>2. t \in Standing(Readers, Taken) <=> t \in Readers /\ pc[t] \in Taken
  BY DEF Standing
<1> QED
  BY <1>1, <1>2 DEF SignalTaken

(* A move that puts no writer to sleep and takes no waker away. *)
LEMMA SleepMoves ==
  ASSUME TypeOK, SleepingWriterHasAWaker, NEW t \in Threads, NEW here, Goto(t, here),
         \/ c_write' = TRUE
         \/ /\ c_write' = c_write
            /\ t \in Writers => here # "wait" /\ (pc[t] \in WakingW => here \in WakingW)
            /\ t \in Readers => (pc[t] \in WakingR => here \in WakingR)
  PROVE  SleepingWriterHasAWaker'
PROOF
<1>1. pc'[t] = here /\ \A u \in Threads : u # t => pc'[u] = pc[u]
  BY DEF TypeOK, Goto
<1>2. CASE c_write' = TRUE
  BY <1>2 DEF SleepingWriterHasAWaker
<1>3. CASE /\ c_write' = c_write
           /\ t \in Writers => here # "wait" /\ (pc[t] \in WakingW => here \in WakingW)
           /\ t \in Readers => (pc[t] \in WakingR => here \in WakingR)
  <2> SUFFICES ASSUME NEW w \in Writers, pc'[w] = "wait", ~c_write
               PROVE  \/ \E r \in Readers : pc'[r] \in WakingR
                      \/ \E v \in Writers : pc'[v] \in WakingW
    BY <1>3 DEF SleepingWriterHasAWaker, WakingR, WakingW
  <2>1. pc[w] = "wait"
    BY <1>1, <1>3, ThreadsFacts
  <2>2. \/ \E r \in Readers : pc[r] \in WakingR
        \/ \E v \in Writers : pc[v] \in WakingW
    BY <2>1 DEF SleepingWriterHasAWaker, WakingR, WakingW
  <2>3. CASE \E r \in Readers : pc[r] \in WakingR
    BY <1>1, <1>3, <2>3, ThreadsFacts
  <2>4. CASE \E v \in Writers : pc[v] \in WakingW
    BY <1>1, <1>3, <2>4, ThreadsFacts
  <2> QED BY <2>2, <2>3, <2>4
<1> QED
  BY <1>2, <1>3

(* A move of one thread keeps the invariant when the mutex, the three      *)
(* counts, wrt and c_read change as the move says, and a sleeping writer   *)
(* is left with a waker.                                                   *)
LEMMA ThreadStep ==
  ASSUME Inv, NEW t \in Threads, NEW here \in PlacesOf(t), Goto(t, here),
         pc[t] # "none", created' = created,
         \/ rwMutex' = rwMutex /\ (pc[t] \in Held <=> here \in Held)
         \/ Lock(t) /\ here \in Held
         \/ rwMutex' = Nobody /\ pc[t] \in Held /\ here \notin Held,
         \/ nr' = nr /\ (t \in Readers => (pc[t] \in Counted <=> here \in Counted))
         \/ nr' = nr + 1 /\ t \in Readers /\ pc[t] \notin Counted /\ here \in Counted
         \/ nr' = nr - 1 /\ t \in Readers /\ pc[t] \in Counted /\ here \notin Counted,
         \/ /\ waiting_readers' = waiting_readers
            /\ t \in Readers => (pc[t] \in Announced <=> here \in Announced)
         \/ /\ waiting_readers' = waiting_readers + 1 /\ t \in Readers
            /\ pc[t] \in Held /\ pc[t] \notin Announced /\ here \in Announced
         \/ /\ waiting_readers' = waiting_readers - 1 /\ t \in Readers
            /\ pc[t] \in Announced /\ here \notin Announced,
         \/ /\ waiting_writers' = waiting_writers
            /\ t \in Writers => (pc[t] \in Pending <=> here \in Pending)
         \/ /\ waiting_writers' = waiting_writers + 1 /\ t \in Writers
            /\ rwMutex = Nobody /\ here \in Pending
         \/ /\ waiting_writers' = waiting_writers - 1 /\ t \in Writers
            /\ pc[t] \in Pending /\ here \notin Pending,
         \/ wrt' = wrt /\ (t \in Writers /\ pc[t] \in Claiming => here \in Claiming)
         \/ wrt' = FALSE
         \/ wrt' = TRUE /\ t \in Writers /\ here \in Claiming,
         \/ c_read' = c_read /\ (t \in Readers /\ pc[t] \in Taken => here \in Taken)
         \/ c_read' = TRUE
         \/ c_read' = FALSE /\ t \in Readers /\ here \in Taken,
         c_write' \in BOOLEAN, buffer' \in Nat,
         i' \in [Threads -> Nat], reg' \in [Threads -> Nat],
         SleepingWriterHasAWaker'
  PROVE  Inv'
PROOF
<1>1. /\ TypeOK /\ NotCreated /\ MutexOwner /\ ReadersCounted /\ WaitingCounted
      /\ ClaimHasWriter /\ SignalTaken
  BY DEF Inv
<1>2. /\ pc' \in [Threads -> ReaderPlaces \cup WriterPlaces]
      /\ \A u \in Threads : pc'[u] \in PlacesOf(u)
      /\ NotCreated'
  BY <1>1, Moves
<1>3. nr' \in Int /\ waiting_readers' \in Int /\ waiting_writers' \in Int
  BY <1>1 DEF TypeOK
<1>4. wrt' \in BOOLEAN /\ c_read' \in BOOLEAN /\ rwMutex' \in Threads \cup {Nobody}
  BY <1>1 DEF TypeOK, Lock
<1>5. TypeOK'
  BY <1>1, <1>2, <1>3, <1>4 DEF TypeOK
<1>6. MutexOwner'
  BY <1>1, OwnerMoves
<1>7. ReadersCounted'
  BY <1>1, CountMoves
<1>8. waiting_readers' = IF Standing(Readers, Announced)' # {} THEN 1 ELSE 0
  BY <1>1, AnnounceMoves
<1>9. waiting_writers' = IF Standing(Writers, Pending)' # {} THEN 1 ELSE 0
  BY <1>1, PendingMoves
<1>10. WaitingCounted'
  BY <1>8, <1>9 DEF WaitingCounted
<1>11. ClaimHasWriter'
  BY <1>1, ClaimMoves
<1>12. SignalTaken'
  BY <1>1, TakenMoves
<1> QED
  BY <1>2, <1>5, <1>6, <1>7, <1>10, <1>11, <1>12 DEF Inv

(* What every step of a reader uses. *)
LEMMA ReaderFacts ==
  ASSUME Inv, NEW r \in Readers
  PROVE  /\ r \in Threads /\ r \notin Writers
         /\ TypeOK /\ SleepingWriterHasAWaker
         /\ \A here \in ReaderPlaces : here \in PlacesOf(r)
         /\ c_write \in BOOLEAN /\ buffer \in Nat
         /\ i \in [Threads -> Nat] /\ reg \in [Threads -> Nat]
PROOF BY ThreadsFacts DEF Inv, TypeOK, PlacesOf

LEMMA WriterFacts ==
  ASSUME Inv, NEW w \in Writers
  PROVE  /\ w \in Threads /\ w \notin Readers
         /\ TypeOK /\ SleepingWriterHasAWaker
         /\ \A here \in WriterPlaces : here \in PlacesOf(w)
         /\ c_write \in BOOLEAN /\ buffer \in Nat
         /\ i \in [Threads -> Nat] /\ reg \in [Threads -> Nat]
PROOF BY ThreadsFacts DEF Inv, TypeOK, PlacesOf

(* start_read up to the decision, and the test of the loop before it. *)
LEMMA EnterReadStep ==
  ASSUME Inv, NEW r \in Readers,
         TestBuffer(r) \/ LockRead(r) \/ AnnounceRead(r) \/ DecideRead(r)
  PROVE  Inv'
PROOF
<1> USE DEF At, counts, events, procs, Held, Announced, Counted, Taken, Pending, Claiming,
            WakingR, WakingW
<1>1. CASE TestBuffer(r)
  <2>1. PICK here \in {"lock", "exited"} : Goto(r, here)
    BY <1>1 DEF TestBuffer
  <2>2. here \in PlacesOf(r)
    BY <2>1, ReaderFacts DEF ReaderPlaces
  <2>3. SleepingWriterHasAWaker'
    BY <1>1, <2>1, ReaderFacts, SleepMoves DEF TestBuffer
  <2> QED
    BY <1>1, <2>1, <2>2, <2>3, ReaderFacts, ThreadStep DEF TestBuffer
<1>2. CASE LockRead(r)
  <2>1. Goto(r, "announce") /\ "announce" \in PlacesOf(r)
    BY <1>2, ReaderFacts DEF LockRead, ReaderPlaces
  <2>2. SleepingWriterHasAWaker'
    BY <1>2, <2>1, ReaderFacts, SleepMoves DEF LockRead
  <2> QED
    BY <1>2, <2>1, <2>2, ReaderFacts, ThreadStep DEF LockRead
<1>3. CASE AnnounceRead(r)
  <2>1. Goto(r, "decide") /\ "decide" \in PlacesOf(r)
    BY <1>3, ReaderFacts DEF AnnounceRead, ReaderPlaces
  <2>2. SleepingWriterHasAWaker'
    BY <1>3, <2>1, ReaderFacts, SleepMoves DEF AnnounceRead
  <2> QED
    BY <1>3, <2>1, <2>2, ReaderFacts, ThreadStep DEF AnnounceRead
<1>4. CASE DecideRead(r)
  <2>1. PICK here \in {"wait", "reset"} : Goto(r, here)
    BY <1>4 DEF DecideRead
  <2>2. here \in PlacesOf(r)
    BY <2>1, ReaderFacts DEF ReaderPlaces
  <2>3. SleepingWriterHasAWaker'
    BY <1>4, <2>1, ReaderFacts, SleepMoves DEF DecideRead
  <2> QED
    BY <1>4, <2>1, <2>2, <2>3, ReaderFacts, ThreadStep DEF DecideRead
<1> QED
  BY <1>1, <1>2, <1>3, <1>4

(* start_read from its wait to the unlock. *)
LEMMA WaitReadStep ==
  ASSUME Inv, NEW r \in Readers,
         \/ WaitRead(r) \/ ResetRead(r) \/ LeaveRead(r)
         \/ CountRead(r) \/ SignalRead(r) \/ UnlockRead(r)
  PROVE  Inv'
PROOF
<1> USE DEF At, counts, events, procs, Held, Announced, Counted, Taken, Pending, Claiming,
            WakingR, WakingW
<1>1. CASE WaitRead(r)
  <2>1. Goto(r, "reset") /\ "reset" \in PlacesOf(r)
    BY <1>1, ReaderFacts DEF WaitRead, ReaderPlaces
  <2>2. SleepingWriterHasAWaker'
    BY <1>1, <2>1, ReaderFacts, SleepMoves DEF WaitRead
  <2> QED
    BY <1>1, <2>1, <2>2, ReaderFacts, ThreadStep DEF WaitRead
<1>2. CASE ResetRead(r)
  <2>1. Goto(r, "leave") /\ "leave" \in PlacesOf(r)
    BY <1>2, ReaderFacts DEF ResetRead, ReaderPlaces
  <2>2. SleepingWriterHasAWaker'
    BY <1>2, <2>1, ReaderFacts, SleepMoves DEF ResetRead
  <2> QED
    BY <1>2, <2>1, <2>2, ReaderFacts, ThreadStep DEF ResetRead
<1>3. CASE LeaveRead(r)
  <2>1. Goto(r, "count") /\ "count" \in PlacesOf(r)
    BY <1>3, ReaderFacts DEF LeaveRead, ReaderPlaces
  <2>2. SleepingWriterHasAWaker'
    BY <1>3, <2>1, ReaderFacts, SleepMoves DEF LeaveRead
  <2> QED
    BY <1>3, <2>1, <2>2, ReaderFacts, ThreadStep DEF LeaveRead
<1>4. CASE CountRead(r)
  <2>1. Goto(r, "signal") /\ "signal" \in PlacesOf(r)
    BY <1>4, ReaderFacts DEF CountRead, ReaderPlaces
  <2>2. SleepingWriterHasAWaker'
    BY <1>4, <2>1, ReaderFacts, SleepMoves DEF CountRead
  <2> QED
    BY <1>4, <2>1, <2>2, ReaderFacts, ThreadStep DEF CountRead
<1>5. CASE SignalRead(r)
  <2>1. Goto(r, "unlock") /\ "unlock" \in PlacesOf(r)
    BY <1>5, ReaderFacts DEF SignalRead, ReaderPlaces
  <2>2. SleepingWriterHasAWaker'
    BY <1>5, <2>1, ReaderFacts, SleepMoves DEF SignalRead
  <2> QED
    BY <1>5, <2>1, <2>2, ReaderFacts, ThreadStep DEF SignalRead
<1>6. CASE UnlockRead(r)
  <2>1. Goto(r, "body") /\ "body" \in PlacesOf(r)
    BY <1>6, ReaderFacts DEF UnlockRead, ReaderPlaces
  <2>2. SleepingWriterHasAWaker'
    BY <1>6, <2>1, ReaderFacts, SleepMoves DEF UnlockRead
  <2> QED
    BY <1>6, <2>1, <2>2, ReaderFacts, ThreadStep DEF UnlockRead
<1> QED
  BY <1>1, <1>2, <1>3, <1>4, <1>5, <1>6

(* While a writer keeps the mutex, the readers in nr are past start_read,  *)
(* and the writer that set wrt is past start_write.                        *)
LEMMA BusyMeansWaker ==
  ASSUME Inv, NEW w \in Writers, pc[w] \in {"decide", "wait"}
  PROVE  /\ nr > 0 => \E r \in Readers : pc[r] = "body"
         /\ wrt => \E v \in Writers : v # w /\ pc[v] \in {"load", "store", "clear"}
         /\ waiting_readers = 0
PROOF
<1>1. w \in Threads /\ \A u \in Threads : u # w => pc[u] \notin Held
  BY OwnerAlone, ThreadsFacts DEF Inv, Held
<1>2. ASSUME nr > 0
      PROVE  \E r \in Readers : pc[r] = "body"
  <2>1. Standing(Readers, Counted) # {}
    BY <1>2, FS_EmptySet DEF Inv, ReadersCounted
  <2>2. PICK r \in Readers : pc[r] \in Counted
    BY <2>1 DEF Standing
  <2>3. pc[r] \notin Held
    BY <1>1, ThreadsFacts
  <2> QED BY <2>2, <2>3 DEF Counted, Held
<1>3. ASSUME wrt
      PROVE  \E v \in Writers : v # w /\ pc[v] \in {"load", "store", "clear"}
  <2>1. PICK v \in Writers : pc[v] \in Claiming
    BY <1>3 DEF Inv, ClaimHasWriter, Standing
  <2>2. v # w
    BY <2>1 DEF Claiming
  <2>3. pc[v] \notin Held
    BY <1>1, <2>2, ThreadsFacts
  <2> QED BY <2>1, <2>2, <2>3 DEF Claiming, Held
<1>4. Standing(Readers, Announced) = {}
  BY <1>1, ThreadsFacts DEF Standing, Announced, Held
<1>5. waiting_readers = 0
  BY <1>4 DEF Inv, WaitingCounted
<1> QED
  BY <1>2, <1>3, <1>5

(* The printf, and stop_read: a reader that is not the last one leaves a   *)
(* sleeping writer to those that are still counted.                        *)
LEMMA StopReadStep ==
  ASSUME Inv, NEW r \in Readers, UncountRead(r) \/ LastRead(r) \/ FreeRead(r)
  PROVE  Inv'
PROOF
<1> USE DEF At, counts, events, procs, Held, Announced, Counted, Taken, Pending, Claiming,
            WakingR, WakingW
<1>1. CASE UncountRead(r)
  <2>1. Goto(r, "last") /\ "last" \in PlacesOf(r)
    BY <1>1, ReaderFacts DEF UncountRead, ReaderPlaces
  <2>2. SleepingWriterHasAWaker'
    BY <1>1, <2>1, ReaderFacts, SleepMoves DEF UncountRead
  <2> QED
    BY <1>1, <2>1, <2>2, ReaderFacts, ThreadStep DEF UncountRead
<1>2. CASE LastRead(r)
  <2>1. PICK here \in {"free", "test"} : Goto(r, here) /\ (here = "test" => nr # 0)
    BY <1>2 DEF LastRead
  <2>2. here \in PlacesOf(r)
    BY <2>1, ReaderFacts DEF ReaderPlaces
  <2>3. SleepingWriterHasAWaker'
    <3> SUFFICES ASSUME NEW w \in Writers, pc'[w] = "wait", ~c_write'
                 PROVE  \/ \E q \in Readers : pc'[q] \in {"body", "last", "free"}
                        \/ \E v \in Writers : pc'[v] \in {"load", "store", "clear", "choose", "wakewriter"}
      BY DEF SleepingWriterHasAWaker
    <3>1. pc'[r] = here /\ pc[r] = "last" /\ \A u \in Threads : u # r => pc'[u] = pc[u]
      BY <1>2, <2>1, ReaderFacts DEF LastRead, Goto, TypeOK
    <3>2. CASE here = "free"
      BY <3>1, <3>2
    <3>3. CASE here = "test"
      <4>1. w \in Threads /\ w # r /\ pc[w] = "wait"
        BY <3>1, ReaderFacts, WriterFacts
      <4>2. nr > 0
        BY <2>1, <3>3, ReadersFinite, FS_CardinalityType DEF Inv, ReadersCounted
      <4>3. PICK q \in Readers : pc[q] = "body"
        BY <4>1, <4>2, BusyMeansWaker
      <4> QED BY <3>1, <4>3, ThreadsFacts
    <3> QED BY <2>1, <3>2, <3>3
  <2> QED
    BY <1>2, <2>1, <2>2, <2>3, ReaderFacts, ThreadStep DEF LastRead
<1>3. CASE FreeRead(r)
  <2>1. Goto(r, "test") /\ "test" \in PlacesOf(r)
    BY <1>3, ReaderFacts DEF FreeRead, ReaderPlaces
  <2>2. SleepingWriterHasAWaker'
    BY <1>3, <2>1, ReaderFacts, SleepMoves DEF FreeRead
  <2> QED
    BY <1>3, <2>1, <2>2, ReaderFacts, ThreadStep DEF FreeRead
<1> QED
  BY <1>1, <1>2, <1>3

(* start_write: a writer that goes to sleep leaves behind a reader that is *)
(* counted or a writer that will clear wrt; one that resets c_write holds  *)
(* the mutex, so nobody sleeps.                                            *)
LEMMA StartWriteStep ==
  ASSUME Inv, NEW w \in Writers,
         \/ LockWrite(w) \/ DecideWrite(w) \/ WaitWrite(w)
         \/ ResetWrite(w) \/ ClaimWrite(w) \/ UnlockWrite(w)
  PROVE  Inv'
PROOF
<1> USE DEF At, counts, events, procs, Held, Announced, Counted, Taken, Pending, Claiming,
            WakingR, WakingW
<1>1. CASE LockWrite(w)
  <2>1. Goto(w, "decide") /\ "decide" \in PlacesOf(w)
    BY <1>1, WriterFacts DEF LockWrite, WriterPlaces
  <2>2. SleepingWriterHasAWaker'
    BY <1>1, <2>1, WriterFacts, SleepMoves DEF LockWrite
  <2> QED
    BY <1>1, <2>1, <2>2, WriterFacts, ThreadStep DEF LockWrite, Lock
<1>2. CASE DecideWrite(w)
  <2>1. PICK here \in {"wait", "reset"} : Goto(w, here) /\ (here = "wait" => nr > 0 \/ wrt)
    BY <1>2 DEF DecideWrite
  <2>2. here \in PlacesOf(w)
    BY <2>1, WriterFacts DEF WriterPlaces
  <2>3. SleepingWriterHasAWaker'
    <3>1. CASE here = "wait"
      <4>1. pc'[w] = here /\ pc[w] = "decide" /\ \A u \in Threads : u # w => pc'[u] = pc[u]
        BY <1>2, <2>1, WriterFacts DEF DecideWrite, Goto, TypeOK
      <4>2. \/ \E r \in Readers : pc[r] = "body"
            \/ \E v \in Writers : v # w /\ pc[v] \in {"load", "store", "clear"}
        BY <2>1, <3>1, <4>1, BusyMeansWaker
      <4>3. \/ \E r \in Readers : pc'[r] = "body"
            \/ \E v \in Writers : pc'[v] \in {"load", "store", "clear"}
        BY <4>1, <4>2, ThreadsFacts
      <4> QED BY <4>3 DEF SleepingWriterHasAWaker
    <3>2. CASE here = "reset"
      BY <1>2, <2>1, <3>2, WriterFacts, SleepMoves DEF DecideWrite
    <3> QED BY <2>1, <3>1, <3>2
  <2> QED
    BY <1>2, <2>1, <2>2, <2>3, WriterFacts, ThreadStep DEF DecideWrite
<1>3. CASE WaitWrite(w)
  <2>1. Goto(w, "reset") /\ "reset" \in PlacesOf(w)
    BY <1>3, WriterFacts DEF WaitWrite, WriterPlaces
  <2>2. SleepingWriterHasAWaker'
    BY <1>3, <2>1, WriterFacts, SleepMoves DEF WaitWrite
  <2> QED
    BY <1>3, <2>1, <2>2, WriterFacts, ThreadStep DEF WaitWrite
<1>4. CASE ResetWrite(w)
  <2>1. Goto(w, "claim") /\ "claim" \in PlacesOf(w)
    BY <1>4, WriterFacts DEF ResetWrite, WriterPlaces
  <2>2. SleepingWriterHasAWaker'
    <3>1. pc'[w] = "claim" /\ \A u \in Threads : u # w => pc'[u] = pc[u]
      BY <2>1, WriterFacts DEF Goto, TypeOK
    <3>2. \A u \in Threads : u # w => pc[u] \notin Held
      BY <1>4, OwnerAlone, WriterFacts DEF ResetWrite, Inv
    <3>3. \A v \in Writers : pc'[v] # "wait"
      BY <3>1, <3>2, ThreadsFacts
    <3> QED BY <3>3 DEF SleepingWriterHasAWaker
  <2> QED
    BY <1>4, <2>1, <2>2, WriterFacts, ThreadStep DEF ResetWrite
<1>5. CASE ClaimWrite(w)
  <2>1. Goto(w, "unlock") /\ "unlock" \in PlacesOf(w)
    BY <1>5, WriterFacts DEF ClaimWrite, WriterPlaces
  <2>2. SleepingWriterHasAWaker'
    BY <1>5, <2>1, WriterFacts, SleepMoves DEF ClaimWrite
  <2> QED
    BY <1>5, <2>1, <2>2, WriterFacts, ThreadStep DEF ClaimWrite
<1>6. CASE UnlockWrite(w)
  <2>1. Goto(w, "load") /\ "load" \in PlacesOf(w)
    BY <1>6, WriterFacts DEF UnlockWrite, WriterPlaces
  <2>2. SleepingWriterHasAWaker'
    BY <1>6, <2>1, WriterFacts, SleepMoves DEF UnlockWrite
  <2> QED
    BY <1>6, <2>1, <2>2, WriterFacts, ThreadStep DEF UnlockWrite
<1> QED
  BY <1>1, <1>2, <1>3, <1>4, <1>5, <1>6

(* ++buffer, then stop_write up to the signal: a writer wakes a reader     *)
(* only when one is counted as waiting, and then no writer can be asleep.  *)
LEMMA StopWriteStep ==
  ASSUME Inv, NEW w \in Writers,
         Load(w) \/ Store(w) \/ ClearWrite(w) \/ ChooseWrite(w) \/ WakeWrite(w)
  PROVE  Inv'
PROOF
<1> USE DEF At, counts, events, procs, Held, Announced, Counted, Taken, Pending, Claiming,
            WakingR, WakingW
<1>1. CASE Load(w)
  <2>1. Goto(w, "store") /\ "store" \in PlacesOf(w)
    BY <1>1, WriterFacts DEF Load, WriterPlaces
  <2>2. SleepingWriterHasAWaker'
    BY <1>1, <2>1, WriterFacts, SleepMoves DEF Load
  <2>3. reg' \in [Threads -> Nat]
    BY <1>1, WriterFacts DEF Load
  <2> QED
    BY <1>1, <2>1, <2>2, <2>3, WriterFacts, ThreadStep DEF Load
<1>2. CASE Store(w)
  <2>1. Goto(w, "clear") /\ "clear" \in PlacesOf(w)
    BY <1>2, WriterFacts DEF Store, WriterPlaces
  <2>2. SleepingWriterHasAWaker'
    BY <1>2, <2>1, WriterFacts, SleepMoves DEF Store
  <2>3. buffer' \in Nat
    BY <1>2, WriterFacts, ConstAssumption DEF Store
  <2> QED
    BY <1>2, <2>1, <2>2, <2>3, WriterFacts, ThreadStep DEF Store
<1>3. CASE ClearWrite(w)
  <2>1. Goto(w, "choose") /\ "choose" \in PlacesOf(w)
    BY <1>3, WriterFacts DEF ClearWrite, WriterPlaces
  <2>2. SleepingWriterHasAWaker'
    BY <1>3, <2>1, WriterFacts, SleepMoves DEF ClearWrite
  <2> QED
    BY <1>3, <2>1, <2>2, WriterFacts, ThreadStep DEF ClearWrite
<1>4. CASE ChooseWrite(w)
  <2>1. PICK here \in {"wakereader", "wakewriter"} :
           Goto(w, here) /\ (here = "wakereader" => waiting_readers > 0)
    BY <1>4 DEF ChooseWrite
  <2>2. here \in PlacesOf(w)
    BY <2>1, WriterFacts DEF WriterPlaces
  <2>3. SleepingWriterHasAWaker'
    <3>1. CASE here = "wakereader"
      <4>1. pc'[w] = here /\ \A u \in Threads : u # w => pc'[u] = pc[u]
        BY <2>1, WriterFacts DEF Goto, TypeOK
      <4>2. \A v \in Writers : pc[v] # "wait"
        BY <2>1, <3>1, BusyMeansWaker
      <4>3. \A v \in Writers : pc'[v] # "wait"
        BY <3>1, <4>1, <4>2, ThreadsFacts
      <4> QED BY <4>3 DEF SleepingWriterHasAWaker
    <3>2. CASE here = "wakewriter"
      BY <1>4, <2>1, <3>2, WriterFacts, SleepMoves DEF ChooseWrite
    <3> QED BY <2>1, <3>1, <3>2
  <2> QED
    BY <1>4, <2>1, <2>2, <2>3, WriterFacts, ThreadStep DEF ChooseWrite
<1>5. CASE WakeWrite(w)
  <2>1. PICK here \in {"lock", "exited"} : Goto(w, here)
    BY <1>5 DEF WakeWrite
  <2>2. /\ here \in PlacesOf(w)
        /\ pc[w] \in {"wakereader", "wakewriter"}
        /\ pc[w] = "wakewriter" => c_write' = TRUE
        /\ pc[w] = "wakereader" => c_write' = c_write
        /\ c_read' = c_read \/ c_read' = TRUE
        /\ i' \in [Threads -> Nat]
    BY <1>5, <2>1, WriterFacts DEF WakeWrite, WriterPlaces
  <2>3. SleepingWriterHasAWaker'
    BY <2>1, <2>2, WriterFacts, SleepMoves
  <2>4. c_write' \in BOOLEAN
    BY <2>2, WriterFacts
  <2> QED
    BY <1>5, <2>1, <2>2, <2>3, <2>4, WriterFacts, ThreadStep DEF WakeWrite
<1> QED
  BY <1>1, <1>2, <1>3, <1>4, <1>5

(* Steps that move no thread. *)
LEMMA QuietStep ==
  ASSUME Inv, UNCHANGED <<counts, events, rwMutex, buffer, pc, i, reg, created>>
  PROVE  Inv'
PROOF
<1> USE DEF counts, events
<1>1. TypeOK' /\ NotCreated' /\ MutexOwner'
  BY DEF Inv, TypeOK, NotCreated, MutexOwner
<1>2. \A S, places : Standing(S, places)' = Standing(S, places)
  BY DEF Standing
<1>3. ReadersCounted' /\ WaitingCounted' /\ ClaimHasWriter' /\ SignalTaken'
  BY <1>2 DEF Inv, ReadersCounted, WaitingCounted, ClaimHasWriter, SignalTaken
<1>4. SleepingWriterHasAWaker'
  BY DEF Inv, SleepingWriterHasAWaker
<1> QED
  BY <1>1, <1>3, <1>4 DEF Inv

(* A new thread starts outside every place that counts. *)
LEMMA CreateStep ==
  ASSUME Inv, CreateThread
  PROVE  Inv'
PROOF
<1> USE DEF counts, events, procs, Held, Announced, Counted, Taken, Pending, Claiming,
            WakingR, WakingW
<1> DEFINE t == created + 1
<1>1. /\ TypeOK /\ NotCreated /\ MutexOwner /\ ReadersCounted /\ WaitingCounted
      /\ ClaimHasWriter /\ SignalTaken /\ SleepingWriterHasAWaker
  BY DEF Inv
<1>2. t \in Threads /\ pc[t] = "none" /\ created' = t /\ t \in Nat /\ t <= NThreads
  BY <1>1, ThreadsFacts DEF CreateThread, TypeOK, NotCreated
<1>3. PICK here \in {"test", "lock"} : Goto(t, here) /\ here \in PlacesOf(t)
  BY <1>2 DEF CreateThread, PlacesOf, ReaderPlaces, WriterPlaces
<1> HIDE DEF t
<1>4. pc'[t] = here /\ \A u \in Threads : u # t => pc'[u] = pc[u]
  BY <1>1, <1>2, <1>3 DEF TypeOK, Goto
<1>5. pc' \in [Threads -> ReaderPlaces \cup WriterPlaces]
  BY <1>1, <1>2, <1>3 DEF TypeOK, Goto, PlacesOf
<1>6. TypeOK'
  <2>1. \A u \in Threads : pc'[u] \in PlacesOf(u)
    BY <1>1, <1>3, <1>4 DEF TypeOK, PlacesOf
  <2>2. created' \in 0..NThreads
    BY <1>2, ThreadsFacts
  <2> QED BY <1>1, <1>5, <2>1, <2>2 DEF CreateThread, TypeOK
<1>7. NotCreated'
  <2>1. \A u \in Threads : u > t => u # t /\ u > created
    BY <1>1, <1>2, ThreadsFacts DEF t, TypeOK
  <2> QED BY <1>1, <1>2, <1>4, <2>1 DEF NotCreated
<1>8. MutexOwner'
  BY <1>1, <1>2, <1>3, OwnerMoves DEF CreateThread
<1>9. ReadersCounted'
  BY <1>1, <1>2, <1>3, CountMoves DEF CreateThread
<1>10. waiting_readers' = IF Standing(Readers, Announced)' # {} THEN 1 ELSE 0
  BY <1>1, <1>2, <1>3, AnnounceMoves DEF CreateThread
<1>11. waiting_writers' = IF Standing(Writers, Pending)' # {} THEN 1 ELSE 0
  BY <1>1, <1>2, <1>3, PendingMoves DEF CreateThread
<1>12. ClaimHasWriter' /\ SignalTaken'
  BY <1>1, <1>2, <1>3, ClaimMoves, TakenMoves DEF CreateThread
<1>13. SleepingWriterHasAWaker'
  BY <1>1, <1>2, <1>3, SleepMoves DEF CreateThread
<1> QED
  BY <1>6, <1>7, <1>8, <1>9, <1>10, <1>11, <1>12, <1>13 DEF Inv, WaitingCounted

(* The initial state satisfies it, and every step keeps it. *)
LEMMA InitInv == Init => Inv
PROOF
<1> SUFFICES ASSUME Init PROVE Inv
  OBVIOUS
<1> USE DEF Init
<1>1. TypeOK
  <2>1. \A t \in Threads : pc[t] = "none"
    OBVIOUS
  <2>2. "none" \in ReaderPlaces /\ \A t \in Threads : "none" \in PlacesOf(t)
    BY DEF PlacesOf, ReaderPlaces, WriterPlaces
  <2>3. pc \in [Threads -> ReaderPlaces \cup WriterPlaces]
    BY <2>2
  <2>4. created \in 0..NThreads /\ buffer \in Nat
    BY ThreadsFacts
  <2>5. nr = 0 /\ waiting_readers = 0 /\ waiting_writers = 0 /\ 0 \in Int /\ 0 \in Nat
    OBVIOUS
  <2>6. i \in [Threads -> Nat] /\ reg \in [Threads -> Nat]
    BY <2>5
  <2>7. \A t \in Threads : pc[t] \in PlacesOf(t)
    BY <2>1, <2>2
  <2> QED BY <2>3, <2>4, <2>5, <2>6, <2>7 DEF TypeOK
<1>2. NotCreated /\ MutexOwner
  BY ThreadsFacts DEF NotCreated, MutexOwner, Held
<1>3. /\ Standing(Readers, Counted) = {} /\ Standing(Readers, Announced) = {}
      /\ Standing(Writers, Pending) = {}
  BY ThreadsFacts DEF Standing, Counted, Announced, Pending
<1>4. ReadersCounted /\ WaitingCounted /\ ClaimHasWriter /\ SignalTaken
  BY <1>3, FS_EmptySet DEF ReadersCounted, WaitingCounted, ClaimHasWriter, SignalTaken
<1>5. SleepingWriterHasAWaker
  BY DEF SleepingWriterHasAWaker
<1> QED
  BY <1>1, <1>2, <1>4, <1>5 DEF Inv

LEMMA NextInv == Inv /\ [Next]_vars => Inv'
PROOF
<1> SUFFICES ASSUME Inv, [Next]_vars PROVE Inv'
  OBVIOUS
<1>1. CASE CreateThread
  BY <1>1, CreateStep
<1>2. CASE CreateFails \/ WaitAll \/ Ended \/ UNCHANGED vars
  BY <1>2, QuietStep DEF CreateFails, WaitAll, Ended, vars, procs
<1>3. ASSUME NEW r \in Readers, Reader(r)
      PROVE  Inv'
  BY <1>3, EnterReadStep, WaitReadStep, StopReadStep DEF Reader
<1>4. ASSUME NEW w \in Writers, Writer(w)
      PROVE  Inv'
  BY <1>4, StartWriteStep, StopWriteStep DEF Writer
<1> QED
  BY <1>1, <1>2, <1>3, <1>4 DEF Next

(* ---- the theorems ---- *)

(* The inductive invariant holds in every behaviour. *)
THEOREM Invariance == Spec => []Inv
PROOF BY InitInv, NextInv, PTL DEF Spec

LEMMA SleepersPass == Inv => ReadersNeverSleep
PROOF
<1> SUFFICES ASSUME Inv, NEW r \in Readers, pc[r] = "wait", ~c_read PROVE FALSE
  BY DEF ReadersNeverSleep
<1>1. PICK q \in Readers : pc[q] \in Taken
  BY DEF Inv, SignalTaken, Standing
<1>2. q # r /\ pc[q] \in Held /\ pc[r] \in Held
  BY <1>1 DEF Taken, Held
<1> QED
  BY <1>2, OwnerAlone, ThreadsFacts DEF Inv

(* A reader that waits for c_read while it keeps rwMutex finds it signaled: *)
(* only a reader that owns the mutex takes the signal away, and it gives it *)
(* back before it gives up the mutex.                                       *)
THEOREM ReadersPass == Spec => []ReadersNeverSleep
PROOF BY Invariance, SleepersPass, PTL

(* A writer asleep on c_write with the mutex in its hands is never left    *)
(* alone: some reader or writer is still on its way to SetEvent, without   *)
(* needing the mutex.                                                      *)
THEOREM WritersAreWoken == Spec => []SleepingWriterHasAWaker
PROOF BY Invariance, PTL DEF Inv

(* Nobody is ever counted as waiting by anyone else: start_read's test of  *)
(* waiting_writers, and stop_write's of waiting_readers unless a reader    *)
(* owns the mutex at that moment, see zero, since a thread waits for its   *)
(* event with the mutex in its hands.                                      *)
THEOREM WaitingIsNeverSeen ==
  Spec => [](/\ \A r \in Readers : pc[r] = "decide" => waiting_writers = 0
             /\ rwMutex \notin Readers => waiting_readers = 0)
PROOF
<1>1. ASSUME Inv, NEW r \in Readers, pc[r] = "decide"
      PROVE  waiting_writers = 0
  <2>1. \A u \in Threads : u # r => pc[u] \notin Held
    BY <1>1, OwnerAlone, ThreadsFacts DEF Inv, Held
  <2>2. Standing(Writers, Pending) = {}
    BY <2>1, ThreadsFacts DEF Standing, Pending, Held
  <2> QED BY <1>1, <2>2 DEF Inv, WaitingCounted
<1>2. ASSUME Inv, rwMutex \notin Readers
      PROVE  waiting_readers = 0
  <2>1. Standing(Readers, Announced) = {}
    BY <1>2, ThreadsFacts DEF Inv, MutexOwner, Standing, Announced, Held
  <2> QED BY <1>2, <2>1 DEF Inv, WaitingCounted
<1>3. Inv => /\ \A r \in Readers : pc[r] = "decide" => waiting_writers = 0
             /\ rwMutex \notin Readers => waiting_readers = 0
  BY <1>1, <1>2
<1> QED
  BY <1>3, Invariance, PTL

(* ---- nobody is stuck ---- *)

(* The next step of t is possible: the wait it may be in returns.          *)
CanGoOn(t) ==
  /\ pc[t] \notin {"none", "exited"}
  /\ pc[t] = "lock" => rwMutex = Nobody
  /\ pc[t] = "wait" => IF t \in Readers THEN c_read ELSE c_write

(* As long as a thread is in its loop there is one that can go on.         *)
NobodyIsStuck ==
  (\E t \in Threads : pc[t] \notin {"none", "exited"}) => \E q \in Threads : CanGoOn(q)

LEMMA SomebodyGoesOn == Inv => NobodyIsStuck
PROOF
<1> SUFFICES ASSUME Inv, NEW t \in Threads, pc[t] \notin {"none", "exited"},
                    \A q \in Threads : ~CanGoOn(q)
             PROVE  FALSE
  BY DEF NobodyIsStuck
<1>1. \A q \in Threads : \/ pc[q] \in {"none", "exited"}
                         \/ pc[q] = "lock" /\ rwMutex # Nobody
                         \/ pc[q] = "wait" /\ ~(IF q \in Readers THEN c_read ELSE c_write)
  BY DEF CanGoOn
(* A reader that waits is let through, a writer that waits has a waker,    *)
(* and a waker stands at no wait.                                          *)
<1>2. \A r \in Readers : pc[r] # "wait"
  BY <1>1, ThreadsFacts, SleepersPass DEF ReadersNeverSleep
<1>3. \A w \in Writers : pc[w] # "wait"
  <2> SUFFICES ASSUME NEW w \in Writers, pc[w] = "wait" PROVE FALSE
    OBVIOUS
  <2>1. ~c_write
    BY <1>1, ThreadsFacts
  <2>2. PICK q \in Threads : pc[q] \in {"body", "last", "free", "load", "store", "clear", "choose", "wakewriter"}
    BY <2>1, ThreadsFacts DEF Inv, SleepingWriterHasAWaker
  <2> QED
    BY <1>1, <2>2
(* So all of them wait for the mutex, which nobody has.                    *)
<1>4. rwMutex # Nobody
  BY <1>1, <1>2, <1>3, ThreadsFacts
<1>5. rwMutex \in Threads /\ pc[rwMutex] \in Held
  BY <1>4 DEF Inv, TypeOK, MutexOwner
<1> QED
  BY <1>1, <1>2, <1>3, <1>5, ThreadsFacts DEF Held

(* start_read and start_write sleep with rwMutex in their hands, and yet   *)
(* the threads never all wait for each other: who sleeps is woken by one   *)
(* that needs no mutex, and the others wait for that mutex alone.          *)
THEOREM NeverStuck == Spec => []NobodyIsStuck
PROOF BY Invariance, SomebodyGoesOn, PTL
=============================================================================
