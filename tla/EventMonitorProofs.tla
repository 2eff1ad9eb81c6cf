------------------------- MODULE EventMonitorProofs -------------------------
(***************************************************************************)
(* Proofs about EventMonitor for every number of writers, readers and      *)
(* iterations, whichever CreateThread calls fail.                          *)
(***************************************************************************)
EXTENDS EventMonitor, FiniteSetTheorems, TLAPS

Places  == {"none", "announce", "lock", "unlock", "gate", "relock", "load", "store", "stop",
            "read", "exited"}
Holding == {"unlock", "load", "store", "stop", "read"}
Counted == {"unlock", "gate", "relock", "load", "store", "stop"}  \* of a writer

TypeOK ==
  /\ single_mut \in Threads \cup {Nobody}
  /\ event_read \in BOOLEAN /\ event_write \in BOOLEAN
  /\ read_count \in Nat /\ writ_count \in Nat
  /\ value \in Nat
  /\ pc \in [Threads -> Places]
  /\ i \in [Threads -> 0..Iter]
  /\ reg \in [Threads -> Nat]
  /\ created \in 0..NThreads

(* Threads not created yet stand nowhere. *)
NotCreated == \A t \in Threads : t > created => pc[t] = "none"

(* The mutex has the owner that the code of the threads says. *)
MutexOwner == \A t \in Threads : single_mut = t <=> pc[t] \in Holding

(* A thread in its loop still has a round to go. *)
LoopBound == \A t \in Threads : /\ pc[t] = "none" => i[t] = 0
                                /\ pc[t] \notin {"none", "exited"} => i[t] < Iter

(* Nobody writes between a load and its store. *)
NoLostIncrement == \A w \in Writers : pc[w] = "store" => reg[w] = value

(* The rounds whose increment has been stored; value counts them, which is *)
(* what keeps it from wrapping.                                            *)
Rounds       == Writers \X (1..Iter)
Stored(x)    == x[2] <= i[x[1]] \/ (x[2] = i[x[1]] + 1 /\ pc[x[1]] = "stop")
Written      == {x \in Rounds : Stored(x)}
ValueIsCount == value = Cardinality(Written)

Inv == /\ TypeOK
       /\ NotCreated
       /\ MutexOwner
       /\ CountersMatchEvents
       /\ LoopBound
       /\ NoLostIncrement
       /\ ValueIsCount

(* ---- constants ---- *)

LEMMA ThreadsFacts ==
  /\ NThreads \in Nat
  /\ Writers \subseteq Threads /\ Readers \subseteq Threads
  /\ Writers \cap Readers = {}
  /\ Threads \subseteq Nat /\ Nobody \notin Threads
  /\ \A k \in Nat : k < NThreads => k + 1 \in Threads
PROOF BY ConstAssumption DEF NThreads, Threads, Writers, Readers, Nobody

LEMMA ThreadsFinite ==
  /\ IsFiniteSet(Writers) /\ Cardinality(Writers) = NWriters
  /\ IsFiniteSet(Readers) /\ Cardinality(Readers) = NReaders
PROOF
<1>1. 1 \in Int /\ NWriters \in Int /\ NWriters + 1 \in Int /\ NThreads \in Int
  BY ConstAssumption DEF NThreads
<1>2. IsFiniteSet(Writers) /\ Cardinality(Writers) = IF 1 > NWriters THEN 0 ELSE NWriters - 1 + 1
  BY <1>1, FS_Interval DEF Writers
<1>3. /\ IsFiniteSet(Readers)
      /\ Cardinality(Readers) = IF NWriters + 1 > NThreads THEN 0 ELSE NThreads - (NWriters + 1) + 1
  BY <1>1, FS_Interval DEF Readers
<1> QED
  BY <1>2, <1>3, ConstAssumption DEF NThreads

(* A product of naturals grows with its factor. *)
LEMMA TimesMonotone ==
  ASSUME NEW a \in Nat, NEW b \in Nat, NEW c \in Nat, a <= b
  PROVE  a * c <= b * c
PROOF
<1>1. PICK d \in Nat : b = a + d
  <2>1. b - a \in Nat /\ b = a + (b - a)
    OBVIOUS
  <2> QED BY <2>1
<1>2. b * c = a * c + d * c
  BY <1>1
<1>3. d * c \in Nat /\ a * c \in Nat
  OBVIOUS
<1> QED
  BY <1>2, <1>3

(* There are NWriters * Iter rounds to write in, at most. *)
LEMMA RoundsFacts ==
  /\ IsFiniteSet(Rounds) /\ Cardinality(Rounds) \in Nat
  /\ NWriters * Iter \in Nat /\ Cardinality(Rounds) <= NWriters * Iter
PROOF
<1> DEFINE T == 1..(NWriters * Iter)
           f == [x \in Rounds |-> (x[1] - 1) * Iter + x[2]]
<1>1. NWriters \in Nat /\ Iter \in Nat /\ NWriters * Iter \in Nat
  BY ConstAssumption
<1>2. ASSUME NEW w \in Writers, NEW k \in 1..Iter
      PROVE  /\ (w - 1) * Iter \in Nat
             /\ (w - 1) * Iter + Iter = w * Iter
             /\ w * Iter <= NWriters * Iter
             /\ (w - 1) * Iter + k \in T
  <2>1. w \in Nat /\ w - 1 \in Nat /\ w <= NWriters
    BY <1>1 DEF Writers
  <2>2. (w - 1) * Iter \in Nat /\ (w - 1) * Iter + Iter = w * Iter /\ w * Iter \in Nat
    BY <1>1, <2>1
  <2>3. w * Iter <= NWriters * Iter
    BY <1>1, <2>1, TimesMonotone
  <2> QED
    BY <1>1, <2>2, <2>3
<1>3. ASSUME NEW v \in Writers, NEW w \in Writers, NEW k \in 1..Iter, NEW l \in 1..Iter,
             v < w
      PROVE  (v - 1) * Iter + k # (w - 1) * Iter + l
  <2>1. v \in Nat /\ w - 1 \in Nat /\ v <= w - 1
    BY <1>1, <1>3 DEF Writers
  <2>2. v * Iter <= (w - 1) * Iter
    BY <1>1, <2>1, TimesMonotone
  <2>3. (v - 1) * Iter \in Nat /\ (v - 1) * Iter + Iter = v * Iter /\ (w - 1) * Iter \in Nat
    BY <1>2
  <2> QED
    BY <1>1, <2>2, <2>3
<1>4. f \in [Rounds -> T]
  <2>1. ASSUME NEW x \in Rounds PROVE f[x] \in T
    <3>1. x[1] \in Writers /\ x[2] \in 1..Iter
      BY DEF Rounds
    <3>2. f[x] = (x[1] - 1) * Iter + x[2]
      OBVIOUS
    <3> QED
      BY <1>2, <3>1, <3>2
  <2> QED
    BY <2>1
<1>5. ASSUME NEW x \in Rounds, NEW y \in Rounds, f[x] = f[y]
      PROVE  x = y
  <2>1. /\ x[1] \in Writers /\ x[2] \in 1..Iter /\ x = <<x[1], x[2]>>
        /\ y[1] \in Writers /\ y[2] \in 1..Iter /\ y = <<y[1], y[2]>>
    BY DEF Rounds
  <2>2. (x[1] - 1) * Iter + x[2] = (y[1] - 1) * Iter + y[2]
    BY <1>5
  <2>3. x[1] \in Int /\ y[1] \in Int
    BY <2>1 DEF Writers
  <2>4. x[1] = y[1]
    BY <1>3, <2>1, <2>2, <2>3
  <2>5. x[2] = y[2]
    <3>1. (x[1] - 1) * Iter \in Nat
      BY <1>2, <2>1
    <3> QED
      BY <2>1, <2>2, <2>4, <3>1
  <2> QED
    BY <2>1, <2>4, <2>5
<1>6. f \in Injection(Rounds, T)
  BY <1>4, <1>5, Zenon DEF Injection, IsInjective
<1>7. IsFiniteSet(T) /\ Cardinality(T) = NWriters * Iter
  <2> DEFINE n == NWriters * Iter
  <2>1. 1 \in Int /\ n \in Int /\ n \in Nat
    BY <1>1
  <2> HIDE DEF n
  <2>2. IsFiniteSet(1..n) /\ Cardinality(1..n) = IF 1 > n THEN 0 ELSE n - 1 + 1
    BY <2>1, FS_Interval
  <2>3. IsFiniteSet(1..n) /\ Cardinality(1..n) = n
    BY <2>1, <2>2
  <2> QED
    BY <2>3 DEF n
<1> HIDE DEF f, T
<1>8. IsFiniteSet(Rounds) /\ Cardinality(Rounds) <= Cardinality(T)
  BY <1>6, <1>7, FS_Injection
<1> QED
  BY <1>1, <1>7, <1>8, FS_CardinalityType

(* The counts are far from wrapping. *)
LEMMA CountsFinite ==
  /\ IsFiniteSet(CountedWriters) /\ Cardinality(CountedWriters) \in Nat
  /\ Cardinality(CountedWriters) <= NWriters
  /\ IsFiniteSet(CountedReaders) /\ Cardinality(CountedReaders) \in Nat
  /\ Cardinality(CountedReaders) <= NReaders
  /\ Cardinality(CountedWriters) = 0 <=> CountedWriters = {}
  /\ Cardinality(CountedReaders) = 0 <=> CountedReaders = {}
PROOF
<1>1. CountedWriters \in SUBSET Writers /\ CountedReaders \in SUBSET Readers
  BY DEF CountedWriters, CountedReaders, WritersIn, ReadersIn
<1>2. /\ IsFiniteSet(CountedWriters) /\ Cardinality(CountedWriters) <= Cardinality(Writers)
      /\ IsFiniteSet(CountedReaders) /\ Cardinality(CountedReaders) <= Cardinality(Readers)
  BY <1>1, ThreadsFinite, FS_Subset
<1> QED
  BY <1>2, ThreadsFinite, FS_CardinalityType, FS_EmptySet

(* ++ and -- of a counter that stays in range do not wrap. *)
LEMMA NoWrap ==
  ASSUME NEW k \in Nat, k < NWriters + NReaders
  PROVE  /\ (k + 1) % UIntModulus = k + 1
         /\ ((k + 1) - 1) % UIntModulus = k
PROOF
<1>1. UIntModulus \in Nat /\ UIntModulus > NWriters + NReaders /\ NWriters \in Nat /\ NReaders \in Nat
  BY ConstAssumption
<1>2. k + 1 \in 0..UIntModulus - 1 /\ k \in 0..UIntModulus - 1 /\ (k + 1) - 1 = k
  BY <1>1
<1>3. \A j \in 0..UIntModulus - 1 : j % UIntModulus = j
  BY <1>1
<1> QED
  BY <1>2, <1>3

(* ---- what a move of one thread changes ---- *)

LEMMA Moved ==
  ASSUME TypeOK, NEW t \in Threads, NEW here, Goto(t, here)
  PROVE  pc'[t] = here /\ \A u \in Threads \ {t} : pc'[u] = pc[u]
PROOF BY DEF TypeOK, Goto

LEMMA WriterCounted ==
  ASSUME TypeOK, NEW w \in Writers, NEW here, Goto(w, here)
  PROVE  /\ CountedReaders' = CountedReaders
         /\ here \in Counted => CountedWriters' = CountedWriters \cup {w}
         /\ here \notin Counted => CountedWriters' = CountedWriters \ {w}
PROOF
<1>1. /\ pc'[w] = here /\ \A v \in Writers \ {w} : pc'[v] = pc[v]
      /\ \A r \in Readers : pc'[r] = pc[r]
  BY ThreadsFacts, Moved
<1>2. \A v \in Writers : v \in CountedWriters <=> pc[v] \in Counted
  BY DEF CountedWriters, WritersIn, Counted
<1>3. \A v \in Writers : v \in CountedWriters' <=> pc'[v] \in Counted
  BY DEF CountedWriters, WritersIn, Counted
<1>4. CountedWriters \subseteq Writers /\ CountedWriters' \subseteq Writers
  BY DEF CountedWriters, WritersIn
<1>5. CountedReaders' = CountedReaders
  BY <1>1 DEF CountedReaders, ReadersIn
<1> QED
  BY <1>1, <1>2, <1>3, <1>4, <1>5

LEMMA ReaderCounted ==
  ASSUME TypeOK, NEW r \in Readers, NEW here, Goto(r, here)
  PROVE  /\ CountedWriters' = CountedWriters
         /\ here \in {"unlock", "relock", "read"} => CountedReaders' = CountedReaders \cup {r}
         /\ here \notin {"unlock", "relock", "read"} => CountedReaders' = CountedReaders \ {r}
PROOF
<1>1. /\ pc'[r] = here /\ \A v \in Readers \ {r} : pc'[v] = pc[v]
      /\ \A w \in Writers : pc'[w] = pc[w]
  BY ThreadsFacts, Moved
<1>2. \A v \in Readers : v \in CountedReaders <=> pc[v] \in {"unlock", "relock", "read"}
  BY DEF CountedReaders, ReadersIn
<1>3. \A v \in Readers : v \in CountedReaders' <=> pc'[v] \in {"unlock", "relock", "read"}
  BY DEF CountedReaders, ReadersIn
<1>4. CountedReaders \subseteq Readers /\ CountedReaders' \subseteq Readers
  BY DEF CountedReaders, ReadersIn
<1>5. CountedWriters' = CountedWriters
  BY <1>1 DEF CountedWriters, WritersIn
<1> QED
  BY <1>1, <1>2, <1>3, <1>4, <1>5

(* The mutex is taken, given up or left alone, as the code says. *)
LEMMA MutexStep ==
  ASSUME TypeOK, MutexOwner, NEW t \in Threads, NEW here, Goto(t, here),
         \/ single_mut = Nobody /\ single_mut' = t /\ here \in Holding
         \/ pc[t] \in Holding /\ single_mut' = Nobody /\ here \notin Holding
         \/ single_mut' = single_mut /\ (pc[t] \in Holding <=> here \in Holding)
  PROVE  MutexOwner'
PROOF
<1>1. pc'[t] = here /\ \A u \in Threads \ {t} : pc'[u] = pc[u]
  BY Moved
<1>2. CASE single_mut = Nobody /\ single_mut' = t /\ here \in Holding
  BY <1>1, <1>2, ThreadsFacts DEF MutexOwner
<1>3. CASE pc[t] \in Holding /\ single_mut' = Nobody /\ here \notin Holding
  BY <1>1, <1>3, ThreadsFacts DEF MutexOwner
<1>4. CASE single_mut' = single_mut /\ (pc[t] \in Holding <=> here \in Holding)
  BY <1>1, <1>4 DEF MutexOwner
<1> QED
  BY <1>2, <1>3, <1>4

(* Moves of a thread in its loop that stay in the loop and write nothing. *)
LEMMA LoopMove ==
  ASSUME Inv, NEW t \in Threads, NEW here \in Places \ {"none", "exited", "stop"}, Goto(t, here),
         pc[t] \notin {"none", "exited", "stop"},
         UNCHANGED <<value, i, created>>,
         reg' = reg \/ reg' = [reg EXCEPT ![t] = value],
         here = "store" => reg'[t] = value
  PROVE  /\ pc' \in [Threads -> Places] /\ reg' \in [Threads -> Nat]
         /\ NotCreated' /\ LoopBound' /\ NoLostIncrement' /\ ValueIsCount'
PROOF
<1>1. pc'[t] = here /\ \A u \in Threads \ {t} : pc'[u] = pc[u]
  BY Moved DEF Inv
<1>2. pc' \in [Threads -> Places] /\ reg' \in [Threads -> Nat]
  BY DEF Inv, TypeOK, Goto
<1>3. NotCreated' /\ LoopBound'
  BY <1>1 DEF Inv, NotCreated, LoopBound
<1>4. NoLostIncrement'
  <2>1. \A w \in Writers \ {t} : reg'[w] = reg[w] /\ pc'[w] = pc[w]
    BY <1>1, ThreadsFacts DEF Inv, TypeOK
  <2> QED
    BY <1>1, <2>1 DEF Inv, NoLostIncrement
<1>5. ValueIsCount'
  <2>1. \A w \in Writers : pc'[w] = "stop" <=> pc[w] = "stop"
    BY <1>1, ThreadsFacts
  <2>2. \A x \in Rounds : Stored(x)' <=> Stored(x)
    BY <2>1 DEF Rounds, Stored
  <2>3. Written' = Written
    BY <2>2 DEF Written
  <2> QED
    BY <2>3 DEF Inv, ValueIsCount
<1> QED
  BY <1>2, <1>3, <1>4, <1>5

(* ---- one lemma per kind of step ---- *)

(* The writer's steps that count nothing and write nothing. *)
LEMMA QuietWriterStep ==
  ASSUME Inv, NEW w \in Writers,
         AnnounceWriter(w) \/ UnlockWriter(w) \/ PassWriter(w) \/ EnterWriter(w) \/ Load(w)
  PROVE  Inv'
PROOF
<1> DEFINE here == CASE pc[w] = "announce" -> "lock"
                     [] pc[w] = "unlock" -> "gate"
                     [] pc[w] = "gate" -> "relock"
                     [] pc[w] = "relock" -> "load"
                     [] pc[w] = "load" -> "store"
<1>1. /\ w \in Threads /\ pc[w] \in {"announce", "unlock", "gate", "relock", "load"}
      /\ Goto(w, here)
      /\ UNCHANGED <<event_read, event_write, read_count, writ_count, value, i, created>>
  BY ThreadsFacts
  DEF AnnounceWriter, UnlockWriter, PassWriter, EnterWriter, Load, At, monitor
<1>2. /\ here \in Places \ {"none", "exited", "stop"}
      /\ here \in Counted <=> pc[w] \in Counted
  BY <1>1 DEF Places, Counted
<1>3. /\ reg' = reg \/ reg' = [reg EXCEPT ![w] = value]
      /\ here = "store" => reg'[w] = value
  BY <1>1 DEF AnnounceWriter, UnlockWriter, PassWriter, EnterWriter, Load, At, Inv, TypeOK
<1>4. \/ single_mut = Nobody /\ single_mut' = w /\ here \in Holding
      \/ pc[w] \in Holding /\ single_mut' = Nobody /\ here \notin Holding
      \/ single_mut' = single_mut /\ (pc[w] \in Holding <=> here \in Holding)
  BY DEF AnnounceWriter, UnlockWriter, PassWriter, EnterWriter, Load, At, monitor, Holding
<1> HIDE DEF here
<1>5. MutexOwner'
  BY <1>1, <1>4, MutexStep DEF Inv
<1>6. /\ pc' \in [Threads -> Places] /\ reg' \in [Threads -> Nat]
      /\ NotCreated' /\ LoopBound' /\ NoLostIncrement' /\ ValueIsCount'
  BY <1>1, <1>2, <1>3, LoopMove
<1>7. single_mut' \in Threads \cup {Nobody}
  BY <1>1, <1>4 DEF Inv, TypeOK
<1>8. TypeOK'
  BY <1>1, <1>6, <1>7 DEF Inv, TypeOK
<1>9. CountersMatchEvents'
  <2>1. w \in CountedWriters <=> pc[w] \in Counted
    BY DEF CountedWriters, WritersIn, Counted
  <2>2. CountedWriters' = CountedWriters /\ CountedReaders' = CountedReaders
    BY <1>1, <1>2, <2>1, WriterCounted DEF Inv
  <2> QED
    BY <1>1, <2>2 DEF Inv, CountersMatchEvents
<1> QED
  BY <1>5, <1>6, <1>8, <1>9 DEF Inv

(* StartWrite counts the writer and closes the gate of the readers. *)
LEMMA CountWriterStep ==
  ASSUME Inv, NEW w \in Writers, CountWriter(w)
  PROVE  Inv'
PROOF
<1>1. /\ w \in Threads /\ pc[w] = "lock" /\ Goto(w, "unlock")
      /\ single_mut = Nobody /\ single_mut' = w
      /\ event_read' = FALSE /\ writ_count' = (writ_count + 1) % UIntModulus
      /\ UNCHANGED <<event_write, read_count, value, i, reg, created>>
  BY ThreadsFacts DEF CountWriter, At
<1>2. MutexOwner'
  BY <1>1, MutexStep DEF Inv, Holding
<1>3. /\ pc' \in [Threads -> Places] /\ reg' \in [Threads -> Nat]
      /\ NotCreated' /\ LoopBound' /\ NoLostIncrement' /\ ValueIsCount'
  BY <1>1, LoopMove DEF Places
<1>4. /\ w \notin CountedWriters /\ CountedWriters' = CountedWriters \cup {w}
      /\ CountedReaders' = CountedReaders
  BY <1>1, WriterCounted DEF Inv, Counted, CountedWriters, WritersIn
<1>5. /\ Cardinality(CountedWriters') = Cardinality(CountedWriters) + 1
      /\ Cardinality(CountedWriters) < NWriters + NReaders
  <2>1. CountedWriters' \in SUBSET Writers
    BY <1>4 DEF CountedWriters, WritersIn
  <2>2. Cardinality(CountedWriters') = Cardinality(CountedWriters) + 1
    BY <1>4, CountsFinite, FS_AddElement
  <2>3. Cardinality(CountedWriters') <= NWriters
    BY <2>1, ThreadsFinite, FS_Subset
  <2> QED
    BY <2>2, <2>3, CountsFinite, ConstAssumption
<1>6. writ_count' = writ_count + 1 /\ writ_count \in Nat /\ writ_count = Cardinality(CountedWriters)
  <2>1. writ_count = Cardinality(CountedWriters)
    BY DEF Inv, CountersMatchEvents
  <2>2. writ_count \in Nat /\ writ_count < NWriters + NReaders
    BY <1>5, <2>1, CountsFinite
  <2> QED
    BY <1>1, <2>1, <2>2, NoWrap
<1>7. CountersMatchEvents'
  <2>1. writ_count' = Cardinality(CountedWriters') /\ writ_count' # 0
    BY <1>5, <1>6
  <2>2. read_count' = Cardinality(CountedReaders') /\ event_write' = (read_count' = 0)
    BY <1>1, <1>4 DEF Inv, CountersMatchEvents
  <2> QED
    BY <1>1, <2>1, <2>2 DEF CountersMatchEvents
<1>8. TypeOK'
  <2>1. single_mut' \in Threads \cup {Nobody} /\ event_read' \in BOOLEAN
    BY <1>1
  <2>2. writ_count' \in Nat
    BY <1>6
  <2>3. UNCHANGED <<event_write, read_count, value, i, created>>
    BY <1>1
  <2> QED
    BY <1>3, <2>1, <2>2, <2>3 DEF Inv, TypeOK
<1> QED
  BY <1>2, <1>3, <1>7, <1>8 DEF Inv

(* The store of ++value: nobody else has written since the load, and the   *)
(* round it stores was not counted yet.                                    *)
LEMMA StoreStep ==
  ASSUME Inv, NEW w \in Writers, Store(w)
  PROVE  /\ Inv'
         /\ value' = (value + 1) % (NWriters * Iter + 1)
PROOF
<1>1. /\ w \in Threads /\ pc[w] = "store" /\ Goto(w, "stop") /\ value' = value + 1
      /\ UNCHANGED <<single_mut, event_read, event_write, read_count, writ_count, i, reg, created>>
      /\ value \in Nat /\ i[w] \in 0..Iter /\ i[w] < Iter
  <2>1. /\ w \in Threads /\ pc[w] = "store" /\ Goto(w, "stop") /\ value' = reg[w] + 1
        /\ UNCHANGED <<single_mut, event_read, event_write, read_count, writ_count, i, reg, created>>
    BY ThreadsFacts DEF Store, At, monitor
  <2>2. reg[w] = value
    BY <2>1 DEF Inv, NoLostIncrement
  <2>3. value \in Nat /\ i[w] \in 0..Iter /\ i[w] < Iter
    BY <2>1 DEF Inv, TypeOK, LoopBound
  <2> QED
    BY <2>1, <2>2, <2>3
<1>2. pc'[w] = "stop" /\ \A u \in Threads \ {w} : pc'[u] = pc[u]
  BY <1>1, Moved DEF Inv
<1>3. MutexOwner'
  BY <1>1, MutexStep DEF Inv, Holding
<1>4. TypeOK'
  BY <1>1 DEF Inv, TypeOK, Goto, Places
<1>5. NotCreated' /\ LoopBound'
  BY <1>1, <1>2 DEF Inv, NotCreated, LoopBound
<1>6. NoLostIncrement'
  <2>1. \A v \in Writers \ {w} : pc'[v] # "store"
    BY <1>1, <1>2, ThreadsFacts DEF Inv, MutexOwner, Holding
  <2> QED
    BY <1>2, <2>1 DEF NoLostIncrement
<1>7. CountersMatchEvents'
  <2>1. CountedWriters' = CountedWriters /\ CountedReaders' = CountedReaders
    BY <1>1, WriterCounted DEF Inv, CountedWriters, WritersIn, Counted
  <2> QED
    BY <1>1, <2>1 DEF Inv, CountersMatchEvents
<1>8. <<w, i[w] + 1>> \in Rounds \ Written
  <2>1. i[w] + 1 \in 1..Iter /\ ~(i[w] + 1 <= i[w])
    BY <1>1, ConstAssumption
  <2>2. <<w, i[w] + 1>> \in Rounds
    BY <2>1 DEF Rounds
  <2>3. ~Stored(<<w, i[w] + 1>>)
    BY <1>1, <2>1 DEF Stored
  <2> QED
    BY <2>2, <2>3 DEF Written
<1>9. Written' = Written \cup {<<w, i[w] + 1>>}
  <2>1. ASSUME NEW x \in Rounds
        PROVE  Stored(x)' <=> Stored(x) \/ x = <<w, i[w] + 1>>
    <3>0. x = <<x[1], x[2]>> /\ x[1] \in Writers
      BY DEF Rounds
    <3>1. x = <<x[1], x[2]>> /\ x[1] \in Writers /\ x[1] \in Threads /\ i' = i
      BY <1>1, <3>0, ThreadsFacts
    <3>2. CASE x[1] = w
      <4>1. x = <<w, i[w] + 1>> <=> x[2] = i[w] + 1
        BY <3>1, <3>2
      <4> QED
        BY <1>1, <1>2, <3>1, <3>2, <4>1 DEF Stored
    <3>3. CASE x[1] # w
      <4>1. x # <<w, i[w] + 1>> /\ pc'[x[1]] = pc[x[1]]
        BY <1>2, <3>1, <3>3
      <4> QED
        BY <3>1, <4>1 DEF Stored
    <3> QED
      BY <3>2, <3>3
  <2> QED
    BY <1>8, <2>1 DEF Written
<1>10. /\ IsFiniteSet(Written) /\ Cardinality(Written) < NWriters * Iter
       /\ Cardinality(Written') = Cardinality(Written) + 1
  <2>1. Written \in SUBSET Rounds /\ Written' \in SUBSET Rounds
    BY <1>8, <1>9 DEF Written
  <2>2. IsFiniteSet(Written) /\ Cardinality(Written') <= NWriters * Iter
    <3>1. /\ IsFiniteSet(Written) /\ IsFiniteSet(Written')
          /\ Cardinality(Written') <= Cardinality(Rounds)
      BY <2>1, RoundsFacts, FS_Subset
    <3>2. Cardinality(Written') \in Nat
      BY <3>1, FS_CardinalityType
    <3> QED
      BY <3>1, <3>2, RoundsFacts
  <2>3. Cardinality(Written') = Cardinality(Written) + 1 /\ Cardinality(Written) \in Nat
    BY <1>8, <1>9, <2>2, FS_AddElement, FS_CardinalityType
  <2> QED
    BY <2>2, <2>3, RoundsFacts
<1>11. ValueIsCount'
  BY <1>1, <1>10 DEF Inv, ValueIsCount
<1>12. value' = (value + 1) % (NWriters * Iter + 1)
  <2> DEFINE m == NWriters * Iter
  <2>1. m \in Nat /\ value + 1 \in 0..m
    BY <1>1, <1>10, RoundsFacts DEF Inv, ValueIsCount
  <2> HIDE DEF m
  <2>2. (value + 1) % (m + 1) = value + 1
    BY <2>1
  <2> QED
    BY <1>1, <2>2 DEF m
<1> QED
  BY <1>3, <1>4, <1>5, <1>6, <1>7, <1>11, <1>12 DEF Inv

(* A thread that leaves its section goes to its next round or ends: what   *)
(* StopWrite and StopRead share.                                           *)
LEMMA RoundEnds ==
  ASSUME Inv, NEW t \in Threads, pc[t] \in {"stop", "read"}, Goto(t, Loop(i[t] + 1)),
         t \in Writers => pc[t] = "stop",
         single_mut' = Nobody, i' = [i EXCEPT ![t] = @ + 1], UNCHANGED <<value, reg, created>>
  PROVE  /\ pc' \in [Threads -> Places] /\ i' \in [Threads -> 0..Iter]
         /\ NotCreated' /\ MutexOwner' /\ LoopBound' /\ NoLostIncrement' /\ ValueIsCount'
PROOF
<1>1. i[t] \in 0..Iter /\ i[t] < Iter /\ Iter \in Nat
  BY ConstAssumption DEF Inv, TypeOK, LoopBound
<1>2. /\ Loop(i[t] + 1) \in {"announce", "exited"}
      /\ Loop(i[t] + 1) = "announce" => i[t] + 1 < Iter
  BY DEF Loop
<1>3. /\ pc'[t] \in {"announce", "exited"} /\ \A u \in Threads \ {t} : pc'[u] = pc[u]
      /\ pc'[t] = "announce" => i[t] + 1 < Iter
  BY <1>2, Moved DEF Inv
<1>4. i'[t] = i[t] + 1 /\ (\A u \in Threads \ {t} : i'[u] = i[u]) /\ i' \in [Threads -> 0..Iter]
  BY <1>1 DEF Inv, TypeOK
<1>5. pc' \in [Threads -> Places]
  BY <1>2 DEF Inv, TypeOK, Goto, Places
<1>6. NotCreated' /\ LoopBound'
  BY <1>3, <1>4 DEF Inv, NotCreated, LoopBound
<1>7. MutexOwner'
  BY <1>2, MutexStep DEF Inv, Holding
<1>8. NoLostIncrement'
  BY <1>3, ThreadsFacts DEF Inv, NoLostIncrement
<1>9. ValueIsCount'
  <2>1. ASSUME NEW x \in Rounds
        PROVE  Stored(x)' <=> Stored(x)
    <3>1. x[1] \in Writers /\ x[2] \in Nat
      BY ConstAssumption DEF Rounds
    <3>2. x[1] \in Threads /\ i[x[1]] \in Nat
      <4>1. \A u \in Threads : i[u] \in Nat
        BY ConstAssumption DEF Inv, TypeOK
      <4>2. x[1] \in Threads
        BY <3>1, ThreadsFacts
      <4> QED
        BY <4>1, <4>2
    <3>3. CASE x[1] = t
      BY <1>1, <1>3, <1>4, <3>1, <3>2, <3>3 DEF Stored
    <3>4. CASE x[1] # t
      <4>1. pc'[x[1]] = pc[x[1]] /\ i'[x[1]] = i[x[1]]
        BY <1>3, <1>4, <3>2, <3>4
      <4> QED
        BY <4>1 DEF Stored
    <3> QED
      BY <3>3, <3>4
  <2>2. Written' = Written
    BY <2>1 DEF Written
  <2> QED
    BY <2>2 DEF Inv, ValueIsCount
<1> QED
  BY <1>4, <1>5, <1>6, <1>7, <1>8, <1>9

(* StopWrite: the last writer counted opens the gate of the readers.       *)
LEMMA StopWriteStep ==
  ASSUME Inv, NEW w \in Writers, StopWrite(w)
  PROVE  Inv'
PROOF
<1>1. /\ w \in Threads /\ pc[w] = "stop" /\ Goto(w, Loop(i[w] + 1)) /\ single_mut' = Nobody
      /\ i' = [i EXCEPT ![w] = @ + 1]
      /\ writ_count' = (writ_count - 1) % UIntModulus
      /\ event_read' = (event_read \/ writ_count' = 0)
      /\ UNCHANGED <<event_write, read_count, value, reg, created>>
  BY ThreadsFacts DEF StopWrite, At
<1>2. /\ pc' \in [Threads -> Places] /\ i' \in [Threads -> 0..Iter]
      /\ NotCreated' /\ MutexOwner' /\ LoopBound' /\ NoLostIncrement' /\ ValueIsCount'
  BY <1>1, RoundEnds
<1>3. /\ w \in CountedWriters /\ CountedWriters' = CountedWriters \ {w}
      /\ CountedReaders' = CountedReaders
  BY <1>1, WriterCounted DEF Inv, Counted, CountedWriters, WritersIn, Loop
<1>4. /\ Cardinality(CountedWriters') = Cardinality(CountedWriters) - 1
      /\ Cardinality(CountedWriters') \in Nat
      /\ Cardinality(CountedWriters') < NWriters + NReaders
  <2>1. Cardinality(CountedWriters') = Cardinality(CountedWriters) - 1
    BY <1>3, CountsFinite, FS_RemoveElement
  <2>2. Cardinality(CountedWriters) # 0
    BY <1>3, CountsFinite
  <2> QED
    BY <2>1, <2>2, CountsFinite, ConstAssumption
<1>5. writ_count' = Cardinality(CountedWriters') /\ writ_count # 0
  <2> DEFINE k == Cardinality(CountedWriters')
  <2>1. k \in Nat /\ k < NWriters + NReaders /\ writ_count = k + 1
    BY <1>4, CountsFinite DEF Inv, CountersMatchEvents
  <2> HIDE DEF k
  <2>2. ((k + 1) - 1) % UIntModulus = k
    BY <2>1, NoWrap
  <2>3. writ_count' = k
    BY <1>1, <2>1, <2>2
  <2> QED
    BY <2>1, <2>3 DEF k
<1>6. CountersMatchEvents'
  <2>1. event_read = FALSE
    BY <1>5 DEF Inv, CountersMatchEvents
  <2>2. event_read' = (writ_count' = 0)
    BY <1>1, <2>1
  <2>3. read_count' = Cardinality(CountedReaders') /\ event_write' = (read_count' = 0)
    BY <1>1, <1>3 DEF Inv, CountersMatchEvents
  <2> QED
    BY <1>5, <2>2, <2>3 DEF CountersMatchEvents
<1>7. TypeOK'
  <2>1. single_mut' \in Threads \cup {Nobody} /\ event_read' \in BOOLEAN
    BY <1>1, <1>6 DEF CountersMatchEvents
  <2>2. writ_count' \in Nat
    BY <1>4, <1>5
  <2>3. UNCHANGED <<event_write, read_count, value, reg, created>>
    BY <1>1
  <2> QED
    BY <1>2, <2>1, <2>2, <2>3 DEF Inv, TypeOK
<1> QED
  BY <1>2, <1>6, <1>7 DEF Inv

(* The reader's steps that count nothing. *)
LEMMA QuietReaderStep ==
  ASSUME Inv, NEW r \in Readers,
         AnnounceReader(r) \/ PassReader(r) \/ UnlockReader(r) \/ EnterReader(r)
  PROVE  Inv'
PROOF
<1> DEFINE here == CASE pc[r] = "announce" -> "gate"
                     [] pc[r] = "gate" -> "lock"
                     [] pc[r] = "unlock" -> "relock"
                     [] pc[r] = "relock" -> "read"
<1>1. /\ r \in Threads /\ pc[r] \in {"announce", "gate", "unlock", "relock"}
      /\ Goto(r, here)
      /\ UNCHANGED <<event_read, event_write, read_count, writ_count, value, i, reg, created>>
  BY ThreadsFacts DEF AnnounceReader, PassReader, UnlockReader, EnterReader, At, monitor
<1>2. /\ here \in Places \ {"none", "exited", "stop", "store"}
      /\ here \in {"unlock", "relock", "read"} <=> pc[r] \in {"unlock", "relock", "read"}
  BY <1>1 DEF Places
<1>3. \/ single_mut = Nobody /\ single_mut' = r /\ here \in Holding
      \/ pc[r] \in Holding /\ single_mut' = Nobody /\ here \notin Holding
      \/ single_mut' = single_mut /\ (pc[r] \in Holding <=> here \in Holding)
  BY DEF AnnounceReader, PassReader, UnlockReader, EnterReader, At, monitor, Holding
<1> HIDE DEF here
<1>4. MutexOwner'
  BY <1>1, <1>3, MutexStep DEF Inv
<1>5. /\ pc' \in [Threads -> Places] /\ reg' \in [Threads -> Nat]
      /\ NotCreated' /\ LoopBound' /\ NoLostIncrement' /\ ValueIsCount'
  BY <1>1, <1>2, LoopMove
<1>6. single_mut' \in Threads \cup {Nobody}
  BY <1>1, <1>3 DEF Inv, TypeOK
<1>7. TypeOK'
  BY <1>1, <1>5, <1>6 DEF Inv, TypeOK
<1>8. CountersMatchEvents'
  <2>1. r \in CountedReaders <=> pc[r] \in {"unlock", "relock", "read"}
    BY DEF CountedReaders, ReadersIn
  <2>2. CountedWriters' = CountedWriters /\ CountedReaders' = CountedReaders
    BY <1>1, <1>2, <2>1, ReaderCounted DEF Inv
  <2> QED
    BY <1>1, <2>2 DEF Inv, CountersMatchEvents
<1> QED
  BY <1>4, <1>5, <1>7, <1>8 DEF Inv

(* StartRead counts the reader and closes the gate of the writers. *)
LEMMA CountReaderStep ==
  ASSUME Inv, NEW r \in Readers, CountReader(r)
  PROVE  Inv'
PROOF
<1>1. /\ r \in Threads /\ pc[r] = "lock" /\ Goto(r, "unlock")
      /\ single_mut = Nobody /\ single_mut' = r
      /\ event_write' = FALSE /\ read_count' = (read_count + 1) % UIntModulus
      /\ UNCHANGED <<event_read, writ_count, value, i, reg, created>>
  BY ThreadsFacts DEF CountReader, At
<1>2. MutexOwner'
  BY <1>1, MutexStep DEF Inv, Holding
<1>3. /\ pc' \in [Threads -> Places] /\ reg' \in [Threads -> Nat]
      /\ NotCreated' /\ LoopBound' /\ NoLostIncrement' /\ ValueIsCount'
  BY <1>1, LoopMove DEF Places
<1>4. /\ r \notin CountedReaders /\ CountedReaders' = CountedReaders \cup {r}
      /\ CountedWriters' = CountedWriters
  BY <1>1, ReaderCounted DEF Inv, CountedReaders, ReadersIn
<1>5. /\ Cardinality(CountedReaders') = Cardinality(CountedReaders) + 1
      /\ Cardinality(CountedReaders) < NWriters + NReaders
  <2>1. CountedReaders' \in SUBSET Readers
    BY <1>4 DEF CountedReaders, ReadersIn
  <2>2. Cardinality(CountedReaders') = Cardinality(CountedReaders) + 1
    BY <1>4, CountsFinite, FS_AddElement
  <2>3. Cardinality(CountedReaders') <= NReaders
    BY <2>1, ThreadsFinite, FS_Subset
  <2> QED
    BY <2>2, <2>3, CountsFinite, ConstAssumption
<1>6. read_count' = read_count + 1 /\ read_count \in Nat /\ read_count = Cardinality(CountedReaders)
  <2>1. read_count = Cardinality(CountedReaders)
    BY DEF Inv, CountersMatchEvents
  <2>2. read_count \in Nat /\ read_count < NWriters + NReaders
    BY <1>5, <2>1, CountsFinite
  <2> QED
    BY <1>1, <2>1, <2>2, NoWrap
<1>7. CountersMatchEvents'
  <2>1. read_count' = Cardinality(CountedReaders') /\ read_count' # 0
    BY <1>5, <1>6
  <2>2. writ_count' = Cardinality(CountedWriters') /\ event_read' = (writ_count' = 0)
    BY <1>1, <1>4 DEF Inv, CountersMatchEvents
  <2> QED
    BY <1>1, <2>1, <2>2 DEF CountersMatchEvents
<1>8. TypeOK'
  <2>1. single_mut' \in Threads \cup {Nobody} /\ event_write' \in BOOLEAN
    BY <1>1
  <2>2. read_count' \in Nat
    BY <1>6
  <2>3. UNCHANGED <<event_read, writ_count, value, i, created>>
    BY <1>1
  <2> QED
    BY <1>3, <2>1, <2>2, <2>3 DEF Inv, TypeOK
<1> QED
  BY <1>2, <1>3, <1>7, <1>8 DEF Inv

(* StopRead: the last reader counted opens the gate of the writers. *)
LEMMA StopReadStep ==
  ASSUME Inv, NEW r \in Readers, StopRead(r)
  PROVE  Inv'
PROOF
<1>1. /\ r \in Threads /\ pc[r] = "read" /\ Goto(r, Loop(i[r] + 1)) /\ single_mut' = Nobody
      /\ i' = [i EXCEPT ![r] = @ + 1]
      /\ read_count' = (read_count - 1) % UIntModulus
      /\ event_write' = (event_write \/ read_count' = 0)
      /\ UNCHANGED <<event_read, writ_count, value, reg, created>>
  BY ThreadsFacts DEF StopRead, At
<1>2. /\ pc' \in [Threads -> Places] /\ i' \in [Threads -> 0..Iter]
      /\ NotCreated' /\ MutexOwner' /\ LoopBound' /\ NoLostIncrement' /\ ValueIsCount'
  BY <1>1, RoundEnds, ThreadsFacts
<1>3. /\ r \in CountedReaders /\ CountedReaders' = CountedReaders \ {r}
      /\ CountedWriters' = CountedWriters
  BY <1>1, ReaderCounted DEF Inv, CountedReaders, ReadersIn, Loop
<1>4. /\ Cardinality(CountedReaders') = Cardinality(CountedReaders) - 1
      /\ Cardinality(CountedReaders') \in Nat
      /\ Cardinality(CountedReaders') < NWriters + NReaders
  <2>1. Cardinality(CountedReaders') = Cardinality(CountedReaders) - 1
    BY <1>3, CountsFinite, FS_RemoveElement
  <2>2. Cardinality(CountedReaders) # 0
    BY <1>3, CountsFinite
  <2> QED
    BY <2>1, <2>2, CountsFinite, ConstAssumption
<1>5. read_count' = Cardinality(CountedReaders') /\ read_count # 0
  <2> DEFINE k == Cardinality(CountedReaders')
  <2>1. k \in Nat /\ k < NWriters + NReaders /\ read_count = k + 1
    BY <1>4, CountsFinite DEF Inv, CountersMatchEvents
  <2> HIDE DEF k
  <2>2. ((k + 1) - 1) % UIntModulus = k
    BY <2>1, NoWrap
  <2>3. read_count' = k
    BY <1>1, <2>1, <2>2
  <2> QED
    BY <2>1, <2>3 DEF k
<1>6. CountersMatchEvents'
  <2>1. event_write = FALSE
    BY <1>5 DEF Inv, CountersMatchEvents
  <2>2. event_write' = (read_count' = 0)
    BY <1>1, <2>1
  <2>3. writ_count' = Cardinality(CountedWriters') /\ event_read' = (writ_count' = 0)
    BY <1>1, <1>3 DEF Inv, CountersMatchEvents
  <2> QED
    BY <1>5, <2>2, <2>3 DEF CountersMatchEvents
<1>7. TypeOK'
  <2>1. single_mut' \in Threads \cup {Nobody} /\ event_write' \in BOOLEAN
    BY <1>1, <1>6 DEF CountersMatchEvents
  <2>2. read_count' \in Nat
    BY <1>4, <1>5
  <2>3. UNCHANGED <<event_read, writ_count, value, reg, created>>
    BY <1>1
  <2> QED
    BY <1>2, <2>1, <2>2, <2>3 DEF Inv, TypeOK
<1> QED
  BY <1>2, <1>6, <1>7 DEF Inv

(* main creates the next thread, or fails to. *)
LEMMA CreateStep ==
  ASSUME Inv, CreateThread
  PROVE  Inv' /\ \A t \in Threads : pc'[t] = pc[t] \/ (pc[t] = "none" /\ pc'[t] \in {"announce", "exited"})
PROOF
<1>1. /\ created \in Nat /\ created < NThreads /\ created' = created + 1 /\ created + 1 \in Threads
      /\ pc[created + 1] = "none"
      /\ UNCHANGED <<single_mut, event_read, event_write, read_count, writ_count, value, i, reg>>
  BY ThreadsFacts DEF CreateThread, Inv, TypeOK, NotCreated, monitor
<1>2. \/ Goto(created + 1, "announce") /\ 0 < Iter
      \/ Goto(created + 1, "exited")
      \/ UNCHANGED pc
  BY DEF CreateThread, Loop
<1>3. /\ \A t \in Threads : \/ pc'[t] = pc[t]
                            \/ pc[t] = "none" /\ pc'[t] = "announce" /\ t = created + 1 /\ 0 < Iter
                            \/ pc[t] = "none" /\ pc'[t] = "exited" /\ t = created + 1
      /\ pc' \in [Threads -> Places]
  BY <1>1, <1>2 DEF Inv, TypeOK, Goto, Places
<1>4. TypeOK'
  BY <1>1, <1>3, ThreadsFacts DEF Inv, TypeOK
<1>5. NotCreated'
  BY <1>1, <1>3, ThreadsFacts DEF Inv, NotCreated
<1>6. MutexOwner'
  BY <1>1, <1>3 DEF Inv, MutexOwner, Holding
<1>7. CountersMatchEvents'
  <2>1. CountedWriters' = CountedWriters
    BY <1>3, ThreadsFacts DEF CountedWriters, WritersIn
  <2>2. CountedReaders' = CountedReaders
    BY <1>3, ThreadsFacts DEF CountedReaders, ReadersIn
  <2> QED
    BY <1>1, <2>1, <2>2 DEF Inv, CountersMatchEvents
<1>8. LoopBound'
  <2>1. \A t \in Threads : pc[t] = "none" /\ pc'[t] = "announce" => i[t] < Iter
    BY <1>3 DEF Inv, LoopBound
  <2> QED
    BY <1>1, <1>3, <2>1 DEF Inv, LoopBound
<1>9. NoLostIncrement'
  BY <1>1, <1>3, ThreadsFacts DEF Inv, NoLostIncrement
<1>10. ValueIsCount'
  <2>1. \A w \in Writers : pc'[w] = "stop" <=> pc[w] = "stop"
    BY <1>3, ThreadsFacts
  <2>2. \A x \in Rounds : Stored(x)' <=> Stored(x)
    BY <1>1, <2>1 DEF Rounds, Stored
  <2>3. Written' = Written
    BY <2>2 DEF Written
  <2> QED
    BY <1>1, <2>3 DEF Inv, ValueIsCount
<1> QED
  BY <1>3, <1>4, <1>5, <1>6, <1>7, <1>8, <1>9, <1>10 DEF Inv

(* main waits, and what changes nothing. *)
LEMMA WaitStep ==
  ASSUME Inv, WaitWriters \/ WaitReaders \/ UNCHANGED vars
  PROVE  Inv' /\ UNCHANGED <<pc, value>>
PROOF
<1>1. UNCHANGED <<single_mut, event_read, event_write, read_count, writ_count, value,
                  pc, i, reg, created>>
  BY DEF WaitWriters, WaitReaders, vars, monitor
<1>2. TypeOK' /\ NotCreated' /\ MutexOwner' /\ LoopBound' /\ NoLostIncrement'
  BY <1>1 DEF Inv, TypeOK, NotCreated, MutexOwner, LoopBound, NoLostIncrement
<1>3. CountersMatchEvents'
  BY <1>1 DEF Inv, CountersMatchEvents, CountedWriters, CountedReaders, WritersIn, ReadersIn
<1>4. ValueIsCount'
  BY <1>1 DEF Inv, ValueIsCount, Written, Stored
<1> QED
  BY <1>1, <1>2, <1>3, <1>4 DEF Inv

(* ---- the theorems ---- *)

LEMMA InitInv == Init => Inv
PROOF
<1> SUFFICES ASSUME Init PROVE Inv
  OBVIOUS
<1>1. TypeOK
  BY ThreadsFacts, ConstAssumption DEF Init, TypeOK, Places
<1>2. NotCreated /\ LoopBound /\ NoLostIncrement
  BY ThreadsFacts DEF Init, NotCreated, LoopBound, NoLostIncrement
<1>3. MutexOwner
  BY ThreadsFacts DEF Init, MutexOwner, Holding
<1>4. CountersMatchEvents
  <2>1. CountedWriters = {}
    BY ThreadsFacts DEF Init, CountedWriters, WritersIn
  <2>2. CountedReaders = {}
    BY ThreadsFacts DEF Init, CountedReaders, ReadersIn
  <2> QED
    BY <2>1, <2>2, FS_EmptySet DEF Init, CountersMatchEvents
<1>5. ValueIsCount
  <2>1. ASSUME NEW x \in Rounds PROVE ~Stored(x)
    <3>1. x[1] \in Writers /\ x[2] \in Nat /\ x[2] >= 1
      BY ConstAssumption DEF Rounds
    <3>2. i[x[1]] = 0 /\ pc[x[1]] = "none"
      BY <3>1, ThreadsFacts DEF Init
    <3> QED
      BY <3>1, <3>2 DEF Stored
  <2>2. Written = {}
    BY <2>1 DEF Written
  <2> QED
    BY <2>2, FS_EmptySet DEF Init, ValueIsCount
<1> QED
  BY <1>1, <1>2, <1>3, <1>4, <1>5 DEF Inv

LEMMA NextInv == Inv /\ [Next]_vars => Inv'
PROOF
<1> SUFFICES ASSUME Inv, [Next]_vars PROVE Inv'
  OBVIOUS
<1>1. CASE CreateThread
  BY <1>1, CreateStep
<1>2. CASE WaitWriters \/ WaitReaders \/ UNCHANGED vars
  BY <1>2, WaitStep
<1>3. ASSUME NEW w \in Writers, Writer(w) PROVE Inv'
  BY <1>3, QuietWriterStep, CountWriterStep, StoreStep, StopWriteStep DEF Writer
<1>4. ASSUME NEW r \in Readers, Reader(r) PROVE Inv'
  BY <1>4, QuietReaderStep, CountReaderStep, StopReadStep DEF Reader
<1> QED
  BY <1>1, <1>2, <1>3, <1>4 DEF Next, Main, Ended

(* The inductive invariant holds in every behaviour of main.cpp. *)
THEOREM Invariance == Spec => []Inv
PROOF BY InitInv, NextInv, PTL DEF Spec

(* The unsigned counters never wrap, and each event is signaled exactly    *)
(* while the counter of the other side is zero, though it is set and reset *)
(* by several threads.                                                     *)
THEOREM EventsFollowCounters == Spec => []CountersMatchEvents
PROOF BY Invariance, PTL DEF Inv

(* Between the load and the store of ++value nobody else stores.           *)
THEOREM IncrementsAreAtomic == Spec => []NoLostIncrement
PROOF BY Invariance, PTL DEF Inv

(* ---- the abstract readers-writer lock ---- *)

Pending  == {w \in Writers : pc[w] \in {"load", "store"}}
LockVars == <<ReadersIn, WritersIn, Pending, value>>

(* Who is inside after a step of w or r. *)
LEMMA WriterInside ==
  ASSUME TypeOK, NEW w \in Writers, NEW here, Goto(w, here)
  PROVE  /\ ReadersIn' = ReadersIn
         /\ here \in {"load", "store", "stop"} => WritersIn' = WritersIn \cup {w}
         /\ here \notin {"load", "store", "stop"} => WritersIn' = WritersIn \ {w}
         /\ here \in {"load", "store"} => Pending' = Pending \cup {w}
         /\ here \notin {"load", "store"} => Pending' = Pending \ {w}
PROOF
<1>1. /\ pc'[w] = here /\ \A v \in Writers \ {w} : pc'[v] = pc[v]
      /\ \A r \in Readers : pc'[r] = pc[r]
  BY ThreadsFacts, Moved
<1>2. ReadersIn' = ReadersIn
  BY <1>1 DEF ReadersIn
<1>3. /\ here \in {"load", "store", "stop"} => WritersIn' = WritersIn \cup {w}
      /\ here \notin {"load", "store", "stop"} => WritersIn' = WritersIn \ {w}
  BY <1>1 DEF WritersIn
<1>4. /\ here \in {"load", "store"} => Pending' = Pending \cup {w}
      /\ here \notin {"load", "store"} => Pending' = Pending \ {w}
  BY <1>1 DEF Pending
<1> QED
  BY <1>2, <1>3, <1>4

LEMMA ReaderInside ==
  ASSUME TypeOK, NEW r \in Readers, NEW here, Goto(r, here)
  PROVE  /\ WritersIn' = WritersIn /\ Pending' = Pending
         /\ here = "read" => ReadersIn' = ReadersIn \cup {r}
         /\ here # "read" => ReadersIn' = ReadersIn \ {r}
PROOF
<1>1. /\ pc'[r] = here /\ \A v \in Readers \ {r} : pc'[v] = pc[v]
      /\ \A w \in Writers : pc'[w] = pc[w]
  BY ThreadsFacts, Moved
<1>2. WritersIn' = WritersIn /\ Pending' = Pending
  BY <1>1 DEF WritersIn, Pending
<1>3. /\ here = "read" => ReadersIn' = ReadersIn \cup {r}
      /\ here # "read" => ReadersIn' = ReadersIn \ {r}
  BY <1>1 DEF ReadersIn
<1> QED
  BY <1>2, <1>3

(* The mutex is held throughout both sections, so the one inside is alone. *)
LEMMA InsideHolds ==
  ASSUME Inv
  PROVE  /\ \A w \in WritersIn : single_mut = w
         /\ \A r \in ReadersIn : single_mut = r
         /\ single_mut = Nobody => WritersIn = {} /\ ReadersIn = {}
         /\ Pending \subseteq WritersIn
PROOF
<1>1. \A t \in Threads : single_mut = t <=> pc[t] \in Holding
  BY DEF Inv, MutexOwner
<1>2. \A w \in WritersIn : single_mut = w
  BY <1>1, ThreadsFacts DEF WritersIn, Holding
<1>3. \A r \in ReadersIn : single_mut = r
  BY <1>1, ThreadsFacts DEF ReadersIn, Holding
<1>4. Pending \subseteq WritersIn
  BY DEF Pending, WritersIn
<1>5. single_mut = Nobody => WritersIn = {} /\ ReadersIn = {}
  BY <1>2, <1>3, ThreadsFacts DEF WritersIn, ReadersIn
<1> QED
  BY <1>2, <1>3, <1>4, <1>5

(* Every step of the program is a step of the lock or leaves it alone. *)
LEMMA StepIsLockStep == Inv /\ [Next]_vars => [Lock!Next]_LockVars
PROOF
<1> SUFFICES ASSUME Inv, [Next]_vars PROVE [Lock!Next]_LockVars
  OBVIOUS
<1>0. TypeOK
  BY DEF Inv
<1>1. CASE CreateThread
  <2>1. \A t \in Threads : pc'[t] = pc[t] \/ (pc[t] = "none" /\ pc'[t] \in {"announce", "exited"})
    BY <1>1, CreateStep
  <2>2. WritersIn' = WritersIn /\ ReadersIn' = ReadersIn /\ Pending' = Pending
    BY <2>1, ThreadsFacts DEF WritersIn, ReadersIn, Pending
  <2> QED
    BY <1>1, <2>2 DEF LockVars, CreateThread
<1>2. CASE WaitWriters \/ WaitReaders \/ UNCHANGED vars
  BY <1>2, WaitStep DEF LockVars, WritersIn, ReadersIn, Pending
<1>3. ASSUME NEW w \in Writers, EnterWriter(w) PROVE Lock!BeginWrite(w)
  <2>1. WritersIn = {} /\ ReadersIn = {} /\ Pending = {}
    BY <1>3, InsideHolds DEF EnterWriter
  <2>2. WritersIn' = {w} /\ ReadersIn' = {} /\ Pending' = {w} /\ value' = value
    BY <1>0, <1>3, <2>1, WriterInside DEF EnterWriter
  <2> QED
    BY <2>1, <2>2 DEF Lock!BeginWrite, Pending
<1>4. ASSUME NEW w \in Writers, Store(w) PROVE Lock!Write(w)
  <2>1. w \in Pending /\ w \in WritersIn
    BY <1>4 DEF Store, At, Pending, WritersIn
  <2>2. WritersIn' = WritersIn /\ ReadersIn' = ReadersIn /\ Pending' = Pending \ {w}
    BY <1>0, <1>4, <2>1, WriterInside DEF Store
  <2>3. value' = (value + 1) % (NWriters * Iter + 1)
    BY <1>4, StoreStep
  <2> QED
    BY <2>1, <2>2, <2>3 DEF Lock!Write, Pending
<1>5. ASSUME NEW w \in Writers, StopWrite(w) PROVE Lock!EndWrite(w)
  <2>1. w \in WritersIn \ Pending
    BY <1>5 DEF StopWrite, At, Pending, WritersIn
  <2>2. Loop(i[w] + 1) \in {"announce", "exited"}
    BY DEF Loop
  <2>3. WritersIn' = WritersIn \ {w} /\ ReadersIn' = ReadersIn /\ Pending' = Pending /\ value' = value
    BY <1>0, <1>5, <2>1, <2>2, WriterInside DEF StopWrite
  <2> QED
    BY <2>1, <2>3 DEF Lock!EndWrite, Pending
<1>6. ASSUME NEW w \in Writers,
             AnnounceWriter(w) \/ CountWriter(w) \/ UnlockWriter(w) \/ PassWriter(w) \/ Load(w)
      PROVE  UNCHANGED LockVars
  <2>1. CASE Load(w)
    <3>1. w \in WritersIn /\ w \in Pending /\ Goto(w, "store") /\ value' = value
      BY <2>1 DEF Load, At, WritersIn, Pending
    <3> QED
      BY <1>0, <3>1, WriterInside DEF LockVars
  <2>2. CASE AnnounceWriter(w) \/ CountWriter(w) \/ UnlockWriter(w) \/ PassWriter(w)
    <3>1. /\ w \notin WritersIn /\ w \notin Pending /\ value' = value
          /\ Goto(w, "lock") \/ Goto(w, "unlock") \/ Goto(w, "gate") \/ Goto(w, "relock")
      BY <2>2 DEF AnnounceWriter, CountWriter, UnlockWriter, PassWriter, At, WritersIn, Pending
    <3> QED
      BY <1>0, <3>1, WriterInside DEF LockVars
  <2> QED
    BY <1>6, <2>1, <2>2
<1>7. ASSUME NEW r \in Readers, EnterReader(r) PROVE Lock!BeginRead(r)
  <2>1. WritersIn = {} /\ r \notin ReadersIn
    BY <1>7, InsideHolds DEF EnterReader
  <2>2. WritersIn' = WritersIn /\ ReadersIn' = ReadersIn \cup {r} /\ Pending' = Pending /\ value' = value
    BY <1>0, <1>7, ReaderInside DEF EnterReader
  <2> QED
    BY <2>1, <2>2 DEF Lock!BeginRead, Pending
<1>8. ASSUME NEW r \in Readers, StopRead(r) PROVE Lock!EndRead(r)
  <2>1. r \in ReadersIn
    BY <1>8 DEF StopRead, At, ReadersIn
  <2>2. Loop(i[r] + 1) \in {"announce", "exited"}
    BY DEF Loop
  <2>3. WritersIn' = WritersIn /\ ReadersIn' = ReadersIn \ {r} /\ Pending' = Pending /\ value' = value
    BY <1>0, <1>8, <2>2, ReaderInside DEF StopRead
  <2> QED
    BY <2>1, <2>3 DEF Lock!EndRead, Pending
<1>9. ASSUME NEW r \in Readers,
             AnnounceReader(r) \/ PassReader(r) \/ CountReader(r) \/ UnlockReader(r)
      PROVE  UNCHANGED LockVars
  <2>1. /\ r \notin ReadersIn /\ value' = value
        /\ Goto(r, "gate") \/ Goto(r, "lock") \/ Goto(r, "unlock") \/ Goto(r, "relock")
    BY <1>9 DEF AnnounceReader, PassReader, CountReader, UnlockReader, At, ReadersIn
  <2> QED
    BY <1>0, <2>1, ReaderInside DEF LockVars
<1>10. ASSUME NEW w \in Writers, Writer(w) PROVE [Lock!Next]_LockVars
  BY <1>3, <1>4, <1>5, <1>6, <1>10 DEF Writer, Lock!Next
<1>11. ASSUME NEW r \in Readers, Reader(r) PROVE [Lock!Next]_LockVars
  BY <1>7, <1>8, <1>9, <1>11 DEF Reader, Lock!Next
<1> QED
  BY <1>1, <1>2, <1>10, <1>11 DEF Next, Main, Ended

(* The monitor of main.cpp is the readers-writer lock of RWLock, and value *)
(* never reaches more than NWriters * Iter.                                *)
THEOREM Refinement == Spec => ImplementsLock
PROOF
<1>1. Init => Lock!Init
  <2> SUFFICES ASSUME Init PROVE Lock!Init
    OBVIOUS
  <2> QED
    BY ThreadsFacts DEF Init, Lock!Init, WritersIn, ReadersIn
<1>2. Inv /\ [Next]_vars => [Lock!Next]_<<ReadersIn, WritersIn, {w \in Writers : pc[w] \in {"load", "store"}}, value>>
  BY StepIsLockStep DEF LockVars, Pending
<1> QED
  BY <1>1, <1>2, Invariance, PTL DEF Spec, ImplementsLock, Lock!Spec

(* ---- nobody is stuck ---- *)

(* Writers and readers stand at their own places. *)
PlacesFit ==
  /\ \A w \in Writers : pc[w] # "read"
  /\ \A r \in Readers : pc[r] \in {"none", "announce", "gate", "lock", "unlock", "relock", "read", "exited"}

(* The next step of t is possible: its wait returns. *)
CanGoOn(t) ==
  \/ pc[t] \in {"announce"} \cup Holding
  \/ pc[t] \in {"lock", "relock"} /\ single_mut = Nobody
  \/ pc[t] = "gate" /\ IF t \in Writers THEN event_write ELSE event_read

(* As long as a thread is in its loop there is one that can go on.         *)
NobodyIsStuck ==
  (\E t \in Threads : pc[t] \notin {"none", "exited"}) => \E q \in Threads : CanGoOn(q)

LEMMA PlacesStep == Inv /\ PlacesFit /\ [Next]_vars => PlacesFit'
PROOF
<1> SUFFICES ASSUME Inv, PlacesFit, [Next]_vars PROVE PlacesFit'
  OBVIOUS
<1>0. pc \in [Threads -> Places]
      /\ Writers \subseteq Threads /\ Readers \subseteq Threads /\ Writers \cap Readers = {}
  BY ThreadsFacts DEF Inv, TypeOK
<1>1. CASE CreateThread
  <2>1. \A t \in Threads : pc'[t] = pc[t] \/ pc'[t] \in {"announce", "exited"}
    BY <1>0, <1>1 DEF CreateThread, Goto, Loop
  <2> QED
    BY <1>0, <2>1 DEF PlacesFit
<1>2. ASSUME NEW w \in Writers, Writer(w) PROVE PlacesFit'
  <2>1. PICK here : Goto(w, here) /\ here # "read"
    BY <1>2 DEF Writer, AnnounceWriter, CountWriter, UnlockWriter, PassWriter, EnterWriter, Load,
                Store, StopWrite, Loop
  <2> QED
    BY <1>0, <2>1 DEF PlacesFit, Goto
<1>3. ASSUME NEW r \in Readers, Reader(r) PROVE PlacesFit'
  <2>1. PICK here \in {"announce", "gate", "lock", "unlock", "relock", "read", "exited"} : Goto(r, here)
    BY <1>3 DEF Reader, AnnounceReader, PassReader, CountReader, UnlockReader, EnterReader, StopRead, Loop
  <2> QED
    BY <1>0, <2>1 DEF PlacesFit, Goto
<1>4. CASE WaitWriters \/ WaitReaders \/ UNCHANGED vars
  <2>1. pc' = pc
    BY <1>4 DEF WaitWriters, WaitReaders, vars
  <2> QED
    BY <2>1 DEF PlacesFit
<1> QED
  BY <1>1, <1>2, <1>3, <1>4 DEF Next, Main, Ended

LEMMA SomebodyGoesOn == Inv /\ PlacesFit => NobodyIsStuck
PROOF
<1> SUFFICES ASSUME Inv, PlacesFit, NEW t \in Threads, pc[t] \notin {"none", "exited"},
                    \A q \in Threads : ~CanGoOn(q)
             PROVE  FALSE
  BY DEF NobodyIsStuck
<1>1. \A q \in Threads : /\ q \in Writers \/ q \in Readers
                         /\ ~(q \in Writers /\ q \in Readers)
                         /\ pc[q] \in Places
  BY ThreadsFacts, ConstAssumption DEF Inv, TypeOK, Threads, Writers, Readers, NThreads
<1>2. single_mut = Nobody
  <2>1. \A q \in Threads : pc[q] \notin Holding
    BY DEF CanGoOn
  <2> QED
    BY <2>1 DEF Inv, TypeOK, MutexOwner
<1>3. \A q \in Threads : pc[q] \in {"none", "exited", "gate"}
  BY <1>1, <1>2 DEF CanGoOn, Places, Holding
(* A reader that is counted has passed the gate. *)
<1>4. CountedReaders = {}
  BY <1>3, ThreadsFacts DEF CountedReaders, ReadersIn
<1>5. event_write
  BY <1>4, FS_EmptySet DEF Inv, CountersMatchEvents
(* So no writer is at the gate, and none is counted. *)
<1>6. \A w \in Writers : pc[w] \in {"none", "exited"}
  BY <1>3, <1>5, ThreadsFacts DEF CanGoOn
<1>7. CountedWriters = {}
  BY <1>6 DEF CountedWriters, WritersIn
<1>8. event_read
  BY <1>7, FS_EmptySet DEF Inv, CountersMatchEvents
<1> QED
  BY <1>1, <1>3, <1>5, <1>8 DEF CanGoOn

(* The two events at which a reader and a writer wait for the other side,  *)
(* and the mutex of the counters, never hold everybody up.                 *)
THEOREM NeverStuck == Spec => []NobodyIsStuck
PROOF
<1>1. Init => Inv /\ PlacesFit
  BY InitInv, ThreadsFacts DEF Init, PlacesFit
<1>2. Inv /\ PlacesFit /\ [Next]_vars => (Inv /\ PlacesFit)'
  BY NextInv, PlacesStep
<1> QED
  BY <1>1, <1>2, SomebodyGoesOn, PTL DEF Spec
=============================================================================
