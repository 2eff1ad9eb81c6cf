----------------------- MODULE ProducerConsumerProofs -----------------------
(***************************************************************************)
(* Proofs about ProducerConsumer for every number of children, every       *)
(* distribution of letters that fits the buffer, any deaths and any        *)
(* failing fork.                                                           *)
(***************************************************************************)
EXTENDS ProducerConsumer, FiniteSetTheorems, SequenceTheorems, TLAPS

(* ---- semop for two operations: the recursion unrolled ---- *)

First(vals) == [ok |-> TRUE, val |-> vals]

(* The values stay integers on the same semaphores. *)
LEMMA PerformType ==
  ASSUME NEW S, NEW r, r.val \in [S -> Int], NEW k \in S, NEW d \in Int
  PROVE  Perform(r, sembuf(k, d)).val \in [S -> Int]
PROOF
<1>1. sembuf(k, d).num = k /\ sembuf(k, d).op = d
  BY DEF sembuf
<1> QED
  BY <1>1 DEF Perform

(* One operation that adds or subtracts: it needs the result natural, and  *)
(* the other semaphores keep their values.                                 *)
LEMMA PerformAdd ==
  ASSUME NEW S, NEW r, r.val \in [S -> Int], NEW k \in S, NEW d \in Int, d # 0
  PROVE  LET q == Perform(r, sembuf(k, d))
         IN  /\ q.ok <=> (r.ok /\ r.val[k] + d >= 0)
             /\ q.val[k] = r.val[k] + d
             /\ \A j \in S \ {k} : q.val[j] = r.val[j]
PROOF
<1> DEFINE v == r.val
           q == Perform(r, sembuf(k, d))
<1>1. sembuf(k, d).num = k /\ sembuf(k, d).op = d
  BY DEF sembuf
<1>2. q.ok <=> (r.ok /\ v[k] + d >= 0)
  BY <1>1 DEF Perform
<1>3. q.val = [v EXCEPT ![k] = v[k] + d] /\ v \in [S -> Int]
  BY <1>1 DEF Perform
<1> HIDE DEF q
<1>4. q.val[k] = v[k] + d /\ \A j \in S \ {k} : q.val[j] = v[j]
  <2> HIDE DEF v
  <2> QED BY <1>3
<1> QED
  BY <1>2, <1>4 DEF q

(* semop on two operations (the arrays of task1.c) performs the first on   *)
(* the values of the set, then the second on what the first left.          *)
LEMMA SemopTwo ==
  ASSUME NEW vals, NEW a, NEW b
  PROVE  semop(vals, <<a, b>>) = Perform(Perform(First(vals), a), b)
PROOF
<1> DEFINE s0 == First(vals)
           s1 == Perform(s0, a)
           s2 == Perform(s1, b)
           Step(g) == [m \in 0..2 |-> IF m = 0 THEN s0 ELSE Perform(g[m - 1], <<a, b>>[m])]
           w == [m \in 0..2 |-> IF m = 0 THEN s0 ELSE IF m = 1 THEN s1 ELSE s2]
           F == CHOOSE g : g = Step(g)
<1>1. w = Step(w)
  <2>1. ASSUME NEW k \in 0..2
        PROVE  w[k] = IF k = 0 THEN s0 ELSE Perform(w[k - 1], <<a, b>>[k])
    OBVIOUS
  <2> QED BY <2>1
<1>2. F = Step(F)
  BY <1>1, Zenon
<1>3. ASSUME NEW g
      PROVE  /\ Step(g)[0] = s0
             /\ Step(g)[1] = Perform(g[0], a)
             /\ Step(g)[2] = Perform(g[1], b)
  OBVIOUS
<1>4. Len(<<a, b>>) = 2
  OBVIOUS
<1>5. semop(vals, <<a, b>>) = F[2]
  BY <1>4 DEF semop, First
<1> HIDE DEF F, Step, s0
<1>6. F[0] = s0 /\ F[1] = Perform(F[0], a) /\ F[2] = Perform(F[1], b)
  BY <1>2, <1>3, Zenon
<1> QED
  BY <1>5, <1>6 DEF s0
(* Two operations that add or subtract on two semaphores of a set: the     *)
(* values stay integers, the call sleeps unless both stay natural, and the *)
(* other semaphores keep their values.                                     *)
LEMMA AddTwoType ==
  ASSUME NEW S, NEW vals \in [S -> Nat], NEW x \in S, NEW y \in S,
         NEW dx \in Int, NEW dy \in Int
  PROVE  semop(vals, <<sembuf(x, dx), sembuf(y, dy)>>).val \in [S -> Int]
PROOF
<1> DEFINE r0 == First(vals)
           r1 == Perform(r0, sembuf(x, dx))
<1>1. r0.val \in [S -> Int]
  BY DEF First
<1> HIDE DEF r0
<1>2. r1.val \in [S -> Int]
  BY <1>1, PerformType
<1> HIDE DEF r1
<1>3. Perform(r1, sembuf(y, dy)).val \in [S -> Int]
  BY <1>2, PerformType
<1> QED
  BY <1>3, SemopTwo DEF r0, r1

LEMMA AddTwo ==
  ASSUME NEW S, NEW vals \in [S -> Nat], NEW x \in S, NEW y \in S, x # y,
         NEW dx \in Int, dx # 0, NEW dy \in Int, dy # 0
  PROVE  LET q == semop(vals, <<sembuf(x, dx), sembuf(y, dy)>>)
         IN  /\ q.ok <=> (vals[x] + dx >= 0 /\ vals[y] + dy >= 0)
             /\ q.val[x] = vals[x] + dx
             /\ q.val[y] = vals[y] + dy
             /\ \A j \in S \ {x, y} : q.val[j] = vals[j]
PROOF
<1> DEFINE r0 == First(vals)
           r1 == Perform(r0, sembuf(x, dx))
           r2 == Perform(r1, sembuf(y, dy))
<1>1. semop(vals, <<sembuf(x, dx), sembuf(y, dy)>>) = r2
  BY SemopTwo
<1>2. r0.ok /\ r0.val = vals
  BY DEF First
<1>0. r0.val \in [S -> Int]
  BY DEF First
<1> HIDE DEF r0
<1>3. r1.val \in [S -> Int]
  BY <1>0, PerformType
<1>4. /\ r1.ok <=> (r0.ok /\ r0.val[x] + dx >= 0)
      /\ r1.val[x] = r0.val[x] + dx
      /\ \A j \in S \ {x} : r1.val[j] = r0.val[j]
  <2> HIDE DEF r1, r2
  <2>1. ASSUME NEW r, r.val \in [S -> Int]
        PROVE  LET q == Perform(r, sembuf(x, dx))
               IN  /\ q.ok <=> (r.ok /\ r.val[x] + dx >= 0)
                   /\ q.val[x] = r.val[x] + dx
                   /\ \A j \in S \ {x} : q.val[j] = r.val[j]
    BY <2>1, PerformAdd
  <2>2. r1 = Perform(r0, sembuf(x, dx))
    BY DEF r1
  <2> QED
    BY <1>0, <2>1, <2>2
<1> HIDE DEF r1
<1>5. /\ r2.ok <=> (r1.ok /\ r1.val[y] + dy >= 0)
      /\ r2.val[y] = r1.val[y] + dy
      /\ \A j \in S \ {y} : r2.val[j] = r1.val[j]
  BY <1>3, PerformAdd
<1> HIDE DEF r2
<1>6. r1.val[y] = vals[y] /\ r1.val[x] = vals[x] + dx
  BY <1>2, <1>4
<1>7. (r2.ok <=> (vals[x] + dx >= 0 /\ vals[y] + dy >= 0)) /\ r2.val[y] = vals[y] + dy
  BY <1>2, <1>4, <1>5, <1>6
<1>8. r2.val[x] = vals[x] + dx
  BY <1>5, <1>6
<1>9. \A j \in S \ {x, y} : r2.val[j] = vals[j]
  BY <1>2, <1>4, <1>5
<1> QED
  BY <1>1, <1>7, <1>8, <1>9

(* ---- the semop calls of task1.c ---- *)

SemType == sem \in [{SEM_BINARY, SEM_EMPTY, SEM_FULL} -> Nat]

(* Two operations on two different semaphores of the set: the call sleeps  *)
(* unless both values stay natural, and changes nothing else.              *)
LEMMA SemopPair ==
  ASSUME SemType,
         NEW x \in {0, 1, 2}, NEW y \in {0, 1, 2}, x # y,
         NEW dx \in {P, V}, NEW dy \in {P, V},
         semop(sem, <<sembuf(x, dx), sembuf(y, dy)>>).ok,
         sem' = semop(sem, <<sembuf(x, dx), sembuf(y, dy)>>).val
  PROVE  /\ SemType'
         /\ sem'[x] = sem[x] + dx
         /\ sem'[y] = sem[y] + dy
         /\ \A z \in {0, 1, 2} \ {x, y} : sem'[z] = sem[z]
PROOF
<1> DEFINE q == semop(sem, <<sembuf(x, dx), sembuf(y, dy)>>)
<1>1. dx \in Int /\ dx # 0 /\ dy \in Int /\ dy # 0
  BY DEF P, V
<1>2. sem \in [{0, 1, 2} -> Nat]
  BY DEF SemType, SEM_BINARY, SEM_EMPTY, SEM_FULL
<1>3. /\ q.ok <=> (sem[x] + dx >= 0 /\ sem[y] + dy >= 0)
      /\ q.val[x] = sem[x] + dx
      /\ q.val[y] = sem[y] + dy
      /\ \A j \in {0, 1, 2} \ {x, y} : q.val[j] = sem[j]
  BY SMTT(30), <1>1, <1>2, AddTwo
<1>4. q.ok /\ sem' = q.val /\ q.val \in [{0, 1, 2} -> Int]
  BY <1>1, <1>2, AddTwoType
<1> HIDE DEF q
<1>5. sem' \in [{0, 1, 2} -> Nat]
  BY <1>1, <1>2, <1>3, <1>4
<1>6. SemType'
  BY <1>5 DEF SemType, SEM_BINARY, SEM_EMPTY, SEM_FULL
<1> QED
  BY <1>3, <1>4, <1>6

(* ---- the inductive invariant ---- *)

(* A child that has not left its loop still has a round to go. *)
LoopBound == \A p \in Procs : pc[p] # "exited" => i[p] < Count[p]

(* Children not forked yet have done nothing. *)
NotForked == \A p \in Procs : p > forked => pc[p] = "none"

(* The items whose position has been stored, and how many they are. *)
ItemDone(it) == it[2] <= i[it[1]] \/ (it[2] = i[it[1]] + 1 /\ pc[it[1]] = "stop")
Produced     == {it \in Items : ItemDone(it)}
PositionIsCount == shm_pos_producer = Cardinality(Produced)

Inv == /\ TypeOK
       /\ MutualExclusion
       /\ SemAccounting
       /\ NoLostIncrement
       /\ LoopBound
       /\ NotForked
       /\ PositionIsCount

(* ---- constants ---- *)

LEMMA ProcsFacts ==
  /\ NProcs \in Nat
  /\ Consumers \subseteq Procs /\ Producers \subseteq Procs
  /\ Consumers \cap Producers = {}
  /\ Procs \subseteq Nat
  /\ \A k \in Nat : k < NProcs => k + 1 \in Procs
  /\ \A p \in Procs : Count[p] \in Nat /\ Count[p] > 0
PROOF BY ConstAssumption DEF NProcs, Procs, Consumers, Producers

LEMMA ItemsFacts ==
  /\ IsFiniteSet(Items) /\ Cardinality(Items) \in Nat /\ Cardinality(Items) <= N
  /\ \A it \in Items : it = <<it[1], it[2]>> /\ it[1] \in Producers /\ it[2] \in 1..Count[it[1]]
  /\ \A p \in Producers, k \in Nat : 1 <= k /\ k <= Count[p] => <<p, k>> \in Items
PROOF
<1>1. IsFiniteSet(Items) /\ Cardinality(Items) \in Nat /\ Cardinality(Items) <= N
  BY ConstAssumption, FS_CardinalityType
<1>2. \A it \in Items : it = <<it[1], it[2]>> /\ it[1] \in Producers /\ it[2] \in 1..Count[it[1]]
  BY DEF Items
<1>3. ASSUME NEW p \in Producers, NEW k \in Nat, 1 <= k, k <= Count[p]
      PROVE  <<p, k>> \in Items
  <2>1. Count[p] \in Nat
    BY ProcsFacts
  <2>2. k \in 1..Count[p]
    BY <1>3, <2>1
  <2> QED BY <2>2 DEF Items
<1> QED
  BY <1>1, <1>2, <1>3

(* ---- what the invariant says where the buffer is accessed ---- *)

(* A producer in its section before its store still has an item to add, so *)
(* the position it writes is inside the buffer.                            *)
LEMMA RoomToProduce ==
  ASSUME Inv, NEW p \in Producers, pc[p] \in {"access", "load", "store"}
  PROVE  /\ <<p, i[p] + 1>> \in Items \ Produced
         /\ IsFiniteSet(Produced)
         /\ shm_pos_producer < N
PROOF
<1>1. p \in Procs /\ i[p] \in Nat /\ i[p] < Count[p] /\ Count[p] \in Nat
  BY ProcsFacts DEF Inv, TypeOK, LoopBound
<1>2. <<p, i[p] + 1>> \in Items
  BY <1>1, ItemsFacts
<1>3. <<p, i[p] + 1>> \notin Produced
  BY <1>1 DEF Produced, ItemDone
<1>4. Produced \subseteq Items
  BY DEF Produced
<1>5. IsFiniteSet(Produced) /\ Cardinality(Produced) < Cardinality(Items)
  <2>1. IsFiniteSet(Produced) /\ Cardinality(Produced) \in Nat
        /\ Cardinality(Produced) <= Cardinality(Items)
    BY <1>4, ItemsFacts, FS_Subset, FS_CardinalityType
  <2>2. Cardinality(Produced) # Cardinality(Items)
    BY <1>2, <1>3, <1>4, ItemsFacts, FS_Subset
  <2> QED BY <2>1, <2>2, ItemsFacts
<1> QED
  BY <1>2, <1>3, <1>5, ItemsFacts, ConstAssumption DEF Inv, PositionIsCount, TypeOK

(* A consumer in its section has a finished slot of its own to read. *)
LEMMA SlotToConsume ==
  ASSUME Inv, NEW c \in Consumers, pc[c] \in {"access", "load", "store"}
  PROVE  shm_pos_consumer < shm_pos_producer
PROOF
<1>1. sem[SEM_FULL] \in Nat /\ shm_pos_producer \in Nat /\ shm_pos_consumer \in Nat
  BY ConstAssumption DEF Inv, TypeOK, SEM_BINARY, SEM_EMPTY, SEM_FULL
<1>2. Claimed(Consumers) = 1 /\ Unposted(Producers) \in {0, 1}
  BY DEF Claimed, Unposted
<1>3. sem[SEM_FULL] = shm_pos_producer - Unposted(Producers) - shm_pos_consumer - Claimed(Consumers)
  BY DEF Inv, SemAccounting
<1> QED
  BY <1>1, <1>2, <1>3

(* While one child is in its section every other one is outside. *)
LEMMA Alone ==
  ASSUME MutualExclusion, NEW p \in Procs, pc[p] \in Section
  PROVE  \A q \in Procs : q # p => pc[q] \notin Section
PROOF BY DEF MutualExclusion, Inside

(* ---- the two counts of SemAccounting when only p is in its section ---- *)

Others(p) == \A q \in Procs : q # p => pc[q] \notin Section

LEMMA CountsAlone ==
  ASSUME NEW p \in Procs, Others(p), NEW S \in SUBSET Procs
  PROVE  /\ Claimed(S)  = IF p \in S /\ pc[p] \in {"access", "load", "store"} THEN 1 ELSE 0
         /\ Unposted(S) = IF p \in S /\ pc[p] = "stop" THEN 1 ELSE 0
         /\ Inside = IF pc[p] \in Section THEN {p} ELSE {}
PROOF
<1>1. \A q \in S : pc[q] \in {"access", "load", "store", "stop"} => q = p
  BY DEF Others, Section
<1>2. Claimed(S) = IF p \in S /\ pc[p] \in {"access", "load", "store"} THEN 1 ELSE 0
  BY <1>1 DEF Claimed
<1>3. Unposted(S) = IF p \in S /\ pc[p] = "stop" THEN 1 ELSE 0
  BY <1>1 DEF Unposted
<1>4. Inside = IF pc[p] \in Section THEN {p} ELSE {}
  BY DEF Others, Inside
<1> QED
  BY <1>2, <1>3, <1>4

(* The same one step later. *)
LEMMA CountsAloneNext ==
  ASSUME NEW p \in Procs, Others(p)', NEW S \in SUBSET Procs
  PROVE  /\ Claimed(S)'  = IF p \in S /\ pc'[p] \in {"access", "load", "store"} THEN 1 ELSE 0
         /\ Unposted(S)' = IF p \in S /\ pc'[p] = "stop" THEN 1 ELSE 0
         /\ Inside' = IF pc'[p] \in Section THEN {p} ELSE {}
PROOF
<1>1. \A q \in S : pc'[q] \in {"access", "load", "store", "stop"} => q = p
  BY DEF Others, Section
<1>2. Claimed(S)' = IF p \in S /\ pc'[p] \in {"access", "load", "store"} THEN 1 ELSE 0
  BY <1>1 DEF Claimed
<1>3. Unposted(S)' = IF p \in S /\ pc'[p] = "stop" THEN 1 ELSE 0
  BY <1>1 DEF Unposted
<1>4. Inside' = IF pc'[p] \in Section THEN {p} ELSE {}
  BY DEF Others, Inside
<1> QED
  BY <1>2, <1>3, <1>4

(* A step of p that moves only p keeps the others out. *)
LEMMA OthersStay ==
  ASSUME TypeOK, NEW p \in Procs, Others(p), NEW here, Goto(p, here)
  PROVE  Others(p)' /\ pc'[p] = here
PROOF BY DEF TypeOK, Others, Goto

(* ---- one lemma per kind of step ---- *)

(* Steps that touch neither the semaphores nor any child's place. *)
LEMMA QuietStep ==
  ASSUME Inv,
         UNCHANGED <<sem, shared, output, pc, i, reg, printed, forked>>,
         main' \in {"fork", "failed", "wait", "exited"},
         reaped' \subseteq Procs, killed' \subseteq Procs
  PROVE  Inv'
PROOF
<1>1. TypeOK'
  BY DEF Inv, TypeOK, shared
<1>2. MutualExclusion' /\ NoLostIncrement' /\ LoopBound' /\ NotForked'
  BY DEF Inv, MutualExclusion, Inside, NoLostIncrement, LoopBound, NotForked, shared
<1>3. SemAccounting'
  BY DEF Inv, SemAccounting, Inside, Claimed, Unposted, shared
<1>4. PositionIsCount'
  BY DEF Inv, PositionIsCount, Produced, ItemDone, shared
<1> QED
  BY <1>1, <1>2, <1>3, <1>4 DEF Inv

(* The parent forks: a child that was outside stays outside. *)
LEMMA ForkStep ==
  ASSUME Inv, MakeChild
  PROVE  Inv'
PROOF
<1> USE DEF MakeChild, Goto, shared
<1>1. forked \in Nat /\ forked < NProcs /\ forked + 1 \in Procs /\ forked' = forked + 1
      /\ pc[forked + 1] = "none" /\ pc' = [pc EXCEPT ![forked + 1] = "start"]
  BY ProcsFacts DEF Inv, TypeOK, NotForked
<1>2. \A q \in Procs : (pc'[q] \in Section <=> pc[q] \in Section)
                       /\ (pc[q] \in Section => pc'[q] = pc[q])
                       /\ (pc'[q] = "stop" <=> pc[q] = "stop")
  BY <1>1 DEF Inv, TypeOK, Section
<1>3. TypeOK'
  <2>1. forked' \in 0..NProcs
    BY <1>1, ProcsFacts
  <2>2. pc' \in [Procs -> {"none", "start", "exited"} \cup Section]
    BY <1>1 DEF Inv, TypeOK
  <2>3. main' \in {"fork", "failed", "wait", "exited"}
    OBVIOUS
  <2> QED BY <2>1, <2>2, <2>3 DEF Inv, TypeOK
<1>4. Inside' = Inside
  BY <1>2 DEF Inside
<1>5. MutualExclusion'
  BY <1>4 DEF Inv, MutualExclusion
<1>6. SemAccounting'
  <2>1. ASSUME NEW S \in SUBSET Procs
        PROVE  Claimed(S)' = Claimed(S) /\ Unposted(S)' = Unposted(S)
    <3>1. \A q \in S : pc'[q] \in {"access", "load", "store"} <=> pc[q] \in {"access", "load", "store"}
      BY <1>2 DEF Section
    <3>2. \A q \in S : pc'[q] = "stop" <=> pc[q] = "stop"
      BY <1>2
    <3> QED BY <3>1, <3>2 DEF Claimed, Unposted
  <2>2. Claimed(Producers)' = Claimed(Producers) /\ Unposted(Producers)' = Unposted(Producers)
        /\ Claimed(Consumers)' = Claimed(Consumers) /\ Unposted(Consumers)' = Unposted(Consumers)
    BY <2>1, ProcsFacts
  <2> QED BY <1>4, <2>2 DEF Inv, SemAccounting
<1>7. NoLostIncrement'
  BY <1>2 DEF Inv, NoLostIncrement, Section
<1>8. LoopBound'
  BY <1>1 DEF Inv, LoopBound, TypeOK
<1>9. NotForked'
  BY <1>1, ProcsFacts DEF Inv, NotForked, TypeOK
<1>10. PositionIsCount'
  <2>1. \A it \in Items : ItemDone(it)' <=> ItemDone(it)
    BY <1>2, ItemsFacts, ProcsFacts DEF ItemDone
  <2>2. Produced' = Produced
    BY <2>1 DEF Produced
  <2> QED BY <2>2 DEF Inv, PositionIsCount
<1> QED
  BY <1>3, <1>5, <1>6, <1>7, <1>8, <1>9, <1>10 DEF Inv

(* What any step that moves p keeps of the invariant. *)
LEMMA MoveFacts ==
  ASSUME Inv, NEW p \in Procs, pc[p] # "none", NEW here, Goto(p, here),
         forked' = forked, i' = i, here \notin {"exited", "none"},
         pc[p] # "exited"
  PROVE  LoopBound' /\ NotForked'
PROOF
<1>1. pc' = [pc EXCEPT ![p] = here]
  BY DEF Goto
<1>2. LoopBound'
  BY <1>1 DEF Inv, LoopBound, TypeOK
<1>3. NotForked'
  BY <1>1 DEF Inv, NotForked, TypeOK
<1> QED
  BY <1>2, <1>3

(* A move that neither enters nor leaves "stop" keeps the count of items. *)
LEMMA SameProduced ==
  ASSUME TypeOK, NEW p \in Procs, NEW here, Goto(p, here), i' = i,
         pc[p] # "stop", here # "stop"
  PROVE  Produced' = Produced
PROOF
<1>1. \A q \in Procs : pc'[q] = "stop" <=> pc[q] = "stop"
  BY DEF Goto, TypeOK
<1>2. \A it \in Items : ItemDone(it)' <=> ItemDone(it)
  BY <1>1, ItemsFacts, ProcsFacts DEF ItemDone
<1> QED
  BY <1>2 DEF Produced

(* The first semop returns: the child enters, and it is alone. *)
LEMMA EnterStep ==
  ASSUME Inv, NEW p \in Procs,
         \/ p \in Producers /\ ProducerStart(p)
         \/ p \in Consumers /\ ConsumerStart(p)
  PROVE  Inv'
PROOF
<1> DEFINE x == IF p \in Producers THEN SEM_EMPTY ELSE SEM_FULL
<1>1. /\ pc[p] = "start" /\ Goto(p, "access")
      /\ UNCHANGED <<shared, output, i, reg, printed, parent, killed>>
      /\ semop(sem, <<sembuf(x, P), sembuf(SEM_BINARY, P)>>).ok
      /\ sem' = semop(sem, <<sembuf(x, P), sembuf(SEM_BINARY, P)>>).val
  BY ProcsFacts DEF ProducerStart, ConsumerStart, Start, producer_start, consumer_start
<1>2. SemType /\ x \in {1, 2} /\ SEM_BINARY = 0 /\ P = -1
      /\ (p \in Producers => x = 1 /\ p \notin Consumers)
      /\ (p \notin Producers => x = 2 /\ p \in Consumers)
  BY ProcsFacts DEF Inv, TypeOK, SemType, SEM_BINARY, SEM_EMPTY, SEM_FULL, P
<1> HIDE DEF x
<1>3. /\ SemType'
      /\ sem'[x] = sem[x] + P
      /\ sem'[0] = sem[0] + P
      /\ \A z \in {0, 1, 2} \ {x, 0} : sem'[z] = sem[z]
  <2>1. x \in {0, 1, 2} /\ SEM_BINARY \in {0, 1, 2} /\ x # SEM_BINARY /\ P \in {P, V}
    BY <1>2
  <2>2. SemType
    BY <1>2
  <2>3. /\ SemType'
        /\ sem'[x] = sem[x] + P
        /\ sem'[SEM_BINARY] = sem[SEM_BINARY] + P
        /\ \A z \in {0, 1, 2} \ {x, SEM_BINARY} : sem'[z] = sem[z]
    BY ZenonT(100), <1>1, <2>1, <2>2, SemopPair
  <2> QED BY <1>2, <2>3
<1>4. sem[0] \in Nat /\ sem'[0] \in Nat /\ sem[1] \in Nat /\ sem[2] \in Nat
  BY <1>2, <1>3 DEF SemType, SEM_BINARY, SEM_EMPTY, SEM_FULL
<1>5. Inside = {} /\ sem[0] = 1 /\ sem'[0] = 0
  BY <1>2, <1>3, <1>4 DEF Inv, SemAccounting
<1>6. Others(p) /\ pc[p] \notin Section
  BY <1>5 DEF Others, Inside
<1>7. Others(p)' /\ pc'[p] = "access"
  BY <1>1, <1>6, OthersStay DEF Inv
<1>8. TypeOK'
  <2>1. pc' \in [Procs -> {"none", "start", "exited"} \cup Section]
    BY <1>1 DEF Inv, TypeOK, Goto, Section
  <2> QED BY <1>1, <1>3, <2>1 DEF Inv, TypeOK, SemType, shared, parent
<1>9. MutualExclusion'
  BY <1>7 DEF MutualExclusion, Inside, Others
<1>10. SemAccounting'
  <2>1. /\ Claimed(Producers) = 0 /\ Unposted(Producers) = 0
        /\ Claimed(Consumers) = 0 /\ Unposted(Consumers) = 0
    BY <1>1, <1>6, CountsAlone, ProcsFacts
  <2>2. /\ Claimed(Producers)' = IF p \in Producers THEN 1 ELSE 0
        /\ Claimed(Consumers)' = IF p \in Consumers THEN 1 ELSE 0
        /\ Unposted(Producers)' = 0 /\ Unposted(Consumers)' = 0
    BY <1>7, CountsAloneNext, ProcsFacts
  <2>3. Inside' # {}
    BY <1>7 DEF Inside, Section
  <2>4. shm_pos_producer' = shm_pos_producer /\ shm_pos_consumer' = shm_pos_consumer
    BY <1>1 DEF shared
  <2>5. /\ sem[2] = shm_pos_producer - shm_pos_consumer
        /\ sem[1] = N - shm_pos_producer + shm_pos_consumer
    BY <2>1, ConstAssumption DEF Inv, TypeOK, SemAccounting, SEM_FULL, SEM_EMPTY
  <2>6. sem'[1] = sem[1] - (IF p \in Producers THEN 1 ELSE 0)
        /\ sem'[2] = sem[2] - (IF p \in Consumers THEN 1 ELSE 0)
    BY <1>2, <1>3, <1>4
  <2> QED
    BY <1>5, <2>2, <2>3, <2>4, <2>5, <2>6, ConstAssumption
    DEF Inv, TypeOK, SemAccounting, SEM_BINARY, SEM_FULL, SEM_EMPTY
<1>11. NoLostIncrement'
  BY <1>7 DEF NoLostIncrement, Others, Section
<1>12. LoopBound' /\ NotForked'
  BY <1>1, MoveFacts DEF parent
<1>13. PositionIsCount'
  BY <1>1, SameProduced DEF Inv, PositionIsCount, shared
<1> QED
  BY <1>8, <1>9, <1>10, <1>11, <1>12, <1>13 DEF Inv

(* The second semop: the child leaves, and the section is free. *)
LEMMA LeaveStep ==
  ASSUME Inv, NEW p \in Procs,
         \/ p \in Producers /\ ProducerStop(p)
         \/ p \in Consumers /\ ConsumerStop(p)
  PROVE  Inv'
PROOF
<1> DEFINE x == IF p \in Producers THEN SEM_FULL ELSE SEM_EMPTY
           here == IF i[p] + 1 < Count[p] THEN "start" ELSE "exited"
<1>1. /\ pc[p] = "stop" /\ Goto(p, here)
      /\ i' = [i EXCEPT ![p] = @ + 1]
      /\ UNCHANGED <<shared, output, reg, printed, parent, killed>>
      /\ semop(sem, <<sembuf(SEM_BINARY, V), sembuf(x, V)>>).ok
      /\ sem' = semop(sem, <<sembuf(SEM_BINARY, V), sembuf(x, V)>>).val
  BY ProcsFacts DEF ProducerStop, ConsumerStop, Stop, producer_stop, consumer_stop
<1>2. SemType /\ x \in {1, 2} /\ SEM_BINARY = 0 /\ V = 1
      /\ (p \in Producers => x = 2 /\ p \notin Consumers)
      /\ (p \notin Producers => x = 1 /\ p \in Consumers)
  BY ProcsFacts DEF Inv, TypeOK, SemType, SEM_BINARY, SEM_EMPTY, SEM_FULL, V
<1> HIDE DEF x
<1>3. /\ SemType'
      /\ sem'[x] = sem[x] + V
      /\ sem'[0] = sem[0] + V
      /\ \A z \in {0, 1, 2} \ {x, 0} : sem'[z] = sem[z]
  <2>1. x \in {0, 1, 2} /\ SEM_BINARY \in {0, 1, 2} /\ x # SEM_BINARY /\ V \in {P, V}
    BY <1>2
  <2>2. SemType
    BY <1>2
  <2>3. /\ SemType'
        /\ sem'[x] = sem[x] + V
        /\ sem'[SEM_BINARY] = sem[SEM_BINARY] + V
        /\ \A z \in {0, 1, 2} \ {SEM_BINARY, x} : sem'[z] = sem[z]
    BY ZenonT(100), <1>1, <2>1, <2>2, SemopPair
  <2> QED BY <1>2, <2>3
<1>4. sem[0] \in Nat /\ sem[1] \in Nat /\ sem[2] \in Nat
  BY <1>2 DEF SemType, SEM_BINARY, SEM_EMPTY, SEM_FULL
<1>5. Others(p) /\ Inside # {}
  BY <1>1, Alone DEF Inv, Others, Section, Inside
<1>6. sem[0] = 0 /\ sem'[0] = 1
  BY <1>2, <1>3, <1>4, <1>5 DEF Inv, SemAccounting
<1>7. Others(p)' /\ pc'[p] = here /\ here \in {"start", "exited"}
  BY <1>1, <1>5, OthersStay DEF Inv
<1> HIDE DEF here
<1>8. TypeOK'
  <2>1. pc' \in [Procs -> {"none", "start", "exited"} \cup Section]
    BY <1>1, <1>7 DEF Inv, TypeOK, Goto
  <2>2. i' \in [Procs -> Nat]
    BY <1>1 DEF Inv, TypeOK
  <2> QED BY <1>1, <1>3, <2>1, <2>2 DEF Inv, TypeOK, SemType, shared, parent
<1>9. MutualExclusion' /\ Inside' = {}
  BY <1>7 DEF MutualExclusion, Inside, Others, Section
<1>10. SemAccounting'
  <2>1. /\ Claimed(Producers) = 0 /\ Claimed(Consumers) = 0
        /\ Unposted(Producers) = IF p \in Producers THEN 1 ELSE 0
        /\ Unposted(Consumers) = IF p \in Consumers THEN 1 ELSE 0
    BY <1>1, <1>5, CountsAlone, ProcsFacts
  <2>2. /\ Claimed(Producers)' = 0 /\ Claimed(Consumers)' = 0
        /\ Unposted(Producers)' = 0 /\ Unposted(Consumers)' = 0
    BY <1>7, CountsAloneNext, ProcsFacts
  <2>3. shm_pos_producer' = shm_pos_producer /\ shm_pos_consumer' = shm_pos_consumer
    BY <1>1 DEF shared
  <2>4. /\ sem[2] = shm_pos_producer - (IF p \in Producers THEN 1 ELSE 0) - shm_pos_consumer
        /\ sem[1] = N - shm_pos_producer + shm_pos_consumer - (IF p \in Consumers THEN 1 ELSE 0)
    BY <2>1, ConstAssumption DEF Inv, TypeOK, SemAccounting, SEM_FULL, SEM_EMPTY
  <2>5. sem'[2] = sem[2] + (IF p \in Producers THEN 1 ELSE 0)
        /\ sem'[1] = sem[1] + (IF p \in Consumers THEN 1 ELSE 0)
    BY <1>2, <1>3, <1>4
  <2> QED
    BY <1>6, <1>9, <2>2, <2>3, <2>4, <2>5, ConstAssumption
    DEF Inv, TypeOK, SemAccounting, SEM_BINARY, SEM_FULL, SEM_EMPTY
<1>11. NoLostIncrement'
  BY <1>7 DEF NoLostIncrement, Others, Section
<1>12. LoopBound'
  BY <1>1, <1>7, ProcsFacts DEF Inv, TypeOK, LoopBound, Goto, here
<1>13. NotForked'
  BY <1>1 DEF Inv, TypeOK, NotForked, Goto, parent
<1>14. PositionIsCount'
  <2>1. ASSUME NEW it \in Items
        PROVE  ItemDone(it)' <=> ItemDone(it)
    <3>1. it[1] \in Procs /\ it[2] \in Nat /\ i[it[1]] \in Nat
      BY ItemsFacts, ProcsFacts DEF Inv, TypeOK
    <3>2. CASE it[1] = p
      BY <1>1, <1>7, <3>1, <3>2 DEF Inv, TypeOK, ItemDone
    <3>3. CASE it[1] # p
      BY <1>1, <3>1, <3>3 DEF Inv, TypeOK, ItemDone, Goto
    <3> QED BY <3>2, <3>3
  <2>2. Produced' = Produced
    BY <2>1 DEF Produced
  <2> QED BY <1>1, <2>2 DEF Inv, PositionIsCount, shared
<1> QED
  BY <1>8, <1>9, <1>10, <1>11, <1>12, <1>13, <1>14 DEF Inv

(* A move of p inside its section: it stays alone there. *)
LEMMA InsideMove ==
  ASSUME Inv, NEW p \in Procs, pc[p] \in Section, NEW here \in Section, Goto(p, here),
         i' = i, forked' = forked
  PROVE  /\ Others(p) /\ Others(p)' /\ pc'[p] = here
         /\ pc' \in [Procs -> {"none", "start", "exited"} \cup Section]
         /\ Inside = {p} /\ Inside' = {p} /\ MutualExclusion'
         /\ LoopBound' /\ NotForked'
PROOF
<1>1. Others(p)
  BY Alone DEF Inv, Others
<1>2. Others(p)' /\ pc'[p] = here
  BY <1>1, OthersStay DEF Inv
<1>3. pc' \in [Procs -> {"none", "start", "exited"} \cup Section]
  BY DEF Inv, TypeOK, Goto
<1>4. Inside = {p} /\ Inside' = {p}
  BY <1>1, <1>2, CountsAlone, CountsAloneNext
<1>5. MutualExclusion'
  BY <1>4 DEF MutualExclusion
<1>6. LoopBound' /\ NotForked'
  BY MoveFacts DEF Section
<1> QED
  BY <1>1, <1>2, <1>3, <1>4, <1>5, <1>6

(* The two steps before the store: the counts do not change. *)
LEMMA BeforeStore ==
  ASSUME Inv, NEW p \in Procs, pc[p] \in {"access", "load"},
         NEW here \in {"load", "store"}, Goto(p, here),
         i' = i, forked' = forked, sem' = sem,
         shm_pos_producer' = shm_pos_producer, shm_pos_consumer' = shm_pos_consumer
  PROVE  SemAccounting' /\ PositionIsCount'
PROOF
<1>1. pc[p] \in Section /\ here \in Section
  BY DEF Section
<1>2. Others(p) /\ Others(p)' /\ pc'[p] = here /\ Inside = {p} /\ Inside' = {p}
  BY <1>1, InsideMove
<1>3. /\ Claimed(Producers)' = Claimed(Producers) /\ Unposted(Producers)' = Unposted(Producers)
      /\ Claimed(Consumers)' = Claimed(Consumers) /\ Unposted(Consumers)' = Unposted(Consumers)
  <2>1. ASSUME NEW S \in SUBSET Procs
        PROVE  Claimed(S)' = Claimed(S) /\ Unposted(S)' = Unposted(S)
    <3>1. /\ Claimed(S) = IF p \in S THEN 1 ELSE 0
          /\ Unposted(S) = 0
      BY <1>2, CountsAlone
    <3>2. /\ Claimed(S)' = IF p \in S THEN 1 ELSE 0
          /\ Unposted(S)' = 0
      BY <1>2, CountsAloneNext
    <3> QED BY <3>1, <3>2
  <2> QED BY <2>1, ProcsFacts
<1>4. SemAccounting'
  BY <1>2, <1>3 DEF Inv, SemAccounting
<1>5. PositionIsCount'
  <2>1. Produced' = Produced
    BY SameProduced DEF Inv
  <2> QED BY <2>1 DEF Inv, PositionIsCount
<1> QED
  BY <1>4, <1>5

LEMMA ProduceStep ==
  ASSUME Inv, NEW p \in Producers, Produce(p)
  PROVE  Inv'
PROOF
<1> USE DEF Produce, parent
<1>1. p \in Procs /\ pc[p] = "access" /\ pc[p] \in Section /\ "load" \in Section
  BY ProcsFacts DEF Section
<1>2. pc' \in [Procs -> {"none", "start", "exited"} \cup Section]
      /\ pc'[p] = "load" /\ Others(p)' /\ MutualExclusion' /\ LoopBound' /\ NotForked'
  BY <1>1, InsideMove
<1>3. SemAccounting' /\ PositionIsCount'
  BY <1>1, BeforeStore
<1>4. TypeOK'
  <2>1. output' \in [Procs -> Nat] /\ output[p] \in Nat
    BY <1>1 DEF Inv, TypeOK
  <2>2. shm_buffer' \in [0..N-1 -> Nat]
    BY <2>1 DEF Inv, TypeOK
  <2> QED BY <1>2, <2>1, <2>2 DEF Inv, TypeOK
<1>5. NoLostIncrement'
  BY <1>2 DEF NoLostIncrement, Others, Section
<1> QED
  BY <1>2, <1>3, <1>4, <1>5 DEF Inv

LEMMA ConsumeStep ==
  ASSUME Inv, NEW c \in Consumers, Consume(c)
  PROVE  Inv'
PROOF
<1> USE DEF Consume, parent, shared
<1>1. c \in Procs /\ pc[c] = "access" /\ pc[c] \in Section /\ "load" \in Section
  BY ProcsFacts DEF Section
<1>2. pc' \in [Procs -> {"none", "start", "exited"} \cup Section]
      /\ pc'[c] = "load" /\ Others(c)' /\ MutualExclusion' /\ LoopBound' /\ NotForked'
  BY <1>1, InsideMove
<1>3. SemAccounting' /\ PositionIsCount'
  BY <1>1, BeforeStore
<1>4. TypeOK'
  <2>1. shm_pos_consumer \in 0..N-1
    BY SMTT(30), <1>1, SlotToConsume, ConstAssumption DEF Inv, TypeOK
  <2>2. shm_buffer[shm_pos_consumer] \in Nat
    BY <2>1 DEF Inv, TypeOK
  <2>3. printed' \in Seq(Nat)
    BY <2>2 DEF Inv, TypeOK
  <2> QED BY <1>2, <2>3 DEF Inv, TypeOK
<1>5. NoLostIncrement'
  BY <1>2 DEF NoLostIncrement, Others, Section
<1> QED
  BY <1>2, <1>3, <1>4, <1>5 DEF Inv

(* The load of an increment. *)
LEMMA LoadStep ==
  ASSUME Inv, NEW p \in Procs,
         \/ p \in Producers /\ ProducerLoad(p)
         \/ p \in Consumers /\ ConsumerLoad(p)
  PROVE  Inv'
PROOF
<1> DEFINE pos == IF p \in Producers THEN shm_pos_producer ELSE shm_pos_consumer
<1>1. /\ pc[p] = "load" /\ Goto(p, "store")
      /\ UNCHANGED <<sem, shm_buffer, shm_pos_producer, shm_pos_consumer, output, i,
                     printed, main, forked, reaped, killed>>
      /\ reg' = [reg EXCEPT ![p] = pos]
  BY ProcsFacts DEF ProducerLoad, ConsumerLoad, shared, parent
<1>2. pc[p] \in Section /\ "store" \in Section
  BY <1>1 DEF Section
<1>3. pc' \in [Procs -> {"none", "start", "exited"} \cup Section]
      /\ pc'[p] = "store" /\ Others(p)' /\ MutualExclusion' /\ LoopBound' /\ NotForked'
  BY <1>1, <1>2, InsideMove
<1>4. SemAccounting' /\ PositionIsCount'
  BY <1>1, BeforeStore
<1>5. TypeOK' /\ reg'[p] = pos
  BY <1>1, <1>3 DEF Inv, TypeOK
<1>6. NoLostIncrement'
  BY <1>1, <1>3, <1>5 DEF NoLostIncrement, Others, Section
<1> QED
  BY <1>3, <1>4, <1>5, <1>6 DEF Inv

LEMMA ProducerStoreStep ==
  ASSUME Inv, NEW p \in Producers, ProducerStore(p)
  PROVE  Inv'
PROOF
<1>1. /\ p \in Procs /\ p \notin Consumers
      /\ pc[p] = "store" /\ Goto(p, "stop") /\ pc[p] \in Section /\ "stop" \in Section
      /\ UNCHANGED <<sem, shm_buffer, shm_pos_consumer, output, i, reg,
                     printed, main, forked, reaped, killed>>
      /\ shm_pos_producer' = shm_pos_producer + 1
  BY ProcsFacts DEF ProducerStore, parent, Section, Inv, NoLostIncrement
<1>2. /\ Others(p) /\ Others(p)' /\ Inside = {p} /\ Inside' = {p}
      /\ pc' \in [Procs -> {"none", "start", "exited"} \cup Section]
      /\ pc'[p] = "stop" /\ MutualExclusion' /\ LoopBound' /\ NotForked'
  BY <1>1, InsideMove
<1>3. /\ <<p, i[p] + 1>> \in Items \ Produced
      /\ IsFiniteSet(Produced) /\ shm_pos_producer < N
  BY <1>1, RoomToProduce
<1>4. TypeOK'
  BY SMTT(30), <1>1, <1>2, <1>3, ConstAssumption DEF Inv, TypeOK
<1>5. SemAccounting'
  <2>1. /\ Claimed(Producers) = 1 /\ Unposted(Producers) = 0
        /\ Claimed(Consumers) = 0 /\ Unposted(Consumers) = 0
    BY <1>1, <1>2, CountsAlone, ProcsFacts
  <2>2. /\ Claimed(Producers)' = 0 /\ Unposted(Producers)' = 1
        /\ Claimed(Consumers)' = 0 /\ Unposted(Consumers)' = 0
    BY <1>1, <1>2, CountsAloneNext, ProcsFacts
  <2>3. /\ sem[SEM_FULL]  = shm_pos_producer - shm_pos_consumer
        /\ sem[SEM_EMPTY] = N - shm_pos_producer - 1 + shm_pos_consumer
        /\ sem[SEM_BINARY] = 0
    BY <1>2, <2>1, ConstAssumption DEF Inv, TypeOK, SemAccounting
  <2> QED
    BY <1>1, <1>2, <2>2, <2>3, ConstAssumption DEF Inv, TypeOK, SemAccounting
<1>6. NoLostIncrement'
  BY <1>2 DEF NoLostIncrement, Others, Section
<1>7. PositionIsCount'
  <2>1. ASSUME NEW it \in Items
        PROVE  ItemDone(it)' <=> ItemDone(it) \/ it = <<p, i[p] + 1>>
    <3>1. /\ it = <<it[1], it[2]>> /\ it[1] \in Procs /\ it[2] \in Nat
          /\ i[it[1]] \in Nat /\ i[p] \in Nat
      BY <1>1, ItemsFacts, ProcsFacts DEF Inv, TypeOK
    <3>2. CASE it[1] = p
      <4>1. it = <<p, i[p] + 1>> <=> it[2] = i[p] + 1
        BY <3>1, <3>2
      <4> QED BY <1>1, <1>2, <3>1, <3>2, <4>1 DEF ItemDone
    <3>3. CASE it[1] # p
      <4>1. pc'[it[1]] = pc[it[1]] /\ i' = i
        BY <1>1, <3>1, <3>3 DEF Goto, Inv, TypeOK
      <4>2. it # <<p, i[p] + 1>>
        BY <3>3
      <4> QED BY <4>1, <4>2 DEF ItemDone
    <3> QED BY <3>2, <3>3
  <2>2. Produced' = Produced \cup {<<p, i[p] + 1>>}
    BY <1>3, <2>1 DEF Produced
  <2>3. Cardinality(Produced') = Cardinality(Produced) + 1
    BY <1>3, <2>2, FS_AddElement
  <2> QED BY <1>1, <2>3 DEF Inv, PositionIsCount
<1> QED
  BY <1>2, <1>4, <1>5, <1>6, <1>7 DEF Inv

LEMMA ConsumerStoreStep ==
  ASSUME Inv, NEW c \in Consumers, ConsumerStore(c)
  PROVE  Inv'
PROOF
<1>1. /\ c \in Procs /\ c \notin Producers
      /\ pc[c] = "store" /\ Goto(c, "stop") /\ pc[c] \in Section /\ "stop" \in Section
      /\ UNCHANGED <<sem, shm_buffer, shm_pos_producer, output, i, reg,
                     printed, main, forked, reaped, killed>>
      /\ shm_pos_consumer' = shm_pos_consumer + 1
  BY ProcsFacts DEF ConsumerStore, parent, Section, Inv, NoLostIncrement
<1>2. /\ Others(c) /\ Others(c)' /\ Inside = {c} /\ Inside' = {c}
      /\ pc' \in [Procs -> {"none", "start", "exited"} \cup Section]
      /\ pc'[c] = "stop" /\ MutualExclusion' /\ LoopBound' /\ NotForked'
  BY <1>1, InsideMove
<1>3. shm_pos_consumer < shm_pos_producer
  BY <1>1, SlotToConsume
<1>4. TypeOK'
  BY SMTT(30), <1>1, <1>2, <1>3, ConstAssumption DEF Inv, TypeOK
<1>5. SemAccounting'
  <2>1. /\ Claimed(Consumers) = 1 /\ Unposted(Consumers) = 0
        /\ Claimed(Producers) = 0 /\ Unposted(Producers) = 0
    BY <1>1, <1>2, CountsAlone, ProcsFacts
  <2>2. /\ Claimed(Consumers)' = 0 /\ Unposted(Consumers)' = 1
        /\ Claimed(Producers)' = 0 /\ Unposted(Producers)' = 0
    BY <1>1, <1>2, CountsAloneNext, ProcsFacts
  <2>3. /\ sem[SEM_FULL]  = shm_pos_producer - shm_pos_consumer - 1
        /\ sem[SEM_EMPTY] = N - shm_pos_producer + shm_pos_consumer
        /\ sem[SEM_BINARY] = 0
    BY <1>2, <2>1, ConstAssumption DEF Inv, TypeOK, SemAccounting
  <2> QED
    BY <1>1, <1>2, <2>2, <2>3, ConstAssumption DEF Inv, TypeOK, SemAccounting
<1>6. NoLostIncrement'
  BY <1>2 DEF NoLostIncrement, Others, Section
<1>7. PositionIsCount'
  <2>1. ASSUME NEW it \in Items
        PROVE  ItemDone(it)' <=> ItemDone(it)
    <3>1. it[1] \in Producers /\ it[1] \in Procs /\ it[1] # c
      BY <1>1, ItemsFacts, ProcsFacts
    <3>2. pc'[it[1]] = pc[it[1]] /\ i' = i
      BY <1>1, <3>1 DEF Goto, Inv, TypeOK
    <3> QED BY <3>2 DEF ItemDone
  <2>2. Produced' = Produced
    BY <2>1 DEF Produced
  <2> QED BY <1>1, <2>2 DEF Inv, PositionIsCount
<1> QED
  BY <1>2, <1>4, <1>5, <1>6, <1>7 DEF Inv

(* ---- the theorems ---- *)

LEMMA InitInv == Init => Inv
PROOF
<1> SUFFICES ASSUME Init PROVE Inv
  OBVIOUS
<1> USE DEF Init
<1>1. TypeOK
  BY ConstAssumption, ProcsFacts DEF TypeOK, SEM_BINARY, SEM_EMPTY, SEM_FULL
<1>2. Inside = {}
  BY DEF Inside, Section
<1>3. MutualExclusion /\ NoLostIncrement /\ NotForked
  BY <1>2 DEF MutualExclusion, NoLostIncrement, NotForked
<1>4. LoopBound
  BY ProcsFacts DEF LoopBound
<1>5. SemAccounting
  <2>1. /\ Claimed(Producers) = 0 /\ Unposted(Producers) = 0
        /\ Claimed(Consumers) = 0 /\ Unposted(Consumers) = 0
    BY ProcsFacts DEF Claimed, Unposted
  <2> QED
    BY <1>2, <2>1, ConstAssumption DEF SemAccounting, SEM_BINARY, SEM_EMPTY, SEM_FULL
<1>6. PositionIsCount
  <2>1. \A it \in Items : ~ItemDone(it)
    BY ItemsFacts, ProcsFacts DEF ItemDone
  <2>2. Produced = {}
    BY <2>1 DEF Produced
  <2> QED BY <2>2, FS_EmptySet DEF PositionIsCount
<1> QED
  BY <1>1, <1>3, <1>4, <1>5, <1>6 DEF Inv

LEMMA NextInv == Inv /\ [Next]_vars => Inv'
PROOF
<1> SUFFICES ASSUME Inv, [Next]_vars PROVE Inv'
  OBVIOUS
<1>1. CASE MakeChild
  BY <1>1, ForkStep
<1>2. CASE ForkFails
  BY <1>2, QuietStep DEF ForkFails, Inv, TypeOK
<1>3. CASE Wait
  <2>1. reaped' \subseteq Procs
    BY <1>3 DEF Wait, Inv, TypeOK
  <2> QED BY <1>3, <2>1, QuietStep DEF Wait, Inv, TypeOK
<1>4. CASE MainExit
  BY <1>4, QuietStep DEF MainExit, Inv, TypeOK
<1>5. ASSUME NEW p \in Producers, Producer(p)
      PROVE  Inv'
  <2>1. p \in Procs
    BY ProcsFacts
  <2>2. CASE ProducerStart(p)
    BY <2>1, <2>2, EnterStep
  <2>3. CASE Produce(p)
    BY <2>3, ProduceStep
  <2>4. CASE ProducerLoad(p)
    BY <2>1, <2>4, LoadStep
  <2>5. CASE ProducerStore(p)
    BY <2>5, ProducerStoreStep
  <2>6. CASE ProducerStop(p)
    BY <2>1, <2>6, LeaveStep
  <2> QED
    BY <1>5, <2>2, <2>3, <2>4, <2>5, <2>6 DEF Producer
<1>6. ASSUME NEW c \in Consumers, Consumer(c)
      PROVE  Inv'
  <2>1. c \in Procs
    BY ProcsFacts
  <2>2. CASE ConsumerStart(c)
    BY <2>1, <2>2, EnterStep
  <2>3. CASE Consume(c)
    BY <2>3, ConsumeStep
  <2>4. CASE ConsumerLoad(c)
    BY <2>1, <2>4, LoadStep
  <2>5. CASE ConsumerStore(c)
    BY <2>5, ConsumerStoreStep
  <2>6. CASE ConsumerStop(c)
    BY <2>1, <2>6, LeaveStep
  <2> QED
    BY <1>6, <2>2, <2>3, <2>4, <2>5, <2>6 DEF Consumer
<1>7. ASSUME NEW p \in Procs, Die(p)
      PROVE  Inv'
  <2>1. killed' \subseteq Procs
    BY <1>7 DEF Die, Inv, TypeOK
  <2> QED BY <1>7, <2>1, QuietStep DEF Die, parent, Inv, TypeOK
<1>8. CASE UNCHANGED vars
  BY <1>8, QuietStep DEF vars, shared, Inv, TypeOK
<1> QED
  BY <1>1, <1>2, <1>3, <1>4, <1>5, <1>6, <1>7, <1>8 DEF Next, Main, Finished

(* The inductive invariant holds in every behaviour. *)
THEOREM Invariance == Spec => []Inv
PROOF BY InitInv, NextInv, PTL DEF Spec

(* Type correctness, for every number of children and letters. *)
THEOREM TypeCorrect == Spec => []TypeOK
PROOF BY Invariance, PTL DEF Inv

(* Never two children between their semop calls, whoever dies where. *)
THEOREM SectionIsExclusive == Spec => []MutualExclusion
PROOF BY Invariance, PTL DEF Inv

(* The three semaphores count free slots, letters and the free section. *)
THEOREM SemaphoresCount == Spec => []SemAccounting
PROOF BY Invariance, PTL DEF Inv

(* No increment of a shared position is lost between its load and store. *)
THEOREM IncrementsAreAtomic == Spec => []NoLostIncrement
PROOF BY Invariance, PTL DEF Inv

(* Producers write inside the buffer, consumers read finished slots. *)
THEOREM AccessesInBounds == Spec => []AccessInBounds
PROOF
<1>1. Inv => AccessInBounds
  BY RoomToProduce, SlotToConsume DEF AccessInBounds
<1> QED
  BY <1>1, Invariance, PTL

(* ---- no entry after a death inside ---- *)

(* The first semop returns only when nobody is in the section. *)
LEMMA EntersEmpty ==
  ASSUME Inv, NEW p \in Procs,
         \/ p \in Producers /\ ProducerStart(p)
         \/ p \in Consumers /\ ConsumerStart(p)
  PROVE  Inside = {}
PROOF
<1> DEFINE x == IF p \in Producers THEN SEM_EMPTY ELSE SEM_FULL
<1>1. /\ semop(sem, <<sembuf(x, P), sembuf(SEM_BINARY, P)>>).ok
      /\ sem' = semop(sem, <<sembuf(x, P), sembuf(SEM_BINARY, P)>>).val
  BY ProcsFacts DEF ProducerStart, ConsumerStart, Start, producer_start, consumer_start
<1>2. x \in {0, 1, 2} /\ SEM_BINARY \in {0, 1, 2} /\ x # SEM_BINARY /\ P \in {P, V}
  BY DEF SEM_BINARY, SEM_EMPTY, SEM_FULL
<1>3. SemType
  BY DEF Inv, TypeOK, SemType
<1> HIDE DEF x
<1>4. SemType' /\ sem'[SEM_BINARY] = sem[SEM_BINARY] + P
  BY <1>1, <1>2, <1>3, SemopPair
<1>5. sem[SEM_BINARY] \in Nat /\ sem'[SEM_BINARY] \in Nat /\ P = -1
  BY <1>3, <1>4 DEF SemType, SEM_BINARY, SEM_EMPTY, SEM_FULL, P
<1> QED
  BY <1>4, <1>5 DEF Inv, SemAccounting

(* A move of a child that ends outside the section, or began inside it,    *)
(* lets nobody in.                                                         *)
LEMMA MoveLetsNobodyIn ==
  ASSUME TypeOK, NEW p \in Procs, NEW here, Goto(p, here),
         here \in Section => pc[p] \in Section
  PROVE  Inside' \subseteq Inside
PROOF BY DEF TypeOK, Inside, Goto

(* Once a child has died between its two semop calls no child enters: the  *)
(* kernel undoes nothing, so the section stays taken.                      *)
THEOREM DeathInsideLocks == Spec => NoEntryAfterDeathInside
PROOF
<1>1. ASSUME Inv, [Next]_vars, killed \cap Inside # {}
      PROVE  Inside' \subseteq Inside
  <2> USE <1>1
  <2>1. CASE MakeChild
    <3>1. forked + 1 \in Procs
      BY <2>1, ProcsFacts DEF MakeChild, Inv, TypeOK
    <3>2. Goto(forked + 1, "start") /\ "start" \notin Section
      BY <2>1 DEF MakeChild, Section
    <3> QED BY <3>1, <3>2, MoveLetsNobodyIn DEF Inv
  <2>2. CASE UNCHANGED pc
    BY <2>2 DEF Inside
  <2>3. ASSUME NEW p \in Procs,
               \/ p \in Producers /\ ProducerStart(p)
               \/ p \in Consumers /\ ConsumerStart(p)
        PROVE  FALSE
    BY <2>3, EntersEmpty
  <2>4. ASSUME NEW p \in Procs, NEW here, Goto(p, here), pc[p] \in Section
        PROVE  Inside' \subseteq Inside
    BY <2>4, MoveLetsNobodyIn DEF Inv
  <2>5. ASSUME NEW p \in Producers, Producer(p)
        PROVE  Inside' \subseteq Inside
    <3>1. p \in Procs
      BY ProcsFacts
    <3>2. ~ ProducerStart(p)
      BY <2>3, <3>1
    <3>3. pc[p] \in Section /\ \E here \in Section \cup {"start", "exited"} : Goto(p, here)
      BY <2>5, <3>2 DEF Producer, Produce, ProducerLoad, ProducerStore, ProducerStop, Stop, Section
    <3> QED BY <2>4, <3>1, <3>3
  <2>6. ASSUME NEW c \in Consumers, Consumer(c)
        PROVE  Inside' \subseteq Inside
    <3>1. c \in Procs
      BY ProcsFacts
    <3>2. ~ ConsumerStart(c)
      BY <2>3, <3>1
    <3>3. pc[c] \in Section /\ \E here \in Section \cup {"start", "exited"} : Goto(c, here)
      BY <2>6, <3>2 DEF Consumer, Consume, ConsumerLoad, ConsumerStore, ConsumerStop, Stop, Section
    <3> QED BY <2>4, <3>1, <3>3
  <2>7. ForkFails \/ Wait \/ MainExit \/ (\E p \in Procs : Die(p)) \/ UNCHANGED vars
        => UNCHANGED pc
    BY DEF ForkFails, Wait, MainExit, Die, vars
  <2> QED
    BY <2>1, <2>2, <2>5, <2>6, <2>7 DEF Next, Main, Finished
<1>2. Inv /\ [Next]_vars => [killed \cap Inside # {} => Inside' \subseteq Inside]_vars
  BY <1>1
<1> QED
  BY <1>2, Invariance, PTL DEF Spec, NoEntryAfterDeathInside

(* ---- the segment as a first-in first-out queue ---- *)

(* A consumer has printed its slot but not moved the position yet. *)
Reading == IF \E c \in Consumers : pc[c] \in {"load", "store"} THEN 1 ELSE 0

(* What has been printed are the slots up to the consumers' position, and  *)
(* the one that is being read.                                             *)
PrintedSlots ==
  /\ Len(printed) = shm_pos_consumer + Reading
  /\ \A k \in 1..Len(printed) : printed[k] = shm_buffer[k - 1]

(* A producer's private letter advances once a round, and the slot at the  *)
(* producers' position holds a letter from the write of it to the store.   *)
LettersInOrder ==
  \A p \in Producers :
    /\ output[p] = 97 + i[p] + (IF pc[p] \in {"load", "store", "stop"} THEN 1 ELSE 0)
    /\ pc[p] \in {"load", "store"} => shm_buffer[shm_pos_producer] \in 97..(96 + N)

FifoInv == Inv /\ PrintedSlots /\ LettersInOrder

(* The consumers' position never passes the producers'. *)
LEMMA PositionsOrdered == Inv => shm_pos_consumer <= shm_pos_producer
PROOF
<1> SUFFICES ASSUME Inv PROVE shm_pos_consumer <= shm_pos_producer
  OBVIOUS
<1>1. sem[SEM_FULL] \in Nat /\ shm_pos_producer \in Nat /\ shm_pos_consumer \in Nat
  BY ConstAssumption DEF Inv, TypeOK, SEM_BINARY, SEM_EMPTY, SEM_FULL
<1>2. Claimed(Consumers) \in {0, 1} /\ Unposted(Producers) \in {0, 1}
  BY DEF Claimed, Unposted
<1>3. sem[SEM_FULL] = shm_pos_producer - Unposted(Producers) - shm_pos_consumer - Claimed(Consumers)
  BY DEF Inv, SemAccounting
<1> QED
  BY <1>1, <1>2, <1>3

(* No producer makes more letters than the buffer has slots. *)
LEMMA CountFits == \A p \in Producers : Count[p] <= N
PROOF
<1> SUFFICES ASSUME NEW p \in Producers PROVE Count[p] <= N
  OBVIOUS
<1>1. Count[p] \in Nat /\ Count[p] > 0
  BY ProcsFacts
<1>2. IsFiniteSet(1..Count[p]) /\ Cardinality(1..Count[p]) = Count[p]
  <2>1. 1 \in Int /\ Count[p] \in Int /\ ~ (1 > Count[p]) /\ Count[p] - 1 + 1 = Count[p]
    BY <1>1
  <2>2. IsFiniteSet(1..Count[p])
        /\ Cardinality(1..Count[p]) = IF 1 > Count[p] THEN 0 ELSE Count[p] - 1 + 1
    BY <2>1, FS_Interval, Zenon
  <2> QED BY <2>1, <2>2
<1>3. IsFiniteSet({p}) /\ Cardinality({p}) = 1
  BY FS_Singleton
<1>4. Cardinality({p} \X (1..Count[p])) = Cardinality({p}) * Cardinality(1..Count[p])
  BY <1>2, <1>3, FS_Product
<1>5. Cardinality({p} \X (1..Count[p])) = Count[p]
  BY <1>1, <1>2, <1>3, <1>4
<1>6. {p} \X (1..Count[p]) \subseteq Items
  BY DEF Items
<1>7. Cardinality({p} \X (1..Count[p])) <= Cardinality(Items)
  BY <1>6, ItemsFacts, FS_Subset
<1> QED
  BY <1>1, <1>5, <1>7, ItemsFacts, ConstAssumption

(* Who is reading when only p can be in its section. *)
LEMMA ReadingAlone ==
  ASSUME NEW p \in Procs, Others(p)
  PROVE  Reading = IF p \in Consumers /\ pc[p] \in {"load", "store"} THEN 1 ELSE 0
PROOF
<1>1. \A c \in Consumers : pc[c] \in {"load", "store"} => c = p
  BY ProcsFacts DEF Others, Section
<1> QED
  BY <1>1 DEF Reading

(* The same one step later. *)
LEMMA ReadingAloneNext ==
  ASSUME NEW p \in Procs, Others(p)'
  PROVE  Reading' = IF p \in Consumers /\ pc'[p] \in {"load", "store"} THEN 1 ELSE 0
PROOF
<1>1. \A c \in Consumers : pc'[c] \in {"load", "store"} => c = p
  BY ProcsFacts DEF Others, Section
<1> QED
  BY <1>1 DEF Reading

(* Steps that leave letters, positions and everyone's place in the section *)
(* as they are.                                                            *)
LEMMA PrintedStep ==
  ASSUME FifoInv, printed' = printed, shm_pos_consumer' = shm_pos_consumer,
         Reading' = Reading,
         \A k \in 0..(shm_pos_producer - 1) : shm_buffer'[k] = shm_buffer[k]
  PROVE  PrintedSlots'
PROOF
<1>1. printed \in Seq(Nat) /\ Len(printed) = shm_pos_consumer + Reading
      /\ Len(printed) \in Nat /\ shm_pos_consumer \in Nat /\ shm_pos_producer \in Nat
  BY ConstAssumption DEF FifoInv, Inv, TypeOK, PrintedSlots
<1>2. Len(printed) <= shm_pos_producer
  <2>1. CASE \E c \in Consumers : pc[c] \in {"load", "store"}
    <3>1. shm_pos_consumer < shm_pos_producer
      BY <2>1, SlotToConsume DEF FifoInv
    <3> QED BY <1>1, <2>1, <3>1 DEF Reading
  <2>2. CASE ~ \E c \in Consumers : pc[c] \in {"load", "store"}
    BY <1>1, <2>2, PositionsOrdered DEF Reading, FifoInv
  <2> QED BY <2>1, <2>2
<1>3. \A k \in 1..Len(printed) : k - 1 \in 0..(shm_pos_producer - 1)
  BY <1>1, <1>2
<1>4. \A k \in 1..Len(printed) : printed[k] = shm_buffer'[k - 1]
  BY <1>3 DEF FifoInv, PrintedSlots
<1> QED
  BY <1>1, <1>4 DEF PrintedSlots

(* A move that changes no consumer's being in the middle of a read. *)
LEMMA ReadingKept ==
  ASSUME TypeOK, NEW p \in Procs, NEW here, Goto(p, here),
         p \in Consumers => (pc[p] \in {"load", "store"} <=> here \in {"load", "store"})
  PROVE  Reading' = Reading
PROOF
<1>1. \A c \in Consumers : pc'[c] \in {"load", "store"} <=> pc[c] \in {"load", "store"}
  BY ProcsFacts DEF TypeOK, Goto
<1> QED
  BY <1>1 DEF Reading

(* A step after which every producer stands on the same side of the write  *)
(* of its letter keeps the letters in order.                               *)
LEMMA LettersKept ==
  ASSUME LettersInOrder, output' = output,
         shm_buffer' = shm_buffer, shm_pos_producer' = shm_pos_producer,
         \A p \in Producers :
           /\ i'[p] = i[p]
           /\ pc'[p] \in {"load", "store", "stop"} <=> pc[p] \in {"load", "store", "stop"}
           /\ pc'[p] \in {"load", "store"} => pc[p] \in {"load", "store"}
  PROVE  LettersInOrder'
PROOF BY DEF LettersInOrder

(* The semop calls move a child between rounds. *)
LEMMA SemopFifo ==
  ASSUME FifoInv, NEW p \in Procs,
         \/ p \in Producers /\ (ProducerStart(p) \/ ProducerStop(p))
         \/ p \in Consumers /\ (ConsumerStart(p) \/ ConsumerStop(p))
  PROVE  PrintedSlots' /\ LettersInOrder'
PROOF
<1>1. /\ UNCHANGED <<shm_buffer, shm_pos_producer, shm_pos_consumer, output, printed>>
      /\ \/ pc[p] = "start" /\ Goto(p, "access") /\ i' = i
         \/ /\ pc[p] = "stop" /\ i' = [i EXCEPT ![p] = @ + 1]
            /\ Goto(p, "start") \/ Goto(p, "exited")
  BY DEF ProducerStart, ProducerStop, ConsumerStart, ConsumerStop, Start, Stop, shared
<1>2. TypeOK /\ i[p] \in Nat
  BY DEF FifoInv, Inv, TypeOK
<1>3. Reading' = Reading
  <2>1. CASE Goto(p, "access")
    BY <1>1, <1>2, <2>1, ReadingKept DEF Goto
  <2>2. CASE Goto(p, "start") \/ Goto(p, "exited")
    <3>1. pc[p] = "stop"
      BY <1>1, <1>2, <2>2 DEF Goto, TypeOK
    <3> QED BY <1>2, <2>2, <3>1, ReadingKept
  <2> QED BY <1>1, <2>1, <2>2
<1>4. PrintedSlots'
  BY <1>1, <1>3, PrintedStep
<1>5. ASSUME NEW q \in Producers
      PROVE  /\ output'[q] = 97 + i'[q] + (IF pc'[q] \in {"load", "store", "stop"} THEN 1 ELSE 0)
             /\ pc'[q] \in {"load", "store"} => shm_buffer'[shm_pos_producer'] \in 97..(96 + N)
  <2>1. q \in Procs /\ i[q] \in Nat
    BY <1>2, ProcsFacts DEF TypeOK
  <2>2. /\ output[q] = 97 + i[q] + (IF pc[q] \in {"load", "store", "stop"} THEN 1 ELSE 0)
        /\ pc[q] \in {"load", "store"} => shm_buffer[shm_pos_producer] \in 97..(96 + N)
    BY DEF FifoInv, LettersInOrder
  <2>3. CASE q # p
    BY SMTT(30), <1>1, <1>2, <2>1, <2>2, <2>3 DEF Goto, TypeOK
  <2>4. CASE q = p
    BY <1>1, <1>2, <2>1, <2>2, <2>4 DEF Goto, TypeOK
  <2> QED BY <2>3, <2>4
<1>6. LettersInOrder'
  BY <1>5 DEF LettersInOrder
<1> QED
  BY <1>4, <1>6

(* The producer writes its letter past every slot that was printed. *)
LEMMA ProduceFifo ==
  ASSUME FifoInv, NEW p \in Producers, Produce(p)
  PROVE  PrintedSlots' /\ LettersInOrder'
PROOF
<1>1. /\ p \in Procs /\ p \notin Consumers /\ pc[p] = "access" /\ Goto(p, "load")
      /\ UNCHANGED <<shm_pos_producer, shm_pos_consumer, i, printed>>
      /\ shm_buffer' = [shm_buffer EXCEPT ![shm_pos_producer] = output[p]]
      /\ output' = [output EXCEPT ![p] = @ + 1]
  BY ProcsFacts DEF Produce
<1>2. TypeOK /\ LettersInOrder /\ shm_pos_producer \in Nat
  BY ConstAssumption DEF FifoInv, Inv, TypeOK
<1>3. shm_pos_producer < N
  BY <1>1, RoomToProduce DEF FifoInv
<1>4. /\ shm_buffer'[shm_pos_producer] = output[p]
      /\ \A k \in 0..(shm_pos_producer - 1) : shm_buffer'[k] = shm_buffer[k]
  BY <1>1, <1>2, <1>3, ConstAssumption DEF TypeOK
<1>5. Reading' = Reading
  BY <1>1, <1>2, ReadingKept
<1>6. PrintedSlots'
  BY <1>1, <1>4, <1>5, PrintedStep
<1>7. i[p] \in Nat /\ i[p] < Count[p] /\ Count[p] <= N /\ Count[p] \in Nat
  BY <1>1, <1>2, CountFits, ProcsFacts DEF FifoInv, Inv, TypeOK, LoopBound
<1>8. output[p] = 97 + i[p] /\ output[p] \in 97..(96 + N)
  BY <1>1, <1>2, <1>7, ConstAssumption DEF LettersInOrder
<1>9. Others(p)
  BY <1>1, Alone DEF FifoInv, Inv, Others, Section
<1>10. ASSUME NEW q \in Producers
       PROVE  /\ output'[q] = 97 + i'[q] + (IF pc'[q] \in {"load", "store", "stop"} THEN 1 ELSE 0)
              /\ pc'[q] \in {"load", "store"} => shm_buffer'[shm_pos_producer'] \in 97..(96 + N)
  <2>1. q \in Procs /\ i[q] \in Nat
    BY <1>2, ProcsFacts DEF TypeOK
  <2>2. CASE q # p
    <3>1. pc'[q] = pc[q] /\ output'[q] = output[q] /\ i'[q] = i[q]
      BY <1>1, <1>2, <2>1, <2>2 DEF Goto, TypeOK
    <3>2. pc[q] \notin {"load", "store", "stop"}
      BY <1>9, <2>1, <2>2 DEF Others, Section
    <3> QED BY <1>2, <3>1, <3>2 DEF LettersInOrder
  <2>3. CASE q = p
    <3>1. pc'[q] = "load" /\ output'[q] = output[q] + 1 /\ i'[q] = i[q]
      BY <1>1, <1>2, <2>1, <2>3 DEF Goto, TypeOK
    <3> QED BY <1>1, <1>4, <1>7, <1>8, <2>3, <3>1
  <2> QED BY <2>2, <2>3
<1>11. LettersInOrder'
  BY <1>10 DEF LettersInOrder
<1> QED
  BY <1>6, <1>11

(* The consumer prints the first slot nobody has printed. *)
LEMMA ConsumeFifo ==
  ASSUME FifoInv, NEW c \in Consumers, Consume(c)
  PROVE  PrintedSlots' /\ LettersInOrder'
PROOF
<1>1. /\ c \in Procs /\ c \notin Producers /\ pc[c] = "access" /\ Goto(c, "load")
      /\ UNCHANGED <<shm_buffer, shm_pos_producer, shm_pos_consumer, i, output>>
      /\ printed' = Append(printed, shm_buffer[shm_pos_consumer])
      /\ pc[c] \in Section
  BY ProcsFacts DEF Consume, shared, Section
<1>2. TypeOK /\ LettersInOrder /\ shm_pos_consumer \in Nat /\ printed \in Seq(Nat)
  BY ConstAssumption DEF FifoInv, Inv, TypeOK
<1>3. Others(c)
  BY <1>1, Alone DEF FifoInv, Inv, Others
<1>4. Others(c)' /\ pc'[c] = "load"
  BY <1>1, <1>2, <1>3, OthersStay
<1>5. Reading = 0 /\ Reading' = 1
  BY <1>1, <1>3, <1>4, ReadingAlone, ReadingAloneNext
<1>6. Len(printed) = shm_pos_consumer /\ \A k \in 1..Len(printed) : printed[k] = shm_buffer[k - 1]
  BY <1>2, <1>5 DEF FifoInv, PrintedSlots
<1>7. /\ Len(printed') = Len(printed) + 1
      /\ printed'[Len(printed) + 1] = shm_buffer[shm_pos_consumer]
      /\ \A k \in 1..Len(printed) : printed'[k] = printed[k]
  BY <1>1, <1>2
<1>8. PrintedSlots'
  <2>1. \A k \in 1..(shm_pos_consumer + 1) : k \in 1..shm_pos_consumer \/ k = shm_pos_consumer + 1
    BY <1>2
  <2>2. shm_pos_consumer + 1 - 1 = shm_pos_consumer
    BY <1>2
  <2>3. \A k \in 1..(shm_pos_consumer + 1) : printed'[k] = shm_buffer[k - 1]
    BY <1>6, <1>7, <2>1, <2>2
  <2> QED BY <1>1, <1>5, <1>6, <1>7, <2>3 DEF PrintedSlots
<1>9. \A p \in Producers : pc'[p] = pc[p]
  BY <1>1, <1>2, ProcsFacts DEF Goto, TypeOK
<1>10. LettersInOrder'
  BY <1>1, <1>2, <1>9, LettersKept
<1> QED
  BY <1>8, <1>10

(* The load of an increment moves neither letters nor positions. *)
LEMMA LoadFifo ==
  ASSUME FifoInv, NEW p \in Procs, ProducerLoad(p) \/ ConsumerLoad(p)
  PROVE  PrintedSlots' /\ LettersInOrder'
PROOF
<1>1. /\ UNCHANGED <<shm_buffer, shm_pos_producer, shm_pos_consumer, i, output, printed>>
      /\ pc[p] = "load" /\ Goto(p, "store")
  BY DEF ProducerLoad, ConsumerLoad, shared
<1>2. TypeOK /\ LettersInOrder
  BY DEF FifoInv, Inv
<1>3. Reading' = Reading
  BY <1>1, <1>2, ReadingKept
<1>4. PrintedSlots'
  BY <1>1, <1>3, PrintedStep
<1>5. \A q \in Producers :
        /\ pc'[q] \in {"load", "store", "stop"} <=> pc[q] \in {"load", "store", "stop"}
        /\ pc'[q] \in {"load", "store"} => pc[q] \in {"load", "store"}
  BY <1>1, <1>2, ProcsFacts DEF Goto, TypeOK
<1>6. LettersInOrder'
  BY <1>1, <1>2, <1>5, LettersKept
<1> QED
  BY <1>4, <1>6

(* The producers' position moves past the letter that was written. *)
LEMMA ProducerStoreFifo ==
  ASSUME FifoInv, NEW p \in Producers, ProducerStore(p)
  PROVE  PrintedSlots' /\ LettersInOrder'
PROOF
<1>1. /\ p \in Procs /\ p \notin Consumers
      /\ UNCHANGED <<shm_buffer, shm_pos_consumer, i, output, printed>>
      /\ pc[p] = "store" /\ Goto(p, "stop") /\ pc[p] \in Section
  BY ProcsFacts DEF ProducerStore, Section
<1>2. TypeOK /\ LettersInOrder
  BY DEF FifoInv, Inv
<1>3. Reading' = Reading
  BY <1>1, <1>2, ReadingKept
<1>4. PrintedSlots'
  BY <1>1, <1>3, PrintedStep
<1>5. Others(p)
  BY <1>1, Alone DEF FifoInv, Inv, Others
<1>6. \A q \in Producers :
        /\ pc'[q] \in {"load", "store", "stop"} <=> pc[q] \in {"load", "store", "stop"}
        /\ pc'[q] \notin {"load", "store"}
  BY <1>1, <1>2, <1>5, ProcsFacts DEF Goto, TypeOK, Others, Section
<1>7. LettersInOrder'
  BY <1>1, <1>2, <1>6 DEF LettersInOrder
<1> QED
  BY <1>4, <1>7

(* The consumers' position moves past the letter that was printed. *)
LEMMA ConsumerStoreFifo ==
  ASSUME FifoInv, NEW c \in Consumers, ConsumerStore(c)
  PROVE  /\ shm_pos_consumer' = shm_pos_consumer + 1
         /\ Len(printed) = shm_pos_consumer + 1
         /\ PrintedSlots' /\ LettersInOrder'
PROOF
<1>1. /\ c \in Procs /\ c \notin Producers
      /\ UNCHANGED <<shm_buffer, shm_pos_producer, i, output, printed>>
      /\ pc[c] = "store" /\ Goto(c, "stop") /\ pc[c] \in Section
      /\ shm_pos_consumer' = shm_pos_consumer + 1
  BY ProcsFacts DEF ConsumerStore, Section, FifoInv, Inv, NoLostIncrement
<1>2. TypeOK /\ LettersInOrder /\ shm_pos_consumer \in Nat
  BY ConstAssumption DEF FifoInv, Inv, TypeOK
<1>3. Others(c)
  BY <1>1, Alone DEF FifoInv, Inv, Others
<1>4. Others(c)' /\ pc'[c] = "stop"
  BY <1>1, <1>2, <1>3, OthersStay
<1>5. Reading = 1 /\ Reading' = 0
  BY <1>1, <1>3, <1>4, ReadingAlone, ReadingAloneNext
<1>6. PrintedSlots' /\ Len(printed) = shm_pos_consumer + 1
  BY <1>1, <1>2, <1>5 DEF FifoInv, PrintedSlots
<1>7. \A q \in Producers : pc'[q] = pc[q]
  BY <1>1, <1>2, ProcsFacts DEF Goto, TypeOK
<1>8. LettersInOrder'
  BY <1>1, <1>2, <1>7, LettersKept
<1> QED
  BY <1>1, <1>6, <1>8

(* Forking a child changes nobody's place in the section. *)
LEMMA ForkFifo ==
  ASSUME FifoInv, MakeChild
  PROVE  PrintedSlots' /\ LettersInOrder'
PROOF
<1>1. /\ forked + 1 \in Procs /\ pc[forked + 1] = "none" /\ Goto(forked + 1, "start")
      /\ UNCHANGED <<shm_buffer, shm_pos_producer, shm_pos_consumer, i, output, printed>>
  BY ProcsFacts DEF MakeChild, shared, FifoInv, Inv, TypeOK, NotForked
<1>2. TypeOK /\ LettersInOrder
  BY DEF FifoInv, Inv
<1>3. Reading' = Reading
  BY <1>1, <1>2, ReadingKept
<1>4. PrintedSlots'
  BY <1>1, <1>3, PrintedStep
<1>5. \A q \in Producers :
        /\ pc'[q] \in {"load", "store", "stop"} <=> pc[q] \in {"load", "store", "stop"}
        /\ pc'[q] \in {"load", "store"} => pc[q] \in {"load", "store"}
  BY <1>1, <1>2, ProcsFacts DEF Goto, TypeOK
<1>6. LettersInOrder'
  BY <1>1, <1>2, <1>5, LettersKept
<1> QED
  BY <1>4, <1>6

(* What the steps that move no child leave alone. *)
LEMMA QuietFifo ==
  ASSUME FifoInv,
         ForkFails \/ Wait \/ MainExit \/ (\E p \in Procs : Die(p)) \/ UNCHANGED vars
  PROVE  /\ UNCHANGED <<shm_buffer, shm_pos_producer, shm_pos_consumer, printed>>
         /\ PrintedSlots' /\ LettersInOrder'
PROOF
<1>1. UNCHANGED <<shm_buffer, shm_pos_producer, shm_pos_consumer, printed, i, output, pc>>
  BY DEF ForkFails, Wait, MainExit, Die, vars, shared
<1>2. PrintedSlots' /\ LettersInOrder'
  BY <1>1 DEF FifoInv, PrintedSlots, Reading, LettersInOrder
<1> QED
  BY <1>1, <1>2

(* The initial state satisfies the extended invariant and every step keeps it. *)
LEMMA InitFifo == Init => FifoInv
PROOF
<1> SUFFICES ASSUME Init PROVE FifoInv
  OBVIOUS
<1>1. Inv
  BY InitInv
<1>2. Reading = 0
  BY ProcsFacts DEF Init, Reading
<1>3. PrintedSlots
  BY <1>2 DEF Init, PrintedSlots
<1>4. LettersInOrder
  BY ProcsFacts DEF Init, LettersInOrder
<1> QED
  BY <1>1, <1>3, <1>4 DEF FifoInv

LEMMA NextFifo == FifoInv /\ [Next]_vars => FifoInv'
PROOF
<1> SUFFICES ASSUME FifoInv, [Next]_vars PROVE FifoInv'
  OBVIOUS
<1>1. Inv'
  BY NextInv DEF FifoInv
<1>2. CASE MakeChild
  BY <1>1, <1>2, ForkFifo DEF FifoInv
<1>3. CASE ForkFails \/ Wait \/ MainExit \/ (\E p \in Procs : Die(p)) \/ UNCHANGED vars
  BY <1>1, <1>3, QuietFifo DEF FifoInv
<1>4. ASSUME NEW p \in Producers, Producer(p)
      PROVE  FifoInv'
  <2>1. p \in Procs
    BY ProcsFacts
  <2>2. PrintedSlots' /\ LettersInOrder'
    BY <1>4, <2>1, SemopFifo, ProduceFifo, LoadFifo, ProducerStoreFifo DEF Producer
  <2> QED BY <1>1, <2>2 DEF FifoInv
<1>5. ASSUME NEW c \in Consumers, Consumer(c)
      PROVE  FifoInv'
  <2>1. c \in Procs
    BY ProcsFacts
  <2>2. PrintedSlots' /\ LettersInOrder'
    BY <1>5, <2>1, SemopFifo, ConsumeFifo, LoadFifo, ConsumerStoreFifo DEF Consumer
  <2> QED BY <1>1, <2>2 DEF FifoInv
<1> QED
  BY <1>2, <1>3, <1>4, <1>5 DEF Next, Main, Finished

(* ---- the refinement, sequence by sequence ---- *)

(* The slots of a buffer from lo up to hi. *)
Slots(b, lo, hi) == [k \in 1..(hi - lo) |-> b[lo + k - 1]]

(* A function on 1..m is a sequence of length m. *)
LEMMA FunctionIsSeq ==
  ASSUME NEW m \in Nat, NEW f \in [1..m -> Nat]
  PROVE  f \in Seq(Nat) /\ Len(f) = m
PROOF
<1>1. f \in Seq(Nat)
  BY SeqDef
<1>2. Len(f) \in Nat /\ DOMAIN f = 1..Len(f)
  BY <1>1, LenProperties
<1>3. 1..Len(f) = 1..m
  BY <1>2
<1>4. Len(f) = m
  BY <1>2, <1>3
<1> QED
  BY <1>1, <1>4

(* The slots between the two positions are a sequence of their distance. *)
LEMMA SlotsType ==
  ASSUME NEW b \in [0..N-1 -> Nat], NEW lo \in Nat, NEW hi \in 0..N, lo <= hi
  PROVE  Slots(b, lo, hi) \in Seq(Nat) /\ Len(Slots(b, lo, hi)) = hi - lo
PROOF
<1>1. hi - lo \in Nat
  BY ConstAssumption
<1>2. \A k \in 1..(hi - lo) : lo + k - 1 \in 0..N-1
  BY ConstAssumption
<1>3. Slots(b, lo, hi) \in [1..(hi - lo) -> Nat]
  BY <1>2 DEF Slots
<1> QED
  BY <1>1, <1>3, FunctionIsSeq

(* Moving the producers' position adds a slot at the end. *)
LEMMA SlotsAppend ==
  ASSUME NEW b \in [0..N-1 -> Nat], NEW lo \in Nat, NEW hi \in Nat, lo <= hi, hi < N
  PROVE  /\ Len(Slots(b, lo, hi)) = hi - lo
         /\ Slots(b, lo, hi + 1) = Append(Slots(b, lo, hi), b[hi])
PROOF
<1>1. /\ hi - lo \in Nat /\ hi + 1 - lo = (hi - lo) + 1 /\ lo + ((hi - lo) + 1) - 1 = hi
      /\ hi \in 0..N /\ hi + 1 \in 0..N /\ lo <= hi + 1
  BY ConstAssumption
<1>2. Slots(b, lo, hi) \in Seq(Nat) /\ Len(Slots(b, lo, hi)) = hi - lo
  BY <1>1, SlotsType
<1>3. \A k \in 1..(hi + 1 - lo) : k \in 1..(hi - lo) \/ k = (hi - lo) + 1
  BY <1>1
<1>4. hi \in 0..N-1 /\ b[hi] \in Nat
  BY ConstAssumption
<1>5. Slots(b, lo, hi + 1) \in Seq(Nat) /\ Len(Slots(b, lo, hi + 1)) = (hi - lo) + 1
  <2>1. \A h \in 0..N : lo <= h => Slots(b, lo, h) \in Seq(Nat) /\ Len(Slots(b, lo, h)) = h - lo
    BY SlotsType
  <2>2. Slots(b, lo, hi + 1) \in Seq(Nat) /\ Len(Slots(b, lo, hi + 1)) = hi + 1 - lo
    BY <1>1, <2>1
  <2> QED BY <1>1, <2>2
<1>6. /\ Append(Slots(b, lo, hi), b[hi]) \in Seq(Nat)
      /\ Len(Append(Slots(b, lo, hi), b[hi])) = (hi - lo) + 1
  BY <1>1, <1>2, <1>4
<1>7. ASSUME NEW k \in 1..((hi - lo) + 1)
      PROVE  Slots(b, lo, hi + 1)[k] = Append(Slots(b, lo, hi), b[hi])[k]
  <2>1. Slots(b, lo, hi + 1)[k] = b[lo + k - 1]
    BY <1>1 DEF Slots
  <2>2. CASE k \in 1..(hi - lo)
    <3>1. Append(Slots(b, lo, hi), b[hi])[k] = Slots(b, lo, hi)[k]
      BY <1>2, <1>4, <2>2
    <3> QED BY <2>1, <2>2, <3>1 DEF Slots
  <2>3. CASE k = (hi - lo) + 1
    BY <1>1, <1>2, <1>4, <2>1, <2>3
  <2> QED BY <1>1, <1>3, <2>2, <2>3
<1> QED
  BY <1>2, <1>5, <1>6, <1>7, SeqEqual

(* Moving the consumers' position takes the first slot away. *)
LEMMA SlotsTail ==
  ASSUME NEW b \in [0..N-1 -> Nat], NEW lo \in Nat, NEW hi \in 0..N, lo < hi
  PROVE  /\ Slots(b, lo, hi) # <<>> /\ Head(Slots(b, lo, hi)) = b[lo]
         /\ Slots(b, lo + 1, hi) = Tail(Slots(b, lo, hi))
PROOF
<1>1. /\ hi - lo \in Nat /\ hi - lo > 0 /\ hi - (lo + 1) = (hi - lo) - 1
      /\ (hi - lo) - 1 \in Nat /\ lo + 1 - 1 = lo
  BY ConstAssumption
<1>2. Slots(b, lo, hi) \in Seq(Nat) /\ Len(Slots(b, lo, hi)) = hi - lo
  BY SlotsType
<1>3. Slots(b, lo + 1, hi) \in Seq(Nat) /\ Len(Slots(b, lo + 1, hi)) = (hi - lo) - 1
  <2>1. lo + 1 \in Nat /\ lo + 1 <= hi
    BY ConstAssumption
  <2> QED BY <1>1, <2>1, SlotsType
<1>4. Slots(b, lo, hi) # <<>>
  BY <1>1, <1>2
<1>5. Head(Slots(b, lo, hi)) = b[lo]
  <2>1. Head(Slots(b, lo, hi)) = Slots(b, lo, hi)[1]
    BY <1>2, <1>4
  <2>2. 1 \in 1..(hi - lo)
    BY <1>1
  <2>3. Slots(b, lo, hi)[1] = b[lo + 1 - 1]
    BY <2>2 DEF Slots
  <2> QED BY <1>1, <2>1, <2>3
<1>6. /\ Tail(Slots(b, lo, hi)) \in Seq(Nat)
      /\ Len(Tail(Slots(b, lo, hi))) = (hi - lo) - 1
      /\ \A k \in 1..((hi - lo) - 1) : Tail(Slots(b, lo, hi))[k] = Slots(b, lo, hi)[k + 1]
  BY <1>2, <1>4, HeadTailProperties
<1>7. ASSUME NEW k \in 1..((hi - lo) - 1)
      PROVE  Slots(b, lo + 1, hi)[k] = Tail(Slots(b, lo, hi))[k]
  <2>1. k \in 1..(hi - (lo + 1)) /\ k + 1 \in 1..(hi - lo) /\ lo + (k + 1) - 1 = lo + 1 + k - 1
    BY <1>1
  <2>2. Slots(b, lo + 1, hi)[k] = b[lo + 1 + k - 1] /\ Slots(b, lo, hi)[k + 1] = b[lo + (k + 1) - 1]
    BY <2>1 DEF Slots
  <2> QED BY <1>6, <2>1, <2>2
<1> QED
  BY <1>3, <1>4, <1>5, <1>6, <1>7, SeqEqual

(* What the consumers have finished printing, and the queue they share. *)
Out == SubSeq(printed, 1, shm_pos_consumer)

LEMMA QueueIsSlots ==
  /\ Queue = Slots(shm_buffer, shm_pos_consumer, shm_pos_producer)
  /\ Queue' = Slots(shm_buffer', shm_pos_consumer', shm_pos_producer')
PROOF BY DEF Queue, Slots

(* Steps that move neither position and no slot between them, and append   *)
(* at most what is being printed, stutter.                                 *)
LEMMA FifoStutter ==
  ASSUME Inv,
         shm_pos_producer' = shm_pos_producer, shm_pos_consumer' = shm_pos_consumer,
         \A k \in 0..(shm_pos_producer - 1) : shm_buffer'[k] = shm_buffer[k]
  PROVE  Queue' = Queue
PROOF
<1>1. shm_pos_producer \in Nat /\ shm_pos_consumer \in Nat
  BY ConstAssumption DEF Inv, TypeOK
<1>2. \A k \in 1..(shm_pos_producer - shm_pos_consumer) :
         shm_pos_consumer + k - 1 \in 0..(shm_pos_producer - 1)
  BY <1>1
<1> QED
  BY <1>2 DEF Queue

(* A step of the segment is a step of the queue: the store of the          *)
(* producers' position puts a letter, that of the consumers' gets one, and *)
(* every other step stutters.                                              *)
LEMMA FifoStep ==
  ASSUME FifoInv, [Next]_vars
  PROVE  [Fifo!Next]_<<Queue, Out>>
PROOF
<1>1. /\ Inv /\ TypeOK
      /\ shm_pos_producer \in 0..N /\ shm_pos_consumer \in 0..N /\ N \in Nat
      /\ shm_pos_producer \in Nat /\ shm_pos_consumer \in Nat
      /\ shm_pos_consumer <= shm_pos_producer
      /\ shm_buffer \in [0..N-1 -> Nat] /\ printed \in Seq(Nat)
      /\ Len(printed) \in {shm_pos_consumer, shm_pos_consumer + 1}
      /\ \A k \in 1..Len(printed) : printed[k] = shm_buffer[k - 1]
  <2>1. Inv /\ TypeOK /\ N \in Nat
    BY ConstAssumption DEF FifoInv, Inv
  <2>2. /\ shm_pos_producer \in 0..N /\ shm_pos_consumer \in 0..N
        /\ shm_pos_producer \in Nat /\ shm_pos_consumer \in Nat
        /\ shm_buffer \in [0..N-1 -> Nat] /\ printed \in Seq(Nat)
    BY <2>1 DEF TypeOK
  <2>3. Reading \in {0, 1}
    BY DEF Reading
  <2>4. /\ Len(printed) = shm_pos_consumer + Reading
        /\ \A k \in 1..Len(printed) : printed[k] = shm_buffer[k - 1]
    BY DEF FifoInv, PrintedSlots
  <2>5. Len(printed) \in {shm_pos_consumer, shm_pos_consumer + 1}
    BY <2>2, <2>3, <2>4
  <2> QED BY <2>1, <2>2, <2>4, <2>5, PositionsOrdered
<1>2. CASE UNCHANGED <<shm_buffer, shm_pos_producer, shm_pos_consumer, printed>>
  BY <1>2 DEF Queue, Out
<1>3. CASE MakeChild
  BY <1>2, <1>3 DEF MakeChild, shared
<1>4. CASE ForkFails \/ Wait \/ MainExit \/ (\E p \in Procs : Die(p)) \/ UNCHANGED vars
  BY <1>2, <1>4, QuietFifo
<1>5. ASSUME NEW p \in Producers, Produce(p)
      PROVE  UNCHANGED <<Queue, Out>>
  <2>1. \A k \in 0..(shm_pos_producer - 1) : shm_buffer'[k] = shm_buffer[k]
    BY <1>1, <1>5 DEF Produce
  <2>2. Queue' = Queue
    BY <1>1, <1>5, <2>1, FifoStutter DEF Produce
  <2> QED BY <1>5, <2>2 DEF Produce, Out
<1>6. ASSUME NEW p \in Producers, ProducerStore(p)
      PROVE  Fifo!Next
  <2>1. /\ pc[p] = "store" /\ reg[p] = shm_pos_producer
        /\ UNCHANGED <<shm_buffer, shm_pos_consumer, printed>>
        /\ shm_pos_producer' = shm_pos_producer + 1
    BY <1>1, <1>6, ProcsFacts DEF ProducerStore, Inv, NoLostIncrement
  <2>2. shm_pos_producer < N
    BY <1>1, <2>1, RoomToProduce
  <2>3. /\ Len(Queue) = shm_pos_producer - shm_pos_consumer
        /\ Queue' = Append(Queue, shm_buffer[shm_pos_producer])
    <3>1. /\ Len(Slots(shm_buffer, shm_pos_consumer, shm_pos_producer))
             = shm_pos_producer - shm_pos_consumer
          /\ Slots(shm_buffer, shm_pos_consumer, shm_pos_producer + 1)
             = Append(Slots(shm_buffer, shm_pos_consumer, shm_pos_producer),
                      shm_buffer[shm_pos_producer])
      BY <1>1, <2>2, SlotsAppend
    <3> QED BY <2>1, <3>1, QueueIsSlots
  <2>4. shm_buffer[shm_pos_producer] \in 97..(96 + N)
    BY <2>1 DEF FifoInv, LettersInOrder
  <2>5. Out' = Out /\ Len(Queue) < N
    BY <1>1, <2>1, <2>2, <2>3 DEF Out
  <2>6. Fifo!Put(shm_buffer[shm_pos_producer])
    BY <2>3, <2>5 DEF Fifo!Put, Out
  <2> QED BY <2>4, <2>6 DEF Fifo!Next
<1>7. ASSUME NEW c \in Consumers, Consume(c)
      PROVE  UNCHANGED <<Queue, Out>>
  <2>1. /\ UNCHANGED <<shm_buffer, shm_pos_producer, shm_pos_consumer>>
        /\ printed' = Append(printed, shm_buffer[shm_pos_consumer])
    BY <1>7 DEF Consume, shared
  <2>2. Queue' = Queue
    BY <2>1 DEF Queue
  <2>3. shm_pos_consumer \in 0..Len(printed)
    BY <1>1
  <2>4. shm_buffer[shm_pos_consumer] \in Nat
    <3>1. c \in Procs /\ pc[c] = "access"
      BY <1>7, ProcsFacts DEF Consume
    <3>2. shm_pos_consumer < shm_pos_producer
      BY <1>1, <3>1, SlotToConsume
    <3> QED BY <1>1, <3>2
  <2>5. SubSeq(Append(printed, shm_buffer[shm_pos_consumer]), 1, shm_pos_consumer)
        = SubSeq(printed, 1, shm_pos_consumer)
    BY <1>1, <2>3, <2>4
  <2> QED BY <2>1, <2>2, <2>5 DEF Out
<1>8. ASSUME NEW c \in Consumers, ConsumerStore(c)
      PROVE  Fifo!Next
  <2>1. /\ c \in Procs /\ pc[c] = "store"
        /\ UNCHANGED <<shm_buffer, shm_pos_producer, printed>>
    BY <1>8, ProcsFacts DEF ConsumerStore
  <2>2. /\ shm_pos_consumer' = shm_pos_consumer + 1
        /\ Len(printed) = shm_pos_consumer + 1
    BY <1>8, ConsumerStoreFifo
  <2>3. shm_pos_consumer < shm_pos_producer
    BY <1>1, <2>1, SlotToConsume
  <2>4. /\ Queue # <<>> /\ Head(Queue) = shm_buffer[shm_pos_consumer]
        /\ Queue' = Tail(Queue)
    <3>1. /\ Slots(shm_buffer, shm_pos_consumer, shm_pos_producer) # <<>>
          /\ Head(Slots(shm_buffer, shm_pos_consumer, shm_pos_producer))
             = shm_buffer[shm_pos_consumer]
          /\ Slots(shm_buffer, shm_pos_consumer + 1, shm_pos_producer)
             = Tail(Slots(shm_buffer, shm_pos_consumer, shm_pos_producer))
      BY <1>1, <2>3, SlotsTail
    <3> QED BY <2>1, <2>2, <3>1, QueueIsSlots
  <2>5. printed[shm_pos_consumer + 1] = shm_buffer[shm_pos_consumer]
    <3>1. shm_pos_consumer + 1 \in 1..Len(printed) /\ shm_pos_consumer + 1 - 1 = shm_pos_consumer
      BY <1>1, <2>2
    <3> QED BY <1>1, <3>1
  <2>6. SubSeq(printed, 1, shm_pos_consumer + 1)
        = Append(SubSeq(printed, 1, shm_pos_consumer), printed[shm_pos_consumer + 1])
    BY <1>1, <2>2
  <2>7. Out' = Append(Out, Head(Queue))
    BY <2>1, <2>2, <2>4, <2>5, <2>6 DEF Out
  <2>8. Fifo!Get
    BY <2>4, <2>7 DEF Fifo!Get, Out
  <2> QED BY <2>8 DEF Fifo!Next
<1>9. ASSUME NEW p \in Procs,
             \/ ProducerStart(p) \/ ProducerStop(p) \/ ProducerLoad(p)
             \/ ConsumerStart(p) \/ ConsumerStop(p) \/ ConsumerLoad(p)
      PROVE  UNCHANGED <<shm_buffer, shm_pos_producer, shm_pos_consumer, printed>>
  BY <1>9 DEF ProducerStart, ProducerStop, ProducerLoad, ConsumerStart, ConsumerStop,
              ConsumerLoad, Start, Stop, shared
<1>10. ASSUME NEW p \in Producers, Producer(p)
       PROVE  [Fifo!Next]_<<Queue, Out>>
  <2>1. p \in Procs
    BY ProcsFacts
  <2> QED BY <1>2, <1>5, <1>6, <1>9, <1>10, <2>1 DEF Producer
<1>11. ASSUME NEW c \in Consumers, Consumer(c)
       PROVE  [Fifo!Next]_<<Queue, Out>>
  <2>1. c \in Procs
    BY ProcsFacts
  <2> QED BY <1>2, <1>7, <1>8, <1>9, <1>11, <2>1 DEF Consumer
<1> QED
  BY <1>3, <1>4, <1>10, <1>11 DEF Next, Main, Finished

(* The invariant with the letters holds in every behaviour. *)
LEMMA FifoInvariance == Spec => []FifoInv
PROOF BY InitFifo, NextFifo, PTL DEF Spec

(* The shared segment and its semaphores implement a bounded queue: no     *)
(* letter is lost, repeated, invented or overtaken, for every number of    *)
(* children, whoever dies and whenever main's fork fails.                  *)
THEOREM Refinement == Spec => ImplementsFifo
PROOF
<1>1. Init => Fifo!Init
  <2> SUFFICES ASSUME Init PROVE Fifo!Init
    OBVIOUS
  <2>1. Queue = <<>>
    BY DEF Init, Queue
  <2>2. SubSeq(printed, 1, shm_pos_consumer) = <<>>
    BY DEF Init
  <2> QED BY <2>1, <2>2 DEF Fifo!Init
<1>2. FifoInv /\ [Next]_vars => [Fifo!Next]_<<Queue, SubSeq(printed, 1, shm_pos_consumer)>>
  BY FifoStep DEF Out
<1> QED
  BY <1>1, <1>2, FifoInvariance, PTL DEF Spec, ImplementsFifo, Fifo!Spec

(* ---- nobody is stuck ---- *)

(* The letters the consumers are to take, and those whose position has     *)
(* been stored.                                                            *)
Letters  == UNION {{c} \X (1..Count[c]) : c \in Consumers}
Consumed == {it \in Letters : ItemDone(it)}
ConsumedIsCount == shm_pos_consumer = Cardinality(Consumed)

(* Who is forked is somewhere, who has left has done all its rounds.       *)
Started == /\ \A p \in Procs : p <= forked => pc[p] # "none"
           /\ main \in {"wait", "exited"} => forked = NProcs
           /\ \A p \in Procs : pc[p] = "exited" => i[p] >= Count[p]

(* p's next step is possible: its semop call returns.                      *)
CanGoOn(p) ==
  /\ Alive(p)
  /\ \/ pc[p] \in {"access", "load", "store"}
     \/ pc[p] = "start" /\ semop(sem, IF p \in Producers THEN producer_start ELSE consumer_start).ok
     \/ pc[p] = "stop" /\ semop(sem, IF p \in Producers THEN producer_stop ELSE consumer_stop).ok

(* Unless a producer has died, or anybody inside, there is a child that    *)
(* can go on until each has ended.                                         *)
NobodyIsStuck ==
  main \in {"wait", "exited"} /\ killed \cap (Producers \cup Inside) = {} =>
    \/ \E p \in Procs : CanGoOn(p)
    \/ \A p \in Procs : pc[p] = "exited" \/ p \in killed

(* The consumers ask for no more than there is.                            *)
EnoughLetters == IsFiniteSet(Letters) /\ Cardinality(Letters) <= Cardinality(Items)

LEMMA LettersFacts ==
  /\ \A it \in Letters : it = <<it[1], it[2]>> /\ it[1] \in Consumers /\ it[2] \in 1..Count[it[1]]
  /\ \A c \in Consumers, k \in Nat : 1 <= k /\ k <= Count[c] => <<c, k>> \in Letters
PROOF
<1>1. \A it \in Letters : it = <<it[1], it[2]>> /\ it[1] \in Consumers /\ it[2] \in 1..Count[it[1]]
  BY DEF Letters
<1>2. ASSUME NEW c \in Consumers, NEW k \in Nat, 1 <= k, k <= Count[c]
      PROVE  <<c, k>> \in Letters
  <2>1. k \in 1..Count[c]
    BY <1>2, ProcsFacts
  <2> QED
    BY <2>1 DEF Letters
<1> QED
  BY <1>1, <1>2

(* A consumer's rounds are counted by its store alone. *)
LEMMA ConsumedStays ==
  ASSUME Inv, ConsumedIsCount, shm_pos_consumer' = shm_pos_consumer,
         \A c \in Consumers, k \in Nat \ {0} : ItemDone(<<c, k>>)' <=> ItemDone(<<c, k>>)
  PROVE  ConsumedIsCount'
PROOF
<1>1. \A it \in Letters : ItemDone(it)' <=> ItemDone(it)
  <2> SUFFICES ASSUME NEW it \in Letters PROVE ItemDone(it)' <=> ItemDone(it)
    OBVIOUS
  <2>1. it = <<it[1], it[2]>> /\ it[1] \in Consumers /\ it[2] \in Nat \ {0}
    BY LettersFacts, ProcsFacts
  <2>2. PICK c \in Consumers, k \in Nat \ {0} : it = <<c, k>>
    BY <2>1
  <2> QED
    BY <2>2
<1>2. Consumed' = Consumed
  BY <1>1 DEF Consumed
<1> QED
  BY <1>2 DEF ConsumedIsCount

(* A step that neither enters nor leaves "stop". *)
LEMMA ConsumedQuiet ==
  ASSUME Inv, ConsumedIsCount, shm_pos_consumer' = shm_pos_consumer, i' = i,
         \A c \in Consumers : pc'[c] = "stop" <=> pc[c] = "stop"
  PROVE  ConsumedIsCount'
PROOF
<1>1. \A c \in Consumers, k \in Nat \ {0} : ItemDone(<<c, k>>)' <=> ItemDone(<<c, k>>)
  BY DEF ItemDone
<1> QED
  BY <1>1, ConsumedStays

LEMMA ConsumedLeave ==
  ASSUME Inv, ConsumedIsCount, NEW p \in Procs, pc[p] = "stop", shm_pos_consumer' = shm_pos_consumer,
         NEW here, Goto(p, here), here # "stop", i' = [i EXCEPT ![p] = @ + 1]
  PROVE  ConsumedIsCount'
PROOF
<1>1. ASSUME NEW c \in Consumers, NEW k \in Nat \ {0}
      PROVE  ItemDone(<<c, k>>)' <=> ItemDone(<<c, k>>)
  <2>1. c \in Procs /\ i[c] \in Nat
    BY ProcsFacts DEF Inv, TypeOK
  <2>2. CASE c = p
    <3>1. i'[p] = i[p] + 1 /\ pc'[p] = here /\ i[p] \in Nat
      BY <2>1, <2>2 DEF Inv, TypeOK, Goto
    <3>2. k <= i[p] + 1 <=> k <= i[p] \/ k = i[p] + 1
      BY <3>1
    <3> QED
      BY <2>2, <3>1, <3>2 DEF ItemDone
  <2>3. CASE c # p
    BY <2>1, <2>3 DEF Inv, TypeOK, Goto, ItemDone
  <2> QED
    BY <2>2, <2>3
<1> QED
  BY <1>1, ConsumedStays

LEMMA ConsumedStore ==
  ASSUME Inv, ConsumedIsCount, IsFiniteSet(Letters), NEW c \in Consumers, ConsumerStore(c)
  PROVE  ConsumedIsCount'
PROOF
<1>1. /\ c \in Procs /\ pc[c] = "store" /\ pc' = [pc EXCEPT ![c] = "stop"] /\ i' = i
      /\ shm_pos_consumer' = shm_pos_consumer + 1
      /\ i[c] \in Nat /\ i[c] < Count[c] /\ Count[c] \in Nat
  BY ProcsFacts DEF ConsumerStore, Goto, Inv, NoLostIncrement, LoopBound, TypeOK
<1>2. <<c, i[c] + 1>> \in Letters
  BY <1>1, LettersFacts
<1>3. <<c, i[c] + 1>> \notin Consumed
  BY <1>1 DEF Consumed, ItemDone
<1>4. ASSUME NEW it \in Letters
      PROVE  ItemDone(it)' <=> ItemDone(it) \/ it = <<c, i[c] + 1>>
  <2>1. /\ it = <<it[1], it[2]>> /\ it[1] \in Procs /\ it[2] \in Nat
        /\ i[it[1]] \in Nat
    BY LettersFacts, ProcsFacts DEF Inv, TypeOK
  <2>2. CASE it[1] = c
    <3>1. it = <<c, i[c] + 1>> <=> it[2] = i[c] + 1
      BY <2>1, <2>2
    <3>2. pc'[c] = "stop"
      BY <1>1 DEF Inv, TypeOK
    <3> QED
      BY <1>1, <2>1, <2>2, <3>1, <3>2 DEF ItemDone
  <2>3. CASE it[1] # c
    <3>1. pc'[it[1]] = pc[it[1]]
      BY <1>1, <2>1, <2>3 DEF Inv, TypeOK
    <3>2. it # <<c, i[c] + 1>>
      BY <2>3
    <3> QED
      BY <1>1, <3>1, <3>2 DEF ItemDone
  <2> QED
    BY <2>2, <2>3
<1>5. Consumed' = Consumed \cup {<<c, i[c] + 1>>}
  BY <1>2, <1>4 DEF Consumed
<1>6. IsFiniteSet(Consumed)
  BY FS_Subset DEF Consumed
<1>7. Cardinality(Consumed') = Cardinality(Consumed) + 1
  BY <1>3, <1>5, <1>6, FS_AddElement
<1> QED
  BY <1>1, <1>7 DEF ConsumedIsCount

(* The steps that matter to Started. *)
LEMMA StartedQuiet ==
  ASSUME Inv, Started, NEW p \in Procs, NEW here, here \notin {"none", "exited"}, Goto(p, here),
         UNCHANGED <<i, main, forked>>
  PROVE  Started'
PROOF BY DEF Started, Goto, Inv, TypeOK

LEMMA StartedLeave ==
  ASSUME Inv, Started, NEW p \in Procs, i' = [i EXCEPT ![p] = @ + 1],
         Goto(p, IF i[p] + 1 < Count[p] THEN "start" ELSE "exited"),
         UNCHANGED <<main, forked>>
  PROVE  Started'
PROOF
<1>1. /\ i'[p] = i[p] + 1 /\ i[p] \in Nat /\ Count[p] \in Nat
      /\ pc'[p] = IF i[p] + 1 < Count[p] THEN "start" ELSE "exited"
      /\ \A q \in Procs : q # p => pc'[q] = pc[q] /\ i'[q] = i[q]
  BY ProcsFacts DEF Goto, Inv, TypeOK
<1>2. pc'[p] \in {"start", "exited"} /\ (pc'[p] = "exited" => i'[p] >= Count[p])
  BY <1>1
<1> QED
  BY <1>1, <1>2 DEF Started

LEMMA StartedFork ==
  ASSUME Inv, Started, MakeChild
  PROVE  Started'
PROOF
<1>1. /\ forked \in Nat /\ NProcs \in Nat /\ forked' = forked + 1 /\ i' = i
      /\ pc' = [pc EXCEPT ![forked + 1] = "start"] /\ forked + 1 \in Procs
      /\ main' = IF forked + 1 = NProcs THEN "wait" ELSE "fork"
      /\ Procs \subseteq Nat
  BY ProcsFacts DEF MakeChild, Goto, Inv, TypeOK
<1>2. \A p \in Procs : p <= forked + 1 <=> p <= forked \/ p = forked + 1
  BY <1>1
<1>3. \A p \in Procs : pc'[p] = IF p = forked + 1 THEN "start" ELSE pc[p]
  BY <1>1 DEF Inv, TypeOK
<1>4. main' \in {"wait", "exited"} => forked' = NProcs
  BY <1>1
<1>5. \A p \in Procs : p <= forked' => pc'[p] # "none"
  BY <1>1, <1>2, <1>3 DEF Started
<1>6. \A p \in Procs : pc'[p] = "exited" => i'[p] >= Count[p]
  BY <1>1, <1>3 DEF Started
<1> QED
  BY <1>4, <1>5, <1>6 DEF Started

StuckInv == Inv /\ ConsumedIsCount /\ Started

LEMMA InitStuck == IsFiniteSet(Letters) /\ Init => StuckInv
PROOF
<1> SUFFICES ASSUME Init PROVE StuckInv
  OBVIOUS
<1>1. Consumed = {}
  <2>1. \A it \in Letters : ~ItemDone(it)
    BY LettersFacts, ProcsFacts DEF Init, ItemDone
  <2> QED
    BY <2>1 DEF Consumed
<1>2. ConsumedIsCount
  BY <1>1, FS_EmptySet DEF Init, ConsumedIsCount
<1>3. Started
  BY DEF Init, Started, Procs
<1> QED
  BY <1>2, <1>3, InitInv DEF StuckInv

LEMMA NextStuck == IsFiniteSet(Letters) /\ StuckInv /\ [Next]_vars => StuckInv'
PROOF
<1> SUFFICES ASSUME IsFiniteSet(Letters), StuckInv, [Next]_vars PROVE StuckInv'
  OBVIOUS
<1>0. Inv /\ Inv' /\ ConsumedIsCount /\ Started
  BY NextInv DEF StuckInv
<1> SUFFICES ConsumedIsCount' /\ Started'
  BY <1>0 DEF StuckInv
<1> HIDE DEF StuckInv
<1>1. CASE MakeChild
  <2>1. pc' = [pc EXCEPT ![forked + 1] = "start"] /\ i' = i /\ shm_pos_consumer' = shm_pos_consumer
    BY <1>1 DEF MakeChild, Goto, shared
  <2>2. pc[forked + 1] = "none"
    BY <1>0, <1>1, ProcsFacts DEF MakeChild, Inv, TypeOK, NotForked
  <2>3. \A c \in Consumers : pc'[c] = "stop" <=> pc[c] = "stop"
    BY <1>0, <2>1, <2>2, ProcsFacts DEF Inv, TypeOK
  <2> QED
    BY <1>0, <1>1, <2>1, <2>3, ConsumedQuiet, StartedFork
<1>2. CASE ForkFails \/ Wait \/ MainExit \/ (\E p \in Procs : Die(p)) \/ UNCHANGED vars
  <2>1. pc' = pc /\ i' = i /\ shm_pos_consumer' = shm_pos_consumer /\ forked' = forked
        /\ (main' \in {"wait", "exited"} => main \in {"wait", "exited"})
    BY <1>2 DEF ForkFails, Wait, MainExit, Die, vars, shared, parent
  <2>2. Started'
    BY <1>0, <2>1 DEF Started
  <2> QED
    BY <1>0, <2>1, <2>2, ConsumedQuiet
<1>3. ASSUME NEW p \in Procs, NEW from, NEW here, here \notin {"none", "exited"}, Goto(p, here), pc[p] = from,
             p \in Consumers => from # "stop" /\ here # "stop",
             UNCHANGED <<i, main, forked, shm_pos_consumer>>
      PROVE  ConsumedIsCount' /\ Started'
  <2>1. \A c \in Consumers : pc'[c] = "stop" <=> pc[c] = "stop"
    BY <1>0, <1>3, ProcsFacts DEF Goto, Inv, TypeOK
  <2> QED
    BY <1>0, <1>3, <2>1, ConsumedQuiet, StartedQuiet
<1>4. ASSUME NEW p \in Producers, Producer(p)
      PROVE  ConsumedIsCount' /\ Started'
  <2>1. p \in Procs /\ p \notin Consumers
    BY ProcsFacts
  <2>2. CASE ProducerStop(p)
    <3>1. /\ pc[p] = "stop" /\ i' = [i EXCEPT ![p] = @ + 1] /\ shm_pos_consumer' = shm_pos_consumer
          /\ Goto(p, IF i[p] + 1 < Count[p] THEN "start" ELSE "exited") /\ UNCHANGED <<main, forked>>
      BY <2>2 DEF ProducerStop, Stop, shared, parent
    <3> QED
      BY <1>0, <2>1, <3>1, ConsumedLeave, StartedLeave
  <2>3. CASE ProducerStart(p)
    <3>1. pc[p] = "start" /\ Goto(p, "access") /\ UNCHANGED <<i, main, forked, shm_pos_consumer>>
      BY <2>3 DEF ProducerStart, Start, shared, parent
    <3> QED
      BY <1>3, <2>1, <3>1
  <2>4. CASE Produce(p)
    <3>1. pc[p] = "access" /\ Goto(p, "load") /\ UNCHANGED <<i, main, forked, shm_pos_consumer>>
      BY <2>4 DEF Produce, parent
    <3> QED
      BY <1>3, <2>1, <3>1
  <2>5. CASE ProducerLoad(p)
    <3>1. pc[p] = "load" /\ Goto(p, "store") /\ UNCHANGED <<i, main, forked, shm_pos_consumer>>
      BY <2>5 DEF ProducerLoad, shared, parent
    <3> QED
      BY <1>3, <2>1, <3>1
  <2>6. CASE ProducerStore(p)
    <3>1. pc[p] = "store" /\ Goto(p, "stop") /\ UNCHANGED <<i, main, forked, shm_pos_consumer>>
      BY <2>6 DEF ProducerStore, parent
    <3> QED
      BY <1>3, <2>1, <3>1
  <2> QED
    BY <1>4, <2>2, <2>3, <2>4, <2>5, <2>6 DEF Producer
<1>5. ASSUME NEW c \in Consumers, Consumer(c)
      PROVE  ConsumedIsCount' /\ Started'
  <2>1. c \in Procs
    BY ProcsFacts
  <2>2. CASE ConsumerStop(c)
    <3>1. /\ pc[c] = "stop" /\ i' = [i EXCEPT ![c] = @ + 1] /\ shm_pos_consumer' = shm_pos_consumer
          /\ Goto(c, IF i[c] + 1 < Count[c] THEN "start" ELSE "exited") /\ UNCHANGED <<main, forked>>
      BY <2>2 DEF ConsumerStop, Stop, shared, parent
    <3> QED
      BY <1>0, <2>1, <3>1, ConsumedLeave, StartedLeave
  <2>3. CASE ConsumerStart(c)
    <3>1. pc[c] = "start" /\ Goto(c, "access") /\ UNCHANGED <<i, main, forked, shm_pos_consumer>>
      BY <2>3 DEF ConsumerStart, Start, shared, parent
    <3> QED
      BY <1>3, <2>1, <3>1
  <2>4. CASE Consume(c)
    <3>1. pc[c] = "access" /\ Goto(c, "load") /\ UNCHANGED <<i, main, forked, shm_pos_consumer>>
      BY <2>4 DEF Consume, shared, parent
    <3> QED
      BY <1>3, <2>1, <3>1
  <2>5. CASE ConsumerLoad(c)
    <3>1. pc[c] = "load" /\ Goto(c, "store") /\ UNCHANGED <<i, main, forked, shm_pos_consumer>>
      BY <2>5 DEF ConsumerLoad, shared, parent
    <3> QED
      BY <1>3, <2>1, <3>1
  <2>6. CASE ConsumerStore(c)
    <3>1. Goto(c, "stop") /\ UNCHANGED <<i, main, forked>>
      BY <2>6 DEF ConsumerStore, parent
    <3> QED
      BY <1>0, <2>1, <2>6, <3>1, ConsumedStore, StartedQuiet
  <2> QED
    BY <1>5, <2>2, <2>3, <2>4, <2>5, <2>6 DEF Consumer
<1> QED
  BY <1>1, <1>2, <1>4, <1>5 DEF Next, Main, Finished

(* ---- in every such state there is somebody who can go on ---- *)

(* When a call of two such operations returns. *)
LEMMA TwoReturn ==
  ASSUME NEW S, NEW vals \in [S -> Nat], NEW x \in S, NEW y \in S, x # y,
         NEW dx \in Int, dx # 0, NEW dy \in Int, dy # 0,
         vals[x] + dx >= 0, vals[y] + dy >= 0
  PROVE  semop(vals, <<sembuf(x, dx), sembuf(y, dy)>>).ok
PROOF BY Zenon, AddTwo

LEMMA SemopsReturn ==
  ASSUME Inv
  PROVE  /\ semop(sem, producer_stop).ok /\ semop(sem, consumer_stop).ok
         /\ sem[SEM_BINARY] >= 1 /\ sem[SEM_EMPTY] >= 1 => semop(sem, producer_start).ok
         /\ sem[SEM_BINARY] >= 1 /\ sem[SEM_FULL] >= 1 => semop(sem, consumer_start).ok
PROOF
<1>1. sem \in [{0, 1, 2} -> Nat] /\ SEM_BINARY = 0 /\ SEM_EMPTY = 1 /\ SEM_FULL = 2 /\ P = -1 /\ V = 1
  BY DEF Inv, TypeOK, SEM_BINARY, SEM_EMPTY, SEM_FULL, P, V
<1>2. sem[0] \in Nat /\ sem[1] \in Nat /\ sem[2] \in Nat
  BY <1>1
<1>4. semop(sem, <<sembuf(0, 1), sembuf(2, 1)>>).ok
  <2>1. sem[0] + 1 >= 0 /\ sem[2] + 1 >= 0 /\ 1 \in Int /\ 1 # 0 /\ 0 \in {0, 1, 2} /\ 2 \in {0, 1, 2} /\ 0 # 2
    BY <1>2
  <2> QED
    BY Zenon, <1>1, <2>1, TwoReturn
<1>5. semop(sem, <<sembuf(0, 1), sembuf(1, 1)>>).ok
  <2>1. sem[0] + 1 >= 0 /\ sem[1] + 1 >= 0 /\ 1 \in Int /\ 1 # 0 /\ 0 \in {0, 1, 2} /\ 1 \in {0, 1, 2} /\ 0 # 1
    BY <1>2
  <2> QED
    BY Zenon, <1>1, <2>1, TwoReturn
<1>6. ASSUME sem[0] >= 1, sem[1] >= 1
      PROVE  semop(sem, <<sembuf(1, -1), sembuf(0, -1)>>).ok
  <2>1. sem[1] + (-1) >= 0 /\ sem[0] + (-1) >= 0 /\ -1 \in Int /\ -1 # 0 /\ 1 \in {0, 1, 2} /\ 0 \in {0, 1, 2} /\ 1 # 0
    BY <1>2, <1>6
  <2> QED
    BY Zenon, <1>1, <2>1, TwoReturn
<1>7. ASSUME sem[0] >= 1, sem[2] >= 1
      PROVE  semop(sem, <<sembuf(2, -1), sembuf(0, -1)>>).ok
  <2>1. sem[2] + (-1) >= 0 /\ sem[0] + (-1) >= 0 /\ -1 \in Int /\ -1 # 0 /\ 2 \in {0, 1, 2} /\ 0 \in {0, 1, 2} /\ 2 # 0
    BY <1>2, <1>7
  <2> QED
    BY Zenon, <1>1, <2>1, TwoReturn
<1> QED
  BY <1>1, <1>4, <1>5, <1>6, <1>7 DEF producer_stop, consumer_stop, producer_start, consumer_start

LEMMA SomebodyGoesOn == EnoughLetters /\ StuckInv => NobodyIsStuck
PROOF
<1> SUFFICES ASSUME EnoughLetters, StuckInv, main \in {"wait", "exited"},
                    killed \cap (Producers \cup Inside) = {},
                    \A p \in Procs : ~CanGoOn(p)
             PROVE  \A p \in Procs : pc[p] = "exited" \/ p \in killed
  BY DEF NobodyIsStuck
<1>1. Inv /\ TypeOK /\ ConsumedIsCount /\ Started /\ forked = NProcs
  BY DEF StuckInv, Inv, Started
<1>2. \A p \in Procs : pc[p] \in {"start", "exited"} \cup Section
  <2>1. \A p \in Procs : p <= forked
    BY <1>1 DEF Procs
  <2> QED
    BY <1>1, <2>1 DEF Started, TypeOK
<1>3. Inside = {}
  <2> SUFFICES ASSUME NEW p \in Inside PROVE FALSE
    OBVIOUS
  <2>1. p \in Procs /\ pc[p] \in Section /\ p \notin killed
    BY DEF Inside
  <2>2. Alive(p)
    BY <2>1 DEF Alive, Section
  <2>3. pc[p] \in {"access", "load", "store"} \/ pc[p] = "stop"
    BY <2>1 DEF Section
  <2> QED
    BY <1>1, <2>1, <2>2, <2>3, SemopsReturn DEF CanGoOn
<1>4. /\ sem[SEM_BINARY] = 1
      /\ sem[SEM_FULL]  = shm_pos_producer - shm_pos_consumer
      /\ sem[SEM_EMPTY] = N - shm_pos_producer + shm_pos_consumer
  <2>1. \A p \in Procs : pc[p] \notin Section
    BY <1>3 DEF Inside
  <2>2. Claimed(Producers) = 0 /\ Claimed(Consumers) = 0 /\ Unposted(Producers) = 0 /\ Unposted(Consumers) = 0
    BY <2>1, ProcsFacts DEF Claimed, Unposted, Section
  <2> QED
    BY <1>1, <1>3, <2>2, ConstAssumption DEF Inv, SemAccounting, TypeOK
<1>5. shm_pos_producer \in Nat /\ shm_pos_consumer \in Nat /\ N \in Nat
  BY <1>1, ConstAssumption DEF TypeOK
<1>6. \A p \in Producers : pc[p] = "exited"
  <2> SUFFICES ASSUME NEW p \in Producers, pc[p] # "exited" PROVE FALSE
    OBVIOUS
  <2>1. p \in Procs /\ pc[p] = "start" /\ p \notin killed
    BY <1>2, <1>3, ProcsFacts DEF Inside
  <2>2. Alive(p)
    BY <2>1 DEF Alive
  <2>3. i[p] \in Nat /\ i[p] < Count[p] /\ Count[p] \in Nat
    BY <1>1, <2>1, ProcsFacts DEF Inv, TypeOK, LoopBound
  <2>4. <<p, i[p] + 1>> \in Items
    BY <2>3, ItemsFacts
  <2>5. <<p, i[p] + 1>> \notin Produced
    BY <2>1, <2>3 DEF Produced, ItemDone
  <2>6. Produced \subseteq Items
    BY DEF Produced
  <2>7. Cardinality(Produced) # Cardinality(Items) /\ Cardinality(Produced) <= Cardinality(Items)
        /\ Cardinality(Produced) \in Nat
    BY <2>4, <2>5, <2>6, ItemsFacts, FS_Subset, FS_CardinalityType
  <2>8. shm_pos_producer < N
    BY <1>1, <1>5, <2>7, ItemsFacts DEF Inv, PositionIsCount
  <2>9. sem[SEM_BINARY] >= 1 /\ sem[SEM_EMPTY] >= 1
    BY <1>4, <1>5, <2>8
  <2> QED
    BY <1>1, <2>1, <2>2, <2>9, SemopsReturn DEF CanGoOn
<1>7. shm_pos_producer = Cardinality(Items)
  <2>1. ASSUME NEW it \in Items PROVE ItemDone(it)
    <3>1. it[1] \in Producers /\ it[1] \in Procs /\ it[2] \in 1..Count[it[1]]
      BY ItemsFacts, ProcsFacts
    <3>2. i[it[1]] >= Count[it[1]] /\ i[it[1]] \in Nat /\ Count[it[1]] \in Nat
      BY <1>1, <1>6, <3>1, ProcsFacts DEF Started, TypeOK
    <3>3. it[2] <= i[it[1]]
      BY <3>1, <3>2
    <3> QED
      BY <3>3 DEF ItemDone
  <2>2. Produced = Items
    BY <2>1 DEF Produced
  <2> QED
    BY <1>1, <2>2 DEF Inv, PositionIsCount
<1> SUFFICES ASSUME NEW c \in Procs, pc[c] # "exited", c \notin killed PROVE FALSE
  OBVIOUS
<1>8. pc[c] = "start" /\ c \in Consumers /\ c \notin Producers
  <2>1. c \in Consumers \/ c \in Producers
    BY ConstAssumption DEF Procs, Consumers, Producers, NProcs
  <2> QED
    BY <1>2, <1>3, <1>6, <2>1 DEF Inside
<1>9. i[c] \in Nat /\ i[c] < Count[c] /\ Count[c] \in Nat
  BY <1>1, <1>8, ProcsFacts DEF Inv, TypeOK, LoopBound
<1>10. <<c, i[c] + 1>> \in Letters /\ <<c, i[c] + 1>> \notin Consumed /\ Consumed \subseteq Letters
  BY <1>8, <1>9, LettersFacts DEF Consumed, ItemDone
<1>11. Cardinality(Consumed) < Cardinality(Letters) /\ Cardinality(Letters) \in Nat
  BY <1>10, FS_Subset, FS_CardinalityType DEF EnoughLetters
<1>12. shm_pos_consumer < shm_pos_producer
  BY <1>1, <1>5, <1>7, <1>11 DEF EnoughLetters, ConsumedIsCount
<1>13. sem[SEM_BINARY] >= 1 /\ sem[SEM_FULL] >= 1
  BY <1>4, <1>5, <1>12
<1>14. Alive(c)
  BY <1>8 DEF Alive
<1> QED
  BY <1>1, <1>8, <1>13, <1>14, SemopsReturn DEF CanGoOn

(* Once the children are forked they never all wait for each other, as     *)
(* long as no producer dies and nobody inside: the parent's waits return.  *)
THEOREM NeverStuck == EnoughLetters => (Spec => []NobodyIsStuck)
PROOF
<1> SUFFICES ASSUME EnoughLetters PROVE Spec => []NobodyIsStuck
  OBVIOUS
<1>1. IsFiniteSet(Letters)
  BY DEF EnoughLetters
<1>2. Init => StuckInv
  BY <1>1, InitStuck
<1>3. StuckInv /\ [Next]_vars => StuckInv'
  BY <1>1, NextStuck
<1>4. StuckInv => NobodyIsStuck
  BY SomebodyGoesOn
<1> QED
  BY <1>2, <1>3, <1>4, PTL DEF Spec
=============================================================================
