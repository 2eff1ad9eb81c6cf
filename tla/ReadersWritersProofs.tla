------------------------ MODULE ReadersWritersProofs ------------------------
(***************************************************************************)
(* Proofs about ReadersWriters for every number of writers and readers,    *)
(* any deaths, any failing fork, any calls of semop that are interrupted   *)
(* and any width of the shared int.                                        *)
(***************************************************************************)
EXTENDS ReadersWriters, FiniteSetTheorems, TLAPS

(* ---- semop for one and for five operations: the recursion unrolled ---- *)

First(vals) == [ok |-> TRUE, val |-> vals]

(* The values stay integers on the same semaphores. *)
LEMMA PerformType ==
  ASSUME NEW S, NEW r, r.val \in [S -> Int], NEW k \in S, NEW d \in Int
  PROVE  Perform(r, sembuf(k, d)).val \in [S -> Int]
PROOF
<1>1. sembuf(k, d).num = k /\ sembuf(k, d).op = d
  BY DEF sembuf
<1> QED
  BY <1>1 DEF Perform

(* One operation that adds or subtracts: it needs the result natural, and  *)
(* the other semaphores keep their values.                                 *)
LEMMA PerformAdd ==
  ASSUME NEW S, NEW r, r.val \in [S -> Int], NEW k \in S, NEW d \in Int, d # 0
  PROVE  LET q == Perform(r, sembuf(k, d))
         IN  /\ q.ok <=> (r.ok /\ r.val[k] + d >= 0)
             /\ q.val[k] = r.val[k] + d
             /\ \A j \in S \ {k} : q.val[j] = r.val[j]
PROOF
<1> DEFINE v == r.val
           q == Perform(r, sembuf(k, d))
<1>1. sembuf(k, d).num = k /\ sembuf(k, d).op = d
  BY DEF sembuf
<1>2. q.ok <=> (r.ok /\ v[k] + d >= 0)
  BY <1>1 DEF Perform
<1>3. q.val = [v EXCEPT ![k] = v[k] + d] /\ v \in [S -> Int]
  BY <1>1 DEF Perform
<1> HIDE DEF q
<1>4. q.val[k] = v[k] + d /\ \A j \in S \ {k} : q.val[j] = v[j]
  <2> HIDE DEF v
  <2> QED BY <1>3
<1> QED
  BY <1>2, <1>4 DEF q
(* One operation with sem_op 0: it needs the value zero and leaves it. *)
LEMMA PerformZero ==
  ASSUME NEW S, NEW r, r.val \in [S -> Int], NEW k \in S
  PROVE  LET q == Perform(r, sembuf(k, 0))
         IN  /\ q.ok <=> (r.ok /\ r.val[k] = 0)
             /\ \A j \in S : q.val[j] = r.val[j]
PROOF
<1> DEFINE v == r.val
           q == Perform(r, sembuf(k, 0))
<1>1. sembuf(k, 0).num = k /\ sembuf(k, 0).op = 0
  BY DEF sembuf
<1>2. q.ok <=> (r.ok /\ v[k] = 0)
  BY <1>1 DEF Perform
<1>3. q.val = [v EXCEPT ![k] = v[k] + 0] /\ v \in [S -> Int]
  BY <1>1 DEF Perform
<1> HIDE DEF q
<1>4. \A j \in S : q.val[j] = v[j]
  <2> HIDE DEF v
  <2> QED BY <1>3
<1> QED
  BY <1>2, <1>4 DEF q

(* semop on five operations (start_read and start_write of task2.c). *)
LEMMA SemopFive ==
  ASSUME NEW vals, NEW a, NEW b, NEW c, NEW d, NEW e
  PROVE  semop(vals, <<a, b, c, d, e>>)
           = Perform(Perform(Perform(Perform(Perform(First(vals), a), b), c), d), e)
PROOF
<1> DEFINE ops == <<a, b, c, d, e>>
           s0 == First(vals)
           s1 == Perform(s0, a)
           s2 == Perform(s1, b)
           s3 == Perform(s2, c)
           s4 == Perform(s3, d)
           s5 == Perform(s4, e)
           Step(g) == [i \in 0..5 |-> IF i = 0 THEN s0 ELSE Perform(g[i - 1], ops[i])]
           w == [i \in 0..5 |-> IF i = 0 THEN s0 ELSE IF i = 1 THEN s1
                                ELSE IF i = 2 THEN s2 ELSE IF i = 3 THEN s3
                                ELSE IF i = 4 THEN s4 ELSE s5]
           F == CHOOSE g : g = Step(g)
<1>1. w = Step(w)
  <2>1. ASSUME NEW k \in 0..5
        PROVE  w[k] = IF k = 0 THEN s0 ELSE Perform(w[k - 1], ops[k])
    OBVIOUS
  <2> QED BY <2>1
<1>2. F = Step(F)
  BY <1>1, Zenon
<1>3. ASSUME NEW g
      PROVE  /\ Step(g)[0] = s0
             /\ Step(g)[1] = Perform(g[0], a)
             /\ Step(g)[2] = Perform(g[1], b)
             /\ Step(g)[3] = Perform(g[2], c)
             /\ Step(g)[4] = Perform(g[3], d)
             /\ Step(g)[5] = Perform(g[4], e)
  OBVIOUS
<1>4. Len(ops) = 5
  OBVIOUS
<1>5. semop(vals, ops) = F[5]
  BY <1>4 DEF semop, First
<1> HIDE DEF F, Step, s0
<1>6. /\ F[0] = s0
      /\ F[1] = Perform(F[0], a)
      /\ F[2] = Perform(F[1], b)
      /\ F[3] = Perform(F[2], c)
      /\ F[4] = Perform(F[3], d)
      /\ F[5] = Perform(F[4], e)
  BY <1>2, <1>3, Zenon
<1> QED
  BY <1>5, <1>6 DEF s0

(* semop on a single operation (stop_read and stop_write of task2.c). *)
LEMMA SemopOne ==
  ASSUME NEW vals, NEW a
  PROVE  semop(vals, <<a>>) = Perform(First(vals), a)
PROOF
<1> DEFINE s0 == First(vals)
           Step(g) == [i \in 0..1 |-> IF i = 0 THEN s0 ELSE Perform(g[i - 1], <<a>>[i])]
           w == [i \in 0..1 |-> IF i = 0 THEN s0 ELSE Perform(s0, a)]
           F == CHOOSE g : g = Step(g)
<1>1. w = Step(w)
  <2>1. ASSUME NEW k \in 0..1
        PROVE  w[k] = IF k = 0 THEN s0 ELSE Perform(w[k - 1], <<a>>[k])
    OBVIOUS
  <2> QED BY <2>1
<1>2. F = Step(F)
  BY <1>1, Zenon
<1>3. ASSUME NEW g
      PROVE  Step(g)[0] = s0 /\ Step(g)[1] = Perform(g[0], a)
  OBVIOUS
<1>4. Len(<<a>>) = 1
  OBVIOUS
<1>5. semop(vals, <<a>>) = F[1]
  BY <1>4 DEF semop, First
<1> HIDE DEF F, Step, s0
<1>6. F[0] = s0 /\ F[1] = Perform(F[0], a)
  BY <1>2, <1>3, Zenon
<1> QED
  BY <1>5, <1>6 DEF s0

(* What a call of one operation that adds d to x makes of vals: it needs   *)
(* the result to be natural and changes nothing else.                      *)
Adds(S, vals, x, d, q) ==
  /\ q.ok <=> vals[x] + d >= 0
  /\ q.ok => q.val \in [S -> Nat]
  /\ q.val[x] = vals[x] + d
  /\ \A j \in S \ {x} : q.val[j] = vals[j]

(* One operation that adds or subtracts, alone in its array (stop_read and *)
(* stop_write of task2.c).                                                 *)
LEMMA AddOne ==
  ASSUME NEW S, NEW vals \in [S -> Nat], NEW x \in S, NEW dx \in Int, dx # 0
  PROVE  Adds(S, vals, x, dx, semop(vals, <<sembuf(x, dx)>>))
PROOF
<1> DEFINE r0 == First(vals)
           q  == Perform(r0, sembuf(x, dx))
<1>1. semop(vals, <<sembuf(x, dx)>>) = q
  BY SemopOne
<1>0. r0.val \in [S -> Int]
  BY DEF First
<1>2. r0.ok /\ r0.val = vals
  BY DEF First
<1> HIDE DEF r0
<1>3. q.val \in [S -> Int]
  BY <1>0, PerformType
<1>4. /\ q.ok <=> (r0.ok /\ r0.val[x] + dx >= 0)
      /\ q.val[x] = r0.val[x] + dx
      /\ \A j \in S \ {x} : q.val[j] = r0.val[j]
  BY <1>0, PerformAdd
<1> HIDE DEF q
<1>5. q.ok => q.val \in [S -> Nat]
  BY <1>2, <1>3, <1>4
<1>6. Adds(S, vals, x, dx, q)
  BY <1>2, <1>4, <1>5 DEF Adds
<1> QED
  BY <1>1, <1>6

(* What the five operations of start_read and start_write of task2.c make  *)
(* of vals, one after another: add, wait for zero twice, add, add.         *)
FiveSteps(S, vals, x, y, z, u, d1, d2, d3, r0, r1, r2, r3, r4, r5) ==
  /\ r0.ok /\ r0.val = vals
  /\ /\ r1.ok <=> (r0.ok /\ r0.val[x] + d1 >= 0)
     /\ r1.val[x] = r0.val[x] + d1
     /\ \A j \in S \ {x} : r1.val[j] = r0.val[j]
  /\ /\ r2.ok <=> (r1.ok /\ r1.val[y] = 0)
     /\ \A j \in S : r2.val[j] = r1.val[j]
  /\ /\ r3.ok <=> (r2.ok /\ r2.val[z] = 0)
     /\ \A j \in S : r3.val[j] = r2.val[j]
  /\ /\ r4.ok <=> (r3.ok /\ r3.val[x] + d2 >= 0)
     /\ r4.val[x] = r3.val[x] + d2
     /\ \A j \in S \ {x} : r4.val[j] = r3.val[j]
  /\ /\ r5.ok <=> (r4.ok /\ r4.val[u] + d3 >= 0)
     /\ r5.val[u] = r4.val[u] + d3
     /\ \A j \in S \ {u} : r5.val[j] = r4.val[j]
     /\ r5.val \in [S -> Int]

(* semop performs the five operations of such an array in that order. *)
LEMMA PerformFive ==
  ASSUME NEW S, NEW vals \in [S -> Nat], NEW x \in S, NEW y \in S, NEW z \in S, NEW u \in S,
         NEW d1 \in Int, NEW d2 \in Int, NEW d3 \in Int, d1 # 0, d2 # 0, d3 # 0
  PROVE  \E r0, r1, r2, r3, r4, r5 :
           /\ r5 = semop(vals, << sembuf(x, d1), sembuf(y, 0), sembuf(z, 0), sembuf(x, d2), sembuf(u, d3) >>)
           /\ FiveSteps(S, vals, x, y, z, u, d1, d2, d3, r0, r1, r2, r3, r4, r5)
PROOF
<1> DEFINE r0 == First(vals)
           r1 == Perform(r0, sembuf(x, d1))
           r2 == Perform(r1, sembuf(y, 0))
           r3 == Perform(r2, sembuf(z, 0))
           r4 == Perform(r3, sembuf(x, d2))
           r5 == Perform(r4, sembuf(u, d3))
<1>1. semop(vals, << sembuf(x, d1), sembuf(y, 0), sembuf(z, 0), sembuf(x, d2), sembuf(u, d3) >>) = r5
  BY SemopFive
<1>a. 0 \in Int
  OBVIOUS
<1>0. r0.val \in [S -> Int]
  BY DEF First
<1>2. r0.ok /\ r0.val = vals
  BY DEF First
<1> HIDE DEF r0
<1>3. r1.val \in [S -> Int]
  BY <1>0, PerformType
<1>4. /\ r1.ok <=> (r0.ok /\ r0.val[x] + d1 >= 0)
      /\ r1.val[x] = r0.val[x] + d1
      /\ \A j \in S \ {x} : r1.val[j] = r0.val[j]
  BY <1>0, PerformAdd
<1> HIDE DEF r1
<1>5. r2.val \in [S -> Int]
  BY <1>3, <1>a, PerformType, Zenon
<1>6. (r2.ok <=> (r1.ok /\ r1.val[y] = 0)) /\ \A j \in S : r2.val[j] = r1.val[j]
  BY <1>3, PerformZero
<1> HIDE DEF r2
<1>7. r3.val \in [S -> Int]
  BY <1>5, <1>a, PerformType, Zenon
<1>8. (r3.ok <=> (r2.ok /\ r2.val[z] = 0)) /\ \A j \in S : r3.val[j] = r2.val[j]
  BY <1>5, PerformZero
<1> HIDE DEF r3
<1>9. r4.val \in [S -> Int]
  BY <1>7, PerformType
<1>10. /\ r4.ok <=> (r3.ok /\ r3.val[x] + d2 >= 0)
       /\ r4.val[x] = r3.val[x] + d2
       /\ \A j \in S \ {x} : r4.val[j] = r3.val[j]
  BY <1>7, PerformAdd
<1> HIDE DEF r4
<1>11. r5.val \in [S -> Int]
  BY <1>9, PerformType
<1>12. /\ r5.ok <=> (r4.ok /\ r4.val[u] + d3 >= 0)
       /\ r5.val[u] = r4.val[u] + d3
       /\ \A j \in S \ {u} : r5.val[j] = r4.val[j]
  BY <1>9, PerformAdd
<1> HIDE DEF r5
<1>13. FiveSteps(S, vals, x, y, z, u, d1, d2, d3, r0, r1, r2, r3, r4, r5)
  BY <1>2, <1>4, <1>6, <1>8, <1>10, <1>11, <1>12, Zenon DEF FiveSteps
<1> WITNESS r0, r1, r2, r3, r4, r5
<1> QED
  BY <1>1, <1>13

(* What a call that waits for y and z to be zero and then enters on u      *)
(* makes of vals.                                                          *)
Enters(S, vals, y, z, u, inc, q) ==
  /\ q.ok <=> (vals[y] = 0 /\ vals[z] = 0)
  /\ q.val \in [S -> Nat]
  /\ q.val[u] = vals[u] + inc
  /\ \A j \in S \ {u} : q.val[j] = vals[j]

(* The arrays start_read and start_write of task2.c: count oneself as      *)
(* waiting on x, wait for y and z to be zero, take the count back, enter   *)
(* on u.  The call sleeps unless y and z are zero, and all it leaves       *)
(* behind is what it adds to u.                                            *)
LEMMA WaitTwoEnter ==
  ASSUME NEW S, NEW vals \in [S -> Nat], NEW x \in S, NEW y \in S, NEW z \in S, NEW u \in S,
         x # y, x # z, x # u,
         NEW inc \in Int, inc > 0, NEW dec \in Int, inc + dec = 0
  PROVE  Enters(S, vals, y, z, u, inc,
                semop(vals, << sembuf(x, inc), sembuf(y, 0), sembuf(z, 0), sembuf(x, dec), sembuf(u, inc) >>))
PROOF
<1> DEFINE q == semop(vals, << sembuf(x, inc), sembuf(y, 0), sembuf(z, 0), sembuf(x, dec), sembuf(u, inc) >>)
<1>1. inc # 0 /\ dec # 0
  OBVIOUS
<1> HIDE DEF q
<1>2. PICK r0, r1, r2, r3, r4, r5 :
         r5 = q /\ FiveSteps(S, vals, x, y, z, u, inc, dec, inc, r0, r1, r2, r3, r4, r5)
  BY <1>1, PerformFive DEF q
(* What the waiting count added is gone again. *)
<1>3. r1.ok /\ r1.val[x] = vals[x] + inc /\ \A j \in S \ {x} : r1.val[j] = vals[j]
  BY <1>2 DEF FiveSteps
<1>4. r3.ok <=> (vals[y] = 0 /\ vals[z] = 0)
  BY <1>2, <1>3 DEF FiveSteps
<1>5. r3.val[x] = vals[x] + inc /\ \A j \in S \ {x} : r3.val[j] = vals[j]
  BY <1>2, <1>3 DEF FiveSteps
<1>6. (r4.ok <=> (vals[y] = 0 /\ vals[z] = 0)) /\ \A j \in S : r4.val[j] = vals[j]
  BY <1>2, <1>4, <1>5 DEF FiveSteps
<1>7. /\ r5.ok <=> (vals[y] = 0 /\ vals[z] = 0)
      /\ r5.val[u] = vals[u] + inc
      /\ \A j \in S \ {u} : r5.val[j] = vals[j]
  BY <1>2, <1>6 DEF FiveSteps
<1>8. r5.val \in [S -> Nat]
  BY <1>2, <1>7 DEF FiveSteps
<1> QED
  BY <1>2, <1>7, <1>8 DEF q, Enters

(* ---- the inductive invariant ---- *)

TypeOK ==
  /\ sem \in [Sems -> Nat]
  /\ shm \in 0..IntModulus - 1
  /\ pc \in [Procs -> {"none", "start", "load", "store", "print", "read"}]
  /\ reg \in [Procs -> 0..IntModulus - 1]
  /\ main \in {"fork", "killed", "wait", "returned"}
  /\ forked \in 0..NProcs
  /\ reaped \subseteq Procs /\ dead \subseteq Procs
  /\ strayW \in Nat /\ strayR \in Nat

(* Children not forked yet stand nowhere. *)
NotForked == \A p \in Procs : p > forked => pc[p] = "none"

(* Whoever goes in uncounted, the counts themselves exclude: a call is     *)
(* performed whole or not at all.                                          *)
SemsExclude == sem[SEM_AW] <= 1 /\ (sem[SEM_AW] # 0 => sem[SEM_AR] = 0)

(* Exclusion is not inductive: what keeps the next writer out is the       *)
(* semaphores, so their values must be tied to who is inside.              *)
Inv == /\ TypeOK
       /\ SemsExclude
       /\ SemAccounting
       /\ NoLostUpdate
       /\ NotForked

(* ---- constants ---- *)

LEMMA ProcsFacts ==
  /\ NProcs \in Nat
  /\ Writers \subseteq Procs /\ Readers \subseteq Procs
  /\ Writers \cap Readers = {}
  /\ Procs \subseteq Nat
  /\ \A k \in Nat : k < NProcs => k + 1 \in Procs
  /\ IsFiniteSet(Writers) /\ IsFiniteSet(Readers)
PROOF
<1>1. /\ NProcs \in Nat
      /\ Writers \subseteq Procs /\ Readers \subseteq Procs
      /\ Writers \cap Readers = {}
      /\ Procs \subseteq Nat
      /\ \A k \in Nat : k < NProcs => k + 1 \in Procs
  BY ConstAssumption DEF NProcs, Procs, Writers, Readers
<1>2. 1 \in Int /\ NWriters \in Int /\ NWriters + 1 \in Int /\ NProcs \in Int
  BY ConstAssumption DEF NProcs
<1>3. IsFiniteSet(Writers)
  BY <1>2, FS_Interval DEF Writers
<1>4. IsFiniteSet(Readers)
  BY <1>2, FS_Interval DEF Readers
<1> QED
  BY <1>1, <1>3, <1>4

LEMMA SemsFacts ==
  /\ SEM_AW \in Sems /\ SEM_WW \in Sems /\ SEM_AR \in Sems /\ SEM_WR \in Sems
  /\ SEM_AW # SEM_WW /\ SEM_AW # SEM_AR /\ SEM_AW # SEM_WR
  /\ SEM_WW # SEM_AR /\ SEM_WW # SEM_WR /\ SEM_AR # SEM_WR
  /\ INC \in Int /\ INC > 0 /\ INC # 0 /\ DEC \in Int /\ DEC # 0 /\ INC + DEC = 0
PROOF BY DEF Sems, SEM_AW, SEM_WW, SEM_AR, SEM_WR, INC, DEC

LEMMA InsideFinite ==
  /\ IsFiniteSet(WritersIn) /\ Cardinality(WritersIn) \in Nat
  /\ IsFiniteSet(ReadersIn) /\ Cardinality(ReadersIn) \in Nat
  /\ Cardinality(WritersIn) = 0 <=> WritersIn = {}
  /\ Cardinality(ReadersIn) = 0 <=> ReadersIn = {}
PROOF
<1>1. WritersIn \in SUBSET Writers /\ ReadersIn \in SUBSET Readers
  BY DEF WritersIn, ReadersIn
<1>2. IsFiniteSet(WritersIn) /\ IsFiniteSet(ReadersIn)
  BY <1>1, ProcsFacts, FS_Subset
<1> QED
  BY <1>2, FS_CardinalityType, FS_EmptySet

(* ---- the four semop calls ---- *)

(* All of sem but s keeps its value. *)
OnlyChanges(s) == \A t \in Sems \ {s} : sem'[t] = sem[t]

(* When an array is performed, and what it leaves. *)
LEMMA ArraysPerformed ==
  ASSUME TypeOK
  PROVE  /\ Enters(Sems, sem, SEM_AW, SEM_AR, SEM_AW, INC, semop(sem, start_write))
         /\ Enters(Sems, sem, SEM_WW, SEM_AW, SEM_AR, INC, semop(sem, start_read))
         /\ Adds(Sems, sem, SEM_AW, DEC, semop(sem, stop_write))
         /\ Adds(Sems, sem, SEM_AR, DEC, semop(sem, stop_read))
PROOF
<1>1. sem \in [Sems -> Nat]
  BY DEF TypeOK
<1>2. Enters(Sems, sem, SEM_AW, SEM_AR, SEM_AW, INC, semop(sem, start_write))
  BY <1>1, SemsFacts, WaitTwoEnter DEF start_write, SLP
<1>3. Enters(Sems, sem, SEM_WW, SEM_AW, SEM_AR, INC, semop(sem, start_read))
  BY <1>1, SemsFacts, WaitTwoEnter DEF start_read, SLP
<1>4. Adds(Sems, sem, SEM_AW, DEC, semop(sem, stop_write))
  BY <1>1, SemsFacts, AddOne DEF stop_write
<1>5. Adds(Sems, sem, SEM_AR, DEC, semop(sem, stop_read))
  BY <1>1, SemsFacts, AddOne DEF stop_read
<1> QED
  BY <1>2, <1>3, <1>4, <1>5

(* When the four calls return. *)
LEMMA CallsReturn ==
  ASSUME Inv
  PROVE  /\ semop(sem, start_write).ok <=> sem[SEM_AW] = 0 /\ sem[SEM_AR] = 0
         /\ semop(sem, start_read).ok <=> sem[SEM_AW] = 0
         /\ semop(sem, stop_write).ok <=> sem[SEM_AW] # 0
         /\ semop(sem, stop_read).ok <=> sem[SEM_AR] # 0
PROOF
<1>1. sem[SEM_AW] \in Nat /\ sem[SEM_AR] \in Nat /\ DEC = -1 /\ sem[SEM_WW] = 0 /\ TypeOK
  BY SemsFacts DEF DEC, Inv, TypeOK, SemAccounting
<1>2. semop(sem, start_write).ok <=> sem[SEM_AW] = 0 /\ sem[SEM_AR] = 0
  BY <1>1, ArraysPerformed DEF Enters
<1>3. semop(sem, start_read).ok <=> sem[SEM_AW] = 0
  BY <1>1, ArraysPerformed DEF Enters
<1>4. semop(sem, stop_write).ok <=> sem[SEM_AW] # 0
  BY <1>1, ArraysPerformed DEF Adds
<1>5. semop(sem, stop_read).ok <=> sem[SEM_AR] # 0
  BY <1>1, ArraysPerformed DEF Adds
<1> QED
  BY <1>2, <1>3, <1>4, <1>5

(* start_write counts one writer in when nobody inside is counted, or      *)
(* fails and leaves one more stray.                                        *)
LEMMA StartWriteCall ==
  ASSUME Inv, Semop(start_write, strayW, 1)
  PROVE  /\ sem' \in [Sems -> Nat]
         /\ \/ /\ sem[SEM_AW] = 0 /\ sem[SEM_AR] = 0 /\ strayW' = strayW
               /\ sem'[SEM_AW] = 1 /\ OnlyChanges(SEM_AW)
            \/ /\ ~(sem[SEM_AW] = 0 /\ sem[SEM_AR] = 0) /\ strayW' = strayW + 1
               /\ sem' = sem
PROOF
<1>1. /\ sem \in [Sems -> Nat] /\ INC = 1
      /\ Enters(Sems, sem, SEM_AW, SEM_AR, SEM_AW, INC, semop(sem, start_write))
  BY ArraysPerformed DEF Inv, TypeOK, INC
<1>2. CASE Performed(start_write) /\ strayW' = strayW
  <2>1. semop(sem, start_write).ok /\ sem' = semop(sem, start_write).val
    BY <1>2 DEF Performed
  <2> QED
    BY <1>1, <1>2, <2>1 DEF OnlyChanges, Enters
<1>3. CASE Interrupted(start_write) /\ strayW' = strayW + 1
  BY <1>1, <1>3, CallsReturn DEF Interrupted
<1> QED
  BY <1>2, <1>3 DEF Semop

(* start_read counts one reader in when no writer is counted, or fails and *)
(* leaves one more stray.                                                  *)
LEMMA StartReadCall ==
  ASSUME Inv, Semop(start_read, strayR, 1)
  PROVE  /\ sem' \in [Sems -> Nat]
         /\ \/ /\ sem[SEM_AW] = 0 /\ strayR' = strayR
               /\ sem'[SEM_AR] = sem[SEM_AR] + 1 /\ OnlyChanges(SEM_AR)
            \/ /\ sem[SEM_AW] # 0 /\ strayR' = strayR + 1
               /\ sem' = sem
PROOF
<1>1. /\ sem \in [Sems -> Nat] /\ INC = 1
      /\ Enters(Sems, sem, SEM_WW, SEM_AW, SEM_AR, INC, semop(sem, start_read))
  BY ArraysPerformed DEF Inv, TypeOK, INC
<1>2. CASE Performed(start_read) /\ strayR' = strayR
  <2>1. semop(sem, start_read).ok /\ sem' = semop(sem, start_read).val
    BY <1>2 DEF Performed
  <2> QED
    BY <1>1, <1>2, <2>1 DEF OnlyChanges, Enters
<1>3. CASE Interrupted(start_read) /\ strayR' = strayR + 1
  BY <1>1, <1>3, CallsReturn DEF Interrupted
<1> QED
  BY <1>2, <1>3 DEF Semop

(* stop_write and stop_read take one writer or one reader out, or find     *)
(* none counted and fail, which leaves one stray less.                     *)
LEMMA StopWriteCall ==
  ASSUME Inv, Semop(stop_write, strayW, -1)
  PROVE  /\ sem' \in [Sems -> Nat]
         /\ \/ /\ sem[SEM_AW] # 0 /\ strayW' = strayW
               /\ sem'[SEM_AW] = sem[SEM_AW] - 1 /\ OnlyChanges(SEM_AW)
            \/ sem[SEM_AW] = 0 /\ strayW' = strayW - 1 /\ sem' = sem
PROOF
<1>1. /\ sem \in [Sems -> Nat] /\ sem[SEM_AW] \in Nat /\ DEC = -1 /\ strayW \in Nat
      /\ Adds(Sems, sem, SEM_AW, DEC, semop(sem, stop_write))
  BY ArraysPerformed, SemsFacts DEF Inv, TypeOK, DEC
<1>2. CASE Performed(stop_write) /\ strayW' = strayW
  <2>1. semop(sem, stop_write).ok /\ sem' = semop(sem, stop_write).val
    BY <1>2 DEF Performed
  <2>2. /\ sem' \in [Sems -> Nat] /\ sem'[SEM_AW] = sem[SEM_AW] + DEC
        /\ OnlyChanges(SEM_AW)
    BY <1>1, <2>1 DEF OnlyChanges, Adds
  <2> QED
    BY <1>1, <1>2, <2>1, <2>2, CallsReturn
<1>3. CASE Interrupted(stop_write) /\ strayW' = strayW + (-1)
  BY <1>1, <1>3, CallsReturn DEF Interrupted
<1> QED
  BY <1>2, <1>3 DEF Semop

LEMMA StopReadCall ==
  ASSUME Inv, Semop(stop_read, strayR, -1)
  PROVE  /\ sem' \in [Sems -> Nat]
         /\ \/ /\ sem[SEM_AR] # 0 /\ strayR' = strayR
               /\ sem'[SEM_AR] = sem[SEM_AR] - 1 /\ OnlyChanges(SEM_AR)
            \/ sem[SEM_AR] = 0 /\ strayR' = strayR - 1 /\ sem' = sem
PROOF
<1>1. /\ sem \in [Sems -> Nat] /\ sem[SEM_AR] \in Nat /\ DEC = -1 /\ strayR \in Nat
      /\ Adds(Sems, sem, SEM_AR, DEC, semop(sem, stop_read))
  BY ArraysPerformed, SemsFacts DEF Inv, TypeOK, DEC
<1>2. CASE Performed(stop_read) /\ strayR' = strayR
  <2>1. semop(sem, stop_read).ok /\ sem' = semop(sem, stop_read).val
    BY <1>2 DEF Performed
  <2>2. /\ sem' \in [Sems -> Nat] /\ sem'[SEM_AR] = sem[SEM_AR] + DEC
        /\ OnlyChanges(SEM_AR)
    BY <1>1, <2>1 DEF OnlyChanges, Adds
  <2> QED
    BY <1>1, <1>2, <2>1, <2>2, CallsReturn
<1>3. CASE Interrupted(stop_read) /\ strayR' = strayR + (-1)
  BY <1>1, <1>3, CallsReturn DEF Interrupted
<1> QED
  BY <1>2, <1>3 DEF Semop

(* ---- who is inside after a step ---- *)

(* A writer that moves changes only its own place. *)
LEMMA WriterMoves ==
  ASSUME TypeOK, NEW w \in Writers, NEW here, Goto(w, here)
  PROVE  /\ pc'[w] = here /\ \A p \in Procs \ {w} : pc'[p] = pc[p]
         /\ ReadersIn' = ReadersIn
         /\ here \in {"load", "store", "print"} => WritersIn' = WritersIn \cup {w}
         /\ here = "start" => WritersIn' = WritersIn \ {w}
PROOF
<1>1. pc'[w] = here /\ \A p \in Procs \ {w} : pc'[p] = pc[p]
  BY ProcsFacts DEF TypeOK, Goto
<1>2. ReadersIn' = ReadersIn
  BY <1>1, ProcsFacts DEF ReadersIn
<1>3. \A v \in Writers \ {w} : pc'[v] = pc[v]
  BY <1>1, ProcsFacts
<1>4. here \in {"load", "store", "print"} => WritersIn' = WritersIn \cup {w}
  BY <1>1, <1>3 DEF WritersIn
<1>5. here = "start" => WritersIn' = WritersIn \ {w}
  BY <1>1, <1>3 DEF WritersIn
<1> QED
  BY <1>1, <1>2, <1>4, <1>5

(* So does a reader. *)
LEMMA ReaderMoves ==
  ASSUME TypeOK, NEW r \in Readers, NEW here, Goto(r, here)
  PROVE  /\ pc'[r] = here /\ \A p \in Procs \ {r} : pc'[p] = pc[p]
         /\ WritersIn' = WritersIn
         /\ here = "read" => ReadersIn' = ReadersIn \cup {r}
         /\ here = "start" => ReadersIn' = ReadersIn \ {r}
PROOF
<1>1. pc'[r] = here /\ \A p \in Procs \ {r} : pc'[p] = pc[p]
  BY ProcsFacts DEF TypeOK, Goto
<1>2. WritersIn' = WritersIn
  BY <1>1, ProcsFacts DEF WritersIn
<1>3. \A v \in Readers \ {r} : pc'[v] = pc[v]
  BY <1>1, ProcsFacts
<1>4. here = "read" => ReadersIn' = ReadersIn \cup {r}
  BY <1>1, <1>3 DEF ReadersIn
<1>5. here = "start" => ReadersIn' = ReadersIn \ {r}
  BY <1>1, <1>3 DEF ReadersIn
<1> QED
  BY <1>1, <1>2, <1>4, <1>5

(* Is anybody inside counted? *)
WriterCounted == Cardinality(WritersIn) > strayW
ReaderCounted == Cardinality(ReadersIn) > strayR

(* The semaphores tell, and no more than one writer is. *)
LEMMA SemsTell ==
  ASSUME Inv
  PROVE  /\ sem[SEM_AW] \in Nat /\ sem[SEM_AR] \in Nat
         /\ Cardinality(WritersIn) \in Nat /\ Cardinality(ReadersIn) \in Nat
         /\ strayW \in Nat /\ strayR \in Nat
         /\ sem[SEM_AW] = Cardinality(WritersIn) - strayW /\ sem[SEM_AW] <= 1
         /\ sem[SEM_AR] = Cardinality(ReadersIn) - strayR
         /\ sem[SEM_AW] # 0 => sem[SEM_AR] = 0
         /\ sem[SEM_AW] # 0 <=> WriterCounted
         /\ sem[SEM_AR] # 0 <=> ReaderCounted
PROOF
<1>1. /\ sem[SEM_AW] \in Nat /\ sem[SEM_AR] \in Nat
      /\ Cardinality(WritersIn) \in Nat /\ Cardinality(ReadersIn) \in Nat
      /\ strayW \in Nat /\ strayR \in Nat
  BY InsideFinite, SemsFacts DEF Inv, TypeOK
<1>2. /\ sem[SEM_AW] = Cardinality(WritersIn) - strayW
      /\ sem[SEM_AR] = Cardinality(ReadersIn) - strayR
  BY DEF Inv, SemAccounting
<1>3. sem[SEM_AW] <= 1 /\ (sem[SEM_AW] # 0 => sem[SEM_AR] = 0)
  BY DEF Inv, SemsExclude
<1> QED
  BY <1>1, <1>2, <1>3 DEF WriterCounted, ReaderCounted

(* Without strays a writer inside is the only one. *)
LEMMA WriterIsAlone ==
  ASSUME Inv, strayW = 0, NEW w \in WritersIn
  PROVE  WritersIn = {w}
PROOF
<1>1. Cardinality(WritersIn) # 0
  BY InsideFinite
<1>2. Cardinality(WritersIn) = 1
  BY <1>1, SemsTell
<1> QED
  BY <1>2, InsideFinite, FS_Singleton

(* ---- one lemma per kind of step ---- *)

(* Steps that touch neither the semaphores, the int nor any child's place. *)
LEMMA QuietStep ==
  ASSUME Inv, UNCHANGED <<sem, shm, pc, reg, strayW, strayR>>,
         main' \in {"fork", "killed", "wait", "returned"},
         forked' = forked, reaped' \subseteq Procs, dead' \subseteq Procs
  PROVE  Inv'
PROOF
<1>1. TypeOK'
  BY DEF Inv, TypeOK
<1>2. WritersIn' = WritersIn /\ ReadersIn' = ReadersIn
  BY DEF WritersIn, ReadersIn
<1>3. SemsExclude' /\ SemAccounting'
  BY <1>2 DEF Inv, SemsExclude, SemAccounting
<1>4. NoLostUpdate' /\ NotForked'
  BY DEF Inv, NoLostUpdate, NotForked
<1> QED
  BY <1>1, <1>3, <1>4 DEF Inv

(* The parent forks a child, which is outside. *)
LEMMA ForkStep ==
  ASSUME Inv, MakeChild
  PROVE  Inv' /\ WritersIn' = WritersIn /\ ReadersIn' = ReadersIn /\ strays' = strays
PROOF
<1>1. /\ forked \in Nat /\ forked + 1 \in Procs /\ forked' = forked + 1 /\ forked < NProcs
      /\ pc[forked + 1] = "none"
      /\ pc' = [pc EXCEPT ![forked + 1] = "start"] /\ pc \in [Procs -> {"none", "start", "load", "store", "print", "read"}]
      /\ UNCHANGED <<sem, shm, reg, reaped, dead, strayW, strayR>>
  BY ProcsFacts DEF Inv, TypeOK, NotForked, MakeChild, Goto, strays
<1>2. \A p \in Procs : pc'[p] = pc[p] \/ (pc[p] = "none" /\ pc'[p] = "start")
  BY <1>1
<1>3. TypeOK'
  <2>1. forked' \in 0..NProcs
    BY <1>1, ProcsFacts
  <2>2. pc' \in [Procs -> {"none", "start", "load", "store", "print", "read"}]
    BY <1>1
  <2>3. main' \in {"fork", "wait"}
    BY DEF MakeChild
  <2> QED
    BY <1>1, <2>1, <2>2, <2>3 DEF Inv, TypeOK
<1>4. WritersIn' = WritersIn /\ ReadersIn' = ReadersIn
  BY <1>2, ProcsFacts DEF WritersIn, ReadersIn
<1>5. SemsExclude' /\ SemAccounting'
  BY <1>1, <1>4 DEF Inv, SemsExclude, SemAccounting
<1>6. NoLostUpdate'
  BY <1>1, <1>2, ProcsFacts DEF Inv, NoLostUpdate
<1>7. NotForked'
  BY <1>1, ProcsFacts DEF Inv, NotForked
<1> QED
  BY <1>1, <1>3, <1>4, <1>5, <1>6, <1>7 DEF Inv, strays

(* Every step of a child keeps what does not depend on the step. *)
LEMMA ChildMoves ==
  ASSUME Inv, NEW p \in Procs, pc[p] # "none",
         NEW here \in {"start", "load", "store", "print", "read"}, Goto(p, here),
         UNCHANGED <<main, forked, reaped, dead>>,
         sem' \in [Sems -> Nat], shm' \in 0..IntModulus - 1, strayW' \in Nat, strayR' \in Nat,
         reg' \in [Procs -> 0..IntModulus - 1]
  PROVE  TypeOK' /\ NotForked'
PROOF
<1>1. pc' \in [Procs -> {"none", "start", "load", "store", "print", "read"}]
  BY DEF Inv, TypeOK, Goto
<1>2. TypeOK'
  BY <1>1 DEF Inv, TypeOK
<1>3. NotForked'
  BY DEF Inv, TypeOK, NotForked, Goto
<1> QED
  BY <1>2, <1>3

LEMMA StartWriteStep ==
  ASSUME Inv, NEW w \in Writers, StartWrite(w)
  PROVE  /\ Inv'
         /\ w \notin WritersIn /\ WritersIn' = WritersIn \cup {w}
         /\ UNCHANGED <<ReadersIn, shm, strayR>>
         /\ \/ ~(ReaderCounted \/ WriterCounted) /\ strayW' = strayW
            \/ (ReaderCounted \/ WriterCounted) /\ strayW' = strayW + 1
PROOF
<1>1. /\ pc[w] = "start" /\ w \in Procs /\ Goto(w, "load") /\ Semop(start_write, strayW, 1)
      /\ UNCHANGED <<shm, reg, main, forked, reaped, dead, strayR>>
  BY ProcsFacts DEF StartWrite, At
<1> DEFINE LetIn1 == /\ sem[SEM_AW] = 0 /\ sem[SEM_AR] = 0 /\ strayW' = strayW
                     /\ sem'[SEM_AW] = 1 /\ OnlyChanges(SEM_AW)
           Fails1 == /\ ~(sem[SEM_AW] = 0 /\ sem[SEM_AR] = 0) /\ strayW' = strayW + 1
                     /\ sem' = sem
<1>2. sem' \in [Sems -> Nat] /\ (LetIn1 \/ Fails1)
  BY <1>1, StartWriteCall
<1>3. strayW' \in Nat /\ strayR' \in Nat
  BY <1>1, <1>2, SemsTell
<1>4. TypeOK' /\ NotForked'
  BY <1>1, <1>2, <1>3, ChildMoves DEF Inv, TypeOK
<1>5. /\ pc'[w] = "load" /\ \A p \in Procs \ {w} : pc'[p] = pc[p]
      /\ WritersIn' = WritersIn \cup {w} /\ ReadersIn' = ReadersIn
  BY <1>1, WriterMoves DEF Inv
<1>6. w \notin WritersIn
  BY <1>1 DEF WritersIn
<1>7. Cardinality(WritersIn') = Cardinality(WritersIn) + 1
  BY <1>5, <1>6, InsideFinite, FS_AddElement
<1>8. SemsExclude'
  <2>1. LetIn1 => sem'[SEM_AR] = 0
    BY SemsFacts DEF OnlyChanges
  <2> QED
    BY <1>2, <2>1, SemsTell DEF Inv, SemsExclude
<1>9. SemAccounting'
  <2>1. sem'[SEM_AR] = sem[SEM_AR] /\ sem'[SEM_WW] = sem[SEM_WW] /\ sem'[SEM_WR] = sem[SEM_WR]
    BY <1>2, SemsFacts DEF OnlyChanges
  <2>2. sem'[SEM_AW] = Cardinality(WritersIn') - strayW'
    BY <1>2, <1>7, SemsTell
  <2> QED
    BY <1>1, <1>3, <1>5, <2>1, <2>2 DEF Inv, SemAccounting
<1>10. NoLostUpdate'
  <2> SUFFICES ASSUME strayW' = 0 PROVE NoLostUpdate'
    BY DEF NoLostUpdate
  <2>1. WritersIn = {}
    BY <1>2, SemsTell, InsideFinite
  <2>2. \A v \in Writers : pc'[v] \notin {"store", "print"}
    BY <1>5, <2>1, ProcsFacts DEF WritersIn
  <2> QED
    BY <2>2 DEF NoLostUpdate
<1> QED
  BY <1>1, <1>2, <1>4, <1>5, <1>6, <1>8, <1>9, <1>10, SemsTell DEF Inv

(* The load and the store: the writer stays inside. *)
LEMMA InsideStep ==
  ASSUME Inv, NEW w \in Writers, Load(w) \/ Store(w)
  PROVE  /\ Inv'
         /\ w \in WritersIn /\ UNCHANGED <<WritersIn, ReadersIn, strayW, strayR>>
         /\ Load(w) => shm' = shm
         /\ Store(w) => shm' \in 0..IntModulus - 1 /\ (strayW = 0 => shm' = (shm + 1) % IntModulus)
PROOF
<1> DEFINE here == IF pc[w] = "load" THEN "store" ELSE "print"
<1>1. /\ pc[w] \in {"load", "store"} /\ pc[w] # "none" /\ w \in Procs
      /\ here \in {"store", "print"} /\ Goto(w, here)
      /\ UNCHANGED <<sem, main, forked, reaped, dead, strayW, strayR>>
  BY ProcsFacts DEF Load, Store, At, strays
<1>2. /\ Load(w)  => pc[w] = "load" /\ shm' = shm /\ reg' = [reg EXCEPT ![w] = shm]
      /\ Store(w) => pc[w] = "store" /\ reg' = reg /\ shm' = (reg[w] + 1) % IntModulus
  BY DEF Load, Store, At
<1>3. here = IF pc[w] = "load" THEN "store" ELSE "print"
  OBVIOUS
<1> HIDE DEF here
<1>4. shm' \in 0..IntModulus - 1 /\ reg' \in [Procs -> 0..IntModulus - 1]
  <2>1. shm \in 0..IntModulus - 1 /\ reg \in [Procs -> 0..IntModulus - 1] /\ reg[w] \in Nat
        /\ IntModulus \in Nat \ {0}
    BY <1>1, ConstAssumption DEF Inv, TypeOK
  <2>2. (reg[w] + 1) % IntModulus \in 0..IntModulus - 1
    BY <2>1
  <2> QED
    BY <1>2, <2>1, <2>2
<1>5. TypeOK' /\ NotForked'
  BY <1>1, <1>4, ChildMoves DEF Inv, TypeOK
<1>6. w \in WritersIn
  BY <1>1 DEF WritersIn
<1>7. /\ pc'[w] = here /\ \A p \in Procs \ {w} : pc'[p] = pc[p]
      /\ WritersIn' = WritersIn /\ ReadersIn' = ReadersIn
  BY <1>1, <1>6, WriterMoves DEF Inv
<1>8. SemsExclude' /\ SemAccounting'
  BY <1>1, <1>7 DEF Inv, SemsExclude, SemAccounting
<1>9. NoLostUpdate'
  <2> SUFFICES ASSUME strayW' = 0 PROVE NoLostUpdate'
    BY DEF NoLostUpdate
  <2>1. WritersIn = {w}
    BY <1>1, <1>6, WriterIsAlone
  <2>2. \A v \in Writers \ {w} : pc'[v] \notin {"store", "print"}
    BY <1>7, <2>1, ProcsFacts DEF WritersIn
  <2>3. Load(w) => pc'[w] = "store" /\ reg'[w] = shm'
    BY <1>1, <1>2, <1>3, <1>7 DEF Inv, TypeOK
  <2>4. Store(w) => pc'[w] = "print" /\ shm' = (reg'[w] + 1) % IntModulus
    BY <1>2, <1>3, <1>7
  <2> QED
    BY <2>2, <2>3, <2>4 DEF NoLostUpdate
<1>10. Store(w) /\ strayW = 0 => shm' = (shm + 1) % IntModulus
  BY <1>2 DEF Inv, NoLostUpdate
<1> QED
  BY <1>1, <1>2, <1>4, <1>5, <1>6, <1>7, <1>8, <1>9, <1>10 DEF Inv

LEMMA StopWriteStep ==
  ASSUME Inv, NEW w \in Writers, StopWrite(w)
  PROVE  /\ Inv'
         /\ w \in WritersIn /\ WritersIn' = WritersIn \ {w}
         /\ UNCHANGED <<ReadersIn, shm, strayR>>
         /\ \/ WriterCounted /\ strayW' = strayW
            \/ ~WriterCounted /\ strayW' = strayW - 1
PROOF
<1>1. /\ pc[w] = "print" /\ w \in Procs /\ Goto(w, "start") /\ Semop(stop_write, strayW, -1)
      /\ UNCHANGED <<shm, reg, main, forked, reaped, dead, strayR>>
  BY ProcsFacts DEF StopWrite, At
<1> DEFINE Leaves1 == /\ sem[SEM_AW] # 0 /\ strayW' = strayW
                      /\ sem'[SEM_AW] = sem[SEM_AW] - 1 /\ OnlyChanges(SEM_AW)
           Fails1 == sem[SEM_AW] = 0 /\ strayW' = strayW - 1 /\ sem' = sem
<1>2. sem' \in [Sems -> Nat] /\ (Leaves1 \/ Fails1)
  BY <1>1, StopWriteCall
<1>3. /\ pc'[w] = "start" /\ \A p \in Procs \ {w} : pc'[p] = pc[p]
      /\ WritersIn' = WritersIn \ {w} /\ ReadersIn' = ReadersIn
  BY <1>1, WriterMoves DEF Inv
<1>4. w \in WritersIn
  BY <1>1 DEF WritersIn
<1>5. Cardinality(WritersIn') = Cardinality(WritersIn) - 1 /\ Cardinality(WritersIn) # 0
  BY <1>3, <1>4, InsideFinite, FS_RemoveElement
<1>6. strayW' \in Nat /\ strayR' \in Nat
  BY <1>1, <1>2, <1>5, SemsTell
<1>7. TypeOK' /\ NotForked'
  BY <1>1, <1>2, <1>6, ChildMoves DEF Inv, TypeOK
<1>8. sem'[SEM_AR] = sem[SEM_AR] /\ sem'[SEM_WW] = sem[SEM_WW] /\ sem'[SEM_WR] = sem[SEM_WR]
  BY <1>2, SemsFacts DEF OnlyChanges
<1>9. SemsExclude'
  BY <1>2, <1>8, SemsTell DEF SemsExclude
<1>10. SemAccounting'
  <2>1. sem'[SEM_AW] = Cardinality(WritersIn') - strayW'
    BY <1>2, <1>5, SemsTell
  <2> QED
    BY <1>1, <1>3, <1>6, <1>8, <2>1 DEF Inv, SemAccounting
<1>11. NoLostUpdate'
  <2> SUFFICES ASSUME strayW' = 0 PROVE NoLostUpdate'
    BY DEF NoLostUpdate
  <2>1. Cardinality(WritersIn') = 0
    BY <1>2, <1>5, SemsTell
  <2>2. WritersIn' = {}
    BY <1>3, <2>1, InsideFinite, FS_RemoveElement, FS_EmptySet
  <2> QED
    BY <2>2 DEF NoLostUpdate, WritersIn
<1> QED
  BY <1>1, <1>2, <1>3, <1>4, <1>7, <1>9, <1>10, <1>11, SemsTell DEF Inv

LEMMA StartReadStep ==
  ASSUME Inv, NEW r \in Readers, StartRead(r)
  PROVE  /\ Inv'
         /\ r \notin ReadersIn /\ ReadersIn' = ReadersIn \cup {r}
         /\ UNCHANGED <<WritersIn, shm, strayW>>
         /\ \/ ~WriterCounted /\ strayR' = strayR
            \/ WriterCounted /\ strayR' = strayR + 1
PROOF
<1>1. /\ pc[r] = "start" /\ r \in Procs /\ Goto(r, "read") /\ Semop(start_read, strayR, 1)
      /\ UNCHANGED <<shm, reg, main, forked, reaped, dead, strayW>>
  BY ProcsFacts DEF StartRead, At
<1> DEFINE LetIn1 == /\ sem[SEM_AW] = 0 /\ strayR' = strayR
                     /\ sem'[SEM_AR] = sem[SEM_AR] + 1 /\ OnlyChanges(SEM_AR)
           Fails1 == sem[SEM_AW] # 0 /\ strayR' = strayR + 1 /\ sem' = sem
<1>2. sem' \in [Sems -> Nat] /\ (LetIn1 \/ Fails1)
  BY <1>1, StartReadCall
<1>3. strayW' \in Nat /\ strayR' \in Nat
  BY <1>1, <1>2, SemsTell
<1>4. TypeOK' /\ NotForked'
  BY <1>1, <1>2, <1>3, ChildMoves DEF Inv, TypeOK
<1>5. /\ pc'[r] = "read" /\ \A p \in Procs \ {r} : pc'[p] = pc[p]
      /\ WritersIn' = WritersIn /\ ReadersIn' = ReadersIn \cup {r}
  BY <1>1, ReaderMoves DEF Inv
<1>6. r \notin ReadersIn
  BY <1>1 DEF ReadersIn
<1>7. Cardinality(ReadersIn') = Cardinality(ReadersIn) + 1
  BY <1>5, <1>6, InsideFinite, FS_AddElement
<1>8. sem'[SEM_AW] = sem[SEM_AW] /\ sem'[SEM_WW] = sem[SEM_WW] /\ sem'[SEM_WR] = sem[SEM_WR]
  BY <1>2, SemsFacts DEF OnlyChanges
<1>9. SemsExclude'
  BY <1>2, <1>8, SemsTell DEF SemsExclude
<1>10. SemAccounting'
  <2>1. sem'[SEM_AR] = Cardinality(ReadersIn') - strayR'
    BY <1>2, <1>7, SemsTell
  <2> QED
    BY <1>1, <1>3, <1>5, <1>8, <2>1 DEF Inv, SemAccounting
<1>11. NoLostUpdate'
  BY <1>1, <1>5, ProcsFacts DEF Inv, NoLostUpdate
<1> QED
  BY <1>1, <1>2, <1>4, <1>5, <1>6, <1>9, <1>10, <1>11, SemsTell DEF Inv

LEMMA StopReadStep ==
  ASSUME Inv, NEW r \in Readers, StopRead(r)
  PROVE  /\ Inv'
         /\ r \in ReadersIn /\ ReadersIn' = ReadersIn \ {r}
         /\ UNCHANGED <<WritersIn, shm, strayW>>
         /\ \/ ReaderCounted /\ strayR' = strayR
            \/ ~ReaderCounted /\ strayR' = strayR - 1
PROOF
<1>1. /\ pc[r] = "read" /\ r \in Procs /\ Goto(r, "start") /\ Semop(stop_read, strayR, -1)
      /\ UNCHANGED <<shm, reg, main, forked, reaped, dead, strayW>>
  BY ProcsFacts DEF StopRead, At
<1> DEFINE Leaves1 == /\ sem[SEM_AR] # 0 /\ strayR' = strayR
                      /\ sem'[SEM_AR] = sem[SEM_AR] - 1 /\ OnlyChanges(SEM_AR)
           Fails1 == sem[SEM_AR] = 0 /\ strayR' = strayR - 1 /\ sem' = sem
<1>2. sem' \in [Sems -> Nat] /\ (Leaves1 \/ Fails1)
  BY <1>1, StopReadCall
<1>3. /\ pc'[r] = "start" /\ \A p \in Procs \ {r} : pc'[p] = pc[p]
      /\ WritersIn' = WritersIn /\ ReadersIn' = ReadersIn \ {r}
  BY <1>1, ReaderMoves DEF Inv
<1>4. r \in ReadersIn
  BY <1>1 DEF ReadersIn
<1>5. Cardinality(ReadersIn') = Cardinality(ReadersIn) - 1 /\ Cardinality(ReadersIn) # 0
  BY <1>3, <1>4, InsideFinite, FS_RemoveElement
<1>6. strayW' \in Nat /\ strayR' \in Nat
  BY <1>1, <1>2, <1>5, SemsTell
<1>7. TypeOK' /\ NotForked'
  BY <1>1, <1>2, <1>6, ChildMoves DEF Inv, TypeOK
<1>8. sem'[SEM_AW] = sem[SEM_AW] /\ sem'[SEM_WW] = sem[SEM_WW] /\ sem'[SEM_WR] = sem[SEM_WR]
  BY <1>2, SemsFacts DEF OnlyChanges
<1>9. SemsExclude'
  BY <1>2, <1>8, SemsTell DEF SemsExclude
<1>10. SemAccounting'
  <2>1. sem'[SEM_AR] = Cardinality(ReadersIn') - strayR'
    BY <1>2, <1>5, SemsTell
  <2> QED
    BY <1>1, <1>3, <1>6, <1>8, <2>1 DEF Inv, SemAccounting
<1>11. NoLostUpdate'
  BY <1>1, <1>3, ProcsFacts DEF Inv, NoLostUpdate
<1> QED
  BY <1>1, <1>2, <1>3, <1>4, <1>7, <1>9, <1>10, <1>11, SemsTell DEF Inv

(* The parent's other steps and the deaths move nobody. *)
LEMMA OtherStep ==
  ASSUME Inv,
         ForkFails \/ Wait \/ MainReturns \/ (\E p \in Procs : Die(p)) \/ UNCHANGED vars
  PROVE  Inv' /\ WritersIn' = WritersIn /\ ReadersIn' = ReadersIn /\ UNCHANGED <<pc, shm, strayW, strayR>>
PROOF
<1>1. UNCHANGED <<sem, shm, pc, reg, forked, strayW, strayR>>
  BY DEF ForkFails, Wait, MainReturns, Die, vars, strays
<1>2. main' \in {"fork", "killed", "wait", "returned"}
  BY DEF ForkFails, Wait, MainReturns, Die, vars, Inv, TypeOK
<1>3. reaped' \subseteq Procs
  BY DEF ForkFails, Wait, MainReturns, Die, vars, Inv, TypeOK
<1>4. dead' \subseteq Procs
  <2>1. 1..forked \subseteq Procs
    BY ProcsFacts DEF Inv, TypeOK, Procs
  <2> QED
    BY <2>1 DEF ForkFails, Wait, MainReturns, Die, vars, Inv, TypeOK
<1>5. Inv'
  BY <1>1, <1>2, <1>3, <1>4, QuietStep
<1>6. WritersIn' = WritersIn /\ ReadersIn' = ReadersIn
  BY <1>1 DEF WritersIn, ReadersIn
<1> QED
  BY <1>1, <1>5, <1>6

(* ---- the theorems ---- *)

LEMMA InitInv == Init => Inv
PROOF
<1> SUFFICES ASSUME Init PROVE Inv
  OBVIOUS
<1>1. TypeOK
  BY ConstAssumption, ProcsFacts DEF Init, TypeOK
<1>2. WritersIn = {} /\ ReadersIn = {}
  BY ProcsFacts DEF Init, WritersIn, ReadersIn
<1>3. SemsExclude
  BY SemsFacts DEF Init, SemsExclude
<1>4. SemAccounting
  BY <1>2, SemsFacts, FS_EmptySet DEF Init, SemAccounting
<1>5. NoLostUpdate /\ NotForked
  BY ProcsFacts DEF Init, NoLostUpdate, NotForked
<1> QED
  BY <1>1, <1>3, <1>4, <1>5 DEF Inv

LEMMA NextInv == Inv /\ [Next]_vars => Inv'
PROOF
<1> SUFFICES ASSUME Inv, [Next]_vars PROVE Inv'
  OBVIOUS
<1>1. CASE MakeChild
  BY <1>1, ForkStep
<1>2. CASE ForkFails \/ Wait \/ MainReturns \/ (\E p \in Procs : Die(p)) \/ UNCHANGED vars
  BY <1>2, OtherStep
<1>3. ASSUME NEW w \in Writers, Writer(w) PROVE Inv'
  BY <1>3, StartWriteStep, InsideStep, StopWriteStep DEF Writer
<1>4. ASSUME NEW r \in Readers, Reader(r) PROVE Inv'
  BY <1>4, StartReadStep, StopReadStep DEF Reader
<1> QED
  BY <1>1, <1>2, <1>3, <1>4 DEF Next

(* The inductive invariant holds in every behaviour of task2.c. *)
THEOREM Invariance == Spec => []Inv
PROOF BY InitInv, NextInv, PTL DEF Spec

(* A writer that was let in is alone but for the strays, who went in when  *)
(* their semop failed, whatever the number of writers and readers, whoever *)
(* dies where and whichever calls are interrupted.                         *)
THEOREM SectionIsExclusive == Spec => []Exclusion
PROOF
<1>1. Inv => Exclusion
  BY SemsTell DEF Exclusion
<1> QED
  BY <1>1, Invariance, PTL

(* SEM_AW and SEM_AR count who is inside, less the strays; the waiting     *)
(* counts that start_write and start_read raise are never seen raised.     *)
THEOREM SemaphoresCount == Spec => []SemAccounting
PROOF BY Invariance, PTL DEF Inv

(* While no stray writer is left no increment of the shared int is lost    *)
(* between its load and its store, also of what strays left behind, and    *)
(* the printf of a writer prints what it stored.                           *)
THEOREM IncrementsAreAtomic == Spec => []NoLostUpdate
PROOF BY Invariance, PTL DEF Inv

(* More dead than strays are inside: one of them is counted.               *)
LEMMA DeadAreCounted ==
  ASSUME Inv
  PROVE  /\ Cardinality(dead \cap WritersIn) > strayW => WriterCounted
         /\ Cardinality(dead \cap ReadersIn) > strayR => ReaderCounted
PROOF
<1>1. /\ IsFiniteSet(dead \cap WritersIn) /\ Cardinality(dead \cap WritersIn) <= Cardinality(WritersIn)
      /\ IsFiniteSet(dead \cap ReadersIn) /\ Cardinality(dead \cap ReadersIn) <= Cardinality(ReadersIn)
  BY InsideFinite, FS_Subset
<1>2. Cardinality(dead \cap WritersIn) \in Nat /\ Cardinality(dead \cap ReadersIn) \in Nat
  BY <1>1, FS_CardinalityType
<1> QED
  BY <1>1, <1>2, SemsTell DEF WriterCounted, ReaderCounted

(* Without SEM_UNDO a writer that died inside lets nobody in, and a reader *)
(* that did lets no writer in, unless a stray has left in its place: only  *)
(* a call that fails still takes its process inside.                       *)
THEOREM DeathInsideLocks == Spec => NoEntryAfterDeathInside
PROOF
<1> DEFINE Step == /\ Cardinality(dead \cap WritersIn) > strayW =>
                        /\ ~LetIn(WritersIn, WritersIn', strayW, strayW')
                        /\ ~LetIn(ReadersIn, ReadersIn', strayR, strayR')
                   /\ Cardinality(dead \cap ReadersIn) > strayR =>
                        ~LetIn(WritersIn, WritersIn', strayW, strayW')
<1>1. Inv /\ [Next]_vars => Step
  <2> SUFFICES ASSUME Inv, [Next]_vars PROVE Step
    OBVIOUS
  <2>1. CASE MakeChild
    BY <2>1, ForkStep DEF LetIn
  <2>2. CASE ForkFails \/ Wait \/ MainReturns \/ (\E p \in Procs : Die(p)) \/ UNCHANGED vars
    BY <2>2, OtherStep DEF LetIn
  <2>3. ASSUME NEW w \in Writers, Writer(w) PROVE Step
    <3>1. CASE StartWrite(w)
      BY <3>1, StartWriteStep, DeadAreCounted, SemsTell DEF LetIn
    <3>2. CASE Load(w) \/ Store(w)
      BY <3>2, InsideStep DEF LetIn
    <3>3. CASE StopWrite(w)
      BY <3>3, StopWriteStep DEF LetIn
    <3> QED
      BY <2>3, <3>1, <3>2, <3>3 DEF Writer
  <2>4. ASSUME NEW r \in Readers, Reader(r) PROVE Step
    <3>1. CASE StartRead(r)
      BY <3>1, StartReadStep, DeadAreCounted, SemsTell DEF LetIn
    <3>2. CASE StopRead(r)
      BY <3>2, StopReadStep DEF LetIn
    <3> QED
      BY <2>4, <3>1, <3>2 DEF Reader
  <2> QED
    BY <2>1, <2>2, <2>3, <2>4 DEF Next
<1>2. Inv /\ [Next]_vars => [Step]_vars
  BY <1>1
<1> QED
  BY <1>2, Invariance, PTL DEF Spec, NoEntryAfterDeathInside, Step

(* ---- the abstract readers-writer lock ---- *)

(* Writers that still have to store. *)
Pending == {w \in Writers : pc[w] \in {"load", "store"}}

LockVars == <<ReadersIn, WritersIn, Pending, shm, strayR, strayW>>

LEMMA LockCounts ==
  /\ Lock!WriterCounted <=> WriterCounted
  /\ Lock!ReaderCounted <=> ReaderCounted
PROOF
<1>1. \A S : Lock!Cardinality(S) = Cardinality(S)
  BY Zenon DEF Lock!Cardinality, Cardinality, Lock!IsFiniteSet, IsFiniteSet
<1> QED
  BY <1>1 DEF Lock!WriterCounted, Lock!ReaderCounted, WriterCounted, ReaderCounted

LEMMA WriterPending ==
  ASSUME TypeOK, NEW w \in Writers, NEW here, Goto(w, here)
  PROVE  /\ here \in {"load", "store"} => Pending' = Pending \cup {w}
         /\ here \in {"print", "start"} => Pending' = Pending \ {w}
PROOF
<1>1. pc'[w] = here /\ \A v \in Writers \ {w} : pc'[v] = pc[v]
  BY ProcsFacts, WriterMoves
<1> QED
  BY <1>1 DEF Pending

LEMMA ReaderNotPending ==
  ASSUME TypeOK, NEW r \in Readers, NEW here, Goto(r, here)
  PROVE  Pending' = Pending
PROOF
<1>1. \A w \in Writers : pc'[w] = pc[w]
  BY ProcsFacts, ReaderMoves
<1> QED
  BY <1>1 DEF Pending

(* Every step of the program is a step of the lock or leaves it alone. *)
LEMMA StepIsLockStep == Inv /\ [Next]_vars => [Lock!Next]_LockVars
PROOF
<1> SUFFICES ASSUME Inv, [Next]_vars PROVE [Lock!Next]_LockVars
  OBVIOUS
<1>1. CASE MakeChild
  <2>1. \A w \in Writers : pc'[w] = pc[w] \/ (pc[w] = "none" /\ pc'[w] = "start")
    <3>1. forked + 1 \in Procs /\ pc[forked + 1] = "none" /\ Goto(forked + 1, "start")
      BY <1>1, ProcsFacts DEF MakeChild, Inv, TypeOK, NotForked
    <3>2. \A p \in Procs : pc'[p] = pc[p] \/ (pc[p] = "none" /\ pc'[p] = "start")
      BY <3>1 DEF Goto, Inv, TypeOK
    <3> QED
      BY <3>2, ProcsFacts
  <2>2. Pending' = Pending
    BY <2>1 DEF Pending
  <2> QED
    BY <1>1, <2>2, ForkStep DEF LockVars, MakeChild, strays
<1>2. CASE ForkFails \/ Wait \/ MainReturns \/ (\E p \in Procs : Die(p)) \/ UNCHANGED vars
  BY <1>2, OtherStep DEF LockVars, Pending
<1>3. ASSUME NEW w \in Writers, StartWrite(w) PROVE Lock!BeginWrite(w)
  <2>1. Pending' = Pending \cup {w}
    BY <1>3, WriterPending DEF StartWrite, Inv
  <2> QED
    BY <1>3, <2>1, StartWriteStep, LockCounts DEF Lock!BeginWrite, Pending
<1>4. ASSUME NEW w \in Writers, Load(w) PROVE UNCHANGED LockVars
  <2>1. Pending' = Pending
    BY <1>4, WriterPending DEF Load, At, Inv, Pending
  <2> QED
    BY <1>4, <2>1, InsideStep DEF LockVars
<1>5. ASSUME NEW w \in Writers, Store(w) PROVE Lock!Write(w)
  <2>1. w \in Pending /\ Pending' = Pending \ {w}
    BY <1>5, WriterPending DEF Store, At, Inv, Pending
  <2> QED
    BY <1>5, <2>1, InsideStep DEF Lock!Write, Pending
<1>6. ASSUME NEW w \in Writers, StopWrite(w) PROVE Lock!EndWrite(w)
  <2>1. w \notin Pending /\ Pending' = Pending
    BY <1>6, WriterPending DEF StopWrite, At, Inv, Pending
  <2> QED
    BY <1>6, <2>1, StopWriteStep, LockCounts DEF Lock!EndWrite, Pending
<1>7. ASSUME NEW r \in Readers, StartRead(r) PROVE Lock!BeginRead(r)
  <2>1. Pending' = Pending
    BY <1>7, ReaderNotPending DEF StartRead, Inv
  <2> QED
    BY <1>7, <2>1, StartReadStep, LockCounts DEF Lock!BeginRead, Pending
<1>8. ASSUME NEW r \in Readers, StopRead(r) PROVE Lock!EndRead(r)
  <2>1. Pending' = Pending
    BY <1>8, ReaderNotPending DEF StopRead, Inv
  <2> QED
    BY <1>8, <2>1, StopReadStep, LockCounts DEF Lock!EndRead, Pending
<1>9. ASSUME NEW w \in Writers, Writer(w) PROVE [Lock!Next]_LockVars
  BY <1>3, <1>4, <1>5, <1>6, <1>9 DEF Writer, Lock!Next
<1>10. ASSUME NEW r \in Readers, Reader(r) PROVE [Lock!Next]_LockVars
  BY <1>7, <1>8, <1>10 DEF Reader, Lock!Next
<1> QED
  BY <1>1, <1>2, <1>9, <1>10 DEF Next

(* The section of task2.c is the readers-writer lock of RWStrayLock:       *)
(* readers share it, a writer is alone and increments the int exactly      *)
(* once, but for the strays.                                               *)
THEOREM Refinement == Spec => ImplementsLock
PROOF
<1>1. Init => Lock!Init
  <2> SUFFICES ASSUME Init PROVE Lock!Init
    OBVIOUS
  <2> QED
    BY ProcsFacts DEF Init, Lock!Init, WritersIn, ReadersIn
<1>2. Inv /\ [Next]_vars =>
        [Lock!Next]_<<ReadersIn, WritersIn, {w \in Writers : pc[w] \in {"load", "store"}}, shm, strayR, strayW>>
  BY StepIsLockStep DEF LockVars, Pending
<1> QED
  BY <1>1, <1>2, Invariance, PTL DEF Spec, ImplementsLock, Lock!Spec

(* ---- nobody is stuck ---- *)

(* The places of writers are not those of readers. *)
PlacesFit == /\ \A w \in Writers : pc[w] # "read"
             /\ \A r \in Readers : pc[r] \notin {"load", "store", "print"}

(* The next step of p is possible: a semop call of its is performed. *)
CanGoOn(p) ==
  \/ pc[p] \in {"load", "store"}
  \/ pc[p] = "start" /\ semop(sem, IF p \in Writers THEN start_write ELSE start_read).ok
  \/ pc[p] = "print" /\ semop(sem, stop_write).ok
  \/ pc[p] = "read" /\ semop(sem, stop_read).ok

(* Who cannot go in waits for somebody else, a reader for a writer, who is *)
(* inside and can go on, though he may be dead: nobody waits in a circle.  *)
(* Who cannot leave is among strays only: all of his kind inside are.      *)
Blocks(q, p) == q \in WritersIn \/ (p \in Writers /\ q \in ReadersIn)
NobodyIsStuck ==
  \A p \in Procs : pc[p] # "none" =>
    \/ CanGoOn(p)
    \/ pc[p] = "start" /\ \E q \in Procs \ {p} : Blocks(q, p) /\ CanGoOn(q)
    \/ pc[p] = "print" /\ Cardinality(WritersIn) = strayW
    \/ pc[p] = "read"  /\ Cardinality(ReadersIn) = strayR

LEMMA PlacesStep == Inv /\ PlacesFit /\ [Next]_vars => PlacesFit'
PROOF
<1> SUFFICES ASSUME Inv, PlacesFit, [Next]_vars PROVE PlacesFit'
  OBVIOUS
<1>0. pc \in [Procs -> {"none", "start", "load", "store", "print", "read"}]
      /\ Writers \subseteq Procs /\ Readers \subseteq Procs /\ Writers \cap Readers = {}
  BY ProcsFacts DEF Inv, TypeOK
<1>1. CASE MakeChild
  BY <1>0, <1>1 DEF MakeChild, Goto, PlacesFit
<1>2. ASSUME NEW w \in Writers, Writer(w) PROVE PlacesFit'
  BY <1>0, <1>2 DEF Writer, StartWrite, Load, Store, StopWrite, Goto, PlacesFit
<1>3. ASSUME NEW r \in Readers, Reader(r) PROVE PlacesFit'
  BY <1>0, <1>3 DEF Reader, StartRead, StopRead, Goto, PlacesFit
<1>4. CASE ForkFails \/ Wait \/ MainReturns \/ (\E p \in Procs : Die(p)) \/ UNCHANGED vars
  <2>1. pc' = pc
    BY <1>4 DEF ForkFails, Wait, MainReturns, Die, vars
  <2> QED
    BY <2>1 DEF PlacesFit
<1> QED
  BY <1>1, <1>2, <1>3, <1>4 DEF Next

LEMMA SomebodyGoesOn == Inv /\ PlacesFit => NobodyIsStuck
PROOF
<1> SUFFICES ASSUME Inv, PlacesFit, NEW p \in Procs, pc[p] # "none", ~CanGoOn(p)
             PROVE  \/ pc[p] = "start" /\ \E q \in Procs \ {p} : Blocks(q, p) /\ CanGoOn(q)
                    \/ pc[p] = "print" /\ Cardinality(WritersIn) = strayW
                    \/ pc[p] = "read"  /\ Cardinality(ReadersIn) = strayR
  BY DEF NobodyIsStuck
<1>1. \A q \in Procs : /\ q \in Writers \/ q \in Readers
                       /\ ~(q \in Writers /\ q \in Readers)
                       /\ pc[q] \in {"none", "start", "load", "store", "print", "read"}
  BY ProcsFacts, ConstAssumption DEF Inv, TypeOK, Procs, Writers, Readers, NProcs
<1>2. sem[SEM_AW] # 0 => \E q \in WritersIn : q \in Procs /\ CanGoOn(q)
  <2>1. sem[SEM_AW] # 0 => WritersIn # {}
    BY SemsTell, InsideFinite
  <2>2. sem[SEM_AW] # 0 => \A q \in WritersIn : q \in Procs /\ CanGoOn(q)
    BY CallsReturn, ProcsFacts DEF WritersIn, CanGoOn
  <2> QED
    BY <2>1, <2>2
<1>3. sem[SEM_AR] # 0 => \E q \in ReadersIn : q \in Procs /\ CanGoOn(q)
  <2>1. sem[SEM_AR] # 0 => ReadersIn # {}
    BY SemsTell, InsideFinite
  <2>2. sem[SEM_AR] # 0 => \A q \in ReadersIn : q \in Procs /\ CanGoOn(q)
    BY CallsReturn, ProcsFacts DEF ReadersIn, CanGoOn
  <2> QED
    BY <2>1, <2>2
<1>4. CASE pc[p] = "start"
  <2>1. p \notin WritersIn /\ p \notin ReadersIn
    BY <1>4 DEF WritersIn, ReadersIn
  <2>2. sem[SEM_AW] # 0 \/ (p \in Writers /\ sem[SEM_AR] # 0)
    BY <1>4, CallsReturn DEF CanGoOn
  <2> QED
    BY <1>2, <1>3, <1>4, <2>1, <2>2 DEF Blocks
<1>5. CASE pc[p] = "print"
  BY <1>5, CallsReturn, SemsTell DEF CanGoOn
<1>6. CASE pc[p] = "read"
  BY <1>6, CallsReturn, SemsTell DEF CanGoOn
<1> QED
  BY <1>1, <1>4, <1>5, <1>6 DEF CanGoOn

(* Entering waits only for who is inside, and leaving never sleeps unless  *)
(* all of one's kind inside are strays: writers and readers never all wait *)
(* for each other.                                                         *)
THEOREM NeverStuck == Spec => []NobodyIsStuck
PROOF
<1>1. Init => Inv /\ PlacesFit
  BY InitInv, ProcsFacts DEF Init, PlacesFit
<1>2. Inv /\ PlacesFit /\ [Next]_vars => (Inv /\ PlacesFit)'
  BY NextInv, PlacesStep
<1> QED
  BY <1>1, <1>2, SomebodyGoesOn, PTL DEF Spec
=============================================================================
