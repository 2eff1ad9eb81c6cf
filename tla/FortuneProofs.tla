--------------------------- MODULE FortuneProofs ---------------------------
(***************************************************************************)
(* Proofs about Fortune for all processes, every size of the page, all     *)
(* messages and buffers, and either module.                                *)
(***************************************************************************)
EXTENDS Fortune, FiniteSetTheorems, SequenceTheorems, TLAPS

Chars == {"NUL", "newline"} \cup UNION {Range(m) : m \in Messages}
Lines == {<<>>} \cup {Append(m, "newline") : m \in Messages}
Stops == {"idle", "dead", "copy", "add", "store", "end", "take", "advance", "move",
          "show", "show_again", "measure"}
Locals == [data : Lines, at : Nat, len : Nat, text : Seq(Chars), again : BOOLEAN]

FTypeOK ==
  /\ program \in {"fortune.c", "main.c"}
  /\ pot \in [Bytes -> Chars]
  /\ windex \in Nat /\ rindex \in Nat
  /\ pc \in [Procs -> Stops] /\ loc \in [Procs -> Locals]
  /\ log \in Seq(Messages) /\ shown \in Seq(Chars)
  /\ broken \in SUBSET {"overlap", "copy", "outside", "short", "empty"}

(* Which module's functions a call is in, and that one that is not called  *)
(* has no locals.                                                          *)
CallsOf ==
  \A p \in Procs : /\ pc[p] = "take" => program = "fortune.c"
                   /\ pc[p] \in {"show", "show_again", "measure"} => program = "main.c"
                   /\ pc[p] \in {"idle", "dead"} => loc[p] = NoCall

(* As long as no calls overlap, no copy fails and none has left the page   *)
(* one process at most is in a call.                                       *)
Calm == broken \cap {"overlap", "copy", "outside"} = {}
OneCall == Calm => \A p, q \in Procs : /\ pc[p] # "dead"
                                       /\ pc[p] # "idle" /\ pc[q] # "idle" => p = q

(* The page while p alone may be in a call: what lies past the text is     *)
(* clear, what is not is closed by a NUL, and no copy begins past the end. *)
EdgeFor(p) ==
  /\ windex <= Size
  /\ pc[p] \in {"copy", "add", "store", "end"} => loc[p].at = windex
  /\ pc[p] = "copy" /\ program = "fortune.c" => windex + Len(loc[p].data) <= Size + 1
  /\ pc[p] \in {"add", "store"} => windex + Len(loc[p].data) <= Size
  /\ pc[p] = "end" => Len(loc[p].data) <= windex
  /\ \A k \in Bytes :
       k >= windex + (IF pc[p] \in {"add", "store"} THEN Len(loc[p].data) ELSE 0)
         => pot[k] = "NUL"
  /\ windex > 0 /\ (pc[p] = "end" => loc[p].data = <<>>) => pot[windex - 1] = "NUL"
  /\ program = "main.c" => /\ rindex <= windex
                           /\ pc[p] \in {"advance", "move"} => rindex + loc[p].len <= windex
  /\ pc[p] = "move" => loc[p].at = rindex
  /\ pc[p] = "take" => rindex < windex \/ (windex = 0 /\ rindex = 0)

PageEdges == Calm => \A p \in Procs : (\A q \in Procs \ {p} : pc[q] = "idle") => EdgeFor(p)

FInv == FTypeOK /\ CallsOf /\ OneCall /\ PageEdges

LEMMA MinExists ==
  ASSUME NEW S \in SUBSET Nat, S # {}
  PROVE  Min(S) \in S /\ \A y \in S : Min(S) <= y
PROOF
<1> DEFINE Below == {0..x : x \in S}
<1>1. Below \subseteq FiniteSubsetsOf(Nat) /\ Below # {}
  <2>1. ASSUME NEW x \in S PROVE 0..x \in SUBSET Nat /\ IsFiniteSet(0..x)
    <3>1. x \in Nat /\ 0 \in Int /\ x \in Int
      OBVIOUS
    <3> QED
      BY <3>1, FS_Interval
  <2> QED
    BY <2>1 DEF FiniteSubsetsOf
<1>2. PICK b \in Below : \A a \in Below : <<a, b>> \notin StrictSubsetOrdering(Nat)
  <2> HIDE DEF Below
  <2> QED
    BY <1>1, WFMin, FS_StrictSubsetOrderingWellFounded
<1>3. PICK x \in S : b = 0..x
  BY <1>2
<1>4. ASSUME NEW y \in S PROVE x <= y
  <2> SUFFICES ASSUME y < x PROVE FALSE
    OBVIOUS
  <2>1. x \in 0..x /\ x \notin 0..y
    OBVIOUS
  <2>2. 0..y \subseteq 0..x /\ 0..x \subseteq Nat
    OBVIOUS
  <2>3. <<0..y, 0..x>> \in StrictSubsetOrdering(Nat)
    BY <2>1, <2>2 DEF StrictSubsetOrdering
  <2> QED
    BY <2>3, <1>2, <1>3
<1> QED
  BY <1>3, <1>4, Zenon DEF Min

(* The messages, and the lines they are written as.                        *)
LEMMA MessageFacts ==
  ASSUME NEW m \in Messages
  PROVE  m \in Seq(Chars) /\ \A i \in 1..Len(m) : m[i] # "NUL"
PROOF
<1>1. m \in Seq(Range(m)) /\ "NUL" \notin Range(m) /\ Range(m) \subseteq Chars
  BY ConstAssumption DEF Chars
<1>2. m \in Seq(Chars)
  BY <1>1, SeqMonotonic
<1>3. \A i \in 1..Len(m) : m[i] \in Range(m)
  BY <1>1, ElementOfSeq
<1> QED
  BY <1>1, <1>2, <1>3

LEMMA LineFacts ==
  ASSUME NEW data \in Lines
  PROVE  /\ data \in Seq(Chars) /\ Len(data) \in Nat
         /\ data = <<>> <=> Len(data) = 0
         /\ data # <<>> => /\ Front(data) \in Messages
                           /\ Len(Front(data)) = Len(data) - 1
                           /\ \A i \in 1..Len(data) - 1 : Front(data)[i] = data[i]
PROOF
<1>1. CASE data = <<>>
  BY <1>1, EmptySeq
<1>2. CASE data # <<>>
  <2>1. PICK m \in Messages : data = Append(m, "newline")
    BY <1>2 DEF Lines
  <2>2. m \in Seq(Chars) /\ "newline" \in Chars
    BY MessageFacts DEF Chars
  <2>3. /\ data \in Seq(Chars) /\ Len(data) = Len(m) + 1 /\ Len(m) \in Nat
        /\ \A i \in 1..Len(m) : data[i] = m[i]
    BY <2>1, <2>2, AppendProperties, LenProperties
  <2>4. Len(data) - 1 = Len(m)
    BY <2>3
  <2>5. /\ Front(data) \in Seq(Chars) /\ Len(Front(data)) = Len(m)
        /\ \A i \in 1..Len(m) : Front(data)[i] = data[i]
    BY <2>3, <2>4 DEF Front
  <2>6. Front(data) = m
    BY <2>2, <2>3, <2>5, SeqEqual
  <2> QED
    BY <2>3, <2>4, <2>5, <2>6
<1> QED
  BY <1>1, <1>2

(* The string at a place with a NUL behind it.                             *)
LEMMA TextFacts ==
  ASSUME FTypeOK, NEW i \in Nat, Ends(i) # {}
  PROVE  /\ Min(Ends(i)) \in Ends(i) /\ \A k \in Ends(i) : Min(Ends(i)) <= k
         /\ TextAt(i) \in Seq(Chars) /\ Len(TextAt(i)) = Min(Ends(i)) - i
         /\ Min(Ends(i)) \in Bytes /\ i <= Min(Ends(i))
         /\ Len(TextAt(i)) \in Nat /\ i + Len(TextAt(i)) < Size
PROOF
<1>0. Size \in Nat \ {0} /\ Bytes \subseteq Nat
  BY ConstAssumption DEF Bytes
<1>1. Ends(i) \in SUBSET Nat
  BY <1>0 DEF Ends
<1>2. Min(Ends(i)) \in Ends(i) /\ \A k \in Ends(i) : Min(Ends(i)) <= k
  BY <1>1, MinExists
<1>3. PICK e \in Bytes : e = Min(Ends(i)) /\ i <= e
  BY <1>2 DEF Ends
<1>4. e - i \in Nat /\ e \in Nat /\ e < Size
  BY <1>0, <1>3 DEF Bytes
<1>5. \A k \in 1..e - i : i + k - 1 \in Bytes
  BY <1>0, <1>4 DEF Bytes
<1>6. TextAt(i) = [k \in 1..e - i |-> pot[i + k - 1]]
  BY <1>3 DEF TextAt
<1>7. TextAt(i) \in Seq(Chars) /\ Len(TextAt(i)) = e - i
  <2>1. \A k \in 1..e - i : pot[i + k - 1] \in Chars
    BY <1>5 DEF FTypeOK
  <2> HIDE DEF Bytes
  <2> QED
    BY <1>4, <1>6, <2>1
<1> QED
  BY <1>2, <1>3, <1>4, <1>7

LEMMA FInitInv == Init => FInv
PROOF
<1> SUFFICES ASSUME Init PROVE FInv
  OBVIOUS
<1> USE DEF Init
<1>1. Size \in Nat \ {0} /\ Bytes \subseteq Nat
  BY ConstAssumption DEF Bytes
<1>2. NoCall \in Locals /\ NoCall.data = <<>>
  BY EmptySeq DEF NoCall, Locals, Lines
<1>3. FTypeOK
  <2>1. log \in Seq(Messages) /\ shown \in Seq(Chars)
    BY EmptySeq
  <2> QED
    BY <1>2, <2>1 DEF FTypeOK, Chars, Stops
<1>4. CallsOf /\ OneCall
  BY DEF CallsOf, OneCall
<1>5. PageEdges
  <2> SUFFICES ASSUME NEW p \in Procs PROVE EdgeFor(p)
    BY DEF PageEdges
  <2>1. pc[p] = "idle"
    OBVIOUS
  <2> QED
    BY <1>1, <2>1 DEF EdgeFor
<1> QED
  BY <1>3, <1>4, <1>5 DEF FInv

(* A step of p changes where p stands and its locals only.                 *)
LEMMA Locally ==
  ASSUME FTypeOK, CallsOf, NEW p \in Procs, NEW h \in Stops, NEW l \in Locals,
         pc' = [pc EXCEPT ![p] = h], loc' = [loc EXCEPT ![p] = l], program' = program,
         h = "take" => program = "fortune.c",
         h \in {"show", "show_again", "measure"} => program = "main.c",
         h \in {"idle", "dead"} => l = NoCall
  PROVE  /\ pc' \in [Procs -> Stops] /\ loc' \in [Procs -> Locals] /\ CallsOf'
         /\ pc'[p] = h /\ loc'[p] = l
         /\ \A q \in Procs \ {p} : pc'[q] = pc[q] /\ loc'[q] = loc[q]
PROOF
<1>1. /\ pc' \in [Procs -> Stops] /\ loc' \in [Procs -> Locals]
      /\ pc'[p] = h /\ loc'[p] = l
      /\ \A q \in Procs \ {p} : pc'[q] = pc[q] /\ loc'[q] = loc[q]
  BY DEF FTypeOK
<1>2. CallsOf'
  <2> SUFFICES ASSUME NEW q \in Procs
               PROVE  /\ pc'[q] = "take" => program = "fortune.c"
                      /\ pc'[q] \in {"show", "show_again", "measure"} => program = "main.c"
                      /\ pc'[q] \in {"idle", "dead"} => loc'[q] = NoCall
    BY DEF CallsOf, NoCall
  <2>1. CASE q = p
    BY <1>1, <2>1
  <2>2. CASE q # p
    BY <1>1, <2>2 DEF CallsOf
  <2> QED
    BY <2>1, <2>2
<1> QED
  BY <1>1, <1>2

(* Who takes a step in a call, or begins one that overlaps no other, is    *)
(* the only one in a call.                                                 *)
LEMMA StandsAlone ==
  ASSUME FInv, Calm, NEW p \in Procs, pc[p] # "idle" \/ Overlap(p) = {}
  PROVE  (\A q \in Procs \ {p} : pc[q] = "idle") /\ EdgeFor(p)
PROOF
<1>1. \A q \in Procs \ {p} : pc[q] = "idle"
  BY DEF FInv, OneCall, Overlap
<1> QED
  BY <1>1 DEF FInv, PageEdges

LEMMA CallStep ==
  ASSUME FTypeOK', CallsOf', NEW p \in Procs,
         Calm' => /\ \A q \in Procs \ {p} : pc'[q] = "idle"
                  /\ pc'[p] # "dead" /\ EdgeFor(p)'
  PROVE  FInv'
PROOF
<1>1. OneCall'
  BY DEF OneCall
<1>2. PageEdges'
  <2> SUFFICES ASSUME Calm', NEW r \in Procs, \A q \in Procs \ {r} : pc'[q] = "idle"
               PROVE  EdgeFor(r)'
    BY DEF PageEdges
  <2>1. CASE r = p
    BY <2>1
  <2>2. CASE r # p
    <3>1. pc'[r] = "idle" /\ pc'[p] = "idle"
      BY <2>2
    <3> QED
      BY <3>1 DEF EdgeFor
  <2> QED
    BY <2>1, <2>2
<1> QED
  BY <1>1, <1>2 DEF FInv

(* What is broken stays broken.                                            *)
LEMMA CalmBefore ==
  ASSUME NEW why, broken' = broken \cup why, Calm'
  PROVE  Calm /\ why \cap {"overlap", "copy", "outside"} = {}
PROOF BY DEF Calm

LEMMA BeginWriteStep == ASSUME FInv, NEW p \in Procs, BeginWrite(p) PROVE FInv'
PROOF
<1>1. /\ pc[p] = "idle" /\ broken' = broken \cup Overlap(p)
      /\ UNCHANGED <<program, pot, windex, rindex, log, shown>>
  BY DEF BeginWrite, Break, shared
<1>2. FTypeOK /\ CallsOf /\ loc[p] \in Locals
  BY DEF FInv, FTypeOK
<1>3. Size \in Nat \ {0}
  BY ConstAssumption
<1>4. broken' \in SUBSET {"overlap", "copy", "outside", "short", "empty"}
  BY <1>1, <1>2 DEF FTypeOK, Overlap
<1>5. Calm' => /\ Calm /\ \A q \in Procs \ {p} : pc[q] = "idle"
               /\ EdgeFor(p)
  <2> SUFFICES ASSUME Calm' PROVE Calm /\ Overlap(p) = {}
    BY StandsAlone
  <2> QED
    BY <1>1, CalmBefore DEF Overlap
<1>6. PICK data \in Lines :
        IF Fits(Len(data))
        THEN loc' = [loc EXCEPT ![p].data = data, ![p].at = windex] /\ Goto(p, "copy")
        ELSE UNCHANGED <<pc, loc>>
  BY DEF BeginWrite, Lines
<1>7. CASE Fits(Len(data))
  <2> DEFINE l == [loc[p] EXCEPT !.data = data, !.at = windex]
  <2>1. l \in Locals /\ l.data = data /\ l.at = windex
    BY <1>2 DEF Locals, FTypeOK
  <2>2. pc' = [pc EXCEPT ![p] = "copy"] /\ loc' = [loc EXCEPT ![p] = l]
    BY <1>2, <1>6, <1>7 DEF Goto, FTypeOK
  <2> HIDE DEF l
  <2>3. /\ pc' \in [Procs -> Stops] /\ loc' \in [Procs -> Locals] /\ CallsOf'
        /\ pc'[p] = "copy" /\ loc'[p] = l
        /\ \A q \in Procs \ {p} : pc'[q] = pc[q] /\ loc'[q] = loc[q]
    BY <1>1, <1>2, <2>1, <2>2, Locally DEF Stops
  <2>4. FTypeOK'
    BY <1>1, <1>2, <1>4, <2>3 DEF FTypeOK
  <2>5. ASSUME Calm' PROVE EdgeFor(p)'
    <3>1. EdgeFor(p)
      BY <1>5, <2>5
    <3>2. loc'[p].data = data /\ loc'[p].at = windex /\ Len(data) \in Nat /\ windex \in Nat
      BY <1>2, <2>1, <2>3, LineFacts DEF FTypeOK
    <3>3. program = "fortune.c" => windex + Len(data) <= Size + 1
      BY <1>3, <1>7, <3>1, <3>2 DEF Fits, EdgeFor
    <3> QED
      BY <1>1, <2>3, <3>1, <3>2, <3>3 DEF EdgeFor
  <2> QED
    BY <1>5, <2>3, <2>4, <2>5, CallStep
<1>8. CASE ~Fits(Len(data))
  <2>1. UNCHANGED <<pc, loc>>
    BY <1>6, <1>8
  <2>2. FTypeOK'
    BY <1>1, <1>2, <1>4, <2>1 DEF FTypeOK
  <2>3. CallsOf' /\ (EdgeFor(p) => EdgeFor(p)')
    BY <1>1, <1>2, <2>1 DEF CallsOf, EdgeFor
  <2> QED
    BY <1>1, <1>5, <2>1, <2>2, <2>3, CallStep
<1> QED
  BY <1>7, <1>8

(* A process that the kernel ends is outside the page, and nothing is calm *)
(* any more.                                                               *)
LEMMA OopsStep ==
  ASSUME FInv, NEW p \in Procs, Oops(p), program' = program,
         pot' \in [Bytes -> Chars], UNCHANGED <<windex, rindex, log, shown>>
  PROVE  FInv'
PROOF
<1>1. /\ pc' = [pc EXCEPT ![p] = "dead"] /\ loc' = [loc EXCEPT ![p] = NoCall]
      /\ broken' = broken \cup {"outside"}
  BY DEF Oops, Goto, Break
<1>2. NoCall \in Locals /\ "dead" \in Stops
  BY EmptySeq DEF NoCall, Locals, Lines, Stops
<1>3. pc' \in [Procs -> Stops] /\ loc' \in [Procs -> Locals] /\ CallsOf'
  BY <1>1, <1>2, Locally DEF FInv
<1>4. FTypeOK'
  BY <1>1, <1>3 DEF FInv, FTypeOK
<1>5. ~Calm'
  BY <1>1 DEF Calm
<1> QED
  BY <1>3, <1>4, <1>5, CallStep

LEMMA PutFacts ==
  ASSUME FTypeOK, NEW at \in Nat, NEW data \in Seq(Chars)
  PROVE  /\ Put(at, data) \in [Bytes -> Chars]
         /\ \A k \in Bytes : ~(k >= at /\ k < at + Len(data)) => Put(at, data)[k] = pot[k]
         /\ \A i \in 1..Len(data) : at + i - 1 \in Bytes => Put(at, data)[at + i - 1] = data[i]
PROOF
<1>1. Bytes \subseteq Nat /\ Len(data) \in Nat
  BY ConstAssumption, LenProperties DEF Bytes
<1>2. ASSUME NEW k \in Bytes, k >= at, k < at + Len(data) PROVE data[k - at + 1] \in Chars
  <2>1. k - at + 1 \in 1..Len(data)
    BY <1>1, <1>2
  <2> QED
    BY <2>1, ElementOfSeq
<1>3. Put(at, data) \in [Bytes -> Chars]
  BY <1>2 DEF Put, FTypeOK
<1>4. \A k \in Bytes : ~(k >= at /\ k < at + Len(data)) => Put(at, data)[k] = pot[k]
  BY DEF Put
<1>5. ASSUME NEW i \in 1..Len(data), at + i - 1 \in Bytes
      PROVE  Put(at, data)[at + i - 1] = data[i]
  <2>1. (at + i - 1) - at + 1 = i /\ at + i - 1 >= at /\ at + i - 1 < at + Len(data)
    BY <1>1
  <2> QED
    BY <1>5, <2>1 DEF Put
<1> QED
  BY <1>3, <1>4, <1>5

LEMMA CopyFromUserStep == ASSUME FInv, NEW p \in Procs, CopyFromUser(p) PROVE FInv'
PROOF
<1>1. /\ pc[p] = "copy" /\ pot' = Put(loc[p].at, loc[p].data)
      /\ UNCHANGED <<program, windex, rindex, log, shown>>
      /\ IF loc[p].data # <<>> /\ loc[p].at + Len(loc[p].data) > Size
         THEN Oops(p) ELSE Goto(p, "add") /\ UNCHANGED <<loc, broken>>
  BY DEF CopyFromUser
<1>2. /\ FTypeOK /\ CallsOf /\ loc[p] \in Locals
      /\ loc[p].data \in Seq(Chars) /\ Len(loc[p].data) \in Nat /\ loc[p].at \in Nat
      /\ windex \in Nat /\ Size \in Nat \ {0}
  BY LineFacts, ConstAssumption DEF FInv, FTypeOK, Locals
<1>3. /\ pot' \in [Bytes -> Chars]
      /\ \A k \in Bytes : ~(k >= loc[p].at /\ k < loc[p].at + Len(loc[p].data)) => pot'[k] = pot[k]
  BY <1>1, <1>2, PutFacts
<1>4. CASE Oops(p)
  BY <1>1, <1>3, <1>4, OopsStep
<1>5. CASE ~Oops(p)
  <2>1. /\ loc[p].data = <<>> \/ loc[p].at + Len(loc[p].data) <= Size
        /\ pc' = [pc EXCEPT ![p] = "add"] /\ loc' = [loc EXCEPT ![p] = loc[p]]
        /\ loc' = loc /\ broken' = broken
    BY <1>1, <1>2, <1>5 DEF Goto, FTypeOK
  <2>2. /\ pc' \in [Procs -> Stops] /\ CallsOf' /\ pc'[p] = "add"
        /\ \A q \in Procs \ {p} : pc'[q] = pc[q]
    BY <1>1, <1>2, <2>1, Locally DEF Stops
  <2>3. FTypeOK'
    BY <1>1, <1>2, <1>3, <2>1, <2>2 DEF FTypeOK
  <2>4. ASSUME Calm' PROVE (\A q \in Procs \ {p} : pc[q] = "idle") /\ EdgeFor(p)
    BY <1>1, <2>1, <2>4, StandsAlone DEF Calm
  <2>5. ASSUME Calm' PROVE EdgeFor(p)'
    <3>1. EdgeFor(p) /\ loc[p].at = windex
      BY <1>1, <2>4, <2>5 DEF EdgeFor
    <3>2. windex + Len(loc[p].data) <= Size
      <4>1. CASE loc[p].data = <<>>
        BY <1>2, <3>1, <4>1, EmptySeq DEF EdgeFor
      <4>2. CASE loc[p].data # <<>>
        BY <2>1, <3>1, <4>2
      <4> QED
        BY <4>1, <4>2
    <3>3. ASSUME NEW k \in Bytes, k >= windex + Len(loc[p].data) PROVE pot'[k] = "NUL"
      <4>1. k \in Nat /\ k >= windex
        BY <1>2, <3>3, ConstAssumption DEF Bytes
      <4>2. pot[k] = "NUL"
        BY <1>1, <1>2, <3>1, <4>1 DEF EdgeFor
      <4>3. pot'[k] = pot[k]
        BY <1>2, <1>3, <3>1, <3>3, <4>1
      <4> QED
        BY <4>2, <4>3
    <3>4. ASSUME windex > 0 PROVE pot'[windex - 1] = "NUL"
      <4>1. windex - 1 \in Bytes /\ windex - 1 < windex
        BY <1>2, <3>1, <3>4 DEF EdgeFor, Bytes
      <4>2. pot[windex - 1] = "NUL"
        BY <1>1, <3>1, <3>4 DEF EdgeFor
      <4> QED
        BY <1>2, <1>3, <3>1, <4>1, <4>2
    <3> QED
      BY <1>1, <2>1, <2>2, <3>1, <3>2, <3>3, <3>4 DEF EdgeFor
  <2> QED
    BY <2>2, <2>3, <2>4, <2>5, CallStep
<1> QED
  BY <1>4, <1>5

LEMMA CopyFailsStep == ASSUME FInv, NEW p \in Procs, CopyFails(p) PROVE FInv'
PROOF
<1>1. /\ UNCHANGED <<program, windex, rindex, log, shown>>
      /\ pc' = [pc EXCEPT ![p] = "idle"] /\ loc' = [loc EXCEPT ![p] = NoCall]
      /\ broken' = broken \cup {"copy"}
  BY DEF CopyFails, Return, Goto, Break
<1>2. /\ FTypeOK /\ CallsOf /\ loc[p].at \in Nat
      /\ loc[p].data \in Seq(Chars) /\ Len(loc[p].data) \in Nat
  BY LineFacts DEF FInv, FTypeOK, Locals
<1>3. PICK n \in 0..Len(loc[p].data)-1 :
        pot' = Put(loc[p].at, [k \in DOMAIN loc[p].data |-> IF k <= n THEN loc[p].data[k] ELSE "NUL"])
  BY DEF CopyFails
<1> DEFINE part == [k \in DOMAIN loc[p].data |-> IF k <= n THEN loc[p].data[k] ELSE "NUL"]
<1>4. part \in Seq(Chars)
  <2>1. DOMAIN loc[p].data = 1..Len(loc[p].data)
    BY <1>2, LenProperties
  <2>2. \A k \in 1..Len(loc[p].data) :
          (IF k <= n THEN loc[p].data[k] ELSE "NUL") \in Chars
    BY <1>2, ElementOfSeq DEF Chars
  <2> QED
    BY <1>2, <2>1, <2>2
<1>5. pot' \in [Bytes -> Chars]
  <2> HIDE DEF part
  <2>1. pot' = Put(loc[p].at, part)
    BY <1>3 DEF part
  <2> QED
    BY <1>2, <1>4, <2>1, PutFacts
<1>6. NoCall \in Locals /\ "idle" \in Stops
  BY EmptySeq DEF NoCall, Locals, Lines, Stops
<1>7. pc' \in [Procs -> Stops] /\ loc' \in [Procs -> Locals] /\ CallsOf'
  BY <1>1, <1>2, <1>6, Locally
<1>8. FTypeOK'
  BY <1>1, <1>2, <1>5, <1>7 DEF FTypeOK
<1>9. ~Calm'
  BY <1>1 DEF Calm
<1> QED
  BY <1>7, <1>8, <1>9, CallStep

LEMMA LoadIndexStep == ASSUME FInv, NEW p \in Procs, LoadIndex(p) PROVE FInv'
PROOF
<1> DEFINE l == [loc[p] EXCEPT !.at = windex]
<1>1. /\ pc[p] = "add" /\ UNCHANGED <<program, pot, windex, rindex, log, shown, broken>>
      /\ pc' = [pc EXCEPT ![p] = "store"] /\ loc' = [loc EXCEPT ![p] = l]
  BY DEF LoadIndex, Goto, shared, history, FInv, FTypeOK
<1>2. FTypeOK /\ CallsOf /\ loc[p] \in Locals
  BY DEF FInv, FTypeOK
<1>3. l \in Locals /\ l.at = windex /\ l.data = loc[p].data
  BY <1>2 DEF Locals, FTypeOK
<1> HIDE DEF l
<1>4. /\ pc' \in [Procs -> Stops] /\ loc' \in [Procs -> Locals] /\ CallsOf'
      /\ pc'[p] = "store" /\ loc'[p] = l
      /\ \A q \in Procs \ {p} : pc'[q] = pc[q] /\ loc'[q] = loc[q]
  BY <1>1, <1>2, <1>3, Locally DEF Stops
<1>5. FTypeOK'
  BY <1>1, <1>2, <1>4 DEF FTypeOK
<1>6. ASSUME Calm' PROVE (\A q \in Procs \ {p} : pc[q] = "idle") /\ EdgeFor(p)
  BY <1>1, <1>6, StandsAlone DEF Calm
<1>7. EdgeFor(p) => EdgeFor(p)'
  BY <1>1, <1>3, <1>4 DEF EdgeFor
<1> QED
  BY <1>4, <1>5, <1>6, <1>7, CallStep

LEMMA StoreIndexStep == ASSUME FInv, NEW p \in Procs, StoreIndex(p) PROVE FInv'
PROOF
<1> DEFINE end == loc[p].at + Len(loc[p].data)
           l   == [loc[p] EXCEPT !.at = end]
<1>1. /\ pc[p] = "store" /\ UNCHANGED <<program, pot, rindex, log, shown, broken>>
      /\ windex' = end
      /\ pc' = [pc EXCEPT ![p] = "end"] /\ loc' = [loc EXCEPT ![p] = l]
  BY DEF StoreIndex, Goto, history, FInv, FTypeOK
<1>2. /\ FTypeOK /\ CallsOf /\ loc[p] \in Locals
      /\ loc[p].at \in Nat /\ loc[p].data \in Lines /\ Len(loc[p].data) \in Nat /\ windex \in Nat
      /\ rindex \in Nat /\ Size \in Nat
  BY LineFacts, ConstAssumption DEF FInv, FTypeOK, Locals
<1>3. end \in Nat /\ l \in Locals /\ l.at = end /\ l.data = loc[p].data
  BY <1>2 DEF Locals
<1>4. /\ pc' \in [Procs -> Stops] /\ loc' \in [Procs -> Locals] /\ CallsOf'
      /\ pc'[p] = "end" /\ loc'[p] = l
      /\ \A q \in Procs \ {p} : pc'[q] = pc[q] /\ loc'[q] = loc[q]
  <2> HIDE DEF l, end
  <2> QED
    BY <1>1, <1>2, <1>3, Locally DEF Stops
<1>5. FTypeOK'
  BY <1>1, <1>2, <1>3, <1>4 DEF FTypeOK
<1>6. ASSUME Calm' PROVE (\A q \in Procs \ {p} : pc[q] = "idle") /\ EdgeFor(p)
  BY <1>1, <1>6, StandsAlone DEF Calm
<1>7. ASSUME EdgeFor(p) PROVE EdgeFor(p)'
  <2>1. loc[p].at = windex /\ windex' = windex + Len(loc[p].data) /\ windex' <= Size
    BY <1>1, <1>7 DEF EdgeFor
  <2>2. loc'[p].data = loc[p].data /\ loc'[p].at = windex'
    BY <1>1, <1>3, <1>4
  <2>3. \A k \in Bytes : k >= windex' => pot[k] = "NUL"
    BY <1>1, <1>7, <2>1 DEF EdgeFor
  <2>4. Len(loc[p].data) <= windex' /\ windex <= windex' /\ windex' \in Nat
    BY <1>2, <2>1
  <2>5. ASSUME loc[p].data = <<>> PROVE windex' = windex
    BY <1>2, <2>1, <2>5, EmptySeq
  <2>6. program = "main.c" => rindex <= windex'
    BY <1>2, <1>7, <2>4 DEF EdgeFor
  <2>7. windex' > 0 /\ loc[p].data = <<>> => pot[windex' - 1] = "NUL"
    BY <1>1, <1>7, <2>5 DEF EdgeFor
  <2> QED
    BY <1>1, <1>4, <2>1, <2>2, <2>3, <2>4, <2>6, <2>7 DEF EdgeFor
<1> QED
  BY <1>4, <1>5, <1>6, <1>7, CallStep

LEMMA ReturnFacts ==
  ASSUME FTypeOK, CallsOf, NEW p \in Procs, Return(p), program' = program
  PROVE  /\ pc' \in [Procs -> Stops] /\ loc' \in [Procs -> Locals] /\ CallsOf'
         /\ pc'[p] = "idle" /\ loc'[p] = NoCall
         /\ \A q \in Procs \ {p} : pc'[q] = pc[q] /\ loc'[q] = loc[q]
PROOF
<1>1. NoCall \in Locals /\ "idle" \in Stops
  BY EmptySeq DEF NoCall, Locals, Lines, Stops
<1>2. pc' = [pc EXCEPT ![p] = "idle"] /\ loc' = [loc EXCEPT ![p] = NoCall]
  BY DEF Return, Goto
<1> QED
  BY <1>1, <1>2, Locally

LEMMA LeaveFacts ==
  ASSUME FTypeOK, CallsOf, NEW p \in Procs, Leave(p), program' = program
  PROVE  /\ pc' \in [Procs -> Stops] /\ loc' \in [Procs -> Locals] /\ CallsOf'
         /\ shown' \in Seq(Chars) /\ pc'[p] \in {"show_again", "idle"}
         /\ \A q \in Procs \ {p} : pc'[q] = pc[q] /\ loc'[q] = loc[q]
PROOF
<1>1. loc[p] \in Locals /\ loc[p].text \in Seq(Chars) /\ shown \in Seq(Chars)
  BY DEF FTypeOK, Locals
<1>2. CASE program = "main.c" /\ ~loc[p].again /\ Len(loc[p].text) > SeqRoom
  <2>1. /\ pc' = [pc EXCEPT ![p] = "show_again"] /\ loc' = [loc EXCEPT ![p] = loc[p]]
        /\ shown' = shown
    BY <1>2 DEF Leave, Goto, FTypeOK
  <2> QED
    BY <1>1, <1>2, <2>1, Locally DEF Stops
<1>3. CASE ~(program = "main.c" /\ ~loc[p].again /\ Len(loc[p].text) > SeqRoom)
  <2>1. Return(p) /\ shown' = Record(shown, loc[p].text)
    BY <1>3 DEF Leave
  <2> QED
    BY <1>1, <2>1, ReturnFacts DEF Record
<1> QED
  BY <1>2, <1>3

LEMMA TerminateStep == ASSUME FInv, NEW p \in Procs, Terminate(p) PROVE FInv'
PROOF
<1>1. pc[p] = "end" /\ UNCHANGED <<program, windex, rindex, shown>>
  BY DEF Terminate
<1>2. /\ FTypeOK /\ CallsOf /\ loc[p] \in Locals
      /\ loc[p].at \in Nat /\ loc[p].data \in Lines /\ Len(loc[p].data) \in Nat
      /\ loc[p].data = <<>> <=> Len(loc[p].data) = 0
      /\ windex \in Nat /\ Size \in Nat
  BY LineFacts, ConstAssumption DEF FInv, FTypeOK, Locals
<1>3. CASE loc[p].at - 1 \in Bytes
  <2>1. /\ pot' = [k \in Bytes |-> IF k = loc[p].at - 1 THEN "NUL" ELSE pot[k]]
        /\ Return(p) /\ broken' = broken
        /\ log' = IF loc[p].data = <<>> THEN log
                  ELSE Record(log, Append(log, Front(loc[p].data)))
    BY <1>3 DEF Terminate, LastByte
  <2>2. /\ pc' \in [Procs -> Stops] /\ loc' \in [Procs -> Locals] /\ CallsOf'
        /\ pc'[p] = "idle" /\ loc'[p] = NoCall
        /\ \A q \in Procs \ {p} : pc'[q] = pc[q] /\ loc'[q] = loc[q]
    BY <1>1, <1>2, <2>1, ReturnFacts
  <2>3. pot' \in [Bytes -> Chars]
    BY <1>2, <2>1 DEF FTypeOK, Chars
  <2>4. log' \in Seq(Messages)
    <3>1. log \in Seq(Messages)
      BY <1>2 DEF FTypeOK
    <3>2. CASE loc[p].data = <<>>
      BY <2>1, <3>1, <3>2
    <3>3. CASE loc[p].data # <<>>
      <4>1. Append(log, Front(loc[p].data)) \in Seq(Messages)
        BY <1>2, <3>1, <3>3, LineFacts, AppendProperties
      <4> QED
        BY <2>1, <3>1, <3>3, <4>1 DEF Record
    <3> QED
      BY <3>2, <3>3
  <2>5. FTypeOK'
    BY <1>1, <1>2, <2>1, <2>2, <2>3, <2>4 DEF FTypeOK
  <2>6. ASSUME Calm' PROVE (\A q \in Procs \ {p} : pc[q] = "idle") /\ EdgeFor(p)
    BY <1>1, <2>1, <2>6, StandsAlone DEF Calm
  <2>7. ASSUME EdgeFor(p) PROVE EdgeFor(p)'
    <3>1. windex <= Size /\ loc[p].at = windex
      BY <1>1, <2>7 DEF EdgeFor
    <3>2. \A k \in Bytes : k >= windex => pot'[k] = "NUL"
      BY <1>1, <1>2, <2>1, <2>7 DEF EdgeFor
    <3>3. windex > 0 => pot'[windex - 1] = "NUL"
      BY <1>3, <2>1, <3>1
    <3>4. program = "main.c" => rindex <= windex
      BY <2>7 DEF EdgeFor
    <3> QED
      BY <1>1, <1>2, <2>2, <3>1, <3>2, <3>3, <3>4 DEF EdgeFor
  <2> QED
    BY <2>2, <2>5, <2>6, <2>7, CallStep
<1>4. CASE loc[p].at - 1 \notin Bytes
  <2>1. Oops(p) /\ pot' = pot /\ log' = log
    BY <1>4 DEF Terminate
  <2> QED
    BY <1>1, <1>2, <2>1, OopsStep DEF FTypeOK
<1> QED
  BY <1>3, <1>4

LEMMA BeginReadStep == ASSUME FInv, NEW p \in Procs, BeginRead(p) PROVE FInv'
PROOF
<1>1. PICK n \in ReadLens :
        /\ program = "fortune.c" /\ pc[p] = "idle" /\ UNCHANGED <<program, pot, windex, log, shown>>
        /\ rindex' = IF rindex >= windex THEN 0 ELSE rindex
        /\ loc' = [loc EXCEPT ![p].len = n] /\ pc' = [pc EXCEPT ![p] = "take"]
        /\ broken' = broken \cup (Overlap(p) \cup IF windex = 0 THEN {"empty"} ELSE {})
  BY DEF BeginRead, AllRead, Break, Goto
<1> DEFINE l == [loc[p] EXCEPT !.len = n]
<1>2. FTypeOK /\ CallsOf /\ loc[p] \in Locals /\ rindex \in Nat /\ windex \in Nat /\ n \in Nat
  BY ConstAssumption DEF FInv, FTypeOK
<1>3. l \in Locals /\ loc' = [loc EXCEPT ![p] = l]
  BY <1>1, <1>2 DEF Locals, FTypeOK
<1> HIDE DEF l
<1>4. /\ pc' \in [Procs -> Stops] /\ loc' \in [Procs -> Locals] /\ CallsOf'
      /\ pc'[p] = "take" /\ loc'[p] = l
      /\ \A q \in Procs \ {p} : pc'[q] = pc[q] /\ loc'[q] = loc[q]
  BY <1>1, <1>2, <1>3, Locally DEF Stops
<1>5. FTypeOK'
  BY <1>1, <1>2, <1>4 DEF FTypeOK, Overlap
<1>6. ASSUME Calm' PROVE (\A q \in Procs \ {p} : pc[q] = "idle") /\ EdgeFor(p)
  <2>1. Calm /\ Overlap(p) = {}
    BY <1>1, <1>6 DEF Calm, Overlap
  <2> QED
    BY <2>1, StandsAlone
<1>7. EdgeFor(p) => EdgeFor(p)'
  BY <1>1, <1>2, <1>4 DEF EdgeFor
<1> QED
  BY <1>4, <1>5, <1>6, <1>7, CallStep

LEMMA CopyToUserStep == ASSUME FInv, NEW p \in Procs, CopyToUser(p) PROVE FInv'
PROOF
<1>1. pc[p] = "take" /\ UNCHANGED <<program, pot, windex, rindex, log, shown>>
  BY DEF CopyToUser, shared
<1>2. /\ FTypeOK /\ CallsOf /\ loc[p] \in Locals /\ rindex \in Nat /\ loc[p].len \in Nat
      /\ program = "fortune.c" /\ pot \in [Bytes -> Chars]
  BY <1>1 DEF FInv, FTypeOK, CallsOf, Locals
<1>3. CASE Ends(rindex) = {}
  BY <1>1, <1>2, <1>3, OopsStep DEF CopyToUser
<1>4. CASE Ends(rindex) # {}
  <2> DEFINE text == TextAt(rindex)
             l    == Min({Len(text) + 1, loc[p].len})
             part == SubSeq(text, 1, Min({l, Len(text)}))
  <2>1. text \in Seq(Chars) /\ Len(text) \in Nat
    BY <1>2, <1>4, TextFacts
  <2>2. l \in Nat /\ l <= Len(text) + 1
    <3>1. {Len(text) + 1, loc[p].len} \in SUBSET Nat
      BY <1>2, <2>1
    <3> HIDE DEF text
    <3>2. /\ l \in {Len(text) + 1, loc[p].len}
          /\ \A y \in {Len(text) + 1, loc[p].len} : l <= y
      BY <3>1, MinExists
    <3> QED
      BY <1>2, <2>1, <3>2
  <2>3. part \in Seq(Chars)
    <3> HIDE DEF text, l
    <3>1. {l, Len(text)} \in SUBSET Nat
      BY <2>1, <2>2
    <3>2. Min({l, Len(text)}) \in {l, Len(text)} /\ \A y \in {l, Len(text)} : Min({l, Len(text)}) <= y
      BY <3>1, MinExists
    <3>3. Min({l, Len(text)}) \in Nat /\ Min({l, Len(text)}) <= Len(text)
      BY <2>1, <2>2, <3>2
    <3>4. \A k \in 1..Min({l, Len(text)}) : text[k] \in Chars
      BY <2>1, <3>3, ElementOfSeq
    <3>5. 1 \in Int /\ Min({l, Len(text)}) \in Int
      BY <3>3
    <3> QED
      BY <3>4, <3>5, SubSeqProperties
  <2>4. /\ broken' = broken \cup (IF l <= Len(text) THEN {"short"} ELSE {})
        /\ pc' = [pc EXCEPT ![p] = "advance"]
        /\ \/ loc' = [loc EXCEPT ![p].len = l, ![p].text = part]
           \/ loc' = [loc EXCEPT ![p].len = 0, ![p].text = shown]
    BY <1>4, Zenon DEF CopyToUser, Break, Goto
  <2> HIDE DEF text, l, part
  <2>5. PICK r \in Locals : loc' = [loc EXCEPT ![p] = r]
    <3>1. CASE loc' = [loc EXCEPT ![p].len = l, ![p].text = part]
      <4>1. [loc[p] EXCEPT !.len = l, !.text = part] \in Locals
        BY <1>2, <2>2, <2>3 DEF Locals
      <4> QED
        BY <1>2, <3>1, <4>1 DEF FTypeOK
    <3>2. CASE loc' = [loc EXCEPT ![p].len = 0, ![p].text = shown]
      <4>1. [loc[p] EXCEPT !.len = 0, !.text = shown] \in Locals
        BY <1>2 DEF Locals, FTypeOK
      <4> QED
        BY <1>2, <3>2, <4>1 DEF FTypeOK
    <3> QED
      BY <2>4, <3>1, <3>2
  <2>6. /\ pc' \in [Procs -> Stops] /\ loc' \in [Procs -> Locals] /\ CallsOf'
        /\ pc'[p] = "advance"
        /\ \A q \in Procs \ {p} : pc'[q] = pc[q] /\ loc'[q] = loc[q]
    BY <1>1, <1>2, <2>4, <2>5, Locally DEF Stops
  <2>7. FTypeOK'
    BY <1>1, <1>2, <2>4, <2>6 DEF FTypeOK
  <2>8. ASSUME Calm' PROVE (\A q \in Procs \ {p} : pc[q] = "idle") /\ EdgeFor(p)
    <3>1. Calm
      BY <2>4, <2>8 DEF Calm
    <3> QED
      BY <1>1, <3>1, StandsAlone
  <2>9. EdgeFor(p) => EdgeFor(p)'
    BY <1>1, <1>2, <2>6 DEF EdgeFor
  <2> QED
    BY <2>6, <2>7, <2>8, <2>9, CallStep
<1> QED
  BY <1>3, <1>4

LEMMA BeginShowStep == ASSUME FInv, NEW p \in Procs, BeginShow(p) PROVE FInv'
PROOF
<1> DEFINE l == [loc[p] EXCEPT !.again = FALSE]
<1>1. /\ program = "main.c" /\ pc[p] = "idle"
      /\ UNCHANGED <<program, pot, windex, rindex, log, shown>>
      /\ loc' = [loc EXCEPT ![p] = l] /\ pc' = [pc EXCEPT ![p] = "show"]
      /\ broken' = broken \cup Overlap(p)
  BY DEF BeginShow, Break, Goto, shared, FInv, FTypeOK
<1>2. FTypeOK /\ CallsOf /\ loc[p] \in Locals
  BY DEF FInv, FTypeOK
<1>3. l \in Locals
  BY <1>2 DEF Locals
<1> HIDE DEF l
<1>4. /\ pc' \in [Procs -> Stops] /\ loc' \in [Procs -> Locals] /\ CallsOf'
      /\ pc'[p] = "show"
      /\ \A q \in Procs \ {p} : pc'[q] = pc[q] /\ loc'[q] = loc[q]
  BY <1>1, <1>2, <1>3, Locally DEF Stops
<1>5. FTypeOK'
  BY <1>1, <1>2, <1>4 DEF FTypeOK, Overlap
<1>6. ASSUME Calm' PROVE (\A q \in Procs \ {p} : pc[q] = "idle") /\ EdgeFor(p)
  <2>1. Calm /\ Overlap(p) = {}
    BY <1>1, <1>6 DEF Calm, Overlap
  <2> QED
    BY <2>1, StandsAlone
<1>7. EdgeFor(p) => EdgeFor(p)'
  BY <1>1, <1>4 DEF EdgeFor
<1> QED
  BY <1>4, <1>5, <1>6, <1>7, CallStep

LEMMA ShowStep == ASSUME FInv, NEW p \in Procs, Show(p) PROVE FInv'
PROOF
<1>1. pc[p] = "show" /\ UNCHANGED <<program, pot, windex, rindex, log, shown>>
  BY DEF Show, shared
<1>2. /\ FTypeOK /\ CallsOf /\ loc[p] \in Locals /\ rindex \in Nat
      /\ program = "main.c" /\ pot \in [Bytes -> Chars]
  BY <1>1 DEF FInv, FTypeOK, CallsOf
<1>3. CASE Ends(rindex) = {}
  BY <1>1, <1>2, <1>3, OopsStep DEF Show
<1>4. CASE Ends(rindex) # {}
  <2> DEFINE l == [loc[p] EXCEPT !.text = TextAt(rindex)]
  <2>1. /\ broken' = broken /\ loc' = [loc EXCEPT ![p] = l] /\ pc' = [pc EXCEPT ![p] = "measure"]
    BY <1>2, <1>4 DEF Show, Goto, FTypeOK
  <2>2. l \in Locals
    BY <1>2, <1>4, TextFacts DEF Locals
  <2> HIDE DEF l
  <2>3. /\ pc' \in [Procs -> Stops] /\ loc' \in [Procs -> Locals] /\ CallsOf'
        /\ pc'[p] = "measure"
        /\ \A q \in Procs \ {p} : pc'[q] = pc[q] /\ loc'[q] = loc[q]
    BY <1>1, <1>2, <2>1, <2>2, Locally DEF Stops
  <2>4. FTypeOK'
    BY <1>1, <1>2, <2>1, <2>3 DEF FTypeOK
  <2>5. ASSUME Calm' PROVE (\A q \in Procs \ {p} : pc[q] = "idle") /\ EdgeFor(p)
    BY <1>1, <2>1, <2>5, StandsAlone DEF Calm
  <2>6. EdgeFor(p) => EdgeFor(p)'
    BY <1>1, <2>3 DEF EdgeFor
  <2> QED
    BY <2>3, <2>4, <2>5, <2>6, CallStep
<1> QED
  BY <1>3, <1>4

LEMMA ShowAgainStep == ASSUME FInv, NEW p \in Procs, ShowAgain(p) PROVE FInv'
PROOF
<1> DEFINE l == [loc[p] EXCEPT !.again = TRUE]
<1>1. /\ pc[p] = "show_again" /\ UNCHANGED <<program, pot, windex, rindex, log, shown, broken>>
      /\ loc' = [loc EXCEPT ![p] = l] /\ pc' = [pc EXCEPT ![p] = "show"]
  BY DEF ShowAgain, Goto, shared, history, FInv, FTypeOK
<1>2. FTypeOK /\ CallsOf /\ loc[p] \in Locals /\ program = "main.c"
  BY <1>1 DEF FInv, FTypeOK, CallsOf
<1>3. l \in Locals
  BY <1>2 DEF Locals
<1> HIDE DEF l
<1>4. /\ pc' \in [Procs -> Stops] /\ loc' \in [Procs -> Locals] /\ CallsOf'
      /\ pc'[p] = "show"
      /\ \A q \in Procs \ {p} : pc'[q] = pc[q] /\ loc'[q] = loc[q]
  BY <1>1, <1>2, <1>3, Locally DEF Stops
<1>5. FTypeOK'
  BY <1>1, <1>2, <1>4 DEF FTypeOK
<1>6. ASSUME Calm' PROVE (\A q \in Procs \ {p} : pc[q] = "idle") /\ EdgeFor(p)
  BY <1>1, <1>6, StandsAlone DEF Calm
<1>7. EdgeFor(p) => EdgeFor(p)'
  BY <1>1, <1>4 DEF EdgeFor
<1> QED
  BY <1>4, <1>5, <1>6, <1>7, CallStep

(* Where main.c finds a string it is before the write index, or empty.     *)
LEMMA StringBefore ==
  ASSUME FTypeOK, NEW p \in Procs, EdgeFor(p), program = "main.c",
         pc[p] \notin {"add", "store", "end"}
  PROVE  /\ Ends(rindex) = {} => rindex = Size /\ windex = Size
         /\ Ends(rindex) # {} /\ TextAt(rindex) # <<>>
              => rindex + (Len(TextAt(rindex)) + 1) <= windex
PROOF
<1>1. /\ windex \in Nat /\ rindex \in Nat /\ Size \in Nat \ {0}
      /\ windex <= Size /\ rindex <= windex
      /\ \A k \in Bytes : k >= windex => pot[k] = "NUL"
      /\ windex > 0 => pot[windex - 1] = "NUL"
  BY ConstAssumption DEF FTypeOK, EdgeFor
<1>2. ASSUME rindex < windex PROVE windex - 1 \in Ends(rindex)
  BY <1>1, <1>2 DEF Ends, Bytes
<1>3. ASSUME rindex = windex, windex < Size PROVE rindex \in Ends(rindex)
  BY <1>1, <1>3 DEF Ends, Bytes
<1>4. ASSUME Ends(rindex) # {}, TextAt(rindex) # <<>>
      PROVE  rindex + (Len(TextAt(rindex)) + 1) <= windex
  <2>1. /\ \A k \in Ends(rindex) : Min(Ends(rindex)) <= k
        /\ Len(TextAt(rindex)) = Min(Ends(rindex)) - rindex /\ TextAt(rindex) \in Seq(Chars)
        /\ Len(TextAt(rindex)) \in Nat /\ rindex + Len(TextAt(rindex)) < Size
    BY <1>1, <1>4, TextFacts
  <2>2. Len(TextAt(rindex)) # 0
    BY <1>4, <2>1, EmptySeq
  <2>3. PICK n \in Nat \ {0} : n = Len(TextAt(rindex)) /\ \A k \in Ends(rindex) : rindex + n <= k
    <3>1. Min(Ends(rindex)) = rindex + Len(TextAt(rindex))
      <4>1. Min(Ends(rindex)) \in Bytes
        BY <1>1, <1>4, TextFacts
      <4>2. Min(Ends(rindex)) \in Int
        BY <1>1, <4>1 DEF Bytes
      <4> QED
        BY <1>1, <2>1, <4>2
    <3> QED
      BY <2>1, <2>2, <3>1
  <2>4. rindex + n < Size
    BY <2>1, <2>3
  <2>5. rindex < windex
    BY <1>1, <1>3, <2>3, <2>4
  <2>6. rindex + n <= windex - 1
    BY <1>2, <2>3, <2>5
  <2> QED
    BY <1>1, <2>3, <2>6
<1> QED
  BY <1>1, <1>2, <1>3, <1>4

LEMMA MeasureStep == ASSUME FInv, NEW p \in Procs, Measure(p) PROVE FInv'
PROOF
<1>1. pc[p] = "measure" /\ UNCHANGED <<program, pot, windex, rindex, log>>
  BY DEF Measure, shared
<1>2. /\ FTypeOK /\ CallsOf /\ loc[p] \in Locals /\ rindex \in Nat
      /\ program = "main.c" /\ pot \in [Bytes -> Chars]
  BY <1>1 DEF FInv, FTypeOK, CallsOf
<1>3. CASE Ends(rindex) = {}
  <2>1. Oops(p) /\ shown' = shown
    BY <1>3 DEF Measure
  <2> QED
    BY <1>1, <1>2, <2>1, OopsStep
<1>4. CASE Ends(rindex) # {} /\ TextAt(rindex) = <<>>
  <2>1. Leave(p) /\ broken' = broken
    BY <1>4 DEF Measure
  <2>2. /\ pc' \in [Procs -> Stops] /\ loc' \in [Procs -> Locals] /\ CallsOf'
        /\ shown' \in Seq(Chars) /\ pc'[p] \in {"show_again", "idle"}
        /\ \A q \in Procs \ {p} : pc'[q] = pc[q] /\ loc'[q] = loc[q]
    BY <1>1, <1>2, <2>1, LeaveFacts
  <2>3. FTypeOK'
    BY <1>1, <1>2, <2>1, <2>2 DEF FTypeOK
  <2>4. ASSUME Calm' PROVE (\A q \in Procs \ {p} : pc[q] = "idle") /\ EdgeFor(p)
    BY <1>1, <2>1, <2>4, StandsAlone DEF Calm
  <2>5. EdgeFor(p) => EdgeFor(p)'
    BY <1>1, <2>2 DEF EdgeFor
  <2> QED
    BY <2>2, <2>3, <2>4, <2>5, CallStep
<1>5. CASE Ends(rindex) # {} /\ TextAt(rindex) # <<>>
  <2> DEFINE n == Len(TextAt(rindex)) + 1
             l == [loc[p] EXCEPT !.len = n]
  <2>1. /\ loc' = [loc EXCEPT ![p] = l] /\ pc' = [pc EXCEPT ![p] = "advance"]
        /\ UNCHANGED <<shown, broken>>
    BY <1>2, <1>5 DEF Measure, Goto, FTypeOK
  <2>2. l \in Locals /\ l.len = n
    <3>1. n \in Nat
      BY <1>2, <1>5, TextFacts
    <3> HIDE DEF n
    <3> QED
      BY <1>2, <3>1 DEF Locals
  <2> HIDE DEF l
  <2>3. /\ pc' \in [Procs -> Stops] /\ loc' \in [Procs -> Locals] /\ CallsOf'
        /\ pc'[p] = "advance" /\ loc'[p] = l
        /\ \A q \in Procs \ {p} : pc'[q] = pc[q] /\ loc'[q] = loc[q]
    BY <1>1, <1>2, <2>1, <2>2, Locally DEF Stops
  <2>4. FTypeOK'
    BY <1>1, <1>2, <2>1, <2>3 DEF FTypeOK
  <2>5. ASSUME Calm' PROVE (\A q \in Procs \ {p} : pc[q] = "idle") /\ EdgeFor(p)
    BY <1>1, <2>1, <2>5, StandsAlone DEF Calm
  <2>6. ASSUME EdgeFor(p) PROVE EdgeFor(p)'
    <3>1. rindex + n <= windex
      BY <1>1, <1>2, <1>5, <2>6, StringBefore
    <3> HIDE DEF n
    <3> QED
      BY <1>1, <2>2, <2>3, <2>6, <3>1 DEF EdgeFor
  <2> QED
    BY <2>3, <2>4, <2>5, <2>6, CallStep
<1> QED
  BY <1>3, <1>4, <1>5

LEMMA LoadNextStep == ASSUME FInv, NEW p \in Procs, LoadNext(p) PROVE FInv'
PROOF
<1> DEFINE l == [loc[p] EXCEPT !.at = rindex]
<1>1. /\ pc[p] = "advance" /\ UNCHANGED <<program, pot, windex, rindex, log, shown, broken>>
      /\ loc' = [loc EXCEPT ![p] = l] /\ pc' = [pc EXCEPT ![p] = "move"]
  BY DEF LoadNext, Goto, shared, history, FInv, FTypeOK
<1>2. FTypeOK /\ CallsOf /\ loc[p] \in Locals
  BY DEF FInv, FTypeOK
<1>3. l \in Locals /\ l.at = rindex /\ l.len = loc[p].len
  BY <1>2 DEF Locals, FTypeOK
<1> HIDE DEF l
<1>4. /\ pc' \in [Procs -> Stops] /\ loc' \in [Procs -> Locals] /\ CallsOf'
      /\ pc'[p] = "move" /\ loc'[p] = l
      /\ \A q \in Procs \ {p} : pc'[q] = pc[q] /\ loc'[q] = loc[q]
  BY <1>1, <1>2, <1>3, Locally DEF Stops
<1>5. FTypeOK'
  BY <1>1, <1>2, <1>4 DEF FTypeOK
<1>6. ASSUME Calm' PROVE (\A q \in Procs \ {p} : pc[q] = "idle") /\ EdgeFor(p)
  BY <1>1, <1>6, StandsAlone DEF Calm
<1>7. EdgeFor(p) => EdgeFor(p)'
  BY <1>1, <1>3, <1>4 DEF EdgeFor
<1> QED
  BY <1>4, <1>5, <1>6, <1>7, CallStep

LEMMA StoreNextStep == ASSUME FInv, NEW p \in Procs, StoreNext(p) PROVE FInv'
PROOF
<1>1. /\ pc[p] = "move" /\ UNCHANGED <<program, pot, windex, log, broken>>
      /\ rindex' = loc[p].at + loc[p].len /\ Leave(p)
  BY DEF StoreNext
<1>2. FTypeOK /\ CallsOf /\ loc[p].at \in Nat /\ loc[p].len \in Nat
  BY DEF FInv, FTypeOK, Locals
<1>3. /\ pc' \in [Procs -> Stops] /\ loc' \in [Procs -> Locals] /\ CallsOf'
      /\ shown' \in Seq(Chars) /\ pc'[p] \in {"show_again", "idle"}
      /\ \A q \in Procs \ {p} : pc'[q] = pc[q] /\ loc'[q] = loc[q]
  BY <1>1, <1>2, LeaveFacts
<1>4. FTypeOK'
  BY <1>1, <1>2, <1>3 DEF FTypeOK
<1>5. ASSUME Calm' PROVE (\A q \in Procs \ {p} : pc[q] = "idle") /\ EdgeFor(p)
  BY <1>1, <1>5, StandsAlone DEF Calm
<1>6. ASSUME EdgeFor(p) PROVE EdgeFor(p)'
  <2>1. program = "main.c" => rindex' <= windex
    BY <1>1, <1>2, <1>6 DEF EdgeFor
  <2> QED
    BY <1>1, <1>3, <1>6, <2>1 DEF EdgeFor
<1> QED
  BY <1>3, <1>4, <1>5, <1>6, CallStep

LEMMA FNextInv == FInv /\ [Next]_vars => FInv'
PROOF
<1> SUFFICES ASSUME FInv, [Next]_vars PROVE FInv'
  OBVIOUS
<1>1. CASE UNCHANGED vars
  <2>1. UNCHANGED <<program, pot, windex, rindex, pc, loc, log, shown, broken>>
    BY <1>1 DEF vars, shared, history
  <2>2. FTypeOK' /\ CallsOf' /\ OneCall'
    BY <2>1 DEF FInv, FTypeOK, CallsOf, OneCall, Calm
  <2>3. PageEdges'
    BY <2>1 DEF FInv, PageEdges, EdgeFor, Calm
  <2> QED
    BY <2>2, <2>3 DEF FInv
<1>2. ASSUME NEW p \in Procs,
             \/ BeginWrite(p) \/ CopyFromUser(p) \/ CopyFails(p)
             \/ LoadIndex(p) \/ StoreIndex(p) \/ Terminate(p)
             \/ BeginRead(p) \/ CopyToUser(p)
             \/ BeginShow(p) \/ Show(p) \/ ShowAgain(p) \/ Measure(p)
             \/ LoadNext(p) \/ StoreNext(p)
      PROVE  FInv'
  BY <1>2, BeginWriteStep, CopyFromUserStep, CopyFailsStep, LoadIndexStep, StoreIndexStep,
     TerminateStep, BeginReadStep, CopyToUserStep, BeginShowStep, ShowStep, ShowAgainStep,
     MeasureStep, LoadNextStep, StoreNextStep
<1> QED
  BY <1>1, <1>2 DEF Next, Done

(* FaultsAtTheEdge: alone, a call is ended by the copy into the page, by   *)
(* the NUL put before it, or by a text without an end.  fortune.c's read   *)
(* finds an end at every place it reads from.                              *)
LEMMA OopsMoves ==
  ASSUME FTypeOK, NEW p \in Procs, NEW q \in Procs, NEW h, pc' = [pc EXCEPT ![q] = h],
         pc[p] # "dead", pc'[p] = "dead"
  PROVE  p = q /\ h = "dead"
PROOF BY DEF FTypeOK

LEMMA FaultStep ==
  ASSUME FInv, Calm, [Next]_vars, NEW p \in Procs, pc[p] # "dead", pc'[p] = "dead"
  PROVE  pc[p] # "idle" /\ (CopyFromUser(p) \/ Terminate(p) \/ CopyToUser(p) \/ Show(p) \/ Measure(p))
PROOF
<1>0. FTypeOK
  BY DEF FInv
<1>1. pc' # pc
  OBVIOUS
<1>2. PICK q \in Procs :
             \/ BeginWrite(q) \/ CopyFromUser(q) \/ CopyFails(q)
             \/ LoadIndex(q) \/ StoreIndex(q) \/ Terminate(q)
             \/ BeginRead(q) \/ CopyToUser(q)
             \/ BeginShow(q) \/ Show(q) \/ ShowAgain(q) \/ Measure(q)
             \/ LoadNext(q) \/ StoreNext(q)
  BY <1>1 DEF Next, Done, vars
<1>3. ASSUME NEW h, Goto(q, h) PROVE p = q /\ h = "dead"
  BY <1>0, <1>3, OopsMoves DEF Goto
<1>4. ~BeginWrite(q) /\ ~BeginRead(q) /\ ~BeginShow(q)
  <2>1. ~Goto(q, "copy") /\ ~Goto(q, "take") /\ ~Goto(q, "show")
    BY <1>3
  <2>2. ~BeginWrite(q)
    <3>1. BeginWrite(q) => Goto(q, "copy") \/ UNCHANGED pc
      BY DEF BeginWrite
    <3> QED
      BY <1>1, <2>1, <3>1
  <2> QED
    BY <2>1, <2>2 DEF BeginRead, BeginShow
<1>5. ~LoadIndex(q) /\ ~StoreIndex(q) /\ ~LoadNext(q) /\ ~ShowAgain(q)
  BY <1>3 DEF LoadIndex, StoreIndex, LoadNext, ShowAgain
<1>6. ~Leave(q) /\ ~Return(q)
  <2>1. ~Goto(q, "idle") /\ ~Goto(q, "show_again")
    BY <1>3
  <2> QED
    BY <2>1, Zenon DEF Leave, Return
<1>7. ~StoreNext(q) /\ ~CopyFails(q)
  BY <1>6 DEF StoreNext, CopyFails
<1>8. ASSUME Oops(q) PROVE p = q
  BY <1>3, <1>8 DEF Oops
<1>9. CASE CopyFromUser(q)
  BY <1>9, <1>3, <1>8 DEF CopyFromUser
<1>10. CASE Terminate(q)
  BY <1>10, <1>6, <1>8 DEF Terminate
<1>11. CASE CopyToUser(q)
  <2>1. Oops(q) \/ Goto(q, "advance")
    BY <1>11 DEF CopyToUser
  <2> QED
    BY <2>1, <1>11, <1>3, <1>8 DEF CopyToUser
<1>12. CASE Show(q)
  BY <1>12, <1>3, <1>8 DEF Show
<1>13. CASE Measure(q)
  <2>1. Oops(q) \/ Leave(q) \/ Goto(q, "advance")
    BY <1>13 DEF Measure
  <2> QED
    BY <2>1, <1>13, <1>3, <1>6, <1>8 DEF Measure
<1> QED
  BY <1>2, <1>4, <1>5, <1>7, <1>9, <1>10, <1>11, <1>12, <1>13

LEMMA FaultAt ==
  ASSUME FInv, Calm, [Next]_vars, NEW p \in Procs, pc[p] # "dead", pc'[p] = "dead"
  PROVE  LET last == loc[p].at + Len(loc[p].data)
         IN  \/ program = "main.c" /\ pc[p] = "copy" /\ last > Size
             \/ program = "fortune.c" /\ pc[p] = "copy" /\ last = Size + 1
             \/ pc[p] = "end" /\ loc[p].data = <<>> /\ windex = 0
             \/ program = "main.c" /\ pc[p] \in {"show", "measure"} /\ rindex = Size /\ windex = Size
PROOF
<1>1. /\ FTypeOK /\ CallsOf /\ program \in {"fortune.c", "main.c"}
      /\ windex \in Nat /\ rindex \in Nat /\ Size \in Nat \ {0}
      /\ loc[p].at \in Nat /\ Len(loc[p].data) \in Nat
      /\ loc[p].data = <<>> <=> Len(loc[p].data) = 0
  BY LineFacts, ConstAssumption DEF FInv, FTypeOK, Locals
<1>2. /\ pc[p] # "idle"
      /\ CopyFromUser(p) \/ Terminate(p) \/ CopyToUser(p) \/ Show(p) \/ Measure(p)
  BY FaultStep
<1>3. EdgeFor(p)
  BY <1>2, StandsAlone
<1>4. ASSUME NEW h \in Stops, Goto(p, h) PROVE h = "dead"
  BY <1>1, <1>4, OopsMoves DEF Goto
<1>5. CASE CopyFromUser(p)
  <2>1. pc[p] = "copy" /\ loc[p].at + Len(loc[p].data) > Size
    BY <1>4, <1>5 DEF CopyFromUser, Stops
  <2>2. loc[p].at = windex /\ (program = "fortune.c" => windex + Len(loc[p].data) <= Size + 1)
    BY <1>3, <2>1 DEF EdgeFor
  <2>3. program = "fortune.c" => loc[p].at + Len(loc[p].data) = Size + 1
    BY <1>1, <2>1, <2>2
  <2> QED
    BY <1>1, <2>1, <2>3
<1>6. CASE Terminate(p)
  <2>1. pc[p] = "end" /\ loc[p].at - 1 \notin Bytes
    BY <1>4, <1>6 DEF Terminate, Return, Stops
  <2>2. loc[p].at = windex /\ windex <= Size /\ Len(loc[p].data) <= windex
    BY <1>3, <2>1 DEF EdgeFor
  <2>3. windex = 0
    BY <1>1, <2>1, <2>2 DEF Bytes
  <2>4. loc[p].data = <<>>
    BY <1>1, <2>2, <2>3
  <2> QED
    BY <2>1, <2>3, <2>4
<1>7. CASE CopyToUser(p)
  <2>1. pc[p] = "take" /\ Ends(rindex) = {}
    <3>1. ~Goto(p, "advance")
      BY <1>4 DEF Stops
    <3> QED
      BY <1>7, <3>1, Zenon DEF CopyToUser
  <2>2. /\ windex <= Size /\ (\A k \in Bytes : k >= windex => pot[k] = "NUL")
        /\ rindex < windex \/ (windex = 0 /\ rindex = 0)
        /\ windex > 0 => pot[windex - 1] = "NUL"
    BY <1>1, <1>3, <2>1 DEF EdgeFor
  <2>3. CASE rindex < windex
    <3>1. windex - 1 \in Bytes /\ windex - 1 >= rindex
      BY <1>1, <2>2, <2>3 DEF Bytes
    <3> QED
      BY <1>1, <2>1, <2>2, <2>3, <3>1 DEF Ends
  <2>4. CASE windex = 0 /\ rindex = 0
    <3>1. 0 \in Bytes
      BY <1>1 DEF Bytes
    <3> QED
      BY <2>1, <2>2, <2>4, <3>1 DEF Ends
  <2> QED
    BY <2>2, <2>3, <2>4
<1>8. CASE Show(p)
  <2>1. pc[p] = "show" /\ Ends(rindex) = {}
    BY <1>4, <1>8 DEF Show, Stops
  <2> QED
    BY <1>1, <1>3, <2>1, StringBefore DEF CallsOf
<1>9. CASE Measure(p)
  <2>1. pc[p] = "measure" /\ Ends(rindex) = {}
    <3>1. ~Goto(p, "idle") /\ ~Goto(p, "show_again") /\ ~Goto(p, "advance")
      BY <1>4 DEF Stops
    <3>2. ~Leave(p)
      BY <3>1, Zenon DEF Leave, Return
    <3> QED
      BY <1>9, <3>1, <3>2 DEF Measure
  <2> QED
    BY <1>1, <1>3, <2>1, StringBefore DEF CallsOf
<1> QED
  BY <1>2, <1>5, <1>6, <1>7, <1>8, <1>9

(* Alone, a call leaves the page at its edges only.                        *)
THEOREM FaultsOnlyAtTheEdge == Spec => FaultsAtTheEdge
PROOF
<1>1. FInv /\ [Next]_vars =>
        [\A p \in Procs :
           pc[p] # "dead" /\ pc'[p] = "dead" /\ broken \cap {"overlap", "copy", "outside"} = {} =>
             LET last == loc[p].at + Len(loc[p].data)
             IN  \/ program = "main.c" /\ pc[p] = "copy" /\ last > Size
                 \/ program = "fortune.c" /\ pc[p] = "copy" /\ last = Size + 1
                 \/ pc[p] = "end" /\ loc[p].data = <<>> /\ windex = 0
                 \/ program = "main.c" /\ pc[p] \in {"show", "measure"}
                      /\ rindex = Size /\ windex = Size]_vars
  BY FaultAt DEF Calm
<1> QED
  BY <1>1, FInitInv, FNextInv, PTL DEF Spec, FaultsAtTheEdge

(* ---- PotHoldsLog ---- *)

(* The bytes of the first k messages of s, and where the first ones end.   *)
Filled(s, k) == UNION {{j} \X (0..Len(s[j])) : j \in 1..k}
SizeOf(s, k) == Cardinality(Filled(s, k))
Starts(s)    == {SizeOf(s, k) : k \in 0..Len(s)}

(* The page has the messages of s from its first byte on.                  *)
Held(s, page) ==
  \A j \in 1..Len(s) : /\ \A i \in 1..Len(s[j]) : page[SizeOf(s, j - 1) + i - 1] = s[j][i]
                       /\ page[SizeOf(s, j) - 1] = "NUL"

(* What a reader is about to leave with: fortune.c's copy_to_user failed   *)
(* and it moves by nothing, or it has the message at rindex.               *)
TakesMessage(l) ==
  \E k \in 1..Len(log) : /\ rindex = SizeOf(log, k - 1)
                         /\ l.len = Len(log[k]) + 1 /\ l.text = log[k]
                         /\ program = "main.c" => log[k] # <<>>
TakesNothing(l) == program = "fortune.c" /\ l.len = 0 /\ l.text = shown

(* The page and the log while p alone may be in a call.                    *)
LayoutFor(p) ==
  /\ SizeOf(log, Len(log)) + (IF pc[p] = "end" THEN Len(loc[p].data) ELSE 0) = windex
  /\ pc[p] \in {"add", "store", "end"} =>
       \A i \in 1..Len(loc[p].data) : pot[SizeOf(log, Len(log)) + i - 1] = loc[p].data[i]
  /\ Held(log, pot)
  /\ rindex \in Starts(log)
  /\ pc[p] = "take" => rindex < windex
  /\ loc[p].again => program = "main.c" /\ pc[p] \in {"show", "measure", "advance", "move"}
  /\ pc[p] = "measure" => Ends(rindex) # {} /\ loc[p].text = TextAt(rindex)
  /\ pc[p] \in {"advance", "move"} => TakesNothing(loc[p]) \/ TakesMessage(loc[p])

Layout == broken = {} =>
  \A p \in Procs : (\A q \in Procs \ {p} : pc[q] = "idle") => LayoutFor(p)

LEMMA SizeFacts ==
  ASSUME NEW s \in Seq(Messages)
  PROVE  /\ Len(s) \in Nat /\ SizeOf(s, 0) = 0
         /\ \A k \in 0..Len(s) : SizeOf(s, k) \in Nat
         /\ \A k \in 1..Len(s) : Len(s[k]) \in Nat /\ SizeOf(s, k) = SizeOf(s, k - 1) + Len(s[k]) + 1
         /\ \A j, k \in 0..Len(s) : j <= k => SizeOf(s, j) <= SizeOf(s, k)
PROOF
<1>1. Len(s) \in Nat
  BY LenProperties
<1>2. \A j \in 1..Len(s) : Len(s[j]) \in Nat
  <2> SUFFICES ASSUME NEW j \in 1..Len(s) PROVE Len(s[j]) \in Nat
    OBVIOUS
  <2>1. s[j] \in Messages
    BY ElementOfSeq
  <2> QED
    BY <2>1, MessageFacts, LenProperties
<1> DEFINE Part(j) == {j} \X (0..Len(s[j]))
<1>3. ASSUME NEW j \in 1..Len(s)
      PROVE  IsFiniteSet(Part(j)) /\ Cardinality(Part(j)) = Len(s[j]) + 1
  <2>1. PICK n \in Nat : n = Len(s[j])
    BY <1>2
  <2>2. IsFiniteSet(0..n) /\ Cardinality(0..n) = n + 1
    BY FS_Interval
  <2>3. IsFiniteSet({j}) /\ Cardinality({j}) = 1
    BY FS_Singleton
  <2>4. IsFiniteSet({j} \X (0..n)) /\ Cardinality({j} \X (0..n)) = 1 * (n + 1)
    BY <2>2, <2>3, FS_Product
  <2> QED
    BY <2>1, <2>4
<1>4. ASSUME NEW k \in 0..Len(s) PROVE IsFiniteSet(Filled(s, k)) /\ SizeOf(s, k) \in Nat
  <2> DEFINE T == {Part(j) : j \in 1..k}
  <2>1. IsFiniteSet(1..k) /\ 1..k \subseteq 1..Len(s)
    BY <1>1, FS_Interval
  <2>2. [j \in 1..k |-> Part(j)] \in Surjection(1..k, T)
    BY DEF Surjection
  <2>3. IsFiniteSet(T)
    <3> HIDE DEF T, Part
    <3> QED
      BY <2>1, <2>2, FS_Surjection
  <2>4. \A t \in T : IsFiniteSet(t)
    <3> HIDE DEF Part
    <3> QED
      BY <1>3, <2>1
  <2>5. IsFiniteSet(UNION T)
    <3> HIDE DEF T
    <3> QED
      BY <2>3, <2>4, FS_UNION
  <2> QED
    BY <2>5, FS_CardinalityType DEF Filled, SizeOf
<1>5. SizeOf(s, 0) = 0
  <2>1. Filled(s, 0) = {}
    BY DEF Filled
  <2> QED
    BY <2>1, FS_EmptySet DEF SizeOf
<1>6. ASSUME NEW k \in 1..Len(s) PROVE SizeOf(s, k) = SizeOf(s, k - 1) + Len(s[k]) + 1
  <2>1. PICK i \in 0..Len(s) : i = k - 1
    BY <1>1
  <2>2. 1..k = (1..i) \cup {k} /\ k \notin 1..i
    BY <1>1, <2>1
  <2>3. Filled(s, k) = Filled(s, i) \cup Part(k)
    BY <2>2 DEF Filled
  <2>4. Filled(s, i) \cap Part(k) = {}
    BY <2>2 DEF Filled
  <2> HIDE DEF Part
  <2>5. IsFiniteSet(Filled(s, i)) /\ IsFiniteSet(Part(k)) /\ Cardinality(Part(k)) = Len(s[k]) + 1
    BY <1>3, <1>4
  <2>6. SizeOf(s, k) = SizeOf(s, i) + Cardinality(Part(k)) - Cardinality({})
    BY <2>3, <2>4, <2>5, FS_Union DEF SizeOf
  <2>7. Cardinality({}) = 0 /\ SizeOf(s, i) \in Nat
    BY <1>4, FS_EmptySet
  <2> QED
    BY <1>2, <2>1, <2>5, <2>6, <2>7
<1>7. ASSUME NEW j \in 0..Len(s), NEW k \in 0..Len(s), j <= k
      PROVE  SizeOf(s, j) <= SizeOf(s, k)
  <2>1. 1..j \subseteq 1..k
    BY <1>1, <1>7
  <2>2. Filled(s, j) \in SUBSET Filled(s, k)
    BY <2>1 DEF Filled
  <2> QED
    BY <1>4, <2>2, FS_Subset DEF SizeOf
<1> QED
  BY <1>1, <1>2, <1>4, <1>5, <1>6, <1>7

LEMMA SizeAppend ==
  ASSUME NEW s \in Seq(Messages), NEW m \in Messages
  PROVE  /\ Append(s, m) \in Seq(Messages) /\ Len(Append(s, m)) = Len(s) + 1
         /\ \A j \in 1..Len(s) : Append(s, m)[j] = s[j]
         /\ Append(s, m)[Len(s) + 1] = m
         /\ \A k \in 0..Len(s) : SizeOf(Append(s, m), k) = SizeOf(s, k)
         /\ SizeOf(Append(s, m), Len(s) + 1) = SizeOf(s, Len(s)) + Len(m) + 1
PROOF
<1>1. PICK t : t = Append(s, m)
  OBVIOUS
<1>2. /\ t \in Seq(Messages) /\ Len(t) = Len(s) + 1 /\ Len(s) \in Nat
      /\ \A j \in 1..Len(s) : t[j] = s[j]
      /\ t[Len(s) + 1] = m
  BY <1>1, AppendProperties, LenProperties
<1>3. ASSUME NEW k \in 0..Len(s) PROVE SizeOf(t, k) = SizeOf(s, k)
  <2>1. \A j \in 1..k : t[j] = s[j]
    BY <1>2
  <2> QED
    BY <2>1 DEF SizeOf, Filled
<1>4. SizeOf(t, Len(s) + 1) = SizeOf(s, Len(s)) + Len(m) + 1
  <2>1. PICK n \in 1..Len(t) : n = Len(s) + 1 /\ n - 1 = Len(s)
    <3>1. Len(s) + 1 \in 1..Len(t) /\ (Len(s) + 1) - 1 = Len(s)
      BY <1>2
    <3> QED
      BY <3>1
  <2>2. SizeOf(t, n) = SizeOf(t, n - 1) + Len(t[n]) + 1
    BY <1>2, SizeFacts
  <2>3. SizeOf(t, n - 1) = SizeOf(s, Len(s))
    BY <1>2, <1>3, <2>1
  <2> QED
    BY <1>2, <2>1, <2>2, <2>3
<1> QED
  BY <1>1, <1>2, <1>3, <1>4

(* Only what lies behind the messages is written to, or another is put     *)
(* behind them.                                                            *)
LEMMA HeldLater ==
  ASSUME NEW s \in Seq(Messages), NEW page, NEW page2, Held(s, page),
         \A b \in 0..SizeOf(s, Len(s)) - 1 : page2[b] = page[b]
  PROVE  Held(s, page2)
PROOF
<1> SUFFICES ASSUME NEW j \in 1..Len(s)
             PROVE  /\ \A i \in 1..Len(s[j]) : page2[SizeOf(s, j - 1) + i - 1] = s[j][i]
                    /\ page2[SizeOf(s, j) - 1] = "NUL"
  BY DEF Held
<1>1. PICK a \in Nat, n \in Nat, e \in Nat :
        /\ a = SizeOf(s, j - 1) /\ n = Len(s[j]) /\ e = SizeOf(s, Len(s))
        /\ SizeOf(s, j) = a + n + 1 /\ a + n + 1 <= e
  <2>1. j - 1 \in 0..Len(s) /\ j \in 0..Len(s) /\ Len(s) \in 0..Len(s) /\ j <= Len(s)
    BY SizeFacts
  <2> QED
    BY <2>1, SizeFacts
<1>2. /\ \A i \in 1..n : page[a + i - 1] = s[j][i]
      /\ page[(a + n + 1) - 1] = "NUL"
  BY <1>1 DEF Held
<1>3. \A i \in 1..n : a + i - 1 \in 0..e - 1
  BY <1>1
<1>4. (a + n + 1) - 1 \in 0..e - 1
  BY <1>1
<1>5. \A b \in 0..e - 1 : page2[b] = page[b]
  BY <1>1
<1>6. /\ \A i \in 1..n : page2[a + i - 1] = s[j][i]
      /\ page2[(a + n + 1) - 1] = "NUL"
  BY <1>2, <1>3, <1>4, <1>5
<1> QED
  BY <1>1, <1>6

LEMMA HeldAppend ==
  ASSUME NEW s \in Seq(Messages), NEW m \in Messages, NEW page, Held(s, page),
         \A i \in 1..Len(m) : page[SizeOf(s, Len(s)) + i - 1] = m[i],
         page[SizeOf(s, Len(s)) + Len(m)] = "NUL"
  PROVE  Held(Append(s, m), page)
PROOF
<1>1. PICK t : t = Append(s, m)
  OBVIOUS
<1>2. /\ Len(t) = Len(s) + 1 /\ Len(s) \in Nat
      /\ \A j \in 1..Len(s) : t[j] = s[j]
      /\ t[Len(s) + 1] = m
      /\ \A k \in 0..Len(s) : SizeOf(t, k) = SizeOf(s, k)
      /\ SizeOf(t, Len(s) + 1) = SizeOf(s, Len(s)) + Len(m) + 1
  BY <1>1, SizeAppend, SizeFacts
<1> SUFFICES ASSUME NEW j \in 1..Len(t)
             PROVE  /\ \A i \in 1..Len(t[j]) : page[SizeOf(t, j - 1) + i - 1] = t[j][i]
                    /\ page[SizeOf(t, j) - 1] = "NUL"
  BY <1>1 DEF Held
<1>3. CASE j \in 1..Len(s)
  <2>1. j \in 0..Len(s) /\ j - 1 \in 0..Len(s)
    BY <1>2, <1>3
  <2>2. SizeOf(t, j) = SizeOf(s, j) /\ SizeOf(t, j - 1) = SizeOf(s, j - 1) /\ t[j] = s[j]
    BY <1>2, <1>3, <2>1
  <2> QED
    BY <1>3, <2>2 DEF Held
<1>4. CASE j = Len(s) + 1
  <2>1. PICK e \in Nat, n \in Nat : e = SizeOf(s, Len(s)) /\ n = Len(m)
    <3>1. Len(m) \in Nat
      BY MessageFacts, LenProperties
    <3>2. Len(s) \in 0..Len(s)
      BY <1>2
    <3> QED
      BY <3>1, <3>2, SizeFacts
  <2>2. j - 1 = Len(s) /\ Len(s) \in 0..Len(s)
    BY <1>2, <1>4
  <2>3. t[j] = m /\ SizeOf(t, j - 1) = e /\ SizeOf(t, j) = e + n + 1
    BY <1>2, <1>4, <2>1, <2>2
  <2>4. (e + n + 1) - 1 = e + n
    BY <2>1
  <2> QED
    BY <2>1, <2>3, <2>4
<1> QED
  BY <1>2, <1>3, <1>4

(* The string at the beginning of a message is the message.                *)
LEMMA TextIs ==
  ASSUME FTypeOK, Held(log, pot), SizeOf(log, Len(log)) <= Size, NEW k \in 1..Len(log)
  PROVE  /\ Ends(SizeOf(log, k - 1)) # {}
         /\ TextAt(SizeOf(log, k - 1)) = log[k]
PROOF
<1>1. log \in Seq(Messages) /\ log[k] \in Messages
  BY ElementOfSeq DEF FTypeOK
<1>2. PICK a \in Nat, n \in Nat :
        /\ a = SizeOf(log, k - 1) /\ n = Len(log[k]) /\ SizeOf(log, k) = a + n + 1 /\ a + n < Size
  <2>1. k - 1 \in 0..Len(log) /\ k \in 0..Len(log) /\ Len(log) \in 0..Len(log) /\ k <= Len(log)
    BY <1>1, SizeFacts
  <2>2. PICK e \in Nat : e = SizeOf(log, Len(log))
    BY <1>1, <2>1, SizeFacts
  <2>3. PICK b \in Nat : b = SizeOf(log, k - 1)
    BY <1>1, <2>1, SizeFacts
  <2>4. PICK n \in Nat : n = Len(log[k])
    BY <1>1, SizeFacts
  <2>5. SizeOf(log, k) = b + n + 1 /\ SizeOf(log, k) <= e /\ e <= Size
    BY <1>1, <2>1, <2>2, <2>3, <2>4, SizeFacts
  <2>6. b + n < Size
    BY <2>5, ConstAssumption
  <2> QED
    BY <2>3, <2>4, <2>5, <2>6
<1>3. /\ \A i \in 1..n : pot[a + i - 1] = log[k][i]
      /\ pot[a + n] = "NUL"
  <2>1. (a + n + 1) - 1 = a + n
    BY <1>2
  <2> QED
    BY <1>2, <2>1 DEF Held
<1>4. log[k] \in Seq(Chars) /\ \A i \in 1..n : log[k][i] # "NUL"
  BY <1>1, <1>2, MessageFacts
<1>5. a + n \in Ends(a)
  BY <1>2, <1>3, ConstAssumption DEF Ends, Bytes
<1>6. ASSUME NEW e \in Ends(a) PROVE e >= a + n
  <2>1. e \in Nat /\ e >= a /\ pot[e] = "NUL"
    BY ConstAssumption DEF Ends, Bytes
  <2> SUFFICES ASSUME e < a + n PROVE FALSE
    BY <1>2, <2>1
  <2>2. PICK i \in 1..n : e = a + i - 1
    <3>1. e - a + 1 \in 1..n /\ e = a + (e - a + 1) - 1
      BY <1>2, <2>1
    <3> QED
      BY <3>1
  <2> QED
    BY <1>3, <1>4, <2>1, <2>2
<1>7. /\ Min(Ends(a)) \in Ends(a) /\ \A e \in Ends(a) : Min(Ends(a)) <= e
      /\ TextAt(a) \in Seq(Chars) /\ Len(TextAt(a)) = Min(Ends(a)) - a
      /\ Min(Ends(a)) \in Bytes
  BY <1>2, <1>5, TextFacts
<1>8. Min(Ends(a)) = a + n
  <2>1. PICK b \in Nat : b = Min(Ends(a))
    BY <1>7, ConstAssumption DEF Bytes
  <2>2. b >= a + n /\ b <= a + n
    BY <1>5, <1>6, <1>7, <2>1
  <2> QED
    BY <1>2, <2>1, <2>2
<1>9. Len(TextAt(a)) = n
  BY <1>2, <1>7, <1>8
<1>10. ASSUME NEW i \in 1..n PROVE TextAt(a)[i] = log[k][i]
  <2>1. (a + n) - a = n
    BY <1>2
  <2>2. TextAt(a) = [b \in 1..n |-> pot[a + b - 1]]
    BY <1>8, <2>1 DEF TextAt
  <2> QED
    BY <1>3, <2>2
<1>11. TextAt(a) = log[k]
  BY <1>2, <1>4, <1>7, <1>9, <1>10, SeqEqual
<1> QED
  BY <1>2, <1>5, <1>11

LEMMA LInitInv == Init => Layout
PROOF
<1> SUFFICES ASSUME Init, NEW p \in Procs PROVE LayoutFor(p)
  BY DEF Layout
<1>1. /\ log = <<>> /\ Len(log) = 0 /\ log \in Seq(Messages) /\ pc[p] = "idle"
      /\ windex = 0 /\ rindex = 0 /\ loc[p].again = FALSE
  BY EmptySeq DEF Init, NoCall
<1>2. SizeOf(log, 0) = 0
  BY <1>1, SizeFacts
<1>3. Held(log, pot)
  BY <1>1 DEF Held
<1>4. rindex \in Starts(log)
  BY <1>1, <1>2 DEF Starts
<1> QED
  BY <1>1, <1>2, <1>3, <1>4 DEF LayoutFor

LEMMA LStandsAlone ==
  ASSUME FInv, Layout, broken = {}, NEW p \in Procs, pc[p] # "idle" \/ Overlap(p) = {}
  PROVE  /\ \A q \in Procs \ {p} : pc[q] = "idle"
         /\ EdgeFor(p) /\ LayoutFor(p)
PROOF
<1>1. Calm
  BY DEF Calm
<1>2. (\A q \in Procs \ {p} : pc[q] = "idle") /\ EdgeFor(p)
  BY <1>1, StandsAlone
<1> QED
  BY <1>2 DEF Layout

LEMMA LCallStep ==
  ASSUME CallsOf', NEW p \in Procs,
         broken' = {} => /\ \A q \in Procs \ {p} : pc'[q] = "idle"
                         /\ LayoutFor(p)'
  PROVE  Layout'
PROOF
<1> SUFFICES ASSUME broken' = {}, NEW r \in Procs, \A q \in Procs \ {r} : pc'[q] = "idle"
             PROVE  LayoutFor(r)'
  BY DEF Layout
<1>1. CASE r = p
  BY <1>1
<1>2. CASE r # p
  <2>1. pc'[r] = "idle" /\ pc'[p] = "idle"
    BY <1>2
  <2>2. loc'[r].again = FALSE
    BY <2>1 DEF CallsOf, NoCall
  <2> QED
    BY <2>1, <2>2 DEF LayoutFor
<1> QED
  BY <1>1, <1>2

StepOf(p) == \/ BeginWrite(p) \/ CopyFromUser(p) \/ CopyFails(p)
             \/ LoadIndex(p) \/ StoreIndex(p) \/ Terminate(p)
             \/ BeginRead(p) \/ CopyToUser(p)
             \/ BeginShow(p) \/ Show(p) \/ ShowAgain(p) \/ Measure(p)
             \/ LoadNext(p) \/ StoreNext(p)

(* The others stay where they are, and what is broken stays broken.        *)
LEMMA OnlyOneMoves ==
  ASSUME FTypeOK, NEW p \in Procs, StepOf(p)
  PROVE  /\ \A q \in Procs \ {p} : pc'[q] = pc[q] /\ loc'[q] = loc[q]
         /\ broken \subseteq broken'
         /\ program' = program
PROOF
<1> DEFINE Rest == \A q \in Procs \ {p} : pc'[q] = pc[q] /\ loc'[q] = loc[q]
<1>1. pc \in [Procs -> Stops] /\ loc \in [Procs -> Locals]
  BY DEF FTypeOK
<1>2. ASSUME NEW h, Goto(p, h) PROVE \A q \in Procs \ {p} : pc'[q] = pc[q]
  BY <1>1, <1>2 DEF Goto
<1>3. Return(p) => Rest
  BY <1>1 DEF Return, Goto
<1>4. Oops(p) => Rest /\ broken \subseteq broken'
  BY <1>1 DEF Oops, Goto, Break
<1>5. Leave(p) => Rest
  <2>1. Leave(p) => (Goto(p, "show_again") /\ UNCHANGED loc) \/ Return(p)
    BY DEF Leave
  <2> QED
    BY <2>1, <1>2, <1>3
<1>6. CASE BeginWrite(p)
  <2>1. PICK data : IF Fits(Len(data))
       THEN loc' = [loc EXCEPT ![p].data = data, ![p].at = windex] /\ Goto(p, "copy")
       ELSE UNCHANGED <<pc, loc>>
    BY <1>6 DEF BeginWrite
  <2>2. Rest
    BY <1>1, <2>1 DEF Goto
  <2> QED
    BY <1>6, <2>2 DEF BeginWrite, Break, shared
<1>7. CASE CopyFromUser(p)
  BY <1>2, <1>4, <1>7 DEF CopyFromUser
<1>8. CASE CopyFails(p) \/ Terminate(p)
  BY <1>3, <1>4, <1>8 DEF CopyFails, Terminate, Break
<1>9. CASE LoadIndex(p) \/ StoreIndex(p) \/ LoadNext(p) \/ ShowAgain(p)
  BY <1>1, <1>9 DEF LoadIndex, StoreIndex, LoadNext, ShowAgain, Goto, shared, history
<1>10. CASE BeginRead(p) \/ BeginShow(p)
  BY <1>1, <1>10 DEF BeginRead, BeginShow, Goto, Break, shared
<1>11. CASE CopyToUser(p)
  <2>1. program' = program
    BY <1>11 DEF CopyToUser, shared
  <2>2. CASE ~Oops(p)
    <3>1. Goto(p, "advance") /\ \E n, t : loc' = [loc EXCEPT ![p].len = n, ![p].text = t]
      BY <1>11, <2>2, Zenon DEF CopyToUser
    <3>2. Rest
      BY <1>1, <3>1 DEF Goto
    <3>3. \E why : Break(why)
      BY <1>11, <2>2, Zenon DEF CopyToUser
    <3> QED
      BY <2>1, <3>2, <3>3 DEF Break
  <2> QED
    BY <1>4, <2>1, <2>2
<1>12. CASE Show(p)
  BY <1>1, <1>4, <1>12 DEF Show, Goto, shared
<1>13. CASE Measure(p)
  <2>1. program' = program
    BY <1>13 DEF Measure, shared
  <2>2. \/ Oops(p)
        \/ Leave(p) /\ UNCHANGED broken
        \/ Goto(p, "advance") /\ UNCHANGED broken /\ \E n : loc' = [loc EXCEPT ![p].len = n]
    BY <1>13 DEF Measure
  <2> QED
    BY <1>1, <1>4, <1>5, <2>1, <2>2 DEF Goto
<1>14. CASE StoreNext(p)
  BY <1>5, <1>14 DEF StoreNext
<1> QED
  BY <1>6, <1>7, <1>8, <1>9, <1>10, <1>11, <1>12, <1>13, <1>14 DEF StepOf

LEMMA MovesAlone ==
  ASSUME FInv, Layout, NEW p \in Procs, StepOf(p), broken' = {}
  PROVE  /\ broken = {}
         /\ \A q \in Procs \ {p} : pc[q] = "idle" /\ pc'[q] = "idle"
         /\ \A q \in Procs \ {p} : loc[q] = NoCall /\ loc'[q] = NoCall
         /\ EdgeFor(p) /\ LayoutFor(p)
         /\ program' = program
PROOF
<1>1. FTypeOK /\ CallsOf
  BY DEF FInv
<1>2. /\ \A q \in Procs \ {p} : pc'[q] = pc[q] /\ loc'[q] = loc[q]
      /\ broken = {} /\ program' = program
  BY <1>1, OnlyOneMoves
<1>3. pc[p] # "idle" \/ Overlap(p) = {}
  <2>1. BeginWrite(p) \/ BeginShow(p) => broken' = broken \cup Overlap(p)
    BY DEF BeginWrite, BeginShow, Break
  <2>2. BeginRead(p) => \E why : broken' = broken \cup (Overlap(p) \cup why)
    BY DEF BeginRead, Break
  <2>3. pc[p] = "idle" => BeginWrite(p) \/ BeginShow(p) \/ BeginRead(p)
    BY DEF StepOf, CopyFromUser, CopyFails, LoadIndex, StoreIndex, Terminate, CopyToUser,
           Show, ShowAgain, Measure, LoadNext, StoreNext
  <2> QED
    BY <2>1, <2>2, <2>3
<1>4. (\A q \in Procs \ {p} : pc[q] = "idle") /\ EdgeFor(p) /\ LayoutFor(p)
  BY <1>2, <1>3, LStandsAlone
<1>5. \A q \in Procs \ {p} : loc[q] = NoCall
  BY <1>1, <1>4 DEF CallsOf
<1> QED
  BY <1>2, <1>4, <1>5

(* Steps that leave page, log and indexes alone and that end the call, or  *)
(* begin one, or begin it again.                                           *)
LEMMA LayoutKept ==
  ASSUME NEW p \in Procs, LayoutFor(p), pc[p] # "end",
         UNCHANGED <<program, pot, windex, log>>, rindex' \in Starts(log),
         pc'[p] \in {"idle", "copy", "show", "show_again"},
         loc'[p].again => program = "main.c" /\ pc'[p] = "show"
  PROVE  LayoutFor(p)'
PROOF BY DEF LayoutFor

LEMMA LBeginWrite ==
  ASSUME FInv, Layout, NEW p \in Procs, BeginWrite(p), broken' = {} PROVE LayoutFor(p)'
PROOF
<1>1. LayoutFor(p)
  BY MovesAlone DEF StepOf
<1>2. /\ pc[p] = "idle" /\ UNCHANGED <<program, pot, windex, rindex, log>>
      /\ pc \in [Procs -> Stops] /\ loc \in [Procs -> Locals]
      /\ ~loc[p].again
  BY DEF BeginWrite, shared, FInv, FTypeOK, CallsOf, NoCall
<1>3. pc'[p] \in {"idle", "copy"} /\ ~loc'[p].again
  <2>1. PICK data : IF Fits(Len(data))
       THEN loc' = [loc EXCEPT ![p].data = data, ![p].at = windex] /\ Goto(p, "copy")
       ELSE UNCHANGED <<pc, loc>>
    BY DEF BeginWrite
  <2> QED
    BY <1>2, <2>1 DEF Goto, Locals
<1>4. rindex' \in Starts(log)
  BY <1>1, <1>2 DEF LayoutFor
<1> QED
  BY <1>1, <1>2, <1>3, <1>4, LayoutKept

LEMMA LBeginShow ==
  ASSUME FInv, Layout, NEW p \in Procs, BeginShow(p), broken' = {} PROVE LayoutFor(p)'
PROOF
<1>1. LayoutFor(p)
  BY MovesAlone DEF StepOf
<1>2. /\ pc[p] = "idle" /\ UNCHANGED <<program, pot, windex, rindex, log>>
      /\ pc' = [pc EXCEPT ![p] = "show"] /\ loc' = [loc EXCEPT ![p].again = FALSE]
      /\ pc \in [Procs -> Stops] /\ loc \in [Procs -> Locals]
  BY DEF BeginShow, Goto, shared, FInv, FTypeOK
<1>3. pc'[p] = "show" /\ loc[p] \in Locals
  BY <1>2
<1>4. loc'[p].again = FALSE
  BY <1>2, <1>3 DEF Locals
<1>5. rindex' \in Starts(log)
  BY <1>1, <1>2 DEF LayoutFor
<1> QED
  BY <1>1, <1>2, <1>3, <1>4, <1>5, LayoutKept

LEMMA LShowAgain ==
  ASSUME FInv, Layout, NEW p \in Procs, ShowAgain(p), broken' = {} PROVE LayoutFor(p)'
PROOF
<1>1. LayoutFor(p)
  BY MovesAlone DEF StepOf
<1>2. /\ pc[p] = "show_again" /\ UNCHANGED <<program, pot, windex, rindex, log>>
      /\ pc' = [pc EXCEPT ![p] = "show"]
      /\ pc \in [Procs -> Stops] /\ program = "main.c"
  BY DEF ShowAgain, Goto, shared, history, FInv, FTypeOK, CallsOf
<1>3. pc'[p] = "show"
  BY <1>2
<1>4. rindex' \in Starts(log)
  BY <1>1, <1>2 DEF LayoutFor
<1> QED
  BY <1>1, <1>2, <1>3, <1>4, LayoutKept

LEMMA LCopyFromUser ==
  ASSUME FInv, Layout, NEW p \in Procs, CopyFromUser(p), broken' = {} PROVE LayoutFor(p)'
PROOF
<1>1. LayoutFor(p) /\ EdgeFor(p)
  BY MovesAlone DEF StepOf
<1>2. /\ FTypeOK /\ log \in Seq(Messages) /\ pc \in [Procs -> Stops]
      /\ loc[p].at \in Nat /\ loc[p].data \in Seq(Chars)
      /\ loc[p].data = <<>> <=> Len(loc[p].data) = 0
      /\ Size \in Nat
  BY LineFacts, ConstAssumption DEF FInv, FTypeOK, Locals
<1>3. PICK n \in Nat, e \in Nat : n = Len(loc[p].data) /\ e = SizeOf(log, Len(log))
  <2>1. Len(log) \in 0..Len(log)
    BY <1>2, SizeFacts
  <2> QED
    BY <1>2, <2>1, LenProperties, SizeFacts
<1>4. /\ pc[p] = "copy" /\ UNCHANGED <<program, windex, rindex, log>>
      /\ pot' = Put(loc[p].at, loc[p].data) /\ ~Oops(p)
  BY DEF CopyFromUser, Oops, Break
<1>5. /\ pc' = [pc EXCEPT ![p] = "add"] /\ UNCHANGED loc
      /\ loc[p].data = <<>> \/ loc[p].at + n <= Size
  <2>1. /\ ~(loc[p].data # <<>> /\ loc[p].at + Len(loc[p].data) > Size)
        /\ Goto(p, "add") /\ UNCHANGED loc
    BY <1>4, Zenon DEF CopyFromUser
  <2> QED
    BY <1>2, <1>3, <2>1 DEF Goto
<1>6. pc'[p] = "add"
  BY <1>2, <1>5
<1>7. windex = e /\ loc[p].at = e /\ e <= Size
  BY <1>1, <1>3, <1>4 DEF LayoutFor, EdgeFor
<1>8. e + n <= Size
  BY <1>2, <1>3, <1>5, <1>7
<1>9. /\ \A k \in Bytes : ~(k >= e /\ k < e + n) => pot'[k] = pot[k]
      /\ \A i \in 1..n : e + i - 1 \in Bytes => pot'[e + i - 1] = loc[p].data[i]
  <2> DEFINE at   == loc[p].at
             data == loc[p].data
  <2>1. at \in Nat /\ data \in Seq(Chars) /\ at = e /\ Len(data) = n /\ pot' = Put(at, data)
    BY <1>2, <1>3, <1>4, <1>7
  <2> HIDE DEF at, data
  <2>2. /\ \A k \in Bytes : ~(k >= at /\ k < at + Len(data)) => Put(at, data)[k] = pot[k]
        /\ \A i \in 1..Len(data) : at + i - 1 \in Bytes => Put(at, data)[at + i - 1] = data[i]
    BY <1>2, <2>1, PutFacts
  <2>3. /\ \A k \in Bytes : ~(k >= e /\ k < e + n) => pot'[k] = pot[k]
        /\ \A i \in 1..n : e + i - 1 \in Bytes => pot'[e + i - 1] = data[i]
    BY <2>1, <2>2
  <2> QED
    BY <2>3 DEF data
<1>10. \A i \in 1..n : pot'[e + i - 1] = loc[p].data[i]
  <2>1. \A i \in 1..n : e + i - 1 \in Bytes
    BY <1>2, <1>8 DEF Bytes
  <2> QED
    BY <1>9, <2>1
<1>11. Held(log, pot')
  <2>1. \A b \in 0..e - 1 : pot'[b] = pot[b]
    <3>1. \A b \in 0..e - 1 : b \in Bytes /\ ~(b >= e)
      BY <1>2, <1>7 DEF Bytes
    <3> QED
      BY <1>9, <3>1
  <2>2. Held(log, pot)
    BY <1>1 DEF LayoutFor
  <2> QED
    BY <1>2, <1>3, <2>1, <2>2, HeldLater
<1>12. rindex' \in Starts(log') /\ Held(log', pot')
  BY <1>1, <1>4, <1>11 DEF LayoutFor
<1>13. SizeOf(log', Len(log')) + 0 = windex'
  BY <1>3, <1>4, <1>7
<1>14. \A i \in 1..Len(loc'[p].data) : pot'[SizeOf(log', Len(log')) + i - 1] = loc'[p].data[i]
  BY <1>3, <1>4, <1>5, <1>10
<1>15. ~loc'[p].again
  BY <1>1, <1>4, <1>5 DEF LayoutFor
<1> QED
  BY <1>6, <1>12, <1>13, <1>14, <1>15 DEF LayoutFor

LEMMA LLoadIndex ==
  ASSUME FInv, Layout, NEW p \in Procs, LoadIndex(p), broken' = {} PROVE LayoutFor(p)'
PROOF
<1>1. LayoutFor(p)
  BY MovesAlone DEF StepOf
<1>2. /\ pc[p] = "add" /\ UNCHANGED <<program, pot, windex, rindex, log>>
      /\ pc' = [pc EXCEPT ![p] = "store"] /\ loc' = [loc EXCEPT ![p].at = windex]
      /\ pc \in [Procs -> Stops] /\ loc \in [Procs -> Locals]
  BY DEF LoadIndex, Goto, shared, history, FInv, FTypeOK
<1>3. pc'[p] = "store" /\ loc'[p].data = loc[p].data /\ loc'[p].again = loc[p].again
  BY <1>2 DEF Locals
<1> QED
  BY <1>1, <1>2, <1>3 DEF LayoutFor

LEMMA LStoreIndex ==
  ASSUME FInv, Layout, NEW p \in Procs, StoreIndex(p), broken' = {} PROVE LayoutFor(p)'
PROOF
<1>1. LayoutFor(p) /\ EdgeFor(p)
  BY MovesAlone DEF StepOf
<1>2. /\ pc[p] = "store" /\ UNCHANGED <<program, pot, rindex, log>>
      /\ windex' = loc[p].at + Len(loc[p].data)
      /\ pc' = [pc EXCEPT ![p] = "end"] /\ loc' = [loc EXCEPT ![p].at = windex']
      /\ pc \in [Procs -> Stops] /\ loc \in [Procs -> Locals]
  BY DEF StoreIndex, Goto, history, FInv, FTypeOK
<1>3. pc'[p] = "end" /\ loc'[p].data = loc[p].data /\ loc'[p].again = loc[p].again
  BY <1>2 DEF Locals
<1>4. loc[p].at = windex /\ windex \in Nat /\ SizeOf(log, Len(log)) + 0 = windex
  BY <1>1, <1>2 DEF EdgeFor, LayoutFor, FInv, FTypeOK
<1>5. SizeOf(log, Len(log)) = windex
  <2>1. log \in Seq(Messages) /\ Len(log) \in 0..Len(log)
    BY LenProperties DEF FInv, FTypeOK
  <2>2. SizeOf(log, Len(log)) \in Nat
    BY <2>1, SizeFacts
  <2> QED
    BY <1>4, <2>2
<1>6. windex' = SizeOf(log, Len(log)) + Len(loc'[p].data)
  BY <1>2, <1>3, <1>4, <1>5
<1> QED
  BY <1>1, <1>2, <1>3, <1>6 DEF LayoutFor

LEMMA LBeginRead ==
  ASSUME FInv, Layout, NEW p \in Procs, BeginRead(p), broken' = {} PROVE LayoutFor(p)'
PROOF
<1>1. LayoutFor(p)
  BY MovesAlone DEF StepOf
<1>2. PICK n \in ReadLens :
        /\ pc[p] = "idle" /\ UNCHANGED <<program, pot, windex, log>>
        /\ rindex' = (IF rindex >= windex THEN 0 ELSE rindex)
        /\ pc' = [pc EXCEPT ![p] = "take"] /\ loc' = [loc EXCEPT ![p].len = n]
        /\ pc \in [Procs -> Stops] /\ loc \in [Procs -> Locals]
        /\ broken' = broken \cup (Overlap(p) \cup IF windex = 0 THEN {"empty"} ELSE {})
  BY DEF BeginRead, AllRead, Break, Goto, FInv, FTypeOK
<1>3. pc'[p] = "take" /\ loc'[p].again = loc[p].again /\ loc[p].again = FALSE
  BY <1>2 DEF Locals, FInv, CallsOf, NoCall
<1>4. windex # 0 /\ windex \in Nat /\ rindex \in Nat
  BY <1>2 DEF FInv, FTypeOK
<1>5. rindex' < windex'
  BY <1>2, <1>4
<1>6. rindex' \in Starts(log)
  <2>1. log \in Seq(Messages) /\ 0 \in 0..Len(log)
    BY LenProperties DEF FInv, FTypeOK
  <2>2. 0 \in Starts(log)
    BY <2>1, SizeFacts DEF Starts
  <2> QED
    BY <1>1, <1>2, <2>2 DEF LayoutFor
<1> QED
  BY <1>1, <1>2, <1>3, <1>5, <1>6 DEF LayoutFor

LEMMA LTerminate ==
  ASSUME FInv, Layout, NEW p \in Procs, Terminate(p), broken' = {} PROVE LayoutFor(p)'
PROOF
<1>1. LayoutFor(p) /\ EdgeFor(p) /\ broken = {}
  BY MovesAlone DEF StepOf
<1>2. /\ FTypeOK /\ log \in Seq(Messages) /\ pc \in [Procs -> Stops] /\ loc \in [Procs -> Locals]
      /\ loc[p].data \in Lines
      /\ loc[p].data = <<>> <=> Len(loc[p].data) = 0
  BY LineFacts DEF FInv, FTypeOK, Locals
<1>3. PICK n \in Nat, e \in Nat : n = Len(loc[p].data) /\ e = SizeOf(log, Len(log))
  <2>1. Len(log) \in 0..Len(log)
    BY <1>2, SizeFacts
  <2> QED
    BY <1>2, <2>1, LineFacts, SizeFacts
<1>4. /\ pc[p] = "end" /\ UNCHANGED <<program, windex, rindex>>
      /\ loc[p].at - 1 \in Bytes
      /\ pot' = [k \in Bytes |-> IF k = loc[p].at - 1 THEN "NUL" ELSE pot[k]]
      /\ Return(p)
      /\ log' = IF loc[p].data = <<>> THEN log ELSE Append(log, Front(loc[p].data))
  <2>1. ~Oops(p)
    BY DEF Oops, Break
  <2> QED
    BY <1>1, <2>1 DEF Terminate, Record, LastByte
<1>5. loc[p].at = windex /\ windex = e + n /\ Held(log, pot)
  BY <1>1, <1>3, <1>4 DEF LayoutFor, EdgeFor
<1>6. \A b \in Bytes : pot'[b] = IF b = e + n - 1 THEN "NUL" ELSE pot[b]
  BY <1>4, <1>5
<1>7. e + n - 1 \in Bytes /\ 0..e + n - 1 \subseteq Bytes
  <2>1. e + n - 1 \in Bytes
    BY <1>4, <1>5
  <2> QED
    BY <2>1, ConstAssumption DEF Bytes
<1>8. pc'[p] = "idle" /\ ~loc'[p].again
  BY <1>2, <1>4 DEF Return, Goto, NoCall
<1>9. \A b \in 0..e - 1 : pot'[b] = pot[b]
  <2>1. CASE n = 0
    <3>1. pot[e + n - 1] = "NUL"
      <4>1. windex > 0 /\ loc[p].data = <<>>
        BY <1>2, <1>3, <1>4, <1>5, <2>1 DEF Bytes
      <4>2. pot[windex - 1] = "NUL"
        BY <1>1, <4>1 DEF EdgeFor
      <4> QED
        BY <1>5, <4>2
    <3>2. \A b \in 0..e - 1 : b \in Bytes
      BY <1>7, <2>1
    <3> QED
      BY <1>6, <3>1, <3>2
  <2>2. CASE n # 0
    <3>1. \A b \in 0..e - 1 : b \in Bytes /\ b # e + n - 1
      BY <1>7, <2>2
    <3> QED
      BY <1>6, <3>1
  <2> QED
    BY <2>1, <2>2
<1>10. Held(log, pot')
  BY <1>2, <1>3, <1>5, <1>9, HeldLater
<1>11. rindex \in Starts(log)
  BY <1>1 DEF LayoutFor
<1>12. CASE n = 0
  <2>1. log' = log /\ SizeOf(log', Len(log')) + 0 = windex'
    BY <1>2, <1>3, <1>4, <1>5, <1>12
  <2> QED
    BY <1>4, <1>8, <1>10, <1>11, <2>1 DEF LayoutFor
<1>13. CASE n # 0
  <2>1. PICK m \in Messages : m = Front(loc[p].data)
    BY <1>2, <1>3, <1>13, LineFacts
  <2>2. Len(m) = n - 1 /\ \A i \in 1..n - 1 : m[i] = loc[p].data[i]
    BY <1>2, <1>3, <1>13, <2>1, LineFacts
  <2>3. log' = Append(log, m)
    BY <1>2, <1>3, <1>4, <1>13, <2>1
  <2>4. \A i \in 1..Len(m) : pot'[e + i - 1] = m[i]
    <3> SUFFICES ASSUME NEW i \in 1..n - 1 PROVE pot'[e + i - 1] = m[i]
      BY <2>2
    <3>1. e + i - 1 \in Bytes /\ e + i - 1 # e + n - 1 /\ i \in 1..n
      BY <1>7
    <3>2. pot[e + i - 1] = loc[p].data[i]
      BY <1>1, <1>3, <1>4, <3>1 DEF LayoutFor
    <3> QED
      BY <1>6, <2>2, <3>1, <3>2
  <2>5. pot'[e + Len(m)] = "NUL"
    <3>1. e + Len(m) = e + n - 1
      BY <2>2
    <3> QED
      BY <1>6, <1>7, <3>1
  <2>6. Held(log', pot')
    BY <1>2, <1>3, <1>10, <2>3, <2>4, <2>5, HeldAppend
  <2>7. PICK t : t = Append(log, m)
    OBVIOUS
  <2>8. /\ Len(t) = Len(log) + 1 /\ Len(log) \in Nat
        /\ \A k \in 0..Len(log) : SizeOf(t, k) = SizeOf(log, k)
        /\ SizeOf(t, Len(log) + 1) = SizeOf(log, Len(log)) + Len(m) + 1
    BY <1>2, <2>7, SizeAppend, SizeFacts
  <2>9. SizeOf(t, Len(t)) = e + n
    BY <1>3, <2>2, <2>8
  <2>10. rindex \in Starts(t)
    BY <1>11, <2>8 DEF Starts
  <2>11. SizeOf(log', Len(log')) + 0 = windex' /\ rindex' \in Starts(log')
    BY <1>4, <1>5, <2>3, <2>7, <2>9, <2>10
  <2> QED
    BY <1>8, <2>6, <2>11 DEF LayoutFor
<1> QED
  BY <1>12, <1>13

(* A read index before the end is where a message begins.                  *)
LEMMA WhichMessage ==
  ASSUME FInv, NEW p \in Procs, EdgeFor(p), LayoutFor(p), pc[p] # "end", rindex < windex
  PROVE  \E k \in 1..Len(log) : /\ rindex = SizeOf(log, k - 1)
                                /\ rindex + (Len(log[k]) + 1) = SizeOf(log, k)
                                /\ Ends(rindex) # {} /\ TextAt(rindex) = log[k]
PROOF
<1>1. /\ FTypeOK /\ log \in Seq(Messages) /\ Len(log) \in Nat /\ windex \in Nat
      /\ windex <= Size /\ Held(log, pot) /\ rindex \in Starts(log)
  BY LenProperties DEF FInv, FTypeOK, EdgeFor, LayoutFor
<1>2. SizeOf(log, Len(log)) = windex
  <2>1. SizeOf(log, Len(log)) \in Nat
    BY <1>1, SizeFacts
  <2>2. SizeOf(log, Len(log)) + 0 = windex
    BY DEF LayoutFor
  <2> QED
    BY <2>1, <2>2
<1>3. PICK j \in 0..Len(log) : rindex = SizeOf(log, j)
  BY <1>1 DEF Starts
<1>4. j # Len(log)
  BY <1>1, <1>2, <1>3
<1>5. PICK k \in 1..Len(log) : k - 1 = j
  <2>1. j + 1 \in 1..Len(log) /\ (j + 1) - 1 = j
    BY <1>1, <1>4
  <2> QED
    BY <2>1
<1>6. /\ Len(log[k]) \in Nat /\ SizeOf(log, k) = SizeOf(log, k - 1) + Len(log[k]) + 1
      /\ SizeOf(log, j) \in Nat
  BY <1>1, SizeFacts
<1>7. rindex + (Len(log[k]) + 1) = SizeOf(log, k)
  BY <1>3, <1>5, <1>6
<1>8. Ends(SizeOf(log, k - 1)) # {} /\ TextAt(SizeOf(log, k - 1)) = log[k]
  BY <1>1, <1>2, TextIs
<1> QED
  BY <1>3, <1>5, <1>7, <1>8

LEMMA LCopyToUser ==
  ASSUME FInv, Layout, NEW p \in Procs, CopyToUser(p), broken' = {} PROVE LayoutFor(p)'
PROOF
<1>1. LayoutFor(p) /\ EdgeFor(p) /\ broken = {}
  BY MovesAlone DEF StepOf
<1>2. /\ pc[p] = "take" /\ UNCHANGED <<program, pot, windex, rindex, log, shown>>
      /\ Ends(rindex) # {} /\ program = "fortune.c"
      /\ pc \in [Procs -> Stops] /\ loc \in [Procs -> Locals] /\ loc[p].len \in Nat
  BY DEF CopyToUser, shared, Oops, Break, FInv, FTypeOK, CallsOf, Locals
<1>3. PICK k \in 1..Len(log) : rindex = SizeOf(log, k - 1) /\ TextAt(rindex) = log[k]
  <2>1. rindex < windex /\ pc[p] # "end"
    BY <1>1, <1>2 DEF LayoutFor
  <2> QED
    BY <1>1, <2>1, WhichMessage
<1> DEFINE text == TextAt(rindex)
           l    == Min({Len(text) + 1, loc[p].len})
           part == SubSeq(text, 1, Min({l, Len(text)}))
<1>4. /\ broken' = broken \cup (IF l <= Len(text) THEN {"short"} ELSE {})
      /\ pc' = [pc EXCEPT ![p] = "advance"]
      /\ \/ loc' = [loc EXCEPT ![p].len = l, ![p].text = part]
         \/ loc' = [loc EXCEPT ![p].len = 0, ![p].text = shown]
  BY <1>2, Zenon DEF CopyToUser, Break, Goto
<1>5. text \in Seq(Chars) /\ Len(text) \in Nat
  BY <1>2, TextFacts DEF FInv, FTypeOK
<1>6. text = log[k]
  BY <1>3
<1> HIDE DEF text
<1>7. l = Len(text) + 1
  <2>1. {Len(text) + 1, loc[p].len} \in SUBSET Nat
    BY <1>2, <1>5
  <2>2. l \in {Len(text) + 1, loc[p].len} /\ \A y \in {Len(text) + 1, loc[p].len} : l <= y
    BY <2>1, MinExists
  <2>3. ~(l <= Len(text))
    BY <1>4
  <2> HIDE DEF l
  <2> QED
    BY <1>2, <1>5, <2>2, <2>3
<1>8. part = text
  <2> HIDE DEF l
  <2>1. {l, Len(text)} \in SUBSET Nat
    BY <1>5, <1>7
  <2>2. PICK n : n = Min({l, Len(text)})
    OBVIOUS
  <2>3. n \in {l, Len(text)} /\ \A y \in {l, Len(text)} : n <= y
    BY <2>1, <2>2, MinExists
  <2>4. n = Len(text)
    BY <1>5, <1>7, <2>3
  <2> QED
    BY <1>5, <2>2, <2>4, SubSeqFull
<1> HIDE DEF l, part
<1>9. pc'[p] = "advance"
  BY <1>2, <1>4
<1>10. \/ loc'[p].len = Len(text) + 1 /\ loc'[p].text = text
       \/ loc'[p].len = 0 /\ loc'[p].text = shown
  <2>1. CASE loc' = [loc EXCEPT ![p].len = l, ![p].text = part]
    <3>1. loc'[p].len = l /\ loc'[p].text = part
      BY <1>2, <2>1 DEF Locals
    <3> QED
      BY <1>7, <1>8, <3>1
  <2>2. CASE loc' = [loc EXCEPT ![p].len = 0, ![p].text = shown]
    <3>1. loc'[p].len = 0 /\ loc'[p].text = shown
      BY <1>2, <2>2 DEF Locals
    <3> QED
      BY <3>1
  <2> QED
    BY <1>4, <2>1, <2>2
<1>11. ~loc'[p].again
  <2>1. ~loc[p].again
    BY <1>1, <1>2 DEF LayoutFor
  <2> QED
    BY <1>2, <1>4, <2>1 DEF Locals
<1>12. (TakesNothing(loc[p]) \/ TakesMessage(loc[p]))'
  BY <1>2, <1>3, <1>6, <1>10 DEF TakesNothing, TakesMessage
<1> QED
  BY <1>1, <1>2, <1>9, <1>11, <1>12 DEF LayoutFor

LEMMA LShow ==
  ASSUME FInv, Layout, NEW p \in Procs, Show(p), broken' = {} PROVE LayoutFor(p)'
PROOF
<1>1. LayoutFor(p) /\ EdgeFor(p) /\ broken = {}
  BY MovesAlone DEF StepOf
<1>2. /\ pc[p] = "show" /\ UNCHANGED <<program, pot, windex, rindex, log>>
      /\ Ends(rindex) # {}
      /\ pc' = [pc EXCEPT ![p] = "measure"] /\ loc' = [loc EXCEPT ![p].text = TextAt(rindex)]
      /\ pc \in [Procs -> Stops] /\ loc \in [Procs -> Locals] /\ program = "main.c"
  BY DEF Show, shared, Oops, Break, Goto, FInv, FTypeOK, CallsOf
<1>3. pc'[p] = "measure" /\ loc'[p].text = TextAt(rindex)
  BY <1>2 DEF Locals
<1>4. Ends(rindex)' = Ends(rindex) /\ TextAt(rindex)' = TextAt(rindex)
  BY <1>2 DEF Ends, TextAt
<1> QED
  BY <1>1, <1>2, <1>3, <1>4 DEF LayoutFor

LEMMA LeaveEnds ==
  ASSUME FTypeOK, NEW p \in Procs, Leave(p)
  PROVE  pc'[p] \in {"idle", "show_again"} /\ ~loc'[p].again
PROOF
<1>1. pc \in [Procs -> Stops] /\ loc \in [Procs -> Locals]
  BY DEF FTypeOK
<1> QED
  BY <1>1 DEF Leave, Return, Goto, NoCall

LEMMA LMeasure ==
  ASSUME FInv, Layout, NEW p \in Procs, Measure(p), broken' = {} PROVE LayoutFor(p)'
PROOF
<1>1. LayoutFor(p) /\ EdgeFor(p) /\ broken = {}
  BY MovesAlone DEF StepOf
<1>2. /\ pc[p] = "measure" /\ UNCHANGED <<program, pot, windex, rindex, log>>
      /\ FTypeOK /\ program = "main.c"
      /\ pc \in [Procs -> Stops] /\ loc \in [Procs -> Locals]
      /\ rindex \in Starts(log) /\ Ends(rindex) # {} /\ loc[p].text = TextAt(rindex)
  BY <1>1 DEF Measure, shared, FInv, FTypeOK, CallsOf, LayoutFor
<1>3. CASE TextAt(rindex) = <<>>
  <2>1. Leave(p)
    BY <1>2, <1>3 DEF Measure
  <2> QED
    BY <1>1, <1>2, <2>1, LeaveEnds, LayoutKept
<1>4. CASE TextAt(rindex) # <<>>
  <2>1. /\ pc' = [pc EXCEPT ![p] = "advance"]
        /\ loc' = [loc EXCEPT ![p].len = Len(TextAt(rindex)) + 1]
    BY <1>2, <1>4 DEF Measure, Goto
  <2>2. rindex < windex
    <3>1. rindex + (Len(TextAt(rindex)) + 1) <= windex
      BY <1>1, <1>2, <1>4, StringBefore
    <3>2. Len(TextAt(rindex)) \in Nat /\ rindex \in Nat /\ windex \in Nat
      BY <1>2, TextFacts DEF FTypeOK
    <3> QED
      BY <3>1, <3>2
  <2>3. PICK k \in 1..Len(log) : rindex = SizeOf(log, k - 1) /\ TextAt(rindex) = log[k]
    BY <1>1, <1>2, <2>2, WhichMessage
  <2>4. /\ pc'[p] = "advance" /\ loc'[p].len = Len(log[k]) + 1 /\ loc'[p].text = log[k]
        /\ loc'[p].again = loc[p].again
    BY <1>2, <2>1, <2>3 DEF Locals
  <2>5. TakesMessage(loc[p])'
    BY <1>2, <1>4, <2>3, <2>4 DEF TakesMessage
  <2> QED
    BY <1>1, <1>2, <2>4, <2>5 DEF LayoutFor
<1> QED
  BY <1>3, <1>4

LEMMA LLoadNext ==
  ASSUME FInv, Layout, NEW p \in Procs, LoadNext(p), broken' = {} PROVE LayoutFor(p)'
PROOF
<1>1. LayoutFor(p)
  BY MovesAlone DEF StepOf
<1>2. /\ pc[p] = "advance" /\ UNCHANGED <<program, pot, windex, rindex, log, shown>>
      /\ pc' = [pc EXCEPT ![p] = "move"] /\ loc' = [loc EXCEPT ![p].at = rindex]
      /\ pc \in [Procs -> Stops] /\ loc \in [Procs -> Locals]
  BY DEF LoadNext, Goto, shared, history, FInv, FTypeOK
<1>3. /\ pc'[p] = "move" /\ loc'[p].len = loc[p].len /\ loc'[p].text = loc[p].text
      /\ loc'[p].again = loc[p].again
  BY <1>2 DEF Locals
<1>4. (TakesNothing(loc[p]) \/ TakesMessage(loc[p]))'
  <2>1. TakesNothing(loc[p]) \/ TakesMessage(loc[p])
    BY <1>1, <1>2 DEF LayoutFor
  <2> QED
    BY <1>2, <1>3, <2>1 DEF TakesNothing, TakesMessage
<1> QED
  BY <1>1, <1>2, <1>3, <1>4 DEF LayoutFor

LEMMA LStoreNext ==
  ASSUME FInv, Layout, NEW p \in Procs, StoreNext(p), broken' = {} PROVE LayoutFor(p)'
PROOF
<1>1. LayoutFor(p) /\ EdgeFor(p)
  BY MovesAlone DEF StepOf
<1>2. /\ pc[p] = "move" /\ UNCHANGED <<program, pot, windex, log>>
      /\ rindex' = loc[p].at + loc[p].len /\ Leave(p)
      /\ FTypeOK /\ log \in Seq(Messages) /\ rindex \in Nat
  BY DEF StoreNext, FInv, FTypeOK
<1>3. loc[p].at = rindex /\ rindex \in Starts(log)
  BY <1>1, <1>2 DEF EdgeFor, LayoutFor
<1>4. rindex' \in Starts(log)
  <2>1. CASE TakesNothing(loc[p])
    BY <1>2, <1>3, <2>1 DEF TakesNothing
  <2>2. CASE TakesMessage(loc[p])
    <3>1. PICK k \in 1..Len(log) : rindex = SizeOf(log, k - 1) /\ loc[p].len = Len(log[k]) + 1
      BY <2>2 DEF TakesMessage
    <3>2. /\ Len(log[k]) \in Nat /\ SizeOf(log, k) = SizeOf(log, k - 1) + Len(log[k]) + 1
          /\ k \in 0..Len(log)
      BY <1>2, SizeFacts
    <3>3. rindex' = SizeOf(log, k)
      BY <1>2, <1>3, <3>1, <3>2
    <3> QED
      BY <3>2, <3>3 DEF Starts
  <2> QED
    BY <1>1, <1>2, <2>1, <2>2 DEF LayoutFor
<1> QED
  BY <1>1, <1>2, <1>4, LeaveEnds, LayoutKept

LEMMA LStep ==
  ASSUME FInv, Layout, NEW p \in Procs, StepOf(p), broken' = {} PROVE LayoutFor(p)'
PROOF
<1>1. ~CopyFails(p)
  BY DEF CopyFails, Break
<1> QED
  BY <1>1, LBeginWrite, LCopyFromUser, LLoadIndex, LStoreIndex, LTerminate, LBeginRead,
     LCopyToUser, LBeginShow, LShow, LShowAgain, LMeasure, LLoadNext, LStoreNext DEF StepOf

LEMMA LNextInv == FInv /\ Layout /\ [Next]_vars => Layout'
PROOF
<1> SUFFICES ASSUME FInv, Layout, [Next]_vars PROVE Layout'
  OBVIOUS
<1>1. CASE UNCHANGED vars
  <2>1. UNCHANGED <<program, pot, windex, rindex, pc, loc, log, shown, broken>>
    BY <1>1 DEF vars, shared, history
  <2> QED
    BY <2>1 DEF Layout, LayoutFor, TakesMessage, TakesNothing, Ends, TextAt
<1>2. ASSUME NEW p \in Procs, StepOf(p) PROVE Layout'
  <2>1. CallsOf'
    BY FNextInv DEF FInv
  <2> QED
    BY <1>2, <2>1, MovesAlone, LStep, LCallStep
<1> QED
  BY <1>1, <1>2 DEF Next, Done, StepOf

(* Between calls the page is the log.                                      *)
LEMMA LayoutIsTheLog == FInv /\ Layout => PotHoldsLog
PROOF
<1> SUFFICES ASSUME FInv, Layout, broken = {}, \A p \in Procs : pc[p] = "idle"
             PROVE  /\ windex = EndOf(Len(log)) /\ windex <= Size
                    /\ \A j \in 1..Len(log) :
                         /\ \A i \in 1..Len(log[j]) : pot[EndOf(j - 1) + i - 1] = log[j][i]
                         /\ pot[EndOf(j) - 1] = "NUL"
                    /\ \A k \in Bytes : k >= windex => pot[k] = "NUL"
                    /\ rindex \in {EndOf(k) : k \in 0..Len(log)}
  BY DEF PotHoldsLog
<1>1. \A k : EndOf(k) = SizeOf(log, k)
  BY DEF EndOf, BytesOf, SizeOf, Filled
<1>2. PICK p \in Procs : TRUE
  BY ConstAssumption
<1>3. EdgeFor(p) /\ LayoutFor(p) /\ pc[p] = "idle"
  BY DEF Layout, FInv, PageEdges, Calm
<1>4. windex = SizeOf(log, Len(log))
  <2>1. log \in Seq(Messages) /\ Len(log) \in 0..Len(log)
    BY LenProperties DEF FInv, FTypeOK
  <2>2. SizeOf(log, Len(log)) + 0 = windex
    BY <1>3 DEF LayoutFor
  <2> QED
    BY <2>1, <2>2, SizeFacts
<1>5. /\ windex <= Size /\ windex \in Nat
      /\ \A k \in Bytes : k >= windex => pot[k] = "NUL"
  BY <1>3 DEF EdgeFor, FInv, FTypeOK
<1>6. Held(log, pot) /\ rindex \in Starts(log)
  BY <1>3 DEF LayoutFor
<1> QED
  BY <1>1, <1>4, <1>5, <1>6 DEF Held, Starts

LEMMA FortuneKeeps == /\ Init => FInv /\ Layout
                      /\ FInv /\ Layout /\ [Next]_vars => (FInv /\ Layout)'
PROOF BY FInitInv, LInitInv, FNextInv, LNextInv

(* As long as nothing is broken the page between calls is the log.         *)
THEOREM PageIsTheLog == Spec => []PotHoldsLog
PROOF BY FortuneKeeps, LayoutIsTheLog, PTL DEF Spec

(* ---- CookieLog ---- *)

(* CookieLog's variables: how many of the messages of s end at r or before,*)
(* and whether a reader has passed over one.                               *)
Passed(s, r) == Cardinality({j \in 1..Len(s) : SizeOf(s, j) <= r})
Big(pcs, locs) == \E p \in Procs : pcs[p] = "show_again" \/ locs[p].again
TooLong == IF program = "main.c" THEN {m \in Messages : Len(m) > SeqRoom} ELSE {}

PassedNow == Cardinality({k \in 1..Len(log) : EndOf(k) <= rindex})
BigNow    == \E p \in Procs : pc[p] = "show_again" \/ loc[p].again

LEMMA PassedIs ==
  ASSUME NEW s \in Seq(Messages), NEW k \in 0..Len(s)
  PROVE  Passed(s, SizeOf(s, k)) = k
PROOF
<1>1. Len(s) \in Nat
  BY LenProperties
<1>2. \A j \in 0..Len(s) : SizeOf(s, j) \in Nat
  BY SizeFacts
<1>3. \A j \in 1..k : j \in 1..Len(s) /\ SizeOf(s, j) <= SizeOf(s, k)
  <2> SUFFICES ASSUME NEW j \in 1..k PROVE j \in 1..Len(s) /\ SizeOf(s, j) <= SizeOf(s, k)
    OBVIOUS
  <2>1. j \in 1..Len(s) /\ j \in 0..Len(s) /\ j <= k
    BY <1>1
  <2> QED
    BY <2>1, SizeFacts
<1>4. ASSUME NEW j \in 1..Len(s), SizeOf(s, j) <= SizeOf(s, k) PROVE j \in 1..k
  <2> SUFFICES ASSUME k < j PROVE FALSE
    BY <1>1
  <2>1. j \in 0..Len(s) /\ j - 1 \in 0..Len(s) /\ k <= j - 1
    BY <1>1
  <2>2. /\ SizeOf(s, k) <= SizeOf(s, j - 1)
        /\ SizeOf(s, j) = SizeOf(s, j - 1) + Len(s[j]) + 1 /\ Len(s[j]) \in Nat
    BY <2>1, SizeFacts
  <2> QED
    BY <1>2, <1>4, <2>1, <2>2
<1>5. {j \in 1..Len(s) : SizeOf(s, j) <= SizeOf(s, k)} = 1..k
  BY <1>3, <1>4
<1>6. Cardinality(1..k) = k
  BY <1>1, FS_Interval
<1> QED
  BY <1>5, <1>6 DEF Passed

(* The steps of CookieLog in terms of this module.                         *)
LEMMA MapVars ==
  ASSUME program' = program
  PROVE  /\ (program = "fortune.c")' = (program = "fortune.c") /\ TooLong' = TooLong
         /\ PassedNow = Passed(log, rindex) /\ PassedNow' = Passed(log', rindex')
         /\ BigNow = Big(pc, loc) /\ BigNow' = Big(pc', loc')
PROOF BY DEF PassedNow, Passed, BigNow, Big, TooLong, EndOf, BytesOf, SizeOf, Filled

LEMMA AsBroken ==
  ASSUME program' = program, broken' # {}
  PROVE  Cookies!Next
PROOF BY MapVars DEF Cookies!Next, TooLong

LEMMA AsStutter ==
  ASSUME program' = program, UNCHANGED <<log, shown, broken>>,
         Passed(log', rindex') = Passed(log, rindex), Big(pc', loc') = Big(pc, loc)
  PROVE  UNCHANGED Cookies!vars
PROOF BY MapVars DEF Cookies!vars, TooLong, PassedNow, BigNow

LEMMA AsWrite ==
  ASSUME program' = program, UNCHANGED <<shown, broken>>, broken = {},
         NEW m \in Messages, log' = Append(log, m),
         Passed(log', rindex') = Passed(log, rindex), Big(pc', loc') = Big(pc, loc)
  PROVE  Cookies!Next
PROOF
<1>1. Cookies!Write
  BY MapVars DEF Cookies!Write, PassedNow, BigNow
<1> QED
  BY <1>1, MapVars DEF Cookies!Next, TooLong

LEMMA AsRead ==
  ASSUME program' = program, UNCHANGED <<log, broken>>, broken = {},
         NEW k \in Nat, Passed(log, rindex) = k, k < Len(log), Passed(log', rindex') = k + 1,
         program = "fortune.c" \/ log[k + 1] # <<>>,
         Big(pc, loc) \/ log[k + 1] \notin TooLong,
         shown' = log[k + 1], ~Big(pc', loc')
  PROVE  Cookies!Next
PROOF
<1>1. Cookies!Read
  BY MapVars DEF Cookies!Read, PassedNow, BigNow, TooLong
<1> QED
  BY <1>1, MapVars DEF Cookies!Next, TooLong

LEMMA AsStay ==
  ASSUME program' = program, UNCHANGED <<log, broken>>, broken = {}, program # "fortune.c",
         NEW k \in Nat, Passed(log, rindex) = k, Passed(log', rindex') = k,
         k = Len(log) \/ log[k + 1] = <<>>,
         shown' = <<>>, ~Big(pc', loc')
  PROVE  Cookies!Next
PROOF
<1>1. Cookies!Stay
  BY MapVars DEF Cookies!Stay, PassedNow, BigNow
<1> QED
  BY <1>1, MapVars DEF Cookies!Next, TooLong

LEMMA AsPassOver ==
  ASSUME program' = program, UNCHANGED <<log, shown, broken>>, broken = {}, ~Big(pc, loc),
         NEW k \in Nat, Passed(log, rindex) = k, k < Len(log), log[k + 1] \in TooLong,
         Passed(log', rindex') = k + 1, Big(pc', loc')
  PROVE  Cookies!Next
PROOF
<1>1. Cookies!PassOver
  BY MapVars DEF Cookies!PassOver, PassedNow, BigNow, TooLong
<1> QED
  BY <1>1, MapVars DEF Cookies!Next, TooLong

LEMMA AsRewind ==
  ASSUME program' = program, UNCHANGED <<log, shown, broken>>, broken = {}, program = "fortune.c",
         log # <<>>, Passed(log, rindex) = Len(log), Passed(log', rindex') = 0,
         Big(pc', loc') = Big(pc, loc)
  PROVE  Cookies!Next
PROOF
<1>1. Cookies!Rewind
  BY MapVars DEF Cookies!Rewind, PassedNow, BigNow
<1> QED
  BY <1>1, MapVars DEF Cookies!Next, TooLong

LEMMA BigAlone ==
  ASSUME FInv, Layout, NEW p \in Procs, StepOf(p), broken' = {}
  PROVE  /\ Big(pc, loc) <=> pc[p] = "show_again" \/ loc[p].again
         /\ Big(pc', loc') <=> pc'[p] = "show_again" \/ loc'[p].again
PROOF
<1>1. \A q \in Procs \ {p} : /\ pc[q] = "idle" /\ pc'[q] = "idle"
                             /\ loc[q] = NoCall /\ loc'[q] = NoCall
  BY MovesAlone
<1>2. \A q \in Procs \ {p} : /\ ~(pc[q] = "show_again" \/ loc[q].again)
                             /\ ~(pc'[q] = "show_again" \/ loc'[q].again)
  BY <1>1 DEF NoCall
<1> QED
  BY <1>2 DEF Big

Outside == {"idle", "copy", "add", "store", "end", "take"}

LEMMA NotBig ==
  ASSUME FInv, Layout, NEW p \in Procs, StepOf(p), broken' = {}
  PROVE  /\ program = "fortune.c" \/ pc[p] \in Outside => ~Big(pc, loc)
         /\ program = "fortune.c" \/ pc'[p] \in Outside => ~Big(pc', loc')
PROOF
<1>1. CallsOf /\ CallsOf' /\ program' = program /\ LayoutFor(p) /\ LayoutFor(p)'
  BY FNextInv, MovesAlone, LStep DEF FInv, Next, StepOf
<1>2. program = "fortune.c" \/ pc[p] \in Outside => ~(pc[p] = "show_again" \/ loc[p].again)
  BY <1>1 DEF CallsOf, LayoutFor, Outside
<1>3. program = "fortune.c" \/ pc'[p] \in Outside => ~(pc'[p] = "show_again" \/ loc'[p].again)
  BY <1>1 DEF CallsOf, LayoutFor, Outside
<1> QED
  BY <1>2, <1>3, BigAlone

LEMMA QuietStep ==
  ASSUME FInv, Layout, NEW p \in Procs, StepOf(p), broken' = {},
         UNCHANGED <<log, shown, rindex>>, Big(pc', loc') <=> Big(pc, loc)
  PROVE  [Cookies!Next]_Cookies!vars
PROOF
<1>1. program' = program /\ broken = {} /\ broken' = broken
  BY MovesAlone
<1>2. Big(pc', loc') = Big(pc, loc)
  BY DEF Big
<1> QED
  BY <1>1, <1>2, AsStutter

LEMMA CBegins ==
  ASSUME FInv, Layout, NEW p \in Procs, BeginWrite(p) \/ BeginShow(p), broken' = {}
  PROVE  [Cookies!Next]_Cookies!vars
PROOF
<1>1. StepOf(p) /\ UNCHANGED <<log, shown, rindex>> /\ pc[p] = "idle"
  BY DEF StepOf, BeginWrite, BeginShow, shared
<1>2. pc \in [Procs -> Stops] /\ loc \in [Procs -> Locals]
  BY DEF FInv, FTypeOK
<1>3. ~Big(pc, loc)
  BY <1>1, NotBig DEF Outside
<1>4. CASE BeginWrite(p)
  <2>1. pc'[p] \in {"idle", "copy"}
    <3>1. Goto(p, "copy") \/ UNCHANGED pc
      BY <1>4 DEF BeginWrite
    <3> QED
      BY <1>1, <1>2, <3>1 DEF Goto
  <2>2. ~Big(pc', loc')
    BY <1>1, <2>1, NotBig DEF Outside
  <2> QED
    BY <1>1, <1>3, <2>2, QuietStep
<1>5. CASE BeginShow(p)
  <2>1. pc'[p] = "show" /\ loc'[p].again = FALSE
    BY <1>2, <1>5 DEF BeginShow, Goto, Locals
  <2>2. ~Big(pc', loc')
    BY <1>1, <2>1, BigAlone
  <2> QED
    BY <1>1, <1>3, <2>2, QuietStep
<1> QED
  BY <1>4, <1>5

LEMMA CWriting ==
  ASSUME FInv, Layout, NEW p \in Procs, CopyFromUser(p) \/ LoadIndex(p) \/ StoreIndex(p), broken' = {}
  PROVE  [Cookies!Next]_Cookies!vars
PROOF
<1>1. StepOf(p) /\ UNCHANGED <<log, shown, rindex>> /\ pc[p] \in Outside
  BY DEF StepOf, CopyFromUser, LoadIndex, StoreIndex, shared, history, Outside
<1>2. pc'[p] \in Outside
  <2>1. Goto(p, "add") \/ Goto(p, "store") \/ Goto(p, "end")
    BY DEF CopyFromUser, LoadIndex, StoreIndex, Oops, Break
  <2> QED
    BY <2>1 DEF Goto, FInv, FTypeOK, Outside
<1>3. ~Big(pc, loc) /\ ~Big(pc', loc')
  BY <1>1, <1>2, NotBig
<1> QED
  BY <1>1, <1>3, QuietStep

LEMMA CTerminate ==
  ASSUME FInv, Layout, NEW p \in Procs, Terminate(p), broken' = {}
  PROVE  [Cookies!Next]_Cookies!vars
PROOF
<1>1. StepOf(p) /\ UNCHANGED <<program, windex, rindex, shown>> /\ pc[p] \in Outside
  BY DEF StepOf, Terminate, Outside
<1>2. LayoutFor(p) /\ broken = {} /\ log \in Seq(Messages) /\ loc[p].data \in Lines
  BY <1>1, MovesAlone DEF FInv, FTypeOK, Locals
<1>3. /\ Return(p)
      /\ log' = IF loc[p].data = <<>> THEN log ELSE Append(log, Front(loc[p].data))
  <2>1. ~Oops(p)
    BY DEF Oops, Break
  <2> QED
    BY <1>2, <2>1 DEF Terminate, Record
<1>4. pc'[p] \in Outside
  BY <1>3 DEF Return, Goto, FInv, FTypeOK, Outside
<1>5. ~Big(pc, loc) /\ ~Big(pc', loc')
  BY <1>1, <1>4, NotBig
<1>6. CASE loc[p].data = <<>>
  BY <1>1, <1>3, <1>5, <1>6, QuietStep
<1>7. CASE loc[p].data # <<>>
  <2>1. PICK m \in Messages : m = Front(loc[p].data)
    BY <1>2, <1>7, LineFacts
  <2>2. PICK t : t = Append(log, m)
    OBVIOUS
  <2>3. /\ Len(t) = Len(log) + 1 /\ Len(log) \in Nat /\ t \in Seq(Messages)
        /\ \A k \in 0..Len(log) : SizeOf(t, k) = SizeOf(log, k)
    BY <1>2, <2>2, SizeAppend, SizeFacts
  <2>4. PICK k \in 0..Len(log) : rindex = SizeOf(log, k)
    BY <1>2 DEF LayoutFor, Starts
  <2>5. Passed(log, rindex) = k
    BY <1>2, <2>4, PassedIs
  <2>6. Passed(t, rindex) = k
    <3>1. k \in 0..Len(t) /\ rindex = SizeOf(t, k)
      BY <2>3, <2>4
    <3> QED
      BY <2>3, <3>1, PassedIs
  <2>7. log' = Append(log, m) /\ Passed(log', rindex') = Passed(log, rindex)
    BY <1>1, <1>3, <1>7, <2>1, <2>2, <2>5, <2>6
  <2>8. Big(pc', loc') = Big(pc, loc)
    BY <1>5 DEF Big
  <2>9. UNCHANGED <<shown, broken>>
    BY <1>1, <1>2
  <2> QED
    BY <1>1, <1>2, <2>7, <2>8, <2>9, AsWrite
<1> QED
  BY <1>6, <1>7

LEMMA CBeginRead ==
  ASSUME FInv, Layout, NEW p \in Procs, BeginRead(p), broken' = {}
  PROVE  [Cookies!Next]_Cookies!vars
PROOF
<1>1. /\ StepOf(p) /\ UNCHANGED <<program, pot, windex, log, shown>> /\ pc[p] = "idle"
      /\ program = "fortune.c" /\ rindex' = (IF rindex >= windex THEN 0 ELSE rindex)
      /\ windex # 0
  BY DEF StepOf, BeginRead, Break, AllRead
<1>2. /\ LayoutFor(p) /\ broken = {} /\ log \in Seq(Messages) /\ Len(log) \in Nat
      /\ rindex \in Nat /\ windex \in Nat
  BY <1>1, MovesAlone, LenProperties DEF FInv, FTypeOK
<1>3. ~Big(pc, loc) /\ ~Big(pc', loc')
  BY <1>1, NotBig
<1>4. CASE rindex < windex
  <2>1. rindex' = rindex
    BY <1>1, <1>2, <1>4
  <2> QED
    BY <1>1, <1>3, <2>1, QuietStep
<1>5. CASE rindex >= windex
  <2>1. PICK k \in 0..Len(log) : rindex = SizeOf(log, k)
    BY <1>2 DEF LayoutFor, Starts
  <2>2. SizeOf(log, Len(log)) = windex
    <3>1. SizeOf(log, Len(log)) + 0 = windex
      BY <1>1, <1>2 DEF LayoutFor
    <3>2. Len(log) \in 0..Len(log)
      BY <1>2
    <3>3. SizeOf(log, Len(log)) \in Nat
      BY <1>2, <3>2, SizeFacts
    <3> QED
      BY <3>1, <3>3
  <2>3. Len(log) \in 0..Len(log) /\ 0 \in 0..Len(log) /\ SizeOf(log, 0) = 0
    BY <1>2, SizeFacts
  <2>4. rindex = windex
    <3>1. SizeOf(log, k) <= SizeOf(log, Len(log))
      BY <1>2, <2>3, SizeFacts
    <3> QED
      BY <1>2, <1>5, <2>1, <2>2, <3>1
  <2>5. Passed(log, rindex) = Len(log)
    BY <1>2, <2>2, <2>3, <2>4, PassedIs
  <2>6. rindex' = 0 /\ Passed(log', rindex') = 0
    <3>1. rindex' = 0
      BY <1>1, <1>5
    <3>2. Passed(log, 0) = 0
      BY <1>2, <2>3, PassedIs
    <3> QED
      BY <1>1, <3>1, <3>2
  <2>7. log # <<>>
    BY <1>1, <2>2, <2>3, EmptySeq
  <2>8. Big(pc', loc') = Big(pc, loc)
    BY <1>3 DEF Big
  <2>9. UNCHANGED <<log, shown, broken>>
    BY <1>1, <1>2
  <2> QED
    BY <1>1, <1>2, <2>5, <2>6, <2>7, <2>8, <2>9, AsRewind
<1> QED
  BY <1>2, <1>4, <1>5

LEMMA CReading ==
  ASSUME FInv, Layout, NEW p \in Procs,
         CopyToUser(p) \/ Show(p) \/ ShowAgain(p) \/ LoadNext(p), broken' = {}
  PROVE  [Cookies!Next]_Cookies!vars
PROOF
<1>1. StepOf(p) /\ UNCHANGED <<program, log, shown, rindex>>
  BY DEF StepOf, CopyToUser, Show, ShowAgain, LoadNext, shared, history
<1>2. /\ pc \in [Procs -> Stops] /\ loc \in [Procs -> Locals]
      /\ CallsOf
  BY DEF FInv, FTypeOK
<1>3. CASE CopyToUser(p)
  <2>1. program = "fortune.c"
    BY <1>2, <1>3 DEF CopyToUser, CallsOf
  <2>2. ~Big(pc, loc) /\ ~Big(pc', loc')
    BY <1>1, <2>1, NotBig
  <2> QED
    BY <1>1, <2>2, QuietStep
<1>4. CASE Show(p)
  <2>1. /\ pc[p] = "show" /\ pc' = [pc EXCEPT ![p] = "measure"]
        /\ loc' = [loc EXCEPT ![p].text = TextAt(rindex)]
    BY <1>4 DEF Show, Oops, Break, Goto
  <2>2. pc'[p] = "measure" /\ loc'[p].again = loc[p].again
    BY <1>2, <2>1 DEF Locals
  <2> QED
    BY <1>1, <2>1, <2>2, BigAlone, QuietStep
<1>5. CASE ShowAgain(p)
  <2>1. pc[p] = "show_again" /\ loc'[p].again
    BY <1>2, <1>5 DEF ShowAgain, Locals
  <2> QED
    BY <1>1, <2>1, BigAlone, QuietStep
<1>6. CASE LoadNext(p)
  <2>1. /\ pc[p] = "advance" /\ pc' = [pc EXCEPT ![p] = "move"]
        /\ loc' = [loc EXCEPT ![p].at = rindex]
    BY <1>6 DEF LoadNext, Goto
  <2>2. pc'[p] = "move" /\ loc'[p].again = loc[p].again
    BY <1>2, <2>1 DEF Locals
  <2> QED
    BY <1>1, <2>1, <2>2, BigAlone, QuietStep
<1> QED
  BY <1>3, <1>4, <1>5, <1>6

LEMMA CMeasure ==
  ASSUME FInv, Layout, NEW p \in Procs, Measure(p), broken' = {}
  PROVE  [Cookies!Next]_Cookies!vars
PROOF
<1>1. StepOf(p) /\ UNCHANGED <<program, log, rindex, pot, windex>> /\ pc[p] = "measure"
  BY DEF StepOf, Measure, shared
<1>2. /\ pc \in [Procs -> Stops] /\ loc \in [Procs -> Locals] /\ program = "main.c"
      /\ LayoutFor(p) /\ EdgeFor(p) /\ broken = {} /\ log \in Seq(Messages) /\ Len(log) \in Nat
      /\ windex \in Nat /\ rindex \in Nat /\ SeqRoom \in Nat
  BY <1>1, MovesAlone, LenProperties, ConstAssumption DEF FInv, FTypeOK, CallsOf
<1>3. Ends(rindex) # {} /\ loc[p].text = TextAt(rindex) /\ rindex \in Starts(log)
  BY <1>1, <1>2 DEF LayoutFor
<1>4. CASE TextAt(rindex) = <<>>
  <2>1. Leave(p)
    BY <1>3, <1>4 DEF Measure
  <2>2. Return(p) /\ shown' = <<>>
    <3>1. ~(Len(loc[p].text) > SeqRoom)
      BY <1>2, <1>3, <1>4, EmptySeq
    <3> QED
      BY <1>2, <1>3, <1>4, <2>1, <3>1 DEF Leave, Record
  <2>3. pc'[p] \in Outside
    BY <1>2, <2>2 DEF Return, Goto, Outside
  <2>4. ~Big(pc', loc')
    BY <1>1, <2>3, NotBig
  <2>5. PICK k \in 0..Len(log) : rindex = SizeOf(log, k)
    BY <1>3 DEF Starts
  <2>6. Passed(log, rindex) = k /\ Passed(log', rindex') = k
    BY <1>1, <1>2, <2>5, PassedIs
  <2>7. k = Len(log) \/ log[k + 1] = <<>>
    <3> SUFFICES ASSUME k # Len(log) PROVE log[k + 1] = <<>>
      OBVIOUS
    <3>1. PICK j \in 1..Len(log) : j = k + 1 /\ j - 1 = k
      <4>1. k + 1 \in 1..Len(log) /\ (k + 1) - 1 = k
        BY <1>2
      <4> QED
        BY <4>1
    <3>2. windex <= Size /\ Held(log, pot) /\ SizeOf(log, Len(log)) + 0 = windex
      BY <1>1, <1>2 DEF EdgeFor, LayoutFor
    <3>3. SizeOf(log, Len(log)) <= Size
      <4>1. Len(log) \in 0..Len(log)
        BY <1>2
      <4>2. SizeOf(log, Len(log)) \in Nat
        BY <1>2, <4>1, SizeFacts
      <4> QED
        BY <3>2, <4>2
    <3>4. TextAt(SizeOf(log, j - 1)) = log[j]
      BY <3>2, <3>3, TextIs DEF FInv
    <3> QED
      BY <1>4, <2>5, <3>1, <3>4
  <2>8. UNCHANGED <<log, broken>>
    BY <1>1, <1>2
  <2> QED
    BY <1>1, <1>2, <2>2, <2>4, <2>6, <2>7, <2>8, AsStay
<1>5. CASE TextAt(rindex) # <<>>
  <2>1. /\ pc' = [pc EXCEPT ![p] = "advance"] /\ shown' = shown
        /\ loc' = [loc EXCEPT ![p].len = Len(TextAt(rindex)) + 1]
    BY <1>3, <1>5 DEF Measure, Goto
  <2>2. pc'[p] = "advance" /\ loc'[p].again = loc[p].again
    BY <1>2, <2>1 DEF Locals
  <2> QED
    BY <1>1, <2>1, <2>2, BigAlone, QuietStep
<1> QED
  BY <1>4, <1>5

LEMMA CStoreNext ==
  ASSUME FInv, Layout, NEW p \in Procs, StoreNext(p), broken' = {}
  PROVE  [Cookies!Next]_Cookies!vars
PROOF
<1>1. /\ StepOf(p) /\ UNCHANGED <<program, log>> /\ pc[p] = "move"
      /\ rindex' = loc[p].at + loc[p].len /\ Leave(p)
  BY DEF StepOf, StoreNext
<1>2. /\ pc \in [Procs -> Stops] /\ loc \in [Procs -> Locals]
      /\ LayoutFor(p) /\ EdgeFor(p) /\ broken = {} /\ log \in Seq(Messages) /\ Len(log) \in Nat
      /\ rindex \in Nat /\ SeqRoom \in Nat /\ program \in {"fortune.c", "main.c"}
  BY <1>1, MovesAlone, LenProperties, ConstAssumption DEF FInv, FTypeOK
<1>3. loc[p].at = rindex /\ (TakesNothing(loc[p]) \/ TakesMessage(loc[p]))
  BY <1>1, <1>2 DEF EdgeFor, LayoutFor
<1>4. Return(p) => ~Big(pc', loc')
  <2>1. Return(p) => pc'[p] \in Outside
    BY <1>2 DEF Return, Goto, Outside
  <2> QED
    BY <1>1, <2>1, NotBig
<1>5. CASE TakesNothing(loc[p])
  <2>1. program = "fortune.c" /\ rindex' = rindex /\ loc[p].text = shown
    BY <1>1, <1>2, <1>3, <1>5 DEF TakesNothing
  <2>2. shown' = shown
    BY <1>1, <1>2, <2>1 DEF Leave, Record
  <2>3. ~Big(pc, loc) /\ ~Big(pc', loc')
    BY <1>1, <2>1, NotBig
  <2> QED
    BY <1>1, <2>1, <2>2, <2>3, QuietStep
<1>6. CASE TakesMessage(loc[p])
  <2>1. PICK j \in 1..Len(log) :
          /\ rindex = SizeOf(log, j - 1) /\ loc[p].len = Len(log[j]) + 1 /\ loc[p].text = log[j]
          /\ program = "main.c" => log[j] # <<>>
    BY <1>6 DEF TakesMessage
  <2>2. PICK k \in 0..Len(log) : k = j - 1 /\ j = k + 1 /\ k < Len(log) /\ k \in Nat
    BY <1>2
  <2>3. rindex' = SizeOf(log, j) /\ j \in 0..Len(log)
    <3>1. /\ Len(log[j]) \in Nat /\ SizeOf(log, j) = SizeOf(log, j - 1) + Len(log[j]) + 1
      BY <1>2, SizeFacts
    <3> QED
      BY <1>1, <1>2, <1>3, <2>1, <3>1
  <2>4. Passed(log, rindex) = k /\ Passed(log', rindex') = k + 1
    <3>1. Passed(log, SizeOf(log, k)) = k /\ Passed(log, SizeOf(log, j)) = j
      BY <1>2, <2>3, PassedIs
    <3> QED
      BY <1>1, <2>1, <2>2, <2>3, <3>1
  <2>5. log[j] \in Messages /\ Len(log[j]) \in Nat
    BY <1>2, ElementOfSeq, SizeFacts
  <2>6. UNCHANGED <<log, broken>>
    BY <1>1, <1>2
  <2>7. CASE program = "main.c" /\ ~loc[p].again /\ Len(loc[p].text) > SeqRoom
    <3>1. Goto(p, "show_again") /\ shown' = shown
      BY <1>1, <2>7 DEF Leave
    <3>2. Big(pc', loc') /\ ~Big(pc, loc)
      <4>1. pc'[p] = "show_again"
        BY <1>2, <3>1 DEF Goto
      <4> QED
        BY <1>1, <2>7, <4>1, BigAlone
    <3>3. log[k + 1] \in TooLong
      BY <2>1, <2>2, <2>5, <2>7 DEF TooLong
    <3>4. UNCHANGED <<log, shown, broken>>
      BY <2>6, <3>1
    <3> QED
      BY <1>1, <1>2, <2>2, <2>4, <3>2, <3>3, <3>4, AsPassOver
  <2>8. CASE ~(program = "main.c" /\ ~loc[p].again /\ Len(loc[p].text) > SeqRoom)
    <3>1. Return(p) /\ shown' = Record(shown, loc[p].text)
      BY <1>1, <2>8 DEF Leave
    <3>2. shown' = log[k + 1]
      BY <1>2, <2>1, <2>2, <3>1 DEF Record
    <3>3. Big(pc, loc) \/ log[k + 1] \notin TooLong
      <4>1. CASE loc[p].again
        BY <1>1, <4>1, BigAlone
      <4>2. CASE ~loc[p].again
        BY <2>1, <2>2, <2>8, <4>2 DEF TooLong
      <4> QED
        BY <4>1, <4>2
    <3>4. program = "fortune.c" \/ log[k + 1] # <<>>
      BY <1>2, <2>1, <2>2
    <3> QED
      BY <1>1, <1>2, <1>4, <2>2, <2>4, <2>6, <3>1, <3>2, <3>3, <3>4, AsRead
  <2> QED
    BY <2>7, <2>8
<1> QED
  BY <1>3, <1>5, <1>6

LEMMA CookieStep ==
  ASSUME FInv, Layout, [Next]_vars
  PROVE  [Cookies!Next]_Cookies!vars
PROOF
<1>1. CASE UNCHANGED vars
  <2>1. UNCHANGED <<program, rindex, pc, loc, log, shown, broken>>
    BY <1>1 DEF vars, shared, history
  <2> QED
    BY <2>1, AsStutter
<1>2. ASSUME NEW p \in Procs, StepOf(p) PROVE [Cookies!Next]_Cookies!vars
  <2>1. CASE broken' # {}
    <3>1. program' = program
      BY <1>2, OnlyOneMoves DEF FInv
    <3> QED
      BY <2>1, <3>1, AsBroken
  <2>2. CASE broken' = {}
    <3>1. ~CopyFails(p)
      BY <2>2 DEF CopyFails, Break
    <3> QED
      BY <1>2, <2>2, <3>1, CBegins, CWriting, CTerminate, CBeginRead, CReading, CMeasure,
         CStoreNext DEF StepOf
  <2> QED
    BY <2>1, <2>2
<1> QED
  BY <1>1, <1>2 DEF Next, Done, StepOf

LEMMA CookieInit == Init => Cookies!Init
PROOF
<1> SUFFICES ASSUME Init PROVE Cookies!Init
  OBVIOUS
<1>1. log = <<>> /\ Len(log) = 0 /\ rindex = 0 /\ shown = <<>> /\ broken = {}
  BY EmptySeq DEF Init
<1>2. PassedNow = 0
  <2>1. {k \in 1..Len(log) : EndOf(k) <= rindex} = {}
    BY <1>1
  <2> QED
    BY <2>1, FS_EmptySet DEF PassedNow
<1>3. BigNow = FALSE
  <2>1. \A p \in Procs : pc[p] = "idle" /\ loc[p].again = FALSE
    BY DEF Init, NoCall
  <2> QED
    BY <2>1 DEF BigNow
<1>4. (program = "fortune.c") \in BOOLEAN /\ TooLong \subseteq Messages
  BY DEF TooLong
<1> QED
  BY <1>1, <1>2, <1>3, <1>4 DEF Cookies!Init, PassedNow, BigNow, TooLong

(* Messages come back whole and in order, until the contract is broken.    *)
THEOREM CookiesComeInOrder == Spec => ImplementsCookieLog
PROOF BY FortuneKeeps, CookieInit, CookieStep, PTL DEF Spec, ImplementsCookieLog, Cookies!Spec
=============================================================================
