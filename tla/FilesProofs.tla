---------------------------- MODULE FilesProofs ----------------------------
(***************************************************************************)
(* Proofs about the programs around a file that others use, too:           *)
(* DgramServer, OpenFiles and DirWalk, for all values of their constants.  *)
(* MCFiles puts them together with Fortune, whose proofs are in            *)
(* FortuneProofs.                                                          *)
(***************************************************************************)
EXTENDS MCFiles, FiniteSetTheorems, SequenceTheorems, TLAPS

(* ---- DgramServer ---- *)

Words  == Clients \X Nat
Prints == Clients \X Nat \X Copies
Places == {"start", "ready", "socket", "serving", "failing", "broken", "closing",
           "closed", "failed", "killed"}

GTypeOK ==
  /\ spc \in [Copies -> Places]
  /\ socket \in Copies \cup {"none"}
  /\ queue \in [Copies -> Seq(Words)]
  /\ client \in [Clients -> [word : Nat, sent : Nat, state : {"reads", "eof", "ended"}]]
  /\ printed \in Seq(Prints)
  /\ intruders \subseteq Copies /\ robbed \subseteq Copies

(* Who has bound the name has it until it is robbed of it; who came to     *)
(* close_app without a bind never gets one.                                *)
NameIsHeld ==
  /\ \A s \in Copies : s \in intruders => spc[s] \in {"closing", "closed", "killed"}
  /\ \A s \in G!Bound : socket = s \/ s \in robbed
  /\ robbed # {} => intruders # {}
  /\ socket # "none" => socket \in G!Bound \/ spc[socket] \in {"killed", "failed"}

(* Datagrams wait only for a copy that has the socket open, and no word is *)
(* ahead of its client.                                                    *)
QueuesServed ==
  /\ \A s \in Copies : queue[s] # <<>> => spc[s] \in {"serving", "broken"}
  /\ \A k \in DOMAIN printed : printed[k][2] <= client[printed[k][1]].word
  /\ \A s \in Copies : \A k \in DOMAIN queue[s] :
        queue[s][k][2] <= client[queue[s][k][1]].word

(* What a copy has printed and what waits for it are in order, in this     *)
(* order; and over all copies while no name is removed.                    *)
InOrder ==
  /\ \A j, k \in DOMAIN printed :
       j < k /\ (printed[j][3] = printed[k][3] \/ robbed = {}) => G!Before(printed[j], printed[k])
  /\ \A s \in Copies : \A j, k \in DOMAIN queue[s] : j < k => G!Before(queue[s][j], queue[s][k])
  /\ \A s \in Copies : \A j \in DOMAIN printed, k \in DOMAIN queue[s] :
       printed[j][3] = s \/ robbed = {} => G!Before(printed[j], queue[s][k])

(* The order of what is printed needs that of the queue, and that there is *)
(* one queue only, which takes NameIsHeld.                                 *)
GInv == GTypeOK /\ NameIsHeld /\ QueuesServed /\ InOrder

LEMMA GInitInv == G!Init => GInv
PROOF
<1> SUFFICES ASSUME G!Init PROVE GInv
  OBVIOUS
<1> USE DEF G!Init
<1>1. GTypeOK
  BY DEF GTypeOK, Places
<1>2. DOMAIN printed = {} /\ \A s \in Copies : DOMAIN queue[s] = {}
  BY EmptySeq
<1>3. NameIsHeld
  BY FilesAssumption DEF NameIsHeld, G!Bound
<1>4. QueuesServed /\ InOrder
  BY <1>2 DEF QueuesServed, InOrder
<1> QED
  BY <1>1, <1>3, <1>4 DEF GInv

(* A step of a server that prints nothing and may lose its queue.          *)
LEMMA ServerMoves ==
  ASSUME GInv, UNCHANGED <<client, printed>>, robbed \subseteq robbed',
         \A s \in Copies : queue'[s] = queue[s] \/ queue'[s] = <<>>,
         \A s \in Copies : queue'[s] # <<>> => spc'[s] \in {"serving", "broken"}
  PROVE  QueuesServed' /\ InOrder'
PROOF
<1>1. robbed' = {} => robbed = {}
  OBVIOUS
<1>2. \A s \in Copies : DOMAIN queue'[s] = DOMAIN queue[s] \/ DOMAIN queue'[s] = {}
  BY EmptySeq
<1>3. \A s \in Copies : \A k \in DOMAIN queue'[s] :
        k \in DOMAIN queue[s] /\ queue'[s][k] = queue[s][k]
  BY <1>2, EmptySeq
<1>4. QueuesServed'
  BY <1>3 DEF GInv, QueuesServed
<1>5. InOrder'
  BY <1>1, <1>3 DEF GInv, InOrder, G!Before
<1> QED
  BY <1>4, <1>5

LEMMA SetHandlerStep == ASSUME GInv, NEW s \in Copies, G!SetHandler(s) PROVE GInv'
PROOF
<1> USE DEF G!SetHandler, G!Goto, G!history
<1>1. GTypeOK'
  BY DEF GInv, GTypeOK, Places
<1>2. NameIsHeld'
  BY DEF GInv, GTypeOK, NameIsHeld, G!Bound
<1>3. QueuesServed' /\ InOrder'
  BY ServerMoves DEF GInv, GTypeOK, QueuesServed
<1> QED
  BY <1>1, <1>2, <1>3 DEF GInv

LEMMA SocketStep == ASSUME GInv, NEW s \in Copies, G!Socket(s) PROVE GInv'
PROOF
<1> USE DEF G!Socket, G!Goto, G!history
<1>1. GTypeOK'
  BY DEF GInv, GTypeOK, Places
<1>2. NameIsHeld'
  BY DEF GInv, GTypeOK, NameIsHeld, G!Bound
<1>3. QueuesServed' /\ InOrder'
  BY ServerMoves DEF GInv, GTypeOK, QueuesServed
<1> QED
  BY <1>1, <1>2, <1>3 DEF GInv

LEMMA BindStep == ASSUME GInv, NEW s \in Copies, G!Bind(s) PROVE GInv'
PROOF
<1> USE DEF G!Bind, G!Goto, G!history
<1>1. GTypeOK'
  BY DEF GInv, GTypeOK, Places
<1>2. NameIsHeld'
  BY FilesAssumption DEF GInv, GTypeOK, NameIsHeld, G!Bound
<1>3. QueuesServed' /\ InOrder'
  BY ServerMoves DEF GInv, GTypeOK, QueuesServed
<1> QED
  BY <1>1, <1>2, <1>3 DEF GInv

LEMMA FailStep == ASSUME GInv, NEW s \in Copies, G!Fail(s) PROVE GInv'
PROOF
<1> USE DEF G!Fail, G!Goto, G!history
<1>1. GTypeOK'
  BY EmptySeq DEF GInv, GTypeOK, Places
<1>2. NameIsHeld'
  BY DEF GInv, GTypeOK, NameIsHeld, G!Bound
<1>3. QueuesServed' /\ InOrder'
  BY ServerMoves DEF GInv, GTypeOK, QueuesServed
<1> QED
  BY <1>1, <1>2, <1>3 DEF GInv

LEMMA CloseAppStep == ASSUME GInv, NEW s \in Copies, G!close_app(s) PROVE GInv'
PROOF
<1> USE DEF G!close_app, G!Goto, G!history
<1>1. GTypeOK'
  BY EmptySeq DEF GInv, GTypeOK, Places
<1>2. NameIsHeld'
  BY DEF GInv, GTypeOK, NameIsHeld, G!Bound
<1>3. QueuesServed' /\ InOrder'
  BY ServerMoves DEF GInv, GTypeOK, QueuesServed
<1> QED
  BY <1>1, <1>2, <1>3 DEF GInv

LEMMA UnlinkStep == ASSUME GInv, NEW s \in Copies, G!Unlink(s) PROVE GInv'
PROOF
<1> USE DEF G!Unlink, G!Goto, G!history
<1>1. GTypeOK'
  BY DEF GInv, GTypeOK, Places, G!Bound
<1>2. NameIsHeld'
  BY DEF GInv, GTypeOK, NameIsHeld, G!Bound
<1>3. QueuesServed' /\ InOrder'
  BY ServerMoves DEF GInv, GTypeOK, QueuesServed
<1> QED
  BY <1>1, <1>2, <1>3 DEF GInv

LEMMA KillStep == ASSUME GInv, NEW s \in Copies, G!Kill(s) PROVE GInv'
PROOF
<1> USE DEF G!Kill, G!Goto, G!history
<1>1. GTypeOK'
  BY EmptySeq DEF GInv, GTypeOK, Places
<1>2. NameIsHeld'
  BY DEF GInv, GTypeOK, NameIsHeld, G!Bound
<1>3. QueuesServed' /\ InOrder'
  BY ServerMoves DEF GInv, GTypeOK, QueuesServed
<1> QED
  BY <1>1, <1>2, <1>3 DEF GInv

(* The datagram at the head is lost. *)
LEMMA ReceiveFailsStep == ASSUME GInv, NEW s \in Copies, G!ReceiveFails(s) PROVE GInv'
PROOF
<1> USE DEF G!ReceiveFails, G!Goto, G!history
<1>0. queue[s] \in Seq(Words) /\ queue[s] # <<>>
  BY DEF GInv, GTypeOK
<1>1. /\ Tail(queue[s]) \in Seq(Words)
      /\ \A k \in DOMAIN Tail(queue[s]) :
            k + 1 \in DOMAIN queue[s] /\ Tail(queue[s])[k] = queue[s][k + 1] /\ k \in Nat
  BY <1>0, HeadTailProperties, EmptySeq, LenProperties
<1>2. \A t \in Copies : queue'[t] = IF t = s THEN Tail(queue[s]) ELSE queue[t]
  BY DEF GInv, GTypeOK
<1>3. GTypeOK'
  BY <1>1 DEF GInv, GTypeOK, Places
<1>4. NameIsHeld'
  BY DEF GInv, GTypeOK, NameIsHeld, G!Bound
<1>5. QueuesServed'
  <2>1. \A t \in Copies : queue'[t] # <<>> => spc'[t] \in {"serving", "broken"}
    BY <1>2 DEF GInv, GTypeOK, QueuesServed
  <2>2. \A t \in Copies : \A k \in DOMAIN queue'[t] :
          queue'[t][k][2] <= client[queue'[t][k][1]].word
    BY <1>1, <1>2 DEF GInv, QueuesServed
  <2> QED
    BY <2>1, <2>2 DEF GInv, QueuesServed
<1>6. InOrder'
  <2>1. \A m, o : G!Before(m, o)' <=> G!Before(m, o)
    BY DEF G!Before
  <2>2. \A j, k \in DOMAIN Tail(queue[s]) :
          j < k => G!Before(Tail(queue[s])[j], Tail(queue[s])[k])
    <3> TAKE j, k \in DOMAIN Tail(queue[s])
    <3> HAVE j < k
    <3>1. j + 1 < k + 1
      BY <1>1
    <3> QED
      BY <1>1, <3>1 DEF GInv, InOrder
  <2>3. \A j \in DOMAIN printed, k \in DOMAIN Tail(queue[s]) :
          printed[j][3] = s \/ robbed = {} => G!Before(printed[j], Tail(queue[s])[k])
    BY <1>1 DEF GInv, InOrder
  <2>4. \A t \in Copies : \A j, k \in DOMAIN queue'[t] :
          j < k => G!Before(queue'[t][j], queue'[t][k])
    BY <1>2, <2>2 DEF GInv, InOrder
  <2>5. \A t \in Copies : \A j \in DOMAIN printed, k \in DOMAIN queue'[t] :
          printed[j][3] = t \/ robbed = {} => G!Before(printed[j], queue'[t][k])
    BY <1>2, <2>3 DEF GInv, InOrder
  <2> QED
    BY <2>1, <2>4, <2>5 DEF GInv, InOrder
<1> QED
  BY <1>3, <1>4, <1>5, <1>6 DEF GInv

LEMMA ReceiveStep == ASSUME GInv, NEW s \in Copies, G!Receive(s) PROVE GInv'
PROOF
<1> DEFINE n == Head(queue[s])
           o == <<n[1], n[2], s>>
<1>0. /\ queue[s] \in Seq(Words) /\ queue[s] # <<>> /\ printed \in Seq(Prints)
      /\ spc[s] = "serving" /\ UNCHANGED <<spc, socket, client, intruders, robbed>>
      /\ queue' = [queue EXCEPT ![s] = Tail(@)]
  BY DEF GInv, GTypeOK, G!Receive, G!history
<1>1. /\ n \in Words /\ Tail(queue[s]) \in Seq(Words)
      /\ Len(queue[s]) \in Nat \ {0} /\ Len(printed) \in Nat
      /\ n = queue[s][1] /\ 1 \in DOMAIN queue[s]
      /\ \A k \in DOMAIN Tail(queue[s]) :
            k + 1 \in DOMAIN queue[s] /\ 1 < k + 1 /\ Tail(queue[s])[k] = queue[s][k + 1]
  BY <1>0, HeadTailProperties, EmptySeq, LenProperties
<1>a. o \in Prints /\ o[1] = n[1] /\ o[2] = n[2] /\ o[3] = s
  BY <1>1 DEF Words, Prints
<1>b. printed' = Append(printed, o)
  BY DEF G!Receive
<1> HIDE DEF o
<1>2. /\ printed' \in Seq(Prints)
      /\ \A k \in DOMAIN printed' : IF k = Len(printed) + 1 THEN printed'[k] = o
                                    ELSE k \in DOMAIN printed /\ printed'[k] = printed[k]
      /\ \A k \in DOMAIN printed : k < Len(printed) + 1
      /\ \A k \in DOMAIN printed' : k \in Nat /\ k <= Len(printed) + 1
  BY <1>0, <1>1, <1>a, <1>b, AppendProperties, LenProperties
<1>3. \A t \in Copies : queue'[t] = IF t = s THEN Tail(queue[s]) ELSE queue[t]
  BY <1>0 DEF GInv, GTypeOK
<1>4. GTypeOK'
  BY <1>0, <1>1, <1>2 DEF GInv, GTypeOK
<1>5. NameIsHeld'
  BY <1>0 DEF GInv, NameIsHeld, G!Bound
<1>6. QueuesServed'
  <2>1. o[2] <= client[o[1]].word
    BY <1>1, <1>a DEF GInv, QueuesServed
  <2>2. \A t \in Copies : queue'[t] # <<>> => spc'[t] \in {"serving", "broken"}
    BY <1>0, <1>3 DEF GInv, QueuesServed
  <2>3. \A k \in DOMAIN printed' : printed'[k][2] <= client'[printed'[k][1]].word
    BY <1>0, <1>2, <2>1 DEF GInv, QueuesServed
  <2>4. \A t \in Copies : \A k \in DOMAIN queue'[t] :
          queue'[t][k][2] <= client'[queue'[t][k][1]].word
    BY <1>0, <1>1, <1>3 DEF GInv, QueuesServed
  <2> QED
    BY <2>2, <2>3, <2>4 DEF QueuesServed
<1>7. InOrder'
  <2>1. \A m, q : G!Before(m, q)' <=> G!Before(m, q)
    BY <1>0 DEF G!Before
  <2>a. \A m : G!Before(n, m) => G!Before(o, m)
    BY <1>a DEF G!Before
  <2>b. \A m : G!Before(m, n) => G!Before(m, o)
    BY <1>a DEF G!Before
  <2>2. \A t \in Copies : t # s /\ robbed = {} => queue'[t] = <<>> /\ DOMAIN queue'[t] = {}
    BY <1>0, <1>3, EmptySeq DEF GInv, NameIsHeld, QueuesServed, G!Bound
  <2>3. \A j, k \in DOMAIN printed' :
          j < k /\ (printed'[j][3] = printed'[k][3] \/ robbed = {}) =>
            G!Before(printed'[j], printed'[k])
    <3>1. \A j \in DOMAIN printed : printed[j][3] = s \/ robbed = {} => G!Before(printed[j], o)
      BY <1>1, <2>b DEF GInv, InOrder
    <3>2. \A j, k \in DOMAIN printed :
            j < k /\ (printed[j][3] = printed[k][3] \/ robbed = {}) =>
              G!Before(printed[j], printed[k])
      BY DEF GInv, InOrder
    <3> SUFFICES ASSUME NEW j \in DOMAIN printed', NEW k \in DOMAIN printed', j < k,
                        printed'[j][3] = printed'[k][3] \/ robbed = {}
                 PROVE  G!Before(printed'[j], printed'[k])
      OBVIOUS
    <3>3. j # Len(printed) + 1 /\ j \in DOMAIN printed /\ printed'[j] = printed[j]
      BY <1>1, <1>2
    <3>4. CASE k = Len(printed) + 1
      BY <1>2, <1>a, <3>1, <3>3, <3>4
    <3>5. CASE k # Len(printed) + 1
      BY <1>2, <3>2, <3>3, <3>5
    <3> QED
      BY <3>4, <3>5
  <2>4. \A j, k \in DOMAIN Tail(queue[s]) :
          j < k => G!Before(Tail(queue[s])[j], Tail(queue[s])[k])
    <3> TAKE j, k \in DOMAIN Tail(queue[s])
    <3> HAVE j < k
    <3>1. j \in Nat /\ k \in Nat /\ j + 1 < k + 1
      BY <1>0, <1>1, LenProperties
    <3> QED
      BY <1>1, <3>1 DEF GInv, InOrder
  <2>5. \A j \in DOMAIN printed', k \in DOMAIN Tail(queue[s]) :
          printed'[j][3] = s \/ robbed = {} => G!Before(printed'[j], Tail(queue[s])[k])
    <3>1. \A j \in DOMAIN printed, k \in DOMAIN Tail(queue[s]) :
            printed[j][3] = s \/ robbed = {} => G!Before(printed[j], queue[s][k + 1])
      BY <1>1 DEF GInv, InOrder
    <3>2. ASSUME NEW k \in DOMAIN Tail(queue[s]) PROVE G!Before(o, queue[s][k + 1])
      BY <1>1, <2>a DEF GInv, InOrder
    <3> SUFFICES ASSUME NEW j \in DOMAIN printed', NEW k \in DOMAIN Tail(queue[s]),
                        printed'[j][3] = s \/ robbed = {}
                 PROVE  G!Before(printed'[j], queue[s][k + 1])
      BY <1>1
    <3>3. CASE j = Len(printed) + 1
      BY <1>2, <3>2, <3>3
    <3>4. CASE j # Len(printed) + 1
      BY <1>2, <3>1, <3>4
    <3> QED
      BY <3>3, <3>4
  <2>6. ASSUME NEW t \in Copies, t # s, NEW j \in DOMAIN printed', NEW k \in DOMAIN queue[t],
               printed'[j][3] = t \/ robbed = {}
        PROVE  G!Before(printed'[j], queue[t][k])
    <3>1. robbed # {}
      BY <1>3, <2>2, <2>6
    <3>2. printed'[j][3] = t /\ j \in DOMAIN printed /\ printed'[j] = printed[j]
      BY <1>2, <1>a, <2>6, <3>1
    <3> QED
      BY <3>2 DEF GInv, InOrder
  <2>7. \A t \in Copies : \A j, k \in DOMAIN queue'[t] :
          j < k => G!Before(queue'[t][j], queue'[t][k])
    BY <1>3, <2>4 DEF GInv, InOrder
  <2>8. \A t \in Copies : \A j \in DOMAIN printed', k \in DOMAIN queue'[t] :
          printed'[j][3] = t \/ robbed = {} => G!Before(printed'[j], queue'[t][k])
    <3>1. ASSUME NEW t \in Copies, NEW j \in DOMAIN printed', NEW k \in DOMAIN queue'[t],
                 printed'[j][3] = t \/ robbed = {}
          PROVE  G!Before(printed'[j], queue'[t][k])
      <4>1. CASE t = s
        <5>1. queue'[t] = Tail(queue[s])
          BY <1>3, <4>1
        <5> QED
          BY <2>5, <3>1, <4>1, <5>1
      <4>2. CASE t # s
        <5>1. queue'[t] = queue[t]
          BY <1>3, <4>2
        <5> QED
          BY <2>6, <3>1, <4>2, <5>1
      <4> QED
        BY <4>1, <4>2
    <3> QED
      BY <3>1
  <2> QED
    BY <1>0, <2>1, <2>3, <2>7, <2>8 DEF InOrder
<1> QED
  BY <1>4, <1>5, <1>6, <1>7 DEF GInv

(* A client's step: its words only grow, and its input ends for good.      *)
LEMMA ClientMoves ==
  ASSUME GInv, client' \in [Clients -> [word : Nat, sent : Nat, state : {"reads", "eof", "ended"}]],
         \A d \in Clients : /\ client[d].word <= client'[d].word
                            /\ client'[d].state = "reads" => client[d].state = "reads"
  PROVE  /\ \A m, n : m[1] \in Clients /\ G!Before(m, n) => G!Before(m, n)'
         /\ \A m : m[1] \in Clients /\ m[2] \in Nat /\ m[2] <= client[m[1]].word =>
              m[2] <= client'[m[1]].word
PROOF
<1>1. \A m, n : m[1] \in Clients /\ G!Before(m, n) => G!Before(m, n)'
  BY DEF G!Before
<1>2. ASSUME NEW m, m[1] \in Clients, m[2] \in Nat, m[2] <= client[m[1]].word
      PROVE  m[2] <= client'[m[1]].word
  <2>1. client[m[1]].word \in Nat /\ client'[m[1]].word \in Nat
        /\ client[m[1]].word <= client'[m[1]].word
    BY <1>2 DEF GInv, GTypeOK
  <2> QED
    BY <1>2, <2>1
<1> QED
  BY <1>1, <1>2

LEMMA WordsWait ==
  ASSUME GInv
  PROVE  /\ \A k \in DOMAIN printed : printed[k][1] \in Clients /\ printed[k][2] \in Nat
         /\ \A s \in Copies : \A k \in DOMAIN queue[s] :
              queue[s][k] \in Words /\ queue[s][k][1] \in Clients /\ queue[s][k][2] \in Nat
PROOF
<1>1. \A k \in DOMAIN printed : printed[k] \in Prints
  BY ElementOfSeq, LenProperties DEF GInv, GTypeOK
<1>2. \A s \in Copies : \A k \in DOMAIN queue[s] : queue[s][k] \in Words
  BY ElementOfSeq, LenProperties DEF GInv, GTypeOK
<1> QED
  BY <1>1, <1>2 DEF Prints, Words

LEMMA ClientEndsStep == ASSUME GInv, NEW d \in Clients, G!ClientEnds(d) PROVE GInv'
PROOF
<1> USE DEF G!ClientEnds, G!serverVars, G!history
<1>0. client[d] \in [word : Nat, sent : Nat, state : {"reads", "eof", "ended"}]
  BY DEF GInv, GTypeOK
<1>1. client' \in [Clients -> [word : Nat, sent : Nat, state : {"reads", "eof", "ended"}]]
  BY <1>0 DEF GInv, GTypeOK
<1>2. \A e \in Clients : /\ client'[e].word = client[e].word /\ client[e].word \in Nat
                         /\ client'[e].state = "reads" => client[e].state = "reads"
  BY <1>0 DEF GInv, GTypeOK
<1>3. \A e \in Clients : client[e].word <= client'[e].word
  BY <1>2
<1>4. GTypeOK' /\ NameIsHeld'
  BY <1>1 DEF GInv, GTypeOK, NameIsHeld, G!Bound
<1>5. QueuesServed'
  BY <1>1, <1>2, <1>3, ClientMoves, WordsWait DEF GInv, QueuesServed
<1>6. InOrder'
  BY <1>1, <1>2, <1>3, ClientMoves, WordsWait DEF GInv, InOrder
<1> QED
  BY <1>4, <1>5, <1>6 DEF GInv

(* A new word is ahead of every one before, and the last word again is     *)
(* behind none; both go behind what waits.                                 *)
LEMMA SendStep == ASSUME GInv, NEW d \in Clients, G!Send(d) PROVE GInv'
PROOF
<1> USE DEF G!serverVars, G!history
<1>0. /\ client[d] \in [word : Nat, sent : Nat, state : {"reads", "eof", "ended"}]
      /\ client[d].state \in {"reads", "eof"}
      /\ UNCHANGED <<spc, socket, recv_len, intruders, robbed, printed>>
  BY DEF GInv, GTypeOK, G!Send
<1>1. PICK state \in {client[d].state, "eof"}, word \in Nat :
        /\ word = IF state = "eof" THEN client[d].word ELSE client[d].word + 1
        /\ client' = [client EXCEPT ![d] = [word |-> word, sent |-> client[d].sent + 1, state |-> state]]
        /\ IF socket # "none" /\ spc[socket] \in {"serving", "broken"}
           THEN queue' = [queue EXCEPT ![socket] = Append(queue[socket], <<d, word>>)]
           ELSE UNCHANGED queue
  <2>1. PICK state \in {client[d].state, "eof"} :
          LET word == IF state = "eof" THEN client[d].word ELSE client[d].word + 1
          IN  /\ client' = [client EXCEPT ![d] = [word |-> word, sent |-> client[d].sent + 1, state |-> state]]
              /\ IF socket # "none" /\ spc[socket] \in {"serving", "broken"}
                 THEN queue' = [queue EXCEPT ![socket] = Append(queue[socket], <<d, word>>)]
                 ELSE UNCHANGED queue
    BY DEF G!Send, GInv, GTypeOK
  <2> DEFINE w == IF state = "eof" THEN client[d].word ELSE client[d].word + 1
  <2>2. w \in Nat
    BY <1>0
  <2> QED
    BY <2>1, <2>2
<1> DEFINE n == <<d, word>>
<1>2. client' \in [Clients -> [word : Nat, sent : Nat, state : {"reads", "eof", "ended"}]]
  <2>1. [word |-> word, sent |-> client[d].sent + 1, state |-> state]
          \in [word : Nat, sent : Nat, state : {"reads", "eof", "ended"}]
    BY <1>0
  <2> QED
    BY <1>1, <2>1 DEF GInv, GTypeOK
<1>3. /\ client'[d].word = word /\ client'[d].state = state
      /\ \A e \in Clients : e # d => client'[e] = client[e]
  BY <1>1 DEF GInv, GTypeOK
<1>4. \A e \in Clients : /\ client[e].word <= client'[e].word
                         /\ client'[e].state = "reads" => client[e].state = "reads"
  <2>1. client[d].word <= word /\ (state = "reads" => client[d].state = "reads")
    BY <1>0, <1>1
  <2>2. \A e \in Clients : client[e].word \in Nat
    BY DEF GInv, GTypeOK
  <2> QED
    BY <1>3, <2>1, <2>2
<1>5. n \in Words /\ n[1] = d /\ n[2] = word
  BY DEF Words
<1>6. ASSUME NEW m, m[2] \in Nat, m[2] <= client[m[1]].word PROVE G!Before(m, n)'
  <2> SUFFICES ASSUME m[1] = d PROVE m[2] < word \/ (m[2] = word /\ state # "reads")
    BY <1>3, <1>5 DEF G!Before
  <2>1. m[2] \in Nat /\ m[2] <= client[d].word
    BY <1>6
  <2> QED
    BY <1>0, <1>1, <2>1
<1> HIDE DEF n
<1>7. CASE UNCHANGED queue
  <2>1. GTypeOK' /\ NameIsHeld'
    BY <1>0, <1>2, <1>7 DEF GInv, GTypeOK, NameIsHeld, G!Bound
  <2>2. QueuesServed'
    BY <1>0, <1>2, <1>4, <1>7, ClientMoves, WordsWait DEF GInv, QueuesServed
  <2>3. InOrder'
    BY <1>0, <1>2, <1>4, <1>7, ClientMoves, WordsWait DEF GInv, InOrder
  <2> QED
    BY <2>1, <2>2, <2>3 DEF GInv
<1>8. CASE /\ socket # "none" /\ spc[socket] \in {"serving", "broken"}
           /\ queue' = [queue EXCEPT ![socket] = Append(queue[socket], n)]
  <2> DEFINE q == queue[socket]
  <2>1. socket \in Copies /\ q \in Seq(Words)
    BY <1>8 DEF GInv, GTypeOK
  <2>2. /\ \A s \in Copies : s # socket => queue'[s] = queue[s]
        /\ queue'[socket] = Append(q, n)
    BY <1>8, <2>1 DEF GInv, GTypeOK
  <2>3. /\ Append(q, n) \in Seq(Words)
        /\ Len(q) \in Nat /\ \A k \in DOMAIN q : k \in Nat /\ k < Len(q) + 1
        /\ \A k \in DOMAIN Append(q, n) :
              /\ k \in Nat /\ k <= Len(q) + 1
              /\ IF k = Len(q) + 1 THEN Append(q, n)[k] = n
                 ELSE k \in DOMAIN q /\ Append(q, n)[k] = q[k]
    BY <1>5, <2>1, AppendProperties, LenProperties
  <2>4. GTypeOK' /\ NameIsHeld'
    BY <1>0, <1>2, <1>8, <2>1, <2>3 DEF GInv, GTypeOK, NameIsHeld, G!Bound
  <2>5. \A k \in DOMAIN printed : printed[k][2] <= client[printed[k][1]].word
    BY DEF GInv, QueuesServed
  <2>6. \A k \in DOMAIN q : q[k][2] <= client[q[k][1]].word
    BY <2>1 DEF GInv, QueuesServed
  <2>7. \A k \in DOMAIN q : q[k][1] \in Clients /\ q[k][2] \in Nat
    BY <2>1, WordsWait
  <2> HIDE DEF q
  <2>8. QueuesServed'
    <3>1. n[2] <= client'[n[1]].word
      BY <1>3, <1>5
    <3>2. \A s \in Copies : queue'[s] # <<>> => spc'[s] \in {"serving", "broken"}
      BY <1>0, <1>8, <2>2 DEF GInv, QueuesServed
    <3>3. \A k \in DOMAIN printed : printed[k][2] <= client'[printed[k][1]].word
      BY <1>2, <1>4, <2>5, ClientMoves, WordsWait
    <3>4. \A k \in DOMAIN Append(q, n) : Append(q, n)[k][2] <= client'[Append(q, n)[k][1]].word
      BY <1>2, <1>4, <2>3, <2>6, <2>7, <3>1, ClientMoves
    <3>5. \A s \in Copies : s # socket =>
            \A k \in DOMAIN queue[s] : queue[s][k][2] <= client'[queue[s][k][1]].word
      BY <1>2, <1>4, ClientMoves, WordsWait DEF GInv, QueuesServed
    <3> QED
      BY <1>0, <2>2, <3>2, <3>3, <3>4, <3>5 DEF QueuesServed
  <2>9. InOrder'
    <3> DEFINE After(m, o) == m[1] = o[1] =>
                 m[2] < o[2] \/ (m[2] = o[2] /\ client'[m[1]].state # "reads")
    <3>1. \A m, o : m[1] \in Clients /\ G!Before(m, o) => After(m, o)
      BY <1>2, <1>4, ClientMoves DEF G!Before
    <3>3. ASSUME NEW m, m[2] \in Nat, m[2] <= client[m[1]].word PROVE After(m, n)
      BY <1>6, <3>3 DEF G!Before
    <3> HIDE DEF After
    <3>4. \A j, k \in DOMAIN printed :
            j < k /\ (printed[j][3] = printed[k][3] \/ robbed = {}) => After(printed[j], printed[k])
      BY <3>1, WordsWait DEF GInv, InOrder
    <3>5. \A s \in Copies : \A j, k \in DOMAIN queue[s] : j < k => After(queue[s][j], queue[s][k])
      BY <3>1, WordsWait DEF GInv, InOrder
    <3>6. \A s \in Copies : \A j \in DOMAIN printed, k \in DOMAIN queue[s] :
            printed[j][3] = s \/ robbed = {} => After(printed[j], queue[s][k])
      BY <3>1, WordsWait DEF GInv, InOrder
    <3>7. \A j \in DOMAIN printed : After(printed[j], n)
      BY <2>5, <3>3, WordsWait
    <3>8. \A j \in DOMAIN q : After(q[j], n)
      BY <2>6, <2>7, <3>3
    <3>9. \A j, k \in DOMAIN Append(q, n) : j < k => After(Append(q, n)[j], Append(q, n)[k])
      <4>1. \A j, k \in DOMAIN q : j < k => After(q[j], q[k])
        BY <2>1, <3>5 DEF q
      <4> QED
        BY <2>3, <3>8, <4>1
    <3>10. \A j \in DOMAIN printed, k \in DOMAIN Append(q, n) :
             printed[j][3] = socket \/ robbed = {} => After(printed[j], Append(q, n)[k])
      <4>1. \A j \in DOMAIN printed, k \in DOMAIN q :
              printed[j][3] = socket \/ robbed = {} => After(printed[j], q[k])
        BY <2>1, <3>6 DEF q
      <4> QED
        BY <2>3, <3>7, <4>1
    <3>11. \A s \in Copies : \A j, k \in DOMAIN queue'[s] :
             j < k => After(queue'[s][j], queue'[s][k])
      BY <2>2, <3>5, <3>9
    <3>12. \A s \in Copies : \A j \in DOMAIN printed, k \in DOMAIN queue'[s] :
             printed[j][3] = s \/ robbed = {} => After(printed[j], queue'[s][k])
      BY <2>2, <3>6, <3>10
    <3>13. printed' = printed /\ robbed' = robbed
      BY <1>0
    <3> QED
      BY <3>4, <3>11, <3>12, <3>13 DEF InOrder, G!Before, After
  <2> QED
    BY <2>4, <2>8, <2>9 DEF GInv
<1> QED
  BY <1>1, <1>7, <1>8 DEF n


LEMMA GNextInv == GInv /\ [G!Next]_(G!vars) => GInv'
PROOF
<1> SUFFICES ASSUME GInv, [G!Next]_(G!vars) PROVE GInv'
  OBVIOUS
<1>1. ASSUME NEW s \in Copies,
             \/ G!SetHandler(s) \/ G!Socket(s) \/ G!Bind(s) \/ G!Receive(s)
             \/ G!ReceiveFails(s) \/ G!Fail(s) \/ G!close_app(s) \/ G!Unlink(s) \/ G!Kill(s)
      PROVE  GInv'
  BY <1>1, SetHandlerStep, SocketStep, BindStep, ReceiveStep, ReceiveFailsStep, FailStep,
     CloseAppStep, UnlinkStep, KillStep
<1>2. ASSUME NEW d \in Clients, G!Send(d) \/ G!ClientEnds(d) PROVE GInv'
  BY <1>2, SendStep, ClientEndsStep
<1>3. CASE UNCHANGED G!vars
  BY <1>3 DEF G!vars, G!serverVars, G!history, GInv, GTypeOK, NameIsHeld, QueuesServed, InOrder,
              G!Before, G!Bound
<1> QED
  BY <1>1, <1>2, <1>3 DEF G!Next, G!Done

LEMMA GSafe == GInv => OneServer
PROOF BY DEF GInv, NameIsHeld, InOrder, OneServer, G!OneServer

(* However many copies and clients come and go: who has bound the name has *)
(* it unless another one removed it, which takes an interrupt of a copy    *)
(* without a bind, and the words of a client are printed in order.         *)
THEOREM OneCopyServes == G!Spec => []OneServer
PROOF BY GInitInv, GNextInv, GSafe, PTL DEF G!Spec

(* The same in the composition of the programs.                            *)
THEOREM FilesHaveOneServer == FilesSpec => []OneServer
PROOF
<1>1. Start => GInv
  BY GInitInv DEF Start
<1>2. GInv /\ [Step]_<<which, vars, ovars, dvars, gvars>> => GInv'
  <2> SUFFICES ASSUME GInv, [Step]_<<which, vars, ovars, dvars, gvars>> PROVE GInv'
    OBVIOUS
  <2>1. UNCHANGED gvars => UNCHANGED G!vars
    BY DEF gvars, G!vars, G!serverVars, G!history
  <2> QED
    BY <2>1, GNextInv DEF Step
<1> QED
  BY <1>1, <1>2, GSafe, PTL DEF FilesSpec

(* ---- OpenFiles ---- *)

Half == Letters \div 2

OTypeOK ==
  /\ lab5 \in O!Readers \cup O!Writers
  /\ main \in {"create", "create_second", "join", "run", "done", "failed"}
  /\ turn \in O!Both
  /\ lpc \in [O!Both -> {"none", "start", "write", "open", "ended"}]
  /\ offset \in [O!Both -> Nat] /\ buf \in [O!Both -> Seq(Nat)]
  /\ c \in [O!Both -> Nat] /\ flag \in [O!Both -> BOOLEAN]
  /\ out \in Seq(O!Both \X Nat)

(* Who reads finds the alphabet; who writes prints nothing.                *)
Roles ==
  /\ lab5 \in O!Readers => /\ file = [k \in 1..FileLen |-> k]
                           /\ \A s \in O!Both : offset[s] <= FileLen
                           /\ \A s \in O!Both : lpc[s] # "open"
  /\ lab5 \in O!Writers => out = <<>>
  /\ \A s \in O!Both : lpc[s] = "write" => lab5 = "2_1.c"

(* 1.c: a buffer holds consecutive letters, all past what its stream has   *)
(* printed and none past the offset.                                       *)
BuffersRun ==
  lab5 = "1.c" =>
    /\ \A s \in O!Both : \A k \in 1..Len(buf[s]) :
          /\ buf[s][k] \in 1..offset[1]
          /\ buf[s][k] = buf[s][1] + k - 1
    /\ \A k \in DOMAIN out : /\ out[k][2] \in 1..offset[1]
                             /\ \A j \in 1..Len(buf[out[k][1]]) : out[k][2] < buf[out[k][1]][j]

(* 2_1.c: a thread holds the letter before its offset, or has printed it.  *)
ThreadsCopy ==
  lab5 = "2_1.c" =>
    /\ \A s \in O!Both : lpc[s] = "write" => c[s] = offset[s] /\ offset[s] > 0
    /\ \A k \in DOMAIN out : /\ out[k][2] \in 1..offset[out[k][1]]
                             /\ lpc[out[k][1]] = "write" => out[k][2] < offset[out[k][1]]

(* 2.c: the two descriptors take turns, and c is the letter read last.     *)
TurnsCopy ==
  lab5 = "2.c" =>
    /\ main \in {"run", "done"}
    /\ \A k \in DOMAIN out : out[k][2] \in 1..offset[out[k][1]]
    /\ main = "run" =>
         /\ c[1] = offset[1] /\ flag[2]
         /\ turn = 1 => flag[1] /\ offset[2] = offset[1]
         /\ turn = 2 => IF flag[1] THEN offset[1] = offset[2] + 1
                                   ELSE offset[1] = FileLen /\ offset[2] = FileLen

(* The writers' buffers hold their own letters below c, and until main     *)
(* ends the file holds nothing or one stream's letters.                    *)
Own(s, n) == [k \in 1..n |-> 2 * k - (IF s = 1 THEN 1 ELSE 0)]
OwnLetters(s) == IF s = 1 THEN c[s] \div 2 ELSE (c[s] - 1) \div 2
WritersBuffer ==
  lab5 \in O!Writers =>
    /\ \A s \in O!Both :
         /\ c[s] \in 1..Letters + 1
         /\ lpc[s] \in {"none", "start"} => c[s] = 1 /\ buf[s] = <<>>
         /\ lpc[s] = "open" =>
              /\ offset[s] = 0
              /\ buf[s] = Own(s, OwnLetters(s))
    /\ ~O!threads => c[1] = c[2]
    /\ O!Runs => file \in Seq(Nat) /\ Len(file) <= Half

(* A thread that main has not made yet has not begun.                      *)
MadeInTurn ==
  /\ main = "create" => \A s \in O!Both : lpc[s] = "none"
  /\ main = "create_second" => lpc[O!Other(O!FirstThread)] = "none"

(* EveryLetterAccounted is inductive with these.                           *)
OInv == /\ OTypeOK /\ Roles /\ BuffersRun /\ ThreadsCopy /\ TurnsCopy /\ WritersBuffer
        /\ MadeInTurn
        /\ EveryLetterAccounted

LEMMA Two == /\ O!Both = {1, 2} /\ 1 \in O!Both /\ 2 \in O!Both /\ O!Both \subseteq Nat
             /\ \A s \in O!Both : O!Other(s) \in O!Both /\ O!Other(s) # s
             /\ O!FirstThread \in O!Both
PROOF BY DEF O!Both, O!Other, O!FirstThread

LEMMA Programs ==
  /\ O!Readers \cap O!Writers = {}
  /\ "1.c" \in O!Readers /\ "2.c" \in O!Readers /\ "2_1.c" \in O!Readers
  /\ ~("1.c" \in O!Threaded) /\ ~("2.c" \in O!Threaded) /\ "2_1.c" \in O!Threaded
  /\ O!Readers = {"1.c", "2.c", "2_1.c"}
PROOF BY DEF O!Readers, O!Writers, O!Threaded

LEMMA SameCardinality == \A S : O!Cardinality(S) = Cardinality(S)
PROOF BY Zenon DEF O!Cardinality, Cardinality, O!IsFiniteSet, IsFiniteSet

LEMMA ToldIsNat ==
  ASSUME out \in Seq(O!Both \X Nat), NEW s, NEW letter
  PROVE  /\ O!Told(s, letter) \in Nat
         /\ IsFiniteSet({k \in DOMAIN out : out[k] = <<s, letter>>})
PROOF
<1>1. Len(out) \in Nat /\ DOMAIN out = 1..Len(out)
  BY LenProperties
<1>2. IsFiniteSet(DOMAIN out)
  BY <1>1, FS_Interval
<1>3. IsFiniteSet({k \in DOMAIN out : out[k] = <<s, letter>>})
  BY <1>2, FS_Subset
<1> QED
  BY <1>3, FS_CardinalityType, SameCardinality DEF O!Told

(* What is printed once more.                                              *)
ToldOnce(s, letter, t, m) ==
  /\ O!Told(s, letter)' = O!Told(s, letter) + (IF s = t /\ letter = m THEN 1 ELSE 0)
  /\ O!Told(s, letter) \in Nat

LEMMA ToldAppend ==
  ASSUME out \in Seq(O!Both \X Nat), NEW t \in O!Both, NEW m \in Nat,
         out' = Append(out, <<t, m>>), NEW s, NEW letter
  PROVE  ToldOnce(s, letter, t, m)
PROOF
<1> SUFFICES /\ O!Told(s, letter)' = O!Told(s, letter) + (IF s = t /\ letter = m THEN 1 ELSE 0)
             /\ O!Told(s, letter) \in Nat
  BY DEF ToldOnce
<1> DEFINE P == {k \in DOMAIN out : out[k] = <<s, letter>>}
           Q == {k \in DOMAIN out' : out'[k] = <<s, letter>>}
<1>1. /\ Len(out) \in Nat /\ DOMAIN out = 1..Len(out) /\ DOMAIN out' = 1..Len(out) + 1
      /\ out'[Len(out) + 1] = <<t, m>>
      /\ \A k \in 1..Len(out) : out'[k] = out[k]
  <2>1. <<t, m>> \in O!Both \X Nat
    OBVIOUS
  <2> QED
    BY <2>1, AppendProperties, LenProperties
<1>0. O!Told(s, letter) = Cardinality(P) /\ O!Told(s, letter)' = Cardinality(Q)
  BY SameCardinality DEF O!Told
<1>2. IsFiniteSet(P) /\ Len(out) + 1 \notin P /\ Cardinality(P) \in Nat
  <2>1. IsFiniteSet(P)
    BY ToldIsNat
  <2>2. Len(out) + 1 \notin P
    BY <1>1
  <2>3. Cardinality(P) \in Nat
    <3> HIDE DEF P
    <3> QED
      BY <2>1, FS_CardinalityType
  <2> QED
    BY <2>1, <2>2, <2>3
<1>3. CASE s = t /\ letter = m
  <2>1. Q = P \cup {Len(out) + 1}
    BY <1>1, <1>3
  <2>2. Cardinality(Q) = Cardinality(P) + 1
    <3> HIDE DEF P, Q
    <3> QED
      BY <1>2, <2>1, FS_AddElement
  <2> HIDE DEF P, Q
  <2> QED
    BY <1>0, <1>2, <1>3, <2>2
<1>4. CASE ~(s = t /\ letter = m)
  <2>1. Q = P
    BY <1>1, <1>4
  <2> HIDE DEF P, Q
  <2> QED
    BY <1>0, <1>2, <1>4, <2>1
<1> QED
  BY <1>3, <1>4

LEMMA OInitInv == O!Init => OInv
PROOF
<1> SUFFICES ASSUME O!Init PROVE OInv
  OBVIOUS
<1> USE Two, Programs DEF O!Init
<1>0. DOMAIN out = {} /\ Len(out) = 0 /\ \A s \in O!Both : Len(buf[s]) = 0
  BY EmptySeq
<1>1. OTypeOK
  <2>1. main \in {"create", "create_second", "join", "run", "done", "failed"}
    OBVIOUS
  <2>2. lpc \in [O!Both -> {"none", "start", "write", "open", "ended"}]
    OBVIOUS
  <2>3. c \in [O!Both -> Nat] /\ offset \in [O!Both -> Nat] /\ flag \in [O!Both -> BOOLEAN]
    OBVIOUS
  <2>4. buf \in [O!Both -> Seq(Nat)] /\ out \in Seq(O!Both \X Nat)
    BY EmptySeq
  <2> QED
    BY <2>1, <2>2, <2>3, <2>4 DEF OTypeOK
<1>2. Roles
  BY FilesAssumption DEF Roles
<1>3. BuffersRun /\ ThreadsCopy
  BY <1>0 DEF BuffersRun, ThreadsCopy
<1>4. TurnsCopy
  BY <1>0 DEF TurnsCopy, O!threads
<1>5. WritersBuffer
  <2>1. Half \in Nat /\ Letters \in Nat
    BY FilesAssumption DEF Half
  <2>2. ASSUME lab5 \in O!Writers PROVE file \in Seq(Nat) /\ Len(file) <= Half
    BY <2>1, <2>2, EmptySeq
  <2> QED
    BY <2>1, <2>2 DEF WritersBuffer
<1>6. EveryLetterAccounted
  <2>1. \A s, letter : O!Told(s, letter) = 0
    BY <1>0, FS_EmptySet, SameCardinality DEF O!Told
  <2>2. \A letter : ~O!Contains(buf[1], letter) /\ ~O!Contains(buf[2], letter)
    BY <1>0 DEF O!Contains
  <2>3. \A letter \in 1..FileLen : \A s \in O!Both :
          letter > offset[s] /\ lpc[s] # "write" /\ flag[s]
    OBVIOUS
  <2> QED
    BY <1>0, <2>1, <2>2, <2>3 DEF EveryLetterAccounted, O!EveryLetterAccounted, O!One
<1>7. MadeInTurn
  BY DEF MadeInTurn, O!threads
<1> QED
  BY <1>1, <1>2, <1>3, <1>4, <1>5, <1>6, <1>7 DEF OInv

LEMMA OutAppend ==
  ASSUME out \in Seq(O!Both \X Nat), NEW t \in O!Both, NEW m \in Nat,
         out' = Append(out, <<t, m>>)
  PROVE  /\ out' \in Seq(O!Both \X Nat)
         /\ Len(out) \in Nat
         /\ \A k \in DOMAIN out : k \in Nat /\ k < Len(out) + 1
         /\ \A k \in DOMAIN out' :
              /\ k \in Nat /\ k <= Len(out) + 1
              /\ IF k = Len(out) + 1 THEN out'[k] = <<t, m>>
                 ELSE k \in DOMAIN out /\ out'[k] = out[k]
PROOF
<1>1. <<t, m>> \in O!Both \X Nat
  OBVIOUS
<1> QED
  BY <1>1, AppendProperties, LenProperties

(* The part of EveryLetterAccounted about the order of what was printed.   *)
OutOrdered ==
  /\ \A k \in DOMAIN out : out[k][2] \in 1..FileLen
  /\ \A j, k \in DOMAIN out :
       j < k /\ out[j][1] = out[k][1] =>
         out[j][2] < out[k][2] \/ (lab5 = "2.c" /\ out[j][2] = out[k][2])

(* It lasts when what is printed next is past what was printed before.     *)
LEMMA OrderKept ==
  ASSUME EveryLetterAccounted, out \in Seq(O!Both \X Nat), lab5' = lab5,
         NEW s \in O!Both, NEW m \in 1..FileLen, out' = Append(out, <<s, m>>),
         \A k \in DOMAIN out : out[k][1] = s =>
           out[k][2] < m \/ (lab5 = "2.c" /\ out[k][2] = m)
  PROVE  OutOrdered'
PROOF
<1>1. m \in Nat
  BY FilesAssumption
<1>2. /\ Len(out) \in Nat
      /\ \A k \in DOMAIN out : k \in Nat /\ k < Len(out) + 1
      /\ \A k \in DOMAIN out' :
           /\ k \in Nat /\ k <= Len(out) + 1
           /\ IF k = Len(out) + 1 THEN out'[k] = <<s, m>>
              ELSE k \in DOMAIN out /\ out'[k] = out[k]
  BY <1>1, OutAppend
<1>3. OutOrdered
  BY DEF OutOrdered, EveryLetterAccounted, O!EveryLetterAccounted
<1>4. \A k \in DOMAIN out' : out'[k][2] \in 1..FileLen
  <2> TAKE k \in DOMAIN out'
  <2>1. CASE k = Len(out) + 1
    <3>1. out'[k] = <<s, m>>
      BY <1>2, <2>1
    <3> QED
      BY <3>1
  <2>2. CASE k # Len(out) + 1
    <3>1. k \in DOMAIN out /\ out'[k] = out[k]
      BY <1>2, <2>2
    <3> QED
      BY <1>3, <3>1 DEF OutOrdered
  <2> QED
    BY <2>1, <2>2
<1>5. \A j, k \in DOMAIN out' :
        j < k /\ out'[j][1] = out'[k][1] =>
          out'[j][2] < out'[k][2] \/ (lab5' = "2.c" /\ out'[j][2] = out'[k][2])
  <2> SUFFICES ASSUME NEW j \in DOMAIN out', NEW k \in DOMAIN out',
                      j < k, out'[j][1] = out'[k][1]
               PROVE  out'[j][2] < out'[k][2] \/ (lab5 = "2.c" /\ out'[j][2] = out'[k][2])
    OBVIOUS
  <2>1. j \in DOMAIN out /\ out'[j] = out[j]
    BY <1>2
  <2>2. CASE k = Len(out) + 1
    <3>1. out'[k] = <<s, m>>
      BY <1>2, <2>2
    <3>2. out'[k][1] = s /\ out'[k][2] = m
      BY <3>1
    <3> QED
      BY <2>1, <3>2
  <2>3. CASE k # Len(out) + 1
    <3>1. k \in DOMAIN out /\ out'[k] = out[k]
      BY <1>2, <2>3
    <3> QED
      BY <1>3, <2>1, <3>1 DEF OutOrdered
  <2> QED
    BY <2>2, <2>3
<1> QED
  BY <1>4, <1>5 DEF OutOrdered

(* Nothing is printed or read; flag matters to 2.c only.                   *)
LEMMA LettersSame ==
  ASSUME EveryLetterAccounted, UNCHANGED <<lab5, lpc, offset, buf, c, out>>,
         flag' = flag \/ lab5 # "2.c"
  PROVE  EveryLetterAccounted'
PROOF
<1>1. \A s, letter : O!Told(s, letter)' = O!Told(s, letter)
  BY DEF O!Told
<1>2. OutOrdered'
  BY DEF OutOrdered, EveryLetterAccounted, O!EveryLetterAccounted
<1>3. \A letter \in 1..FileLen :
        /\ lab5' = "1.c" =>
             O!Told(1, letter)' + O!Told(2, letter)' + O!One(letter > offset'[1])
               + O!One(O!Contains(buf'[1], letter)) + O!One(O!Contains(buf'[2], letter)) = 1
        /\ \A s \in O!Both :
             lab5' = "2_1.c" =>
               O!Told(s, letter)' + O!One(lpc'[s] = "write" /\ c'[s] = letter)
                 + O!One(letter > offset'[s]) = 1
  BY <1>1 DEF EveryLetterAccounted, O!EveryLetterAccounted
<1>4. lab5' = "2.c" =>
        \A letter \in 1..FileLen : \A s \in O!Both :
          O!Told(s, letter)' + O!One(letter > offset'[s])
            = 1 + O!One(letter = FileLen /\ ~flag'[s])
  BY <1>1 DEF EveryLetterAccounted, O!EveryLetterAccounted
<1> QED
  BY <1>2, <1>3, <1>4 DEF OutOrdered, EveryLetterAccounted, O!EveryLetterAccounted

(* Consecutive letters without the first one.                              *)
Consecutive(q) == \A k \in 1..Len(q) : q[k] = q[1] + k - 1

LEMMA ConsecutiveTail ==
  ASSUME NEW q \in Seq(Nat), q # <<>>, Consecutive(q)
  PROVE  /\ Tail(q) \in Seq(Nat) /\ Consecutive(Tail(q)) /\ Head(q) = q[1] /\ q[1] \in Nat
         /\ Len(q) \in Nat \ {0}
         /\ \A k \in 1..Len(Tail(q)) : k + 1 \in 1..Len(q) /\ Tail(q)[k] = q[k + 1]
                                       /\ Tail(q)[k] > q[1]
         /\ \A letter \in Nat : O!One(O!Contains(q, letter))
              = O!One(letter = q[1]) + O!One(O!Contains(Tail(q), letter))
PROOF
<1>1. /\ Tail(q) \in Seq(Nat) /\ Head(q) = q[1]
      /\ Len(q) \in Nat \ {0} /\ Len(Tail(q)) = Len(q) - 1
      /\ \A k \in 1..Len(Tail(q)) : Tail(q)[k] = q[k + 1]
  BY HeadTailProperties, EmptySeq, LenProperties
<1>2. 1 \in 1..Len(q) /\ q[1] \in Nat
  BY <1>1, ElementOfSeq
<1>3. \A k \in 1..Len(Tail(q)) : k + 1 \in 1..Len(q) /\ k \in Nat \ {0}
  BY <1>1
<1>4. \A k \in 1..Len(Tail(q)) : Tail(q)[k] = q[1] + k
  <2> TAKE k \in 1..Len(Tail(q))
  <2>1. q[k + 1] = q[1] + (k + 1) - 1
    BY <1>3 DEF Consecutive
  <2> QED
    BY <1>1, <1>2, <1>3, <2>1
<1>5. Consecutive(Tail(q))
  <2> SUFFICES ASSUME NEW k \in 1..Len(Tail(q)) PROVE Tail(q)[k] = Tail(q)[1] + k - 1
    BY DEF Consecutive
  <2>1. k \in Nat \ {0} /\ 1 \in 1..Len(Tail(q))
    BY <1>1
  <2>2. Tail(q)[k] = q[1] + k
    BY <1>4
  <2>3. Tail(q)[1] = q[1] + 1
    BY <1>4, <2>1
  <2> QED
    BY <1>2, <2>1, <2>2, <2>3
<1>6. \A k \in 1..Len(Tail(q)) : Tail(q)[k] > q[1]
  <2> TAKE k \in 1..Len(Tail(q))
  <2>1. Tail(q)[k] = q[1] + k /\ k \in Nat \ {0}
    BY <1>3, <1>4
  <2> QED
    BY <1>2, <2>1
<1>7. ASSUME NEW letter \in Nat
      PROVE  O!Contains(q, letter) <=> letter = q[1] \/ O!Contains(Tail(q), letter)
  <2>1. ASSUME NEW k \in 1..Len(q), k # 1 PROVE k - 1 \in 1..Len(Tail(q)) /\ q[k] = Tail(q)[k - 1]
    <3>1. k - 1 \in 1..Len(Tail(q)) /\ (k - 1) + 1 = k
      BY <1>1, <2>1
    <3> QED
      BY <1>1, <3>1
  <2> QED
    BY <1>1, <1>2, <1>3, <2>1 DEF O!Contains
<1>8. \A letter \in Nat : O!Contains(Tail(q), letter) => letter # q[1]
  BY <1>6, <1>2 DEF O!Contains
<1> QED
  BY <1>1, <1>2, <1>3, <1>5, <1>6, <1>7, <1>8 DEF O!One

(* What fscanf fills an empty buffer with.                                 *)
LEMMA FillFacts ==
  ASSUME OTypeOK, Roles, lab5 = "1.c"
  PROVE  /\ O!Fill \in Seq(Nat)
         /\ offset[1] + Len(O!Fill) <= FileLen
         /\ \A k \in 1..Len(O!Fill) : O!Fill[k] = offset[1] + k
PROOF
<1> DEFINE lo == offset[1]
           hi == IF offset[1] + BufSize < Len(file) THEN offset[1] + BufSize ELSE Len(file)
<1>1. lo \in Nat /\ lo <= FileLen /\ FileLen \in Nat /\ BufSize \in Nat
  BY Two, Programs, FilesAssumption DEF OTypeOK, Roles
<1>2. /\ file = [k \in 1..FileLen |-> k] /\ file \in Seq(Nat) /\ Len(file) = FileLen
  <2>1. file = [k \in 1..FileLen |-> k]
    BY Programs DEF Roles
  <2> QED
    BY <1>1, <2>1
<1>3. hi \in Nat /\ lo <= hi /\ hi <= FileLen
  BY <1>1, <1>2
<1> HIDE DEF hi, lo
<1>4. O!Fill = SubSeq(file, lo + 1, hi)
  BY DEF O!Fill, hi, lo
<1>5. lo + 1 \in Int /\ hi \in Int /\ \A k \in lo + 1..hi : file[k] \in Nat
  BY <1>1, <1>2, <1>3
<1>6. /\ O!Fill \in Seq(Nat) /\ Len(O!Fill) = hi - lo
      /\ \A k \in 1..hi - lo : O!Fill[k] = file[(lo + 1) + k - 1]
  <2>1. /\ O!Fill \in Seq(Nat)
        /\ Len(O!Fill) = IF lo + 1 <= hi THEN hi - (lo + 1) + 1 ELSE 0
        /\ \A k \in 1..hi - (lo + 1) + 1 : O!Fill[k] = file[(lo + 1) + k - 1]
    BY <1>4, <1>5, SubSeqProperties
  <2>2. hi - (lo + 1) + 1 = hi - lo /\ (~(lo + 1 <= hi) => hi - lo = 0)
    BY <1>1, <1>3
  <2> QED
    BY <2>1, <2>2
<1>7. \A k \in 1..Len(O!Fill) : O!Fill[k] = lo + k
  <2> TAKE k \in 1..Len(O!Fill)
  <2>1. O!Fill[k] = file[(lo + 1) + k - 1] /\ k \in 1..hi - lo
    BY <1>1, <1>3, <1>6
  <2>2. (lo + 1) + k - 1 = lo + k /\ lo + k \in 1..FileLen
    BY <1>1, <1>3, <2>1
  <2> QED
    BY <1>2, <2>1, <2>2
<1> QED
  BY <1>1, <1>3, <1>6, <1>7 DEF lo

(* fscanf gives the first of consecutive letters, which stand in the       *)
(* buffer or come there from the file.                                     *)
GotIs(s, got, past) ==
  /\ got \in Seq(Nat) /\ Consecutive(got)
  /\ past \in Nat /\ offset[1] \in Nat /\ offset[1] <= past /\ past <= FileLen
  /\ \A k \in 1..Len(got) : got[k] \in 1..past
  /\ \A k \in DOMAIN out : out[k][1] = s => \A j \in 1..Len(got) : out[k][2] < got[j]
  /\ \A letter \in 1..FileLen :
       O!One(O!Contains(buf[s], letter)) + O!One(letter > offset[1])
         = O!One(O!Contains(got, letter)) + O!One(letter > past)

LEMMA GotFacts ==
  ASSUME OInv, lab5 = "1.c", NEW s \in O!Both, NEW got,
         got = IF buf[s] # <<>> THEN buf[s] ELSE O!Fill, got # <<>>,
         NEW past, past = IF buf[s] # <<>> THEN offset[1] ELSE offset[1] + Len(got)
  PROVE  GotIs(s, got, past)
PROOF
<1>1. offset[1] \in Nat /\ offset[1] <= FileLen /\ FileLen \in Nat
  BY Two, Programs, FilesAssumption DEF OInv, OTypeOK, Roles
<1>2. CASE buf[s] # <<>>
  <2>1. got = buf[s] /\ past = offset[1]
    BY <1>2
  <2>2. got \in Seq(Nat)
    BY <2>1 DEF OInv, OTypeOK
  <2>3. Consecutive(got) /\ \A k \in 1..Len(got) : got[k] \in 1..past
    BY <2>1 DEF OInv, BuffersRun, Consecutive
  <2>4. \A k \in DOMAIN out : out[k][1] = s => \A j \in 1..Len(got) : out[k][2] < got[j]
    BY <2>1 DEF OInv, BuffersRun
  <2> QED
    BY <1>1, <2>1, <2>2, <2>3, <2>4 DEF GotIs
<1>3. CASE buf[s] = <<>>
  <2>1. got = O!Fill /\ past = offset[1] + Len(got)
    BY <1>3
  <2>2. /\ got \in Seq(Nat) /\ past <= FileLen /\ Len(got) \in Nat
        /\ \A k \in 1..Len(got) : got[k] = offset[1] + k
    BY <2>1, FillFacts, LenProperties DEF OInv
  <2>3. past \in Nat /\ offset[1] <= past
    BY <1>1, <2>1, <2>2
  <2>4. Consecutive(got)
    <3> SUFFICES ASSUME NEW k \in 1..Len(got) PROVE got[k] = got[1] + k - 1
      BY DEF Consecutive
    <3>1. 1 \in 1..Len(got) /\ k \in Nat
      BY <2>2
    <3>2. got[k] = offset[1] + k /\ got[1] = offset[1] + 1
      BY <2>2, <3>1
    <3>3. offset[1] + k = (offset[1] + 1) + k - 1
      BY <1>1, <3>1
    <3> QED
      BY <3>2, <3>3
  <2>5. \A k \in 1..Len(got) : got[k] \in 1..past /\ offset[1] < got[k]
    BY <1>1, <2>1, <2>2
  <2>6. \A k \in DOMAIN out : out[k][1] = s => \A j \in 1..Len(got) : out[k][2] < got[j]
    <3>1. \A k \in DOMAIN out : out[k][2] \in 1..offset[1]
      BY DEF OInv, BuffersRun
    <3> QED
      BY <1>1, <2>5, <3>1
  <2>7. ASSUME NEW letter \in 1..FileLen
        PROVE  O!One(O!Contains(buf[s], letter)) + O!One(letter > offset[1])
                = O!One(O!Contains(got, letter)) + O!One(letter > past)
    <3>1. ~O!Contains(buf[s], letter)
      BY <1>3, EmptySeq DEF O!Contains
    <3>2. O!Contains(got, letter) <=> letter > offset[1] /\ letter <= past
      <4>1. ASSUME letter > offset[1], letter <= past PROVE O!Contains(got, letter)
        <5>1. letter - offset[1] \in 1..Len(got)
          BY <1>1, <2>1, <2>2, <4>1
        <5>2. got[letter - offset[1]] = offset[1] + (letter - offset[1])
          BY <2>2, <5>1
        <5>3. offset[1] + (letter - offset[1]) = letter
          BY <1>1
        <5> QED
          BY <5>1, <5>2, <5>3 DEF O!Contains
      <4>2. ASSUME O!Contains(got, letter) PROVE letter > offset[1] /\ letter <= past
        BY <1>1, <2>3, <2>5, <4>2 DEF O!Contains
      <4> QED
        BY <4>1, <4>2
    <3> QED
      BY <1>1, <2>3, <3>1, <3>2 DEF O!One
  <2> QED
    BY <1>1, <2>2, <2>3, <2>4, <2>5, <2>6, <2>7 DEF GotIs
<1> QED
  BY <1>2, <1>3

LEMMA ScanStep == ASSUME OInv, O!Scan PROVE OInv'
PROOF
<1> USE Two, Programs
<1>7. PICK s \in O!Both : s = turn
  BY DEF OInv, OTypeOK
<1>8. PICK got : got = IF buf[s] # <<>> THEN buf[s] ELSE O!Fill
  OBVIOUS
<1>1. /\ s = turn
      /\ got = IF buf[s] # <<>> THEN buf[s] ELSE O!Fill
      /\ flag' = [flag EXCEPT ![s] = got # <<>>]
      /\ IF got # <<>>
         THEN /\ out' = Append(out, <<s, Head(got)>>)
              /\ buf' = [buf EXCEPT ![s] = Tail(got)]
              /\ offset' = [offset EXCEPT ![1] = IF buf[s] # <<>> THEN @ ELSE @ + Len(got)]
         ELSE UNCHANGED <<out, buf, offset>>
  BY <1>7, <1>8 DEF O!Scan
<1>2. /\ lab5 = "1.c" /\ turn' = O!Other(turn) /\ main' \in {"run", "done"}
      /\ UNCHANGED <<lab5, lpc, file, c>>
  BY DEF O!Scan
<1>3. flag' \in [O!Both -> BOOLEAN] /\ turn' \in O!Both
  BY <1>1, <1>2 DEF OInv, OTypeOK
<1>4. ThreadsCopy' /\ TurnsCopy' /\ WritersBuffer' /\ MadeInTurn'
  BY <1>2 DEF ThreadsCopy, TurnsCopy, WritersBuffer, MadeInTurn
<1>5. CASE got = <<>>
  <2>1. UNCHANGED <<out, buf, offset>>
    BY <1>1, <1>5
  <2>2. OTypeOK' /\ Roles'
    BY <1>2, <1>3, <2>1 DEF OInv, OTypeOK, Roles
  <2>4. BuffersRun'
    <3>1. BuffersRun
      BY DEF OInv
    <3> QED
      BY <1>2, <2>1, <3>1 DEF BuffersRun
  <2>3. EveryLetterAccounted'
    <3>1. EveryLetterAccounted
      BY DEF OInv
    <3>2. UNCHANGED <<lab5, lpc, offset, buf, c, out>>
      BY <1>2, <2>1
    <3> QED
      BY <1>2, <3>1, <3>2, LettersSame
  <2> QED
    BY <1>4, <2>2, <2>3, <2>4 DEF OInv
<1>6. CASE got # <<>>
  <2> DEFINE m == got[1]
             rest == Tail(got)
  <2>0. PICK past : past = IF buf[s] # <<>> THEN offset[1] ELSE offset[1] + Len(got)
    OBVIOUS
  <2>1. /\ got \in Seq(Nat) /\ Consecutive(got)
        /\ past \in Nat /\ offset[1] \in Nat /\ offset[1] <= past /\ past <= FileLen
        /\ \A k \in 1..Len(got) : got[k] \in 1..past
        /\ \A k \in DOMAIN out : out[k][1] = s => \A j \in 1..Len(got) : out[k][2] < got[j]
        /\ \A letter \in 1..FileLen :
             O!One(O!Contains(buf[s], letter)) + O!One(letter > offset[1])
               = O!One(O!Contains(got, letter)) + O!One(letter > past)
    <3>1. GotIs(s, got, past)
      BY <1>1, <1>2, <1>6, <2>0, GotFacts
    <3> QED
      BY <3>1 DEF GotIs
  <2>2. /\ rest \in Seq(Nat) /\ Consecutive(rest) /\ Head(got) = m /\ m \in Nat
        /\ Len(got) \in Nat \ {0}
        /\ \A k \in 1..Len(rest) : k + 1 \in 1..Len(got) /\ rest[k] = got[k + 1] /\ rest[k] > m
        /\ \A letter \in Nat : O!One(O!Contains(got, letter))
             = O!One(letter = m) + O!One(O!Contains(rest, letter))
    BY <1>6, <2>1, ConsecutiveTail
  <2>3. m \in 1..past
    BY <2>1, <2>2
  <2>4. /\ out' = Append(out, <<s, m>>)
        /\ buf' = [buf EXCEPT ![s] = rest]
        /\ offset' = [offset EXCEPT ![1] = past]
    <3>1. (IF buf[s] # <<>> THEN offset[1] ELSE offset[1] + Len(got)) = past
      BY <2>0
    <3> QED
      BY <1>1, <1>6, <2>2, <3>1
  <2> HIDE DEF m, rest
  <2>12. /\ \A k \in 1..Len(rest) : rest[k] \in 1..past /\ m < rest[k]
         /\ Consecutive(rest) /\ rest \in Seq(Nat) /\ m \in Nat
    <3>1. ASSUME NEW k \in 1..Len(rest) PROVE rest[k] \in 1..past /\ m < rest[k]
      <4>1. k + 1 \in 1..Len(got) /\ rest[k] = got[k + 1] /\ rest[k] > m
        BY <2>2
      <4>2. got[k + 1] \in 1..past
        BY <2>1, <4>1
      <4> QED
        BY <2>2, <2>1, <4>1, <4>2
    <3> QED
      BY <2>2, <3>1, Zenon
  <2>13. /\ \A k \in DOMAIN out : out[k][1] = s => \A j \in 1..Len(rest) : out[k][2] < rest[j]
         /\ past \in Nat /\ offset[1] \in Nat /\ offset[1] <= past
    <3>1. ASSUME NEW k \in DOMAIN out, out[k][1] = s, NEW j \in 1..Len(rest)
          PROVE  out[k][2] < rest[j]
      <4>1. j + 1 \in 1..Len(got) /\ rest[j] = got[j + 1]
        BY <2>2
      <4>2. out[k][2] < got[j + 1]
        BY <2>1, <3>1, <4>1, Zenon
      <4> QED
        BY <4>1, <4>2, Zenon
    <3> QED
      BY <2>1, <3>1, Zenon
  <2>5. out \in Seq(O!Both \X Nat) /\ offset \in [O!Both -> Nat] /\ buf \in [O!Both -> Seq(Nat)]
    BY DEF OInv, OTypeOK
  <2>6. /\ offset'[1] = past /\ offset'[2] = offset[2]
        /\ buf'[s] = rest /\ \A t \in O!Both : t # s => buf'[t] = buf[t]
    BY <2>4, <2>5
  <2>7. /\ out' \in Seq(O!Both \X Nat) /\ Len(out) \in Nat
        /\ \A k \in DOMAIN out : k \in Nat /\ k < Len(out) + 1
        /\ \A k \in DOMAIN out' :
             /\ k \in Nat /\ k <= Len(out) + 1
             /\ IF k = Len(out) + 1 THEN out'[k] = <<s, m>>
                ELSE k \in DOMAIN out /\ out'[k] = out[k]
    BY SMTT(30), <2>4, <2>5, <2>12, OutAppend
  <2>8. OTypeOK'
    <3>1. offset' \in [O!Both -> Nat] /\ buf' \in [O!Both -> Seq(Nat)]
      BY <2>4, <2>5, <2>12, <2>13
    <3>2. lab5' \in O!Readers \cup O!Writers /\ c' \in [O!Both -> Nat]
          /\ lpc' \in [O!Both -> {"none", "start", "write", "open", "ended"}]
      BY <1>2 DEF OInv, OTypeOK
    <3> QED
      BY <1>2, <1>3, <2>7, <3>1, <3>2 DEF OTypeOK
  <2>9. Roles'
    BY <1>2, <2>1, <2>6 DEF OInv, Roles
  <2>10. BuffersRun'
    <3>0. /\ \A t \in O!Both : \A k \in 1..Len(buf[t]) :
               buf[t][k] \in 1..offset[1] /\ buf[t][k] = buf[t][1] + k - 1
          /\ \A k \in DOMAIN out :
               /\ out[k][2] \in 1..offset[1]
               /\ \A j \in 1..Len(buf[out[k][1]]) : out[k][2] < buf[out[k][1]][j]
      BY <1>2 DEF OInv, BuffersRun
    <3>9. \A l \in 1..offset[1] : l \in 1..past
      BY <2>13
    <3>1. \A k \in 1..Len(rest) : rest[k] \in 1..past /\ rest[k] = rest[1] + k - 1
      BY <2>12 DEF Consecutive
    <3>2. \A t \in O!Both : t # s => \A k \in 1..Len(buf'[t]) :
            buf'[t][k] \in 1..past /\ buf'[t][k] = buf'[t][1] + k - 1
      <4> SUFFICES ASSUME NEW t \in O!Both, t # s, NEW k \in 1..Len(buf[t])
                   PROVE  buf[t][k] \in 1..past /\ buf[t][k] = buf[t][1] + k - 1
        BY <2>6
      <4> QED
        BY <3>0, <3>9
    <3>3. \A k \in DOMAIN out : out[k][1] = s =>
            out[k][2] \in 1..past /\ \A j \in 1..Len(rest) : out[k][2] < rest[j]
      BY <2>13, <3>0, <3>9
    <3>4. \A k \in DOMAIN out : out[k][1] # s =>
            out[k][2] \in 1..past /\ \A j \in 1..Len(buf[out[k][1]]) : out[k][2] < buf[out[k][1]][j]
      BY <3>0, <3>9
    <3>5. \A k \in DOMAIN out : out[k][1] \in O!Both
      BY <2>5, ElementOfSeq, LenProperties
    <3>6. \A j \in 1..Len(rest) : m < rest[j]
      BY <2>2
    <3>7. \A k \in DOMAIN out' : /\ out'[k][2] \in 1..past
                                 /\ \A j \in 1..Len(buf'[out'[k][1]]) :
                                      out'[k][2] < buf'[out'[k][1]][j]
      <4> TAKE k \in DOMAIN out'
      <4>1. CASE k = Len(out) + 1
        <5>1. out'[k] = <<s, m>>
          BY <2>7, <4>1
        <5>2. out'[k][1] = s /\ out'[k][2] = m
          BY <5>1
        <5> QED
          BY <2>3, <2>6, <3>6, <5>2
      <4>2. CASE k # Len(out) + 1
        <5>1. k \in DOMAIN out /\ out'[k] = out[k]
          BY <2>7, <4>2
        <5>2. CASE out[k][1] = s
          BY <2>6, <3>3, <5>1, <5>2
        <5>3. CASE out[k][1] # s
          BY <2>6, <3>4, <3>5, <5>1, <5>3
        <5> QED
          BY <5>2, <5>3
      <4> QED
        BY <4>1, <4>2
    <3>8. \A t \in O!Both : \A k \in 1..Len(buf'[t]) :
            buf'[t][k] \in 1..offset'[1] /\ buf'[t][k] = buf'[t][1] + k - 1
      BY <2>6, <3>1, <3>2
    <3> QED
      BY <2>6, <3>7, <3>8 DEF BuffersRun
  <2>11. EveryLetterAccounted'
    <3>1. \A k \in DOMAIN out : out[k][1] = s => out[k][2] < m
      BY <2>1, <2>2 DEF m
    <3>2. m \in 1..FileLen
      BY <2>1, <2>3, FilesAssumption
    <3>3. OutOrdered'
      BY <1>2, <2>2, <2>4, <2>5, <3>1, <3>2, OrderKept DEF OInv
    <3>4. ASSUME NEW letter \in 1..FileLen
          PROVE  O!Told(1, letter)' + O!Told(2, letter)' + O!One(letter > offset'[1])
                   + O!One(O!Contains(buf'[1], letter)) + O!One(O!Contains(buf'[2], letter)) = 1
      <4>1. O!Told(1, letter) + O!Told(2, letter) + O!One(letter > offset[1])
              + O!One(O!Contains(buf[1], letter)) + O!One(O!Contains(buf[2], letter)) = 1
        BY <1>2 DEF OInv, EveryLetterAccounted, O!EveryLetterAccounted
      <4>2. \A t \in O!Both :
              /\ O!Told(t, letter)' = O!Told(t, letter) + (IF t = s /\ letter = m THEN 1 ELSE 0)
              /\ O!Told(t, letter) \in Nat
        <5>1. \A t \in O!Both : ToldOnce(t, letter, s, m)
          BY <2>2, <2>4, <2>5, ToldAppend
        <5> QED
          BY <5>1 DEF ToldOnce
      <4>3. O!One(O!Contains(buf[s], letter)) + O!One(letter > offset[1])
              = O!One(letter = m) + O!One(O!Contains(rest, letter)) + O!One(letter > past)
        <5>1. letter \in Nat
          OBVIOUS
        <5>2. O!One(O!Contains(got, letter)) = O!One(letter = m) + O!One(O!Contains(rest, letter))
          BY <2>2, <5>1
        <5> QED
          BY <2>1, <5>2
      <4>4. \A fact \in BOOLEAN : O!One(fact) \in Nat
        BY DEF O!One
      <4>5. CASE s = 1
        BY <2>6, <4>1, <4>2, <4>3, <4>5 DEF O!One
      <4>6. CASE s = 2
        BY <2>6, <4>1, <4>2, <4>3, <4>6 DEF O!One
      <4> QED
        BY <4>5, <4>6
    <3> QED
      BY <1>2, <3>3, <3>4, Programs DEF OutOrdered, EveryLetterAccounted, O!EveryLetterAccounted
  <2> QED
    BY <1>4, <2>8, <2>9, <2>10, <2>11 DEF OInv
<1> QED
  BY <1>5, <1>6

LEMMA CopyStep == ASSUME OInv, O!Copy PROVE OInv'
PROOF
<1> USE Two, Programs
<1>1. PICK s \in O!Both : s = turn
  BY DEF OInv, OTypeOK
<1>0. PICK m : m = c'[1]
  OBVIOUS
<1>2. /\ lab5 = "2.c" /\ main = "run" /\ turn' = O!Other(turn)
      /\ UNCHANGED <<lab5, lpc, file, buf>>
      /\ main' = IF turn = 2 /\ \E t \in O!Both : ~flag'[t] THEN "done" ELSE "run"
      /\ c' = [c EXCEPT ![1] = IF offset[s] < Len(file) THEN file[offset[s] + 1] ELSE @]
      /\ offset' = [offset EXCEPT ![s] = IF offset[s] < Len(file) THEN @ + 1 ELSE @]
      /\ flag' = [flag EXCEPT ![s] = offset[s] < Len(file)]
      /\ out' = Append(out, <<s, m>>)
  BY <1>0, <1>1 DEF O!Copy
<1>3. /\ FileLen \in Nat \ {0}
      /\ Len(file) = FileLen /\ \A k \in 1..FileLen : file[k] = k
      /\ offset \in [O!Both -> Nat] /\ \A t \in O!Both : offset[t] <= FileLen
      /\ c \in [O!Both -> Nat] /\ flag \in [O!Both -> BOOLEAN]
      /\ out \in Seq(O!Both \X Nat)
  BY <1>2, FilesAssumption DEF OInv, OTypeOK, Roles
<1>4. /\ c[1] = offset[1] /\ flag[2]
      /\ turn = 1 => flag[1] /\ offset[2] = offset[1]
      /\ turn = 2 => IF flag[1] THEN offset[1] = offset[2] + 1
                                ELSE offset[1] = FileLen /\ offset[2] = FileLen
  BY <1>2 DEF OInv, TurnsCopy
<1>5. IF offset[s] < FileLen
      THEN m = offset[s] + 1 /\ offset'[s] = m /\ flag'[s]
      ELSE m = FileLen /\ offset[s] = FileLen /\ offset'[s] = FileLen /\ ~flag'[s]
  <2>1. CASE offset[s] < FileLen
    <3>1. file[offset[s] + 1] = offset[s] + 1
      BY <1>3, <2>1
    <3>2. m = offset[s] + 1 /\ offset'[s] = offset[s] + 1 /\ flag'[s]
      BY <1>0, <1>2, <1>3, <2>1, <3>1
    <3> QED
      BY <2>1, <3>2
  <2>2. CASE ~(offset[s] < FileLen)
    <3>4. ~(offset[s] < Len(file))
      BY <1>3, <2>2
    <3>5. offset[s] \in Nat /\ offset[s] <= FileLen
      BY <1>3
    <3>6. offset[s] = FileLen
      BY <1>3, <2>2, <3>5
    <3>7. offset'[s] = offset[s]
      BY <1>2, <1>3, <3>4
    <3>8. ~flag'[s]
      BY <1>2, <1>3, <3>4
    <3>1. offset[s] = FileLen /\ offset'[s] = offset[s] /\ ~flag'[s]
      BY <3>6, <3>7, <3>8
    <3>3. m = c[1]
      BY <1>0, <1>2, <1>3, <2>2
    <3>2. offset[1] = FileLen
      BY <1>1, <1>3, <1>4, <3>1
    <3> QED
      BY <1>4, <2>2, <3>1, <3>2, <3>3
  <2> QED
    BY <2>1, <2>2
<1>6. /\ \A t \in O!Both : t # s => offset'[t] = offset[t] /\ flag'[t] = flag[t]
      /\ flag[s] /\ m \in 1..FileLen /\ offset'[s] = m /\ offset[s] <= m
  BY <1>1, <1>2, <1>3, <1>4, <1>5
<1>7. /\ c' \in [O!Both -> Nat] /\ offset' \in [O!Both -> Nat] /\ flag' \in [O!Both -> BOOLEAN]
  <2>1. c' = [c EXCEPT ![1] = m]
    BY <1>0, <1>2, <1>3
  <2>2. offset' = [offset EXCEPT ![s] = m]
    BY <1>2, <1>3, <1>6
  <2>3. m \in Nat
    BY <1>3, <1>6
  <2> QED
    BY <1>2, <1>3, <2>1, <2>2, <2>3
<1>8. OTypeOK'
  <2>1. out' \in Seq(O!Both \X Nat)
    BY <1>2, <1>3, <1>6, OutAppend
  <2> QED
    BY <1>1, <1>2, <1>7, <2>1 DEF OInv, OTypeOK
<1>9. Roles'
  BY <1>2, <1>3, <1>6 DEF OInv, Roles
<1>10. BuffersRun' /\ ThreadsCopy' /\ WritersBuffer' /\ MadeInTurn'
  BY <1>2 DEF BuffersRun, ThreadsCopy, WritersBuffer, MadeInTurn
<1>11. \A k \in DOMAIN out : out[k][1] \in O!Both /\ out[k][2] \in 1..offset[out[k][1]]
  BY <1>2, <1>3, ElementOfSeq, LenProperties DEF OInv, TurnsCopy
<1>12. TurnsCopy'
  <2>1. \A k \in DOMAIN out' : out'[k][2] \in 1..offset'[out'[k][1]]
    <3> TAKE k \in DOMAIN out'
    <3>0. m \in Nat
      BY <1>3, <1>6
    <3>1. IF k = Len(out) + 1 THEN out'[k] = <<s, m>> ELSE k \in DOMAIN out /\ out'[k] = out[k]
      BY SMTT(30), <1>2, <1>3, <3>0, OutAppend
    <3>2. CASE k = Len(out) + 1
      <4>1. out'[k][1] = s /\ out'[k][2] = m
        BY <3>1, <3>2
      <4> QED
        BY <1>3, <1>6, <4>1
    <3>3. CASE k # Len(out) + 1
      <4>1. \A t \in O!Both : offset[t] \in Nat /\ offset'[t] \in Nat /\ offset[t] <= offset'[t]
        BY <1>3, <1>6, <1>7
      <4> QED
        BY <1>11, <3>1, <3>3, <4>1
    <3> QED
      BY <3>2, <3>3
  <2>2. CASE turn = 1
    <3>1. s = 1 /\ turn' = 2 /\ main' = "run"
      BY <1>1, <1>2, <2>2 DEF O!Other
    <3>2. c'[1] = offset'[1] /\ flag'[2]
      BY <1>0, <1>4, <1>6, <3>1
    <3>3. IF flag'[1] THEN offset'[1] = offset'[2] + 1
                      ELSE offset'[1] = FileLen /\ offset'[2] = FileLen
      BY <1>4, <1>5, <1>6, <2>2, <3>1
    <3> QED
      BY <1>2, <2>1, <3>1, <3>2, <3>3 DEF TurnsCopy
  <2>3. CASE turn = 2
    <3>1. s = 2 /\ turn' = 1 /\ main' \in {"run", "done"}
      BY <1>1, <1>2, <2>3 DEF O!Other
    <3>2. ASSUME main' = "run" PROVE c'[1] = offset'[1] /\ flag'[1] /\ flag'[2] /\ offset'[1] = offset'[2]
      <4>1. flag'[1] /\ flag'[2]
        BY <1>2, <2>3, <3>2
      <4>2. flag[1] /\ offset[2] < FileLen /\ m = offset[2] + 1
        BY <1>5, <1>6, <3>1, <4>1
      <4>3. offset[1] = offset[2] + 1
        BY <1>4, <2>3, <4>2
      <4> QED
        BY <1>0, <1>6, <3>1, <4>1, <4>2, <4>3
    <3> QED
      BY <1>2, <2>1, <3>1, <3>2 DEF TurnsCopy
  <2> QED
    BY <1>1, <2>2, <2>3
<1>13. EveryLetterAccounted'
  <2>1. \A k \in DOMAIN out : out[k][1] = s =>
          out[k][2] < m \/ (lab5 = "2.c" /\ out[k][2] = m)
    BY <1>2, <1>3, <1>6, <1>11
  <2>2. OutOrdered'
    <3>1. EveryLetterAccounted /\ lab5' = lab5 /\ out' = Append(out, <<s, m>>)
      BY <1>2 DEF OInv
    <3> QED
      BY <1>3, <1>6, <2>1, <3>1, OrderKept
  <2>3. ASSUME NEW letter \in 1..FileLen, NEW t \in O!Both
        PROVE  O!Told(t, letter)' + O!One(letter > offset'[t])
                 = 1 + O!One(letter = FileLen /\ ~flag'[t])
    <3>1. O!Told(t, letter) + O!One(letter > offset[t]) = 1 + O!One(letter = FileLen /\ ~flag[t])
      BY <1>2 DEF OInv, EveryLetterAccounted, O!EveryLetterAccounted
    <3>2. /\ O!Told(t, letter)' = O!Told(t, letter) + (IF t = s /\ letter = m THEN 1 ELSE 0)
          /\ O!Told(t, letter) \in Nat
      <4>1. ToldOnce(t, letter, s, m)
        <5>1. m \in Nat /\ out' = Append(out, <<s, m>>)
          BY <1>2, <1>3, <1>6
        <5> QED
          BY <1>3, <5>1, ToldAppend
      <4> QED
        BY <4>1 DEF ToldOnce
    <3>3. CASE t # s
      BY <1>6, <3>1, <3>2, <3>3
    <3>4. CASE t = s /\ offset[s] < FileLen
      <4>1. O!One(letter > offset[s]) = (IF letter = m THEN 1 ELSE 0) + O!One(letter > offset'[s])
        BY <1>3, <1>5, <3>4 DEF O!One
      <4>2. O!One(letter = FileLen /\ ~flag[s]) = 0 /\ O!One(letter = FileLen /\ ~flag'[s]) = 0
        BY <1>5, <1>6, <3>4 DEF O!One
      <4>3. O!One(letter > offset[s]) \in Nat /\ O!One(letter > offset'[s]) \in Nat
        BY DEF O!One
      <4> QED
        BY <3>1, <3>2, <3>4, <4>1, <4>2, <4>3
    <3>5. CASE t = s /\ ~(offset[s] < FileLen)
      <4>1. O!One(letter > offset[s]) = 0 /\ O!One(letter > offset'[s]) = 0
        BY <1>3, <1>5, <3>5 DEF O!One
      <4>2. O!One(letter = FileLen /\ ~flag[s]) = 0
        BY <1>6 DEF O!One
      <4>3. O!One(letter = FileLen /\ ~flag'[s]) = IF letter = m THEN 1 ELSE 0
        BY <1>5, <3>5 DEF O!One
      <4> QED
        BY <3>1, <3>2, <3>5, <4>1, <4>2, <4>3
    <3> QED
      BY <3>3, <3>4, <3>5
  <2> QED
    BY SMTT(30), <1>2, <2>2, <2>3 DEF OutOrdered, EveryLetterAccounted, O!EveryLetterAccounted
<1> QED
  BY <1>8, <1>9, <1>10, <1>12, <1>13 DEF OInv

LEMMA ReadByteStep == ASSUME OInv, NEW t \in O!Both, O!ReadByte(t) PROVE OInv'
PROOF
<1> USE Two, Programs
<1>1. /\ lab5 = "2_1.c" /\ lpc[t] = "start" /\ UNCHANGED <<lab5, main, turn, file, buf, flag, out>>
  BY DEF O!ReadByte
<1>2. /\ FileLen \in Nat \ {0}
      /\ Len(file) = FileLen /\ \A k \in 1..FileLen : file[k] = k
      /\ offset \in [O!Both -> Nat] /\ \A s \in O!Both : offset[s] <= FileLen
      /\ c \in [O!Both -> Nat]
      /\ lpc \in [O!Both -> {"none", "start", "write", "open", "ended"}]
      /\ out \in Seq(O!Both \X Nat)
  BY <1>1, FilesAssumption DEF OInv, OTypeOK, Roles
<1>3. PICK here \in {"write", "ended"} :
        /\ lpc' = [lpc EXCEPT ![t] = here]
        /\ here = "write" =>
             /\ offset[t] < FileLen
             /\ c' = [c EXCEPT ![t] = offset[t] + 1] /\ offset' = [offset EXCEPT ![t] = offset[t] + 1]
        /\ here = "ended" => c' = c /\ offset' = offset
  <2>1. CASE offset[t] < FileLen
    <3>1. file[offset[t] + 1] = offset[t] + 1
      BY <1>2, <2>1
    <3> QED
      BY <1>2, <2>1, <3>1 DEF O!ReadByte, O!Goto
  <2>2. CASE ~(offset[t] < FileLen)
    BY <1>2, <2>2 DEF O!ReadByte, O!Goto
  <2> QED
    BY <2>1, <2>2
<1>4. /\ \A s \in O!Both : s # t => lpc'[s] = lpc[s] /\ c'[s] = c[s] /\ offset'[s] = offset[s]
      /\ lpc'[t] = here
      /\ here = "write" => c'[t] = offset[t] + 1 /\ offset'[t] = offset[t] + 1
      /\ here = "ended" => c'[t] = c[t] /\ offset'[t] = offset[t]
  BY <1>2, <1>3
<1>5. /\ c' \in [O!Both -> Nat] /\ offset' \in [O!Both -> Nat]
      /\ lpc' \in [O!Both -> {"none", "start", "write", "open", "ended"}]
  BY <1>2, <1>3
<1>6. \A s \in O!Both : /\ offset[s] \in Nat /\ offset'[s] \in Nat /\ offset[s] <= offset'[s]
                        /\ offset'[s] <= FileLen
  BY <1>2, <1>3, <1>4, <1>5
<1>7. OTypeOK'
  BY <1>1, <1>5 DEF OInv, OTypeOK
<1>8. Roles'
  BY <1>1, <1>3, <1>4, <1>6 DEF OInv, Roles
<1>9. BuffersRun' /\ TurnsCopy' /\ WritersBuffer'
  BY <1>1 DEF BuffersRun, TurnsCopy, WritersBuffer
<1>10. MadeInTurn'
  BY <1>1, <1>4 DEF OInv, MadeInTurn, O!FirstThread
<1>11. \A k \in DOMAIN out : out[k][1] \in O!Both /\ out[k][2] \in 1..offset[out[k][1]]
  BY <1>1, <1>2, ElementOfSeq, LenProperties DEF OInv, ThreadsCopy
<1>12. ThreadsCopy'
  <2>1. \A s \in O!Both : lpc'[s] = "write" => c'[s] = offset'[s] /\ offset'[s] > 0
    <3> TAKE s \in O!Both
    <3>1. CASE s = t
      BY <1>3, <1>4, <1>6, <3>1
    <3>2. CASE s # t
      BY <1>1, <1>4, <3>2 DEF OInv, ThreadsCopy
    <3> QED
      BY <3>1, <3>2
  <2>2. ASSUME NEW k \in DOMAIN out
        PROVE  /\ out[k][2] \in 1..offset'[out[k][1]]
               /\ lpc'[out[k][1]] = "write" => out[k][2] < offset'[out[k][1]]
    <3>1. CASE out[k][1] = t
      BY <1>3, <1>4, <1>6, <1>11, <3>1
    <3>2. CASE out[k][1] # t
      BY <1>1, <1>4, <1>11, <3>2 DEF OInv, ThreadsCopy
    <3> QED
      BY <3>1, <3>2
  <2> QED
    BY <1>1, <2>1, <2>2 DEF ThreadsCopy
<1>13. EveryLetterAccounted'
  <2>1. OutOrdered'
    BY <1>1 DEF OInv, OutOrdered, EveryLetterAccounted, O!EveryLetterAccounted
  <2>2. ASSUME NEW letter \in 1..FileLen, NEW s \in O!Both
        PROVE  O!Told(s, letter)' + O!One(lpc'[s] = "write" /\ c'[s] = letter)
                 + O!One(letter > offset'[s]) = 1
    <3>1. O!Told(s, letter) + O!One(lpc[s] = "write" /\ c[s] = letter)
            + O!One(letter > offset[s]) = 1
      BY <1>1 DEF OInv, EveryLetterAccounted, O!EveryLetterAccounted
    <3>2. O!Told(s, letter)' = O!Told(s, letter) /\ O!Told(s, letter) \in Nat
      <4>1. O!Told(s, letter)' = O!Told(s, letter)
        BY <1>1 DEF O!Told
      <4>2. O!Told(s, letter) \in Nat
        BY <1>2, ToldIsNat
      <4> QED
        BY <4>1, <4>2
    <3>3. CASE s # t
      BY <1>4, <3>1, <3>2, <3>3
    <3>4. CASE s = t
      <4>1. O!One(lpc[s] = "write" /\ c[s] = letter) = 0
        BY <1>1, <3>4 DEF O!One
      <4>2. O!One(lpc'[s] = "write" /\ c'[s] = letter) + O!One(letter > offset'[s])
              = O!One(letter > offset[s])
        <5>1. CASE here = "write"
          BY <1>4, <1>6, <3>4, <5>1 DEF O!One
        <5>2. CASE here = "ended"
          BY <1>4, <1>6, <3>4, <5>2 DEF O!One
        <5> QED
          BY <5>1, <5>2
      <4>3. /\ O!One(letter > offset[s]) \in Nat /\ O!One(letter > offset'[s]) \in Nat
            /\ O!One(lpc'[s] = "write" /\ c'[s] = letter) \in Nat
        BY DEF O!One
      <4> QED
        BY <3>1, <3>2, <4>1, <4>2, <4>3
    <3> QED
      BY <3>3, <3>4
  <2> QED
    BY <1>1, <2>1, <2>2 DEF OutOrdered, EveryLetterAccounted, O!EveryLetterAccounted
<1> QED
  BY <1>7, <1>8, <1>9, <1>10, <1>12, <1>13 DEF OInv

LEMMA WriteByteStep == ASSUME OInv, NEW t \in O!Both, O!WriteByte(t) PROVE OInv'
PROOF
<1> USE Two, Programs
<1>1. PICK m : m = c[t]
  OBVIOUS
<1>2. /\ lab5 = "2_1.c" /\ lpc[t] = "write"
      /\ UNCHANGED <<lab5, main, turn, file, offset, buf, c, flag>>
      /\ out' = Append(out, <<t, m>>) /\ lpc' = [lpc EXCEPT ![t] = "start"]
  BY <1>1 DEF OInv, Roles, O!WriteByte, O!Goto
<1>3. /\ FileLen \in Nat \ {0}
      /\ offset \in [O!Both -> Nat] /\ \A s \in O!Both : offset[s] <= FileLen
      /\ lpc \in [O!Both -> {"none", "start", "write", "open", "ended"}]
      /\ out \in Seq(O!Both \X Nat)
  BY <1>2, FilesAssumption DEF OInv, OTypeOK, Roles
<1>4. /\ lpc' \in [O!Both -> {"none", "start", "write", "open", "ended"}]
      /\ lpc'[t] = "start" /\ \A s \in O!Both : s # t => lpc'[s] = lpc[s]
  BY <1>2, <1>3
<1>5. /\ m = offset[t] /\ m \in Nat /\ m \in 1..FileLen
  BY <1>1, <1>2, <1>3 DEF OInv, ThreadsCopy
<1>6. /\ out' \in Seq(O!Both \X Nat)
      /\ \A k \in DOMAIN out' : IF k = Len(out) + 1 THEN out'[k] = <<t, m>>
                                ELSE k \in DOMAIN out /\ out'[k] = out[k]
  BY <1>2, <1>3, <1>5, OutAppend
<1>7. OTypeOK'
  BY <1>2, <1>4, <1>6 DEF OInv, OTypeOK
<1>8. Roles'
  BY <1>2, <1>4 DEF OInv, Roles
<1>9. BuffersRun' /\ TurnsCopy' /\ WritersBuffer'
  BY <1>2 DEF BuffersRun, TurnsCopy, WritersBuffer
<1>10. MadeInTurn'
  BY <1>2, <1>4 DEF OInv, MadeInTurn, O!FirstThread
<1>11. \A k \in DOMAIN out : /\ out[k][1] \in O!Both /\ out[k][2] \in 1..offset[out[k][1]]
                             /\ lpc[out[k][1]] = "write" => out[k][2] < offset[out[k][1]]
  BY <1>2, <1>3, ElementOfSeq, LenProperties DEF OInv, ThreadsCopy
<1>12. ThreadsCopy'
  <2>1. \A s \in O!Both : lpc'[s] = "write" => c[s] = offset[s] /\ offset[s] > 0
    BY <1>2, <1>4 DEF OInv, ThreadsCopy
  <2>2. ASSUME NEW k \in DOMAIN out'
        PROVE  /\ out'[k][2] \in 1..offset[out'[k][1]]
               /\ lpc'[out'[k][1]] = "write" => out'[k][2] < offset[out'[k][1]]
    <3>1. CASE k = Len(out) + 1
      <4>1. out'[k][1] = t /\ out'[k][2] = m
        BY <1>6, <3>1
      <4> QED
        BY <1>3, <1>4, <1>5, <4>1
    <3>2. CASE k # Len(out) + 1
      <4>1. k \in DOMAIN out /\ out'[k] = out[k]
        BY <1>6, <3>2
      <4> QED
        BY <1>4, <1>11, <4>1
    <3> QED
      BY <3>1, <3>2
  <2> QED
    BY <1>2, <2>1, <2>2 DEF ThreadsCopy
<1>13. EveryLetterAccounted'
  <2>1. OutOrdered'
    <3>1. EveryLetterAccounted /\ lab5' = lab5 /\ out' = Append(out, <<t, m>>)
      BY <1>2 DEF OInv
    <3>2. \A k \in DOMAIN out : out[k][1] = t => out[k][2] < m
      BY <1>2, <1>5, <1>11
    <3> QED
      BY <1>3, <1>5, <3>1, <3>2, OrderKept
  <2>2. ASSUME NEW letter \in 1..FileLen, NEW s \in O!Both
        PROVE  O!Told(s, letter)' + O!One(lpc'[s] = "write" /\ c[s] = letter)
                 + O!One(letter > offset[s]) = 1
    <3>1. O!Told(s, letter) + O!One(lpc[s] = "write" /\ c[s] = letter)
            + O!One(letter > offset[s]) = 1
      BY <1>2 DEF OInv, EveryLetterAccounted, O!EveryLetterAccounted
    <3>2. /\ O!Told(s, letter)' = O!Told(s, letter) + (IF s = t /\ letter = m THEN 1 ELSE 0)
          /\ O!Told(s, letter) \in Nat
      <4>1. ToldOnce(s, letter, t, m)
        BY <1>2, <1>3, <1>5, ToldAppend
      <4> QED
        BY <4>1 DEF ToldOnce
    <3>3. CASE s # t
      BY <1>4, <3>1, <3>2, <3>3
    <3>4. CASE s = t
      <4>1. O!One(lpc[s] = "write" /\ c[s] = letter) = IF letter = m THEN 1 ELSE 0
        BY <1>1, <1>2, <3>4 DEF O!One
      <4>2. O!One(lpc'[s] = "write" /\ c[s] = letter) = 0
        BY <1>4, <3>4 DEF O!One
      <4>3. O!One(letter > offset[s]) \in Nat
        BY DEF O!One
      <4> QED
        BY <3>1, <3>2, <3>4, <4>1, <4>2, <4>3
    <3> QED
      BY <3>3, <3>4
  <2> QED
    BY <1>2, <2>1, <2>2 DEF OutOrdered, EveryLetterAccounted, O!EveryLetterAccounted
<1> QED
  BY <1>7, <1>8, <1>9, <1>10, <1>12, <1>13 DEF OInv

LEMMA Halves ==
  ASSUME NEW n \in Nat
  PROVE  /\ n \div 2 \in Nat /\ (n + 1) \div 2 \in Nat
         /\ n % 2 = 1 <=> (n + 1) % 2 # 1
         /\ n % 2 = 1 => (n + 1) \div 2 = n \div 2 + 1 /\ n = 2 * (n \div 2 + 1) - 1
         /\ n % 2 # 1 => (n + 1) \div 2 = n \div 2 /\ n = 2 * (n \div 2)
PROOF OBVIOUS

LEMMA OverwriteAtStart ==
  ASSUME NEW f \in Seq(Nat), NEW data \in Seq(Nat), Len(f) <= Len(data)
  PROVE  O!Overwrite(f, 0, data) = data
PROOF
<1>1. /\ Len(f) \in Nat /\ Len(data) \in Nat
      /\ data = [k \in 1..Len(data) |-> data[k]]
  BY LenProperties
<1> DEFINE end == IF 0 + Len(data) > Len(f) THEN 0 + Len(data) ELSE Len(f)
<1>2. end = Len(data)
  BY <1>1
<1> HIDE DEF end
<1>3. O!Overwrite(f, 0, data)
        = [k \in 1..end |-> IF k > 0 /\ k <= 0 + Len(data) THEN data[k - 0]
                            ELSE IF k <= Len(f) THEN f[k] ELSE 0]
  BY DEF O!Overwrite, end
<1>4. \A k \in 1..Len(data) : k > 0 /\ k <= 0 + Len(data) /\ k - 0 = k
  BY <1>1
<1> QED
  BY <1>1, <1>2, <1>3, <1>4

LEMMA OwnFacts ==
  ASSUME NEW s \in O!Both, NEW n \in Nat
  PROVE  /\ Own(s, n) \in Seq(Nat) /\ Len(Own(s, n)) = n
         /\ Own(s, 0) = <<>>
         /\ Append(Own(s, n), 2 * (n + 1) - (IF s = 1 THEN 1 ELSE 0)) = Own(s, n + 1)
PROOF
<1> DEFINE letter == 2 * (n + 1) - (IF s = 1 THEN 1 ELSE 0)
<1>1. \A m \in Nat : Own(s, m) \in Seq(Nat) /\ Len(Own(s, m)) = m
  <2> TAKE m \in Nat
  <2>1. \A k \in 1..m : 2 * k - (IF s = 1 THEN 1 ELSE 0) \in Nat
    OBVIOUS
  <2> QED
    BY <2>1 DEF Own
<1>2. Own(s, 0) = <<>>
  BY <1>1, EmptySeq
<1>3. letter \in Nat
  OBVIOUS
<1>4. Append(Own(s, n), letter) = Own(s, n + 1)
  <2>1. /\ Append(Own(s, n), letter) \in Seq(Nat) /\ Own(s, n + 1) \in Seq(Nat)
        /\ Len(Append(Own(s, n), letter)) = n + 1 /\ Len(Own(s, n + 1)) = n + 1
        /\ \A k \in 1..n : Append(Own(s, n), letter)[k] = Own(s, n)[k]
        /\ Append(Own(s, n), letter)[n + 1] = letter
    BY <1>1, <1>3, AppendProperties
  <2>2. Own(s, n + 1)[n + 1] = letter /\ \A k \in 1..n : Own(s, n + 1)[k] = Own(s, n)[k]
    BY DEF Own
  <2>3. \A k \in 1..n + 1 : Append(Own(s, n), letter)[k] = Own(s, n + 1)[k]
    BY <2>1, <2>2
  <2> HIDE DEF letter
  <2> QED
    BY <2>1, <2>3, SeqEqual
<1> QED
  BY <1>1, <1>2, <1>4

(* A writer's step leaves alone what is said of the readers.               *)
LEMMA WriterMoves ==
  ASSUME OInv, lab5 \in O!Writers, lab5' = lab5, out' = out,
         \A s \in O!Both : lpc'[s] # "write"
  PROVE  Roles' /\ BuffersRun' /\ ThreadsCopy' /\ TurnsCopy' /\ EveryLetterAccounted'
PROOF
<1>1. lab5 \notin {"1.c", "2.c", "2_1.c"} /\ lab5 \notin O!Readers
  BY Programs
<1>2. out = <<>> /\ DOMAIN out = {}
  BY EmptySeq DEF OInv, Roles
<1> QED
  BY <1>1, <1>2 DEF OInv, Roles, BuffersRun, ThreadsCopy, TurnsCopy,
                    EveryLetterAccounted, O!EveryLetterAccounted

LEMMA FopenStep == ASSUME OInv, NEW t \in O!Both, O!Fopen(t) PROVE OInv'
PROOF
<1> USE Two, Programs
<1>1. /\ lab5 \in O!Writers /\ lpc[t] = "start"
      /\ UNCHANGED <<lab5, main, turn, buf, c, flag, out>>
      /\ file' = <<>> /\ offset' = [offset EXCEPT ![t] = 0] /\ lpc' = [lpc EXCEPT ![t] = "open"]
  BY DEF O!Fopen, O!Goto
<1>2. /\ lpc \in [O!Both -> {"none", "start", "write", "open", "ended"}]
      /\ offset \in [O!Both -> Nat]
  BY DEF OInv, OTypeOK
<1>3. /\ lpc'[t] = "open" /\ offset'[t] = 0
      /\ \A s \in O!Both : s # t => lpc'[s] = lpc[s] /\ offset'[s] = offset[s]
      /\ \A s \in O!Both : lpc'[s] # "write"
  BY <1>1, <1>2 DEF OInv, Roles
<1>4. OTypeOK'
  BY <1>1, <1>2 DEF OInv, OTypeOK
<1>5. Roles' /\ BuffersRun' /\ ThreadsCopy' /\ TurnsCopy' /\ EveryLetterAccounted'
  BY <1>1, <1>3, WriterMoves
<1>6. MadeInTurn'
  BY <1>1, <1>3 DEF OInv, MadeInTurn, O!FirstThread
<1>7. WritersBuffer'
  <2>1. c[t] = 1 /\ buf[t] = <<>>
    BY <1>1 DEF OInv, WritersBuffer
  <2>2. (IF t = 1 THEN c[t] \div 2 ELSE (c[t] - 1) \div 2) = 0
    BY <2>1
  <2>3. buf[t] = Own(t, OwnLetters(t)')
    BY <1>1, <2>1, <2>2, OwnFacts DEF OwnLetters
  <2>4. ASSUME NEW s \in O!Both
        PROVE  /\ c[s] \in 1..Letters + 1
               /\ lpc'[s] \in {"none", "start"} => c[s] = 1 /\ buf[s] = <<>>
               /\ lpc'[s] = "open" => offset'[s] = 0 /\ buf[s] = Own(s, OwnLetters(s)')
    <3>1. CASE s = t
      <4>1. c[s] \in 1..Letters + 1
        BY <1>1 DEF OInv, WritersBuffer
      <4> QED
        BY <1>3, <2>3, <3>1, <4>1
    <3>2. CASE s # t
      <4>1. OwnLetters(s)' = OwnLetters(s)
        BY <1>1 DEF OwnLetters
      <4> QED
        BY <1>1, <1>3, <3>2, <4>1 DEF OInv, WritersBuffer
    <3> QED
      BY <3>1, <3>2
  <2>5. file' \in Seq(Nat) /\ Len(file') <= Half
    BY <1>1, FilesAssumption, EmptySeq DEF Half
  <2>6. ~O!threads' => c'[1] = c'[2]
    BY <1>1 DEF OInv, WritersBuffer, O!threads
  <2> QED
    BY <1>1, <2>4, <2>5, <2>6 DEF WritersBuffer
<1> QED
  BY <1>4, <1>5, <1>6, <1>7 DEF OInv

LEMMA FprintfStep == ASSUME OInv, NEW t \in O!Both, O!Fprintf(t) PROVE OInv'
PROOF
<1> USE Two, Programs
<1> DEFINE n == c[t]
<1>1. /\ lpc[t] = "open" /\ n <= Letters
      /\ O!threads \/ (lpc[O!Other(t)] = "open" /\ O!Own(t, n))
      /\ UNCHANGED <<lab5, main, turn, lpc, file, offset, flag, out>>
      /\ buf' = [buf EXCEPT ![t] = IF O!Own(t, n) THEN Append(buf[t], n) ELSE buf[t]]
      /\ c' = IF O!threads THEN [c EXCEPT ![t] = n + 1] ELSE [x \in O!Both |-> n + 1]
  BY DEF O!Fprintf, OInv, OTypeOK
<1>2. /\ c \in [O!Both -> Nat] /\ n \in Nat
      /\ buf \in [O!Both -> Seq(Nat)] /\ lab5 \in O!Readers \cup O!Writers
  BY DEF OInv, OTypeOK
<1>3. lab5 \in O!Writers
  BY <1>1, <1>2 DEF OInv, Roles
<1>4. /\ n \in 1..Letters + 1 /\ offset[t] = 0 /\ buf[t] = Own(t, OwnLetters(t))
      /\ ~O!threads => c[1] = c[2]
  BY <1>1, <1>3 DEF OInv, WritersBuffer
<1>5. /\ O!Own(t, n) => OwnLetters(t) \in Nat /\ n = 2 * (OwnLetters(t) + 1) - (IF t = 1 THEN 1 ELSE 0)
      /\ OwnLetters(t) \in Nat
      /\ (IF t = 1 THEN (n + 1) \div 2 ELSE n \div 2)
           = IF O!Own(t, n) THEN OwnLetters(t) + 1 ELSE OwnLetters(t)
  <2>1. n - 1 \in Nat
    BY <1>2, <1>4
  <2> HIDE DEF n
  <2>2. t \in {1, 2} /\ (O!Own(t, n) <=> ((t = 1) <=> (n % 2 = 1)))
    BY DEF O!Own, O!Odd
  <2>3. OwnLetters(t) = IF t = 1 THEN n \div 2 ELSE (n - 1) \div 2
    BY DEF OwnLetters, n
  <2>4. CASE t = 1
    BY <1>2, <2>2, <2>3, <2>4, Halves
  <2>5. CASE t = 2
    <3>1. PICK p \in Nat : n - 1 = p /\ n = p + 1
      BY <1>2, <2>1
    <3>2. /\ p \div 2 \in Nat
          /\ p % 2 = 1 => n \div 2 = p \div 2 + 1 /\ p = 2 * (p \div 2 + 1) - 1
          /\ p % 2 # 1 => n \div 2 = p \div 2 /\ p = 2 * (p \div 2)
          /\ n % 2 = 1 <=> p % 2 # 1
      BY <3>1, Halves
    <3>3. OwnLetters(t) = p \div 2 /\ (O!Own(t, n) <=> n % 2 # 1)
      BY <2>2, <2>3, <2>5, <3>1
    <3>4. O!Own(t, n) => n = 2 * (p \div 2 + 1)
      BY <3>1, <3>2, <3>3
    <3>5. 2 * (p \div 2 + 1) = 2 * (p \div 2 + 1) - 0
      BY <3>2
    <3> QED
      BY <2>5, <3>2, <3>3, <3>4, <3>5
  <2> QED
    BY <2>2, <2>4, <2>5
<1>6. ASSUME NEW s \in O!Both, s # t, ~O!threads
      PROVE  OwnLetters(s) = (IF s = 1 THEN (n + 1) \div 2 ELSE n \div 2) /\ c[s] = n
  <2>1. c[s] = n /\ O!Own(t, n)
    BY <1>1, <1>4, <1>6 DEF O!Both
  <2>2. t \in {1, 2} /\ s \in {1, 2} /\ (O!Own(t, n) <=> ((t = 1) <=> (n % 2 = 1)))
    BY DEF O!Own, O!Odd, O!Both
  <2>3. OwnLetters(s) = IF s = 1 THEN n \div 2 ELSE (n - 1) \div 2
    BY <2>1 DEF OwnLetters
  <2>4. n - 1 \in Nat
    BY <1>2, <1>4
  <2> HIDE DEF n
  <2>5. CASE s = 1
    <3>1. n % 2 # 1
      BY <1>6, <2>1, <2>2, <2>5
    <3> QED
      BY <1>2, <2>1, <2>3, <2>5, <3>1, Halves
  <2>6. CASE s = 2
    <3>1. n % 2 = 1
      BY <1>6, <2>1, <2>2, <2>6
    <3>2. PICK p \in Nat : n - 1 = p /\ n = p + 1
      BY <1>2, <2>4
    <3>3. n \div 2 = p \div 2
      BY <3>1, <3>2, Halves
    <3> QED
      BY <2>1, <2>3, <2>6, <3>2, <3>3
  <2> QED
    BY <2>2, <2>5, <2>6
<1>7. /\ O!Own(t, n) => buf'[t] = Own(t, OwnLetters(t) + 1)
      /\ ~O!Own(t, n) => buf'[t] = Own(t, OwnLetters(t))
      /\ \A s \in O!Both : s # t => buf'[s] = buf[s]
  <2>1. \A s \in O!Both : s # t => buf'[s] = buf[s]
    BY <1>1, <1>2
  <2>2. CASE O!Own(t, n)
    <3>1. buf'[t] = Append(Own(t, OwnLetters(t)), n)
      BY <1>1, <1>2, <1>4, <2>2
    <3> HIDE DEF n
    <3>2. Append(Own(t, OwnLetters(t)), n) = Own(t, OwnLetters(t) + 1)
      BY <1>5, <2>2, OwnFacts
    <3> QED
      BY <2>1, <2>2, <3>1, <3>2
  <2>3. CASE ~O!Own(t, n)
    <3>1. buf'[t] = Own(t, OwnLetters(t))
      BY <1>1, <1>2, <1>4, <2>3
    <3> QED
      BY <2>1, <2>3, <3>1
  <2> QED
    BY <2>2, <2>3
<1>8. /\ c' \in [O!Both -> Nat] /\ c'[t] = n + 1
      /\ O!threads => \A s \in O!Both : s # t => c'[s] = c[s]
      /\ ~O!threads => \A s \in O!Both : c'[s] = n + 1
  BY <1>1, <1>2
<1>9. OTypeOK'
  <2>1. buf' \in [O!Both -> Seq(Nat)]
    <3>1. buf'[t] \in Seq(Nat)
      <4>1. CASE O!Own(t, n)
        <5>1. buf'[t] = Own(t, OwnLetters(t) + 1) /\ OwnLetters(t) + 1 \in Nat
          BY <1>5, <1>7, <4>1
        <5>2. Own(t, OwnLetters(t) + 1) \in Seq(Nat)
          BY <5>1, OwnFacts
        <5> QED
          BY <5>1, <5>2
      <4>2. CASE ~O!Own(t, n)
        <5>1. buf'[t] = Own(t, OwnLetters(t)) /\ OwnLetters(t) \in Nat
          BY <1>5, <1>7, <4>2
        <5>2. Own(t, OwnLetters(t)) \in Seq(Nat)
          BY <5>1, OwnFacts
        <5> QED
          BY <5>1, <5>2
      <4> QED
        BY <4>1, <4>2
    <3> QED
      BY <1>1, <1>2, <3>1
  <2> QED
    BY <1>1, <1>8, <2>1 DEF OInv, OTypeOK
<1>10. Roles' /\ BuffersRun' /\ ThreadsCopy' /\ TurnsCopy' /\ EveryLetterAccounted'
  <2>1. \A s \in O!Both : lpc'[s] # "write"
    BY <1>1, <1>3 DEF OInv, Roles
  <2> QED
    BY <1>1, <1>3, <2>1, WriterMoves
<1>11. MadeInTurn'
  BY <1>1 DEF OInv, MadeInTurn, O!FirstThread
<1>12. WritersBuffer'
  <2>1. ASSUME NEW s \in O!Both
        PROVE  /\ c'[s] \in 1..Letters + 1
               /\ lpc[s] \in {"none", "start"} => c'[s] = 1 /\ buf'[s] = <<>>
               /\ lpc[s] = "open" => offset[s] = 0 /\ buf'[s] = Own(s, OwnLetters(s)')
    <3>1. CASE s = t
      <4>1. c'[s] \in 1..Letters + 1
        BY <1>1, <1>2, <1>8, <3>1, FilesAssumption
      <4>2. OwnLetters(s)' = IF s = 1 THEN c'[s] \div 2 ELSE (c'[s] - 1) \div 2
        BY DEF OwnLetters
      <4>3. (n + 1) - 1 = n
        BY <1>2
      <4>4. OwnLetters(s)' = IF O!Own(t, n) THEN OwnLetters(t) + 1 ELSE OwnLetters(t)
        BY <1>5, <1>8, <3>1, <4>2, <4>3
      <4> QED
        BY <1>1, <1>4, <1>7, <3>1, <4>1, <4>4
    <3>2. CASE s # t /\ O!threads
      <4>1. c'[s] = c[s] /\ buf'[s] = buf[s]
        BY <1>7, <1>8, <3>2
      <4>2. OwnLetters(s)' = OwnLetters(s)
        BY <4>1 DEF OwnLetters
      <4> QED
        BY <1>3, <4>1, <4>2 DEF OInv, WritersBuffer
    <3>3. CASE s # t /\ ~O!threads
      <4>1. c'[s] = n + 1 /\ buf'[s] = buf[s] /\ lpc[s] = "open"
        BY <1>1, <1>7, <1>8, <3>3 DEF O!Both, O!Other
      <4>2. (n + 1) - 1 = n
        BY <1>2
      <4>3. OwnLetters(s)' = OwnLetters(s)
        <5>1. OwnLetters(s)' = IF s = 1 THEN c'[s] \div 2 ELSE (c'[s] - 1) \div 2
          BY DEF OwnLetters
        <5> QED
          BY <1>6, <3>3, <4>1, <4>2, <5>1
      <4>4. c'[s] \in 1..Letters + 1
        BY <1>1, <1>2, <4>1, FilesAssumption
      <4> QED
        BY <1>3, <4>1, <4>3, <4>4 DEF OInv, WritersBuffer
    <3> QED
      BY <3>1, <3>2, <3>3
  <2>2. ~O!threads' => c'[1] = c'[2]
    BY <1>1, <1>8 DEF O!threads
  <2>3. O!Runs' => file' \in Seq(Nat) /\ Len(file') <= Half
    BY <1>1, <1>3 DEF OInv, WritersBuffer, O!Runs
  <2> QED
    BY <1>1, <2>1, <2>2, <2>3 DEF WritersBuffer
<1> QED
  BY <1>9, <1>10, <1>11, <1>12 DEF OInv

(* A stream is closed over a file no longer than what it writes: only its  *)
(* own letters are left, all of them.                                      *)
LEMMA CloseFacts ==
  ASSUME OInv, NEW t \in O!Both, O!Fclose(t)
  PROVE  /\ lab5 \in O!Writers /\ lpc[t] = "open" /\ offset[t] = 0
         /\ buf[t] = Own(t, Half) /\ file' = Own(t, Half) /\ c[t] = Letters + 1
PROOF
<1> USE Two, Programs
<1>1. /\ lpc[t] = "open" /\ O!Runs /\ c[t] > Letters
      /\ file' = O!Overwrite(file, offset[t], buf[t])
  BY DEF O!Fclose
<1>2. lab5 \in O!Writers
  BY <1>1 DEF OInv, OTypeOK, Roles
<1>3. /\ c[t] \in 1..Letters + 1 /\ offset[t] = 0 /\ buf[t] = Own(t, OwnLetters(t))
      /\ file \in Seq(Nat) /\ Len(file) <= Half
  BY <1>1, <1>2 DEF OInv, WritersBuffer
<1>4. c[t] = Letters + 1 /\ Letters \in Nat
  BY <1>1, <1>3, FilesAssumption
<1>5. OwnLetters(t) = Half /\ Half \in Nat
  <2>1. (Letters + 1) \div 2 = Letters \div 2 /\ (Letters + 1) - 1 = Letters /\ Letters \div 2 \in Nat
    BY FilesAssumption, Halves
  <2> QED
    BY <1>4, <2>1 DEF OwnLetters, Half
<1>6. buf[t] = Own(t, Half) /\ Own(t, Half) \in Seq(Nat) /\ Len(Own(t, Half)) = Half
  BY <1>3, <1>5, OwnFacts
<1>7. O!Overwrite(file, 0, buf[t]) = buf[t]
  BY <1>3, <1>6, OverwriteAtStart
<1> QED
  BY <1>1, <1>2, <1>3, <1>4, <1>6, <1>7

LEMMA FcloseStep == ASSUME OInv, NEW t \in O!Both, O!Fclose(t) PROVE OInv'
PROOF
<1> USE Two, Programs
<1>1. /\ lab5 \in O!Writers /\ lpc[t] = "open" /\ offset[t] = 0
      /\ buf[t] = Own(t, Half) /\ file' = Own(t, Half) /\ c[t] = Letters + 1
  BY CloseFacts
<1>2. /\ UNCHANGED <<lab5, turn, c, flag, out>> /\ main' \in {main, "done"}
      /\ offset' = [offset EXCEPT ![t] = @ + Len(buf[t])]
      /\ buf' = [buf EXCEPT ![t] = <<>>] /\ lpc' = [lpc EXCEPT ![t] = "ended"]
  BY DEF O!Fclose, O!Goto
<1>3. /\ lpc \in [O!Both -> {"none", "start", "write", "open", "ended"}]
      /\ offset \in [O!Both -> Nat] /\ buf \in [O!Both -> Seq(Nat)]
  BY DEF OInv, OTypeOK
<1>4. /\ lpc'[t] = "ended"
      /\ \A s \in O!Both : s # t => /\ lpc'[s] = lpc[s] /\ offset'[s] = offset[s]
                                    /\ buf'[s] = buf[s]
      /\ \A s \in O!Both : lpc'[s] # "write"
  BY <1>1, <1>2, <1>3 DEF OInv, Roles
<1>5. Half \in Nat /\ file' \in Seq(Nat) /\ Len(file') = Half
  <2>1. Half \in Nat
    BY FilesAssumption, Halves DEF Half
  <2> QED
    BY <1>1, <2>1, OwnFacts
<1>6. OTypeOK'
  <2>1. offset' \in [O!Both -> Nat]
    BY <1>2, <1>3, LenProperties
  <2>2. buf' \in [O!Both -> Seq(Nat)]
    BY <1>2, <1>3, EmptySeq
  <2>3. lpc' \in [O!Both -> {"none", "start", "write", "open", "ended"}]
    BY <1>2, <1>3
  <2> QED
    BY <1>2, <2>1, <2>2, <2>3 DEF OInv, OTypeOK
<1>7. Roles' /\ BuffersRun' /\ ThreadsCopy' /\ TurnsCopy' /\ EveryLetterAccounted'
  BY <1>1, <1>2, <1>4, WriterMoves
<1>8. MadeInTurn'
  <2>1. main' \in {"create", "create_second"} => main' = main
    BY <1>2
  <2> QED
    BY <1>1, <1>2, <1>4, <2>1 DEF OInv, MadeInTurn, O!FirstThread
<1>9. WritersBuffer'
  <2>1. ASSUME NEW s \in O!Both
        PROVE  /\ c[s] \in 1..Letters + 1
               /\ lpc'[s] \in {"none", "start"} => c[s] = 1 /\ buf'[s] = <<>>
               /\ lpc'[s] = "open" => offset'[s] = 0 /\ buf'[s] = Own(s, OwnLetters(s)')
    <3>0. c[s] \in 1..Letters + 1
      BY <1>1 DEF OInv, WritersBuffer
    <3>1. CASE s = t
      BY <1>4, <3>0, <3>1
    <3>2. CASE s # t
      <4>1. OwnLetters(s)' = OwnLetters(s)
        BY <1>2 DEF OwnLetters
      <4> QED
        BY <1>1, <1>4, <3>0, <3>2, <4>1 DEF OInv, WritersBuffer
    <3> QED
      BY <3>1, <3>2
  <2>2. ~O!threads' => c[1] = c[2]
    BY <1>1, <1>2 DEF OInv, WritersBuffer, O!threads
  <2> QED
    BY <1>2, <1>5, <2>1, <2>2 DEF WritersBuffer
<1> QED
  BY <1>6, <1>7, <1>8, <1>9 DEF OInv

LEMMA CreateStep == ASSUME OInv, O!Create PROVE OInv'
PROOF
<1> USE Two, Programs
<1>1. PICK t \in O!Both : t = IF main = "create" THEN O!FirstThread ELSE O!Other(O!FirstThread)
  OBVIOUS
<1>2. /\ main \in {"create", "create_second"}
      /\ main' = IF main = "create" THEN "create_second" ELSE "join"
      /\ UNCHANGED <<lab5, turn, file, offset, buf, c, flag, out>>
      /\ lpc' = [lpc EXCEPT ![t] = "start"]
  BY <1>1 DEF O!Create, O!Goto
<1>3. lpc \in [O!Both -> {"none", "start", "write", "open", "ended"}]
  BY DEF OInv, OTypeOK
<1>4. /\ lpc[t] = "none" /\ lpc'[t] = "start"
      /\ \A s \in O!Both : s # t => lpc'[s] = lpc[s]
      /\ lpc' \in [O!Both -> {"none", "start", "write", "open", "ended"}]
  BY <1>1, <1>2, <1>3 DEF OInv, MadeInTurn
<1>5. OTypeOK'
  BY <1>2, <1>4 DEF OInv, OTypeOK
<1>6. Roles'
  BY <1>2, <1>4 DEF OInv, Roles
<1>7. BuffersRun' /\ TurnsCopy'
  BY <1>2 DEF OInv, BuffersRun, TurnsCopy
<1>8. ThreadsCopy'
  <2>1. ASSUME NEW s \in O!Both, lpc'[s] = "write" PROVE lpc[s] = "write"
    BY <1>4, <2>1
  <2>2. ThreadsCopy
    BY DEF OInv
  <2>3. lab5 = "2_1.c" => \A k \in DOMAIN out : out[k][1] \in O!Both
    BY ElementOfSeq, LenProperties DEF OInv, OTypeOK
  <2> QED
    BY <1>2, <2>1, <2>2, <2>3 DEF ThreadsCopy
<1>9. WritersBuffer'
  <2>1. WritersBuffer
    BY DEF OInv
  <2>2. \A s \in O!Both : OwnLetters(s)' = OwnLetters(s)
    BY <1>2 DEF OwnLetters
  <2>3. O!Runs /\ (O!threads' <=> O!threads)
    BY <1>2 DEF O!Runs, O!threads
  <2> QED
    BY <1>2, <1>4, <2>1, <2>2, <2>3 DEF WritersBuffer
<1>10. MadeInTurn'
  <2>1. O!FirstThread' = O!FirstThread
    BY <1>2 DEF O!FirstThread
  <2>2. main' # "create"
    BY <1>2
  <2>3. ASSUME main' = "create_second" PROVE lpc'[O!Other(O!FirstThread)] = "none"
    BY <1>1, <1>2, <1>4, <2>3 DEF OInv, MadeInTurn
  <2> QED
    BY <2>1, <2>2, <2>3 DEF MadeInTurn, O!Other
<1>11. EveryLetterAccounted'
  <2>1. OutOrdered'
    BY <1>2 DEF OInv, OutOrdered, EveryLetterAccounted, O!EveryLetterAccounted
  <2>2. \A s \in O!Both : lpc'[s] = "write" <=> lpc[s] = "write"
    BY <1>4
  <2>3. \A s, letter : O!Told(s, letter)' = O!Told(s, letter)
    BY <1>2 DEF O!Told
  <2>4. EveryLetterAccounted
    BY DEF OInv
  <2>5. lab5 = "2_1.c" => \A letter \in 1..FileLen : \A s \in O!Both :
          O!Told(s, letter)' + O!One(lpc'[s] = "write" /\ c'[s] = letter)
            + O!One(letter > offset'[s]) = 1
    BY <1>2, <2>2, <2>3, <2>4 DEF EveryLetterAccounted, O!EveryLetterAccounted, O!One
  <2>6. lab5 # "2_1.c" => EveryLetterAccounted'
    BY <1>2, <2>3, <2>4 DEF EveryLetterAccounted, O!EveryLetterAccounted
  <2> QED
    BY <1>2, <2>1, <2>5, <2>6 DEF OutOrdered, EveryLetterAccounted, O!EveryLetterAccounted
<1> QED
  BY <1>5, <1>6, <1>7, <1>8, <1>9, <1>10, <1>11 DEF OInv

(* main gives up or ends, after which the file is read no more.            *)
LEMMA EndStep ==
  ASSUME OInv, lab5' = lab5, main' \in {"done", "failed"}, lab5 # "2.c",
         file' = file \/ lab5 \in O!Writers,
         UNCHANGED <<turn, lpc, offset, buf, c, flag, out>>
  PROVE  OInv'
PROOF
<1> USE Two, Programs
<1>1. OTypeOK'
  BY DEF OInv, OTypeOK
<1>2. Roles'
  BY DEF OInv, Roles
<1>3. BuffersRun'
  BY DEF OInv, BuffersRun
<1>4. ThreadsCopy'
  BY DEF OInv, ThreadsCopy
<1>5. TurnsCopy' /\ MadeInTurn'
  BY DEF TurnsCopy, MadeInTurn
<1>6. WritersBuffer'
  <2>1. ~O!Runs'
    BY DEF O!Runs
  <2>2. \A s \in O!Both : OwnLetters(s)' = OwnLetters(s)
    BY DEF OwnLetters
  <2>3. O!threads' <=> O!threads
    BY DEF O!threads
  <2> QED
    BY <2>1, <2>2, <2>3 DEF OInv, WritersBuffer
<1>7. EveryLetterAccounted'
  <2>1. EveryLetterAccounted /\ UNCHANGED <<lab5, lpc, offset, buf, c, flag, out>>
    BY DEF OInv
  <2> QED
    BY <2>1, LettersSame
<1> QED
  BY <1>1, <1>2, <1>3, <1>4, <1>5, <1>6, <1>7 DEF OInv

LEMMA ONextInv == OInv /\ [O!Next]_O!vars => OInv'
PROOF
<1> SUFFICES ASSUME OInv, [O!Next]_O!vars PROVE OInv'
  OBVIOUS
<1>1. CASE O!Create
  BY <1>1, CreateStep
<1>2. CASE O!CreateFails
  <2>1. /\ main \in {"create", "create_second"} /\ main' = "failed" /\ lab5' = lab5
        /\ UNCHANGED <<turn, lpc, offset, buf, c, flag, out>>
        /\ file' = file \/ lab5 \in O!Writers
    BY <1>2 DEF O!CreateFails
  <2>2. lab5 # "2.c"
    BY <2>1 DEF OInv, TurnsCopy
  <2> QED
    BY <2>1, <2>2, EndStep
<1>3. CASE O!Join
  <2>1. /\ main = "join" /\ main' = "done" /\ lab5' = lab5
        /\ UNCHANGED <<turn, lpc, offset, buf, c, flag, out>> /\ file' = file
    BY <1>3 DEF O!Join
  <2>2. lab5 # "2.c"
    BY <2>1 DEF OInv, TurnsCopy
  <2> QED
    BY <2>1, <2>2, EndStep
<1>4. CASE O!Scan
  BY <1>4, ScanStep
<1>5. CASE O!Copy
  BY <1>5, CopyStep
<1>6. ASSUME NEW t \in O!Both, O!ReadByte(t) PROVE OInv'
  BY <1>6, ReadByteStep
<1>7. ASSUME NEW t \in O!Both, O!WriteByte(t) PROVE OInv'
  BY <1>7, WriteByteStep
<1>8. ASSUME NEW t \in O!Both, O!Fopen(t) PROVE OInv'
  BY <1>8, FopenStep
<1>9. ASSUME NEW t \in O!Both, O!Fprintf(t) PROVE OInv'
  BY <1>9, FprintfStep
<1>10. ASSUME NEW t \in O!Both, O!Fclose(t) PROVE OInv'
  BY <1>10, FcloseStep
<1>11. CASE UNCHANGED O!vars
  <2>1. UNCHANGED <<lab5, main, turn, lpc, file, offset, buf, c, flag, out>>
    BY <1>11 DEF O!vars
  <2>2. OTypeOK' /\ Roles' /\ MadeInTurn'
    BY <2>1 DEF OInv, OTypeOK, Roles, MadeInTurn, O!FirstThread
  <2>3. BuffersRun'
    BY <2>1 DEF OInv, BuffersRun
  <2>4. ThreadsCopy' /\ TurnsCopy'
    BY <2>1 DEF OInv, ThreadsCopy, TurnsCopy
  <2>5. WritersBuffer'
    BY <2>1 DEF OInv, WritersBuffer, OwnLetters, O!threads, O!Runs
  <2>6. EveryLetterAccounted'
    <3>1. EveryLetterAccounted
      BY DEF OInv
    <3> QED
      BY <2>1, <3>1, LettersSame
  <2> QED
    BY <2>2, <2>3, <2>4, <2>5, <2>6 DEF OInv
<1> QED
  BY <1>1, <1>2, <1>3, <1>4, <1>5, <1>6, <1>7, <1>8, <1>9, <1>10, <1>11 DEF O!Next, O!Ended

(* Every letter of the file is in one place: printed, held or not yet      *)
(* read, whatever the lengths of the file and of the buffers.              *)
THEOREM NoLetterIsLost == O!Spec => []EveryLetterAccounted
PROOF
<1>1. OInv => EveryLetterAccounted
  BY DEF OInv
<1> QED
  BY <1>1, OInitInv, ONextInv, PTL DEF O!Spec

LEMMA ClosedHalf ==
  ASSUME OInv, [O!Next]_O!vars, NEW s \in O!Both,
         lab5 \in O!Writers, lpc[s] = "open", lpc'[s] = "ended"
  PROVE  file' = [k \in 1..(Letters \div 2) |-> 2 * k - (IF s = 1 THEN 1 ELSE 0)]
PROOF
<1>1. lpc \in [O!Both -> {"none", "start", "write", "open", "ended"}] /\ lab5 \notin O!Readers
  BY Programs DEF OInv, OTypeOK
<1>2. PICK t \in O!Both : O!Fclose(t)
  <2>1. lpc' # lpc
    OBVIOUS
  <2>2. ~O!Create /\ \A t \in O!Both : ~O!Fopen(t)
    BY <1>1 DEF O!Create, O!Fopen, O!Goto
  <2>3. /\ ~O!CreateFails /\ ~O!Join /\ ~O!Scan /\ ~O!Copy /\ ~O!Ended /\ ~UNCHANGED O!vars
        /\ \A t \in O!Both : ~O!Fprintf(t)
    BY <2>1 DEF O!CreateFails, O!Join, O!Scan, O!Copy, O!Ended, O!vars, O!Fprintf
  <2>4. \A t \in O!Both : ~O!ReadByte(t) /\ ~O!WriteByte(t)
    <3>1. lab5 # "2_1.c"
      BY <1>1, Programs
    <3>2. \A t \in O!Both : lpc[t] # "write"
      BY <3>1 DEF OInv, Roles
    <3> QED
      BY <3>1, <3>2 DEF O!ReadByte, O!WriteByte
  <2> QED
    BY <2>2, <2>3, <2>4 DEF O!Next
<1>3. t = s
  BY <1>1, <1>2 DEF O!Fclose, O!Goto
<1>4. file' = Own(s, Half)
  BY <1>2, <1>3, CloseFacts
<1> QED
  BY <1>4 DEF Own, Half

(* The stream that is closed leaves exactly its own letters, whatever the  *)
(* other one wrote before.                                                 *)
THEOREM OneHalfIsLeft == O!Spec => LastCloseWins
PROOF
<1>1. OInv /\ [O!Next]_O!vars =>
        [\A s \in O!Both :
           lab5 \in O!Writers /\ lpc[s] = "open" /\ lpc'[s] = "ended"
             => file' = [k \in 1..(Letters \div 2) |-> 2 * k - (IF s = 1 THEN 1 ELSE 0)]]_O!vars
  BY ClosedHalf
<1> QED
  BY <1>1, OInitInv, ONextInv, PTL DEF O!Spec, LastCloseWins, O!LastCloseWins

LEMMA FilesKeepOInv == /\ Start => OInv
                       /\ OInv /\ [Step]_<<which, vars, ovars, dvars, gvars>> => OInv'
PROOF
<1>1. UNCHANGED ovars => UNCHANGED O!vars
  BY DEF ovars, O!vars
<1> QED
  BY <1>1, OInitInv, ONextInv DEF Start, Step

(* Both in the composition of the programs.                                *)
THEOREM FilesLoseNoLetter == FilesSpec => []EveryLetterAccounted
PROOF
<1>1. OInv => EveryLetterAccounted
  BY DEF OInv
<1> QED
  BY <1>1, FilesKeepOInv, PTL DEF FilesSpec

(* Also there a stream that is closed leaves exactly its own letters.      *)
THEOREM FilesLeaveOneHalf == FilesSpec => LastCloseWins
PROOF
<1>1. [Step]_<<which, vars, ovars, dvars, gvars>> => [O!Next]_O!vars
  BY DEF Step, ovars, O!vars
<1>2. OInv /\ [Step]_<<which, vars, ovars, dvars, gvars>> =>
        [\A s \in O!Both :
           lab5 \in O!Writers /\ lpc[s] = "open" /\ lpc'[s] = "ended"
             => file' = [k \in 1..(Letters \div 2) |-> 2 * k - (IF s = 1 THEN 1 ELSE 0)]]_O!vars
  BY <1>1, ClosedHalf
<1> QED
  BY <1>2, FilesKeepOInv, PTL DEF FilesSpec, LastCloseWins, O!LastCloseWins

(* ---- DirWalk ---- *)

Labels == {name[f] : f \in Files}

DTypeOK ==
  /\ counted \in [Files -> Nat] /\ moves \in Nat
  /\ stack \in Seq([dir : Files, unread : SUBSET Labels])
  /\ step \in {"call", "open", "chdir", "loop", "done"}
  /\ step \in {"loop", "chdir"} => stack # <<>>
  /\ step = "done" => stack = <<>>
  /\ step \in {"call", "open", "chdir"} => ret = 0
  /\ step \in {"call", "open", "chdir"} /\ D!Calls # 0 => arg \in Labels
  /\ D!IsTree(D!Tree)

(* The open directories are a path to the working directory, and all of    *)
(* them can be searched.                                                   *)
Path ==
  /\ D!InPlace
  /\ step = "chdir" /\ Len(stack) > 1 => cwd = stack[Len(stack) - 1].dir
  /\ \A k \in 1..Len(stack) : k + 1 \in 1..Len(stack) =>
       parent[stack[k + 1].dir] = stack[k].dir /\ stack[k].dir \in searchable
  /\ stack # <<>> /\ step # "chdir" => stack[Len(stack)].dir \in searchable

(* Files that dopath comes to if nothing moves: it is called with them, or *)
(* has their names still to read.                                          *)
Pending(f) ==
  \/ step = "call" /\ f \in D!Named
  \/ step = "open" /\ parent[f] \in D!Named
  \/ \E k \in 1..Len(stack) : parent[f] = stack[k].dir /\ name[f] \in stack[k].unread

(* Directories it is in: counted, and their calls have not returned.       *)
Busy == {stack[k].dir : k \in 1..Len(stack)} \cup {f \in D!Named : step = "open"}

(* X holds what may still be counted: pending files and all below them.    *)
(* None of them was counted since the last move.                           *)
Ahead(X) ==
  /\ \A f \in Files : parent[f] \in X => f \in X \cup Busy
  /\ \A f \in Files : Pending(f) => f \in X
  /\ \A f \in X : f \notin Busy
  /\ \A f \in X : counted[f] <= moves

Counts ==
  /\ \A k \in 1..Len(stack) : k + 1 \in 1..Len(stack) => name[stack[k + 1].dir] \notin stack[k].unread
  /\ step \in {"call", "open"} /\ stack # <<>> => arg \notin stack[Len(stack)].unread
  /\ \A f \in Files : counted[f] <= 1 + moves
  /\ \E X \in SUBSET Files : Ahead(X)

(* While nothing moved: what lies below the argument and is not counted    *)
(* yet is pending or lies in a directory that is not counted, unless an    *)
(* error was met.                                                          *)
Explained == \/ top \notin Files
             \/ \E f \in D!Dirs \ listable : top \in D!Above(f)
             \/ \E f \in D!Dirs : Cardinality({g \in D!Above(f) : top \in D!Above(g)}) > MaxOpen

Stacked == /\ \A k \in 1..Len(stack) : stack[k].unread \subseteq D!Unread(stack[k].dir)
           /\ stack # <<>> => stack[1].dir = top
           /\ \A j, k \in 1..Len(stack) : j <= k => stack[j].dir \in D!Above(stack[k].dir)

CallIsRight == /\ step = "open" => D!Named # {} /\ D!Named \subseteq D!Dirs
               /\ step = "call" /\ stack # <<>> => D!Named # {}
               /\ stack = <<>> /\ step \in {"call", "open"} => top = D!Follow(D!Tree, argument)

Below == \A f \in Files : counted[f] > 0 \/ Pending(f) => top \in D!Above(f)

Complete == ret = 0 => \A f \in Files : top \in D!Above(f) =>
              \/ counted[f] >= 1 \/ Pending(f)
              \/ f # top /\ counted[parent[f]] = 0

Home == step = "done" /\ ret = 0 =>
          /\ top \in Files
          /\ top \in D!Dirs =>
               cwd = IF D!ParentDir(D!Tree, top) \in searchable THEN D!ParentDir(D!Tree, top) ELSE top

NothingMissed == /\ Stacked /\ CallIsRight /\ Below /\ Complete /\ Home
                 /\ ret # 0 => Explained

DInv == /\ DTypeOK
        /\ ~astray => Path
        /\ ~astray /\ moves <= 1 => Counts
        /\ ~astray /\ moves = 0 => NothingMissed

(* ---- of trees ---- *)

LEMMA TreeFacts ==
  ASSUME DTypeOK
  PROVE  /\ parent \in [Files -> Files \cup {"none"}] /\ parent[Root] = "none" /\ kind[Root] = "dir"
         /\ \A f \in Files \ {Root} : parent[f] \in Files /\ kind[parent[f]] = "dir"
         /\ \A f, g \in Files : parent[f] = parent[g] /\ name[f] = name[g] => f = g
         /\ \A f \in Files : name[f] \notin {".", ".."}
         /\ \A S \in (SUBSET Files) \ {{}} : \E f \in S : parent[f] \notin S
PROOF
<1>1. D!Tree.parent = parent /\ D!Tree.name = name /\ D!Tree.kind = kind
  BY DEF D!Tree
<1>2. D!IsTree(D!Tree)
  BY DEF DTypeOK
<1> QED
  BY <1>1, <1>2, Zenon DEF D!IsTree

LEMMA AboveFacts ==
  ASSUME NEW f \in Files
  PROVE  /\ f \in D!Above(f) /\ D!Above(f) \subseteq Files
         /\ \A g \in D!Above(f) : parent[g] \in Files => parent[g] \in D!Above(f)
         /\ parent[f] \in Files => D!Above(parent[f]) \subseteq D!Above(f)
PROOF
<1>1. f \in D!Above(f) /\ D!Above(f) \subseteq Files
  BY DEF D!Above
<1>2. ASSUME NEW g \in D!Above(f), parent[g] \in Files PROVE parent[g] \in D!Above(f)
  <2>1. ASSUME NEW S \in SUBSET Files, {f} \cap Files \subseteq S, D!Closed(S) PROVE parent[g] \in S
    <3>1. g \in S
      BY <2>1 DEF D!Above
    <3> QED
      BY <1>2, <2>1, <3>1 DEF D!Closed
  <2> QED
    BY <1>2, <2>1 DEF D!Above
<1>3. ASSUME parent[f] \in Files, NEW g \in D!Above(parent[f]) PROVE g \in D!Above(f)
  <2>1. ASSUME NEW S \in SUBSET Files, {f} \cap Files \subseteq S, D!Closed(S) PROVE g \in S
    <3>1. parent[f] \in S
      BY <1>3, <2>1 DEF D!Closed
    <3> QED
      BY <1>3, <2>1, <3>1 DEF D!Above
  <2> QED
    BY <1>3, <2>1 DEF D!Above
<1> QED
  BY <1>1, <1>2, <1>3

(* What is above f is f itself or above its parent.                        *)
LEMMA AboveParent ==
  ASSUME NEW f \in Files, NEW t \in D!Above(f), t # f
  PROVE  parent[f] \in Files /\ t \in D!Above(parent[f])
PROOF
<1>1. parent[f] \in Files
  <2>1. SUFFICES ASSUME parent[f] \notin Files PROVE FALSE
    OBVIOUS
  <2>2. D!Closed({f})
    BY <2>1 DEF D!Closed
  <2> QED
    BY <2>2 DEF D!Above
<1>2. ASSUME NEW S \in SUBSET Files, {parent[f]} \cap Files \subseteq S, D!Closed(S) PROVE t \in S
  <2>1. D!Closed(S \cup {f})
    BY <1>1, <1>2 DEF D!Closed
  <2>2. t \in S \cup {f}
    BY <2>1 DEF D!Above
  <2> QED
    BY <2>2
<1> QED
  BY <1>1, <1>2 DEF D!Above

(* A name that is neither "." nor ".." means one file at most.             *)
LEMMA LookFacts ==
  ASSUME NEW t, NEW d, NEW n, D!IsTree(t), n \notin {".", ".."}, NEW f \in D!Look(t, d, n)
  PROVE  /\ f \in Files /\ d \in t.searchable /\ t.parent[f] = d /\ t.name[f] = n
         /\ D!Look(t, d, n) = {f}
PROOF
<1>1. \A g \in D!Look(t, d, n) : g \in Files /\ d \in t.searchable /\ t.parent[g] = d /\ t.name[g] = n
  BY DEF D!Look
<1>2. \A g, x \in Files : t.parent[g] = t.parent[x] /\ t.name[g] = t.name[x] => g = x
  BY Zenon DEF D!IsTree
<1> QED
  BY <1>1, <1>2

(* ---- of the walk ---- *)

LEMMA Frames ==
  ASSUME DTypeOK
  PROVE  /\ Len(stack) \in Nat
         /\ stack # <<>> => Len(stack) \in 1..Len(stack)
         /\ stack = <<>> => Len(stack) = 0
         /\ \A k \in 1..Len(stack) : stack[k].dir \in Files /\ stack[k].unread \in SUBSET Labels
PROOF
<1>1. stack \in Seq([dir : Files, unread : SUBSET Labels])
  BY DEF DTypeOK
<1>2. Len(stack) \in Nat /\ (stack # <<>> => Len(stack) > 0) /\ (stack = <<>> => Len(stack) = 0)
  BY <1>1
<1>3. ASSUME NEW k \in 1..Len(stack)
      PROVE  stack[k].dir \in Files /\ stack[k].unread \in SUBSET Labels
  <2>1. stack[k] \in [dir : Files, unread : SUBSET Labels]
    BY <1>1, ElementOfSeq
  <2> QED
    BY <2>1
<1> QED
  BY <1>2, <1>3

(* The path has no cycle, nor has it with one file more at its end.        *)
Straight ==
  /\ \A j, k \in 1..Len(stack) : j <= k => parent[stack[j].dir] # stack[k].dir
  /\ \A j, k \in 1..Len(stack) : stack[j].dir = stack[k].dir => j = k
  /\ \A f \in Files : parent[f] # f
  /\ \A f \in Files : parent[f] = stack[Len(stack)].dir =>
       \A k \in 1..Len(stack) : stack[k].dir # f /\ parent[stack[k].dir] # f

LEMMA Chain == DTypeOK /\ Path => Straight
PROOF
<1> SUFFICES ASSUME DTypeOK, Path PROVE Straight
  OBVIOUS
<1> DEFINE n == Len(stack)
<1>a. n \in Nat /\ \A k \in 1..n : stack[k].dir \in Files
  BY Frames
<1>b. \A S \in (SUBSET Files) \ {{}} : \E f \in S : parent[f] \notin S
  BY TreeFacts
<1>c. \A k \in 1..n : k + 1 \in 1..n => parent[stack[k + 1].dir] = stack[k].dir
  BY DEF Path
<1> HIDE DEF n
<1>1. ASSUME NEW j \in 1..n, NEW k \in 1..n, j <= k, parent[stack[j].dir] = stack[k].dir PROVE FALSE
  <2> DEFINE S == {stack[i].dir : i \in j..k}
  <2>1. S \in (SUBSET Files) \ {{}}
    BY <1>a, <1>1
  <2>2. PICK f \in S : parent[f] \notin S
    BY <1>b, <2>1
  <2>3. PICK i \in j..k : f = stack[i].dir
    BY <2>2
  <2>4. CASE i = j
    BY <1>1, <2>2, <2>3, <2>4
  <2>5. CASE i # j
    <3>1. i - 1 \in 1..n /\ i - 1 \in j..k /\ (i - 1) + 1 = i /\ i \in 1..n
      BY <1>a, <1>1, <2>3, <2>5
    <3>2. parent[f] = stack[i - 1].dir
      BY <1>c, <2>3, <3>1
    <3> QED
      BY <2>2, <3>1, <3>2
  <2> QED
    BY <2>4, <2>5
<1>2. ASSUME NEW j \in 1..n, NEW k \in 1..n, stack[j].dir = stack[k].dir, j < k PROVE FALSE
  <2>1. j + 1 \in 1..n /\ j + 1 <= k
    BY <1>a, <1>2
  <2> QED
    BY <1>1, <1>2, <1>c, <2>1
<1>3. ASSUME NEW f \in Files PROVE parent[f] # f
  <2>1. {f} \in (SUBSET Files) \ {{}}
    BY <1>3
  <2> QED
    BY <1>b, <2>1
<1>4. ASSUME NEW f \in Files, parent[f] = stack[n].dir, NEW k \in 1..n PROVE stack[k].dir # f
  <2>1. n \in 1..n /\ k <= n
    BY <1>a, <1>4
  <2> QED
    BY <1>1, <1>4, <2>1
<1>5. ASSUME NEW f \in Files, parent[f] = stack[n].dir, NEW k \in 1..n, parent[stack[k].dir] = f PROVE FALSE
  <2> DEFINE S == {stack[i].dir : i \in k..n} \cup {f}
  <2>1. S \in (SUBSET Files) \ {{}} /\ n \in k..n
    BY <1>a, <1>5
  <2>2. PICK g \in S : parent[g] \notin S
    BY <1>b, <2>1
  <2>3. CASE g = f
    BY <1>5, <2>1, <2>2, <2>3
  <2>4. CASE g # f
    <3>1. PICK i \in k..n : g = stack[i].dir
      BY <2>2, <2>4
    <3>2. i # k
      BY <1>5, <2>2, <3>1
    <3>3. i - 1 \in 1..n /\ i - 1 \in k..n /\ (i - 1) + 1 = i /\ i \in 1..n
      BY <1>a, <1>5, <3>1, <3>2
    <3>4. parent[g] = stack[i - 1].dir
      BY <1>c, <3>1, <3>3
    <3> QED
      BY <2>2, <3>3, <3>4
  <2> QED
    BY <2>3, <2>4
<1>6. \A j, k \in 1..n : stack[j].dir = stack[k].dir => j = k
  <2>1. \A j, k \in 1..n : j < k \/ k < j \/ j = k
    BY <1>a
  <2> QED
    BY <1>2, <2>1
<1> QED
  BY <1>1, <1>3, <1>4, <1>5, <1>6 DEF Straight, n

(* What dopath finds under the name it was called with.                    *)
LEMMA NamedFacts ==
  ASSUME DTypeOK, Path, step \in {"call", "open"}, NEW f \in D!Named
  PROVE  /\ f \in Files /\ D!Named = {f}
         /\ stack = <<>> => f = D!Follow(D!Tree, argument)
         /\ stack # <<>> => /\ parent[f] = stack[Len(stack)].dir /\ name[f] = arg
                            /\ cwd = stack[Len(stack)].dir /\ cwd \in searchable
PROOF
<1>1. D!Calls = Len(stack) /\ Len(stack) \in Nat /\ (Len(stack) = 0 <=> stack = <<>>)
  BY Frames DEF D!Calls
<1>2. CASE stack = <<>>
  BY <1>1, <1>2 DEF D!Named
<1>3. CASE stack # <<>>
  <2>1. D!Named = D!Look(D!Tree, cwd, arg)
    BY <1>1, <1>3 DEF D!Named
  <2>2. D!IsTree(D!Tree) /\ arg \notin {".", ".."}
    BY <1>1, <1>3, TreeFacts DEF DTypeOK, Labels
  <2>3. D!Tree.parent = parent /\ D!Tree.name = name /\ D!Tree.searchable = searchable
    BY DEF D!Tree
  <2>4. f \in Files /\ cwd \in searchable /\ parent[f] = cwd /\ name[f] = arg /\ D!Named = {f}
    BY <2>1, <2>2, <2>3, LookFacts
  <2>5. cwd = stack[Len(stack)].dir
    BY <1>3 DEF Path, D!InPlace, D!Last
  <2> QED
    BY <1>3, <2>4, <2>5
<1> QED
  BY <1>2, <1>3

LEMMA NamedUnread ==
  ASSUME DTypeOK, Path, Counts, step \in {"call", "open"}, NEW f \in D!Named, NEW k \in 1..Len(stack)
  PROVE  ~(parent[f] = stack[k].dir /\ name[f] \in stack[k].unread)
PROOF
<1>1. stack # <<>> /\ Len(stack) \in 1..Len(stack)
  BY Frames
<1>2. parent[f] = stack[Len(stack)].dir /\ name[f] = arg
  BY <1>1, NamedFacts
<1>3. arg \notin stack[Len(stack)].unread
  BY <1>1 DEF Counts
<1> QED
  BY <1>1, <1>2, <1>3, Chain DEF Straight

LEMMA SameTree ==
  ASSUME UNCHANGED D!modes, UNCHANGED parent
  PROVE  /\ D!Tree' = D!Tree /\ D!Dirs' = D!Dirs /\ Labels' = Labels
         /\ D!IsTree(D!Tree)' = D!IsTree(D!Tree)
         /\ D!Follow(D!Tree, argument)' = D!Follow(D!Tree, argument)
         /\ Explained => Explained'
PROOF
<1> USE DEF D!modes
<1>1. D!Tree' = D!Tree /\ D!Dirs' = D!Dirs /\ Labels' = Labels
  BY DEF D!Tree, D!Dirs, Labels
<1>2. Explained => Explained'
  <2>1. \A S : D!Closed(S)' = D!Closed(S)
    BY DEF D!Closed
  <2>2. \A f : D!Above(f)' = D!Above(f)
    BY <2>1 DEF D!Above
  <2> QED
    BY <1>1, <2>2, Zenon DEF Explained
<1>3. D!IsTree(D!Tree)' = D!IsTree(D!Tree)
  BY <1>1 DEF D!IsTree
<1>4. D!Follow(D!Tree, argument)' = D!Follow(D!Tree, argument)
  BY <1>1
<1> QED
  BY <1>1, <1>2, <1>3, <1>4

LEMMA DInitInv == D!Init => DInv
PROOF
<1> SUFFICES ASSUME D!Init PROVE DInv
  OBVIOUS
<1>1. PICK t \in Trees : kind = t.kind /\ name = t.name /\ parent = t.parent
  BY DEF D!Init
<1>2. D!IsTree(D!Tree)
  <2>1. D!Tree.parent = parent /\ D!Tree.name = name /\ D!Tree.kind = kind
    BY DEF D!Tree
  <2>2. D!IsTree(t)
    BY TreesAssumption
  <2> QED
    BY <1>1, <2>1, <2>2 DEF D!IsTree
<1>3. /\ stack = <<>> /\ step = "call" /\ ret = 0 /\ moves = 0
      /\ counted = [f \in Files |-> 0] /\ top = D!Follow(D!Tree, argument)
  BY DEF D!Init
<1>4. stack \in Seq([dir : Files, unread : SUBSET Labels]) /\ Len(stack) = 0 /\ D!Calls = 0
  BY <1>3, EmptySeq DEF D!Calls
<1>5. DTypeOK
  BY <1>2, <1>3, <1>4 DEF DTypeOK
<1>6. \A k \in 1..Len(stack) : FALSE
  BY <1>4
<1>7. Path
  BY <1>3, <1>4, <1>6 DEF Path, D!InPlace
<1>8. Counts
  <2>1. Busy = {}
    BY <1>3, <1>6 DEF Busy
  <2>2. Ahead(Files)
    BY <1>3, <2>1 DEF Ahead
  <2> QED
    BY <1>3, <1>6, <2>2 DEF Counts
<1>9. D!Named = Files \cap {top}
  BY <1>3, <1>4 DEF D!Named
<1>10. NothingMissed
  <2>1. Stacked /\ CallIsRight /\ Home
    BY <1>3, <1>6 DEF Stacked, CallIsRight, Home
  <2>2. ASSUME NEW f \in Files, counted[f] > 0 \/ Pending(f) PROVE top \in D!Above(f)
    <3>1. f \in D!Named
      BY <1>3, <1>6, <2>2 DEF Pending
    <3> QED
      BY <1>9, <3>1, AboveFacts
  <2>3. ASSUME NEW f \in Files, top \in D!Above(f)
        PROVE  Pending(f) \/ (f # top /\ counted[parent[f]] = 0)
    <3>1. CASE f = top
      BY <1>3, <1>9, <3>1 DEF Pending
    <3>2. CASE f # top
      <4>1. parent[f] \in Files
        BY <2>3, <3>2, AboveParent
      <4> QED
        BY <1>3, <3>2, <4>1
    <3> QED
      BY <3>1, <3>2
  <2> QED
    BY <1>3, <2>1, <2>2, <2>3 DEF NothingMissed, Below, Complete
<1> QED
  BY <1>5, <1>7, <1>8, <1>10 DEF DInv

(* ---- the steps, while the tree stays ---- *)

LEMMA BelowStays ==
  ASSUME UNCHANGED <<parent, top>>,
         \A f \in Files : counted'[f] > 0 \/ Pending(f)' => top \in D!Above(f)
  PROVE  Below'
PROOF BY DEF Below, D!Above, D!Closed

LEMMA CompleteStays ==
  ASSUME UNCHANGED <<parent, top>>,
         ret' = 0 => \A f \in Files : top \in D!Above(f) =>
            \/ counted'[f] >= 1 \/ Pending(f)'
            \/ f # top /\ counted'[parent[f]] = 0
  PROVE  Complete'
PROOF BY DEF Complete, D!Above, D!Closed

LEMMA StackedStays ==
  ASSUME UNCHANGED <<parent, name, top>>,
         \A k \in 1..Len(stack') : stack'[k].unread \subseteq D!Unread(stack'[k].dir),
         stack' # <<>> => stack'[1].dir = top,
         \A j, k \in 1..Len(stack') : j <= k => stack'[j].dir \in D!Above(stack'[k].dir)
  PROVE  Stacked'
PROOF BY DEF Stacked, D!Unread, D!Above, D!Closed

LEMMA ReturnKeeps ==
  ASSUME DTypeOK, step \in {"call", "open"}, step' = IF stack = <<>> THEN "done" ELSE "loop",
         UNCHANGED <<stack, cwd, moves, astray>>, UNCHANGED D!modes, UNCHANGED parent,
         counted' \in [Files -> Nat]
  PROVE  DTypeOK' /\ (Path => Path') /\ (Stacked => Stacked') /\ CallIsRight'
PROOF
<1>1. step' \in {"done", "loop"} /\ (step' = "loop" => stack # <<>>) /\ (step' = "done" => stack = <<>>)
  OBVIOUS
<1>2. DTypeOK'
  BY <1>1, SameTree DEF DTypeOK
<1>3. Path => Path'
  BY <1>1 DEF Path, D!InPlace, D!modes, D!Last
<1>4. Stacked => Stacked'
  BY StackedStays DEF Stacked, D!modes
<1>5. CallIsRight'
  BY <1>1 DEF CallIsRight
<1> QED
  BY <1>2, <1>3, <1>4, <1>5

(* dopath returns at once; C is what it has counted of that with which it  *)
(* was called.                                                             *)
LEMMA ReturnCounts ==
  ASSUME DTypeOK, Path, Counts, step \in {"call", "open"},
         step' = IF stack = <<>> THEN "done" ELSE "loop",
         UNCHANGED <<stack, moves>>, UNCHANGED D!modes, UNCHANGED parent,
         NEW C \in SUBSET D!Named, C = {} \/ step = "call",
         \A f \in Files : counted'[f] = IF f \in C THEN counted[f] + 1 ELSE counted[f]
  PROVE  Counts'
PROOF
<1>1. PICK X \in SUBSET Files : Ahead(X)
  BY DEF Counts
<1>2. \A f \in C : f \in X /\ f \in Files
  <2>1. \A f \in C : f \in Files /\ Pending(f)
    BY NamedFacts DEF Pending
  <2> QED
    BY <1>1, <2>1 DEF Ahead
<1>3. \A f \in Files : counted'[f] <= 1 + moves'
  <2>1. \A f \in Files : counted[f] \in Nat /\ moves \in Nat /\ counted[f] <= 1 + moves
    BY DEF DTypeOK, Counts
  <2>2. \A f \in C : counted[f] <= moves
    BY <1>1, <1>2 DEF Ahead
  <2> QED
    BY <2>1, <2>2
<1>4. UNCHANGED <<kind, name, parent, stack, moves>>
  BY DEF D!modes
<1>5. CASE stack = <<>>
  <2>1. step' = "done" /\ \A k \in 1..Len(stack) : FALSE
    BY <1>5, Frames
  <2>2. \A f \in Files : ~Pending(f)'
    BY <1>4, <2>1 DEF Pending
  <2>3. Ahead({})'
    BY <2>2 DEF Ahead
  <2> QED
    BY <1>3, <1>4, <2>1, <2>3 DEF Counts
<1>6. CASE stack # <<>>
  <2>1. step' = "loop" /\ Len(stack) \in 1..Len(stack)
    BY <1>6, Frames
  <2>2. \A f \in D!Named : parent[f] \notin X
    BY <1>1, <1>6, <2>1, NamedFacts DEF Ahead, Busy
  <2>3. Busy' = {stack[k].dir : k \in 1..Len(stack)}
    BY <1>4, <2>1 DEF Busy
  <2>4. ASSUME NEW f \in Files, parent[f] \in X \ C PROVE f \in (X \ C) \cup Busy'
    <3>1. f \in X \cup Busy /\ f \notin D!Named
      BY <1>1, <2>2, <2>4 DEF Ahead
    <3> QED
      BY <2>3, <3>1 DEF Busy
  <2>5. ASSUME NEW f \in Files, Pending(f)' PROVE f \in X \ C
    <3>1. PICK k \in 1..Len(stack) : parent[f] = stack[k].dir /\ name[f] \in stack[k].unread
      BY <1>4, <2>1, <2>5 DEF Pending
    <3>2. f \in X
      BY <1>1, <3>1 DEF Ahead, Pending
    <3>3. f \notin D!Named
      BY <3>1, NamedUnread
    <3> QED
      BY <3>2, <3>3
  <2>6. \A f \in X \ C : f \notin Busy' /\ counted'[f] <= moves'
    BY <1>1, <1>4, <2>3 DEF Ahead, Busy
  <2>7. Ahead(X \ C)'
    BY <1>4, <2>4, <2>5, <2>6 DEF Ahead
  <2>8. \A k \in 1..Len(stack') : k + 1 \in 1..Len(stack') => name'[stack'[k + 1].dir] \notin stack'[k].unread
    BY <1>4 DEF Counts
  <2> QED
    BY <1>3, <2>1, <2>7, <2>8 DEF Counts
<1> QED
  BY <1>5, <1>6

LEMMA NotThereStep == ASSUME DInv, D!NotThere PROVE DInv'
PROOF
<1>1. /\ step = "call" /\ D!Named = {} /\ ret' = -1
      /\ step' = IF stack = <<>> THEN "done" ELSE "loop"
      /\ UNCHANGED <<stack, counted, cwd, moves, astray>>
      /\ UNCHANGED D!modes /\ UNCHANGED parent
  BY DEF D!NotThere, D!Return
<1>2. DTypeOK /\ counted' \in [Files -> Nat]
  BY <1>1 DEF DInv, DTypeOK
<1>3. DTypeOK' /\ (Path => Path') /\ (Stacked => Stacked') /\ CallIsRight'
  BY <1>1, <1>2, ReturnKeeps
<1>4. Path /\ Counts => Counts'
  <2>1. {} \in SUBSET D!Named
    OBVIOUS
  <2> QED
    BY <1>1, <1>2, <2>1, ReturnCounts
<1>5. ASSUME Path, NothingMissed PROVE NothingMissed'
  <2>1. Explained
    <3>1. stack = <<>> /\ top = D!Follow(D!Tree, argument)
      BY <1>1, <1>5 DEF NothingMissed, CallIsRight
    <3>2. D!Calls = 0
      BY <1>1, <3>1 DEF D!Calls
    <3>3. top \notin Files
      BY <1>1, <3>1, <3>2 DEF D!Named
    <3> QED
      BY <3>3 DEF Explained
  <2>2. Explained'
    BY <1>1, <2>1, SameTree
  <2>3. Below'
    <3>1. \A f \in Files : Pending(f)' => Pending(f)
      BY <1>1 DEF Pending, D!modes
    <3>2. UNCHANGED <<parent, top>>
      BY <1>1 DEF D!modes
    <3> QED
      BY <1>1, <1>5, <3>1, <3>2, BelowStays DEF NothingMissed, Below
  <2> QED
    BY <1>1, <1>3, <1>5, <2>2, <2>3 DEF NothingMissed, Complete, Home
<1> QED
  BY <1>1, <1>3, <1>4, <1>5 DEF DInv

LEMMA NoDirectoryStep == ASSUME DInv, D!NoDirectory PROVE DInv'
PROOF
<1>1. PICK f \in D!Named \ D!Dirs : counted' = [counted EXCEPT ![f] = @ + 1]
  BY DEF D!NoDirectory, D!counter
<1>2. /\ step = "call" /\ ret' = 0 /\ ret = 0
      /\ step' = IF stack = <<>> THEN "done" ELSE "loop"
      /\ UNCHANGED <<stack, cwd, moves, astray>>
      /\ UNCHANGED D!modes /\ UNCHANGED parent
  BY DEF D!NoDirectory, D!Return, DInv, DTypeOK
<1>3. DTypeOK /\ f \in Files /\ counted \in [Files -> Nat]
  BY <1>1 DEF DInv, DTypeOK, D!Named, D!Look
<1>4. /\ counted' \in [Files -> Nat] /\ counted'[f] = counted[f] + 1
      /\ \A g \in Files : counted'[g] = IF g \in {f} THEN counted[g] + 1 ELSE counted[g]
  BY <1>1, <1>3
<1>5. DTypeOK' /\ (Path => Path') /\ (Stacked => Stacked') /\ CallIsRight'
  BY <1>2, <1>3, <1>4, ReturnKeeps
<1>6. Path /\ Counts => Counts'
  <2>1. {f} \in SUBSET D!Named
    BY <1>1
  <2> QED
    BY <1>2, <1>3, <1>4, <2>1, ReturnCounts
<1>7. ASSUME Path, NothingMissed PROVE NothingMissed'
  <2>1. D!Named = {f} /\ \A g \in Files : g # f => counted'[g] = counted[g]
    BY <1>1, <1>2, <1>3, <1>4, <1>7, NamedFacts
  <2>2. UNCHANGED <<parent, name, top>>
    BY <1>2 DEF D!modes
  <2>3. \A g \in Files : Pending(g)' => Pending(g)
    BY <1>2, <2>2 DEF Pending
  <2>4. Below'
    <3>1. ASSUME NEW g \in Files, counted'[g] > 0 \/ Pending(g)' PROVE top \in D!Above(g)
      <4>1. counted[g] > 0 \/ Pending(g)
        BY <1>2, <2>1, <2>3, <3>1 DEF Pending
      <4> QED
        BY <1>7, <4>1 DEF NothingMissed, Below
    <3> QED
      BY <2>2, <3>1, BelowStays
  <2>5. Complete'
    <3>1. ASSUME NEW g \in Files, top \in D!Above(g)
          PROVE  counted'[g] >= 1 \/ Pending(g)' \/ (g # top /\ counted'[parent[g]] = 0)
      <4>1. counted[g] >= 1 \/ Pending(g) \/ (g # top /\ counted[parent[g]] = 0)
        BY <1>2, <1>7, <3>1 DEF NothingMissed, Complete
      <4>2. CASE g = f
        BY <1>3, <1>4, <4>2
      <4>3. CASE g # f /\ counted[g] >= 1
        BY <2>1, <4>3
      <4>4. CASE g # f /\ Pending(g)
        BY <1>2, <2>1, <2>2, <4>4 DEF Pending
      <4>5. CASE g # top /\ counted[parent[g]] = 0
        <5>1. parent[g] \in Files
          BY <3>1, <4>5, AboveParent
        <5>2. parent[g] # f
          <6>1. g # Root
            BY <1>3, <5>1, TreeFacts, TreesAssumption
          <6> QED
            BY <1>1, <1>3, <6>1, TreeFacts DEF D!Dirs
        <5> QED
          BY <2>1, <4>5, <5>1, <5>2
      <4> QED
        BY <4>1, <4>2, <4>3, <4>4, <4>5
    <3> QED
      BY <2>2, <3>1, CompleteStays
  <2>6. Home'
    <3>1. CASE stack = <<>>
      <4>1. f = top
        BY <1>1, <1>2, <1>3, <1>7, <3>1, NamedFacts DEF NothingMissed, CallIsRight
      <4> QED
        BY <1>1, <1>2, <1>3, <2>2, <4>1, SameTree DEF Home
    <3>2. CASE stack # <<>>
      BY <1>2, <3>2 DEF Home
    <3> QED
      BY <3>1, <3>2
  <2> QED
    BY <1>2, <1>5, <1>7, <2>4, <2>5, <2>6 DEF NothingMissed
<1> QED
  BY <1>2, <1>5, <1>6, <1>7 DEF DInv

LEMMA SameNamed ==
  ASSUME UNCHANGED <<stack, cwd, arg>>, UNCHANGED D!modes, UNCHANGED parent,
         step = "chdir" <=> step' = "chdir"
  PROVE  D!Named' = D!Named
PROOF
<1>1. D!Tree' = D!Tree /\ D!Follow(D!Tree, argument)' = D!Follow(D!Tree, argument)
  BY SameTree
<1>2. D!Look(D!Tree, cwd, arg)' = D!Look(D!Tree, cwd, arg)
  BY <1>1 DEF D!Look, D!ParentDir
<1>3. D!Calls' = D!Calls
  BY DEF D!Calls
<1> QED
  BY <1>1, <1>2, <1>3 DEF D!Named

LEMMA DirectoryStep == ASSUME DInv, D!Directory PROVE DInv'
PROOF
<1>1. PICK f \in D!Named \cap D!Dirs : counted' = [counted EXCEPT ![f] = @ + 1]
  BY DEF D!Directory, D!counter
<1>2. /\ step = "call" /\ step' = "open"
      /\ UNCHANGED <<stack, arg, ret, cwd, moves, astray>>
      /\ UNCHANGED D!modes /\ UNCHANGED parent
  BY DEF D!Directory
<1>3. DTypeOK /\ f \in Files /\ counted \in [Files -> Nat] /\ ret = 0
  BY <1>1, <1>2 DEF DInv, DTypeOK, D!Named, D!Look
<1>4. /\ counted' \in [Files -> Nat] /\ counted'[f] = counted[f] + 1
      /\ \A g \in Files : g # f => counted'[g] = counted[g]
  BY <1>1, <1>3
<1>5. D!Named' = D!Named /\ UNCHANGED <<name, parent, top>>
  BY <1>2, SameNamed DEF D!modes
<1>6. DTypeOK'
  <2>1. D!Calls' = D!Calls
    BY <1>2 DEF D!Calls
  <2> QED
    BY <1>2, <1>3, <1>4, <2>1, SameTree DEF DTypeOK
<1>7. Path => Path'
  BY <1>2 DEF Path, D!InPlace, D!modes, D!Last
<1>8. ASSUME Path PROVE D!Named = {f} /\ Straight
  BY <1>1, <1>2, <1>3, <1>8, NamedFacts, Chain
<1>9. ASSUME Path, Counts PROVE Counts'
  <2>1. PICK X \in SUBSET Files : Ahead(X)
    BY <1>9 DEF Counts
  <2>2. f \in X /\ counted[f] <= moves
    BY <1>1, <1>2, <1>3, <2>1 DEF Ahead, Pending
  <2>3. \A g \in Files : counted'[g] <= 1 + moves'
    <3>1. \A g \in Files : counted[g] \in Nat /\ moves \in Nat /\ counted[g] <= 1 + moves
      BY <1>3, <1>9 DEF DTypeOK, Counts
    <3> QED
      BY <1>2, <1>3, <1>4, <2>2, <3>1
  <2>4. Busy = {stack[k].dir : k \in 1..Len(stack)} /\ Busy' = Busy \cup {f}
    BY <1>2, <1>5, <1>8, <1>9 DEF Busy
  <2>5. \A g \in Files : parent[g] = f => g # f /\ g \notin Busy
    <3>1. ASSUME NEW k \in 1..Len(stack) PROVE parent[stack[k].dir] # f
      <4>1. stack # <<>>
        BY <1>3, Frames
      <4> QED
        BY <1>1, <1>2, <1>3, <1>8, <1>9, <4>1, NamedFacts DEF Straight
    <3> QED
      BY <1>8, <1>9, <2>4, <3>1 DEF Straight
  <2>6. \A g \in Files : parent[g] \in X => g \in X \cup Busy
    BY <2>1 DEF Ahead
  <2>7. ASSUME NEW g \in Files, Pending(g)' PROVE g \in X \ {f}
    <3>1. CASE parent[g] = f
      BY <2>2, <2>5, <2>6, <3>1
    <3>2. CASE parent[g] # f
      <4>1. PICK k \in 1..Len(stack) : parent[g] = stack[k].dir /\ name[g] \in stack[k].unread
        BY <1>2, <1>5, <1>8, <1>9, <2>7, <3>2 DEF Pending
      <4>2. g \in X
        BY <2>1, <4>1 DEF Ahead, Pending
      <4>3. g # f
        BY <1>1, <1>2, <1>3, <1>9, <4>1, NamedUnread
      <4> QED
        BY <4>2, <4>3
    <3> QED
      BY <3>1, <3>2
  <2>8. Ahead(X \ {f})'
    BY <1>2, <1>4, <2>1, <2>4, <2>6, <2>7 DEF Ahead
  <2>9. \A k \in 1..Len(stack') : k + 1 \in 1..Len(stack') => name'[stack'[k + 1].dir] \notin stack'[k].unread
    BY <1>2, <1>5, <1>9 DEF Counts
  <2>10. stack' # <<>> => arg' \notin stack'[Len(stack')].unread
    BY <1>2, <1>9 DEF Counts
  <2> QED
    BY <2>3, <2>8, <2>9, <2>10 DEF Counts
<1>10. ASSUME Path, NothingMissed PROVE NothingMissed'
  <2>1. Stacked'
    BY <1>2, <1>5, <1>10, StackedStays DEF NothingMissed, Stacked
  <2>2. CallIsRight'
    <3>1. D!Named' # {} /\ D!Named' \subseteq D!Dirs'
      BY <1>1, <1>2, <1>5, <1>8, <1>10, SameTree
    <3>2. stack = <<>> => top = D!Follow(D!Tree, argument)
      BY <1>2, <1>10 DEF NothingMissed, CallIsRight
    <3> QED
      BY <1>2, <1>5, <3>1, <3>2, SameTree DEF CallIsRight
  <2>3. Below'
    <3>1. top \in D!Above(f)
      BY <1>1, <1>2, <1>3, <1>10 DEF NothingMissed, Below, Pending
    <3>2. ASSUME NEW g \in Files, counted'[g] > 0 \/ Pending(g)' PROVE top \in D!Above(g)
      <4>1. CASE g = f
        BY <3>1, <4>1
      <4>2. CASE parent[g] = f
        BY <1>3, <3>1, <4>2, AboveFacts
      <4>3. CASE g # f /\ parent[g] # f
        <5>1. counted[g] > 0 \/ Pending(g)
          BY <1>2, <1>4, <1>5, <1>8, <1>10, <3>2, <4>3 DEF Pending
        <5> QED
          BY <1>10, <5>1 DEF NothingMissed, Below
      <4> QED
        BY <4>1, <4>2, <4>3
    <3> QED
      BY <1>5, <3>2, BelowStays
  <2>4. Complete'
    <3>1. ASSUME NEW g \in Files, top \in D!Above(g)
          PROVE  counted'[g] >= 1 \/ Pending(g)' \/ (g # top /\ counted'[parent[g]] = 0)
      <4>1. counted[g] >= 1 \/ Pending(g) \/ (g # top /\ counted[parent[g]] = 0)
        BY <1>3, <1>10, <3>1 DEF NothingMissed, Complete
      <4>2. CASE g = f
        BY <1>3, <1>4, <4>2
      <4>3. CASE g # f /\ counted[g] >= 1
        BY <1>4, <4>3
      <4>4. CASE g # f /\ Pending(g)
        BY <1>2, <1>5, <1>8, <1>10, <4>4 DEF Pending
      <4>5. CASE g # top /\ counted[parent[g]] = 0
        <5>1. parent[g] \in Files
          BY <3>1, <4>5, AboveParent
        <5>2. CASE parent[g] = f
          BY <1>1, <1>2, <1>5, <5>2 DEF Pending
        <5>3. CASE parent[g] # f
          BY <1>4, <4>5, <5>1, <5>3
        <5> QED
          BY <5>2, <5>3
      <4> QED
        BY <4>1, <4>2, <4>3, <4>4, <4>5
    <3> QED
      BY <1>5, <3>1, CompleteStays
  <2> QED
    BY <1>2, <1>3, <2>1, <2>2, <2>3, <2>4 DEF NothingMissed, Home
<1> QED
  BY <1>2, <1>6, <1>7, <1>9, <1>10 DEF DInv

(* With as many directories open as a process can have, what dopath would  *)
(* open lies below all of them.                                            *)
LEMMA TooDeep ==
  ASSUME DTypeOK, Path, Stacked, step = "open", NEW f \in D!Named, top \in D!Above(f),
         Len(stack) = MaxOpen
  PROVE  Cardinality({g \in D!Above(f) : top \in D!Above(g)}) > MaxOpen
PROOF
<1> DEFINE n == Len(stack)
           h == [k \in 1..(n + 1) |-> IF k <= n THEN stack[k].dir ELSE f]
           Chained == {g \in D!Above(f) : top \in D!Above(g)}
<1>1. n \in Nat /\ \A k \in 1..n : stack[k].dir \in Files
  BY Frames
<1>2. f \in Files /\ f \in Chained
  BY NamedFacts, AboveFacts
<1>3. ASSUME NEW k \in 1..n PROVE stack[k].dir \in Chained /\ stack[k].dir # f
  <2>1. n \in 1..n /\ 1 \in 1..n /\ 1 <= k /\ k <= n /\ stack # <<>>
    BY <1>1, Frames
  <2>2. parent[f] = stack[n].dir /\ stack[n].dir \in Files
    BY <1>1, <2>1, NamedFacts
  <2>3. stack[k].dir \in D!Above(stack[n].dir) /\ top \in D!Above(stack[k].dir)
    BY <1>1, <2>1 DEF Stacked
  <2>4. stack[k].dir # f
    BY <1>2, <2>2, Chain DEF Straight
  <2> QED
    BY <1>2, <2>2, <2>3, <2>4, AboveFacts
<1>4. h \in Injection(1..(n + 1), Chained)
  <2>1. \A k \in 1..(n + 1) : h[k] \in Chained
    BY <1>1, <1>2, <1>3
  <2>2. ASSUME NEW j \in 1..(n + 1), NEW k \in 1..(n + 1), h[j] = h[k] PROVE j = k
    <3>1. CASE j \in 1..n /\ k \in 1..n
      BY <1>1, <2>2, <3>1, Chain DEF Straight
    <3>2. CASE j = n + 1 \/ k = n + 1
      BY <1>1, <1>3, <2>2, <3>2
    <3> QED
      BY <1>1, <3>1, <3>2
  <2> QED
    BY <2>1, <2>2 DEF Injection, IsInjective
<1>5. IsFiniteSet(Chained)
  <2>1. Chained \in SUBSET Files
    BY DEF D!Above
  <2> QED
    BY <2>1, TreesAssumption, FS_Subset
<1> HIDE DEF h, Chained
<1>6. Cardinality(1..(n + 1)) = n + 1
  BY <1>1, FS_Interval
<1>7. Cardinality(1..(n + 1)) <= Cardinality(Chained)
  BY <1>4, <1>5, FS_Injection
<1>8. Cardinality(Chained) \in Nat
  BY <1>5, FS_CardinalityType
<1>9. Cardinality(Chained) > MaxOpen
  BY <1>1, <1>6, <1>7, <1>8
<1> QED
  BY <1>9 DEF Chained

LEMMA NotReadableStep == ASSUME DInv, D!NotReadable PROVE DInv'
PROOF
<1>1. /\ step = "open" /\ ret' = -1 /\ (D!Named \cap listable = {} \/ Len(stack) = MaxOpen)
      /\ step' = IF stack = <<>> THEN "done" ELSE "loop"
      /\ UNCHANGED <<stack, counted, cwd, moves, astray>>
      /\ UNCHANGED D!modes /\ UNCHANGED parent
  BY DEF D!NotReadable, D!Return
<1>2. DTypeOK /\ counted' \in [Files -> Nat]
  BY <1>1 DEF DInv, DTypeOK
<1>3. DTypeOK' /\ (Path => Path') /\ (Stacked => Stacked') /\ CallIsRight'
  BY <1>1, <1>2, ReturnKeeps
<1>4. Path /\ Counts => Counts'
  <2>1. {} \in SUBSET D!Named
    OBVIOUS
  <2> QED
    BY <1>1, <1>2, <2>1, ReturnCounts
<1>5. ASSUME Path, NothingMissed PROVE NothingMissed'
  <2>1. PICK f \in D!Named : f \in D!Dirs
    BY <1>1, <1>5 DEF NothingMissed, CallIsRight
  <2>2. f \in Files /\ Stacked
    BY <1>5, <2>1 DEF D!Dirs, NothingMissed
  <2>3. top \in D!Above(f)
    <3>1. CASE stack = <<>>
      <4>1. f = top
        BY <1>1, <1>2, <1>5, <2>1, <3>1, NamedFacts DEF NothingMissed, CallIsRight
      <4> QED
        BY <2>2, <4>1, AboveFacts
    <3>2. CASE stack # <<>>
      <4>1. /\ parent[f] = stack[Len(stack)].dir /\ Len(stack) \in 1..Len(stack)
            /\ 1 \in 1..Len(stack) /\ 1 <= Len(stack) /\ parent[f] \in Files
        BY <1>1, <1>2, <1>5, <2>1, <3>2, NamedFacts, Frames
      <4>2. top \in D!Above(parent[f])
        BY <2>2, <3>2, <4>1 DEF Stacked
      <4> QED
        BY <2>2, <4>1, <4>2, AboveFacts
    <3> QED
      BY <3>1, <3>2
  <2>4. Explained
    <3>1. CASE D!Named \cap listable = {}
      BY <2>1, <2>3, <3>1 DEF Explained
    <3>2. CASE Len(stack) = MaxOpen
      <4>1. Cardinality({g \in D!Above(f) : top \in D!Above(g)}) > MaxOpen
        BY <1>1, <1>2, <1>5, <2>1, <2>2, <2>3, <3>2, TooDeep
      <4> QED
        BY <2>1, <4>1 DEF Explained
    <3> QED
      BY <1>1, <3>1, <3>2
  <2>5. Explained'
    BY <1>1, <2>4, SameTree
  <2>6. Below'
    <3>1. \A g \in Files : Pending(g)' => Pending(g)
      BY <1>1 DEF Pending, D!modes
    <3>2. UNCHANGED <<parent, top>>
      BY <1>1 DEF D!modes
    <3> QED
      BY <1>1, <1>5, <3>1, <3>2, BelowStays DEF NothingMissed, Below
  <2> QED
    BY <1>1, <1>3, <1>5, <2>5, <2>6 DEF NothingMissed, Complete, Home
<1> QED
  BY <1>1, <1>3, <1>4, <1>5 DEF DInv

LEMMA OpenFacts ==
  ASSUME DTypeOK, D!OpenDir
  PROVE  \E f \in D!Named \cap listable :
           /\ f \in Files
           /\ Len(stack') = Len(stack) + 1 /\ stack' \in Seq([dir : Files, unread : SUBSET Labels])
           /\ stack'[Len(stack) + 1].dir = f
           /\ stack'[Len(stack) + 1].unread = D!Unread(f)
           /\ \A k \in 1..Len(stack) : stack'[k] = stack[k]
PROOF
<1>1. PICK f \in D!Named \cap listable : stack' = Append(stack, [dir |-> f, unread |-> D!Unread(f)])
  BY DEF D!OpenDir
<1>2. f \in Files
  BY <1>1 DEF D!Named, D!Look
<1>3. stack \in Seq([dir : Files, unread : SUBSET Labels])
  BY DEF DTypeOK
<1>4. PICK frame \in [dir : Files, unread : SUBSET Labels] :
        frame = [dir |-> f, unread |-> D!Unread(f)]
  BY <1>2 DEF D!Unread, Labels
<1>5. stack' = Append(stack, frame)
  BY <1>1, <1>4
<1>6. /\ Len(stack') = Len(stack) + 1 /\ stack' \in Seq([dir : Files, unread : SUBSET Labels])
      /\ stack'[Len(stack) + 1] = frame
      /\ \A k \in 1..Len(stack) : stack'[k] = stack[k]
  BY <1>3, <1>5, AppendProperties
<1>7. frame.dir = f /\ frame.unread = D!Unread(f)
  BY <1>4
<1> QED
  BY <1>1, <1>2, <1>6, <1>7

LEMMA OpenDirStep == ASSUME DInv, D!OpenDir PROVE DInv'
PROOF
<1> DEFINE n == Len(stack)
<1>1. /\ step = "open" /\ step' = "chdir"
      /\ UNCHANGED <<arg, ret, cwd, counted, moves, astray>>
      /\ UNCHANGED D!modes /\ UNCHANGED parent
  BY DEF D!OpenDir
<1>2. DTypeOK /\ ret = 0
  BY <1>1 DEF DInv, DTypeOK
<1>3. n \in Nat /\ (stack = <<>> <=> n = 0) /\ \A k \in 1..n : stack[k].dir \in Files
  BY <1>2, Frames
<1>4. PICK f \in D!Named \cap listable :
        /\ f \in Files
        /\ Len(stack') = n + 1 /\ stack' \in Seq([dir : Files, unread : SUBSET Labels])
        /\ stack'[n + 1].dir = f
        /\ stack'[n + 1].unread = D!Unread(f)
        /\ \A k \in 1..n : stack'[k] = stack[k]
  BY <1>2, OpenFacts
<1> HIDE DEF n
<1>5. stack' # <<>> /\ \A k \in 1..Len(stack') : k \in 1..n \/ k = n + 1
  BY <1>3, <1>4, EmptySeq
<1>6. UNCHANGED <<name, parent, searchable, top>>
  BY <1>1 DEF D!modes
<1>7. DTypeOK'
  <2>1. D!Calls' = D!Calls
    BY <1>1, <1>3, <1>4 DEF D!Calls, n
  <2> QED
    BY <1>1, <1>2, <1>4, <1>5, <2>1, SameTree DEF DTypeOK
<1>8. ASSUME Path
      PROVE  /\ D!Named = {f} /\ Straight
             /\ n # 0 => /\ n \in 1..n /\ parent[f] = stack[n].dir /\ name[f] = arg
                         /\ cwd = stack[n].dir /\ cwd \in searchable
  <2>1. n # 0 => n \in 1..n
    BY <1>3
  <2> QED
    BY <1>1, <1>2, <1>3, <1>4, <1>8, <2>1, NamedFacts, Chain DEF n
<1>9. ASSUME Path PROVE Path'
  <2>1. Len(stack') > 1 => cwd' = stack'[Len(stack') - 1].dir
    BY <1>1, <1>3, <1>4, <1>8, <1>9
  <2>2. ASSUME NEW k \in 1..Len(stack'), k + 1 \in 1..Len(stack')
        PROVE  parent'[stack'[k + 1].dir] = stack'[k].dir /\ stack'[k].dir \in searchable'
    <3>1. k \in 1..n
      BY <1>3, <1>4, <2>2
    <3>2. CASE k + 1 \in 1..n
      BY <1>4, <1>6, <1>9, <3>1, <3>2 DEF Path, n
    <3>3. CASE k = n
      BY <1>4, <1>6, <1>8, <1>9, <3>1, <3>3
    <3> QED
      BY <1>3, <3>1, <3>2, <3>3
  <2> QED
    BY <1>1, <2>1, <2>2 DEF Path, D!InPlace
<1>10. ASSUME Path, NEW g \in Files
       PROVE  Pending(g)' <=> Pending(g)
  <2>1. Pending(g)' <=> \E k \in 1..(n + 1) : parent[g] = stack'[k].dir /\ name[g] \in stack'[k].unread
    BY <1>1, <1>4, <1>6 DEF Pending
  <2>2. Pending(g) <=>
          parent[g] = f \/ \E k \in 1..n : parent[g] = stack[k].dir /\ name[g] \in stack[k].unread
    BY <1>1, <1>8, <1>10 DEF Pending, n
  <2>3. parent[g] = f => name[g] \in stack'[n + 1].unread
    BY <1>4 DEF D!Unread
  <2>4. n + 1 \in 1..(n + 1) /\ \A k \in 1..n : k \in 1..(n + 1)
    BY <1>3
  <2> QED
    BY <1>3, <1>4, <2>1, <2>2, <2>3, <2>4
<1>11. ASSUME Path, Counts PROVE Counts'
  <2>1. PICK X \in SUBSET Files : Ahead(X)
    BY <1>11 DEF Counts
  <2>2. Busy' = Busy
    <3>1. Busy = {stack[k].dir : k \in 1..n} \cup {f}
      BY <1>1, <1>8, <1>11 DEF Busy, n
    <3>2. Busy' = {stack'[k].dir : k \in 1..(n + 1)}
      BY <1>1, <1>4 DEF Busy
    <3>3. n + 1 \in 1..(n + 1) /\ \A k \in 1..n : k \in 1..(n + 1)
      BY <1>3
    <3>4. ASSUME NEW g PROVE g \in Busy' <=> g \in Busy
      BY <1>3, <1>4, <1>5, <3>1, <3>2, <3>3
    <3> QED
      BY <3>1, <3>2, <3>4
  <2>3. Ahead(X)'
    BY <1>1, <1>6, <1>10, <1>11, <2>1, <2>2 DEF Ahead
  <2>4. ASSUME NEW k \in 1..Len(stack'), k + 1 \in 1..Len(stack')
        PROVE  name'[stack'[k + 1].dir] \notin stack'[k].unread
    <3>1. k \in 1..n
      BY <1>3, <1>4, <2>4
    <3>2. CASE k + 1 \in 1..n
      BY <1>4, <1>6, <1>11, <3>1, <3>2 DEF Counts, n
    <3>3. CASE k = n
      <4>1. arg \notin stack[n].unread
        BY <1>1, <1>3, <1>11, <3>1, <3>3 DEF Counts, n
      <4> QED
        BY <1>3, <1>4, <1>6, <1>8, <1>11, <3>1, <3>3, <4>1
    <3> QED
      BY <1>3, <3>1, <3>2, <3>3
  <2>5. \A g \in Files : counted'[g] <= 1 + moves'
    BY <1>1, <1>11 DEF Counts
  <2> QED
    BY <1>1, <2>3, <2>4, <2>5 DEF Counts
<1>12. ASSUME Path, NothingMissed PROVE NothingMissed'
  <2>1. Stacked'
    <3>1. \A k \in 1..Len(stack') : stack'[k].unread \subseteq D!Unread(stack'[k].dir)
      BY <1>4, <1>5, <1>12 DEF NothingMissed, Stacked, n
    <3>2. stack'[1].dir = top
      <4>1. CASE n = 0
        <5>1. f = top
          BY <1>1, <1>2, <1>3, <1>4, <1>12, <4>1, NamedFacts DEF NothingMissed, CallIsRight
        <5> QED
          BY <1>4, <4>1, <5>1
      <4>2. CASE n # 0
        <5>1. 1 \in 1..n /\ stack[1].dir = top
          BY <1>3, <1>12, <4>2 DEF NothingMissed, Stacked
        <5> QED
          BY <1>4, <5>1
      <4> QED
        BY <4>1, <4>2
    <3>3. ASSUME NEW j \in 1..Len(stack'), NEW k \in 1..Len(stack'), j <= k
          PROVE  stack'[j].dir \in D!Above(stack'[k].dir)
      <4>1. CASE j \in 1..n /\ k \in 1..n
        BY <1>4, <1>12, <3>3, <4>1 DEF NothingMissed, Stacked, n
      <4>2. CASE j = n + 1
        <5>1. k = n + 1
          BY <1>3, <1>4, <3>3, <4>2
        <5> QED
          BY <1>4, <4>2, <5>1, AboveFacts
      <4>3. CASE j \in 1..n /\ k = n + 1
        <5>1. n \in 1..n /\ n # 0 /\ j <= n
          BY <1>3, <4>3
        <5>2. parent[f] = stack[n].dir /\ parent[f] \in Files
          BY <1>3, <1>8, <1>12, <5>1
        <5>3. stack[j].dir \in D!Above(parent[f])
          BY <1>12, <4>3, <5>1, <5>2 DEF NothingMissed, Stacked, n
        <5> QED
          BY <1>4, <4>3, <5>2, <5>3, AboveFacts
      <4> QED
        BY <1>5, <4>1, <4>2, <4>3
    <3> QED
      BY <1>6, <3>1, <3>2, <3>3, StackedStays
  <2>2. Below'
    BY <1>1, <1>6, <1>10, <1>12, BelowStays DEF NothingMissed, Below
  <2>3. Complete'
    <3>1. \A g \in Files : top \in D!Above(g) =>
            \/ counted'[g] >= 1 \/ Pending(g)'
            \/ g # top /\ counted'[parent[g]] = 0
      BY <1>1, <1>2, <1>10, <1>12 DEF NothingMissed, Complete
    <3> QED
      BY <1>6, <3>1, CompleteStays
  <2> QED
    BY <1>1, <1>2, <1>5, <2>1, <2>2, <2>3 DEF NothingMissed, CallIsRight, Home
<1> QED
  BY <1>1, <1>7, <1>9, <1>11, <1>12 DEF DInv

(* Where a chdir that is not astray leads.                                 *)
LEMMA ChangeDirStep == ASSUME DInv, D!ChangeDir PROVE DInv'
PROOF
<1> DEFINE n == Len(stack)
<1>1. /\ step = "chdir" /\ step' = "loop" /\ cwd' \in D!Chdir(D!Named)
      /\ astray' = (astray \/ Last(stack).dir \notin D!Named \cap searchable)
      /\ UNCHANGED <<stack, arg, ret, counted, moves>>
      /\ UNCHANGED D!modes /\ UNCHANGED parent
  BY DEF D!ChangeDir, D!Last, Last
<1>2. DTypeOK /\ stack # <<>> /\ ret = 0
  BY <1>1 DEF DInv, DTypeOK
<1>3. n \in Nat /\ n \in 1..n
  BY <1>2, Frames
<1>4. UNCHANGED <<name, parent, searchable, top>>
  BY <1>1 DEF D!modes
<1>5. DTypeOK'
  BY <1>1, <1>2, SameTree DEF DTypeOK
<1>6. ASSUME ~astray' PROVE ~astray /\ stack[n].dir \in searchable /\ cwd' = stack[n].dir
  <2>1. ~astray /\ stack[n].dir \in D!Named \cap searchable
    BY <1>1, <1>6 DEF Last
  <2>2. D!Named = {stack[n].dir}
    <3>1. D!Calls = n - 1
      BY <1>1 DEF D!Calls
    <3>2. CASE n = 1
      BY <2>1, <3>1, <3>2 DEF D!Named
    <3>3. CASE n # 1
      <4>1. D!Calls # 0 /\ D!Named = D!Look(D!Tree, cwd, arg)
        BY <1>3, <3>1, <3>3 DEF D!Named
      <4>2. D!IsTree(D!Tree) /\ arg \notin {".", ".."}
        BY <1>1, <1>2, <4>1, TreeFacts DEF DTypeOK, Labels
      <4> QED
        BY <2>1, <4>1, <4>2, LookFacts
    <3> QED
      BY <3>2, <3>3
  <2> QED
    BY <1>1, <2>1, <2>2 DEF D!Chdir
<1>7. ASSUME ~astray', Path PROVE Path'
  <2>1. D!InPlace'
    BY <1>1, <1>6, <1>7 DEF D!InPlace, D!Last
  <2> QED
    BY <1>1, <1>4, <1>6, <1>7, <2>1 DEF Path
<1>8. \A g : Pending(g)' <=> Pending(g)
  BY <1>1, <1>4 DEF Pending
<1>9. Counts => Counts'
  <2>1. Busy' = Busy
    BY <1>1 DEF Busy
  <2>2. ASSUME NEW X \in SUBSET Files, Ahead(X) PROVE Ahead(X)'
    BY <1>1, <1>4, <1>8, <2>1, <2>2 DEF Ahead
  <2> QED
    BY <1>1, <1>4, <2>2 DEF Counts
<1>10. NothingMissed => NothingMissed'
  <2> SUFFICES ASSUME NothingMissed PROVE NothingMissed'
    OBVIOUS
  <2>1. Stacked'
    BY <1>1, <1>4, StackedStays DEF NothingMissed, Stacked
  <2>2. Below'
    BY <1>1, <1>4, <1>8, BelowStays DEF NothingMissed, Below
  <2>3. Complete'
    BY <1>1, <1>4, <1>8, CompleteStays DEF NothingMissed, Complete
  <2> QED
    BY <1>1, <1>2, <2>1, <2>2, <2>3 DEF NothingMissed, CallIsRight, Home
<1> QED
  BY <1>1, <1>5, <1>6, <1>7, <1>9, <1>10 DEF DInv

(* The loop reads one more name, which leaves those still to read.         *)
LEMMA ReadFacts ==
  ASSUME DTypeOK, D!ReadEntry
  PROVE  /\ Len(stack) \in Nat /\ Len(stack) \in 1..Len(stack)
         /\ Len(stack') = Len(stack) /\ stack' \in Seq([dir : Files, unread : SUBSET Labels])
         /\ arg' \in stack[Len(stack)].unread
         /\ stack'[Len(stack)].unread = stack[Len(stack)].unread \ {arg'}
         /\ \A k \in 1..Len(stack) :
              stack'[k].dir = stack[k].dir /\ (k # Len(stack) => stack'[k] = stack[k])
PROOF
<1>1. stack \in Seq([dir : Files, unread : SUBSET Labels]) /\ stack # <<>>
  BY DEF DTypeOK, D!ReadEntry
<1>2. Len(stack) \in Nat /\ Len(stack) \in 1..Len(stack)
  BY Frames, <1>1
<1>3. PICK n \in stack[Len(stack)].unread :
        arg' = n /\ stack' = [stack EXCEPT ![Len(stack)].unread = @ \ {n}]
  BY DEF D!ReadEntry, D!Last
<1> DEFINE innermost == stack[Len(stack)]
<1>4. innermost \in [dir : Files, unread : SUBSET Labels]
  BY <1>1, <1>2, ElementOfSeq
<1>5. PICK frame \in [dir : Files, unread : SUBSET Labels] :
        /\ frame.dir = innermost.dir /\ frame.unread = innermost.unread \ {n}
        /\ frame = [innermost EXCEPT !.unread = @ \ {n}]
  BY <1>4
<1>6. stack' = [stack EXCEPT ![Len(stack)] = frame]
  BY <1>3, <1>5
<1> HIDE DEF innermost
<1>7. /\ Len(stack') = Len(stack) /\ stack' \in Seq([dir : Files, unread : SUBSET Labels])
      /\ stack'[Len(stack)] = frame
      /\ \A k \in 1..Len(stack) : k # Len(stack) => stack'[k] = stack[k]
  BY <1>1, <1>2, <1>6
<1>8. stack'[Len(stack)].dir = stack[Len(stack)].dir
  BY <1>5, <1>7 DEF innermost
<1>9. stack'[Len(stack)].unread = stack[Len(stack)].unread \ {arg'}
  BY <1>3, <1>5, <1>7 DEF innermost
<1> QED
  BY <1>2, <1>3, <1>7, <1>8, <1>9

LEMMA ReadEntryStep == ASSUME DInv, D!ReadEntry PROVE DInv'
PROOF
<1> DEFINE n == Len(stack)
<1>1. /\ step = "loop" /\ step' = "call" /\ ret' = 0 /\ ret = 0
      /\ UNCHANGED <<moves, counted, astray, cwd>> /\ UNCHANGED D!modes /\ UNCHANGED parent
  BY DEF D!ReadEntry
<1>2. DTypeOK
  BY DEF DInv
<1>3. /\ n \in Nat /\ n \in 1..n
      /\ Len(stack') = n /\ stack' \in Seq([dir : Files, unread : SUBSET Labels])
      /\ arg' \in stack[n].unread
      /\ stack'[n].unread = stack[n].unread \ {arg'}
      /\ \A k \in 1..n : stack'[k].dir = stack[k].dir /\ (k # n => stack'[k] = stack[k])
  BY <1>2, ReadFacts
<1>4. stack # <<>> /\ stack' # <<>> /\ \A k \in 1..n : stack'[k].unread \subseteq stack[k].unread
  BY <1>2, <1>3, Frames, EmptySeq
<1>5. arg' \in Labels /\ stack[n].dir \in Files
  BY <1>2, <1>3, Frames
<1>6. UNCHANGED <<name, parent, searchable, top>>
  BY <1>1 DEF D!modes
<1> HIDE DEF n
<1>7. DTypeOK'
  BY <1>1, <1>2, <1>3, <1>4, <1>5, SameTree DEF DTypeOK
<1>8. ASSUME Path
      PROVE  /\ cwd = stack[n].dir /\ cwd \in searchable
             /\ D!Named' = {g \in Files : parent[g] = stack[n].dir /\ name[g] = arg'}
  <2>1. cwd = stack[n].dir /\ cwd \in searchable
    BY <1>1, <1>4, <1>8 DEF Path, D!InPlace, D!Last, n
  <2>2. D!Calls' # 0
    BY <1>1, <1>3 DEF D!Calls
  <2>3. D!Named' = D!Look(D!Tree, cwd, arg)'
    BY <2>2 DEF D!Named
  <2>4. arg' \notin {".", ".."}
    BY <1>2, <1>5, TreeFacts DEF Labels
  <2>5. D!Tree'.parent = parent /\ D!Tree'.name = name /\ D!Tree'.searchable = searchable
    BY <1>6 DEF D!Tree
  <2>6. D!Look(D!Tree, cwd, arg)' = {g \in Files : parent[g] = cwd /\ name[g] = arg'}
    BY <1>1, <2>1, <2>4, <2>5 DEF D!Look
  <2> QED
    BY <2>1, <2>3, <2>6
<1>9. Path => Path'
  BY <1>1, <1>3, <1>4, <1>6 DEF Path, D!InPlace, D!Last, n
<1>10. ASSUME Path, NEW g \in Files PROVE Pending(g)' <=> Pending(g)
  <2>1. Pending(g)' <=> \/ parent[g] = stack[n].dir /\ name[g] = arg'
                        \/ \E k \in 1..n : parent[g] = stack[k].dir /\ name[g] \in stack'[k].unread
    BY <1>1, <1>3, <1>6, <1>8, <1>10 DEF Pending
  <2>2. Pending(g) <=> \E k \in 1..n : parent[g] = stack[k].dir /\ name[g] \in stack[k].unread
    BY <1>1 DEF Pending, n
  <2>3. ASSUME NEW k \in 1..n, name[g] \in stack[k].unread, name[g] \notin stack'[k].unread
        PROVE  k = n /\ name[g] = arg'
    BY <1>3, <2>3
  <2> QED
    BY <1>3, <1>4, <2>1, <2>2, <2>3
<1>11. ASSUME Path, Counts PROVE Counts'
  <2>1. PICK X \in SUBSET Files : Ahead(X)
    BY <1>11 DEF Counts
  <2>2. Busy' = Busy
    BY <1>1, <1>3 DEF Busy, n
  <2>3. Ahead(X)'
    BY <1>1, <1>6, <1>10, <1>11, <2>1, <2>2 DEF Ahead
  <2>4. ASSUME NEW k \in 1..Len(stack'), k + 1 \in 1..Len(stack')
        PROVE  name'[stack'[k + 1].dir] \notin stack'[k].unread
    BY <1>3, <1>4, <1>6, <1>11, <2>4 DEF Counts, n
  <2>5. arg' \notin stack'[Len(stack')].unread
    BY <1>3
  <2>6. \A g \in Files : counted'[g] <= 1 + moves'
    BY <1>1, <1>11 DEF Counts
  <2> QED
    BY <2>3, <2>4, <2>5, <2>6 DEF Counts
<1>12. ASSUME Path, NothingMissed PROVE NothingMissed'
  <2>1. Stacked'
    <3>1. \A k \in 1..Len(stack') : stack'[k].unread \subseteq D!Unread(stack'[k].dir)
      BY <1>3, <1>4, <1>12 DEF NothingMissed, Stacked, n
    <3>2. stack'[1].dir = top
      <4>1. 1 \in 1..n /\ stack[1].dir = top
        BY <1>3, <1>4, <1>12 DEF NothingMissed, Stacked
      <4> QED
        BY <1>3, <4>1
    <3>3. \A j, k \in 1..Len(stack') : j <= k => stack'[j].dir \in D!Above(stack'[k].dir)
      BY <1>3, <1>12 DEF NothingMissed, Stacked, n
    <3> QED
      BY <1>6, <3>1, <3>2, <3>3, StackedStays
  <2>2. CallIsRight'
    <3>1. arg' \in D!Unread(stack[n].dir)
      BY <1>3, <1>12 DEF NothingMissed, Stacked, n
    <3>2. D!Named' # {}
      BY <1>8, <1>12, <3>1 DEF D!Unread
    <3> QED
      BY <1>1, <1>4, <3>2 DEF CallIsRight
  <2>3. Below'
    BY <1>1, <1>6, <1>10, <1>12, BelowStays DEF NothingMissed, Below
  <2>4. Complete'
    <3>1. \A g \in Files : top \in D!Above(g) =>
            \/ counted'[g] >= 1 \/ Pending(g)'
            \/ g # top /\ counted'[parent[g]] = 0
      BY <1>1, <1>2, <1>10, <1>12 DEF NothingMissed, Complete
    <3> QED
      BY <1>6, <3>1, CompleteStays
  <2> QED
    BY <1>1, <2>1, <2>2, <2>3, <2>4 DEF NothingMissed, Home
<1> QED
  BY <1>1, <1>7, <1>9, <1>11, <1>12 DEF DInv

(* The end of a call: back to the parent of its directory.                 *)
LEMMA LeaveFacts ==
  ASSUME DTypeOK, D!Leave
  PROVE  /\ Len(stack) \in Nat /\ Len(stack) \in 1..Len(stack)
         /\ Len(stack') = Len(stack) - 1 /\ stack' \in Seq([dir : Files, unread : SUBSET Labels])
         /\ \A k \in 1..(Len(stack) - 1) : stack'[k] = stack[k]
         /\ stack' = <<>> <=> Len(stack) = 1
         /\ stack[Len(stack)].unread = {} \/ ret # 0
PROOF
<1>1. stack \in Seq([dir : Files, unread : SUBSET Labels]) /\ stack # <<>>
  BY DEF DTypeOK, D!Leave
<1>2. Len(stack) \in Nat /\ Len(stack) \in 1..Len(stack)
  BY Frames, <1>1
<1>3. PICK m \in Nat : m = Len(stack) - 1
  BY <1>2
<1>4. stack' = SubSeq(stack, 1, m)
  BY <1>3 DEF D!Leave, D!Return, D!Front
<1>5. stack' \in Seq([dir : Files, unread : SUBSET Labels]) /\ Len(stack') = Len(stack) - 1
      /\ \A k \in 1..(Len(stack) - 1) : stack'[k] = stack[k]
  <2>1. \A k \in 1..m : stack[k] \in [dir : Files, unread : SUBSET Labels]
    <3>1. \A k \in 1..m : k \in 1..Len(stack)
      BY <1>2, <1>3
    <3> QED
      BY <1>1, <3>1, ElementOfSeq
  <2>2. /\ SubSeq(stack, 1, m) \in Seq([dir : Files, unread : SUBSET Labels])
        /\ Len(SubSeq(stack, 1, m)) = m
        /\ \A k \in 1..m : SubSeq(stack, 1, m)[k] = stack[k]
    BY <1>1, <1>2, <1>3, <2>1
  <2> QED
    BY <1>3, <1>4, <2>2, Zenon
<1>6. stack' = <<>> <=> Len(stack') = 0
  BY <1>5, EmptySeq
<1>7. stack' = <<>> <=> Len(stack) = 1
  BY <1>2, <1>5, <1>6
<1>8. stack[Len(stack)].unread = {} \/ ret # 0
  BY DEF D!Leave, D!Last
<1> QED
  BY <1>2, <1>5, <1>7, <1>8, Zenon

LEMMA LeaveStep == ASSUME DInv, D!Leave PROVE DInv'
PROOF
<1> DEFINE n == Len(stack)
<1>1. /\ step = "loop" /\ step' = IF stack' = <<>> THEN "done" ELSE "loop"
      /\ ret' = ret /\ cwd' \in D!Chdir(D!Look(D!Tree, cwd, ".."))
      /\ UNCHANGED <<moves, counted, astray, arg>> /\ UNCHANGED D!modes /\ UNCHANGED parent
  BY DEF D!Leave, D!Return
<1>2. DTypeOK
  BY DEF DInv
<1>3. /\ n \in Nat /\ n \in 1..n
      /\ Len(stack') = n - 1 /\ stack' \in Seq([dir : Files, unread : SUBSET Labels])
      /\ \A k \in 1..(n - 1) : stack'[k] = stack[k]
      /\ stack' = <<>> <=> n = 1
      /\ stack[n].unread = {} \/ ret # 0
  BY <1>2, LeaveFacts
<1>4. stack # <<>> /\ \A k \in 1..n : stack[k].dir \in Files
  BY <1>2, <1>3, Frames
<1>5. UNCHANGED <<kind, name, parent, searchable, top>>
  BY <1>1 DEF D!modes
<1>6. \A k \in 1..n : k \in 1..(n - 1) \/ k = n
  BY <1>3
<1>7. DTypeOK'
  <2>1. step' \in {"done", "loop"} /\ (step' = "loop" <=> stack' # <<>>)
    BY <1>1
  <2> QED
    BY <1>1, <1>2, <1>3, <2>1, SameTree DEF DTypeOK
<1> HIDE DEF n
<1>8. ASSUME Path
      PROVE  /\ cwd = stack[n].dir
             /\ cwd' = IF D!ParentDir(D!Tree, cwd) \in searchable THEN D!ParentDir(D!Tree, cwd) ELSE cwd
  <2>1. cwd = stack[n].dir /\ cwd \in searchable /\ cwd \in Files
    BY <1>1, <1>3, <1>4, <1>8 DEF Path, D!InPlace, D!Last, n
  <2>2. D!Tree.parent = parent /\ D!Tree.name = name /\ D!Tree.searchable = searchable
    BY DEF D!Tree
  <2>3. \A f \in Files : name[f] # ".."
    BY <1>2, TreeFacts
  <2>4. D!ParentDir(D!Tree, cwd) \in Files
    BY <2>1, <2>2 DEF D!ParentDir
  <2> HIDE DEF D!ParentDir
  <2>5. D!Look(D!Tree, cwd, "..") = {D!ParentDir(D!Tree, cwd)}
    BY <2>1, <2>2, <2>3, <2>4 DEF D!Look
  <2> QED
    BY <1>1, <2>1, <2>5 DEF D!Chdir
<1>9. ASSUME Path PROVE Path'
  <2>1. ASSUME n # 1 PROVE cwd' = stack'[n - 1].dir /\ stack'[n - 1].dir \in searchable'
    <3>1. n - 1 \in 1..(n - 1) /\ n - 1 \in 1..n /\ (n - 1) + 1 = n
      BY <1>3, <2>1
    <3>2. parent[stack[n].dir] = stack[n - 1].dir /\ stack[n - 1].dir \in searchable
      BY <1>3, <1>9, <3>1 DEF Path, n
    <3>3. D!ParentDir(D!Tree, cwd) = stack[n - 1].dir
      BY <1>4, <1>8, <1>9, <3>1, <3>2 DEF D!ParentDir, D!Tree
    <3> QED
      BY <1>3, <1>5, <1>8, <1>9, <3>1, <3>2, <3>3
  <2>2. ASSUME NEW k \in 1..(n - 1), k + 1 \in 1..(n - 1)
        PROVE  parent'[stack'[k + 1].dir] = stack'[k].dir /\ stack'[k].dir \in searchable'
    <3>1. k \in 1..n /\ k + 1 \in 1..n
      BY <1>3, <2>2
    <3> QED
      BY <1>3, <1>5, <1>9, <2>2, <3>1 DEF Path, n
  <2>3. step' # "chdir" /\ D!InPlace'
    BY <1>1, <1>3, <2>1 DEF D!InPlace, D!Last
  <2> QED
    BY <1>3, <2>1, <2>2, <2>3 DEF Path
<1>10. ASSUME NEW g \in Files, Pending(g)' PROVE Pending(g)
  <2>1. PICK k \in 1..(n - 1) : parent[g] = stack'[k].dir /\ name[g] \in stack'[k].unread
    BY <1>1, <1>3, <1>5, <1>10 DEF Pending
  <2>2. k \in 1..n
    BY <1>3, <2>1
  <2> QED
    BY <1>3, <2>1, <2>2 DEF Pending, n
<1>11. ASSUME Path, Counts PROVE Counts'
  <2>1. PICK X \in SUBSET Files : Ahead(X)
    BY <1>11 DEF Counts
  <2>2. Busy = {stack[k].dir : k \in 1..n} /\ Busy' = {stack'[k].dir : k \in 1..(n - 1)}
    BY <1>1, <1>3 DEF Busy, n
  <2>3. \E Y \in SUBSET Files : Ahead(Y)'
    <3>1. CASE n = 1
      <4>1. \A g \in Files : ~Pending(g)'
        BY <1>1, <1>3, <3>1 DEF Pending
      <4>2. Ahead({})'
        BY <4>1 DEF Ahead
      <4> QED
        BY <4>2
    <3>2. CASE n # 1
      <4>1. n - 1 \in 1..n /\ (n - 1) + 1 = n /\ \A k \in 1..(n - 1) : k \in 1..n
        BY <1>3, <3>2
      <4>2. parent[stack[n].dir] = stack[n - 1].dir
        BY <1>3, <1>11, <4>1 DEF Path, n
      <4>3. parent[stack[n].dir] \notin X
        BY <2>1, <2>2, <4>1, <4>2 DEF Ahead
      <4>4. \A g : g \in Busy => g \in Busy' \/ g = stack[n].dir
        BY <1>3, <1>6, <2>2
      <4>5. \A g : g \in Busy' => g \in Busy
        BY <1>3, <2>2, <4>1
      <4>6. ASSUME NEW g \in Files, parent[g] \in X PROVE g \in X \cup Busy'
        <5>1. g # stack[n].dir /\ g \in X \cup Busy
          BY <2>1, <4>3, <4>6 DEF Ahead
        <5> QED
          BY <4>4, <5>1
      <4>7. Ahead(X)'
        BY <1>1, <1>5, <1>10, <2>1, <4>5, <4>6 DEF Ahead
      <4> QED
        BY <4>7
    <3> QED
      BY <3>1, <3>2
  <2>4. ASSUME NEW k \in 1..(n - 1), k + 1 \in 1..(n - 1)
        PROVE  name'[stack'[k + 1].dir] \notin stack'[k].unread
    <3>1. k \in 1..n /\ k + 1 \in 1..n
      BY <1>3, <2>4
    <3> QED
      BY <1>3, <1>5, <1>11, <2>4, <3>1 DEF Counts, n
  <2>5. step' \notin {"call", "open"} /\ \A g \in Files : counted'[g] <= 1 + moves'
    BY <1>1, <1>11 DEF Counts
  <2> QED
    BY <1>3, <2>3, <2>4, <2>5 DEF Counts
<1>12. ASSUME Path, NothingMissed PROVE NothingMissed'
  <2>1. Stacked'
    <3>1. \A k \in 1..(n - 1) : k \in 1..n
      BY <1>3
    <3>2. \A k \in 1..Len(stack') : stack'[k].unread \subseteq D!Unread(stack'[k].dir)
      BY <1>3, <1>12, <3>1 DEF NothingMissed, Stacked, n
    <3>3. stack' # <<>> => stack'[1].dir = top
      <4>1. n # 1 => 1 \in 1..(n - 1)
        BY <1>3
      <4> QED
        BY <1>3, <1>4, <1>12, <4>1 DEF NothingMissed, Stacked
    <3>4. \A j, k \in 1..Len(stack') : j <= k => stack'[j].dir \in D!Above(stack'[k].dir)
      BY <1>3, <1>12, <3>1 DEF NothingMissed, Stacked, n
    <3> QED
      BY <1>5, <3>2, <3>3, <3>4, StackedStays
  <2>2. Below'
    <3>1. \A g \in Files : counted'[g] > 0 \/ Pending(g)' => top \in D!Above(g)
      BY <1>1, <1>10, <1>12 DEF NothingMissed, Below
    <3> QED
      BY <1>5, <3>1, BelowStays
  <2>3. Complete'
    <3>1. ASSUME ret' = 0, NEW g \in Files, top \in D!Above(g)
          PROVE  \/ counted'[g] >= 1 \/ Pending(g)'
                 \/ g # top /\ counted'[parent[g]] = 0
      <4>1. counted[g] >= 1 \/ Pending(g) \/ (g # top /\ counted[parent[g]] = 0)
        BY <1>1, <1>12, <3>1 DEF NothingMissed, Complete
      <4>2. ASSUME Pending(g) PROVE Pending(g)'
        <5>1. PICK k \in 1..n : parent[g] = stack[k].dir /\ name[g] \in stack[k].unread
          BY <1>1, <4>2 DEF Pending, n
        <5>2. k \in 1..(n - 1)
          BY <1>1, <1>3, <1>6, <3>1, <5>1
        <5> QED
          BY <1>3, <1>5, <5>1, <5>2 DEF Pending
      <4> QED
        BY <1>1, <4>1, <4>2
    <3> QED
      BY <1>5, <3>1, CompleteStays
  <2>4. Home'
    <3>1. SUFFICES ASSUME step' = "done", ret' = 0
                   PROVE  top \in Files /\ cwd' = IF D!ParentDir(D!Tree, top) \in searchable
                                                  THEN D!ParentDir(D!Tree, top) ELSE top
      BY <1>5 DEF Home, D!ParentDir, D!Tree
    <3>2. n = 1
      BY <1>1, <1>3, <3>1
    <3>3. stack[1].dir = top /\ cwd = top /\ top \in Files
      BY <1>3, <1>4, <1>8, <1>12, <3>2 DEF NothingMissed, Stacked
    <3> QED
      BY <1>8, <1>12, <3>3
  <2>5. ret' # 0 => Explained'
    BY <1>1, <1>12, SameTree DEF NothingMissed
  <2> QED
    BY <1>1, <2>1, <2>2, <2>3, <2>4, <2>5 DEF NothingMissed, CallIsRight
<1> QED
  BY <1>1, <1>7, <1>9, <1>11, <1>12 DEF DInv

(* ---- another process moves a file ---- *)

(* What dopath was called with is one file, in the innermost directory.    *)
Resolved == step \in {"call", "open"} =>
  \A f \in D!Named : /\ f \in Files /\ D!Named = {f}
                     /\ stack # <<>> => parent[f] = stack[Len(stack)].dir /\ name[f] = arg

LEMMA NamedResolved == DTypeOK /\ Path => Resolved
PROOF BY NamedFacts DEF Resolved

LEMMA StraightNext == (DTypeOK /\ Path)' => (Straight /\ Resolved)'
PROOF BY Chain, NamedResolved, PTL

LEMMA MoveFacts ==
  ASSUME DTypeOK, D!Move
  PROVE  \E d \in Files \ {Root}, q \in D!Dirs :
           /\ d \notin D!Above(q) /\ \A f \in Files : parent[f] = q => name[f] # name[d]
           /\ parent' = [parent EXCEPT ![d] = q]
           /\ Len(stack') = Len(stack) /\ stack' \in Seq([dir : Files, unread : SUBSET Labels])
           /\ \A k \in 1..Len(stack) :
                /\ stack'[k].dir = stack[k].dir
                /\ stack'[k].unread \subseteq
                     stack[k].unread \cup {l \in {name[d]} : stack[k].dir = q}
           /\ astray' = (astray \/ \E k \in 1..Len(stack) : stack[k].dir = d)
PROOF
<1>1. PICK d \in Files \ {Root}, q \in D!Dirs :
        /\ d \notin D!Above(q) /\ \A f \in Files : parent[f] = q => name[f] # name[d]
        /\ parent' = [parent EXCEPT ![d] = q]
        /\ \E K \in SUBSET DOMAIN stack :
             stack' = [k \in DOMAIN stack |-> IF k \in K THEN D!Seen(stack[k], d, q) ELSE stack[k]]
        /\ astray' = (astray \/ \E k \in DOMAIN stack : stack[k].dir = d)
  BY DEF D!Move
<1>2. stack \in Seq([dir : Files, unread : SUBSET Labels]) /\ DOMAIN stack = 1..Len(stack)
      /\ Len(stack) \in Nat
  BY LenProperties DEF DTypeOK
<1>3. PICK K \in SUBSET (1..Len(stack)) :
        stack' = [k \in 1..Len(stack) |-> IF k \in K THEN D!Seen(stack[k], d, q) ELSE stack[k]]
  BY <1>1, <1>2
<1>4. ASSUME NEW k \in 1..Len(stack)
      PROVE  /\ stack'[k] \in [dir : Files, unread : SUBSET Labels]
             /\ stack'[k].dir = stack[k].dir
             /\ stack'[k].unread \subseteq stack[k].unread \cup {l \in {name[d]} : stack[k].dir = q}
  <2>1. PICK frame \in [dir : Files, unread : SUBSET Labels] : frame = stack[k]
    BY <1>2, ElementOfSeq
  <2>2. name[d] \in Labels
    BY DEF Labels
  <2>3. /\ D!Seen(frame, d, q) \in [dir : Files, unread : SUBSET Labels]
        /\ D!Seen(frame, d, q).dir = frame.dir
        /\ D!Seen(frame, d, q).unread \subseteq frame.unread \cup {l \in {name[d]} : frame.dir = q}
    <3>1. CASE frame.dir = q
      BY <2>2, <3>1 DEF D!Seen
    <3>2. CASE frame.dir # q
      BY <2>2, <3>2 DEF D!Seen
    <3> QED
      BY <3>1, <3>2
  <2>4. stack'[k] = D!Seen(frame, d, q) \/ stack'[k] = frame
    BY <1>3, <2>1
  <2> QED
    BY <2>1, <2>3, <2>4
<1>5. stack' = [k \in 1..Len(stack) |-> stack'[k]]
  BY <1>3
<1>6. stack' \in Seq([dir : Files, unread : SUBSET Labels]) /\ Len(stack') = Len(stack)
  BY <1>2, <1>4, <1>5
<1> QED
  BY <1>1, <1>2, <1>4, <1>6

(* A tree stays a tree: what would be a cycle after the move runs through  *)
(* the new parent, and what of it is above that is one without d.          *)
LEMMA MovedTree ==
  ASSUME DTypeOK, NEW d \in Files \ {Root}, NEW q \in D!Dirs, d \notin D!Above(q),
         \A f \in Files : parent[f] = q => name[f] # name[d],
         parent' = [parent EXCEPT ![d] = q], UNCHANGED D!modes
  PROVE  D!IsTree(D!Tree)'
PROOF
<1>1. q \in Files /\ d \in Files /\ kind[q] = "dir" /\ UNCHANGED <<kind, name>>
  BY DEF D!Dirs, D!modes
<1>2. /\ parent \in [Files -> Files \cup {"none"}] /\ parent[Root] = "none" /\ kind[Root] = "dir"
      /\ \A f \in Files \ {Root} : parent[f] \in Files /\ kind[parent[f]] = "dir"
      /\ \A f, g \in Files : parent[f] = parent[g] /\ name[f] = name[g] => f = g
      /\ \A f \in Files : name[f] \notin {".", ".."}
      /\ \A S \in (SUBSET Files) \ {{}} : \E f \in S : parent[f] \notin S
  BY TreeFacts
<1>3. parent'[d] = q /\ \A f \in Files : f # d => parent'[f] = parent[f]
  BY <1>1, <1>2
<1>4. parent' \in [Files -> Files \cup {"none"}] /\ parent'[Root] = "none"
  BY <1>1, <1>2, <1>3, TreesAssumption
<1>5. \A f \in Files \ {Root} : parent'[f] \in Files /\ kind[parent'[f]] = "dir"
  BY <1>1, <1>2, <1>3
<1>6. ASSUME NEW f \in Files, NEW g \in Files, parent'[f] = parent'[g], name[f] = name[g] PROVE f = g
  BY <1>2, <1>3, <1>6
<1>7. ASSUME NEW S \in (SUBSET Files) \ {{}} PROVE \E f \in S : parent'[f] \notin S
  <2>1. SUFFICES ASSUME \A f \in S : parent'[f] \in S PROVE FALSE
    OBVIOUS
  <2>2. d \in S
    BY <1>2, <1>3, <1>7, <2>1
  <2>3. q \in S \cap D!Above(q)
    BY <1>1, <1>3, <2>1, <2>2, AboveFacts
  <2>4. S \cap D!Above(q) \in (SUBSET Files) \ {{}}
    BY <1>7, <2>3
  <2>5. PICK f \in S \cap D!Above(q) : parent[f] \notin S \cap D!Above(q)
    BY <1>2, <2>4
  <2>6. f # d /\ f \in Files
    BY <1>7, <2>5
  <2>7. parent[f] \in S
    BY <1>3, <2>1, <2>5, <2>6
  <2>8. parent[f] \in D!Above(q)
    BY <1>1, <1>7, <2>5, <2>7, AboveFacts
  <2> QED
    BY <2>5, <2>7, <2>8
<1>8. D!Tree'.parent = parent' /\ D!Tree'.name = name /\ D!Tree'.kind = kind
  BY <1>1 DEF D!Tree
<1>9. D!IsTree(D!Tree')
  BY <1>2, <1>4, <1>5, <1>6, <1>7, <1>8 DEF D!IsTree
<1> QED
  BY <1>9 DEF D!IsTree

LEMMA MoveStep == ASSUME DInv, D!Move PROVE DInv'
PROOF
<1> DEFINE n == Len(stack)
<1>1. DTypeOK
  BY DEF DInv
<1>2. /\ moves' = moves + 1 /\ UNCHANGED D!modes
      /\ UNCHANGED <<name, searchable, step, arg, ret, cwd, counted>>
  BY DEF D!Move, D!modes, D!walk
<1>3. PICK d \in Files \ {Root}, q \in D!Dirs :
        /\ d \notin D!Above(q) /\ \A f \in Files : parent[f] = q => name[f] # name[d]
        /\ parent' = [parent EXCEPT ![d] = q]
        /\ Len(stack') = n /\ stack' \in Seq([dir : Files, unread : SUBSET Labels])
        /\ \A k \in 1..n :
             /\ stack'[k].dir = stack[k].dir
             /\ stack'[k].unread \subseteq stack[k].unread \cup {l \in {name[d]} : stack[k].dir = q}
        /\ astray' = (astray \/ \E k \in 1..n : stack[k].dir = d)
  BY <1>1, MoveFacts
<1>4. /\ n \in Nat /\ (stack # <<>> => n \in 1..n) /\ (stack = <<>> <=> n = 0)
      /\ \A k \in 1..n : stack[k].dir \in Files
  BY <1>1, Frames
<1>5. stack' = <<>> <=> stack = <<>>
  BY <1>3, <1>4, EmptySeq
<1>6. DTypeOK'
  <2>1. D!IsTree(D!Tree)'
    BY <1>1, <1>2, <1>3, MovedTree
  <2>2. Labels' = Labels /\ D!Calls' = D!Calls
    BY <1>2, <1>3 DEF Labels, D!Calls
  <2>3. moves' \in Nat /\ counted' \in [Files -> Nat]
    BY <1>1, <1>2 DEF DTypeOK
  <2> QED
    BY <1>1, <1>2, <1>3, <1>5, <2>1, <2>2, <2>3 DEF DTypeOK
<1> HIDE DEF n
<1>7. ASSUME ~astray'
      PROVE  /\ ~astray /\ Path
             /\ \A k \in 1..n : parent'[stack[k].dir] = parent[stack[k].dir]
  <2>1. parent \in [Files -> Files \cup {"none"}]
    BY <1>1, TreeFacts
  <2> QED
    BY <1>3, <1>4, <1>7, <2>1 DEF DInv
<1>8. ASSUME ~astray' PROVE Path'
  <2>1. D!InPlace'
    BY <1>2, <1>3, <1>4, <1>5, <1>7, <1>8 DEF Path, D!InPlace, D!Last, n
  <2>2. step = "chdir" /\ n > 1 => cwd = stack'[n - 1].dir
    <3>1. n > 1 => n - 1 \in 1..n
      BY <1>4
    <3> QED
      BY <1>3, <1>7, <1>8, <3>1 DEF Path, n
  <2>3. \A k \in 1..n : k + 1 \in 1..n =>
          parent'[stack'[k + 1].dir] = stack'[k].dir /\ stack'[k].dir \in searchable
    BY <1>3, <1>7, <1>8 DEF Path, n
  <2>4. stack # <<>> /\ step # "chdir" => stack'[n].dir \in searchable
    BY <1>3, <1>4, <1>7, <1>8 DEF Path, n
  <2> QED
    BY <1>2, <1>3, <1>5, <2>1, <2>2, <2>3, <2>4 DEF Path
<1>9. ASSUME ~astray', moves' <= 1 PROVE Counts'
  <2>1. moves = 0 /\ moves' = 1 /\ Path /\ Counts /\ NothingMissed
    BY <1>1, <1>2, <1>7, <1>9 DEF DInv, DTypeOK
  <2>2. Straight' /\ Resolved'
    BY <1>6, <1>8, <1>9, StraightNext
  <2>3. \A f \in Files : counted[f] \in Nat /\ counted'[f] <= 1
    BY <1>1, <1>2, <2>1 DEF DTypeOK, Counts
  <2>4. ASSUME NEW k \in 1..n, k + 1 \in 1..n PROVE name[stack[k + 1].dir] \notin stack'[k].unread
    <3>1. name[stack[k + 1].dir] \notin stack[k].unread /\ parent[stack[k + 1].dir] = stack[k].dir
      BY <2>1, <2>4 DEF Counts, Path, n
    <3> QED
      BY <1>3, <1>4, <2>4, <3>1
  <2>5. ASSUME step \in {"call", "open"}, stack # <<>> PROVE arg \notin stack'[n].unread
    <3>1. PICK f \in D!Named : TRUE
      BY <2>1, <2>5 DEF NothingMissed, CallIsRight
    <3>2. f \in Files /\ parent[f] = stack[n].dir /\ name[f] = arg
      BY <1>1, <2>1, <2>5, <3>1, NamedFacts DEF n
    <3>3. arg \notin stack[n].unread
      BY <2>1, <2>5 DEF Counts, n
    <3> QED
      BY <1>3, <1>4, <2>5, <3>2, <3>3
  <2>6. ASSUME NEW g \in Files, Pending(g)', g \in Busy' PROVE FALSE
    <3>1. CASE step = "call" /\ g \in D!Named'
      <4>1. PICK j \in 1..n : g = stack'[j].dir
        BY <1>2, <1>3, <2>6, <3>1 DEF Busy
      <4>2. stack' # <<>>
        BY <1>4, <1>5
      <4> QED
        BY <1>2, <1>3, <2>2, <3>1, <4>1, <4>2 DEF Resolved, Straight
    <3>2. CASE step = "open" /\ parent'[g] \in D!Named'
      <4>1. CASE g \in D!Named'
        BY <1>2, <2>2, <3>2, <4>1 DEF Resolved, Straight
      <4>2. CASE g \notin D!Named'
        <5>1. PICK j \in 1..n : g = stack'[j].dir
          BY <1>3, <2>6, <4>2 DEF Busy
        <5>2. stack' # <<>>
          BY <1>4, <1>5
        <5>3. parent'[g] \in Files /\ parent'[parent'[g]] = stack'[n].dir
          BY <1>2, <1>3, <2>2, <3>2, <5>2 DEF Resolved
        <5> QED
          BY <1>3, <2>2, <5>1, <5>3 DEF Straight
      <4> QED
        BY <4>1, <4>2
    <3>3. CASE \E k \in 1..n : parent'[g] = stack'[k].dir /\ name[g] \in stack'[k].unread
      <4>1. PICK k \in 1..n : parent'[g] = stack'[k].dir /\ name[g] \in stack'[k].unread
        BY <3>3
      <4>2. stack' # <<>> /\ stack # <<>> /\ n \in 1..n
        BY <1>4, <1>5
      <4>3. ASSUME step = "open", g \in D!Named' PROVE FALSE
        <5>1. parent'[g] = stack'[n].dir /\ name[g] = arg
          BY <1>2, <1>3, <2>2, <4>2, <4>3 DEF Resolved
        <5>2. k = n
          BY <1>3, <2>2, <4>1, <4>2, <5>1 DEF Straight
        <5> QED
          BY <2>5, <4>1, <4>2, <4>3, <5>1, <5>2
      <4>4. ASSUME NEW j \in 1..n, g = stack'[j].dir PROVE FALSE
        <5>1. ~(j <= k)
          BY <1>3, <2>2, <4>1, <4>4 DEF Straight
        <5>2. j - 1 \in 1..n /\ (j - 1) + 1 = j
          BY <1>4, <5>1
        <5>3. parent'[g] = stack'[j - 1].dir
          BY <1>3, <1>8, <1>9, <4>4, <5>2 DEF Path
        <5>4. k = j - 1
          BY <1>3, <2>2, <4>1, <5>2, <5>3 DEF Straight
        <5>5. name[stack[j].dir] \notin stack'[k].unread
          BY <2>4, <5>2, <5>4
        <5> QED
          BY <1>3, <4>1, <4>4, <5>5
      <4> QED
        BY <1>2, <1>3, <2>6, <4>3, <4>4 DEF Busy
    <3> QED
      BY <1>2, <1>3, <2>6, <3>1, <3>2, <3>3 DEF Pending
  <2>7. \E X \in SUBSET Files : Ahead(X)'
    <3>1. \A f \in Files : Pending(f)' => f \in Files \ Busy'
      BY <2>6
    <3>2. \A f \in Files \ Busy' : counted'[f] <= moves'
      BY <2>1, <2>3
    <3>3. PICK X \in SUBSET Files : X = Files \ Busy'
      OBVIOUS
    <3>4. \A f \in Files : parent'[f] \in X => f \in X \cup Busy'
      BY <3>3
    <3>5. \A f \in X : f \notin Busy'
      BY <3>3
    <3>6. Ahead(X)'
      BY <3>1, <3>2, <3>3, <3>4, <3>5 DEF Ahead
    <3> QED
      BY <3>6
  <2>8. \A f \in Files : counted'[f] <= 1 + moves'
    BY <1>2, <2>1, <2>3
  <2> QED
    BY <1>2, <1>3, <1>5, <2>4, <2>5, <2>7, <2>8 DEF Counts
<1>10. moves' # 0
  BY <1>1, <1>2 DEF DTypeOK
<1> QED
  BY <1>6, <1>8, <1>9, <1>10 DEF DInv

LEMMA DNextInv == DInv /\ [D!Next]_D!vars => DInv'
PROOF
<1> SUFFICES ASSUME DInv, [D!Next]_D!vars PROVE DInv'
  OBVIOUS
<1>1. ASSUME UNCHANGED D!vars PROVE DInv'
  <2>1. /\ UNCHANGED <<stack, step, arg, ret, cwd, counted, moves, astray>>
        /\ UNCHANGED D!modes /\ UNCHANGED parent
    BY <1>1 DEF D!vars, D!walk
  <2>2. UNCHANGED <<kind, name, listable, searchable, top>>
    BY <2>1 DEF D!modes
  <2>3. D!Named' = D!Named /\ D!Calls' = D!Calls
    BY <2>1, SameNamed DEF D!Calls
  <2>4. DTypeOK' /\ (Path => Path')
    <3>1. DTypeOK'
      BY <2>1, <2>3, SameTree DEF DInv, DTypeOK
    <3>2. Path => Path'
      BY <2>1, <2>2 DEF Path, D!InPlace, D!Last
    <3> QED
      BY <3>1, <3>2
  <2>5. \A f : Pending(f)' <=> Pending(f)
    BY <2>1, <2>2, <2>3 DEF Pending
  <2>6. Counts => Counts'
    <3>1. Busy' = Busy
      BY <2>1, <2>3 DEF Busy
    <3>2. ASSUME NEW X \in SUBSET Files, Ahead(X) PROVE Ahead(X)'
      BY <2>1, <2>5, <3>1, <3>2 DEF Ahead
    <3> QED
      BY <2>1, <2>2, <3>2 DEF Counts
  <2>7. NothingMissed => NothingMissed'
    <3> SUFFICES ASSUME NothingMissed PROVE NothingMissed'
      OBVIOUS
    <3>1. Stacked'
      BY <2>1, <2>2, StackedStays DEF NothingMissed, Stacked
    <3>2. CallIsRight'
      BY <2>1, <2>2, <2>3, SameTree DEF NothingMissed, CallIsRight
    <3>3. Below'
      BY <2>1, <2>2, <2>5, BelowStays DEF NothingMissed, Below
    <3>4. Complete'
      BY <2>1, <2>2, <2>5, CompleteStays DEF NothingMissed, Complete
    <3>5. Home'
      BY <2>1, <2>2, SameTree DEF NothingMissed, Home, D!ParentDir
    <3>6. ret' # 0 => Explained'
      BY <2>1, SameTree DEF NothingMissed
    <3> QED
      BY <3>1, <3>2, <3>3, <3>4, <3>5, <3>6 DEF NothingMissed
  <2> QED
    BY <2>1, <2>4, <2>6, <2>7 DEF DInv
<1> QED
  BY <1>1, NotThereStep, NoDirectoryStep, DirectoryStep, NotReadableStep, OpenDirStep,
     ChangeDirStep, ReadEntryStep, LeaveStep, MoveStep DEF D!Next

(* At the end nothing is pending, so a file below the argument that is not *)
(* counted lies in a directory that is not, and so on up to the argument.  *)
LEMMA DSafe == DInv => WalkIsRight
PROOF
<1> SUFFICES ASSUME DInv, ~astray PROVE D!WalkIsRight
  BY DEF WalkIsRight, D!WalkIsRight
<1>1. DTypeOK /\ D!InPlace /\ (moves <= 1 => \A f \in Files : counted[f] <= 1 + moves)
  BY DEF DInv, Path, Counts
<1>2. moves = 0 => \A f \in Files : counted[f] > 0 => top \in D!Above(f)
  BY DEF DInv, NothingMissed, Below
<1>3. ASSUME step = "done", moves = 0, ret = 0
      PROVE  /\ top \in Files /\ \A f \in Files : top \in D!Above(f) => counted[f] = 1
             /\ top \in D!Dirs =>
                  cwd = IF D!ParentDir(D!Tree, top) \in searchable THEN D!ParentDir(D!Tree, top) ELSE top
  <2>1. NothingMissed /\ \A k \in 1..Len(stack) : FALSE
    BY <1>1, <1>3, Frames DEF DInv, DTypeOK
  <2>2. \A f \in Files : ~Pending(f)
    BY <1>3, <2>1 DEF Pending
  <2>3. \A f \in Files : top \in D!Above(f) =>
          counted[f] >= 1 \/ (f # top /\ counted[parent[f]] = 0)
    BY <1>3, <2>1, <2>2 DEF NothingMissed, Complete
  <2> DEFINE Missed == {f \in Files : top \in D!Above(f) /\ counted[f] = 0}
  <2>4. Missed = {}
    <3>1. SUFFICES ASSUME Missed # {} PROVE FALSE
      OBVIOUS
    <3>2. PICK f \in Missed : parent[f] \notin Missed
      <4>1. Missed \in (SUBSET Files) \ {{}}
        BY <3>1
      <4> HIDE DEF Missed
      <4> QED
        BY <1>1, <4>1, TreeFacts
    <3>3. f # top /\ counted[parent[f]] = 0
      BY <2>3, <3>2
    <3>4. parent[f] \in Files /\ top \in D!Above(parent[f])
      BY <3>2, <3>3, AboveParent
    <3> QED
      BY <3>2, <3>3, <3>4
  <2>5. ASSUME NEW f \in Files, top \in D!Above(f) PROVE counted[f] = 1
    <3>1. counted[f] \in Nat /\ counted[f] # 0 /\ counted[f] <= 1
      BY <1>1, <1>3, <2>4, <2>5 DEF DTypeOK
    <3> QED
      BY <3>1
  <2> QED
    BY <1>3, <2>1, <2>5 DEF NothingMissed, Home
<1>4. ASSUME step = "done", moves = 0, ret # 0
      PROVE  \/ top \notin Files
             \/ \E f \in D!Dirs \ listable : top \in D!Above(f)
             \/ \E f \in D!Dirs : Cardinality({g \in D!Above(f) : top \in D!Above(g)}) > MaxOpen
  BY <1>4 DEF DInv, NothingMissed, Explained
<1>5. \A S : D!Cardinality(S) = Cardinality(S)
  BY DEF D!Cardinality, Cardinality
<1> QED
  BY <1>1, <1>2, <1>3, <1>4, <1>5, Zenon DEF D!WalkIsRight

(* In any tree, for any path that the program is started with, whichever   *)
(* directories can be read and searched and whatever is moved: a walk      *)
(* whose chdirs lead where opendir led and whose open directories stay is  *)
(* where it takes itself to be, counts right and ends in the argument's    *)
(* parent.                                                                 *)
THEOREM WalkCounts == D!Spec => []WalkIsRight
PROOF BY DInitInv, DNextInv, DSafe, PTL DEF D!Spec

(* The same in the composition of the programs.                            *)
THEOREM FilesWalkCounts == FilesSpec => []WalkIsRight
PROOF
<1>1. Start => DInv
  BY DInitInv DEF Start
<1>2. DInv /\ [Step]_<<which, vars, ovars, dvars, gvars>> => DInv'
  <2> SUFFICES ASSUME DInv, [Step]_<<which, vars, ovars, dvars, gvars>> PROVE DInv'
    OBVIOUS
  <2>1. UNCHANGED dvars => UNCHANGED D!vars
    BY DEF dvars, D!vars, D!modes, D!walk
  <2> QED
    BY <2>1, DNextInv DEF Step
<1> QED
  BY <1>1, <1>2, DSafe, PTL DEF FilesSpec

(* ---- Fortune ---- *)

(* What is proved of Fortune holds in the composition.                     *)
THEOREM FilesRunFortune == FilesSpec => Spec
PROOF
<1>1. Start => Init
  BY DEF Start
<1>2. [Step]_<<which, vars, ovars, dvars, gvars>> => [Next]_vars
  BY DEF Step
<1> QED
  BY <1>1, <1>2, PTL DEF FilesSpec, Spec
=============================================================================
