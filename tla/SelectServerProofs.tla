------------------------- MODULE SelectServerProofs -------------------------
(***************************************************************************)
(* Proofs about SelectServer for any clients, any number of slots and of   *)
(* descriptors, any lines and any sizes.                                   *)
(***************************************************************************)
EXTENDS SelectServer, FiniteSetTheorems, SequenceTheorems, TLAPS

TypeOK ==
  /\ srv \in {"select", "accept", "pid", "message", "answer", "failed", "killed", "closed"}
  /\ client \in [Slots -> Fds \cup {-1}]
  /\ maxi \in {-1, 1} /\ scan \in Nat
  /\ pid_client \in [Slots -> Clients \cup {"none", "garbage"}]
  /\ backlog \in Seq(Clients)
  /\ conn \in [Fds -> Clients \cup {"none"}]
  /\ user \in [Clients -> {"out", "pid", "typing", "reading", "gone"}]
  /\ inbox \in [Clients -> Nat] /\ outbox \in [Clients -> Nat]
  /\ peer \in [Clients -> {"open", "ended", "refused", "reset"}]

(* Only slot 0 is ever taken, by a descriptor that is open, and the pid    *)
(* read for a client goes to a later slot.                                 *)
OneSlot ==
  /\ \A k \in Slots \ {0} : client[k] = -1
  /\ client[0] # -1 => client[0] \in Open
  /\ pid_client[0] = "none"

(* Where the server stands in its table, and that a connection it saw is   *)
(* still there.                                                            *)
ServerAt ==
  /\ srv = "answer" => scan = 0 /\ client[0] # -1
  /\ srv = "pid" => scan \in Open
  /\ srv = "accept" /\ sockfd \in rset => backlog # <<>>

(* A client has one connection: it waits to be accepted once or is behind  *)
(* one descriptor.                                                         *)
OneConnection ==
  /\ \A fd, gd \in Open : conn[fd] = conn[gd] => fd = gd
  /\ \A i, j \in 1..Len(backlog) : backlog[i] = backlog[j] => i = j
  /\ \A i \in 1..Len(backlog), fd \in Fds : backlog[i] # conn[fd]
  /\ \A c \in Clients : user[c] = "out" =>
        (\A i \in 1..Len(backlog) : backlog[i] # c) /\ (\A fd \in Fds : conn[fd] # c)

(* The end of a connection is the client's leave, and with an answer       *)
(* unread it is a reset.                                                   *)
EndsByLeaving ==
  \A c \in Clients : /\ peer[c] # "open" => user[c] = "gone"
                     /\ peer[c] \in {"ended", "refused"} => outbox[c] = 0

(* An answer waits for the client in slot 0 and for no other one.          *)
AnswersForFirst ==
  \A c \in Clients : outbox[c] > 0 => client[0] # -1 /\ conn[client[0]] = c

(* OnlyFirstServed follows from these: that nobody else is answered        *)
(* needs one connection a client, and that slot 0 is not given to another  *)
(* client while an answer waits needs to know how connections end.         *)
Inv == TypeOK /\ OneSlot /\ ServerAt /\ OneConnection /\ EndsByLeaving /\ AnswersForFirst

(* ---- minima ---- *)

(* A set of naturals has a least member: its intervals from 0 have one.    *)
LEMMA MinExists ==
  ASSUME NEW S \in SUBSET Nat, S # {}
  PROVE  Min(S) \in S /\ \A y \in S : Min(S) <= y
PROOF
<1> DEFINE Below == {0..x : x \in S}
<1>1. Below \subseteq FiniteSubsetsOf(Nat) /\ Below # {}
  <2>1. ASSUME NEW x \in S PROVE 0..x \in SUBSET Nat /\ IsFiniteSet(0..x)
    <3>1. x \in Nat /\ 0 \in Int /\ x \in Int
      OBVIOUS
    <3> QED
      BY <3>1, FS_Interval
  <2> QED
    BY <2>1 DEF FiniteSubsetsOf
<1>2. PICK b \in Below : \A a \in Below : <<a, b>> \notin StrictSubsetOrdering(Nat)
  <2> HIDE DEF Below
  <2> QED
    BY <1>1, WFMin, FS_StrictSubsetOrderingWellFounded
<1>3. PICK x \in S : b = 0..x
  BY <1>2
<1>4. ASSUME NEW y \in S PROVE x <= y
  <2> SUFFICES ASSUME y < x PROVE FALSE
    OBVIOUS
  <2>1. x \in 0..x /\ x \notin 0..y
    OBVIOUS
  <2>2. 0..y \subseteq 0..x /\ 0..x \subseteq Nat
    OBVIOUS
  <2>3. <<0..y, 0..x>> \in StrictSubsetOrdering(Nat)
    BY <2>1, <2>2 DEF StrictSubsetOrdering
  <2> QED
    BY <2>3, <1>2, <1>3
<1> QED
  BY <1>3, <1>4, Zenon DEF Min

LEMMA Places == /\ 0 \in Slots /\ 1 \in Slots
                /\ Fds \subseteq Nat /\ -1 \notin Fds /\ 0 \notin Fds
                /\ sockfd \notin Fds
PROOF BY ConstAssumption DEF Slots, Fds, sockfd

(* accept() gives a descriptor that was free.                              *)
LEMMA LowestFree == ASSUME FreeFds # {} PROVE Min(FreeFds) \in FreeFds
PROOF
<1>1. FreeFds \in SUBSET Nat
  BY Places DEF FreeFds
<1> QED
  BY <1>1, MinExists

(* The search of connection() never stops but at slot 1.                   *)
LEMMA StopsAtOne == ASSUME TypeOK, OneSlot PROVE Stopped = 1
PROOF
<1> DEFINE S == {k \in 1..FD_SETSIZE-1 : client[k] < 0} \cup {FD_SETSIZE}
<1>1. 1 \in S
  BY Places, ConstAssumption DEF OneSlot, Slots
<1>2. \A k \in S : k \in Nat /\ 1 <= k
  BY ConstAssumption
<1>3. Min(S) \in S /\ Min(S) <= 1
  <2> HIDE DEF S
  <2>1. S \in SUBSET Nat /\ S # {}
    BY <1>1, <1>2
  <2> QED
    BY <2>1, <1>1, MinExists
<1>4. Min(S) = 1
  <2> HIDE DEF S
  <2> QED
    BY <1>2, <1>3
<1> QED
  BY <1>4 DEF Stopped

LEMMA TakenFits ==
  ASSUME TypeOK, NEW c \in Clients
  PROVE  /\ inbox[c] - Taken(c) \in Nat
         /\ inbox[c] = 0 => inbox[c] - Taken(c) = 0
PROOF
<1>1. inbox[c] \in Nat /\ SIZE_BUFFER \in Nat
  BY ConstAssumption DEF TypeOK
<1>2. {inbox[c], SIZE_BUFFER} \in SUBSET Nat /\ {inbox[c], SIZE_BUFFER} # {}
  BY <1>1
<1>3. Taken(c) \in {inbox[c], SIZE_BUFFER} /\ Taken(c) <= inbox[c]
  BY <1>2, MinExists DEF Taken
<1> QED
  BY <1>1, <1>3

LEMMA MaxiStays == ASSUME NEW m \in {-1, 1} PROVE Max({m, 1}) = 1
PROOF
<1>1. 1 \in {m, 1} /\ \A y \in {m, 1} : 1 >= y
  OBVIOUS
<1>2. \A x \in {m, 1} : (\A y \in {m, 1} : x >= y) => x = 1
  OBVIOUS
<1> QED
  BY <1>1, <1>2, Zenon DEF Max

LEMMA InitInv == Init => Inv
PROOF
<1> SUFFICES ASSUME Init PROVE Inv
  OBVIOUS
<1> USE Places, ConstAssumption DEF Init
<1>1. TypeOK
  BY DEF TypeOK
<1>2. OneSlot /\ ServerAt
  BY DEF OneSlot, ServerAt
<1>3. OneConnection
  BY DEF OneConnection, Open
<1>4. EndsByLeaving /\ AnswersForFirst
  BY DEF EndsByLeaving, AnswersForFirst
<1> QED
  BY <1>1, <1>2, <1>3, <1>4 DEF Inv

(* ---- the clients ---- *)

LEMMA ConnectStep ==
  ASSUME Inv, NEW c \in Clients, Connect(c)
  PROVE  Inv'
PROOF
<1> USE DEF Connect, server, table, wire
<1>1. backlog' \in Seq(Clients) /\ backlog' # <<>> /\ Len(backlog') = Len(backlog) + 1
      /\ \A i \in 1..Len(backlog') :
            backlog'[i] = IF i = Len(backlog) + 1 THEN c ELSE backlog[i]
  BY AppendProperties DEF Inv, TypeOK
<1>2. Len(backlog) \in Nat
  BY LenProperties DEF Inv, TypeOK
<1>3. \A i \in 1..Len(backlog') : i # Len(backlog) + 1 => i \in 1..Len(backlog)
  BY <1>1, <1>2
<1>4. TypeOK'
  BY <1>1 DEF Inv, TypeOK
<1>5. OneSlot' /\ ServerAt'
  BY <1>1 DEF Inv, OneSlot, ServerAt, Open
<1>6. OneConnection'
  <2>1. (\A i \in 1..Len(backlog) : backlog[i] # c) /\ (\A fd \in Fds : conn[fd] # c)
    BY DEF Inv, OneConnection
  <2>2. \A d \in Clients : user'[d] = "out" => user[d] = "out" /\ d # c
    BY DEF Inv, TypeOK
  <2>3. \A fd, gd \in Open' : conn'[fd] = conn'[gd] => fd = gd
    BY DEF Inv, OneConnection, Open
  <2>4. \A i, j \in 1..Len(backlog') : backlog'[i] = backlog'[j] => i = j
    BY <1>1, <1>3, <2>1 DEF Inv, OneConnection
  <2>5. \A i \in 1..Len(backlog'), fd \in Fds : backlog'[i] # conn'[fd]
    BY <1>1, <1>3, <2>1 DEF Inv, OneConnection
  <2>6. \A d \in Clients : user'[d] = "out" =>
          (\A i \in 1..Len(backlog') : backlog'[i] # d) /\ (\A fd \in Fds : conn'[fd] # d)
    BY <1>1, <1>3, <2>2 DEF Inv, OneConnection
  <2> QED
    BY <2>3, <2>4, <2>5, <2>6 DEF OneConnection
<1>7. EndsByLeaving' /\ AnswersForFirst'
  BY DEF Inv, EndsByLeaving, AnswersForFirst, TypeOK
<1> QED
  BY <1>4, <1>5, <1>6, <1>7 DEF Inv

(* A client that has connected changes only itself.                        *)
LEMMA UserMoves ==
  ASSUME Inv, NEW c \in Clients, NEW u \in {"typing", "reading", "gone"},
         user[c] # "out", user' = [user EXCEPT ![c] = u],
         UNCHANGED <<server, backlog>>
  PROVE  OneSlot' /\ ServerAt' /\ OneConnection'
PROOF
<1> USE DEF server, table
<1>1. OneSlot' /\ ServerAt'
  BY DEF Inv, OneSlot, ServerAt, Open
<1>2. \A d \in Clients : user'[d] = "out" => user[d] = "out"
  BY DEF Inv, TypeOK
<1>3. OneConnection'
  BY <1>2 DEF Inv, OneConnection, Open
<1> QED
  BY <1>1, <1>3

LEMMA SendStep ==
  ASSUME Inv, NEW c \in Clients, WritePid(c) \/ WriteLine(c)
  PROVE  Inv'
PROOF
<1>1. /\ UNCHANGED <<server, backlog, outbox, peer>>
      /\ \E n \in Nat : Send(c, n)
      /\ \E u \in {"typing", "reading"} : user' = [user EXCEPT ![c] = u]
      /\ user[c] \in {"pid", "typing"}
  BY ConstAssumption DEF WritePid, WriteLine
<1>2. OneSlot' /\ ServerAt' /\ OneConnection'
  BY <1>1, UserMoves
<1>3. TypeOK'
  BY <1>1 DEF Inv, TypeOK, Send, server, table
<1>4. EndsByLeaving' /\ AnswersForFirst'
  BY <1>1 DEF Inv, EndsByLeaving, AnswersForFirst, TypeOK, server, table
<1> QED
  BY <1>2, <1>3, <1>4 DEF Inv

LEMMA ReadAnswerStep ==
  ASSUME Inv, NEW c \in Clients, ReadAnswer(c)
  PROVE  Inv'
PROOF
<1> USE DEF ReadAnswer
<1>2. OneSlot' /\ ServerAt' /\ OneConnection'
  BY UserMoves
<1>3. TypeOK'
  BY DEF Inv, TypeOK, server, table
<1>4. EndsByLeaving' /\ AnswersForFirst'
  BY DEF Inv, EndsByLeaving, AnswersForFirst, TypeOK, server, table
<1> QED
  BY <1>2, <1>3, <1>4 DEF Inv

LEMMA CloseStep ==
  ASSUME Inv, NEW c \in Clients, Exit(c) \/ Interrupt(c)
  PROVE  Inv'
PROOF
<1>1. Close(c) /\ user[c] # "out"
  BY DEF Exit, Interrupt
<1> USE <1>1 DEF Close
<1>2. OneSlot' /\ ServerAt' /\ OneConnection'
  BY UserMoves
<1>3. TypeOK'
  BY DEF Inv, TypeOK, server, table
<1>4. EndsByLeaving' /\ AnswersForFirst'
  BY DEF Inv, EndsByLeaving, AnswersForFirst, TypeOK, server, table
<1> QED
  BY <1>2, <1>3, <1>4 DEF Inv

(* ---- the server ---- *)

(* A step that only moves the server, to a place that promises nothing.    *)
LEMMA ServerMoves ==
  ASSUME Inv, scan' \in Nat,
         srv' \in {"accept", "message", "select", "failed", "killed", "closed"},
         srv' = "accept" /\ sockfd \in rset' => backlog # <<>>,
         UNCHANGED <<client, maxi, pid_client, backlog, conn, user, inbox, outbox, peer>>
  PROVE  Inv'
PROOF
<1>1. TypeOK'
  BY DEF Inv, TypeOK
<1>2. OneSlot' /\ ServerAt'
  BY DEF Inv, OneSlot, ServerAt, Open
<1>3. OneConnection'
  BY DEF Inv, OneConnection, Open
<1>4. EndsByLeaving' /\ AnswersForFirst'
  BY DEF Inv, EndsByLeaving, AnswersForFirst
<1> QED
  BY <1>1, <1>2, <1>3, <1>4 DEF Inv

LEMMA MoveStep ==
  ASSUME Inv,
         \/ Select \/ NoConnection \/ AcceptFails \/ PassSlot \/ ReadFails
         \/ EndRound \/ InterruptServer
  PROVE  Inv'
PROOF
<1>0. scan \in Nat
  BY DEF Inv, TypeOK
<1>1. CASE Select
  BY <1>0, <1>1, ServerMoves DEF Select, table, wire, Readable
<1>2. CASE NoConnection
  BY <1>0, <1>2, ServerMoves DEF NoConnection, ToMessages, table, wire
<1>3. CASE AcceptFails
  BY <1>0, <1>3, ServerMoves DEF AcceptFails, table, wire
<1>4. CASE PassSlot
  BY <1>0, <1>4, ServerMoves DEF PassSlot, Serving, table, wire
<1>5. CASE ReadFails
  BY <1>0, <1>5, ServerMoves DEF ReadFails, table, wire
<1>6. CASE EndRound
  BY <1>0, <1>6, ServerMoves DEF EndRound, table, wire
<1>7. CASE InterruptServer
  BY <1>0, <1>7, ServerMoves DEF InterruptServer, table, wire
<1> QED
  BY <1>1, <1>2, <1>3, <1>4, <1>5, <1>6, <1>7

LEMMA AcceptStep == ASSUME Inv, Accept PROVE Inv'
PROOF
<1> DEFINE connfd == Min(FreeFds)
           c == Head(backlog)
<1>1. connfd \in Fds /\ conn[connfd] = "none"
  BY LowestFree DEF Accept, FreeFds
<1>2. /\ conn' = [conn EXCEPT ![connfd] = c]
      /\ backlog' = Tail(backlog)
      /\ client' = IF client[0] < 0 THEN [client EXCEPT ![0] = connfd] ELSE client
      /\ maxi' = Max({maxi, 1}) /\ srv' = "pid" /\ scan' = connfd
      /\ UNCHANGED <<pid_client, user, inbox, outbox, peer>>
      /\ srv = "accept" /\ sockfd \in rset
  BY StopsAtOne, ConstAssumption DEF Accept, Placed, Inv, wire
<1> HIDE DEF connfd
<1>3. /\ backlog # <<>> /\ c \in Clients /\ backlog' \in Seq(Clients)
      /\ Len(backlog) \in Nat /\ Len(backlog') = Len(backlog) - 1 /\ c = backlog[1]
      /\ \A i \in 1..Len(backlog') : backlog'[i] = backlog[i + 1]
  BY <1>2, HeadTailProperties, EmptySeq, LenProperties DEF Inv, TypeOK, ServerAt
<1>4. \A i \in 1..Len(backlog') : i + 1 \in 1..Len(backlog) /\ i + 1 # 1
  BY <1>3
<1>5. 1 \in 1..Len(backlog)
  <2>1. Len(backlog) # 0
    BY <1>3, EmptySeq DEF Inv, TypeOK
  <2> QED
    BY <1>3, <2>1
<1> HIDE DEF c
<1>6. c # "none"
  BY <1>3, ConstAssumption
<1>7. TypeOK'
  <2>1. client' \in [Slots -> Fds \cup {-1}] /\ conn' \in [Fds -> Clients \cup {"none"}]
    BY <1>1, <1>2, <1>3, Places DEF Inv, TypeOK
  <2>2. maxi' \in {-1, 1} /\ scan' \in Nat
    BY <1>1, <1>2, MaxiStays, Places DEF Inv, TypeOK
  <2> QED
    BY <1>2, <1>3, <2>1, <2>2 DEF Inv, TypeOK
<1>8. Open' = Open \cup {connfd} /\ connfd \notin Open
  BY <1>1, <1>2, <1>6 DEF Inv, TypeOK, Open
<1>9. client[0] < 0 <=> client[0] = -1
  <2>1. client[0] \in Fds \cup {-1}
    BY Places DEF Inv, TypeOK
  <2>2. client[0] \in Nat \/ client[0] = -1
    BY <2>1, Places
  <2> QED
    BY <2>2
<1>10. OneSlot'
  BY <1>1, <1>2, <1>8, <1>9, Places DEF Inv, TypeOK, OneSlot
<1>11. ServerAt'
  BY <1>2, <1>8 DEF ServerAt
<1>12. OneConnection'
  <2>1. \A fd \in Fds : conn'[fd] = IF fd = connfd THEN c ELSE conn[fd]
    BY <1>1, <1>2 DEF Inv, TypeOK
  <2>2. \A fd \in Fds : conn[fd] # c
    BY <1>3, <1>5 DEF Inv, OneConnection
  <2>3. \A fd, gd \in Open' : conn'[fd] = conn'[gd] => fd = gd
    BY <2>1, <2>2, <1>8 DEF Inv, OneConnection, Open
  <2>4. \A i, j \in 1..Len(backlog') : backlog'[i] = backlog'[j] => i = j
    BY <1>3, <1>4 DEF Inv, OneConnection
  <2>5. \A i \in 1..Len(backlog') : backlog'[i] # c
    <3> SUFFICES ASSUME NEW i \in 1..Len(backlog'), backlog[i + 1] = backlog[1] PROVE FALSE
      BY <1>3
    <3>1. i + 1 \in 1..Len(backlog) /\ i + 1 # 1
      BY <1>4
    <3> QED
      BY <3>1, <1>5 DEF Inv, OneConnection
  <2>6. \A i \in 1..Len(backlog'), fd \in Fds : backlog'[i] # conn'[fd]
    BY <2>1, <2>5, <1>3, <1>4 DEF Inv, OneConnection
  <2>7. \A d \in Clients : user'[d] = "out" =>
          (\A i \in 1..Len(backlog') : backlog'[i] # d) /\ (\A fd \in Fds : conn'[fd] # d)
    BY <2>1, <1>2, <1>3, <1>4, <1>5 DEF Inv, OneConnection
  <2> QED
    BY <2>3, <2>4, <2>6, <2>7 DEF OneConnection
<1>13. EndsByLeaving'
  BY <1>2 DEF Inv, EndsByLeaving
<1>14. AnswersForFirst'
  BY <1>2, <1>8, <1>9, Places DEF Inv, AnswersForFirst, OneSlot, Open, TypeOK
<1> QED
  BY <1>7, <1>10, <1>11, <1>12, <1>13, <1>14 DEF Inv

LEMMA ReadPidStep == ASSUME Inv, ReadPid PROVE Inv'
PROOF
<1> DEFINE c == conn[scan]
<1>1. c \in Clients
  BY DEF ReadPid, Inv, TypeOK, ServerAt, Open
<1>2. inbox[c] - Taken(c) \in Nat
  BY <1>1, TakenFits DEF Inv
<1>3. /\ inbox' = [inbox EXCEPT ![c] = inbox[c] - Taken(c)]
      /\ \E pid \in Clients \cup {"garbage"} : pid_client' = [pid_client EXCEPT ![1] = pid]
      /\ srv' = "message" /\ scan' = 0
      /\ UNCHANGED <<client, maxi, conn, backlog, user, outbox, peer>>
  BY <1>1, StopsAtOne DEF ReadPid, ToMessages, Inv
<1> HIDE DEF c
<1>4. TypeOK'
  BY <1>1, <1>2, <1>3, Places DEF Inv, TypeOK
<1>5. OneSlot' /\ ServerAt'
  BY <1>3, Places DEF Inv, OneSlot, ServerAt, Open, TypeOK
<1>6. OneConnection' /\ EndsByLeaving' /\ AnswersForFirst'
  BY <1>3 DEF Inv, OneConnection, Open, EndsByLeaving, AnswersForFirst
<1> QED
  BY <1>4, <1>5, <1>6 DEF Inv

(* message() finds nobody but in slot 0.                                   *)
LEMMA FirstSlotHit == ASSUME Inv, Serving, Hit PROVE scan = 0 /\ client[0] # -1
PROOF
<1>1. scan \in Slots
  <2>1. scan \in Nat /\ maxi \in {-1, 1}
    BY DEF Inv, TypeOK
  <2>2. scan = 0 \/ scan = 1
    BY <2>1 DEF Serving
  <2> QED
    BY <2>2, Places
<1>2. client[scan] # -1
  BY DEF Hit
<1> QED
  BY <1>1, <1>2 DEF Inv, OneSlot

LEMMA ReadMessageStep == ASSUME Inv, ReadMessage PROVE Inv'
PROOF
<1> DEFINE c == Caller
<1>1. scan = 0 /\ client[0] # -1
  BY FirstSlotHit DEF ReadMessage
<1>2. c \in Clients /\ client[scan] \in Open
  BY <1>1 DEF Inv, TypeOK, OneSlot, Open, Caller
<1>3. inbox[c] - Taken(c) \in Nat
  BY <1>2, TakenFits DEF Inv
<1>4. /\ inbox' = [inbox EXCEPT ![c] = inbox[c] - Taken(c)] /\ srv' = "answer"
      /\ UNCHANGED <<client, maxi, pid_client, scan, conn, backlog, user, outbox, peer>>
  BY <1>2 DEF ReadMessage, table
<1> HIDE DEF c
<1>5. TypeOK'
  BY <1>2, <1>3, <1>4 DEF Inv, TypeOK
<1>6. OneSlot' /\ ServerAt'
  BY <1>1, <1>4 DEF Inv, OneSlot, ServerAt, Open
<1>7. OneConnection' /\ EndsByLeaving' /\ AnswersForFirst'
  BY <1>4 DEF Inv, OneConnection, Open, EndsByLeaving, AnswersForFirst
<1> QED
  BY <1>5, <1>6, <1>7 DEF Inv

(* Nothing is owed to who left cleanly, so slot 0 can be given up.         *)
LEMMA DisconnectStep == ASSUME Inv, Disconnect PROVE Inv'
PROOF
<1> DEFINE fd == client[0]
<1>1. scan = 0 /\ client[0] # -1
  BY FirstSlotHit DEF Disconnect
<1>2. fd \in Open /\ fd \in Fds /\ conn[fd] \in Clients
  BY <1>1 DEF Inv, TypeOK, OneSlot, Open
<1>3. outbox[conn[fd]] = 0
  <2>1. peer[conn[fd]] \in {"ended", "refused"}
    BY <1>1 DEF Disconnect, Caller
  <2> QED
    BY <2>1, <1>2 DEF Inv, EndsByLeaving
<1>4. /\ conn' = [conn EXCEPT ![fd] = "none"] /\ client' = [client EXCEPT ![0] = -1]
      /\ scan' = scan + 1 /\ srv = "message"
      /\ UNCHANGED <<srv, maxi, pid_client, backlog, user, inbox, outbox, peer>>
  BY <1>1 DEF Disconnect, Serving, wire
<1> HIDE DEF fd
<1>5. TypeOK'
  BY <1>2, <1>4, Places DEF Inv, TypeOK
<1>6. Open' \subseteq Open
  BY <1>2, <1>4 DEF Inv, TypeOK, Open
<1>7. OneSlot'
  BY <1>4, Places DEF Inv, OneSlot, TypeOK
<1>8. ServerAt'
  BY <1>4 DEF ServerAt
<1>9. OneConnection'
  <2>1. \A gd \in Fds : conn'[gd] = "none" \/ conn'[gd] = conn[gd]
    BY <1>2, <1>4 DEF Inv, TypeOK
  <2>2. \A gd \in Open' : conn'[gd] = conn[gd]
    BY <2>1 DEF Open
  <2>3. "none" \notin Clients /\ \A i \in 1..Len(backlog) : backlog[i] \in Clients
    BY ConstAssumption, ElementOfSeq DEF Inv, TypeOK
  <2>4. \A gd, hd \in Open' : conn'[gd] = conn'[hd] => gd = hd
    BY <2>2, <1>6 DEF Inv, OneConnection
  <2>5. \A i, j \in 1..Len(backlog') : backlog'[i] = backlog'[j] => i = j
    BY <1>4 DEF Inv, OneConnection
  <2>6. \A i \in 1..Len(backlog'), gd \in Fds : backlog'[i] # conn'[gd]
    BY <2>1, <2>3, <1>4 DEF Inv, OneConnection
  <2>7. \A d \in Clients : user'[d] = "out" =>
          (\A i \in 1..Len(backlog') : backlog'[i] # d) /\ (\A gd \in Fds : conn'[gd] # d)
    BY <2>1, <2>3, <1>4 DEF Inv, OneConnection
  <2> QED
    BY <2>4, <2>5, <2>6, <2>7 DEF OneConnection
<1>10. EndsByLeaving'
  BY <1>4 DEF Inv, EndsByLeaving
<1>11. AnswersForFirst'
  <2>1. ASSUME NEW d \in Clients PROVE outbox[d] = 0
    <3>1. outbox[d] \in Nat
      BY DEF Inv, TypeOK
    <3>2. outbox[d] > 0 => conn[fd] = d
      BY DEF Inv, AnswersForFirst, fd
    <3> QED
      BY <3>1, <3>2, <1>3
  <2> QED
    BY <2>1, <1>4 DEF AnswersForFirst
<1> QED
  BY <1>5, <1>7, <1>8, <1>9, <1>10, <1>11 DEF Inv

LEMMA AnswerStep == ASSUME Inv, Answer PROVE Inv'
PROOF
<1> DEFINE c == Caller
<1>1. scan = 0 /\ client[0] # -1 /\ client[0] \in Open
  BY DEF Answer, Inv, ServerAt, OneSlot
<1>2. c \in Clients /\ c = conn[client[0]]
  BY <1>1 DEF Inv, TypeOK, Open, Caller
<1>3. /\ srv' \in {"message", "killed"} /\ scan' \in {scan, scan + 1}
      /\ UNCHANGED <<client, maxi, pid_client, conn, backlog, user, inbox>>
      /\ \/ /\ peer[c] = "open" /\ outbox' = [outbox EXCEPT ![c] = outbox[c] + 1]
            /\ UNCHANGED peer
         \/ /\ peer[c] = "ended" /\ UNCHANGED outbox
            /\ \E p \in {"ended", "refused"} : peer' = [peer EXCEPT ![c] = p]
         \/ UNCHANGED <<outbox, peer>>
  <2>1. peer[c] \in {"open", "ended", "refused", "reset"}
    BY <1>2 DEF Inv, TypeOK
  <2>2. outbox \in [Clients -> Nat]
    BY DEF Inv, TypeOK
  <2> QED
    BY <1>2, <2>1, <2>2 DEF Answer, table
<1> HIDE DEF c
<1>4. TypeOK'
  <2>1. outbox' \in [Clients -> Nat]
    BY <1>2, <1>3 DEF Inv, TypeOK
  <2>2. peer' \in [Clients -> {"open", "ended", "refused", "reset"}]
    BY <1>2, <1>3 DEF Inv, TypeOK
  <2>3. srv' \in {"message", "killed"} /\ scan' \in Nat
    BY <1>1, <1>3
  <2> QED
    BY <1>3, <2>1, <2>2, <2>3 DEF Inv, TypeOK
<1>5. OneSlot' /\ ServerAt' /\ OneConnection'
  BY <1>3 DEF Inv, OneSlot, ServerAt, OneConnection, Open
<1>6. EndsByLeaving'
  BY <1>2, <1>3 DEF Inv, EndsByLeaving, TypeOK
<1>7. AnswersForFirst'
  BY <1>1, <1>2, <1>3 DEF Inv, AnswersForFirst, TypeOK
<1> QED
  BY <1>4, <1>5, <1>6, <1>7 DEF Inv

LEMMA NextInv == Inv /\ [Next]_vars => Inv'
PROOF
<1> SUFFICES ASSUME Inv, [Next]_vars PROVE Inv'
  OBVIOUS
<1>1. CASE Server
  BY <1>1, MoveStep, AcceptStep, ReadPidStep, ReadMessageStep, DisconnectStep, AnswerStep
     DEF Server
<1>2. CASE InterruptServer
  BY <1>2, MoveStep
<1>3. ASSUME NEW c \in Clients, Client(c) PROVE Inv'
  BY <1>3, ConnectStep, SendStep, ReadAnswerStep, CloseStep DEF Client
<1>4. CASE UNCHANGED vars
  BY <1>4 DEF vars, server, table, wire, Inv, TypeOK, OneSlot, ServerAt, OneConnection,
              EndsByLeaving, AnswersForFirst, Open
<1> QED
  BY <1>1, <1>2, <1>3, <1>4 DEF Next

(* The inductive invariant holds in every behaviour. *)
THEOREM Invariance == Spec => []Inv
PROOF BY InitInv, NextInv, PTL DEF Spec

(* ---- the theorems ---- *)

(* select watches the descriptors that are open.                           *)
Watched == allset = {sockfd} \cup Open

LEMMA WatchedInit == Init => Watched
PROOF BY Places, ConstAssumption DEF Init, Watched, Open

(* What accept() gives is open from then on; only message() closes.        *)
LEMMA ConnChanges ==
  ASSUME Inv, [Next]_vars
  PROVE  \/ UNCHANGED <<client, allset, conn>>
         \/ \E fd \in FreeFds : /\ conn' = [conn EXCEPT ![fd] = Head(backlog)] /\ Head(backlog) # "none"
                                /\ allset' = allset \cup {fd}
                                /\ client'[0] \in {client[0], fd}
         \/ /\ client[0] \in Open
            /\ conn' = [conn EXCEPT ![client[0]] = "none"] /\ allset' = allset \ {client[0]}
            /\ client'[0] = -1
PROOF
<1>1. CASE Accept
  <2> DEFINE connfd == Min(FreeFds)
  <2>1. connfd \in FreeFds
    BY <1>1, LowestFree DEF Accept
  <2>2. Stopped = 1 /\ 1 # FD_SETSIZE
    BY StopsAtOne, ConstAssumption DEF Inv
  <2>3. /\ conn' = [conn EXCEPT ![connfd] = Head(backlog)] /\ allset' = allset \cup {connfd}
        /\ client' = Placed(connfd)
    BY <1>1, <2>2 DEF Accept
  <2>4. Head(backlog) # "none"
    <3>1. backlog # <<>> /\ backlog \in Seq(Clients)
      BY <1>1 DEF Accept, Inv, TypeOK, ServerAt
    <3>2. Head(backlog) \in Clients
      BY <3>1, HeadTailProperties
    <3> QED
      BY <3>2, ConstAssumption
  <2>5. client'[0] \in {client[0], connfd}
    BY <2>3, Places DEF Placed, Inv, TypeOK
  <2> HIDE DEF connfd
  <2> QED
    BY <2>1, <2>3, <2>4, <2>5
<1>2. CASE Disconnect
  <2>1. scan = 0 /\ client[0] # -1
    BY <1>2, FirstSlotHit DEF Disconnect
  <2> QED
    BY <1>2, <2>1, Places DEF Disconnect, Inv, OneSlot, TypeOK
<1>3. CASE Server /\ ~Accept /\ ~Disconnect
  BY <1>3 DEF Server, Select, NoConnection, AcceptFails, ReadPid, PassSlot, ReadMessage, ReadFails, Answer,
     EndRound, ToMessages, table
<1>4. CASE InterruptServer \/ (\E c \in Clients : Client(c)) \/ UNCHANGED vars
  BY <1>4 DEF InterruptServer, Client, Connect, WritePid, WriteLine, ReadAnswer, Exit, Interrupt, Close, Send,
     vars, server, table
<1> QED
  BY <1>1, <1>2, <1>3, <1>4 DEF Next

LEMMA WatchedNext == Inv /\ Watched /\ [Next]_vars => Watched'
PROOF
<1> SUFFICES ASSUME Inv, Watched, [Next]_vars PROVE Watched'
  OBVIOUS
<1>1. conn \in [Fds -> Clients \cup {"none"}] /\ sockfd \notin Fds
  BY Places DEF Inv, TypeOK
<1>2. CASE UNCHANGED <<client, allset, conn>>
  BY <1>2 DEF Watched, Open
<1>3. ASSUME NEW fd \in FreeFds, conn' = [conn EXCEPT ![fd] = Head(backlog)], Head(backlog) # "none",
             allset' = allset \cup {fd}
      PROVE  Watched'
  <2>1. fd \in Fds
    BY DEF FreeFds
  <2>2. Open' = Open \cup {fd}
    BY <1>1, <1>3, <2>1 DEF Open
  <2> QED
    BY <1>3, <2>2 DEF Watched
<1>4. ASSUME client[0] \in Open, conn' = [conn EXCEPT ![client[0]] = "none"], allset' = allset \ {client[0]}
      PROVE  Watched'
  <2>1. client[0] \in Fds
    BY <1>4 DEF Open
  <2>2. Open' = Open \ {client[0]}
    BY <1>1, <1>4, <2>1 DEF Open
  <2> QED
    BY <1>1, <1>4, <2>1, <2>2 DEF Watched
<1> QED
  BY <1>2, <1>3, <1>4, ConnChanges

(* A client that is accepted while another one has slot 0 is never in the  *)
(* table, never answered, and its descriptor never closed.                 *)
THEOREM OneIsServed == Spec => OnlyFirstServed
PROOF
<1>1. ASSUME Inv, Inv', Watched, Watched', [Next]_vars, NEW fd \in Open, fd # client[0]
      PROVE  /\ fd # client'[0] /\ outbox'[conn[fd]] = 0
             /\ fd \in allset' /\ conn'[fd] = conn[fd]
  <2>1. fd \in Fds /\ conn[fd] \in Clients
    BY <1>1 DEF Inv, TypeOK, Open
  <2>2. fd # client'[0] /\ conn'[fd] = conn[fd]
    <3>1. fd \notin FreeFds /\ fd # -1
      BY <1>1, <2>1, Places DEF FreeFds, Open
    <3>2. conn \in [Fds -> Clients \cup {"none"}]
      BY <1>1 DEF Inv, TypeOK
    <3> QED
      BY <1>1, <2>1, <3>1, <3>2, ConnChanges
  <2>3. fd \in Open'
    BY <1>1, <2>2 DEF Open
  <2>4. fd \in allset'
    BY <1>1, <2>3 DEF Watched
  <2>5. outbox'[conn[fd]] = 0
    <3>1. outbox'[conn[fd]] \in Nat
      BY <1>1, <2>1 DEF Inv, TypeOK
    <3>2. outbox'[conn[fd]] > 0 => client'[0] \in Open' /\ conn'[client'[0]] = conn[fd]
      BY <1>1, <2>1 DEF Inv, AnswersForFirst, OneSlot
    <3>3. \A gd \in Open' : conn'[gd] = conn'[fd] => gd = fd
      BY <1>1, <2>3 DEF Inv, OneConnection
    <3> QED
      BY <2>2, <3>1, <3>2, <3>3
  <2> QED
    BY <2>2, <2>4, <2>5
<1>2. Inv /\ Inv' /\ Watched /\ Watched' /\ [Next]_vars =>
        [\A fd \in Open : fd # client[0] =>
           /\ fd # client'[0] /\ outbox'[conn[fd]] = 0
           /\ fd \in allset' /\ conn'[fd] = conn[fd]]_vars
  BY <1>1
<1> QED
  BY <1>2, InitInv, NextInv, WatchedInit, WatchedNext, PTL DEF Spec, OnlyFirstServed

(* Who reads or writes for a client that has left: nobody sends for it,    *)
(* and the server takes what is there.                                     *)
LEMMA NothingComesAfter ==
  ASSUME Inv, [Next]_vars, NEW c \in Clients, peer[c] = "ended", inbox[c] = 0
  PROVE  inbox'[c] = 0
PROOF
<1>1. user[c] = "gone"
  BY DEF Inv, EndsByLeaving
<1>2. ASSUME NEW d \in Clients, Client(d) PROVE inbox'[c] = 0
  <2>1. CASE WritePid(d) \/ WriteLine(d)
    BY <1>1, <2>1 DEF WritePid, WriteLine, Send, Inv, TypeOK
  <2>2. CASE Connect(d) \/ ReadAnswer(d) \/ Exit(d) \/ Interrupt(d)
    BY <2>2 DEF Connect, ReadAnswer, Exit, Interrupt, Close, wire
  <2> QED
    BY <1>2, <2>1, <2>2 DEF Client
<1>3. ASSUME NEW d \in Clients, inbox' = [inbox EXCEPT ![d] = inbox[d] - Taken(d)]
      PROVE  inbox'[c] = 0
  BY <1>3, TakenFits DEF Inv, TypeOK
<1>4. CASE ReadPid
  <2>1. conn[scan] \in Clients
    BY <1>4 DEF ReadPid, Inv, TypeOK, ServerAt, Open
  <2> QED
    BY <1>3, <1>4, <2>1 DEF ReadPid
<1>5. CASE ReadMessage
  <2>1. Caller \in Clients
    BY <1>5, FirstSlotHit DEF ReadMessage, Inv, TypeOK, OneSlot, Open, Caller
  <2> QED
    BY <1>3, <1>5, <2>1 DEF ReadMessage
<1>6. CASE UNCHANGED inbox
  BY <1>6
<1>7. CASE \/ Select \/ NoConnection \/ AcceptFails \/ Accept \/ PassSlot \/ Disconnect
           \/ ReadFails \/ Answer \/ EndRound \/ InterruptServer \/ UNCHANGED vars
  <2>1. UNCHANGED inbox
    BY <1>7 DEF Select, NoConnection, AcceptFails, Accept, PassSlot, Disconnect, ReadFails,
                Answer, EndRound, InterruptServer, wire, vars
  <2> QED
    BY <2>1, <1>6
<1> QED
  BY <1>2, <1>4, <1>5, <1>7 DEF Next, Server

(* The server answers only whom it has just read something from.           *)
LEMMA NotAnsweredAfter ==
  ASSUME Inv, [Next]_vars, NEW c \in Clients, LeftClean(c)
  PROVE  ~(srv = "answer" /\ Caller = c)'
PROOF
<1>1. CASE ReadMessage
  BY <1>1 DEF ReadMessage, LeftClean, table, Caller
<1>2. CASE \/ Select \/ NoConnection \/ AcceptFails \/ Accept \/ ReadPid \/ PassSlot
           \/ Disconnect \/ ReadFails \/ EndRound
  BY <1>2 DEF Select, NoConnection, AcceptFails, Accept, ReadPid, PassSlot, Serving,
              Disconnect, ReadFails, EndRound, ToMessages
<1>6. CASE Answer
  <2>1. peer[Caller] \in {"open", "ended", "refused", "reset"}
    BY <1>6 DEF Answer, Inv, TypeOK, ServerAt, OneSlot, Open, Caller
  <2> QED
    BY <1>6, <2>1 DEF Answer
<1>3. CASE InterruptServer
  BY <1>3 DEF InterruptServer
<1>4. CASE UNCHANGED server
  BY <1>4 DEF LeftClean, server, table, Caller
<1>5. ASSUME NEW d \in Clients, Client(d) PROVE UNCHANGED server
  BY <1>5 DEF Client, Connect, WritePid, WriteLine, ReadAnswer, Exit, Interrupt, Close
<1> QED
  BY <1>1, <1>2, <1>3, <1>4, <1>5, <1>6 DEF Next, Server, vars

LEMMA StaysEnded ==
  ASSUME Inv, [Next]_vars, NEW c \in Clients, LeftClean(c)
  PROVE  peer'[c] = "ended"
PROOF
<1>1. user[c] = "gone" /\ peer[c] = "ended"
  BY DEF Inv, EndsByLeaving, LeftClean
<1>2. ASSUME NEW d \in Clients, Client(d) PROVE peer'[c] = "ended"
  BY <1>1, <1>2 DEF Client, Connect, WritePid, WriteLine, ReadAnswer, Exit, Interrupt,
                    Close, wire, Inv, TypeOK
<1>3. CASE Answer
  <2>1. Caller # c /\ Caller \in Clients
    BY <1>3 DEF Answer, LeftClean, Inv, TypeOK, ServerAt, OneSlot, Open, Caller
  <2>2. peer[Caller] \in {"open", "ended", "refused", "reset"}
    BY <2>1 DEF Inv, TypeOK
  <2>3. UNCHANGED peer \/ \E p \in {"ended", "refused"} : peer' = [peer EXCEPT ![Caller] = p]
    BY <1>3, <2>2 DEF Answer
  <2> QED
    BY <1>1, <2>1, <2>3 DEF Inv, TypeOK
<1>4. CASE \/ Select \/ NoConnection \/ AcceptFails \/ Accept \/ ReadPid \/ PassSlot
           \/ ReadMessage \/ Disconnect \/ ReadFails \/ EndRound \/ InterruptServer
           \/ UNCHANGED vars
  BY <1>1, <1>4 DEF Select, NoConnection, AcceptFails, Accept, ReadPid, PassSlot, ReadMessage,
                    Disconnect, ReadFails, EndRound, InterruptServer, wire, vars
<1> QED
  BY <1>2, <1>3, <1>4 DEF Next, Server

(* A client that left with everything read is never written to again.      *)
THEOREM CleanLeavesEndNobody == Spec => CleanLeaveIsHarmless
PROOF
<1> DEFINE Step == \A c \in Clients : LeftClean(c) => LeftClean(c)'
<1>1. ASSUME Inv, [Next]_vars PROVE Step
  <2>1. ASSUME NEW c \in Clients, LeftClean(c) PROVE LeftClean(c)'
    <3>1. peer[c] = "ended" /\ inbox[c] = 0
      BY <2>1 DEF LeftClean
    <3> QED
      BY <1>1, <2>1, <3>1, NothingComesAfter, NotAnsweredAfter, StaysEnded DEF LeftClean
  <2> QED
    BY <2>1
<1> HIDE DEF Step
<1>2. Spec => [][Step]_vars
  BY <1>1, Invariance, PTL DEF Spec
<1> QED
  BY <1>2 DEF CleanLeaveIsHarmless, Step
=============================================================================
