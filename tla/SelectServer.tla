---------------------------- MODULE SelectServer ----------------------------
(***************************************************************************)
(* 6-semestr/lab6/part_02: server.c, one process that serves stream        *)
(* sockets with select, and client.c, which sends its pid, then a line at  *)
(* a time, and waits for an answer to each.  Every system call that can    *)
(* block or that another process can notice is a step.                     *)
(*                                                                         *)
(* Of what travels only the amount is kept: the bytes on their way to the  *)
(* server, which reads at most SIZE_BUFFER of them, and the answers on     *)
(* their way back.  Clients are followed while the server runs.            *)
(***************************************************************************)
EXTENDS Integers, Sequences, FiniteSetsExt, Functions

CONSTANTS
  Clients,      \* the runs of client.c
  FD_SETSIZE,   \* slots of the table (1024 in the code)
  OpenMax,      \* descriptors a process may have (the kernel's limit)
  MaxLines,     \* bound: the lines typed at one client
  PidLen,       \* bytes of a pid
  LineLen,      \* bytes of a line: len is the size of getline's buffer, 120
  SIZE_BUFFER   \* 100 in the code

ASSUME ConstAssumption ==
  /\ "none" \notin Clients /\ "garbage" \notin Clients
  /\ FD_SETSIZE \in Nat \ {0, 1} /\ OpenMax \in 4..FD_SETSIZE
  /\ MaxLines \in Nat /\ PidLen \in Nat \ {0} /\ LineLen \in Nat \ {0}
  /\ SIZE_BUFFER \in Nat \ {0}

sockfd == 3
Slots  == 0..FD_SETSIZE-1
Fds    == sockfd+1..OpenMax-1

VARIABLES
  srv,          \* where the server stands
  client,       \* the table: a descriptor, or -1
  allset, rset, \* descriptors to watch, descriptors that were ready
  maxi, maxfd,
  pid_client,   \* whose pid each slot shows
  scan,         \* the i of message()
  errno,        \* is it set?
  backlog,      \* connections not accepted yet, in order
  conn,         \* the client behind each open descriptor
  user,         \* where each client stands
  lines,        \* lines typed at each client
  inbox,        \* bytes on their way to the server
  outbox,       \* answers on their way to the client
  peer          \* the client's end of its connection

table  == <<client, allset, maxi, maxfd, pid_client>>
server == <<srv, table, rset, scan, errno, conn>>
wire   == <<inbox, outbox, peer>>
vars   == <<server, backlog, user, lines, wire>>

Init ==
  /\ srv = "select" /\ client = [k \in Slots |-> -1]
  /\ allset = {sockfd} /\ rset = {} /\ maxi = -1 /\ maxfd = sockfd
  /\ pid_client = [k \in Slots |-> "none"]
  /\ scan = 0 /\ errno = FALSE
  /\ backlog = <<>> /\ conn = [fd \in Fds |-> "none"]
  /\ user = [c \in Clients |-> "out"] /\ lines = [c \in Clients |-> 0]
  /\ inbox = [c \in Clients |-> 0] /\ outbox = [c \in Clients |-> 0]
  /\ peer = [c \in Clients |-> "open"]

Runs == srv \notin {"failed", "killed", "closed"}

(* ---- stream sockets, which belong to the kernel ---- *)

(* What select reports: a connection to accept; data, an end or an error.  *)
Readable(fd) ==
  IF fd = sockfd THEN backlog # <<>>
  ELSE inbox[conn[fd]] > 0 \/ peer[conn[fd]] # "open"

Taken(c) == Min({inbox[c], SIZE_BUFFER})

(* close() by client c, or its exit: with an answer unread the connection  *)
(* is reset, otherwise it ends after the data that are still on their way. *)
Close(c) ==
  /\ user' = [user EXCEPT ![c] = "gone"]
  /\ peer' = [peer EXCEPT ![c] = IF outbox[c] > 0 THEN "reset" ELSE "ended"]
  /\ UNCHANGED <<server, backlog, lines, inbox, outbox>>

(* ---- client.c ---- *)

Connect(c) ==
  /\ Runs /\ user[c] = "out"
  /\ backlog' = Append(backlog, c)
  /\ user' = [user EXCEPT ![c] = "pid"]
  /\ UNCHANGED <<server, lines, wire>>

Send(c, n) == inbox' = [inbox EXCEPT ![c] = @ + n]

WritePid(c) ==
  /\ Runs /\ user[c] = "pid"
  /\ Send(c, PidLen)
  /\ user' = [user EXCEPT ![c] = "typing"]
  /\ UNCHANGED <<server, backlog, lines, outbox, peer>>

WriteLine(c) ==
  /\ Runs /\ user[c] = "typing" /\ lines[c] < MaxLines
  /\ lines' = [lines EXCEPT ![c] = @ + 1]
  /\ Send(c, LineLen)
  /\ user' = [user EXCEPT ![c] = "reading"]
  /\ UNCHANGED <<server, backlog, outbox, peer>>

(* The read takes all the answers there are. *)
ReadAnswer(c) ==
  /\ Runs /\ user[c] = "reading" /\ outbox[c] > 0
  /\ outbox' = [outbox EXCEPT ![c] = 0]
  /\ user' = [user EXCEPT ![c] = "typing"]
  /\ UNCHANGED <<server, backlog, lines, inbox, peer>>

(* "exit" is typed and main returns, which closes the socket too. *)
Exit(c) == Runs /\ user[c] = "typing" /\ Close(c)

(* SIGINT: close_signal. *)
Interrupt(c) == Runs /\ user[c] \in {"pid", "typing", "reading"} /\ Close(c)

(* ---- main and connection() of server.c ---- *)

Select ==
  /\ srv = "select"
  /\ rset' = {fd \in allset : fd < maxfd + 1 /\ Readable(fd)}
  /\ rset' # {}
  /\ srv' = "accept"
  /\ UNCHANGED <<table, scan, errno, conn, backlog, user, lines, wire>>

(* Faulty: the loop over the slots begins after slot 0. *)
ToMessages_FromOne == srv' = "message" /\ scan' = 1

ToMessages == srv' = "message" /\ scan' = 0

(* Nobody to accept: message() is next. *)
NoConnection ==
  /\ srv = "accept" /\ sockfd \notin rset
  /\ ToMessages
  /\ UNCHANGED <<table, rset, errno, conn, backlog, user, lines, wire>>

FreeFds == {fd \in Fds : conn[fd] = "none"}

(* accept() fails for want of a descriptor, and main ends. *)
AcceptFails ==
  /\ srv = "accept" /\ sockfd \in rset /\ FreeFds = {}
  /\ errno' = TRUE /\ srv' = "failed"
  /\ UNCHANGED <<table, rset, scan, conn, backlog, user, lines, wire>>

(* The do-while tests client[i], increments i and goes on while the next   *)
(* slot is taken: after slot 0 it only ever tests slots that are.          *)
Placed(connfd) == IF client[0] < 0 THEN [client EXCEPT ![0] = connfd] ELSE client
Stopped == Min({k \in 1..FD_SETSIZE-1 : client[k] < 0} \cup {FD_SETSIZE})

(* accept() gives the lowest free descriptor.  A full table would leave    *)
(* before FD_SET.                                                          *)
Accept ==
  /\ srv = "accept" /\ sockfd \in rset /\ FreeFds # {}
  /\ LET connfd == Min(FreeFds)
     IN  /\ conn' = [conn EXCEPT ![connfd] = Head(backlog)]
         /\ backlog' = Tail(backlog)
         /\ client' = Placed(connfd)
         /\ IF Stopped = FD_SETSIZE
            THEN ToMessages /\ UNCHANGED <<allset, maxfd, maxi>>
            ELSE /\ allset' = allset \cup {connfd}
                 /\ maxfd' = Max({maxfd, connfd})
                 /\ maxi' = Max({maxi, Stopped})
                 /\ srv' = "pid" /\ scan' = connfd
  /\ UNCHANGED <<pid_client, rset, errno, user, lines, wire>>

(* The blocking read of the new client's pid.  It returns nothing when the *)
(* client is gone, and atoi reads what is on the stack; also when it       *)
(* returns something, the digits need not end where the pid does.  i is    *)
(* where the search stopped, one slot or more after the descriptor's.      *)
ReadPid ==
  /\ srv = "pid"
  /\ LET c == conn[scan] IN
       /\ inbox[c] > 0 \/ peer[c] # "open"
       /\ inbox' = [inbox EXCEPT ![c] = @ - Taken(c)]
       /\ \E pid \in IF inbox[c] > 0 THEN {c, "garbage"} ELSE {"garbage"} :
            pid_client' = [pid_client EXCEPT ![Stopped] = pid]
  /\ ToMessages
  /\ UNCHANGED <<client, allset, maxi, maxfd, rset, errno, conn, backlog, user, lines,
                 outbox, peer>>

(* ---- message() ---- *)

Serving == srv = "message" /\ scan <= maxi
Hit     == client[scan] > 0 /\ client[scan] \in rset
Caller  == conn[client[scan]]

PassSlot ==
  /\ Serving /\ ~Hit
  /\ scan' = scan + 1
  /\ UNCHANGED <<srv, table, rset, errno, conn, backlog, user, lines, wire>>

ReadMessage ==
  /\ Serving /\ Hit /\ inbox[Caller] > 0
  /\ inbox' = [inbox EXCEPT ![Caller] = @ - Taken(Caller)]
  /\ srv' = "answer"
  /\ UNCHANGED <<table, rset, scan, errno, conn, backlog, user, lines, outbox, peer>>

(* Faulty: the end of a connection is answered like a message. *)
Disconnect_Answer ==
  /\ Serving /\ Hit /\ inbox[Caller] = 0 /\ peer[Caller] \in {"ended", "refused"}
  /\ srv' = "answer"
  /\ UNCHANGED <<table, rset, scan, errno, conn, backlog, user, lines, wire>>

(* Faulty: the descriptor is not closed. *)
Disconnect_Leaks ==
  /\ Serving /\ Hit /\ inbox[Caller] = 0 /\ peer[Caller] \in {"ended", "refused"}
  /\ allset' = allset \ {client[scan]}
  /\ client' = [client EXCEPT ![scan] = -1]
  /\ scan' = scan + 1
  /\ UNCHANGED <<srv, maxi, maxfd, pid_client, rset, errno, conn, backlog, user, lines, wire>>

(* n = 0. *)
Disconnect ==
  /\ Serving /\ Hit /\ inbox[Caller] = 0 /\ peer[Caller] \in {"ended", "refused"}
  /\ conn' = [conn EXCEPT ![client[scan]] = "none"]
  /\ allset' = allset \ {client[scan]}
  /\ client' = [client EXCEPT ![scan] = -1]
  /\ scan' = scan + 1
  /\ UNCHANGED <<srv, maxi, maxfd, pid_client, rset, errno, backlog, user, lines, wire>>

(* n = -1 is not 0: the server writes to the reset connection, and the     *)
(* SIGPIPE it does not handle ends it.                                     *)
ReadFails ==
  /\ Serving /\ Hit /\ inbox[Caller] = 0 /\ peer[Caller] = "reset"
  /\ srv' = "killed"
  /\ UNCHANGED <<table, rset, scan, errno, conn, backlog, user, lines, wire>>

(* write(sockfd, "good").  A client that is gone refuses what comes after  *)
(* its end, sooner or later; the next write is SIGPIPE.  After a reset the *)
(* first write is an error, which main finds in errno.                     *)
Answer ==
  /\ srv = "answer"
  /\ CASE peer[Caller] = "open" ->
            /\ outbox' = [outbox EXCEPT ![Caller] = @ + 1]
            /\ srv' = "message" /\ scan' = scan + 1
            /\ UNCHANGED <<errno, peer>>
       [] peer[Caller] = "ended" ->
            /\ \E p \in {"ended", "refused"} : peer' = [peer EXCEPT ![Caller] = p]
            /\ srv' = "message" /\ scan' = scan + 1
            /\ UNCHANGED <<errno, outbox>>
       [] peer[Caller] = "refused" ->
            srv' = "killed" /\ UNCHANGED <<scan, errno, outbox, peer>>
       [] peer[Caller] = "reset" ->
            /\ errno' = TRUE
            /\ srv' = "message" /\ scan' = scan + 1
            /\ UNCHANGED <<outbox, peer>>
  /\ UNCHANGED <<table, rset, conn, backlog, user, lines, inbox>>

(* The end of message(), and the look at errno after it. *)
EndRound ==
  /\ srv = "message" /\ scan > maxi
  /\ srv' = IF errno THEN "failed" ELSE "select"
  /\ UNCHANGED <<table, rset, scan, errno, conn, backlog, user, lines, wire>>

(* SIGINT: close_signal. *)
InterruptServer ==
  /\ Runs /\ srv' = "closed"
  /\ UNCHANGED <<table, rset, scan, errno, conn, backlog, user, lines, wire>>

Client(c) == \/ Connect(c) \/ WritePid(c) \/ WriteLine(c) \/ ReadAnswer(c)
             \/ Exit(c) \/ Interrupt(c)

Server == \/ Select \/ NoConnection \/ AcceptFails \/ Accept \/ ReadPid
          \/ PassSlot \/ ReadMessage \/ Disconnect \/ ReadFails \/ Answer \/ EndRound

Next == Server \/ InterruptServer \/ \E c \in Clients : Client(c)

Spec == Init /\ [][Next]_vars

(* The server runs when it can.  A client that has connected writes its    *)
(* pid: nothing in its way can block.                                      *)
Fairness == WF_vars(Server) /\ \A c \in Clients : WF_vars(WritePid(c))

FairSpec == Spec /\ Fairness
-----------------------------------------------------------------------------
(* ---- properties ---- *)

Open == {fd \in Fds : conn[fd] # "none"}

(* The search for a slot finds slot 0 or none.  A client that is accepted  *)
(* while another one has it gets no slot later either, when it is free     *)
(* again: it is never answered, its descriptor is watched for ever and     *)
(* closed never, also when the client has left.                            *)
OnlyFirstServed ==
  [][\A fd \in Open : fd # client[0] =>
       /\ fd # client'[0] /\ outbox'[conn[fd]] = 0
       /\ fd \in allset' /\ conn'[fd] = conn[fd]]_vars

(* c has left, and the server owes it nothing. *)
LeftClean(c) == /\ peer[c] = "ended" /\ inbox[c] = 0
                /\ ~(srv = "answer" /\ Caller = c)

(* A client that leaves when nothing it sent is unread, no answer to it is *)
(* under way and it has read all answers is never written to again: it     *)
(* cannot end the server.  (One that leaves earlier can, and a line is     *)
(* longer than SIZE_BUFFER, so its second answer is easily left unread.)   *)
CleanLeaveIsHarmless == [][\A c \in Clients : LeftClean(c) => LeftClean(c)']_vars

(* The client in slot 0 is answered, whatever the others do, unless it     *)
(* leaves or the server ends; the busy loop that clients in no slot cause  *)
(* does not keep it waiting.  That pid and line together are longer than   *)
(* SIZE_BUFFER matters: what is read with the pid gets no answer.          *)
FirstIsAnswered ==
  \A c \in Clients :
    user[c] = "reading" /\ client[0] > 0 /\ conn[client[0]] = c
      ~> user[c] # "reading" \/ outbox[c] > 0 \/ ~Runs
=============================================================================
