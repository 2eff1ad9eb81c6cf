---------------------------- MODULE DgramServer ----------------------------
(***************************************************************************)
(* 6-semestr/lab6/part_01: server.c prints the datagrams that come to the  *)
(* socket file socket.soc, client.c sends it the words of its input.  The  *)
(* server may be started several times, interrupted (SIGINT) or killed     *)
(* wherever it stands.  No socket outlives its process, its file does.     *)
(***************************************************************************)
EXTENDS Naturals, SequencesExt

CONSTANTS
  Copies,   \* the times server.c is started
  Clients,  \* the clients
  MaxSends, \* bound: datagrams a client sends
  QueueLen  \* datagrams the kernel keeps for a socket

VARIABLES
  pc,       \* of each copy: start, ready (handler set), socket, serving;
            \* failing (its bind failed) or broken (recvfrom did), on the way
            \* out of main; closing; or how it ended: closed, failed, killed
  file,     \* the copy that socket.soc was bound by, or "none"
  recv_len, \* of each copy: what is in it, "garbage" or "length"
  queue,    \* the datagrams that wait at each copy's socket
  client,   \* of each client: the word in its buffer, how many datagrams it
            \* has sent, and whether its input or itself has ended
  printed,  \* history: the datagrams printed, in order, and by which copy
  intruders, \* history: the copies that came to close_app without a bind
  robbed    \* history: the copies whose name another one removed

history    == <<intruders, robbed>>
serverVars == <<pc, file, recv_len, history>>
vars == <<serverVars, queue, client, printed>>

Init ==
  /\ pc = [s \in Copies |-> "start"] /\ file = "none"
  /\ recv_len = [s \in Copies |-> "garbage"]
  /\ queue = [s \in Copies |-> <<>>]
  /\ client = [c \in Clients |-> [word |-> 0, sent |-> 0, state |-> "reads"]]
  /\ printed = <<>> /\ intruders = {} /\ robbed = {}

Goto(s, here) == pc' = [pc EXCEPT ![s] = here]

(* ---- server.c ---- *)

SetHandler(s) ==
  /\ pc[s] = "start" /\ Goto(s, "ready")
  /\ UNCHANGED <<file, recv_len, queue, client, printed, history>>

(* socket() may fail; close_app would end at close(-1) then. *)
Socket(s) ==
  /\ pc[s] = "ready"
  /\ \E here \in {"socket", "failed"} : Goto(s, here)
  /\ UNCHANGED <<file, recv_len, queue, client, printed, history>>

(* Faulty: an old socket file is removed first. *)
Bind_Unlink(s) ==
  /\ pc[s] = "socket"
  /\ Goto(s, "serving") /\ file' = s
  /\ UNCHANGED <<recv_len, queue, client, printed, history>>

(* The name may be taken, if only by a file that nobody serves: errno.     *)
Bind(s) ==
  /\ pc[s] = "socket"
  /\ IF file = "none" THEN Goto(s, "serving") /\ file' = s
                      ELSE Goto(s, "failing") /\ UNCHANGED file
  /\ UNCHANGED <<recv_len, queue, client, printed, history>>

Receive(s) ==
  /\ pc[s] = "serving" /\ queue[s] # <<>>
  /\ queue' = [queue EXCEPT ![s] = Tail(@)]
  /\ printed' = Append(printed, <<Head(queue[s])[1], Head(queue[s])[2], s>>)
  /\ recv_len' = [recv_len EXCEPT ![s] = "length"]
  /\ UNCHANGED <<pc, file, client, history>>

(* recvfrom reads the length it is to fill: what was on the stack may be   *)
(* less than zero.  The datagram is gone, too.                             *)
ReceiveFails(s) ==
  /\ pc[s] = "serving" /\ queue[s] # <<>> /\ recv_len[s] = "garbage"
  /\ Goto(s, "broken") /\ queue' = [queue EXCEPT ![s] = Tail(@)]
  /\ UNCHANGED <<file, recv_len, client, printed, history>>

(* error() and the return from main. *)
Fail(s) ==
  /\ pc[s] \in {"failing", "broken"}
  /\ Goto(s, "failed") /\ queue' = [queue EXCEPT ![s] = <<>>]
  /\ UNCHANGED <<file, recv_len, client, printed, history>>

(* SIGINT: close_app closes the socket, or descriptor 0 if there is none   *)
(* yet, and removes the name, whoever has bound it.                        *)
close_app(s) ==
  /\ pc[s] \in {"ready", "socket", "serving", "failing", "broken"}
  /\ Goto(s, "closing") /\ queue' = [queue EXCEPT ![s] = <<>>]
  /\ intruders' = IF pc[s] \in {"serving", "broken"} THEN intruders ELSE intruders \cup {s}
  /\ UNCHANGED <<file, recv_len, client, printed, robbed>>

(* The copies that have bound the name and not ended. *)
Bound == {s \in Copies : pc[s] \in {"serving", "broken"} \/ (pc[s] = "closing" /\ s \notin intruders)}

Unlink(s) ==
  /\ pc[s] = "closing"
  /\ Goto(s, "closed") /\ file' = "none"
  /\ robbed' = robbed \cup ((Bound \cap {file}) \ {s})
  /\ UNCHANGED <<recv_len, queue, client, printed, intruders>>

(* SIGKILL, or SIGINT before the handler is set. *)
Kill(s) ==
  /\ pc[s] \notin {"closed", "failed", "killed"}
  /\ Goto(s, "killed") /\ queue' = [queue EXCEPT ![s] = <<>>]
  /\ UNCHANGED <<file, recv_len, client, printed, history>>

(* ---- client.c ---- *)

(* scanf, whose result is not looked at: at the end of the input the old   *)
(* word is sent again.  sendto, whose result is not looked at: the word is *)
(* lost if nobody serves the name.  It waits while the queue is full.      *)
Send(c) ==
  /\ client[c].state \in {"reads", "eof"} /\ client[c].sent < MaxSends
  /\ \E state \in {client[c].state, "eof"} :
       LET word == IF state = "eof" THEN client[c].word ELSE client[c].word + 1
       IN  /\ client' = [client EXCEPT ![c] = [word |-> word, sent |-> @.sent + 1, state |-> state]]
           /\ IF file # "none" /\ pc[file] \in {"serving", "broken"}
              THEN /\ Len(queue[file]) < QueueLen
                   /\ queue' = [queue EXCEPT ![file] = Append(@, <<c, word>>)]
              ELSE UNCHANGED queue
  /\ UNCHANGED <<serverVars, printed>>

ClientEnds(c) ==
  /\ client[c].state # "ended"
  /\ client' = [client EXCEPT ![c].state = "ended"]
  /\ UNCHANGED <<serverVars, queue, printed>>

Done == /\ \A s \in Copies : pc[s] \in {"serving", "closed", "failed", "killed"}
        /\ UNCHANGED vars

Next == \/ Done
        \/ \E s \in Copies : \/ SetHandler(s) \/ Socket(s) \/ Bind(s)
                             \/ Receive(s) \/ ReceiveFails(s) \/ Fail(s)
                             \/ close_app(s) \/ Unlink(s) \/ Kill(s)
        \/ \E c \in Clients : Send(c) \/ ClientEnds(c)

Spec == Init /\ [][Next]_vars
-----------------------------------------------------------------------------
(* ---- properties ---- *)

(* Of two datagrams of one client, the order they may be printed in.       *)
Before(m, n) ==
  m[1] = n[1] => m[2] < n[2] \/ (m[2] = n[2] /\ client[m[1]].state # "reads")

(* Whoever has bound the name has it until another copy's close_app        *)
(* removes it, so without that one copy at most serves.  It takes an       *)
(* interrupt of a copy that has not bound to begin with: after line 33 and *)
(* before its bind, or behind a bind that failed.  A name nobody serves    *)
(* was left by a copy that was killed or failed.  What one copy prints of  *)
(* a client, and what all print while no name is removed, is in the order  *)
(* it was typed, each word once as long as the input has not ended.        *)
OneServer ==
  /\ \A s \in Bound : file = s \/ s \in robbed
  /\ robbed # {} => intruders # {}
  /\ file # "none" => file \in Bound \/ pc[file] \in {"killed", "failed"}
  /\ \A j, k \in DOMAIN printed :
       j < k /\ (printed[j][3] = printed[k][3] \/ robbed = {}) => Before(printed[j], printed[k])
=============================================================================
