---------------------------- MODULE ProcessTree ----------------------------
(***************************************************************************)
(* 5-semestr/lab4: six programs of a parent that forks one or two          *)
(* children.  task1.c does not wait for them; in task2.c the first child   *)
(* goes on to fork a child of its own; in task3.c they execute another     *)
(* program; in task4.c, task5.c and 5.c the family shares a pipe, and the  *)
(* last two catch SIGINT.  The program that runs is chosen at the start.   *)
(*                                                                         *)
(* A message is its sender; task5.c reads its message byte by byte, and    *)
(* MsgLen of them stand for it.  A write of 64 bytes takes more than the   *)
(* message from the stack (task4.c:33, 5.c:55); what follows its NUL is    *)
(* left out.  Sleeping is being slow, as anybody may be.  The programs are *)
(* followed from where the handler and the pipe are there.                 *)
(***************************************************************************)
EXTENDS Naturals, Sequences, FiniteSets, Functions

CONSTANTS MsgLen,       \* bytes of the message of task5.c (15 or 42)
          ForkMayFail   \* whether fork may return -1

Programs == {"task1.c", "task2.c", "task3.c", "task4.c", "task5.c", "5.c"}
Procs    == {"parent", "child1", "child2", "grandchild"}

VARIABLES
  program,   \* the program that runs
  pc,        \* where each process stands
  rd, wr,    \* the processes that have the pipe open for reading, writing
  pipe,      \* what is in the pipe
  flag,      \* signal_is_catched, parent_flag: each process has its own
  pending,   \* processes with a SIGINT to come
  sent,      \* was Ctrl+C typed?
  i,         \* each process's loop counter
  got,       \* what the reader has read
  reaped     \* processes whose parent's wait has returned

vars == <<program, pc, rd, wr, pipe, flag, pending, sent, i, got, reaped>>

HasPipe    == program \in {"task4.c", "task5.c", "5.c"}
HasHandler == program \in {"task5.c", "5.c"}

Init ==
  /\ program \in Programs
  /\ pc = [p \in Procs |-> IF p = "parent" THEN "fork1" ELSE "none"]
  /\ rd = (IF HasPipe THEN {"parent"} ELSE {}) /\ wr = rd
  /\ pipe = <<>>
  /\ flag = [p \in Procs |-> FALSE] /\ pending = {} /\ sent = FALSE
  /\ i = [p \in Procs |-> 0]
  /\ got = <<>> /\ reaped = {}

Lives(p)     == pc[p] \notin {"none", "done", "dead"}
Ended(p)     == pc[p] \in {"done", "dead"}
Goto(p, here) == pc' = [pc EXCEPT ![p] = here]

(* The end of a process closes its descriptors. *)
Exit(p, how) == Goto(p, how) /\ rd' = rd \ {p} /\ wr' = wr \ {p}

ChildrenOf(p) == CASE p = "parent" -> {"child1", "child2"}
                   [] p = "child1" -> IF program = "task2.c" THEN {"grandchild"} ELSE {}
                   [] OTHER -> {}

(* ---- fork ---- *)

(* What the caller of its first or second fork forks. *)
Forked(p) == CASE pc[p] = "fork1" -> "child1"
               [] pc[p] = "fork2" -> IF p = "parent" THEN "child2" ELSE "grandchild"

(* Nothing sends child1 of task2.c out of main, so it comes to the second  *)
(* fork too.                                                               *)
ChildStart(q) == IF program = "task2.c" /\ q = "child1" THEN "fork2" ELSE "body"

(* The child has its parent's descriptors and flag. *)
Fork(p) ==
  /\ pc[p] \in {"fork1", "fork2"}
  /\ LET q == Forked(p)
     IN  /\ pc' = [pc EXCEPT ![q] = ChildStart(q),
                             ![p] = IF @ = "fork1" /\ program # "task5.c" THEN "fork2" ELSE "body"]
         /\ rd' = IF p \in rd THEN rd \cup {q} ELSE rd
         /\ wr' = IF p \in wr THEN wr \cup {q} ELSE wr
         /\ flag' = [flag EXCEPT ![q] = flag[p]]
  /\ UNCHANGED <<program, pipe, pending, sent, i, got, reaped>>

(* exit(1); a child forked before goes on. *)
ForkFails(p) ==
  /\ ForkMayFail /\ pc[p] \in {"fork1", "fork2"}
  /\ Exit(p, "dead")
  /\ UNCHANGED <<program, pipe, flag, pending, sent, i, got, reaped>>

(* ---- what comes after the forks ---- *)

(* Programs and processes that have nothing more to do than to print;      *)
(* execlp gives the child of task3.c to ps or ls, or it exits.             *)
OnlyPrints(p) == \/ program = "task1.c"
                 \/ program = "task2.c" /\ p \in {"child2", "grandchild"}
                 \/ program = "task3.c" /\ p # "parent"

PrintAndEnd(p) ==
  /\ pc[p] = "body" /\ OnlyPrints(p)
  /\ \/ Exit(p, "done")
     \/ program = "task3.c" /\ Exit(p, "dead")
  /\ UNCHANGED <<program, pipe, flag, pending, sent, i, got, reaped>>

(* Faulty: the parent waits once. *)
Waits_Once == 1

(* How many times wait is called. *)
Waits == IF program = "task2.c" THEN 1 ELSE 2

(* Faulty: nobody closes an end of the pipe. *)
ReaderCloses_Nothing == {}

(* The end a process does not use is closed before it uses the other one.  *)
(* The readers are the parent of task4.c and 5.c, the child of task5.c.    *)
Reader       == IF program = "task5.c" THEN "child1" ELSE "parent"
ReaderCloses == {Reader}

(* if (signal_is_catched), which only 5.c asks. *)
Willing(p) == program = "5.c" => flag[p]

OpenPipe(p) ==
  /\ pc[p] = "body" /\ HasPipe
  /\ IF p = Reader
     THEN wr' = wr \ ReaderCloses /\ rd' = rd /\ Goto(p, "read")
     ELSE IF Willing(p) THEN rd' = rd \ {p} /\ wr' = wr /\ Goto(p, "write")
                        ELSE Exit(p, "done")
  /\ UNCHANGED <<program, pipe, flag, pending, sent, i, got, reaped>>

(* write, at most 64 bytes at once and never split, then exit.  Without a  *)
(* reader SIGPIPE ends the writer.                                         *)
Write(p) ==
  /\ pc[p] = "write"
  /\ IF rd = {} THEN pipe' = pipe /\ Exit(p, "dead")
     ELSE /\ pipe' = IF program = "task5.c" THEN pipe \o [k \in 1..MsgLen |-> p]
                                            ELSE Append(pipe, p)
          /\ Exit(p, "done")
  /\ UNCHANGED <<program, flag, pending, sent, i, got, reaped>>

(* read of what is there, or the end of file once no writer is left. *)
Receive == /\ pipe # <<>> \/ wr = {}
           /\ got' = IF pipe # <<>> THEN Append(got, Head(pipe)) ELSE got
           /\ pipe' = IF pipe # <<>> THEN Tail(pipe) ELSE pipe

(* The parent of task4.c and 5.c: two reads of 64 bytes, in 5.c only while *)
(* its own flag is set.                                                    *)
ReadMessage ==
  /\ program \in {"task4.c", "5.c"} /\ pc["parent"] = "read"
  /\ i["parent"] < 2 /\ Willing("parent")
  /\ Receive
  /\ i' = [i EXCEPT !["parent"] = @ + 1]
  /\ UNCHANGED <<program, pc, rd, wr, flag, pending, sent, reaped>>

EnoughRead ==
  /\ program \in {"task4.c", "5.c"} /\ pc["parent"] = "read"
  /\ i["parent"] = 2 \/ ~Willing("parent")
  /\ Goto("parent", "wait")
  /\ i' = [i EXCEPT !["parent"] = 0]
  /\ UNCHANGED <<program, rd, wr, pipe, flag, pending, sent, got, reaped>>

(* The child of task5.c: while (read(.., 1) != 0), then it prints. *)
ReadByte ==
  /\ program = "task5.c" /\ pc["child1"] = "read"
  /\ Receive
  /\ IF pipe # <<>> THEN UNCHANGED <<pc, rd, wr>> ELSE Exit("child1", "done")
  /\ UNCHANGED <<program, flag, pending, sent, i, reaped>>

StartWaiting(p) ==
  /\ pc[p] = "body" /\ program \in {"task2.c", "task3.c"} /\ ~OnlyPrints(p)
  /\ Goto(p, "wait")
  /\ UNCHANGED <<program, rd, wr, pipe, flag, pending, sent, i, got, reaped>>

(* wait(&status) for any child, the given number of times. *)
Wait(p) ==
  /\ pc[p] = "wait" /\ i[p] < Waits
  /\ \E q \in ChildrenOf(p) \ reaped : Ended(q) /\ reaped' = reaped \cup {q}
  /\ i' = [i EXCEPT ![p] = @ + 1]
  /\ UNCHANGED <<program, pc, rd, wr, pipe, flag, pending, sent, got>>

Return(p) ==
  /\ pc[p] = "wait" /\ i[p] = Waits
  /\ Exit(p, "done")
  /\ UNCHANGED <<program, pipe, flag, pending, sent, i, got, reaped>>

(* ---- SIGINT ---- *)

(* Ctrl+C is for the processes of the group, while the shell waits for the *)
(* parent.                                                                 *)
CtrlC ==
  /\ ~sent /\ Lives("parent")
  /\ sent' = TRUE
  /\ pending' = {p \in Procs : Lives(p)}
  /\ UNCHANGED <<program, pc, rd, wr, pipe, flag, i, got, reaped>>

(* catch_signal, sigint_catcher; without a handler it ends the process. *)
Interrupt(p) ==
  /\ p \in pending /\ Lives(p)
  /\ pending' = pending \ {p}
  /\ IF HasHandler THEN flag' = [flag EXCEPT ![p] = TRUE] /\ UNCHANGED <<pc, rd, wr>>
                   ELSE flag' = flag /\ Exit(p, "dead")
  /\ UNCHANGED <<program, pipe, sent, i, got, reaped>>

Finished == (\A p \in Procs : ~Lives(p)) /\ UNCHANGED vars

Step(p) == \/ Fork(p) \/ ForkFails(p) \/ PrintAndEnd(p) \/ OpenPipe(p) \/ Write(p)
           \/ StartWaiting(p) \/ Wait(p) \/ Return(p)
           \/ (p = "parent" /\ (ReadMessage \/ EnoughRead))
           \/ (p = "child1" /\ ReadByte)

Next == CtrlC \/ Finished \/ \E p \in Procs : Step(p) \/ Interrupt(p)

Spec == Init /\ [][Next]_vars

(* Every process that can run does. *)
Fairness == \A p \in Procs : WF_vars(Step(p))
FairSpec == Spec /\ Fairness
-----------------------------------------------------------------------------
(* ---- properties ---- *)

(* Every process of every program ends: no read of the pipe waits for a    *)
(* writer that is only the reader's own open end, no wait for a child that *)
(* cannot end, also when a fork fails or SIGINT comes between two steps.   *)
EveryoneEnds == <>(\A p \in Procs : ~Lives(p))

(* What a parent has when it returns.  The two waits of task3.c, task4.c   *)
(* and 5.c have taken both children; in task2.c one child of the parent    *)
(* may still run, and the grandchild is its own parent's.  Without a       *)
(* signal the parent of task4.c has one message of each child, in either   *)
(* order; the child of task5.c always reads the whole message; and what    *)
(* the parent of 5.c has read is of children that saw the signal in time,  *)
(* none of them twice, though it may have left a message unread.           *)
ParentCollects ==
  /\ pc["parent"] = "done" =>
       CASE program \in {"task3.c", "task4.c", "5.c"} ->
              ChildrenOf("parent") \subseteq reaped
         [] program = "task2.c" -> Cardinality(reaped \cap ChildrenOf("parent")) = 1
         [] OTHER -> reaped = {}
  /\ program = "task4.c" /\ pc["parent"] = "done" /\ ~sent
       => got \in {<<"child1", "child2">>, <<"child2", "child1">>}
  /\ program = "task5.c" /\ pc["child1"] = "done" /\ pc["parent"] = "done"
       => Len(got) = MsgLen
  /\ program = "5.c" => IsInjective(got) /\ \A k \in DOMAIN got : flag[got[k]]
=============================================================================
