----------------------------- MODULE OpenFiles -----------------------------
(***************************************************************************)
(* 6-semestr/lab5: seven programs that open one file twice.  1.c reads     *)
(* through two streams over one descriptor, 2.c and 2_1.c through two      *)
(* descriptors; 3.c, 3_1.c, 3_2.c and 3_3.c write through two streams with *)
(* a descriptor each.  2_1.c, 3_2.c and 3_3.c do it with two threads, the  *)
(* others in one.  The program that runs is chosen at the start.           *)
(*                                                                         *)
(* A letter is its place in the alphabet.  Number s of a descriptor, of a  *)
(* stream and of the thread that uses them is the same.                    *)
(***************************************************************************)
EXTENDS Integers, SequencesExt

CONSTANTS
  FileLen,       \* letters in alphabet.txt (24)
  Letters,       \* letters the writers write (26): an even number
  BufSize,       \* the size given to setvbuf (20)
  CreateMayFail  \* whether pthread_create may fail

Readers  == {"1.c", "2.c", "2_1.c"}
Writers  == {"3.c", "3_1.c", "3_2.c", "3_3.c"}
Threaded == {"2_1.c", "3_2.c", "3_3.c"}
Both     == {1, 2}

VARIABLES
  program,  \* the program that runs
  main,     \* where its main stands
  turn,     \* in a loop over both descriptors: whose turn it is
  pc,       \* where each stream or thread stands
  file,     \* the contents of the file
  offset,   \* of each open file description
  buf,      \* the buffer of each stream
  c,        \* the variable c of each loop
  flag,     \* did the last read of each give a letter?
  out       \* what was written to the terminal: who, which letter

vars == <<program, main, turn, pc, file, offset, buf, c, flag, out>>

threads == program \in Threaded
Other(s) == 3 - s

(* pthread_create is called for thread 2 first in 3_3.c. *)
FirstThread == IF program = "3_3.c" THEN 2 ELSE 1

Init ==
  /\ program \in Readers \cup Writers
  /\ main = IF threads THEN "create" ELSE "run"
  /\ turn = 1
  /\ pc = [s \in Both |-> IF threads THEN "none" ELSE "start"]
  /\ file = IF program \in Readers THEN [k \in 1..FileLen |-> k] ELSE <<>>
  /\ offset = [s \in Both |-> 0] /\ buf = [s \in Both |-> <<>>]
  /\ c = [s \in Both |-> IF program \in Writers THEN 1 ELSE 0]
  /\ flag = [s \in Both |-> TRUE]
  /\ out = <<>>

Runs == main \notin {"done", "failed"}
Goto(s, here) == pc' = [pc EXCEPT ![s] = here]

(* ---- main of the programs with threads ---- *)

Create ==
  /\ main \in {"create", "create_second"}
  /\ Goto(IF main = "create" THEN FirstThread ELSE Other(FirstThread), "start")
  /\ main' = IF main = "create" THEN "create_second" ELSE "join"
  /\ UNCHANGED <<program, turn, file, offset, buf, c, flag, out>>

(* write(2) of data at an offset; a gap would read as zeros. *)
Overwrite(f, at, data) ==
  [k \in 1..(IF at + Len(data) > Len(f) THEN at + Len(data) ELSE Len(f)) |->
     IF k > at /\ k <= at + Len(data) THEN data[k - at] ELSE IF k <= Len(f) THEN f[k] ELSE 0]

(* main returns -1: the process ends with the first thread, and exit       *)
(* flushes the stream that thread may have open.                           *)
CreateFails ==
  /\ CreateMayFail /\ main \in {"create", "create_second"}
  /\ main' = "failed"
  /\ file' = IF program \in Writers
             THEN Overwrite(file, offset[FirstThread], buf[FirstThread]) ELSE file
  /\ UNCHANGED <<program, turn, pc, offset, buf, c, flag, out>>

Join ==
  /\ main = "join" /\ \A s \in Both : pc[s] = "ended"
  /\ main' = "done"
  /\ UNCHANGED <<program, turn, pc, file, offset, buf, c, flag, out>>

(* ---- 1.c: fscanf from each stream in turn, while one of them has a letter ---- *)

(* An empty buffer is filled from the one offset both streams share. *)
Fill == SubSeq(file, offset[1] + 1,
               IF offset[1] + BufSize < Len(file) THEN offset[1] + BufSize ELSE Len(file))

Scan ==
  /\ program = "1.c" /\ main = "run"
  /\ LET s   == turn
         got == IF buf[s] # <<>> THEN buf[s] ELSE Fill
     IN  /\ flag' = [flag EXCEPT ![s] = got # <<>>]
         /\ IF got # <<>>
            THEN /\ out' = Append(out, <<s, Head(got)>>)
                 /\ buf' = [buf EXCEPT ![s] = Tail(got)]
                 /\ offset' = [offset EXCEPT ![1] = IF buf[s] # <<>> THEN @ ELSE @ + Len(got)]
            ELSE UNCHANGED <<out, buf, offset>>
  /\ turn' = Other(turn)
  /\ main' = IF turn = 2 /\ \A s \in Both : ~flag'[s] THEN "done" ELSE "run"
  /\ UNCHANGED <<program, pc, file, c>>

(* ---- 2.c: read and write one letter from each descriptor in turn ---- *)

(* When the read gives nothing c is written as the reads before left it,   *)
(* and the loop ends after both have had their turn.                       *)
Copy ==
  /\ program = "2.c" /\ main = "run"
  /\ LET s    == turn
         more == offset[s] < Len(file)
     IN  /\ c' = [c EXCEPT ![1] = IF more THEN file[offset[s] + 1] ELSE @]
         /\ offset' = [offset EXCEPT ![s] = IF more THEN @ + 1 ELSE @]
         /\ flag' = [flag EXCEPT ![s] = more]
         /\ out' = Append(out, <<s, c'[1]>>)
  /\ turn' = Other(turn)
  /\ main' = IF turn = 2 /\ \E s \in Both : ~flag'[s] THEN "done" ELSE "run"
  /\ UNCHANGED <<program, pc, file, buf>>

(* ---- read_file of 2_1.c: a thread that copies its descriptor's letters ---- *)

(* Faulty: both threads were given &fd1. *)
ReadByte_OneDescriptor(t) ==
  /\ program = "2_1.c" /\ Runs /\ pc[t] = "start"
  /\ IF offset[1] < Len(file)
     THEN /\ c' = [c EXCEPT ![t] = file[offset[1] + 1]]
          /\ offset' = [offset EXCEPT ![1] = @ + 1]
          /\ Goto(t, "write")
     ELSE Goto(t, "ended") /\ UNCHANGED <<c, offset>>
  /\ UNCHANGED <<program, main, turn, file, buf, flag, out>>

ReadByte(t) ==
  /\ program = "2_1.c" /\ Runs /\ pc[t] = "start"
  /\ IF offset[t] < Len(file)
     THEN /\ c' = [c EXCEPT ![t] = file[offset[t] + 1]]
          /\ offset' = [offset EXCEPT ![t] = @ + 1]
          /\ Goto(t, "write")
     ELSE Goto(t, "ended") /\ UNCHANGED <<c, offset>>
  /\ UNCHANGED <<program, main, turn, file, buf, flag, out>>

WriteByte(t) ==
  /\ Runs /\ pc[t] = "write"
  /\ out' = Append(out, <<t, c[t]>>)
  /\ Goto(t, "start")
  /\ UNCHANGED <<program, main, turn, file, offset, buf, c, flag>>

(* ---- the writers ---- *)

Odd(letter) == letter % 2 = 1
Own(s, letter) == (s = 1) = Odd(letter)

(* fopen(.., "w") truncates the file; without threads stream 1 is first. *)
Fopen(s) ==
  /\ program \in Writers /\ Runs /\ pc[s] = "start"
  /\ threads \/ s = 1 \/ pc[1] # "start"
  /\ file' = <<>>
  /\ offset' = [offset EXCEPT ![s] = 0]
  /\ Goto(s, "open")
  /\ UNCHANGED <<program, main, turn, buf, c, flag, out>>

(* Faulty: every letter goes to the file at once. *)
Fprintf_Unbuffered(s) ==
  /\ Runs /\ pc[s] = "open" /\ c[s] <= Letters
  /\ threads \/ (pc[Other(s)] = "open" /\ Own(s, c[s]))
  /\ IF Own(s, c[s])
     THEN /\ file' = Overwrite(file, offset[s], <<c[s]>>)
          /\ offset' = [offset EXCEPT ![s] = @ + 1]
     ELSE UNCHANGED <<file, offset>>
  /\ c' = IF threads THEN [c EXCEPT ![s] = @ + 1] ELSE [x \in Both |-> c[s] + 1]
  /\ UNCHANGED <<program, main, turn, pc, buf, flag, out>>

(* One round of the loop over the alphabet: a letter of its own goes into  *)
(* the buffer of stream s, which is never full (26 letters, 4096 bytes).   *)
(* Without threads there is one c, kept in both.                           *)
Fprintf(s) ==
  /\ Runs /\ pc[s] = "open" /\ c[s] <= Letters
  /\ threads \/ (pc[Other(s)] = "open" /\ Own(s, c[s]))
  /\ buf' = [buf EXCEPT ![s] = IF Own(s, c[s]) THEN Append(@, c[s]) ELSE @]
  /\ c' = IF threads THEN [c EXCEPT ![s] = @ + 1] ELSE [x \in Both |-> c[s] + 1]
  /\ UNCHANGED <<program, main, turn, pc, file, offset, flag, out>>

FirstClosed == IF program = "3.c" THEN 1 ELSE 2

(* fclose writes the buffer at the stream's own offset.  Without threads   *)
(* 3.c closes stream 1 first, 3_1.c stream 2.                              *)
Fclose(s) ==
  /\ Runs /\ pc[s] = "open" /\ c[s] > Letters
  /\ threads \/ pc[Other(s)] = "ended" \/ s = FirstClosed
  /\ file' = Overwrite(file, offset[s], buf[s])
  /\ offset' = [offset EXCEPT ![s] = @ + Len(buf[s])]
  /\ buf' = [buf EXCEPT ![s] = <<>>]
  /\ Goto(s, "ended")
  /\ main' = IF ~threads /\ pc[Other(s)] = "ended" THEN "done" ELSE main
  /\ UNCHANGED <<program, turn, c, flag, out>>

Ended == ~Runs /\ UNCHANGED vars

Next == \/ Create \/ CreateFails \/ Join \/ Scan \/ Copy \/ Ended
        \/ \E s \in Both : ReadByte(s) \/ WriteByte(s) \/ Fopen(s) \/ Fprintf(s) \/ Fclose(s)

Spec == Init /\ [][Next]_vars
-----------------------------------------------------------------------------
(* ---- properties ---- *)

(* How often a letter was printed from a descriptor or stream.             *)
Told(s, letter) == Cardinality({k \in DOMAIN out : out[k] = <<s, letter>>})
One(fact) == IF fact THEN 1 ELSE 0

(* Reading: each stream prints what it got in order.  Through two streams  *)
(* over one descriptor every letter of the file is in one place only,      *)
(* printed, in one of the buffers or not read yet.  Through a descriptor   *)
(* each, both print the whole file; 2.c then prints its last letter once   *)
(* more for each of them.                                                  *)
EveryLetterAccounted ==
  /\ \A k \in DOMAIN out : out[k][2] \in 1..FileLen
  /\ \A j, k \in DOMAIN out :
       j < k /\ out[j][1] = out[k][1] =>
         out[j][2] < out[k][2] \/ (program = "2.c" /\ out[j][2] = out[k][2])
  /\ \A letter \in 1..FileLen :
       /\ program = "1.c" =>
            Told(1, letter) + Told(2, letter) + One(letter > offset[1])
              + One(Contains(buf[1], letter)) + One(Contains(buf[2], letter)) = 1
       /\ \A s \in Both :
            /\ program = "2_1.c" =>
                 Told(s, letter) + One(pc[s] = "write" /\ c[s] = letter)
                   + One(letter > offset[s]) = 1
            /\ program = "2.c" =>
                 Told(s, letter) + One(letter > offset[s])
                   = 1 + One(letter = FileLen /\ ~flag[s])

(* Writing: the stream that is closed leaves exactly its own letters in    *)
(* the file, whatever the other one wrote there before: half of the        *)
(* alphabet is lost, and the halves are never mixed.                       *)
LastCloseWins ==
  [][\A s \in Both :
       program \in Writers /\ pc[s] = "open" /\ pc'[s] = "ended"
         => file' = [k \in 1..(Letters \div 2) |-> 2 * k - (IF s = 1 THEN 1 ELSE 0)]]_vars
=============================================================================
