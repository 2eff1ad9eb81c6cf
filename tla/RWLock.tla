------------------------------- MODULE RWLock -------------------------------
(***************************************************************************)
(* What the readers and writers of 5-semestr/lab5/task2.c and              *)
(* 5-semestr/lab6/main.cpp promise: readers share the section, a writer    *)
(* has it to itself, and every writer increments the value exactly once    *)
(* before it leaves.                                                       *)
(***************************************************************************)
EXTENDS Naturals

CONSTANTS R, W,      \* the readers and the writers
          Modulus    \* the value is an int that wraps

VARIABLES reading,   \* readers in the section
          writing,   \* writers in the section
          pending,   \* writers in the section that have not written yet
          value

Init == reading = {} /\ writing = {} /\ pending = {} /\ value = 0

BeginRead(r) == /\ r \notin reading /\ writing = {}
                /\ reading' = reading \cup {r}
                /\ UNCHANGED <<writing, pending, value>>

EndRead(r) == /\ r \in reading
              /\ reading' = reading \ {r}
              /\ UNCHANGED <<writing, pending, value>>

BeginWrite(w) == /\ reading = {} /\ writing = {}
                 /\ writing' = {w} /\ pending' = {w}
                 /\ UNCHANGED <<reading, value>>

Write(w) == /\ w \in pending
            /\ pending' = pending \ {w}
            /\ value' = (value + 1) % Modulus
            /\ UNCHANGED <<reading, writing>>

EndWrite(w) == /\ w \in writing \ pending
               /\ writing' = writing \ {w}
               /\ UNCHANGED <<reading, pending, value>>

Next == \/ \E r \in R : BeginRead(r) \/ EndRead(r)
        \/ \E w \in W : BeginWrite(w) \/ Write(w) \/ EndWrite(w)

Spec == Init /\ [][Next]_<<reading, writing, pending, value>>
=============================================================================
