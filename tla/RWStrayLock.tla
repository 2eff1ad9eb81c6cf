---------------------------- MODULE RWStrayLock ----------------------------
(***************************************************************************)
(* What the readers and writers of 5-semestr/lab5/task2.c promise.  It is  *)
(* the lock of RWLock for callers that do not look whether they were let   *)
(* in: who waits may go in uncounted, and then as many are inside beyond   *)
(* the rule as strayR and strayW say, until a call to leave finds nobody   *)
(* counted and fails.  With both at zero it is RWLock.                     *)
(***************************************************************************)
EXTENDS Integers, FiniteSets

CONSTANTS R, W,      \* the readers and the writers
          Modulus    \* the value is an int that wraps

VARIABLES reading,   \* readers in the section
          writing,   \* writers in the section
          pending,   \* writers in the section that have not written yet
          value,
          strayR,    \* how many readers the lock does not count
          strayW     \* how many writers the lock does not count

Init == /\ reading = {} /\ writing = {} /\ pending = {} /\ value = 0
        /\ strayR = 0 /\ strayW = 0

ReaderCounted == Cardinality(reading) > strayR
WriterCounted == Cardinality(writing) > strayW

BeginRead(r) == /\ r \notin reading
                /\ \/ ~WriterCounted /\ strayR' = strayR
                   \/ WriterCounted  /\ strayR' = strayR + 1
                /\ reading' = reading \cup {r}
                /\ UNCHANGED <<writing, pending, value, strayW>>

EndRead(r) == /\ r \in reading
              /\ \/ ReaderCounted  /\ strayR' = strayR
                 \/ ~ReaderCounted /\ strayR' = strayR - 1
              /\ reading' = reading \ {r}
              /\ UNCHANGED <<writing, pending, value, strayW>>

BeginWrite(w) == /\ w \notin writing
                 /\ \/ ~(ReaderCounted \/ WriterCounted) /\ strayW' = strayW
                    \/ (ReaderCounted \/ WriterCounted)  /\ strayW' = strayW + 1
                 /\ writing' = writing \cup {w} /\ pending' = pending \cup {w}
                 /\ UNCHANGED <<reading, value, strayR>>

(* Only among strays may a write be of an old value. *)
Write(w) == /\ w \in pending
            /\ pending' = pending \ {w}
            /\ value' \in 0..Modulus - 1
            /\ strayW = 0 => value' = (value + 1) % Modulus
            /\ UNCHANGED <<reading, writing, strayR, strayW>>

EndWrite(w) == /\ w \in writing \ pending
               /\ \/ WriterCounted  /\ strayW' = strayW
                  \/ ~WriterCounted /\ strayW' = strayW - 1
               /\ writing' = writing \ {w}
               /\ UNCHANGED <<reading, pending, value, strayR>>

Next == \/ \E r \in R : BeginRead(r) \/ EndRead(r)
        \/ \E w \in W : BeginWrite(w) \/ Write(w) \/ EndWrite(w)

Spec == Init /\ [][Next]_<<reading, writing, pending, value, strayR, strayW>>
=============================================================================
