----------------------------- MODULE CookieLog -----------------------------
(***************************************************************************)
(* What the two fortune modules of 6-semestr/lab4/part2 promise: a log of  *)
(* messages that is read in order, one message a read.  fortune.c begins   *)
(* again after the last one; main.c stays at the end, and also before an   *)
(* empty message, and passes over one that is too long for its seq_file.   *)
(* Nothing is promised any more once the contract is broken.               *)
(***************************************************************************)
EXTENDS Naturals, Sequences

CONSTANTS Messages \* what may be written

VARIABLES cyclic,  \* does reading begin again after the last message?
          tooLong, \* the messages that are passed over
          log,     \* the messages written
          passed,  \* how many of them have been read, since the beginning
          shown,   \* what the last read gave
          big,     \* has a reader passed over a message, and not read yet?
          broken   \* why nothing is promised any more

vars == <<cyclic, tooLong, log, passed, shown, big, broken>>

Init == /\ cyclic \in BOOLEAN /\ tooLong \subseteq Messages
        /\ log = <<>> /\ passed = 0 /\ shown = <<>>
        /\ big = FALSE /\ broken = {}

Write == /\ \E m \in Messages : log' = Append(log, m)
         /\ UNCHANGED <<passed, shown, big, broken>>

Read == /\ passed < Len(log)
        /\ cyclic \/ log[passed + 1] # <<>>
        /\ big \/ log[passed + 1] \notin tooLong
        /\ shown' = log[passed + 1] /\ passed' = passed + 1
        /\ big' = FALSE
        /\ UNCHANGED <<log, broken>>

(* Nothing to read, or nothing that main.c gets past. *)
Stay == /\ ~cyclic
        /\ passed = Len(log) \/ log[passed + 1] = <<>>
        /\ shown' = <<>> /\ big' = FALSE
        /\ UNCHANGED <<log, passed, broken>>

(* The message is never shown.  Its reader gets the next one, however long. *)
PassOver == /\ ~big
            /\ passed < Len(log) /\ log[passed + 1] \in tooLong
            /\ passed' = passed + 1 /\ big' = TRUE
            /\ UNCHANGED <<log, shown, broken>>

Rewind == /\ cyclic /\ log # <<>> /\ passed = Len(log)
          /\ passed' = 0
          /\ UNCHANGED <<log, shown, big, broken>>

Next == /\ \/ broken = {} /\ (Write \/ Read \/ Stay \/ PassOver \/ Rewind)
           \/ broken' # {}
        /\ UNCHANGED <<cyclic, tooLong>>

Spec == Init /\ [][Next]_vars
=============================================================================
