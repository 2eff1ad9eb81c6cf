------------------------------ MODULE Fortune ------------------------------
(***************************************************************************)
(* 6-semestr/lab4/part2: fortune.c and main.c, two kernel modules that     *)
(* keep messages in one page behind /proc/fortune.  Both index the page    *)
(* with two globals and take no lock, so the calls of several processes    *)
(* interleave at every access to them.  The module that is loaded is       *)
(* chosen at the start; ModuleLife is about its loading and unloading.     *)
(*                                                                         *)
(* A copy of several bytes and a strlen are one step each.  What lies      *)
(* beyond the page is a guard page: a process that touches it, or the byte *)
(* before the page, is ended by the kernel within its call.                *)
(***************************************************************************)
EXTENDS Integers, FiniteSetsExt, SequencesExt

CONSTANTS
  Procs,       \* the processes that read and write the file
  Size,        \* bytes of the page: MAX_COOKIE_LENGTH, COOKIE_POT_SIZE
  Messages,    \* the lines that are written, without their newline
  ReadLens,    \* the buffers offered to fortune.c's read
  SeqRoom,     \* the longest message my_show fits into a first seq buffer
  MaxCalls     \* bound: reads and writes altogether

ASSUME ConstAssumption ==
  /\ Procs # {} /\ Size \in Nat \ {0} /\ SeqRoom \in 0..Size /\ MaxCalls \in Nat
  /\ <<>> \in Messages /\ ReadLens \subseteq Nat \ {0}
  /\ \A m \in Messages :
       m \in Seq(Range(m)) /\ "NUL" \notin Range(m) /\ "newline" \notin Range(m)

VARIABLES
  program,  \* the module that is loaded
  pot,      \* the page: cookie_pot, str
  windex,   \* cookie_index, write_index
  rindex,   \* next_fortune, read_index
  pc,       \* where each process stands in its call
  loc,      \* each process's arguments and locals
  calls,    \* calls made
  log, shown, broken  \* history: see CookieLog

shared == <<program, pot, windex, rindex>>
history == <<calls, log, shown, broken>>
vars   == <<shared, pc, loc, history>>

Bytes == 0..Size-1

NoCall == [data |-> <<>>, at |-> 0, len |-> 0, text |-> <<>>, again |-> FALSE]

Init ==
  /\ program \in {"fortune.c", "main.c"}
  /\ pot = [k \in Bytes |-> "NUL"] /\ windex = 0 /\ rindex = 0
  /\ pc = [p \in Procs |-> "idle"]
  /\ loc = [p \in Procs |-> NoCall]
  /\ calls = 0 /\ log = <<>> /\ shown = <<>> /\ broken = {}

Goto(p, here) == pc' = [pc EXCEPT ![p] = here]
Return(p)     == Goto(p, "idle") /\ loc' = [loc EXCEPT ![p] = NoCall]
Break(why)    == broken' = broken \cup why
Overlap(p)    == IF \E q \in Procs \ {p} : pc[q] \notin {"idle", "dead"} THEN {"overlap"} ELSE {}

(* The string at a position: it may have no end within the page. *)
Ends(i)   == {k \in Bytes : k >= i /\ pot[k] = "NUL"}
TextAt(i) == [k \in 1..Min(Ends(i)) - i |-> pot[i + k - 1]]

(* The kernel ends the process.  Its call never returns. *)
Oops(p) == /\ Goto(p, "dead") /\ loc' = [loc EXCEPT ![p] = NoCall]
           /\ Break({"outside"})

(* The history ends where the contract does. *)
Record(old, new) == IF broken = {} THEN new ELSE old

(* The page with data put at a position, as far as it reaches. *)
Put(at, data) == [k \in Bytes |-> IF k >= at /\ k < at + Len(data) THEN data[k - at + 1] ELSE pot[k]]

(* ---- fortune_write, my_write ---- *)

(* Faulty: the test lets a byte more pass. *)
Fits_OneMore(len) == program = "fortune.c" => len <= Size - windex + 2

(* len > space_available compares a size_t with an int: below zero the     *)
(* space counts as huge.  main.c tests nothing.                            *)
Fits(len) == LET space == (Size - windex) + 1
             IN  program = "fortune.c" => space < 0 \/ len <= space

(* A write of no bytes is a write, too. *)
BeginWrite(p) ==
  /\ pc[p] = "idle" /\ calls < MaxCalls
  /\ \E data \in {Append(m, "newline") : m \in Messages} \cup {<<>>} :
       IF Fits(Len(data))
       THEN loc' = [loc EXCEPT ![p].data = data, ![p].at = windex] /\ Goto(p, "copy")
       ELSE UNCHANGED <<pc, loc>>
  /\ calls' = calls + 1 /\ Break(Overlap(p))
  /\ UNCHANGED <<shared, log, shown>>

CopyFromUser(p) ==
  /\ pc[p] = "copy"
  /\ pot' = Put(loc[p].at, loc[p].data)
  /\ IF loc[p].data # <<>> /\ loc[p].at + Len(loc[p].data) > Size
     THEN Oops(p) ELSE Goto(p, "add") /\ UNCHANGED <<loc, broken>>
  /\ UNCHANGED <<program, windex, rindex, calls, log, shown>>

(* Part of the user's buffer is not there: -EFAULT.  copy_from_user clears *)
(* what it could not fill.                                                 *)
CopyFails(p) ==
  /\ pc[p] = "copy" /\ loc[p].at + Len(loc[p].data) <= Size
  /\ \E n \in 0..Len(loc[p].data)-1 :
       pot' = Put(loc[p].at, [k \in DOMAIN loc[p].data |-> IF k <= n THEN loc[p].data[k] ELSE "NUL"])
  /\ Return(p) /\ Break({"copy"})
  /\ UNCHANGED <<program, windex, rindex, calls, log, shown>>

(* cookie_index += len is a load and a store. *)
LoadIndex(p) ==
  /\ pc[p] = "add"
  /\ loc' = [loc EXCEPT ![p].at = windex]
  /\ Goto(p, "store")
  /\ UNCHANGED <<shared, history>>

StoreIndex(p) ==
  /\ pc[p] = "store"
  /\ windex' = loc[p].at + Len(loc[p].data)
  /\ loc' = [loc EXCEPT ![p].at = windex']
  /\ Goto(p, "end")
  /\ UNCHANGED <<program, pot, rindex, history>>

(* Faulty: the newline stays. *)
LastByte_Kept(p) == -2

(* Where the 0 goes: in the place of the newline. *)
LastByte(p) == loc[p].at - 1

Terminate(p) ==
  /\ pc[p] = "end"
  /\ IF loc[p].at - 1 \in Bytes
     THEN /\ pot' = [k \in Bytes |-> IF k = LastByte(p) THEN "NUL" ELSE pot[k]]
          /\ Return(p) /\ UNCHANGED broken
          /\ log' = IF loc[p].data = <<>> THEN log
                    ELSE Record(log, Append(log, Front(loc[p].data)))
     ELSE Oops(p) /\ UNCHANGED <<pot, log>>
  /\ UNCHANGED <<program, windex, rindex, calls, shown>>

(* ---- fortune_read ---- *)

(* Faulty: only past the end. *)
AllRead_Past == rindex > windex

AllRead == rindex >= windex

(* The file was just opened: *ppos is 0. *)
BeginRead(p) ==
  /\ program = "fortune.c" /\ pc[p] = "idle" /\ calls < MaxCalls
  /\ rindex' = IF AllRead THEN 0 ELSE rindex
  /\ \E n \in ReadLens : loc' = [loc EXCEPT ![p].len = n]
  /\ Goto(p, "take")
  /\ calls' = calls + 1
  /\ Break(Overlap(p) \cup IF windex = 0 THEN {"empty"} ELSE {})
  /\ UNCHANGED <<program, pot, windex, log, shown>>

(* strlen, and copy_to_user of no more than fits into the reader's buffer, *)
(* or of nothing when it fails.                                            *)
CopyToUser(p) ==
  /\ pc[p] = "take"
  /\ IF Ends(rindex) = {} THEN Oops(p)
     ELSE LET text == TextAt(rindex)
              l    == Min({Len(text) + 1, loc[p].len})
          IN  /\ \/ loc' = [loc EXCEPT ![p].len = l,
                                       ![p].text = SubSeq(text, 1, Min({l, Len(text)}))]
                 \/ loc' = [loc EXCEPT ![p].len = 0, ![p].text = shown]
              /\ Break(IF l <= Len(text) THEN {"short"} ELSE {})
              /\ Goto(p, "advance")
  /\ UNCHANGED <<shared, calls, log, shown>>

(* ---- my_show, called by seq_read, which is given back to when it ends ---- *)

BeginShow(p) ==
  /\ program = "main.c" /\ pc[p] = "idle" /\ calls < MaxCalls
  /\ loc' = [loc EXCEPT ![p].again = FALSE]
  /\ Goto(p, "show")
  /\ calls' = calls + 1 /\ Break(Overlap(p))
  /\ UNCHANGED <<shared, log, shown>>

(* seq_printf *)
Show(p) ==
  /\ pc[p] = "show"
  /\ IF Ends(rindex) = {} THEN Oops(p)
     ELSE /\ loc' = [loc EXCEPT ![p].text = TextAt(rindex)]
          /\ Goto(p, "measure") /\ UNCHANGED broken
  /\ UNCHANGED <<shared, calls, log, shown>>

(* seq_read doubles a buffer that was too small and calls my_show again,   *)
(* which has moved on by then.                                             *)
Leave(p) ==
  IF program = "main.c" /\ ~loc[p].again /\ Len(loc[p].text) > SeqRoom
  THEN Goto(p, "show_again") /\ UNCHANGED <<loc, shown>>
  ELSE Return(p) /\ shown' = Record(shown, loc[p].text)

ShowAgain(p) ==
  /\ pc[p] = "show_again"
  /\ loc' = [loc EXCEPT ![p].again = TRUE]
  /\ Goto(p, "show")
  /\ UNCHANGED <<shared, history>>

(* if (len) *)
Measure(p) ==
  /\ pc[p] = "measure"
  /\ CASE Ends(rindex) = {} -> Oops(p) /\ UNCHANGED shown
       [] Ends(rindex) # {} /\ TextAt(rindex) = <<>> ->
            Leave(p) /\ UNCHANGED broken
       [] OTHER -> /\ loc' = [loc EXCEPT ![p].len = Len(TextAt(rindex)) + 1]
                   /\ Goto(p, "advance") /\ UNCHANGED <<shown, broken>>
  /\ UNCHANGED <<shared, calls, log>>

(* ---- next_fortune += l, read_index += len + 1 ---- *)

LoadNext(p) ==
  /\ pc[p] = "advance"
  /\ loc' = [loc EXCEPT ![p].at = rindex]
  /\ Goto(p, "move")
  /\ UNCHANGED <<shared, history>>

StoreNext(p) ==
  /\ pc[p] = "move"
  /\ rindex' = loc[p].at + loc[p].len
  /\ Leave(p)
  /\ UNCHANGED <<program, pot, windex, calls, log, broken>>

Done == (\A p \in Procs : pc[p] \in {"idle", "dead"}) /\ UNCHANGED vars

Next == \/ Done
        \/ \E p \in Procs :
             \/ BeginWrite(p) \/ CopyFromUser(p) \/ CopyFails(p)
             \/ LoadIndex(p) \/ StoreIndex(p) \/ Terminate(p)
             \/ BeginRead(p) \/ CopyToUser(p)
             \/ BeginShow(p) \/ Show(p) \/ ShowAgain(p) \/ Measure(p)
             \/ LoadNext(p) \/ StoreNext(p)

Spec == Init /\ [][Next]_vars
-----------------------------------------------------------------------------
(* ---- properties ---- *)

(* Where the messages of the log lie, each with its NUL: EndOf(k) is the   *)
(* number of bytes of the first k.                                         *)
BytesOf(j) == {j} \X (0..Len(log[j]))
EndOf(k) == Cardinality(UNION {BytesOf(j) : j \in 1..k})

(* What both modules promise: messages come back whole and in order, see   *)
(* CookieLog.  It is off once two calls overlap, a copy fails, a call      *)
(* leaves the page, a read finds fortune.c's pot empty (the next message   *)
(* then loses its first letter) or offers too short a buffer.              *)
Cookies == INSTANCE CookieLog WITH
  cyclic  <- program = "fortune.c",
  tooLong <- IF program = "main.c" THEN {m \in Messages : Len(m) > SeqRoom} ELSE {},
  passed  <- Cardinality({k \in 1..Len(log) : EndOf(k) <= rindex}),
  big     <- \E p \in Procs : pc[p] = "show_again" \/ loc[p].again
ImplementsCookieLog == Cookies!Spec

(* Between calls the page holds the messages of the log one after another, *)
(* each with its NUL, and nothing else; the write index is their end, and  *)
(* the read index the beginning of one of them.                            *)
PotHoldsLog ==
  broken = {} /\ (\A p \in Procs : pc[p] = "idle") =>
    /\ windex = EndOf(Len(log)) /\ windex <= Size
    /\ \A j \in 1..Len(log) :
         /\ \A i \in 1..Len(log[j]) : pot[EndOf(j - 1) + i - 1] = log[j][i]
         /\ pot[EndOf(j) - 1] = "NUL"
    /\ \A k \in Bytes : k >= windex => pot[k] = "NUL"
    /\ rindex \in {EndOf(k) : k \in 0..Len(log)}

(* A process is ended in its call only if calls overlapped or a copy       *)
(* failed before, or, alone, if                                            *)
(* - it writes to main.c what does not fit, which main.c never looks at;   *)
(* - it writes to fortune.c one byte more than fits, for which its test    *)
(*   leaves room;                                                          *)
(* - it writes nothing to an empty page, and the NUL goes before the page; *)
(* - it reads from main.c a page that is full and read to the end.         *)
FaultsAtTheEdge ==
  [][\A p \in Procs :
       pc[p] # "dead" /\ pc'[p] = "dead" /\ broken \cap {"overlap", "copy", "outside"} = {} =>
         LET last == loc[p].at + Len(loc[p].data)
         IN  \/ program = "main.c" /\ pc[p] = "copy" /\ last > Size
             \/ program = "fortune.c" /\ pc[p] = "copy" /\ last = Size + 1
             \/ pc[p] = "end" /\ loc[p].data = <<>> /\ windex = 0
             \/ program = "main.c" /\ pc[p] \in {"show", "measure"} /\ rindex = Size /\ windex = Size]_vars
=============================================================================
