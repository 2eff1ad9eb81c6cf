--------------------------- MODULE ProtectedMode ---------------------------
(***************************************************************************)
(* 5-semestr/lab2/main.asm: a DOS program that goes to protected mode,     *)
(* counts the memory, shows the time and what is typed, and comes back     *)
(* when Enter is pressed.  On the way it moves the vectors of the first    *)
(* interrupt controller (8259), saves and sets its masks and the second    *)
(* one's, and loads the interrupt table of the mode it goes to.  Interrupts*)
(* come between any two instructions that let them.                        *)
(*                                                                         *)
(* An interrupt that meets the table or the vectors of the other mode goes *)
(* astray: what follows is not modelled.  Nor is the A20 line.             *)
(*                                                                         *)
(* The handlers reach the variables through ds and do not load it: while   *)
(* compute_memory has the flat segment there, they meet low memory.        *)
(***************************************************************************)
EXTENDS Integers

VARIABLES
  pc,          \* the next instruction of the program, by name; see Next
  protected,   \* the mode: CR0.PE
  iflag, nmi,  \* are interrupts, and the unmaskable one, let through?
  idtr,        \* the interrupt table: "real" or "IDT"
  base,        \* the vectors of the first controller: 8, 32, or -1 while it
               \* is being set up
  mask, mask2, \* the lines that the two controllers hold back
  irr,         \* the lines that wait
  keyboard,    \* the code at port 60h, or "none"
  master, slave, \* the saved masks
  escape,      \* set by Enter
  low,         \* low memory: "untouched", "written" to, or "escape" is in it
  edi,         \* where the next digit goes, to the video memory
  digits, at   \* digits of the memory size printed, and where the last went

machine == <<protected, iflag, nmi, idtr>>
pics    == <<base, mask, mask2>>
program == <<master, slave, escape, low, edi, digits, at>>
vars    == <<pc, machine, pics, irr, keyboard, program>>

Lines == {"timer", "key", "disk", "other"}  \* disk is on the second controller
Codes == {"enter", "letter", "released"}

Init ==
  /\ pc = "save" /\ protected = FALSE
  /\ iflag = TRUE /\ nmi = TRUE /\ idtr = "real" /\ base = 8
  /\ mask \in SUBSET {"disk", "other"} /\ mask2 \in SUBSET {"disk"}
  /\ irr = {} /\ keyboard = "none"
  /\ master = {} /\ slave = {} /\ escape = FALSE /\ low = "untouched"
  /\ edi = 0 /\ digits = 0 /\ at = 0

Goto(here, there) == pc = here /\ pc' = there

(* ---- the way there, with interrupts on ---- *)

SaveMasks ==
  /\ Goto("save", "icw1")
  /\ master' = mask /\ slave' = mask2
  /\ UNCHANGED <<machine, pics, irr, keyboard, escape, low, edi, digits, at>>

(* The first of four words: the controller forgets its mask and the edges  *)
(* it has seen, and is not ready before the last.                          *)
StartSetup ==
  /\ Goto("icw1", "icw2") \/ Goto("icw1 back", "icw2 back")
  /\ base' = -1 /\ mask' = {} /\ irr' = irr \cap {"disk"}
  /\ UNCHANGED <<machine, mask2, keyboard, program>>

MoveVectors ==
  /\ Goto("icw2", "mask")
  /\ base' = 32
  /\ UNCHANGED <<machine, mask, mask2, irr, keyboard, program>>

MaskMaster ==
  /\ Goto("mask", "mask2")
  /\ mask' = {"disk", "other"}
  /\ UNCHANGED <<machine, base, mask2, irr, keyboard, program>>

MaskSlave ==
  /\ Goto("mask2", "lidt")
  /\ mask2' = {"disk"}
  /\ UNCHANGED <<machine, base, mask, irr, keyboard, program>>

LoadIDT ==
  /\ Goto("lidt", "cli")
  /\ idtr' = "IDT"
  /\ UNCHANGED <<protected, iflag, nmi, pics, irr, keyboard, program>>

(* Faulty: only the unmaskable interrupt is held back. *)
Disable_Forgotten ==
  /\ Goto("cli", "nmi")
  /\ UNCHANGED <<machine, pics, irr, keyboard, program>>

Disable ==
  /\ Goto("cli", "nmi")
  /\ iflag' = FALSE
  /\ UNCHANGED <<protected, nmi, idtr, pics, irr, keyboard, program>>

DisableNMI ==
  /\ Goto("nmi", "switch")
  /\ nmi' = FALSE
  /\ UNCHANGED <<protected, iflag, idtr, pics, irr, keyboard, program>>

Switch ==
  /\ Goto("switch", "entry")
  /\ protected' = TRUE
  /\ UNCHANGED <<iflag, nmi, idtr, pics, irr, keyboard, program>>

(* ---- protected mode ---- *)

PM_entry ==
  /\ Goto("entry", "sti")
  /\ edi' = 29
  /\ UNCHANGED <<machine, pics, irr, keyboard, master, slave, escape, low, digits, at>>

Enable ==
  /\ Goto("sti", "call")
  /\ iflag' = TRUE
  /\ UNCHANGED <<protected, nmi, idtr, pics, irr, keyboard, program>>

(* compute_memory: the flat segment, the loop over the memory, pop ds, and *)
(* the place of the number.                                                *)
LoadFlat ==
  /\ Goto("call", "memory")
  /\ UNCHANGED <<machine, pics, irr, keyboard, program>>

ProbeMemory ==
  /\ Goto("memory", "place")
  /\ UNCHANGED <<machine, pics, irr, keyboard, program>>

flat == pc = "memory"

SetPlace ==
  /\ Goto("place", "add")
  /\ edi' = 20
  /\ UNCHANGED <<machine, pics, irr, keyboard, master, slave, escape, low, digits, at>>

AddOffset ==
  /\ Goto("add", "digit")
  /\ edi' = edi + 172
  /\ UNCHANGED <<machine, pics, irr, keyboard, master, slave, escape, low, digits, at>>

PrintDigit ==
  /\ Goto("digit", "step")
  /\ digits' = digits + 1 /\ at' = edi
  /\ UNCHANGED <<machine, pics, irr, keyboard, master, slave, escape, low, edi>>

NextDigit ==
  /\ Goto("step", IF digits = 8 THEN "work" ELSE "digit")
  /\ edi' = edi - 2
  /\ UNCHANGED <<machine, pics, irr, keyboard, master, slave, escape, low, digits, at>>

(* The loop at work ends with escape. *)
GoBack ==
  /\ escape /\ Goto("work", "return")
  /\ iflag' = FALSE
  /\ UNCHANGED <<protected, nmi, idtr, pics, irr, keyboard, program>>

(* ---- the way back, with interrupts off ---- *)

RM_return ==
  /\ Goto("return", "icw1 back")
  /\ protected' = FALSE
  /\ UNCHANGED <<iflag, nmi, idtr, pics, irr, keyboard, program>>

MoveVectorsBack ==
  /\ Goto("icw2 back", "masks back")
  /\ base' = 8
  /\ UNCHANGED <<machine, mask, mask2, irr, keyboard, program>>

(* Faulty: the second mask is forgotten. *)
RestoreMasks_First ==
  /\ Goto("masks back", "lidt back")
  /\ mask' = master
  /\ UNCHANGED <<machine, base, mask2, irr, keyboard, program>>

RestoreMasks ==
  /\ Goto("masks back", "lidt back")
  /\ mask' = master /\ mask2' = slave
  /\ UNCHANGED <<machine, base, irr, keyboard, program>>

LoadRealIDT ==
  /\ Goto("lidt back", "nmi back")
  /\ idtr' = "real"
  /\ UNCHANGED <<protected, iflag, nmi, pics, irr, keyboard, program>>

EnableNMI ==
  /\ Goto("nmi back", "sti back")
  /\ nmi' = TRUE
  /\ UNCHANGED <<protected, iflag, idtr, pics, irr, keyboard, program>>

EnableBack ==
  /\ Goto("sti back", "end")
  /\ iflag' = TRUE
  /\ UNCHANGED <<protected, nmi, idtr, pics, irr, keyboard, program>>

Instruction ==
  \/ SaveMasks \/ StartSetup \/ MoveVectors \/ MaskMaster \/ MaskSlave \/ LoadIDT
  \/ Disable \/ DisableNMI \/ Switch
  \/ PM_entry \/ Enable \/ LoadFlat \/ ProbeMemory \/ SetPlace \/ AddOffset \/ PrintDigit \/ NextDigit
  \/ GoBack
  \/ RM_return \/ MoveVectorsBack \/ RestoreMasks \/ LoadRealIDT \/ EnableNMI \/ EnableBack

(* ---- interrupts ---- *)

Runs == pc \notin {"end", "astray", "fault"}

Astray == pc' = "astray" /\ UNCHANGED <<machine, pics, irr, keyboard, program>>

Presented == {l \in irr \ mask : base # -1 /\ (l = "disk" => l \notin mask2)}
First(l)  == /\ l \in Presented
             /\ l # "timer" => "timer" \notin Presented
             /\ l \in {"disk", "other"} => "key" \notin Presented
Accepted(l) == Runs /\ iflag /\ First(l)

(* The table and the vectors belong to the mode. *)
Matching(l) == IF protected THEN idtr = "IDT" /\ base = 32 /\ l \in {"timer", "key"}
                            ELSE idtr = "real" /\ (base = 8 \/ l = "disk")

WrongHandler == \E l \in Lines : Accepted(l) /\ ~Matching(l) /\ Astray

DosHandler ==
  \E l \in Lines :
    /\ Accepted(l) /\ Matching(l) /\ ~protected
    /\ irr' = irr \ {l}
    /\ keyboard' = IF l = "key" THEN "none" ELSE keyboard
    /\ UNCHANGED <<pc, machine, pics, program>>

written == IF low = "escape" THEN low ELSE "written"

(* It prints the time in eight digits up to place 2 + 172 and does not put *)
(* edi back; the time goes through ds.                                     *)
tick(place) ==
  /\ Accepted("timer") /\ Matching("timer") /\ protected
  /\ irr' = irr \ {"timer"}
  /\ edi' = place
  /\ low' = IF flat THEN written ELSE low
  /\ UNCHANGED <<pc, machine, pics, keyboard, master, slave, escape, digits, at>>

(* Faulty: it prints where the program is printing. *)
new_int08_Inline == tick(172)

new_int08 == tick(2 + 172 - 8 * 2)

(* A letter is printed where out_position says.  That read from low memory *)
(* may lie beyond the video segment: then the exception's handler returns  *)
(* to the same instruction, for ever.                                      *)
typed(code) ==
  IF code = "letter" /\ flat
    THEN \/ pc' = pc /\ low' = written
         \/ pc' = "fault" /\ low' = low
    ELSE /\ pc' = pc
         /\ low' = IF code = "enter" /\ flat THEN "escape" ELSE low

key ==
  /\ Accepted("key") /\ Matching("key") /\ protected
  /\ irr' = irr \ {"key"} /\ keyboard' = "none"
  /\ typed(keyboard)
  /\ UNCHANGED <<machine, pics, master, slave, edi, digits, at>>

(* Faulty: a key that goes up clears what Enter has set. *)
new_int09_Clears ==
  /\ key
  /\ escape' = ((keyboard = "enter" /\ ~flat) \/ (escape /\ keyboard # "released"))

new_int09 ==
  /\ key
  /\ escape' = (escape \/ (keyboard = "enter" /\ ~flat))

(* A handler of DOS, or none. *)
NMI ==
  /\ Runs /\ nmi /\ (protected \/ idtr = "IDT")
  /\ Astray

Raise ==
  /\ Runs
  /\ \E l \in Lines \ {"key"} : l \notin irr /\ irr' = irr \cup {l}
  /\ UNCHANGED <<pc, machine, pics, keyboard, program>>

(* The next code comes when the last one was read. *)
Key ==
  /\ Runs /\ keyboard = "none"
  /\ \E code \in Codes : keyboard' = code
  /\ irr' = irr \cup {"key"}
  /\ UNCHANGED <<pc, machine, pics, program>>

Next == \/ Instruction
        \/ WrongHandler \/ DosHandler \/ new_int08 \/ new_int09 \/ NMI
        \/ Raise \/ Key
        \/ ~Runs /\ UNCHANGED vars

(* The processor goes on, and between two ticks of the timer it serves     *)
(* the keyboard.                                                           *)
Fairness == WF_vars(Instruction) /\ WF_vars(new_int08) /\ SF_vars(new_int09)

Spec == Init /\ [][Next]_vars /\ Fairness
-----------------------------------------------------------------------------
(* ---- properties ---- *)

(* The vectors are moved (line 340) and the table is loaded (348) before   *)
(* interrupts are switched off (355) and the unmaskable one is (358): in   *)
(* between, and only then, an interrupt goes astray.  Neither protected    *)
(* mode nor the way back has such a moment.                                *)
AstrayOnlyOnTheWayThere ==
  [][pc # "astray" /\ pc' = "astray" =>
       \/ pc \in {"mask", "mask2", "lidt", "cli"} /\ iflag
       \/ pc = "nmi" /\ nmi]_vars

(* The program leaves the machine as it found it, but for low memory.      *)
AsItWas ==
  pc = "end" => /\ ~protected /\ iflag /\ nmi /\ idtr = "real" /\ base = 8
                /\ mask = master /\ mask2 = slave

(* A tick while the memory size is printed moves the rest of it, since     *)
(* new_int08 does not save edi: but never onto the clock (places 160 to    *)
(* 174) or what is typed (480 and up), and all eight digits are printed.   *)
DigitsMissTheClock ==
  /\ digits > 0 => at \in 0..479 \ 160..175
  /\ pc = "work" => digits = 8

(* Enter leads back, unless it is handled while the memory is counted, or  *)
(* a letter is: then the flat segment is in ds, escape is set in low       *)
(* memory, and the letter may fault.  Enter after that leads back whatever *)
(* was typed before.                                                       *)
EnterReturns ==
  LET entered == protected /\ keyboard = "enter" /\ "key" \in irr
  IN  /\ entered ~> pc \in {"end", "fault"} \/ low = "escape"
      /\ entered /\ pc \in {"place", "add", "digit", "step", "work"} ~> pc = "end"
=============================================================================
