----------------------------- MODULE MCPrograms -----------------------------
(* ProcessTree, ProtectedMode and ModuleLife for TLC, one in each run,     *)
(* beside MCDaemons: nothing else of the repository concerns them.  The    *)
(* programs that a run is not about stay in one initial state.             *)
EXTENDS MCDaemons, Integers

CONSTANT MsgLen  \* of ProcessTree, which also has ForkMayFail

ASSUME ProgramsAssumption == MsgLen \in Nat \ {0}

VARIABLES
  family, place, rd, wr, pipe, flag, pending, sent, turns, got, reaped,
  ip, protected, iflag, nmi, idtr, base, mask, mask2, irr, keyboard, master, slave,
  escape, low, edi, digits, spot,
  module, phase, todo, held, freed, handler, came, queued, running, draining, caller, wrote, mount,
  accidents

T == INSTANCE ProcessTree   WITH program <- family, pc <- place, i <- turns
B == INSTANCE ProtectedMode WITH pc <- ip, at <- spot
M == INSTANCE ModuleLife    WITH program <- module

dvars == <<which, vars, zvars>>
tvars == <<family, place, rd, wr, pipe, flag, pending, sent, turns, got, reaped>>
bvars == <<ip, protected, iflag, nmi, idtr, base, mask, mask2, irr, keyboard, master, slave,
           escape, low, edi, digits, spot>>
mvars == <<module, phase, todo, held, freed, handler, came, queued, running, draining, caller, wrote, mount,
           accidents>>
allvars == <<dvars, tvars, bvars, mvars>>

(* One initial state of the others. *)
NoDaemon == /\ which = "none" /\ Init /\ Z!Init
            /\ proc = [k \in Copies |-> CHOOSE p \in Launched : TRUE]
            /\ zproc = [k \in Copies |-> CHOOSE p \in Launched : TRUE]
NoTree    == T!Init /\ family = "task1.c"
NoMachine == B!Init /\ mask = {} /\ mask2 = {}
NoModule  == M!Init /\ module = "queue.c"

TreeStart   == T!Init /\ NoDaemon /\ NoMachine /\ NoModule
TreeStep    == T!Next /\ UNCHANGED <<dvars, bvars, mvars>>
TreeSpec    == TreeStart /\ [][TreeStep]_allvars /\ T!Fairness

MachineStart == B!Init /\ NoDaemon /\ NoTree /\ NoModule
MachineStep  == B!Next /\ UNCHANGED <<dvars, tvars, mvars>>
MachineSpec  == MachineStart /\ [][MachineStep]_allvars /\ B!Fairness

ModuleStart == M!Init /\ NoDaemon /\ NoTree /\ NoMachine
ModuleStep  == M!Next /\ UNCHANGED <<dvars, tvars, bvars>>
ModuleSpec  == ModuleStart /\ [][ModuleStep]_allvars /\ M!Fairness

(* What a parent has collected when it returns, and that all end: see      *)
(* ProcessTree.                                                            *)
ParentCollects == T!ParentCollects
EveryoneEnds   == T!EveryoneEnds

(* When an interrupt goes astray, the machine at the end, the digits, and  *)
(* the way back: see ProtectedMode.                                        *)
AstrayOnlyOnTheWayThere == B!AstrayOnlyOnTheWayThere
AsItWas                 == B!AsItWas
DigitsMissTheClock      == B!DigitsMissTheClock
EnterReturns            == B!EnterReturns

(* What a module leaves behind, who meets what is not there, and that      *)
(* loading ends: see ModuleLife.                                           *)
LeavesNothingBehind == M!LeavesNothingBehind
AccidentsExplained  == M!AccidentsExplained
LoadingEnds         == M!LoadingEnds
=============================================================================
