----------------------------- MODULE ModuleLife -----------------------------
(***************************************************************************)
(* Five kernel modules that are loaded, used and unloaded: the two fortune *)
(* modules of 6-semestr/lab4/part2, virtual_fc.c of lab8, tasklet.c and    *)
(* queue.c of lab9.  Loading takes resources of the kernel one by one, and *)
(* any of them may be refused; unloading gives them back.  Meanwhile       *)
(* interrupts come, bottom halves run, processes call into /proc and mount *)
(* the file system, on other processors and between any two steps.         *)
(*                                                                         *)
(* queue.c uses SHARED_IRQ and irq_call_n, which it does not declare: they *)
(* are taken for IRQ_NUM and irq_call_count.                               *)
(***************************************************************************)
EXTENDS Naturals, Sequences, FiniteSets

VARIABLES
  program,   \* the module
  phase,     \* init, undo (an error path of init), live, exit; or the end:
             \* failed, gone, stuck
  todo,      \* what the running init or exit still has to do
  held,      \* the resources the module has
  freed,     \* the resources it has given back
  handler,   \* the interrupt handler: idle, or the item it schedules next
  came,      \* has an interrupt come?
  queued,    \* bottom halves that are scheduled
  running,   \* bottom halves that run
  draining,  \* does the kernel refuse to schedule more of them?
  caller,    \* a process in a call on the /proc file: outside, inside
  wrote,     \* has a call written a line?
  mount,     \* none, new (no inode yet), inode, mounted
  accidents  \* history: what has gone wrong

moduleVars == <<program, phase, todo, held, freed>>
irqVars    == <<handler, came, queued, running, draining>>
userVars   == <<caller, wrote, mount>>
vars       == <<moduleVars, irqVars, userVars, accidents>>

(* An init function: what it takes, and for every refusal that makes it    *)
(* fail what it still gives back.  Other refusals it passes over.  Exit    *)
(* functions are the sequence of what they give back, the waiting included.*)

my_tasklet_init == [takes |-> <<"proc", "irq">>,
                    undo  |-> [proc |-> <<>>, irq |-> <<>>]]
(* Faulty: it waits for the callers of a file that can still be called.     *)
my_tasklet_exit_Patient == <<"tasklet_kill", "irq", "handler", "callers", "proc">>

my_tasklet_exit == <<"tasklet_kill", "irq", "handler", "proc", "callers">>

(* Faulty: the interrupt is not freed when there is no workqueue. *)
my_wq_init_Forgets == [takes |-> <<"irq", "wq", "work1", "init1", "work2", "init2">>,
                       undo  |-> [irq |-> <<>>, wq |-> <<>>]]

my_wq_init == [takes |-> <<"irq", "wq", "work1", "init1", "work2", "init2">>,
               undo  |-> [irq |-> <<>>, wq |-> <<"irq", "handler">>]]

(* Faulty: the work items go before the handler. *)
my_wq_exit_Early == <<"wq", "work1", "work2", "irq", "handler">>

(* flush_workqueue waits for less than destroy_workqueue does. *)
my_wq_exit == <<"wq", "irq", "handler", "work1", "work2">>

virtual_fc_init == [takes |-> <<"fs", "area", "cache", "object">>,
                    undo  |-> [fs |-> <<>>, area |-> <<>>, cache |-> <<"area">>,
                               object |-> <<"object", "cache", "area">>]]

(* The return of unregister_filesystem is only printed. *)
virtual_fc_exit == <<"object", "cache", "area", "fs">>

(* The entries of /proc are tried whatever came of the one before; "reset" *)
(* is the end of the function, where a refusal of any of them tells.       *)
fortune_init == [takes |-> <<"pot", "proc", "dir", "link", "reset">>,
                 undo  |-> [pot |-> <<>>, reset |-> <<"pot">>]]

fortune_exit == <<"proc", "callers", "dir", "link", "pot">>

seq_fortune_init == [takes |-> <<"pot", "proc", "dir", "link">>,
                     undo  |-> [pot |-> <<>>, proc |-> <<"pot">>]]

seq_fortune_exit == <<"proc", "callers", "dir", "link", "pot">>

InitOf == CASE program = "tasklet.c"    -> my_tasklet_init
            [] program = "queue.c"      -> my_wq_init
            [] program = "virtual_fc.c" -> virtual_fc_init
            [] program = "fortune.c"    -> fortune_init
            [] program = "main.c"       -> seq_fortune_init

ExitOf == CASE program = "tasklet.c"    -> my_tasklet_exit
            [] program = "queue.c"      -> my_wq_exit
            [] program = "virtual_fc.c" -> virtual_fc_exit
            [] program = "fortune.c"    -> fortune_exit
            [] program = "main.c"       -> seq_fortune_exit

Init ==
  /\ program \in {"tasklet.c", "queue.c", "virtual_fc.c", "fortune.c", "main.c"}
  /\ phase = "init" /\ todo = InitOf.takes
  /\ held = {} /\ freed = {}
  /\ handler = "idle" /\ came = FALSE /\ queued = {} /\ running = {} /\ draining = FALSE
  /\ caller = "outside" /\ wrote = FALSE /\ mount = "none"
  /\ accidents = {}

Ended == phase \in {"failed", "gone", "stuck"}
Accident(kinds) == accidents' = accidents \cup kinds

(* ---- loading ---- *)

Entries == {"proc", "dir", "link"}

(* INIT_WORK of an item there is, and the end of fortune_init, cannot be   *)
(* refused.                                                                *)
Granted(r) == CASE r = "reset" -> Entries \subseteq held
                [] r = "init1" -> "work1" \in held
                [] r = "init2" -> "work2" \in held
                [] OTHER       -> TRUE
Refused(r) == r \in {"reset", "init1", "init2"} => ~Granted(r)

(* fortune.c sets its indices to 0 when its file is already there.         *)
Take ==
  /\ phase = "init" /\ todo # <<>> /\ Granted(Head(todo))
  /\ held' = IF Head(todo) = "reset" THEN held ELSE held \cup {Head(todo)}
  /\ todo' = Tail(todo)
  /\ Accident(IF Head(todo) = "reset" /\ wrote THEN {"line forgotten"} ELSE {})
  /\ UNCHANGED <<program, phase, freed, irqVars, userVars>>

Refuse ==
  /\ phase = "init" /\ todo # <<>> /\ Refused(Head(todo))
  /\ IF Head(todo) \in DOMAIN InitOf.undo
     THEN phase' = "undo" /\ todo' = InitOf.undo[Head(todo)]
     ELSE phase' = phase /\ todo' = Tail(todo)
  /\ UNCHANGED <<program, held, freed, irqVars, userVars, accidents>>

Loaded ==
  /\ phase = "init" /\ todo = <<>>
  /\ phase' = "live"
  /\ UNCHANGED <<program, todo, held, freed, irqVars, userVars, accidents>>

(* ---- unloading ---- *)

(* The module's counter, which only a mount raises, must be 0. *)
Unload ==
  /\ phase = "live" /\ mount = "none"
  /\ phase' = "exit" /\ todo' = ExitOf
  /\ UNCHANGED <<program, held, freed, irqVars, userVars, accidents>>

(* tasklet_kill waits until the tasklet is not scheduled and marks it as   *)
(* scheduled itself; destroy_workqueue refuses new work.  Nothing comes to *)
(* the bottom halves while they wait for the last ones.                    *)
Drains(r) == r \in {"tasklet_kill", "wq"}

Drain ==
  /\ phase = "exit" /\ todo # <<>> /\ Drains(Head(todo)) /\ ~draining
  /\ Head(todo) = "tasklet_kill" => "tasklet" \notin queued
  /\ draining' = TRUE
  /\ UNCHANGED <<moduleVars, handler, came, queued, running, userVars, accidents>>

(* What the kernel waits for before it takes something back: free_irq for  *)
(* a handler that runs, remove_proc_entry for the calls.                   *)
Waited(r) == CASE r = "handler" -> handler = "idle"
               [] r = "callers" -> caller = "outside"
               [] Drains(r)     -> draining /\ queued \cup running = {}
               [] OTHER -> TRUE

GiveBack ==
  /\ phase \in {"undo", "exit"} /\ todo # <<>> /\ Waited(Head(todo))
  /\ held' = held \ {Head(todo)} /\ freed' = freed \cup (held \cap {Head(todo)})
  /\ todo' = Tail(todo) /\ draining' = FALSE
  /\ UNCHANGED <<program, phase, handler, came, queued, running, userVars, accidents>>

(* kmem_cache_free is no kfree: it does not take the NULL that             *)
(* kmem_cache_alloc has just given.  It may end init there, and the module *)
(* then stays half loaded.                                                 *)
FreeNull ==
  /\ phase = "undo" /\ todo # <<>> /\ Head(todo) = "object" /\ "object" \notin held
  /\ phase' = "stuck"
  /\ UNCHANGED <<program, todo, held, freed, irqVars, userVars, accidents>>

(* The module's code and data go. *)
Unloaded ==
  /\ phase \in {"undo", "exit"} /\ todo = <<>>
  /\ phase' = IF phase = "undo" THEN "failed" ELSE "gone"
  /\ UNCHANGED <<program, todo, held, freed, irqVars, userVars, accidents>>

NoCode == phase \in {"failed", "gone"}

(* ---- interrupts and bottom halves ---- *)

Interrupt ==
  /\ "irq" \in held /\ handler = "idle"
  /\ handler' = IF program = "tasklet.c" THEN "tasklet" ELSE "work1"
  /\ came' = TRUE
  /\ UNCHANGED <<moduleVars, queued, running, draining, userVars, accidents>>

ScheduleTasklet ==
  /\ handler = "tasklet"
  /\ queued' = (IF draining THEN queued ELSE queued \cup {"tasklet"}) /\ handler' = "idle"
  /\ UNCHANGED <<moduleVars, came, running, draining, userVars, accidents>>

(* The pointers to the items stay when the items are freed. *)
QueueWork ==
  /\ handler \in {"work1", "work2"}
  /\ LET pointer == handler \in held \cup freed
         raw     == (IF handler = "work1" THEN "init1" ELSE "init2") \notin held
         danger  == IF ~pointer THEN {}
                    ELSE (IF raw THEN {"raw work"} ELSE {})
                         \cup (IF handler \in freed THEN {"freed work"} ELSE {})
                         \cup (IF "wq" \in freed THEN {"freed queue"} ELSE {})
     IN  /\ Accident(danger)
         /\ queued' = IF pointer /\ danger = {} /\ ~draining THEN queued \cup {handler} ELSE queued
  /\ handler' = IF handler = "work1" THEN "work2" ELSE "idle"
  /\ UNCHANGED <<moduleVars, came, running, draining, userVars>>

(* One item never runs twice at once. *)
StartItem ==
  /\ \E i \in queued \ running :
       queued' = queued \ {i} /\ running' = running \cup {i}
  /\ Accident(IF NoCode THEN {"item without code"} ELSE {})
  /\ UNCHANGED <<moduleVars, handler, came, draining, userVars>>

EndTasklet ==
  /\ "tasklet" \in running
  /\ running' = running \ {"tasklet"}
  /\ Accident(IF NoCode THEN {"item without code"} ELSE {})
  /\ UNCHANGED <<moduleVars, handler, came, queued, draining, userVars>>

(* It writes to its item, and sleeps in between. *)
EndWork ==
  /\ \E w \in running \cap {"work1", "work2"} :
       /\ running' = running \ {w}
       /\ Accident((IF NoCode THEN {"item without code"} ELSE {})
                   \cup IF w \in freed THEN {"freed work"} ELSE {})
  /\ UNCHANGED <<moduleVars, handler, came, queued, draining, userVars>>

(* ---- calls on the /proc file ---- *)

Call ==
  /\ "proc" \in held /\ caller = "outside"
  /\ caller' = "inside"
  /\ Accident(IF NoCode THEN {"call without code"} ELSE {})
  /\ UNCHANGED <<moduleVars, irqVars, wrote, mount>>

ReturnOfTasklet ==
  /\ program = "tasklet.c" /\ caller = "inside"
  /\ caller' = "outside"
  /\ Accident(IF NoCode THEN {"call without code"} ELSE {})
  /\ UNCHANGED <<moduleVars, irqVars, wrote, mount>>

(* It reads or writes the pot. *)
ReturnOfFortune ==
  /\ program \in {"fortune.c", "main.c"} /\ caller = "inside"
  /\ caller' = "outside" /\ wrote' \in {wrote, TRUE}
  /\ Accident((IF NoCode THEN {"call without code"} ELSE {})
              \cup IF "pot" \in freed THEN {"freed pot"} ELSE {})
  /\ UNCHANGED <<moduleVars, irqVars, mount>>

(* ---- mounts ---- *)

(* The kernel finds the type and raises the module's counter, unless the   *)
(* module is on its way out.  A type whose module is gone is read first.   *)
virtual_fc_mount ==
  /\ "fs" \in held /\ mount = "none" /\ phase # "exit"
  /\ mount' = IF NoCode THEN "none" ELSE "new"
  /\ Accident(IF NoCode THEN {"mount without code"} ELSE {})
  /\ UNCHANGED <<moduleVars, irqVars, caller, wrote>>

virtual_fc_make_inode ==
  /\ mount = "new"
  /\ mount' \in {"none", "inode"}
  /\ Accident(IF NoCode THEN {"mount without code"} ELSE {})
  /\ UNCHANGED <<moduleVars, irqVars, caller, wrote>>

(* d_make_root puts the inode itself when it fails.  iput does it again.   *)
virtual_fc_fill_sb ==
  /\ mount = "inode"
  /\ mount' \in {"none", "mounted"}
  /\ Accident((IF NoCode THEN {"mount without code"} ELSE {})
              \cup IF mount' = "none" THEN {"inode put twice"} ELSE {})
  /\ UNCHANGED <<moduleVars, irqVars, caller, wrote>>

Unmount ==
  /\ mount = "mounted"
  /\ mount' = "none"
  /\ Accident(IF NoCode THEN {"mount without code"} ELSE {})
  /\ UNCHANGED <<moduleVars, irqVars, caller, wrote>>

Next == \/ Take \/ Refuse \/ Loaded \/ Unload \/ Drain \/ GiveBack \/ FreeNull \/ Unloaded
        \/ Interrupt \/ ScheduleTasklet \/ QueueWork \/ StartItem \/ EndTasklet \/ EndWork
        \/ Call \/ ReturnOfTasklet \/ ReturnOfFortune
        \/ virtual_fc_mount \/ virtual_fc_make_inode \/ virtual_fc_fill_sb \/ Unmount
        \/ Ended /\ UNCHANGED vars

(* tasklet_kill looks again and again at a tasklet that interrupts keep    *)
(* scheduling, and finds it not scheduled one day.                         *)
Fairness == /\ WF_vars(Take \/ Refuse \/ Loaded \/ GiveBack \/ FreeNull \/ Unloaded)
            /\ SF_vars(Drain)
            /\ WF_vars(ScheduleTasklet) /\ WF_vars(QueueWork)
            /\ WF_vars(StartItem) /\ WF_vars(EndTasklet) /\ WF_vars(EndWork)
            /\ WF_vars(ReturnOfTasklet) /\ WF_vars(ReturnOfFortune)

Spec == Init /\ [][Next]_vars /\ Fairness
-----------------------------------------------------------------------------
(* ---- properties ---- *)

Had   == held \ {"init1", "init2"}
Quiet == Had = {} /\ handler = "idle" /\ queued = {} /\ running = {}
         /\ caller = "outside" /\ mount = "none"

(* A module that is gone can no longer be reached: the kernel has nothing  *)
(* of it, and nobody is in it.  An exit function keeps that, but for a     *)
(* tasklet scheduled since tasklet_kill.  An init function that fails      *)
(* keeps it in queue.c and main.c; tasklet.c leaves its /proc file,        *)
(* fortune.c the entries it could make, virtual_fc.c its registration, and *)
(* the mounts there are.                                                   *)
Leaves == CASE program = "tasklet.c"    -> {{}, {"proc"}}
            [] program = "fortune.c"    -> {{}} \cup {e \in SUBSET Entries : e # Entries}
            [] program = "virtual_fc.c" -> {{}, {"fs"}}
            [] OTHER                    -> {{}}
LeavesNothingBehind ==
  /\ phase = "gone" =>
       \/ Quiet
       \/ program = "tasklet.c" /\ held = {} /\ caller = "outside" /\ came
  /\ phase = "failed" => \/ Quiet
                         \/ Had \in Leaves /\ Had # {}

(* Who meets what is not there, not yet or no longer, and when: an         *)
(* interrupt between alloc_work and INIT_WORK, or between                  *)
(* destroy_workqueue and free_irq; a tasklet scheduled since tasklet_kill; *)
(* a call into, or a mount of, what a failing init function left; a call   *)
(* in fortune.c before its init function ends, which frees the pot or sets *)
(* the indices to 0; and d_make_root that fails.  Nobody else.             *)
Explained(a) ==
  CASE a = "raw work"           -> phase = "init" /\ Head(todo) = (IF handler = "work1" THEN "init1" ELSE "init2")
    [] a = "freed queue"        -> phase = "exit" /\ Head(todo) \in {"irq", "handler"}
    [] a = "item without code"  -> program = "tasklet.c" /\ phase = "gone"
    [] a = "call without code"  -> program \in {"tasklet.c", "fortune.c"} /\ phase = "failed"
    [] a = "mount without code" -> phase = "failed"
    [] a = "freed pot"          -> program = "fortune.c" /\ phase \in {"undo", "failed"}
    [] a = "line forgotten"     -> program = "fortune.c" /\ phase = "init"
    [] a = "inode put twice"    -> mount = "inode"
    [] OTHER                    -> FALSE
AccidentsExplained == [][\A a \in accidents' \ accidents : Explained(a)]_vars

(* Loading and unloading end, however many interrupts, calls and mounts    *)
(* come in between: exit waits for nothing that goes on for ever.          *)
LoadingEnds == phase \in {"init", "undo", "exit"} ~> phase = "live" \/ Ended
=============================================================================
