------------------------------ MODULE DirWalk ------------------------------
(***************************************************************************)
(* 6-semestr/lab2/main.c: a walk over a tree of files that counts them.    *)
(* dopath looks names up in the working directory, each up to three times; *)
(* it changes into every directory it opens and back by "..", and looks at *)
(* neither result.  Meanwhile another process may move files.              *)
(*                                                                         *)
(* Line 78 ends in words that were meant as a comment.                     *)
(***************************************************************************)
EXTENDS Naturals, SequencesExt

CONSTANTS
  Files,     \* the files there are
  Root,      \* the one that "/" is
  Trees,     \* kinds, names and parents of the files
  Paths,     \* the names that a path consists of, in order
  MaxOpen,   \* the directories a process can have open
  MaxMoves   \* bound: files that are moved

VARIABLES
  kind, name, parent, \* of the files
  listable,   \* the directories that can be read
  searchable, \* the directories that can be changed into and looked up in
  argument,   \* of the program: a path, and where it begins
  top,        \* history: the file it led to at the start, or "none"
  step,       \* where dopath stands: call, open, chdir, loop; done
  arg,        \* the name it is called with
  ret,        \* what it returned last
  stack,      \* the calls that have a directory open: which, and what names
              \* are still unread
  cwd,        \* the working directory
  counted,    \* how often each file was counted
  moves,      \* files moved so far
  astray      \* history: has chdir failed or led elsewhere than opendir, or
              \* has an open directory been moved?

modes == <<kind, name, listable, searchable, argument, top>>
walk  == <<step, arg, ret, cwd, counted>>
vars  == <<modes, parent, walk, stack, moves, astray>>

Dirs == {f \in Files : kind[f] = "dir"}

(* A file's directory, its directory, and so on, and the file itself.      *)
Closed(S) == \A f \in S : parent[f] \in Files => parent[f] \in S
Above(f)  == {g \in Files : \A S \in SUBSET Files : {f} \cap Files \subseteq S /\ Closed(S) => g \in S}

IsTree(t) ==
  /\ t.parent \in [Files -> Files \cup {"none"}]
  /\ t.parent[Root] = "none" /\ t.kind[Root] = "dir"
  /\ \A f \in Files \ {Root} : t.parent[f] \in Files /\ t.kind[t.parent[f]] = "dir"
  /\ \A f, g \in Files : t.parent[f] = t.parent[g] /\ t.name[f] = t.name[g] => f = g
  /\ \A f \in Files : t.name[f] \notin {".", ".."}
  /\ \A S \in (SUBSET Files) \ {{}} : \E f \in S : t.parent[f] \notin S

(* ---- looking up, by the kernel, in the tree t ---- *)

Tree == [kind |-> kind, name |-> name, parent |-> parent, searchable |-> searchable]

ParentDir(t, d) == IF t.parent[d] \in Files THEN t.parent[d] ELSE d

(* What n is in the directory dir: one file at most. *)
Look(t, dir, n) ==
  {f \in Files : /\ dir \in t.searchable
                 /\ \/ n = "." /\ f = dir
                    \/ n = ".." /\ f = ParentDir(t, dir)
                    \/ t.parent[f] = dir /\ t.name[f] = n}

Follow(t, path) ==
  LET led[k \in 0..Len(path.names)] ==
        IF k = 0 THEN path.from
        ELSE IF Look(t, led[k - 1], path.names[k]) = {} THEN "none"
        ELSE CHOOSE f \in Look(t, led[k - 1], path.names[k]) : TRUE
  IN  led[Len(path.names)]

(* What the name that dopath was called with means now: in main, and in    *)
(* the loop of a call.                                                     *)
Calls == IF step = "chdir" THEN Len(stack) - 1 ELSE Len(stack)
Named == IF Calls = 0 THEN Files \cap {Follow(Tree, argument)} ELSE Look(Tree, cwd, arg)

(* chdir to it; when that fails the process stays where it is.             *)
Chdir(fs) == IF fs \cap searchable = {} THEN {cwd} ELSE fs \cap searchable

Init ==
  /\ \E t \in Trees : kind = t.kind /\ name = t.name /\ parent = t.parent
  /\ listable \in SUBSET Dirs /\ searchable \in SUBSET Dirs
  /\ cwd \in Dirs
  /\ \E from \in {cwd, Root}, names \in Paths :
       /\ names = <<>> => from = Root
       /\ argument = [from |-> from, names |-> names]
  /\ top = Follow(Tree, argument)
  /\ step = "call" /\ arg = "none" /\ ret = 0 /\ stack = <<>>
  /\ counted = [f \in Files |-> 0]
  /\ moves = 0 /\ astray = FALSE

(* ---- dopath ---- *)

Unread(dir) == {name[f] : f \in {g \in Files : parent[g] = dir}}

(* Back in the loop of the caller, or in main. *)
Return(r, calls) == /\ ret' = r /\ stack' = calls
                    /\ step' = IF calls = <<>> THEN "done" ELSE "loop"

counter(f) == counted' = [counted EXCEPT ![f] = @ + 1]

(* lstat fails: FTW_NS. *)
NotThere ==
  /\ step = "call" /\ Named = {}
  /\ Return(-1, stack)
  /\ UNCHANGED <<modes, parent, arg, cwd, counted, moves, astray>>

(* FTW_F *)
NoDirectory ==
  /\ step = "call"
  /\ \E f \in Named \ Dirs : counter(f)
  /\ Return(0, stack)
  /\ UNCHANGED <<modes, parent, arg, cwd, moves, astray>>

(* FTW_D *)
Directory ==
  /\ step = "call"
  /\ \E f \in Named \cap Dirs : counter(f)
  /\ step' = "open"
  /\ UNCHANGED <<modes, parent, arg, ret, stack, cwd, moves, astray>>

(* opendir fails: FTW_DNR. *)
NotReadable ==
  /\ step = "open" /\ (Named \cap listable = {} \/ Len(stack) = MaxOpen)
  /\ Return(-1, stack)
  /\ UNCHANGED <<modes, parent, arg, cwd, counted, moves, astray>>

OpenDir ==
  /\ step = "open" /\ Len(stack) < MaxOpen
  /\ \E f \in Named \cap listable : stack' = Append(stack, [dir |-> f, unread |-> Unread(f)])
  /\ step' = "chdir"
  /\ UNCHANGED <<modes, parent, arg, ret, cwd, counted, moves, astray>>

ChangeDir ==
  /\ step = "chdir"
  /\ cwd' \in Chdir(Named)
  /\ astray' = (astray \/ Last(stack).dir \notin Named \cap searchable)
  /\ step' = "loop"
  /\ UNCHANGED <<modes, parent, arg, ret, stack, counted, moves>>

ReadEntry ==
  /\ step = "loop" /\ ret = 0
  /\ \E n \in Last(stack).unread :
       /\ arg' = n
       /\ stack' = [stack EXCEPT ![Len(stack)].unread = @ \ {n}]
  /\ step' = "call"
  /\ UNCHANGED <<modes, parent, ret, cwd, counted, moves, astray>>

(* Faulty: an error goes back without changing the directory. *)
Leave_Early ==
  /\ step = "loop" /\ (Last(stack).unread = {} \/ ret # 0)
  /\ cwd' \in IF ret # 0 THEN {cwd} ELSE Chdir(Look(Tree, cwd, ".."))
  /\ Return(ret, Front(stack))
  /\ UNCHANGED <<modes, parent, arg, counted, moves, astray>>

(* chdir("..") and closedir. *)
Leave ==
  /\ step = "loop" /\ (Last(stack).unread = {} \/ ret # 0)
  /\ cwd' \in Chdir(Look(Tree, cwd, ".."))
  /\ Return(ret, Front(stack))
  /\ UNCHANGED <<modes, parent, arg, counted, moves, astray>>

(* Another process moves d into q, under its name.  Whether readdir in one *)
(* of the two directories notices is not specified.                        *)
Seen(frame, d, q) ==
  [frame EXCEPT !.unread = IF frame.dir = q THEN @ \cup {name[d]}
                           ELSE IF frame.dir = parent[d] THEN @ \ {name[d]} ELSE @]
Move ==
  /\ moves < MaxMoves /\ step # "done"
  /\ \E d \in Files \ {Root}, q \in Dirs :
       /\ d \notin Above(q) /\ \A f \in Files : parent[f] = q => name[f] # name[d]
       /\ parent' = [parent EXCEPT ![d] = q]
       /\ \E K \in SUBSET DOMAIN stack :
            stack' = [k \in DOMAIN stack |-> IF k \in K THEN Seen(stack[k], d, q) ELSE stack[k]]
       /\ astray' = (astray \/ \E k \in DOMAIN stack : stack[k].dir = d)
  /\ moves' = moves + 1
  /\ UNCHANGED <<modes, walk>>

Next == \/ NotThere \/ NoDirectory \/ Directory \/ NotReadable \/ OpenDir \/ ChangeDir
        \/ ReadEntry \/ Leave
        \/ Move
        \/ step = "done" /\ UNCHANGED vars

Spec == Init /\ [][Next]_vars
-----------------------------------------------------------------------------
(* ---- properties ---- *)

InPlace == step # "chdir" /\ stack # <<>> => cwd = Last(stack).dir

(* Unless a chdir fails, or a directory is moved that dopath has open or   *)
(* that the argument leads through: dopath resolves every name where it    *)
(* means to, whatever path it was started with.  While nothing is moved it *)
(* counts only what is below the argument, and no file twice; one move     *)
(* makes it count no file more than twice.  A walk without an error or a   *)
(* move counted all there is below the argument, and ends in the           *)
(* argument's parent, which need not be where it began; an error has one   *)
(* of three causes.                                                        *)
WalkIsRight ==
  ~astray =>
    /\ InPlace
    /\ moves <= 1 => \A f \in Files : counted[f] <= 1 + moves
    /\ moves = 0 => \A f \in Files : counted[f] > 0 => top \in Above(f)
    /\ step = "done" /\ moves = 0 /\ ret = 0 =>
         /\ top \in Files /\ \A f \in Files : top \in Above(f) => counted[f] = 1
         /\ top \in Dirs =>
              cwd = IF ParentDir(Tree, top) \in searchable THEN ParentDir(Tree, top) ELSE top
    /\ step = "done" /\ moves = 0 /\ ret # 0 =>
         \/ top \notin Files
         \/ \E f \in Dirs \ listable : top \in Above(f)
         \/ \E f \in Dirs : Cardinality({g \in Above(f) : top \in Above(g)}) > MaxOpen
=============================================================================
