------------------------------ MODULE MCFiles ------------------------------
(* Four specifications of programs around a file that others use, too, for *)
(* TLC: Fortune, OpenFiles, DirWalk, DgramServer.  Which of them runs is   *)
(* chosen at the start; the others stay in one initial state.              *)
EXTENDS Fortune, TLC

CONSTANTS FileLen, Letters, BufSize, CreateMayFail,  \* of OpenFiles
          Files, Root, Trees, Paths, MaxOpen, MaxMoves, \* of DirWalk
          Copies, Clients, MaxSends, QueueLen        \* of DgramServer

ASSUME FilesAssumption ==
  /\ FileLen \in Nat \ {0} /\ BufSize \in Nat \ {0}
  /\ Letters \in Nat /\ Letters % 2 = 0
  /\ "none" \notin Copies /\ MaxSends \in Nat /\ QueueLen \in Nat

VARIABLES
  which,
  lab5, main, turn, lpc, file, offset, buf, c, flag, out,
  kind, name, parent, listable, searchable, argument, top, step, arg, ret, stack, cwd, counted, moves,
  astray,
  spc, socket, recv_len, queue, client, printed, intruders, robbed

O == INSTANCE OpenFiles WITH program <- lab5, pc <- lpc
D == INSTANCE DirWalk
G == INSTANCE DgramServer WITH pc <- spc, file <- socket

ASSUME TreesAssumption ==
  /\ IsFiniteSet(Files) /\ Root \in Files /\ "none" \notin Files /\ MaxOpen \in Nat /\ MaxMoves \in Nat
  /\ \A t \in Trees : D!IsTree(t)

ovars == <<lab5, main, turn, lpc, file, offset, buf, c, flag, out>>
dvars == <<kind, name, parent, listable, searchable, argument, top, step, arg, ret, stack, cwd,
           counted, moves, astray>>
gvars == <<spc, socket, recv_len, queue, client, printed, intruders, robbed>>

Start ==
  /\ which \in {"Fortune", "OpenFiles", "DirWalk", "DgramServer"}
  /\ Init /\ O!Init /\ D!Init /\ G!Init
  /\ which # "Fortune" => program = "main.c"
  /\ which # "OpenFiles" => lab5 = "1.c"
  /\ which # "DirWalk" =>
       /\ listable = {} /\ searchable = {} /\ cwd = Root
       /\ argument.names = CHOOSE names \in Paths : TRUE
       /\ [kind |-> kind, name |-> name, parent |-> parent] = CHOOSE t \in Trees : TRUE

Step == /\ \/ which = "Fortune"     /\ Next   /\ UNCHANGED <<ovars, dvars, gvars>>
           \/ which = "OpenFiles"   /\ O!Next /\ UNCHANGED <<vars, dvars, gvars>>
           \/ which = "DirWalk"     /\ D!Next /\ UNCHANGED <<vars, ovars, gvars>>
           \/ which = "DgramServer" /\ G!Next /\ UNCHANGED <<vars, ovars, dvars>>
        /\ which' = which

FilesSpec == Start /\ [][Step]_<<which, vars, ovars, dvars, gvars>>

(* Where every letter of a file that two streams read is: see OpenFiles.   *)
EveryLetterAccounted == O!EveryLetterAccounted

(* What two streams leave of a file they write: see OpenFiles.             *)
LastCloseWins == O!LastCloseWins

(* Every name means what dopath takes it for, and the count is right: see  *)
(* DirWalk.                                                                *)
WalkIsRight == D!WalkIsRight

(* One server behind the name, and words in order: see DgramServer.        *)
OneServer == G!OneServer

AnyProc == Permutations(Procs)
SomeMessages == {<<>>, <<"a">>, <<"b", "c">>, <<"d", "e", "f">>}

FourFiles == {"root", "f1", "f2", "f3"}
Of(r, a, b, d) == [root |-> r, f1 |-> a, f2 |-> b, f3 |-> d]
SomeTrees ==
  {t \in [kind   : {Of("dir", "dir", k, "reg") : k \in {"dir", "reg"}},
          name   : {Of("t", "t", "t", "u"), Of("t", "u", "v", "u")},
          parent : {Of("none", "root", "f1", p) : p \in {"root", "f1", "f2"}}
                   \cup {Of("none", "root", "root", "f1")}] :
     /\ t.parent.f3 = "f2" => t.kind.f2 = "dir"
     /\ \A f, g \in FourFiles : t.parent[f] = t.parent[g] /\ t.name[f] = t.name[g] => f = g}
SomePaths == {<<".">>, <<"..">>, <<"t">>, <<"u", "v">>, <<>>}
TwoCopies == {"copy1", "copy2"}
=============================================================================
