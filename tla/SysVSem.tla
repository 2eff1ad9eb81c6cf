------------------------------ MODULE SysVSem ------------------------------
(***************************************************************************)
(* System V semaphore sets as the programs under 5-semestr/lab5 use them.  *)
(* The kernel is not part of the repository: what is modelled is the       *)
(* contract of semop(2) the programs rely on.  A set is a function from    *)
(* semaphore numbers to values, an operation a record [num, op], and one   *)
(* call takes a whole array of operations: they are performed in array     *)
(* order, each on the values its predecessors left, and either all of them *)
(* take effect in one step or the caller sleeps and none does.             *)
(***************************************************************************)
EXTENDS Integers, Sequences

(* struct sembuf with sem_flg = 0: no SEM_UNDO, no IPC_NOWAIT. *)
sembuf(num, op) == [num |-> num, op |-> op]

(* One operation on the tentative values r.val: a zero op waits for zero,  *)
(* any other op must not take the value below zero.                        *)
Perform(r, s) ==
  [ok  |-> r.ok /\ IF s.op = 0 THEN r.val[s.num] = 0 ELSE r.val[s.num] + s.op >= 0,
   val |-> [r.val EXCEPT ![s.num] = @ + s.op]]

(* The array of operations, from the values sem.  The call returns when    *)
(* ok holds and sleeps while it does not; val are the values it leaves.    *)
semop(sem, sops) ==
  LET run[i \in 0..Len(sops)] ==
        IF i = 0 THEN [ok |-> TRUE, val |-> sem] ELSE Perform(run[i - 1], sops[i])
  IN  run[Len(sops)]
=============================================================================
