----------------------------- MODULE Semaphores -----------------------------
(***************************************************************************)
(* One semaphore of the System V set made by semCreate (semaphores.c), as  *)
(* the operations of that file change it.  Every semop is issued with      *)
(* SEM_UNDO, so the kernel keeps one adjustment per process and applies it *)
(* when the process ends, however it ends.                                 *)
(***************************************************************************)
EXTENDS Integers

(* Mutant: the semaphore starts at the number of semaphores in the set.    *)
SemCreated_Two(Procs) == [live |-> TRUE, val |-> 2, adj |-> [p \in Procs |-> 0]]

(* semCreate: the set exists, each of its semaphores is set to 1 (SETALL). *)
SemCreated(Procs) == [live |-> TRUE, val |-> 1, adj |-> [p \in Procs |-> 0]]

(* semop(-1) returns 0 only when the set exists and the value is positive. *)
SemAvailable(s) == s.live /\ s.val > 0

(* semop(-1) returns -1 with EIDRM or EINVAL once the set is removed, and  *)
(* with EINTR when a process blocked in it is stopped and continued.       *)
SemGone(s) == ~s.live
SemBlocks(s) == s.live /\ s.val = 0

SemTaken(s, p) ==
  [live |-> s.live, val |-> s.val - 1, adj |-> [s.adj EXCEPT ![p] = @ + 1]]

(* semop(+1); on a removed set it fails and changes nothing.               *)
SemGiven(s, p) ==
  IF s.live
  THEN [live |-> TRUE, val |-> s.val + 1, adj |-> [s.adj EXCEPT ![p] = @ - 1]]
  ELSE s

(* Mutant: semop without SEM_UNDO.                                         *)
SemExited_NoUndo(s, p) == s

(* The kernel's exit handling of SEM_UNDO: the value never drops below 0.  *)
SemExited(s, p) ==
  LET undone == s.val + s.adj[p]
  IN  IF s.live
      THEN [live |-> TRUE,
            val  |-> IF undone < 0 THEN 0 ELSE undone,
            adj  |-> [s.adj EXCEPT ![p] = 0]]
      ELSE s

(* semClose: IPC_RMID on the whole set.                                    *)
SemRemoved(s) == [live |-> FALSE, val |-> s.val, adj |-> s.adj]
=============================================================================
