----------------------------- MODULE AppendLog ------------------------------
(***************************************************************************)
(* What the server promises about its file list: one log that only grows,  *)
(* where an entry is visible whole or not at all, and searches that return *)
(* all matching entries of the log as it is at the moment they end.  The   *)
(* promise holds for as long as the log can be trusted, that is until a    *)
(* worker has entered the critical section without its semaphore.          *)
(***************************************************************************)
EXTENDS Sequences, Functions

CONSTANTS
  Entry,        \* what a list can hold
  Readers,      \* the searches
  Pattern       \* Pattern[r]: the entries whose file name search r matches

VARIABLES
  log,          \* the published entries, oldest first
  answer,       \* answer[r]: what search r has returned
  trusted       \* no worker was ever let in without the semaphore

vars == <<log, answer, trusted>>

Pending == [ended |-> FALSE, whole |-> FALSE, found |-> {}]

Init ==
  /\ log = <<>>
  /\ answer = [r \in Readers |-> Pending]
  /\ trusted = TRUE

(* One whole entry becomes visible, once.                                  *)
Publish(e) ==
  /\ trusted
  /\ e \notin Range(log)
  /\ log' = Append(log, e)
  /\ UNCHANGED <<answer, trusted>>

(* A search ends: atomic, although it took many steps.                     *)
Search(r) ==
  /\ trusted
  /\ answer[r] = Pending
  /\ answer' = [answer EXCEPT ![r] =
        [ended |-> TRUE, whole |-> TRUE, found |-> Range(log) \cap Pattern[r]]]
  /\ UNCHANGED <<log, trusted>>

(* The peer went away: part of the answer was sent, nothing made up.       *)
CutOff(r) ==
  /\ trusted
  /\ answer[r] = Pending
  /\ \E part \in SUBSET (Range(log) \cap Pattern[r]) :
       answer' = [answer EXCEPT ![r] =
                    [ended |-> TRUE, whole |-> FALSE, found |-> part]]
  /\ UNCHANGED <<log, trusted>>

Distrust ==
  /\ trusted
  /\ trusted' = FALSE
  /\ UNCHANGED <<log, answer>>

(* Nothing is promised any more.                                           *)
Untrusted ==
  /\ ~trusted
  /\ ~trusted'

Next ==
  \/ \E e \in Entry : Publish(e)
  \/ \E r \in Readers : Search(r) \/ CutOff(r)
  \/ Distrust
  \/ Untrusted

Spec == Init /\ [][Next]_vars
=============================================================================
