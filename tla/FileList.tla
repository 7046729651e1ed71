------------------------------ MODULE FileList ------------------------------
(***************************************************************************)
(* The server's shared file list.  Every FILELIST command forks a worker   *)
(* that runs recvFileList and appends to one array in System V shared      *)
(* memory; every SEARCH forks a process that runs sendResult over the same *)
(* array and takes no semaphore.  Appends are guarded by SEM_FILELIST, but *)
(* a failing semWait is only logged and the append goes on.  The set is    *)
(* removed by freeap, which the main process runs when it is told to stop  *)
(* and the logger process when it ends, while workers may still be busy.   *)
(*                                                                         *)
(* addArrayItem is split at its accesses to the shared memory: the test of *)
(* the room that is left, the load of itemcount for the target address,    *)
(* the copy (a slot is Torn while it lasts), and itemcount++ as a load and *)
(* a store.  A worker or a search can be killed between any two of them.   *)
(***************************************************************************)
EXTENDS Semaphores, FiniteSets

CONSTANTS
  Writers,      \* the workers forked by filelistAction
  Readers,      \* the processes forked by searchAction
  Files,        \* bound: how many files one client lists
  MemSize,      \* memsize: bytes of the segment behind the array header
  ItemSize,     \* itemsize: sizeof(struct flEntry)
  Pattern,      \* Pattern[r]: the entries search r matches (strcasestr)
  Blank,        \* content of a slot never written: zero bytes
  Torn          \* content of a slot while memmove is writing it

Entry == Writers \X (1..Files)

ASSUME FileListAssumption ==
  /\ Files \in Nat
  /\ MemSize \in Nat
  /\ ItemSize \in Nat \ {0}
  /\ Pattern \in [Readers -> SUBSET Entry]
  /\ Blank \notin Entry
  /\ Torn \notin Entry

VARIABLES
  itemcount,    \* the shared struct array: number of items
  mem,          \* the shared struct array: the slots
  overrun,      \* an item was copied outside the segment
  sem,          \* SEM_FILELIST
  wpc,          \* where each worker is in recvFileList
  got,          \* how many files each worker has read off its connection
  idx,          \* the slot a worker copies to
  tmp,          \* the itemcount a worker has loaded for itemcount++
  fl2,          \* whether addArrayItem returned the array (not NULL)
  wret,         \* what the worker hands to _exit: 0 while it runs
  rpc,          \* where each search is in sendResult
  pos,          \* the iterator of each search
  sent,         \* the positions and entries each search has written
  rret,         \* what the search hands to _exit: 0 while it runs
  \* history, read by no action
  breached,     \* some semWait failed and its worker went on
  acked,        \* entries addArrayItem reported as added
  first,        \* itemcount when each search began
  whole         \* searches that ran to the end of the list

list   == <<itemcount, mem, overrun>>
worker == <<wpc, got, idx, tmp, fl2, wret>>
search == <<rpc, pos, sent, rret, first, whole>>
vars   == <<list, sem, worker, search, breached, acked>>

(* The slots that fit into the segment.                                    *)
Slots == {i \in 0..MemSize : ItemSize * (i + 1) <= MemSize}

(* Mutant: the test forgets the item that is about to be added.            *)
Full_OffByOne(n) == MemSize < ItemSize * n

(* addArrayItem's test: a shared array that is too small is never grown.   *)
Full(n) == MemSize <= ItemSize * (n + 1)

(* What is read at position i; past the segment it is anybody's bytes.     *)
At(i) == IF i \in Slots THEN mem[i] ELSE Torn

(* The entry worker w has in its local variable file.                      *)
File(w) == <<w, got[w]>>

Init ==
  /\ itemcount = 0
  /\ mem = [i \in Slots |-> Blank]
  /\ overrun = FALSE
  /\ sem = SemCreated(Writers)
  /\ wpc = [w \in Writers |-> "recv"]
  /\ got = [w \in Writers |-> 0]
  /\ idx = [w \in Writers |-> 0]
  /\ tmp = [w \in Writers |-> 0]
  /\ fl2 = [w \in Writers |-> FALSE]
  /\ wret = [w \in Writers |-> 0]
  /\ rpc = [r \in Readers |-> "start"]
  /\ pos = [r \in Readers |-> 0]
  /\ sent = [r \in Readers |-> {}]
  /\ rret = [r \in Readers |-> 0]
  /\ breached = FALSE
  /\ acked = {}
  /\ first = [r \in Readers |-> 0]
  /\ whole = {}
-----------------------------------------------------------------------------
(* recvFileList, up to the semaphore.                                      *)

(* A file name and a size that converts.                                   *)
GetFile(w) ==
  /\ wpc[w] = "recv" /\ got[w] < Files
  /\ got' = [got EXCEPT ![w] = @ + 1]
  /\ wpc' = [wpc EXCEPT ![w] = "wait"]
  /\ UNCHANGED <<list, sem, idx, tmp, fl2, wret, search, breached, acked>>

(* The size does not convert or is negative: log and continue.             *)
SkipFile(w) ==
  /\ wpc[w] = "recv" /\ got[w] < Files
  /\ got' = [got EXCEPT ![w] = @ + 1]
  /\ UNCHANGED <<list, sem, wpc, idx, tmp, fl2, wret, search, breached, acked>>

(* End of the stream (return 1, so -2) or a read error (return -1, so -3). *)
EndOfList(w) ==
  /\ wpc[w] = "recv"
  /\ \E ret \in {-2, -3} : wret' = [wret EXCEPT ![w] = ret]
  /\ wpc' = [wpc EXCEPT ![w] = "exit"]
  /\ UNCHANGED <<list, sem, got, idx, tmp, fl2, search, breached, acked>>

SemWait(w) ==
  /\ wpc[w] = "wait"
  /\ SemAvailable(sem)
  /\ sem' = SemTaken(sem, w)
  /\ wpc' = [wpc EXCEPT ![w] = "test"]
  /\ UNCHANGED <<list, got, idx, tmp, fl2, wret, search, breached, acked>>

(* semWait returned non-zero: recvFileList logs it and goes on.            *)
GoOnWithout(w) ==
  /\ wpc[w] = "wait"
  /\ breached' = TRUE
  /\ wpc' = [wpc EXCEPT ![w] = "test"]
  /\ UNCHANGED <<list, sem, got, idx, tmp, fl2, wret, search, acked>>

(* The semaphores are gone (EIDRM, EINVAL).                                *)
SemWaitRemoved(w) == SemGone(sem) /\ GoOnWithout(w)

(* The wait was interrupted (EINTR).                                       *)
SemWaitInterrupted(w) == SemBlocks(sem) /\ GoOnWithout(w)
-----------------------------------------------------------------------------
(* addArrayItem on the shared array.                                       *)

(* Mutant: a full list is cleared instead of refused.                      *)
Test_ClearWhenFull(w) ==
  /\ wpc[w] = "test"
  /\ itemcount' = IF Full(itemcount) THEN 0 ELSE itemcount
  /\ fl2' = [fl2 EXCEPT ![w] = TRUE]
  /\ wpc' = [wpc EXCEPT ![w] = "copy"]
  /\ UNCHANGED <<mem, overrun, sem, got, idx, tmp, wret, search, breached, acked>>

Test(w) ==
  /\ wpc[w] = "test"
  /\ fl2' = [fl2 EXCEPT ![w] = ~Full(itemcount)]
  /\ wpc' = [wpc EXCEPT ![w] = IF Full(itemcount) THEN "post" ELSE "copy"]
  /\ UNCHANGED <<list, sem, got, idx, tmp, wret, search, breached, acked>>

(* Mutant: itemcount++ comes before memmove.                               *)
CopyBegin_CountFirst(w) ==
  /\ wpc[w] = "copy"
  /\ itemcount' = itemcount + 1
  /\ idx' = [idx EXCEPT ![w] = itemcount]
  /\ overrun' = (overrun \/ itemcount \notin Slots)
  /\ mem' = [i \in Slots |-> IF i = itemcount THEN Torn ELSE mem[i]]
  /\ wpc' = [wpc EXCEPT ![w] = "copying"]
  /\ UNCHANGED <<sem, got, tmp, fl2, wret, search, breached, acked>>

CopyBegin(w) ==
  /\ wpc[w] = "copy"
  /\ idx' = [idx EXCEPT ![w] = itemcount]
  /\ overrun' = (overrun \/ itemcount \notin Slots)
  /\ mem' = [i \in Slots |-> IF i = itemcount THEN Torn ELSE mem[i]]
  /\ wpc' = [wpc EXCEPT ![w] = "copying"]
  /\ UNCHANGED <<itemcount, sem, got, tmp, fl2, wret, search, breached, acked>>

(* Mutant: the semaphore is given back before itemcount++.                 *)
CopyEnd_EarlySignal(w) ==
  /\ wpc[w] = "copying"
  /\ mem' = [i \in Slots |-> IF i = idx[w] THEN File(w) ELSE mem[i]]
  /\ sem' = SemGiven(sem, w)
  /\ wpc' = [wpc EXCEPT ![w] = "load"]
  /\ UNCHANGED <<itemcount, overrun, got, idx, tmp, fl2, wret, search,
                 breached, acked>>

CopyEnd(w) ==
  /\ wpc[w] = "copying"
  /\ mem' = [i \in Slots |-> IF i = idx[w] THEN File(w) ELSE mem[i]]
  /\ wpc' = [wpc EXCEPT ![w] = "load"]
  /\ UNCHANGED <<itemcount, overrun, sem, got, idx, tmp, fl2, wret, search,
                 breached, acked>>

CountLoad(w) ==
  /\ wpc[w] = "load"
  /\ tmp' = [tmp EXCEPT ![w] = itemcount]
  /\ wpc' = [wpc EXCEPT ![w] = "store"]
  /\ UNCHANGED <<list, sem, got, idx, fl2, wret, search, breached, acked>>

CountStore(w) ==
  /\ wpc[w] = "store"
  /\ itemcount' = tmp[w] + 1
  /\ acked' = acked \cup {File(w)}
  /\ wpc' = [wpc EXCEPT ![w] = "post"]
  /\ UNCHANGED <<mem, overrun, sem, got, idx, tmp, fl2, wret, search, breached>>
-----------------------------------------------------------------------------
(* recvFileList after addArrayItem, and the ways a worker ends.            *)

(* A NULL from addArrayItem ends the transfer, after the semSignal.        *)
SemSignal(w) ==
  /\ wpc[w] = "post"
  /\ sem' = SemGiven(sem, w)
  /\ IF fl2[w]
     THEN /\ wpc' = [wpc EXCEPT ![w] = "recv"]
          /\ UNCHANGED wret
     ELSE /\ wpc' = [wpc EXCEPT ![w] = "exit"]
          /\ wret' = [wret EXCEPT ![w] = -3]
  /\ UNCHANGED <<list, got, idx, tmp, fl2, search, breached, acked>>

Exit(w) ==
  /\ wpc[w] = "exit"
  /\ sem' = SemExited(sem, w)
  /\ wpc' = [wpc EXCEPT ![w] = "gone"]
  /\ UNCHANGED <<list, got, idx, tmp, fl2, wret, search, breached, acked>>

(* A signal that is not blocked, or a fault, ends the worker anywhere.     *)
Crash(w) ==
  /\ wpc[w] \notin {"exit", "gone"}
  /\ sem' = SemExited(sem, w)
  /\ wpc' = [wpc EXCEPT ![w] = "gone"]
  /\ UNCHANGED <<list, got, idx, tmp, fl2, wret, search, breached, acked>>

(* freeap in the main process or in the logger process: semClose.  freesap *)
(* only marks the segment: it lives on while a worker is attached to it.   *)
RemoveSemaphores ==
  /\ sem.live
  /\ sem' = SemRemoved(sem)
  /\ UNCHANGED <<list, worker, search, breached, acked>>
-----------------------------------------------------------------------------
(* sendResult: iterate, compare the name, write the entry.                 *)

Start(r) ==
  /\ rpc[r] = "start"
  /\ first' = [first EXCEPT ![r] = itemcount]
  /\ rpc' = [rpc EXCEPT ![r] = "next"]
  /\ UNCHANGED <<list, sem, worker, pos, sent, rret, whole, breached, acked>>

(* Mutant: the last item is never reached.                                 *)
Iterate_OffByOne(r) ==
  /\ rpc[r] = "next"
  /\ IF pos[r] + 1 < itemcount
     THEN /\ rpc' = [rpc EXCEPT ![r] = "match"]
          /\ UNCHANGED <<rret, whole>>
     ELSE /\ rpc' = [rpc EXCEPT ![r] = "gone"]
          /\ rret' = [rret EXCEPT ![r] = -2]
          /\ whole' = whole \cup {r}
  /\ UNCHANGED <<list, sem, worker, pos, sent, first, breached, acked>>

(* getArrayItem compares the iterator with itemcount, unprotected.         *)
Iterate(r) ==
  /\ rpc[r] = "next"
  /\ IF pos[r] < itemcount
     THEN /\ rpc' = [rpc EXCEPT ![r] = "match"]
          /\ UNCHANGED <<rret, whole>>
     ELSE /\ rpc' = [rpc EXCEPT ![r] = "gone"]
          /\ rret' = [rret EXCEPT ![r] = -2]
          /\ whole' = whole \cup {r}
  /\ UNCHANGED <<list, sem, worker, pos, sent, first, breached, acked>>

(* The name of a torn entry may match or not.                              *)
Match(r) ==
  /\ rpc[r] = "match"
  /\ \/ /\ At(pos[r]) \in Pattern[r] \cup {Torn}
        /\ rpc' = [rpc EXCEPT ![r] = "send"]
        /\ UNCHANGED pos
     \/ /\ At(pos[r]) \notin Pattern[r]
        /\ rpc' = [rpc EXCEPT ![r] = "next"]
        /\ pos' = [pos EXCEPT ![r] = @ + 1]
  /\ UNCHANGED <<list, sem, worker, sent, rret, first, whole, breached, acked>>

Send(r) ==
  /\ rpc[r] = "send"
  /\ sent' = [sent EXCEPT ![r] = @ \cup {<<pos[r], At(pos[r])>>}]
  /\ pos' = [pos EXCEPT ![r] = @ + 1]
  /\ rpc' = [rpc EXCEPT ![r] = "next"]
  /\ UNCHANGED <<list, sem, worker, rret, first, whole, breached, acked>>

(* writef fails: sendResult returns -3, which searchAction turns into -2.  *)
SendFails(r) ==
  /\ rpc[r] = "send"
  /\ rpc' = [rpc EXCEPT ![r] = "gone"]
  /\ rret' = [rret EXCEPT ![r] = -2]
  /\ UNCHANGED <<list, sem, worker, pos, sent, first, whole, breached, acked>>
-----------------------------------------------------------------------------
Receive(w) == GetFile(w) \/ SkipFile(w) \/ EndOfList(w)
Enter(w)   == SemWait(w) \/ SemWaitRemoved(w) \/ SemWaitInterrupted(w)
AddItem(w) == Test(w) \/ CopyBegin(w) \/ CopyEnd(w) \/ CountLoad(w) \/ CountStore(w)
Leave(w)   == SemSignal(w) \/ Exit(w)
Scan(r)    == Start(r) \/ Iterate(r) \/ Match(r) \/ Send(r) \/ SendFails(r)

Next ==
  \/ \E w \in Writers : Receive(w) \/ Enter(w) \/ AddItem(w) \/ Leave(w) \/ Crash(w)
  \/ \E r \in Readers : Scan(r)
  \/ RemoveSemaphores

Spec == Init /\ [][Next]_vars

(* A runnable process is scheduled, semop wakes a waiter when the value    *)
(* rises or the set goes away, and a client sends its list to the end.     *)
(* Nothing forces a crash, an interruption or the removal of the set.      *)
Fairness ==
  /\ \A w \in Writers : WF_vars(Receive(w)) /\ WF_vars(SemWait(w))
                        /\ WF_vars(SemWaitRemoved(w))
                        /\ WF_vars(AddItem(w)) /\ WF_vars(Leave(w))
  /\ \A r \in Readers : WF_vars(Scan(r))

FairSpec == Spec /\ Fairness
-----------------------------------------------------------------------------
WriterSteps ==
  {"recv", "wait", "test", "copy", "copying", "load", "store", "post", "exit", "gone"}
ReaderSteps == {"start", "next", "match", "send", "gone"}

TypeOK ==
  /\ itemcount \in Nat
  /\ mem \in [Slots -> Entry \cup {Blank, Torn}]
  /\ overrun \in BOOLEAN
  /\ sem \in [live : BOOLEAN, val : Nat, adj : [Writers -> Int]]
  /\ wpc \in [Writers -> WriterSteps]
  /\ got \in [Writers -> 0..Files]
  /\ idx \in [Writers -> Nat]
  /\ tmp \in [Writers -> Nat]
  /\ fl2 \in [Writers -> BOOLEAN]
  /\ wret \in [Writers -> {0, -2, -3}]
  /\ rpc \in [Readers -> ReaderSteps]
  /\ pos \in [Readers -> Nat]
  /\ sent \in [Readers -> SUBSET (Nat \X (Entry \cup {Blank, Torn}))]
  /\ rret \in [Readers -> {0, -2}]
  /\ breached \in BOOLEAN
  /\ acked \in SUBSET Entry
  /\ first \in [Readers -> Nat]
  /\ whole \in SUBSET Readers

(* The critical section: between semWait and semSignal.                    *)
Critical(w) == wpc[w] \in {"test", "copy", "copying", "load", "store", "post"}

Exclusive == \A v, w \in Writers : Critical(v) /\ Critical(w) => v = w

(* At most one worker is inside addArrayItem, however the workers are      *)
(* interleaved or killed and whenever the semaphores are removed, as long  *)
(* as no failing semWait was ignored (recvFileList, connection.c:245).     *)
MutualExclusion == ~breached => Exclusive

(* No item is ever copied outside the shared segment: the room that the    *)
(* test of addArrayItem saw is still there when memmove starts.            *)
WithinSegment == ~breached => ~overrun

(* Every slot below itemcount holds one whole entry, so a search, which    *)
(* takes no semaphore, never reads a half-copied one: the copy comes       *)
(* before itemcount++ and a worker killed in the copy publishes nothing.   *)
PublishedWhole ==
  ~breached => \A i \in 0..(itemcount - 1) : At(i) \in Entry

(* An entry that addArrayItem reported as added is in the list, once, and  *)
(* nothing else is: no update is lost and no slot is taken twice.          *)
NothingLost ==
  ~breached =>
    /\ \A e \in acked : \E i \in Slots : i < itemcount /\ mem[i] = e
    /\ \A i \in Slots : i < itemcount => mem[i] \in acked
    /\ \A i, j \in Slots : i < itemcount /\ j < itemcount /\ mem[i] = mem[j] => i = j

(* A search that reached the end has sent exactly the matching entries of  *)
(* an initial part of the list, at least as long as the list was when the  *)
(* search began.                                                           *)
SearchAnswer ==
  ~breached =>
    \A r \in whole :
      /\ first[r] <= pos[r] /\ pos[r] <= itemcount
      /\ sent[r] = {<<i, mem[i]>> : i \in {j \in Slots : j < pos[r] /\ mem[j] \in Pattern[r]}}

GrowsOnly ==
  ~breached' => /\ itemcount <= itemcount'
                /\ \A i \in Slots : i < itemcount => mem'[i] = mem[i]

(* The list only grows and a published entry never changes: what a search  *)
(* has sent to its client stays true.                                      *)
AppendOnly == [][GrowsOnly]_vars

(* Every worker ends, also when another one is killed while it holds the   *)
(* semaphore or the semaphores are removed under it (SEM_UNDO, EIDRM), and *)
(* a search ends although the list may grow while it runs.                 *)
AllEnd ==
  /\ \A w \in Writers : <>(wpc[w] = "gone")
  /\ \A r \in Readers : <>(rpc[r] = "gone")

(* The list as a log, and what has come of each search.                    *)
ListLog == [i \in 1..itemcount |-> At(i - 1)]

Answer ==
  [r \in Readers |->
     [ended |-> rpc[r] = "gone",
      whole |-> r \in whole,
      found |-> IF rpc[r] = "gone" THEN {x[2] : x \in sent[r]} ELSE {}]]

Abstract ==
  INSTANCE AppendLog WITH log <- ListLog, answer <- Answer, trusted <- ~breached

(* The list behaves as the append-only log of module AppendLog: a search,  *)
(* which takes many steps, answers as if it happened at its end.           *)
ImplementsAppendLog == Abstract!Spec
=============================================================================
