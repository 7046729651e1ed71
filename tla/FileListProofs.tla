--------------------------- MODULE FileListProofs ---------------------------
(***************************************************************************)
(* Proofs about FileList, for any number of workers, searches and files    *)
(* and any size of the segment and of its items.                           *)
(***************************************************************************)
EXTENDS FileListInv, Sequences, TLAPS

(* Room for one more item means that the item's slot is in the segment.    *)
LEMMA RoomIsSlot ==
  ASSUME NEW n \in Nat, ~Full(n)
  PROVE  n \in Slots
<1>1. ItemSize * (n + 1) \in Nat /\ ItemSize * (n + 1) >= n + 1
  BY FileListAssumption
<1> QED
  BY <1>1, FileListAssumption DEF Full, Slots

(* Slots is closed downwards.                                              *)
LEMMA SlotsBelow ==
  ASSUME NEW n \in Slots, NEW i \in 0..n
  PROVE  i \in Slots
<1>1. ItemSize * (i + 1) <= ItemSize * (n + 1)
  BY FileListAssumption DEF Slots
<1> QED
  BY <1>1, FileListAssumption DEF Slots

-----------------------------------------------------------------------------
(* Types.  Received rides along: without it a worker's file could be the   *)
(* zeroth of its client, which is no entry.                                *)

TypeInv == TypeOK /\ Received

LEMMA TypeInit == Init => TypeInv
<1> SUFFICES ASSUME Init PROVE TypeInv
  OBVIOUS
<1>1. sem \in [live : BOOLEAN, val : Nat, adj : [Writers -> Int]]
  BY DEF Init, SemCreated
<1>2. fl2 \in [Writers -> BOOLEAN] /\ overrun \in BOOLEAN /\ breached \in BOOLEAN
  BY DEF Init
<1>3. sent \in [Readers -> SUBSET (Nat \X (Entry \cup {Blank, Torn}))]
  BY DEF Init
<1> QED
  BY <1>1, <1>2, <1>3, FileListAssumption
  DEF Init, TypeInv, TypeOK, Received, HasFile, WriterSteps, ReaderSteps

LEMMA FileIsEntry ==
  ASSUME TypeInv, NEW w \in Writers, HasFile(w)
  PROVE  File(w) \in Entry
  BY FileListAssumption DEF TypeInv, TypeOK, Received, File, Entry

LEMMA TypeNext == TypeInv /\ [Next]_vars => TypeInv'
<1> SUFFICES ASSUME TypeInv, [Next]_vars PROVE TypeInv'
  OBVIOUS
<1> USE FileListAssumption
<1>1. ASSUME NEW w \in Writers, Receive(w) PROVE TypeInv'
  BY <1>1 DEF Receive, GetFile, SkipFile, EndOfList, TypeInv, TypeOK, Received,
              HasFile, WriterSteps, list, search
<1>2. ASSUME NEW w \in Writers, Enter(w) PROVE TypeInv'
  <2>1. sem' \in [live : BOOLEAN, val : Nat, adj : [Writers -> Int]]
    <3>1. CASE SemWait(w)
      BY <3>1 DEF SemWait, SemAvailable, SemTaken, TypeInv, TypeOK
    <3>2. CASE GoOnWithout(w)
      BY <3>2 DEF GoOnWithout, TypeInv, TypeOK
    <3> QED
      BY <1>2, <3>1, <3>2 DEF Enter, SemWaitRemoved, SemWaitInterrupted
  <2> QED
    BY <1>2, <2>1, ZenonT(40) DEF Enter, SemWait, SemWaitRemoved, SemWaitInterrupted, GoOnWithout,
                      TypeInv, TypeOK, Received, HasFile, WriterSteps, list, search
<1>3. ASSUME NEW w \in Writers, Test(w) PROVE TypeInv'
  BY <1>3 DEF Test, TypeInv, TypeOK, Received, HasFile, WriterSteps, list, search
<1>4. ASSUME NEW w \in Writers, CopyBegin(w) PROVE TypeInv'
  BY <1>4 DEF CopyBegin, TypeInv, TypeOK, Received, HasFile, WriterSteps, search
<1>5. ASSUME NEW w \in Writers, CopyEnd(w) PROVE TypeInv'
  <2>1. File(w) \in Entry
    BY <1>5, FileIsEntry DEF CopyEnd, HasFile
  <2> QED
    BY <1>5, <2>1 DEF CopyEnd, TypeInv, TypeOK, Received, HasFile, WriterSteps, search
<1>6. ASSUME NEW w \in Writers, CountLoad(w) PROVE TypeInv'
  BY <1>6 DEF CountLoad, TypeInv, TypeOK, Received, HasFile, WriterSteps, list, search
<1>7. ASSUME NEW w \in Writers, CountStore(w) PROVE TypeInv'
  <2>1. File(w) \in Entry
    BY <1>7, FileIsEntry DEF CountStore, HasFile
  <2> QED
    BY <1>7, <2>1 DEF CountStore, TypeInv, TypeOK, Received, HasFile, WriterSteps, search
<1>8. ASSUME NEW w \in Writers, Leave(w) \/ Crash(w) PROVE TypeInv'
  <2>1. sem' = SemGiven(sem, w) \/ sem' = SemExited(sem, w)
    BY <1>8 DEF Leave, SemSignal, Exit, Crash
  <2>2. sem' \in [live : BOOLEAN, val : Nat, adj : [Writers -> Int]]
    <3>1. CASE ~sem.live
      BY <3>1, <2>1 DEF SemGiven, SemExited, TypeInv, TypeOK
    <3>2. CASE sem.live /\ sem' = SemGiven(sem, w)
      BY <3>2 DEF SemGiven, TypeInv, TypeOK
    <3>3. CASE sem.live /\ sem' = SemExited(sem, w)
      <4> DEFINE v == IF sem.val + sem.adj[w] < 0 THEN 0 ELSE sem.val + sem.adj[w]
      <4>1. v \in Nat
        BY DEF TypeInv, TypeOK
      <4> QED
        BY <3>3, <4>1 DEF SemExited, TypeInv, TypeOK
    <3> QED
      BY <2>1, <3>1, <3>2, <3>3
  <2> QED
    BY <1>8, <2>2 DEF Leave, SemSignal, Exit, Crash, TypeInv, TypeOK,
                      Received, HasFile, WriterSteps, list, search
<1>9. ASSUME NEW r \in Readers, Scan(r) PROVE TypeInv'
  <2>1. At(pos[r]) \in Entry \cup {Blank, Torn}
    BY DEF At, TypeInv, TypeOK
  <2> QED
    BY <1>9, <2>1 DEF Scan, Start, Iterate, Match, Send, SendFails, TypeInv, TypeOK,
                      Received, HasFile, ReaderSteps, list, worker
<1>10. ASSUME RemoveSemaphores PROVE TypeInv'
  BY <1>10 DEF RemoveSemaphores, SemRemoved, TypeInv, TypeOK, Received, HasFile,
               list, worker, search
<1>11. ASSUME UNCHANGED vars PROVE TypeInv'
  BY <1>11 DEF vars, TypeInv, TypeOK, Received, HasFile, list, worker, search
<1> QED
  BY <1>1, <1>2, <1>3, <1>4, <1>5, <1>6, <1>7, <1>8, <1>9, <1>10, <1>11 DEF Next, AddItem

(* In every reachable state the variables have their types.                *)
THEOREM TypeCorrect == Spec => []TypeOK
<1>1. TypeInv => TypeOK
  BY DEF TypeInv
<1> QED
  BY TypeInit, TypeNext, <1>1, PTL DEF Spec
-----------------------------------------------------------------------------
(* The critical section and what it protects.                              *)

(* What a search has sent stays right while the list only grows.           *)
LEMMA SearchKept ==
  ASSUME TypeOK, TypeOK', ListInv, SearchInv, UNCHANGED search, itemcount <= itemcount',
         \A i \in Slots : i < itemcount => mem'[i] = mem[i]
  PROVE  SearchInv'
<1> SUFFICES ASSUME NEW r \in Readers
             PROVE  /\ pos'[r] <= itemcount'
                    /\ rpc'[r] \in {"match", "send"} => pos'[r] < itemcount'
                    /\ rpc'[r] = "send" => mem'[pos'[r]] \in Pattern[r]
                    /\ sent'[r] = Matches(r, pos[r])'
                    /\ first'[r] <= itemcount'
                    /\ r \in whole' => rpc'[r] = "gone" /\ first'[r] <= pos'[r]
  BY DEF SearchInv, search
<1>1. Matches(r, pos[r])' = Matches(r, pos[r])
  BY DEF Matches, search, SearchInv, TypeOK, Slots
<1>2. ASSUME rpc[r] = "send" PROVE mem'[pos[r]] \in Pattern[r]
  <2>1. pos[r] \in Slots /\ pos[r] < itemcount
    BY <1>2 DEF SearchInv, ListInv, TypeOK
  <2> QED
    BY <1>2, <2>1 DEF SearchInv
<1> QED
  BY <1>1, <1>2 DEF SearchInv, search, TypeOK

LEMMA GuardedInit == Init => Guarded
<1> SUFFICES ASSUME Init PROVE Guarded
  OBVIOUS
<1> USE FileListAssumption
<1>1. Exclusive /\ SemInv /\ WorkerInv
  <2>1. \A w \in Writers : ~Critical(w)
    BY DEF Init, Critical
  <2>2. SemInv
    BY <2>1 DEF Init, SemInv, SemCreated
  <2> QED
    BY <2>1, <2>2 DEF Init, Exclusive, WorkerInv, HasRoom, HasSlot, IsCopied
<1>2. FreshInv /\ ListInv
  <2>1. itemcount = 0 /\ acked = {} /\ ~overrun /\ 0..(itemcount - 1) = {}
    BY DEF Init
  <2>2. \A i \in Slots : ~(i < itemcount)
    BY <2>1 DEF Slots
  <2> QED
    BY <2>1, <2>2 DEF FreshInv, ListInv
<1>3. SearchInv
  <2>1. \A r \in Readers : Matches(r, 0) = {}
    BY DEF Matches, Slots
  <2> QED
    BY <2>1 DEF Init, SearchInv
<1> QED
  BY <1>1, <1>2, <1>3 DEF Guarded

(* A step that neither enters nor leaves the critical section.             *)
LEMMA SemKept ==
  ASSUME Exclusive, SemInv, UNCHANGED sem,
         \A v \in Writers : Critical(v)' <=> Critical(v)
  PROVE  Exclusive' /\ SemInv'
  BY DEF Exclusive, SemInv

LEMMA ReceiveGuarded ==
  ASSUME IInv, TypeOK', Guarded, NEW w \in Writers, Receive(w)
  PROVE  Guarded'
<1> USE DEF IInv, Guarded, Receive, GetFile, SkipFile, EndOfList
<1>1. \A v \in Writers : Critical(v)' <=> Critical(v)
  BY DEF Critical, TypeOK
<1>2. Exclusive' /\ SemInv'
  BY <1>1, SemKept
<1>3. WorkerInv'
  BY DEF WorkerInv, HasRoom, HasSlot, IsCopied, Full, File, list, TypeOK
<1>4. FreshInv'
  BY DEF FreshInv, HasFile, TypeOK
<1>5. ListInv'
  BY DEF ListInv, list
<1>6. SearchInv'
  BY <1>5, SearchKept DEF list, TypeOK
<1> QED
  BY <1>2, <1>3, <1>4, <1>5, <1>6

LEMMA SemWaitGuarded ==
  ASSUME IInv, TypeOK', Guarded, NEW w \in Writers, SemWait(w)
  PROVE  Guarded'
<1> USE DEF IInv, Guarded, SemWait
<1>1. sem.live /\ \A v \in Writers : ~Critical(v)
  BY DEF SemAvailable, SemInv, TypeOK
<1>2. \A v \in Writers : Critical(v)' <=> v = w
  BY <1>1 DEF Critical, TypeOK
<1>3. Exclusive'
  BY <1>2 DEF Exclusive
<1>4. SemInv'
  BY <1>1, <1>2 DEF SemInv, SemTaken, SemAvailable, TypeOK
<1>5. WorkerInv'
  BY DEF WorkerInv, HasRoom, HasSlot, IsCopied, Full, File, list, TypeOK
<1>6. FreshInv'
  BY DEF FreshInv, HasFile, TypeOK
<1>7. ListInv'
  BY DEF ListInv, list
<1>8. SearchInv'
  BY <1>7, SearchKept DEF list, TypeOK
<1> QED
  BY <1>3, <1>4, <1>5, <1>6, <1>7, <1>8

LEMMA TestGuarded ==
  ASSUME IInv, TypeOK', Guarded, NEW w \in Writers, Test(w)
  PROVE  Guarded'
<1> USE DEF IInv, Guarded, Test
<1>1. \A v \in Writers : Critical(v)' <=> Critical(v)
  BY DEF Critical, TypeOK
<1>2. Exclusive' /\ SemInv'
  BY <1>1, SemKept
<1>3. WorkerInv'
  BY DEF WorkerInv, HasRoom, HasSlot, IsCopied, Full, File, list, TypeOK
<1>4. FreshInv'
  BY DEF FreshInv, HasFile, TypeOK
<1>5. ListInv'
  BY DEF ListInv, list
<1>6. SearchInv'
  BY <1>5, SearchKept DEF list, TypeOK
<1> QED
  BY <1>2, <1>3, <1>4, <1>5, <1>6

LEMMA CopyBeginGuarded ==
  ASSUME IInv, TypeOK', Guarded, NEW w \in Writers, CopyBegin(w)
  PROVE  Guarded'
<1> USE DEF IInv, Guarded, CopyBegin
<1>1. \A v \in Writers : Critical(v)' <=> Critical(v)
  BY DEF Critical, TypeOK
<1>2. Exclusive' /\ SemInv'
  BY <1>1, SemKept
<1>3. \A v \in Writers : Critical(v) => v = w
  BY DEF Exclusive, Critical
<1>4. itemcount \in Slots
  <2>1. ~Full(itemcount)
    BY DEF WorkerInv, HasRoom
  <2> QED
    BY <2>1, RoomIsSlot DEF TypeOK
<1>5. WorkerInv'
  BY <1>3 DEF WorkerInv, Critical, HasRoom, HasSlot, IsCopied, Full, File, TypeOK
<1>6. FreshInv'
  BY DEF FreshInv, HasFile, TypeOK
<1>7. \A i \in Slots : i < itemcount => mem'[i] = mem[i]
  BY DEF Slots, TypeOK
<1>8. ListInv'
  BY <1>4, <1>7 DEF ListInv, TypeOK
<1>9. SearchInv'
  BY <1>7, SearchKept DEF TypeOK
<1> QED
  BY <1>2, <1>5, <1>6, <1>8, <1>9

LEMMA CopyEndGuarded ==
  ASSUME IInv, TypeOK', Guarded, NEW w \in Writers, CopyEnd(w)
  PROVE  Guarded'
<1> USE DEF IInv, Guarded, CopyEnd
<1>1. \A v \in Writers : Critical(v)' <=> Critical(v)
  BY DEF Critical, TypeOK
<1>2. Exclusive' /\ SemInv'
  BY <1>1, SemKept
<1>3. \A v \in Writers : Critical(v) => v = w
  BY DEF Exclusive, Critical
<1>4. idx[w] = itemcount /\ ~Full(itemcount)
  BY DEF WorkerInv, HasSlot, HasRoom
<1>5. itemcount \in Slots
  BY <1>4, RoomIsSlot DEF TypeOK
<1>6. WorkerInv'
  BY <1>3, <1>4, <1>5 DEF WorkerInv, Critical, HasRoom, HasSlot, IsCopied, Full, File, TypeOK
<1>7. FreshInv'
  BY DEF FreshInv, HasFile, TypeOK
<1>8. \A i \in Slots : i < itemcount => mem'[i] = mem[i]
  BY <1>4 DEF Slots, TypeOK
<1>9. ListInv'
  BY <1>8 DEF ListInv, TypeOK
<1>10. SearchInv'
  BY <1>8, SearchKept DEF TypeOK
<1> QED
  BY <1>2, <1>6, <1>7, <1>9, <1>10

LEMMA CountLoadGuarded ==
  ASSUME IInv, TypeOK', Guarded, NEW w \in Writers, CountLoad(w)
  PROVE  Guarded'
<1> USE DEF IInv, Guarded, CountLoad
<1>1. \A v \in Writers : Critical(v)' <=> Critical(v)
  BY DEF Critical, TypeOK
<1>2. Exclusive' /\ SemInv'
  BY <1>1, SemKept
<1>3. WorkerInv'
  BY DEF WorkerInv, HasRoom, HasSlot, IsCopied, Full, File, list, TypeOK
<1>4. FreshInv'
  BY DEF FreshInv, HasFile, TypeOK
<1>5. ListInv'
  BY DEF ListInv, list
<1>6. SearchInv'
  BY <1>5, SearchKept DEF list, TypeOK
<1> QED
  BY <1>2, <1>3, <1>4, <1>5, <1>6

(* The entry becomes visible: it was in its slot before, and nowhere else. *)
LEMMA CountStoreGuarded ==
  ASSUME IInv, TypeOK', Guarded, NEW w \in Writers, CountStore(w)
  PROVE  Guarded'
<1> USE DEF IInv, Guarded, CountStore
<1>1. \A v \in Writers : Critical(v)' <=> Critical(v)
  BY DEF Critical, TypeOK
<1>2. Exclusive' /\ SemInv'
  BY <1>1, SemKept
<1>3. \A v \in Writers : Critical(v) => v = w
  BY DEF Exclusive, Critical
<1>4. tmp[w] = itemcount /\ ~Full(itemcount) /\ mem[itemcount] = File(w)
  BY DEF WorkerInv, HasRoom, IsCopied
<1>5. itemcount \in Slots
  BY <1>4, RoomIsSlot DEF TypeOK
<1>6. File(w) \notin acked
  <2>1. HasFile(w) /\ got[w] \in 1..Files
    BY FileListAssumption DEF HasFile, Received, TypeOK
  <2> QED
    BY <2>1 DEF FreshInv, File
<1>7. itemcount' = itemcount + 1 /\ itemcount \in Nat
  BY <1>4 DEF TypeOK
<1>8. WorkerInv'
  BY <1>3 DEF WorkerInv, Critical, HasRoom, HasSlot, IsCopied, TypeOK
<1>9. FreshInv'
  BY FileListAssumption DEF FreshInv, HasFile, File, TypeOK
<1>10. ListInv'
  <2>1. \A i \in 0..(itemcount' - 1) : i \in Slots /\ mem'[i] \in acked'
    BY <1>4, <1>5, <1>7 DEF ListInv
  <2>2. \A e \in acked' : \E i \in Slots : i < itemcount' /\ mem'[i] = e
    BY <1>4, <1>5, <1>7 DEF ListInv, Slots
  <2>3. ASSUME NEW i \in Slots, NEW j \in Slots, i < itemcount', j < itemcount',
               mem'[i] = mem'[j]
        PROVE  i = j
    <3>1. \A k \in Slots : k < itemcount => mem[k] # File(w)
      BY <1>6, <1>7 DEF ListInv, Slots
    <3> QED
      BY <1>4, <1>7, <2>3, <3>1 DEF ListInv, Slots
  <2> QED
    BY <2>1, <2>2, <2>3 DEF ListInv
<1>11. SearchInv'
  BY <1>7, SearchKept DEF TypeOK
<1> QED
  BY <1>2, <1>8, <1>9, <1>10, <1>11

(* The semaphore is free again, by hand or by the kernel's undo.           *)
LEMMA LeaveGuarded ==
  ASSUME IInv, TypeOK', Guarded, NEW w \in Writers, Leave(w) \/ Crash(w)
  PROVE  Guarded'
<1> USE DEF IInv, Guarded, Leave, SemSignal, Exit, Crash
<1>1. \A v \in Writers : Critical(v)' <=> Critical(v) /\ v # w
  BY DEF Critical, TypeOK
<1>2. Exclusive'
  BY <1>1 DEF Exclusive
<1>3. SemInv'
  <2>1. CASE ~sem.live
    BY <2>1 DEF SemInv, SemGiven, SemExited
  <2>2. CASE sem.live /\ Critical(w)
    <3>1. \A v \in Writers : ~Critical(v)'
      BY <1>1, <2>2 DEF Exclusive
    <3>2. sem.val = 0 /\ sem.adj[w] = 1 /\ \A v \in Writers : v # w => sem.adj[v] = 0
      BY <2>2 DEF SemInv, Exclusive
    <3>3. sem'.live /\ sem'.val = 1 /\ \A v \in Writers : sem'.adj[v] = 0
      BY <2>2, <3>2, SMTT(20) DEF SemGiven, SemExited, TypeOK
    <3> QED
      BY <3>1, <3>3 DEF SemInv
  <2>3. CASE sem.live /\ ~Critical(w)
    <3>1. sem.adj[w] = 0 /\ sem' = SemExited(sem, w)
      BY <2>3 DEF SemInv, Critical
    <3>2. sem'.live /\ sem'.val = sem.val /\ \A v \in Writers : sem'.adj[v] = sem.adj[v]
      BY <2>3, <3>1 DEF SemExited, TypeOK
    <3> QED
      BY <1>1, <2>3, <3>2 DEF SemInv
  <2> QED
    BY <2>1, <2>2, <2>3
<1>4. WorkerInv'
  BY DEF WorkerInv, HasRoom, HasSlot, IsCopied, Full, File, list, TypeOK
<1>5. FreshInv'
  BY DEF FreshInv, HasFile, TypeOK
<1>6. ListInv'
  BY DEF ListInv, list
<1>7. SearchInv'
  BY <1>6, SearchKept DEF list, TypeOK
<1> QED
  BY <1>2, <1>3, <1>4, <1>5, <1>6, <1>7

(* A search takes no semaphore; what it reads below itemcount is final.    *)
LEMMA ScanGuarded ==
  ASSUME IInv, TypeOK', Guarded, NEW r \in Readers, Scan(r)
  PROVE  Guarded'
<1> USE DEF IInv, Guarded
<1>1. UNCHANGED <<list, sem, worker, breached, acked>>
  BY DEF Scan, Start, Iterate, Match, Send, SendFails
<1>2. Exclusive' /\ SemInv' /\ WorkerInv' /\ FreshInv' /\ ListInv'
  BY <1>1 DEF Exclusive, SemInv, WorkerInv, FreshInv, ListInv, Critical, HasFile,
              HasRoom, HasSlot, IsCopied, Full, File, list, worker
<1>3. ASSUME NEW q \in Readers, q # r
      PROVE  UNCHANGED <<pos[q], rpc[q], sent[q], first[q], q \in whole>>
  BY <1>3 DEF Scan, Start, Iterate, Match, Send, SendFails, TypeOK
<1>4. \A p \in Nat : Matches(r, p)' = Matches(r, p) 
  BY <1>1 DEF Matches, list
<1>5. ASSUME rpc[r] \in {"match", "send"}
      PROVE  /\ pos[r] \in Slots /\ At(pos[r]) = mem[pos[r]] /\ mem[pos[r]] \in Entry
             /\ Matches(r, pos[r] + 1) = Matches(r, pos[r]) \cup
                  (IF mem[pos[r]] \in Pattern[r] THEN {<<pos[r], mem[pos[r]]>>} ELSE {})
  <2>1. pos[r] \in Slots /\ mem[pos[r]] \in Entry
    BY <1>5 DEF SearchInv, ListInv, TypeOK
  <2>2. \A j \in Slots : j < pos[r] + 1 <=> j < pos[r] \/ j = pos[r]
    <3>1. pos[r] \in Int /\ \A j \in Slots : j \in Int
      BY FileListAssumption DEF Slots, TypeOK
    <3> QED
      BY <3>1
  <2> QED
    BY <2>1, <2>2 DEF At, Matches
<1>6. /\ pos'[r] <= itemcount'
      /\ rpc'[r] \in {"match", "send"} => pos'[r] < itemcount'
      /\ rpc'[r] = "send" => mem'[pos'[r]] \in Pattern[r]
      /\ sent'[r] = Matches(r, pos'[r])
      /\ first'[r] <= itemcount'
      /\ r \in whole' => rpc'[r] = "gone" /\ first'[r] <= pos'[r]
  <2> USE <1>1 DEF SearchInv, list, TypeOK
  <2>1. CASE Start(r)
    BY <2>1 DEF Start
  <2>2. CASE Iterate(r)
    BY <2>2 DEF Iterate
  <2>3. CASE Match(r)
    <3>1. rpc[r] = "match" /\ pos[r] < itemcount /\ mem[pos[r]] # Torn
      BY <2>3, <1>5, FileListAssumption DEF Match
    <3>2. CASE rpc'[r] = "send"
      <4>1. UNCHANGED <<pos, sent, first, whole>> /\ mem[pos[r]] \in Pattern[r]
        BY <2>3, <3>1, <3>2, <1>5 DEF Match
      <4> QED
        BY <2>3, <3>1, <3>2, <4>1 DEF Match
    <3>3. CASE rpc'[r] = "next"
      <4>1. /\ UNCHANGED <<sent, first, whole>> /\ pos'[r] = pos[r] + 1
            /\ mem[pos[r]] \notin Pattern[r]
        BY <2>3, <3>1, <3>3, <1>5 DEF Match
      <4>2. Matches(r, pos[r] + 1) = Matches(r, pos[r])
        BY <3>1, <4>1, <1>5
      <4> QED
        BY <2>3, <3>1, <3>3, <4>1, <4>2 DEF Match
    <3> QED
      BY <2>3, <3>2, <3>3 DEF Match
  <2>4. CASE Send(r)
    BY <2>4, <1>5 DEF Send
  <2>5. CASE SendFails(r)
    BY <2>5 DEF SendFails
  <2> QED
    BY <2>1, <2>2, <2>3, <2>4, <2>5 DEF Scan
<1>7. SearchInv'
  BY <1>1, <1>3, <1>4, <1>6 DEF SearchInv, Matches, list, TypeOK
<1> QED
  BY <1>2, <1>7

LEMMA StillGuarded ==
  ASSUME IInv, TypeOK', Guarded, RemoveSemaphores \/ UNCHANGED vars
  PROVE  Guarded'
<1> USE DEF IInv, Guarded
<1>1. UNCHANGED <<list, worker, search, acked>>
  BY DEF RemoveSemaphores, vars
<1>2. Exclusive' /\ WorkerInv' /\ FreshInv' /\ ListInv'
  BY <1>1 DEF Exclusive, WorkerInv, FreshInv, ListInv, Critical, HasFile,
              HasRoom, HasSlot, IsCopied, Full, File, list, worker
<1>3. SemInv'
  BY <1>1 DEF RemoveSemaphores, SemRemoved, vars, SemInv, Critical, worker
<1>4. SearchInv'
  BY <1>1, SearchKept DEF list, TypeOK
<1> QED
  BY <1>2, <1>3, <1>4

LEMMA IInvInit == Init => IInv
  BY TypeInit, GuardedInit DEF IInv, TypeInv

LEMMA IInvNext == IInv /\ [Next]_vars => IInv'
<1> SUFFICES ASSUME IInv, [Next]_vars PROVE IInv'
  OBVIOUS
<1>1. TypeOK' /\ Received'
  BY TypeNext DEF TypeInv, IInv
<1>2. ASSUME ~breached' PROVE Guarded'
  <2>1. ~breached /\ \A w \in Writers : ~GoOnWithout(w)
    BY <1>2 DEF Next, vars, list, worker, search, Receive, GetFile, SkipFile, EndOfList, Enter,
                SemWait, SemWaitRemoved, SemWaitInterrupted, GoOnWithout, AddItem, Test,
                CopyBegin, CopyEnd, CountLoad, CountStore, Leave, SemSignal, Exit,
                Crash, Scan, Start, Iterate, Match, Send, SendFails, RemoveSemaphores
  <2>2. Guarded
    BY <2>1 DEF IInv
  <2>3. ASSUME NEW w \in Writers, Enter(w) PROVE SemWait(w)
    BY <2>1, <2>3 DEF Enter, SemWaitRemoved, SemWaitInterrupted
  <2> QED
    BY <1>1, <2>2, <2>3, ReceiveGuarded, SemWaitGuarded, TestGuarded, CopyBeginGuarded,
       CopyEndGuarded, CountLoadGuarded, CountStoreGuarded, LeaveGuarded, ScanGuarded,
       StillGuarded DEF Next, AddItem
<1> QED
  BY <1>1, <1>2 DEF IInv

LEMMA Invariance == Spec => []IInv
  BY IInvInit, IInvNext, PTL DEF Spec
-----------------------------------------------------------------------------
(* For any number of workers, killed anywhere, with the semaphores removed *)
(* at any time: at most one is inside addArrayItem, unless recvFileList    *)
(* ignored a failing semWait.                                              *)
THEOREM Exclusion == Spec => []MutualExclusion
<1>1. IInv => MutualExclusion
  BY DEF IInv, Guarded, MutualExclusion
<1> QED
  BY Invariance, <1>1, PTL

(* No item is ever copied outside the segment, whatever the sizes are.     *)
THEOREM InSegment == Spec => []WithinSegment
<1>1. IInv => WithinSegment
  BY DEF IInv, Guarded, ListInv, WithinSegment
<1> QED
  BY Invariance, <1>1, PTL

(* Below itemcount there are only whole entries.                           *)
THEOREM OnlyWholeEntries == Spec => []PublishedWhole
<1>1. IInv => PublishedWhole
  BY DEF IInv, Guarded, ListInv, PublishedWhole, At, TypeOK
<1> QED
  BY Invariance, <1>1, PTL

(* What addArrayItem reported as added is in the list exactly once.        *)
THEOREM AddedIsListed == Spec => []NothingLost
<1>1. IInv => NothingLost
  BY DEF IInv, Guarded, ListInv, NothingLost, Slots, TypeOK
<1> QED
  BY Invariance, <1>1, PTL

(* A search that ran to the end sent the matching entries of a prefix of   *)
(* the list that is no shorter than the list was when it began.            *)
THEOREM SearchSeesPrefix == Spec => []SearchAnswer
<1>1. IInv => SearchAnswer
  BY DEF IInv, Guarded, SearchInv, SearchAnswer, Matches, TypeOK
<1> QED
  BY Invariance, <1>1, PTL

LEMMA Grows == IInv /\ [Next]_vars => [GrowsOnly]_vars
<1> SUFFICES ASSUME IInv, Next, ~breached'
             PROVE  /\ itemcount <= itemcount'
                    /\ \A i \in Slots : i < itemcount => mem'[i] = mem[i]
  BY DEF GrowsOnly
<1>1. ~breached
  BY DEF Next, Receive, GetFile, SkipFile, EndOfList, Enter,
         SemWait, SemWaitRemoved, SemWaitInterrupted, GoOnWithout, AddItem, Test,
         CopyBegin, CopyEnd, CountLoad, CountStore, Leave, SemSignal, Exit,
         Crash, Scan, Start, Iterate, Match, Send, SendFails, RemoveSemaphores
<1>2. CASE UNCHANGED list
  BY <1>2 DEF list, IInv, TypeOK
<1>3. ASSUME NEW w \in Writers, CopyBegin(w) \/ CopyEnd(w) \/ CountStore(w)
      PROVE  /\ itemcount <= itemcount'
             /\ \A i \in Slots : i < itemcount => mem'[i] = mem[i]
  <2> USE FileListAssumption
  <2>1. wpc[w] \in {"copying", "store"} => idx[w] = itemcount
    BY <1>1 DEF IInv, Guarded, WorkerInv, HasSlot
  <2>2. wpc[w] = "store" => tmp[w] = itemcount
    BY <1>1 DEF IInv, Guarded, WorkerInv
  <2> QED
    BY <1>3, <2>1, <2>2 DEF CopyBegin, CopyEnd, CountStore, IInv, TypeOK, Slots
<1> QED
  BY <1>2, <1>3 DEF Next, Receive, GetFile, SkipFile, EndOfList, Enter,
       SemWait, SemWaitRemoved, SemWaitInterrupted, GoOnWithout, AddItem, Test,
       CountLoad, Leave, SemSignal, Exit, Crash, Scan, Start, Iterate, Match, Send,
       SendFails, RemoveSemaphores

(* A published entry is never changed or taken back.                       *)
THEOREM ListGrows == Spec => AppendOnly
  BY Invariance, Grows, PTL DEF Spec, AppendOnly
-----------------------------------------------------------------------------
(* The list implements the append-only log.                                *)

LEMMA AbstractInit == Init => Abstract!Init
<1> SUFFICES ASSUME Init PROVE Abstract!Init
  OBVIOUS
<1>1. ListLog = <<>>
  BY DEF Init, ListLog
<1>2. Answer = [r \in Readers |-> Abstract!Pending]
  <2>1. \A r \in Readers : (rpc[r] = "gone") = FALSE /\ (r \in whole) = FALSE
    BY DEF Init
  <2> QED
    BY <2>1 DEF Answer, Abstract!Pending
<1> QED
  BY <1>1, <1>2 DEF Init, Abstract!Init

(* What can be seen of the list does not change while slots past its end   *)
(* are written.                                                            *)
LEMMA LogKept ==
  ASSUME TypeOK, ListInv, UNCHANGED itemcount,
         \A i \in Slots : i < itemcount => mem'[i] = mem[i]
  PROVE  UNCHANGED ListLog
<1>1. \A i \in 1..itemcount : At(i - 1)' = At(i - 1)
  BY DEF At, ListInv, TypeOK
<1> QED
  BY <1>1 DEF ListLog

LEMMA StoreIsPublish ==
  ASSUME IInv, ~breached, NEW w \in Writers, CountStore(w)
  PROVE  Abstract!Publish(File(w))
<1> USE DEF CountStore
<1>1. Guarded /\ TypeOK
  BY DEF IInv
<1>2. tmp[w] = itemcount /\ ~Full(itemcount) /\ mem[itemcount] = File(w)
  BY <1>1 DEF Guarded, WorkerInv, HasRoom, IsCopied
<1>3. itemcount \in Slots
  BY <1>1, <1>2, RoomIsSlot DEF TypeOK
<1>4. File(w) \notin acked
  <2>1. HasFile(w) /\ got[w] \in 1..Files
    BY <1>1, FileListAssumption DEF IInv, HasFile, Received, TypeOK
  <2> QED
    BY <1>1, <2>1 DEF Guarded, FreshInv, File
<1>5. File(w) \notin Abstract!Range(ListLog)
  <2>1. \A i \in 1..itemcount : At(i - 1) \in acked
    BY <1>1 DEF Guarded, ListInv, At, TypeOK
  <2> QED
    BY <1>4, <2>1 DEF ListLog, Abstract!Range
<1>6. ListLog' = Append(ListLog, File(w))
  <2>1. itemcount' = itemcount + 1 /\ mem' = mem /\ itemcount \in Nat
    BY <1>1, <1>2 DEF TypeOK
  <2>2. ListLog' = [i \in 1..(itemcount + 1) |-> At(i - 1)]
    BY <2>1 DEF ListLog, At
  <2>3. At(itemcount) = File(w)
    BY <1>2, <1>3 DEF At
  <2> QED
    BY <2>1, <2>2, <2>3 DEF ListLog
<1>7. Answer' = Answer
  BY DEF Answer, search
<1> QED
  BY <1>5, <1>6, <1>7 DEF Abstract!Publish

(* The last step of a search: all it has sent is all there is to find.     *)
LEMMA EndIsSearch ==
  ASSUME IInv, ~breached, NEW r \in Readers, Iterate(r), rpc'[r] = "gone"
  PROVE  Abstract!Search(r)
<1> USE DEF Iterate
<1>1. Guarded /\ TypeOK
  BY DEF IInv
<1>2. pos[r] = itemcount /\ rpc[r] = "next"
  <2>1. rpc[r] = "next" /\ ~(pos[r] < itemcount)
    BY <1>1 DEF TypeOK
  <2>2. pos[r] <= itemcount /\ pos[r] \in Nat /\ itemcount \in Nat
    BY <1>1 DEF Guarded, SearchInv, TypeOK
  <2> QED
    BY <2>1, <2>2
<1>3. r \notin whole /\ r \in whole' /\ UNCHANGED <<sent, list, breached>>
  BY <1>1, <1>2 DEF Guarded, SearchInv, TypeOK
<1>4. {x[2] : x \in sent[r]} = Abstract!Range(ListLog) \cap Pattern[r]
  <2>1. sent[r] = Matches(r, itemcount)
    BY <1>1, <1>2 DEF Guarded, SearchInv
  <2> DEFINE K == {j \in Slots : j < itemcount /\ mem[j] \in Pattern[r]}
  <2>2. {x[2] : x \in sent[r]} = {mem[i] : i \in K}
    <3>1. sent[r] = {<<i, mem[i]>> : i \in K}
      BY <2>1 DEF Matches
    <3> HIDE DEF K
    <3>2. ASSUME NEW x \in sent[r] PROVE \E i \in K : x[2] = mem[i]
      BY <3>1
    <3>3. ASSUME NEW i \in K PROVE \E x \in sent[r] : x[2] = mem[i]
      <4>1. <<i, mem[i]>> \in sent[r] /\ <<i, mem[i]>>[2] = mem[i]
        BY <3>1
      <4> QED
        BY <4>1
    <3> QED
      BY <3>2, <3>3
  <2>3. Abstract!Range(ListLog) = {mem[i] : i \in {j \in Slots : j < itemcount}}
    <3>1. \A i \in 1..itemcount : i - 1 \in Slots /\ At(i - 1) = mem[i - 1]
      BY <1>1 DEF Guarded, ListInv, At, TypeOK
    <3>2. \A j \in Slots : j < itemcount => j + 1 \in 1..itemcount /\ At(j) = mem[j]
      BY <1>1 DEF Slots, At, TypeOK
    <3>3. Abstract!Range(ListLog) = {At(i - 1) : i \in 1..itemcount}
      BY DEF ListLog, Abstract!Range
    <3>4. ASSUME NEW i \in 1..itemcount
          PROVE  \E j \in Slots : j < itemcount /\ At(i - 1) = mem[j]
      BY <1>1, <3>1 DEF TypeOK
    <3>5. ASSUME NEW j \in Slots, j < itemcount
          PROVE  \E i \in 1..itemcount : At(i - 1) = mem[j]
      <4>1. (j + 1) - 1 = j
        BY FileListAssumption DEF Slots
      <4> QED
        BY <3>2, <3>5, <4>1
    <3> QED
      BY <3>3, <3>4, <3>5
  <2> QED
    BY <2>2, <2>3
<1>5. Answer[r] = Abstract!Pending
  <2>1. (rpc[r] = "gone") = FALSE /\ (r \in whole) = FALSE
    BY <1>2, <1>3
  <2> QED
    BY <2>1 DEF Answer, Abstract!Pending
<1>6. Answer' = [Answer EXCEPT ![r] =
        [ended |-> TRUE, whole |-> TRUE, found |-> Abstract!Range(ListLog) \cap Pattern[r]]]
  <2>1. (rpc'[r] = "gone") = TRUE /\ (r \in whole') = TRUE
    BY <1>3
  <2>2. \A q \in Readers : q # r => rpc'[q] = rpc[q] /\ (q \in whole') = (q \in whole)
    BY <1>1, <1>2, <1>3 DEF TypeOK
  <2> QED
    BY <1>3, <1>4, <2>1, <2>2 DEF Answer
<1>7. UNCHANGED ListLog
  BY <1>3 DEF ListLog, At, list
<1> QED
  BY <1>3, <1>5, <1>6, <1>7 DEF Abstract!Search

(* The peer is gone: what was sent is part of what there is.               *)
LEMMA FailIsCutOff ==
  ASSUME IInv, ~breached, NEW r \in Readers, SendFails(r)
  PROVE  Abstract!CutOff(r)
<1> USE DEF SendFails
<1>1. Guarded /\ TypeOK
  BY DEF IInv
<1>2. rpc[r] = "send" /\ r \notin whole /\ UNCHANGED <<sent, list, whole, breached>>
  BY <1>1 DEF Guarded, SearchInv
<1> DEFINE part == {x[2] : x \in sent[r]}
<1>3. part \in SUBSET (Abstract!Range(ListLog) \cap Pattern[r])
  <2>1. \A x \in sent[r] : \E i \in Slots : i < itemcount /\ x[2] = mem[i] /\ mem[i] \in Pattern[r]
    BY <1>1 DEF Guarded, SearchInv, Matches, TypeOK, Slots
  <2>2. \A i \in Slots : i < itemcount => mem[i] \in Abstract!Range(ListLog)
    <3>1. \A j \in Slots : j < itemcount => j + 1 \in 1..itemcount /\ At(j) = mem[j] /\ (j + 1) - 1 = j
      BY <1>1 DEF Slots, At, TypeOK
    <3> QED
      BY <3>1 DEF ListLog, Abstract!Range
  <2> QED
    BY <2>1, <2>2
<1>4. Answer[r] = Abstract!Pending
  <2>1. (rpc[r] = "gone") = FALSE /\ (r \in whole) = FALSE
    BY <1>2
  <2> QED
    BY <2>1 DEF Answer, Abstract!Pending
<1>5. Answer' = [Answer EXCEPT ![r] = [ended |-> TRUE, whole |-> FALSE, found |-> part]]
  <2>1. (rpc'[r] = "gone") = TRUE /\ (r \in whole') = FALSE
    BY <1>1, <1>2 DEF TypeOK
  <2>2. \A q \in Readers : q # r => rpc'[q] = rpc[q] /\ (q \in whole') = (q \in whole)
    BY <1>1, <1>2 DEF TypeOK
  <2> QED
    BY <1>2, <2>1, <2>2 DEF Answer
<1>6. UNCHANGED ListLog
  BY <1>2 DEF ListLog, At, list
<1> HIDE DEF part, SendFails
<1>7. \E p \in SUBSET (Abstract!Range(ListLog) \cap Pattern[r]) :
         Answer' = [Answer EXCEPT ![r] = [ended |-> TRUE, whole |-> FALSE, found |-> p]]
  BY <1>3, <1>5
<1> QED
  BY <1>2, <1>4, <1>6, <1>7 DEF Abstract!CutOff

LEMMA AbstractNext == IInv /\ [Next]_vars => [Abstract!Next]_Abstract!vars
<1> SUFFICES ASSUME IInv, [Next]_vars
             PROVE  Abstract!Next \/ UNCHANGED <<ListLog, Answer, breached>>
  BY DEF Abstract!vars
<1>1. CASE breached
  <2>1. breached'
    BY <1>1 DEF Next, vars, list, worker, search, Receive, GetFile, SkipFile, EndOfList,
         Enter, SemWait, SemWaitRemoved, SemWaitInterrupted, GoOnWithout, AddItem, Test,
         CopyBegin, CopyEnd, CountLoad, CountStore, Leave, SemSignal, Exit, Crash, Scan,
         Start, Iterate, Match, Send, SendFails, RemoveSemaphores
  <2> QED
    BY <1>1, <2>1 DEF Abstract!Next, Abstract!Untrusted
<1>2. CASE ~breached
  <2>1. TypeOK /\ Guarded
    BY <1>2 DEF IInv
  <2>2. ASSUME UNCHANGED <<list, search, breached>>
        PROVE  UNCHANGED <<ListLog, Answer, breached>>
    BY <2>2 DEF ListLog, Answer, At, list, search
  <2>3. ASSUME NEW w \in Writers, CopyBegin(w) \/ CopyEnd(w)
        PROVE  UNCHANGED <<ListLog, Answer, breached>>
    <3>1. wpc[w] = "copying" => idx[w] = itemcount
      BY <2>1 DEF Guarded, WorkerInv, HasSlot
    <3>2. UNCHANGED itemcount /\ \A i \in Slots : i < itemcount => mem'[i] = mem[i]
      BY <2>1, <2>3, <3>1, FileListAssumption DEF CopyBegin, CopyEnd, Slots, TypeOK
    <3>3. UNCHANGED ListLog
      BY <2>1, <3>2, LogKept DEF Guarded
    <3>4. UNCHANGED <<rpc, sent, whole, breached>>
      BY <2>3 DEF CopyBegin, CopyEnd, search
    <3>5. UNCHANGED Answer
      BY <3>4 DEF Answer
    <3> QED
      BY <3>3, <3>4, <3>5
  <2>4. ASSUME NEW w \in Writers, CountStore(w) PROVE Abstract!Next
    <3>1. File(w) \in Entry
      BY <2>1, <2>4, FileIsEntry DEF TypeInv, IInv, CountStore, HasFile
    <3> QED
      BY <1>2, <2>4, <3>1, StoreIsPublish DEF Abstract!Next
  <2>5. ASSUME NEW w \in Writers, GoOnWithout(w) PROVE Abstract!Next
    <3>1. breached' /\ UNCHANGED <<ListLog, Answer>>
      BY <2>5 DEF GoOnWithout, ListLog, Answer, At, list, search
    <3> QED
      BY <1>2, <3>1 DEF Abstract!Next, Abstract!Distrust
  <2>6. ASSUME NEW r \in Readers, Scan(r), UNCHANGED whole, rpc[r] # "gone", rpc'[r] # "gone"
        PROVE  UNCHANGED <<ListLog, Answer, breached>>
    <3>1. UNCHANGED <<list, breached>>
      BY <2>6 DEF Scan, Start, Iterate, Match, Send, SendFails
    <3>2. \A q \in Readers : q # r => UNCHANGED <<rpc[q], sent[q]>>
      BY <2>1, <2>6 DEF Scan, Start, Iterate, Match, Send, SendFails, TypeOK
    <3>3. Answer' = Answer
      BY <2>6, <3>2 DEF Answer
    <3> QED
      BY <3>1, <3>3 DEF ListLog, At, list
  <2>7. ASSUME NEW r \in Readers, Scan(r)
        PROVE  Abstract!Next \/ UNCHANGED <<ListLog, Answer, breached>>
    <3>1. CASE Iterate(r) /\ rpc'[r] = "gone"
      BY <1>2, <3>1, EndIsSearch DEF Abstract!Next
    <3>2. CASE SendFails(r)
      BY <1>2, <3>2, FailIsCutOff DEF Abstract!Next
    <3>3. CASE Start(r) \/ Match(r) \/ Send(r) \/ (Iterate(r) /\ rpc'[r] # "gone")
      <4>1. UNCHANGED whole /\ rpc[r] # "gone" /\ rpc'[r] # "gone"
        BY <2>1, <3>3 DEF Start, Iterate, Match, Send, TypeOK
      <4> QED
        BY <2>6, <2>7, <4>1
    <3> QED
      BY <2>7, <3>1, <3>2, <3>3 DEF Scan
  <2>8. ASSUME NEW w \in Writers,
               \/ Receive(w) \/ SemWait(w) \/ Test(w) \/ CountLoad(w)
               \/ Leave(w) \/ Crash(w)
        PROVE  UNCHANGED <<list, search, breached>>
    BY <2>8 DEF Receive, GetFile, SkipFile, EndOfList, SemWait, Test, CountLoad, Leave,
                SemSignal, Exit, Crash
  <2>9. CASE RemoveSemaphores \/ UNCHANGED vars
    BY <2>2, <2>9 DEF RemoveSemaphores, vars
  <2> QED
    BY <2>2, <2>3, <2>4, <2>5, <2>7, <2>8, <2>9
    DEF Next, Enter, AddItem, SemWaitRemoved, SemWaitInterrupted
<1> QED
  BY <1>1, <1>2

(* For any number of workers and searches the list is an append-only log:  *)
(* every step is a whole entry becoming visible, a search answering for    *)
(* the list of that moment, or nothing that can be seen from outside.      *)
THEOREM Refinement == Spec => ImplementsAppendLog
  BY Invariance, AbstractInit, AbstractNext, PTL DEF Spec, ImplementsAppendLog, Abstract!Spec
=============================================================================
