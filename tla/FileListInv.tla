---------------------------- MODULE FileListInv -----------------------------
(***************************************************************************)
(* The inductive invariant behind the safety properties of FileList.  All  *)
(* of it but the types is conditional on ~breached: a worker that went on  *)
(* without the semaphore voids it for good.                                *)
(***************************************************************************)
EXTENDS FileList

(* The worker holds a file it has not reported as added.                   *)
HasFile(w)  == wpc[w] \in {"wait", "test", "copy", "copying", "load", "store"}
HasRoom(w)  == wpc[w] \in {"copy", "copying", "load", "store"}
HasSlot(w)  == wpc[w] \in {"copying", "load", "store"}
IsCopied(w) == wpc[w] \in {"load", "store"}

(* The value of the semaphore and the kernel's adjustments say which       *)
(* worker is inside, for as long as the set exists.                        *)
SemInv ==
  sem.live =>
    /\ \A w \in Writers : sem.adj[w] = IF Critical(w) THEN 1 ELSE 0
    /\ sem.val = IF \E w \in Writers : Critical(w) THEN 0 ELSE 1

(* The worker inside sees the itemcount it tested until it changes it.     *)
WorkerInv ==
  \A w \in Writers :
    /\ HasRoom(w) => ~Full(itemcount)
    /\ HasSlot(w) => idx[w] = itemcount
    /\ IsCopied(w) => mem[itemcount] = File(w)
    /\ wpc[w] = "store" => tmp[w] = itemcount

(* A file is reported as added once, and only after it was received.       *)
FreshInv ==
  \A w \in Writers : \A k \in 1..Files :
    <<w, k>> \in acked => k <= got[w] /\ (HasFile(w) => k # got[w])

ListInv ==
  /\ ~overrun
  /\ \A i \in 0..(itemcount - 1) : i \in Slots /\ mem[i] \in acked
  /\ \A e \in acked : \E i \in Slots : i < itemcount /\ mem[i] = e
  /\ \A i, j \in Slots : i < itemcount /\ j < itemcount /\ mem[i] = mem[j] => i = j

(* What search r has sent when its iterator is at p.                       *)
Matches(r, p) == {<<i, mem[i]>> : i \in {j \in Slots : j < p /\ mem[j] \in Pattern[r]}}

SearchInv ==
  \A r \in Readers :
    /\ pos[r] <= itemcount
    /\ rpc[r] \in {"match", "send"} => pos[r] < itemcount
    /\ rpc[r] = "send" => mem[pos[r]] \in Pattern[r]
    /\ sent[r] = Matches(r, pos[r])
    /\ first[r] <= itemcount
    /\ r \in whole => rpc[r] = "gone" /\ first[r] <= pos[r]

Received == \A w \in Writers : HasFile(w) => got[w] # 0

Guarded == Exclusive /\ SemInv /\ WorkerInv /\ FreshInv /\ ListInv /\ SearchInv

(* Whoever is inside is alone and the only one to change the list, what is *)
(* below itemcount is final, and what a search has sent is a part of it.   *)
IInv == TypeOK /\ Received /\ (~breached => Guarded)
=============================================================================
