----------------------------- MODULE Downloads ------------------------------
(***************************************************************************)
(* DOWNLOAD beside RESULT and RESULTS: a child of main reads an entry of   *)
(* the shared array, one field after the other while a search may replace  *)
(* it (stdin_downloadAction), opens the file, connects to the peer, and    *)
(* runs the copy of FileCopy with the size it reads last.                  *)
(***************************************************************************)
EXTENDS Results, FileCopy

CONSTANT Nr     \* the number typed

ASSUME DownloadsAssumption == Nr \in Nat

VARIABLES
  dpc,          \* the child: "none", "get", "name", "port", "bind",
                \* "connect", "mask", "size", "call", "copy" or "gone"
  dport,        \* the port it read
  \* history, read by no action
  used,         \* what it read of the entry
  first,        \* the entry when it looked the number up
  disturbed     \* the array was cleared between that and the size

child == <<dpc, dport, used, first, disturbed>>
vars == <<resultVars, copyVars, child>>

Init ==
  /\ ResultsInit /\ CopyInit
  /\ dpc = "none" /\ dport = Blank /\ used = <<>> /\ first = Blank /\ disturbed = FALSE

(* A field of the entry as the memory has it now.                          *)
Field(f) == IF slots[Nr].kind = "entry" THEN slots[Nr].entry[f] ELSE slots[Nr]

DownloadsOnly == UNCHANGED <<resultVars, copyVars>>
Read(f) == used' = Append(used, Field(f))
Child(from, to) == dpc = from /\ dpc' = to

(* What was read of the entry is used no more.                             *)
Forget == dport' = Blank /\ used' = <<>> /\ first' = Blank /\ disturbed' = FALSE

Download ==
  /\ plan.downloads > 0
  /\ Child("none", "get")
  /\ DownloadsOnly /\ UNCHANGED <<dport, used, first, disturbed>>

(* getArrayItem: an entry, or "doesn't exist".                             *)
Lookup ==
  /\ dpc = "get"
  /\ IF Exists(Nr) THEN dpc' = "name" /\ first' = slots[Nr] ELSE dpc' = "gone" /\ UNCHANGED first
  /\ DownloadsOnly /\ UNCHANGED <<dport, used, disturbed>>

(* open, which fails for the empty name, a directory.                      *)
OpenFile ==
  /\ dpc = "name"
  /\ \/ /\ Field("name") # Blank
        /\ dpc' = "port" /\ Read("name")
        /\ UNCHANGED <<dport, first, disturbed>>
     \/ dpc' = "gone" /\ Forget
  /\ DownloadsOnly

ReadPort ==
  /\ Child("port", "bind")
  /\ dport' = Field("port") /\ Read("port")
  /\ DownloadsOnly /\ UNCHANGED <<first, disturbed>>

(* Mutant: the port is stored without htons.                               *)
StorePort_Unswapped ==
  /\ Child("bind", "connect")
  /\ slots' = [slots EXCEPT ![Nr] = Torn]
  /\ spoiled' = (spoiled \/ slots' # slots)
  /\ UNCHANGED <<plan, count, fetching, listing, wiped, owner, copyVars, dport, used, first, disturbed>>

(* connectSocket stores the port into the address it was given, which lies *)
(* in the shared array.                                                    *)
StorePort ==
  /\ Child("bind", "connect")
  /\ slots' = [slots EXCEPT ![Nr] =
       IF @.kind = "entry" /\ dport = Field("port") THEN @ ELSE Torn]
  /\ spoiled' = (spoiled \/ slots' # slots)
  /\ UNCHANGED <<plan, count, fetching, listing, wiped, owner, copyVars, dport, used, first, disturbed>>

(* A torn or blank address may be one that nobody listens at.              *)
Connect ==
  /\ dpc = "connect"
  /\ \/ /\ Field("addr") # Blank
        /\ dpc' = "mask" /\ Read("addr")
        /\ UNCHANGED <<dport, first, disturbed>>
     \/ dpc' = "gone" /\ Forget
  /\ DownloadsOnly

GetSigfd ==
  /\ Child("mask", "size")
  /\ CopySigfd
  /\ UNCHANGED <<resultVars, dport, used, first, disturbed>>

(* The size that advFileCopy is given: the number it read, or whatever the *)
(* memory holds of one that is being copied.                               *)
Declared(f) ==
  CASE f.kind = "number" -> {f.n}
    [] f.kind = "blank" -> {0}
    [] f.kind = "torn" -> Sizes \cap Nat

ReadSize ==
  /\ Child("size", "call")
  /\ Read("size")
  /\ DownloadsOnly /\ UNCHANGED <<dport, first, disturbed>>

StartCopy ==
  /\ Child("call", "copy")
  /\ \E n \in Declared(Last(used)) : CopyStart(n)
  /\ Forget
  /\ UNCHANGED resultVars

(* SHOW before the signalfd is there.                                      *)
KilledByShow ==
  /\ dpc \in {"get", "name", "port", "bind", "connect", "mask"}
  /\ dpc' = "gone"
  /\ Forget
  /\ DownloadsOnly

(* The child ends; a further one would begin with nothing of this copy.    *)
ExitChild ==
  /\ copy = "done" /\ Child("copy", "gone")
  /\ CopyForgotten
  /\ UNCHANGED <<resultVars, dport, used, first, disturbed>>

DownloadStep ==
  \/ Lookup \/ OpenFile \/ ReadPort \/ StorePort \/ Connect \/ GetSigfd
  \/ ReadSize \/ StartCopy \/ ExitChild
CopyStep == Copier /\ UNCHANGED <<resultVars, child>>
CopyEvent == CopyEnv /\ arrived' <= plan.bytes /\ UNCHANGED <<resultVars, child>>
ResultsMove ==
  /\ ResultsStep
  /\ disturbed' = (disturbed \/ (dpc \notin {"none", "get", "call", "copy", "gone"} /\ owner' # owner))
  /\ UNCHANGED <<copyVars, dpc, dport, used, first>>

Next == ResultsMove \/ Download \/ DownloadStep \/ KilledByShow \/ CopyStep \/ CopyEvent

Spec == Init /\ [][Next]_vars

(* The child that copies is scheduled.  No peer is obliged to answer.      *)
FairSpec == Spec /\ WF_vars(CopyStep)
-----------------------------------------------------------------------------
(* A download that copies copies one file: name, address, port and size    *)
(* are those of the entry it looked up, which was whole, unless a search   *)
(* cleared the array before the size was read (stdin_downloadAction).      *)
DownloadIsThatFile ==
  dpc = "call" /\ ~disturbed /\ mixed = {} /\ Astray = {} =>
    /\ first.kind = "entry"
    /\ used = <<first.entry.name, first.entry.port, first.entry.addr, first.entry.size>>
=============================================================================
