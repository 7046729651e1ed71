---------------------------- MODULE ListTransfer ----------------------------
(***************************************************************************)
(* One client sends the list of the files it shares to one worker of the   *)
(* server: parseDirToFD walks the share and writes a name line and a size  *)
(* line per regular file, recvFileList pairs the lines up again.  Lines    *)
(* arrive whole (LineStream); where the entries go is FileList's matter.   *)
(***************************************************************************)
EXTENDS Integers, SequencesExt, SeqFilter

CONSTANTS
  Names,        \* names of regular files; one may look like a number
  FileSizes,    \* their sizes, st_size
  Half,         \* an int ranges over -Half..Half-1
  NoText,       \* the empty text
  Commands,     \* command lines of the session that forked the worker
  Shares,       \* the shares the client may have, see Item
  OpenDirs,     \* how many directories a process may have open
  Inherited     \* what the session's combuf held when the worker was forked

(* One step of a walk over the share, in the order of readdir: a regular   *)
(* file, a directory to descend into, or an entry that cannot be read.     *)
Files == [kind : {"file"}, name : Names, size : FileSizes]
Dirs == {[kind |-> "dir"]}
Item == Files \cup Dirs \cup {[kind |-> "unreadable"]}

IntRange == -Half..Half-1

ASSUME ListTransferAssumption ==
  /\ Half \in Nat \ {0} /\ OpenDirs \in Nat
  /\ FileSizes \subseteq Nat
  /\ Shares \subseteq Seq(Item)
  /\ Inherited \subseteq Seq(Commands)

(* What a conversion through int keeps of a number ("%d" in parseDirToFD,  *)
(* the result of my_strtol).                                               *)
AsInt(n) == ((n + Half) % (2 * Half)) - Half

(* my_strtol on a line: a number, or 0 and an error.  The text is checked  *)
(* to the end, so a name fails unless it is a number; no text at all is 0. *)
IsNumber(line) == line = NoText \/ line \in IntRange
Strtol(line) == IF line \in IntRange THEN line ELSE 0

VARIABLES
  share,        \* the walk (read by the sender only)
  at,           \* how many of its items are done
  dirs,         \* directories opened; none is closed before the process ends
  send,         \* the sender: "walk", "ok", "failed", "killed"
  net,          \* lines on their way, and the inherited ones before them
  recv,         \* the worker: "name", "size" or "ended"
  file,         \* its struct flEntry: name and size
  list,         \* the entries it appended
  status        \* its exit status, 0 while it runs

vars == <<share, at, dirs, send, net, recv, file, list, status>>

(* file.size starts as whatever is on the stack.                           *)
Init ==
  /\ share \in Shares
  /\ at = 0
  /\ dirs = 1
  /\ send = "walk"
  /\ net \in Inherited
  /\ recv = "name"
  /\ file \in [name : {NoText}, size : {0} \cup FileSizes]
  /\ list = <<>>
  /\ status = 0

Walking(kind) == send = "walk" /\ at < Len(share) /\ share[at + 1].kind = kind

SendFile ==
  /\ Walking("file")
  /\ net' = net \o <<share[at + 1].name, AsInt(share[at + 1].size)>>
  /\ at' = at + 1
  /\ UNCHANGED <<share, dirs, send, recv, file, list, status>>

Descend ==
  /\ Walking("dir") /\ dirs < OpenDirs
  /\ dirs' = dirs + 1
  /\ at' = at + 1
  /\ UNCHANGED <<share, send, net, recv, file, list, status>>

(* opendir or stat fails, or the write does: every level returns -1 and    *)
(* client_sendlistAction closes the socket all the same.                   *)
WalkFails ==
  /\ \/ Walking("unreadable")
     \/ Walking("dir") /\ dirs = OpenDirs
     \/ Walking("file") /\ recv = "ended"
  /\ send' = "failed"
  /\ UNCHANGED <<share, at, dirs, net, recv, file, list, status>>

(* Mutant: a hidden or unreadable rest of the walk still counts as done.   *)
WalkEnds_Early ==
  /\ send = "walk" /\ at >= Len(share) - 1
  /\ send' = "ok"
  /\ UNCHANGED <<share, at, dirs, net, recv, file, list, status>>

WalkEnds ==
  /\ send = "walk" /\ at = Len(share)
  /\ send' = "ok"
  /\ UNCHANGED <<share, at, dirs, net, recv, file, list, status>>

(* The sender is killed, perhaps in the middle of writing a pair.          *)
Killed ==
  /\ send = "walk"
  /\ send' = "killed"
  /\ \/ UNCHANGED net
     \/ Walking("file") /\ net' = Append(net, share[at + 1].name)
  /\ UNCHANGED <<share, at, dirs, recv, file, list, status>>

(* The end of the stream: the socket is closed and everything was read.    *)
AtEnd == net = <<>> /\ send # "walk"

Finish(s) == recv' = "ended" /\ status' = s

(* The head of the loop: a line is the name of a file.                     *)
TakeName ==
  /\ recv = "name" /\ net # <<>>
  /\ file' = [file EXCEPT !.name = Head(net)]
  /\ net' = Tail(net)
  /\ recv' = "size"
  /\ UNCHANGED <<share, at, dirs, send, list, status>>

(* Mutant: the end of the stream is taken for no line yet.                 *)
ListEnds_Polls == recv = "name" /\ AtEnd /\ UNCHANGED vars

ListEnds ==
  /\ recv = "name" /\ AtEnd
  /\ Finish(-2)
  /\ UNCHANGED <<share, at, dirs, send, net, file, list>>

(* The second half of the loop with a line, or with the empty text that    *)
(* the end of the stream leaves in comline.  file.size is set only where   *)
(* the conversion failed.                                                  *)
Entry(line) ==
  /\ recv = "size"
  /\ IF IsNumber(line) /\ Strtol(line) >= 0
     THEN list' = Append(list, file) /\ UNCHANGED file
     ELSE file' = [file EXCEPT !.size = Strtol(line)] /\ UNCHANGED list
  /\ recv' = "name"
  /\ UNCHANGED <<share, at, dirs, send, status>>

(* Mutant: after a size that does not convert the line is read again.      *)
TakeSize_Again ==
  /\ net # <<>>
  /\ Entry(Head(net))
  /\ net' = IF IsNumber(Head(net)) /\ Strtol(Head(net)) >= 0 THEN Tail(net) ELSE net

TakeSize ==
  /\ net # <<>>
  /\ Entry(Head(net))
  /\ net' = Tail(net)

(* The stream ends behind a name.                                          *)
NoSize == AtEnd /\ Entry(NoText) /\ UNCHANGED net

(* read fails: either getTokenFromStream gives -1.                         *)
ReadFails ==
  /\ recv \in {"name", "size"}
  /\ Finish(-3)
  /\ UNCHANGED <<share, at, dirs, send, net, file, list>>

Sender == SendFile \/ Descend \/ WalkFails \/ WalkEnds
Receiver == TakeName \/ ListEnds \/ TakeSize \/ NoSize
Next == Sender \/ Killed \/ Receiver \/ ReadFails

Spec == Init /\ [][Next]_vars
FairSpec == Spec /\ WF_vars(Sender) /\ WF_vars(Receiver)
-----------------------------------------------------------------------------
SharedFiles == Only(share, Files)
NamesOf(s) == [k \in 1..Len(s) |-> s[k].name]

(* The files whose size is a non-negative int once it went through "%d".   *)
Sized == {f \in Files : AsInt(f.size) >= 0}
Listable == Only(SharedFiles, Sized)

(* Names and sizes never change places: whatever ends the transfer, the    *)
(* names in the list are names of shared files, in the order of the walk,  *)
(* and at most the very last one got there without its size.  A size       *)
(* beyond int drops its own file and shifts nothing.  (recvFileList starts *)
(* with an empty buffer here.)                                             *)
NamesAsShared ==
  LET n == NamesOf(list) IN
  \/ IsPrefix(n, NamesOf(Listable))
  \/ /\ send = "killed" /\ n # <<>>
     /\ IsPrefix(Front(n), NamesOf(Listable))
     /\ Last(n) = share[at + 1].name

(* A transfer that ends well on both sides has listed every file that can  *)
(* be listed, and a share whose directories can all be opened is sent to   *)
(* the end unless somebody breaks the transfer.                            *)
CompleteWhenOk ==
  /\ send = "ok" /\ status = -2 => NamesOf(list) = NamesOf(Listable)
  /\ send = "failed" /\ status # -3 =>
       \/ \E i \in 1..Len(share) : share[i].kind = "unreadable"
       \/ Len(Only(share, Dirs)) >= OpenDirs

(* The worker always comes to an end, and so does the sender.              *)
TransferEnds == <>(recv = "ended" /\ send # "walk")
-----------------------------------------------------------------------------
(* The help text of FILELIST is "send my filelist to the Server": what the *)
(* worker lists are files, also when the client sent a command right       *)
(* behind FILELIST and the worker inherited it in combuf.                  *)
ListsFilesOnly ==
  \A k \in 1..Len(list) : list[k].name \in ToSet(NamesOf(SharedFiles))
=============================================================================
