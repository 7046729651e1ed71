----------------------------- MODULE ClientMain -----------------------------
(***************************************************************************)
(* The main process of the client (main and processServerReply in          *)
(* client.c, the actions of client_protocol.c and stdin_protocol.c): one   *)
(* loop that serves the replies of the server and the lines of the user,   *)
(* with one combuf for both, and that forks a child for every longer task. *)
(***************************************************************************)
EXTENDS Integers, SequencesExt, FiniteSets, SeqFilter

CONSTANTS
  Replies,      \* lines of the server: subset of Reply
  Inputs,       \* lines of the user: subset of Input
  Cut,          \* TRUE if a read may end in the middle of a server's line
  MaxReplies, MaxInputs,   \* bounds on the lines
  MaxUploads               \* bound on other clients that connect

Reply == {"TEXT", "RESULT", "SENDLIST"}
Input == {"EXIT", "SHOW", "DOWNLOAD", "RESULTS", "HELP", "word"}

ASSUME ClientMainAssumption ==
  /\ Replies \subseteq Reply /\ Inputs \subseteq Input
  /\ Cut \in BOOLEAN
  /\ MaxReplies \in Nat /\ MaxInputs \in Nat /\ MaxUploads \in Nat

(* A line of the server travels as its head, which has the code, and its   *)
(* tail; the consoler writes a line of the user at once.                   *)
Piece(from, line, part) == [from |-> from, line |-> line, part |-> part]
Server(line) == <<Piece("server", line, "head"), Piece("server", line, "tail")>>
User(line) == <<Piece("user", line, "tail")>>
ServerPieces == [from : {"server"}, line : Reply, part : {"head", "tail"}]
UserPieces == [from : {"user"}, line : Input, part : {"tail"}]

VARIABLES
  replies,      \* how many lines the server sent
  typed,        \* what the user typed
  srv, usr,     \* pieces that are not read: serverfd and infd
  late,         \* the tail of the server's last line, while it is on the way
  up,           \* which of them are open: subset of {"server", "user"}
  uploads,      \* connections at the passive socket that nobody accepted
  full,         \* "no", or whose line filled combuf and still has no end
  set,          \* the semaphores: "there" or "removed"
  failed,       \* the calls of main that the kernel failed: "poll", "wait"
  combuf,       \* pieces
  pc,           \* "poll", "server", "user" (taking lines), "ended", "killed"
  shellReturn,  \* "no", "success" or "failure"
  took,         \* the lines taken, each the sequence of its pieces
  children,     \* the processes forked: kind and state
  cpa           \* the table: type and pid, 0 for the consoler

vars == <<replies, typed, srv, usr, late, up, uploads, full, set, failed, combuf,
          pc, shellReturn, took, children, cpa>>

env == <<replies, typed, srv, usr, late, up, uploads, full, set>>
main == <<combuf, pc, shellReturn, took, failed, children, cpa>>

(* initcap has forked the consoler and put it into the table.              *)
Init ==
  /\ replies = 0 /\ typed = <<>> /\ srv = <<>> /\ usr = <<>> /\ late = <<>>
  /\ up = {"server", "user"}
  /\ uploads = 0
  /\ full = "no" /\ set = "there" /\ failed = {}
  /\ combuf = <<>>
  /\ pc = "poll"
  /\ shellReturn = "no"
  /\ took = <<>>
  /\ children = <<>>
  /\ cpa = <<[type |-> "i", pid |-> 0]>>
-----------------------------------------------------------------------------
(* The environment.                                                        *)
ServerSends(r) ==
  /\ replies < MaxReplies /\ "server" \in up /\ late = <<>>
  /\ replies' = replies + 1
  /\ \/ srv' = srv \o Server(r) /\ UNCHANGED late
     \/ Cut /\ srv' = Append(srv, Server(r)[1]) /\ late' = <<Server(r)[2]>>
  /\ UNCHANGED <<typed, usr, up, uploads, full, set, main>>

TailArrives ==
  /\ late # <<>>
  /\ srv' = srv \o late /\ late' = <<>>
  /\ UNCHANGED <<replies, typed, usr, up, uploads, full, set, main>>

UserTypes(i) ==
  /\ Len(typed) < MaxInputs /\ "user" \in up
  /\ typed' = Append(typed, i)
  /\ usr' = usr \o User(i)
  /\ UNCHANGED <<replies, srv, late, up, uploads, full, set, main>>

Closes(end) ==
  /\ end \in up /\ (end = "server" => late = <<>>)
  /\ up' = up \ {end}
  /\ UNCHANGED <<replies, typed, srv, usr, late, uploads, full, set, main>>

OtherConnects ==
  /\ uploads < MaxUploads
  /\ uploads' = uploads + 1
  /\ UNCHANGED <<replies, typed, srv, usr, late, up, full, set, main>>

(* A line of bufmax - 1 bytes and more without its end, behind all lines   *)
(* that were sent: main reads what combuf has room for and finds no line.  *)
(* It is no line of typed or replies.                                      *)
FillsUp(end) ==
  /\ pc = "poll" /\ full = "no" /\ end \in up
  /\ IF end = "server" THEN srv = <<>> /\ late = <<>> ELSE usr = <<>>
  /\ full' = end
  /\ UNCHANGED <<replies, typed, srv, usr, late, up, uploads, set, main>>

(* The consoler, the logger or a child that leaves with freeap removes the *)
(* semaphores.                                                             *)
SetRemoved ==
  /\ set = "there" /\ set' = "removed"
  /\ UNCHANGED <<replies, typed, srv, usr, late, up, uploads, full, main>>
-----------------------------------------------------------------------------
(* The loop.  poll is told of two descriptors; the passive socket and the  *)
(* signals are entries two and three of the array.                         *)
(* The server has data: read takes what has arrived.                       *)
ReadServer ==
  /\ pc = "poll" /\ full = "no" /\ srv # <<>>
  /\ combuf' = combuf \o srv /\ srv' = <<>>
  /\ pc' = "server"
  /\ UNCHANGED <<replies, typed, usr, late, up, uploads, full, set, failed,
                 shellReturn, took, children, cpa>>

(* Mutant: a server that is gone counts as a clean exit.                   *)
ServerClosed_Clean ==
  /\ pc = "poll" /\ srv = <<>> /\ "server" \notin up
  /\ pc' = "ended" /\ shellReturn' = "success"
  /\ UNCHANGED <<env, failed, combuf, took, children, cpa>>

(* Mutant: reading nothing is taken for no data.                           *)
ServerClosed_Again ==
  /\ pc = "poll" /\ srv = <<>> /\ "server" \notin up
  /\ UNCHANGED vars

ServerClosed ==
  /\ pc = "poll" /\ srv = <<>> /\ "server" \notin up
  /\ pc' = "ended" /\ shellReturn' = "failure"
  /\ UNCHANGED <<env, failed, combuf, took, children, cpa>>

NothingFromServer == srv = <<>> /\ "server" \in up

ReadUser ==
  /\ pc = "poll" /\ full = "no" /\ NothingFromServer /\ usr # <<>>
  /\ combuf' = combuf \o usr /\ usr' = <<>>
  /\ pc' = "user"
  /\ UNCHANGED <<replies, typed, srv, late, up, uploads, full, set, failed,
                 shellReturn, took, children, cpa>>

UserClosed ==
  /\ pc = "poll" /\ NothingFromServer /\ usr = <<>> /\ "user" \notin up
  /\ pc' = "ended" /\ shellReturn' = "success"
  /\ UNCHANGED <<env, failed, combuf, took, children, cpa>>

(* combuf is full and has no line: a read of no bytes returns 0, which is  *)
(* taken for the end of the stream that poll found readable.  The rest of  *)
(* the long line may come later than data of the other.                    *)
BufferFull ==
  /\ pc = "poll" /\ full # "no"
  /\ \/ (srv # <<>> \/ full = "server") /\ shellReturn' = "failure"
     \/ srv = <<>> /\ (usr # <<>> \/ full = "user") /\ shellReturn' = "success"
  /\ pc' = "ended"
  /\ UNCHANGED <<env, failed, combuf, took, children, cpa>>

(* poll fails, and not for a signal.                                       *)
PollFails ==
  /\ pc = "poll"
  /\ failed' = failed \cup {"poll"}
  /\ pc' = "ended" /\ shellReturn' = "failure"
  /\ UNCHANGED <<env, combuf, took, children, cpa>>

(* The next line of combuf ends with the first piece that ends a line.     *)
LineEnd == {k \in DOMAIN combuf : combuf[k].part = "tail"}
NextLine == SubSeq(combuf, 1, CHOOSE k \in LineEnd : \A j \in LineEnd : k <= j)

(* Mutant: combuf is flushed with the line.                                *)
TakeLine_Flush(loop) ==
  /\ pc = loop /\ LineEnd # {}
  /\ took' = Append(took, NextLine)
  /\ combuf' = <<>>
  /\ UNCHANGED env

TakeLine(loop) ==
  /\ pc = loop /\ LineEnd # {}
  /\ took' = Append(took, NextLine)
  /\ combuf' = SubSeq(combuf, Len(NextLine) + 1, Len(combuf))
  /\ UNCHANGED env

(* Mutant: shellReturn is not looked at after the lines.                   *)
LinesDone_GoesOn ==
  /\ pc \in {"server", "user"} /\ LineEnd = {}
  /\ pc' = "poll"
  /\ UNCHANGED <<env, failed, combuf, shellReturn, took, children, cpa>>

(* No line is left.  A reply of the server never ends the loop here, the   *)
(* user's lines do once shellReturn is set.                                *)
LinesDone ==
  /\ pc \in {"server", "user"} /\ LineEnd = {}
  /\ pc' = IF pc = "user" /\ shellReturn # "no" THEN "ended" ELSE "poll"
  /\ UNCHANGED <<env, failed, combuf, shellReturn, took, children, cpa>>

(* fork, addChildProcess.                                                  *)
ForkAs(kind, type, pid) ==
  /\ children' = Append(children, [kind |-> kind, state |-> "setup"])
  /\ cpa' = Append(cpa, [type |-> type, pid |-> pid])
NoFork == UNCHANGED <<children, cpa>>
NewPid == Len(children) + 1

(* consolemsg writes the message, or returns -1: the set is removed, or    *)
(* the wait was interrupted.                                               *)
Shown == set = "there" /\ "user" \in up /\ UNCHANGED failed
Refused == failed' = IF set = "removed" THEN failed ELSE failed \cup {"wait"}

(* processCode for a line that starts with its code; one that is to be     *)
(* shown and is refused returns -1.                                        *)
ServerLine ==
  /\ TakeLine("server")
  /\ Head(NextLine).part = "head"
  /\ \/ /\ CASE Head(NextLine).line = "TEXT" -> NoFork /\ Shown
            [] Head(NextLine).line = "RESULT" -> ForkAs("result", "r", NewPid) /\ UNCHANGED failed
            [] Head(NextLine).line = "SENDLIST" -> ForkAs("list", "u", 0) /\ UNCHANGED failed
        /\ UNCHANGED <<pc, shellReturn>>
     \/ /\ Head(NextLine).line = "TEXT" /\ NoFork /\ Refused
        /\ pc' = "ended" /\ shellReturn' = "failure"

(* A line without a code, or a fork that fails: -1.                        *)
ServerLineFails ==
  /\ TakeLine("server")
  /\ \/ Head(NextLine).part = "tail"
     \/ Head(NextLine).line # "TEXT"
  /\ NoFork /\ UNCHANGED failed
  /\ pc' = "ended" /\ shellReturn' = "failure"

(* processCommand with the protocol of the user: the word is found at the  *)
(* front of the line, whoever sent it.                                     *)
IsWord(word) == IF Head(NextLine).from = "user" THEN Head(NextLine).line = word ELSE word = "word"
UserLine(word) == TakeLine("user") /\ IsWord(word) /\ UNCHANGED pc

(* EXIT, and an action that failed, set shellReturn; the loop over the     *)
(* lines goes on.  EXIT does not look at what consolemsg returns.          *)
Exit == UserLine("EXIT") /\ (Shown \/ Refused) /\ shellReturn' = "success" /\ NoFork

Signalled(i) == \E k \in DOMAIN cpa : cpa[k].type = "d" /\ cpa[k].pid = i

(* sendSignalToChildren: SIGUSR1 ends a child that has no signalfd for it. *)
Show ==
  /\ UserLine("SHOW")
  /\ children' = [i \in DOMAIN children |->
       IF Signalled(i) /\ children[i].state = "setup"
       THEN [children[i] EXCEPT !.state = "killed"] ELSE children[i]]
  /\ UNCHANGED <<shellReturn, failed, cpa>>

Download ==
  /\ UserLine("DOWNLOAD") /\ UNCHANGED failed
  /\ \/ ForkAs("download", "d", NewPid) /\ UNCHANGED shellReturn
     \/ NoFork /\ shellReturn' = "failure"

(* One message for every entry of the results: none if there is no entry.  *)
Results ==
  /\ UserLine("RESULTS") /\ NoFork
  /\ \/ UNCHANGED <<failed, shellReturn>>
     \/ Refused /\ shellReturn' = "failure"

(* What the user or nobody knows goes to the server; HELP does as well and *)
(* prints.  The write fails only if the server is gone.                    *)
PassOn ==
  /\ NoFork
  /\ \/ UserLine("HELP") /\ Shown /\ UNCHANGED shellReturn
     \/ UserLine("HELP") /\ Refused /\ shellReturn' = "failure"
     \/ UserLine("word") /\ UNCHANGED <<failed, shellReturn>>
     \/ /\ \E w \in {"HELP", "word"} : UserLine(w)
        /\ "server" \notin up /\ UNCHANGED failed /\ shellReturn' = "failure"

(* A line that is written to an end that is gone: SIGPIPE kills main.      *)
WrittenTo(line) ==
  CASE line \in {"TEXT", "RESULTS", "EXIT"} -> {"user"}
    [] line = "HELP" -> {"server", "user"}
    [] line = "word" -> {"server"}
    [] OTHER -> {}

BrokenPipe ==
  /\ \/ /\ TakeLine("server")
        /\ Head(NextLine).part = "head" /\ WrittenTo(Head(NextLine).line) \ up # {}
     \/ /\ TakeLine("user")
        /\ \E w \in Input : IsWord(w) /\ WrittenTo(w) \ up # {}
  /\ pc' = "killed"
  /\ NoFork /\ UNCHANGED <<failed, shellReturn>>

(* A download calls getSigfd when it is connected; children end.           *)
ChildStep(i) ==
  /\ i \in DOMAIN children
  /\ \/ /\ children[i].state = "setup" /\ children[i].kind = "download"
        /\ children' = [children EXCEPT ![i].state = "copying"]
     \/ /\ children[i].state \in {"setup", "copying"}
        /\ children' = [children EXCEPT ![i].state = "ended"]
  /\ UNCHANGED <<env, failed, combuf, pc, shellReturn, took, cpa>>

ServerSide == ReadServer \/ ServerClosed \/ ServerLine \/ ServerLineFails
UserSide == ReadUser \/ UserClosed \/ Exit \/ Show \/ Download \/ Results \/ PassOn
Main == ServerSide \/ UserSide \/ BufferFull \/ BrokenPipe \/ LinesDone

Next ==
  \/ \E r \in Replies : ServerSends(r)
  \/ \E i \in Inputs : UserTypes(i)
  \/ \E end \in {"server", "user"} : Closes(end) \/ FillsUp(end)
  \/ TailArrives \/ OtherConnects \/ SetRemoved
  \/ Main \/ PollFails
  \/ \E i \in 1..MaxReplies + MaxInputs : ChildStep(i)

Spec == Init /\ [][Next]_vars
FairSpec == Spec /\ WF_vars(Main)
-----------------------------------------------------------------------------
(* Every line the user typed is taken once and in its order, also where it *)
(* got mixed with a line of the server.                                    *)
FromUser(s) == Only(s, UserPieces)
TypedOnce ==
  LET all == FromUser(FlattenSeq(took) \o combuf) \o usr
  IN  [k \in DOMAIN all |-> all[k].line] = typed

(* The client gives up only if the server is gone, a fork failed, a line   *)
(* of the server lost its beginning, consolemsg refused a line it was to   *)
(* show, combuf had no room for a line, or poll failed; it ends well only  *)
(* if the user wanted it to, or by a full combuf.  With whole lines none   *)
(* of the server's loses its beginning.                                    *)
Headless(l) == Head(l).from = "server" /\ Head(l).part = "tail"
TookOneOf(lines) == \E k \in DOMAIN took : Last(took[k]).line \in lines
MayRefuse == set = "removed" \/ "wait" \in failed
WhyItEnds ==
  /\ (pc = "ended" /\ shellReturn = "success") =>
       "user" \notin up \/ TookOneOf({"EXIT"}) \/ full # "no"
  /\ (pc = "ended" /\ shellReturn = "failure") =>
       \/ "server" \notin up
       \/ \E k \in DOMAIN took : Headless(took[k])
       \/ TookOneOf({"RESULT", "SENDLIST", "DOWNLOAD"})
       \/ MayRefuse /\ TookOneOf({"TEXT", "RESULTS", "HELP"})
       \/ full # "no" \/ "poll" \in failed
  /\ ~Cut => \A k \in DOMAIN took : ~Headless(took[k])

(* An EXIT that was typed ends the client, unless it became the tail of a  *)
(* reply; a server that closes the connection ends it in any case.  It may *)
(* be killed where it writes to an end that is gone.                       *)
Gone == pc \in {"ended", "killed"}
ExitGarbled == \E k \in DOMAIN took : Len(took[k]) > 1 /\ Last(took[k]).line = "EXIT"
ClientEnds ==
  /\ (\E k \in DOMAIN typed : typed[k] = "EXIT") ~> (Gone \/ ExitGarbled)
  /\ "server" \notin up ~> Gone
-----------------------------------------------------------------------------
(* tokenizer.h: getTokenFromStreamBuffer "expects a buffer that contains   *)
(* just the data that arrived from the stream".                            *)
OneStreamPerLine ==
  \A k \in DOMAIN took : \A p, q \in ToSet(took[k]) : p.from = q.from
=============================================================================
